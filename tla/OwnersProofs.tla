---------------------------- MODULE OwnersProofs ----------------------------
(***************************************************************************)
(* The layers together are inductive, and imply what Owners promises, for  *)
(* any number of owners and connections, any plans and any bounds.         *)
(***************************************************************************)
EXTENDS OwnersBarrier, OwnersWatch, TLAPS

USE ZenonT(30)

LEMMA OwnersInit == Init => OwnersInv
BY CoordinatorInit, BarrierInit, VisibleInit, TidyInit, JointInit, CapturedInit, WatchInit DEF OwnersInv

LEMMA OwnersStutters ==
    ASSUME OwnersInv, UNCHANGED vars
    PROVE  OwnersInv'
<1> USE DEF vars, switches, store, channels, clients
<1>1. CoordinatorInv'
  BY CoordinatorInvStep DEF OwnersInv
<1>2. BarrierInv'
  BY DEF OwnersInv, BarrierInv, Guarded, Held, OpenWhileHeld, JobsInPlace, NoReaders
<1>3. Visible'
  BY DEF OwnersInv, Visible, Clear, Broken, Alive, UpToDate, RecordsOf, InFlight, Pending, Abandoned
<1>4. Tidy'
  BY DEF OwnersInv, Tidy, Clear, Broken, Leftover, Tentative
<1>5. Joint'
  BY DEF OwnersInv, Joint
<1>6. Captured'
  BY DEF OwnersInv, Captured, RecordsOf
<1>7. ConnectionInv'
  <2>1. Places'
    BY DEF OwnersInv, ConnectionInv, Places, PlacesAt, WaitsAt
  <2>2. \A c : Watched(c)' = Watched(c)
    BY DEF Watched
  <2>3. \A c : Participants(c)' = Participants(c)
    BY <2>2 DEF Participants
  <2>4. Single'
    BY <2>3 DEF OwnersInv, ConnectionInv, Single
  <2>5. Watched(task.client)' = Watched(task.client)
    BY DEF Watched
  <2>6. Holder'
    BY <2>5 DEF OwnersInv, ConnectionInv, Holder
  <2> QED
    BY <2>1, <2>4, <2>6 DEF ConnectionInv
<1>8. Live' /\ Accepted'
  BY DEF OwnersInv, Live, Accepted
<1> QED
  BY <1>1, <1>2, <1>3, <1>4, <1>5, <1>6, <1>7, <1>8 DEF OwnersInv

LEMMA OwnersStep == OwnersInv /\ [Next]_vars => OwnersInv'
<1> SUFFICES ASSUME OwnersInv, [Next]_vars
             PROVE  OwnersInv'
  OBVIOUS
<1>1. CASE UNCHANGED vars
  BY <1>1, OwnersStutters
<1>2. CASE Next
  <2>0. CoordinatorInv /\ BarrierInv /\ Visible /\ Tidy /\ Joint /\ Captured /\ ConnectionInv /\ Live /\ Accepted
        /\ JobsInPlace
    BY DEF OwnersInv, BarrierInv
  <2>1. CoordinatorInv'
    BY <2>0, CoordinatorInvStep
  <2>2. BarrierInv'
    BY <1>2, <2>0, BarrierStep
  <2>3. Visible'
    BY <1>2, <2>0, VisibleStep
  <2>4. Tidy'
    BY <1>2, <2>0, TidyStep
  <2>5. Joint'
    BY <1>2, <2>0, <2>1, JointStep
  <2>6. Captured'
    BY <1>2, <2>0, <2>1, CapturedStep
  <2>7. ConnectionInv'
    BY <1>2, <2>0, ConnectionStep
  <2>8. Live'
    BY <1>2, <2>0, LiveStep
  <2>9. Accepted'
    BY <1>2, <2>0, AcceptedStep
  <2> QED
    BY <2>1, <2>2, <2>3, <2>4, <2>5, <2>6, <2>7, <2>8, <2>9 DEF OwnersInv
<1> QED
  BY <1>1, <1>2

LEMMA VisibilityFollows == OwnersInv => AtomicVisibility
<1> SUFFICES ASSUME OwnersInv,
                    \/ \E o \in Owner : requests[o] # <<>> \/ worker[o].job # NoJob
                    \/ admission /\ task.kind \in {"none", "freeze"},
                    NEW o \in Owner, Alive(o)
             PROVE  InStep(o)
  BY DEF AtomicVisibility
<1>0. task \in Task /\ Shape(task) /\ BarrierInv /\ Visible
  BY DEF OwnersInv, CoordinatorInv, TypeOK
<1>1. admission /\ task.kind \in {"none", "freeze"}
  BY <1>0 DEF BarrierInv, Guarded, Held, NoReaders
<1>2. task.phase \notin {"drop", "apply", "applywatch"}
  BY <1>0, <1>1 DEF Shape, PhasesOf
<1>3. Clear /\ Pending(o) = {}
  BY <1>1, <1>2, NotPending DEF Clear, Broken
<1>4. UpToDate(o)
  BY <1>0, <1>3 DEF Visible
<1> QED
  BY <1>3, <1>4 DEF UpToDate, InStep, InFlight

LEMMA JointFollows == OwnersInv => JointCommandIsAtomic
BY DEF OwnersInv, Joint, JointIn, Whole, JointCommandIsAtomic

LEMMA LeftoverFollows == OwnersInv => NoLeftoverTransaction
<1> SUFFICES ASSUME OwnersInv, admission, task.kind = "none", NEW o \in Owner
             PROVE  /\ ~coordinated[o].open
                    /\ ctl[o].phase \notin {"begin", "candidate", "accept", "seal", "apply", "abort"}
  BY DEF NoLeftoverTransaction
<1>1. task.phase = "none"
  BY DEF OwnersInv, CoordinatorInv, Shape, PhasesOf
<1>2. Leftover(o)
  BY <1>1 DEF OwnersInv, Tidy, Clear, Broken
<1> QED
  BY <1>1, <1>2 DEF Leftover, Tentative, Deciding

LEMMA WatchFollows == OwnersInv => WatchIsolation
<1> SUFFICES ASSUME OwnersInv
             PROVE  WatchIsolation
  OBVIOUS
<1>0. CoordinatorInv /\ TypeOK /\ BarrierInv /\ ConnectionInv /\ Live /\ Accepted /\ TokenTypes
  BY TokenTypesNow DEF OwnersInv, CoordinatorInv
<1>1. ASSUME NEW c \in Client, NEW o \in Watched(c), tokens[c][o] # "changed"
      PROVE  generation[o] = seen[c][o]
  <2>1. tokens[c][o] = "live" /\ o \in Owner
    BY <1>0, <1>1 DEF Watched, TokenTypes
  <2> QED
    BY <1>0, <2>1 DEF Live
<1>2. ASSUME task.kind = "exec", task.phase \in {"begin", "candidate", "accept", "seal", "append"},
             NEW o \in Watched(task.client)
      PROVE  generation[o] = seen[task.client][o]
  <2>1. task.client \in Client /\ o \in task.owners
    BY <1>0, <1>2 DEF ConnectionInv, Holder
  <2>2. tokens[task.client][o] # "changed"
    BY <1>0, <1>2, <2>1 DEF Accepted, Vetted, Vetting
  <2> QED
    BY <1>1, <2>1, <2>2
<1>3. ASSUME NEW o \in Owner, worker[o].job.kind = "exec", NEW p \in Watched(worker[o].job.client)
      PROVE  generation[p] = seen[worker[o].job.client][p]
  <2> DEFINE c == worker[o].job.client
  <2>1. c \in Client
    BY <1>0, <1>3 DEF BarrierInv, JobsInPlace, TypeOK, Worker, Job, Someone
  <2>2. WaitsAt(c, o) /\ cl[c].kind = "exec"
    BY <1>0, <1>3, <2>1, ClientAssumption DEF ConnectionInv, Places, PlacesAt
  <2>3. tokens[c][o] # "changed"
    BY <1>0, <1>3 DEF Accepted
  <2> HIDE DEF c
  <2>4. Watched(c) \subseteq {o}
    BY <1>0, <2>1, <2>2, WaitsIs, ParticipantsFacts
  <2>5. p = o
    BY <1>3, <2>4 DEF c
  <2> QED
    BY <1>1, <1>3, <2>1, <2>3, <2>5 DEF c
<1> QED
  BY <1>2, <1>3 DEF WatchIsolation

LEMMA Invariance == Spec => []OwnersInv
BY OwnersInit, OwnersStep, PTL DEF Spec

\* Every variable of the owners, the coordinator and the connections keeps its type.
THEOREM OwnersTypeCorrect == Spec => []TypeOK
<1>1. OwnersInv => TypeOK
  BY DEF OwnersInv, CoordinatorInv
<1> QED
  BY <1>1, Invariance, PTL

\* What several owners decide together is whole: a command over several owners is in
\* the decision of all of them or of none (prepare), and while a request is queued,
\* served or admitted every live store has exactly the records of the file that
\* concern it (run, run_watch, Publication).
THEOREM DecisionsAreAtomic == Spec => []DecisionIsAtomic
<1>1. OwnersInv => DecisionIsAtomic
  BY VisibilityFollows, JointFollows DEF DecisionIsAtomic
<1> QED
  BY <1>1, Invariance, PTL

\* However run ended, when the barrier is free and the admission open no owner has a
\* tentative transaction, and no control that would open, extend or apply one is on
\* its way.
THEOREM NothingIsLeftOver == Spec => []NoLeftoverTransaction
BY Invariance, LeftoverFollows, PTL

\* The images that freeze collects from the owners are one cut of the file.
THEOREM SnapshotsAreCuts == Spec => []SnapshotIsCut
<1>1. OwnersInv => SnapshotIsCut
  BY DEF OwnersInv, Captured, SnapshotIsCut
<1> QED
  BY <1>1, Invariance, PTL

\* EXEC takes effect only if no watched key has changed since WATCH, whether one
\* owner does it or the coordinator.
THEOREM WatchesIsolate == Spec => []WatchIsolation
BY Invariance, WatchFollows, PTL
=============================================================================
