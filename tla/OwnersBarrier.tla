---------------------------- MODULE OwnersBarrier ----------------------------
(***************************************************************************)
(* The barrier and what it protects, the layers from the second to the     *)
(* sixth: nothing is admitted while it is held, the stores have what the   *)
(* file has, nothing tentative outlives its coordinator, commands over     *)
(* several owners are accepted together, and a snapshot is a cut.          *)
(***************************************************************************)
EXTENDS OwnersTask, FiniteSetTheorems

USE ZenonT(30)

\* How the barrier changes hands.
LEMMA Hands ==
    ASSUME CoordinatorInv, Next
    PROVE  \/ task'.kind = task.kind /\ (task.phase = "release" => task'.phase = "release")
           \/ task'.kind = "none"
           \/ task.kind = "none" /\ NoReaders /\ admission /\ UNCHANGED <<admission, requests, worker>>
              /\ (UNCHANGED cl \/ \E c \in Client : PcOnly(c, "task"))
<1>0. task \in Task /\ Shape(task) /\ TypeOK
  BY DEF CoordinatorInv, TypeOK
<1> USE DEF switches, store, channels, clients
<1>1. CASE Quiet
  BY <1>1 DEF Quiet
<1>2. ASSUME NEW o \in Owner, Dies(o)
      PROVE  task' = task
  BY <1>2 DEF Dies
<1>3. ASSUME NEW o \in Owner, Handles(o)
      PROVE  task'.kind = task.kind /\ (task.phase = "release" => task'.phase = "release")
  <2>1. CASE ctl[o].wanted
    <3>1. SameOrder(task, task') /\ Asks(task)
      BY <1>3, <2>1, ControlAnswer, Wanted DEF Handles
    <3> QED
      BY <3>1 DEF SameOrder, Asks
  <2>2. CASE ~ctl[o].wanted
    BY <1>3, <2>2, ControlAnswer DEF Handles
  <2> QED
    BY <2>1, <2>2
<1>4. ASSUME NEW o \in Owner, Snapshot(o)
      PROVE  task'.kind = task.kind /\ task.phase # "release"
  BY <1>0, <1>4 DEF Snapshot, Task
<1>5. ASSUME NEW c \in Client, Acquires(c)
      PROVE  task.kind = "none" /\ NoReaders /\ admission /\ UNCHANGED <<admission, requests, worker>>
             /\ PcOnly(c, "task")
  BY <1>0, <1>5, PcFields DEF Acquires, AcquireGuard
<1>6. CASE SendControl
  BY <1>0, <1>6 DEF SendControl, Asking, Task
<1>7. CASE ControlFailed
  <2>1. task.kind \in {"exec", "watch"} /\ task' = Failed(task) /\ task.phase # "release"
    BY <1>7 DEF ControlFailed, Asking
  <2>2. FailedMove(task, task')
    BY <1>0, <2>1, FailedFacts
  <2> QED
    BY <2>1, <2>2 DEF FailedMove, SameDecision
<1>8. CASE AppendDecision
  <2>1. task.phase = "append"
    BY <1>8 DEF AppendDecision
  <2>2. task.kind \in {"exec", "watch"}
    BY <1>0, <2>1 DEF Shape, PhasesOf, Task, Tasks
  <2>3. task'.kind = task.kind
    BY <1>0, <1>8 DEF AppendDecision, Task, Application, Enter, Complete, Failed
  <2> QED
    BY <2>1, <2>3
<1>9. CASE DropPublication \/ FreezeEnd
  BY <1>0, <1>9 DEF DropPublication, FreezeEnd, Task
<1>10. CASE Release
  BY <1>10 DEF Release, NoTask
<1>11. CASE FreezeBegin
  BY <1>11 DEF FreezeBegin, AcquireGuard
<1> QED
  BY <1>1, <1>2, <1>3, <1>4, <1>5, <1>6, <1>7, <1>8, <1>9, <1>10, <1>11, StepCases

\* Who is kept out stays out.
LEMMA ClientsStayOut ==
    ASSUME TypeOK, NoReaders, Held, NEW c \in Client, ClientStep(c)
    PROVE  NoReaders'
<1>1. \A d \in Client : cl[d].pc # "reserve"
  BY DEF NoReaders
<1> SUFFICES /\ UNCHANGED <<requests, worker>>
             /\ \A d \in Client : cl'[d].pc # "reserve"
  BY DEF NoReaders
<1> USE DEF switches, store, channels, clients
<1>2. ASSUME PcOnly(c, "idle") \/ PcOnly(c, "task") \/ PcOnly(c, cl[c].pc)
      PROVE  \A d \in Client : cl'[d].pc # "reserve"
  BY <1>1, <1>2 DEF PcOnly
<1>3. ASSUME NEW op \in Ops[cl[c].role], Start(c, op)
      PROVE  /\ UNCHANGED <<requests, worker>> /\ \A d \in Client : cl'[d].pc # "reserve"
  <2>1. UNCHANGED <<requests, worker>>
    BY <1>3 DEF Start
  <2>2. /\ \A d \in Client : d # c => cl'[d] = cl[d]
        /\ cl'[c].pc \in {"admit", "acquire"}
    BY <1>3, StartFields
  <2> QED
    BY <1>1, <2>1, <2>2
<1>4. CASE Unwatch(c)
  BY <1>1, <1>4 DEF Unwatch
<1>5. CASE ReadAdmission(c)
  <2>1. Idle(c)
    BY <1>5 DEF ReadAdmission, Held
  <2> QED
    BY <1>2, <1>5, <2>1, IdleFields DEF ReadAdmission
<1>6. ~Enqueue(c)
  BY <1>1 DEF Enqueue
<1>7. CASE ClientTimeout(c)
  BY <1>2, <1>7, IdleFields, TimeoutFields DEF ClientTimeout
<1>8. CASE Unavailable(c)
  BY <1>2, <1>8, IdleFields DEF Unavailable
<1>9. CASE AcquireExclusive(c)
  BY <1>2, <1>9, IdleFields, PcFields DEF AcquireExclusive
<1> QED
  BY <1>3, <1>4, <1>5, <1>6, <1>7, <1>8, <1>9 DEF ClientStep

LEMMA OwnersStayOut ==
    ASSUME TypeOK, NoReaders, Held, JobsInPlace, NEW o \in Owner,
           WorkerStep(o) \/ Expire(o) \/ Snapshot(o) \/ TimePasses(o)
    PROVE  NoReaders'
<1>1. requests[o] = <<>> /\ worker[o].job = NoJob /\ NoJob.kind = "none" /\ NoJob.client = NoClient
  BY DEF NoReaders, NoJob
<1>2. ~Serve(o) /\ ~Persist(o) /\ ~ApplyPersisted(o) /\ ~Expire(o)
  BY <1>1 DEF Serve, Persist, ApplyPersisted, Expire, Held, JobsInPlace
<1> USE DEF switches, store, channels, clients
<1>3. CASE StopRequests(o) \/ Snapshot(o) \/ TimePasses(o)
  BY <1>3 DEF StopRequests, Snapshot, TimePasses, NoReaders
<1>4. CASE StopOnFailure(o) \/ StopWorker(o) \/ StaleControl(o)
  <2>1. UNCHANGED cl /\ \E pc \in Dead : Die(o, pc)
    BY <1>4 DEF StopOnFailure, StopWorker, StaleControl, Dead
  <2> QED
    BY <2>1, DieFields DEF NoReaders
<1>5. CASE Handles(o)
  <2>1. UNCHANGED <<requests, worker, cl>>
    BY <1>5 DEF Handles, ControlStep, Probe, Clock, CheckWatches, Begin, Candidate, Accept, Seal,
                Abort, PrepareWatch, Apply, ApplyWatch
  <2> QED
    BY <2>1 DEF NoReaders
<1> QED
  BY <1>2, <1>3, <1>4, <1>5 DEF WorkerStep, Handles

LEMMA CoordinatorStaysOut ==
    ASSUME TypeOK, NoReaders, CoordinatorStep \/ FreezeBegin \/ Shutdown
    PROVE  NoReaders'
<1> USE DEF switches, store, channels, clients
<1>1. UNCHANGED <<requests, worker>>
  BY DEF CoordinatorStep, SendControl, ControlFailed, AppendDecision, DropPublication, Release,
         FreezeEnd, FreezeBegin, Shutdown
<1>2. CASE UNCHANGED cl
  BY <1>1, <1>2 DEF NoReaders
<1>3. CASE Release /\ cl' # cl
  <2>1. cl' = [cl EXCEPT ![task.client].pc = "idle", ![task.client].gone = FALSE]
    BY <1>3 DEF Release
  <2>2. task.client \in Client
    BY <1>3, <2>1 DEF TypeOK
  <2>3. PcOnly(task.client, "idle")
    BY <2>1, <2>2, GoneFields
  <2> QED
    BY <1>1, <2>3 DEF NoReaders, PcOnly
<1> QED
  BY <1>2, <1>3 DEF CoordinatorStep, SendControl, ControlFailed, AppendDecision, DropPublication,
                    FreezeEnd, FreezeBegin, Shutdown

\* Only Publication::drop closes the admission.
LEMMA AdmissionStep ==
    ASSUME CoordinatorInv, Next
    PROVE  admission' = admission \/ (task.phase = "drop" /\ task'.phase = "release" /\ task'.kind = task.kind
                                      /\ task.kind # "none" /\ admission' = (admission /\ ~task.publication))
<1>1. CASE DropPublication
  <2>1. task \in Task /\ Shape(task)
    BY DEF CoordinatorInv, TypeOK
  <2>2. task.phase = "drop" /\ task' = [task EXCEPT !.phase = "release"]
        /\ admission' = (admission /\ ~task.publication)
    BY <1>1 DEF DropPublication
  <2>3. task.kind # "none" /\ task'.kind = task.kind /\ task'.phase = "release"
    BY <2>1, <2>2 DEF Task, Shape, PhasesOf
  <2> QED
    BY <2>2, <2>3
<1>2. CASE ~DropPublication
  <2> USE DEF switches
  <2>1. ASSUME NEW c \in Client, ClientStep(c)
        PROVE  admission' = admission
    BY <2>1 DEF ClientStep, Start, Unwatch, ReadAdmission, Enqueue, ClientTimeout, Unavailable,
                AcquireExclusive
  <2>2. ASSUME NEW o \in Owner, WorkerStep(o) \/ Expire(o) \/ Snapshot(o) \/ TimePasses(o)
        PROVE  admission' = admission
    <3>1. CASE ControlStep(o)
      BY <3>1 DEF ControlStep, Probe, Clock, CheckWatches, Begin, Candidate, Accept, Seal, Abort,
                  PrepareWatch, Apply, ApplyWatch, StaleControl
    <3> QED
      BY <2>2, <3>1 DEF WorkerStep, StopRequests, StopOnFailure, Serve, Persist, ApplyPersisted,
                        StopWorker, Expire, Snapshot, TimePasses
  <2>3. CASE CoordinatorStep \/ FreezeBegin \/ Shutdown
    BY <1>2, <2>3 DEF CoordinatorStep, SendControl, ControlFailed, AppendDecision, Release,
                      FreezeEnd, FreezeBegin, Shutdown
  <2> QED
    BY <2>1, <2>2, <2>3 DEF Next
<1> QED
  BY <1>1, <1>2

LEMMA JobsStep ==
    ASSUME CoordinatorInv, JobsInPlace, Next
    PROVE  JobsInPlace'
<1>0. TypeOK /\ worker \in [Owner -> Worker] /\ requests \in [Owner -> Seq(Client)]
      /\ cl \in [Client -> Connection]
  BY DEF CoordinatorInv, TypeOK
<1>1. \A o \in Owner : JobInPlace(worker[o], requests[o])
  BY DEF JobsInPlace, JobInPlace
<1> SUFFICES \A o \in Owner : JobInPlace(worker'[o], requests'[o])
  BY DEF JobsInPlace, JobInPlace
<1> USE DEF switches, store, channels, clients
<1>2. ASSUME UNCHANGED <<worker, requests>>
      PROVE  \A o \in Owner : JobInPlace(worker'[o], requests'[o])
  BY <1>1, <1>2
<1>3. ASSUME NEW o \in Owner, JobInPlace(worker'[o], requests'[o]),
             \A p \in Owner : p # o => worker'[p] = worker[p] /\ requests'[p] = requests[p]
      PROVE  \A p \in Owner : JobInPlace(worker'[p], requests'[p])
  BY <1>1, <1>3
<1>4. JobInPlace([pc |-> "select", job |-> NoJob], <<>>)
      /\ \A q : JobInPlace([pc |-> "select", job |-> NoJob], q)
      /\ \A pc \in Dead : JobInPlace([pc |-> pc, job |-> NoJob], <<>>)
  BY DEF JobInPlace, NoJob, Dead
<1>5. ASSUME NEW o \in Owner, NEW pc \in Dead, Die(o, pc)
      PROVE  \A p \in Owner : JobInPlace(worker'[p], requests'[p])
  <2>1. worker'[o] = [pc |-> pc, job |-> NoJob] /\ requests'[o] = <<>>
    BY <1>0, <1>5 DEF Die
  <2>2. \A p \in Owner : p # o => worker'[p] = worker[p] /\ requests'[p] = requests[p]
    BY <1>0, <1>5, DieFields
  <2> QED
    BY <1>3, <1>4, <2>1, <2>2
<1>6. ASSUME NEW o \in Owner, NEW w, worker' = [worker EXCEPT ![o] = w],
             JobInPlace(w, requests'[o]), \A p \in Owner : p # o => requests'[p] = requests[p]
      PROVE  \A p \in Owner : JobInPlace(worker'[p], requests'[p])
  <2>1. worker'[o] = w /\ \A p \in Owner : p # o => worker'[p] = worker[p]
    BY <1>0, <1>6
  <2> QED
    BY <1>3, <1>6, <2>1
<1>7. ASSUME NEW c \in Client, ClientStep(c)
      PROVE  \A p \in Owner : JobInPlace(worker'[p], requests'[p])
  <2>1. CASE Enqueue(c)
    <3>1. PICK o \in Owner : requests' = [requests EXCEPT ![o] = Append(@, c)] /\ worker[o].pc \notin Dead
      BY <1>0, <2>1, ParticipantsFacts DEF Enqueue
    <3>2. UNCHANGED worker
      BY <2>1 DEF Enqueue
    <3>3. JobInPlace(worker'[o], requests'[o])
      BY <1>1, <3>1, <3>2 DEF JobInPlace
    <3> QED
      BY <1>0, <1>3, <3>1, <3>2, <3>3
  <2>2. CASE ~Enqueue(c)
    <3>1. UNCHANGED <<worker, requests>>
      BY <1>7, <2>2 DEF ClientStep, Start, Unwatch, ReadAdmission, ClientTimeout, Unavailable,
                        AcquireExclusive
    <3> QED
      BY <1>2, <3>1
  <2> QED
    BY <2>1, <2>2
<1>8. ASSUME NEW o \in Owner, WorkerStep(o) \/ Expire(o) \/ Snapshot(o) \/ TimePasses(o)
      PROVE  \A p \in Owner : JobInPlace(worker'[p], requests'[p])
  <2>1. CASE StopRequests(o) \/ Snapshot(o) \/ TimePasses(o) \/ Handles(o)
    <3>1. CASE Handles(o)
      BY <1>2, <3>1 DEF Handles, ControlStep, Probe, Clock, CheckWatches, Begin, Candidate, Accept,
                        Seal, Abort, PrepareWatch, Apply, ApplyWatch
    <3> QED
      BY <1>2, <2>1, <3>1 DEF StopRequests, Snapshot, TimePasses
  <2>2. CASE StopOnFailure(o) \/ StopWorker(o) \/ StaleControl(o)
    <3>1. \E pc \in Dead : Die(o, pc)
      BY <2>2 DEF StopOnFailure, StopWorker, StaleControl, Dead
    <3> QED
      BY <1>5, <3>1
  <2>3. CASE Expire(o)
    <3> DEFINE w == [pc |-> "append", job |-> [kind |-> "expire", client |-> NoClient,
                                               generation |-> generation[o], position |-> 0]]
    <3>1. worker' = [worker EXCEPT ![o] = w] /\ UNCHANGED requests
      BY <2>3 DEF Expire
    <3>2. JobInPlace(w, requests'[o])
      BY DEF JobInPlace, Dead
    <3> HIDE DEF w
    <3> QED
      BY <1>6, <3>1, <3>2
  <2>4. CASE Serve(o)
    <3> DEFINE c == Head(requests[o])
               w == [pc |-> "append", job |-> [kind |-> cl[c].kind, client |-> c,
                                               generation |-> generation[o], position |-> 0]]
    <3>1. requests[o] \in Seq(Client) /\ requests[o] # <<>>
          /\ requests' = [requests EXCEPT ![o] = Tail(@)]
      BY <1>0, <2>4 DEF Serve
    <3>2. c \in Client
      BY SMTT(30), <3>1
    <3>3. c # NoClient
      BY <3>2, ClientAssumption
    <3>4. JobInPlace(w, requests'[o])
      BY <3>3 DEF JobInPlace, Dead
    <3>5. \A p \in Owner : p # o => requests'[p] = requests[p]
      BY <1>0, <3>1
    <3>6. CASE worker' = [worker EXCEPT ![o] = w]
      BY <1>6, <3>4, <3>5, <3>6
    <3>7. CASE UNCHANGED worker
      <4>1. worker[o].pc = "select"
        BY <2>4 DEF Serve, Selecting
      <4>2. JobInPlace(worker'[o], requests'[o])
        BY <1>1, <3>7, <4>1 DEF JobInPlace, Dead
      <4> QED
        BY <1>3, <3>5, <3>7, <4>2
    <3> QED
      BY <2>4, <3>6, <3>7 DEF Serve
  <2>5. CASE Persist(o)
    <3> DEFINE n == Len(Append(log, Record({o}, Origin(worker[o].job.kind))))
    <3>1. \/ /\ worker' = [worker EXCEPT ![o].pc = "apply", ![o].job.position = n]
             /\ UNCHANGED requests
          \/ /\ worker' = [worker EXCEPT ![o] = [pc |-> "select", job |-> NoJob]]
             /\ UNCHANGED requests
          \/ Die(o, "stopped")
      BY <2>5 DEF Persist
    <3> HIDE DEF n
    <3>2. CASE /\ worker' = [worker EXCEPT ![o].pc = "apply", ![o].job.position = n]
               /\ UNCHANGED requests
      <4>1. worker[o] \in Worker /\ worker[o].job \in Job /\ worker[o].pc = "append"
        BY <1>0, <2>5 DEF Worker, Persist
      <4>2. /\ worker'[o].pc = "apply" /\ worker'[o].job.client = worker[o].job.client
            /\ worker'[o].job.kind = worker[o].job.kind
        BY <1>0, <3>2, <4>1 DEF Worker, Job
      <4>3. JobInPlace(worker'[o], requests'[o])
        BY <1>1, <4>1, <4>2 DEF JobInPlace, Dead
      <4>4. \A p \in Owner : p # o => worker'[p] = worker[p]
        BY <1>0, <3>2
      <4> QED
        BY <1>3, <3>2, <4>3, <4>4
    <3>3. CASE /\ worker' = [worker EXCEPT ![o] = [pc |-> "select", job |-> NoJob]]
               /\ UNCHANGED requests
      BY <1>4, <1>6, <3>3
    <3>4. CASE Die(o, "stopped")
      BY <1>5, <3>4 DEF Dead
    <3> QED
      BY <3>1, <3>2, <3>3, <3>4
  <2>6. CASE ApplyPersisted(o)
    <3>1. \/ Die(o, "panicked")
          \/ /\ worker' = [worker EXCEPT ![o] = [pc |-> "select", job |-> NoJob]]
             /\ UNCHANGED requests
      BY <2>6 DEF ApplyPersisted
    <3>2. CASE /\ worker' = [worker EXCEPT ![o] = [pc |-> "select", job |-> NoJob]]
               /\ UNCHANGED requests
      BY <1>4, <1>6, <3>2
    <3>3. CASE Die(o, "panicked")
      BY <1>5, <3>3 DEF Dead
    <3> QED
      BY <3>1, <3>2, <3>3
  <2> QED
    BY <1>8, <2>1, <2>2, <2>3, <2>4, <2>5, <2>6 DEF WorkerStep, Handles
<1>9. CASE CoordinatorStep \/ FreezeBegin \/ Shutdown
  <2>1. UNCHANGED <<worker, requests>>
    BY <1>9 DEF CoordinatorStep, SendControl, ControlFailed, AppendDecision, DropPublication,
                Release, FreezeEnd, FreezeBegin, Shutdown
  <2> QED
    BY <1>2, <2>1
<1> QED
  BY <1>7, <1>8, <1>9 DEF Next

LEMMA BarrierStep ==
    ASSUME CoordinatorInv, BarrierInv, Next
    PROVE  BarrierInv'
<1>0. TypeOK /\ admission \in BOOLEAN
  BY DEF CoordinatorInv, TypeOK
<1>1. JobsInPlace'
  BY JobsStep DEF BarrierInv
<1>2. OpenWhileHeld'
  BY Hands, AdmissionStep DEF BarrierInv, OpenWhileHeld
<1>3. ASSUME Held, NoReaders
      PROVE  NoReaders'
  BY <1>0, <1>3, ClientsStayOut, OwnersStayOut, CoordinatorStaysOut DEF Next, BarrierInv
<1>4. Guarded'
  <2> SUFFICES ASSUME Held'
               PROVE  NoReaders'
    BY DEF Guarded
  <2>1. CASE Held
    BY <1>3, <2>1 DEF BarrierInv, Guarded
  <2>2. CASE ~Held
    <3>1. task.kind = "none" /\ admission /\ admission' = admission
      BY <2>2, AdmissionStep DEF Held
    <3>2. /\ NoReaders /\ UNCHANGED <<requests, worker>>
          /\ UNCHANGED cl \/ \E c \in Client : PcOnly(c, "task")
      BY <1>0, <3>1, Hands DEF Held
    <3> QED
      BY <3>2 DEF NoReaders, PcOnly
  <2> QED
    BY <2>1, <2>2
<1> QED
  BY <1>1, <1>2, <1>4 DEF BarrierInv

LEMMA BarrierInit == Init => BarrierInv
<1> SUFFICES ASSUME Init PROVE BarrierInv
  OBVIOUS
<1>1. admission /\ task.kind = "none"
  BY DEF Init, NoTask
<1>2. JobsInPlace
  BY DEF Init, JobsInPlace, NoJob, Dead
<1> QED
  BY <1>1, <1>2 DEF BarrierInv, Guarded, Held, OpenWhileHeld

\* A drop is followed by nothing but the release.
LEMMA DropStep ==
    ASSUME CoordinatorInv, Next, task.phase = "drop"
    PROVE  task' = task \/ DropPublication
<1>0. task \in Task /\ Shape(task) /\ task.kind # "none"
  BY DEF CoordinatorInv, TypeOK, Shape, PhasesOf
<1>1. CASE Quiet
  BY <1>1 DEF Quiet
<1>2. ASSUME NEW o \in Owner, Dies(o) \/ Handles(o) \/ Snapshot(o)
      PROVE  task' = task
  <2>1. ~ctl[o].wanted
    BY Wanted DEF Asks
  <2> QED
    BY <1>2, <2>1, ControlAnswer DEF Dies, Handles, Snapshot
<1>3. ~(\E c \in Client : Acquires(c)) /\ ~FreezeBegin
  BY <1>0 DEF Acquires, AcquireGuard, FreezeBegin
<1>4. ~SendControl /\ ~ControlFailed /\ ~AppendDecision /\ ~Release /\ ~FreezeEnd
  BY DEF SendControl, ControlFailed, AppendDecision, Release, FreezeEnd, Asking
<1> QED
  BY <1>1, <1>2, <1>3, <1>4, StepCases

\* What is broken stays so until the admission is closed, and that for good.
LEMMA ClearBefore ==
    ASSUME CoordinatorInv, Next, Clear'
    PROVE  Clear
<1>0. task \in Task /\ admission \in BOOLEAN
  BY DEF CoordinatorInv, TypeOK
<1>1. admission /\ (task.phase = "drop" /\ task'.phase = "release" => ~task.publication \/ admission' = admission)
  BY <1>0, AdmissionStep DEF Clear
<1>2. ASSUME Broken
      PROVE  FALSE
  <2>1. CASE task' = task
    BY <1>2, <2>1 DEF Broken, Clear
  <2>2. CASE DropPublication
    BY <1>2, <2>2 DEF Broken, Clear, DropPublication
  <2> QED
    BY <1>2, <2>1, <2>2, DropStep DEF Broken
<1> QED
  BY <1>1, <1>2 DEF Clear

-----------------------------------------------------------------------------

\* An abandoned application was abandoned by a coordinator that had a publication.
LEMMA AbandonedStep ==
    ASSUME CoordinatorInv, Next, Clear', Visible, NEW o \in Owner, Abandoned(o)'
    PROVE  FALSE
<1>0. Clear /\ ~Abandoned(o)
  BY ClearBefore DEF Visible
<1>1. /\ task \in Task /\ Shape(task) /\ ctl \in [Owner -> ControlType]
  BY DEF CoordinatorInv, TypeOK
<1>2. ctl'[o] # ctl[o]
  BY <1>0 DEF Abandoned
<1>3. ctl'[o] # NoControl
  BY NothingTypes DEF Abandoned
<1>4. ASSUME NEW p \in Owner, ctl' = [ctl EXCEPT ![p] = NoControl]
      PROVE  FALSE
  BY <1>1, <1>2, <1>3, <1>4
<1>5. CASE SendControl
  <2>1. Asks(task)
    BY <1>5 DEF SendControl, Asking, Asks
  <2>2. FirstOwner(task.todo) \in Owner /\ ctl' = [ctl EXCEPT ![FirstOwner(task.todo)] = Control(task, FirstOwner(task.todo))]
    BY <1>1, <1>5, <2>1, FirstOwnerIn DEF SendControl, Shape, Task
  <2>3. ctl'[o] = Control(task, o)
    BY <1>1, <1>2, <2>2
  <2> QED
    BY <1>1, <2>3, ControlFields DEF Abandoned
<1>6. CASE ControlFailed
  <2>1. Asks(task) /\ task' = Failed(task)
    BY <1>6 DEF ControlFailed, Asking, Asks
  <2>2. FirstOwner(task.todo) \in task.todo /\ FirstOwner(task.todo) \in Owner
    BY <1>1, <2>1, FirstOwnerIn DEF Shape, Task
  <2>3. o = FirstOwner(task.todo) /\ ctl'[o] = [ctl[o] EXCEPT !.wanted = FALSE]
    BY <1>1, <1>2, <1>6, <2>2 DEF ControlFailed
  <2>4. ctl[o] \in ControlType
    BY <1>1
  <2>5. ctl'[o].phase = ctl[o].phase /\ ctl'[o].prepared = ctl[o].prepared
    BY <2>3, <2>4, UnwantedFields
  <2>6. ctl[o].wanted
    BY <1>0, <2>5 DEF Abandoned
  <2>7. task.phase \in {"apply", "applywatch"} /\ task.prepared[o].mutates
    BY <2>5, <2>6, Wanted DEF Abandoned
  <2>8. o \in Mutating(task)
    BY <1>1, <2>1, <2>2, <2>3, <2>7 DEF Mutating, Shape
  <2>9. task.publication
    BY <1>1, <2>7, <2>8 DEF Shape, Publishing, PhasesOf, Tasks, Task
  <2>10. FailedMove(task, task')
    BY <1>1, <2>1, FailedFacts DEF Asks
  <2>11. Broken'
    BY <2>7, <2>9, <2>10 DEF FailedMove, Broken
  <2> QED
    BY <2>11 DEF Clear
<1>7. CASE UNCHANGED ctl
  BY <1>2, <1>7
<1>8. UNCHANGED ctl \/ (\E p \in Owner : ctl' = [ctl EXCEPT ![p] = NoControl]) \/ SendControl \/ ControlFailed
  <2> USE DEF switches, store, channels, clients
  <2>1. ASSUME NEW p \in Owner, Dies(p) \/ Handles(p) \/ Snapshot(p)
        PROVE  UNCHANGED ctl \/ ctl' = [ctl EXCEPT ![p] = NoControl]
    BY <2>1, ControlAnswer DEF Dies, Handles, Snapshot
  <2> QED
    BY <2>1, StepCases DEF Quiet, Acquires, AppendDecision, DropPublication, Release, FreezeBegin,
                           FreezeEnd
<1> QED
  BY <1>4, <1>5, <1>6, <1>7, <1>8

\* What is not pending before or after a step.
LEMMA NotPending ==
    ASSUME NEW o, task.phase \notin {"apply", "applywatch"}
    PROVE  Pending(o) = {}
BY DEF Pending

LEMMA NotMutating ==
    ASSUME NEW o, Mutating(task) = {}
    PROVE  Pending(o) = {}
BY DEF Pending

\* The task of WATCH or EXEC gives up in the clear only if it has nothing to apply.
LEMMA FailedPending ==
    ASSUME CoordinatorInv, task.kind \in {"exec", "watch"}, FailedMove(task, task'), ~Broken',
           NEW o \in Owner
    PROVE  Pending(o)' = {} /\ Pending(o) = {}
<1>0. task \in Task /\ Shape(task)
  BY DEF CoordinatorInv, TypeOK
<1>1. task'.phase \in {"abort", "drop"} /\ task'.publication = task.publication
  BY DEF FailedMove
<1>2. Pending(o)' = {}
  BY <1>1 DEF Pending
<1>3. CASE task.phase \in {"apply", "applywatch"}
  <2>1. ~task.publication
    BY <1>1, <1>3 DEF FailedMove, Broken
  <2>2. Mutating(task) = {}
    BY <1>0, <1>3, <2>1 DEF Shape, PhasesOf, Publishing
  <2> QED
    BY <1>2, <2>2, NotMutating
<1> QED
  BY <1>2, <1>3, NotPending

\* A control of the phases before the application leaves nothing pending.
LEMMA MovePending ==
    ASSUME CoordinatorInv, NEW o \in Owner, Handles(o), task.phase \notin {"apply", "applywatch"},
           ~Broken', ctl[o].wanted, NEW p \in Owner
    PROVE  Pending(p)' = {} /\ Pending(p) = {}
<1>0. task \in Task /\ Shape(task) /\ task.kind \in {"exec", "watch"}
  BY Wanted
<1>1. Pending(p) = {}
  BY NotPending
<1>2. CASE FailedMove(task, task')
  BY <1>0, <1>2, FailedPending
<1>3. CASE Refuses
  BY <1>1, <1>3 DEF Refuses, Pending
<1>4. ASSUME NEW u, Gathers(task, u, o), SameDecision(u, task'), Move(u, task', o)
      PROVE  Pending(p)' = {}
  <2>1. u.phase = task.phase
    BY <1>4 DEF Gathers, Collects
  <2>2. CASE task'.phase \notin {"apply", "applywatch"}
    BY <2>2 DEF Pending
  <2>3. CASE task'.phase \in {"apply", "applywatch"}
    <3>1. Advance(u, task')
      BY <1>4, <2>1, <2>3 DEF Move
    <3>2. DecideMove(u, task')
      BY <2>1, <2>3, <3>1 DEF Advance, NextCommandMove
    <3>3. Mutating(u) = {}
      BY <2>3, <3>2 DEF DecideMove
    <3>4. Mutating(task') = {}
      BY <1>4, <3>3, SameMutating
    <3> QED
      BY <3>4 DEF Pending
  <2> QED
    BY <2>2, <2>3
<1> QED
  BY <1>1, <1>2, <1>3, <1>4, HandlesMoves DEF Moves

LEMMA PendingStays ==
    ASSUME CoordinatorInv, Next, ~Broken', ~AppendDecision,
           \A p \in Owner : ~Apply(p) /\ ~ApplyWatch(p), NEW o \in Owner
    PROVE  Pending(o)' = Pending(o)
<1>0. task \in Task /\ Shape(task)
  BY DEF CoordinatorInv, TypeOK
<1>1. ASSUME task' = task
      PROVE  Pending(o)' = Pending(o)
  BY <1>1 DEF Pending, Mutating
<1>2. ASSUME task.phase \notin {"apply", "applywatch"}, task'.phase \notin {"apply", "applywatch"}
      PROVE  Pending(o)' = Pending(o)
  BY <1>2 DEF Pending
<1>3. ASSUME NEW p \in Owner, Handles(p)
      PROVE  Pending(o)' = Pending(o)
  <2>1. ctl[p].phase \notin {"apply", "applywatch"}
    BY <1>3 DEF Handles, ControlStep, Probe, Clock, CheckWatches, Begin, Candidate, Accept, Seal,
                Abort, PrepareWatch, Receives
  <2>2. CASE ctl[p].wanted
    <3>1. task.phase \notin {"apply", "applywatch"}
      BY <2>1, <2>2, Wanted
    <3> QED
      BY <1>3, <2>2, <3>1, MovePending
  <2>3. CASE ~ctl[p].wanted
    BY <1>1, <1>3, <2>3, ControlAnswer DEF Handles
  <2> QED
    BY <2>2, <2>3
<1>4. CASE \E p \in Owner : Dies(p)
  BY <1>1, <1>4 DEF Dies
<1>5. CASE \E p \in Owner : Snapshot(p)
  <2>1. task'.phase \in {"captured", task.phase} /\ task.phase = "capture"
    BY <1>0, <1>5 DEF Snapshot, Task
  <2> QED
    BY <1>2, <2>1
<1>6. CASE \E c \in Client : Acquires(c)
  <2>1. task'.phase \in {"probe", "prepare"}
    BY <1>6, AcquiresFacts
  <2>2. task.kind = "none"
    BY <1>6 DEF Acquires, AcquireGuard
  <2>3. task.phase = "none"
    BY <1>0, <2>2 DEF Shape, PhasesOf
  <2> QED
    BY <1>2, <2>1, <2>3
<1>7. CASE SendControl
  <2>1. /\ task'.phase = task.phase /\ task'.todo = task.todo /\ task'.owners = task.owners
        /\ task'.prepared = task.prepared /\ task'.position = task.position
    BY <1>0, <1>7 DEF SendControl, Task
  <2> QED
    BY <2>1 DEF Pending, Mutating
<1>8. CASE ControlFailed
  <2>1. task.kind \in {"exec", "watch"} /\ task' = Failed(task)
    BY <1>8 DEF ControlFailed, Asking
  <2> QED
    BY <1>0, <2>1, FailedFacts, FailedPending
<1>9. CASE DropPublication \/ FreezeEnd
  BY <1>0, <1>2, <1>9 DEF DropPublication, FreezeEnd, Task
<1>10. CASE Release
  BY <1>2, <1>10 DEF Release, NoTask
<1>11. CASE FreezeBegin
  <2>1. task.kind = "none" /\ task'.phase = "capture"
    BY <1>11 DEF FreezeBegin, AcquireGuard, NoTask
  <2>2. task.phase = "none"
    BY <1>0, <2>1 DEF Shape, PhasesOf
  <2> QED
    BY <1>2, <2>1, <2>2
<1> QED
  BY <1>1, <1>3, <1>4, <1>5, <1>6, <1>7, <1>8, <1>9, <1>10, <1>11, StepCases DEF Quiet

\* A longer file has one more record for the owners it names.
LEMMA LongerRecords ==
    ASSUME TypeOK, NEW S, NEW origin, log' = Append(log, Record(S, origin)), NEW o
    PROVE  /\ RecordsOf(o)' = RecordsOf(o) \cup (IF o \in S THEN {Len(log) + 1} ELSE {})
           /\ Len(log') = Len(log) + 1
<1>0. log \in Seq(LogRecord)
  BY DEF TypeOK
<1> DEFINE r == Record(S, origin)
<1>1. r.owners = S
  BY DEF Record
<1>2. /\ Len(log') = Len(log) + 1 /\ DOMAIN log' = 1..(Len(log) + 1) /\ DOMAIN log = 1..Len(log)
      /\ Len(log) \in Nat /\ log'[Len(log) + 1] = r
      /\ \A i \in 1..Len(log) : log'[i] = log[i]
  <2> HIDE DEF r
  <2>1. log' = Append(log, r)
    BY DEF r
  <2> QED
    BY SMTT(30), <1>0, <2>1
<1> HIDE DEF r
<1>3. RecordsOf(o)' = {i \in DOMAIN log' : o \in log'[i].owners}
  BY DEF RecordsOf
<1> QED
  BY SMTT(30), <1>1, <1>2, <1>3 DEF RecordsOf

LEMMA OneJob ==
    ASSUME CoordinatorInv, BarrierInv, NEW o \in Owner, worker[o].pc \in {"append", "apply"}
    PROVE  task.kind = "none" /\ task.phase = "none" /\ admission
           /\ \A p \in Owner : Pending(p) = {}
<1>1. worker[o].job # NoJob
  BY SMTT(30) DEF BarrierInv, JobsInPlace, NoJob
<1>2. task.kind = "none" /\ admission
  BY <1>1 DEF BarrierInv, Guarded, Held, NoReaders
<1>3. task.phase = "none"
  BY <1>2 DEF CoordinatorInv, Shape, PhasesOf
<1> QED
  BY <1>2, <1>3, NotPending

LEMMA PersistVisible ==
    ASSUME CoordinatorInv, BarrierInv, NEW o \in Owner, Persist(o),
           \A p \in Owner : Alive(p) => UpToDate(p), NEW p \in Owner, Alive(p)'
    PROVE  UpToDate(p)'
<1>0. TypeOK /\ worker \in [Owner -> Worker] /\ log \in Seq(LogRecord)
  BY DEF CoordinatorInv, TypeOK
<1> DEFINE job == worker[o].job
           longer == Append(log, Record({o}, Origin(job.kind)))
<1>1. worker[o].pc = "append" /\ UNCHANGED <<task, applied>>
  BY DEF Persist, store
<1>2. \A q \in Owner : Pending(q) = {} /\ Pending(q)' = {}
  BY <1>1, OneJob DEF Pending
<1>3. ASSUME log' = longer
      PROVE  RecordsOf(p)' = RecordsOf(p) \cup (IF p = o THEN {Len(longer)} ELSE {})
  <2>1. RecordsOf(p)' = RecordsOf(p) \cup (IF p \in {o} THEN {Len(log) + 1} ELSE {})
        /\ Len(log') = Len(log) + 1
    BY <1>0, <1>3, LongerRecords
  <2> QED
    BY <1>3, <2>1
<1>4. ASSUME log' = log
      PROVE  RecordsOf(p)' = RecordsOf(p)
  BY <1>4 DEF RecordsOf
<1>5. CASE log' = longer /\ worker' = [worker EXCEPT ![o].pc = "apply", ![o].job.position = Len(longer)]
  <2>1. worker'[o].pc = "apply" /\ worker'[o].job.position = Len(longer)
        /\ \A q \in Owner : q # o => worker'[q] = worker[q]
    <3> HIDE DEF longer
    <3> QED
      BY <1>0, <1>5 DEF Worker, Job
  <2>2. InFlight(p)' = IF p = o THEN {Len(longer)} ELSE InFlight(p)
    <3> HIDE DEF longer
    <3> QED
      BY <2>1 DEF InFlight
  <2>3. p = o => InFlight(p) = {}
    BY <1>1 DEF InFlight
  <2>4. Alive(p)
    BY <1>1, <2>1 DEF Alive, Dead
  <2> HIDE DEF longer
  <2> QED
    BY <1>1, <1>2, <1>3, <1>5, <2>2, <2>3, <2>4 DEF UpToDate
<1>6. CASE log' = log /\ worker' = [worker EXCEPT ![o] = [pc |-> "select", job |-> NoJob]]
  <2>1. worker'[o].pc = "select" /\ \A q \in Owner : q # o => worker'[q] = worker[q]
    BY <1>0, <1>6
  <2>2. InFlight(p)' = InFlight(p) /\ Alive(p)
    BY <1>1, <2>1 DEF InFlight, Alive, Dead
  <2> QED
    BY <1>1, <1>2, <1>4, <1>6, <2>2 DEF UpToDate
<1>7. CASE log' \in {log, longer} /\ Die(o, "stopped")
  <2>1. p # o /\ Alive(p) /\ InFlight(p)' = InFlight(p)
    BY <1>0, <1>7, DieIdles DEF Dead
  <2>2. RecordsOf(p)' = RecordsOf(p)
    BY <1>3, <1>4, <1>7, <2>1
  <2> QED
    BY <1>1, <1>2, <2>1, <2>2 DEF UpToDate
<1> QED
  BY <1>5, <1>6, <1>7 DEF Persist

LEMMA ApplyPersistedVisible ==
    ASSUME CoordinatorInv, BarrierInv, NEW o \in Owner, ApplyPersisted(o),
           \A p \in Owner : Alive(p) => UpToDate(p), NEW p \in Owner, Alive(p)'
    PROVE  UpToDate(p)'
<1>0. TypeOK /\ worker \in [Owner -> Worker] /\ applied \in [Owner -> SUBSET Nat]
  BY DEF CoordinatorInv, TypeOK
<1>1. worker[o].pc = "apply" /\ UNCHANGED <<task, log>>
  BY DEF ApplyPersisted
<1>2. Pending(p) = {} /\ Pending(p)' = {} /\ RecordsOf(p)' = RecordsOf(p)
  BY <1>1, OneJob DEF Pending, RecordsOf
<1>3. CASE Die(o, "panicked") /\ UNCHANGED store
  <2>1. p # o /\ Alive(p) /\ InFlight(p)' = InFlight(p)
    BY <1>0, <1>3, DieIdles DEF Dead
  <2> QED
    BY <1>2, <1>3, <2>1 DEF UpToDate, store
<1>4. CASE /\ ApplyChange(o, worker[o].job.position)
           /\ worker' = [worker EXCEPT ![o] = [pc |-> "select", job |-> NoJob]]
  <2>1. worker'[o].pc = "select" /\ \A q \in Owner : q # o => worker'[q] = worker[q]
    BY <1>0, <1>4
  <2>2. applied'[p] = applied[p] \cup (IF p = o THEN {worker[o].job.position} ELSE {})
    BY <1>0, <1>4 DEF ApplyChange
  <2>3. Alive(p) /\ (p = o => InFlight(p)' = {} /\ InFlight(p) = {worker[o].job.position})
        /\ (p # o => InFlight(p)' = InFlight(p))
    BY <1>1, <2>1 DEF InFlight, Alive, Dead
  <2> QED
    BY <1>2, <2>2, <2>3 DEF UpToDate
<1> QED
  BY <1>3, <1>4 DEF ApplyPersisted

LEMMA DecisionVisible ==
    ASSUME CoordinatorInv, AppendDecision, ~Broken',
           \A p \in Owner : Alive(p) => UpToDate(p), NEW o \in Owner, Alive(o)'
    PROVE  UpToDate(o)'
<1>0. TypeOK /\ task \in Task /\ Shape(task) /\ log \in Seq(LogRecord)
  BY DEF CoordinatorInv, TypeOK
<1> DEFINE longer == Append(log, Record(Mutating(task), Origin(task.kind)))
<1>1. task.phase = "append" /\ UNCHANGED <<applied, worker>>
  BY DEF AppendDecision, store
<1>2. task.kind \in {"exec", "watch"} /\ PlanOver(task) /\ (Mutating(task) # {} => task.publication)
      /\ (task.kind = "exec" => task.publication)
  BY <1>0, <1>1 DEF Shape, PhasesOf, Publishing, Task, Tasks
<1>3. Pending(o) = {} /\ InFlight(o)' = InFlight(o) /\ Alive(o) /\ UpToDate(o)
  BY <1>1 DEF Pending, InFlight, Alive
<1>4. ASSUME log' = longer
      PROVE  /\ RecordsOf(o)' = RecordsOf(o) \cup (IF o \in Mutating(task) THEN {Len(longer)} ELSE {})
             /\ Len(longer) \in Nat
  <2>1. RecordsOf(o)' = RecordsOf(o) \cup (IF o \in Mutating(task) THEN {Len(log) + 1} ELSE {})
        /\ Len(log') = Len(log) + 1
    BY <1>0, <1>4, LongerRecords
  <2> QED
    BY SMTT(30), <1>0, <1>4, <2>1
<1>5. ASSUME log' = log
      PROVE  RecordsOf(o)' = RecordsOf(o)
  BY <1>5 DEF RecordsOf
<1>6. CASE log' = longer /\ task' = Application([task EXCEPT !.position = Len(longer)])
  <2> DEFINE t == [task EXCEPT !.position = Len(longer)]
  <2>1. /\ t \in Task /\ t.kind = task.kind /\ t.plan = task.plan /\ t.owners = task.owners
        /\ t.prepared = task.prepared /\ t.position = Len(longer) /\ t.publication = task.publication
        /\ t.step = task.step
    <3>1. Len(longer) \in Nat
      BY <1>4, <1>6
    <3> HIDE DEF longer
    <3> QED
      BY <1>0, <3>1 DEF Task
  <2>2. task' = Application(t)
    BY <1>6
  <2> HIDE DEF t, longer
  <2>3. Mutating(t) = Mutating(task) /\ PlanOver(t)
    BY <1>2, <2>1 DEF Mutating, PlanOver
  <2>4. SameDecision(t, task') /\ task'.phase = ApplyPhase(t) /\ task'.todo = t.owners
    BY <1>2, <2>1, <2>2, <2>3, ApplicationFacts
  <2>5. Mutating(task') = Mutating(task) /\ task'.position = Len(longer)
    BY <2>1, <2>3, <2>4, SameMutating DEF SameDecision
  <2>6. o \in Mutating(task) => o \in task'.todo
    BY <2>1, <2>4 DEF Mutating
  <2>7. Pending(o)' = IF o \in Mutating(task) THEN {Len(longer)} ELSE {}
    BY <2>4, <2>5, <2>6 DEF Pending, ApplyPhase
  <2> QED
    BY <1>1, <1>3, <1>4, <1>6, <2>7 DEF UpToDate
<1>7. CASE log' = log /\ task' = Complete(task, "limit")
  <2>1. task'.phase = "drop"
    BY <1>0, <1>7, CompleteFacts DEF Results
  <2>2. Pending(o)' = {}
    BY <2>1 DEF Pending
  <2> QED
    BY <1>1, <1>3, <1>5, <1>7, <2>2 DEF UpToDate
<1>8. CASE log' \in {log, longer} /\ task' = Failed(task)
  <2>1. FailedMove(task, task')
    BY <1>0, <1>2, <1>8, FailedFacts
  <2>2. task'.phase = "drop" /\ task'.publication = task.publication
    BY <1>1, <2>1 DEF FailedMove
  <2>3. Mutating(task) = {}
    BY <1>2, <2>2 DEF Broken
  <2>4. RecordsOf(o)' = RecordsOf(o)
    BY <1>4, <1>5, <1>8, <2>3
  <2>5. Pending(o)' = {}
    BY <2>2 DEF Pending
  <2> QED
    BY <1>1, <1>3, <2>4, <2>5 DEF UpToDate
<1> QED
  BY <1>6, <1>7, <1>8 DEF AppendDecision

\* The owner that has applied the decision is done with it; nothing else changes.
LEMMA MoveApplies ==
    ASSUME CoordinatorInv, NEW o \in Owner, ctl[o].wanted, task.phase \in {"apply", "applywatch"},
           Moves(o), NEW p \in Owner
    PROVE  Pending(p)' = IF p = o THEN {} ELSE Pending(p)
<1>0. task \in Task /\ o \in task.todo
  BY Wanted
<1>1. PICK u : Gathers(task, u, o) /\ SameDecision(u, task') /\ Move(u, task', o)
  BY DEF Moves
<1>2. /\ u.phase = task.phase /\ u.todo = task.todo /\ u.owners = task.owners
      /\ u.prepared = task.prepared /\ u.position = task.position
  BY <1>1 DEF Gathers, Collects
<1>3. task'.owners = task.owners /\ task'.prepared = task.prepared /\ task'.position = task.position
  BY <1>1, <1>2 DEF SameDecision
<1>4. CASE task.todo = {o}
  <2>1. Advance(u, task')
    BY <1>1, <1>2, <1>4 DEF Move
  <2>2. task'.phase = "drop"
    BY <1>2, <2>1 DEF Advance
  <2> QED
    BY <1>4, <2>2 DEF Pending
<1>5. CASE task.todo # {o}
  <2>1. task'.phase = task.phase /\ task'.todo = task.todo \ {o}
    BY <1>1, <1>2, <1>5 DEF Move
  <2> QED
    BY <1>3, <2>1 DEF Pending, Mutating
<1> QED
  BY <1>4, <1>5

LEMMA ApplyVisible ==
    ASSUME CoordinatorInv, Clear, ~Broken', Visible, NEW o \in Owner, Apply(o) \/ ApplyWatch(o),
           NEW p \in Owner, Alive(p)'
    PROVE  UpToDate(p)'
<1>0. TypeOK /\ task \in Task /\ Shape(task) /\ applied \in [Owner -> SUBSET Nat]
  BY DEF CoordinatorInv, TypeOK
<1>1. UNCHANGED <<log, worker>> /\ ctl[o].phase \in {"apply", "applywatch"}
  BY ApplyOutcome
<1>2. RecordsOf(p)' = RecordsOf(p) /\ InFlight(p)' = InFlight(p) /\ Alive(p)
  BY <1>1 DEF RecordsOf, InFlight, Alive
<1>3. UpToDate(p)
  BY <1>2 DEF Visible
<1>4. ASSUME UNCHANGED applied, Pending(p)' = Pending(p)
      PROVE  UpToDate(p)'
  BY <1>2, <1>3, <1>4 DEF UpToDate
<1>5. CASE ~ctl[o].wanted
  <2>1. task' = task
    BY <1>5, ApplyOutcome
  <2>2. ~ctl[o].prepared.mutates
    BY <1>1, <1>5 DEF Visible, Abandoned
  <2>3. UNCHANGED applied
    BY <2>2, ApplyOutcome DEF ApplyControl, store
  <2> QED
    BY <1>4, <2>1, <2>3 DEF Pending, Mutating
<1>6. CASE ctl[o].wanted
  <2>1. /\ task.kind \in {"exec", "watch"} /\ task.phase \in {"apply", "applywatch"} /\ o \in task.todo
        /\ ctl[o].prepared = task.prepared[o] /\ ctl[o].position = task.position /\ Asks(task)
    BY <1>1, <1>6, Wanted
  <2>2. CASE coordinated[o].open /\ task' = Failed(task)
    <3>1. UNCHANGED applied
      BY <2>2, ApplyOutcome DEF store
    <3>2. FailedMove(task, task')
      BY <1>0, <2>1, <2>2, FailedFacts
    <3>3. Pending(p)' = Pending(p)
      BY <2>1, <3>2, FailedPending
    <3> QED
      BY <1>4, <3>1, <3>3
  <2>3. CASE ~coordinated[o].open /\ Moves(o)
    <3>1. Pending(p)' = IF p = o THEN {} ELSE Pending(p)
      BY <1>6, <2>1, <2>3, MoveApplies
    <3>2. o \in task.owners
      BY <1>0, <2>1 DEF Shape
    <3>3. applied'[p] = applied[p] \cup (IF p = o THEN Pending(p) ELSE {})
      <4>1. CASE ctl[o].prepared.mutates
        <5>1. applied' = [applied EXCEPT ![o] = @ \cup {task.position}]
          BY <2>1, <2>3, <4>1, ApplyOutcome DEF ApplyControl, ApplyChange
        <5>2. Pending(o) = {task.position}
          BY <2>1, <3>2, <4>1 DEF Pending, Mutating
        <5> QED
          BY <1>0, <5>1, <5>2
      <4>2. CASE ~ctl[o].prepared.mutates
        <5>1. UNCHANGED applied
          BY <2>3, <4>2, ApplyOutcome DEF ApplyControl, store
        <5>2. Pending(o) = {}
          BY <2>1, <4>2 DEF Pending, Mutating
        <5> QED
          BY <5>1, <5>2
      <4> QED
        BY <4>1, <4>2
    <3> QED
      BY <1>2, <1>3, <3>1, <3>3 DEF UpToDate
  <2> QED
    BY <1>6, <2>2, <2>3, ApplyOutcome
<1> QED
  BY <1>5, <1>6

LEMMA VisibleInit == Init => Visible
<1> SUFFICES ASSUME Init PROVE Visible
  OBVIOUS
<1>1. ASSUME NEW o \in Owner
      PROVE  UpToDate(o) /\ ~Abandoned(o)
  <2>1. /\ log = <<>> /\ applied[o] = {} /\ worker[o].pc = "select" /\ ctl[o] = NoControl
        /\ task.phase = "none"
    BY <1>1 DEF Init, NoTask
  <2>2. RecordsOf(o) = {} /\ InFlight(o) = {} /\ Pending(o) = {}
    BY SMTT(30), <2>1 DEF RecordsOf, InFlight, Pending
  <2> QED
    BY <2>1, <2>2, NothingTypes DEF UpToDate, Abandoned
<1> QED
  BY <1>1 DEF Visible

LEMMA VisibleStep ==
    ASSUME CoordinatorInv, BarrierInv, Visible, Next
    PROVE  Visible'
<1> SUFFICES ASSUME Clear', NEW o \in Owner
             PROVE  ~Abandoned(o)' /\ (Alive(o)' => UpToDate(o)')
  BY DEF Visible
<1>1. Clear /\ ~Broken' /\ TypeOK /\ \A p \in Owner : Alive(p) => UpToDate(p)
  BY ClearBefore DEF Clear, Visible, CoordinatorInv
<1>2. ~Abandoned(o)'
  BY AbandonedStep
<1> SUFFICES ASSUME Alive(o)'
             PROVE  UpToDate(o)'
  BY <1>2
<1>3. CASE AppendDecision
  BY <1>1, <1>3, DecisionVisible
<1>4. ASSUME NEW p \in Owner, Persist(p)
      PROVE  UpToDate(o)'
  BY <1>1, <1>4, PersistVisible
<1>5. ASSUME NEW p \in Owner, ApplyPersisted(p)
      PROVE  UpToDate(o)'
  BY <1>1, <1>5, ApplyPersistedVisible
<1>6. ASSUME NEW p \in Owner, Apply(p) \/ ApplyWatch(p)
      PROVE  UpToDate(o)'
  BY <1>1, <1>6, ApplyVisible
<1>7. CASE Idles /\ ~AppendDecision /\ \A p \in Owner : ~Apply(p) /\ ~ApplyWatch(p)
  <2>1. Pending(o)' = Pending(o)
    BY <1>1, <1>7, PendingStays
  <2>2. Alive(o) /\ InFlight(o)' = InFlight(o) /\ RecordsOf(o)' = RecordsOf(o) /\ UNCHANGED applied
    BY <1>7 DEF Idles, RecordsOf
  <2> QED
    BY <1>1, <2>1, <2>2 DEF UpToDate
<1> QED
  BY <1>1, <1>3, <1>4, <1>5, <1>6, <1>7, StoreCases

\* What a control does to the transaction of its owner.
LEMMA HandlesTransaction ==
    ASSUME CoordinatorInv, NEW o \in Owner, Handles(o)
    PROVE  /\ \A p \in Owner : p # o => coordinated'[p] = coordinated[p]
           /\ ctl[o].phase \notin {"begin", "accept", "seal", "abort"} => coordinated'[o] = coordinated[o]
           /\ ctl[o].phase \in {"seal", "abort"} => coordinated'[o] = NoTransaction
           /\ ctl[o].phase = "begin" => \/ coordinated'[o] = coordinated[o]
                                        \/ coordinated'[o].open /\ coordinated'[o].effects = {}
           /\ ctl[o].phase = "accept" =>
                \/ coordinated'[o] = coordinated[o] /\ ~coordinated[o].open
                \/ /\ coordinated[o].open /\ coordinated'[o].open
                   /\ coordinated'[o].effects = coordinated[o].effects \cup
                          (IF ctl[o].candidate = "ok" THEN {ctl[o].step} ELSE {})
<1>0. coordinated \in [Owner -> OwnerTransaction]
  BY DEF CoordinatorInv, TypeOK
<1>1. CASE ctl[o].phase = "begin" /\ Begin(o)
  <2>1. CASE UNCHANGED coordinated
    BY <1>1, <2>1
  <2>2. CASE coordinated' = [coordinated EXCEPT ![o] = [NoTransaction EXCEPT !.open = TRUE]]
    <3>1. coordinated'[o] = [NoTransaction EXCEPT !.open = TRUE]
          /\ \A p \in Owner : p # o => coordinated'[p] = coordinated[p]
      BY <1>0, <2>2
    <3> QED
      BY <1>1, <3>1 DEF NoTransaction
  <2> QED
    BY <1>1, <2>1, <2>2 DEF Begin
<1>2. CASE ctl[o].phase = "accept" /\ Accept(o)
  <2>1. CASE ~coordinated[o].open
    <3>1. UNCHANGED coordinated
      BY <1>2, <2>1 DEF Accept
    <3> QED
      BY <1>2, <2>1, <3>1
  <2>2. CASE coordinated[o].open
    <3> DEFINE ok == ctl[o].candidate = "ok"
               S == IF ok THEN {ctl[o].step} ELSE {}
    <3>1. coordinated' = [coordinated EXCEPT ![o].mutates = @ \/ ok \/ o \in ctl[o].time,
                                             ![o].effects = @ \cup S]
      BY <1>2, <2>2 DEF Accept
    <3> HIDE DEF ok, S
    <3>2. /\ coordinated'[o].open = coordinated[o].open
          /\ coordinated'[o].effects = coordinated[o].effects \cup S
          /\ \A p \in Owner : p # o => coordinated'[p] = coordinated[p]
      BY <1>0, <3>1 DEF OwnerTransaction
    <3> QED
      BY <1>2, <2>2, <3>2 DEF ok, S
  <2> QED
    BY <2>1, <2>2
<1>3. CASE ctl[o].phase \in {"seal", "abort"} /\ (Seal(o) \/ Abort(o))
  <2>1. coordinated' = [coordinated EXCEPT ![o] = NoTransaction]
    BY <1>3 DEF Seal, Abort
  <2> QED
    BY <1>0, <1>3, <2>1
<1>4. CASE ctl[o].phase \notin {"begin", "accept", "seal", "abort"} /\ UNCHANGED coordinated
  BY <1>4
<1> QED
  BY <1>1, <1>2, <1>3, <1>4 DEF Handles, ControlStep, Probe, Clock, CheckWatches, Begin, Candidate,
     Accept, Seal, Abort, PrepareWatch, Apply, ApplyWatch, Receives

\* A control whose answer nobody waits for.
LEMMA UnwantedTidy ==
    ASSUME CoordinatorInv, \A p \in Owner : Leftover(p), NEW o \in Owner, Handles(o), ~ctl[o].wanted,
           NEW p \in Owner
    PROVE  Leftover(p)'
<1>0. ctl \in [Owner -> ControlType]
  BY DEF CoordinatorInv, TypeOK
<1>1. task' = task /\ ctl'[o] = NoControl /\ \A q \in Owner : q # o => ctl'[q] = ctl[q]
  BY <1>0, ControlAnswer DEF Handles
<1>2. p # o => coordinated'[p] = coordinated[p]
  BY HandlesTransaction
<1>3. CASE p # o
  BY <1>1, <1>2, <1>3 DEF Leftover, Tentative
<1>4. CASE p = o
  <2>1. coordinated'[o].open => coordinated[o].open \/ ctl[o].phase = "begin"
    BY SMTT(30), HandlesTransaction DEF NoTransaction
  <2>2. ctl'[o].phase \notin Deciding
    BY <1>1, NothingTypes DEF Deciding
  <2>3. Leftover(o) /\ (ctl[o].phase = "begin" => task.phase = "abort" /\ Tentative(o))
    BY DEF Leftover, Tentative, Deciding
  <2> QED
    BY <1>1, <1>4, <2>1, <2>2, <2>3 DEF Leftover, Tentative
<1> QED
  BY <1>3, <1>4

\* Nothing is tentative: then nothing is left over.
LEMMA CleanTidy ==
    ASSUME NEW o \in Owner, ~Tentative(o)'
    PROVE  Leftover(o)'
BY DEF Leftover, Tentative

\* An answer that the coordinator waits for.
LEMMA WantedTidy ==
    ASSUME CoordinatorInv, \A p \in Owner : Leftover(p), NEW o \in Owner, Handles(o), ctl[o].wanted,
           ~Broken', NEW p \in Owner
    PROVE  Leftover(p)'
<1>0. ctl \in [Owner -> ControlType]
  BY DEF CoordinatorInv, TypeOK
<1>1. /\ task \in Task /\ Shape(task) /\ Asks(task) /\ o \in task.todo
      /\ task.kind \in {"exec", "watch"} /\ ctl[o].phase = task.phase
      /\ \A q \in Owner : ctl[q].wanted => q = o
  BY Wanted
<1>2. ctl'[o] = NoControl /\ \A q \in Owner : q # o => ctl'[q] = ctl[q]
  BY <1>0, ControlAnswer DEF Handles
<1>3. ctl'[o].phase \notin Deciding
  BY <1>2, NothingTypes DEF Deciding
<1>4. task.phase # "abort" => ctl'[p].phase \notin Deciding
  BY <1>1, <1>2, <1>3 DEF Leftover
<1>5. CASE task.phase \notin Deciding
  <2>1. ~Tentative(p)
    BY <1>5 DEF Leftover
  <2>2. coordinated'[p].open = coordinated[p].open
    BY <1>1, <1>5, HandlesTransaction DEF Deciding
  <2>3. ~Tentative(p)'
    BY <1>2, <1>3, <2>1, <2>2 DEF Tentative
  <2> QED
    BY <2>3, CleanTidy
<1>6. CASE task.phase \in Deciding
  <2>1. task.kind = "exec" /\ task.publication
    BY <1>1, <1>6 DEF Shape, PhasesOf, Publishing, Deciding
  <2>2. o \in task.owners
    BY <1>1, <1>6 DEF Shape, Deciding
  <2>3. Tentative(p)' => p \in task.owners
    <3>1. p # o /\ Tentative(p)' => Tentative(p)
      BY <1>2, HandlesTransaction DEF Tentative
    <3> QED
      BY <2>2, <3>1 DEF Leftover
  <2>4. CASE FailedMove(task, task')
    <3>1. task'.phase = "abort" /\ task'.todo = task.owners /\ task'.owners = task.owners
      BY <1>6, <2>1, <2>4 DEF FailedMove, Deciding, Broken, SameDecision
    <3> QED
      BY <2>3, <3>1 DEF Leftover, Deciding
  <2>5. CASE ~FailedMove(task, task')
    <3>1. ~Refuses
      BY <1>6 DEF Refuses, Deciding
    <3>2. PICK u : Gathers(task, u, o) /\ SameDecision(u, task') /\ Move(u, task', o)
      BY <2>5, <3>1, HandlesMoves DEF Moves
    <3>3. /\ u.phase = task.phase /\ u.todo = task.todo /\ task'.owners = task.owners
          /\ u.owners = task.owners
      BY <3>2 DEF Gathers, Collects, SameDecision
    <3>4. CASE task.phase \in {"begin", "candidate", "accept"}
      <4>1. \/ task'.phase \in {"begin", "candidate", "accept"}
            \/ task'.phase = "seal" /\ task'.todo = task.owners
        BY <3>2, <3>3, <3>4 DEF Move, Advance, NextCommandMove
      <4> QED
        BY <1>4, <2>3, <3>3, <3>4, <4>1 DEF Leftover, Deciding
    <3>5. CASE task.phase \in {"seal", "abort"}
      <4>1. coordinated'[o] = NoTransaction
        BY <1>1, <3>5, HandlesTransaction
      <4>2. ~Tentative(o)'
        BY SMTT(30), <1>3, <4>1 DEF Tentative, NoTransaction
      <4>3. Tentative(p)' => p # o /\ Tentative(p) /\ p \in task.todo
        BY <1>2, <3>5, <4>2, HandlesTransaction DEF Tentative, Leftover
      <4>4. CASE task.todo = {o}
        BY <4>3, <4>4, CleanTidy
      <4>5. CASE task.todo # {o}
        <5>1. task'.phase = task.phase /\ task'.todo = task.todo \ {o}
          BY <3>2, <3>3, <4>5 DEF Move
        <5> QED
          BY <1>4, <2>3, <3>3, <3>5, <4>3, <5>1 DEF Leftover, Deciding
      <4> QED
        BY <4>4, <4>5
    <3>6. CASE task.phase = "apply"
      <4>1. ~coordinated[p].open /\ coordinated'[p] = coordinated[p]
        BY <1>1, <3>6, HandlesTransaction DEF Leftover
      <4>2. ~Tentative(p)'
        BY <1>4, <3>6, <4>1 DEF Tentative
      <4> QED
        BY <4>2, CleanTidy
    <3> QED
      BY <1>6, <3>4, <3>5, <3>6 DEF Deciding
  <2> QED
    BY <2>4, <2>5
<1> QED
  BY <1>5, <1>6

LEMMA TransactionsStep ==
    ASSUME CoordinatorInv, Next, NEW o \in Owner
    PROVE  \/ coordinated'[o] = coordinated[o]
           \/ coordinated'[o] = NoTransaction
           \/ coordinated'[o].open
<1>0. coordinated \in [Owner -> OwnerTransaction]
  BY DEF CoordinatorInv, TypeOK
<1>1. ASSUME NEW p \in Owner, Dies(p)
      PROVE  coordinated'[o] \in {coordinated[o], NoTransaction}
  BY <1>0, <1>1 DEF Dies
<1>2. ASSUME NEW p \in Owner, Handles(p), p # o
      PROVE  coordinated'[o] = coordinated[o]
  BY <1>2, HandlesTransaction
<1>3. ASSUME Handles(o)
      PROVE  coordinated'[o] = coordinated[o] \/ coordinated'[o] = NoTransaction \/ coordinated'[o].open
  BY <1>3, HandlesTransaction
<1>4. (\A p \in Owner : ~Dies(p) /\ ~Handles(p)) => UNCHANGED coordinated
  BY StepCases DEF Quiet, Snapshot, Acquires, SendControl, ControlFailed, AppendDecision,
     DropPublication, Release, FreezeBegin, FreezeEnd, channels
<1> QED
  BY <1>1, <1>2, <1>3, <1>4

LEMMA TidyInit == Init => Tidy
<1> SUFFICES ASSUME Init PROVE Tidy
  OBVIOUS
<1>1. ASSUME NEW o \in Owner
      PROVE  Leftover(o) /\ coordinated[o] = NoTransaction
  <2>1. coordinated[o] = NoTransaction /\ ctl[o] = NoControl
    BY <1>1 DEF Init
  <2>2. ~Tentative(o)
    BY SMTT(30), <2>1, NothingTypes DEF Tentative, Deciding, NoTransaction
  <2> QED
    BY <2>1, <2>2 DEF Leftover, Tentative
<1> QED
  BY <1>1 DEF Tidy

\* The coordinator waits for an answer no longer.
LEMMA ControlFailedTidy ==
    ASSUME CoordinatorInv, \A p \in Owner : Leftover(p), ControlFailed, ~Broken', NEW o \in Owner
    PROVE  Leftover(o)'
<1>0. task \in Task /\ Shape(task) /\ ctl \in [Owner -> ControlType]
  BY DEF CoordinatorInv, TypeOK
<1>1. Asks(task) /\ task.kind \in {"exec", "watch"} /\ UNCHANGED coordinated /\ task' = Failed(task)
  BY DEF ControlFailed, Asking, Asks
<1>2. FailedMove(task, task')
  BY <1>0, <1>1, FailedFacts
<1>3. ctl'[o].phase = ctl[o].phase
  <2> DEFINE p == FirstOwner(task.todo)
  <2>1. ctl' = ctl \/ ctl' = [ctl EXCEPT ![p] = [ctl[p] EXCEPT !.wanted = FALSE]]
    BY DEF ControlFailed
  <2> HIDE DEF p
  <2>2. ctl'[o] = ctl[o] \/ ctl'[o] = [ctl[o] EXCEPT !.wanted = FALSE]
    BY <1>0, <2>1
  <2> QED
    BY <1>0, <2>2, UnwantedFields
<1>4. Tentative(o)' => Tentative(o)
  BY <1>1, <1>3 DEF Tentative
<1>5. CASE task.phase \in {"begin", "candidate", "accept", "seal"}
  <2>1. task'.phase = "abort" /\ task'.todo = task.owners /\ task'.owners = task.owners
    BY <1>2, <1>5 DEF FailedMove, SameDecision
  <2> QED
    BY <1>4, <2>1 DEF Leftover, Deciding
<1>6. CASE task.phase \notin {"begin", "candidate", "accept", "seal"}
  <2>1. ~task.publication
    BY <1>2, <1>6 DEF FailedMove, Broken
  <2>2. task.phase \notin Deciding
    BY <1>0, <1>1, <1>6, <2>1 DEF Shape, PhasesOf, Publishing, Deciding
  <2> QED
    BY <1>4, <2>2, CleanTidy DEF Leftover
<1> QED
  BY <1>5, <1>6

\* The coordinator asks the next owner.
LEMMA SendControlTidy ==
    ASSUME CoordinatorInv, \A p \in Owner : Leftover(p), SendControl, NEW o \in Owner
    PROVE  Leftover(o)'
<1>0. task \in Task /\ Shape(task) /\ ctl \in [Owner -> ControlType]
  BY DEF CoordinatorInv, TypeOK
<1> DEFINE p == FirstOwner(task.todo)
<1>1. Asks(task) /\ UNCHANGED coordinated /\ ctl' = [ctl EXCEPT ![p] = Control(task, p)]
  BY DEF SendControl, Asking, Asks
<1>2. task'.phase = task.phase /\ task'.todo = task.todo /\ task'.owners = task.owners
  BY <1>0 DEF SendControl, Task
<1>3. p \in task.todo /\ p \in Owner
  BY <1>0, <1>1, FirstOwnerIn DEF Shape, Task
<1> HIDE DEF p
<1>4. CASE o # p
  <2>1. ctl'[o] = ctl[o]
    BY <1>0, <1>1, <1>4
  <2> QED
    BY <1>1, <1>2, <2>1 DEF Leftover, Tentative
<1>5. CASE o = p
  <2>1. ctl'[o].phase = task.phase /\ ctl'[o].wanted
    BY <1>0, <1>1, <1>5, ControlFields
  <2>2. task.phase \in Deciding => o \in task.owners
    BY <1>0, <1>1, <1>3, <1>5 DEF Shape, Deciding
  <2> QED
    BY <1>1, <1>2, <1>3, <1>5, <2>1, <2>2 DEF Leftover, Tentative
<1> QED
  BY <1>4, <1>5

LEMMA TidyStep ==
    ASSUME CoordinatorInv, Tidy, Next
    PROVE  Tidy'
<1>0. task \in Task /\ Shape(task) /\ ctl \in [Owner -> ControlType]
      /\ coordinated \in [Owner -> OwnerTransaction]
  BY DEF CoordinatorInv, TypeOK
<1>1. \A o \in Owner : ~coordinated'[o].open => coordinated'[o] = NoTransaction
  BY TransactionsStep DEF Tidy
<1> SUFFICES ASSUME Clear', NEW o \in Owner
             PROVE  Leftover(o)'
  BY <1>1 DEF Tidy
<1>2. ~Broken' /\ \A p \in Owner : Leftover(p)
  BY ClearBefore DEF Clear, Tidy
<1>3. CASE Quiet
  BY <1>2, <1>3 DEF Quiet, Leftover, Tentative
<1>4. ASSUME NEW p \in Owner, Dies(p)
      PROVE  Leftover(o)'
  <2>1. CASE o = p
    <3>1. coordinated'[o] = NoTransaction /\ ctl'[o] = NoControl
      BY <1>0, <1>4, <2>1 DEF Dies
    <3>2. ~Tentative(o)'
      BY SMTT(30), <3>1, NothingTypes DEF Tentative, Deciding, NoTransaction
    <3> QED
      BY <3>2, CleanTidy
  <2>2. CASE o # p
    <3>1. coordinated'[o] = coordinated[o] /\ ctl'[o] = ctl[o] /\ task' = task
      BY <1>0, <1>4, <2>2 DEF Dies
    <3> QED
      BY <1>2, <3>1 DEF Leftover, Tentative
  <2> QED
    BY <2>1, <2>2
<1>5. ASSUME NEW p \in Owner, Handles(p)
      PROVE  Leftover(o)'
  BY <1>2, <1>5, UnwantedTidy, WantedTidy
<1>6. ASSUME UNCHANGED <<ctl, coordinated>>, task.phase \notin Deciding
      PROVE  Leftover(o)'
  BY <1>2, <1>6, CleanTidy DEF Leftover, Tentative
<1>7. CASE SendControl
  BY <1>2, <1>7, SendControlTidy
<1>8. CASE ControlFailed
  BY <1>2, <1>8, ControlFailedTidy
<1>9. CASE (\E p \in Owner : Snapshot(p)) \/ AppendDecision \/ DropPublication \/ Release \/ FreezeEnd
  BY <1>6, <1>9 DEF Snapshot, AppendDecision, DropPublication, Release, FreezeEnd, channels, Deciding
<1>10. CASE (\E c \in Client : Acquires(c)) \/ FreezeBegin
  <2>1. task.kind = "none" /\ UNCHANGED <<ctl, coordinated>>
    BY <1>10 DEF Acquires, FreezeBegin, AcquireGuard, channels
  <2>2. task.phase \notin Deciding
    BY <1>0, <2>1 DEF Shape, PhasesOf, Deciding
  <2> QED
    BY <1>6, <2>1, <2>2
<1> QED
  BY <1>3, <1>4, <1>5, <1>7, <1>8, <1>9, <1>10, StepCases

LEMMA NumberedFacts ==
    ASSUME NEW t, NEW x, Numbered(t, x)
    PROVE  /\ t.step \in Nat /\ Len(t.plan) \in Nat /\ DOMAIN t.plan = 1..Len(t.plan)
           /\ \A i \in DOMAIN t.plan : t.plan[i] \subseteq Owner /\ t.plan[i] \subseteq t.owners
           /\ \A o \in Owner : x[o].effects \subseteq Nat
<1>1. t \in Task /\ t.plan \in Seq(SUBSET Owner) /\ t.step \in Nat /\ t.owners \subseteq Owner
  BY DEF Numbered, Task
<1>2. \A i \in DOMAIN t.plan : t.plan[i] \subseteq t.owners
  BY DEF Numbered, PlanOver
<1>3. \A o \in Owner : x[o].effects \subseteq Nat
  BY DEF Numbered, OwnerTransaction
<1> QED
  BY SMTT(30), <1>1, <1>2, <1>3

\* While no owner has sealed, what they agree on is in their open transactions.
LEMMA AgreeUnsealed ==
    ASSUME NEW t, NEW x, NEW i, \A o \in t.plan[i] : ~Sealed(t, o)
    PROVE  Agree(t, x, i) <=> OpenAgree(t.plan, x, i)
BY DEF Agree, OpenAgree, Holds, EffectsAt

LEMMA NextCommandJoint ==
    ASSUME NEW t, NEW v, NEW y, Numbered(t, y), v.plan = t.plan, v.owners = t.owners,
           NextCommandMove(t, v),
           \A i \in DOMAIN t.plan : i <= t.step => OpenAgree(t.plan, y, i),
           \A o \in Owner : \A i \in y[o].effects : i <= t.step
    PROVE  JointIn(v, y)
<1>1. /\ t.step \in Nat /\ Len(t.plan) \in Nat /\ DOMAIN t.plan = 1..Len(t.plan)
      /\ \A i \in DOMAIN t.plan : t.plan[i] \subseteq t.owners
      /\ \A o \in Owner : y[o].effects \subseteq Nat
  BY NumberedFacts
<1>2. CASE v.phase = "seal" /\ t.step = Len(t.plan) /\ v.todo = t.owners
  <2>1. ASSUME NEW i \in DOMAIN v.plan
        PROVE  Agree(v, y, i)
    <3>1. \A o \in v.plan[i] : ~Sealed(v, o)
      BY <1>1, <1>2, <2>1 DEF Sealed
    <3>2. OpenAgree(v.plan, y, i)
      BY SMTT(30), <1>1, <1>2, <2>1
    <3> QED
      BY <3>1, <3>2, AgreeUnsealed
  <2> QED
    BY <1>2, <2>1 DEF JointIn
<1>3. CASE v.phase = "candidate" /\ v.step = t.step + 1 /\ v.todo = t.plan[t.step + 1]
  <2>1. ASSUME NEW i \in DOMAIN v.plan, i < v.step
        PROVE  Agree(v, y, i)
    <3>1. \A o \in v.plan[i] : ~Sealed(v, o)
      BY <1>3 DEF Sealed
    <3>2. OpenAgree(v.plan, y, i)
      BY SMTT(30), <1>1, <1>3, <2>1
    <3> QED
      BY <3>1, <3>2, AgreeUnsealed
  <2>2. \A o \in Owner : \A i \in y[o].effects : i < v.step
    BY SMTT(30), <1>1, <1>3
  <2>3. v.plan[v.step] \ v.todo = {}
    BY <1>3
  <2> QED
    BY <1>3, <2>1, <2>2, <2>3 DEF JointIn
<1> QED
  BY <1>2, <1>3 DEF NextCommandMove

\* A step that changes nothing the agreement is about.
LEMMA JointSame ==
    ASSUME NEW t, NEW x, NEW v, NEW y, JointIn(t, x), Numbered(t, x),
           v.kind = t.kind, v.phase = t.phase, v.step = t.step, v.plan = t.plan, v.todo = t.todo,
           v.candidates = t.candidates, v.prepared = t.prepared,
           t.phase \in {"begin", "candidate", "accept", "seal"} => \A o \in Owner : y[o] = x[o]
    PROVE  JointIn(v, y)
<1>1. \A i \in DOMAIN t.plan : t.plan[i] \subseteq Owner
  BY NumberedFacts
<1>2. ASSUME t.phase \in {"candidate", "accept", "seal"}, NEW i \in DOMAIN t.plan, Agree(t, x, i)
      PROVE  Agree(v, y, i)
  <2>1. \A o \in t.plan[i] : y[o] = x[o]
    BY <1>1, <1>2
  <2> QED
    BY SMTT(30), <1>2, <2>1 DEF Agree, Holds, EffectsAt, Sealed
<1>3. t.phase = "begin" => \A o \in Owner : y[o] = x[o]
  OBVIOUS
<1>4. CASE t.phase \in {"begin", "append", "apply", "probe", "clock", "check"}
  BY <1>3, <1>4 DEF JointIn, Whole
<1>5. CASE t.phase = "seal"
  BY <1>2, <1>5 DEF JointIn
<1>6. CASE t.phase = "candidate"
  BY <1>2, <1>6 DEF JointIn
<1>7. CASE t.phase = "accept"
  <2>1. \A o \in Owner : y[o] = x[o]
    BY <1>7
  <2>2. t.plan[t.step] \subseteq Owner
    BY <1>1, <1>7 DEF Numbered
  <2> QED
    BY SMTT(30), <1>2, <1>7, <2>1, <2>2 DEF JointIn
<1>8. CASE t.phase \notin {"probe", "clock", "check", "begin", "candidate", "accept", "seal", "append", "apply"}
  BY <1>8 DEF JointIn
<1> QED
  BY <1>4, <1>5, <1>6, <1>7, <1>8

\* An answer to "begin": the transactions are empty.
LEMMA BeginJoint ==
    ASSUME NEW t, NEW x, NEW v, NEW y, NEW o \in Owner, JointIn(t, x), Numbered(t, x), Numbered(t, y),
           t.kind = "exec", t.phase = "begin", v.plan = t.plan, v.owners = t.owners, v.kind = t.kind,
           Move(t, v, o),
           \A p \in Owner : y[p] = x[p] \/ y[p].effects = {}
    PROVE  JointIn(v, y)
<1>1. t.step = 0 /\ \A p \in Owner : y[p].effects = {}
  BY DEF JointIn
<1>2. CASE t.todo # {o}
  <2>1. v.phase = "begin" /\ v.step = t.step
    BY <1>2 DEF Move
  <2> QED
    BY <1>1, <2>1 DEF JointIn
<1>3. CASE t.todo = {o}
  <2>1. NextCommandMove(t, v)
    BY <1>3 DEF Move, Advance
  <2>2. \A i \in DOMAIN t.plan : ~(i <= t.step)
    BY SMTT(30), <1>1, NumberedFacts
  <2> QED
    BY <1>1, <2>1, <2>2, NextCommandJoint
<1> QED
  BY <1>2, <1>3

\* No candidate of a command over several owners that is accepted is an error.
LEMMA OneOutcome ==
    ASSUME NEW t \in Task, PlanOver(t), t.step \in DOMAIN t.plan, ~RejectJoint(t),
           \A o \in t.plan[t.step] : t.candidates[o] \in {"ok", "error"}
    PROVE  \A o, p \in t.plan[t.step] : t.candidates[o] = t.candidates[p]
<1> DEFINE S == t.plan[t.step]
<1>1. S \subseteq Owner /\ S # {}
  BY DEF PlanOver, Task
<1>2. IsFiniteSet(Owner)
  BY SMTT(30), BoundsAssumption, FS_Interval DEF Owner
<1>3. IsFiniteSet(S) /\ Cardinality(S) \in Nat /\ Cardinality(S) # 0
  BY <1>1, <1>2, FS_Subset, FS_CardinalityType, FS_EmptySet
<1>4. CASE Cardinality(S) > 1
  BY <1>4 DEF RejectJoint
<1>5. CASE Cardinality(S) = 1
  <2>1. \E e : S = {e}
    BY <1>3, <1>5, FS_Singleton
  <2> QED
    BY <2>1
<1> QED
  BY SMTT(30), <1>3, <1>4, <1>5

\* An answer to "candidate": nothing is accepted yet.
LEMMA CandidateJoint ==
    ASSUME NEW t, NEW x, NEW u, NEW v, NEW o \in Owner, JointIn(t, x), Numbered(t, x), Numbered(u, x),
           t.kind = "exec", t.phase = "candidate", o \in t.todo, Gathers(t, u, o), SameDecision(u, v),
           Move(u, v, o)
    PROVE  JointIn(v, x)
<1>1. /\ u.kind = t.kind /\ u.plan = t.plan /\ u.owners = t.owners /\ u.phase = t.phase
      /\ u.todo = t.todo /\ u.step = t.step /\ u.candidates[o] \in {"ok", "error"}
      /\ \A p \in Owner \ {o} : u.candidates[p] = t.candidates[p]
  BY DEF Gathers, Collects
<1>2. v.plan = t.plan /\ v.owners = t.owners /\ v.kind = t.kind
  BY <1>1 DEF SameDecision
<1>3. /\ t.step \in Nat /\ DOMAIN t.plan = 1..Len(t.plan) /\ Len(t.plan) \in Nat /\ t.step \in DOMAIN t.plan
      /\ \A i \in DOMAIN t.plan : t.plan[i] \subseteq Owner
      /\ \A p \in Owner : x[p].effects \subseteq Nat
  BY NumberedFacts DEF Numbered
<1>4. \A p \in Owner : \A i \in x[p].effects : i < t.step
  BY DEF JointIn
<1>5. \A p \in t.plan[t.step] \ (t.todo \ {o}) : u.candidates[p] \in {"ok", "error"}
  BY <1>1, <1>3 DEF JointIn
<1>6. ASSUME NEW i \in DOMAIN t.plan, i <= t.step
      PROVE  OpenAgree(t.plan, x, i)
  <2>1. CASE i < t.step
    <3>1. Agree(t, x, i)
      BY <2>1 DEF JointIn
    <3> QED
      BY <3>1, AgreeUnsealed DEF Sealed
  <2>2. CASE i = t.step
    <3>1. \A p \in t.plan[i] : i \notin x[p].effects
      BY SMTT(30), <1>3, <1>4, <2>2
    <3> QED
      BY <3>1 DEF OpenAgree
  <2> QED
    BY SMTT(30), <1>3, <1>6, <2>1, <2>2
<1>7. CASE v.phase \in {"candidate", "accept"} /\ v.step = t.step
  <2>1. ASSUME NEW i \in DOMAIN v.plan, i < v.step
        PROVE  Agree(v, x, i)
    <3>1. i \in DOMAIN t.plan /\ i <= t.step
      BY SMTT(30), <1>2, <1>3, <1>7, <2>1
    <3>2. OpenAgree(v.plan, x, i)
      BY <1>2, <1>6, <3>1
    <3> QED
      BY <1>7, <3>2, AgreeUnsealed DEF Sealed
  <2>2. CASE t.todo # {o}
    <3>1. v.phase = "candidate" /\ v.todo = t.todo \ {o} /\ v.candidates = u.candidates
      BY <1>1, <2>2 DEF Move
    <3> QED
      BY <1>2, <1>4, <1>5, <1>7, <2>1, <3>1 DEF JointIn
  <2>3. CASE t.todo = {o}
    <3>1. Advance(u, v)
      BY <1>1, <2>3 DEF Move
    <3>2. /\ v.phase = "accept" /\ v.candidates = u.candidates /\ ~RejectJoint(u)
          /\ v.todo = t.plan[t.step]
      BY SMTT(30), <1>1, <1>3, <1>7, <3>1 DEF Advance, NextCommandMove
    <3>3. \A p \in u.plan[u.step] : u.candidates[p] \in {"ok", "error"}
      BY <1>1, <1>5, <2>3
    <3>4. \A p, q \in t.plan[t.step] : u.candidates[p] = u.candidates[q]
      BY SMTT(30), <1>1, <1>3, <3>2, <3>3, OneOutcome DEF Numbered
    <3>5. \A p \in Owner : \A i \in x[p].effects : i <= t.step
      BY SMTT(30), <1>3, <1>4
    <3>6. \A p \in t.plan[t.step] : t.step \notin x[p].effects
      BY SMTT(30), <1>3, <1>4
    <3> QED
      BY SMTT(30), <1>2, <1>7, <2>1, <3>2, <3>4, <3>5, <3>6 DEF JointIn
  <2> QED
    BY <2>2, <2>3
<1>8. CASE NextCommandMove(u, v)
  <2>1. \A i \in DOMAIN u.plan : i <= u.step => OpenAgree(u.plan, x, i)
    BY <1>1, <1>6
  <2>2. \A p \in Owner : \A i \in x[p].effects : i <= u.step
    BY SMTT(30), <1>1, <1>3, <1>4
  <2> QED
    BY <1>1, <1>2, <1>8, <2>1, <2>2, NextCommandJoint
<1> QED
  BY <1>1, <1>7, <1>8 DEF Move, Advance

\* An answer to "accept": what the candidates of a command agreed on is accepted.
LEMMA AcceptJoint ==
    ASSUME NEW t, NEW x, NEW v, NEW y, NEW o \in Owner, JointIn(t, x), Numbered(t, x), Numbered(t, y),
           t.kind = "exec", t.phase = "accept", o \in t.todo, SameDecision(t, v), Move(t, v, o),
           \A p \in Owner : p # o => y[p] = x[p],
           \/ y[o] = x[o] /\ ~x[o].open
           \/ /\ x[o].open /\ y[o].open
              /\ y[o].effects = x[o].effects \cup (IF t.candidates[o] = "ok" THEN {t.step} ELSE {})
    PROVE  JointIn(v, y)
<1>1. v.plan = t.plan /\ v.owners = t.owners /\ v.kind = t.kind
  BY DEF SameDecision
<1>2. /\ t.step \in Nat /\ DOMAIN t.plan = 1..Len(t.plan) /\ Len(t.plan) \in Nat /\ t.step \in DOMAIN t.plan
      /\ \A i \in DOMAIN t.plan : t.plan[i] \subseteq Owner
      /\ \A p \in Owner : x[p].effects \subseteq Nat
  BY NumberedFacts DEF Numbered
<1>3. \A p \in Owner : \A i \in y[p].effects : i <= t.step
  BY SMTT(30), <1>2 DEF JointIn
<1>4. \A p \in Owner : y[p].open <=> x[p].open
  OBVIOUS
<1>5. ASSUME NEW i \in DOMAIN t.plan, i < t.step
      PROVE  OpenAgree(t.plan, y, i)
  <2>1. OpenAgree(t.plan, x, i)
    BY <1>5, AgreeUnsealed DEF JointIn, Sealed
  <2>2. i # t.step /\ t.plan[i] \subseteq Owner
    BY SMTT(30), <1>2, <1>5
  <2>3. \A p \in Owner : i \in y[p].effects <=> i \in x[p].effects
    BY <2>2
  <2> QED
    BY <1>4, <2>1, <2>2, <2>3 DEF OpenAgree
<1>6. ASSUME NEW p \in t.plan[t.step], y[p].open
      PROVE  t.step \in y[p].effects <=> p \notin t.todo \ {o} /\ t.candidates[p] = "ok"
  <2>1. p \in Owner /\ x[p].open
    BY <1>2, <1>4, <1>6
  <2>2. t.step \in x[p].effects <=> p \notin t.todo /\ t.candidates[p] = "ok"
    BY <1>6, <2>1 DEF JointIn
  <2>3. CASE p = o
    BY <2>1, <2>2, <2>3
  <2>4. CASE p # o
    BY <2>1, <2>2, <2>4
  <2> QED
    BY <2>3, <2>4
<1>7. \A p, q \in t.plan[t.step] : t.candidates[p] = t.candidates[q]
  BY DEF JointIn
<1>8. CASE t.todo # {o}
  <2>1. /\ v.phase = "accept" /\ v.todo = t.todo \ {o} /\ v.step = t.step /\ v.candidates = t.candidates
    BY <1>8 DEF Move
  <2>2. ASSUME NEW i \in DOMAIN v.plan, i < v.step
        PROVE  Agree(v, y, i)
    <3>1. OpenAgree(v.plan, y, i)
      BY <1>1, <1>5, <2>1, <2>2
    <3> QED
      BY <2>1, <3>1, AgreeUnsealed DEF Sealed
  <2> QED
    BY SMTT(30), <1>1, <1>3, <1>6, <1>7, <2>1, <2>2 DEF JointIn
<1>9. CASE t.todo = {o}
  <2>1. NextCommandMove(t, v)
    BY <1>9 DEF Move, Advance
  <2>2. OpenAgree(t.plan, y, t.step)
    BY SMTT(30), <1>6, <1>7, <1>9 DEF OpenAgree
  <2>3. \A i \in DOMAIN t.plan : i <= t.step => i < t.step \/ i = t.step
    BY SMTT(30), <1>2
  <2>4. \A i \in DOMAIN t.plan : i <= t.step => OpenAgree(t.plan, y, i)
    BY <1>5, <2>2, <2>3
  <2> QED
    BY <1>1, <1>3, <2>1, <2>4, NextCommandJoint
<1> QED
  BY <1>8, <1>9

\* An answer to "seal": what was accepted is what will be applied.
LEMMA SealJoint ==
    ASSUME NEW t, NEW x, NEW u, NEW v, NEW y, NEW o \in Owner, JointIn(t, x), Numbered(t, x),
           t.kind = "exec", t.phase = "seal", o \in t.todo, SameDecision(u, v), Move(u, v, o),
           u.kind = t.kind, u.plan = t.plan, u.owners = t.owners, u.phase = t.phase, u.todo = t.todo,
           \A p \in Owner \ {o} : u.prepared[p] = t.prepared[p],
           x[o].open, u.prepared[o].effects = x[o].effects,
           \A p \in Owner : p # o => y[p] = x[p]
    PROVE  JointIn(v, y)
<1>1. v.plan = t.plan /\ v.owners = t.owners /\ v.kind = t.kind /\ v.prepared = u.prepared
  BY DEF SameDecision
<1>2. \A i \in DOMAIN t.plan : t.plan[i] \subseteq Owner /\ t.plan[i] \subseteq t.owners
  BY NumberedFacts
<1>3. \A i \in DOMAIN t.plan : Agree(t, x, i)
  BY DEF JointIn
<1>4. Holds(t, x, o) /\ EffectsAt(t, x, o) = u.prepared[o].effects
  BY DEF Holds, EffectsAt, Sealed
<1>5. CASE t.todo # {o}
  <2>1. v.phase = "seal" /\ v.todo = t.todo \ {o}
    BY <1>5 DEF Move
  <2>2. ASSUME NEW p \in Owner
        PROVE  (Holds(v, y, p) <=> Holds(t, x, p)) /\ EffectsAt(v, y, p) = EffectsAt(t, x, p)
    <3>1. CASE p = o
      BY <1>1, <1>4, <2>1, <3>1 DEF Holds, EffectsAt, Sealed
    <3>2. CASE p # o
      BY SMTT(30), <1>1, <2>1, <3>2 DEF Holds, EffectsAt, Sealed
    <3> QED
      BY <3>1, <3>2
  <2>3. ASSUME NEW i \in DOMAIN v.plan
        PROVE  Agree(v, y, i)
    <3>1. Agree(t, x, i) /\ v.plan[i] = t.plan[i] /\ t.plan[i] \subseteq Owner
      BY <1>1, <1>2, <1>3, <2>3
    <3> QED
      BY <2>2, <3>1 DEF Agree
  <2> QED
    BY <2>1, <2>3 DEF JointIn
<1>6. CASE t.todo = {o}
  <2>1. DecideMove(u, v)
    BY <1>6 DEF Move, Advance
  <2>2. v.phase \in {"append", "apply"}
    BY <2>1 DEF DecideMove, ApplyPhase
  <2>3. ASSUME NEW p \in Owner
        PROVE  Holds(t, x, p) /\ EffectsAt(t, x, p) = v.prepared[p].effects
    <3>1. CASE p = o
      BY <1>1, <1>4, <3>1
    <3>2. CASE p # o
      BY SMTT(30), <1>1, <1>6, <3>2 DEF Holds, EffectsAt, Sealed
    <3> QED
      BY <3>1, <3>2
  <2>4. Whole(v)
    <3> SUFFICES ASSUME NEW i \in DOMAIN v.plan, NEW p \in v.plan[i], NEW q \in v.plan[i]
                 PROVE  i \in v.prepared[p].effects <=> i \in v.prepared[q].effects
      BY DEF Whole
    <3>1. i \in DOMAIN t.plan /\ p \in t.plan[i] /\ q \in t.plan[i] /\ p \in Owner /\ q \in Owner
      BY <1>1, <1>2
    <3>2. i \in EffectsAt(t, x, p) <=> i \in EffectsAt(t, x, q)
      BY <1>3, <2>3, <3>1 DEF Agree
    <3> QED
      BY <2>3, <3>1, <3>2
  <2> QED
    BY <2>2, <2>4 DEF JointIn
<1> QED
  BY <1>5, <1>6

LEMMA DiesJoint ==
    ASSUME NEW t, NEW x, NEW y, NEW o \in Owner, JointIn(t, x), Numbered(t, x),
           \A p \in Owner : p # o => y[p] = x[p], y[o] = NoTransaction
    PROVE  JointIn(t, y)
<1>1. ~y[o].open /\ y[o].effects = {}
  BY SMTT(30) DEF NoTransaction
<1>2. \A i \in DOMAIN t.plan : t.plan[i] \subseteq Owner
  BY NumberedFacts
<1>3. ASSUME NEW i \in DOMAIN t.plan, Agree(t, x, i)
      PROVE  Agree(t, y, i)
  <2>1. \A p \in t.plan[i] : Holds(t, y, p) => Holds(t, x, p) /\ EffectsAt(t, y, p) = EffectsAt(t, x, p)
    BY <1>1, <1>2 DEF Holds, EffectsAt, Sealed
  <2> QED
    BY <1>3, <2>1 DEF Agree
<1>4. CASE t.phase = "accept"
  <2>1. t.plan[t.step] \subseteq Owner
    BY <1>2, <1>4 DEF Numbered
  <2>2. t.kind = "exec" =>
          \A p \in t.plan[t.step] :
              y[p].open => (t.step \in y[p].effects <=> p \notin t.todo /\ t.candidates[p] = "ok")
    BY <1>1, <1>4, <2>1 DEF JointIn
  <2>3. t.kind = "exec" => \A p \in Owner : \A i \in y[p].effects : i <= t.step
    BY <1>1, <1>4 DEF JointIn
  <2> QED
    BY <1>3, <1>4, <2>2, <2>3 DEF JointIn
<1>5. CASE t.phase # "accept"
  <2>1. \A p \in Owner : y[p].effects = x[p].effects \/ y[p].effects = {}
    BY <1>1
  <2> QED
    BY <1>3, <1>5, <2>1 DEF JointIn
<1> QED
  BY <1>4, <1>5

-----------------------------------------------------------------------------

\* Whoever holds the barrier and has not given up admits requests afterwards.
LEMMA HolderIsClear ==
    ASSUME CoordinatorInv, BarrierInv, task.kind # "none", task.phase \notin {"drop", "release"}
    PROVE  Clear
BY DEF BarrierInv, OpenWhileHeld, Clear, Broken

LEMMA ExecNumbered ==
    ASSUME CoordinatorInv, task.kind = "exec"
    PROVE  Numbered(task, coordinated)
BY DEF CoordinatorInv, TypeOK, Shape, Numbered

\* Outside of the phases of a decision there is nothing to agree on.
LEMMA NothingToAgree ==
    ASSUME NEW t, NEW x,
           t.kind # "exec" \/ t.phase \notin {"probe", "clock", "check", "begin", "candidate", "accept",
                                              "seal", "append", "apply"}
    PROVE  JointIn(t, x)
BY DEF JointIn

LEMMA UnwantedJoint ==
    ASSUME CoordinatorInv, BarrierInv, Tidy, Joint, task.kind = "exec", NEW o \in Owner, Handles(o),
           ~ctl[o].wanted
    PROVE  Joint'
<1>1. task' = task /\ Numbered(task, coordinated) /\ JointIn(task, coordinated)
  BY ControlAnswer, ExecNumbered DEF Handles, Joint
<1>2. ASSUME task.phase \in {"begin", "candidate", "accept", "seal"}
      PROVE  \A p \in Owner : coordinated'[p] = coordinated[p]
  <2>1. Leftover(o)
    BY <1>2, HolderIsClear DEF Tidy
  <2>2. ctl[o].phase \notin Deciding
    BY <1>2, <2>1 DEF Leftover
  <2> QED
    BY <2>2, HandlesTransaction DEF Deciding
<1>3. JointIn(task', coordinated')
  BY <1>1, <1>2, JointSame
<1> QED
  BY <1>3 DEF Joint

LEMMA WantedJoint ==
    ASSUME CoordinatorInv, CoordinatorInv', BarrierInv, Tidy, Joint, task.kind = "exec",
           NEW o \in Owner, Handles(o), ctl[o].wanted
    PROVE  Joint'
<1> DEFINE x == coordinated
           y == coordinated'
<1>1. /\ task \in Task /\ Shape(task) /\ Asks(task) /\ o \in task.todo
      /\ ctl[o].phase = task.phase /\ ctl[o].candidate = task.candidates[o] /\ ctl[o].step = task.step
  BY Wanted
<1>2. Numbered(task, x) /\ JointIn(task, x) /\ y \in [Owner -> OwnerTransaction] /\ Numbered(task, y)
  BY ExecNumbered DEF Joint, CoordinatorInv, TypeOK, Numbered
<1>3. CASE FailedMove(task, task') \/ Refuses
  <2>1. task'.phase \in {"abort", "drop"}
    BY <1>3 DEF FailedMove, Refuses
  <2> QED
    BY <2>1, NothingToAgree DEF Joint
<1>4. ASSUME NEW u, Gathers(task, u, o), SameDecision(u, task'), Move(u, task', o)
      PROVE  JointIn(task', y)
  <2>1. /\ u \in Task /\ u.kind = task.kind /\ u.plan = task.plan /\ u.owners = task.owners
        /\ u.phase = task.phase /\ u.todo = task.todo /\ u.step = task.step
    BY <1>4 DEF Gathers, Collects
  <2>2. /\ task'.kind = "exec" /\ task'.plan = task.plan /\ task'.owners = task.owners
        /\ task'.prepared = u.prepared
    BY <1>4, <2>1 DEF SameDecision
  <2>3. Numbered(u, x) /\ Numbered(u, y)
    BY <1>2, <2>1 DEF Numbered, PlanOver
  <2>4. JointIn(u, x) \/ task.phase \notin {"begin", "accept"}
    <3>1. task.phase \in {"begin", "accept"} =>
            u.candidates = task.candidates /\ u.prepared = task.prepared
      BY <1>4 DEF Gathers
    <3> QED
      BY <1>2, <2>1, <3>1, JointSame
  <2>5. CASE task.phase \in {"probe", "clock", "check"}
    <3>1. \A p \in Owner : coordinated'[p] = coordinated[p]
      BY <1>1, <2>5, HandlesTransaction
    <3>2. task'.phase \in {"probe", "clock", "check", "begin"} /\ task'.step = task.step
      BY <1>4, <2>1, <2>5 DEF Move, Advance
    <3>3. \A p \in Owner : coordinated[p].effects = {}
      <4>1. \A p \in Owner : Leftover(p)
        BY <1>1, <2>5, HolderIsClear DEF Tidy
      <4>2. \A p \in Owner : ~coordinated[p].open
        BY <2>5, <4>1 DEF Leftover, Tentative, Deciding
      <4> QED
        BY SMTT(30), <4>2 DEF Tidy, NoTransaction
    <3>4. task.step = 0
      BY <1>2, <2>5 DEF JointIn
    <3> QED
      BY <3>1, <3>2, <3>3, <3>4 DEF JointIn
  <2>6. CASE task.phase = "begin"
    <3>1. \A p \in Owner : y[p] = x[p] \/ y[p].effects = {}
      BY <1>1, <2>6, HandlesTransaction
    <3> HIDE DEF x, y
    <3> QED
      BY SMTT(30), <1>4, <2>1, <2>2, <2>3, <2>4, <2>6, <3>1, BeginJoint
  <2>7. CASE task.phase = "candidate"
    <3>1. \A p \in Owner : y[p] = x[p]
      BY <1>1, <2>7, HandlesTransaction
    <3>2. y = x
      BY SMTT(30), <1>2, <3>1 DEF Numbered
    <3> HIDE DEF x, y
    <3>3. JointIn(task', x)
      BY <1>1, <1>2, <1>4, <2>3, <2>7, CandidateJoint
    <3> QED
      BY <3>2, <3>3
  <2>8. CASE task.phase = "accept"
    <3>1. u.candidates = task.candidates
      BY <1>4, <2>8 DEF Gathers
    <3>2. /\ \A p \in Owner : p # o => y[p] = x[p]
          /\ \/ y[o] = x[o] /\ ~x[o].open
             \/ /\ x[o].open /\ y[o].open
                /\ y[o].effects = x[o].effects \cup (IF u.candidates[o] = "ok" THEN {u.step} ELSE {})
      BY SMTT(30), <1>1, <2>1, <2>8, <3>1, HandlesTransaction
    <3> HIDE DEF x, y
    <3> QED
      BY SMTT(30), <1>1, <1>4, <2>1, <2>3, <2>4, <2>8, <3>2, AcceptJoint
  <2>9. CASE task.phase = "seal"
    <3>1. /\ x[o].open /\ u.prepared[o].effects = x[o].effects
          /\ \A p \in Owner \ {o} : u.prepared[p] = task.prepared[p]
      BY <1>4, <2>9 DEF Gathers
    <3>2. \A p \in Owner : p # o => y[p] = x[p]
      BY HandlesTransaction
    <3> HIDE DEF x, y
    <3> QED
      BY SMTT(30), <1>1, <1>2, <1>4, <2>1, <2>9, <3>1, <3>2, SealJoint
  <2>10. CASE task.phase = "apply"
    <3>1. u.prepared = task.prepared
      BY <1>4, <2>10 DEF Gathers
    <3>2. Whole(task)
      BY <1>2, <2>10 DEF JointIn
    <3>3. Whole(task')
      BY <2>2, <3>1, <3>2 DEF Whole
    <3>4. task'.phase \in {"apply", "drop"}
      BY <1>4, <2>1, <2>10 DEF Move, Advance
    <3> QED
      BY <3>3, <3>4 DEF JointIn
  <2>11. CASE task.phase = "abort"
    <3>1. task'.phase \in {"abort", "drop"}
      BY <1>4, <2>1, <2>11 DEF Move, Advance
    <3> QED
      BY <3>1, NothingToAgree
  <2> QED
    BY <1>1, <2>5, <2>6, <2>7, <2>8, <2>9, <2>10, <2>11 DEF Shape, PhasesOf, Asks
<1> QED
  BY <1>3, <1>4, HandlesMoves DEF Moves, Joint

LEMMA JointInit == Init => Joint
BY SMTT(30) DEF Init, NoTask, Joint, JointIn

LEMMA JointStep ==
    ASSUME CoordinatorInv, CoordinatorInv', BarrierInv, Tidy, Joint, Next
    PROVE  Joint'
<1>0. task \in Task /\ Shape(task) /\ coordinated \in [Owner -> OwnerTransaction]
      /\ JointIn(task, coordinated)
  BY DEF CoordinatorInv, TypeOK, Joint
<1> SUFFICES ASSUME task'.kind = "exec"
             PROVE  JointIn(task', coordinated')
  BY DEF Joint, JointIn
<1>1. CASE Quiet
  BY <1>0, <1>1 DEF Quiet
<1>2. ASSUME NEW o \in Owner, Dies(o)
      PROVE  JointIn(task', coordinated')
  <2>1. task' = task /\ coordinated'[o] = NoTransaction
        /\ \A p \in Owner : p # o => coordinated'[p] = coordinated[p]
    BY <1>0, <1>2 DEF Dies
  <2>2. Numbered(task, coordinated)
    BY <2>1, ExecNumbered
  <2> QED
    BY <1>0, <2>1, <2>2, DiesJoint
<1>3. ASSUME NEW o \in Owner, Handles(o)
      PROVE  JointIn(task', coordinated')
  <2>1. task.kind = "exec"
    BY <1>3, ControlAnswer DEF Handles, SameOrder
  <2> QED
    BY <1>3, <2>1, UnwantedJoint, WantedJoint DEF Joint
<1>4. ASSUME NEW o \in Owner, Snapshot(o)
      PROVE  FALSE
  <2>1. task.phase = "capture" /\ task'.kind = task.kind
    BY <1>0, <1>4 DEF Snapshot, Task
  <2> QED
    BY <1>0, <2>1 DEF Shape, PhasesOf
<1>5. ASSUME NEW c \in Client, Acquires(c)
      PROVE  JointIn(task', coordinated')
  <2>1. task'.phase \in {"probe", "prepare"} /\ task'.step = 0
    BY <1>5, AcquiresFacts
  <2> QED
    BY <2>1 DEF JointIn
<1>6. CASE SendControl
  <2>1. /\ task'.kind = task.kind /\ task'.phase = task.phase /\ task'.step = task.step
        /\ task'.plan = task.plan /\ task'.todo = task.todo /\ task'.candidates = task.candidates
        /\ task'.prepared = task.prepared /\ UNCHANGED coordinated
    BY <1>0, <1>6 DEF SendControl, Task
  <2>2. Numbered(task, coordinated)
    BY <2>1, ExecNumbered
  <2> QED
    BY <1>0, <2>1, <2>2, JointSame
<1>7. CASE ControlFailed
  <2>1. FailedMove(task, task')
    BY <1>0, <1>7, FailedFacts DEF ControlFailed, Asking
  <2> QED
    BY <2>1, NothingToAgree DEF FailedMove
<1>8. CASE AppendDecision
  <2>1. task.phase = "append" /\ task'.kind = task.kind
    BY <1>0, <1>8 DEF AppendDecision, Task, Application, Enter, Complete, Failed
  <2>2. Whole(task) /\ task.publication /\ PlanOver(task)
    BY <1>0, <2>1 DEF JointIn, Shape, Publishing
  <2>3. CASE \E n \in Nat : task' = Application([task EXCEPT !.position = n])
    <3>1. PICK n \in Nat : task' = Application([task EXCEPT !.position = n])
      BY <2>3
    <3> DEFINE t == [task EXCEPT !.position = n]
    <3>2. /\ t \in Task /\ t.kind = "exec" /\ t.plan = task.plan /\ t.owners = task.owners
          /\ t.prepared = task.prepared /\ t.publication /\ t.step = task.step
      BY <1>0, <2>1, <2>2 DEF Task
    <3>3. task' = Application(t)
      BY <3>1
    <3> HIDE DEF t
    <3>4. PlanOver(t)
      BY <2>2, <3>2 DEF PlanOver
    <3>5. SameDecision(t, task') /\ task'.phase = "apply"
      BY <3>2, <3>3, <3>4, ApplicationFacts DEF ApplyPhase
    <3>6. Whole(task')
      BY SMTT(30), <2>2, <3>2, <3>5 DEF SameDecision, Whole
    <3> QED
      BY <3>5, <3>6 DEF JointIn
  <2>4. CASE task' = Complete(task, "limit") \/ task' = Failed(task)
    <3>1. task'.phase \in {"abort", "drop"}
      BY SMTT(30), <1>0, <2>1, <2>4, CompleteFacts, FailedFacts DEF Results, FailedMove
    <3> QED
      BY <3>1, NothingToAgree
  <2>5. Len(Append(log, Record(Mutating(task), Origin(task.kind)))) \in Nat
    BY SMTT(30) DEF CoordinatorInv, TypeOK
  <2> QED
    BY <1>8, <2>3, <2>4, <2>5 DEF AppendDecision
<1>9. CASE DropPublication \/ FreezeEnd
  <2>1. task'.phase = "release"
    BY <1>0, <1>9 DEF DropPublication, FreezeEnd, Task
  <2> QED
    BY <2>1, NothingToAgree
<1>10. ~Release
  BY SMTT(30) DEF Release, NoTask
<1>11. ~FreezeBegin
  BY DEF FreezeBegin, NoTask
<1> QED
  BY <1>1, <1>2, <1>3, <1>4, <1>5, <1>6, <1>7, <1>8, <1>9, <1>10, <1>11, StepCases

\* Nothing is written while the owners are captured.
LEMMA FileStays ==
    ASSUME CoordinatorInv, BarrierInv, Next, task.phase \in {"capture", "captured"}
    PROVE  UNCHANGED log
<1>1. CASE Idles
  BY <1>1 DEF Idles
<1>2. ~AppendDecision
  BY DEF AppendDecision
<1>3. ASSUME NEW o \in Owner, Persist(o)
      PROVE  FALSE
  BY <1>3, OneJob DEF Persist
<1>4. ASSUME NEW o \in Owner, ApplyPersisted(o)
      PROVE  UNCHANGED log
  BY <1>4 DEF ApplyPersisted
<1>5. ASSUME NEW o \in Owner, Apply(o) \/ ApplyWatch(o)
      PROVE  UNCHANGED log
  BY <1>5, ApplyOutcome
<1> QED
  BY <1>1, <1>2, <1>3, <1>4, <1>5, StoreCases DEF CoordinatorInv

LEMMA CapturedInit == Init => Captured
BY SMTT(30) DEF Init, NoTask, Captured

LEMMA CapturedStep ==
    ASSUME CoordinatorInv, CoordinatorInv', BarrierInv, Visible, Captured, Next
    PROVE  Captured'
<1>0. task \in Task /\ Shape(task) /\ Shape(task')
  BY DEF CoordinatorInv, TypeOK
<1> SUFFICES ASSUME task'.phase \in {"capture", "captured"}
             PROVE  \A o \in Owner : o \notin task'.todo \/ task'.phase = "captured" =>
                                         task'.image[o] = RecordsOf(o)'
  BY DEF Captured
<1>1. task'.kind = "freeze"
  BY <1>0 DEF Shape, PhasesOf
<1>2. CASE task' = task
  <2>1. \A o \in Owner : RecordsOf(o)' = RecordsOf(o)
    BY <1>2, FileStays DEF RecordsOf
  <2> QED
    BY <1>2, <2>1 DEF Captured
<1>3. ASSUME NEW o \in Owner, Snapshot(o)
      PROVE  \A p \in Owner : p \notin task'.todo \/ task'.phase = "captured" =>
                                  task'.image[p] = RecordsOf(p)'
  <2>1. task.phase = "capture" /\ o \in task.todo /\ worker[o].pc = "select"
    BY <1>3 DEF Snapshot, Selecting
  <2>2. /\ task'.image = [task.image EXCEPT ![o] = applied[o]] /\ task'.todo = task.todo \ {o}
        /\ task'.phase = "captured" => task.todo = {o}
    BY <1>0, <1>3, <2>1 DEF Snapshot, Task
  <2>3. \A p \in Owner : RecordsOf(p)' = RecordsOf(p)
    BY <2>1, FileStays DEF RecordsOf
  <2>4. RecordsOf(o) = applied[o]
    <3>1. Clear
      BY <1>0, <2>1, HolderIsClear DEF Shape, PhasesOf
    <3>2. UpToDate(o)
      BY <2>1, <3>1 DEF Visible, Alive, Dead
    <3> QED
      BY <2>1, <3>2 DEF UpToDate, InFlight, Pending
  <2>5. task.image \in [Owner -> SUBSET Nat]
    BY <1>0 DEF Task
  <2>6. ASSUME NEW p \in Owner, p \notin task'.todo \/ task'.phase = "captured"
        PROVE  task'.image[p] = RecordsOf(p)
    <3>1. CASE p = o
      BY <2>2, <2>4, <2>5, <3>1
    <3>2. CASE p # o
      BY <2>1, <2>2, <2>5, <2>6, <3>2 DEF Captured
    <3> QED
      BY <3>1, <3>2
  <2> QED
    BY <2>3, <2>6
<1>4. ASSUME NEW o \in Owner, Handles(o)
      PROVE  task' = task
  BY <1>1, <1>4, ControlAnswer, Wanted DEF Handles, SameOrder
<1>5. ~(\E c \in Client : Acquires(c))
  BY <1>1, AcquiresFacts
<1>6. ~SendControl
  BY <1>0, <1>1 DEF SendControl, Asking, Task
<1>7. ~ControlFailed
  BY <1>0, <1>1, FailedFacts DEF ControlFailed, Asking, FailedMove, SameDecision
<1>8. ~AppendDecision
  <2>1. SUFFICES ASSUME AppendDecision PROVE FALSE
    OBVIOUS
  <2>2. task'.kind = task.kind /\ task.phase = "append"
    BY <1>0, <2>1 DEF AppendDecision, Task, Application, Enter, Complete, Failed
  <2> QED
    BY <1>0, <1>1, <2>2 DEF Shape, PhasesOf
<1>9. ~DropPublication /\ ~FreezeEnd /\ ~Release
  BY SMTT(30), <1>0 DEF DropPublication, FreezeEnd, Release, NoTask, Task
<1>10. CASE FreezeBegin
  BY <1>10 DEF FreezeBegin, NoTask
<1> QED
  BY <1>2, <1>3, <1>4, <1>5, <1>6, <1>7, <1>8, <1>9, <1>10, StepCases DEF Quiet, Dies
=============================================================================
