----------------------------- MODULE OwnersTask -----------------------------
(***************************************************************************)
(* How the answers of the owners move the task that holds the barrier, and *)
(* the first layer of the invariant: types, the shape of the task and the  *)
(* controls it waits for.  StepCases sorts the steps of Owners by what     *)
(* they do to task, controls and tentative transactions.                   *)
(***************************************************************************)
EXTENDS OwnersInvariants, WellFoundedInduction, TLAPS

\* Zenon tries every leaf; the leaves with arithmetic or large records name SMT.
USE ZenonT(30)

\* Every non-empty set of natural numbers has a least element.
LEMMA LeastNumber ==
    ASSUME NEW T \in SUBSET Nat, T # {}
    PROVE  \E x \in T : \A y \in T : x <= y
<1> DEFINE Less == {ss \in Nat \X Nat : ss[1] < ss[2]}
<1>1. IsWellFoundedOn(Less, Nat)
  BY NatLessThanWellFounded, Zenon DEF OpToRel
<1>2. PICK x \in T : \A y \in T : ~ (<<y, x>> \in Less)
  <2> HIDE DEF Less
  <2> QED
    BY <1>1, WFMin
<1>3. \A y \in T : ~ (y < x)
  BY <1>2
<1> QED
  BY SMTT(30), <1>3

-----------------------------------------------------------------------------

\* FirstOwner is the least owner of the set it is given.
LEMMA FirstOwnerIn ==
    ASSUME NEW S \in SUBSET Owner, S # {}
    PROVE  FirstOwner(S) \in S
<1>1. S \in SUBSET Nat
  BY SMTT(30), BoundsAssumption DEF Owner
<1>2. \E x \in S : \A y \in S : x <= y
  BY <1>1, LeastNumber
<1> QED
  BY <1>2 DEF FirstOwner

LEMMA EnterFacts ==
    ASSUME NEW t \in Task, NEW phase \in Phases, Enter(t, phase).todo \subseteq Owner
    PROVE  /\ Enter(t, phase) \in Task /\ SameDecision(t, Enter(t, phase))
           /\ Enter(t, phase).phase = phase /\ ~Enter(t, phase).asked
           /\ Enter(t, phase).step = t.step /\ Enter(t, phase).candidates = t.candidates
           /\ Enter(t, phase).publication = t.publication /\ Enter(t, phase).acquired = t.acquired
           /\ Enter(t, phase).result = t.result
BY DEF Enter, Task, SameDecision

LEMMA CompleteFacts ==
    ASSUME NEW t \in Task, NEW r \in Results
    PROVE  /\ Complete(t, r) \in Task /\ SameDecision(t, Complete(t, r))
           /\ Complete(t, r).phase = "drop" /\ ~Complete(t, r).asked /\ ~Complete(t, r).publication
           /\ Complete(t, r).step = t.step
BY DEF Complete, Task, Phases, SameDecision, Results

LEMMA CompleteShape ==
    ASSUME NEW t \in Task, Shape(t), t.kind \in {"exec", "watch"}, NEW r \in Results
    PROVE  Shape(Complete(t, r))
<1> DEFINE u == Complete(t, r)
<1>1. SameDecision(t, u) /\ u.phase = "drop" /\ u.step = t.step
  BY CompleteFacts
<1> HIDE DEF u
<1>2. PlanOver(u)
  BY <1>1 DEF PlanOver, Shape, SameDecision
<1>3. u.phase \in PhasesOf(u.kind)
  BY <1>1 DEF PhasesOf, SameDecision
<1> QED
  BY <1>1, <1>2, <1>3 DEF Shape, SameDecision, Asks, Publishing, u

LEMMA FailedFacts ==
    ASSUME NEW t \in Task, Shape(t), t.kind \in {"exec", "watch"}
    PROVE  Failed(t) \in Task /\ Shape(Failed(t)) /\ FailedMove(t, Failed(t))
<1> DEFINE u == Failed(t)
<1>1. CASE t.phase \in {"begin", "candidate", "accept", "seal"}
  <2> DEFINE e == Enter(t, "abort")
  <2>1. Enter(t, "abort").todo = t.owners
    BY DEF Enter, Task
  <2>2. /\ e \in Task /\ SameDecision(t, e) /\ e.phase = "abort" /\ ~e.asked
        /\ e.publication = t.publication /\ e.step = t.step /\ e.todo = t.owners
    BY SMTT(30), <2>1, EnterFacts DEF Phases, Task
  <2>3. u = [e EXCEPT !.result = "error"]
    BY <1>1 DEF Failed
  <2> HIDE DEF e, u
  <2>4. u \in Task /\ FailedMove(t, u)
    BY <1>1, <2>2, <2>3 DEF Task, FailedMove, SameDecision
  <2>5. t.kind = "exec"
    BY <1>1 DEF Shape, PhasesOf
  <2>6. u.phase = "abort" /\ u.todo = t.owners /\ u.step = t.step /\ u.publication = t.publication
    BY <1>1, <2>4 DEF FailedMove
  <2>7. PlanOver(u) /\ u.phase \in PhasesOf(u.kind)
    BY <2>4, <2>5, <2>6 DEF Shape, PlanOver, PhasesOf, SameDecision, FailedMove
  <2>8. t.publication
    BY <1>1, <2>5 DEF Shape, Publishing
  <2>9. Shape(u)
    BY <2>4, <2>5, <2>6, <2>7, <2>8 DEF Shape, FailedMove, SameDecision, Asks, PlanOver
  <2> QED
    BY <2>4, <2>9 DEF u
<1>2. CASE t.phase \notin {"begin", "candidate", "accept", "seal"}
  <2>1. u = [t EXCEPT !.phase = "drop", !.asked = FALSE, !.result = "error"]
    BY <1>2 DEF Failed
  <2> HIDE DEF u
  <2>2. u \in Task /\ FailedMove(t, u)
    BY <1>2, <2>1 DEF Task, FailedMove, SameDecision, Phases
  <2>3. u.phase = "drop" /\ u.step = t.step
    BY <1>2, <2>2 DEF FailedMove
  <2>4. PlanOver(u) /\ u.phase \in PhasesOf(u.kind)
    BY <2>2, <2>3 DEF Shape, PlanOver, PhasesOf, SameDecision, FailedMove
  <2>5. Shape(u)
    BY <2>2, <2>3, <2>4 DEF Shape, FailedMove, SameDecision, Asks, Publishing
  <2> QED
    BY <2>2, <2>5 DEF u
<1> QED
  BY <1>1, <1>2

LEMMA NextCommandFacts ==
    ASSUME NEW t \in Task, t.kind = "exec", PlanOver(t), t.publication
    PROVE  /\ NextCommand(t) \in Task /\ SameDecision(t, NextCommand(t)) /\ Shape(NextCommand(t))
           /\ ~NextCommand(t).asked /\ NextCommand(t).publication
           /\ NextCommand(t).acquired = t.acquired /\ NextCommandMove(t, NextCommand(t))
<1> DEFINE u == NextCommand(t)
<1>0. t.step \in Nat /\ Len(t.plan) \in Nat /\ t.plan \in Seq(SUBSET Owner) /\ t.owners \in SUBSET Owner
  BY SMTT(30) DEF Task
<1>p. "seal" \in Phases /\ "candidate" \in Phases
  BY DEF Phases
<1>1. CASE t.step = Len(t.plan)
  <2>1. u = Enter(t, "seal")
    BY <1>1 DEF NextCommand
  <2>2. Enter(t, "seal").todo = t.owners
    BY DEF Enter, Task
  <2> HIDE DEF u
  <2>3. /\ u \in Task /\ SameDecision(t, u) /\ u.phase = "seal" /\ ~u.asked /\ u.acquired = t.acquired
        /\ u.publication = t.publication /\ u.step = t.step /\ u.todo = t.owners
    BY <1>0, <1>p, <2>1, <2>2, EnterFacts
  <2>4. PlanOver(u) /\ u.phase \in PhasesOf(u.kind)
    BY <2>3 DEF PlanOver, PhasesOf, SameDecision
  <2>5. Shape(u)
    BY <1>1, <2>3, <2>4 DEF Shape, SameDecision, PlanOver
  <2> QED
    BY <1>1, <2>3, <2>5 DEF NextCommandMove, u
<1>2. CASE t.step # Len(t.plan)
  <2> DEFINE v == [t EXCEPT !.step = @ + 1, !.candidates = [o \in Owner |-> "none"]]
  <2>1. u = Enter(v, "candidate")
    BY <1>2 DEF NextCommand
  <2>a. [o \in Owner |-> "none"] \in [Owner -> Outcomes] /\ t.step + 1 \in Nat
    BY SMTT(30), <1>0 DEF Outcomes
  <2>2. /\ v \in Task /\ SameDecision(t, v) /\ v.step = t.step + 1
        /\ v.candidates = [o \in Owner |-> "none"] /\ v.publication = t.publication
        /\ v.acquired = t.acquired
    BY <1>0, <2>a DEF Task, SameDecision
  <2>3. t.step < Len(t.plan) /\ t.step + 1 \in DOMAIN t.plan
    BY SMTT(30), <1>0, <1>2 DEF PlanOver
  <2> HIDE DEF v, u
  <2>4. Enter(v, "candidate").todo = t.plan[t.step + 1]
    BY <2>2 DEF Enter, Task, SameDecision
  <2>5. t.plan[t.step + 1] \subseteq t.owners /\ t.plan[t.step + 1] # {}
    BY <2>3 DEF PlanOver
  <2>b. Enter(v, "candidate").todo \subseteq Owner
    BY <1>0, <2>4, <2>5
  <2>c. /\ u \in Task /\ SameDecision(v, u) /\ u.phase = "candidate" /\ ~u.asked
        /\ u.acquired = v.acquired /\ u.candidates = v.candidates
        /\ u.publication = v.publication /\ u.step = v.step
    BY <1>p, <2>1, <2>2, <2>b, EnterFacts
  <2>6. /\ u \in Task /\ SameDecision(v, u) /\ u.phase = "candidate" /\ ~u.asked
        /\ u.acquired = t.acquired /\ u.candidates = [o \in Owner |-> "none"]
        /\ u.publication = t.publication /\ u.step = t.step + 1 /\ u.todo = t.plan[t.step + 1]
    BY <2>1, <2>2, <2>4, <2>c
  <2>7. SameDecision(t, u)
    BY <2>2, <2>6 DEF SameDecision
  <2>8. PlanOver(u) /\ u.phase \in PhasesOf(u.kind)
    BY SMTT(30), <1>0, <2>3, <2>6, <2>7 DEF PlanOver, PhasesOf, SameDecision
  <2>9. Shape(u)
    BY <2>3, <2>5, <2>6, <2>7, <2>8 DEF Shape, SameDecision
  <2> QED
    BY <2>3, <2>6, <2>7, <2>9 DEF NextCommandMove, u
<1> QED
  BY <1>1, <1>2

LEMMA SameMutating ==
    ASSUME NEW t, NEW u, SameDecision(t, u)
    PROVE  Mutating(u) = Mutating(t)
BY DEF SameDecision, Mutating

LEMMA ApplicationFacts ==
    ASSUME NEW t \in Task, t.kind \in {"exec", "watch"}, PlanOver(t), t.kind = "exec" => t.publication,
           Mutating(t) # {} => t.publication
    PROVE  /\ Application(t) \in Task /\ SameDecision(t, Application(t)) /\ Shape(Application(t))
           /\ ~Application(t).asked /\ Application(t).acquired = t.acquired
           /\ Application(t).phase = ApplyPhase(t) /\ Application(t).todo = t.owners
           /\ Application(t).publication = t.publication
<1> DEFINE p == ApplyPhase(t)
           u == Application(t)
<1>1. p \in {"apply", "applywatch"} /\ p \in PhasesOf(t.kind) /\ p \in Phases
  BY DEF ApplyPhase, PhasesOf, Phases
<1>2. u = Enter(t, p)
  BY DEF Application, ApplyPhase
<1> HIDE DEF p, u
<1>3. Enter(t, p).todo = t.owners
  BY <1>1 DEF Enter, Task
<1>4. t.owners \subseteq Owner
  BY DEF Task
<1>5. /\ u \in Task /\ SameDecision(t, u) /\ u.phase = p /\ ~u.asked /\ u.acquired = t.acquired
      /\ u.publication = t.publication /\ u.step = t.step /\ u.todo = t.owners
  BY <1>1, <1>2, <1>3, <1>4, EnterFacts
<1>6. PlanOver(u) /\ u.phase \in PhasesOf(u.kind)
  BY <1>1, <1>5 DEF PlanOver, SameDecision
<1>7. Mutating(u) = Mutating(t)
  BY <1>5, SameMutating
<1>8. Shape(u)
  BY <1>1, <1>5, <1>6, <1>7 DEF Shape, SameDecision, PlanOver
<1> QED
  BY <1>5, <1>8 DEF u, p

LEMMA DecideFacts ==
    ASSUME NEW t \in Task, t.kind \in {"exec", "watch"}, PlanOver(t), t.kind = "exec" => t.publication
    PROVE  /\ Decide(t) \in Task /\ SameDecision(t, Decide(t)) /\ Shape(Decide(t))
           /\ ~Decide(t).asked /\ Decide(t).acquired = t.acquired /\ DecideMove(t, Decide(t))
<1> DEFINE u == Decide(t)
<1>1. CASE Mutating(t) # {}
  <2> DEFINE e == Enter(t, "append")
  <2>1. "append" \in Phases /\ "append" \in PhasesOf(t.kind)
    BY DEF Phases, PhasesOf
  <2>2. Enter(t, "append").todo = t.owners /\ t.owners \subseteq Owner
    BY DEF Enter, Task
  <2>3. u = [e EXCEPT !.publication = TRUE]
    BY <1>1 DEF Decide
  <2>4. /\ e \in Task /\ SameDecision(t, e) /\ e.phase = "append" /\ ~e.asked
        /\ e.acquired = t.acquired /\ e.step = t.step /\ e.todo = t.owners
    BY <2>1, <2>2, EnterFacts
  <2> HIDE DEF e, u
  <2>5. /\ u \in Task /\ SameDecision(t, u) /\ u.phase = "append" /\ ~u.asked /\ u.publication
        /\ u.acquired = t.acquired /\ u.step = t.step /\ u.todo = t.owners
    BY <2>3, <2>4 DEF Task, SameDecision
  <2>6. PlanOver(u) /\ u.phase \in PhasesOf(u.kind)
    BY <2>1, <2>5 DEF PlanOver, SameDecision
  <2>7. Shape(u)
    BY <2>5, <2>6 DEF Shape, Asks, PlanOver, SameDecision
  <2> QED
    BY <1>1, <2>5, <2>7 DEF DecideMove, u
<1>2. CASE Mutating(t) = {}
  <2>1. u = Application(t)
    BY <1>2 DEF Decide
  <2> QED
    BY <1>2, <2>1, ApplicationFacts DEF DecideMove, u
<1> QED
  BY <1>1, <1>2

\* The phases that follow without a condition.
LEMMA EnterShape ==
    ASSUME NEW t \in Task, Shape(t), t.kind = "exec",
           NEW phase \in {"clock", "check"}
    PROVE  /\ Enter(t, phase) \in Task /\ SameDecision(t, Enter(t, phase)) /\ Shape(Enter(t, phase))
           /\ ~Enter(t, phase).asked /\ Enter(t, phase).acquired = t.acquired
           /\ Enter(t, phase).phase = phase /\ Enter(t, phase).publication = t.publication
           /\ Enter(t, phase).step = t.step
           /\ phase = "check" => Enter(t, phase).todo = t.owners
<1> DEFINE u == Enter(t, phase)
<1>1. PlanOver(t) /\ t.owners \subseteq Owner /\ t.owners # {}
  BY DEF Shape, PlanOver, Task
<1>2. FirstOwner(t.owners) \in t.owners
  BY <1>1, FirstOwnerIn
<1>3. u.todo = IF phase = "clock" THEN {FirstOwner(t.owners)} ELSE t.owners
  BY DEF Enter, Task
<1>4. phase \in Phases /\ phase \in PhasesOf(t.kind)
  BY DEF Phases, PhasesOf
<1>5. /\ u \in Task /\ SameDecision(t, u) /\ u.phase = phase /\ ~u.asked /\ u.acquired = t.acquired
      /\ u.publication = t.publication /\ u.step = t.step
  BY <1>1, <1>2, <1>3, <1>4, EnterFacts
<1> HIDE DEF u
<1>6. PlanOver(u) /\ u.phase \in PhasesOf(u.kind)
  BY <1>1, <1>4, <1>5 DEF PlanOver, SameDecision
<1>7. u.todo # {} /\ u.todo \subseteq u.owners
  BY <1>1, <1>2, <1>3, <1>5 DEF SameDecision
<1>8. Shape(u)
  BY <1>5, <1>6, <1>7 DEF Shape, SameDecision, Publishing
<1> QED
  BY <1>3, <1>5, <1>8 DEF u

LEMMA BeginFacts ==
    ASSUME NEW t \in Task, Shape(t), t.kind = "exec",
           NEW u, u = [Enter(t, "begin") EXCEPT !.publication = TRUE]
    PROVE  /\ u \in Task /\ SameDecision(t, u) /\ Shape(u) /\ ~u.asked /\ u.acquired = t.acquired
           /\ u.phase = "begin" /\ u.todo = t.owners /\ u.step = t.step /\ u.publication
<1> DEFINE e == Enter(t, "begin")
<1>1. PlanOver(t) /\ t.owners \subseteq Owner
  BY DEF Shape, Task
<1>2. e.todo = t.owners
  BY DEF Enter, Task
<1>3. "begin" \in Phases /\ "begin" \in PhasesOf(t.kind)
  BY DEF Phases, PhasesOf
<1>4. /\ e \in Task /\ SameDecision(t, e) /\ e.phase = "begin" /\ ~e.asked /\ e.acquired = t.acquired
      /\ e.step = t.step /\ e.todo = t.owners
  BY <1>1, <1>2, <1>3, EnterFacts
<1> HIDE DEF e
<1>5. /\ u \in Task /\ SameDecision(t, u) /\ u.phase = "begin" /\ ~u.asked /\ u.acquired = t.acquired
      /\ u.step = t.step /\ u.todo = t.owners /\ u.publication
  BY <1>4 DEF e, Task, SameDecision
<1>6. PlanOver(u) /\ u.phase \in PhasesOf(u.kind)
  BY <1>1, <1>3, <1>5 DEF PlanOver, SameDecision
<1> QED
  BY <1>1, <1>5, <1>6 DEF Shape, SameDecision, Asks, PlanOver

LEMMA AcceptFacts ==
    ASSUME NEW t \in Task, Shape(t), t.kind = "exec", t.phase = "candidate"
    PROVE  /\ Enter(t, "accept") \in Task /\ SameDecision(t, Enter(t, "accept"))
           /\ Shape(Enter(t, "accept")) /\ ~Enter(t, "accept").asked
           /\ Enter(t, "accept").acquired = t.acquired /\ Enter(t, "accept").publication
           /\ Enter(t, "accept").phase = "accept" /\ Enter(t, "accept").step = t.step
           /\ Enter(t, "accept").todo = t.plan[t.step]
           /\ Enter(t, "accept").candidates = t.candidates
<1> DEFINE u == Enter(t, "accept")
<1>1. /\ PlanOver(t) /\ t.owners \subseteq Owner /\ t.step \in DOMAIN t.plan
      /\ t.publication
  BY DEF Shape, Task, Publishing
<1>2. t.plan[t.step] # {} /\ t.plan[t.step] \subseteq t.owners
  BY <1>1 DEF PlanOver
<1>3. u.todo = t.plan[t.step]
  BY DEF Enter, Task
<1>4. "accept" \in Phases /\ "accept" \in PhasesOf(t.kind)
  BY DEF Phases, PhasesOf
<1>5. /\ u \in Task /\ SameDecision(t, u) /\ u.phase = "accept" /\ ~u.asked /\ u.acquired = t.acquired
      /\ u.publication = t.publication /\ u.step = t.step /\ u.candidates = t.candidates
  BY <1>1, <1>2, <1>3, <1>4, EnterFacts
<1> HIDE DEF u
<1>6. PlanOver(u) /\ u.phase \in PhasesOf(u.kind)
  BY <1>1, <1>4, <1>5 DEF PlanOver, SameDecision
<1>7. Shape(u)
  BY <1>1, <1>2, <1>3, <1>5, <1>6 DEF Shape, SameDecision
<1> QED
  BY <1>1, <1>3, <1>5, <1>7 DEF u

\* What every answer does to the task: its shape stays, and it moves on.
LEMMA AnsweredFacts ==
    ASSUME NEW t \in Task, Shape(t), Asks(t), NEW o \in t.todo
    PROVE  /\ Answered(t, o) \in Task /\ SameDecision(t, Answered(t, o)) /\ Shape(Answered(t, o))
           /\ ~Answered(t, o).asked /\ Answered(t, o).acquired = t.acquired
           /\ Move(t, Answered(t, o), o)
<1> DEFINE u == Answered(t, o)
<1>0. /\ t.phase \in PhasesOf(t.kind) /\ t.kind \in {"exec", "watch"} /\ PlanOver(t)
      /\ t.phase \notin {"append", "drop", "release"}
      /\ t.kind = "exec" /\ t.phase \in Publishing => t.publication
  BY DEF Shape, Asks
<1>1. CASE t.todo # {o}
  <2>1. u = [t EXCEPT !.todo = @ \ {o}, !.asked = FALSE]
    BY <1>1 DEF Answered
  <2> HIDE DEF u
  <2>2. /\ u \in Task /\ SameDecision(t, u) /\ u.phase = t.phase /\ u.todo = t.todo \ {o} /\ ~u.asked
        /\ u.step = t.step /\ u.candidates = t.candidates /\ u.publication = t.publication
        /\ u.acquired = t.acquired
    BY <2>1 DEF Task, SameDecision
  <2>3. u.todo # {} /\ u.todo \subseteq t.todo
    BY <1>1, <2>2
  <2>4. PlanOver(u)
    BY <1>0, <2>2 DEF PlanOver, SameDecision
  <2>5. Mutating(u) = Mutating(t)
    BY <2>2, SameMutating
  <2>6. Shape(u)
    BY <2>2, <2>3, <2>4, <2>5 DEF Shape, SameDecision, Asks
  <2> QED
    BY <1>1, <2>2, <2>6 DEF Move, u
<1>2. CASE t.todo = {o}
  <2>0. u = NextPhase(t)
    BY <1>2 DEF Answered
  <2> SUFFICES /\ u \in Task /\ SameDecision(t, u) /\ Shape(u) /\ ~u.asked
               /\ u.acquired = t.acquired /\ Advance(t, u)
    BY <1>2 DEF Move
  <2>1. CASE t.phase = "probe"
    <3>1. u = Enter(t, "clock") /\ t.kind = "exec"
      BY <1>0, <2>0, <2>1 DEF NextPhase, PhasesOf
    <3> QED
      BY SMTT(30), <2>1, <3>1, EnterShape DEF Advance
  <2>2. CASE t.phase = "clock"
    <3>1. u = Enter(t, "check") /\ t.kind = "exec"
      BY <1>0, <2>0, <2>2 DEF NextPhase, PhasesOf
    <3> QED
      BY SMTT(30), <2>2, <3>1, EnterShape DEF Advance
  <2>3. CASE t.phase = "check"
    <3>1. u = [Enter(t, "begin") EXCEPT !.publication = TRUE] /\ t.kind = "exec"
      BY <1>0, <2>0, <2>3 DEF NextPhase, PhasesOf
    <3> QED
      BY <2>3, <3>1, BeginFacts DEF Advance
  <2>4. CASE t.phase \in {"begin", "accept"} \/ (t.phase = "candidate" /\ RejectJoint(t))
    <3>1. u = NextCommand(t) /\ t.kind = "exec" /\ t.publication
      BY <1>0, <2>0, <2>4 DEF NextPhase, PhasesOf, Publishing
    <3> QED
      BY <1>0, <2>4, <3>1, NextCommandFacts DEF Advance
  <2>5. CASE t.phase = "candidate" /\ ~RejectJoint(t)
    <3>1. u = Enter(t, "accept") /\ t.kind = "exec"
      BY <1>0, <2>0, <2>5 DEF NextPhase, PhasesOf
    <3> QED
      BY <2>5, <3>1, AcceptFacts DEF Advance
  <2>6. CASE t.phase \in {"seal", "prepare"}
    <3>1. u = Decide(t) /\ (t.kind = "exec" => t.publication)
      BY <1>0, <2>0, <2>6 DEF NextPhase, PhasesOf, Publishing
    <3> QED
      BY <1>0, <2>6, <3>1, DecideFacts DEF Advance
  <2>7. CASE t.phase \in {"apply", "applywatch", "abort"}
    <3>1. PICK r \in {"ok", "error"} : u = Complete(t, r)
      BY <1>0, <2>0, <2>7 DEF NextPhase
    <3>2. r \in Results
      BY DEF Results
    <3>3. u \in Task /\ SameDecision(t, u) /\ u.phase = "drop" /\ ~u.asked /\ ~u.publication
      BY <3>1, <3>2, CompleteFacts
    <3>4. u.acquired = t.acquired
      BY <3>1 DEF Complete, Task
    <3>5. Shape(u)
      BY <1>0, <3>1, <3>2, CompleteShape
    <3> QED
      BY <2>7, <3>3, <3>4, <3>5 DEF Advance
  <2> QED
    BY <1>0, <2>1, <2>2, <2>3, <2>4, <2>5, <2>6, <2>7 DEF PhasesOf
<1> QED
  BY <1>1, <1>2

LEMMA ControlFields ==
    ASSUME NEW t \in Task, NEW o \in Owner
    PROVE  /\ Control(t, o) \in ControlType /\ Control(t, o).wanted
           /\ Control(t, o).phase = t.phase /\ Control(t, o).client = t.client
           /\ Control(t, o).step = t.step /\ Control(t, o).time = t.time
           /\ Control(t, o).candidate = t.candidates[o] /\ Control(t, o).prepared = t.prepared[o]
           /\ Control(t, o).position = t.position
BY DEF Control, ControlType, Task

LEMMA NothingTypes ==
    /\ NotPrepared \in Prepared /\ NoTransaction \in OwnerTransaction
    /\ NoJob \in Job /\ NoTask \in Task /\ Shape(NoTask)
    /\ NoControl \in ControlType /\ ~NoControl.wanted /\ NoControl.phase = "none"
<1>1. NotPrepared \in Prepared /\ NoTransaction \in OwnerTransaction
  BY DEF NotPrepared, Prepared, NoTransaction, OwnerTransaction
<1>2. NoJob \in Job
  BY DEF NoJob, Job, Someone
<1>3. NoTask \in Task
  BY SMTT(30), <1>1 DEF NoTask, Task, Tasks, Phases, Outcomes, Someone
<1>4. Shape(NoTask)
  BY DEF NoTask, Shape, PhasesOf, Asks, Publishing
<1>5. NoTask.phase = "none"
  BY DEF NoTask
<1>6. NoControl \in ControlType /\ ~NoControl.wanted /\ NoControl.phase = "none"
  <2> DEFINE r == Control(NoTask, 1)
  <2>1. 1 \in Owner
    BY SMTT(30), BoundsAssumption DEF Owner
  <2>2. r \in ControlType /\ r.phase = "none"
    BY <1>3, <1>5, <2>1, ControlFields
  <2> HIDE DEF r
  <2>3. NoControl = [r EXCEPT !.wanted = FALSE]
    BY DEF NoControl, r
  <2> QED
    BY <2>2, <2>3 DEF ControlType
<1> QED
  BY <1>1, <1>2, <1>3, <1>4, <1>6

LEMMA Wanted ==
    ASSUME CoordinatorInv, NEW o \in Owner, ctl[o].wanted
    PROVE  /\ Asks(task) /\ o \in task.todo /\ task.asked /\ task \in Task /\ Shape(task)
           /\ task.kind \in {"exec", "watch"}
           /\ ctl[o].phase = task.phase /\ ctl[o].client = task.client /\ ctl[o].step = task.step
           /\ ctl[o].time = task.time /\ ctl[o].candidate = task.candidates[o]
           /\ ctl[o].prepared = task.prepared[o] /\ ctl[o].position = task.position
           /\ \A p \in Owner : ctl[p].wanted => p = o
<1>1. task \in Task /\ Shape(task)
  BY DEF CoordinatorInv, TypeOK
<1>2. Asks(task) /\ task.asked /\ o = FirstOwner(task.todo) /\ ctl[o] = Control(task, o)
  BY DEF CoordinatorInv, Matching
<1>3. task.todo # {} /\ task.todo \in SUBSET Owner
  BY <1>1, <1>2 DEF Shape, Task
<1>4. o \in task.todo
  BY <1>2, <1>3, FirstOwnerIn
<1>5. \A p \in Owner : ctl[p].wanted => p = o
  BY <1>2 DEF CoordinatorInv, Matching
<1> QED
  BY SMTT(30), <1>1, <1>2, <1>4, <1>5, ControlFields DEF Asks

LEMMA CollectsShape ==
    ASSUME NEW t \in Task, Shape(t), Asks(t), NEW u, Collects(t, u)
    PROVE  Shape(u) /\ Asks(u)
<1>1. PlanOver(u)
  BY DEF Shape, Asks, PlanOver, Collects
<1>2. t.phase \in {"append", "applywatch"} => Mutating(u) = Mutating(t)
  BY DEF Mutating, Collects
<1> QED
  BY <1>1, <1>2 DEF Shape, Asks, Collects

LEMMA CollectsAnswered ==
    ASSUME NEW t \in Task, Shape(t), Asks(t), NEW u, Collects(t, u), NEW o \in t.todo
    PROVE  /\ Answered(u, o) \in Task /\ SameDecision(u, Answered(u, o)) /\ Shape(Answered(u, o))
           /\ ~Answered(u, o).asked /\ Answered(u, o).acquired = u.acquired
           /\ Move(u, Answered(u, o), o)
<1>1. u \in Task /\ Shape(u) /\ Asks(u) /\ o \in u.todo
  BY CollectsShape DEF Collects
<1> QED
  BY <1>1, AnsweredFacts

LEMMA MoveKeeps ==
    ASSUME NEW t \in Task, Asks(t), NEW u, NEW o, SameDecision(t, u), Move(t, u, o)
    PROVE  SameOrder(t, u)
<1>1. t.phase # "release"
  BY DEF Asks
<1>2. u.phase # "release"
  BY <1>1 DEF Move, Advance, NextCommandMove, DecideMove, ApplyPhase
<1> QED
  BY <1>2 DEF SameDecision, SameOrder

\* Whatever an owner answers, the task keeps its shape, and it asks anew.
LEMMA ControlAnswer ==
    ASSUME CoordinatorInv, NEW o \in Owner, ControlStep(o), ~StaleControl(o)
    PROVE  /\ ctl' = [ctl EXCEPT ![o] = NoControl]
           /\ ~ctl[o].wanted => task' = task
           /\ ctl[o].wanted => /\ task' \in Task /\ Shape(task') /\ ~task'.asked
                               /\ SameOrder(task, task')
<1> DEFINE Good(t) == t \in Task /\ Shape(t) /\ ~t.asked /\ SameOrder(task, t)
<1> SUFFICES ASSUME ctl[o].wanted
             PROVE  Good(task')
  BY DEF ControlStep, Probe, Clock, CheckWatches, Begin, Candidate, Accept, Seal, Abort,
         PrepareWatch, Apply, ApplyWatch, Replied
<1>1. /\ task \in Task /\ Shape(task) /\ Asks(task) /\ o \in task.todo
      /\ task.kind \in {"exec", "watch"} /\ ctl[o].phase = task.phase
  BY Wanted
<1>2. Good(Answered(task, o)) /\ Good(Failed(task))
  <2>1. Good(Answered(task, o))
    BY <1>1, AnsweredFacts, MoveKeeps
  <2>2. Failed(task) \in Task /\ Shape(Failed(task)) /\ FailedMove(task, Failed(task))
    BY <1>1, FailedFacts
  <2>3. SameOrder(task, Failed(task)) /\ ~Failed(task).asked
    BY <2>2 DEF FailedMove, SameOrder, SameDecision
  <2> QED
    BY <2>1, <2>2, <2>3
<1>3. Good(Complete(task, "null"))
  BY <1>1, CompleteFacts, CompleteShape DEF Results, SameOrder, SameDecision
<1>4. ASSUME NEW u, Collects(task, u)
      PROVE  Good(Answered(u, o))
  <2>1. /\ Answered(u, o) \in Task /\ SameDecision(u, Answered(u, o)) /\ Shape(Answered(u, o))
        /\ ~Answered(u, o).asked /\ Move(u, Answered(u, o), o)
    BY <1>1, <1>4, CollectsAnswered
  <2>2. u \in Task /\ Asks(u)
    BY <1>1, <1>4, CollectsShape DEF Collects
  <2>3. SameOrder(u, Answered(u, o))
    BY <2>1, <2>2, MoveKeeps
  <2> QED
    BY <1>4, <2>1, <2>3 DEF Collects, SameOrder
<1>5. \A t : Replied(o, t) => task' = t
  BY DEF Replied
<1>6. /\ generation[o] \in Nat /\ coordinated[o] \in OwnerTransaction /\ due \subseteq Owner
  BY DEF CoordinatorInv, TypeOK
<1>7. CASE Probe(o) \/ CheckWatches(o) \/ Begin(o) \/ Accept(o) \/ Abort(o) \/ Apply(o)
  <2>1. task' \in {Answered(task, o), Failed(task), Complete(task, "null")}
    BY <1>5, <1>7 DEF Probe, CheckWatches, Begin, Accept, Abort, Apply
  <2> QED
    BY <1>2, <1>3, <2>1
<1>8. CASE Clock(o)
  <2> DEFINE u == [task EXCEPT !.time = due]
  <2>1. Collects(task, u)
    BY <1>1, <1>6 DEF Collects, Task
  <2>2. task' = Answered(u, o)
    BY <1>5, <1>8 DEF Clock
  <2> QED
    BY <1>4, <2>1, <2>2
<1>9. CASE Candidate(o)
  <2>1. PICK outcome \in {"ok", "error"} :
            task' = IF coordinated[o].open
                    THEN Answered([task EXCEPT !.candidates[o] = outcome], o) ELSE Failed(task)
    BY <1>5, <1>9 DEF Candidate
  <2> DEFINE u == [task EXCEPT !.candidates[o] = outcome]
  <2>2. Collects(task, u)
    BY <1>1 DEF Collects, Task, Outcomes
  <2> QED
    BY <1>2, <1>4, <2>1, <2>2
<1>10. CASE Seal(o)
  <2> DEFINE sealed == [generation |-> generation[o], mutates |-> coordinated[o].mutates,
                        effects |-> coordinated[o].effects]
             u == [task EXCEPT !.prepared[o] = sealed]
  <2>1. sealed \in Prepared
    BY <1>6 DEF Prepared, OwnerTransaction
  <2>2. task.phase = "seal"
    BY <1>1, <1>10 DEF Seal, Receives
  <2>3. Collects(task, u)
    <3> HIDE DEF sealed
    <3> QED
      BY <1>1, <2>1, <2>2 DEF Collects, Task
  <2>4. task' = IF coordinated[o].open THEN Answered(u, o) ELSE Failed(task)
    BY <1>5, <1>10 DEF Seal
  <2> QED
    BY <1>2, <1>4, <2>3, <2>4
<1>11. CASE PrepareWatch(o)
  <2> DEFINE prepared == [generation |-> generation[o], mutates |-> o \in due, effects |-> {}]
             u == [task EXCEPT !.prepared[o] = prepared]
  <2>1. prepared \in Prepared
    BY SMTT(30), <1>6 DEF Prepared
  <2>2. task.phase = "prepare"
    BY <1>1, <1>11 DEF PrepareWatch, Receives
  <2>3. Collects(task, u)
    <3> HIDE DEF prepared
    <3> QED
      BY <1>1, <2>1, <2>2 DEF Collects, Task
  <2>4. task' = IF coordinated[o].open THEN Failed(task) ELSE Answered(u, o)
    BY <1>5, <1>11 DEF PrepareWatch
  <2> QED
    BY <1>2, <1>4, <2>3, <2>4
<1>12. CASE ApplyWatch(o)
  <2> DEFINE S == IF tokens[ctl[o].client][o] = "none" THEN {o} ELSE {}
             u == [task EXCEPT !.acquired = @ \cup S]
  <2>1. S \subseteq Owner
    OBVIOUS
  <2>2. Collects(task, u)
    <3> HIDE DEF S
    <3> QED
      BY <1>1, <2>1 DEF Collects, Task
  <2>3. task' = IF coordinated[o].open THEN Failed(task) ELSE Answered(u, o)
    BY <1>5, <1>12 DEF ApplyWatch
  <2> QED
    BY <1>2, <1>4, <2>2, <2>3
<1> QED
  BY <1>7, <1>8, <1>9, <1>10, <1>11, <1>12 DEF ControlStep

LEMMA StepCases ==
    ASSUME Next
    PROVE  \/ Quiet
           \/ \E o \in Owner : Dies(o) \/ Handles(o) \/ Snapshot(o)
           \/ \E c \in Client : Acquires(c)
           \/ SendControl \/ ControlFailed \/ AppendDecision \/ DropPublication \/ Release
           \/ FreezeBegin \/ FreezeEnd
<1>1. ASSUME NEW c \in Client, ClientStep(c)
      PROVE  Quiet \/ Acquires(c)
  BY <1>1 DEF ClientStep, Start, Unwatch, ReadAdmission, Enqueue, ClientTimeout, Unavailable,
              AcquireExclusive, channels, Quiet, Acquires
<1>2. ASSUME NEW o \in Owner, WorkerStep(o) \/ Expire(o) \/ TimePasses(o)
      PROVE  Quiet \/ Dies(o) \/ Handles(o)
  <2>1. CASE StopRequests(o) \/ Serve(o) \/ Expire(o) \/ TimePasses(o)
    BY <2>1 DEF StopRequests, Serve, Expire, TimePasses, Quiet, channels
  <2>2. CASE StopOnFailure(o) \/ StopWorker(o) \/ StaleControl(o)
    BY <2>2 DEF StopOnFailure, StopWorker, StaleControl, Die, Dies
  <2>3. CASE Persist(o) \/ ApplyPersisted(o)
    BY <2>3 DEF Persist, ApplyPersisted, Die, Dies, Quiet, channels
  <2> QED
    BY <1>2, <2>1, <2>2, <2>3 DEF WorkerStep, Handles
<1>3. CASE Shutdown
  BY <1>3 DEF Shutdown, Quiet, channels
<1> QED
  BY <1>1, <1>2, <1>3 DEF Next, CoordinatorStep

\* What an EXEC or a WATCH starts with.
LEMMA ParticipantsFacts ==
    ASSUME TypeOK, NEW c \in Client
    PROVE  /\ Participants(c) \in SUBSET Owner /\ Participants(c) # {}
           /\ \A i \in DOMAIN cl[c].plan : cl[c].plan[i] # {} /\ cl[c].plan[i] \subseteq Participants(c)
           /\ cl[c].plan \in Seq(SUBSET Owner)
           /\ cl[c].kind = "exec" => Watched(c) \subseteq Participants(c)
<1> DEFINE plan == cl[c].plan
<1>1. plan \in Seq((SUBSET Owner) \ {{}})
  BY DEF TypeOK, Connection
<1>2. \A i \in DOMAIN plan : plan[i] \in (SUBSET Owner) \ {{}}
  BY SMTT(30), <1>1
<1>3. 1 \in Owner
  BY SMTT(30), BoundsAssumption DEF Owner
<1>4. plan \in Seq(SUBSET Owner)
  BY SMTT(30), <1>1
<1> HIDE DEF plan
<1>5. Watched(c) \subseteq Owner
  BY DEF Watched
<1> QED
  BY <1>2, <1>3, <1>4, <1>5 DEF Participants, ParticipantsOf, plan

LEMMA AcquiresFacts ==
    ASSUME CoordinatorInv, NEW c \in Client, Acquires(c)
    PROVE  /\ task' \in Task /\ Shape(task') /\ ~task'.asked /\ task'.client = c
           /\ task'.kind = cl[c].kind /\ task'.kind \in {"exec", "watch"}
           /\ task'.phase \in {"probe", "prepare"} /\ task'.owners = Participants(c)
           /\ task'.step = 0 /\ ~task'.publication
<1> DEFINE t == [NoTask EXCEPT !.kind = cl[c].kind, !.client = c, !.plan = cl[c].plan,
                               !.owners = Participants(c)]
           p == IF cl[c].kind = "exec" THEN "probe" ELSE "prepare"
           u == Enter(t, p)
<1>1. cl[c].kind \in {"exec", "watch"}
  BY DEF CoordinatorInv, Coordinates, Acquires
<1>2. /\ Participants(c) \in SUBSET Owner /\ Participants(c) # {}
      /\ \A i \in DOMAIN cl[c].plan : cl[c].plan[i] # {} /\ cl[c].plan[i] \subseteq Participants(c)
      /\ cl[c].plan \in Seq(SUBSET Owner)
  BY ParticipantsFacts DEF CoordinatorInv
<1>3. /\ t \in Task /\ t.kind = cl[c].kind /\ t.client = c /\ t.plan = cl[c].plan
      /\ t.owners = Participants(c) /\ t.step = 0 /\ ~t.publication
  <2>1. NoTask \in Task /\ NoTask.step = 0 /\ ~NoTask.publication
    BY NothingTypes DEF NoTask
  <2> QED
    BY <1>1, <1>2, <2>1 DEF Task, Tasks, Someone
<1> HIDE DEF t
<1>4. p \in Phases /\ p \in {"probe", "prepare"} /\ p \in PhasesOf(t.kind)
  BY <1>1, <1>3 DEF Phases, PhasesOf
<1>5. u.todo = IF p = "probe" THEN Owner ELSE t.owners
  BY <1>3 DEF Enter, Task
<1> HIDE DEF p
<1>6. /\ u \in Task /\ SameDecision(t, u) /\ u.phase = p /\ ~u.asked
      /\ u.publication = t.publication /\ u.step = t.step
  BY SMTT(30), <1>2, <1>3, <1>4, <1>5, EnterFacts
<1> HIDE DEF u
<1>7. PlanOver(u) /\ u.phase \in PhasesOf(u.kind)
  BY SMTT(30), <1>2, <1>3, <1>4, <1>6 DEF PlanOver, SameDecision
<1>8. u.todo # {} /\ (u.phase # "probe" => u.todo = u.owners)
  BY <1>2, <1>3, <1>4, <1>5, <1>6 DEF SameDecision
<1>9. Shape(u)
  BY <1>4, <1>6, <1>7, <1>8 DEF Shape, SameDecision, Publishing
<1>10. task' = u
  BY DEF Acquires, u, t, p
<1> QED
  BY <1>1, <1>3, <1>4, <1>6, <1>9, <1>10 DEF SameDecision

LEMMA UnwantedFields ==
    ASSUME NEW r \in ControlType
    PROVE  /\ [r EXCEPT !.wanted = FALSE] \in ControlType /\ ~[r EXCEPT !.wanted = FALSE].wanted
           /\ [r EXCEPT !.wanted = FALSE].phase = r.phase
           /\ [r EXCEPT !.wanted = FALSE].prepared = r.prepared
BY DEF ControlType

\* The task keeps its type and its shape, and no owner has a control it does not know of.
LEMMA TaskStep ==
    ASSUME CoordinatorInv, Next
    PROVE  /\ task' \in Task /\ ctl' \in [Owner -> ControlType]
           /\ Shape(task)' /\ Matching'
<1>0. /\ task \in Task /\ Shape(task) /\ Matching /\ ctl \in [Owner -> ControlType]
      /\ log \in Seq(LogRecord) /\ applied \in [Owner -> SUBSET Nat]
  BY DEF CoordinatorInv, TypeOK
<1>1. CASE Quiet
  BY <1>0, <1>1 DEF Quiet, Matching, Control, Asks, Shape, PlanOver, Mutating
<1>2. ASSUME NEW o \in Owner, Dies(o)
      PROVE  /\ task' \in Task /\ ctl' \in [Owner -> ControlType] /\ Shape(task') /\ Matching'
  BY <1>0, <1>2, NothingTypes DEF Dies, Matching
<1>3. ASSUME NEW o \in Owner, Handles(o)
      PROVE  /\ task' \in Task /\ ctl' \in [Owner -> ControlType] /\ Shape(task') /\ Matching'
  <2>1. /\ ctl' = [ctl EXCEPT ![o] = NoControl]
        /\ ~ctl[o].wanted => task' = task
        /\ ctl[o].wanted => task' \in Task /\ Shape(task') /\ ~task'.asked
    BY <1>3, ControlAnswer DEF Handles
  <2>2. ctl' \in [Owner -> ControlType] /\ ~ctl'[o].wanted
    BY <1>0, <2>1, NothingTypes
  <2>3. CASE ctl[o].wanted
    <3>1. \A p \in Owner : ~ctl'[p].wanted
      BY <2>1, <2>2, <2>3, Wanted
    <3> QED
      BY <2>1, <2>2, <2>3, <3>1 DEF Matching
  <2>4. CASE ~ctl[o].wanted
    BY <1>0, <2>1, <2>2, <2>4 DEF Matching
  <2> QED
    BY <2>3, <2>4
<1>4. ASSUME UNCHANGED ctl, ~Asks(task), task' \in Task, Shape(task')
      PROVE  /\ task' \in Task /\ ctl' \in [Owner -> ControlType] /\ Shape(task') /\ Matching'
  BY <1>0, <1>4 DEF Matching
<1>5. ASSUME NEW c \in Client, Acquires(c)
      PROVE  /\ task' \in Task /\ ctl' \in [Owner -> ControlType] /\ Shape(task') /\ Matching'
  <2>1. UNCHANGED ctl /\ ~Asks(task)
    BY <1>5 DEF Acquires, AcquireGuard, Asks
  <2> QED
    BY <1>4, <1>5, <2>1, AcquiresFacts
<1>6. CASE SendControl
  <2> DEFINE o == FirstOwner(task.todo)
  <2>1. Asks(task) /\ ~task.asked /\ task' = [task EXCEPT !.asked = TRUE]
        /\ ctl' = [ctl EXCEPT ![o] = Control(task, o)]
    BY <1>6 DEF SendControl, Asking, Asks
  <2>2. task.todo # {} /\ task.todo \in SUBSET Owner
    BY <1>0, <2>1 DEF Shape, Task
  <2>3. o \in Owner
    BY <2>2, FirstOwnerIn
  <2> HIDE DEF o
  <2>4. ctl' \in [Owner -> ControlType] /\ task' \in Task
    BY <1>0, <2>1, <2>3, ControlFields DEF Task
  <2>5. /\ task'.asked /\ task'.todo = task.todo /\ task'.kind = task.kind /\ task'.phase = task.phase
        /\ task'.client = task.client /\ task'.step = task.step /\ task'.time = task.time
        /\ task'.candidates = task.candidates /\ task'.prepared = task.prepared
        /\ task'.position = task.position /\ task'.plan = task.plan /\ task'.owners = task.owners
        /\ task'.publication = task.publication /\ task'.image = task.image
    BY <1>0, <2>1 DEF Task
  <2>6. Collects(task, task')
    BY <2>4, <2>5 DEF Collects
  <2>7. Shape(task') /\ Asks(task')
    BY <1>0, <2>1, <2>6, CollectsShape
  <2>8. Control(task', o) = Control(task, o)
    BY <2>5 DEF Control
  <2>9. \A p \in Owner : ~ctl[p].wanted
    BY <1>0, <2>1 DEF Matching
  <2>10. Matching'
    <3> SUFFICES ASSUME NEW p \in Owner, ctl'[p].wanted
                 PROVE  p = o
      BY <1>0, <2>1, <2>3, <2>5, <2>7, <2>8 DEF Matching, o
    <3> QED
      BY <1>0, <2>1, <2>9
  <2> QED
    BY <2>4, <2>7, <2>10
<1>7. CASE ControlFailed
  <2> DEFINE o == FirstOwner(task.todo)
  <2>1. Asks(task) /\ task' = Failed(task) /\ task.kind \in {"exec", "watch"}
        /\ ctl' = IF ctl[o] = NoControl THEN ctl ELSE [ctl EXCEPT ![o].wanted = FALSE]
    BY <1>7 DEF ControlFailed, Asking, Asks
  <2>2. task' \in Task /\ Shape(task')
    BY <1>0, <2>1, FailedFacts
  <2>3. task.todo # {} /\ task.todo \in SUBSET Owner
    BY <1>0, <2>1 DEF Shape, Task
  <2>4. o \in Owner
    BY <2>3, FirstOwnerIn
  <2>5. \A p \in Owner : ctl[p].wanted => p = o
    BY <1>0 DEF Matching
  <2> HIDE DEF o
  <2>6. ctl' \in [Owner -> ControlType] /\ \A p \in Owner : ~ctl'[p].wanted
    <3>1. CASE ctl[o] = NoControl
      BY <1>0, <2>1, <2>5, <3>1, NothingTypes
    <3>2. CASE ctl[o] # NoControl
      <4>1. ctl' = [ctl EXCEPT ![o].wanted = FALSE]
        BY <2>1, <3>2
      <4>2. [ctl[o] EXCEPT !.wanted = FALSE] \in ControlType /\ ~[ctl[o] EXCEPT !.wanted = FALSE].wanted
        BY <1>0, <2>4, UnwantedFields
      <4> QED
        BY <1>0, <2>4, <2>5, <4>1, <4>2
    <3> QED
      BY <3>1, <3>2
  <2> QED
    BY <2>2, <2>6 DEF Matching
<1>8. CASE AppendDecision
  <2>1. task.phase = "append" /\ UNCHANGED ctl /\ ~Asks(task)
    BY <1>8 DEF AppendDecision, Asks, channels
  <2>2. task.kind \in {"exec", "watch"} /\ PlanOver(task) /\ (task.kind = "exec" => task.publication)
        /\ (Mutating(task) # {} => task.publication)
    BY <1>0, <2>1 DEF Shape, PhasesOf, Task, Tasks, Publishing
  <2>3. Failed(task) \in Task /\ Shape(Failed(task))
    BY <1>0, <2>2, FailedFacts
  <2>4. Complete(task, "limit") \in Task /\ Shape(Complete(task, "limit"))
    BY <1>0, <2>2, CompleteFacts, CompleteShape DEF Results
  <2>5. ASSUME NEW n \in Nat
        PROVE  /\ Application([task EXCEPT !.position = n]) \in Task
               /\ Shape(Application([task EXCEPT !.position = n]))
    <3> DEFINE t == [task EXCEPT !.position = n]
    <3>1. t \in Task /\ t.kind = task.kind /\ t.plan = task.plan /\ t.owners = task.owners
          /\ t.step = task.step /\ t.prepared = task.prepared /\ t.publication = task.publication
      BY <1>0 DEF Task
    <3> HIDE DEF t
    <3>2. PlanOver(t) /\ Mutating(t) = Mutating(task)
      BY <2>2, <3>1 DEF PlanOver, Mutating
    <3> QED
      BY <2>2, <3>1, <3>2, ApplicationFacts DEF t
  <2>6. Len(Append(log, Record(Mutating(task), Origin(task.kind)))) \in Nat
    <3>1. Record(Mutating(task), Origin(task.kind)) \in LogRecord
      BY <1>0 DEF Record, LogRecord, Mutating, Origin, Task
    <3> QED
      BY SMTT(30), <1>0, <3>1
  <2>7. \/ \E n \in Nat : task' = Application([task EXCEPT !.position = n])
        \/ task' \in {Complete(task, "limit"), Failed(task)}
    BY <1>8, <2>6 DEF AppendDecision
  <2>8. task' \in Task /\ Shape(task')
    BY <2>3, <2>4, <2>5, <2>7
  <2> QED
    BY <1>4, <2>1, <2>8
<1>9. CASE DropPublication \/ FreezeEnd
  <2>1. /\ task.phase \in {"drop", "capture", "captured"} /\ UNCHANGED ctl /\ ~Asks(task)
        /\ task' = [task EXCEPT !.phase = "release"]
    BY <1>0, <1>9 DEF DropPublication, FreezeEnd, Asks, Shape, PhasesOf, channels
  <2>2. /\ task' \in Task /\ task'.phase = "release" /\ task'.kind = task.kind
        /\ task'.owners = task.owners /\ task'.plan = task.plan /\ task'.step = task.step
    BY <1>0, <2>1 DEF Task, Phases
  <2>3. task'.phase \in PhasesOf(task'.kind)
    BY <1>0, <2>1, <2>2 DEF Shape, PhasesOf, Task, Tasks
  <2>4. Shape(task')
    BY <1>0, <2>2, <2>3 DEF Shape, PlanOver, Asks, Publishing
  <2> QED
    BY <1>4, <2>1, <2>2, <2>4
<1>10. CASE Release
  <2>1. task' = NoTask /\ ~Asks(task) /\ UNCHANGED ctl
    BY <1>10 DEF Release, Asks, channels
  <2> QED
    BY <1>4, <2>1, NothingTypes
<1>11. CASE FreezeBegin
  <2>1. /\ UNCHANGED ctl /\ ~Asks(task)
        /\ task' = [NoTask EXCEPT !.kind = "freeze", !.phase = "capture", !.todo = Owner]
    BY <1>11 DEF FreezeBegin, AcquireGuard, Asks, channels
  <2>2. task' \in Task /\ task'.kind = "freeze" /\ task'.phase = "capture"
    BY <2>1, NothingTypes DEF Task, Tasks, Phases
  <2>3. Shape(task')
    BY <2>2 DEF Shape, PhasesOf, Asks, Publishing
  <2> QED
    BY <1>4, <2>1, <2>2, <2>3
<1>12. ASSUME NEW o \in Owner, Snapshot(o)
       PROVE  /\ task' \in Task /\ ctl' \in [Owner -> ControlType] /\ Shape(task') /\ Matching'
  <2>1. /\ task.phase = "capture" /\ UNCHANGED ctl
        /\ task' = [task EXCEPT !.image[o] = applied[o], !.todo = @ \ {o},
                                !.phase = IF task.todo = {o} THEN "captured" ELSE @]
    BY <1>12 DEF Snapshot, channels
  <2>2. task.kind = "freeze" /\ ~Asks(task)
    BY <1>0, <2>1 DEF Shape, PhasesOf, Task, Tasks, Asks
  <2>3. task' \in Task /\ task'.kind = "freeze" /\ task'.phase \in {"capture", "captured"}
    BY <1>0, <2>1, <2>2 DEF Task, Phases
  <2>4. Shape(task')
    BY <2>3 DEF Shape, PhasesOf, Asks, Publishing
  <2> QED
    BY <1>4, <2>1, <2>2, <2>3, <2>4
<1> QED
  BY <1>1, <1>2, <1>3, <1>5, <1>6, <1>7, <1>8, <1>9, <1>10, <1>11, <1>12, StepCases

-----------------------------------------------------------------------------
(* First layer, continued: the types of everything else.                   *)

LEMMA InvalidateType ==
    ASSUME TypeOK, NEW o \in Owner
    PROVE  Invalidate(o) \in [Client -> [Owner -> {"none", "live", "changed"}]]
BY DEF TypeOK, Invalidate

\* An operation of one owner is not coordinated.
LEMMA ExecuteHasOneOwner ==
    ASSUME TypeOK, NEW c \in Client, NEW op \in Ops[cl[c].role], NEW W
    PROVE  /\ op.kind \in {"execute", "watch", "exec"} /\ op.plan \in Seq((SUBSET Owner) \ {{}})
           /\ op.kind = "execute" => Cardinality(ParticipantsOf(op.kind, op.plan, W)) = 1
<1>1. cl[c].role \in RoleNames
  BY DEF TypeOK, Connection
<1>2. PICK roles \in Roles, d \in Client : cl[c].role = roles[d]
  BY SMTT(30), <1>1 DEF RoleNames
<1>3. op \in [kind : {"execute", "watch", "exec"}, plan : Seq((SUBSET Owner) \ {{}})]
  BY <1>2, OpsAssumption
<1>4. op.kind = "execute" => Cardinality(ParticipantsOf("execute", op.plan, {})) = 1
  BY <1>2, ExecuteAssumption
<1>5. ParticipantsOf("execute", op.plan, {}) = ParticipantsOf("execute", op.plan, W)
  BY DEF ParticipantsOf
<1> QED
  BY <1>3, <1>4, <1>5

LEMMA IdleTypes ==
    ASSUME CoordinatorInv, NEW c \in Client, Idle(c)
    PROVE  cl' \in [Client -> Connection] /\ Coordinates'
           /\ tokens' \in [Client -> [Owner -> {"none", "live", "changed"}]]
<1>1. cl \in [Client -> Connection] /\ tokens \in [Client -> [Owner -> {"none", "live", "changed"}]]
  BY DEF CoordinatorInv, TypeOK
<1>2. [cl[c] EXCEPT !.pc = "idle", !.gone = FALSE] \in Connection
  BY <1>1 DEF Connection
<1>3. [cl[c] EXCEPT !.pc = "idle", !.gone = FALSE].pc = "idle"
  BY <1>1 DEF Connection
<1>4. cl' = [cl EXCEPT ![c] = [cl[c] EXCEPT !.pc = "idle", !.gone = FALSE]]
  BY <1>1 DEF Idle
<1>5. cl' \in [Client -> Connection] /\ Coordinates'
  BY <1>1, <1>2, <1>3, <1>4 DEF CoordinatorInv, Coordinates
<1>6. tokens' \in [Client -> [Owner -> {"none", "live", "changed"}]]
  BY <1>1 DEF Idle
<1> QED
  BY <1>5, <1>6

LEMMA PcTypes ==
    ASSUME CoordinatorInv, NEW c \in Client,
           NEW p \in {"idle", "admit", "reserve", "sent", "task"},
           p = "task" => cl[c].pc = "acquire",
           cl' = [cl EXCEPT ![c].pc = p]
    PROVE  cl' \in [Client -> Connection] /\ Coordinates'
<1>1. cl \in [Client -> Connection]
  BY DEF CoordinatorInv, TypeOK
<1>2. /\ [cl[c] EXCEPT !.pc = p] \in Connection /\ [cl[c] EXCEPT !.pc = p].pc = p
      /\ [cl[c] EXCEPT !.pc = p].kind = cl[c].kind
  BY <1>1 DEF Connection
<1>3. cl' = [cl EXCEPT ![c] = [cl[c] EXCEPT !.pc = p]]
  BY <1>1
<1> QED
  BY <1>1, <1>2, <1>3 DEF CoordinatorInv, Coordinates

LEMMA GoneTypes ==
    ASSUME CoordinatorInv, NEW c \in Client, NEW b \in BOOLEAN, NEW p \in {"idle", cl[c].pc},
           cl' = [cl EXCEPT ![c].pc = p, ![c].gone = b]
    PROVE  cl' \in [Client -> Connection] /\ Coordinates'
<1>1. cl \in [Client -> Connection]
  BY DEF CoordinatorInv, TypeOK
<1>2. p \in {"idle", "admit", "reserve", "acquire", "sent", "task"}
  BY <1>1 DEF Connection
<1>3. /\ [cl[c] EXCEPT !.pc = p, !.gone = b] \in Connection
      /\ [cl[c] EXCEPT !.pc = p, !.gone = b].pc = p
      /\ [cl[c] EXCEPT !.pc = p, !.gone = b].kind = cl[c].kind
  BY <1>1, <1>2 DEF Connection
<1>4. cl' = [cl EXCEPT ![c] = [cl[c] EXCEPT !.pc = p, !.gone = b]]
  BY <1>1
<1> QED
  BY <1>1, <1>3, <1>4 DEF CoordinatorInv, Coordinates

LEMMA AnswerTypes ==
    ASSUME CoordinatorInv, NEW c \in Client, NEW o \in Owner, NEW g \in Nat,
           NEW t \in [Client -> [Owner -> {"none", "live", "changed"}]], Answer(c, o, t, g)
    PROVE  ConnectionTypes'
<1>1. cl \in [Client -> Connection] /\ tokens \in [Client -> [Owner -> {"none", "live", "changed"}]]
      /\ seen \in [Client -> [Owner -> Nat]]
  BY DEF CoordinatorInv, TypeOK
<1>2. cl' \in [Client -> Connection] /\ Coordinates'
  BY GoneTypes DEF Answer
<1>3. Watching(t, c, o) \in [Client -> [Owner -> {"none", "live", "changed"}]]
      /\ SeenAt(c, o, g) \in [Client -> [Owner -> Nat]]
  BY <1>1 DEF Watching, SeenAt
<1>4. [t EXCEPT ![c] = [p \in Owner |-> "none"]] \in [Client -> [Owner -> {"none", "live", "changed"}]]
  OBVIOUS
<1>5. tokens' \in {Watching(t, c, o), [t EXCEPT ![c] = [p \in Owner |-> "none"]], t}
      /\ seen' \in {SeenAt(c, o, g), seen}
  BY DEF Answer
<1> QED
  BY <1>1, <1>2, <1>3, <1>4, <1>5 DEF ConnectionTypes

LEMMA StartTypes ==
    ASSUME CoordinatorInv, NEW c \in Client, NEW op \in Ops[cl[c].role], Start(c, op)
    PROVE  cl' \in [Client -> Connection] /\ Coordinates'
<1> DEFINE owners == ParticipantsOf(op.kind, op.plan, Watched(c))
           r == [pc |-> IF Cardinality(owners) = 1 THEN "admit" ELSE "acquire",
                 kind |-> op.kind, plan |-> op.plan, gone |-> FALSE,
                 role |-> cl[c].role, ops |-> cl[c].ops + 1]
<1>1. cl \in [Client -> Connection] /\ cl[c].role \in RoleNames /\ cl[c].ops \in Nat
  BY DEF CoordinatorInv, TypeOK, Connection
<1>2. /\ op.kind \in {"execute", "watch", "exec"} /\ op.plan \in Seq((SUBSET Owner) \ {{}})
      /\ op.kind = "execute" => Cardinality(owners) = 1
  BY ExecuteHasOneOwner DEF CoordinatorInv
<1> HIDE DEF owners
<1>3. r \in Connection /\ (r.pc = "acquire" => r.kind \in {"exec", "watch"}) /\ r.pc # "task"
  BY SMTT(30), <1>1, <1>2 DEF Connection
<1>4. cl' = [cl EXCEPT ![c] = r]
  BY DEF Start, owners
<1> HIDE DEF r
<1> QED
  BY <1>1, <1>3, <1>4 DEF CoordinatorInv, Coordinates

LEMMA OtherTypesNow ==
    ASSUME CoordinatorInv
    PROVE  OtherTypes /\ task \in Task /\ ctl \in [Owner -> ControlType]
BY DEF CoordinatorInv, TypeOK, OtherTypes, OwnerTypes, ConnectionTypes

LEMMA ClientTypes ==
    ASSUME CoordinatorInv, NEW c \in Client, ClientStep(c)
    PROVE  OtherTypes'
<1>0. OtherTypes
  BY OtherTypesNow
<1> USE DEF switches, store, channels
<1>1. ASSUME NEW op \in Ops[cl[c].role], Start(c, op)
      PROVE  OtherTypes'
  BY <1>0, <1>1, StartTypes DEF Start, OtherTypes, OwnerTypes, ConnectionTypes
<1>2. CASE Unwatch(c)
  BY <1>0, <1>2 DEF Unwatch, OtherTypes, OwnerTypes, ConnectionTypes, Coordinates
<1>3. CASE ReadAdmission(c)
  <2>1. cl' \in [Client -> Connection] /\ Coordinates'
        /\ tokens' \in [Client -> [Owner -> {"none", "live", "changed"}]]
    <3>1. CASE admission /\ ~shutdown
      BY <1>0, <1>3, <3>1, PcTypes DEF ReadAdmission, OtherTypes, ConnectionTypes
    <3>2. CASE ~(admission /\ ~shutdown)
      BY <1>3, <3>2, IdleTypes DEF ReadAdmission
    <3> QED
      BY <3>1, <3>2
  <2> QED
    BY <1>0, <1>3, <2>1 DEF ReadAdmission, OtherTypes, OwnerTypes, ConnectionTypes
<1>4. CASE Enqueue(c)
  <2>1. cl' \in [Client -> Connection] /\ Coordinates'
    BY <1>4, PcTypes DEF Enqueue
  <2>2. PICK o \in Owner : requests' = [requests EXCEPT ![o] = Append(@, c)]
    BY <1>4, ParticipantsFacts DEF Enqueue, CoordinatorInv
  <2>3. requests[o] \in Seq(Client)
    BY <1>0 DEF OtherTypes, OwnerTypes
  <2>4. Append(requests[o], c) \in Seq(Client)
    BY SMTT(30), <2>3
  <2>5. requests' \in [Owner -> Seq(Client)]
    BY <1>0, <2>2, <2>4 DEF OtherTypes, OwnerTypes
  <2> QED
    BY <1>0, <1>4, <2>1, <2>5 DEF Enqueue, OtherTypes, OwnerTypes, ConnectionTypes
<1>5. CASE ClientTimeout(c)
  <2>1. CASE cl' = [cl EXCEPT ![c].gone = TRUE] /\ UNCHANGED tokens
    <3>1. cl' = [cl EXCEPT ![c].pc = cl[c].pc, ![c].gone = TRUE]
      <4>1. cl[c] \in Connection
        BY <1>0 DEF OtherTypes, ConnectionTypes
      <4>2. [cl[c] EXCEPT !.gone = TRUE] = [cl[c] EXCEPT !.pc = cl[c].pc, !.gone = TRUE]
        BY <4>1 DEF Connection
      <4> QED
        BY <1>0, <2>1, <4>2 DEF OtherTypes, ConnectionTypes
    <3>2. cl' \in [Client -> Connection] /\ Coordinates'
      BY <3>1, GoneTypes
    <3> QED
      BY <1>0, <1>5, <2>1, <3>2 DEF ClientTimeout, OtherTypes, OwnerTypes, ConnectionTypes
  <2>2. CASE Idle(c)
    BY <1>0, <1>5, <2>2, IdleTypes DEF ClientTimeout, OtherTypes, OwnerTypes, ConnectionTypes
  <2> QED
    BY <1>5, <2>1, <2>2 DEF ClientTimeout
<1>6. CASE Unavailable(c)
  BY <1>0, <1>6, IdleTypes DEF Unavailable, OtherTypes, OwnerTypes, ConnectionTypes
<1>7. CASE AcquireExclusive(c)
  <2>1. cl' \in [Client -> Connection] /\ Coordinates'
        /\ tokens' \in [Client -> [Owner -> {"none", "live", "changed"}]]
    <3>1. CASE admission /\ ~shutdown
      BY <1>0, <1>7, <3>1, PcTypes DEF AcquireExclusive, OtherTypes, ConnectionTypes
    <3>2. CASE ~(admission /\ ~shutdown)
      BY <1>7, <3>2, IdleTypes DEF AcquireExclusive
    <3> QED
      BY <3>1, <3>2
  <2> QED
    BY <1>0, <1>7, <2>1 DEF AcquireExclusive, OtherTypes, OwnerTypes, ConnectionTypes
<1> QED
  BY <1>1, <1>2, <1>3, <1>4, <1>5, <1>6, <1>7 DEF ClientStep

LEMMA DieTypes ==
    ASSUME CoordinatorInv, NEW o \in Owner, NEW pc \in Dead, Die(o, pc)
    PROVE  /\ worker' \in [Owner -> Worker] /\ requests' \in [Owner -> Seq(Client)]
           /\ closed' \subseteq Owner /\ coordinated' \in [Owner -> OwnerTransaction]
<1>1. [pc |-> pc, job |-> NoJob] \in Worker
  BY NothingTypes DEF Worker, Dead
<1> QED
  BY SMTT(30), <1>1, OtherTypesNow, NothingTypes DEF OtherTypes, OwnerTypes, Die

LEMMA ApplyChangeTypes ==
    ASSUME CoordinatorInv, NEW o \in Owner, NEW n \in Nat, ApplyChange(o, n)
    PROVE  applied' \in [Owner -> SUBSET Nat] /\ generation' \in [Owner -> Nat] /\ due' \subseteq Owner
<1>1. applied \in [Owner -> SUBSET Nat] /\ generation \in [Owner -> Nat] /\ due \subseteq Owner
  BY OtherTypesNow DEF OtherTypes, OwnerTypes
<1> QED
  BY SMTT(30), <1>1 DEF ApplyChange

LEMMA WorkerTypes ==
    ASSUME CoordinatorInv, NEW o \in Owner,
           \/ StopRequests(o) \/ StopOnFailure(o) \/ Serve(o) \/ Persist(o) \/ ApplyPersisted(o)
           \/ StopWorker(o) \/ Expire(o) \/ TimePasses(o) \/ Snapshot(o) \/ StaleControl(o)
    PROVE  OtherTypes'
<1>0. OtherTypes
  BY OtherTypesNow
<1> USE DEF switches, store, channels, clients
<1>1. CASE StopRequests(o) \/ TimePasses(o) \/ Snapshot(o)
  BY <1>0, <1>1 DEF StopRequests, TimePasses, Snapshot, OtherTypes, OwnerTypes, ConnectionTypes, Coordinates
<1>2. CASE StopOnFailure(o) \/ StopWorker(o) \/ StaleControl(o)
  <2>1. PICK pc \in Dead : Die(o, pc)
    BY <1>2 DEF StopOnFailure, StopWorker, StaleControl, Dead
  <2>2. /\ worker' \in [Owner -> Worker] /\ requests' \in [Owner -> Seq(Client)]
        /\ closed' \subseteq Owner /\ coordinated' \in [Owner -> OwnerTransaction]
    BY <2>1, DieTypes
  <2> QED
    BY <1>0, <1>2, <2>2 DEF StopOnFailure, StopWorker, StaleControl, OtherTypes, OwnerTypes,
                            ConnectionTypes, Coordinates
<1>3. worker[o] \in Worker /\ worker[o].job \in Job /\ generation[o] \in Nat
  BY <1>0 DEF OtherTypes, OwnerTypes, Worker
<1>4. [pc |-> "select", job |-> NoJob] \in Worker
  BY NothingTypes DEF Worker
<1>5. CASE Expire(o)
  <2> DEFINE w == [pc |-> "append", job |-> [kind |-> "expire", client |-> NoClient,
                                             generation |-> generation[o], position |-> 0]]
  <2>1. w \in Worker
    BY <1>3 DEF Worker, Job, Someone
  <2>2. worker' = [worker EXCEPT ![o] = w]
    BY <1>5 DEF Expire
  <2>3. worker' \in [Owner -> Worker]
    BY <1>0, <2>1, <2>2 DEF OtherTypes, OwnerTypes
  <2> QED
    BY <1>0, <1>5, <2>3 DEF Expire, OtherTypes, OwnerTypes, ConnectionTypes, Coordinates
<1>6. CASE Serve(o)
  <2> DEFINE c == Head(requests[o])
             w == [pc |-> "append", job |-> [kind |-> cl[c].kind, client |-> c,
                                             generation |-> generation[o], position |-> 0]]
  <2>1. requests[o] \in Seq(Client) /\ requests[o] # <<>> /\ requests' = [requests EXCEPT ![o] = Tail(@)]
    BY <1>0, <1>6 DEF Serve, OtherTypes, OwnerTypes
  <2>2. c \in Client
    BY SMTT(30), <2>1
  <2>3. Tail(requests[o]) \in Seq(Client)
    BY SMTT(30), <2>1
  <2>4. requests' \in [Owner -> Seq(Client)]
    BY <1>0, <2>1, <2>3 DEF OtherTypes, OwnerTypes
  <2>5. cl[c] \in Connection
    BY <1>0, <2>2 DEF OtherTypes, ConnectionTypes
  <2>6. w \in Worker
    BY <1>3, <2>2, <2>5 DEF Worker, Job, Someone, Connection
  <2>7. \/ Idle(c) /\ UNCHANGED <<worker, seen>>
        \/ Answer(c, o, tokens, generation[o]) /\ UNCHANGED worker
        \/ worker' = [worker EXCEPT ![o] = w] /\ UNCHANGED <<cl, tokens, seen>>
    BY <1>6 DEF Serve
  <2> HIDE DEF c, w
  <2>8. ConnectionTypes' /\ worker' \in [Owner -> Worker]
    <3>1. CASE Idle(c) /\ UNCHANGED <<worker, seen>>
      BY <1>0, <2>2, <3>1, IdleTypes DEF OtherTypes, OwnerTypes, ConnectionTypes
    <3>2. CASE Answer(c, o, tokens, generation[o]) /\ UNCHANGED worker
      BY <1>0, <1>3, <2>2, <3>2, AnswerTypes DEF OtherTypes, OwnerTypes, ConnectionTypes
    <3>3. CASE worker' = [worker EXCEPT ![o] = w] /\ UNCHANGED <<cl, tokens, seen>>
      BY <1>0, <2>6, <3>3 DEF OtherTypes, OwnerTypes, ConnectionTypes, Coordinates
    <3> QED
      BY <2>7, <3>1, <3>2, <3>3
  <2> QED
    BY <1>0, <1>6, <2>4, <2>8 DEF Serve, OtherTypes, OwnerTypes
<1>7. CASE Persist(o)
  <2> DEFINE job == worker[o].job
             longer == Append(log, Record({o}, Origin(job.kind)))
  <2>1. Record({o}, Origin(job.kind)) \in LogRecord
    BY DEF Record, Origin, LogRecord
  <2>2. longer \in Seq(LogRecord) /\ Len(longer) \in Nat
    BY SMTT(30), <1>0, <2>1 DEF OtherTypes, OwnerTypes
  <2>3. UNCHANGED <<shutdown, admission, applied, generation, due, seen>>
    BY <1>7 DEF Persist
  <2>4. CASE /\ log' = longer
             /\ worker' = [worker EXCEPT ![o].pc = "apply", ![o].job.position = Len(longer)]
             /\ UNCHANGED <<aofFailed, coordinated, channels, cl, tokens>>
    <3> HIDE DEF longer
    <3>1. [worker[o] EXCEPT !.pc = "apply", !.job.position = Len(longer)] \in Worker
      BY <1>3, <2>2 DEF Worker, Job
    <3>2. worker' \in [Owner -> Worker]
      BY <1>0, <2>4, <3>1 DEF OtherTypes, OwnerTypes
    <3> QED
      BY <1>0, <2>2, <2>3, <2>4, <3>2 DEF OtherTypes, OwnerTypes, ConnectionTypes, Coordinates
  <2>5. CASE /\ worker' = [worker EXCEPT ![o] = [pc |-> "select", job |-> NoJob]]
             /\ IF job.client = NoClient THEN UNCHANGED <<cl, tokens>> ELSE Idle(job.client)
             /\ UNCHANGED <<log, aofFailed, coordinated, channels>>
    <3>1. worker' \in [Owner -> Worker]
      BY <1>0, <1>4, <2>5 DEF OtherTypes, OwnerTypes
    <3>2. cl' \in [Client -> Connection] /\ Coordinates'
          /\ tokens' \in [Client -> [Owner -> {"none", "live", "changed"}]]
      <4>1. CASE job.client = NoClient
        BY <1>0, <2>5, <4>1 DEF OtherTypes, ConnectionTypes, Coordinates
      <4>2. CASE job.client # NoClient
        <5>1. job.client \in Client
          BY <1>3, <4>2 DEF Job, Someone
        <5> QED
          BY <2>5, <4>2, <5>1, IdleTypes
      <4> QED
        BY <4>1, <4>2
    <3> QED
      BY <1>0, <2>3, <2>5, <3>1, <3>2 DEF OtherTypes, OwnerTypes, ConnectionTypes
  <2>6. CASE /\ aofFailed' = TRUE
             /\ log' \in IF aofFailed THEN {log} ELSE {log, longer}
             /\ Die(o, "stopped")
             /\ UNCHANGED <<cl, tokens>>
    <3>1. "stopped" \in Dead
      BY DEF Dead
    <3>2. /\ worker' \in [Owner -> Worker] /\ requests' \in [Owner -> Seq(Client)]
          /\ closed' \subseteq Owner /\ coordinated' \in [Owner -> OwnerTransaction]
      BY <2>6, <3>1, DieTypes
    <3> HIDE DEF longer
    <3> QED
      BY <1>0, <2>2, <2>3, <2>6, <3>2 DEF OtherTypes, OwnerTypes, ConnectionTypes, Coordinates
  <2> QED
    BY <1>7, <2>4, <2>5, <2>6 DEF Persist
<1>8. CASE ApplyPersisted(o)
  <2> DEFINE job == worker[o].job
  <2>1. UNCHANGED <<log, aofFailed, shutdown, admission>>
    BY <1>8 DEF ApplyPersisted
  <2>2. CASE Die(o, "panicked") /\ UNCHANGED <<store, clients>>
    <3>1. "panicked" \in Dead
      BY DEF Dead
    <3>2. /\ worker' \in [Owner -> Worker] /\ requests' \in [Owner -> Seq(Client)]
          /\ closed' \subseteq Owner /\ coordinated' \in [Owner -> OwnerTransaction]
      BY <2>2, <3>1, DieTypes
    <3> QED
      BY <1>0, <2>1, <2>2, <3>2 DEF OtherTypes, OwnerTypes, ConnectionTypes, Coordinates
  <2>3. CASE /\ ApplyChange(o, job.position)
             /\ worker' = [worker EXCEPT ![o] = [pc |-> "select", job |-> NoJob]]
             /\ IF job.client = NoClient
                THEN tokens' = Invalidate(o) /\ UNCHANGED <<cl, seen>>
                ELSE Answer(job.client, o, Invalidate(o), generation[o] + 1)
             /\ UNCHANGED <<coordinated, channels>>
    <3>0. job.position \in Nat
      BY <1>3 DEF Job
    <3>1. job.position \in Nat /\ generation[o] + 1 \in Nat
      BY SMTT(30), <1>3, <3>0
    <3>2. applied' \in [Owner -> SUBSET Nat] /\ generation' \in [Owner -> Nat] /\ due' \subseteq Owner
      BY <2>3, <3>1, ApplyChangeTypes
    <3>3. worker' \in [Owner -> Worker]
      BY <1>0, <1>4, <2>3 DEF OtherTypes, OwnerTypes
    <3>4. Invalidate(o) \in [Client -> [Owner -> {"none", "live", "changed"}]]
      BY InvalidateType DEF CoordinatorInv
    <3>5. ConnectionTypes'
      <4>1. CASE job.client = NoClient
        BY <1>0, <2>3, <3>4, <4>1 DEF OtherTypes, ConnectionTypes, Coordinates
      <4>2. CASE job.client # NoClient
        <5>1. job.client \in Client
          BY <1>3, <4>2 DEF Job, Someone
        <5> QED
          BY <2>3, <3>1, <3>4, <4>2, <5>1, AnswerTypes
      <4> QED
        BY <4>1, <4>2
    <3> QED
      BY <1>0, <2>1, <2>3, <3>2, <3>3, <3>5 DEF OtherTypes, OwnerTypes
  <2> QED
    BY <1>8, <2>2, <2>3 DEF ApplyPersisted
<1> QED
  BY <1>1, <1>2, <1>5, <1>6, <1>7, <1>8

LEMMA ControlTypes ==
    ASSUME CoordinatorInv, NEW o \in Owner, Handles(o)
    PROVE  OtherTypes'
<1>0. OtherTypes /\ task \in Task /\ ctl \in [Owner -> ControlType]
  BY OtherTypesNow
<1> USE DEF switches, store, channels, clients
<1>1. CASE Probe(o) \/ Clock(o) \/ CheckWatches(o) \/ Candidate(o) \/ PrepareWatch(o)
  BY <1>0, <1>1 DEF Probe, Clock, CheckWatches, Candidate, PrepareWatch, OtherTypes, OwnerTypes,
                    ConnectionTypes, Coordinates
<1>2. CASE Begin(o) \/ Accept(o) \/ Seal(o) \/ Abort(o)
  <2>1. coordinated[o] \in OwnerTransaction /\ ctl[o] \in ControlType
    BY <1>0 DEF OtherTypes, OwnerTypes
  <2>2. [NoTransaction EXCEPT !.open = TRUE] \in OwnerTransaction
    BY DEF NoTransaction, OwnerTransaction
  <2>3. coordinated' \in [Owner -> OwnerTransaction]
    <3>1. CASE Begin(o) \/ Seal(o) \/ Abort(o)
      BY <1>0, <2>2, <3>1, NothingTypes DEF Begin, Seal, Abort, OtherTypes, OwnerTypes
    <3>2. CASE Accept(o)
      <4> DEFINE ok == ctl[o].candidate = "ok"
                 S == IF ok THEN {ctl[o].step} ELSE {}
                 m == coordinated[o].mutates \/ ok \/ o \in ctl[o].time
                 tx == [coordinated[o] EXCEPT !.mutates = m, !.effects = @ \cup S]
      <4>1. S \subseteq Nat /\ m \in BOOLEAN
        BY <2>1 DEF ControlType, OwnerTransaction
      <4>2. tx \in OwnerTransaction
        <5> HIDE DEF S, m
        <5> QED
          BY <2>1, <4>1 DEF OwnerTransaction
      <4>3. coordinated' \in {coordinated, [coordinated EXCEPT ![o] = tx]}
        BY <1>0, <3>2 DEF Accept, OtherTypes, OwnerTypes
      <4> HIDE DEF tx
      <4> QED
        BY <1>0, <4>2, <4>3 DEF OtherTypes, OwnerTypes
    <3> QED
      BY <1>2, <3>1, <3>2
  <2> QED
    BY <1>0, <1>2, <2>3 DEF Begin, Accept, Seal, Abort, OtherTypes, OwnerTypes, ConnectionTypes,
                            Coordinates
<1>3. CASE Apply(o) \/ ApplyWatch(o)
  <2> DEFINE c == ctl[o].client
  <2>1. ctl[o].position \in Nat
    BY <1>0 DEF ControlType
  <2>2. UNCHANGED store \/ ApplyChange(o, ctl[o].position)
    BY <1>3 DEF Apply, ApplyWatch, ApplyControl
  <2>3. applied' \in [Owner -> SUBSET Nat] /\ generation' \in [Owner -> Nat] /\ due' \subseteq Owner
    BY <1>0, <2>1, <2>2, ApplyChangeTypes DEF OtherTypes, OwnerTypes
  <2>4. TokensAfter(o) \in [Client -> [Owner -> {"none", "live", "changed"}]]
    BY <1>0, InvalidateType DEF TokensAfter, CoordinatorInv, OtherTypes, ConnectionTypes
  <2>5. Watching(TokensAfter(o), c, o) \in [Client -> [Owner -> {"none", "live", "changed"}]]
    BY <2>4 DEF Watching
  <2>6. tokens' \in {tokens, TokensAfter(o), Watching(TokensAfter(o), c, o)}
    BY <1>3 DEF Apply, ApplyWatch
  <2>7. seen' \in {seen, SeenAt(c, o, generation'[o])}
    BY <1>3 DEF Apply, ApplyWatch
  <2>8. SeenAt(c, o, generation'[o]) \in [Client -> [Owner -> Nat]]
    BY <1>0, <2>3 DEF SeenAt, OtherTypes, ConnectionTypes
  <2>9. tokens' \in [Client -> [Owner -> {"none", "live", "changed"}]] /\ seen' \in [Client -> [Owner -> Nat]]
    BY <1>0, <2>4, <2>5, <2>6, <2>7, <2>8 DEF OtherTypes, ConnectionTypes
  <2> QED
    BY <1>0, <1>3, <2>3, <2>9 DEF Apply, ApplyWatch, OtherTypes, OwnerTypes, ConnectionTypes, Coordinates
<1> QED
  BY <1>1, <1>2, <1>3 DEF Handles, ControlStep

LEMMA CoordinatorTypes ==
    ASSUME CoordinatorInv, CoordinatorStep \/ FreezeBegin \/ Shutdown
    PROVE  OtherTypes'
<1>0. OtherTypes /\ task \in Task /\ ctl \in [Owner -> ControlType]
  BY OtherTypesNow
<1> USE DEF switches, store, channels, clients
<1>1. CASE SendControl \/ ControlFailed \/ FreezeEnd \/ FreezeBegin \/ Shutdown
  BY <1>0, <1>1 DEF SendControl, ControlFailed, FreezeEnd, FreezeBegin, Shutdown, OtherTypes,
                    OwnerTypes, ConnectionTypes, Coordinates
<1>2. CASE DropPublication
  <2>1. task.publication \in BOOLEAN
    BY <1>0 DEF Task
  <2> QED
    BY <1>0, <1>2, <2>1 DEF DropPublication, OtherTypes, OwnerTypes, ConnectionTypes, Coordinates
<1>3. CASE AppendDecision
  <2> DEFINE longer == Append(log, Record(Mutating(task), Origin(task.kind)))
  <2>1. Record(Mutating(task), Origin(task.kind)) \in LogRecord
    BY <1>0 DEF Record, LogRecord, Mutating, Origin, Task
  <2>2. longer \in Seq(LogRecord)
    BY SMTT(30), <1>0, <2>1 DEF OtherTypes, OwnerTypes
  <2>3. log' \in {log, longer} /\ aofFailed' \in {aofFailed, TRUE}
    BY <1>3 DEF AppendDecision
  <2> HIDE DEF longer
  <2> QED
    BY <1>0, <1>3, <2>2, <2>3 DEF AppendDecision, OtherTypes, OwnerTypes, ConnectionTypes, Coordinates
<1>4. CASE Release
  <2> DEFINE c == task.client
  <2>1. PICK lost : \/ UNCHANGED <<cl, tokens>>
                    \/ /\ cl' = [cl EXCEPT ![c].pc = "idle", ![c].gone = FALSE]
                       /\ tokens' = [tokens EXCEPT ![c] =
                                       [o \in Owner |-> IF o \in lost THEN "none" ELSE @[o]]]
    BY <1>4 DEF Release
  <2>2. CASE c \in Client
    <3>1. cl' \in [Client -> Connection] /\ Coordinates'
      BY <1>0, <2>1, <2>2, GoneTypes DEF OtherTypes, ConnectionTypes, Coordinates
    <3>2. tokens' \in [Client -> [Owner -> {"none", "live", "changed"}]]
      BY SMTT(30), <1>0, <2>1, <2>2 DEF OtherTypes, ConnectionTypes
    <3> QED
      BY <1>0, <1>4, <3>1, <3>2 DEF Release, OtherTypes, OwnerTypes, ConnectionTypes
  <2>3. CASE c \notin Client
    <3>1. UNCHANGED <<cl, tokens>>
      BY SMTT(30), <1>0, <2>1, <2>3 DEF OtherTypes, ConnectionTypes
    <3> QED
      BY <1>0, <1>4, <3>1 DEF Release, OtherTypes, OwnerTypes, ConnectionTypes, Coordinates
  <2> QED
    BY <2>2, <2>3
<1> QED
  BY <1>1, <1>2, <1>3, <1>4 DEF CoordinatorStep

LEMMA CoordinatorInit == Init => CoordinatorInv
<1> SUFFICES ASSUME Init
             PROVE  CoordinatorInv
  OBVIOUS
<1>1. PICK roles \in Roles :
          cl = [c \in Client |-> [pc |-> "idle", kind |-> "none", plan |-> <<>>, gone |-> FALSE,
                                  role |-> roles[c], ops |-> 0]]
  BY DEF Init
<1>2. cl \in [Client -> Connection] /\ Coordinates
  BY SMTT(30), <1>1 DEF Connection, RoleNames, Coordinates
<1>3. [pc |-> "select", job |-> NoJob] \in Worker
  BY NothingTypes DEF Worker
<1>0. log = <<>>
  BY DEF Init
<1>a. log \in Seq(LogRecord)
  BY SMTT(30), <1>0
<1>4. /\ aofFailed \in BOOLEAN /\ shutdown \in BOOLEAN /\ admission \in BOOLEAN
      /\ applied \in [Owner -> SUBSET Nat] /\ generation \in [Owner -> Nat] /\ due \subseteq Owner
  BY DEF Init
<1>5. /\ coordinated \in [Owner -> OwnerTransaction] /\ requests \in [Owner -> Seq(Client)]
      /\ closed \subseteq Owner /\ task \in Task
  BY SMTT(30), NothingTypes DEF Init
<1>6. ctl \in [Owner -> ControlType] /\ Matching
  BY NothingTypes DEF Init, Matching
<1>7. worker \in [Owner -> Worker]
  BY <1>3 DEF Init
<1>8. /\ tokens \in [Client -> [Owner -> {"none", "live", "changed"}]]
      /\ seen \in [Client -> [Owner -> Nat]]
  BY DEF Init
<1>9. Shape(task)
  BY NothingTypes DEF Init
<1> QED
  BY <1>2, <1>a, <1>4, <1>5, <1>6, <1>7, <1>8, <1>9 DEF CoordinatorInv, TypeOK

LEMMA CoordinatorInvStep == CoordinatorInv /\ [Next]_vars => CoordinatorInv'
<1>1. ASSUME CoordinatorInv, Next
      PROVE  CoordinatorInv'
  <2>1. OtherTypes'
    <3>1. ASSUME NEW c \in Client, ClientStep(c)
          PROVE  OtherTypes'
      BY <1>1, <3>1, ClientTypes
    <3>2. ASSUME NEW o \in Owner, WorkerStep(o) \/ Expire(o) \/ Snapshot(o) \/ TimePasses(o)
          PROVE  OtherTypes'
      BY <1>1, <3>2, WorkerTypes, ControlTypes DEF WorkerStep, Handles
    <3>3. CASE CoordinatorStep \/ FreezeBegin \/ Shutdown
      BY <1>1, <3>3, CoordinatorTypes
    <3> QED
      BY <1>1, <3>1, <3>2, <3>3 DEF Next
  <2>2. task' \in Task /\ ctl' \in [Owner -> ControlType] /\ Shape(task)' /\ Matching'
    BY <1>1, TaskStep
  <2> QED
    BY <2>1, <2>2 DEF CoordinatorInv, TypeOK, OtherTypes, OwnerTypes, ConnectionTypes
<1>2. ASSUME CoordinatorInv, UNCHANGED vars
      PROVE  CoordinatorInv'
  BY SMTT(30), <1>2 DEF CoordinatorInv, TypeOK, Matching, Coordinates, Asks, Control, Shape, PlanOver,
              Mutating, vars, switches, store, channels, clients
<1> QED
  BY <1>1, <1>2

LEMMA PcFields ==
    ASSUME TypeOK, NEW c \in Client, NEW p, cl' = [cl EXCEPT ![c].pc = p]
    PROVE  PcOnly(c, p)
<1>1. cl \in [Client -> Connection]
  BY DEF TypeOK
<1>2. ASSUME NEW d \in Client
      PROVE  /\ cl'[d].pc = (IF d = c THEN p ELSE cl[d].pc)
             /\ cl'[d].kind = cl[d].kind /\ cl'[d].plan = cl[d].plan
  BY <1>1 DEF Connection
<1> QED
  BY <1>2 DEF PcOnly

LEMMA GoneFields ==
    ASSUME TypeOK, NEW c \in Client, NEW b, NEW p, cl' = [cl EXCEPT ![c].pc = p, ![c].gone = b]
    PROVE  PcOnly(c, p)
<1>1. cl \in [Client -> Connection]
  BY DEF TypeOK
<1>2. ASSUME NEW d \in Client
      PROVE  /\ cl'[d].pc = (IF d = c THEN p ELSE cl[d].pc)
             /\ cl'[d].kind = cl[d].kind /\ cl'[d].plan = cl[d].plan
  BY <1>1 DEF Connection
<1> QED
  BY <1>2 DEF PcOnly

LEMMA TimeoutFields ==
    ASSUME TypeOK, NEW c \in Client, cl' = [cl EXCEPT ![c].gone = TRUE]
    PROVE  PcOnly(c, cl[c].pc)
<1>1. cl \in [Client -> Connection]
  BY DEF TypeOK
<1>2. ASSUME NEW d \in Client
      PROVE  /\ cl'[d].pc = (IF d = c THEN cl[c].pc ELSE cl[d].pc)
             /\ cl'[d].kind = cl[d].kind /\ cl'[d].plan = cl[d].plan
  BY <1>1 DEF Connection
<1> QED
  BY <1>2 DEF PcOnly

LEMMA StartFields ==
    ASSUME TypeOK, NEW c \in Client, NEW op, Start(c, op)
    PROVE  /\ \A d \in Client : d # c => cl'[d] = cl[d]
           /\ cl'[c].kind = op.kind /\ cl'[c].plan = op.plan
           /\ cl'[c].pc = IF Cardinality(ParticipantsOf(op.kind, op.plan, Watched(c))) = 1
                          THEN "admit" ELSE "acquire"
BY DEF TypeOK, Start

LEMMA IdleFields ==
    ASSUME TypeOK, NEW c \in Client, Idle(c)
    PROVE  PcOnly(c, "idle")
BY GoneFields DEF Idle

LEMMA DieFields ==
    ASSUME TypeOK, NEW o \in Owner, NEW pc, Die(o, pc)
    PROVE  /\ worker'[o].pc = pc /\ worker'[o].job = NoJob /\ requests'[o] = <<>>
           /\ \A p \in Owner : p # o => worker'[p] = worker[p] /\ requests'[p] = requests[p]
BY DEF TypeOK, Die

LEMMA GathersItself ==
    ASSUME NEW t \in Task, NEW o, t.phase \notin {"candidate", "seal"},
           t.phase = "check" => tokens[t.client][o] # "changed"
    PROVE  Gathers(t, t, o)
BY DEF Gathers, Collects

LEMMA AnsweredMoves ==
    ASSUME CoordinatorInv, NEW o \in Owner, ctl[o].wanted, NEW u, Gathers(task, u, o),
           task' = Answered(u, o)
    PROVE  Moves(o)
<1>1. task \in Task /\ Shape(task) /\ Asks(task) /\ o \in task.todo
  BY Wanted
<1>2. Collects(task, u)
  BY DEF Gathers
<1>3. SameDecision(u, task') /\ Move(u, task', o)
  BY <1>1, <1>2, CollectsAnswered
<1> QED
  BY <1>3 DEF Moves

LEMMA HandlesMoves ==
    ASSUME CoordinatorInv, NEW o \in Owner, Handles(o), ctl[o].wanted
    PROVE  Moves(o) \/ FailedMove(task, task') \/ Refuses
<1>1. /\ task \in Task /\ Shape(task) /\ Asks(task) /\ o \in task.todo
      /\ task.kind \in {"exec", "watch"} /\ ctl[o].phase = task.phase
  BY Wanted
<1>2. ASSUME task' = Failed(task)
      PROVE  FailedMove(task, task')
  BY <1>1, <1>2, FailedFacts
<1>3. ASSUME task' = Answered(task, o), task.phase \notin {"candidate", "seal"},
             task.phase = "check" => tokens[task.client][o] # "changed"
      PROVE  Moves(o)
  BY <1>1, <1>3, GathersItself, AnsweredMoves
<1>4. \A t : Replied(o, t) => task' = t
  BY DEF Replied
<1>5. /\ generation[o] \in Nat /\ coordinated[o] \in OwnerTransaction /\ due \subseteq Owner
  BY DEF CoordinatorInv, TypeOK
<1>6. CASE Probe(o) \/ Begin(o) \/ Accept(o) \/ Abort(o) \/ Apply(o)
  <2>1. task' \in {Answered(task, o), Failed(task)} /\ task.phase \notin {"check", "candidate", "seal"}
    BY <1>1, <1>4, <1>6 DEF Probe, Begin, Accept, Abort, Apply, Receives
  <2> QED
    BY <1>2, <1>3, <2>1
<1>7. CASE CheckWatches(o)
  <2>1. /\ task.phase = "check"
        /\ \/ task' = Answered(task, o) /\ tokens[task.client][o] # "changed"
           \/ task' = Complete(task, "null")
    BY <1>1, <1>4, <1>7, Wanted DEF CheckWatches, Receives
  <2>2. ASSUME task' = Complete(task, "null")
        PROVE  Refuses
    BY <1>1, <2>1, <2>2, CompleteFacts DEF Results, Refuses
  <2> QED
    BY <1>3, <2>1, <2>2
<1>8. CASE Clock(o)
  <2> DEFINE u == [task EXCEPT !.time = due]
  <2>0. task.phase = "clock"
    BY <1>1, <1>8 DEF Clock, Receives
  <2>1. Gathers(task, u, o)
    BY <1>1, <1>5, <2>0 DEF Gathers, Collects, Task
  <2>2. task' = Answered(u, o)
    BY <1>4, <1>8 DEF Clock
  <2> HIDE DEF u
  <2> QED
    BY <2>1, <2>2, AnsweredMoves
<1>9. CASE Candidate(o)
  <2>1. PICK outcome \in {"ok", "error"} :
            task' = IF coordinated[o].open
                    THEN Answered([task EXCEPT !.candidates[o] = outcome], o) ELSE Failed(task)
    BY <1>4, <1>9 DEF Candidate
  <2> DEFINE u == [task EXCEPT !.candidates[o] = outcome]
  <2>2. task.phase = "candidate"
    BY <1>1, <1>9 DEF Candidate, Receives
  <2>3. Gathers(task, u, o)
    BY <1>1, <2>2 DEF Gathers, Collects, Task, Outcomes
  <2>4. task' = IF coordinated[o].open THEN Answered(u, o) ELSE Failed(task)
    BY <2>1
  <2> HIDE DEF u
  <2> QED
    BY <1>2, <2>3, <2>4, AnsweredMoves
<1>10. CASE Seal(o)
  <2> DEFINE sealed == [generation |-> generation[o], mutates |-> coordinated[o].mutates,
                        effects |-> coordinated[o].effects]
             u == [task EXCEPT !.prepared[o] = sealed]
  <2>1. sealed \in Prepared
    BY <1>5 DEF Prepared, OwnerTransaction
  <2>2. task.phase = "seal"
    BY <1>1, <1>10 DEF Seal, Receives
  <2>3. coordinated[o].open => Gathers(task, u, o)
    <3>1. sealed.effects = coordinated[o].effects
      OBVIOUS
    <3> HIDE DEF sealed
    <3> QED
      BY <1>1, <2>1, <2>2, <3>1 DEF Gathers, Collects, Task
  <2>4. task' = IF coordinated[o].open THEN Answered(u, o) ELSE Failed(task)
    BY <1>4, <1>10 DEF Seal
  <2> HIDE DEF u
  <2> QED
    BY <1>2, <2>3, <2>4, AnsweredMoves
<1>11. CASE PrepareWatch(o)
  <2> DEFINE prepared == [generation |-> generation[o], mutates |-> o \in due, effects |-> {}]
             u == [task EXCEPT !.prepared[o] = prepared]
  <2>1. prepared \in Prepared
    BY SMTT(30), <1>5 DEF Prepared
  <2>2. task.phase = "prepare"
    BY <1>1, <1>11 DEF PrepareWatch, Receives
  <2>3. Gathers(task, u, o)
    <3> HIDE DEF prepared
    <3> QED
      BY <1>1, <2>1, <2>2 DEF Gathers, Collects, Task
  <2>4. task' = IF coordinated[o].open THEN Failed(task) ELSE Answered(u, o)
    BY <1>4, <1>11 DEF PrepareWatch
  <2> HIDE DEF u
  <2> QED
    BY <1>2, <2>3, <2>4, AnsweredMoves
<1>12. CASE ApplyWatch(o)
  <2> DEFINE S == IF tokens[ctl[o].client][o] = "none" THEN {o} ELSE {}
             u == [task EXCEPT !.acquired = @ \cup S]
  <2>1. S \subseteq Owner
    OBVIOUS
  <2>0. task.phase = "applywatch"
    BY <1>1, <1>12 DEF ApplyWatch, Receives
  <2>2. Gathers(task, u, o)
    <3> HIDE DEF S
    <3> QED
      BY <1>1, <2>0, <2>1 DEF Gathers, Collects, Task
  <2>3. task' = IF coordinated[o].open THEN Failed(task) ELSE Answered(u, o)
    BY <1>4, <1>12 DEF ApplyWatch
  <2> HIDE DEF u
  <2> QED
    BY <1>2, <2>2, <2>3, AnsweredMoves
<1> QED
  BY <1>6, <1>7, <1>8, <1>9, <1>10, <1>11, <1>12 DEF ControlStep, Handles

LEMMA DieIdles ==
    ASSUME TypeOK, NEW o \in Owner, NEW pc \in Dead, Die(o, pc)
    PROVE  \A p \in Owner : (Alive(p))' => p # o /\ Alive(p) /\ InFlight(p)' = InFlight(p)
<1>1. worker'[o].pc = pc /\ \A p \in Owner : p # o => worker'[p] = worker[p]
  BY DieFields
<1> QED
  BY <1>1 DEF Alive, InFlight

LEMMA StoreCases ==
    ASSUME TypeOK, Next
    PROVE  \/ Idles
           \/ AppendDecision
           \/ \E o \in Owner : Persist(o) \/ ApplyPersisted(o) \/ Apply(o) \/ ApplyWatch(o)
<1> USE DEF switches, store, channels, clients
<1>0. worker \in [Owner -> Worker]
  BY DEF TypeOK
<1>1. ASSUME UNCHANGED <<log, applied, generation, worker>>
      PROVE  Idles
  BY <1>1 DEF Idles, Alive, InFlight
<1>2. ASSUME NEW o \in Owner, NEW pc \in Dead, Die(o, pc), UNCHANGED <<log, applied, generation>>
      PROVE  Idles
  BY <1>2, DieIdles DEF Idles
<1>3. ASSUME NEW o \in Owner, NEW j, worker' = [worker EXCEPT ![o] = [pc |-> "append", job |-> j]],
             worker[o].pc = "select", UNCHANGED <<log, applied, generation>>
      PROVE  Idles
  <2>1. worker'[o].pc = "append" /\ \A p \in Owner : p # o => worker'[p] = worker[p]
    BY <1>0, <1>3
  <2> QED
    BY <1>3, <2>1 DEF Idles, Alive, InFlight, Dead
<1>4. ASSUME NEW c \in Client, ClientStep(c)
      PROVE  Idles
  BY <1>1, <1>4 DEF ClientStep, Start, Unwatch, ReadAdmission, Enqueue, ClientTimeout, Unavailable,
                    AcquireExclusive
<1>5. ASSUME NEW o \in Owner, StopRequests(o) \/ Snapshot(o) \/ TimePasses(o)
      PROVE  Idles
  BY <1>1, <1>5 DEF StopRequests, Snapshot, TimePasses
<1>6. ASSUME NEW o \in Owner, StopOnFailure(o) \/ StopWorker(o) \/ StaleControl(o)
      PROVE  Idles
  BY <1>2, <1>6 DEF StopOnFailure, StopWorker, StaleControl, Dead
<1>7. ASSUME NEW o \in Owner, Expire(o)
      PROVE  Idles
  BY <1>3, <1>7 DEF Expire, Selecting
<1>8. ASSUME NEW o \in Owner, Serve(o)
      PROVE  Idles
  <2>1. worker[o].pc = "select" /\ UNCHANGED <<log, applied, generation>>
    BY <1>8 DEF Serve, Selecting
  <2>2. UNCHANGED worker \/ \E j : worker' = [worker EXCEPT ![o] = [pc |-> "append", job |-> j]]
    BY <1>8 DEF Serve
  <2> QED
    BY <1>1, <1>3, <2>1, <2>2
<1>9. ASSUME NEW o \in Owner, ControlStep(o), ~StaleControl(o), ~Apply(o), ~ApplyWatch(o)
      PROVE  Idles
  BY <1>1, <1>9 DEF ControlStep, Probe, Clock, CheckWatches, Begin, Candidate, Accept, Seal, Abort,
                    PrepareWatch
<1>10. CASE FreezeBegin \/ Shutdown \/ (CoordinatorStep /\ ~AppendDecision)
  BY <1>1, <1>10 DEF FreezeBegin, Shutdown, CoordinatorStep, SendControl, ControlFailed,
                     DropPublication, Release, FreezeEnd
<1> QED
  BY <1>4, <1>5, <1>6, <1>7, <1>8, <1>9, <1>10 DEF Next, WorkerStep

\* What an application that the coordinator waits for does.
LEMMA ApplyOutcome ==
    ASSUME CoordinatorInv, NEW o \in Owner, Apply(o) \/ ApplyWatch(o)
    PROVE  /\ UNCHANGED <<log, worker, coordinated, cl>> /\ Selecting(o)
           /\ ctl[o].phase \in {"apply", "applywatch"}
           /\ ~ctl[o].wanted => task' = task
           /\ ctl[o].wanted => \/ coordinated[o].open /\ task' = Failed(task)
                               \/ ~coordinated[o].open /\ Moves(o)
           /\ IF coordinated[o].open THEN UNCHANGED store
              ELSE ApplyControl(o) /\ ctl[o].prepared.generation = generation[o]
<1> USE DEF switches, channels, clients
<1>1. CASE Apply(o)
  <2>1. ASSUME ctl[o].wanted, task' = Answered(task, o)
        PROVE  Moves(o)
    <3>1. task \in Task /\ task.phase = "apply"
      BY <1>1, <2>1, Wanted DEF Apply, Receives
    <3> QED
      BY <2>1, <3>1, GathersItself, AnsweredMoves
  <2> QED
    BY <1>1, <2>1 DEF Apply, Receives, Replied
<1>2. CASE ApplyWatch(o)
  <2> DEFINE S == IF tokens[ctl[o].client][o] = "none" THEN {o} ELSE {}
             u == [task EXCEPT !.acquired = @ \cup S]
  <2>1. S \subseteq Owner /\ task \in Task
    BY DEF CoordinatorInv, TypeOK
  <2>2. ctl[o].wanted => Gathers(task, u, o)
    <3>1. ctl[o].wanted => task.phase = "applywatch"
      BY <1>2, Wanted DEF ApplyWatch, Receives
    <3> HIDE DEF S
    <3> QED
      BY <2>1, <3>1 DEF Gathers, Collects, Task
  <2>3. ctl[o].wanted => task' = IF coordinated[o].open THEN Failed(task) ELSE Answered(u, o)
    BY <1>2 DEF ApplyWatch, Replied
  <2>4. ctl[o].wanted /\ ~coordinated[o].open => Moves(o)
    <3> HIDE DEF u
    <3> QED
      BY <2>2, <2>3, AnsweredMoves
  <2>5. ~ctl[o].wanted => task' = task
    BY <1>2 DEF ApplyWatch, Replied
  <2> QED
    BY <1>2, <2>3, <2>4, <2>5 DEF ApplyWatch, Receives
<1> QED
  BY <1>1, <1>2
=============================================================================
