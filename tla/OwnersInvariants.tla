-------------------------- MODULE OwnersInvariants --------------------------
(***************************************************************************)
(* The inductive invariant of Owners, in layers.  Each says what the ones  *)
(* after it need: the shape of the task that holds the barrier and the     *)
(* controls it waits for, the barrier, what the stores have of the file,   *)
(* what is tentative, the commands accepted together, the images of a      *)
(* snapshot, the places of the requests, and the watches of EXEC.  Between *)
(* them are the steps of Owners as a layer sees them: a step that does not *)
(* concern a layer is one of a few.                                        *)
(***************************************************************************)
EXTENDS Owners

PhasesOf(kind) ==
    CASE kind = "exec" -> {"probe", "clock", "check", "begin", "candidate", "accept", "seal",
                           "append", "apply", "abort", "drop", "release"}
      [] kind = "watch" -> {"prepare", "append", "applywatch", "drop", "release"}
      [] kind = "freeze" -> {"capture", "captured", "release"}
      [] OTHER -> {"none"}

Asks(t) == t.kind \in {"exec", "watch"} /\ t.phase \notin {"append", "drop", "release"}

\* The phases in which EXEC has a publication, and so closes the admission if it fails.
Publishing == {"begin", "candidate", "accept", "seal", "append", "apply", "abort"}

\* A plan over the owners in S, all of them named.
PlanOver(t) ==
    /\ t.owners # {}
    /\ \A i \in DOMAIN t.plan : t.plan[i] # {} /\ t.plan[i] \subseteq t.owners
    /\ t.step <= Len(t.plan)

Shape(t) ==
    /\ t.phase \in PhasesOf(t.kind)
    /\ t.kind \in {"exec", "watch"} => PlanOver(t)
    /\ t.phase \in {"candidate", "accept"} => t.step \in DOMAIN t.plan /\ t.todo \subseteq t.plan[t.step]
    /\ t.phase = "seal" => t.step = Len(t.plan)
    /\ Asks(t) => t.todo # {}
    /\ Asks(t) /\ t.phase # "probe" => t.todo \subseteq t.owners
    /\ t.kind = "exec" /\ t.phase \in Publishing => t.publication
    /\ t.phase \in {"append", "applywatch"} /\ Mutating(t) # {} => t.publication

\* What the phases leave alone: the decision, and for whom it is.
SameDecision(t, u) ==
    /\ u.kind = t.kind /\ u.client = t.client /\ u.plan = t.plan /\ u.owners = t.owners
    /\ u.prepared = t.prepared /\ u.position = t.position /\ u.image = t.image /\ u.time = t.time

Results == {"none", "ok", "error", "null", "limit"}

\* How a failure leaves the task.
FailedMove(t, u) ==
    /\ SameDecision(t, u) /\ ~u.asked /\ u.publication = t.publication /\ u.step = t.step
    /\ IF t.phase \in {"begin", "candidate", "accept", "seal"}
       THEN u.phase = "abort" /\ u.todo = t.owners
       ELSE u.phase = "drop"

-----------------------------------------------------------------------------
(* How an answer moves the task.                                           *)

NextCommandMove(t, u) ==
    \/ t.step = Len(t.plan) /\ u.phase = "seal" /\ u.todo = t.owners /\ u.step = t.step
    \/ /\ t.step < Len(t.plan) /\ u.phase = "candidate" /\ u.step = t.step + 1
       /\ u.todo = t.plan[t.step + 1] /\ u.candidates = [o \in Owner |-> "none"]

ApplyPhase(t) == IF t.kind = "exec" THEN "apply" ELSE "applywatch"

DecideMove(t, u) ==
    /\ u.todo = t.owners
    /\ IF Mutating(t) # {} THEN u.phase = "append" /\ u.publication
       ELSE u.phase = ApplyPhase(t) /\ u.publication = t.publication

-----------------------------------------------------------------------------

\* Every owner of the phase has answered: the phase that follows.
Advance(t, u) ==
    \/ t.phase = "probe" /\ u.phase = "clock" /\ u.step = t.step /\ u.publication = t.publication
    \/ /\ t.phase = "clock" /\ u.phase = "check" /\ u.todo = t.owners /\ u.step = t.step
       /\ u.publication = t.publication
    \/ t.phase = "check" /\ u.phase = "begin" /\ u.todo = t.owners /\ u.step = t.step /\ u.publication
    \/ t.phase \in {"begin", "accept"} /\ NextCommandMove(t, u) /\ u.publication
    \/ t.phase = "candidate" /\ RejectJoint(t) /\ NextCommandMove(t, u) /\ u.publication
    \/ /\ t.phase = "candidate" /\ ~RejectJoint(t) /\ u.phase = "accept" /\ u.publication
       /\ u.todo = t.plan[t.step] /\ u.step = t.step /\ u.candidates = t.candidates
    \/ t.phase \in {"seal", "prepare"} /\ DecideMove(t, u)
    \/ t.phase \in {"apply", "applywatch", "abort"} /\ u.phase = "drop" /\ ~u.publication

\* One owner has answered.
Move(t, u, o) ==
    IF t.todo = {o} THEN Advance(t, u)
    ELSE /\ u.phase = t.phase /\ u.todo = t.todo \ {o} /\ u.step = t.step
         /\ u.candidates = t.candidates /\ u.publication = t.publication

-----------------------------------------------------------------------------
(* First layer: types, the shape of the task, and the controls it waits    *)
(* for.  A control that is wanted is the one that was sent last.           *)

Matching ==
    \A o \in Owner : ctl[o].wanted =>
        Asks(task) /\ task.asked /\ o = FirstOwner(task.todo) /\ ctl[o] = Control(task, o)

\* Only EXEC and WATCH ask for the barrier.
Coordinates == \A c \in Client : cl[c].pc \in {"acquire", "task"} => cl[c].kind \in {"exec", "watch"}

CoordinatorInv == TypeOK /\ Shape(task) /\ Matching /\ Coordinates

\* A change of what the phase has collected so far leaves the shape alone.
Collects(t, u) ==
    /\ u \in Task /\ u.kind = t.kind /\ u.plan = t.plan /\ u.owners = t.owners /\ u.phase = t.phase
    /\ u.todo = t.todo /\ u.step = t.step /\ u.publication = t.publication
    /\ u.client = t.client /\ u.position = t.position /\ u.image = t.image
    /\ t.phase \in {"append", "applywatch"} => u.prepared = t.prepared

\* What no answer changes; and no answer releases the barrier.
SameOrder(t, u) ==
    /\ u.kind = t.kind /\ u.client = t.client /\ u.plan = t.plan /\ u.owners = t.owners
    /\ u.position = t.position /\ u.image = t.image /\ u.phase # "release"

-----------------------------------------------------------------------------
(* The steps, from the point of view of the task and its controls.         *)

\* Neither the task, nor a control, nor a tentative transaction changes.
Quiet == UNCHANGED <<task, ctl, coordinated>>

\* An owner is gone with its control and its tentative transaction.
Dies(o) ==
    /\ UNCHANGED task
    /\ ctl' = [ctl EXCEPT ![o] = NoControl]
    /\ coordinated' = [coordinated EXCEPT ![o] = NoTransaction]

Handles(o) == ControlStep(o) /\ ~StaleControl(o)

\* The write guard is granted to an EXEC or a WATCH.
Acquires(c) ==
    /\ cl[c].pc = "acquire" /\ AcquireGuard /\ admission
    /\ task' = Enter([NoTask EXCEPT !.kind = cl[c].kind, !.client = c, !.plan = cl[c].plan,
                                    !.owners = Participants(c)],
                     IF cl[c].kind = "exec" THEN "probe" ELSE "prepare")
    /\ cl' = [cl EXCEPT ![c].pc = "task"]
    /\ UNCHANGED <<ctl, coordinated, log, switches, store, requests, closed, worker, tokens, seen>>

ConnectionTypes ==
    /\ cl \in [Client -> Connection] /\ Coordinates
    /\ tokens \in [Client -> [Owner -> {"none", "live", "changed"}]]
    /\ seen \in [Client -> [Owner -> Nat]]

\* The types of what the owners have.
OwnerTypes ==
    /\ log \in Seq(LogRecord)
    /\ aofFailed \in BOOLEAN /\ shutdown \in BOOLEAN /\ admission \in BOOLEAN
    /\ applied \in [Owner -> SUBSET Nat] /\ generation \in [Owner -> Nat] /\ due \subseteq Owner
    /\ coordinated \in [Owner -> OwnerTransaction]
    /\ requests \in [Owner -> Seq(Client)] /\ closed \subseteq Owner
    /\ worker \in [Owner -> Worker]

OtherTypes == OwnerTypes /\ ConnectionTypes

-----------------------------------------------------------------------------
\* The connections as a step leaves them: only c has moved, and its operation stays.
PcOnly(c, p) ==
    \A d \in Client : /\ cl'[d].pc = (IF d = c THEN p ELSE cl[d].pc)
                      /\ cl'[d].kind = cl[d].kind /\ cl'[d].plan = cl[d].plan

-----------------------------------------------------------------------------
(* Second layer: the barrier.                                              *)

\* While the barrier is held exclusively, and once the admission is closed, no
\* request is queued or served, and none can be sent.
Held == task.kind # "none" \/ ~admission

Guarded == Held => NoReaders

\* The admission is closed only by a holder of the barrier that is about to release it.
OpenWhileHeld == task.kind # "none" /\ task.phase # "release" => admission

\* A worker has a job exactly while it waits for the writer or applies.
JobsInPlace ==
    \A o \in Owner :
        /\ worker[o].pc \in {"append", "apply"} =>
             worker[o].job.client # NoClient \/ worker[o].job.kind = "expire"
        /\ worker[o].pc \notin {"append", "apply"} => worker[o].job = NoJob
        /\ worker[o].job.client = NoClient => worker[o].job.kind \in {"none", "expire"}
        /\ worker[o].pc \in Dead => requests[o] = <<>>

BarrierInv == Guarded /\ OpenWhileHeld /\ JobsInPlace

\* What a worker may be given to do, and what it has done.
JobInPlace(w, q) ==
    /\ w.pc \in {"append", "apply"} => w.job.client # NoClient \/ w.job.kind = "expire"
    /\ w.pc \notin {"append", "apply"} => w.job = NoJob
    /\ w.job.client = NoClient => w.job.kind \in {"none", "expire"}
    /\ w.pc \in Dead => q = <<>>

-----------------------------------------------------------------------------
(* What an answer that the coordinator waits for does to the task: the     *)
(* answer is collected, and the task moves; or the task fails; or the      *)
(* watches of EXEC are not valid any more.                                 *)

Gathers(t, u, o) ==
    /\ Collects(t, u)
    /\ t.phase # "candidate" => u.candidates = t.candidates
    /\ t.phase \notin {"seal", "prepare"} => u.prepared = t.prepared
    /\ \A p \in Owner \ {o} : u.candidates[p] = t.candidates[p] /\ u.prepared[p] = t.prepared[p]
    /\ t.phase = "check" => tokens[t.client][o] # "changed"
    /\ t.phase = "candidate" => u.candidates[o] \in {"ok", "error"}
    /\ t.phase = "seal" => coordinated[o].open /\ u.prepared[o].effects = coordinated[o].effects

Moves(o) == \E u : Gathers(task, u, o) /\ SameDecision(u, task') /\ Move(u, task', o)

Refuses == /\ task.phase = "check" /\ SameDecision(task, task')
           /\ task'.phase = "drop" /\ ~task'.publication

-----------------------------------------------------------------------------
(* Third layer: what the stores have of the file.                          *)

\* The coordinator gives up with a publication that is not complete.
Broken == task.phase = "drop" /\ task.publication

\* Requests are admitted now, or will be when the barrier is released.
Clear == admission /\ ~Broken

InFlight(o) == IF worker[o].pc = "apply" THEN {worker[o].job.position} ELSE {}

Pending(o) ==
    IF task.phase \in {"apply", "applywatch"} /\ o \in task.todo /\ o \in Mutating(task)
    THEN {task.position} ELSE {}

\* Every store has the records of the file that touch it, but for the one that its
\* worker or the coordinator is about to apply.
UpToDate(o) == RecordsOf(o) = applied[o] \cup InFlight(o) \cup Pending(o)

\* A control whose answer nobody waits for changes a store only after a failure that
\* closes the admission.
Abandoned(o) == /\ ctl[o].phase \in {"apply", "applywatch"}
                /\ ctl[o].prepared.mutates /\ ~ctl[o].wanted

Visible ==
    /\ Clear => \A o \in Owner : Alive(o) => UpToDate(o)
    /\ \A o \in Owner : Abandoned(o) => ~Clear

-----------------------------------------------------------------------------
(* The steps, from the point of view of the stores and of the file.        *)

\* Neither a store nor the file changes, and no worker starts or ends an application.
Idles ==
    /\ UNCHANGED <<log, applied, generation>>
    /\ \A o \in Owner : (Alive(o))' => Alive(o) /\ InFlight(o)' = InFlight(o)

Told(token) == IF token = "live" THEN "changed" ELSE token

\* The operation of c, if it has one, is the same.
SameOp(c) == cl'[c].kind = cl[c].kind /\ cl'[c].plan = cl[c].plan

\* The tokens of c are told of every change, and nothing else happens to them.
KeepsTokens(c) ==
    \A o \in Owner :
        /\ seen'[c][o] = seen[c][o]
        /\ tokens'[c][o] = IF generation'[o] = generation[o] THEN tokens[c][o] ELSE Told(tokens[c][o])

Keeps(c) == SameOp(c) /\ cl'[c].pc = cl[c].pc /\ KeepsTokens(c)

\* A token of c that is live was so before, and nothing has changed; or it is new.
Fresh(c) ==
    \A o \in Owner : tokens'[c][o] = "live" =>
        \/ seen'[c][o] = generation'[o]
        \/ tokens[c][o] = "live" /\ seen'[c][o] = seen[c][o] /\ generation'[o] = generation[o]

\* c has its answer; nobody else notices.
Leaves(c) == SameOp(c) /\ cl'[c].pc = "idle" /\ Fresh(c)

OthersKeep(c) == \A d \in Client : d # c => Keeps(d)

TokenTypes ==
    /\ cl \in [Client -> Connection] /\ generation \in [Owner -> Nat]
    /\ tokens \in [Client -> [Owner -> {"none", "live", "changed"}]]
    /\ seen \in [Client -> [Owner -> Nat]]

-----------------------------------------------------------------------------
(* Fourth layer: what is tentative.                                       *)

Deciding == {"begin", "candidate", "accept", "seal", "apply", "abort"}

Tentative(o) == coordinated[o].open \/ ctl[o].phase \in Deciding

Leftover(o) ==
    /\ Tentative(o) => task.phase \in Deciding /\ o \in task.owners
    /\ task.phase \in {"seal", "abort"} /\ Tentative(o) => o \in task.todo
    /\ task.phase = "apply" => ~coordinated[o].open
    /\ task.phase # "abort" /\ ctl[o].phase \in Deciding => ctl[o].wanted

\* Nothing is tentative but what the coordinator that holds the barrier will seal,
\* apply or abort.
Tidy ==
    /\ Clear => \A o \in Owner : Leftover(o)
    /\ \A o \in Owner : ~coordinated[o].open => coordinated[o] = NoTransaction

-----------------------------------------------------------------------------
(* Fifth layer: the commands of a transaction are accepted together.       *)

\* Owner o of a task t, with transactions x, has sealed what it accepted, or has it
\* still open; and what it accepted.
Sealed(t, o) == t.phase = "seal" /\ o \notin t.todo

Holds(t, x, o) == Sealed(t, o) \/ x[o].open

EffectsAt(t, x, o) == IF Sealed(t, o) THEN t.prepared[o].effects ELSE x[o].effects

\* The owners of command i that have anything of the transaction agree on it.
Agree(t, x, i) ==
    \A o, p \in t.plan[i] :
        Holds(t, x, o) /\ Holds(t, x, p) => (i \in EffectsAt(t, x, o) <=> i \in EffectsAt(t, x, p))

OpenAgree(plan, x, i) ==
    \A o, p \in plan[i] : x[o].open /\ x[p].open => (i \in x[o].effects <=> i \in x[p].effects)

Whole(t) ==
    \A i \in DOMAIN t.plan : \A o, p \in t.plan[i] :
        i \in t.prepared[o].effects <=> i \in t.prepared[p].effects

JointIn(t, x) ==
    t.kind = "exec" =>
        /\ t.phase \in {"probe", "clock", "check", "begin"} => t.step = 0
        /\ t.phase = "begin" => \A o \in Owner : x[o].effects = {}
        /\ t.phase \in {"candidate", "accept", "seal"} =>
             \A i \in DOMAIN t.plan : i < t.step \/ t.phase = "seal" => Agree(t, x, i)
        /\ t.phase = "candidate" =>
             /\ \A o \in Owner : \A i \in x[o].effects : i < t.step
             /\ \A o \in t.plan[t.step] \ t.todo : t.candidates[o] \in {"ok", "error"}
        /\ t.phase = "accept" =>
             /\ \A o \in Owner : \A i \in x[o].effects : i <= t.step
             /\ \A o, p \in t.plan[t.step] : t.candidates[o] = t.candidates[p]
             /\ \A o \in t.plan[t.step] :
                  x[o].open => (t.step \in x[o].effects <=> o \notin t.todo /\ t.candidates[o] = "ok")
        /\ t.phase \in {"append", "apply"} => Whole(t)

Joint == JointIn(task, coordinated)

\* The types that the arithmetic of the steps needs.
Numbered(t, x) ==
    /\ t \in Task /\ PlanOver(t) /\ x \in [Owner -> OwnerTransaction]
    /\ t.phase \in {"candidate", "accept"} => t.step \in DOMAIN t.plan

-----------------------------------------------------------------------------
(* Sixth layer: the images of the owners that a freeze has captured.       *)

Captured ==
    task.phase \in {"capture", "captured"} =>
        \A o \in Owner : o \notin task.todo \/ task.phase = "captured" => task.image[o] = RecordsOf(o)

-----------------------------------------------------------------------------
(* Seventh layer: where the operations of the connections are.             *)

\* A request is queued or served at the one owner that its operation has.
Waits(C, T, c, o) ==
    C[c].pc = "sent" /\ ParticipantsOf(C[c].kind, C[c].plan, {p \in Owner : T[c][p] # "none"}) = {o}

WaitsAt(c, o) == Waits(cl, tokens, c, o)

PlacesAt(o) ==
    /\ \A i \in DOMAIN requests[o] :
         /\ WaitsAt(requests[o][i], o) /\ requests[o][i] # worker[o].job.client
         /\ \A j \in DOMAIN requests[o] : requests[o][i] = requests[o][j] => i = j
    /\ worker[o].job.client # NoClient =>
         /\ WaitsAt(worker[o].job.client, o)
         /\ worker[o].job.kind = cl[worker[o].job.client].kind

Places == \A o \in Owner : PlacesAt(o)

\* What asks for a read guard has one owner.
Single ==
    \A c \in Client : cl[c].pc \in {"admit", "reserve", "sent"} => \E o \in Owner : Participants(c) = {o}

\* An EXEC or a WATCH that holds the barrier belongs to a connection that waits for
\* it, and EXEC concerns every owner of a key it watches.
Holder ==
    task.kind \in {"exec", "watch"} =>
        /\ task.client \in Client /\ cl[task.client].pc = "task"
        /\ task.kind = "exec" => Watched(task.client) \subseteq task.owners

ConnectionInv == Places /\ Single /\ Holder

\* A control gives tokens to the connection that holds the barrier, and to no other.
Gives(o) ==
    /\ task.kind = "watch" /\ OthersKeep(task.client) /\ UNCHANGED cl /\ Fresh(task.client)

\* What a connection does by itself.
Continues(c) ==
    /\ KeepsTokens(c)
    /\ \/ \E op \in Ops[cl[c].role] : Start(c, op)
       \/ SameOp(c) /\ cl[c].pc = "admit" /\ cl'[c].pc = "reserve" /\ UNCHANGED <<requests, worker, task>>
       \/ SameOp(c) /\ cl'[c].pc = "sent" /\ Enqueue(c)
       \/ SameOp(c) /\ cl'[c].pc = "task" /\ Acquires(c)
       \/ Keeps(c) /\ UNCHANGED <<requests, worker, task>>

GivesUp(c) ==
    /\ Leaves(c) /\ cl[c].pc # "task" /\ UNCHANGED <<requests, worker, task>>
    /\ cl[c].pc = "sent" => \E o \in Participants(c) : worker[o].pc \in Dead

\* What becomes of the job of an owner.
Goes(o) == /\ \A c \in Client : Keeps(c)
           /\ UNCHANGED requests
           /\ \A p \in Owner : /\ worker'[p].job.client = worker[p].job.client
                               /\ worker'[p].job.kind = worker[p].job.kind

Ends(o) == /\ UNCHANGED requests
           /\ worker'[o].job = NoJob /\ \A p \in Owner : p # o => worker'[p] = worker[p]
           /\ \/ \A c \in Client : Keeps(c)
              \/ /\ worker[o].job.client \in Client
                 /\ OthersKeep(worker[o].job.client) /\ Leaves(worker[o].job.client)

Falls(o) == /\ \A c \in Client : Keeps(c)
            /\ worker'[o].job = NoJob /\ requests'[o] = <<>>
            /\ \A p \in Owner : p # o => worker'[p] = worker[p] /\ requests'[p] = requests[p]

\* All the steps, from the point of view of the connections and of the queues.
Rests == (\A c \in Client : Keeps(c)) /\ UNCHANGED requests
         /\ \A o \in Owner : worker'[o].job.client = worker[o].job.client
                             /\ worker'[o].job.kind = worker[o].job.kind

\* c waits at o after the step.
Stays(c, o) == Waits(cl', tokens', c, o)

-----------------------------------------------------------------------------
(* Eighth layer: the watches that EXEC was accepted with.                  *)

Vetting == {"begin", "candidate", "accept", "seal", "append"}

\* The owners that have found the watches of the task t valid.
Vetted(t) ==
    IF t.kind = "exec" /\ t.phase \in Vetting THEN t.owners
    ELSE IF t.kind = "exec" /\ t.phase = "check" THEN t.owners \ t.todo
    ELSE {}

\* The task goes on, for the same connection and the same owners.
SameTask == /\ task.kind \in {"exec", "watch"} /\ ~Release
            /\ task'.kind = task.kind /\ task'.client = task.client /\ task'.owners = task.owners
            /\ \A o \in Vetted(task') :
                 o \in Vetted(task) \/ (task.phase = "check" /\ tokens[task.client][o] # "changed")

\* A token that is live has seen the generation of its owner.
Live == \A c \in Client : \A o \in Owner : tokens[c][o] = "live" => generation[o] = seen[c][o]

\* The watches of an EXEC whose record is being decided were valid and are so still.
Accepted ==
    /\ \A o \in Vetted(task) : tokens[task.client][o] # "changed"
    /\ \A o \in Owner : worker[o].job.kind = "exec" => tokens[worker[o].job.client][o] # "changed"

-----------------------------------------------------------------------------
(* The inductive invariant, and what follows from it.                      *)

OwnersInv ==
    /\ CoordinatorInv /\ BarrierInv /\ Visible /\ Tidy /\ Joint /\ Captured
    /\ ConnectionInv /\ Live /\ Accepted
=============================================================================
