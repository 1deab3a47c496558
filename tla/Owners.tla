------------------------------- MODULE Owners -------------------------------
(***************************************************************************)
(* The owners of the dataset and everything that crosses them: the worker  *)
(* of each shard (storage/worker.rs), the admission flag and the barrier   *)
(* (storage/admission.rs), EXEC and WATCH over several owners              *)
(* (storage/coordinator.rs) and the consistent cut that snapshots take     *)
(* (storage/snapshot.rs).                                                  *)
(*                                                                         *)
(* Every owner has one key.  A record of the append-only file is known by  *)
(* its position in `log`, and a store by the positions it has applied.     *)
(* The barrier is not a variable: its write guard is held by `task`, and a *)
(* read guard by every client in "reserve", by every queued request and by *)
(* every owner that has a job.                                             *)
(***************************************************************************)
EXTENDS Naturals, Sequences, FiniteSets

CONSTANTS
    Shards,   \* number of owners
    Client,   \* connections
    NoClient, \* no connection
    Roles,    \* the roles that connections may have together, each a function from Client
    Ops,      \* per role: the operations it may ask for
    MaxOps,   \* per role: bound on the operations of one connection
    QueueCap  \* capacity of a request queue

Owner == 1..Shards

\* An operation is a list of commands, each given by the owners of its keys.
ASSUME OpsAssumption ==
    \A roles \in Roles : \A c \in Client :
        Ops[roles[c]] \subseteq [kind : {"execute", "watch", "exec"}, plan : Seq((SUBSET Owner) \ {{}})]
ASSUME BoundsAssumption == Shards \in Nat \ {0} /\ QueueCap \in Nat \ {0}
ASSUME ClientAssumption == NoClient \notin Client

VARIABLES
    log,         \* the records of the append-only file
    aofFailed,   \* AofHandle::failed
    shutdown,    \* the shutdown channel
    admission,   \* Admission
    applied,     \* per owner: the records its store contains
    generation,  \* Store.generation
    due,         \* owners whose key has expired and is still in the store
    coordinated, \* Worker.coordinated
    requests,    \* Worker.requests: the connections whose request is queued
    closed,      \* owners that have closed their request queue
    ctl,         \* Worker.coordination, a channel of capacity one
    worker,      \* what each worker does
    task,        \* who holds the barrier exclusively: execute_coordinated, watch, freeze
    cl,          \* connections
    tokens,      \* per connection and owner: its WatchToken
    seen         \* the generation a token was taken at

store == <<applied, generation, due>>
channels == <<requests, closed, ctl>>
clients == <<cl, tokens, seen>>
switches == <<aofFailed, shutdown, admission>>
vars == <<log, switches, store, coordinated, channels, worker, task, clients>>

-----------------------------------------------------------------------------

\* What a store resolved: the change it will make, valid for one generation.
Prepared == [generation : Nat, mutates : BOOLEAN, effects : SUBSET Nat]
NotPrepared == [generation |-> 0, mutates |-> FALSE, effects |-> {}]

\* OwnerTransaction: the commands accepted so far.
OwnerTransaction == [open : BOOLEAN, mutates : BOOLEAN, effects : SUBSET Nat]
NoTransaction == [open |-> FALSE, mutates |-> FALSE, effects |-> {}]

\* What a worker awaits the writer for.
NoJob == [kind |-> "none", client |-> NoClient, generation |-> 0, position |-> 0]
Dead == {"stopped", "panicked"}

NoTask ==
    [kind |-> "none", client |-> NoClient, plan |-> <<>>, owners |-> {}, phase |-> "none",
     todo |-> {}, asked |-> FALSE, step |-> 0, time |-> {},
     candidates |-> [o \in Owner |-> "none"], prepared |-> [o \in Owner |-> NotPrepared],
     publication |-> FALSE, position |-> 0, acquired |-> {}, image |-> [o \in Owner |-> {}],
     result |-> "none"]

\* A control, as it was when the coordinator sent it; it is wanted until the
\* coordinator stops waiting for the answer.
Control(t, o) ==
    [wanted |-> TRUE, phase |-> t.phase, client |-> t.client, step |-> t.step,
     time |-> t.time, candidate |-> t.candidates[o], prepared |-> t.prepared[o],
     position |-> t.position]
NoControl == [Control(NoTask, 1) EXCEPT !.wanted = FALSE]

FirstOwner(S) == CHOOSE o \in S : \A p \in S : o <= p

Init ==
    /\ log = <<>> /\ aofFailed = FALSE /\ shutdown = FALSE /\ admission = TRUE
    /\ applied = [o \in Owner |-> {}] /\ generation = [o \in Owner |-> 0] /\ due = {}
    /\ coordinated = [o \in Owner |-> NoTransaction]
    /\ requests = [o \in Owner |-> <<>>] /\ closed = {}
    /\ ctl = [o \in Owner |-> NoControl]
    /\ worker = [o \in Owner |-> [pc |-> "select", job |-> NoJob]]
    /\ task = NoTask
    /\ \E roles \in Roles :
          cl = [c \in Client |-> [pc |-> "idle", kind |-> "none", plan |-> <<>>, gone |-> FALSE,
                                  role |-> roles[c], ops |-> 0]]
    /\ tokens = [c \in Client |-> [o \in Owner |-> "none"]]
    /\ seen = [c \in Client |-> [o \in Owner |-> 0]]

(***************************************************************************)
(* Connections: execute, execute_batch, watch and request_inner            *)
(***************************************************************************)

Watched(c) == {o \in Owner : tokens[c][o] # "none"}

\* transaction_participants: the owners of every key, watched keys included; the
\* first owner when there is none.
ParticipantsOf(kind, plan, watched) ==
    LET owners == (UNION {plan[i] : i \in DOMAIN plan}) \cup (IF kind = "exec" THEN watched ELSE {})
    IN IF owners = {} THEN {1} ELSE owners
Participants(c) == ParticipantsOf(cl[c].kind, cl[c].plan, Watched(c))

\* A command outside of MULTI has one owner; ShardRouter::route refuses it otherwise.
ASSUME ExecuteAssumption ==
    \A roles \in Roles : \A c \in Client : \A op \in Ops[roles[c]] :
        op.kind = "execute" => Cardinality(ParticipantsOf("execute", op.plan, {})) = 1

\* The operation of c is over.  EXEC has consumed the tokens it was given.
Idle(c) ==
    /\ cl' = [cl EXCEPT ![c].pc = "idle", ![c].gone = FALSE]
    /\ tokens' = IF cl[c].kind = "exec"
                 THEN [tokens EXCEPT ![c] = [o \in Owner |-> "none"]] ELSE tokens

\* An operation of one owner asks for a read guard, another one for the write guard.
Start(c, op) ==
    /\ cl[c].pc = "idle" /\ cl[c].ops < MaxOps[cl[c].role]
    /\ admission /\ ~shutdown
    /\ LET owners == ParticipantsOf(op.kind, op.plan, Watched(c))
       IN cl' = [cl EXCEPT ![c] =
                    [pc |-> IF Cardinality(owners) = 1 THEN "admit" ELSE "acquire",
                     kind |-> op.kind, plan |-> op.plan, gone |-> FALSE,
                     role |-> @.role, ops |-> @.ops + 1]]
    /\ UNCHANGED <<log, switches, store, coordinated, channels, worker, task, tokens, seen>>

\* UNWATCH, DISCARD, or the end of the connection: the tokens are dropped.
Unwatch(c) ==
    /\ cl[c].pc = "idle" /\ Watched(c) # {}
    /\ tokens' = [tokens EXCEPT ![c] = [o \in Owner |-> "none"]]
    /\ UNCHANGED <<log, switches, store, coordinated, channels, worker, task, cl, seen>>

\* Mutant: the admission is not checked again once the read guard is held.
ReadAdmissionOnce(c) ==
    /\ cl[c].pc = "admit"
    /\ task.kind = "none"
    /\ cl' = [cl EXCEPT ![c].pc = "reserve"]
    /\ UNCHANGED <<log, switches, store, coordinated, channels, worker, task, tokens, seen>>

\* read_admission: the read guard, then both conditions once more.
ReadAdmission(c) ==
    /\ cl[c].pc = "admit"
    /\ task.kind = "none"
    /\ IF admission /\ ~shutdown
       THEN cl' = [cl EXCEPT ![c].pc = "reserve"] /\ UNCHANGED tokens
       ELSE Idle(c)
    /\ UNCHANGED <<log, switches, store, coordinated, channels, worker, task, seen>>

\* The request, and the read guard in it, belong to the worker from here on.
Enqueue(c) ==
    /\ cl[c].pc = "reserve" /\ ~shutdown
    /\ \E o \in Participants(c) :
         /\ o \notin closed /\ worker[o].pc \notin Dead
         /\ Len(requests[o]) < QueueCap
         /\ requests' = [requests EXCEPT ![o] = Append(@, c)]
    /\ cl' = [cl EXCEPT ![c].pc = "sent"]
    /\ UNCHANGED <<log, switches, store, coordinated, closed, ctl, worker, task, tokens, seen>>

\* The deadline of the connection.  What was accepted goes on without it.
ClientTimeout(c) ==
    /\ \/ cl[c].pc \in {"admit", "reserve", "acquire"} /\ Idle(c)
       \/ /\ cl[c].pc \in {"sent", "task"} /\ ~cl[c].gone
          /\ cl' = [cl EXCEPT ![c].gone = TRUE]
          /\ UNCHANGED tokens
    /\ UNCHANGED <<log, switches, store, coordinated, channels, worker, task, seen>>

\* Mutant: nobody notices that the owner is gone with the request.
UnavailableBeforeSending(c) ==
    /\ \E o \in Participants(c) :
         cl[c].pc = "reserve" /\ (o \in closed \/ worker[o].pc \in Dead)
    /\ Idle(c)
    /\ UNCHANGED <<log, switches, store, coordinated, channels, worker, task, seen>>

\* The owner's queue is closed, or the owner is gone with the request.
Unavailable(c) ==
    /\ \E o \in Participants(c) :
         \/ cl[c].pc = "reserve" /\ (o \in closed \/ worker[o].pc \in Dead)
         \/ cl[c].pc = "sent" /\ worker[o].pc \in Dead
    /\ Idle(c)
    /\ UNCHANGED <<log, switches, store, coordinated, channels, worker, task, seen>>

(***************************************************************************)
(* Workers: Worker::run and what its select! branches do                   *)
(***************************************************************************)

\* Mutant: invalidate does not reach the tokens.
InvalidateNothing(o) == tokens

\* Registry::invalidate: whoever watches the owner's key is told that it changed.
Invalidate(o) ==
    [c \in Client |-> [tokens[c] EXCEPT ![o] = IF @ = "live" THEN "changed" ELSE @]]

\* Store::apply of a change: the record is in the store.
ApplyChange(o, position) ==
    /\ applied' = [applied EXCEPT ![o] = @ \cup {position}]
    /\ generation' = [generation EXCEPT ![o] = @ + 1]
    /\ due' = due \ {o}

\* Store::watch for connection c, added to the tokens t at generation g; a token it
\* already has stays.
Watching(t, c, o) == [t EXCEPT ![c][o] = IF @ = "none" THEN "live" ELSE @]
SeenAt(c, o, g) == [seen EXCEPT ![c][o] = IF tokens[c][o] = "none" THEN g ELSE @]

\* Owner o, whose generation is g and whose tokens are t, answers connection c.
Answer(c, o, t, g) ==
    /\ cl' = [cl EXCEPT ![c].pc = "idle", ![c].gone = FALSE]
    /\ tokens' = CASE cl[c].kind = "watch" /\ ~cl[c].gone -> Watching(t, c, o)
                   [] cl[c].kind = "exec" -> [t EXCEPT ![c] = [p \in Owner |-> "none"]]
                   [] OTHER -> t
    /\ seen' = IF cl[c].kind = "watch" /\ ~cl[c].gone THEN SeenAt(c, o, g) ELSE seen

\* The worker ends; its channels, and the guards in them, are dropped.
Die(o, pc) ==
    /\ worker' = [worker EXCEPT ![o] = [pc |-> pc, job |-> NoJob]]
    /\ requests' = [requests EXCEPT ![o] = <<>>]
    /\ closed' = closed \cup {o}
    /\ ctl' = [ctl EXCEPT ![o] = NoControl]
    /\ coordinated' = [coordinated EXCEPT ![o] = NoTransaction]

\* The worker is at its select!, and neither of the first two branches is ready.
Selecting(o) ==
    worker[o].pc = "select" /\ o \notin closed /\ ~shutdown /\ ~aofFailed

\* First branch: stop accepting, and leave the loop to drain the queue.
StopRequests(o) ==
    /\ worker[o].pc = "select" /\ o \notin closed /\ shutdown
    /\ closed' = closed \cup {o}
    /\ UNCHANGED <<log, switches, store, coordinated, requests, ctl, worker, task, clients>>

\* Second branch: the writer has failed.
StopOnFailure(o) ==
    /\ worker[o].pc = "select" /\ o \notin closed /\ ~shutdown /\ aofFailed
    /\ Die(o, "stopped")
    /\ UNCHANGED <<log, switches, store, task, clients>>

\* Mutant: the tick does not try the barrier.
ExpireDuringExclusion(o) ==
    /\ Selecting(o) /\ admission
    /\ o \in due
    /\ worker' = [worker EXCEPT ![o] =
                    [pc |-> "append",
                     job |-> [kind |-> "expire", client |-> NoClient,
                              generation |-> generation[o], position |-> 0]]]
    /\ UNCHANGED <<log, switches, store, coordinated, channels, task, clients>>

\* Third branch: the expiration tick, skipped under the write guard.
Expire(o) ==
    /\ Selecting(o) /\ task.kind = "none" /\ admission
    /\ o \in due
    /\ worker' = [worker EXCEPT ![o] =
                    [pc |-> "append",
                     job |-> [kind |-> "expire", client |-> NoClient,
                              generation |-> generation[o], position |-> 0]]]
    /\ UNCHANGED <<log, switches, store, coordinated, channels, task, clients>>

\* Last branch, or the drain loop: the next request is prepared.  A batch whose
\* watched key changed or expired gets a null reply; one that changes nothing
\* is answered at once; the others go to the writer first.
Serve(o) ==
    /\ \/ Selecting(o) /\ ctl[o] = NoControl
       \/ worker[o].pc = "select" /\ o \in closed
    /\ requests[o] # <<>>
    /\ requests' = [requests EXCEPT ![o] = Tail(@)]
    /\ LET c == Head(requests[o])
           stale == cl[c].kind = "exec" /\
                      (tokens[c][o] = "changed" \/ (tokens[c][o] = "live" /\ o \in due))
       IN \/ stale /\ Idle(c) /\ UNCHANGED <<worker, seen>>
          \/ ~stale /\ o \notin due /\ Answer(c, o, tokens, generation[o]) /\ UNCHANGED worker
          \/ /\ ~stale /\ (cl[c].kind = "watch" => o \in due)
             /\ worker' = [worker EXCEPT ![o] =
                             [pc |-> "append",
                              job |-> [kind |-> cl[c].kind, client |-> c,
                                       generation |-> generation[o], position |-> 0]]]
             /\ UNCHANGED clients
    /\ UNCHANGED <<log, switches, store, coordinated, closed, ctl, task>>

\* A record of the owners in S, for a client's command or for expired keys.
Record(S, origin) == [owners |-> S, origin |-> origin]

Origin(kind) == IF kind \in {"execute", "exec"} THEN "client" ELSE "expiration"

\* persist: the writer answers, rejects a record that is too large, or fails, and
\* then the record may be in the file or not.
Persist(o) ==
    /\ worker[o].pc = "append"
    /\ LET job == worker[o].job
           longer == Append(log, Record({o}, Origin(job.kind)))
       IN \/ /\ ~aofFailed
             /\ log' = longer
             /\ worker' = [worker EXCEPT ![o].pc = "apply", ![o].job.position = Len(longer)]
             /\ UNCHANGED <<aofFailed, coordinated, channels, cl, tokens>>
          \/ /\ ~aofFailed
             /\ worker' = [worker EXCEPT ![o] = [pc |-> "select", job |-> NoJob]]
             /\ IF job.client = NoClient THEN UNCHANGED <<cl, tokens>> ELSE Idle(job.client)
             /\ UNCHANGED <<log, aofFailed, coordinated, channels>>
          \/ /\ aofFailed' = TRUE
             /\ log' \in IF aofFailed THEN {log} ELSE {log, longer}
             /\ Die(o, "stopped")
             /\ UNCHANGED <<cl, tokens>>
    /\ UNCHANGED <<shutdown, admission, store, task, seen>>

\* apply_prepared after the writer's answer, the assertion of Store::apply included,
\* and the reply, with which the read guard is released.
ApplyPersisted(o) ==
    /\ worker[o].pc = "apply"
    /\ LET job == worker[o].job
       IN IF job.generation # generation[o]
          THEN Die(o, "panicked") /\ UNCHANGED <<store, clients>>
          ELSE /\ ApplyChange(o, job.position)
               /\ worker' = [worker EXCEPT ![o] = [pc |-> "select", job |-> NoJob]]
               /\ IF job.client = NoClient
                  THEN tokens' = Invalidate(o) /\ UNCHANGED <<cl, seen>>
                  ELSE Answer(job.client, o, Invalidate(o), generation[o] + 1)
               /\ UNCHANGED <<coordinated, channels>>
    /\ UNCHANGED <<log, switches, task>>

\* The queue is drained: synchronise and stop.
StopWorker(o) ==
    /\ worker[o].pc = "select" /\ o \in closed /\ requests[o] = <<>>
    /\ Die(o, "stopped")
    /\ UNCHANGED <<log, switches, store, task, clients>>

(***************************************************************************)
(* The coordinator: execute_coordinated and watch_coordinated take the     *)
(* write guard; run and run_watch then go through phases, in each of which *)
(* one control is sent to every owner concerned, in ascending order.       *)
(***************************************************************************)

\* No read guard is held.
NoReaders ==
    /\ \A o \in Owner : requests[o] = <<>> /\ worker[o].job = NoJob
    /\ \A c \in Client : cl[c].pc # "reserve"

Enter(t, phase) ==
    [t EXCEPT !.phase = phase, !.asked = FALSE,
              !.todo = CASE phase = "probe" -> Owner
                         [] phase = "clock" -> {FirstOwner(t.owners)}
                         [] phase \in {"candidate", "accept"} -> t.plan[t.step]
                         [] OTHER -> t.owners]

\* Publication::complete, before the guard is released.
Complete(t, result) ==
    [t EXCEPT !.phase = "drop", !.asked = FALSE, !.publication = FALSE, !.result = result]

\* Mutant: a failed preparation does not clean up the owners.
FailedWithoutAbort(t) ==
    IF t.phase \in {"begin", "candidate", "accept", "seal"}
    THEN Complete(t, "error")
    ELSE [t EXCEPT !.phase = "drop", !.asked = FALSE, !.result = "error"]

\* Mutant: what fails is tried again.
FailedRetries(t) == [t EXCEPT !.asked = FALSE]

\* An error reply or a timeout.  A failed preparation is undone at every participant;
\* any other error returns, with the publication as it is.
Failed(t) ==
    IF t.phase \in {"begin", "candidate", "accept", "seal"}
    THEN [Enter(t, "abort") EXCEPT !.result = "error"]
    ELSE [t EXCEPT !.phase = "drop", !.asked = FALSE, !.result = "error"]

NextCommand(t) ==
    IF t.step = Len(t.plan) THEN Enter(t, "seal")
    ELSE Enter([t EXCEPT !.step = @ + 1, !.candidates = [o \in Owner |-> "none"]], "candidate")

\* One error rejects every candidate of a command over several owners.
RejectJoint(t) ==
    Cardinality(t.plan[t.step]) > 1 /\ \E o \in t.plan[t.step] : t.candidates[o] = "error"

Mutating(t) == {o \in t.owners : t.prepared[o].mutates}

\* All owners are prepared: one record, unless there is nothing to write.
Application(t) == Enter(t, IF t.kind = "exec" THEN "apply" ELSE "applywatch")
Decide(t) ==
    IF Mutating(t) # {} THEN [Enter(t, "append") EXCEPT !.publication = TRUE]
    ELSE Application(t)

\* Every owner of the phase has answered.
NextPhase(t) ==
    CASE t.phase = "probe" -> Enter(t, "clock")
      [] t.phase = "clock" -> Enter(t, "check")
      [] t.phase = "check" -> [Enter(t, "begin") EXCEPT !.publication = TRUE]
      [] t.phase = "begin" -> NextCommand(t)
      [] t.phase = "candidate" -> IF RejectJoint(t) THEN NextCommand(t) ELSE Enter(t, "accept")
      [] t.phase = "accept" -> NextCommand(t)
      [] t.phase \in {"seal", "prepare"} -> Decide(t)
      [] t.phase \in {"apply", "applywatch"} -> Complete(t, "ok")
      [] t.phase = "abort" -> Complete(t, "error")

Answered(t, o) ==
    IF t.todo = {o} THEN NextPhase(t) ELSE [t EXCEPT !.todo = @ \ {o}, !.asked = FALSE]

AcquireGuard == task.kind = "none" /\ NoReaders

\* The write guard, and then the admission and the shutdown once more.
AcquireExclusive(c) ==
    /\ cl[c].pc = "acquire"
    /\ AcquireGuard
    /\ IF admission /\ ~shutdown
       THEN /\ cl' = [cl EXCEPT ![c].pc = "task"]
            /\ task' = Enter([NoTask EXCEPT !.kind = cl[c].kind, !.client = c,
                                            !.plan = cl[c].plan, !.owners = Participants(c)],
                             IF cl[c].kind = "exec" THEN "probe" ELSE "prepare")
            /\ UNCHANGED tokens
       ELSE Idle(c) /\ UNCHANGED task
    /\ UNCHANGED <<log, switches, store, coordinated, channels, worker, seen>>

Asking ==
    /\ task.kind \in {"exec", "watch"}
    /\ task.phase \notin {"append", "drop", "release"}

\* control: the first half, which waits for room in the owner's channel.
SendControl ==
    /\ Asking /\ ~task.asked
    /\ LET o == FirstOwner(task.todo)
       IN /\ ctl[o] = NoControl /\ worker[o].pc \notin Dead
          /\ ctl' = [ctl EXCEPT ![o] = Control(task, o)]
    /\ task' = [task EXCEPT !.asked = TRUE]
    /\ UNCHANGED <<log, switches, store, coordinated, requests, closed, worker, clients>>

\* control: the deadline passes, or the owner is gone.  What was sent stays sent.
ControlFailed ==
    /\ Asking
    /\ LET o == FirstOwner(task.todo)
       IN ctl' = IF ctl[o] = NoControl THEN ctl ELSE [ctl EXCEPT ![o].wanted = FALSE]
    /\ task' = Failed(task)
    /\ UNCHANGED <<log, switches, store, coordinated, requests, closed, worker, clients>>

\* aof.append of the decision: the writer takes it, rejects it for its size, or fails,
\* and then the record may be in the file or not.
AppendDecision ==
    /\ task.phase = "append"
    /\ LET longer == Append(log, Record(Mutating(task), Origin(task.kind)))
       IN \/ /\ ~aofFailed
             /\ log' = longer
             /\ task' = Application([task EXCEPT !.position = Len(longer)])
             /\ UNCHANGED aofFailed
          \/ /\ ~aofFailed
             /\ task' = Complete(task, "limit")
             /\ UNCHANGED <<log, aofFailed>>
          \/ /\ aofFailed' = TRUE
             /\ log' \in IF aofFailed THEN {log} ELSE {log, longer}
             /\ task' = Failed(task)
    /\ UNCHANGED <<shutdown, admission, store, coordinated, channels, worker, clients>>

\* Publication::drop, while the write guard is still held.
DropPublication ==
    /\ task.phase = "drop"
    /\ admission' = (admission /\ ~task.publication)
    /\ task' = [task EXCEPT !.phase = "release"]
    /\ UNCHANGED <<log, aofFailed, shutdown, store, coordinated, channels, worker, clients>>

\* The write guard is released, and the connection has its answer.  The tokens of
\* EXEC are consumed; a WATCH that failed, or that nobody waits for, leaves none.
Release ==
    /\ task.phase = "release"
    /\ task' = NoTask
    /\ LET c == task.client
           lost == CASE task.kind = "exec" -> Owner
                     [] task.kind = "watch" /\ (task.result # "ok" \/ cl[c].gone) -> task.acquired
                     [] OTHER -> {}
       IN IF task.kind = "freeze" THEN UNCHANGED <<cl, tokens>>
          ELSE /\ cl' = [cl EXCEPT ![c].pc = "idle", ![c].gone = FALSE]
               /\ tokens' = [tokens EXCEPT ![c] =
                               [o \in Owner |-> IF o \in lost THEN "none" ELSE @[o]]]
    /\ UNCHANGED <<log, switches, store, coordinated, channels, worker, seen>>

(***************************************************************************)
(* coordination_control: what an owner does with a control.  An answer     *)
(* that nobody waits for any more is dropped; its effects are not.         *)
(***************************************************************************)

Receives(o, phase) == Selecting(o) /\ ctl[o].phase = phase

Replied(o, t) ==
    /\ ctl' = [ctl EXCEPT ![o] = NoControl]
    /\ task' = IF ctl[o].wanted THEN t ELSE task

Probe(o) ==
    /\ Receives(o, "probe")
    /\ Replied(o, IF coordinated[o].open THEN Failed(task) ELSE Answered(task, o))
    /\ UNCHANGED <<log, switches, store, coordinated, requests, closed, worker, clients>>

\* One instant for the whole transaction: the keys due at it are due for all of it.
Clock(o) ==
    /\ Receives(o, "clock")
    /\ Replied(o, Answered([task EXCEPT !.time = due], o))
    /\ UNCHANGED <<log, switches, store, coordinated, requests, closed, worker, clients>>

CheckWatches(o) ==
    /\ Receives(o, "check")
    /\ LET token == tokens[ctl[o].client][o]
           valid == token = "none" \/ (token = "live" /\ o \notin ctl[o].time)
       IN Replied(o, IF valid THEN Answered(task, o) ELSE Complete(task, "null"))
    /\ UNCHANGED <<log, switches, store, coordinated, requests, closed, worker, clients>>

Begin(o) ==
    /\ Receives(o, "begin")
    /\ IF coordinated[o].open
       THEN Replied(o, Failed(task)) /\ UNCHANGED coordinated
       ELSE /\ Replied(o, Answered(task, o))
            /\ coordinated' = [coordinated EXCEPT ![o] = [NoTransaction EXCEPT !.open = TRUE]]
    /\ UNCHANGED <<log, switches, store, requests, closed, worker, clients>>

\* prepare_candidate against the shadow: it changes nothing, and it may be an error.
Candidate(o) ==
    /\ Receives(o, "candidate")
    /\ \E outcome \in {"ok", "error"} :
         Replied(o, IF coordinated[o].open
                    THEN Answered([task EXCEPT !.candidates[o] = outcome], o) ELSE Failed(task))
    /\ UNCHANGED <<log, switches, store, coordinated, requests, closed, worker, clients>>

\* accept_candidate: the shadow changes, and a key that is due is removed from it.
Accept(o) ==
    /\ Receives(o, "accept")
    /\ LET ok == ctl[o].candidate = "ok"
       IN IF coordinated[o].open
          THEN /\ Replied(o, Answered(task, o))
               /\ coordinated' = [coordinated EXCEPT
                      ![o].mutates = @ \/ ok \/ o \in ctl[o].time,
                      ![o].effects = @ \cup IF ok THEN {ctl[o].step} ELSE {}]
          ELSE Replied(o, Failed(task)) /\ UNCHANGED coordinated
    /\ UNCHANGED <<log, switches, store, requests, closed, worker, clients>>

Seal(o) ==
    /\ Receives(o, "seal")
    /\ LET sealed == [generation |-> generation[o], mutates |-> coordinated[o].mutates,
                      effects |-> coordinated[o].effects]
       IN Replied(o, IF coordinated[o].open
                     THEN Answered([task EXCEPT !.prepared[o] = sealed], o) ELSE Failed(task))
    /\ coordinated' = [coordinated EXCEPT ![o] = NoTransaction]
    /\ UNCHANGED <<log, switches, store, requests, closed, worker, clients>>

Abort(o) ==
    /\ Receives(o, "abort")
    /\ Replied(o, Answered(task, o))
    /\ coordinated' = [coordinated EXCEPT ![o] = NoTransaction]
    /\ UNCHANGED <<log, switches, store, requests, closed, worker, clients>>

PrepareWatch(o) ==
    /\ Receives(o, "prepare")
    /\ LET prepared == [generation |-> generation[o], mutates |-> o \in due, effects |-> {}]
       IN Replied(o, IF coordinated[o].open THEN Failed(task)
                     ELSE Answered([task EXCEPT !.prepared[o] = prepared], o))
    /\ UNCHANGED <<log, switches, store, coordinated, requests, closed, worker, clients>>

\* Store::apply of what a control carries.
ApplyControl(o) ==
    IF ctl[o].prepared.mutates THEN ApplyChange(o, ctl[o].position) ELSE UNCHANGED store
TokensAfter(o) == IF ctl[o].prepared.mutates THEN Invalidate(o) ELSE tokens

\* The assertion of Store::apply fails: the worker is gone, and so is the control.
StaleControl(o) ==
    /\ Receives(o, "apply") \/ Receives(o, "applywatch")
    /\ ~coordinated[o].open /\ ctl[o].prepared.generation # generation[o]
    /\ Die(o, "panicked")
    /\ UNCHANGED <<log, switches, store, task, clients>>

Apply(o) ==
    /\ Receives(o, "apply")
    /\ IF coordinated[o].open
       THEN Replied(o, Failed(task)) /\ UNCHANGED <<store, tokens>>
       ELSE /\ ctl[o].prepared.generation = generation[o]
            /\ Replied(o, Answered(task, o))
            /\ ApplyControl(o)
            /\ tokens' = TokensAfter(o)
    /\ UNCHANGED <<log, switches, coordinated, requests, closed, worker, cl, seen>>

\* The tokens go back with the answer: nobody has them when nobody waits for it.
ApplyWatch(o) ==
    /\ Receives(o, "applywatch")
    /\ LET c == ctl[o].client
       IN IF coordinated[o].open
          THEN Replied(o, Failed(task)) /\ UNCHANGED <<store, tokens, seen>>
          ELSE /\ ctl[o].prepared.generation = generation[o]
               /\ ApplyControl(o)
               /\ Replied(o, Answered([task EXCEPT !.acquired =
                                  @ \cup IF tokens[c][o] = "none" THEN {o} ELSE {}], o))
               /\ IF ctl[o].wanted
                  THEN tokens' = Watching(TokensAfter(o), c, o) /\ seen' = SeenAt(c, o, generation'[o])
                  ELSE tokens' = TokensAfter(o) /\ UNCHANGED seen
    /\ UNCHANGED <<log, switches, coordinated, requests, closed, worker, cl>>

(***************************************************************************)
(* freeze: the cut that snapshot and begin_compaction take                 *)
(***************************************************************************)

FreezeBegin ==
    /\ admission /\ ~shutdown
    /\ AcquireGuard
    /\ task' = [NoTask EXCEPT !.kind = "freeze", !.phase = "capture", !.todo = Owner]
    /\ UNCHANGED <<log, switches, store, coordinated, channels, worker, clients>>

\* Fourth branch of select!: the owner's snapshot.
Snapshot(o) ==
    /\ task.phase = "capture" /\ o \in task.todo
    /\ Selecting(o)
    /\ task' = [task EXCEPT !.image[o] = applied[o], !.todo = @ \ {o},
                            !.phase = IF task.todo = {o} THEN "captured" ELSE @]
    /\ UNCHANGED <<log, switches, store, coordinated, channels, worker, clients>>

\* The writer has the cut (flush or begin_compaction), the total timeout has passed,
\* or an owner is gone: the guard is released.
FreezeEnd ==
    /\ task.phase \in {"capture", "captured"}
    /\ task' = [task EXCEPT !.phase = "release"]
    /\ UNCHANGED <<log, switches, store, coordinated, channels, worker, clients>>

-----------------------------------------------------------------------------

\* A key that a client's record left behind reaches its deadline.
TimePasses(o) ==
    /\ o \notin due /\ applied[o] # {}
    /\ log[CHOOSE i \in applied[o] : \A j \in applied[o] : j <= i].origin = "client"
    /\ due' = due \cup {o}
    /\ UNCHANGED <<log, switches, applied, generation, coordinated, channels, worker, task, clients>>

Shutdown ==
    /\ ~shutdown
    /\ shutdown' = TRUE
    /\ UNCHANGED <<log, aofFailed, admission, store, coordinated, channels, worker, task, clients>>

ClientStep(c) ==
    \/ \E op \in Ops[cl[c].role] : Start(c, op)
    \/ Unwatch(c) \/ ReadAdmission(c) \/ Enqueue(c) \/ ClientTimeout(c) \/ Unavailable(c)
    \/ AcquireExclusive(c)

ControlStep(o) ==
    \/ Probe(o) \/ Clock(o) \/ CheckWatches(o) \/ Begin(o) \/ Candidate(o) \/ Accept(o)
    \/ Seal(o) \/ Abort(o) \/ PrepareWatch(o) \/ Apply(o) \/ ApplyWatch(o) \/ StaleControl(o)

WorkerStep(o) ==
    \/ StopRequests(o) \/ StopOnFailure(o) \/ Serve(o) \/ Persist(o) \/ ApplyPersisted(o)
    \/ StopWorker(o) \/ ControlStep(o)

CoordinatorStep ==
    SendControl \/ ControlFailed \/ AppendDecision \/ DropPublication \/ Release \/ FreezeEnd

Next ==
    \/ \E c \in Client : ClientStep(c)
    \/ \E o \in Owner : WorkerStep(o) \/ Expire(o) \/ Snapshot(o) \/ TimePasses(o)
    \/ CoordinatorStep
    \/ FreezeBegin
    \/ Shutdown

Spec == Init /\ [][Next]_vars

\* Tokio polls a task that is ready, timers fire, and the writer answers.  A tick
\* comes every 100 ms, so it does not keep a worker from its channels for ever.
FairSpec ==
    /\ Spec
    /\ WF_vars(CoordinatorStep)
    /\ \A o \in Owner :
         WF_vars(WorkerStep(o)) /\ SF_vars(Serve(o)) /\ SF_vars(ControlStep(o))
    /\ \A c \in Client : WF_vars(Unavailable(c))

-----------------------------------------------------------------------------

Tasks == {"none", "exec", "watch", "freeze"}
Phases == {"none", "probe", "clock", "check", "begin", "candidate", "accept", "seal", "abort",
           "prepare", "append", "apply", "applywatch", "capture", "captured", "drop", "release"}
Someone == Client \cup {NoClient}
RoleNames == {roles[c] : roles \in Roles, c \in Client}
Outcomes == {"none", "ok", "error"}

LogRecord == [owners : SUBSET Owner, origin : {"client", "expiration"}]
Job == [kind : {"none", "expire", "execute", "exec", "watch"}, client : Someone,
        generation : Nat, position : Nat]
Worker == [pc : {"select", "append", "apply"} \cup Dead, job : Job]
Task ==
    [kind : Tasks, client : Someone, plan : Seq(SUBSET Owner), owners : SUBSET Owner, phase : Phases,
     todo : SUBSET Owner, asked : BOOLEAN, step : Nat, time : SUBSET Owner,
     candidates : [Owner -> Outcomes], prepared : [Owner -> Prepared], publication : BOOLEAN,
     position : Nat, acquired : SUBSET Owner, image : [Owner -> SUBSET Nat],
     result : {"none", "ok", "error", "null", "limit"}]
ControlType ==
    [wanted : BOOLEAN, phase : Phases, client : Someone, step : Nat, time : SUBSET Owner,
     candidate : Outcomes, prepared : Prepared, position : Nat]
Connection ==
    [pc : {"idle", "admit", "reserve", "acquire", "sent", "task"},
     kind : {"none", "execute", "watch", "exec"}, plan : Seq((SUBSET Owner) \ {{}}),
     gone : BOOLEAN, role : RoleNames, ops : Nat]

\* The type invariant.
TypeOK ==
    /\ log \in Seq(LogRecord)
    /\ aofFailed \in BOOLEAN /\ shutdown \in BOOLEAN /\ admission \in BOOLEAN
    /\ applied \in [Owner -> SUBSET Nat] /\ generation \in [Owner -> Nat] /\ due \subseteq Owner
    /\ coordinated \in [Owner -> OwnerTransaction]
    /\ requests \in [Owner -> Seq(Client)] /\ closed \subseteq Owner
    /\ ctl \in [Owner -> ControlType]
    /\ worker \in [Owner -> Worker]
    /\ task \in Task
    /\ cl \in [Client -> Connection]
    /\ tokens \in [Client -> [Owner -> {"none", "live", "changed"}]]
    /\ seen \in [Client -> [Owner -> Nat]]

Alive(o) == worker[o].pc \notin Dead
RecordsOf(o) == {i \in DOMAIN log : o \in log[i].owners}

\* The store has every record of the file that touches it, except one that its
\* own worker is about to apply.
InStep(o) ==
    RecordsOf(o) = applied[o] \cup (IF worker[o].pc = "apply" THEN {worker[o].job.position} ELSE {})

\* A decision over several owners is visible at all of them or at none: whenever a
\* request is queued or served, or could be admitted, every owner that is alive has
\* applied exactly the records of the file that concern it.  The barrier keeps the
\* requests out while run and run_watch apply their record owner by owner, and a
\* publication that is not complete closes the admission before the barrier opens.
AtomicVisibility ==
    \/ \E o \in Owner : requests[o] # <<>> \/ worker[o].job # NoJob
    \/ admission /\ task.kind \in {"none", "freeze"}
    => \A o \in Owner : Alive(o) => InStep(o)

\* A coordinator leaves nothing behind: when the barrier is free and the admission
\* open, no owner has a tentative transaction, and no control that would open,
\* extend or apply one is still in a channel, however run ended.
NoLeftoverTransaction ==
    admission /\ task.kind = "none" =>
        \A o \in Owner :
            /\ ~coordinated[o].open
            /\ ctl[o].phase \notin {"begin", "candidate", "accept", "seal", "apply", "abort"}

\* EXEC takes effect only if no watched key has changed since WATCH: from the moment
\* its watches are accepted until its record is decided, every watched key is at the
\* generation it had when its token was taken, whether one owner does it (Batch) or
\* the coordinator.
WatchIsolation ==
    /\ task.kind = "exec" /\ task.phase \in {"begin", "candidate", "accept", "seal", "append"} =>
         \A o \in Watched(task.client) : generation[o] = seen[task.client][o]
    /\ \A o \in Owner :
         worker[o].job.kind = "exec" =>
             LET c == worker[o].job.client
             IN \A p \in Watched(c) : generation[p] = seen[c][p]

\* A command over several owners (MSET, DEL, ...) in a transaction is in the decision
\* of all its owners or of none: prepare accepts its candidates together.
JointCommandIsAtomic ==
    task.kind = "exec" /\ task.phase \in {"append", "apply"} =>
        \A i \in DOMAIN task.plan : \A o, p \in task.plan[i] :
            i \in task.prepared[o].effects <=> i \in task.prepared[p].effects

\* What several owners decide together is whole: in the decision itself, and in what
\* any request can see of it (coordinator::run, prepare, run_watch).
DecisionIsAtomic == AtomicVisibility /\ JointCommandIsAtomic

\* The images that freeze collects from the owners one after the other are one cut:
\* exactly the records that are in the file when the writer gets them.
SnapshotIsCut ==
    task.phase = "captured" => \A o \in Owner : task.image[o] = RecordsOf(o)

\* Whoever holds the write guard releases it: run, run_watch and freeze end whatever
\* the owners, the writer and the connection do.
ExclusionEnds == task.kind # "none" ~> task.kind = "none"

\* A request that an owner accepted is answered, or fails with the owner.
RequestsAreAnswered == \A c \in Client : cl[c].pc = "sent" ~> cl[c].pc = "idle"

\* After shutdown every owner drains its queue and stops.
ShutdownDrains == shutdown ~> \A o \in Owner : ~Alive(o) /\ requests[o] = <<>>

\* The owners make progress: requests are answered, and shutdown drains the queues.
OwnersProgress == RequestsAreAnswered /\ ShutdownDrains

\* "Applies without reevaluating conditions, quota, or clock. The owner does not
\* interleave preparations." (Store::apply): no preparation is applied to a store
\* that has changed since, so the assertion on the generation never fails.
NoStalePreparation == \A o \in Owner : worker[o].pc # "panicked"
=============================================================================
