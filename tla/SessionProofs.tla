---------------------------- MODULE SessionProofs ----------------------------
(***************************************************************************)
(* What Internal promises, for every scenario: the generation in force is  *)
(* one release of the operator, whatever the database has accepted was     *)
(* admitted by it, what is open conforms to it, and EXEC runs what was     *)
(* queued.                                                                 *)
(*                                                                         *)
(* SecurityInv holds the argument together.  While an activation awaits    *)
(* its acknowledgements nobody has a lease (Quiet), so nothing is          *)
(* admitted; a session that has acknowledged, and every open link, already *)
(* fits the replacement, and the others are awaited (Conforming).  Outside *)
(* an activation all of them fit the generation in force.                  *)
(***************************************************************************)
EXTENDS Internal, TLAPS

\* Zenon tries every leaf; the leaves with arithmetic or sequences name SMT.
USE ZenonT(30)

---------------------------------------------------------------------------
\* The shapes of what the connections hold

\* Every command a client may send.
Said ==
    LET requests == UNION {UNION {Scenarios[name].clients[c].requests : c \in DOMAIN Scenarios[name].clients} :
                             name \in DOMAIN Scenarios}
    IN  {request.command : request \in {r \in requests : r.kind = "command"}}

AtMostOne(S) == \A x, y \in S : x = y

IsQueue(q) ==
    DOMAIN q = {"commands", "bytes", "shard", "crossed", "dirty", "denied", "promised"}

\* A queue that EXEC would run holds what was promised.
Kept(q) ==
    /\ IsQueue(q)
    /\ q.commands \in Seq(Said) /\ q.promised \in Seq(Said)
    /\ ~q.dirty /\ ~q.denied => q.commands = q.promised

IsTransaction(tx) ==
    /\ DOMAIN tx = {"queue", "watched", "shard", "crossed"}
    /\ AtMostOne(tx.queue)
    /\ \A q \in tx.queue : Kept(q)

IsSession(n) ==
    DOMAIN n = {"pc", "digest", "identity", "ever", "failures", "protocol", "tx", "subs", "task"}

\* What a transaction holds is granted to a user.
Granted(tx, users, user) ==
    /\ \A q \in tx.queue : \A i \in DOMAIN q.commands : Authorize(users, user, q.commands[i])
    /\ tx.watched # {} => Authorize(users, user, WatchOf(tx.watched))

\* What the database is asked to do: EXEC what was promised, WATCH what was granted.
TaskGranted(task, users, user) ==
    /\ task.commands \in Seq(Said)
    /\ \A i \in DOMAIN task.commands : Authorize(users, user, task.commands[i])
    /\ task.kind = "exec" => task.commands = task.promised
    /\ task.kind = "watch" => Authorize(users, user, WatchOf(task.keys))

\* What AUTH is verifying.
IsVerification(task) ==
    /\ DOMAIN task = {"version", "user", "password", "proof"}
    /\ AtMostOne(task.proof)

\* A session without an identity has no transaction and no channel.
Whole(n) ==
    /\ IsSession(n) /\ IsTransaction(n.tx) /\ AtMostOne(n.identity)
    /\ n.identity = {} => n.tx = NewTransaction /\ n.subs = {}

Sound(n) ==
    /\ Whole(n)
    /\ n.pc = "closed" => n.identity = {}
    /\ n.pc \in {"queue", "verify"} => \A task \in n.task : IsVerification(task)
    /\ n.pc = "submit" => n.identity # {} /\ AtMostOne(n.task) /\ n.task # {}

\* Everything a session holds is granted to its identity, which is still present.
Holds(n, proof, users) ==
    /\ Present(users, proof) /\ Granted(n.tx, users, proof.user)
    /\ \A channel \in n.subs : Authorize(users, proof.user, SubscribeTo(channel))

Bears(n, users) == \A proof \in n.identity : Holds(n, proof, users)

Conforms(n, client) ==
    /\ n.pc # "closed" => n.digest = client.transport.digest
    /\ Bears(n, client.users)
    /\ n.pc = "submit" =>
          \A task \in n.task : \A proof \in n.identity : TaskGranted(task, client.users, proof.user)

PeerFits(peer, lane) ==
    /\ peer.own = lane.own
    /\ peer.certificate.issuer \in lane.issuers
    /\ peer.certificate.serial \notin lane.revoked
    /\ IF peer.inbound THEN peer.roles \subseteq RolesOf(lane.policy, peer.certificate.uri)
       ELSE UpstreamIdentity(lane.policy, peer.certificate.uri)

IsLink(link) ==
    /\ DOMAIN link = {"pc", "open", "peer", "request", "steps", "frame", "written"}
    /\ link.open => link.pc \notin {"closed", "handshake"}

---------------------------------------------------------------------------
\* The invariant

\* What a replacement that is sent out has been checked for.
Succeeds(replacement) ==
    replacement.number > active.number /\ (replacement.internal = {}) = (active.internal = {})

\* Files, manifests and generations are those of the releases.
Authentic ==
    /\ chosen \in DOMAIN Scenarios
    /\ directory \in [{"manifest"} \union Files -> DOMAIN Releases]
    /\ loader.pc \in {"waiting", "client", "internal", "manifest", "lock", "acks"}
    /\ loader.pc \in {"client", "internal", "manifest"} =>
          \E i \in DOMAIN Releases : loader.before = Manifest(i)
    /\ loader.pc \in {"lock", "acks"} =>
          DOMAIN loader = {"pc", "replacement"} /\ \E i \in DOMAIN Releases : loader.replacement = Release(i)
    /\ loader.pc = "acks" => Succeeds(loader.replacement)
    /\ \E i \in DOMAIN Releases : active = Release(i)

\* Nobody holds a lease while acknowledgements are awaited, and nothing is awaited otherwise.
Quiet ==
    /\ loader.pc = "acks" => ~Leased
    /\ loader.pc # "acks" => awaiting = {}
    /\ updates \subseteq awaiting

\* The generation the open connections conform to.
Generation == IF loader.pc = "acks" THEN loader.replacement ELSE active

Conforming ==
    /\ DOMAIN conn = Clients /\ \A c \in Clients : Sound(conn[c])
    /\ \A c \in Clients \ awaiting : Conforms(conn[c], Generation.client)
    /\ DOMAIN links = Links /\ \A l \in Links : IsLink(links[l])
    /\ \A l \in Links : links[l].open => PeerFits(The(links[l].peer), The(Generation.internal))

\* What the database has accepted.
IsOrder(order) ==
    /\ DOMAIN order = {"client", "proof", "number", "at", "waited", "task"}
    /\ order.client \in Clients /\ order.number = active.number
    /\ Valid(Users, order.proof, order.at)
    /\ TaskGranted(order.task, Users, order.proof.user)
    /\ order.waited => conn[order.client].pc = "await" /\ conn[order.client].identity = {order.proof}

IsWork(w) ==
    /\ DOMAIN w = {"link", "op", "number", "peer", "request", "at", "waited"}
    /\ w.number = active.number /\ Current(w.peer.validity, w.at)
    /\ w.peer.inbound => \E type \in w.request :
          AuthorizeInternalRequest(Lane.policy, w.peer.certificate.uri, type)

Standing ==
    /\ \A order \in orders : IsOrder(order)
    /\ \A o1, o2 \in orders : o1.waited /\ o2.waited /\ o1.client = o2.client => o1 = o2
    /\ \A w \in work : IsWork(w)

SecurityInv == Authentic /\ Quiet /\ Conforming /\ Standing

---------------------------------------------------------------------------
\* What the operations on one session do

LEMMA FreshTransaction == IsTransaction(NewTransaction)
BY DEF IsTransaction, NewTransaction, AtMostOne

LEMMA FreshSession ==
    ASSUME NEW client
    PROVE  Sound(Disconnected) /\ Conforms(Disconnected, client)
<1>1. Disconnected.pc = "closed" /\ Disconnected.identity = {} /\ Disconnected.tx = NewTransaction
      /\ Disconnected.subs = {} /\ IsSession(Disconnected)
  BY DEF Disconnected, IsSession
<1> QED
  BY <1>1, FreshTransaction DEF Sound, Whole, Conforms, Bears, AtMostOne

\* The loop starts over: nothing but the step of the connection changes.
LEMMA ContinueFields ==
    ASSUME NEW n, IsSession(n)
    PROVE  /\ IsSession(Continue(n)) /\ Continue(n).pc = "top" /\ Continue(n).digest = n.digest
           /\ Continue(n).identity = n.identity /\ Continue(n).tx = n.tx /\ Continue(n).subs = n.subs
BY DEF Continue, IsSession

LEMMA ContinueConforms ==
    ASSUME NEW n, Whole(n)
    PROVE  /\ Sound(Continue(n))
           /\ \A client : n.digest = client.transport.digest /\ Bears(n, client.users) =>
                 Conforms(Continue(n), client)
<1>1. IsSession(n)
  BY DEF Whole
<1> QED
  BY <1>1, ContinueFields DEF Sound, Whole, Conforms, Bears, Holds

\* A connection that leaves keeps only its digest.
LEMMA LeaveConforms ==
    ASSUME NEW n
    PROVE  /\ Sound(Leave(n)) /\ Leave(n).pc = "closing" /\ Leave(n).identity = {}
           /\ \A client : n.digest = client.transport.digest => Conforms(Leave(n), client)
<1>1. /\ Leave(n).pc = "closing" /\ Leave(n).digest = n.digest /\ Leave(n).identity = {}
      /\ Leave(n).tx = NewTransaction /\ Leave(n).subs = {} /\ IsSession(Leave(n))
  BY DEF Leave, Disconnected, IsSession
<1> QED
  BY <1>1, FreshTransaction DEF Sound, Whole, Conforms, Bears, AtMostOne

LEMMA ResetWhole ==
    ASSUME NEW n, Whole(n)
    PROVE  /\ Whole(Reset(n)) /\ Reset(n).digest = n.digest /\ Reset(n).pc = n.pc
           /\ Reset(n).identity = {}
           /\ \A users : Bears(Reset(n), users)
<1>1. /\ IsSession(Reset(n)) /\ Reset(n).digest = n.digest /\ Reset(n).pc = n.pc /\ Reset(n).identity = {}
      /\ Reset(n).tx = NewTransaction /\ Reset(n).subs = {}
  BY DEF Whole, IsSession, Reset
<1> QED
  BY <1>1, FreshTransaction DEF Whole, Bears, AtMostOne

\* Identity and digest stay; only what has no part in the policy changes.
LEMMA FailedWhole ==
    ASSUME NEW n, Whole(n)
    PROVE  Whole(Failed(n)) /\ Failed(n).digest = n.digest /\ \A users : Bears(n, users) => Bears(Failed(n), users)
<1>1. /\ IsSession(Failed(n)) /\ Failed(n).digest = n.digest /\ Failed(n).identity = n.identity
      /\ Failed(n).tx = n.tx /\ Failed(n).subs = n.subs
  BY DEF Whole, IsSession, Failed
<1> QED
  BY <1>1 DEF Whole, Bears, Holds

LEMMA ChosenWhole ==
    ASSUME NEW n, Whole(n), NEW version
    PROVE  /\ Whole(Chosen(n, version)) /\ Chosen(n, version).digest = n.digest
           /\ \A users : Bears(n, users) => Bears(Chosen(n, version), users)
<1>1. /\ IsSession(Chosen(n, version)) /\ Chosen(n, version).digest = n.digest
      /\ Chosen(n, version).identity = n.identity
      /\ Chosen(n, version).tx = n.tx /\ Chosen(n, version).subs = n.subs
  BY DEF Whole, IsSession, Chosen
<1> QED
  BY <1>1 DEF Whole, Bears, Holds

\* Another transaction takes the place of the session's.
LEMMA ReplacedTransaction ==
    ASSUME NEW n, Whole(n), NEW tx, IsTransaction(tx), n.identity = {} => tx = NewTransaction
    PROVE  /\ Whole([n EXCEPT !.tx = tx]) /\ [n EXCEPT !.tx = tx].digest = n.digest
           /\ [n EXCEPT !.tx = tx].pc = n.pc /\ [n EXCEPT !.tx = tx].identity = n.identity
           /\ [n EXCEPT !.tx = tx].tx = tx /\ [n EXCEPT !.tx = tx].subs = n.subs
BY DEF Whole, IsSession

---------------------------------------------------------------------------
\* What the operations on a transaction keep

LEMMA EmptyQueue == <<>> \in Seq(Said) /\ DOMAIN <<>> = {}
BY SMTT(30)

LEMMA PoisonQueueKept ==
    ASSUME NEW q, Kept(q)
    PROVE  Kept(PoisonQueue(q)) /\ PoisonQueue(q).commands = <<>>
<1>1. /\ IsQueue(PoisonQueue(q)) /\ PoisonQueue(q).commands = <<>> /\ PoisonQueue(q).dirty
      /\ PoisonQueue(q).promised = q.promised
  BY DEF Kept, IsQueue, PoisonQueue
<1> QED
  BY <1>1, EmptyQueue DEF Kept

\* Another queue takes the place of a transaction's.
LEMMA ReplacedQueue ==
    ASSUME NEW tx, IsTransaction(tx), NEW Q, AtMostOne(Q), \A q \in Q : Kept(q)
    PROVE  /\ IsTransaction([tx EXCEPT !.queue = Q])
           /\ [tx EXCEPT !.queue = Q].watched = tx.watched /\ [tx EXCEPT !.queue = Q].queue = Q
BY DEF IsTransaction

LEMMA PoisonTransaction ==
    ASSUME NEW tx, IsTransaction(tx)
    PROVE  /\ IsTransaction(Poison(tx))
           /\ tx = NewTransaction => Poison(tx) = NewTransaction
           /\ \A users, user : Granted(tx, users, user) => Granted(Poison(tx), users, user)
<1>1. \A q \in tx.queue : Kept(PoisonQueue(q)) /\ PoisonQueue(q).commands = <<>>
  BY PoisonQueueKept DEF IsTransaction
<1> DEFINE Q == {PoisonQueue(q) : q \in tx.queue}
<1>a. AtMostOne(Q) /\ \A q \in Q : Kept(q)
  BY <1>1 DEF IsTransaction, AtMostOne
<1> DEFINE poisoned == [tx EXCEPT !.queue = Q]
<1>b. IsTransaction(poisoned) /\ poisoned.watched = tx.watched /\ poisoned.queue = Q
  <2> HIDE DEF Q
  <2> QED
    BY <1>a, ReplacedQueue
<1>2. IsTransaction(Poison(tx)) /\ Poison(tx).watched = tx.watched /\ Poison(tx).queue = Q
  BY <1>b DEF Poison
<1>3. ASSUME tx = NewTransaction PROVE Poison(tx) = NewTransaction
  BY <1>3, SMTT(30) DEF Poison, NewTransaction
<1> QED
  BY <1>1, <1>2, <1>3, EmptyQueue DEF Granted

LEMMA UnwatchedTransaction ==
    ASSUME NEW tx, IsTransaction(tx)
    PROVE  /\ IsTransaction(Unwatched(tx)) /\ Unwatched(tx).queue = tx.queue /\ Unwatched(tx).watched = {}
           /\ \A users, user : Granted(tx, users, user) => Granted(Unwatched(tx), users, user)
<1>1. /\ DOMAIN Unwatched(tx) = DOMAIN tx /\ Unwatched(tx).queue = tx.queue /\ Unwatched(tx).watched = {}
  BY DEF IsTransaction, Unwatched
<1> QED
  BY <1>1 DEF IsTransaction, Granted

\* Revalidate leaves what the new policy grants, whatever there was.
LEMMA RevalidateGrants ==
    ASSUME NEW tx, IsTransaction(tx), NEW users, NEW user
    PROVE  IsTransaction(Revalidate(tx, users, user)) /\ Granted(Revalidate(tx, users, user), users, user)
<1> DEFINE F(q) == RevalidateQueue(q, users, user)
<1> DEFINE Q == {F(q) : q \in tx.queue}
<1> DEFINE kept == [tx EXCEPT !.queue = Q]
<1>1. ASSUME NEW q \in tx.queue
      PROVE  Kept(F(q)) /\ \A i \in DOMAIN F(q).commands : Authorize(users, user, F(q).commands[i])
  <2>1. CASE \E i \in DOMAIN q.commands : ~Authorize(users, user, q.commands[i])
    <3>1. F(q) = [q EXCEPT !.commands = <<>>, !.bytes = 0, !.denied = TRUE]
      BY <2>1 DEF RevalidateQueue
    <3>2. Kept(q)
      BY DEF IsTransaction
    <3>3. IsQueue(F(q)) /\ F(q).commands = <<>> /\ F(q).denied /\ F(q).promised = q.promised
      BY <3>1, <3>2 DEF Kept, IsQueue
    <3> QED
      BY <3>2, <3>3, EmptyQueue DEF Kept
  <2>2. CASE ~ \E i \in DOMAIN q.commands : ~Authorize(users, user, q.commands[i])
    BY <2>2 DEF RevalidateQueue, IsTransaction
  <2> QED
    BY <2>1, <2>2
<1>a. AtMostOne(Q) /\ \A q \in Q : Kept(q)
  <2> HIDE DEF F
  <2> QED
    BY <1>1 DEF IsTransaction, AtMostOne
<1>2. IsTransaction(kept) /\ kept.watched = tx.watched /\ kept.queue = Q
  <2> HIDE DEF Q
  <2> QED
    BY <1>a, ReplacedQueue
<1>3. \A q \in kept.queue : \A i \in DOMAIN q.commands : Authorize(users, user, q.commands[i])
  BY <1>1, <1>2
<1>4. Revalidate(tx, users, user) =
        IF tx.watched # {} /\ ~Authorize(users, user, WatchOf(tx.watched)) THEN Unwatched(kept) ELSE kept
  BY DEF Revalidate
<1> HIDE DEF kept
<1> QED
  BY <1>2, <1>3, <1>4, UnwatchedTransaction DEF Granted

\* A queue takes a command, drops it or is poisoned.
LEMMA EnqueueKept ==
    ASSUME NEW q, Kept(q), NEW command \in Said, NEW limits, limits.commands \in Nat
    PROVE  /\ Kept(Enqueue(q, command, limits))
           /\ \A i \in DOMAIN Enqueue(q, command, limits).commands :
                 \/ Enqueue(q, command, limits).commands[i] = command
                 \/ \E j \in DOMAIN q.commands : Enqueue(q, command, limits).commands[i] = q.commands[j]
<1>1. PICK selected : Enqueue(q, command, limits) = EnqueueSelected(q, command, limits, selected)
  BY DEF Enqueue
<1> DEFINE after == EnqueueSelected(q, command, limits, selected)
<1>2. q.commands \in Seq(Said) /\ q.promised \in Seq(Said) /\ IsQueue(q)
  BY DEF Kept
<1>3. Promise(q, command, limits) \in Seq(Said)
  BY <1>2, SMTT(30) DEF Promise
<1>4. CASE q.dirty \/ q.denied
  <2>1. after = [q EXCEPT !.promised = Promise(q, command, limits)]
    BY <1>4 DEF EnqueueSelected
  <2>2. /\ IsQueue(after) /\ after.commands = q.commands /\ after.promised = Promise(q, command, limits)
        /\ after.dirty = q.dirty /\ after.denied = q.denied
    BY <2>1, <1>2 DEF IsQueue
  <2> HIDE DEF after
  <2> QED
    BY <1>1, <1>2, <1>3, <1>4, <2>2 DEF Kept, after
<1>5. CASE ~(q.dirty \/ q.denied) /\ after = PoisonQueue(q)
  BY <1>1, <1>5, PoisonQueueKept, EmptyQueue
<1>6. CASE /\ ~(q.dirty \/ q.denied) /\ ~Full(q, command, limits)
           /\ after = Queued(q, command, q.crossed \/ selected.crossing, selected.shard,
                             Promise(q, command, limits))
  <2>1. Promise(q, command, limits) = Append(q.promised, command)
    BY <1>6, <1>2, SMTT(30) DEF Promise, Full, Kept
  <2>2. /\ IsQueue(after) /\ after.commands = Append(q.commands, command)
        /\ after.promised = Append(q.promised, command)
        /\ after.dirty = q.dirty /\ after.denied = q.denied
    BY <1>6, <2>1, <1>2 DEF IsQueue, Queued
  <2>3. /\ Append(q.commands, command) \in Seq(Said)
        /\ \A i \in DOMAIN Append(q.commands, command) :
              \/ Append(q.commands, command)[i] = command
              \/ i \in DOMAIN q.commands /\ Append(q.commands, command)[i] = q.commands[i]
    BY <1>2, SMTT(30)
  <2> HIDE DEF after
  <2>4. Kept(after)
    BY <1>6, <2>2, <2>3 DEF Kept
  <2> QED
    BY <1>1, <2>2, <2>3, <2>4 DEF after
<1> QED
  BY <1>4, <1>5, <1>6 DEF EnqueueSelected

---------------------------------------------------------------------------
\* What one command does under a lease

\* Transaction::handle answers with a transaction that is still granted, and hands
\* over commands that were promised and keys that may be watched.
Proper(handled, command, users, user) ==
    /\ IsTransaction(handled.tx) /\ Granted(handled.tx, users, user)
    /\ handled.action \in {"Reply", "Exec", "Watch", "Execute"}
    /\ handled.action = "Exec" => handled.commands \in Seq(Said) /\ handled.commands = handled.promised
    /\ handled.action = "Watch" => Authorize(users, user, WatchOf(handled.keys))

LEMMA FreshGranted ==
    ASSUME NEW users, NEW user
    PROVE  Granted(NewTransaction, users, user)
BY DEF Granted, NewTransaction

LEMMA ReplyProper ==
    ASSUME NEW tx, IsTransaction(tx), NEW command, NEW users, NEW user, Granted(tx, users, user)
    PROVE  Proper(Reply(tx), command, users, user)
<1>1. Reply(tx).action = "Reply" /\ Reply(tx).tx = tx
  BY DEF Reply
<1> QED
  BY <1>1 DEF Proper

\* A grant to watch keys covers fewer of them, and two grants cover both.
LEMMA WatchFewer ==
    ASSUME NEW users, NEW user, NEW command, command.name = "WATCH", Authorize(users, user, command),
           NEW keys \in SUBSET command.keys
    PROVE  Authorize(users, user, WatchOf(keys))
BY SMTT(30) DEF Authorize, WatchOf, WRITES

LEMMA WatchBoth ==
    ASSUME NEW users, NEW user, NEW A, NEW B,
           Authorize(users, user, WatchOf(A)), Authorize(users, user, WatchOf(B))
    PROVE  Authorize(users, user, WatchOf(A \union B))
BY SMTT(30) DEF Authorize, WatchOf, WRITES

LEMMA SubscribeEach ==
    ASSUME NEW users, NEW user, NEW command, command.name = "SUBSCRIBE", Authorize(users, user, command),
           NEW channel \in command.channels
    PROVE  Authorize(users, user, SubscribeTo(channel))
BY SMTT(30) DEF Authorize, SubscribeTo, WRITES

LEMMA QueueingProper ==
    ASSUME NEW tx, IsTransaction(tx), Active(tx), NEW command \in Said, NEW limits, limits.commands \in Nat,
           NEW users, NEW user, Granted(tx, users, user), Authorize(users, user, command)
    PROVE  Proper(HandleQueueing(tx, command, limits), command, users, user)
<1> DEFINE handled == HandleQueueing(tx, command, limits)
<1>1. CASE handled \in {Reply(tx), Reply(NewTransaction)}
  BY <1>1, ReplyProper, FreshGranted, FreshTransaction
<1>2. CASE handled = HandleExec(tx, The(tx.queue))
  <2>1. The(tx.queue) \in tx.queue
    BY DEF The, Active
  <2> DEFINE q == The(tx.queue)
  <2>2. Kept(q)
    BY <2>1 DEF IsTransaction
  <2> HIDE DEF q
  <2>3. CASE q.denied \/ q.dirty
    BY <2>3, <1>2, ReplyProper, FreshGranted, FreshTransaction DEF HandleExec, q
  <2>4. CASE ~(q.denied \/ q.dirty)
    <3>1. /\ handled.action = "Exec" /\ handled.tx = NewTransaction
          /\ handled.commands = q.commands /\ handled.promised = q.promised
      BY <2>4, <1>2, SMTT(30) DEF HandleExec, q
    <3> HIDE DEF handled
    <3>2. Proper(handled, command, users, user)
      BY <3>1, <2>4, <2>2, FreshGranted, FreshTransaction DEF Proper, Kept
    <3> QED
      BY <3>2 DEF handled
  <2> QED
    BY <2>3, <2>4
<1>3. CASE handled = Reply([tx EXCEPT !.queue = {Enqueue(q, command, limits) : q \in @}])
  <2> DEFINE Q == {Enqueue(q, command, limits) : q \in tx.queue}
  <2> DEFINE after == [tx EXCEPT !.queue = Q]
  <2>1. \A q \in tx.queue : Kept(q)
    BY DEF IsTransaction
  <2>2. ASSUME NEW q \in tx.queue
        PROVE  /\ Kept(Enqueue(q, command, limits))
               /\ \A i \in DOMAIN Enqueue(q, command, limits).commands :
                     Authorize(users, user, Enqueue(q, command, limits).commands[i])
    <3> DEFINE e == Enqueue(q, command, limits)
    <3>1. /\ Kept(e)
          /\ \A i \in DOMAIN e.commands :
                e.commands[i] = command \/ \E j \in DOMAIN q.commands : e.commands[i] = q.commands[j]
      BY <2>1, EnqueueKept, SMTT(30)
    <3> HIDE DEF e
    <3>2. \A i \in DOMAIN e.commands : Authorize(users, user, e.commands[i])
      BY <3>1 DEF Granted
    <3> QED
      BY <3>1, <3>2 DEF e
  <2>3. AtMostOne(Q) /\ \A q \in Q : Kept(q) /\ \A i \in DOMAIN q.commands : Authorize(users, user, q.commands[i])
    BY <2>2 DEF IsTransaction, AtMostOne
  <2> HIDE DEF Q
  <2>4. IsTransaction(after) /\ after.watched = tx.watched /\ after.queue = Q
    BY <2>3, ReplacedQueue
  <2> HIDE DEF after
  <2>5. Granted(after, users, user)
    BY <2>3, <2>4 DEF Granted
  <2>6. handled = Reply(after)
    BY <1>3 DEF Q, after
  <2> QED
    BY <2>4, <2>5, <2>6, ReplyProper
<1> QED
  BY <1>1, <1>2, <1>3 DEF HandleQueueing

LEMMA IdleProper ==
    ASSUME NEW tx, IsTransaction(tx), ~Active(tx), NEW command \in Said, NEW limits,
           NEW users, NEW user, Granted(tx, users, user), Authorize(users, user, command)
    PROVE  Proper(HandleIdle(tx, command, limits), command, users, user)
<1> DEFINE handled == HandleIdle(tx, command, limits)
<1>1. CASE command.name = "MULTI"
  <2> DEFINE Q == {NewQueue(tx)}
  <2> DEFINE after == [tx EXCEPT !.queue = Q]
  <2>1. AtMostOne(Q) /\ \A q \in Q : Kept(q) /\ q.commands = <<>>
    BY EmptyQueue, SMTT(30) DEF Kept, IsQueue, NewQueue, AtMostOne
  <2> HIDE DEF Q
  <2>2. IsTransaction(after) /\ after.watched = tx.watched /\ after.queue = Q
    BY <2>1, ReplacedQueue
  <2> HIDE DEF after
  <2>3. Granted(after, users, user)
    BY <2>1, <2>2, EmptyQueue DEF Granted
  <2>4. handled = Reply(after)
    BY <1>1, SMTT(30) DEF Q, after, HandleIdle
  <2> QED
    BY <2>2, <2>3, <2>4, ReplyProper
<1>2. CASE command.name \in {"DISCARD", "EXEC"}
  <2>1. handled = Reply(tx)
    BY <1>2, SMTT(30) DEF HandleIdle
  <2> QED
    BY <2>1, ReplyProper
<1>3. CASE command.name = "WATCH"
  <2> DEFINE keys == command.keys \ tx.watched
  <2>1. handled = HandleWatch(tx, keys, limits)
    BY <1>3, SMTT(30) DEF HandleIdle
  <2>2. PICK selected : handled = HandleWatchSelected(tx, keys, limits, selected)
    BY <2>1 DEF HandleWatch
  <2>3. Authorize(users, user, WatchOf(keys))
    BY <1>3, WatchFewer
  <2> HIDE DEF keys
  <2>4. CASE handled = Reply(tx)
    BY <2>4, ReplyProper
  <2>5. CASE handled # Reply(tx)
    <3>1. handled.action = "Watch" /\ handled.tx = tx /\ handled.keys = keys
      BY <2>2, <2>5, SMTT(30) DEF HandleWatchSelected
    <3> HIDE DEF handled
    <3>2. Proper(handled, command, users, user)
      BY <3>1, <2>3 DEF Proper
    <3> QED
      BY <3>2 DEF handled
  <2> QED
    BY <2>4, <2>5
<1>4. CASE command.name = "UNWATCH"
  <2>1. handled = Reply(Unwatched(tx))
    BY <1>4, SMTT(30) DEF HandleIdle
  <2> QED
    BY <2>1, ReplyProper, UnwatchedTransaction
<1>5. CASE command.name \notin {"MULTI", "DISCARD", "EXEC", "WATCH", "UNWATCH"}
  <2>1. handled.action = "Execute" /\ handled.tx = tx
    BY <1>5, SMTT(30) DEF HandleIdle
  <2> HIDE DEF handled
  <2>2. Proper(handled, command, users, user)
    BY <2>1 DEF Proper
  <2> QED
    BY <2>2 DEF handled
<1> QED
  BY <1>1, <1>2, <1>3, <1>4, <1>5

LEMMA HandleProper ==
    ASSUME NEW tx, IsTransaction(tx), NEW command \in Said, NEW limits, limits.commands \in Nat,
           NEW readonly, NEW users, NEW user, Granted(tx, users, user), Authorize(users, user, command)
    PROVE  Proper(Handle(tx, command, limits, readonly), command, users, user)
BY PoisonTransaction, ReplyProper, QueueingProper, IdleProper DEF Handle

---------------------------------------------------------------------------
\* What one request does to the session

\* Before and after a request, whatever step the connection is at.
Fit(n, client) == Whole(n) /\ n.digest = client.transport.digest /\ Bears(n, client.users)
Apt(n, client) == Sound(n) /\ Conforms(n, client)

LEMMA AptIsFit ==
    ASSUME NEW n, NEW client, Apt(n, client), n.pc # "closed"
    PROVE  Fit(n, client)
BY DEF Apt, Fit, Sound, Conforms

LEMMA ContinueApt ==
    ASSUME NEW n, NEW client, Fit(n, client)
    PROVE  Apt(Continue(n), client) /\ Continue(n).pc = "top"
<1>1. Whole(n) /\ IsSession(n)
  BY DEF Fit, Whole
<1> QED
  BY <1>1, ContinueConforms, ContinueFields DEF Apt, Fit

LEMMA LeaveApt ==
    ASSUME NEW n, NEW client, Fit(n, client)
    PROVE  Apt(Leave(n), client)
BY LeaveConforms DEF Apt, Fit

LEMMA ResetFit ==
    ASSUME NEW n, NEW client, Fit(n, client)
    PROVE  Fit(Reset(n), client) /\ Reset(n).pc = n.pc
BY ResetWhole DEF Fit

LEMMA RefreshedFit ==
    ASSUME NEW n, NEW client, Fit(n, client)
    PROVE  Fit(Refreshed(n), client)
BY ResetFit DEF Refreshed

LEMMA FailedFit ==
    ASSUME NEW n, NEW client, Fit(n, client)
    PROVE  Fit(Failed(n), client)
BY FailedWhole DEF Fit

LEMMA ChosenFit ==
    ASSUME NEW n, NEW client, Fit(n, client), NEW version
    PROVE  Fit(Chosen(n, version), client)
BY ChosenWhole DEF Fit

\* Another transaction that is granted.
LEMMA ReplacedFit ==
    ASSUME NEW n, NEW client, Fit(n, client), NEW tx, IsTransaction(tx),
           n.identity = {} => tx = NewTransaction,
           \A proof \in n.identity : Granted(tx, client.users, proof.user)
    PROVE  Fit([n EXCEPT !.tx = tx], client)
<1> DEFINE m == [n EXCEPT !.tx = tx]
<1>1. /\ Whole(m) /\ m.digest = n.digest /\ m.identity = n.identity /\ m.tx = tx /\ m.subs = n.subs
  BY ReplacedTransaction DEF Fit
<1> HIDE DEF m
<1>2. Bears(m, client.users)
  BY <1>1 DEF Fit, Bears, Holds
<1> QED
  BY <1>1, <1>2 DEF Fit, m

LEMMA PoisonedFit ==
    ASSUME NEW n, NEW client, Fit(n, client)
    PROVE  Fit([n EXCEPT !.tx = Poison(@)], client)
<1>1. IsTransaction(n.tx) /\ (n.identity = {} => n.tx = NewTransaction)
  BY DEF Fit, Whole
<1>2. /\ IsTransaction(Poison(n.tx)) /\ (n.identity = {} => Poison(n.tx) = NewTransaction)
      /\ \A proof \in n.identity : Granted(Poison(n.tx), client.users, proof.user)
  BY <1>1, PoisonTransaction DEF Fit, Bears, Holds
<1> DEFINE tx == Poison(n.tx)
<1> HIDE DEF tx
<1>3. Fit([n EXCEPT !.tx = tx], client)
  BY <1>2, ReplacedFit DEF tx
<1> QED
  BY <1>3 DEF tx

LEMMA IdentityUser ==
    ASSUME NEW n, Whole(n), n.identity # {}
    PROVE  The(n.identity) \in n.identity /\ \A proof \in n.identity : proof = The(n.identity)
BY DEF Whole, AtMostOne, The

\* A session that asks the database for something granted.
LEMMA SubmitApt ==
    ASSUME NEW n, NEW client, Fit(n, client), n.identity # {},
           NEW tx, IsTransaction(tx), Granted(tx, client.users, User(n)),
           NEW task, TaskGranted(task, client.users, User(n)),
           NEW m, IsSession(m), m.pc = "submit", m.digest = n.digest, m.identity = n.identity,
           m.tx = tx, m.subs = n.subs, m.task = {task}
    PROVE  Apt(m, client)
<1>1. \A proof \in n.identity : proof.user = User(n)
  BY IdentityUser DEF Fit, User
<1>2. Whole(m)
  BY DEF Fit, Whole
<1>3. Sound(m)
  BY <1>2 DEF Sound, AtMostOne
<1>4. Bears(m, client.users)
  BY <1>1 DEF Fit, Bears, Holds
<1> QED
  BY <1>1, <1>3, <1>4 DEF Apt, Conforms, Fit

LEMMA SingleCommand ==
    ASSUME NEW users, NEW user, NEW command \in Said, Authorize(users, user, command)
    PROVE  /\ <<command>> \in Seq(Said)
           /\ \A i \in DOMAIN <<command>> : Authorize(users, user, <<command>>[i])
BY SMTT(30)

LEMMA ExecuteApt ==
    ASSUME NEW n, NEW client, Fit(n, client), n.identity # {}, NEW command \in Said,
           Authorize(client.users, User(n), command)
    PROVE  Apt(Execute(n, command), client)
<1> DEFINE m == Execute(n, command)
<1>0. IsSession(n) /\ \A proof \in n.identity : proof.user = User(n)
  BY IdentityUser DEF Fit, User, Whole
<1>1. CASE command.name = "SUBSCRIBE"
  <2> DEFINE joined == [n EXCEPT !.subs = @ \union command.channels]
  <2>1. m = Continue(n) \/ m = Continue(joined)
    BY <1>1, SMTT(30) DEF Execute
  <2>2. /\ IsSession(joined) /\ joined.digest = n.digest /\ joined.identity = n.identity
        /\ joined.tx = n.tx /\ joined.subs = n.subs \union command.channels
    BY <1>0 DEF IsSession
  <2> HIDE DEF joined
  <2>3. \A channel \in command.channels : Authorize(client.users, User(n), SubscribeTo(channel))
    BY <1>1, SubscribeEach
  <2>4. Fit(joined, client)
    BY <1>0, <2>2, <2>3 DEF Fit, Whole, Bears, Holds
  <2> QED
    BY <2>1, <2>4, ContinueApt
<1>2. CASE command.name = "UNSUBSCRIBE"
  <2> DEFINE rest == Unsubscribed(n.subs, command.channels)
  <2> DEFINE left == [n EXCEPT !.subs = rest]
  <2>1. m = Continue(left)
    BY <1>2, SMTT(30) DEF Execute
  <2>2. rest \subseteq n.subs
    BY DEF Unsubscribed
  <2> HIDE DEF rest
  <2>3. /\ IsSession(left) /\ left.digest = n.digest /\ left.identity = n.identity
        /\ left.tx = n.tx /\ left.subs = rest
    BY <1>0 DEF IsSession
  <2> HIDE DEF left
  <2>4. Fit(left, client)
    BY <2>2, <2>3 DEF Fit, Whole, Bears, Holds
  <2> QED
    BY <2>1, <2>4, ContinueApt
<1>3. CASE command.name \notin {"SUBSCRIBE", "UNSUBSCRIBE"} /\ (Subscribed(n) \/ command.name \in Local)
  <2>1. m = Continue(n)
    BY <1>3, SMTT(30) DEF Execute
  <2> QED
    BY <2>1, ContinueApt
<1>4. CASE command.name \notin {"SUBSCRIBE", "UNSUBSCRIBE"} /\ ~(Subscribed(n) \/ command.name \in Local)
  <2> DEFINE task == [kind |-> "execute", commands |-> <<command>>]
  <2>1. m = [n EXCEPT !.pc = "submit", !.task = {task}]
    BY <1>4, SMTT(30) DEF Execute
  <2>2. task.kind = "execute" /\ task.commands = <<command>>
    OBVIOUS
  <2> HIDE DEF task
  <2>3. TaskGranted(task, client.users, User(n))
    BY <2>2, SingleCommand DEF TaskGranted
  <2>4. /\ IsSession(m) /\ m.pc = "submit" /\ m.digest = n.digest /\ m.identity = n.identity
        /\ m.tx = n.tx /\ m.subs = n.subs /\ m.task = {task}
    BY <1>0, <2>1 DEF IsSession
  <2> HIDE DEF m
  <2>5. IsTransaction(n.tx) /\ Granted(n.tx, client.users, User(n))
    BY <1>0 DEF Fit, Whole, Bears, Holds
  <2>6. Apt(m, client)
    BY <2>3, <2>4, <2>5, SubmitApt
  <2> QED
    BY <2>6 DEF m
<1> QED
  BY <1>1, <1>2, <1>3, <1>4

LEMMA PerformApt ==
    ASSUME NEW n, Fit(n, active.client), n.identity # {}, NEW command \in Said,
           Authorize(Users, User(n), command), NEW handled, Proper(handled, command, Users, User(n))
    PROVE  Apt(Perform(n, command, handled), active.client)
<1> DEFINE m == Perform(n, command, handled)
<1>0. /\ IsSession(n) /\ Users = active.client.users
      /\ IsTransaction(handled.tx) /\ Granted(handled.tx, Users, User(n))
      /\ handled.action \in {"Reply", "Exec", "Watch", "Execute"}
  BY DEF Fit, Whole, Users, Proper
<1>1. Fit([n EXCEPT !.tx = handled.tx], active.client)
  <2>1. \A proof \in n.identity : Granted(handled.tx, active.client.users, proof.user)
    BY <1>0, IdentityUser DEF Fit, User
  <2> DEFINE tx == handled.tx
  <2> HIDE DEF tx
  <2>2. Fit([n EXCEPT !.tx = tx], active.client)
    BY <1>0, <2>1, ReplacedFit DEF tx
  <2> QED
    BY <2>2 DEF tx
<1>2. CASE m = Continue([n EXCEPT !.tx = handled.tx])
  BY <1>1, <1>2, ContinueApt
<1>3. CASE handled.action = "Exec" /\ m # Continue([n EXCEPT !.tx = handled.tx])
  <2> DEFINE task == [kind |-> "exec", commands |-> handled.commands,
                      promised |-> handled.promised, watched |-> handled.watched]
  <2>1. /\ \A i \in DOMAIN handled.commands : Authorize(Users, User(n), handled.commands[i])
        /\ m = [n EXCEPT !.pc = "submit", !.tx = handled.tx, !.task = {task}]
    BY <1>3, SMTT(30) DEF Perform
  <2>2. task.kind = "exec" /\ task.commands = handled.commands /\ task.promised = handled.promised
    BY SMTT(30)
  <2> HIDE DEF task
  <2>3. TaskGranted(task, active.client.users, User(n))
    BY <2>1, <2>2, <1>0, <1>3 DEF TaskGranted, Proper
  <2>4. /\ IsSession(m) /\ m.pc = "submit" /\ m.digest = n.digest /\ m.identity = n.identity
        /\ m.tx = handled.tx /\ m.subs = n.subs /\ m.task = {task}
    BY <1>0, <2>1 DEF IsSession
  <2> HIDE DEF m
  <2>5. Apt(m, active.client)
    BY <1>0, <2>3, <2>4, SubmitApt
  <2> QED
    BY <2>5 DEF m
<1>4. CASE handled.action = "Watch"
  <2> DEFINE task == [kind |-> "watch", commands |-> <<command>>, keys |-> handled.keys,
                      shard |-> handled.shard, crossed |-> handled.crossed]
  <2>1. m = [n EXCEPT !.pc = "submit", !.task = {task}]
    BY <1>4, SMTT(30) DEF Perform
  <2>2. task.kind = "watch" /\ task.commands = <<command>> /\ task.keys = handled.keys
    BY SMTT(30)
  <2> HIDE DEF task
  <2>3. TaskGranted(task, active.client.users, User(n))
    BY <2>2, <1>0, <1>4, SingleCommand DEF TaskGranted, Proper
  <2>4. /\ IsSession(m) /\ m.pc = "submit" /\ m.digest = n.digest /\ m.identity = n.identity
        /\ m.tx = n.tx /\ m.subs = n.subs /\ m.task = {task}
    BY <1>0, <2>1 DEF IsSession
  <2> HIDE DEF m
  <2>5. IsTransaction(n.tx) /\ Granted(n.tx, active.client.users, User(n))
    BY IdentityUser DEF Fit, Whole, Bears, Holds, User
  <2>6. Apt(m, active.client)
    BY <2>3, <2>4, <2>5, SubmitApt
  <2> QED
    BY <2>6 DEF m
<1>5. CASE handled.action = "Execute"
  <2>1. m = Execute(n, command)
    BY <1>5, SMTT(30) DEF Perform
  <2> QED
    BY <1>0, <2>1, ExecuteApt
<1>6. handled.action = "Reply" => m = Continue([n EXCEPT !.tx = handled.tx])
  BY SMTT(30) DEF Perform
<1> QED
  BY <1>0, <1>2, <1>3, <1>4, <1>5, <1>6

LEMMA CommandApt ==
    ASSUME NEW n, Fit(n, active.client), NEW command \in Said, Limits.commands \in Nat
    PROVE  Apt(HandleCommand(n, command), active.client)
<1> DEFINE m == HandleCommand(n, command)
<1>1. CASE n.identity = {} \/ ~database.open
  <2>1. m \in {Continue(n), Leave(n)}
    BY <1>1, SMTT(30) DEF HandleCommand
  <2> QED
    BY <2>1, ContinueApt, LeaveApt
<1>2. CASE n.identity # {} /\ database.open
  <2>1. m = IF \/ ~Authorize(Users, User(n), command)
               \/ Active(n.tx) /\ command.name \in Local \ {"INFO"}
            THEN Continue([n EXCEPT !.tx = Poison(@)])
            ELSE IF Subscribed(n) THEN Execute(n, command)
            ELSE Perform(n, command, Handle(n.tx, command, Limits, database.readonly))
    BY <1>2, SMTT(30) DEF HandleCommand
  <2>2. CASE m = Continue([n EXCEPT !.tx = Poison(@)])
    BY <2>2, PoisonedFit, ContinueApt
  <2>3. CASE m # Continue([n EXCEPT !.tx = Poison(@)])
    <3>1. Authorize(Users, User(n), command) /\ Users = active.client.users
      BY <2>1, <2>3 DEF Users
    <3>2. IsTransaction(n.tx) /\ Granted(n.tx, Users, User(n))
      BY <1>2, IdentityUser DEF Fit, Whole, Bears, Holds, User, Users
    <3>3. Apt(Execute(n, command), active.client)
      BY <1>2, <3>1, ExecuteApt
    <3>4. Proper(Handle(n.tx, command, Limits, database.readonly), command, Users, User(n))
      BY <3>1, <3>2, HandleProper
    <3>5. Apt(Perform(n, command, Handle(n.tx, command, Limits, database.readonly)), active.client)
      BY <1>2, <3>1, <3>4, PerformApt
    <3> QED
      BY <2>1, <2>3, <3>3, <3>5
  <2> QED
    BY <2>2, <2>3
<1> QED
  BY <1>1, <1>2

LEMMA RefusedApt ==
    ASSUME NEW n, Fit(n, active.client), NEW request
    PROVE  Apt(HandleRefused(n, request), active.client)
BY LeaveApt, PoisonedFit, ContinueApt DEF HandleRefused

---------------------------------------------------------------------------
\* What follows from the invariant in a state

LeasePcs == {"handshake", "ready", "queue", "verify", "submit"}
LinkLeasePcs == {"handshake", "frame", "operate"}

\* Whoever holds a lease keeps the acknowledgements of an activation away.
LEMMA LeaseFacts ==
    ASSUME Quiet, Leased
    PROVE  loader.pc # "acks" /\ awaiting = {} /\ Generation = active
BY DEF Quiet, Generation

LEMMA LeasedSession ==
    ASSUME SecurityInv, NEW c \in Clients, conn[c].pc \in LeasePcs
    PROVE  /\ loader.pc # "acks" /\ awaiting = {} /\ Generation = active
           /\ Apt(conn[c], active.client) /\ Fit(conn[c], active.client)
<1>1. Leased
  BY DEF Leased, ClientLeased, LeasePcs
<1>2. loader.pc # "acks" /\ awaiting = {} /\ Generation = active
  BY <1>1, LeaseFacts DEF SecurityInv
<1>3. Apt(conn[c], active.client)
  BY <1>2 DEF SecurityInv, Conforming, Apt
<1> QED
  BY <1>2, <1>3, AptIsFit DEF LeasePcs

LEMMA OpenSession ==
    ASSUME SecurityInv, NEW c \in Clients, conn[c].pc # "closed"
    PROVE  /\ Sound(conn[c]) /\ Whole(conn[c])
           /\ c \notin awaiting => Fit(conn[c], Generation.client)
<1>1. Sound(conn[c])
  BY DEF SecurityInv, Conforming
<1> QED
  BY <1>1, AptIsFit DEF SecurityInv, Conforming, Apt, Sound

LEMMA ScenarioFacts ==
    ASSUME Authentic
    PROVE  /\ Limits.commands \in Nat /\ Len(Releases) \in Nat /\ DOMAIN Releases = 1..Len(Releases)
           /\ 1 \in DOMAIN Releases
<1>1. chosen \in DOMAIN Scenarios
  BY DEF Authentic
<1>2. Limits.commands \in Nat /\ Releases \in Seq(Range(Releases)) /\ Releases # <<>>
  BY <1>1, ScenariosAssumption DEF Limits, Releases, Scenario
<1> QED
  BY <1>2, SMTT(30)

LEMMA SaidFacts ==
    ASSUME Authentic, NEW c \in Clients, NEW request \in Scenario.clients[c].requests,
           request.kind = "command"
    PROVE  request.command \in Said
<1>1. chosen \in DOMAIN Scenarios /\ c \in DOMAIN Scenarios[chosen].clients
      /\ request \in Scenarios[chosen].clients[c].requests
  BY DEF Authentic, Clients, Scenario
<1> DEFINE S(name) == {Scenarios[name].clients[d].requests : d \in DOMAIN Scenarios[name].clients}
<1>2. request \in UNION S(chosen)
  BY <1>1
<1> DEFINE requests == UNION {UNION S(name) : name \in DOMAIN Scenarios}
<1>3. request \in requests
  <2> HIDE DEF S
  <2> QED
    BY <1>1, <1>2
<1> QED
  BY <1>3 DEF Said

\* What the security variables alone decide stays with them.
LEMMA SecurityKept ==
    ASSUME UNCHANGED securityVars, Authentic
    PROVE  /\ Clients' = Clients /\ Links' = Links /\ Generation' = Generation /\ Users' = Users /\ Lane' = Lane
           /\ active' = active /\ loader' = loader /\ awaiting' = awaiting /\ updates' = updates
           /\ chosen' = chosen
           /\ Authentic'
BY DEF securityVars, Authentic, Succeeds, Clients, Links, Generation, Users, Lane, Scenario, Releases, Release, Manifest

---------------------------------------------------------------------------
\* One connection moves

LEMMA MovedSessions ==
    ASSUME SecurityInv, NEW c \in Clients, NEW m, To(c, m), Clients' = Clients
    PROVE  /\ DOMAIN conn' = Clients' /\ conn'[c] = m /\ \A d \in Clients \ {c} : conn'[d] = conn[d]
           /\ Sound(m) => \A d \in Clients' : Sound(conn'[d])
           /\ conn[c].pc # "await" =>
                 \A d \in Clients : conn[d].pc = "await" => conn'[d] = conn[d]
<1>1. DOMAIN conn = Clients /\ \A d \in Clients : Sound(conn[d])
  BY DEF SecurityInv, Conforming
<1>2. DOMAIN conn' = Clients /\ conn'[c] = m /\ \A d \in Clients \ {c} : conn'[d] = conn[d]
  BY <1>1 DEF To
<1> QED
  BY <1>1, <1>2

\* Orders stand while their connections wait.
LEMMA OrdersStand ==
    ASSUME SecurityInv, UNCHANGED << orders, work >>, Clients' = Clients, active' = active, Users' = Users, Lane' = Lane,
           \A d \in Clients : conn[d].pc = "await" => conn'[d] = conn[d]
    PROVE  Standing'
<1>1. ASSUME NEW order \in orders PROVE IsOrder(order)'
  <2>1. IsOrder(order)
    BY DEF SecurityInv, Standing
  <2> QED
    BY <2>1 DEF IsOrder
<1>2. ASSUME NEW w \in work PROVE IsWork(w)'
  <2>1. IsWork(w)
    BY DEF SecurityInv, Standing
  <2> QED
    BY <2>1 DEF IsWork
<1> QED
  BY <1>1, <1>2 DEF SecurityInv, Standing

LEMMA LinksConform ==
    ASSUME SecurityInv, links' = links, Links' = Links, Generation' = Generation
    PROVE  /\ DOMAIN links' = Links' /\ \A l \in Links' : IsLink(links'[l])
           /\ \A l \in Links' : links'[l].open => PeerFits(The(links'[l].peer), The(Generation'.internal))
BY DEF SecurityInv, Conforming

\* A connection moves and nothing else does; it takes a lease only outside the
\* acknowledgements, and conforms unless it is still awaited.
LEMMA SessionMoves ==
    ASSUME SecurityInv, NEW c \in Clients, NEW m, To(c, m), UNCHANGED << securityVars, orders, internalVars >>,
           conn[c].pc # "await", Sound(m), c \notin awaiting => Conforms(m, Generation.client),
           loader.pc = "acks" => m.pc \notin LeasePcs
    PROVE  SecurityInv'
<1>0. UNCHANGED << orders, links, work >> /\ UNCHANGED securityVars
  BY DEF internalVars
<1>1. /\ Clients' = Clients /\ Links' = Links /\ Generation' = Generation /\ Users' = Users /\ Lane' = Lane
      /\ active' = active /\ loader' = loader /\ awaiting' = awaiting /\ updates' = updates /\ Authentic'
  BY <1>0, SecurityKept DEF SecurityInv
<1>2. /\ DOMAIN conn' = Clients' /\ conn'[c] = m /\ \A d \in Clients \ {c} : conn'[d] = conn[d]
      /\ \A d \in Clients' : Sound(conn'[d])
      /\ \A d \in Clients : conn[d].pc = "await" => conn'[d] = conn[d]
  BY <1>1, MovedSessions
<1>3. Quiet'
  <2>1. ASSUME loader.pc = "acks" PROVE ~Leased'
    <3>1. /\ orders = {} /\ work = {} /\ \A d \in Clients : conn[d].pc \notin LeasePcs
          /\ \A l \in Links : links[l].pc \notin LinkLeasePcs
      BY <2>1 DEF SecurityInv, Quiet, Leased, ClientLeased, LeasePcs, LinkLeasePcs
    <3>2. \A d \in Clients : conn'[d].pc \notin LeasePcs
      BY <2>1, <3>1, <1>2
    <3> QED
      BY <3>1, <3>2, <1>0, <1>1 DEF Leased, ClientLeased, LeasePcs, LinkLeasePcs
  <2> QED
    BY <2>1, <1>1 DEF SecurityInv, Quiet
<1>4. \A d \in Clients' \ awaiting' : Conforms(conn'[d], Generation'.client)
  BY <1>1, <1>2 DEF SecurityInv, Conforming
<1>5. Conforming'
  BY <1>0, <1>1, <1>2, <1>4, LinksConform DEF Conforming
<1>6. Standing'
  BY <1>0, <1>1, <1>2, OrdersStand
<1> QED
  BY <1>1, <1>3, <1>5, <1>6 DEF SecurityInv

\* A request under a lease ends in a session that is apt.
LEMMA LeaseMoves ==
    ASSUME SecurityInv, NEW c \in Clients, conn[c].pc \in LeasePcs, NEW m, To(c, m), Apt(m, active.client),
           UNCHANGED << securityVars, orders, internalVars >>
    PROVE  SecurityInv'
<1>1. loader.pc # "acks" /\ awaiting = {} /\ Generation = active
  BY LeasedSession
<1> QED
  BY <1>1, SessionMoves DEF Apt, LeasePcs

\* A connection leaves, at any time.
LEMMA LeaveMoves ==
    ASSUME SecurityInv, NEW c \in Clients, conn[c].pc \notin {"closed", "await"}, To(c, Leave(conn[c])),
           UNCHANGED << securityVars, orders, internalVars >>
    PROVE  SecurityInv'
<1>0. c \notin awaiting => conn[c].digest = Generation.client.transport.digest
  BY OpenSession DEF Fit
<1>1. /\ Sound(Leave(conn[c])) /\ Leave(conn[c]).pc = "closing"
      /\ c \notin awaiting => Conforms(Leave(conn[c]), Generation.client)
  BY <1>0, LeaveConforms
<1> QED
  BY <1>1, SessionMoves DEF LeasePcs

---------------------------------------------------------------------------
\* The actions of a connection

LEMMA AcceptStep ==
    ASSUME SecurityInv, NEW c \in Clients, Accept(c), UNCHANGED internalVars
    PROVE  SecurityInv'
<1> DEFINE m == [Disconnected EXCEPT !.pc = "handshake", !.digest = Transport.digest]
<1>1. /\ conn[c].pc = "closed" /\ loader.pc # "acks" /\ To(c, m)
      /\ UNCHANGED << securityVars, orders, internalVars >>
  BY DEF Accept, CanLease
<1>2. /\ m.pc = "handshake" /\ m.digest = Transport.digest /\ m.identity = {}
      /\ m.tx = NewTransaction /\ m.subs = {} /\ IsSession(m)
  BY DEF Disconnected, IsSession
<1> HIDE DEF m
<1>3. Generation = active
  BY <1>1 DEF Generation
<1>4. Sound(m) /\ Conforms(m, active.client)
  BY <1>2, FreshTransaction DEF Sound, Whole, Conforms, Bears, AtMostOne, Transport
<1> QED
  BY <1>1, <1>3, <1>4, SessionMoves

LEMMA HandshakeStep ==
    ASSUME SecurityInv, NEW c \in Clients, Handshake(c), UNCHANGED internalVars
    PROVE  SecurityInv'
<1>1. conn[c].pc \in LeasePcs /\ UNCHANGED << securityVars, orders, internalVars >>
  BY DEF Handshake, LeasePcs
<1>2. PICK m : To(c, m) /\ m \in {Continue(conn[c]), Disconnected}
  BY DEF Handshake
<1>3. Apt(m, active.client)
  BY <1>1, <1>2, LeasedSession, ContinueApt, FreshSession DEF Apt
<1> QED
  BY <1>1, <1>2, <1>3, LeaseMoves

LEMMA LeaseStep ==
    ASSUME SecurityInv, NEW c \in Clients, Lease(c), UNCHANGED internalVars
    PROVE  SecurityInv'
<1>1. conn[c].pc = "top" /\ UNCHANGED << securityVars, orders, internalVars >>
  BY DEF Lease
<1>2. CASE To(c, Leave(conn[c]))
  BY <1>1, <1>2, LeaveMoves
<1>3. CASE ~To(c, Leave(conn[c]))
  <2> DEFINE m == [Refreshed(conn[c]) EXCEPT !.pc = "ready"]
  <2>1. To(c, m) /\ loader.pc # "acks"
    BY <1>3 DEF Lease, CanLease
  <2>2. Generation = active /\ awaiting = {}
    BY <2>1 DEF Generation, SecurityInv, Quiet
  <2>3. Fit(conn[c], active.client)
    BY <1>1, <2>2, OpenSession
  <2>4. Fit(Refreshed(conn[c]), active.client)
    BY <2>3, RefreshedFit
  <2> DEFINE n == Refreshed(conn[c])
  <2>5. /\ IsSession(m) /\ m.pc = "ready" /\ m.digest = n.digest /\ m.identity = n.identity
        /\ m.tx = n.tx /\ m.subs = n.subs
    BY <2>4 DEF Fit, Whole, IsSession
  <2> HIDE DEF m, n
  <2>6. Sound(m) /\ Conforms(m, active.client)
    BY <2>4, <2>5 DEF Sound, Whole, Conforms, Bears, Holds, Fit, n
  <2> QED
    BY <1>1, <2>1, <2>2, <2>6, SessionMoves
<1> QED
  BY <1>2, <1>3

LEMMA DisconnectStep ==
    ASSUME SecurityInv, NEW c \in Clients, Disconnect(c), UNCHANGED internalVars
    PROVE  SecurityInv'
<1>1. conn[c].pc \notin {"closed", "await"} /\ UNCHANGED << securityVars, orders, internalVars >>
      /\ To(c, Leave(conn[c]))
  BY DEF Disconnect
<1> QED
  BY <1>1, LeaveMoves

LEMMA NoFrameStep ==
    ASSUME SecurityInv, NEW c \in Clients, NoFrame(c), UNCHANGED internalVars
    PROVE  SecurityInv'
<1>1. /\ conn[c].pc \in LeasePcs /\ UNCHANGED << securityVars, orders, internalVars >>
      /\ To(c, Continue(conn[c]))
  BY DEF NoFrame, LeasePcs
<1>2. Apt(Continue(conn[c]), active.client)
  BY <1>1, LeasedSession, ContinueApt
<1> QED
  BY <1>1, <1>2, LeaseMoves

LEMMA RequestRefusedStep ==
    ASSUME SecurityInv, NEW c \in Clients, NEW request, RequestRefused(c, request), UNCHANGED internalVars
    PROVE  SecurityInv'
<1>1. /\ conn[c].pc \in LeasePcs /\ UNCHANGED << securityVars, orders, internalVars >>
      /\ To(c, HandleRefused(Refreshed(conn[c]), request))
  BY DEF RequestRefused, LeasePcs
<1>2. Fit(Refreshed(conn[c]), active.client)
  BY <1>1, LeasedSession, RefreshedFit
<1>3. Apt(HandleRefused(Refreshed(conn[c]), request), active.client)
  BY <1>2, RefusedApt
<1> QED
  BY <1>1, <1>3, LeaseMoves

LEMMA RequestCommandStep ==
    ASSUME SecurityInv, NEW c \in Clients, NEW request \in Scenario.clients[c].requests,
           RequestCommand(c, request), UNCHANGED internalVars
    PROVE  SecurityInv'
<1>1. /\ conn[c].pc \in LeasePcs /\ UNCHANGED << securityVars, orders, internalVars >>
      /\ To(c, HandleCommand(Refreshed(conn[c]), request.command)) /\ request.kind = "command"
  BY DEF RequestCommand, LeasePcs
<1>2. Fit(Refreshed(conn[c]), active.client)
  BY <1>1, LeasedSession, RefreshedFit
<1>3. request.command \in Said /\ Limits.commands \in Nat
  BY <1>1, SaidFacts, ScenarioFacts DEF SecurityInv
<1>4. Apt(HandleCommand(Refreshed(conn[c]), request.command), active.client)
  BY <1>2, <1>3, CommandApt
<1> QED
  BY <1>1, <1>4, LeaseMoves

\* The reply to AUTH and HELLO leaves the connection in the loop or closes it.
LEMMA SettleApt ==
    ASSUME NEW c, NEW n, NEW table, Fit(n, active.client), Settle(c, n, table)
    PROVE  \E m : To(c, m) /\ Apt(m, active.client)
<1>1. To(c, Continue(n)) \/ To(c, Leave(n))
  BY DEF Settle
<1> QED
  BY <1>1, ContinueApt, LeaveApt

LEMMA VerifyingApt ==
    ASSUME NEW n, Fit(n, active.client), NEW version, NEW credentials
    PROVE  Apt(Verifying(n, version, credentials), active.client)
<1> DEFINE m == Verifying(n, version, credentials)
<1> DEFINE task == [version |-> version, user |-> credentials.user,
                    password |-> credentials.password, proof |-> {}]
<1>1. /\ IsSession(m) /\ m.pc = "queue" /\ m.digest = n.digest /\ m.identity = n.identity
      /\ m.tx = n.tx /\ m.subs = n.subs /\ m.task = {task}
  BY DEF Fit, Whole, IsSession, Verifying
<1>2. IsVerification(task)
  BY SMTT(30) DEF IsVerification, AtMostOne
<1> HIDE DEF m, task
<1>3. Apt(m, active.client)
  BY <1>1, <1>2 DEF Apt, Sound, Whole, Conforms, Bears, Holds, Fit
<1> QED
  BY <1>3 DEF m

LEMMA ControlApt ==
    ASSUME NEW c, NEW n, Fit(n, active.client), NEW control, HandleControl(c, n, control)
    PROVE  \E m : To(c, m) /\ Apt(m, active.client)
<1>1. CASE To(c, Leave(n))
  BY <1>1, LeaveApt
<1>2. CASE BeginVerify(c, n, control.version, The(control.credentials))
  <2>1. CASE To(c, Verifying(n, control.version, The(control.credentials)))
    BY <2>1, VerifyingApt
  <2>2. CASE \E table : Settle(c, Failed(n), table)
    BY <2>2, FailedFit, SettleApt
  <2> QED
    BY <1>2, <2>1, <2>2 DEF BeginVerify
<1>3. CASE \E k, table : Fit(k, active.client) /\ Settle(c, k, table)
  BY <1>3, SettleApt
<1>4. Fit([n EXCEPT !.tx = Poison(@)], active.client) /\ Fit(Chosen(n, control.version), active.client)
  BY PoisonedFit, ChosenFit
<1>5. CASE control.error = "InvalidFormat"
  BY <1>1, <1>5, SMTT(30) DEF HandleControl
<1>6. CASE control.error = "none" /\ ~Active(n.tx) /\ control.credentials # {}
  BY <1>2, <1>6, SMTT(30) DEF HandleControl
<1>7. CASE control.error # "InvalidFormat" /\ ~(control.error = "none" /\ ~Active(n.tx) /\ control.credentials # {})
  <2>1. Settle(c, CASE Active(n.tx) -> [n EXCEPT !.tx = Poison(@)]
                    [] ~Active(n.tx) /\ (control.error # "none" \/ n.identity = {}) -> n
                    [] OTHER -> Chosen(n, control.version), buckets)
    BY <1>7 DEF HandleControl
  <2> QED
    BY <2>1, <1>3, <1>4
<1> QED
  BY <1>5, <1>6, <1>7

LEMMA RequestControlStep ==
    ASSUME SecurityInv, NEW c \in Clients, NEW request, RequestControl(c, request), UNCHANGED internalVars
    PROVE  SecurityInv'
<1>1. /\ conn[c].pc \in LeasePcs /\ UNCHANGED << securityVars, orders, internalVars >>
      /\ HandleControl(c, Refreshed(conn[c]), ParseControl(request))
  BY DEF RequestControl, LeasePcs
<1>2. Fit(Refreshed(conn[c]), active.client)
  BY <1>1, LeasedSession, RefreshedFit
<1>3. PICK m : To(c, m) /\ Apt(m, active.client)
  BY <1>1, <1>2, ControlApt
<1> QED
  BY <1>1, <1>3, LeaseMoves

LEMMA StartJobStep ==
    ASSUME SecurityInv, NEW c \in Clients, StartJob(c), UNCHANGED internalVars
    PROVE  SecurityInv'
<1> DEFINE Proofs(task) == {proof \in {[user |-> task.user, verifier |-> task.password]} : Valid(Users, proof, now)}
<1> DEFINE tasks == {[task EXCEPT !.proof = Proofs(task)] : task \in conn[c].task}
<1> DEFINE m == [conn[c] EXCEPT !.pc = "verify", !.task = tasks]
<1>1. /\ conn[c].pc = "queue" /\ conn[c].pc \in LeasePcs /\ UNCHANGED << securityVars, orders, internalVars >>
      /\ To(c, m)
  BY DEF StartJob, LeasePcs
<1>2. Fit(conn[c], active.client) /\ \A task \in conn[c].task : IsVerification(task)
  BY <1>1, LeasedSession DEF Apt, Sound
<1>3. \A task \in tasks : IsVerification(task)
  <2>1. \A task : AtMostOne(Proofs(task))
    BY DEF AtMostOne
  <2> HIDE DEF Proofs
  <2> QED
    BY <1>2, <2>1 DEF IsVerification
<1> HIDE DEF tasks
<1>4. /\ IsSession(m) /\ m.pc = "verify" /\ m.digest = conn[c].digest /\ m.identity = conn[c].identity
      /\ m.tx = conn[c].tx /\ m.subs = conn[c].subs /\ m.task = tasks
  BY <1>2 DEF Fit, Whole, IsSession
<1> HIDE DEF m
<1>5. Apt(m, active.client)
  BY <1>2, <1>3, <1>4 DEF Apt, Sound, Whole, Conforms, Bears, Holds, Fit
<1> QED
  BY <1>1, <1>5, LeaseMoves

\* The identity AUTH proves is present, and starts with nothing.
LEMMA AuthenticatedFit ==
    ASSUME NEW n, Fit(n, active.client), NEW task, AtMostOne(task.proof),
           \E proof \in task.proof : Valid(Users, proof, now)
    PROVE  Fit(Authenticated(n, task), active.client)
<1> DEFINE m == [Reset(n) EXCEPT !.identity = task.proof, !.ever = TRUE, !.failures = 0]
<1>1. /\ IsSession(m) /\ m.digest = n.digest /\ m.identity = task.proof
      /\ m.tx = NewTransaction /\ m.subs = {}
  <2>1. /\ IsSession(Reset(n)) /\ Reset(n).digest = n.digest
        /\ Reset(n).tx = NewTransaction /\ Reset(n).subs = {}
    BY DEF Fit, Whole, IsSession, Reset
  <2> QED
    BY <2>1 DEF IsSession
<1> HIDE DEF m
<1>2. \A proof \in task.proof : Present(Users, proof)
  BY DEF AtMostOne, Valid, Present
<1>3. Fit(m, active.client)
  BY <1>1, <1>2, FreshTransaction, FreshGranted DEF Fit, Whole, Bears, Holds, Users
<1> QED
  BY <1>3, ChosenFit DEF Authenticated, m

LEMMA FinishJobStep ==
    ASSUME SecurityInv, NEW c \in Clients, FinishJob(c), UNCHANGED internalVars
    PROVE  SecurityInv'
<1>1. /\ conn[c].pc = "verify" /\ conn[c].pc \in LeasePcs /\ UNCHANGED << securityVars, orders, internalVars >>
  BY DEF FinishJob, LeasePcs
<1>2. Fit(conn[c], active.client) /\ \A task \in conn[c].task : AtMostOne(task.proof)
  BY <1>1, LeasedSession DEF Apt, Sound, IsVerification
<1>3. \E n, table : Settle(c, n, table) /\ Fit(n, active.client)
  BY <1>2, AuthenticatedFit, FailedFit DEF FinishJob
<1>4. PICK m : To(c, m) /\ Apt(m, active.client)
  BY <1>3, SettleApt
<1> QED
  BY <1>1, <1>4, LeaseMoves

LEMMA VerifyDeadlineStep ==
    ASSUME SecurityInv, NEW c \in Clients, VerifyDeadline(c), UNCHANGED internalVars
    PROVE  SecurityInv'
<1>1. /\ conn[c].pc \in LeasePcs /\ UNCHANGED << securityVars, orders, internalVars >>
      /\ \E table : Settle(c, Failed(conn[c]), table)
  BY DEF VerifyDeadline, LeasePcs
<1>2. Fit(Failed(conn[c]), active.client)
  BY <1>1, LeasedSession, FailedFit
<1>3. PICK m : To(c, m) /\ Apt(m, active.client)
  BY <1>1, <1>2, SettleApt
<1> QED
  BY <1>1, <1>3, LeaseMoves

---------------------------------------------------------------------------
\* Updates and the end of a session

LEMMA UpdatedConforms ==
    ASSUME NEW n, Sound(n), n.pc = "top", NEW update, NEW close \in BOOLEAN, close = Removed(n, update)
    PROVE  /\ Sound(Updated(n, update, close)) /\ Updated(n, update, close).pc \in {"top", "closing"}
           /\ ~close => Conforms(Updated(n, update, close), update)
<1>0. Whole(n) /\ IsSession(n) /\ IsTransaction(n.tx)
  BY DEF Sound, Whole
<1>1. CASE close
  <2>1. Updated(n, update, close) = Leave(n)
    BY <1>1, SMTT(30) DEF Updated
  <2>2. Sound(Leave(n)) /\ Leave(n).pc = "closing"
    BY LeaveConforms
  <2> QED
    BY <1>1, <2>1, <2>2
<1>2. CASE ~close /\ n.identity = {}
  <2>1. Updated(n, update, close) = n
    BY <1>2, SMTT(30) DEF Updated
  <2> QED
    BY <1>2, <2>1 DEF Removed, Conforms, Bears
<1>3. CASE ~close /\ n.identity # {}
  <2>0. /\ n.digest = update.transport.digest
        /\ \A proof \in n.identity : Present(update.users, proof) /\ proof.user = User(n)
    BY <1>0, <1>3, IdentityUser DEF Removed, User
  <2>1. CASE Updated(n, update, close) = Reset(n)
    <3>1. Whole(Reset(n)) /\ Reset(n).digest = n.digest /\ Reset(n).pc = "top" /\ Bears(Reset(n), update.users)
          /\ Reset(n).identity = {}
      BY <1>0, ResetWhole
    <3> QED
      BY <2>0, <2>1, <3>1 DEF Sound, Conforms
  <2>2. CASE Updated(n, update, close) = RevalidateSession(n, update.users, User(n))
    <3> DEFINE tx == Revalidate(n.tx, update.users, User(n))
    <3> DEFINE m == RevalidateSession(n, update.users, User(n))
    <3>1. IsTransaction(tx) /\ Granted(tx, update.users, User(n))
      BY <1>0, RevalidateGrants
    <3>2. /\ IsSession(m) /\ m.pc = "top" /\ m.digest = n.digest /\ m.identity = n.identity /\ m.tx = tx
          /\ m.subs = {channel \in n.subs : Authorize(update.users, User(n), SubscribeTo(channel))}
      BY <1>0 DEF IsSession, RevalidateSession
    <3> HIDE DEF m, tx
    <3>3. Sound(m)
      BY <1>0, <1>3, <3>1, <3>2 DEF Sound, Whole
    <3>4. Conforms(m, update)
      BY <2>0, <3>1, <3>2 DEF Conforms, Bears, Holds
    <3> QED
      BY <2>2, <3>2, <3>3, <3>4 DEF m
  <2> QED
    BY <1>3, <2>1, <2>2, SMTT(30) DEF Updated
<1> QED
  BY <1>1, <1>2, <1>3

\* A session moves with its updates and acknowledgements while they are awaited.
LEMMA AcknowledgeMoves ==
    ASSUME SecurityInv, NEW c \in Clients, NEW m, To(c, m), conn[c].pc # "await", m.pc \notin LeasePcs, Sound(m),
           c \notin awaiting' => Conforms(m, Generation.client),
           awaiting' \in SUBSET awaiting, awaiting \ {c} \subseteq awaiting', updates' \in SUBSET awaiting',
           UNCHANGED << chosen, now, directory, loader, active, stopping, orders, internalVars >>
    PROVE  SecurityInv'
<1>0. UNCHANGED << orders, links, work >>
  BY DEF internalVars
<1>1. /\ Clients' = Clients /\ Links' = Links /\ Generation' = Generation /\ Users' = Users /\ Lane' = Lane
      /\ active' = active /\ loader' = loader /\ Authentic'
  BY DEF SecurityInv, Authentic, Succeeds, Clients, Links, Generation, Users, Lane, Scenario, Releases, Release, Manifest
<1>2. /\ DOMAIN conn' = Clients' /\ conn'[c] = m /\ \A d \in Clients \ {c} : conn'[d] = conn[d]
      /\ \A d \in Clients' : Sound(conn'[d])
      /\ \A d \in Clients : conn[d].pc = "await" => conn'[d] = conn[d]
  BY <1>1, MovedSessions
<1>3. Quiet'
  <2>1. ASSUME loader.pc = "acks" PROVE ~Leased'
    <3>1. /\ orders = {} /\ work = {} /\ \A d \in Clients : conn[d].pc \notin LeasePcs
          /\ \A l \in Links : links[l].pc \notin LinkLeasePcs
      BY <2>1 DEF SecurityInv, Quiet, Leased, ClientLeased, LeasePcs, LinkLeasePcs
    <3>2. \A d \in Clients : conn'[d].pc \notin LeasePcs
      BY <3>1, <1>2
    <3> QED
      BY <3>1, <3>2, <1>0, <1>1 DEF Leased, ClientLeased, LeasePcs, LinkLeasePcs
  <2> QED
    BY <2>1, <1>1 DEF SecurityInv, Quiet
<1>4. \A d \in Clients' \ awaiting' : Conforms(conn'[d], Generation'.client)
  BY <1>1, <1>2 DEF SecurityInv, Conforming
<1>5. Conforming'
  BY <1>0, <1>1, <1>2, <1>4, LinksConform DEF Conforming
<1>6. Standing'
  BY <1>0, <1>1, <1>2, OrdersStand
<1> QED
  BY <1>1, <1>3, <1>5, <1>6 DEF SecurityInv

LEMMA ApplyUpdateStep ==
    ASSUME SecurityInv, NEW c \in Clients, ApplyUpdate(c), UNCHANGED internalVars
    PROVE  SecurityInv'
<1>1. /\ conn[c].pc = "top" /\ c \in updates
      /\ UNCHANGED << chosen, now, directory, loader, active, stopping, orders, internalVars >>
  BY DEF ApplyUpdate
<1> DEFINE close == Removed(conn[c], loader.replacement.client)
<1> DEFINE m == Updated(conn[c], loader.replacement.client, close)
<1>2. To(c, m) /\ updates' = updates \ {c} /\ awaiting' = IF ~close THEN awaiting \ {c} ELSE awaiting
  BY DEF ApplyUpdate, Acknowledges
<1>3. close \in BOOLEAN
  BY DEF Removed
<1>4. Sound(m) /\ m.pc \in {"top", "closing"} /\ (~close => Conforms(m, loader.replacement.client))
  <2>1. Sound(conn[c])
    BY <1>1, OpenSession
  <2> HIDE DEF close
  <2> QED
    BY <1>1, <1>3, <2>1, UpdatedConforms DEF close
<1>5. c \in awaiting /\ updates \subseteq awaiting /\ Generation = loader.replacement
  BY <1>1 DEF SecurityInv, Quiet, Generation
<1> HIDE DEF close, m
<1>6. /\ awaiting' \in SUBSET awaiting /\ awaiting \ {c} \subseteq awaiting' /\ updates' \in SUBSET awaiting'
      /\ c \notin awaiting' => ~close
  BY <1>2, <1>5
<1> QED
  BY <1>1, <1>2, <1>4, <1>5, <1>6, AcknowledgeMoves DEF LeasePcs

LEMMA DropSessionStep ==
    ASSUME SecurityInv, NEW c \in Clients, DropSession(c), UNCHANGED internalVars
    PROVE  SecurityInv'
<1>1. /\ conn[c].pc = "closing" /\ To(c, Disconnected) /\ updates' = updates \ {c} /\ awaiting' = awaiting \ {c}
      /\ UNCHANGED << chosen, now, directory, loader, active, stopping, orders, internalVars >>
  BY DEF DropSession, AcknowledgeDrop
<1>2. Sound(Disconnected) /\ Conforms(Disconnected, Generation.client) /\ Disconnected.pc = "closed"
  BY FreshSession DEF Disconnected
<1>3. updates \subseteq awaiting
  BY DEF SecurityInv, Quiet
<1> QED
  BY <1>1, <1>2, <1>3, AcknowledgeMoves DEF LeasePcs

---------------------------------------------------------------------------
\* Orders

\* A connection and the orders move together outside the acknowledgements.
LEMMA OrderMoves ==
    ASSUME SecurityInv, Leased, UNCHANGED << securityVars, internalVars >>,
           NEW c \in Clients, NEW m, To(c, m), Apt(m, active.client),
           \A order \in orders' : IsOrder(order)',
           \A o1, o2 \in orders' : o1.waited /\ o2.waited /\ o1.client = o2.client => o1 = o2
    PROVE  SecurityInv'
<1>0. UNCHANGED << links, work >> /\ UNCHANGED securityVars
  BY DEF internalVars
<1>1. /\ Clients' = Clients /\ Links' = Links /\ Generation' = Generation /\ Users' = Users /\ Lane' = Lane
      /\ active' = active /\ loader' = loader /\ awaiting' = awaiting /\ updates' = updates /\ Authentic'
  BY <1>0, SecurityKept DEF SecurityInv
<1>2. loader.pc # "acks" /\ awaiting = {} /\ Generation = active
  BY LeaseFacts DEF SecurityInv
<1>3. /\ DOMAIN conn' = Clients' /\ conn'[c] = m /\ \A d \in Clients \ {c} : conn'[d] = conn[d]
      /\ \A d \in Clients' : Sound(conn'[d])
  BY <1>1, MovedSessions DEF Apt
<1>4. Quiet'
  BY <1>1, <1>2 DEF SecurityInv, Quiet
<1>5. \A d \in Clients' \ awaiting' : Conforms(conn'[d], Generation'.client)
  BY <1>1, <1>2, <1>3 DEF SecurityInv, Conforming, Apt
<1>6. Conforming'
  BY <1>0, <1>1, <1>3, <1>5, LinksConform DEF Conforming
<1>7. ASSUME NEW w \in work PROVE IsWork(w)'
  <2>1. IsWork(w)
    BY DEF SecurityInv, Standing
  <2> QED
    BY <2>1, <1>1 DEF IsWork
<1>8. Standing'
  BY <1>0, <1>7 DEF Standing
<1> QED
  BY <1>1, <1>4, <1>6, <1>8 DEF SecurityInv

\* An order of another connection stands when that connection stays.
LEMMA OrderKept ==
    ASSUME NEW order, IsOrder(order), UNCHANGED << chosen, active >>,
           order.waited => conn'[order.client] = conn[order.client]
    PROVE  IsOrder(order)'
<1>1. Clients' = Clients /\ Users' = Users
  BY DEF Clients, Users, Scenario
<1> QED
  BY <1>1 DEF IsOrder

LEMMA SubmitStep ==
    ASSUME SecurityInv, NEW c \in Clients, Submit(c), UNCHANGED internalVars
    PROVE  SecurityInv'
<1>1. /\ conn[c].pc = "submit" /\ conn[c].pc \in LeasePcs /\ UNCHANGED << securityVars, internalVars >>
  BY DEF Submit, LeasePcs
<1>2. PICK task \in conn[c].task :
        \/ /\ To(c, Leave(conn[c])) \/ To(c, Continue(Reset(conn[c])))
           /\ UNCHANGED orders
        \/ /\ ~Expired(conn[c]) /\ orders' = orders \union {Order(c, conn[c], task)}
           /\ To(c, [conn[c] EXCEPT !.pc = "await", !.task = {}])
  BY DEF Submit
<1>3. Apt(conn[c], active.client) /\ Fit(conn[c], active.client)
  BY <1>1, LeasedSession
<1>4. CASE /\ To(c, Leave(conn[c])) \/ To(c, Continue(Reset(conn[c])))
           /\ UNCHANGED orders
  <2>1. Apt(Leave(conn[c]), active.client) /\ Apt(Continue(Reset(conn[c])), active.client)
    BY <1>3, LeaveApt, ResetFit, ContinueApt
  <2>2. PICK m : To(c, m) /\ Apt(m, active.client)
    BY <1>4, <2>1
  <2> QED
    BY <1>1, <1>4, <2>2, LeaseMoves
<1>5. CASE /\ ~Expired(conn[c]) /\ orders' = orders \union {Order(c, conn[c], task)}
           /\ To(c, [conn[c] EXCEPT !.pc = "await", !.task = {}])
  <2> DEFINE n == conn[c]
             m == [n EXCEPT !.pc = "await", !.task = {}]
             proof == The(n.identity)
  <2>a. PICK fresh : fresh = Order(c, n, task)
    OBVIOUS
  <2>0. To(c, m) /\ orders' = orders \union {fresh} /\ ~Expired(n)
    BY <1>5, <2>a
  <2>1. /\ IsSession(m) /\ m.pc = "await" /\ m.digest = n.digest /\ m.identity = n.identity
        /\ m.tx = n.tx /\ m.subs = n.subs
    BY <1>3 DEF Fit, Whole, IsSession
  <2>2. /\ proof \in n.identity /\ n.identity = {proof}
        /\ TaskGranted(task, Users, proof.user)
    <3>1. Whole(n) /\ n.identity # {}
      BY <1>1, <1>3 DEF Apt, Sound
    <3>2. proof \in n.identity /\ \A p \in n.identity : p = proof
      BY <3>1, IdentityUser
    <3> QED
      BY <1>1, <1>3, <3>2 DEF Apt, Conforms, Users
  <2>3. Valid(Users, proof, now)
    BY <2>0, <2>2 DEF Expired
  <2>4. /\ DOMAIN fresh = {"client", "proof", "number", "at", "waited", "task"}
        /\ fresh.client = c /\ fresh.proof = proof /\ fresh.number = active.number /\ fresh.at = now
        /\ fresh.waited = TRUE /\ fresh.task = task
    BY <2>a, SMTT(30) DEF Order
  <2> HIDE DEF n, m, proof
  <2>5. Apt(m, active.client)
    BY <1>3, <2>1 DEF Apt, Sound, Whole, Conforms, Bears, Holds, Fit, n
  <2>6. /\ Clients' = Clients /\ Users' = Users /\ active' = active
        /\ DOMAIN conn' = Clients' /\ conn'[c] = m /\ \A d \in Clients \ {c} : conn'[d] = conn[d]
    BY <1>1, <2>0, SecurityKept, MovedSessions DEF SecurityInv
  <2>7. \A order \in orders : IsOrder(order) /\ (order.waited => order.client # c)
    BY <1>1 DEF SecurityInv, Standing, IsOrder
  <2>8. ASSUME NEW order \in orders PROVE IsOrder(order)'
    BY <1>1, <2>6, <2>7, OrderKept DEF securityVars, IsOrder
  <2>9. IsOrder(fresh)'
    BY <2>1, <2>2, <2>3, <2>4, <2>6 DEF IsOrder
  <2>10. \A o1, o2 \in orders' : o1.waited /\ o2.waited /\ o1.client = o2.client => o1 = o2
    BY <2>0, <2>4, <2>7 DEF SecurityInv, Standing
  <2>11. Leased
    BY <1>1 DEF Leased, ClientLeased, LeasePcs
  <2>12. \A order \in orders' : IsOrder(order)'
    BY <2>0, <2>8, <2>9
  <2> QED
    BY <1>1, <2>0, <2>5, <2>10, <2>11, <2>12, OrderMoves
<1> QED
  BY <1>2, <1>4, <1>5

\* The tokens of a WATCH are granted, like the keys watched before.
LEMMA WatchedFit ==
    ASSUME NEW n, NEW client, Fit(n, client), n.identity # {}, NEW keys, NEW shard, NEW crossed,
           \A proof \in n.identity : Authorize(client.users, proof.user, WatchOf(keys))
    PROVE  Fit([n EXCEPT !.tx = Watched(@, keys, shard, crossed)], client)
<1> DEFINE tx == Watched(n.tx, keys, shard, crossed)
<1>1. IsTransaction(n.tx)
  BY DEF Fit, Whole
<1>2. DOMAIN tx = DOMAIN n.tx /\ tx.queue = n.tx.queue /\ tx.watched = n.tx.watched \union keys
  BY <1>1 DEF IsTransaction, Watched
<1> HIDE DEF tx
<1>3. IsTransaction(tx)
  BY <1>1, <1>2 DEF IsTransaction
<1>4. ASSUME NEW proof \in n.identity PROVE Granted(tx, client.users, proof.user)
  <2>1. Granted(n.tx, client.users, proof.user)
    BY DEF Fit, Bears, Holds
  <2>2. CASE n.tx.watched = {}
    <3>1. n.tx.watched \union keys = keys
      BY <2>2
    <3> QED
      BY <2>1, <3>1, <1>2 DEF Granted
  <2>3. CASE n.tx.watched # {}
    BY <2>1, <2>3, <1>2, WatchBoth DEF Granted
  <2> QED
    BY <2>2, <2>3
<1>5. Fit([n EXCEPT !.tx = tx], client)
  BY <1>3, <1>4, ReplacedFit
<1> QED
  BY <1>5 DEF tx

LEMMA CompleteStep ==
    ASSUME SecurityInv, NEW order \in orders, Complete(order), UNCHANGED internalVars
    PROVE  SecurityInv'
<1>1. orders' = orders \ {order} /\ UNCHANGED << securityVars, internalVars >> /\ Leased
  BY DEF Complete, Leased, ClientLeased
<1>2. loader.pc # "acks" /\ awaiting = {} /\ Generation = active
  BY <1>1, LeaseFacts DEF SecurityInv
<1>3. /\ \A other \in orders : IsOrder(other)
      /\ \A o1, o2 \in orders : o1.waited /\ o2.waited /\ o1.client = o2.client => o1 = o2
  BY DEF SecurityInv, Standing
<1>4. order.client \in Clients
  BY <1>3 DEF IsOrder
<1> DEFINE c == order.client
<1>5. \A o1, o2 \in orders' : o1.waited /\ o2.waited /\ o1.client = o2.client => o1 = o2
  BY <1>1, <1>3
<1>6. CASE ~order.waited
  <2>1. conn' = conn
    BY <1>6 DEF Complete
  <2>2. \A other \in orders' : IsOrder(other)'
    BY <1>1, <1>3, <2>1, OrderKept DEF securityVars
  <2>3. /\ Clients' = Clients /\ Links' = Links /\ Generation' = Generation /\ Users' = Users /\ Lane' = Lane
        /\ active' = active /\ loader' = loader /\ awaiting' = awaiting /\ updates' = updates /\ Authentic'
    BY <1>1, SecurityKept DEF SecurityInv
  <2>4. UNCHANGED << links, work >>
    BY <1>1 DEF internalVars
  <2>5. Quiet'
    BY <1>2, <2>3 DEF SecurityInv, Quiet
  <2>6. Conforming'
    BY <2>1, <2>3, <2>4, LinksConform DEF SecurityInv, Conforming
  <2>7. ASSUME NEW w \in work PROVE IsWork(w)'
    <3>1. IsWork(w)
      BY DEF SecurityInv, Standing
    <3> QED
      BY <3>1, <2>3 DEF IsWork
  <2>8. Standing'
    BY <1>5, <2>2, <2>4, <2>7 DEF Standing
  <2> QED
    BY <2>3, <2>5, <2>6, <2>8 DEF SecurityInv
<1>7. CASE order.waited
  <2>1. conn[c].pc = "await" /\ conn[c].identity = {order.proof} /\ TaskGranted(order.task, Users, order.proof.user)
    BY <1>3, <1>7 DEF IsOrder
  <2>2. Fit(conn[c], active.client)
    BY <1>2, <1>4, <2>1, OpenSession
  <2> DEFINE watching == [conn[c] EXCEPT !.tx = Watched(@, order.task.keys, order.task.shard, order.task.crossed)]
  <2>3. PICK granted \in BOOLEAN : To(c, Returned(conn[c], order.task, granted))
    BY <1>7 DEF Complete
  <2>4. ASSUME order.task.kind = "watch" PROVE Fit(watching, active.client)
    <3> DEFINE keys == order.task.keys
               shard == order.task.shard
               crossed == order.task.crossed
    <3>1. conn[c].identity # {} /\ \A proof \in conn[c].identity : Authorize(active.client.users, proof.user, WatchOf(keys))
      BY <2>1, <2>4 DEF TaskGranted, Users
    <3> HIDE DEF keys, shard, crossed
    <3>2. Fit([conn[c] EXCEPT !.tx = Watched(@, keys, shard, crossed)], active.client)
      BY <2>2, <3>1, WatchedFit
    <3> QED
      BY <3>2 DEF keys, shard, crossed
  <2>5. PICK m : To(c, m) /\ Apt(m, active.client)
    <3>1. Returned(conn[c], order.task, granted) =
            IF order.task.kind = "watch" /\ granted THEN Continue(watching) ELSE Continue(conn[c])
      BY DEF Returned
    <3> HIDE DEF watching
    <3>2. Apt(Returned(conn[c], order.task, granted), active.client)
      BY <2>2, <2>4, <3>1, ContinueApt
    <3> QED
      BY <2>3, <3>2
  <2>6. DOMAIN conn' = Clients /\ \A d \in Clients \ {c} : conn'[d] = conn[d]
    BY <1>4, <2>5 DEF To, SecurityInv, Conforming
  <2>7. ASSUME NEW other \in orders' PROVE IsOrder(other)'
    <3>1. IsOrder(other) /\ (other.waited => other.client # c)
      BY <1>1, <1>3, <1>7
    <3>2. other.waited => conn'[other.client] = conn[other.client]
      BY <3>1, <2>6 DEF IsOrder
    <3> QED
      BY <1>1, <3>1, <3>2, OrderKept DEF securityVars
  <2> QED
    BY <1>1, <1>4, <1>5, <2>5, <2>7, OrderMoves
<1> QED
  BY <1>6, <1>7

LEMMA TimeoutStep ==
    ASSUME SecurityInv, NEW c \in Clients, Timeout(c), UNCHANGED internalVars
    PROVE  SecurityInv'
<1> DEFINE Left(order) == IF order.client = c THEN [order EXCEPT !.waited = FALSE] ELSE order
<1>1. /\ conn[c].pc = "await" /\ To(c, Leave(conn[c])) /\ UNCHANGED << securityVars, internalVars >>
      /\ orders' = {Left(order) : order \in orders}
  BY DEF Timeout
<1>2. /\ Clients' = Clients /\ Links' = Links /\ Generation' = Generation /\ Users' = Users /\ Lane' = Lane
      /\ active' = active /\ loader' = loader /\ awaiting' = awaiting /\ updates' = updates /\ Authentic'
      /\ chosen' = chosen
  BY <1>1, SecurityKept DEF SecurityInv
<1>3. UNCHANGED << links, work >>
  BY <1>1 DEF internalVars
<1>4. /\ Sound(Leave(conn[c])) /\ Leave(conn[c]).pc = "closing"
      /\ c \notin awaiting => Conforms(Leave(conn[c]), Generation.client)
  <2>1. c \notin awaiting => conn[c].digest = Generation.client.transport.digest
    BY <1>1, OpenSession DEF Fit
  <2> QED
    BY <2>1, LeaveConforms
<1>5. /\ DOMAIN conn' = Clients' /\ conn'[c] = Leave(conn[c]) /\ \A d \in Clients \ {c} : conn'[d] = conn[d]
      /\ \A d \in Clients' : Sound(conn'[d])
  BY <1>1, <1>2, <1>4, MovedSessions
<1>6. ASSUME NEW order \in orders
      PROVE  /\ IsOrder(Left(order)) /\ (Left(order).waited => Left(order) = order /\ order.client # c)
  <2>1. IsOrder(order)
    BY DEF SecurityInv, Standing
  <2>2. CASE order.client = c
    <3>1. /\ DOMAIN Left(order) = DOMAIN order /\ Left(order).client = order.client /\ Left(order).proof = order.proof
          /\ Left(order).number = order.number /\ Left(order).at = order.at /\ ~Left(order).waited
          /\ Left(order).task = order.task
      BY <2>1, <2>2 DEF IsOrder
    <3> HIDE DEF Left
    <3> QED
      BY <2>1, <3>1 DEF IsOrder
  <2>3. CASE order.client # c
    BY <2>1, <2>3
  <2> QED
    BY <2>2, <2>3
<1> HIDE DEF Left
<1>7. ASSUME NEW order \in orders' PROVE IsOrder(order)'
  <2>1. IsOrder(order) /\ (order.waited => order.client # c)
    BY <1>1, <1>6
  <2>2. order.waited => conn'[order.client] = conn[order.client]
    BY <2>1, <1>5 DEF IsOrder
  <2> QED
    BY <2>1, <2>2, <1>2, OrderKept
<1>8. \A o1, o2 \in orders' : o1.waited /\ o2.waited /\ o1.client = o2.client => o1 = o2
  <2>1. \A order \in orders' : order.waited => order \in orders
    BY <1>1, <1>6
  <2> QED
    BY <2>1 DEF SecurityInv, Standing
<1>9. Quiet'
  <2>1. ASSUME loader.pc = "acks" PROVE ~Leased'
    <3>1. /\ orders = {} /\ work = {} /\ \A d \in Clients : conn[d].pc \notin LeasePcs
          /\ \A l \in Links : links[l].pc \notin LinkLeasePcs
      BY <2>1 DEF SecurityInv, Quiet, Leased, ClientLeased, LeasePcs, LinkLeasePcs
    <3>2. \A d \in Clients : conn'[d].pc \notin LeasePcs
      BY <3>1, <1>4, <1>5 DEF LeasePcs
    <3>3. orders' = {}
      BY <3>1, <1>1
    <3> QED
      BY <3>1, <3>2, <3>3, <1>2, <1>3 DEF Leased, ClientLeased, LeasePcs, LinkLeasePcs
  <2> QED
    BY <2>1, <1>2 DEF SecurityInv, Quiet
<1>10. \A d \in Clients' \ awaiting' : Conforms(conn'[d], Generation'.client)
  BY <1>2, <1>4, <1>5 DEF SecurityInv, Conforming
<1>11. Conforming'
  BY <1>2, <1>3, <1>5, <1>10, LinksConform DEF Conforming
<1>12. ASSUME NEW w \in work PROVE IsWork(w)'
  <2>1. IsWork(w)
    BY DEF SecurityInv, Standing
  <2> QED
    BY <2>1, <1>2 DEF IsWork
<1>13. Standing'
  BY <1>3, <1>7, <1>8, <1>12 DEF Standing
<1> QED
  BY <1>2, <1>9, <1>11, <1>13 DEF SecurityInv

---------------------------------------------------------------------------
\* Links

\* A link moves and nothing else does.
LEMMA LinkMoves ==
    ASSUME SecurityInv, NEW l \in Links, NEW k, LinkTo(l, k), UNCHANGED << securityVars, sessionVars >>,
           \A w \in work' : IsWork(w), loader.pc = "acks" => work' = {},
           IsLink(k), k.open => PeerFits(The(k.peer), The(Generation.internal)),
           loader.pc = "acks" => k.pc \notin LinkLeasePcs
    PROVE  SecurityInv'
<1>0. UNCHANGED << conn, orders >> /\ UNCHANGED securityVars
  BY DEF sessionVars
<1>1. /\ Clients' = Clients /\ Links' = Links /\ Generation' = Generation /\ Users' = Users /\ Lane' = Lane
      /\ active' = active /\ loader' = loader /\ awaiting' = awaiting /\ updates' = updates /\ Authentic'
      /\ chosen' = chosen
  BY <1>0, SecurityKept DEF SecurityInv
<1>2. DOMAIN links' = Links /\ links'[l] = k /\ \A j \in Links \ {l} : links'[j] = links[j]
  BY DEF LinkTo, SecurityInv, Conforming
<1>3. Quiet'
  <2>1. ASSUME loader.pc = "acks" PROVE ~Leased'
    <3>1. /\ orders = {} /\ \A d \in Clients : conn[d].pc \notin LeasePcs
          /\ \A j \in Links : links[j].pc \notin LinkLeasePcs
      BY <2>1 DEF SecurityInv, Quiet, Leased, ClientLeased, LeasePcs, LinkLeasePcs
    <3>2. \A j \in Links : links'[j].pc \notin LinkLeasePcs
      BY <2>1, <3>1, <1>2
    <3> QED
      BY <2>1, <3>1, <3>2, <1>0, <1>1 DEF Leased, ClientLeased, LeasePcs, LinkLeasePcs
  <2> QED
    BY <2>1, <1>1 DEF SecurityInv, Quiet
<1>4. /\ \A j \in Links' : IsLink(links'[j])
      /\ \A j \in Links' : links'[j].open => PeerFits(The(links'[j].peer), The(Generation'.internal))
  BY <1>1, <1>2 DEF SecurityInv, Conforming
<1>5. Conforming'
  BY <1>0, <1>1, <1>2, <1>4 DEF SecurityInv, Conforming
<1>6. ASSUME NEW order \in orders PROVE IsOrder(order)'
  <2>1. IsOrder(order)
    BY DEF SecurityInv, Standing
  <2> QED
    BY <1>0, <1>1, <2>1, OrderKept
<1>7. ASSUME NEW w \in work' PROVE IsWork(w)'
  <2>1. IsWork(w)
    OBVIOUS
  <2> QED
    BY <2>1, <1>1 DEF IsWork
<1>8. Standing'
  BY <1>0, <1>6, <1>7 DEF SecurityInv, Standing
<1> QED
  BY <1>1, <1>3, <1>5, <1>8 DEF SecurityInv

LEMMA WorkFacts ==
    ASSUME SecurityInv
    PROVE  (\A w \in work : IsWork(w)) /\ (loader.pc = "acks" => work = {})
BY DEF SecurityInv, Standing, Quiet, Leased

LEMMA UnlinkedIsLink == IsLink(Unlinked) /\ ~Unlinked.open /\ Unlinked.pc = "closed"
BY SMTT(30) DEF Unlinked, IsLink

LEMMA UnlinkMoves ==
    ASSUME SecurityInv, NEW l \in Links, LinkTo(l, Unlinked), UNCHANGED << securityVars, sessionVars, work >>
    PROVE  SecurityInv'
BY UnlinkedIsLink, WorkFacts, LinkMoves DEF LinkLeasePcs

LEMMA LinkFacts ==
    ASSUME SecurityInv, NEW l \in Links
    PROVE  /\ IsLink(links[l])
           /\ links[l].open => PeerFits(The(links[l].peer), The(Generation.internal))
           /\ links[l].pc \in LinkLeasePcs => loader.pc # "acks" /\ Generation = active
<1>1. links[l].pc \in LinkLeasePcs => Leased
  BY DEF Leased, LinkLeasePcs
<1> QED
  BY <1>1, LeaseFacts DEF SecurityInv, Conforming

\* A link that keeps its peer goes to another step.
LEMMA StepMoves ==
    ASSUME SecurityInv, NEW l \in Links, NEW k, LinkTo(l, k), UNCHANGED << securityVars, sessionVars >>,
           \A w \in work' : IsWork(w), loader.pc # "acks",
           DOMAIN k = DOMAIN links[l], k.open = links[l].open, k.peer = links[l].peer,
           k.pc \notin {"closed", "handshake"}
    PROVE  SecurityInv'
<1>1. IsLink(links[l]) /\ (links[l].open => PeerFits(The(links[l].peer), The(Generation.internal)))
  BY LinkFacts
<1>2. IsLink(k)
  BY <1>1 DEF IsLink
<1> QED
  BY <1>1, <1>2, LinkMoves

LEMMA LinkStart ==
    ASSUME SecurityInv, NEW l \in Links, Link(l)
    PROVE  SecurityInv'
<1> DEFINE k == [Unlinked EXCEPT !.pc = "handshake"]
<1>1. LinkTo(l, k) /\ UNCHANGED << securityVars, sessionVars, work >> /\ loader.pc # "acks"
  BY DEF Link, OthersSame, CanLease
<1>2. IsLink(k) /\ ~k.open
  BY SMTT(30) DEF Unlinked, IsLink
<1> HIDE DEF k
<1> QED
  BY <1>1, <1>2, WorkFacts, LinkMoves

LEMMA HandshakePeer ==
    ASSUME NEW lane, NEW certificate, NEW inbound,
           IF inbound THEN AcceptWithPeer(lane, certificate, now) ELSE ConnectWithPeer(lane, certificate, now)
    PROVE  PeerFits(PeerOf(lane, certificate, inbound), lane)
<1> DEFINE peer == PeerOf(lane, certificate, inbound)
<1>1. /\ peer.certificate = certificate /\ peer.inbound = inbound /\ peer.own = lane.own
      /\ inbound => peer.roles = RolesOf(lane.policy, certificate.uri)
  BY SMTT(30) DEF PeerOf
<1> HIDE DEF peer
<1>2. PeerFits(peer, lane)
  BY <1>1 DEF PeerFits, AcceptWithPeer, ConnectWithPeer, Verifies
<1> QED
  BY <1>2 DEF peer

LEMMA LinkHandshakeStep ==
    ASSUME SecurityInv, NEW l \in Links, LinkHandshake(l)
    PROVE  SecurityInv'
<1> DEFINE proven == IF Inbound(l) THEN AcceptWithPeer(Lane, Certificate(l), now)
                     ELSE ConnectWithPeer(Lane, Certificate(l), now)
           peer == PeerOf(Lane, Certificate(l), Inbound(l))
           steps == IF Inbound(l) THEN <<Read("Request")>> ELSE FollowSteps
           k == [Unlinked EXCEPT !.pc = "ready", !.open = TRUE, !.peer = {peer}, !.steps = steps]
<1>1. UNCHANGED << securityVars, sessionVars, work >> /\ links[l].pc \in LinkLeasePcs
  BY DEF LinkHandshake, OthersSame, LinkLeasePcs
<1>2. LinkTo(l, IF proven THEN k ELSE Unlinked)
  BY DEF LinkHandshake
<1>3. CASE ~proven
  <2>1. LinkTo(l, Unlinked)
    <3> HIDE DEF proven, k
    <3> QED
      BY <1>2, <1>3
  <2> QED
    BY <1>1, <2>1, UnlinkMoves
<1>4. CASE proven
  <2>1. LinkTo(l, k)
    <3> HIDE DEF proven, k
    <3> QED
      BY <1>2, <1>4
  <2>2. PeerFits(peer, Lane)
    BY <1>4, HandshakePeer
  <2> HIDE DEF peer, steps, proven
  <2>3. IsLink(k) /\ k.peer = {peer} /\ k.pc = "ready"
    BY SMTT(30) DEF Unlinked, IsLink
  <2> HIDE DEF k
  <2>4. The(k.peer) = peer
    BY <2>3 DEF The
  <2>5. loader.pc # "acks" /\ The(Generation.internal) = Lane
    BY <1>1, LinkFacts DEF Lane
  <2> QED
    BY <1>1, <2>1, <2>2, <2>3, <2>4, <2>5, WorkFacts, LinkMoves
<1> QED
  BY <1>3, <1>4

LEMMA AdmitReadStep ==
    ASSUME SecurityInv, NEW l \in Links, NEW frame, AdmitRead(l, frame)
    PROVE  SecurityInv'
<1> DEFINE k == [links[l] EXCEPT !.pc = "frame", !.frame = {frame}]
<1>1. UNCHANGED << securityVars, sessionVars, work >>
  BY DEF AdmitRead, OthersSame
<1>2. LinkTo(l, Unlinked) \/ (LinkTo(l, k) /\ loader.pc # "acks")
  BY DEF AdmitRead, CanLease
<1>3. /\ DOMAIN k = DOMAIN links[l] /\ k.open = links[l].open /\ k.peer = links[l].peer /\ k.pc = "frame"
  BY LinkFacts DEF IsLink
<1> HIDE DEF k
<1> QED
  BY <1>1, <1>2, <1>3, UnlinkMoves, WorkFacts, StepMoves

LEMMA FinishReadStep ==
    ASSUME SecurityInv, NEW l \in Links, FinishRead(l)
    PROVE  SecurityInv'
<1>1. UNCHANGED << securityVars, sessionVars, work >> /\ links[l].pc \in LinkLeasePcs
  BY DEF FinishRead, OthersSame, LinkLeasePcs
<1>2. PICK k : LinkTo(l, k) /\ \E m : k = Delivered(links[l], m)
  BY DEF FinishRead
<1>3. CASE k = Unlinked
  BY <1>1, <1>2, <1>3, UnlinkMoves
<1>4. CASE k # Unlinked
  <2>1. PICK m : k = Delivered(links[l], m)
    BY <1>2
  <2>2. \/ k = [links[l] EXCEPT !.pc = "ready", !.frame = {}, !.request = {RequestOf(m)}, !.steps = Serve(m)]
        \/ k = [links[l] EXCEPT !.pc = "ready", !.frame = {}, !.steps = Tail(@)]
    BY <1>4, <2>1 DEF Delivered
  <2>3. DOMAIN k = DOMAIN links[l] /\ k.open = links[l].open /\ k.peer = links[l].peer /\ k.pc = "ready"
    BY <2>2, LinkFacts DEF IsLink
  <2> QED
    BY <1>1, <1>2, <2>3, LinkFacts, WorkFacts, StepMoves
<1> QED
  BY <1>3, <1>4

LEMMA AdmitWriteStep ==
    ASSUME SecurityInv, NEW l \in Links, AdmitWrite(l)
    PROVE  SecurityInv'
<1> DEFINE k == [links[l] EXCEPT !.pc = "frame"]
<1>1. UNCHANGED << securityVars, sessionVars, work >> /\ loader.pc # "acks"
  BY DEF AdmitWrite, OthersSame, CanLease
<1>2. LinkTo(l, Unlinked) \/ LinkTo(l, k)
  BY DEF AdmitWrite
<1>3. /\ DOMAIN k = DOMAIN links[l] /\ k.open = links[l].open /\ k.peer = links[l].peer /\ k.pc = "frame"
  BY LinkFacts DEF IsLink
<1> HIDE DEF k
<1> QED
  BY <1>1, <1>2, <1>3, UnlinkMoves, WorkFacts, StepMoves

LEMMA FinishWriteStep ==
    ASSUME SecurityInv, NEW l \in Links, FinishWrite(l)
    PROVE  SecurityInv'
<1>1. UNCHANGED << securityVars, sessionVars, work >> /\ links[l].pc \in LinkLeasePcs
  BY DEF FinishWrite, OthersSame, LinkLeasePcs
<1>2. PICK message, frame : LinkTo(l, Sent(links[l], message, frame))
  BY DEF FinishWrite
<1> DEFINE k == Sent(links[l], message, frame)
<1>3. CASE k = Unlinked
  BY <1>1, <1>2, <1>3, UnlinkMoves
<1>4. CASE k # Unlinked
  <2>1. k = [links[l] EXCEPT !.pc = "ready", !.steps = Tail(@),
                             !.written = Append(@, [message |-> message, frame |-> frame])]
    BY <1>4 DEF Sent
  <2>2. DOMAIN k = DOMAIN links[l] /\ k.open = links[l].open /\ k.peer = links[l].peer /\ k.pc = "ready"
    BY <2>1, LinkFacts DEF IsLink
  <2> HIDE DEF k
  <2> QED
    BY <1>1, <1>2, <2>2, LinkFacts, WorkFacts, StepMoves DEF k
<1> QED
  BY <1>3, <1>4

LEMMA BeginOperationStep ==
    ASSUME SecurityInv, NEW l \in Links, BeginOperation(l)
    PROVE  SecurityInv'
<1> DEFINE k == [links[l] EXCEPT !.pc = "operate"]
<1>1. UNCHANGED << securityVars, sessionVars, work >> /\ loader.pc # "acks"
  BY DEF BeginOperation, OthersSame, CanLease
<1>2. LinkTo(l, Unlinked) \/ LinkTo(l, k)
  BY DEF BeginOperation
<1>3. /\ DOMAIN k = DOMAIN links[l] /\ k.open = links[l].open /\ k.peer = links[l].peer /\ k.pc = "operate"
  BY LinkFacts DEF IsLink
<1> HIDE DEF k
<1> QED
  BY <1>1, <1>2, <1>3, UnlinkMoves, WorkFacts, StepMoves

LEMMA SubmitOperationStep ==
    ASSUME SecurityInv, NEW l \in Links, SubmitOperation(l)
    PROVE  SecurityInv'
<1> DEFINE k == [links[l] EXCEPT !.pc = "await"]
           peer == The(links[l].peer)
<1>1. UNCHANGED << securityVars, sessionVars >> /\ links[l].pc \in LinkLeasePcs
  BY DEF SubmitOperation, OthersSame, LinkLeasePcs
<1>2. PICK w : w = [link |-> l, op |-> NextStep(links[l]).op, number |-> active.number,
                    peer |-> peer, request |-> links[l].request, at |-> now, waited |-> TRUE]
  OBVIOUS
<1>3. CASE LinkTo(l, Unlinked) /\ UNCHANGED work
  BY <1>1, <1>3, UnlinkMoves
<1>4. CASE AdmittedNow(links[l]) /\ LinkTo(l, k) /\ work' = work \union {w}
  <2>1. /\ DOMAIN w = {"link", "op", "number", "peer", "request", "at", "waited"}
        /\ w.number = active.number /\ w.peer = peer /\ w.request = links[l].request /\ w.at = now
    BY <1>2, SMTT(30)
  <2>2. Current(peer.validity, now)
    BY <1>4 DEF AdmittedNow, LinkAdmitted, RevalidatePeer
  <2>3. peer.inbound => \E type \in links[l].request :
          AuthorizeInternalRequest(Lane.policy, peer.certificate.uri, type)
    BY <1>4 DEF AdmittedNow, LinkAdmitted
  <2> HIDE DEF peer
  <2>4. IsWork(w)
    BY <2>1, <2>2, <2>3 DEF IsWork
  <2>5. /\ DOMAIN k = DOMAIN links[l] /\ k.open = links[l].open /\ k.peer = links[l].peer /\ k.pc = "await"
    BY LinkFacts DEF IsLink
  <2> HIDE DEF k
  <2>6. \A x \in work' : IsWork(x)
    BY <1>4, <2>4, WorkFacts
  <2> QED
    BY <1>1, <1>4, <2>5, <2>6, LinkFacts, StepMoves
<1> QED
  BY <1>2, <1>3, <1>4 DEF SubmitOperation

LEMMA FinishOperationStep ==
    ASSUME SecurityInv, NEW w \in work, FinishOperation(w)
    PROVE  SecurityInv'
<1>1. work' = work \ {w} /\ UNCHANGED << securityVars, conn, orders >> /\ Leased
  BY DEF FinishOperation, Leased
<1>2. loader.pc # "acks" /\ awaiting = {} /\ Generation = active
  BY <1>1, LeaseFacts DEF SecurityInv
<1>3. /\ Clients' = Clients /\ Links' = Links /\ Generation' = Generation /\ Users' = Users /\ Lane' = Lane
      /\ active' = active /\ loader' = loader /\ awaiting' = awaiting /\ updates' = updates /\ Authentic'
      /\ chosen' = chosen
  BY <1>1, SecurityKept DEF SecurityInv
<1>4. DOMAIN links' = DOMAIN links /\ \A l \in Links : IsLink(links'[l]) /\ links'[l].open = links[l].open
                                                     /\ links'[l].peer = links[l].peer
  <2>1. \A l \in Links : IsLink(links[l])
    BY LinkFacts
  <2>2. CASE links' = links
    BY <2>1, <2>2
  <2>3. CASE links' # links
    <3> DEFINE k == [links[w.link] EXCEPT !.pc = "ready", !.steps = AfterOperation(w.op)]
    <3>1. links' = [links EXCEPT ![w.link] = k]
      BY <2>3 DEF FinishOperation
    <3>2. w.link \in Links => IsLink(k) /\ k.open = links[w.link].open /\ k.peer = links[w.link].peer
      BY <2>1 DEF IsLink
    <3> HIDE DEF k
    <3> QED
      BY <2>1, <3>1, <3>2 DEF SecurityInv, Conforming
  <2> QED
    BY <2>2, <2>3
<1>5. Quiet'
  BY <1>2, <1>3 DEF SecurityInv, Quiet
<1>6. Conforming'
  BY <1>1, <1>3, <1>4 DEF SecurityInv, Conforming
<1>7. ASSUME NEW order \in orders PROVE IsOrder(order)'
  <2>1. IsOrder(order)
    BY DEF SecurityInv, Standing
  <2> QED
    BY <1>1, <1>3, <2>1, OrderKept
<1>8. ASSUME NEW x \in work' PROVE IsWork(x)'
  <2>1. IsWork(x)
    BY <1>1, WorkFacts
  <2> QED
    BY <2>1, <1>3 DEF IsWork
<1>9. Standing'
  BY <1>1, <1>7, <1>8 DEF SecurityInv, Standing
<1> QED
  BY <1>3, <1>5, <1>6, <1>9 DEF SecurityInv

LEMMA LoseLinkStep ==
    ASSUME SecurityInv, NEW l \in Links, LoseLink(l)
    PROVE  SecurityInv'
<1> DEFINE Left(w) == IF w.link = l THEN [w EXCEPT !.waited = FALSE] ELSE w
<1>1. LinkTo(l, Unlinked) /\ UNCHANGED << securityVars, sessionVars >> /\ work' = {Left(w) : w \in work}
  BY DEF LoseLink, OthersSame
<1>2. ASSUME NEW w \in work PROVE IsWork(Left(w))
  <2>1. IsWork(w)
    BY WorkFacts
  <2>2. CASE w.link = l
    <3>1. /\ DOMAIN Left(w) = DOMAIN w /\ Left(w).number = w.number /\ Left(w).peer = w.peer
          /\ Left(w).request = w.request /\ Left(w).at = w.at
      BY <2>1, <2>2 DEF IsWork
    <3> HIDE DEF Left
    <3> QED
      BY <2>1, <3>1 DEF IsWork
  <2>3. CASE w.link # l
    BY <2>1, <2>3
  <2> QED
    BY <2>2, <2>3
<1> HIDE DEF Left
<1>3. (\A w \in work' : IsWork(w)) /\ (loader.pc = "acks" => work' = {})
  BY <1>1, <1>2, WorkFacts
<1> QED
  BY <1>1, <1>3, UnlinkedIsLink, LinkMoves DEF LinkLeasePcs

LEMMA EndLinkStep ==
    ASSUME SecurityInv, NEW l \in Links, EndLink(l)
    PROVE  SecurityInv'
<1>1. LinkTo(l, Unlinked) /\ UNCHANGED << securityVars, sessionVars, work >>
  BY DEF EndLink, OthersSame
<1> QED
  BY <1>1, UnlinkMoves

LEMMA ExpireLinkStep ==
    ASSUME SecurityInv, NEW l \in Links, ExpireLink(l)
    PROVE  SecurityInv'
<1> DEFINE k == [links[l] EXCEPT !.open = FALSE]
<1>1. LinkTo(l, k) /\ UNCHANGED << securityVars, sessionVars, work >>
  BY DEF ExpireLink, OthersSame
<1>2. IsLink(k) /\ ~k.open /\ k.pc = links[l].pc
  BY LinkFacts DEF IsLink
<1>3. links[l].pc \in LinkLeasePcs => loader.pc # "acks"
  BY LinkFacts
<1> HIDE DEF k
<1> QED
  BY <1>1, <1>2, <1>3, WorkFacts, LinkMoves

---------------------------------------------------------------------------
\* The directory, the loader and the activation

\* What is open stays, and so does the generation it conforms to.
LEMMA GenerationStays ==
    ASSUME SecurityInv, UNCHANGED << chosen, awaiting, conn, orders, links, work >>, Authentic', Quiet',
           Generation' = Generation, active' = active \/ (orders = {} /\ work = {})
    PROVE  SecurityInv'
<1>1. Clients' = Clients /\ Links' = Links
  BY DEF Clients, Links, Scenario
<1>2. Conforming'
  BY <1>1 DEF SecurityInv, Conforming
<1>3. CASE active' = active
  <2>1. Users' = Users /\ Lane' = Lane
    BY <1>3 DEF Users, Lane
  <2>2. Standing'
    BY <1>1, <1>3, <2>1, OrdersStand
  <2> QED
    BY <1>2, <2>2 DEF SecurityInv
<1>4. CASE orders = {} /\ work = {}
  <2>1. Standing'
    BY <1>4 DEF Standing
  <2> QED
    BY <1>2, <2>1 DEF SecurityInv
<1> QED
  BY <1>3, <1>4

\* The loader moves without an activation.
LEMMA LoaderMoves ==
    ASSUME SecurityInv, UNCHANGED << chosen, active, updates, awaiting, sessionVars, internalVars >>, Authentic',
           loader' = loader \/ (loader.pc # "acks" /\ loader'.pc # "acks")
    PROVE  SecurityInv'
<1>1. UNCHANGED << chosen, active, updates, awaiting, conn, orders, links, work >>
  BY DEF sessionVars, internalVars
<1>2. Generation' = Generation
  BY <1>1 DEF Generation
<1>3. Leased' = Leased
  BY <1>1 DEF Leased, ClientLeased, Clients, Links, Scenario
<1>4. Quiet'
  BY <1>1, <1>3 DEF SecurityInv, Quiet
<1> QED
  BY <1>1, <1>2, <1>4, GenerationStays

LEMMA ReleasesStay ==
    ASSUME UNCHANGED chosen
    PROVE  /\ Releases' = Releases
           /\ \A i : Manifest(i)' = Manifest(i) /\ Release(i)' = Release(i)
BY DEF Releases, Scenario, Manifest, Release

LEMMA DirectoryMoves ==
    ASSUME SecurityInv, UNCHANGED << chosen, loader, active, updates, awaiting, sessionVars, internalVars >>,
           directory' \in [{"manifest"} \union Files -> DOMAIN Releases]
    PROVE  SecurityInv'
<1>1. Authentic'
  BY ReleasesStay DEF SecurityInv, Authentic, Succeeds
<1> QED
  BY <1>1, LoaderMoves

LEMMA PutStep ==
    ASSUME SecurityInv, Put, UNCHANGED << sessionVars, internalVars >>
    PROVE  SecurityInv'
<1>1. directory \in [{"manifest"} \union Files -> DOMAIN Releases]
  BY DEF SecurityInv, Authentic
<1>2. PICK some : /\ \A file \in some : directory[file] < Len(Releases)
                  /\ directory' = [file \in DOMAIN directory |->
                                     IF file \in some THEN directory[file] + 1 ELSE directory[file]]
  BY DEF Put
<1>3. Len(Releases) \in Nat /\ DOMAIN Releases = 1..Len(Releases)
  BY ScenarioFacts DEF SecurityInv
<1>4. ASSUME NEW file \in DOMAIN directory
      PROVE  (IF file \in some THEN directory[file] + 1 ELSE directory[file]) \in DOMAIN Releases
  <2>1. directory[file] \in DOMAIN Releases
    BY <1>1
  <2>2. file \in some => directory[file] < Len(Releases)
    BY <1>2
  <2>3. \A i \in 1..Len(Releases) : i < Len(Releases) => i + 1 \in 1..Len(Releases)
    BY <1>3, SMTT(30)
  <2> QED
    BY <2>1, <2>2, <2>3, <1>3
<1>5. directory' \in [{"manifest"} \union Files -> DOMAIN Releases]
  BY <1>1, <1>2, <1>4
<1>6. UNCHANGED << chosen, loader, active, updates, awaiting, sessionVars, internalVars >>
  BY DEF Put
<1> QED
  BY <1>5, <1>6, DirectoryMoves

\* A load that succeeds yields the release its manifest belongs to.
IsLoad(l, i) ==
    \/ l.pc = "waiting"
    \/ l.pc = "lock" /\ DOMAIN l = {"pc", "replacement"} /\ l.replacement = Release(i)

LEMMA LoadedIsRelease ==
    ASSUME NEW i, NEW after, NEW files
    PROVE  IsLoad(Loaded(Manifest(i), after, files), i)
<1> DEFINE l == Loaded(Manifest(i), after, files)
<1>1. CASE ~Validate(Manifest(i), after, files, Scenario.outgoing, now)
  BY <1>1, SMTT(30) DEF Loaded, Waiting, IsLoad
<1>2. CASE Validate(Manifest(i), after, files, Scenario.outgoing, now)
  <2>1. Manifest(i).files.client = files.client /\ Manifest(i).files.internal = files.internal
    BY <1>2 DEF Validate, Files
  <2>2. l = [pc |-> "lock", replacement |-> GenerationOf(Manifest(i), files)]
    BY <1>2 DEF Loaded
  <2>3. GenerationOf(Manifest(i), files) = Release(i)
    BY <2>1 DEF GenerationOf, Release
  <2>4. l.pc = "lock" /\ DOMAIN l = {"pc", "replacement"} /\ l.replacement = GenerationOf(Manifest(i), files)
    BY <2>2, SMTT(30)
  <2> HIDE DEF l
  <2> QED
    BY <2>3, <2>4 DEF IsLoad, l
<1> QED
  BY <1>1, <1>2

\* The loader of a release moves on.
LEMMA LoaderAuthentic ==
    ASSUME SecurityInv, UNCHANGED << chosen, directory, active, updates, awaiting, sessionVars, internalVars >>,
           loader.pc # "acks",
           \/ loader'.pc = "waiting"
           \/ /\ loader'.pc \in {"client", "internal", "manifest"}
              /\ \E i \in DOMAIN Releases : loader'.before = Manifest(i)
           \/ /\ loader'.pc = "lock" /\ DOMAIN loader' = {"pc", "replacement"}
              /\ \E i \in DOMAIN Releases : loader'.replacement = Release(i)
    PROVE  SecurityInv'
<1>1. Authentic'
  BY ReleasesStay DEF SecurityInv, Authentic
<1>2. loader'.pc # "acks"
  OBVIOUS
<1> QED
  BY <1>1, <1>2, LoaderMoves

LEMMA PollTickStep ==
    ASSUME SecurityInv, PollTick, UNCHANGED << sessionVars, internalVars >>
    PROVE  SecurityInv'
<1>1. UNCHANGED << chosen, directory, active, updates, awaiting, sessionVars, internalVars >> /\ loader.pc # "acks"
  BY DEF PollTick
<1>2. PICK i \in DOMAIN Releases : i = directory.manifest
  BY DEF SecurityInv, Authentic
<1>3. PICK before : before = Manifest(i)
  OBVIOUS
<1>4. \/ loader' = Loaded(before, before, before.files)
      \/ loader' = [pc |-> "client", before |-> before]
  BY <1>2, <1>3 DEF PollTick
<1>5. CASE loader' = Loaded(before, before, before.files)
  <2>1. \/ loader'.pc = "waiting"
        \/ loader'.pc = "lock" /\ DOMAIN loader' = {"pc", "replacement"} /\ loader'.replacement = Release(i)
    <3>1. IsLoad(Loaded(Manifest(i), before, before.files), i)
      BY LoadedIsRelease
    <3> QED
      BY <1>3, <1>5, <3>1 DEF IsLoad
  <2> QED
    BY <1>1, <2>1, LoaderAuthentic
<1>6. CASE loader' = [pc |-> "client", before |-> before]
  <2>1. loader'.pc = "client" /\ loader'.before = Manifest(i)
    BY <1>3, <1>6
  <2> QED
    BY <1>1, <2>1, LoaderAuthentic
<1> QED
  BY <1>4, <1>5, <1>6

LEMMA ReadFilesStep ==
    ASSUME SecurityInv, ReadClientFiles \/ ReadInternalFiles, UNCHANGED << sessionVars, internalVars >>
    PROVE  SecurityInv'
<1>1. /\ UNCHANGED << chosen, directory, active, updates, awaiting, sessionVars, internalVars >>
      /\ loader.pc \in {"client", "internal"}
  BY DEF ReadClientFiles, ReadInternalFiles
<1>2. \E i \in DOMAIN Releases : loader.before = Manifest(i)
  BY <1>1 DEF SecurityInv, Authentic
<1>3. loader'.pc \in {"internal", "manifest"} /\ loader'.before = loader.before
  BY SMTT(30) DEF ReadClientFiles, ReadInternalFiles
<1>4. loader.pc # "acks" /\ loader'.pc \in {"client", "internal", "manifest"}
  BY <1>1, <1>3
<1> QED
  BY <1>1, <1>2, <1>3, <1>4, LoaderAuthentic

LEMMA ReadManifestAgainStep ==
    ASSUME SecurityInv, ReadManifestAgain, UNCHANGED << sessionVars, internalVars >>
    PROVE  SecurityInv'
<1>1. /\ UNCHANGED << chosen, directory, active, updates, awaiting, sessionVars, internalVars >>
      /\ loader.pc = "manifest" /\ loader.pc # "acks"
      /\ loader' = Loaded(loader.before, Manifest(directory.manifest), loader.files)
  BY DEF ReadManifestAgain
<1>2. PICK i \in DOMAIN Releases : loader.before = Manifest(i)
  BY <1>1 DEF SecurityInv, Authentic
<1>3. \/ loader'.pc = "waiting"
      \/ loader'.pc = "lock" /\ DOMAIN loader' = {"pc", "replacement"} /\ loader'.replacement = Release(i)
  <2>1. IsLoad(Loaded(Manifest(i), Manifest(directory.manifest), loader.files), i)
    BY LoadedIsRelease
  <2> QED
    BY <1>1, <1>2, <2>1 DEF IsLoad
<1> QED
  BY <1>1, <1>3, LoaderAuthentic

LEMMA SwapStep ==
    ASSUME SecurityInv, Swap, UNCHANGED << sessionVars, internalVars >>
    PROVE  SecurityInv'
<1>1. /\ loader.pc = "acks" /\ awaiting = {} /\ active' = loader.replacement /\ loader'.pc = "waiting"
      /\ UNCHANGED << chosen, directory, updates, awaiting, conn, orders, links, work >>
  BY DEF Swap, Waiting, sessionVars, internalVars
<1>2. orders = {} /\ work = {}
  BY <1>1 DEF SecurityInv, Quiet, Leased, ClientLeased
<1>3. Generation' = Generation
  BY <1>1 DEF Generation
<1>4. Authentic'
  BY <1>1, ReleasesStay DEF SecurityInv, Authentic
<1>5. Quiet'
  BY <1>1 DEF SecurityInv, Quiet
<1> QED
  BY <1>1, <1>2, <1>3, <1>4, <1>5, GenerationStays

LEMMA RefusedStep ==
    ASSUME SecurityInv, Activate, ~Replaceable(loader.replacement)
    PROVE  SecurityInv'
<1>1. /\ loader.pc # "acks" /\ loader'.pc = "waiting"
      /\ UNCHANGED << chosen, directory, active, updates, awaiting, sessionVars, work >>
  <2>1. loader.pc = "lock" /\ loader' = Waiting
    BY DEF Activate, BeginActivation
  <2>2. UNCHANGED << chosen, directory, active, updates, awaiting, sessionVars, work >>
    BY DEF Activate, BeginActivation
  <2> QED
    BY <2>1, <2>2 DEF Waiting
<1>2. links' = links
  BY <1>1 DEF Activate
<1> QED
  BY <1>1, <1>2, LoaderAuthentic DEF internalVars

\* The links an activation leaves open fit the replacement.
LEMMA RevalidatedFits ==
    ASSUME \A l \in Links : IsLink(links[l]), NEW replacement, NEW l \in Links,
           NEW k, k = RevalidatedLinks(replacement)[l]
    PROVE  /\ IsLink(k) /\ k.pc = links[l].pc /\ k.peer = links[l].peer
           /\ k.open => PeerFits(The(k.peer), The(replacement.internal))
<1> DEFINE peer == The(links[l].peer)
<1> DEFINE lane == The(replacement.internal)
<1>0. IsLink(links[l])
  OBVIOUS
<1>1. CASE l \in RegisteredLinks /\ ~RevalidatePeer(lane, peer, now)
  <2>1. k = [links[l] EXCEPT !.open = FALSE]
    BY <1>1 DEF RevalidatedLinks
  <2> QED
    BY <1>0, <2>1 DEF IsLink
<1>2. CASE ~(l \in RegisteredLinks /\ ~RevalidatePeer(lane, peer, now))
  <2>1. k = links[l]
    BY <1>2 DEF RevalidatedLinks
  <2>2. ASSUME links[l].open PROVE RevalidatePeer(lane, peer, now)
    BY <1>0, <1>2, <2>2 DEF IsLink, RegisteredLinks
  <2>3. RevalidatePeer(lane, peer, now) => PeerFits(peer, lane)
    BY DEF RevalidatePeer, PeerFits, Verifies
  <2> QED
    BY <1>0, <2>1, <2>2, <2>3
<1> QED
  BY <1>1, <1>2

LEMMA ActivatedStep ==
    ASSUME SecurityInv, Activate, Replaceable(loader.replacement)
    PROVE  SecurityInv'
<1> DEFINE next == loader.replacement
<1>1. /\ loader.pc = "lock" /\ loader' = [loader EXCEPT !.pc = "acks"] /\ ~Leased
      /\ updates' = Registered /\ awaiting' = Registered
      /\ UNCHANGED << chosen, directory, active, conn, orders, work >>
  BY DEF Activate, BeginActivation, sessionVars
<1>2. DOMAIN loader = {"pc", "replacement"} /\ \E i \in DOMAIN Releases : loader.replacement = Release(i)
  BY <1>1 DEF SecurityInv, Authentic
<1>3. loader'.pc = "acks" /\ loader'.replacement = next /\ DOMAIN loader' = {"pc", "replacement"}
  BY <1>1, <1>2
<1>4. links' = RevalidatedLinks(next)
  BY <1>3 DEF Activate
<1>5. Clients' = Clients /\ Links' = Links /\ Generation' = next
  BY <1>1, <1>3 DEF Clients, Links, Scenario, Generation
<1>6. Succeeds(next)
  BY DEF Replaceable, ReplacementOf, Succeeds
<1>7. Authentic'
  <2>1. Succeeds(next)'  <=> Succeeds(loader'.replacement)
    BY <1>1, <1>3 DEF Succeeds
  <2>2. (loader'.replacement).number > active'.number
        /\ ((loader'.replacement).internal = {}) = (active'.internal = {})
    BY <1>1, <1>3, <1>6 DEF Succeeds
  <2> QED
    BY <1>1, <1>2, <1>3, <2>2, ReleasesStay DEF SecurityInv, Authentic, Succeeds
<1>8. \A l \in Links : IsLink(links[l])
  BY DEF SecurityInv, Conforming
<1>9. /\ DOMAIN links' = Links
      /\ \A l \in Links : /\ IsLink(links'[l]) /\ links'[l].pc = links[l].pc
                          /\ links'[l].open => PeerFits(The(links'[l].peer), The(next.internal))
  <2>1. DOMAIN links' = Links
    BY <1>4 DEF RevalidatedLinks
  <2>2. ASSUME NEW l \in Links
        PROVE  /\ IsLink(links'[l]) /\ links'[l].pc = links[l].pc
               /\ links'[l].open => PeerFits(The(links'[l].peer), The(next.internal))
    BY <1>4, <1>8, RevalidatedFits
  <2> QED
    BY <2>1, <2>2
<1>10. ~Leased'
  BY <1>1, <1>5, <1>9 DEF Leased, ClientLeased
<1>11. Quiet'
  BY <1>1, <1>3, <1>10 DEF Quiet
<1>12. ASSUME NEW c \in Clients \ Registered PROVE Conforms(conn[c], next.client)
  <2>1. conn[c].pc = "closed"
    BY <1>1, <1>12 DEF Registered, Leased, ClientLeased
  <2>2. conn[c].identity = {}
    BY <2>1 DEF SecurityInv, Conforming, Sound
  <2> QED
    BY <2>1, <2>2 DEF Conforms, Bears
<1>13. Conforming'
  <2> HIDE DEF next
  <2>1. \A c \in Clients' : Sound(conn'[c])
    BY <1>1, <1>5 DEF SecurityInv, Conforming
  <2>2. DOMAIN conn' = Clients'
    BY <1>1, <1>5 DEF SecurityInv, Conforming
  <2>3. \A c \in Clients' \ awaiting' : Conforms(conn'[c], Generation'.client)
    BY <1>1, <1>5, <1>12
  <2> QED
    BY <1>5, <1>9, <2>1, <2>2, <2>3 DEF Conforming
<1>14. Standing'
  BY <1>1 DEF Standing, Leased, ClientLeased
<1> QED
  BY <1>7, <1>11, <1>13, <1>14 DEF SecurityInv

---------------------------------------------------------------------------
\* The invariant holds

LEMMA SecurityInvInit ==
    ASSUME Init
    PROVE  SecurityInv
<1>1. /\ chosen \in DOMAIN Scenarios /\ directory = [file \in {"manifest"} \union Files |-> 1]
      /\ loader.pc = "waiting" /\ active = Release(1) /\ updates = {} /\ awaiting = {}
      /\ conn = [c \in Clients |-> Disconnected] /\ orders = {}
      /\ links = [l \in Links |-> Unlinked] /\ work = {}
  BY DEF Init, InitSecurity, InitSession, InitInternal, Waiting
<1>2. 1 \in DOMAIN Releases
  <2>1. Releases \in Seq(Range(Releases)) /\ Releases # <<>>
    BY <1>1, ScenariosAssumption DEF Releases, Scenario
  <2> QED
    BY <2>1, SMTT(30)
<1>3. Authentic
  BY <1>1, <1>2 DEF Authentic
<1>4. Quiet
  BY <1>1 DEF Quiet
<1>5. IsLink(Unlinked) /\ ~Unlinked.open
  BY UnlinkedIsLink
<1>6. Sound(Disconnected) /\ Conforms(Disconnected, Generation.client)
  BY FreshSession
<1>7. Conforming
  BY <1>1, <1>5, <1>6 DEF Conforming
<1>8. Standing
  BY <1>1 DEF Standing
<1> QED
  BY <1>3, <1>4, <1>7, <1>8 DEF SecurityInv

LEMMA SecurityInvNext ==
    ASSUME SecurityInv, [Next]_vars
    PROVE  SecurityInv'
<1>1. CASE (Advance \/ Stop) /\ UNCHANGED << sessionVars, internalVars >>
  <2>1. UNCHANGED << chosen, loader, active, updates, awaiting, directory >>
    BY <1>1 DEF Advance, Stop
  <2> QED
    BY <1>1, <2>1, DirectoryMoves DEF SecurityInv, Authentic
<1>2. CASE (Put \/ SecurityStep) /\ UNCHANGED << sessionVars, internalVars >>
  BY <1>2, PutStep, PollTickStep, ReadFilesStep, ReadManifestAgainStep, SwapStep DEF SecurityStep
<1>3. CASE SessionNext /\ UNCHANGED internalVars
  <2>1. ASSUME NEW c \in Clients, SessionStep(c) PROVE SecurityInv'
    BY <1>3, <2>1, HandshakeStep, ApplyUpdateStep, DropSessionStep, LeaseStep, NoFrameStep, StartJobStep,
       FinishJobStep, SubmitStep DEF SessionStep
  <2>2. ASSUME NEW c \in Clients, Accept(c) \/ Disconnect(c) \/ VerifyDeadline(c) \/ Timeout(c)
        PROVE  SecurityInv'
    BY <1>3, <2>2, AcceptStep, DisconnectStep, VerifyDeadlineStep, TimeoutStep
  <2>3. ASSUME NEW c \in Clients, NEW request \in Scenario.clients[c].requests,
               RequestControl(c, request) \/ RequestRefused(c, request) \/ RequestCommand(c, request)
        PROVE  SecurityInv'
    BY <1>3, <2>3, RequestControlStep, RequestRefusedStep, RequestCommandStep
  <2>4. ASSUME NEW order \in orders, Complete(order) PROVE SecurityInv'
    BY <1>3, <2>4, CompleteStep
  <2>5. CASE StrayEnds \/ DatabaseChanges
    <3>1. UNCHANGED << chosen, loader, active, awaiting, updates, directory, conn, orders, links, work >>
      BY <1>3, <2>5 DEF StrayEnds, DatabaseChanges, securityVars, internalVars
    <3>2. Authentic'
      BY <3>1, ReleasesStay DEF SecurityInv, Authentic, Succeeds
    <3>3. Quiet' /\ Generation' = Generation
      BY <3>1 DEF SecurityInv, Quiet, Generation, Leased, ClientLeased, Clients, Links, Scenario
    <3> QED
      BY <3>1, <3>2, <3>3, GenerationStays
  <2> QED
    BY <1>3, <2>1, <2>2, <2>3, <2>4, <2>5 DEF SessionNext
<1>4. CASE InternalNext
  <2>1. ASSUME NEW l \in Links, LinkStep(l) PROVE SecurityInv'
    BY <2>1, LinkHandshakeStep, FinishReadStep, FinishWriteStep, SubmitOperationStep, EndLinkStep DEF LinkStep
  <2>2. ASSUME NEW l \in Links, Link(l) \/ AdmitWrite(l) \/ BeginOperation(l) \/ LoseLink(l) \/ ExpireLink(l)
        PROVE  SecurityInv'
    BY <2>2, LinkStart, AdmitWriteStep, BeginOperationStep, LoseLinkStep, ExpireLinkStep
  <2>3. ASSUME NEW l \in Links, NEW said, AdmitRead(l, W!Encode(said.message, said.version, FrameLimits))
        PROVE  SecurityInv'
    BY <2>3, AdmitReadStep
  <2>4. ASSUME NEW w \in work, FinishOperation(w) PROVE SecurityInv'
    BY <2>4, FinishOperationStep
  <2> QED
    BY <1>4, <2>1, <2>2, <2>3, <2>4 DEF InternalNext
<1>5. CASE Activate
  BY <1>5, RefusedStep, ActivatedStep
<1>6. CASE UNCHANGED vars
  <2>1. UNCHANGED << chosen, loader, active, awaiting, updates, directory, sessionVars, internalVars >>
    BY <1>6 DEF vars, securityVars
  <2> QED
    BY <2>1, DirectoryMoves DEF SecurityInv, Authentic
<1> QED
  BY <1>1, <1>2, <1>3, <1>4, <1>5, <1>6 DEF Next

LEMMA SecurityInvHolds == Spec => []SecurityInv
BY SecurityInvInit, SecurityInvNext, PTL DEF Spec

\* The generation in force is one release of the operator, whatever files the
\* loader found on the way (Generation::validate, manifest read before and after).
THEOREM GenerationsAreWhole == Spec => []LoadedIsWhole
<1>1. SecurityInv => LoadedIsWhole
  BY DEF SecurityInv, Authentic, LoadedIsWhole
<1> QED
  BY <1>1, SecurityInvHolds, PTL

\* Whatever the database has accepted was admitted by the generation in force,
\* with a credential or certificate valid at that moment (ClientLease, InternalLease).
THEOREM AcceptedIsAuthorised == Spec => []AcceptedUnderActive
<1>1. ASSUME SecurityInv PROVE AcceptedUnderActive
  <2>1. ASSUME NEW order \in orders
        PROVE  /\ order.number = active.number /\ Valid(Users, order.proof, order.at)
               /\ \A i \in DOMAIN order.task.commands :
                     Authorize(Users, order.proof.user, order.task.commands[i])
    BY <1>1 DEF SecurityInv, Standing, IsOrder, TaskGranted
  <2>2. ASSUME NEW w \in work
        PROVE  /\ w.number = active.number /\ Current(w.peer.validity, w.at)
               /\ w.peer.inbound => \E type \in w.request :
                     AuthorizeInternalRequest(Lane.policy, w.peer.certificate.uri, type)
    BY <1>1 DEF SecurityInv, Standing, IsWork
  <2> QED
    BY <2>1, <2>2 DEF AcceptedUnderActive
<1> QED
  BY <1>1, SecurityInvHolds, PTL

\* EXEC runs what was answered QUEUED (Transaction::handle and poison).
THEOREM ExecRunsTheQueue == Spec => []ExecIsWhatWasQueued
<1>1. SecurityInv => ExecIsWhatWasQueued
  BY DEF SecurityInv, Standing, IsOrder, TaskGranted, ExecIsWhatWasQueued
<1> QED
  BY <1>1, SecurityInvHolds, PTL

\* Outside an activation sessions and links conform to the generation in force
\* (apply_update, Endpoint::revalidate).
THEOREM OpenConforms == Spec => []OpenMatchesPolicy
<1>1. ASSUME SecurityInv, loader.pc # "acks" PROVE OpenMatchesPolicy
  <2>1. Generation = active /\ awaiting = {}
    BY <1>1 DEF SecurityInv, Quiet, Generation
  <2>2. ASSUME NEW c \in Clients
        PROVE  Whole(conn[c]) /\ Conforms(conn[c], active.client)
    BY <1>1, <2>1 DEF SecurityInv, Conforming, Sound
  <2>3. SessionMatchesPolicy
    BY <2>2 DEF SessionMatchesPolicy, Whole, Conforms, Bears, Holds, Granted, Transport, Users
  <2>4. LinkMatchesPolicy
    BY <1>1, <2>1 DEF SecurityInv, Conforming, LinkMatchesPolicy, PeerFits, RegisteredLinks, Lane
  <2> QED
    BY <2>3, <2>4 DEF OpenMatchesPolicy
<1>2. ASSUME loader.pc = "acks" PROVE OpenMatchesPolicy
  BY <1>2 DEF OpenMatchesPolicy, SessionMatchesPolicy, LinkMatchesPolicy
<1>3. SecurityInv => OpenMatchesPolicy
  BY <1>1, <1>2
<1> QED
  BY <1>3, SecurityInvHolds, PTL

\* Only the end of an activation replaces the generation, by one with a larger
\* number and the same lanes (activate_inner, replacement_of).
THEOREM GenerationsAdvance == Spec => GenerationAdvances
<1> DEFINE A == active' # active =>
                  active'.number > active.number /\ (active'.internal = {}) = (active.internal = {})
<1>1. ASSUME SecurityInv, [Next]_vars, ~Swap PROVE active' = active
  <2>1. CASE (Advance \/ Stop \/ Put \/ SecurityStep) /\ UNCHANGED << sessionVars, internalVars >>
    BY <1>1, <2>1 DEF Advance, Stop, Put, SecurityStep, PollTick, ReadClientFiles, ReadInternalFiles,
       ReadManifestAgain
  <2>2. CASE SessionNext
    <3>1. ASSUME NEW c \in Clients, SessionStep(c) PROVE active' = active
      BY <3>1 DEF SessionStep, Handshake, ApplyUpdate, DropSession, Lease, NoFrame, StartJob, FinishJob,
         Settle, Submit, securityVars
    <3>2. ASSUME NEW c \in Clients, Accept(c) \/ Disconnect(c) \/ VerifyDeadline(c) \/ Timeout(c)
          PROVE  active' = active
      BY <3>2 DEF Accept, Disconnect, VerifyDeadline, Settle, Timeout, securityVars
    <3>3. ASSUME NEW c \in Clients, NEW request,
                 RequestControl(c, request) \/ RequestRefused(c, request) \/ RequestCommand(c, request)
          PROVE  active' = active
      BY <3>3 DEF RequestControl, RequestRefused, RequestCommand, HandleControl, securityVars
    <3>4. ASSUME NEW order, Complete(order) PROVE active' = active
      BY <3>4 DEF Complete, securityVars
    <3> QED
      BY <2>2, <3>1, <3>2, <3>3, <3>4 DEF SessionNext, StrayEnds, DatabaseChanges, securityVars
  <2>3. CASE InternalNext
    BY <2>3 DEF InternalNext, LinkStep, LinkHandshake, FinishRead, FinishWrite, SubmitOperation, EndLink,
       Link, AdmitWrite, BeginOperation, LoseLink, ExpireLink, AdmitRead, FinishOperation, OthersSame, securityVars
  <2>4. CASE Activate
    BY <2>4 DEF Activate, BeginActivation
  <2>5. CASE UNCHANGED vars
    BY <2>5 DEF vars, securityVars
  <2> QED
    BY <1>1, <2>1, <2>2, <2>3, <2>4, <2>5 DEF Next
<1>2. ASSUME SecurityInv, Swap PROVE A
  BY <1>2 DEF SecurityInv, Authentic, Succeeds, Swap
<1>3. SecurityInv /\ [Next]_vars => [A]_active
  BY <1>1, <1>2
<1> HIDE DEF A
<1>4. Spec => [][A]_active
  BY <1>3, SecurityInvHolds, PTL DEF Spec
<1> QED
  BY <1>4 DEF A, GenerationAdvances
=============================================================================
