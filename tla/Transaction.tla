----------------------------- MODULE Transaction -----------------------------
(***************************************************************************)
(* The transaction of one connection (connection/transaction.rs): the      *)
(* queue opened by MULTI, the keys watched, what poisons a queue and what  *)
(* a replaced policy leaves of both.                                       *)
(*                                                                         *)
(* A command is its name, its keys, channels and sections and the bytes of *)
(* its request.  `promised` is not in the code: the commands answered      *)
(* QUEUED since MULTI, remembered up to one past the limit.                *)
(***************************************************************************)
EXTENDS Policy

The(option) == CHOOSE x \in option : TRUE

MEMORY == {"MEM.PUT", "MEM.GET"}

NewTransaction == [queue |-> {}, watched |-> {}, shard |-> {}, crossed |-> FALSE]
NewQueue(tx) ==
    [commands |-> <<>>, bytes |-> 0, shard |-> tx.shard, crossed |-> tx.crossed,
     dirty |-> FALSE, denied |-> FALSE, promised |-> <<>>]

Active(tx) == tx.queue # {}
Unwatched(tx) == [tx EXCEPT !.watched = {}, !.shard = {}, !.crossed = FALSE]

\* Mutant: the commands are dropped and the queue still executes.
PoisonQueueClean(q) == [q EXCEPT !.commands = <<>>, !.bytes = 0]

PoisonQueue(q) == [q EXCEPT !.dirty = TRUE, !.commands = <<>>, !.bytes = 0]
Poison(tx) == [tx EXCEPT !.queue = {PoisonQueue(q) : q \in @}]

\* coordinated_command; every one of them can be planned over several owners.
Coordinated(command) ==
    command.name \notin MEMORY \union
        {"INFO", "SUBSCRIBE", "UNSUBSCRIBE", "PUBLISH", "MULTI", "EXEC", "DISCARD", "WATCH"}

\* Router::select_key over some keys: the owner kept, and whether another appeared.
Select(shard, keys, shardOf) ==
    LET owners == shard \union {shardOf[key] : key \in keys}
    IN  [shard |-> IF shard # {} \/ owners = {} THEN shard ELSE {CHOOSE o \in owners : TRUE},
         crossing |-> Cardinality(owners) > 1]

---------------------------------------------------------------------------
\* Reload

RevalidateQueue(q, users, user) ==
    IF \E i \in DOMAIN q.commands : ~Authorize(users, user, q.commands[i])
    THEN [q EXCEPT !.commands = <<>>, !.bytes = 0, !.denied = TRUE] ELSE q

WatchOf(keys) == [name |-> "WATCH", keys |-> keys, channels |-> {}, sections |-> {}]

Revalidate(tx, users, user) ==
    LET kept == [tx EXCEPT !.queue = {RevalidateQueue(q, users, user) : q \in @}]
    IN  IF tx.watched # {} /\ ~Authorize(users, user, WatchOf(tx.watched))
        THEN Unwatched(kept) ELSE kept

---------------------------------------------------------------------------
\* One command of the connection

\* A queue of several owners takes only what the coordinator can plan.
Unsupported(q, command) ==
    ~Coordinated(command) \/ \E i \in DOMAIN q.commands : ~Coordinated(q.commands[i])
Full(q, command, limits) ==
    Len(q.commands) >= limits.commands \/ q.bytes + command.bytes > limits.bytes
Promise(q, command, limits) ==
    IF Len(q.promised) > limits.commands THEN q.promised ELSE Append(q.promised, command)

Queued(q, command, crossed, shard, promised) ==
    [q EXCEPT !.promised = promised, !.commands = Append(@, command), !.bytes = @ + command.bytes,
              !.crossed = crossed, !.shard = IF crossed THEN @ ELSE shard]

\* What becomes of the queue: a command refused poisons it, and one that follows
\* is answered QUEUED and dropped.
EnqueueSelected(q, command, limits, selected) ==
    IF q.dirty \/ q.denied THEN [q EXCEPT !.promised = Promise(q, command, limits)]
    ELSE IF \/ selected.crossing /\ ~limits.composed
            \/ limits.composed /\ (q.crossed \/ selected.crossing) /\ Unsupported(q, command)
            \/ Full(q, command, limits)
    THEN PoisonQueue(q)
    ELSE Queued(q, command, q.crossed \/ selected.crossing, selected.shard, Promise(q, command, limits))

Enqueue(q, command, limits) ==
    EnqueueSelected(q, command, limits, Select(q.shard, command.keys, limits.shard))

Reply(tx) == [action |-> "Reply", tx |-> tx]

HandleExec(tx, q) ==
    IF q.denied \/ q.dirty THEN Reply(NewTransaction)
    ELSE [action |-> "Exec", tx |-> NewTransaction, commands |-> q.commands,
          promised |-> q.promised, watched |-> tx.watched]

\* The keys to register; the tokens arrive with the owner's answer.
HandleWatchSelected(tx, keys, limits, selected) ==
    IF \/ Cardinality(keys \union tx.watched) > limits.watch
       \/ selected.crossing /\ ~limits.composed
       \/ keys = {}
    THEN Reply(tx)
    ELSE [action |-> "Watch", tx |-> tx, keys |-> keys, shard |-> selected.shard,
          crossed |-> tx.crossed \/ selected.crossing]

HandleWatch(tx, keys, limits) ==
    HandleWatchSelected(tx, keys, limits, Select(tx.shard, keys, limits.shard))

Watched(tx, keys, shard, crossed) ==
    [tx EXCEPT !.watched = @ \union keys, !.shard = shard, !.crossed = crossed]

\* With a queue open, everything but the commands that close it is queued.
HandleQueueing(tx, command, limits) ==
    CASE command.name \in {"MULTI", "WATCH"} -> Reply(tx)
      [] command.name = "DISCARD" -> Reply(NewTransaction)
      [] command.name = "EXEC" -> HandleExec(tx, The(tx.queue))
      [] OTHER -> Reply([tx EXCEPT !.queue = {Enqueue(q, command, limits) : q \in @}])

HandleIdle(tx, command, limits) ==
    CASE command.name = "MULTI" -> Reply([tx EXCEPT !.queue = {NewQueue(tx)}])
      [] command.name \in {"DISCARD", "EXEC"} -> Reply(tx)
      [] command.name = "WATCH" -> HandleWatch(tx, command.keys \ tx.watched, limits)
      [] command.name = "UNWATCH" -> Reply(Unwatched(tx))
      [] OTHER -> [action |-> "Execute", tx |-> tx]

Handle(tx, command, limits, readonly) ==
    IF (Active(tx) /\ command.name \in MEMORY) \/ (readonly /\ command.name \in WRITES)
    THEN Reply(Poison(tx))
    ELSE IF Active(tx) THEN HandleQueueing(tx, command, limits) ELSE HandleIdle(tx, command, limits)

=============================================================================
