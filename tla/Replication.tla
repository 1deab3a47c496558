---------------------------- MODULE Replication ----------------------------
(***************************************************************************)
(* Replication of a Sider node by another: the journal a primary publishes *)
(* its batches to, the session that streams them (replication/session.rs,  *)
(* memory_source.rs, memory_follow.rs), the tasks that install a snapshot, *)
(* apply a batch or promote a replica (storage/replication.rs), and a      *)
(* server's start from what its disk holds.                                *)
(*                                                                         *)
(* A batch is known by the epoch and sequence it was first written at and  *)
(* by the owners it touches.  A store is the sequence of the batches that  *)
(* touched it, so two stores are equal exactly when they were produced by  *)
(* the same writes.  Frames are the messages of module Wire; a connection  *)
(* delivers them in order until it is cut.  The AOF behind `disk` is       *)
(* module Aof, the writes of a primary are module Owners: a commit is one  *)
(* step here.                                                              *)
(***************************************************************************)
EXTENDS Naturals, Sequences, SequencesExt, FiniteSets

CONSTANTS
    Node,         \* the servers
    Owner,        \* owner workers, 1..number of shards
    Upstreams,    \* Upstreams[n]: the upstreams, or none, the operator may configure for n
    Profiles,     \* the persistence profiles of a deployment
    Budgets,      \* bounds, [profile, faults, crashes, last]: cut connections, repeated frames
                  \* and failed disk operations; crashes and replaced disks; last sequence written
    Writes,       \* Writes[profile]: the sets of owners a batch may touch
    Capacity,     \* Capacity[n]: the record, batch and snapshot sizes n is configured for
    Preloaded,    \* nodes whose disk already holds a standalone data set
    Admins,       \* concurrent promotion requests a node may be given
    MaxBatches,   \* journal retention: batches
    MaxBytes,     \* journal retention: bytes (an owner's share of a batch is one)
    MaxSequence,  \* bound on every `last`
    MaxEpoch      \* bound: epochs drawn

ASSUME OwnersAreShards == Owner = 1..Cardinality(Owner)
ASSUME Retention == MaxBatches \in Nat \ {0} /\ MaxBytes \in Nat \ {0}
ASSUME MixedOnlyComposed ==
    \A q \in Profiles \ {"composed"} : \A owners \in Writes[q] : Cardinality(owners) = 1
ASSUME RecordFitsRetention == MaxBytes >= Cardinality(Owner)

W == INSTANCE Wire

Epoch == 1..MaxEpoch
\* Generations are only compared for equality, by tasks and sessions at most one step behind.
Generations == 2
NoNode == "no upstream"
NoSession == [pc |-> "none"]
NoTask == [kind |-> "none"]
Slots == {"session"} \union Admins

VARIABLES
    profile,     \* "legacy" | "composed" | "memory": the same on every node
    nextEpoch,   \* the next value of new_epoch, which never repeats
    written,     \* written[e]: the stores' contents after every batch written in epoch e
    journals,    \* journals[e]: the journal opened with epoch e
    up,          \* up[n]: "down" | "starting" | "up"
    upstream,    \* upstream[n]: the configured upstream
    disk,        \* disk[n]: role, epoch, sequence and image of the AOF
    synced,      \* synced[n]: what the last awaited flush made durable; a later fsync of
                 \* the writer's own only narrows what Crash may lose
    stores,      \* stores[n][o]: the store of owner o
    runtime,     \* runtime[n]: replication/state.rs
    writer,      \* writer[n]: epoch of the journal the AOF writer publishes to, or 0
    admission,   \* admission[n]: no publication was left incomplete
    barrier,     \* barrier[n]: the task that holds the global barrier, or "free"
    tasks,       \* tasks[n][s]: spawned replication tasks
    follower,    \* follower[f]: the session f receives
    source,      \* source[f]: the session f's upstream serves
    requests,    \* requests[f]: frames from f to its upstream
    replies,     \* replies[f]: frames from the upstream to f
    faults, crashes, last

nodeVars == << up, upstream, disk, synced, stores, runtime, writer, admission, barrier, tasks >>
sessionVars == << follower, source, requests, replies >>
epochVars == << nextEpoch, written, journals >>
boundVars == << faults, crashes, last >>
vars == << profile, epochVars, nodeVars, sessionVars, boundVars >>

Cursor(e, s) == [epoch |-> e, sequence |-> s]
Batch(e, s, owners) == [epoch |-> e, sequence |-> s, owners |-> owners]
NoImage == [o \in Owner |-> <<>>]

\* The same batch added to every store it touches, and an image's first s batches.
With(image, b) == [o \in Owner |-> IF o \in b.owners THEN Append(image[o], b) ELSE image[o]]
UpTo(image, s) == [o \in Owner |-> SelectSeq(image[o], LAMBDA b : b.sequence <= s)]

(***************************************************************************)
(* The journal                                                             *)
(***************************************************************************)

Bytes(entries) == FoldSeq(LAMBDA b, n : n + Cardinality(b.owners), 0, entries)

\* Journal::publish evicts the oldest entries until the new one fits.
Retain(entries, b) ==
    LET fits(k) == /\ Bytes(SubSeq(entries, k + 1, Len(entries))) <= MaxBytes - Bytes(<<b>>)
                   /\ Len(entries) - k < MaxBatches
        dropped == CHOOSE k \in 0..Len(entries) : fits(k) /\ \A j \in 0..k-1 : ~fits(j)
    IN Append(SubSeq(entries, dropped + 1, Len(entries)), b)

Publishable(j, b) == ~j.closed /\ j.head.sequence + 1 = b.sequence
Publish(j, b) == [j EXCEPT !.head.sequence = b.sequence, !.entries = Retain(j.entries, b)]

NewJournal(cursor) == [head |-> cursor, entries |-> <<>>, closed |-> FALSE]
Close(j) == [j EXCEPT !.closed = TRUE, !.entries = <<>>]
ClosedJournal == Close(NewJournal(Cursor(0, 0)))

\* Mutant: a subscriber one batch behind keeps waiting.
NextEntryAsleep(j, cursor) ==
    IF j.closed \/ cursor.epoch # j.head.epoch \/ cursor.sequence > j.head.sequence THEN "error"
    ELSE IF cursor.sequence + 1 >= j.head.sequence THEN "waiting"
    ELSE IF j.entries = <<>> \/ cursor.sequence + 1 < j.entries[1].sequence THEN "error"
    ELSE "entry"

\* fn next: the entry after a cursor, "waiting" at the head, or "error".
NextEntry(j, cursor) ==
    IF j.closed \/ cursor.epoch # j.head.epoch \/ cursor.sequence > j.head.sequence THEN "error"
    ELSE IF cursor.sequence = j.head.sequence THEN "waiting"
    ELSE IF j.entries = <<>> \/ cursor.sequence + 1 < j.entries[1].sequence THEN "error"
    ELSE "entry"
EntryAfter(j, cursor) == j.entries[cursor.sequence + 2 - j.entries[1].sequence]

Subscribable(j, cursor) == NextEntry(j, cursor) # "error"
\* The journal the runtime hands to sessions; `journals` keeps those of old epochs.
RuntimeJournal(n) == journals[runtime[n].journal]

(***************************************************************************)
(* The runtime of a node                                                   *)
(***************************************************************************)

NewRuntime(role, applied) ==
    [role |-> role, applied |-> applied, upstream |-> <<>>, connected |-> FALSE,
     generation |-> 0, journal |-> 0]

\* Runtime::status().applied
Applied(n) ==
    IF runtime[n].journal # 0 /\ ~RuntimeJournal(n).closed THEN RuntimeJournal(n).head
    ELSE runtime[n].applied

Readonly(n) == runtime[n].role = "replica"
RuntimeAccepts(n, generation) == Readonly(n) /\ runtime[n].generation = generation
NextGeneration(g) == (g + 1) % Generations

Connected(r, generation, sequence) ==
    IF r.generation = generation /\ r.role = "replica"
    THEN [r EXCEPT !.connected = TRUE, !.upstream = <<sequence>>] ELSE r
UpstreamHead(r, generation, sequence) ==
    IF r.generation = generation /\ r.role = "replica"
    THEN [r EXCEPT !.upstream = <<sequence>>] ELSE r
Disconnected(r, generation) ==
    IF r.generation = generation THEN [r EXCEPT !.connected = FALSE] ELSE r
Primary(r, cursor) ==
    [r EXCEPT !.role = "primary", !.applied = cursor, !.connected = FALSE,
              !.generation = NextGeneration(@), !.journal = cursor.epoch]

\* What replication_position and freeze ask for before they read under the barrier.
Accessible(n) == up[n] = "up" /\ barrier[n] = "free"

(***************************************************************************)
(* A primary's writes                                                      *)
(***************************************************************************)

\* One committed batch: appended, published to the journal, applied by its owners.
Commit(n, owners) ==
    /\ up[n] = "up" /\ admission[n] /\ ~Readonly(n) /\ barrier[n] = "free"
    /\ disk[n].sequence < last
    /\ owners \in Writes[profile]
    /\ LET e == disk[n].epoch
           b == Batch(e, disk[n].sequence + 1, owners)
       IN /\ Publishable(journals[writer[n]], b)
          /\ disk' = [disk EXCEPT ![n].sequence = @ + 1, ![n].image = With(@, b)]
          /\ stores' = [stores EXCEPT ![n] = With(@, b)]
          /\ written' = [written EXCEPT ![e] = With(@, b)]
          /\ journals' = [journals EXCEPT ![writer[n]] = Publish(@, b)]
    /\ UNCHANGED << profile, nextEpoch, up, upstream, synced, runtime, writer, admission, barrier,
                    tasks, sessionVars, boundVars >>

(***************************************************************************)
(* Tasks: each takes the barrier, publishes, and answers its caller        *)
(***************************************************************************)

Task(kind, generation, cursor, payload) ==
    [kind |-> kind, step |-> "enter", generation |-> generation, cursor |-> cursor,
     payload |-> payload, todo |-> {}]

\* A caller waits only for the task of a receiving session; the others report and go.
Awaited(n, s) == s = "session" /\ follower[n].pc \in {"install", "apply"}
Finished(n, s, outcome) ==
    tasks' = [tasks EXCEPT ![n][s] = IF Awaited(n, s) THEN [@ EXCEPT !.step = outcome] ELSE NoTask]
Advance(n, s, step, todo) ==
    tasks' = [tasks EXCEPT ![n][s] = [@ EXCEPT !.step = step, !.todo = todo]]
\* A process that is still starting ends when its first publication fails.
Started(n, outcome) ==
    up' = [up EXCEPT ![n] = IF @ # "starting" THEN @ ELSE IF outcome = "ok" THEN "up" ELSE "down"]

Release(n, s, outcome) ==
    /\ barrier' = [barrier EXCEPT ![n] = "free"]
    /\ Finished(n, s, outcome)
    /\ Started(n, outcome)
Refused(n, s, outcome) ==
    /\ Release(n, s, outcome)
    /\ UNCHANGED << profile, epochVars, upstream, disk, synced, stores, runtime, writer, admission,
                    sessionVars, boundVars >>

\* apply_replica_profile, apply_composed_replica: the exact successor of the position.
Applicable(n, t) ==
    /\ RuntimeAccepts(n, t.generation)
    /\ Applied(n).epoch = t.cursor.epoch
    /\ Applied(n).sequence + 1 = t.cursor.sequence
    /\ profile # "composed" => Cardinality(t.payload.owners) = 1

\* Mutant: a snapshot is installed whatever became of the session that asked for it.
AdmitsStale(n, t) ==
    \/ t.kind \in {"promote", "install"}
    \/ t.kind = "apply" /\ Applicable(n, t)

\* The checks under the barrier: the session is still the current one of a replica.
Admits(n, t) ==
    \/ t.kind = "promote"
    \/ t.kind = "install" /\ RuntimeAccepts(n, t.generation)
    \/ t.kind = "apply" /\ Applicable(n, t)

\* Barrier, admission, session generation and position are checked before the publication opens.
EnterTask(n, s) ==
    LET t == tasks[n][s]
        admitted == Admits(n, t)
    IN /\ up[n] # "down" /\ t.kind # "none" /\ t.step = "enter"
       /\ barrier[n] = "free"
       /\ \/ /\ ~admission[n]
             /\ Refused(n, s, "unavailable")
          \/ /\ admission[n] /\ ~admitted
             /\ Refused(n, s, "failed")
          \/ /\ admission[n] /\ admitted
             /\ barrier' = [barrier EXCEPT ![n] = s]
             /\ IF t.kind = "promote"
                THEN /\ synced' = [synced EXCEPT ![n] = disk[n].sequence]
                     /\ written' = [written EXCEPT ![t.cursor.epoch] = stores[n]]
                     /\ tasks' = [tasks EXCEPT ![n][s].step = "publish",
                                               ![n][s].payload = stores[n],
                                               ![n][s].cursor.sequence = disk[n].sequence]
                ELSE Advance(n, s, "publish", {}) /\ UNCHANGED << synced, written >>
             /\ UNCHANGED << profile, nextEpoch, journals, up, upstream, disk, stores, runtime, writer,
                             admission, sessionVars, boundVars >>

\* Worker::install: the new snapshot and role replace the log at once; the journal is closed.
InstallLog(n, role, cursor, image) ==
    /\ disk' = [disk EXCEPT ![n] = [role |-> role, epoch |-> cursor.epoch,
                                    sequence |-> cursor.sequence, image |-> image]]
    /\ synced' = [synced EXCEPT ![n] = cursor.sequence]
    /\ journals' = [journals EXCEPT ![writer[n]] = Close(@)]
    /\ writer' = [writer EXCEPT ![n] = 0]

\* append_expected
AppendLog(n, b) ==
    /\ disk' = [disk EXCEPT ![n].sequence = @ + 1, ![n].image = With(@, b)]
    /\ UNCHANGED << synced, journals, writer >>

\* Mutant: a promotion is complete once its role is on disk.
AfterPublishUnattached(kind) == IF kind = "promote" THEN "finish" ELSE "owners"
AfterPublish(kind) == IF kind = "promote" THEN "attach" ELSE "owners"

\* The step that makes the change durable, and after which only completion reopens the node.
PublishLog(n, s) ==
    LET t == tasks[n][s]
    IN /\ up[n] # "down" /\ t.kind # "none" /\ t.step = "publish"
       /\ CASE t.kind = "install" ->
                 /\ InstallLog(n, "replica", t.cursor, t.payload)
                 /\ Advance(n, s, AfterPublish(t.kind), Owner)
            [] t.kind = "promote" ->
                 /\ InstallLog(n, "primary", t.cursor, t.payload)
                 /\ Advance(n, s, AfterPublish(t.kind), {})
            [] OTHER ->
                 /\ AppendLog(n, t.payload)
                 /\ Advance(n, s, AfterPublish(t.kind), t.payload.owners)
       /\ UNCHANGED << profile, nextEpoch, written, up, upstream, stores, runtime, admission,
                       barrier, sessionVars, boundVars >>

\* Mutant: the batch is acknowledged without waiting for the disk.
AfterOwnersUnsynced(kind) == "finish"
\* An applied batch is flushed before its task answers; an installed snapshot already is.
AfterOwners(kind) == IF kind = "apply" THEN "flush" ELSE "finish"

\* Control::Replace, Control::Apply and Control::ApplyComposed, one owner after the other.
OwnerStep(n, s) ==
    LET t == tasks[n][s]
        o == CHOOSE o \in t.todo : \A p \in t.todo : o <= p
        rest == t.todo \ {o}
    IN /\ up[n] # "down" /\ t.kind # "none" /\ t.step = "owners"
       /\ stores' = [stores EXCEPT ![n][o] = IF t.kind = "install" THEN t.payload[o]
                                             ELSE Append(@, t.payload)]
       /\ Advance(n, s, IF rest = {} THEN AfterOwners(t.kind) ELSE "owners", rest)
       /\ UNCHANGED << profile, epochVars, up, upstream, disk, synced, runtime, writer, admission,
                       barrier, sessionVars, boundVars >>

FlushLog(n, s) ==
    /\ up[n] # "down" /\ tasks[n][s].kind # "none" /\ tasks[n][s].step = "flush"
    /\ synced' = [synced EXCEPT ![n] = disk[n].sequence]
    /\ Advance(n, s, "finish", {})
    /\ UNCHANGED << profile, epochVars, up, upstream, disk, stores, runtime, writer, admission,
                    barrier, sessionVars, boundVars >>

\* Request::Journal is valid for the sequence, role and epoch the writer has.
AttachJournal(n, s) ==
    LET t == tasks[n][s]
    IN /\ up[n] # "down" /\ t.kind # "none" /\ t.step = "attach"
       /\ disk[n].sequence = t.cursor.sequence /\ disk[n].role = "primary"
       /\ disk[n].epoch = t.cursor.epoch
       /\ writer' = [writer EXCEPT ![n] = t.cursor.epoch]
       /\ journals' = [journals EXCEPT ![t.cursor.epoch] = NewJournal(t.cursor)]
       /\ Advance(n, s, "finish", {})
       /\ UNCHANGED << profile, nextEpoch, written, up, upstream, disk, synced, stores, runtime, admission,
                       barrier, sessionVars, boundVars >>

\* runtime.applied or runtime.primary, then the publication completes and the guard is dropped.
FinishTask(n, s) ==
    LET t == tasks[n][s]
    IN /\ up[n] # "down" /\ t.kind # "none" /\ t.step = "finish"
       /\ runtime' = [runtime EXCEPT ![n] = IF t.kind = "promote" THEN Primary(@, t.cursor)
                                            ELSE [@ EXCEPT !.applied = t.cursor]]
       /\ Release(n, s, "ok")
       /\ UNCHANGED << profile, epochVars, upstream, disk, synced, stores, writer, admission,
                       sessionVars, boundVars >>

\* Mutant: an incomplete publication leaves the node open.
DropPublicationOpen(n, complete) == UNCHANGED admission
\* Publication::drop
DropPublication(n, complete) == admission' = [admission EXCEPT ![n] = @ /\ complete]

\* A failed disk operation or owner.  Before the decision on disk is known to have happened the
\* caller may be told so and the publication completes; in every other case it stays incomplete.
FailTask(n, s, decided) ==
    LET t == tasks[n][s]
        reported == t.step = "publish" /\ ~decided
    IN /\ up[n] # "down" /\ t.kind # "none" /\ t.step \in {"publish", "owners", "flush", "attach"}
       /\ faults > 0 /\ faults' = faults - 1
       /\ \E outcome \in (IF reported THEN {"failed", "unavailable"} ELSE {"unavailable"}) :
             /\ Release(n, s, outcome)
             /\ DropPublication(n, outcome = "failed")
       /\ IF t.step # "publish" \/ ~decided THEN UNCHANGED << disk, synced, journals, writer >>
          ELSE CASE t.kind = "install" -> InstallLog(n, "replica", t.cursor, t.payload)
                 [] t.kind = "promote" -> InstallLog(n, "primary", t.cursor, t.payload)
                 [] OTHER -> AppendLog(n, t.payload)
       /\ UNCHANGED << profile, nextEpoch, written, upstream, stores, runtime, sessionVars, crashes, last >>

(***************************************************************************)
(* The connection between a follower and its upstream                      *)
(***************************************************************************)

Hello(n, cursor) ==
    [type |-> "Hello",
     hello |-> [sider |-> 1, record |-> 1, shards |-> Cardinality(Owner), routing |-> 1,
                maxRecord |-> Capacity[n], maxMutations |-> Capacity[n],
                maxSnapshot |-> Capacity[n], cursor |-> cursor]]
Ack(cursor) == [type |-> "Ack", cursor |-> cursor]
Heartbeat(cursor) == [type |-> "Heartbeat", cursor |-> cursor]
Reject(reason) == [type |-> "Reject", reason |-> reason]

\* The follower drops the socket, or the network does: what was in flight is lost.
NoSocket(f) ==
    /\ requests' = [requests EXCEPT ![f] = <<>>]
    /\ replies' = [replies EXCEPT ![f] = <<>>]
    /\ source' = [source EXCEPT ![f] = NoSession]
\* The upstream's side of the socket is gone and nothing is left to read.
Lost(f) == replies[f] = <<>> /\ source[f] = NoSession

(***************************************************************************)
(* The follower                                                            *)
(***************************************************************************)

\* follow_inner: a new generation invalidates every earlier session.
BeginSession(f) ==
    /\ up[f] = "up" /\ follower[f].pc = "idle" /\ Readonly(f)
    /\ runtime' = [runtime EXCEPT ![f].generation = NextGeneration(@), ![f].connected = FALSE]
    /\ follower' = [follower EXCEPT ![f] =
          [pc |-> "position", generation |-> NextGeneration(runtime[f].generation)]]
    /\ UNCHANGED << profile, epochVars, up, upstream, disk, synced, stores, writer, admission,
                    barrier, tasks, source, requests, replies, boundVars >>

\* The rest of follow_inner once receive_session returned an error.
EndSession(f, outcome) ==
    /\ follower' = [follower EXCEPT ![f] =
          IF outcome = "unavailable" THEN [pc |-> "ended"] ELSE [pc |-> "idle"]]
    /\ runtime' = [runtime EXCEPT ![f] = Disconnected(@, follower[f].generation)]
    /\ NoSocket(f)
    /\ UNCHANGED << profile, epochVars, up, upstream, disk, synced, stores, writer, admission,
                    barrier, boundVars >>

\* cancelled(generation): the promoted node drops its session wherever it waits.
CancelSession(f) ==
    /\ up[f] = "up" /\ follower[f].pc \notin {"idle", "ended"}
    /\ ~RuntimeAccepts(f, follower[f].generation)
    /\ follower' = [follower EXCEPT ![f] = [pc |-> "idle"]]
    /\ NoSocket(f)
    /\ tasks' = [tasks EXCEPT ![f]["session"] =
          IF @.kind # "none" /\ @.step \in {"ok", "failed", "unavailable"} THEN NoTask ELSE @]
    /\ UNCHANGED << profile, epochVars, up, upstream, disk, synced, stores, runtime, writer,
                    admission, barrier, boundVars >>

\* receive_session: the position is read under the barrier, after any abandoned application.
ReadPosition(f) ==
    /\ Accessible(f) /\ follower[f].pc = "position"
    /\ \/ /\ ~admission[f]
          /\ EndSession(f, "unavailable")
       \/ /\ admission[f]
          /\ follower' = [follower EXCEPT ![f] =
                [pc |-> "connect", generation |-> @.generation, position |-> Applied(f)]]
          /\ UNCHANGED << profile, epochVars, up, upstream, disk, synced, stores, runtime, writer,
                          admission, barrier, source, requests, replies, boundVars >>
    /\ UNCHANGED tasks

Connect(f) ==
    /\ up[f] = "up" /\ follower[f].pc = "connect"
    /\ \/ /\ up[upstream[f]] # "up"
          /\ EndSession(f, "failed")
       \/ /\ up[upstream[f]] = "up"
          /\ LET position == follower[f].position
                 cursor == IF position.epoch = 0 THEN <<>> ELSE <<position>>
             IN requests' = [requests EXCEPT ![f] = <<Hello(f, cursor)>>]
          /\ source' = [source EXCEPT ![f] = [pc |-> "request"]]
          /\ follower' = [follower EXCEPT ![f].pc = "hello"]
          /\ UNCHANGED << profile, epochVars, up, upstream, disk, synced, stores, runtime, writer,
                          admission, barrier, replies, boundVars >>
    /\ UNCHANGED tasks

Received(f) == Head(replies[f])
Take(f) == replies' = [replies EXCEPT ![f] = Tail(@)]
Send(f, m) == requests' = [requests EXCEPT ![f] = Append(@, m)]
Reading == {"hello", "start", "snapshot", "stream"}

\* A read that times out or meets the end of the connection.
LoseSession(f) ==
    /\ up[f] = "up" /\ follower[f].pc \in Reading /\ Lost(f)
    /\ EndSession(f, "failed") /\ UNCHANGED tasks

\* Anything but the frame the session expects ends it.
Unexpected(f) == EndSession(f, "failed") /\ UNCHANGED tasks
FollowerUnchanged ==
    UNCHANGED << profile, epochVars, up, upstream, disk, synced, stores, writer, admission, barrier,
                 source, boundVars >>

ReadHello(f) ==
    /\ up[f] = "up" /\ follower[f].pc = "hello" /\ replies[f] # <<>>
    /\ LET m == Received(f)
       IN IF /\ m.type = "Hello" /\ m.hello.cursor # <<>>
             /\ W!Accepts(Hello(f, <<>>).hello, m.hello) = "accepted"
          THEN /\ follower' = [follower EXCEPT ![f] =
                     [pc |-> "start", generation |-> @.generation, position |-> @.position,
                      head |-> m.hello.cursor[1]]]
               /\ Take(f)
               /\ FollowerUnchanged /\ UNCHANGED << runtime, tasks, requests >>
          ELSE Unexpected(f)

Streaming(f, position, previous) ==
    follower' = [follower EXCEPT ![f] =
        [pc |-> "stream", generation |-> @.generation, position |-> position, previous |-> previous]]

\* CONTINUE from the announced position, or a complete snapshot at the announced head.
ReadStart(f) ==
    /\ up[f] = "up" /\ follower[f].pc = "start" /\ replies[f] # <<>>
    /\ LET m == Received(f)
           s == follower[f]
       IN IF /\ m.type = "Continue" /\ m.cursor = s.position /\ s.head.epoch = s.position.epoch
             /\ s.head.sequence >= s.position.sequence
          THEN /\ runtime' = [runtime EXCEPT ![f] = Connected(@, s.generation, s.head.sequence)]
               /\ Streaming(f, s.position, <<>>)
               /\ Send(f, Ack(s.position)) /\ Take(f)
               /\ FollowerUnchanged /\ UNCHANGED tasks
          ELSE IF m.type = "FullStart" /\ m.cursor = s.head
          THEN /\ follower' = [follower EXCEPT ![f] =
                     [pc |-> "snapshot", generation |-> s.generation, head |-> s.head,
                      entries |-> m.entries, received |-> <<>>]]
               /\ Take(f)
               /\ FollowerUnchanged /\ UNCHANGED << runtime, tasks, requests >>
          ELSE Unexpected(f)

Spawn(f, task) == tasks' = [tasks EXCEPT ![f]["session"] = task]
ImageFrom(entries) ==
    [o \in Owner |-> FoldSeq(LAMBDA m, image : IF m.key = o THEN m.value ELSE image, <<>>, entries)]

\* Keys in strict order, the announced number of entries, the same digest.
ReadSnapshot(f, entryType) ==
    /\ up[f] = "up" /\ follower[f].pc = "snapshot" /\ replies[f] # <<>>
    /\ LET m == Received(f)
           s == follower[f]
           n == Len(s.received)
       IN IF /\ m.type = entryType /\ n < s.entries
             /\ n > 0 => s.received[n].key < m.key
          THEN /\ follower' = [follower EXCEPT ![f].received = Append(@, m)]
               /\ Take(f)
               /\ FollowerUnchanged /\ UNCHANGED << runtime, tasks, requests >>
          ELSE IF /\ m.type = "FullEnd" /\ m.cursor = s.head /\ m.entries = s.entries
                  /\ n = s.entries /\ m.digest = s.received
          THEN /\ Spawn(f, Task("install", s.generation, s.head, ImageFrom(s.received)))
               /\ follower' = [follower EXCEPT ![f].pc = "install", ![f].received = <<>>]
               /\ Take(f)
               /\ FollowerUnchanged /\ UNCHANGED << runtime, requests >>
          ELSE Unexpected(f)

\* The stream loop: heartbeats of this epoch, the next batch, or the last one once more.
ReadStream(f, batchType) ==
    /\ up[f] = "up" /\ follower[f].pc = "stream" /\ replies[f] # <<>>
    /\ LET m == Received(f)
           s == follower[f]
       IN IF /\ m.type = "Heartbeat" /\ m.cursor.epoch = s.position.epoch
             /\ m.cursor.sequence >= s.position.sequence
          THEN /\ runtime' = [runtime EXCEPT ![f] = UpstreamHead(@, s.generation, m.cursor.sequence)]
               /\ Send(f, Ack(s.position)) /\ Take(f)
               /\ FollowerUnchanged /\ UNCHANGED << follower, tasks >>
          ELSE IF m.type = batchType /\ m.sequence = s.position.sequence /\ s.previous = <<m>>
          THEN /\ Send(f, Ack(s.position)) /\ Take(f)
               /\ FollowerUnchanged /\ UNCHANGED << follower, runtime, tasks >>
          ELSE IF m.type = batchType /\ m.sequence = s.position.sequence + 1
          THEN /\ Spawn(f, Task("apply", s.generation, Cursor(s.position.epoch, m.sequence), m.batch))
               /\ follower' = [follower EXCEPT ![f].pc = "apply", ![f].previous = <<m>>]
               /\ Take(f)
               /\ FollowerUnchanged /\ UNCHANGED << runtime, requests >>
          ELSE Unexpected(f)

\* install_replica or apply_replica returned: acknowledge, or end the session.
AwaitTask(f) ==
    LET t == tasks[f]["session"]
        s == follower[f]
    IN /\ up[f] = "up" /\ s.pc \in {"install", "apply"}
       /\ t.step \in {"ok", "failed", "unavailable"}
       /\ tasks' = [tasks EXCEPT ![f]["session"] = NoTask]
       /\ IF t.step = "ok"
          THEN /\ runtime' = IF s.pc = "apply" THEN runtime
                             ELSE [runtime EXCEPT ![f] = Connected(@, s.generation, s.head.sequence)]
               /\ Streaming(f, t.cursor, IF s.pc = "apply" THEN s.previous ELSE <<>>)
               /\ Send(f, Ack(t.cursor))
               /\ FollowerUnchanged /\ UNCHANGED replies
          ELSE EndSession(f, t.step)

FollowSteps(f) == BeginSession(f) \/ CancelSession(f) \/ LoseSession(f)
ReceiveSteps(f) == ReadPosition(f) \/ Connect(f) \/ ReadHello(f) \/ ReadStart(f) \/ AwaitTask(f)

\* session.rs and memory_follow.rs run the same session over different records.
ReceiveSnapshot(f) == ReadSnapshot(f, "SnapshotEntry")
ReceiveSession(f) ==
    /\ profile # "memory"
    /\ ReceiveSteps(f) \/ ReceiveSnapshot(f) \/ ReadStream(f, "Batch")
ReceiveMemorySnapshot(f) == ReadSnapshot(f, "MemorySnapshotEntry")
ReceiveMemorySession(f) ==
    /\ profile = "memory"
    /\ ReceiveSteps(f) \/ ReceiveMemorySnapshot(f) \/ ReadStream(f, "MemoryBatch")

(***************************************************************************)
(* The source                                                              *)
(***************************************************************************)

\* The serving session of a follower, while the server it connected to runs.
Serving(f, pc) == source[f].pc = pc /\ up[upstream[f]] = "up"
SourceUnchanged ==
    UNCHANGED << profile, epochVars, up, upstream, disk, stores, runtime, writer, admission, barrier,
                 tasks, follower, boundVars >>
Reply(f, messages) == replies' = [replies EXCEPT ![f] = @ \o messages]

\* An answer that ends the connection, or an error that only closes it.
Conclude(f, messages) ==
    /\ Reply(f, messages)
    /\ source' = [source EXCEPT ![f] = NoSession]
    /\ requests' = [requests EXCEPT ![f] = <<>>]
    /\ SourceUnchanged /\ UNCHANGED synced

\* Resume where the journal still holds the next batch, otherwise send everything.
Negotiate(f) ==
    LET cursor == Head(requests[f]).hello.cursor
        resume == cursor # <<>> /\ Subscribable(RuntimeJournal(upstream[f]), cursor[1])
    IN /\ source' = [source EXCEPT ![f] = IF resume THEN [pc |-> "resume", cursor |-> cursor[1]]
                                          ELSE [pc |-> "full"]]
       /\ requests' = [requests EXCEPT ![f] = Tail(@)]
       /\ SourceUnchanged /\ UNCHANGED << synced, replies >>

Acceptance(f) == W!Accepts(Head(requests[f]).hello, Hello(upstream[f], <<>>).hello)

\* session.rs serve_connection, for a Hello
ServeConnection(f) ==
    LET u == upstream[f]
    IN /\ profile # "memory" /\ Serving(f, "request")
       /\ IF ~admission[u] \/ Readonly(u) THEN Conclude(f, <<Reject("Unavailable")>>)
          ELSE IF Acceptance(f) # "accepted" THEN Conclude(f, <<Reject(Acceptance(f))>>)
          ELSE Negotiate(f)

\* memory_source.rs replica_connection: no admission check, and the journal before the contract
ReplicaConnection(f) ==
    LET u == upstream[f]
    IN /\ profile = "memory" /\ Serving(f, "request")
       /\ IF Readonly(u) THEN Conclude(f, <<Reject("Unavailable")>>)
          ELSE IF RuntimeJournal(u).closed THEN Conclude(f, <<>>)
          ELSE IF Acceptance(f) # "accepted" THEN Conclude(f, <<Reject(Acceptance(f))>>)
          ELSE Negotiate(f)

\* Streaming starts once the follower acknowledges where it starts from.
StreamFrom(f, cursor) ==
    source' = [source EXCEPT ![f] =
        [pc |-> "stream", cursor |-> cursor, sent |-> cursor, expected |-> <<cursor>>]]

\* replication_position answers with the head at that moment, not the one negotiated.
SendContinue(f) ==
    LET u == upstream[f]
    IN /\ Serving(f, "resume") /\ Accessible(u)
       /\ IF ~admission[u] THEN Conclude(f, <<>>)
          ELSE /\ Reply(f, <<Hello(u, <<Applied(u)>>),
                             [type |-> "Continue", cursor |-> source[f].cursor]>>)
               /\ StreamFrom(f, source[f].cursor)
               /\ SourceUnchanged /\ UNCHANGED << synced, requests >>

Entries(image, entryType) ==
    LET keys == SelectSeq([i \in 1..Cardinality(Owner) |-> i], LAMBDA o : image[o] # <<>>)
    IN [i \in DOMAIN keys |-> [type |-> entryType, key |-> keys[i], value |-> image[keys[i]]]]

\* send_snapshot: the head it was taken at, its entries in key order, their number and digest.
SnapshotFrames(cursor, entries) ==
    <<[type |-> "FullStart", cursor |-> cursor, entries |-> Len(entries)]>> \o entries \o
    <<[type |-> "FullEnd", cursor |-> cursor, entries |-> Len(entries), digest |-> entries]>>

\* replication_snapshot freezes the owners, flushes, and subscribes at the journal's head.
SendFull(f, entryType) ==
    LET u == upstream[f]
        j == RuntimeJournal(u)
    IN /\ Serving(f, "full") /\ Accessible(u)
       /\ IF ~admission[u] \/ Readonly(u) \/ j.closed \/ j.head.sequence # disk[u].sequence
          THEN Conclude(f, <<>>)
          ELSE /\ synced' = [synced EXCEPT ![u] = disk[u].sequence]
               /\ Reply(f, <<Hello(u, <<j.head>>)>>
                           \o SnapshotFrames(j.head, Entries(stores[u], entryType)))
               /\ StreamFrom(f, j.head)
               /\ SourceUnchanged /\ UNCHANGED requests

\* expect_ack: exactly the awaited position.
ExpectAck(f) ==
    /\ Serving(f, "stream") /\ source[f].expected # <<>> /\ requests[f] # <<>>
    /\ IF Head(requests[f]) # Ack(Head(source[f].expected)) THEN Conclude(f, <<>>)
       ELSE /\ source' = [source EXCEPT ![f].expected = Tail(@)]
            /\ requests' = [requests EXCEPT ![f] = Tail(@)]
            /\ SourceUnchanged /\ UNCHANGED << synced, replies >>

\* Subscriber::next, or the heartbeat timer while there is nothing new.
NextFrame(f) ==
    LET s == source[f]
        j == journals[s.cursor.epoch]
    IN /\ Serving(f, "stream") /\ s.expected = <<>>
       /\ CASE NextEntry(j, s.cursor) = "error" -> Conclude(f, <<Reject("FullRequired")>>)
            [] NextEntry(j, s.cursor) = "waiting" ->
                 /\ source' = [source EXCEPT ![f] =
                       [pc |-> "send", cursor |-> s.cursor, sent |-> s.sent, entry |-> <<>>]]
                 /\ SourceUnchanged /\ UNCHANGED << synced, requests, replies >>
            [] OTHER ->
                 /\ source' = [source EXCEPT ![f] =
                       [pc |-> "send", cursor |-> Cursor(s.cursor.epoch, s.cursor.sequence + 1),
                        sent |-> s.sent, entry |-> <<EntryAfter(j, s.cursor)>>]]
                 /\ SourceUnchanged /\ UNCHANGED << synced, requests, replies >>

Frames(head, batch) == <<Heartbeat(head)>> \o batch

\* The current head precedes every batch; both have to be acknowledged.
SendFrame(f, batchType) ==
    LET s == source[f]
        j == RuntimeJournal(upstream[f])
        batch == [i \in DOMAIN s.entry |-> [type |-> batchType, sequence |-> s.cursor.sequence,
                                            batch |-> s.entry[i]]]
    IN /\ Serving(f, "send")
       /\ IF j.closed THEN Conclude(f, <<>>)
          ELSE /\ Reply(f, Frames(j.head, batch))
               /\ source' = [source EXCEPT ![f] =
                     [pc |-> "stream", cursor |-> s.cursor, sent |-> s.cursor,
                      expected |-> IF s.entry = <<>> THEN <<s.sent>> ELSE <<s.sent, s.cursor>>]]
               /\ SourceUnchanged /\ UNCHANGED << synced, requests >>

\* The two streaming loops and the two snapshots differ in the records they carry.
Stream(f) ==
    /\ profile # "memory"
    /\ ExpectAck(f) \/ NextFrame(f) \/ SendFrame(f, "Batch")
MemoryStream(f) ==
    /\ profile = "memory"
    /\ ExpectAck(f) \/ NextFrame(f) \/ SendFrame(f, "MemoryBatch")
SendSnapshot(f) == profile # "memory" /\ SendFull(f, "SnapshotEntry")
SendReplicaSnapshot(f) == profile = "memory" /\ SendFull(f, "MemorySnapshotEntry")

(***************************************************************************)
(* Requests, starts and failures                                           *)
(***************************************************************************)

\* Message::Promote on a replica; on a primary it only reads the position.
RequestPromotion(n, a) ==
    /\ up[n] = "up" /\ Readonly(n) /\ tasks[n][a] = NoTask
    /\ profile # "memory" => admission[n]
    /\ nextEpoch <= MaxEpoch /\ nextEpoch' = nextEpoch + 1
    /\ tasks' = [tasks EXCEPT ![n][a] = Task("promote", 0, Cursor(nextEpoch, 0), NoImage)]
    /\ UNCHANGED << profile, written, journals, up, upstream, disk, synced, stores, runtime, writer,
                    admission, barrier, sessionVars, boundVars >>

\* Mutant: a recovered primary goes on in the epoch it finds on disk.
OpensEpochOnce(role, d) == d.role = "none"
OpensEpoch(role, d) == role = "primary" \/ (d.role = "none" /\ profile = "composed")

RoleAtStart(d, u) == IF d.role = "primary" \/ u = NoNode THEN "primary" ELSE "replica"
Startable(d, u) == d.role = "replica" => u # NoNode
StartTask(role, d, cursor) ==
    IF role = "primary" THEN Task("promote", 0, cursor, NoImage)
    ELSE IF d.role = "none" THEN Task("install", 0, cursor, d.image) ELSE NoTask

\* A start: the persisted role wins over the configuration; a primary always opens a new epoch
\* and a node without a role makes itself a replica before it follows.
Start(n, u) ==
    LET d == disk[n]
        role == RoleAtStart(d, u)
        fresh == OpensEpoch(role, d)
        cursor == IF fresh THEN Cursor(nextEpoch, d.sequence) ELSE Cursor(d.epoch, d.sequence)
        task == StartTask(role, d, cursor)
        boot == CHOOSE a \in Admins : TRUE
    IN /\ up[n] = "down" /\ Startable(d, u)
       /\ fresh => nextEpoch <= MaxEpoch
       /\ nextEpoch' = IF fresh THEN nextEpoch + 1 ELSE nextEpoch
       /\ written' = IF fresh THEN [written EXCEPT ![nextEpoch] = d.image] ELSE written
       /\ up' = [up EXCEPT ![n] = IF task = NoTask THEN "up" ELSE "starting"]
       /\ upstream' = [upstream EXCEPT ![n] = u]
       /\ stores' = [stores EXCEPT ![n] = d.image]
       /\ runtime' = [runtime EXCEPT ![n] = NewRuntime(role, Cursor(d.epoch, d.sequence))]
       /\ admission' = [admission EXCEPT ![n] = TRUE]
       /\ tasks' = [tasks EXCEPT ![n][boot] = task]
       /\ UNCHANGED << profile, journals, disk, synced, writer, barrier, sessionVars, boundVars >>

\* The process is gone: its tasks, sessions and journal with it, and what was not on disk.
Stop(n, s) ==
    /\ up' = [up EXCEPT ![n] = "down"]
    /\ disk' = [disk EXCEPT ![n].sequence = s, ![n].image = UpTo(@, s)]
    /\ synced' = [synced EXCEPT ![n] = s]
    /\ stores' = [stores EXCEPT ![n] = NoImage]
    /\ runtime' = [runtime EXCEPT ![n] = NewRuntime("replica", Cursor(0, 0))]
    /\ writer' = [writer EXCEPT ![n] = 0]
    /\ journals' = [journals EXCEPT ![writer[n]] = Close(@)]
    /\ barrier' = [barrier EXCEPT ![n] = "free"]
    /\ tasks' = [tasks EXCEPT ![n] = [t \in Slots |-> NoTask]]
    /\ follower' = [follower EXCEPT ![n] = [pc |-> "idle"]]
    /\ LET peers == {f \in Node : f = n \/ upstream[f] = n}
       IN /\ source' = [f \in Node |-> IF f \in peers THEN NoSession ELSE source[f]]
          /\ requests' = [f \in Node |-> IF f \in peers THEN <<>> ELSE requests[f]]
          /\ replies' = [f \in Node |-> IF f = n THEN <<>> ELSE replies[f]]
    /\ UNCHANGED << profile, nextEpoch, written, upstream, admission, faults, last >>

\* A crash may lose what was not synced; a stop after a failure syncs or loses nothing more.
Crash(n) ==
    /\ up[n] # "down" /\ crashes > 0 /\ crashes' = crashes - 1
    /\ \E s \in synced[n]..disk[n].sequence : Stop(n, s)
Exit(n) ==
    /\ up[n] = "up"
    /\ ~admission[n] \/ follower[n].pc = "ended"
    /\ Stop(n, disk[n].sequence) /\ UNCHANGED crashes

\* The operator gives a stopped node an empty disk.
ReplaceDisk(n) ==
    /\ up[n] = "down" /\ disk[n].role # "none" /\ crashes > 0 /\ crashes' = crashes - 1
    /\ disk' = [disk EXCEPT ![n] = [role |-> "none", epoch |-> 0, sequence |-> 0, image |-> NoImage]]
    /\ synced' = [synced EXCEPT ![n] = 0]
    /\ UNCHANGED << profile, epochVars, up, upstream, stores, runtime, writer, admission, barrier,
                    tasks, sessionVars, faults, last >>

Cut(f) ==
    /\ source[f] # NoSession /\ faults > 0 /\ faults' = faults - 1
    /\ NoSocket(f)
    /\ UNCHANGED << profile, epochVars, nodeVars, follower, crashes, last >>

\* The last batch arrives once more.
Repeat(f) ==
    /\ replies[f] # <<>> /\ Last(replies[f]).type \in {"Batch", "MemoryBatch"}
    /\ faults > 0 /\ faults' = faults - 1
    /\ Reply(f, <<Last(replies[f])>>)
    /\ UNCHANGED << profile, epochVars, nodeVars, follower, source, requests, crashes, last >>

Init ==
    /\ \E b \in Budgets :
        profile = b.profile /\ faults = b.faults /\ crashes = b.crashes /\ last = b.last
    /\ nextEpoch = 1
    /\ written = [e \in 0..MaxEpoch |-> NoImage]
    /\ journals = [e \in 0..MaxEpoch |-> ClosedJournal]
    /\ up = [n \in Node |-> "down"] /\ upstream = [n \in Node |-> NoNode]
    /\ disk = [n \in Node |->
          LET s == IF n \in Preloaded THEN 1 ELSE 0
              old == IF n \in Preloaded THEN With(NoImage, Batch(0, 1, {1})) ELSE NoImage
          IN [role |-> "none", epoch |-> 0, sequence |-> s, image |-> old]]
    /\ synced = [n \in Node |-> disk[n].sequence]
    /\ stores = [n \in Node |-> NoImage]
    /\ runtime = [n \in Node |-> NewRuntime("replica", Cursor(0, 0))]
    /\ writer = [n \in Node |-> 0] /\ admission = [n \in Node |-> TRUE]
    /\ barrier = [n \in Node |-> "free"]
    /\ tasks = [n \in Node |-> [s \in Slots |-> NoTask]]
    /\ follower = [f \in Node |-> [pc |-> "idle"]] /\ source = [f \in Node |-> NoSession]
    /\ requests = [f \in Node |-> <<>>] /\ replies = [f \in Node |-> <<>>]

TaskSteps(n, s) ==
    \/ EnterTask(n, s) \/ PublishLog(n, s) \/ OwnerStep(n, s) \/ FlushLog(n, s)
    \/ AttachJournal(n, s) \/ FinishTask(n, s)
FollowerSteps(f) == FollowSteps(f) \/ ReceiveSession(f) \/ ReceiveMemorySession(f)
SourceSteps(f) ==
    \/ ServeConnection(f) \/ ReplicaConnection(f) \/ SendContinue(f)
    \/ SendSnapshot(f) \/ SendReplicaSnapshot(f) \/ Stream(f) \/ MemoryStream(f)

Next ==
    \E n \in Node :
        \/ \E owners \in (SUBSET Owner) \ {{}} : Commit(n, owners)
        \/ \E s \in Slots : TaskSteps(n, s) \/ \E decided \in BOOLEAN : FailTask(n, s, decided)
        \/ FollowerSteps(n) \/ SourceSteps(n)
        \/ \E a \in Admins : RequestPromotion(n, a)
        \/ \E u \in Upstreams[n] : Start(n, u)
        \/ Crash(n) \/ Exit(n) \/ ReplaceDisk(n) \/ Cut(n) \/ Repeat(n)

Spec == Init /\ [][Next]_vars
\* Sessions, tasks and restarts go on; nothing obliges a client, an operator or a fault to act.
FairSpec ==
    /\ Spec
    /\ \A n \in Node :
        /\ WF_vars(FollowerSteps(n)) /\ WF_vars(SourceSteps(n))
        /\ \A s \in Slots : WF_vars(TaskSteps(n, s))
        /\ WF_vars(Exit(n) \/ \E u \in Upstreams[n] : Start(n, u))

(***************************************************************************)
(* Properties                                                              *)
(***************************************************************************)

Running(n) == up[n] = "up" /\ admission[n]

\* Within one epoch a position identifies the data: what a node has on disk at epoch e and
\* sequence s is what the primary of that epoch had after its batch s, whatever crashes,
\* promotions, resumed sessions and retries led there (the comment on Cursor in
\* replication/mod.rs).
CursorIdentifiesState ==
    \A n \in Node :
        disk[n].epoch # 0 => disk[n].image = UpTo(written[disk[n].epoch], disk[n].sequence)

\* A reader admitted between tasks sees every owner at one and the same position, the one the
\* runtime reports and the disk holds: never some owners before a batch or snapshot and some
\* after it (apply_composed_replica, install_replica_profile).
ReadersSeeOneCut ==
    \A n \in Node : Running(n) /\ barrier[n] = "free" =>
        /\ stores[n] = disk[n].image
        /\ Applied(n) = Cursor(disk[n].epoch, disk[n].sequence)

\* An acknowledgement in flight is backed by data that a power loss on the replica cannot take
\* back (receive_session acknowledges only after append, apply and flush).
AckedIsDurable ==
    \A f \in Node : \A i \in DOMAIN requests[f] : requests[f][i].type = "Ack" =>
        LET c == requests[f][i].cursor
        IN synced[f] >= c.sequence /\ (disk[f].role = "replica" => disk[f].epoch = c.epoch)

\* A node that accepts writes owns its epoch: disk, writer and runtime name the same journal,
\* and no other node writes in that epoch (promote_replica, attach_journal).
PrimaryOwnsEpoch ==
    \A n \in Node : Running(n) /\ barrier[n] = "free" /\ ~Readonly(n) =>
        /\ disk[n].role = "primary" /\ writer[n] = disk[n].epoch
        /\ runtime[n].journal = disk[n].epoch /\ ~journals[writer[n]].closed
        /\ written[disk[n].epoch] = disk[n].image
        /\ \A m \in Node \ {n} : up[m] = "up" => writer[m] # writer[n]

\* What a session resumes from or streams is the history of its epoch, each batch at its own
\* position, and retention stays within its limits (Journal::publish).
JournalIsHistory ==
    \A e \in Epoch :
        LET j == journals[e]
        IN /\ \A i \in DOMAIN j.entries :
                /\ j.entries[i].sequence = j.head.sequence - Len(j.entries) + i
                /\ \A o \in j.entries[i].owners : Contains(written[e][o], j.entries[i])
           /\ Len(j.entries) <= MaxBatches /\ Bytes(j.entries) <= MaxBytes

\* A position means one thing wherever it is used: on every disk, and in every journal a
\* session resumes from.
PositionsIdentifyHistory == CursorIdentifiesState /\ JournalIsHistory

\* The newer image is the older one and batches of epoch e after it.
AppendsOnly(e, older, newer) ==
    \A o \in Owner :
        /\ IsPrefix(older[o], newer[o])
        /\ \A i \in (Len(older[o]) + 1)..Len(newer[o]) : newer[o][i].epoch = e

\* A promotion is final: once the role on disk is primary, only an operator who empties the
\* disk makes the node a replica again; and no session that was under way touches its data:
\* until the process ends, disk and owners keep what they have and get nothing but batches
\* of the node's own epoch.
PromotionIsFinal ==
    [][\A n \in Node : disk[n].role = "primary" =>
        \/ /\ disk'[n].role = "primary"
           /\ up'[n] # "down" =>
                 AppendsOnly(disk'[n].epoch, disk[n].image, disk'[n].image)
           /\ up[n] = "up" /\ up'[n] = "up" =>
                 AppendsOnly(disk'[n].epoch, stores[n], stores'[n])
        \/ up[n] = "down" /\ disk'[n].role = "none"]_vars

\* When faults and writes cease, a replica whose upstream stays a running primary that accepts
\* it reaches that primary's head and stays there.
CaughtUp(f) ==
    LET u == upstream[f]
    IN Running(f) /\ Readonly(f) /\ u # NoNode /\ Running(u) /\ ~Readonly(u)
       => runtime[f].applied = Cursor(disk[u].epoch, disk[u].sequence)
Converges == \A f \in Node : <>[]CaughtUp(f)
=============================================================================
