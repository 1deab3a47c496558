# Verification of Sider

Sider is an in-memory key-value server that speaks RESP2 and RESP3.  Its keys are
sharded over *owners*, each a task with a bounded queue; one writer thread owns the
append-only file (AOF); connections talk to the owners and to a Pub/Sub hub; a node
may follow another one by replication; a protected server works under *security
generations* that are replaced while it runs.  This directory holds TLA+ models of
these parts, the TLC instances that check them, and TLAPS proofs of the central
theorems.

Paths below are relative to `src/src/`.  `PROJECT.json` maps every definition to the
lines it models and lists components, runs, mutants, findings, hazards and theorems.

## 1. The system and its modules

| Part | Sources | Modules | Proofs |
|---|---|---|---|
| AOF writer and recovery | `persistence/writer.rs` | `Aof`, implements `DurableLog` | `AofProofs` |
| Owners, barrier, coordinator, watches | `storage/worker.rs`, `admission.rs`, `snapshot.rs`, `coordinator.rs`, `transaction.rs`, `watch.rs` | `Owners` | `OwnersInvariants`, `OwnersTask`, `OwnersBarrier`, `OwnersWatch`, `OwnersProofs` |
| Pub/Sub hub and connection loop | `pubsub.rs`, `connection.rs` | `PubSub`, `Selection` | `PubSubProofs`, `PubSubDelivery` |
| Store, commands, routing | `storage/mod.rs`, `mutation.rs`, `routing*.rs` and the files of the types | `Store`, `Routing`, `Dataset` | -- |
| Memory profile | `storage/memory*.rs`, `persistence/memory_format.rs` | `Memory`, `MemoryStore`, `Dataset` | -- |
| Backup, restoration, migration | `persistence/backup/`, `persistence/migration*` | `Offline` (on `Dataset`) | -- |
| Replication | `replication/`, `storage/replication*.rs` | `Replication`, `Wire` | -- |
| Security generations, sessions, transactions | `security/`, `connection.rs`, `connection/transaction.rs` | `Policy`, `Security`, `Transaction`, `Session` | `SessionProofs` |
| Internal lane | `security/internal_runtime.rs`, `replication/security.rs`, `replication/protocol.rs` | `Internal` (on `Session`), `Wire` | `SessionProofs` |
| RESP codec | `resp/` | `Resp` | -- |

The modules meet where one part relies on another.  `DurableLog` is what the owners
rely on of the writer; `Owners` represents a record by its place in that log.
`Dataset` gives a record its contents: it takes the steps of one request at a time,
whose interleavings are those of `Owners`, over the stores in full.  `Offline` runs
its tools beside `Dataset`.  `Replication` takes a commit of `Owners` as one step and
the disk as the pair of a durable and a written position, which `Aof` justifies.
`Session` adds the connections to `Security`, `Internal` the links between servers
to both, and an activation involves all of them.

What is hard, and what a correct system has to guarantee:

* **AOF.**  A crash between any two system calls; records that arrive during a
  compaction; two generations on disk.  *What was acknowledged is recovered, in
  order and once; nothing is appended to a file that recovery ignores.*
* **Owners.**  A decision over several owners is applied one owner after the other,
  with timeouts at every message.  *Nobody sees half of it; nobody is left waiting;
  a snapshot is a cut; EXEC sees the keys it watched.*
* **Pub/Sub.**  Full queues, self-publication, removal along four paths, a wake-up
  that is not counted.  *Deliveries have no gap; indexes and counters agree; queued
  messages are written.*
* **Data.**  Quota, deadlines, record limits, replay.  *Replay of what was prepared
  yields what was applied; the byte count is exact; a split command is the command.*
* **Replication.**  Reconnects, lagging subscribers, promotion, lost tails.  *A
  position means one history; a stale session changes nothing.*
* **Security.**  An activation waits for sessions that hold leases.  *It ends, and
  nothing accepted under the old generation goes on afterwards.*

Every model is bounded by constants that are named in its module; the theorems hold
for all of their values.  Deadlock is checked in the two AOF runs only: elsewhere
clients stop after the requests they have, and owners and servers may stop for good.

## 2. The append-only file: `Aof`, `DurableLog`, `AofProofs`

**State.**  A dataset is represented by the history of batches that built it, so a
snapshot is a history, and the writer's sequence number is its length.  `files` has
one record per generation: how much of its history is snapshot (`base`), how much
has reached the device (`synced`), whether it ends in part of a record (`torn`).
`dir` is what a listing shows, `durableDir` what the last synchronisation of the
directory made permanent.  `phase` is the place of the writer thread between two
system calls, and `gen`, `sequence`, `replication`, `dirty`, `journal`, `synced`,
`compaction` are fields of `Writer`.  `served` is the history the owners have had
acknowledged, `pending` the same with the request under way.  The policy is chosen
at the start of a behaviour.

**Actions.**  Recovery (`CreateInitial`, `SyncInitialDirectory`, `Recover`); the
request loop (`AppendBatch`, `Replicate`, `SyncRecord`, `ReplyAppend`, `Flush`,
`AttachJournal`, `RecvTimeout`, `Tick`, `CloseWriter`); compaction with its helper
thread (`BeginCompaction`, `SnapshotThread`, `Finish...`, `SyncDirectory`,
`CompactionCutover`); installation (`InstallPublish`, `InstallReplace`); failures
(`AppendTorn`, `IoFailure`, `ProcessCrash`, `PowerLoss`).  Requests that are refused
leave no trace and are not steps.  A loss of power keeps what was synchronised and
any prefix of the rest, and keeps or drops each name that was not synchronised.

**Abstract specification.**  `DurableLog` is what the owners rely on: a committed
history, one offered extension or image, and restarts that keep one of the two.

| Run | Instance | Shows |
|---|---|---|
| `aof_process` | periodic policy, processes die, 2 batches, sequence <= 2, 3 generations, delta of 1 | `ServedIsRecoverable`, `RoleIsRecoverable`, `NoRecordAfterTorn`, `ImplementsDurableLog`; under `FairSpec` also `WriterProgresses`: a compaction ends and an append is answered |
| `aof_power` | both policies, loss of power | `AlwaysIsRecoverable`: the same promise under the always policy, and nothing unsynchronised reached the journal; `SyncedSurvives`: under either, only an end that was never reported as synchronised may be cut |
| `aof_synced_report` | expected violation | see findings |

*Bounds.*  Three generations (0 to 2) are needed for the removal of the obsolete
one, two records to reorder or double one, a delta of one to exceed it.  *Fairness.*
The writer thread and its helper are threads of the operating system, and `run` wakes
up at least every ten milliseconds; nothing is assumed of requests or failures.

**Proved** in `AofProofs`, for all batches, images and bounds:

* `TypeCorrect`.  `TypeOK` is not inductive: a generation may be written only if there
  is room for it, which `RoomForNext` adds for the phases that lead there.
* `ProcessCrashSafe` (`ServedIsRecoverable`, if `Failures` has no loss of power).  The
  invariant `SafeInv` says for each phase which file recovery would select and what it
  holds: the served history while the thread is quiet, the pending one once a record is
  written, both generations agreeing between rename and switch; `DeltaInv` says that
  snapshot plus delta is the served history unless the compaction was abandoned.
  `ServedIsRecoverable` alone says nothing of the file a compaction is about to publish.
* `ProcessCrashImplements`: under the same assumption every step maps to a step of
  `DurableLog` or to a stutter (`DurableStep`).
* `RoleSurvives` (`RoleIsRecoverable`) whatever fails, and `TornTailsAreFinal`
  (`NoRecordAfterTorn`) for process deaths, from `HeaderInv`: the header of every file
  that recovery could select, and which file the writer may append to.
* `PowerLossSafe` (`AlwaysIsRecoverable`), `SyncedPrefixSurvives` (`SyncedSurvives`) and
  `PowerLossImplements` (`ImplementsDurableLog` when `Policies` is the always policy), if
  only power is lost.  `PowerInv` says what is *robust*: whichever names and whichever
  unsynchronised ends a loss of power takes, the file that recovery then selects holds
  at least the history that phase has promised.

The theorems assume one kind of failure at a time because the code's promise needs it:
a process that dies between the write of a record and its synchronisation leaves a
record that the next process serves without synchronising the file, so a loss of power
after that can take it back.  `aof_synced_report` is where this shows.

## 3. The owners: `Owners` and its proofs

**State.**  Each owner has one key; a record of the AOF is known by its position in
`log`, a store by the positions it has applied (`applied`) and by its `generation`.
`due` are keys whose deadline has passed.  `requests` and `ctl` are the request
queue and the control channel, `worker` what the worker does, `coordinated` its
tentative transaction.  `task` is the holder of the write guard: a coordinated EXEC,
a coordinated WATCH or a snapshot.  Read guards are not a variable: a client that
reserves, a queued request and a busy owner each hold one (`NoReaders`).  A
connection plays the role that the behaviour's first state gives it.

**Actions.**  Clients: `Start`, `Unwatch`, `ReadAdmission`, `Enqueue`,
`ClientTimeout`, `Unavailable`.  Workers, in the order of `Worker::run`:
`StopRequests`, `StopOnFailure`, `Expire`, `Serve`, `Persist`, `ApplyPersisted`,
`StopWorker`.  Coordinator: `AcquireExclusive`, `SendControl`, `ControlFailed` (a
timeout at any control), `AppendDecision`, `DropPublication`, `Release`; the owners'
side of each control (`Probe`, `Clock`, `CheckWatches`, `Begin`, `Candidate`,
`Accept`, `Seal`, `Abort`, `PrepareWatch`, `Apply`, `ApplyWatch`).  Snapshot:
`FreezeBegin`, `Snapshot`, `FreezeEnd`.  Environment: `TimePasses`, `Shutdown`.
A control whose sender gave up stays in the channel and is handled later, as in the
code.

| Run | Instance | Shows |
|---|---|---|
| `owners_safety` | 2 owners; 2 connections that may ask for anything, or a writer and a watcher with two operations each | `DecisionIsAtomic`, `NoLeftoverTransaction`, `SnapshotIsCut`, `WatchIsolation` |
| `owners_liveness` | a writer and a client whose WATCH or EXEC spans both owners, `FairSpec` | `ExclusionEnds`, `OwnersProgress`: requests are answered and shutdown drains |
| `owners_stale_preparation` | expected violation | see findings |

*Bounds.*  Two owners are the least for a decision to be half applied; two clients
the least for one to interfere; queues of one make clients wait for capacity.
Symmetry is used only in `owners_safety`, whose set of roles is closed under it.  EXEC in
`owners_liveness` has one command of each owner, so that it goes through its loop over
commands twice; the commands of several owners are in `owners_safety`.
*Fairness.*  Tokio polls tasks that are ready and timers fire: weak fairness for the
coordinator and each worker, and for a client whose owner is gone.  `Serve` and the
controls need strong fairness, because the expiration tick, which the worker's biased
`select` polls first, disables them from time to time; the tick comes once per 100 ms
and cannot occupy the worker for ever.

**Proved**, for any number of owners and connections, any plans and any bounds:
`OwnersTypeCorrect`, `DecisionsAreAtomic` (`DecisionIsAtomic`), `NothingIsLeftOver`
(`NoLeftoverTransaction`), `SnapshotsAreCuts` (`SnapshotIsCut`) and `WatchesIsolate`
(`WatchIsolation`).  The inductive invariant is in layers (`OwnersInvariants`), each
preserved with the help of the ones before it:

1. `CoordinatorInv`: the shape of the task, and which controls can be in a channel at
   each of its steps -- sent and not answered, or abandoned by a timeout;
2. `BarrierInv`: while the write guard is held, or once the admission is closed, no
   request is queued or served and none can be sent; the admission is closed only by a
   holder that is about to release the guard;
3. `Visible`: every store has the records of the log that touch it, but for the one that
   its worker or the coordinator is about to apply;
4. `Tidy`: nothing is tentative but what the coordinator that holds the guard will seal,
   apply or abort;
5. `Joint`: the owners of a command agree on whether it was accepted;
6. `Captured`: an image taken by a snapshot stays the owner's part of the log;
7. `ConnectionInv`: a request is queued or served at the one owner that its operation
   has, and a task belongs to a connection that waits for it;
8. `Live` and `Accepted`: a token that is live has seen the generation of its owner, and
   the watches of an EXEC whose record is being decided were valid and are so still.

The layers are needed because a late control breaks each property separately: that a
tentative transaction is gone follows only from what the channels can still hold, and
that a snapshot is a cut only from who can still append.  `OwnersTask` proves layer 1,
`OwnersBarrier` layers 2 to 6, `OwnersWatch` 7 and 8, and `OwnersProofs` combines them.
Between them `OwnersInvariants` classifies the steps as a layer sees them, so that an
action that does not concern a layer is one of a few cases.  Assumptions: every command
of a plan has an owner, a command outside of MULTI exactly one (`OpsAssumption`,
`ExecuteAssumption`: `ShardRouter::route` refuses it otherwise), and there is at least
one shard and room for one request.

## 4. Pub/Sub: `PubSub`, `Selection` and their proofs

**State.**  The hub: `subscribers`, `subs` (channels per subscriber), `channels` (the
index), the two counters, `queue` and `evicted` per connection, and `lock`, the
connection whose EXEC holds the registry mutex.  The connection loop: `pc`, `input`,
`left`, `batch`, `output`; `wake` is the permit that `Notify` stores and `notified`
says that a waiting loop was woken.  Three histories serve the properties: `log`, the
publications and their audience, `written`, the frames each client got, and `dropped`,
what a change of policy withdrew.  `secured` -- is there a client policy -- is chosen at
the start of a behaviour.

**Actions.**  The loop: `TryMessage` (one notification per round), `NoticeEviction`,
`Write`, `WriteTimeout`, `Close`, `Read`, `Wait`, `Wake`, `Poll` (the one-second
deadline that exists only under a client policy).  Commands: `Subscribe`,
`Unsubscribe`, `UnsubscribeClosed`, `PublishCommand`, `OtherCommand`, `Exec`.  The task
that runs EXEC: `CompleteExec`, `ExecRejected`, `ExecLost`, `BatchCommand`,
`FinishExec`.  Policy changes: `Revalidate`, `Reconnect`.  Each change of the hub is
atomic because the code makes it under one mutex.  The check of the policy before each
notification is left out: an activation revalidates the queue before the loop can take
a message from it.

| Run | Instance | Shows |
|---|---|---|
| `pubsub_delivery` | 2 connections, one RESP3, 2 channels, queues of 2, 3 publications, EXEC batches that publish to themselves, with and without a policy that changes | `IndexConsistent`, `CountersExact`, `ExactDelivery`, `MessagesInPlace` |
| `pubsub_liveness` | 2 connections, 1 channel, queues of 2, 3 publications, EXEC, client policy, `FairSpec` | `EvictionCloses`, `MessagesProgress` |
| `pubsub_lost_wakeup` | no client policy, expected violation | see findings |

*Bounds.*  Three publications overflow a queue of two, and two channels mix in one
queue.  In `pubsub_liveness` TLC compares states without `written` and `dropped` (the view
`WithoutTranscript`).  These two record what happened: no guard and neither of the run's
properties reads them, so states that differ only there have the same future, and nothing
is left out.  *Fairness.*  Weak fairness for each connection's loop, command execution and
EXEC task, which Tokio schedules; a client need not read, send or publish.

**Proved** for all connections, channels, limits and batches:

* `HubIndexConsistent` (`IndexConsistent`) and `HubCountersExact` (`CountersExact`).  The
  invariant `HubInv` adds the types of the hub's state and `AbsentIsSilent` (a connection
  that is not registered has no channels), without which a later registration could bring
  back memberships; the counters are sizes of finite sets, compared change by change.
* `OnlyKeeps`: the loop that keeps the permitted messages of a queue returns exactly those
  in their order.
* `HubExactDelivery` (`ExactDelivery`) and `HubMessagesInPlace` (`MessagesInPlace`), in
  `PubSubDelivery`.  `DeliveryInv` adds what each place of the loop may have left to write
  (`Phase`), and that no message of a channel that was left is written, about to be
  written or queued, except in the queue of a running batch (`Silent`).  These and
  `Delivered` are stated over plain sequences and sets, so that most of the argument is
  about data: what happens when frames are appended, lost or withdrawn.

Recursive functions over sequences (`Only`, the filters of the delivery proof) are
handled by induction over their length.  The library's induction rules take an operator
and cannot be used; instead the least counterexample of a *set* of numbers is taken with
`NatLessThanWellFounded` and `WFMin`, and the set is formed for each lemma.

## 5. The data: `Memory`, `Store`, `MemoryStore`, `Routing`, `Dataset`, `Offline`

`Store` is one owner's dataset as a value, with the operators that commands, prepared
changes, expiry passes, replay and transactions apply to it: strings, hashes, lists, sets
and sorted sets, the two indexes of deadlines, the byte count, the quota, the generation.
A string is a decimal numeral or a number of bytes that are no numeral; scores and
coordinates are integers, so rounding is left out.  `Memory` and `MemoryStore` add vector
collections, their records and the bounded search; `Routing` the plans, fragments and the
assembly of replies.  `Dataset` runs them over time: `Request` (single commands, MEM.*
operations, WATCH, EXEC), `ExpirePass`, `ApplyPending`, `Tick`, `Jump` (the wall clock is
set), `Compact`, `Crash`.  A record is durable one step before it is applied, and a crash
may come between.  `Offline` adds the tool processes: export of a running or a stopped
server, restoration, migration (`MigrateOffline` within the legacy format,
`MigrateMemoryOffline` from either format to the memory one), each one file operation per
step, any of which may be the last (`Abandon`, `Die`), and a backup that is damaged in
between (`Damage`).

| Run | Instance | Shows |
|---|---|---|
| `dataset` | ten scenarios of two or three keys, two to four requests | `AccountingHolds`: the byte count and the indexes are those of the entries; `RecoveryReproduces`: replay yields what was decided; `WatchSeesChange`; `SplitIsWhole`: an EXEC split between owners is the EXEC on one undivided store; `SearchIsTopK`; `RecordsAlwaysFit`: what is stored fits a snapshot record, and what is due can be reclaimed; `GenerationIsWhole`: no tool leaves a partial dataset under the name a recovery reads |

*Bounds.*  Each scenario is built around one limit that it crosses: the quota, a record of
one mutation, the largest instant (`I64_MAX` is 1999), two edits in one record, a search for
two of three members.  The expiry budget of a pass is 4 where the code has 64, so that a
pass can leave something for the next one.  `RecoveryReproduces` promises success of a
recovery only while the wall clock was never set back (`steady`): a clock set back revives
expired entries, and a store that was full without them is then over its quota.  That
expired entries are reclaimed is stated as an invariant -- whatever is due, the next pass
makes a valid record that removes some of it -- and needs no fairness.  The log of
`Offline` has no incomplete tail; that is `Aof`.

## 6. Replication: `Replication`, `Wire`

A batch is known by the epoch and sequence it was first written at and by its owners; a
store is the sequence of batches that touched it.  `written[e]` is the history of epoch
`e`, `journals` the bounded journals sessions stream from, `disk` and `synced` what a node
has on disk and what an awaited flush made durable, `tasks` the installations,
applications and promotions under way, `follower` and `source` the two sides of a
session, `requests` and `replies` the frames in flight.  Actions: `Commit` of a primary;
the steps of a task (`EnterTask`, `PublishLog`, `OwnerStep`, `FlushLog`, `AttachJournal`,
`FinishTask`) and its failure at each (`FailTask`); the follower (`BeginSession` to
`AwaitTask`, once for each transport), the source (`ServeConnection`,
`ReplicaConnection`, `SendContinue`, `SendFull`, `ExpectAck`, `NextFrame`, `SendFrame`);
`RequestPromotion`, `Start`, `Crash`, `Exit`, `ReplaceDisk`, `Cut`, `Repeat`.  A timeout
before the decision is on disk is one outcome of `FailTask`.  A `ComposedHello` is treated
as a `Hello` here; its own fields are checked by `Wire` in the `security` run.

| Run | Instance | Shows |
|---|---|---|
| `replication` | a primary and a replica that has data of its own, two owners, the composed and the memory profile, sequence <= 2, three epochs, a journal of one batch | `PositionsIdentifyHistory`, `ReadersSeeOneCut`, `AckedIsDurable`, `PrimaryOwnsEpoch`, `PromotionIsFinal`: a promoted node stays primary, and its disk and owners only append batches of its own epoch; one administrator at a time asks for the promotion; under `FairSpec` `Converges` |

*Bounds.*  A behaviour has a budget of faults, crashes and writes (`Budgets`) instead of
one bound for each: one fault and one crash together with one write, or one of them with
two writes, which is what a resumed session, a lagging subscriber and a lost tail each
need.  A journal of one batch makes a follower lag after one.  *Fairness.*  Sessions,
sources, tasks and restarts go on, as Tokio and the supervisor of a node schedule them;
nothing obliges a client, an operator or a fault to act.

## 7. Security: `Policy`, `Security`, `Transaction`, `Session`, `Internal`, `Wire`, `Resp`

`Policy` says what a generation is and when files form one; `Security` loads it file by
file while the operator may rewrite the directory, takes the write side of the lock,
tells every registered connection and swaps; `Transaction` is the queue and the watches
of one connection; `Session` the protected connection loop with leases, AUTH and HELLO,
budgets of addresses, permits of the verifier, and the orders that outlive a connection;
`Internal` the links between servers: frames, operations, exports, revalidation; `Wire`
the frames themselves.  A certificate is its identity, issuer, serial number and validity,
a verifier the password it verifies.  `Session` has one clock for the monotonic and the
wall clock.  Connections without a policy are those of `PubSub`.  `Resp` is the
incremental decoder and the encoder, with limits; the exponent of a double is left out.

| Run | Instance | Shows |
|---|---|---|
| `security` | ten scenarios of one or two connections or links under up to four releases, and one in which a connection reads streams cut in every way | `AcceptedUnderActive`, `OpenMatchesPolicy`, `ExecIsWhatWasQueued`, `LoadedIsWhole`, `ExportIsWhole`, `FragmentsDoNotMatter`, `CodecAgrees`; under fairness `ActivationEnds` |

*Bounds.*  Scaled constants: 2 failures an address may spend for 5, 1 address remembered
for 65,536, 1 running and 2 admitted verifications for 2 and 66, an overlap of 2
credentials; RESP frames of 24 bytes, bulks of 5, lines of 8, 5 nodes, depth 2, an input
buffer of 24.  Each is crossed by a scenario.  *Fairness.*  One weak-fairness condition on
`Progress`, the steps that an activation waits for: while the lock is wanted no new lease
is granted, so these steps are finitely many, and each of them is a ready task, an
operation with a deadline or a timer.

**Proved** in `SessionProofs`, for every scenario -- any number of clients, links,
releases, requests and limits: `GenerationsAreWhole` (`LoadedIsWhole`),
`AcceptedIsAuthorised` (`AcceptedUnderActive`), `OpenConforms` (`OpenMatchesPolicy`),
`ExecRunsTheQueue` (`ExecIsWhatWasQueued`) and `GenerationsAdvance`: a generation is
replaced only by one with a larger number and the same lanes.  `SecurityInv` has four
parts.  `Authentic`: what the loader holds is files of one release each, so that a
validated load is a release.  `Quiet`: while an activation awaits acknowledgements nobody
has a lease, so nothing is admitted.  `Conforming`: outside an activation every session and
link fits the generation in force; during one, a session that has acknowledged and every
open link already fit the replacement, and the others are awaited.  `Standing`: the
shapes of queues and tasks, and that a queue EXEC would run holds what was promised.
`OpenMatchesPolicy` is not inductive by itself, because a swap changes the generation and
not the sessions.  Assumption: a scenario has a release to start from and a queue limit
(`ScenariosAssumption`).

## 8. Findings

* `owners_stale_preparation`: a coordinated WATCH with nothing to expire makes no
  publication.  If its `ApplyWatch` times out, the guard is released with the control
  still in the channel; an expiration tick may change the store first, and the late
  control fails the assertion "stale preparation", which ends the owner.
* `pubsub_lost_wakeup`: without a client policy, two messages accepted while the loop
  is busy store one permit.  The loop writes one message per round and then waits, with
  the other message queued until something else happens.
* `aof_synced_report`: after a restart `aof_synced_sequence` covers every replayed
  record, though only a file with an incomplete tail is synchronised by recovery.

Met while modelling, and left as the code has them in the models:

* `docs/security-boundary.md` says that a credential whose validity changes so that it is
  no longer valid closes its session; `apply_update` (`connection.rs`) keeps the
  connection open without an identity.
* Revoking the grant of a WATCH clears the watches while the queue of MULTI stays
  executable (`Revalidate`), so EXEC then runs without them.
* A read-only EXEC over several owners on a replica is answered `DbError::Unavailable`,
  which closes the connection.
* After a successful AUTH a full table of address budgets may close the connection
  (`peer_exhausted`).
* The comment in `replication/protocol.rs` that no production session selects the
  composed codec is no longer true: `session.rs` selects it.
* Two tokens of one key that are dropped at once may leave a dead reference in the
  registry of `watch.rs`, which costs memory only.

## 9. What stays with TLC, and what is not modelled

Proofs are written for Zenon first (`USE ZenonT(30)`); leaves that need arithmetic,
sequences or large records name SMT.  These properties are model-checked only:

* liveness under fairness (`WriterProgresses`, `ExclusionEnds`, `OwnersProgress`,
  `EvictionCloses`, `MessagesProgress`, `Converges`, `ActivationEnds`), which is out of
  the prover's reach;
* `AccountingHolds`, `RecoveryReproduces`, `WatchSeesChange`, `SplitIsWhole`,
  `SearchIsTopK`, `RecordsAlwaysFit` and `GenerationIsWhole`: they are about what
  folds over arbitrary collections compute, over some fifty commands; the model is a
  function that TLC evaluates on both sides of an equation;
* `FragmentsDoNotMatter` and `CodecAgrees`: the decoder of `Resp` is `RECURSIVE`, and what
  it computes is an induction over its input;
* `ExportIsWhole`: the lists of steps of a link are compared with the frames of `Wire`, a
  concrete codec;
* the safety properties of `Replication`.

Not modelled: the components that `PROJECT.json` lists as `partly` or `not_modelled`,
with reasons.  The byte formats and checksums, TLS and password hashing, floating-point
rounding, the parsing of words into commands, configuration, metrics that nothing reads
back and the release tooling are left out for good.
