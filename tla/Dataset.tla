------------------------------ MODULE Dataset ------------------------------
(***************************************************************************)
(* The owners' datasets over time: requests prepared, made durable and     *)
(* applied; keys and members that expire; WATCH and EXEC; compaction,      *)
(* crash and recovery of the log (storage/worker.rs, coordinator.rs,       *)
(* snapshot.rs, and load_profile of persistence/writer.rs with the         *)
(* partition of server.rs).  Interleavings of queues, owners and writer    *)
(* are those of Owners and Aof; here an owner serves one request at a time *)
(* and the data is modelled in full.                                       *)
(*                                                                         *)
(* A scenario fixes the profile, the owner of each key, the quota, the     *)
(* record limits and the requests clients may send.                        *)
(***************************************************************************)
EXTENDS Routing

CONSTANTS
    Scenarios     \* scenario records by name, see ScenarioShape

VARIABLES
    chosen,       \* the scenario this behaviour plays
    stores,       \* each owner's store
    clock,        \* [now, unix]: the monotonic and the wall clock
    steady,       \* the wall clock never jumped
    log,          \* [base, snapshot, batches]: what a recovery would read
    pending,      \* the durable decision the owners have not applied yet
    token,        \* at most one WATCH observation, with what was seen
    requests      \* requests left to send

vars == <<chosen, stores, clock, steady, log, pending, token, requests>>

scenario == Scenarios[chosen]
Owner == Range(scenario.shard)
KeyOf(o) == {k \in DOMAIN scenario.shard : scenario.shard[k] = o}

ScenarioShape(s) ==
    /\ s.maxTime > 0
    /\ s.profile \in {"legacy", "composed", "memory"}
    /\ {s.quota, s.requests, s.maxTime, s.budget, s.limits.bytes, s.limits.mutations} \subseteq Nat
    /\ 0 \in Range(s.shard) /\ Range(s.shard) = 0..Max(Range(s.shard))

ASSUME ScenariosAreWellFormed == \A s \in Range(Scenarios) : ScenarioShape(s)

\* The dataset bytes are divided among the owners, the first ones rounding up.
QuotaOf(total, count, o) == total \div count + IF o < total % count THEN 1 ELSE 0
OwnerQuota(o) == QuotaOf(scenario.quota, Cardinality(Owner), o)

Init ==
    /\ chosen \in DOMAIN Scenarios
    /\ stores = [o \in Owner |-> EmptyStore(OwnerQuota(o))]
    /\ clock = [now |-> 0, unix |-> 1]
    /\ steady = TRUE
    /\ log = [base |-> 0, snapshot |-> <<>>, batches |-> <<>>]
    /\ pending = {}
    /\ token = {}
    /\ requests = scenario.requests

---------------------------------------------------------------------------
\* Persist, then apply

Idle == pending = {}

\* The record of a preparation in the profile's format.
RecordOf(o, prepared) ==
    IF scenario.profile = "memory" THEN ResolvedMemoryMutations(stores[o], prepared)
    ELSE prepared.batch.mutations

\* Appends the record and leaves the preparations to apply.  A record over the
\* limits is refused and nothing changes; no mutation needs no record.
Commit(prepared, mutations, watch) ==
    CASE mutations = <<>> ->
            /\ pending' = {[owners |-> prepared, watch |-> watch]}
            /\ UNCHANGED log
      [] mutations # <<>> /\ BatchFits(mutations, scenario.limits) ->
            /\ log' = [log EXCEPT !.batches = Append(@, mutations)]
            /\ pending' = {[owners |-> prepared, watch |-> watch]}
      [] OTHER -> UNCHANGED <<log, pending>>

Send == Idle /\ requests > 0 /\ requests' = requests - 1

\* Commits what one owner prepared.
CommitPrepared(o, prepared, watch) == Commit(o :> prepared, RecordOf(o, prepared), watch)

ExecuteRequest(c) ==
    LET o == Route(scenario.shard, c).value
    IN  /\ Send
        /\ ~Failed(Route(scenario.shard, c))
        /\ CommitPrepared(o, Prepare(stores[o], c, clock), {})
        /\ UNCHANGED <<chosen, stores, clock, steady, token>>

MemoryRequest(op) ==
    LET o == scenario.shard[op.key]
    IN  /\ Send
        /\ scenario.profile = "memory"
        /\ \E result \in {PrepareMemory(stores[o], op, scenario.limits, clock)} :
              Commit(o :> result.prepared, SetToSeq(result.resolved), {})
        /\ UNCHANGED <<chosen, stores, clock, steady, token>>

\* WATCH first removes the key if it expired, as EXISTS does.
WatchRequest(k) ==
    LET o == scenario.shard[k]
    IN  /\ Send
        /\ token = {}
        /\ CommitPrepared(o, Prepare(stores[o], [op |-> "EXISTS", keys |-> <<k>>], clock), {k})
        /\ UNCHANGED <<chosen, stores, clock, steady, token>>

CommitExec(commands, plan) ==
    LET o == plan.participants[1]
    IN  IF Len(plan.participants) = 1
        THEN CommitPrepared(o, PrepareBatch(stores[o], commands, clock), {})
        ELSE \E owners \in {PrepareTransaction(stores, plan, clock).value.owners} :
                Commit(owners, JointMutations(owners), {})

\* EXEC drops the observations, and does nothing when one of them changed.
ExecRequest(commands) ==
    /\ Send
    /\ \E plan \in {PlanTransaction(scenario.shard, commands,
                                    {observed.key : observed \in token})} :
          /\ ~Failed(plan)
          /\ scenario.profile = "composed" \/ Len(plan.value.participants) = 1
          /\ IF \E observed \in token : TokenChanged(observed, clock.now)
             THEN UNCHANGED <<log, pending>>
             ELSE CommitExec(commands, plan.value)
    /\ token' = {}
    /\ UNCHANGED <<chosen, stores, clock, steady>>

\* Mutant: a batch of expirations that does not fit is tried again as it is.
HalvedFixed(o, budget) == budget

\* An expiry pass halves its budget while the record does not fit.
Halved(o, budget) ==
    LET tried == {budget \div 2^i : i \in 0..6} \ {0}
        Fitting(record) == record = <<>> \/ BatchFits(record, scenario.limits)
    IN  Max({1} \union {b \in tried : Fitting(RecordOf(o, PrepareExpiration(stores[o], b, clock)))})

Expiration(o) == PrepareExpiration(stores[o], Halved(o, scenario.budget), clock)

ExpirePass(o) ==
    /\ Idle
    /\ \E prepared \in {Expiration(o)} :
          /\ prepared.changes # <<>>
          /\ CommitPrepared(o, prepared, {})
    /\ UNCHANGED <<chosen, stores, clock, steady, token, requests>>

\* The entry of a key as a client sees it: its value and its deadline, with the
\* members that are still visible.
Visible(s, k, now) ==
    IF ~Has(s, k) \/ Due(s.values[k], now) THEN {}
    ELSE LET e == s.values[k]
             live == {id \in DOMAIN e.value.memory.members : Live(e, id, now)}
         IN  {<<IF "memory" \in DOMAIN e.value
                THEN [memory |-> [descriptor |-> e.value.memory.descriptor,
                                  members |-> Restrict(e.value.memory.members, live)]]
                ELSE e.value, e.expiry>>}

\* Registry::token: the flag is fresh, the deadline is the key's next change.
Observe(s, k) ==
    [key |-> k, invalidated |-> FALSE, deadline |-> WatchDeadline(s, k, clock.now),
     seen |-> Visible(s, k, clock.now)]

\* Mutant: applying raises no WATCH flag.
InvalidateNone(tokens, touched) == tokens
\* Applying raises the flag of every key it touches, changed or not.
Invalidate(tokens, touched) ==
    {IF observed.key \in touched THEN [observed EXCEPT !.invalidated = TRUE] ELSE observed :
        observed \in tokens}

ApplyPending ==
    LET decision == The(pending)
        applied == [o \in Owner |-> IF o \in DOMAIN decision.owners
                                    THEN Apply(stores[o], decision.owners[o]) ELSE stores[o]]
        touched == UNION {applied[o].touched : o \in Owner}
    IN  /\ ~Idle
        /\ stores' = [o \in Owner |-> [applied[o] EXCEPT !.touched = {}]]
        /\ token' = Invalidate(token, touched)
                        \union {Observe(applied[scenario.shard[k]], k) : k \in decision.watch}
        /\ pending' = {}
        /\ UNCHANGED <<chosen, clock, steady, log, requests>>

---------------------------------------------------------------------------
\* Time, compaction, crash and recovery

Tick ==
    /\ clock.now < scenario.maxTime
    /\ clock' = [now |-> clock.now + 1, unix |-> clock.unix + 1]
    /\ UNCHANGED <<chosen, stores, steady, log, pending, token, requests>>

\* The wall clock is set; deadlines already resolved do not move.
Jump ==
    /\ scenario.jumps
    /\ \E unix \in 1..scenario.maxTime \ {clock.unix} : clock' = [clock EXCEPT !.unix = unix]
    /\ steady' = FALSE
    /\ UNCHANGED <<chosen, stores, log, pending, token, requests>>

Sequence(history) == history.base + Len(history.batches)

\* The frozen image of all the owners, in key order, replaces the history.
Frozen ==
    SetToSortSeq(UNION {Range(SnapshotOf(stores[o])) : o \in Owner}, LAMBDA m, n : m.key < n.key)

Compact ==
    /\ Idle
    /\ log.batches # <<>>
    /\ log' = [base |-> Sequence(log), snapshot |-> Frozen, batches |-> <<>>]
    /\ UNCHANGED <<chosen, stores, clock, steady, pending, token, requests>>

UsedBy(s, shard, o) ==
    SumFunction([k \in {j \in DOMAIN s.values : shard[j] = o} |-> EntryBytes(s.values[k].value)])

\* A record that was applied to the whole dataset, under the quota of each owner.
ReplayedWithin(s, shard, touched) ==
    IF \E o \in {shard[k] : k \in touched} :
            UsedBy(s, shard, o) > QuotaOf(s.quota, Cardinality(Range(shard)), o)
    THEN Fail("ShardQuota") ELSE Ok(s)

ReplayRouted(outcome, mutations, shard, t) ==
    LET Applied(prepared) ==
            IF Failed(prepared) THEN prepared
            ELSE ReplayedWithin(Apply(outcome.value, prepared.value), shard,
                                {m.key : m \in Range(mutations)})
        owners == {shard[m.key] : m \in Range(mutations)}
    IN  CASE Failed(outcome) -> outcome
          [] scenario.profile # "composed" /\ Cardinality(owners) > 1 -> Fail("CrossShard")
          [] OTHER -> Applied(PrepareMemoryReplay(outcome.value, mutations, "client", t))

\* load_profile: the snapshot record by record, then the batches.
Load(history, shard, quota, t) ==
    FoldLeft(LAMBDA r, mutations : ReplayRouted(r, mutations, shard, t), Ok(EmptyStore(quota)),
             [i \in DOMAIN history.snapshot |-> <<history.snapshot[i]>>] \o history.batches)

\* The recovered dataset is handed to the owners as an image of each one's keys.
Partition(loaded, t) ==
    LET empty(o) == EmptyStore(OwnerQuota(o))
        Mine(o) == SelectSeq(SnapshotOf(loaded), LAMBDA m : scenario.shard[m.key] = o)
        Built(o, prepared) == IF Failed(prepared) THEN prepared
                              ELSE Ok([Apply(empty(o), prepared.value) EXCEPT !.touched = {}])
    IN  [o \in Owner |-> Built(o, PrepareReplay(empty(o), Mine(o), "client", t))]

Recovery(t) ==
    LET Whole(parts) == IF \E o \in Owner : Failed(parts[o]) THEN Fail("Partition")
                        ELSE Ok([o \in Owner |-> parts[o].value])
        Divided(loaded) == IF Failed(loaded) THEN loaded ELSE Whole(Partition(loaded.value, t))
    IN  Divided(Load(log, scenario.shard, scenario.quota, t))

\* The process ends, also between the record and its application, and restarts.
Crash ==
    /\ scenario.crashes
    /\ log.batches # <<>> \/ log.snapshot # <<>>
    /\ \E recovered \in {Recovery(clock)} :
          /\ ~Failed(recovered)
          /\ stores' = recovered.value
    /\ pending' = {}
    /\ token' = {}
    /\ UNCHANGED <<chosen, clock, steady, log, requests>>

Request ==
    \/ \E c \in scenario.commands : ExecuteRequest(c)
    \/ \E op \in scenario.operations : MemoryRequest(op)
    \/ \E k \in scenario.watched : WatchRequest(k)
    \/ \E commands \in scenario.transactions : ExecRequest(commands)

DatasetNext ==
    \/ Request
    \/ \E o \in Owner : ExpirePass(o)
    \/ ApplyPending
    \/ Tick
    \/ Jump
    \/ Compact
    \/ Crash

---------------------------------------------------------------------------
\* Properties

\* The store an owner has once the durable decision is applied.
Decided(o) ==
    IF Idle \/ o \notin DOMAIN The(pending).owners THEN stores[o]
    ELSE Apply(stores[o], The(pending).owners[o])

\* A collection's cached charges and a sorted set's second index say what the
\* members say (Collection::apply_edits, SortedSet::insert and remove).
ValueIsConsistent(v) ==
    /\ "zset" \in DOMAIN v =>
          v.zset.ordered = {<<v.zset.scores[m], m>> : m \in DOMAIN v.zset.scores}
    /\ "memory" \in DOMAIN v =>
          LET members == v.memory.members
          IN  /\ v.memory.logical = DescriptorBytes(v.memory.descriptor)
                     + SumFunction([id \in DOMAIN members |-> MemberBytes(members[id])])
              /\ v.memory.encoded = DescriptorEncoded(v.memory.descriptor) + 4
                     + SumFunction([id \in DOMAIN members |-> MemberEncoded(members[id])])

\* The counters and indexes a store keeps beside its entries never drift from
\* them: used_bytes is the charge of the entries, the two deadline indexes hold
\* exactly the deadlines of present keys and members, whatever sequence of
\* replacements, expirations, transactions, crashes and replays came before
\* (Store::remove, install_entry, apply).
IndexesMatch ==
    \A o \in Owner :
        LET s == stores[o]
        IN  /\ s.used = SumFunction([k \in DOMAIN s.values |-> EntryBytes(s.values[k].value)])
            /\ s.expirations = UNION {KeyEvents(s.values[k], k) : k \in DOMAIN s.values}
            /\ s.memberExpirations = UNION {MemberEvents(s.values[k], k) : k \in DOMAIN s.values}
            /\ \A k \in DOMAIN s.values :
                  /\ ValueIsConsistent(s.values[k].value)
                  /\ "memory" \in DOMAIN s.values[k].value =>
                        DOMAIN s.values[k].deadlines =
                            {id \in DOMAIN s.values[k].value.memory.members :
                                s.values[k].value.memory.members[id].deadline # {}}

\* No owner holds more than its share of max_dataset_bytes, now or once the
\* durable decision is applied, although a command is charged on a shadow that
\* holds only its own keys, a transaction on one that several commands grow, and
\* a recovery replays onto the whole dataset (Store::can_replace, mset,
\* prepare_replay, replay_routed_memory).
QuotaHeld ==
    \A o \in Owner : stores[o].used <= stores[o].quota /\ Decided(o).used <= stores[o].quota

\* The store's accounting is exact and respected: the indexes match the entries, and the
\* quota holds (Store::apply, can_replace).
AccountingHolds == IndexesMatch /\ QuotaHeld

\* As long as the wall clock runs with the monotonic one the log can be
\* recovered at any instant, and the recovery shows the clients the same dataset
\* as the owners with the durable decision applied: deltas find the collection
\* they edit, elapsed keys stay gone, remaining times agree and the quotas hold
\* (Store::prepare_memory_replay, prepare_replay, load_profile).
RecoveryReproduces ==
    steady =>
        \A recovered \in {Recovery(clock)} :
            /\ ~Failed(recovered)
            /\ \A o \in Owner : \A k \in KeyOf(o) :
                  Visible(recovered.value[o], k, clock.now) = Visible(Decided(o), k, clock.now)

\* While a WATCH token is unchanged its key looks as it did when observed, also
\* when the key or one of its members expires without any write
\* (Store::watch, WatchToken::changed, Registry::invalidate).
WatchSeesChange ==
    \A observed \in token :
        ~TokenChanged(observed, clock.now) =>
            Visible(stores[scenario.shard[observed.key]], observed.key, clock.now) = observed.seen

\* All the owners' entries in one store that nothing limits.
Undivided ==
    LET Merge(field) == UNION {stores[o][field] : o \in Owner}
        keys == UNION {DOMAIN stores[o].values : o \in Owner}
    IN  [EmptyStore(10^6) EXCEPT
           !.values = [k \in keys |-> stores[scenario.shard[k]].values[k]],
           !.expirations = Merge("expirations"),
           !.memberExpirations = Merge("memberExpirations"),
           !.generation = Max({stores[o].generation : o \in Owner}),
           !.used = SumFunction([o \in Owner |-> stores[o].used])]

\* The commands of an EXEC that were not refused for want of room.
Kept(commands, replies) ==
    LET kept == Ascending({i \in DOMAIN commands : replies[i] # Error("OutOfMemory")})
    IN  [commands |-> [i \in DOMAIN kept |-> commands[kept[i]]],
         replies |-> [i \in DOMAIN kept |-> replies[kept[i]]]]

\* An EXEC over several owners does what its commands would do, whole and in
\* order, on an undivided dataset: the replies and the resulting keys are the
\* same, except that a command one owner has no room for does nothing at any
\* owner (split_keys, split_mset, ReplyPlan::assemble, coordinator::prepare).
SplitIsWhole ==
    scenario.profile = "composed" /\ Idle =>
        \A commands \in scenario.transactions :
            \A plan \in {PlanTransaction(scenario.shard, commands, {})} : ~Failed(plan) =>
                \A split \in {PrepareTransaction(stores, plan.value, clock)} :
                    /\ ~Failed(split)
                    /\ \A kept \in {Kept(commands, split.value.replies)} :
                       \A whole \in {PrepareBatch(Undivided, kept.commands, clock)} :
                       \A after \in {Apply(Undivided, whole)} :
                          /\ whole.reply = Array(kept.replies)
                          /\ \A o \in DOMAIN split.value.owners : \A k \in KeyOf(o) :
                                Visible(Apply(stores[o], split.value.owners[o]), k, clock.now)
                                    = Visible(after, k, clock.now)

\* SEARCH answers with the k nearest members a client can see, nearest first and
\* by id among equals, each with its distance, whatever the order in which the
\* bounded heap met them (Collection::search_with_visibility_stats).
SearchIsTopK ==
    \A query \in {op \in scenario.operations : op.op = "MEM.SEARCH"} :
    \A result \in {MemoryInner(stores[scenario.shard[query.key]], query, clock).reply} :
        LET s == stores[scenario.shard[query.key]]
            e == s.values[query.key]
            matching == {id \in DOMAIN e.value.memory.members :
                            /\ Live(e, id, clock.now)
                            /\ ~\E unix \in e.value.memory.members[id].deadline : unix <= clock.unix
                            /\ e.value.memory.members[id].namespace = query.namespace}
            hits == {Hit(e.value.memory, id, query) : id \in matching}
            answer == result[2]
        IN  result[1] = "array" /\ Visible(s, query.key, clock.now) # {} /\ query.metadata = <<>> =>
                /\ Len(answer) = Min({query.k, Cardinality(hits)})
                /\ Range(answer) \subseteq hits
                /\ \A i \in 1..(Len(answer) - 1) : Closer(answer[i], answer[i + 1])
                /\ \A hit \in hits \ Range(answer) : \A i \in DOMAIN answer : Closer(answer[i], hit)

\* Whatever is stored can be written as a snapshot record, so compaction, backup
\* and full synchronisation never meet a key that is over the record limit; and a
\* key or member that is due can always be reclaimed: the pass an owner makes
\* periodically finds something to remove and ends up with a record that is
\* within the limits, although all that is due together may be over them and the
\* collections it edits may have changed since (prepare_memory_with_limit,
\* format::encode, Worker::expire, Store::prepare_expiration).
RecordsAlwaysFit ==
    \A o \in Owner :
        /\ \A m \in Range(SnapshotOf(stores[o])) : SnapshotBytes(m) <= scenario.limits.bytes
        /\ (\E event \in stores[o].expirations \union stores[o].memberExpirations :
               event[1] <= clock.now) =>
                   \A record \in {RecordOf(o, Expiration(o))} :
                       record # <<>> /\ BatchFits(record, scenario.limits)

=============================================================================
