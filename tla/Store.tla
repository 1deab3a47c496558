------------------------------- MODULE Store -------------------------------
(***************************************************************************)
(* One owner's dataset (storage/mod.rs and the files beside it) as a value *)
(* and the operators on it: what a command, a prepared change, an expiry   *)
(* pass, a replayed batch or a transaction does to a store.                *)
(*                                                                         *)
(* A store is a record: `values` maps the keys physically present to their *)
(* entries; `expirations` and `memberExpirations` are the ordered indexes  *)
(* of deadlines; `used` and `generation` are the counters; `touched` holds *)
(* the keys whose WATCH flag was raised since the record was made; `quota` *)
(* is max_dataset_bytes.  A clock reading is [now, unix]: the monotonic    *)
(* and the wall clock.  Keys, fields, members and ids are numbers, ordered *)
(* as the bytes they stand for; a string is <<"int", n>>, the decimal      *)
(* numeral of n, or <<"text", n>>, n bytes that are no numeral.            *)
(***************************************************************************)
EXTENDS Memory

CONSTANTS
    I64_MAX   \* the largest i64, made small: counters, wall clock and Instant

ASSUME I64IsPositive == I64_MAX \in Nat \ {0}

ENTRY_OVERHEAD_BYTES == 128

---------------------------------------------------------------------------
\* Values and what they are charged

Digits(n) == Cardinality({i \in 0..9 : 10^i <= n}) + IF n = 0 THEN 1 ELSE 0
TextBytes(text) ==
    CASE text[1] = "text" -> text[2]
      [] text[2] < 0 -> 1 + Digits(-text[2])
      [] OTHER -> Digits(text[2])

Bytes(texts) == SumFunction([i \in DOMAIN texts |-> TextBytes(texts[i])])

LogicalBytes(v) ==
    CASE "string" \in DOMAIN v -> TextBytes(v.string)
      [] "hash" \in DOMAIN v -> Bytes(v.hash) + Cardinality(DOMAIN v.hash) * (NAME_BYTES + 64)
      [] "list" \in DOMAIN v -> Bytes(v.list) + Len(v.list) * 32
      [] "set" \in DOMAIN v -> Cardinality(v.set) * (NAME_BYTES + 64)
      [] "zset" \in DOMAIN v -> Cardinality(v.zset.ordered) * (NAME_BYTES + 96)
      [] "memory" \in DOMAIN v -> v.memory.logical

EntryBytes(v) == KEY_BYTES + LogicalBytes(v) + ENTRY_OVERHEAD_BYTES

---------------------------------------------------------------------------
\* Entries, indexes and counters

EmptyStore(quota) ==
    [values |-> <<>>, expirations |-> {}, memberExpirations |-> {}, generation |-> 0,
     used |-> 0, touched |-> {}, quota |-> quota]

Has(s, k) == k \in DOMAIN s.values
Holds(s, k, type) == Has(s, k) /\ type \in DOMAIN s.values[k].value
Due(e, now) == \E expiry \in e.expiry : expiry.at <= now
EntryExpiry(s, k) == IF Has(s, k) THEN s.values[k].expiry ELSE {}
Touch(s, k) == [s EXCEPT !.touched = @ \union {k}]

KeyEvents(e, k) == {<<expiry.at, e.generation, k>> : expiry \in e.expiry}
MemberEvents(e, k) == {<<e.deadlines[id], k, id>> : id \in DOMAIN e.deadlines}

\* Mutant: the key's event stays in the index.
RemoveKeyIndexed(s, k) ==
    IF ~Has(s, k) THEN s
    ELSE LET e == s.values[k]
         IN  [Touch(s, k) EXCEPT
                !.values = Restrict(@, DOMAIN @ \ {k}),
                !.generation = @ + 1,
                !.used = @ - EntryBytes(e.value),
                !.memberExpirations = @ \ MemberEvents(e, k)]

RemoveKey(s, k) ==
    IF ~Has(s, k) THEN s
    ELSE LET e == s.values[k]
         IN  [Touch(s, k) EXCEPT
                !.values = Restrict(@, DOMAIN @ \ {k}),
                !.generation = @ + 1,
                !.used = @ - EntryBytes(e.value),
                !.expirations = @ \ KeyEvents(e, k),
                !.memberExpirations = @ \ MemberEvents(e, k)]

AddEntry(s, k, e) ==
    [s EXCEPT !.values = (k :> e) @@ @,
              !.generation = @ + 1,
              !.used = @ + EntryBytes(e.value),
              !.expirations = @ \union KeyEvents(e, k),
              !.memberExpirations = @ \union MemberEvents(e, k)]
AddNewest(s, k, entry) == AddEntry(s, k, [entry EXCEPT !.generation = s.generation + 1])
InstallEntry(s, k, entry) == AddNewest(RemoveKey(Touch(s, k), k), k, entry)

\* A member whose absolute deadline did not change keeps its monotonic one.
ResolveMemberDeadlines(s, k, v, t) ==
    IF "memory" \notin DOMAIN v THEN <<>>
    ELSE LET members == v.memory.members
             timed == {id \in DOMAIN members : members[id].deadline # {}}
             Retained(id) ==
                /\ Holds(s, k, "memory")
                /\ id \in DOMAIN s.values[k].value.memory.members
                /\ s.values[k].value.memory.members[id].deadline = members[id].deadline
         IN  [id \in timed |->
                IF Retained(id) THEN s.values[k].deadlines[id]
                ELSE t.now + Max({0, The(members[id].deadline) - t.unix})]

Insert(s, k, v, expiry, t) ==
    InstallEntry(s, k, [value |-> v, expiry |-> expiry, generation |-> 0,
                        deadlines |-> ResolveMemberDeadlines(s, k, v, t)])

ExpireKey(s, k, now) == IF Has(s, k) /\ Due(s.values[k], now) THEN RemoveKey(s, k) ELSE s
ExpireKeys(s, keys, now) == FoldLeft(LAMBDA r, k : ExpireKey(r, k, now), s, keys)

\* A replacement must fit the quota or not grow the dataset.
CanReplace(s, k, v) ==
    LET old == IF Has(s, k) THEN EntryBytes(s.values[k].value) ELSE 0
        usage == s.used - old + EntryBytes(v)
    IN  usage <= s.quota \/ usage <= s.used

\* A relative deadline on both clocks, or none when it is not representable.
Deadline(ms, t) ==
    IF t.unix + ms <= I64_MAX /\ t.now + ms <= I64_MAX
    THEN {[at |-> t.now + ms, unix |-> t.unix + ms]} ELSE {}

---------------------------------------------------------------------------
\* Replies, and a store with the reply a command gives on it

OK == <<"ok">>
Integer(n) == <<"integer", n>>
Bulk(text) == <<"bulk", text>>
Array(replies) == <<"array", replies>>
Error(name) == <<"error", name>>
IsError(reply) == reply[1] = "error"
Result(s, reply) == [store |-> s, reply |-> reply]

\* Stores v under k when it fits, keeping or setting its expiry.
Write(s, k, v, expiry, t, reply) ==
    IF CanReplace(s, k, v) THEN Result(Insert(s, k, v, expiry, t), reply)
    ELSE Result(s, Error("OutOfMemory"))

\* What is left of a collection: the key goes with its last element.
Shrink(s, k, v, empty, t, reply) ==
    Result(IF empty THEN RemoveKey(s, k) ELSE Insert(s, k, v, EntryExpiry(s, k), t), reply)

---------------------------------------------------------------------------
\* Commands on strings and keys (execute_inner).  `key`, `keys` or `entries`
\* hold the keys; see Dataset for the shapes.

StringOf(s, k) == IF Holds(s, k, "string") THEN {s.values[k].value.string} ELSE {}

Get(s, c) ==
    IF Has(s, c.key) /\ ~Holds(s, c.key, "string") THEN Result(s, Error("WrongType"))
    ELSE Result(s, Bulk(StringOf(s, c.key)))

\* The deadline a SET asks for, when it is valid.
SetDeadline(c, t) == UNION {IF ms > 0 THEN Deadline(ms, t) ELSE {} : ms \in c.ttl}

SetKey(s, c, t) ==
    LET had == Has(s, c.key)
        reply == IF c.get THEN Bulk(StringOf(s, c.key)) ELSE OK
    IN  CASE c.get /\ had /\ ~Holds(s, c.key, "string") -> Result(s, Error("WrongType"))
          [] c.condition = IF had THEN "missing" ELSE "present" ->
                Result(s, IF c.get THEN reply ELSE Bulk({}))
          [] OTHER -> Write(s, c.key, [string |-> c.text],
                            IF c.keep THEN EntryExpiry(s, c.key) ELSE SetDeadline(c, t), t, reply)

Del(s, c, t) ==
    LET Gone(x, k, count) ==
            [store |-> RemoveKey(x, k), count |-> count + IF Has(x, k) THEN 1 ELSE 0]
        One(r, k) == Gone(ExpireKey(r.store, k, t.now), k, r.count)
        Answer(all) == Result(all.store, Integer(all.count))
    IN  Answer(FoldLeft(One, [store |-> s, count |-> 0], c.keys))

Exists(s, c) == Result(s, Integer(Cardinality({i \in DOMAIN c.keys : Has(s, c.keys[i])})))

MGet(s, c) == Result(s, Array([i \in DOMAIN c.keys |-> Bulk(StringOf(s, c.keys[i]))]))

\* The last value given to a key is the one that counts.
LastValues(entries) ==
    [k \in {e[1] : e \in Range(entries)} |->
        entries[Max({i \in DOMAIN entries : entries[i][1] = k})][2]]

\* All the values fit together, or nothing is stored.
MSet(s, final, t) ==
    LET keys == DOMAIN final
        base == s.used - SumFunction([k \in keys \cap DOMAIN s.values |->
                                         EntryBytes(s.values[k].value)])
        usage == base + SumFunction([k \in keys |-> EntryBytes([string |-> final[k]])])
        Store(r, k) == Insert(r, k, [string |-> final[k]], {}, t)
    IN  IF usage <= s.quota \/ usage <= s.used
        THEN Result(FoldLeft(Store, FoldLeft(RemoveKey, s, Ascending(keys)), Ascending(keys)), OK)
        ELSE Result(s, Error("OutOfMemory"))

Increment(s, c, t) ==
    LET text == IF Has(s, c.key) THEN s.values[c.key].value.string ELSE <<"int", 0>>
        value == text[2] + c.delta
    IN  CASE Has(s, c.key) /\ ~Holds(s, c.key, "string") -> Result(s, Error("WrongType"))
          [] text[1] # "int" -> Result(s, Error("InvalidInteger"))
          [] value > I64_MAX \/ value < -I64_MAX - 1 -> Result(s, Error("IntegerOverflow"))
          [] OTHER -> Write(s, c.key, [string |-> <<"int", value>>], EntryExpiry(s, c.key), t,
                            Integer(value))

Millis(c) == IF c.seconds THEN c.after * 1000 ELSE c.after

Expire(s, c, t) ==
    CASE ~Has(s, c.key) -> Result(s, Integer(0))
      [] Millis(c) <= 0 -> Result(RemoveKey(s, c.key), Integer(1))
      [] OTHER -> Result(Insert(s, c.key, s.values[c.key].value, Deadline(Millis(c), t), t),
                         Integer(1))

TtlOf(s, c, t) ==
    LET left == The(s.values[c.key].expiry).at - t.now
    IN  Result(s, Integer(CASE ~Has(s, c.key) -> -2
                            [] s.values[c.key].expiry = {} -> -1
                            [] c.seconds -> (left + 500) \div 1000
                            [] OTHER -> left))

Persist(s, c, t) ==
    IF EntryExpiry(s, c.key) = {} THEN Result(s, Integer(0))
    ELSE Result(Insert(s, c.key, s.values[c.key].value, {}, t), Integer(1))

---------------------------------------------------------------------------
\* Collections

Elements(s, k, type, empty) == IF Has(s, k) THEN s.values[k].value[type] ELSE empty
OtherType(s, k, type) == Has(s, k) /\ ~Holds(s, k, type)
Flag(condition) == IF condition THEN Integer(1) ELSE Integer(0)

\* Inclusive signed indexes of a range; an empty range is <<1, 0>>.
IndexRange(length, start, stop) ==
    LET first == Max({0, IF start < 0 THEN start + length ELSE start})
        last == Min({length - 1, IF stop < 0 THEN stop + length ELSE stop})
    IN  IF first > last \/ first >= length THEN <<1, 0>> ELSE <<first + 1, last + 1>>

Slice(seq, c) ==
    LET range == IndexRange(Len(seq), c.start, c.stop) IN SubSeq(seq, range[1], range[2])

Hash(s, c, t) ==
    LET fields == Elements(s, c.key, "hash", <<>>)
        asked == {e[1] : e \in Range(c.pairs)}
        set == LastValues(c.pairs) @@ fields
        rest == Restrict(fields, DOMAIN fields \ asked)
        gone == Cardinality(DOMAIN fields) - Cardinality(DOMAIN rest)
        Pair(f) == <<Bulk({<<"text", f>>}), Bulk({fields[f]})>>
    IN  CASE OtherType(s, c.key, "hash") -> Result(s, Error("WrongType"))
          [] c.op = "HGET" -> Result(s, Bulk({fields[f] : f \in asked \cap DOMAIN fields}))
          [] c.op = "HEXISTS" -> Result(s, Flag(asked \subseteq DOMAIN fields))
          [] c.op = "HLEN" -> Result(s, Integer(Cardinality(DOMAIN fields)))
          [] c.op = "HGETALL" ->
                Result(s, Array(FlattenSeq([i \in 1..Cardinality(DOMAIN fields) |->
                                               Pair(Ascending(DOMAIN fields)[i])])))
          [] c.op = "HSET" ->
                Write(s, c.key, [hash |-> set], EntryExpiry(s, c.key), t,
                      Integer(Cardinality(DOMAIN set) - Cardinality(DOMAIN fields)))
          [] c.op = "HDEL" /\ gone = 0 -> Result(s, Integer(0))
          [] OTHER -> Shrink(s, c.key, [hash |-> rest], rest = <<>>, t, Integer(gone))

List(s, c, t) ==
    LET values == Elements(s, c.key, "list", <<>>)
        pushed == IF c.left THEN Reverse(c.texts) \o values ELSE values \o c.texts
        rest == IF c.left THEN Tail(values) ELSE Front(values)
        popped == IF c.left THEN Head(values) ELSE Last(values)
        slice == Slice(values, c)
    IN  CASE OtherType(s, c.key, "list") -> Result(s, Error("WrongType"))
          [] c.op = "LLEN" -> Result(s, Integer(Len(values)))
          [] c.op = "LRANGE" -> Result(s, Array([i \in DOMAIN slice |-> Bulk({slice[i]})]))
          [] c.op = "PUSH" ->
                Write(s, c.key, [list |-> pushed], EntryExpiry(s, c.key), t, Integer(Len(pushed)))
          [] c.op = "POP" /\ values = <<>> -> Result(s, Bulk({}))
          [] OTHER -> Shrink(s, c.key, [list |-> rest], rest = <<>>, t, Bulk({popped}))

SetCollection(s, c, t) ==
    LET members == Elements(s, c.key, "set", {})
        asked == Range(c.members)
        added == members \union asked
        rest == members \ asked
        grown == Cardinality(added) - Cardinality(members)
        gone == Cardinality(members) - Cardinality(rest)
    IN  CASE OtherType(s, c.key, "set") -> Result(s, Error("WrongType"))
          [] c.op = "SCARD" -> Result(s, Integer(Cardinality(members)))
          [] c.op = "SISMEMBER" -> Result(s, Flag(asked \subseteq members))
          [] c.op = "SMEMBERS" ->
                Result(s, Array([i \in 1..Cardinality(members) |->
                                    Bulk({<<"text", Ascending(members)[i]>>})]))
          [] c.op = "SADD" /\ grown > 0 ->
                Write(s, c.key, [set |-> added], EntryExpiry(s, c.key), t, Integer(grown))
          [] c.op = "SREM" /\ gone > 0 ->
                Shrink(s, c.key, [set |-> rest], rest = {}, t, Integer(gone))
          [] OTHER -> Result(s, Integer(0))

\* Two indexes: score of a member, and the members in order of score.
ZInsert(z, member, score) ==
    [scores |-> (member :> score) @@ z.scores,
     ordered |-> (z.ordered \ {<<z.scores[m], m>> : m \in {member} \cap DOMAIN z.scores})
                 \union {<<score, member>>}]

ZRemove(z, member) ==
    [scores |-> Restrict(z.scores, DOMAIN z.scores \ {member}),
     ordered |-> z.ordered \ {<<z.scores[m], m>> : m \in {member} \cap DOMAIN z.scores}]

ZOrder(z) ==
    SetToSortSeq(z.ordered, LAMBDA p, q : p[1] < q[1] \/ (p[1] = q[1] /\ p[2] < q[2]))

SortedSet(s, c, t) ==
    LET z == Elements(s, c.key, "zset", [scores |-> <<>>, ordered |-> {}])
        added == FoldLeft(LAMBDA r, e : ZInsert(r, e[2], e[1]), z, c.scored)
        \* A member set back to its score within the command still counts as a change.
        changed == \E i \in DOMAIN c.scored :
                      LET r == FoldLeft(LAMBDA q, e : ZInsert(q, e[2], e[1]), z,
                                        SubSeq(c.scored, 1, i - 1))
                      IN  c.scored[i][2] \notin DOMAIN r.scores
                          \/ r.scores[c.scored[i][2]] # c.scored[i][1]
        rest == FoldLeft(LAMBDA r, e : ZRemove(r, e[2]), z, c.scored)
        gone == Cardinality(DOMAIN z.scores) - Cardinality(DOMAIN rest.scores)
        asked == {e[2] : e \in Range(c.scored)}
        slice == Slice(ZOrder(z), c)
    IN  CASE OtherType(s, c.key, "zset") -> Result(s, Error("WrongType"))
          [] c.op = "ZCARD" -> Result(s, Integer(Cardinality(DOMAIN z.scores)))
          [] c.op = "ZSCORE" ->
                Result(s, Bulk({<<"int", z.scores[m]>> : m \in asked \cap DOMAIN z.scores}))
          [] c.op = "ZRANGE" ->
                Result(s, Array([i \in DOMAIN slice |-> Bulk({<<"text", slice[i][2]>>})]))
          [] c.op = "ZADD" /\ changed ->
                Write(s, c.key, [zset |-> added], EntryExpiry(s, c.key), t,
                      Integer(Cardinality(DOMAIN added.scores) - Cardinality(DOMAIN z.scores)))
          [] c.op = "ZREM" /\ gone > 0 ->
                Shrink(s, c.key, [zset |-> rest], rest.scores = <<>>, t, Integer(gone))
          [] OTHER -> Result(s, Integer(0))

---------------------------------------------------------------------------
\* Any command of the legacy profile

Keys(c) ==
    CASE "keys" \in DOMAIN c -> Range(c.keys)
      [] "entries" \in DOMAIN c -> {e[1] : e \in Range(c.entries)}
      [] "key" \in DOMAIN c -> {c.key}
      [] OTHER -> {}

Reads == {"GET", "MGET", "EXISTS", "TTL", "HGET", "HEXISTS", "HLEN", "HGETALL", "LLEN", "LRANGE",
          "SISMEMBER", "SCARD", "SMEMBERS", "ZSCORE", "ZCARD", "ZRANGE"}

\* A deadline that is refused before the store is looked at.
BadExpiry(c, t) ==
    CASE c.op = "SET" -> c.ttl # {} /\ SetDeadline(c, t) = {}
      [] c.op = "EXPIRE" ->
            \/ Millis(c) < -I64_MAX - 1
            \/ Millis(c) > 0 /\ Deadline(Millis(c), t) = {}
      [] OTHER -> FALSE

\* A command on one key, once that key was given the chance to expire.
OnKey(s, c, t) ==
    CASE c.op \in {"HGET", "HEXISTS", "HLEN", "HGETALL", "HSET", "HDEL"} -> Hash(s, c, t)
      [] c.op \in {"LLEN", "LRANGE", "PUSH", "POP"} -> List(s, c, t)
      [] c.op \in {"SISMEMBER", "SCARD", "SMEMBERS", "SADD", "SREM"} -> SetCollection(s, c, t)
      [] c.op \in {"ZSCORE", "ZCARD", "ZRANGE", "ZADD", "ZREM"} -> SortedSet(s, c, t)
      [] c.op = "GET" -> Get(s, c)
      [] c.op = "SET" -> SetKey(s, c, t)
      [] c.op = "INCRBY" -> Increment(s, c, t)
      [] c.op = "EXPIRE" -> Expire(s, c, t)
      [] c.op = "TTL" -> TtlOf(s, c, t)
      [] c.op = "PERSIST" -> Persist(s, c, t)

Execute(s, c, t) ==
    CASE BadExpiry(c, t) -> Result(s, Error("InvalidExpiry"))
      [] "key" \in DOMAIN c -> OnKey(ExpireKey(s, c.key, t.now), c, t)
      [] c.op = "DEL" -> Del(s, c, t)
      [] c.op = "EXISTS" -> Exists(ExpireKeys(s, c.keys, t.now), c)
      [] c.op = "MGET" -> MGet(ExpireKeys(s, c.keys, t.now), c)
      [] c.op = "MSET" ->
            MSet(ExpireKeys(s, [i \in DOMAIN c.entries |-> c.entries[i][1]], t.now),
                 LastValues(c.entries), t)
      [] c.op = "PING" -> Result(s, <<"pong">>)
      [] OTHER -> Result(s, Error("ConnectionOnly"))

---------------------------------------------------------------------------
\* Mutations: the resolved post-image of a key, or its removal

Put(k, v, unix) == [key |-> k, put |-> {[value |-> v, unix |-> unix]}]
Delete(k) == [key |-> k, put |-> {}]
UnixOf(e) == {expiry.unix : expiry \in e.expiry}

\* An entry of a preparation is <<key, entry or none>>.
MutationOf(change) ==
    IF change[2] = {} THEN Delete(change[1])
    ELSE Put(change[1], The(change[2]).value, UnixOf(The(change[2])))

Prepared(s, reply, changes, origin) ==
    [reply |-> reply, changes |-> changes, generation |-> s.generation,
     batch |-> [origin |-> origin,
                mutations |-> [i \in DOMAIN changes |-> MutationOf(changes[i])]]]

\* The changes a shadow made to the keys, in key order.
EntryOf(s, k) == IF Has(s, k) THEN {s.values[k]} ELSE {}
GenerationOf(s, k) == IF Has(s, k) THEN s.values[k].generation ELSE 0
Changes(s, shadow, keys) ==
    LET changed == {k \in keys : GenerationOf(s, k) # GenerationOf(shadow, k)}
    IN  [i \in 1..Cardinality(changed) |->
            <<Ascending(changed)[i], EntryOf(shadow, Ascending(changed)[i])>>]

\* A shadow holds the entries of some keys only, and the dataset's counters.
Shadow(s, keys) ==
    [s EXCEPT !.values = Restrict(@, DOMAIN @ \cap keys),
              !.expirations = {event \in @ : event[3] \in keys},
              !.memberExpirations = {event \in @ : event[2] \in keys},
              !.touched = {}]

PreparedFrom(s, result, keys, origin) ==
    Prepared(s, result.reply, Changes(s, result.store, keys), origin)
Prepare(s, c, t) ==
    PreparedFrom(s, Execute(Shadow(s, Keys(c)), c, t), Keys(c),
                 IF c.op \in Reads THEN "expiration" ELSE "client")

\* Applies without looking at conditions, quota or clock again.
Apply(s, prepared) ==
    LET Clear(r, change) == RemoveKey(Touch(r, change[1]), change[1])
        Install(r, change) ==
            IF change[2] = {} THEN r ELSE InstallEntry(r, change[1], The(change[2]))
    IN  FoldLeft(Install, FoldLeft(Clear, s, prepared.changes), prepared.changes)

Earlier(a, b) ==
    \/ a[1] < b[1]
    \/ a[1] = b[1] /\ a[2] < b[2]
    \/ a[1] = b[1] /\ a[2] = b[2] /\ a[3] < b[3]
FirstOf(n, events) == SubSeq(SetToSortSeq(events, Earlier), 1, Min({n, Cardinality(events)}))

\* Due keys, of the first events in order; an event of an older entry is skipped.
DueKeys(s, budget, t) ==
    LET Current(event) == /\ Has(s, event[3])
                          /\ s.values[event[3]].generation = event[2]
                          /\ \E expiry \in s.values[event[3]].expiry : expiry.at = event[1]
        due == SelectSeq(FirstOf(budget, {event \in s.expirations : event[1] <= t.now}), Current)
    IN  [i \in DOMAIN due |-> due[i][3]]

\* Due members of the other keys, as many as there is room for.
DueMembers(s, expired, room, t) ==
    LET MemberDue(event) == /\ event[1] <= t.now
                            /\ event[2] \notin expired
                            /\ Has(s, event[2])
                            /\ event[3] \in DOMAIN s.values[event[2]].deadlines
                            /\ s.values[event[2]].deadlines[event[3]] = event[1]
    IN  Range(FirstOf(room, {event \in s.memberExpirations : MemberDue(event)}))

WithoutMembers(e, ids) ==
    LET edits == [i \in DOMAIN ids |-> RemoveEdit(ids[i])]
    IN  [e EXCEPT !.value =
                     [memory |-> ApplyEdits(@.memory, @.memory.descriptor, edits).value],
                  !.deadlines = Restrict(@, DOMAIN @ \ Range(ids))]

\* Tombstones of due keys first, then the images of pruned collections.
ExpirationOf(s, due, members) ==
    LET pruned == Ascending({event[2] : event \in members})
        Ids(k) == Ascending({event[3] : event \in {m \in members : m[2] = k}})
    IN  Prepared(s, Integer(Len(due) + Cardinality(members)),
                 [i \in DOMAIN due |-> <<due[i], {}>>]
                     \o [i \in DOMAIN pruned |->
                            <<pruned[i], {WithoutMembers(s.values[pruned[i]], Ids(pruned[i]))}>>],
                 "expiration")

PrepareExpiration(s, allowed, t) ==
    LET budget == Min({allowed, MAX_EDITS})
        After(due) == ExpirationOf(s, due, DueMembers(s, Range(due), budget - Len(due), t))
    IN  After(DueKeys(s, budget, t))

SnapshotOf(s) ==
    LET keys == Ascending(DOMAIN s.values)
    IN  [i \in DOMAIN keys |->
            Put(keys[i], s.values[keys[i]].value, UnixOf(s.values[keys[i]]))]

\* Mutant: an elapsed collection is a removal as well.
ReplayedEntryDropped(s, m, t) ==
    IF m.put = {} \/ \E image \in m.put : \E unix \in image.unix : unix <= t.unix THEN {}
    ELSE LET image == The(m.put)
         IN  {[value |-> image.value,
               expiry |-> {[at |-> t.now + Max({0, unix - t.unix}), unix |-> unix] :
                              unix \in image.unix},
               generation |-> 0,
               deadlines |-> ResolveMemberDeadlines(s, m.key, image.value, t)]}

\* A replayed post-image whose deadline passed is a removal; a vector
\* collection keeps its elapsed state, which later deltas are relative to.
ReplayedEntry(s, m, t) ==
    IF m.put = {} THEN {}
    ELSE LET image == The(m.put)
             elapsed == \E unix \in image.unix : unix <= t.unix
         IN  IF elapsed /\ "memory" \notin DOMAIN image.value THEN {}
             ELSE {[value |-> image.value,
                    expiry |-> {[at |-> t.now + Max({0, unix - t.unix}), unix |-> unix] :
                                   unix \in image.unix},
                    generation |-> 0,
                    deadlines |-> ResolveMemberDeadlines(s, m.key, image.value, t)]}

\* What a replay would leave: refused when over the quota or not representable.
ReplayOutcome(s, changes, origin) ==
    LET keys == {change[1] : change \in Range(changes)}
        kept == {The(change[2]) : change \in {c \in Range(changes) : c[2] # {}}}
        old == SumFunction([k \in keys \cap DOMAIN s.values |-> EntryBytes(s.values[k].value)])
        new == SumFunction([i \in DOMAIN changes |->
                               MapThenSumSet(LAMBDA e : EntryBytes(e.value), changes[i][2])])
        Late(e) == \/ \E expiry \in e.expiry : expiry.at > I64_MAX
                   \/ \E id \in DOMAIN e.deadlines : e.deadlines[id] > I64_MAX
    IN  CASE Cardinality(keys) # Len(changes) -> Fail("DuplicateKey")
          [] \E e \in kept : "memory" \in DOMAIN e.value /\ ~WithinLimits(e.value.memory) ->
                Fail("Memory")
          [] \E e \in kept : Late(e) -> Fail("Deadline")
          [] s.used - old + new > s.quota -> Fail("Quota")
          [] OTHER -> Ok(Prepared(s, OK, changes, origin))

PrepareReplay(s, mutations, origin, t) ==
    ReplayOutcome(s, [i \in DOMAIN mutations |->
                         <<mutations[i].key, ReplayedEntry(s, mutations[i], t)>>], origin)

---------------------------------------------------------------------------
\* Transactions: a whole EXEC on one owner's shadow, at one clock reading

\* A shadow records in `touched` the keys its commands change.
AcceptCandidate(shadow, candidate) == Apply(shadow, candidate)

Seal(shadow, s, keys, replies) ==
    LET changed == Ascending(keys \cap shadow.touched)
    IN  Prepared(s, Array(replies),
                 [i \in DOMAIN changed |-> <<changed[i], EntryOf(shadow, changed[i])>>], "client")

PrepareBatch(s, commands, t) ==
    LET keys == UNION {Keys(c) : c \in Range(commands)}
        Accept(r, candidate) == [shadow |-> AcceptCandidate(r.shadow, candidate),
                                 replies |-> Append(r.replies, candidate.reply)]
        Step(r, c) == IF c.op = "UNWATCH" THEN [r EXCEPT !.replies = Append(@, OK)]
                      ELSE Accept(r, Prepare(r.shadow, c, t))
        Sealed(run) == Seal(run.shadow, s, keys, run.replies)
    IN  Sealed(FoldLeft(Step, [shadow |-> Shadow(s, keys), replies |-> <<>>], commands))

---------------------------------------------------------------------------
\* WATCH: the next instant at which a key changes by itself

WatchDeadline(s, k, now) ==
    IF ~Has(s, k) THEN {}
    ELSE LET e == s.values[k]
             instants == {expiry.at : expiry \in e.expiry}
                            \union {at \in Range(e.deadlines) : at > now}
         IN  IF instants = {} THEN {} ELSE {Min(instants)}

TokenChanged(token, now) == token.invalidated \/ \E at \in token.deadline : at <= now

=============================================================================
