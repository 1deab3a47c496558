---------------------------- MODULE MemoryStore ----------------------------
(***************************************************************************)
(* The memory profile (storage/memory_lifecycle.rs): MEM.* operations on   *)
(* vector collections held by a store, the record-2 mutations they resolve *)
(* to (persistence/memory_format.rs), and their replay.                    *)
(***************************************************************************)
EXTENDS Store

\* A record-2 mutation is a legacy mutation, an image of a collection (a put
\* of one) or a delta: edits guarded by the descriptor they were made under.
Delta(k, d, edits, unix) ==
    [key |-> k, delta |-> [descriptor |-> d, edits |-> edits, unix |-> unix]]
IsDelta(m) == "delta" \in DOMAIN m

---------------------------------------------------------------------------
\* Sizes of records

ValueSize(v) ==
    CASE "string" \in DOMAIN v -> TextBytes(v.string) + 4
      [] "hash" \in DOMAIN v -> 4 + Bytes(v.hash) + Cardinality(DOMAIN v.hash) * (NAME_BYTES + 8)
      [] "list" \in DOMAIN v -> 4 + Bytes(v.list) + Len(v.list) * 4
      [] "set" \in DOMAIN v -> 4 + Cardinality(v.set) * (NAME_BYTES + 4)
      [] "zset" \in DOMAIN v -> 4 + Cardinality(v.zset.ordered) * (NAME_BYTES + 12)

\* mutation_size of a legacy mutation.
LegacySize(m) == KEY_BYTES + 5 + IF m.put = {} THEN 0 ELSE ValueSize(The(m.put).value) + 9

EncodedBytes(m) ==
    CASE IsDelta(m) -> 18 + KEY_BYTES + DescriptorEncoded(m.delta.descriptor)
                          + SumFunction([i \in DOMAIN m.delta.edits |-> EditEncoded(m.delta.edits[i])])
      [] m.put # {} /\ "memory" \in DOMAIN The(m.put).value ->
            5 + KEY_BYTES + The(m.put).value.memory.encoded + 9
      [] OTHER -> LegacySize(m)

BatchBytes(mutations) == 14 + SumFunction([i \in DOMAIN mutations |-> EncodedBytes(mutations[i])])
SnapshotBytes(m) == 1 + EncodedBytes(m)

\* Limits of the AOF: bytes of a record and mutations of a batch.
BatchFits(mutations, limits) ==
    Len(mutations) <= limits.mutations /\ BatchBytes(mutations) <= limits.bytes

---------------------------------------------------------------------------
\* Operations.  A result also carries the resolved mutation, or none

MemoryResult(s, reply, resolved) == [store |-> s, reply |-> reply, resolved |-> resolved]

\* The candidate an edit makes, charged to the quota before it is stored.
StoreCandidate(s, k, candidate, delta, t, reply) ==
    CASE Failed(candidate) -> MemoryResult(s, Error(candidate.error), {})
      [] ~CanReplace(s, k, [memory |-> candidate.value]) ->
            MemoryResult(s, Error("OutOfMemory"), {})
      [] OTHER -> MemoryResult(Insert(s, k, [memory |-> candidate.value], EntryExpiry(s, k), t),
                               reply, {delta})

ApplyMemoryEdit(s, k, edit, t, reply) ==
    LET c == s.values[k].value.memory
    IN  StoreCandidate(s, k, ApplyEdits(c, c.descriptor, <<edit>>),
                       Delta(k, c.descriptor, <<edit>>, UnixOf(s.values[k])), t, reply)

\* What is wrong with the arguments, before the store is looked at.
ArgumentError(o) ==
    CASE o.op = "MEM.CREATE" -> DescriptorError(o.descriptor)
      [] o.op = "MEM.PUT" -> MemberError(o.member, o.descriptor)
      [] o.op = "MEM.SEARCH" ->
            CASE DescriptorError(o.descriptor) # "none" -> DescriptorError(o.descriptor)
              [] VectorError(o.vector, o.descriptor) # "none" -> VectorError(o.vector, o.descriptor)
              [] o.k \notin 1..MAX_SEARCH_K -> "k is out of range"
              [] Cardinality(DOMAIN o.metadata) > MAX_METADATA -> "limit exceeded"
              [] OTHER -> "none"
      [] OTHER -> "none"

Create(s, o, t) ==
    LET v == [memory |-> NewCollection(o.descriptor)]
    IN  CASE Has(s, o.key) /\ s.values[o.key].value.memory.descriptor # o.descriptor ->
                MemoryResult(s, Error("SchemaMismatch"), {})
          [] Has(s, o.key) -> MemoryResult(s, OK, {})
          [] ~WithinLimits(v.memory) -> MemoryResult(s, Error("Quota"), {})
          [] ~CanReplace(s, o.key, v) -> MemoryResult(s, Error("OutOfMemory"), {})
          [] OTHER -> MemoryResult(Insert(s, o.key, v, {}, t), OK, {Put(o.key, v, {})})

\* A collection that is not there: a read of nothing, or an error for PUT.
NoCollection(s, o) ==
    MemoryResult(s, CASE o.op = "MEM.PUT" -> Error("NoCollection")
                [] o.op \in {"MEM.INFO", "MEM.GET"} -> Bulk({})
                [] o.op = "MEM.SEARCH" -> Array(<<>>)
                [] o.op = "MEM.PTTL" -> Integer(-2)
                [] OTHER -> Integer(0), {})

MismatchError(o, stored) ==
    CASE ~SameModel(o.descriptor, stored) -> "Identity"
      [] o.descriptor.dimension # stored.dimension -> "Dimension"
      [] OTHER -> "none"

SearchMemory(s, o, t) ==
    LET e == s.values[o.key]
        c == e.value.memory
        visible == {id \in DOMAIN c.members : id \in DOMAIN e.deadlines => e.deadlines[id] > t.now}
        Answer(found) == IF Failed(found) THEN Error(found.error) ELSE Array(found.value)
    IN  IF MismatchError(o, c.descriptor) # "none"
        THEN MemoryResult(s, Error(MismatchError(o, c.descriptor)), {})
        ELSE MemoryResult(s, Answer(Search(c, o, t.unix, visible)), {})

\* The wall-clock deadline of a relative one, or none when it is not valid.
Absolute(ms, t) == {expiry.unix : expiry \in Deadline(ms, t)} \cap 1..I64_MAX

\* A member is visible until its monotonic deadline.
Live(e, id, now) ==
    /\ id \in DOMAIN e.value.memory.members
    /\ id \in DOMAIN e.deadlines => e.deadlines[id] > now

PutMember(s, o, t) ==
    LET e == s.values[o.key]
        live == Live(e, o.member.id, t.now)
        wrong == MismatchError(o, e.value.memory.descriptor)
        deadline == CASE o.keep /\ live -> e.value.memory.members[o.member.id].deadline
                      [] OTHER -> UNION {IF ms > 0 THEN Absolute(ms, t) ELSE {} : ms \in o.ttl}
    IN  CASE wrong # "none" -> MemoryResult(s, Error(wrong), {})
          [] o.condition = IF live THEN "missing" ELSE "present" -> MemoryResult(s, Integer(0), {})
          [] o.ttl # {} /\ deadline = {} -> MemoryResult(s, Error("Deadline"), {})
          [] OTHER -> ApplyMemoryEdit(s, o.key, Upsert([o.member EXCEPT !.deadline = deadline]), t,
                                      Integer(1))

\* GET and PTTL of a member; a member found expired is removed.
ReadMember(s, o, t) ==
    LET e == s.values[o.key]
        instants == {expiry.at : expiry \in e.expiry}
                        \union {e.deadlines[id] : id \in {o.id} \cap DOMAIN e.deadlines}
        missing == IF o.op = "MEM.PTTL" THEN Integer(-2) ELSE Bulk({})
    IN  CASE Live(e, o.id, t.now) ->
                MemoryResult(s, CASE o.op = "MEM.GET" -> Bulk({e.value.memory.members[o.id]})
                            [] instants = {} -> Integer(-1)
                            [] OTHER -> Integer(Min(instants) - t.now), {})
          [] o.id \in DOMAIN e.deadlines -> ApplyMemoryEdit(s, o.key, RemoveEdit(o.id), t, missing)
          [] OTHER -> MemoryResult(s, missing, {})

\* DELETE, EXPIRE and PERSIST leave an expired member where it is.
EditMember(s, o, t) ==
    LET e == s.values[o.key]
        member == e.value.memory.members[o.id]
        deadline == IF o.op = "MEM.EXPIRE" THEN Absolute(o.after, t) ELSE {}
        removed == o.op = "MEM.DEL" \/ (o.op = "MEM.EXPIRE" /\ o.after <= 0)
    IN  CASE ~Live(e, o.id, t.now) -> MemoryResult(s, Integer(0), {})
          [] ~removed /\ o.op = "MEM.EXPIRE" /\ deadline = {} ->
                MemoryResult(s, Error("Deadline"), {})
          [] o.op = "MEM.PERSIST" /\ member.deadline = {} -> MemoryResult(s, Integer(0), {})
          [] OTHER -> ApplyMemoryEdit(s, o.key, IF removed THEN RemoveEdit(o.id)
                                                ELSE Upsert([member EXCEPT !.deadline = deadline]),
                                      t, Integer(1))

\* The operation, once its key was given the chance to expire.
OnCollection(s, o, t) ==
    CASE OtherType(s, o.key, "memory") -> MemoryResult(s, Error("WrongType"), {})
      [] o.op = "MEM.CREATE" -> Create(s, o, t)
      [] ~Has(s, o.key) -> NoCollection(s, o)
      [] o.op = "MEM.INFO" -> MemoryResult(s, Bulk({s.values[o.key].value.memory.descriptor}), {})
      [] o.op = "MEM.SEARCH" -> SearchMemory(s, o, t)
      [] o.op = "MEM.PUT" -> PutMember(s, o, t)
      [] o.op \in {"MEM.GET", "MEM.PTTL"} -> ReadMember(s, o, t)
      [] OTHER -> EditMember(s, o, t)

MemoryInner(s, o, t) ==
    IF ArgumentError(o) # "none" THEN MemoryResult(s, Error(ArgumentError(o)), {})
    ELSE OnCollection(ExpireKey(s, o.key, t.now), o, t)

WritesMemory == {"MEM.CREATE", "MEM.PUT", "MEM.DEL", "MEM.EXPIRE", "MEM.PERSIST"}

\* Bytes of the collection's future snapshot.
ImageBytes(s, k) ==
    IF Holds(s, k, "memory") THEN 15 + KEY_BYTES + s.values[k].value.memory.encoded ELSE 0

\* The delta and the collection's future snapshot must both fit a record.
Fits(s, k, resolved, limits) ==
    \A m \in resolved : BatchBytes(<<m>>) <= limits.bytes /\ ImageBytes(s, k) <= limits.bytes

PreparedMemory(s, o, result, limits, origin) ==
    LET changes == Changes(s, result.store, {o.key})
        resolved == IF changes # <<>> /\ result.resolved = {} THEN {Delete(o.key)}
                    ELSE result.resolved
    IN  IF Fits(result.store, o.key, resolved, limits)
        THEN [prepared |-> Prepared(s, result.reply, changes, origin), resolved |-> resolved]
        ELSE [prepared |-> Prepared(s, Error("AofRecordLimit"), <<>>, origin), resolved |-> {}]

PrepareMemory(s, o, limits, t) ==
    PreparedMemory(s, o, MemoryInner(Shadow(s, {o.key}), o, t), limits,
                   IF o.op \in WritesMemory THEN "client" ELSE "expiration")

---------------------------------------------------------------------------
\* Replay, and generic changes of keys that hold collections

PrepareMemoryReplay(s, mutations, origin, t) ==
    LET Edited(m) == ApplyEdits(s.values[m.key].value.memory, m.delta.descriptor, m.delta.edits)
        Guarded(m) == IsDelta(m) => Holds(s, m.key, "memory") /\ ~Failed(Edited(m))
        Image(m) == IF IsDelta(m) THEN Put(m.key, [memory |-> Edited(m).value], m.delta.unix) ELSE m
    IN  CASE \E i, j \in DOMAIN mutations : i # j /\ mutations[i].key = mutations[j].key ->
                Fail("DuplicateKey")
          [] \E i \in DOMAIN mutations : ~Guarded(mutations[i]) -> Fail("Memory")
          [] OTHER -> PrepareReplay(s, [i \in DOMAIN mutations |-> Image(mutations[i])], origin, t)

\* A put over a collection of the same schema becomes a delta.
ResolvedMemoryMutation(s, m) ==
    IF /\ m.put # {} /\ "memory" \in DOMAIN The(m.put).value
       /\ Holds(s, m.key, "memory")
       /\ s.values[m.key].value.memory.descriptor = The(m.put).value.memory.descriptor
    THEN LET before == s.values[m.key].value.memory.members
             after == The(m.put).value.memory.members
             gone == DOMAIN before \ DOMAIN after
             changed == {id \in DOMAIN after : id \notin DOMAIN before \/ before[id] # after[id]}
             ids == Ascending(gone \union changed)
             Edit(id) == IF id \in gone THEN RemoveEdit(id) ELSE Upsert(after[id])
         IN  Delta(m.key, The(m.put).value.memory.descriptor,
                   [i \in DOMAIN ids |-> Edit(ids[i])], The(m.put).unix)
    ELSE m

ResolvedMemoryMutations(s, prepared) ==
    [i \in DOMAIN prepared.batch.mutations |->
        ResolvedMemoryMutation(s, prepared.batch.mutations[i])]

=============================================================================
