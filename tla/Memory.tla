------------------------------- MODULE Memory -------------------------------
(***************************************************************************)
(* Vector collections (storage/memory.rs): the validated image of one      *)
(* collection, the edits that replace it and the bounded search over it.   *)
(*                                                                         *)
(* A member is told apart by its id, namespace, metadata, vector and       *)
(* deadline; the four names of a descriptor are one identity, a member's   *)
(* content and provenance are a number of bytes.  An optional value is a   *)
(* set of at most one element.                                             *)
(***************************************************************************)
EXTENDS Integers, Sequences, FiniteSets, SequencesExt

CONSTANTS
    MAX_DIMENSION,         \* limits of the source, made small
    MAX_MEMBERS,
    MAX_COLLECTION_BYTES,
    MAX_COMPONENTS,
    MAX_SEARCH_K,
    MAX_EDITS,
    MAX_CONTENT,
    MAX_METADATA

ASSUME MemoryLimits ==
    /\ {MAX_DIMENSION, MAX_MEMBERS, MAX_COLLECTION_BYTES, MAX_COMPONENTS,
        MAX_SEARCH_K, MAX_EDITS} \subseteq Nat \ {0}
    /\ {MAX_CONTENT, MAX_METADATA} \subseteq Nat

\* Lengths of the byte strings the model does not spell out.
KEY_BYTES == 1
NAME_BYTES == 1
IDENTITY_BYTES == 4 * NAME_BYTES

The(option) == CHOOSE x \in option : TRUE
Ascending(S) == SetToSortSeq(S, LAMBDA x, y : x < y)
Ok(result) == [error |-> "none", value |-> result]
Fail(error) == [error |-> error]
Failed(outcome) == outcome.error # "none"

---------------------------------------------------------------------------
\* Descriptors and members

DescriptorError(d) == IF d.dimension \in 1..MAX_DIMENSION THEN "none" ELSE "Dimension"
DescriptorBytes(d) == 256 + IDENTITY_BYTES
DescriptorEncoded(d) == 26 + IDENTITY_BYTES

SameModel(d, stored) == d.identity = stored.identity

VectorError(v, d) ==
    CASE Len(v.coordinates) # d.dimension -> "Dimension"
      [] ~v.finite -> "NonFinite"
      [] OTHER -> "none"

MemberError(m, d) ==
    CASE DescriptorError(d) # "none" -> DescriptorError(d)
      [] m.content > MAX_CONTENT -> "Argument"
      [] VectorError(m.vector, d) # "none" -> VectorError(m.vector, d)
      [] \E deadline \in m.deadline : deadline <= 0 -> "Deadline"
      [] Cardinality(DOMAIN m.metadata) > MAX_METADATA -> "Argument"
      [] OTHER -> "none"

MemberBytes(m) ==
    256 + 2 * NAME_BYTES + m.content + 4 * Len(m.vector.coordinates)
        + Cardinality(DOMAIN m.metadata) * (64 + NAME_BYTES + 8)

MemberEncoded(m) ==
    33 + 2 * NAME_BYTES + m.content + 4 * Len(m.vector.coordinates)
       + Cardinality(DOMAIN m.metadata) * (4 + NAME_BYTES + 9)

---------------------------------------------------------------------------
\* Edits: the id and the member to store, or none to remove

Upsert(m) == [id |-> m.id, member |-> {m}]
RemoveEdit(id) == [id |-> id, member |-> {}]
EditEncoded(e) ==
    IF e.member = {} THEN 5 + NAME_BYTES ELSE 1 + MemberEncoded(The(e.member))

\* The first thing wrong with a list of edits: their order, or a member.
EditsError(d, edits) ==
    LET Wrong(i) ==
            CASE i > 1 /\ edits[i - 1].id >= edits[i].id -> "EditOrder"
              [] edits[i].member # {} -> MemberError(The(edits[i].member), d)
              [] OTHER -> "none"
        bad == {i \in DOMAIN edits : Wrong(i) # "none"}
    IN  CASE DescriptorError(d) # "none" -> DescriptorError(d)
          [] bad # {} -> Wrong(Min(bad))
          [] OTHER -> "none"

---------------------------------------------------------------------------
\* A collection caches the bytes it is charged and the bytes of its image

NewCollection(d) ==
    [descriptor |-> d, members |-> <<>>,
     logical |-> DescriptorBytes(d), encoded |-> DescriptorEncoded(d) + 4]

\* Bounds on the members and on the work of a search.
Searchable(c) ==
    LET count == Cardinality(DOMAIN c.members)
    IN  count <= MAX_MEMBERS /\ count * c.descriptor.dimension <= MAX_COMPONENTS

\* validate_key
WithinLimits(c) ==
    Searchable(c) /\ c.logical + 128 + KEY_BYTES <= MAX_COLLECTION_BYTES

DropMember(c, id) ==
    [c EXCEPT !.members = Restrict(@, DOMAIN @ \ {id}),
              !.logical = @ - MemberBytes(c.members[id]),
              !.encoded = @ - MemberEncoded(c.members[id])]

AddMember(c, m) ==
    [c EXCEPT !.members = (m.id :> m) @@ @,
              !.logical = @ + MemberBytes(m),
              !.encoded = @ + MemberEncoded(m)]

EditMembers(c, held, edit) ==
    CASE ~held /\ edit.member = {} -> Fail("MissingMember")
      [] edit.member = {} -> Ok(DropMember(c, edit.id))
      [] OTHER -> Ok(AddMember(IF held THEN DropMember(c, edit.id) ELSE c, The(edit.member)))

\* A complete candidate or an error; the collection itself is never changed.
ApplyEdits(c, d, edits) ==
    LET Apply(outcome, edit) ==
            IF Failed(outcome) THEN outcome
            ELSE EditMembers(outcome.value, edit.id \in DOMAIN outcome.value.members, edit)
        Bounded(result) ==
            IF ~Failed(result) /\ ~WithinLimits(result.value) THEN Fail("Quota") ELSE result
    IN  CASE d # c.descriptor -> Fail("Identity")
          [] Len(edits) > MAX_EDITS -> Fail("Argument")
          [] EditsError(d, edits) # "none" -> Fail(EditsError(d, edits))
          [] OTHER -> Bounded(FoldLeft(Apply, Ok(c), edits))

---------------------------------------------------------------------------
\* Search: a bounded heap over the members in id order

SquaredDistance(a, b) ==
    FoldLeft(+, 0, [i \in DOMAIN a |-> (a[i] - b[i]) * (a[i] - b[i])])

Closer(hit, other) ==
    \/ hit.distance < other.distance
    \/ hit.distance = other.distance /\ hit.id < other.id

Worst(hits) == CHOOSE hit \in hits : \A other \in hits : other = hit \/ Closer(other, hit)

\* Mutant: a full heap keeps what it has.
HeapPushFull(top, hit, k) ==
    IF Cardinality(top) < k THEN top \union {hit} ELSE top

\* The heap holds the k least hits met so far.
HeapPush(top, hit, k) ==
    CASE Cardinality(top) < k -> top \union {hit}
      [] Closer(hit, Worst(top)) -> (top \ {Worst(top)}) \union {hit}
      [] OTHER -> top

Matches(m, query, unix, visible) ==
    /\ ~\E deadline \in m.deadline : deadline <= unix
    /\ m.id \in visible
    /\ m.namespace = query.namespace
    /\ \A field \in DOMAIN query.metadata :
          field \in DOMAIN m.metadata /\ m.metadata[field] = query.metadata[field]

Hit(c, id, query) ==
    [id |-> id,
     distance |-> SquaredDistance(query.vector.coordinates, c.members[id].vector.coordinates)]

SearchError(c, query) ==
    CASE query.k \notin 1..MAX_SEARCH_K -> "Argument"
      [] Cardinality(DOMAIN query.metadata) > MAX_METADATA -> "Argument"
      [] VectorError(query.vector, c.descriptor) # "none" -> VectorError(query.vector, c.descriptor)
      [] ~Searchable(c) -> "Quota"
      [] OTHER -> "none"

Search(c, query, unix, visible) ==
    LET Visit(top, id) ==
            IF Matches(c.members[id], query, unix, visible)
            THEN HeapPush(top, Hit(c, id, query), query.k) ELSE top
    IN  IF SearchError(c, query) # "none" THEN Fail(SearchError(c, query))
        ELSE Ok(SetToSortSeq(FoldLeft(Visit, {}, Ascending(DOMAIN c.members)), Closer))

=============================================================================
