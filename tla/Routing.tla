------------------------------ MODULE Routing ------------------------------
(***************************************************************************)
(* Commands and transactions whose keys belong to several owners           *)
(* (storage/routing.rs, routing_transaction.rs, and what the coordinator   *)
(* and the owners do with a plan).  `shard` gives the owner of a key.      *)
(***************************************************************************)
EXTENDS MemoryStore

\* Owners of the keys of the commands and of the watched keys; owner 0 for none.
TransactionParticipants(shard, commands, watched) ==
    LET owners == {shard[k] : k \in watched \union UNION {Keys(c) : c \in Range(commands)}}
    IN  IF owners = {} THEN {0} ELSE owners

\* The owner a command goes to; a command whose keys have two owners is refused.
Route(shard, c) ==
    LET owners == {shard[k] : k \in Keys(c)}
    IN  CASE owners = {} -> Ok(0)
          [] Cardinality(owners) = 1 -> Ok(The(owners))
          [] OTHER -> Fail("CrossShard")

---------------------------------------------------------------------------
\* Plans: fragments in the order of their owners, and how replies combine

Plan(fragments, reply, joint) == [fragments |-> fragments, reply |-> reply, joint |-> joint]
Direct(owner, c) == Plan(<<[owner |-> owner, command |-> c]>>, [kind |-> "direct"], FALSE)

SplitKeys(shard, c, joint, ordered) ==
    LET owners == Ascending({shard[k] : k \in Range(c.keys)})
        Group(owner) == SelectSeq(c.keys, LAMBDA k : shard[k] = owner)
        \* Fragment and place within it of the i-th key.
        Position(i) == <<CHOOSE f \in DOMAIN owners : owners[f] = shard[c.keys[i]],
                         Cardinality({j \in 1..i : shard[c.keys[j]] = shard[c.keys[i]]})>>
        fragments == [f \in DOMAIN owners |->
                         [owner |-> owners[f], command |-> [c EXCEPT !.keys = Group(owners[f])]]]
    IN  Plan(fragments,
             IF ordered
             THEN [kind |-> "ordered", positions |-> [i \in DOMAIN c.keys |-> Position(i)],
                   lengths |-> [f \in DOMAIN owners |-> Len(Group(owners[f]))]]
             ELSE [kind |-> "sum", fragments |-> Len(owners)],
             joint)

\* Mutant: the pairs of one owner are grouped in reverse.
SplitMSetReversed(shard, c) ==
    LET owners == Ascending({shard[e[1]] : e \in Range(c.entries)})
        Group(owner) == Reverse(SelectSeq(c.entries, LAMBDA e : shard[e[1]] = owner))
    IN  Plan([f \in DOMAIN owners |->
                 [owner |-> owners[f], command |-> [c EXCEPT !.entries = Group(owners[f])]]],
             [kind |-> "allok", fragments |-> Len(owners)], TRUE)

SplitMSet(shard, c) ==
    LET owners == Ascending({shard[e[1]] : e \in Range(c.entries)})
        Group(owner) == SelectSeq(c.entries, LAMBDA e : shard[e[1]] = owner)
    IN  Plan([f \in DOMAIN owners |->
                 [owner |-> owners[f], command |-> [c EXCEPT !.entries = Group(owners[f])]]],
             [kind |-> "allok", fragments |-> Len(owners)], TRUE)

PlanTransactionCommand(shard, c) ==
    LET owners == TransactionParticipants(shard, <<c>>, {})
    IN  CASE Cardinality(owners) = 1 -> Ok(Direct(The(owners), c))
          [] c.op = "MGET" -> Ok(SplitKeys(shard, c, FALSE, TRUE))
          [] c.op = "EXISTS" -> Ok(SplitKeys(shard, c, FALSE, FALSE))
          [] c.op = "DEL" -> Ok(SplitKeys(shard, c, TRUE, FALSE))
          [] c.op = "MSET" -> Ok(SplitMSet(shard, c))
          [] OTHER -> Fail("CrossShard")

PlanTransaction(shard, commands, watched) ==
    LET plans == [i \in DOMAIN commands |-> PlanTransactionCommand(shard, commands[i])]
    IN  IF \E i \in DOMAIN plans : Failed(plans[i]) THEN Fail("CrossShard")
        ELSE Ok([participants |-> Ascending(TransactionParticipants(shard, commands, watched)),
                 commands |-> [i \in DOMAIN plans |-> plans[i].value]])

\* The reply of the whole command from those of its fragments.
Assemble(plan, replies) ==
    LET errors == {i \in DOMAIN replies : IsError(replies[i])}
        Shaped(i) == CASE plan.kind = "sum" -> replies[i][1] = "integer" /\ replies[i][2] >= 0
                       [] plan.kind = "allok" -> replies[i] = OK
                       [] plan.kind = "ordered" -> /\ replies[i][1] = "array"
                                                   /\ Len(replies[i][2]) = plan.lengths[i]
        misshapen == {i \in DOMAIN replies : ~IsError(replies[i]) /\ ~Shaped(i)}
    IN  CASE plan.kind = "direct" -> Ok(replies[1])
          [] misshapen # {} /\ \A i \in errors : Min(misshapen) < i -> Fail("InvalidReply")
          [] errors # {} -> Ok(replies[Min(errors)])
          [] plan.kind = "sum" ->
                Ok(Integer(FoldLeft(LAMBDA n, reply : n + reply[2], 0, replies)))
          [] plan.kind = "allok" -> Ok(OK)
          [] plan.kind = "ordered" ->
                Ok(Array([i \in DOMAIN plan.positions |->
                             replies[plan.positions[i][1]][2][plan.positions[i][2]]]))

---------------------------------------------------------------------------
\* Preparation of a whole EXEC over its participants, at one instant

\* A command of several fragments is accepted by every owner or by none.
AcceptAll(shadows, fragments, candidates, assembled) ==
    IF Len(fragments) > 1 /\ IsError(assembled) THEN shadows
    ELSE [o \in DOMAIN shadows |->
            LET mine == {f \in DOMAIN fragments : fragments[f].owner = o}
            IN  IF mine = {} THEN shadows[o] ELSE AcceptCandidate(shadows[o], candidates[The(mine)])]

AcceptCommand(run, fragments, candidates, assembled) ==
    IF Failed(assembled) THEN [run EXCEPT !.failed = TRUE]
    ELSE [run EXCEPT !.shadows = AcceptAll(@, fragments, candidates, assembled.value),
                     !.replies = Append(@, assembled.value)]

PrepareCommand(run, planned, t) ==
    LET fragments == planned.fragments
        Accept(candidates) ==
            AcceptCommand(run, fragments, candidates,
                          Assemble(planned.reply, [f \in DOMAIN candidates |-> candidates[f].reply]))
    IN  IF run.failed \/ fragments[1].command.op = "UNWATCH"
        THEN [run EXCEPT !.replies = Append(@, OK)]
        ELSE Accept([f \in DOMAIN fragments |->
                        Prepare(run.shadows[fragments[f].owner], fragments[f].command, t)])

\* The replies, and the preparation of each participant.
PrepareTransaction(stores, plan, t) ==
    LET FragmentKeys(o) == UNION {UNION {Keys(f.command) : f \in {g \in Range(p.fragments) : g.owner = o}} :
                                     p \in Range(plan.commands)}
        start == [shadows |-> [o \in Range(plan.participants) |-> Shadow(stores[o], FragmentKeys(o))],
                  replies |-> <<>>, failed |-> FALSE]
        Sealed(run) ==
            IF run.failed THEN Fail("Unavailable")
            ELSE Ok([replies |-> run.replies,
                     owners |-> [o \in Range(plan.participants) |->
                                    Seal(run.shadows[o], stores[o], FragmentKeys(o), run.replies)]])
    IN  Sealed(FoldLeft(LAMBDA r, planned : PrepareCommand(r, planned, t), start, plan.commands))

\* One decision for all the owners: their mutations in key order.
JointMutations(owners) ==
    SetToSortSeq(UNION {Range(owners[o].batch.mutations) : o \in DOMAIN owners},
                 LAMBDA m, n : m.key < n.key)

=============================================================================
