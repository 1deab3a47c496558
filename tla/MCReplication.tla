--------------------------- MODULE MCReplication ---------------------------
(***************************************************************************)
(* Instances of Replication: a primary and a replica that may swap places. *)
(***************************************************************************)
EXTENDS Replication

MCNode == {"p", "r"}
MCOwner == 1..2
MCUpstreams == [p |-> {NoNode}, r |-> {"p"}]
MCCapacity == [n \in MCNode |-> 1]
MCPreloaded == {"r"}
MCWrites == [composed |-> {1..2}, memory |-> {{2}}]
MCBudget(p, f, c, l) == [profile |-> p, faults |-> f, crashes |-> c, last |-> l]
MCBudgets ==
    {MCBudget("composed", 1, 0, 2), MCBudget("composed", 0, 1, 2), MCBudget("composed", 1, 1, 1),
     MCBudget("memory", 1, 0, 2), MCBudget("memory", 0, 1, 1)}
MCAdmins == {"a"}
=============================================================================
