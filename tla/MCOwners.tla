------------------------------ MODULE MCOwners ------------------------------
(***************************************************************************)
(* Instances of Owners for TLC: two owners, two connections.               *)
(***************************************************************************)
EXTENDS Owners, TLC

CONSTANTS c1, c2

\* A write at one owner; WATCH; EXEC with one command of one owner and a joint one.
Write == [kind |-> "execute", plan |-> <<{1}>>]
WatchOne == [kind |-> "watch", plan |-> <<{1}>>]
WatchBoth == [kind |-> "watch", plan |-> <<{1, 2}>>]
ExecOne == [kind |-> "exec", plan |-> <<{1}>>]
ExecBoth == [kind |-> "exec", plan |-> <<{2}, {1, 2}>>]

MCOps ==
    [any |-> {Write, WatchBoth, ExecOne, ExecBoth}, writer |-> {Write},
     watcher |-> {WatchOne, WatchBoth, ExecOne}, coordinated |-> {WatchBoth, ExecBoth}]
MCMaxOps == [any |-> 1, writer |-> 2, watcher |-> 2, coordinated |-> 1]

\* Two connections that may ask for anything, or a writer and a connection that watches.
SafetyRoles == {(c1 :> "any") @@ (c2 :> "any")} \union
               {(c1 :> "writer") @@ (c2 :> "watcher"), (c1 :> "watcher") @@ (c2 :> "writer")}
\* For liveness EXEC has a command of each owner, one after the other.
ExecEach == [kind |-> "exec", plan |-> <<{2}, {1}>>]
LiveOps == [MCOps EXCEPT !.coordinated = {WatchBoth, ExecEach}]
LiveMaxOps == [MCMaxOps EXCEPT !.writer = 1]
LiveRoles == {(c1 :> "writer") @@ (c2 :> "coordinated")}

Symmetry == Permutations(Client)
=============================================================================
