---------------------------- MODULE PubSubProofs ----------------------------
(***************************************************************************)
(* The two indexes of the Pub/Sub hub and its two counters agree in every  *)
(* reachable state, for every finite set of connections and channels, with *)
(* or without a client policy, whatever the limits and the argument lists. *)
(* Before that, for this module and PubSubDelivery: induction over the     *)
(* naturals for a property given as a set, and what Only computes.         *)
(***************************************************************************)
EXTENDS PubSub, FiniteSetTheorems, WellFoundedInduction, TLAPS

\* Zenon tries every leaf; the leaves with arithmetic or sequences name SMT.
USE ZenonT(30)

\* Every non-empty set of natural numbers has a least element.
LEMMA LeastNumber ==
    ASSUME NEW T \in SUBSET Nat, T # {}
    PROVE  \E x \in T : \A y \in T : x <= y
<1> DEFINE Less == {ss \in Nat \X Nat : ss[1] < ss[2]}
<1>1. IsWellFoundedOn(Less, Nat)
  BY NatLessThanWellFounded, Zenon DEF OpToRel
<1>2. PICK x \in T : \A y \in T : ~ (<<y, x>> \in Less)
  <2> HIDE DEF Less
  <2> QED
    BY <1>1, WFMin
<1>3. \A y \in T : ~ (y < x)
  BY <1>2
<1> QED
  BY SMTT(30), <1>3

\* Induction, for a property given as the set of numbers that have it.
LEMMA Induction ==
    ASSUME NEW S \in SUBSET Nat, 0 \in S, \A n \in S : n + 1 \in S
    PROVE  S = Nat
<1> SUFFICES ASSUME Nat \ S # {}
             PROVE  FALSE
  OBVIOUS
<1>1. PICK x \in Nat \ S : \A y \in Nat \ S : x <= y
  BY LeastNumber
<1>2. x # 0 /\ x - 1 \in Nat
  BY SMTT(30), <1>1
<1>3. x - 1 \in S
  BY SMTT(30), <1>1, <1>2
<1>4. x - 1 + 1 \in S
  BY <1>3
<1> QED
  BY SMTT(30), <1>1, <1>2, <1>4

-----------------------------------------------------------------------------

LEMMA NamedAppend ==
    ASSUME NEW q \in Seq(Nat), NEW x \in Nat
    PROVE  Named(Append(q, x)) = Named(q) \cup {x}
<1> DEFINE r == Append(q, x)
<1>1. /\ DOMAIN r = 1..(Len(q) + 1) /\ DOMAIN q = 1..Len(q) /\ Len(q) \in Nat
      /\ r[Len(q) + 1] = x /\ \A i \in 1..Len(q) : r[i] = q[i]
  BY SMTT(30)
<1> HIDE DEF r
<1>2. \A i \in DOMAIN r : i = Len(q) + 1 \/ i \in DOMAIN q
  BY SMTT(30), <1>1
<1>3. Named(r) \subseteq Named(q) \cup {x}
  BY <1>1, <1>2 DEF Named
<1>4. Named(q) \cup {x} \subseteq Named(r)
  BY SMTT(30), <1>1 DEF Named
<1> QED
  BY <1>3, <1>4 DEF r

LEMMA IncreasingAppend ==
    ASSUME NEW q \in Seq(Nat), NEW x \in Nat, Increasing(q), \A y \in Named(q) : y < x
    PROVE  Increasing(Append(q, x))
<1> DEFINE r == Append(q, x)
<1>1. /\ DOMAIN r = 1..(Len(q) + 1) /\ DOMAIN q = 1..Len(q) /\ Len(q) \in Nat
      /\ r[Len(q) + 1] = x /\ \A i \in 1..Len(q) : r[i] = q[i]
  BY SMTT(30)
<1> HIDE DEF r
<1>2. \A i \in DOMAIN q : q[i] < x
  BY DEF Named
<1>3. ASSUME NEW i \in DOMAIN r, NEW j \in DOMAIN r, i < j
      PROVE  r[i] < r[j]
  <2>1. i \in DOMAIN q
    BY SMTT(30), <1>1, <1>3
  <2>2. CASE j = Len(q) + 1
    BY <1>1, <1>2, <2>1, <2>2
  <2>3. CASE j \in DOMAIN q
    BY SMTT(30), <1>1, <1>3, <2>1, <2>3 DEF Increasing
  <2> QED
    BY SMTT(30), <1>1, <2>2, <2>3
<1> QED
  BY <1>3 DEF Increasing, r

-----------------------------------------------------------------------------

\* The recursion of Only, as an equation and element by element.
Recursion(q, K, g) ==
    g = [i \in 0..Len(q) |-> IF i = 0 THEN <<>> ELSE Push(g[i - 1], q[i], K)]

Steps(q, K, n, g) == g[0] = <<>> /\ \A i \in 1..n : g[i] = Push(g[i - 1], q[i], K)

LEMMA PushType ==
    ASSUME NEW V, NEW q \in Seq(V), NEW x \in V, NEW K
    PROVE  Push(q, x, K) \in Seq(V)
BY SMTT(30) DEF Push

\* The recursion has a solution: one for each prefix of the sequence, by induction.
LEMMA RecursionSolved ==
    ASSUME NEW V, NEW q \in Seq(V), NEW K
    PROVE  \E g \in [0..Len(q) -> Seq(V)] : Recursion(q, K, g) /\ Steps(q, K, Len(q), g)
<1> DEFINE S == {n \in Nat : n <= Len(q) => \E g \in [0..n -> Seq(V)] : Steps(q, K, n, g)}
<1>1. 0 \in S
  <2> DEFINE g == [i \in 0..0 |-> <<>>]
  <2>1. g \in [0..0 -> Seq(V)] /\ Steps(q, K, 0, g)
    BY SMTT(30) DEF Steps
  <2> QED
    BY <2>1
<1>2. ASSUME NEW n \in S
      PROVE  n + 1 \in S
  <2> SUFFICES ASSUME n + 1 <= Len(q)
               PROVE  \E g \in [0..(n+1) -> Seq(V)] : Steps(q, K, n + 1, g)
    BY SMTT(30)
  <2>1. PICK f \in [0..n -> Seq(V)] : Steps(q, K, n, f)
    BY SMTT(30)
  <2> DEFINE g == [i \in 0..(n + 1) |-> IF i = n + 1 THEN Push(f[n], q[n + 1], K) ELSE f[i]]
  <2>2. g \in [0..(n + 1) -> Seq(V)]
    <3>1. q[n + 1] \in V /\ f[n] \in Seq(V)
      BY SMTT(30)
    <3>2. Push(f[n], q[n + 1], K) \in Seq(V)
      BY <3>1, PushType
    <3> QED
      BY SMTT(30), <3>2
  <2>3. \A i \in 0..n : g[i] = f[i]
    BY SMTT(30)
  <2>4. g[n + 1] = Push(f[n], q[n + 1], K)
    BY SMTT(30)
  <2>5. ASSUME NEW i \in 1..(n + 1)
        PROVE  g[i] = Push(g[i - 1], q[i], K)
    <3> HIDE DEF g
    <3>1. CASE i = n + 1
      BY SMTT(30), <3>1, <2>3, <2>4
    <3>2. CASE i \in 1..n
      <4>1. g[i] = f[i] /\ g[i - 1] = f[i - 1]
        BY SMTT(30), <3>2, <2>3
      <4> QED
        BY <4>1, <3>2, <2>1 DEF Steps
    <3> QED
      BY SMTT(30), <3>1, <3>2
  <2>6. Steps(q, K, n + 1, g)
    <3>1. 0 \in 0..n /\ f[0] = <<>>
      BY SMTT(30), <2>1 DEF Steps
    <3>2. g[0] = <<>>
      BY <2>3, <3>1
    <3> HIDE DEF g
    <3> QED
      BY <3>2, <2>5 DEF Steps
  <2> QED
    BY <2>2, <2>6
<1>3. S = Nat
  <2>1. S \in SUBSET Nat
    OBVIOUS
  <2> HIDE DEF S
  <2> QED
    BY <1>1, <1>2, <2>1, Induction
<1>4. PICK g \in [0..Len(q) -> Seq(V)] : Steps(q, K, Len(q), g)
  BY SMTT(30), <1>3
<1>5. \A i \in 0..Len(q) : g[i] = IF i = 0 THEN <<>> ELSE Push(g[i - 1], q[i], K)
  <2>1. \A i \in 0..Len(q) : i = 0 \/ i \in 1..Len(q)
    BY SMTT(30)
  <2> QED
    BY <1>4, <2>1 DEF Steps
<1>6. Recursion(q, K, g)
  BY <1>5 DEF Recursion
<1> QED
  BY <1>4, <1>6

\* What the recursion computes, by induction on the prefix that was looked at: the elements
\* seen so far that are in K, in order if they were in order.
Selected(q, K, n, r) ==
    /\ r \in Seq(Nat)
    /\ Named(r) = {q[i] : i \in 1..n} \cap K
    /\ Len(r) <= n
    /\ Increasing(q) => Increasing(r)

LEMMA PushSelects ==
    ASSUME NEW q \in Seq(Nat), NEW K, NEW n \in Nat, n + 1 <= Len(q), NEW r,
           Selected(q, K, n, r)
    PROVE  Selected(q, K, n + 1, Push(r, q[n + 1], K))
<1> DEFINE x == q[n + 1]
<1>1. x \in Nat /\ r \in Seq(Nat)
  BY SMTT(30) DEF Selected
<1>2. {q[i] : i \in 1..(n + 1)} = {q[i] : i \in 1..n} \cup {x}
  BY SMTT(30)
<1>3. Increasing(q) => \A y \in Named(r) : y < x
  <2> SUFFICES ASSUME Increasing(q), NEW i \in 1..n
               PROVE  q[i] < x
    BY DEF Selected
  <2> QED
    BY SMTT(30) DEF Increasing
<1> HIDE DEF x
<1>4. CASE x \notin K
  BY SMTT(30), <1>1, <1>2, <1>4 DEF Selected, Push, x
<1>5. CASE x \in K
  <2>1. Push(r, x, K) = Append(r, x)
    BY <1>5 DEF Push
  <2>2. Append(r, x) \in Seq(Nat) /\ Len(Append(r, x)) = Len(r) + 1 /\ Len(r) \in Nat
    BY SMTT(30), <1>1
  <2>3. Named(Append(r, x)) = {q[i] : i \in 1..(n + 1)} \cap K
    <3>1. Named(Append(r, x)) = Named(r) \cup {x}
      BY <1>1, NamedAppend
    <3>2. Named(r) = {q[i] : i \in 1..n} \cap K
      BY DEF Selected
    <3> QED
      BY <1>2, <1>5, <3>1, <3>2
  <2>4. Increasing(q) => Increasing(Append(r, x))
    BY <1>1, <1>3, IncreasingAppend DEF Selected
  <2> QED
    BY SMTT(30), <2>1, <2>2, <2>3, <2>4 DEF Selected, x
<1> QED
  BY <1>4, <1>5

LEMMA StepsSelect ==
    ASSUME NEW q \in Seq(Nat), NEW K, NEW g, Steps(q, K, Len(q), g)
    PROVE  Selected(q, K, Len(q), g[Len(q)])
<1> DEFINE S == {m \in Nat : m <= Len(q) => Selected(q, K, m, g[m])}
<1>1. 0 \in S
  <2>1. g[0] = <<>>
    BY DEF Steps
  <2>2. Selected(q, K, 0, <<>>)
    BY SMTT(30) DEF Selected, Named, Increasing
  <2> QED
    BY <2>1, <2>2
<1>2. ASSUME NEW m \in S
      PROVE  m + 1 \in S
  <2> SUFFICES ASSUME m + 1 <= Len(q)
               PROVE  Selected(q, K, m + 1, g[m + 1])
    BY SMTT(30)
  <2>1. Selected(q, K, m, g[m])
    BY SMTT(30)
  <2>2. g[m + 1] = Push(g[m], q[m + 1], K)
    BY SMTT(30) DEF Steps
  <2> QED
    BY <2>1, <2>2, PushSelects
<1>3. S = Nat
  <2>1. S \in SUBSET Nat
    OBVIOUS
  <2> HIDE DEF S
  <2> QED
    BY <1>1, <1>2, <2>1, Induction
<1>4. Len(q) \in S
  BY SMTT(30), <1>3
<1> QED
  BY SMTT(30), <1>4

\* Only keeps exactly the elements of K, in their order.
THEOREM OnlyKeeps ==
    ASSUME NEW q \in Seq(Nat), NEW K
    PROVE  /\ Only(q, K) \in Seq(Nat)
           /\ Named(Only(q, K)) = Named(q) \cap K
           /\ Len(Only(q, K)) <= Len(q)
           /\ Increasing(q) => Increasing(Only(q, K))
<1> DEFINE kept == CHOOSE g : Recursion(q, K, g)
<1>1. Recursion(q, K, kept)
  BY RecursionSolved
<1>2. Only(q, K) = kept[Len(q)]
  BY DEF Only, Recursion
<1> HIDE DEF kept
<1>3. Steps(q, K, Len(q), kept)
  <2>1. \A i \in 0..Len(q) : kept[i] = IF i = 0 THEN <<>> ELSE Push(kept[i - 1], q[i], K)
    BY <1>1 DEF Recursion
  <2>2. Len(q) \in Nat /\ \A i \in 1..Len(q) : i \in 0..Len(q) /\ i # 0
    BY SMTT(30)
  <2> QED
    BY SMTT(30), <2>1, <2>2 DEF Steps
<1>4. Selected(q, K, Len(q), Only(q, K))
  BY <1>2, <1>3, StepsSelect
<1>5. {q[i] : i \in 1..Len(q)} = Named(q)
  BY SMTT(30) DEF Named
<1> QED
  BY <1>4, <1>5 DEF Selected

-----------------------------------------------------------------------------
(* The registry.                                                           *)

\* The registry has its type, and so have the batches it will execute.
HubType ==
    /\ subscribers \subseteq Conns
    /\ subs \in [Conns -> SUBSET Channels]
    /\ channels \in [Channels -> SUBSET Conns]
    /\ batch \in [Conns -> Seq(Command)]

\* A connection the hub does not know has no subscription left.
AbsentIsSilent == \A c \in Conns : c \notin subscribers => subs[c] = {}

HubInv == HubType /\ AbsentIsSilent /\ IndexConsistent /\ CountersExact

-----------------------------------------------------------------------------
(* What the counters count.                                                *)

Subscribed == {c \in subscribers : subs[c] # {}}

LEMMA FiniteCounts ==
    ASSUME HubType, NEW S \in SUBSET Conns
    PROVE  /\ IsFiniteSet(Memberships(S)) /\ Cardinality(Memberships(S)) \in Nat
           /\ IsFiniteSet(S) /\ Cardinality(S) \in Nat
<1>1. IsFiniteSet(Conns \X Channels)
  BY ConnsAssumption, ChannelsAssumption, FS_Product
<1>2. Memberships(S) \in SUBSET (Conns \X Channels)
  BY DEF Memberships
<1>3. IsFiniteSet(Memberships(S))
  BY <1>1, <1>2, FS_Subset
<1>4. IsFiniteSet(S)
  BY ConnsAssumption, FS_Subset
<1> QED
  BY <1>3, <1>4, FS_CardinalityType

\* The memberships of one connection in the channels of a finite set.
LEMMA SliceCardinality ==
    ASSUME NEW c, NEW T, IsFiniteSet(T)
    PROVE  /\ IsFiniteSet({c} \X T)
           /\ Cardinality({c} \X T) = Cardinality(T) /\ Cardinality(T) \in Nat
<1>1. IsFiniteSet({c}) /\ Cardinality({c}) = 1
  BY FS_Singleton
<1>2. Cardinality({c} \X T) = 1 * Cardinality(T) /\ IsFiniteSet({c} \X T)
  BY <1>1, FS_Product
<1>3. Cardinality(T) \in Nat
  BY FS_CardinalityType
<1> QED
  BY SMTT(30), <1>2, <1>3

LEMMA RemoveCounts ==
    ASSUME HubInv, NEW S \in SUBSET subscribers, Remove(S)
    PROVE  CountersExact'
<1> DEFINE Gone == {c \in S : subs[c] # {}}
<1>1. Memberships(subscribers)' = Memberships(subscribers) \ Memberships(S)
  BY DEF HubInv, HubType, Memberships, Remove
<1>2. Memberships(subscribers) \cap Memberships(S) = Memberships(S)
  BY DEF Memberships
<1>3. Subscribed' = Subscribed \ Gone
  BY DEF HubInv, HubType, Subscribed, Remove
<1>4. Subscribed \cap Gone = Gone
  BY DEF Subscribed
<1>5. IsFiniteSet(Memberships(subscribers)) /\ IsFiniteSet(Subscribed)
  <2>1. subscribers \in SUBSET Conns /\ Subscribed \in SUBSET Conns
    BY DEF HubInv, HubType, Subscribed
  <2> QED
    BY <2>1, FiniteCounts DEF HubInv
<1> HIDE DEF Gone
<1>6. Cardinality(Memberships(subscribers)') = Cardinality(Memberships(subscribers)) - Cardinality(Memberships(S))
  BY <1>1, <1>2, <1>5, FS_Difference
<1>7. Cardinality(Subscribed') = Cardinality(Subscribed) - Cardinality(Gone)
  <2>1. Cardinality(Subscribed \ Gone) = Cardinality(Subscribed) - Cardinality(Subscribed \cap Gone)
    BY <1>5, FS_Difference
  <2> QED
    BY <1>3, <1>4, <2>1
<1> QED
  BY <1>6, <1>7 DEF HubInv, CountersExact, Subscribed, Remove, Gone

LEMMA JoinCounts ==
    ASSUME HubInv, NEW c \in subscribers, NEW S \in SUBSET Channels, Join(c, S)
    PROVE  CountersExact'
<1> DEFINE New == {c} \X NewlyJoined(c, S)
<1>1. Memberships(subscribers)' = Memberships(subscribers) \cup New
  BY DEF HubInv, HubType, Memberships, Join, NewlyJoined
<1>2. Memberships(subscribers) \cap New = {}
  BY DEF Memberships, NewlyJoined
<1>3. IsFiniteSet(NewlyJoined(c, S))
  BY ChannelsAssumption, FS_Subset DEF NewlyJoined
<1>4. IsFiniteSet(New) /\ Cardinality(New) = Cardinality(NewlyJoined(c, S))
      /\ Cardinality(NewlyJoined(c, S)) \in Nat
  BY <1>3, SliceCardinality
<1>5. /\ IsFiniteSet(Memberships(subscribers)) /\ Cardinality(Memberships(subscribers)) \in Nat
      /\ IsFiniteSet(Subscribed) /\ Cardinality(Subscribed) \in Nat
  <2>1. subscribers \in SUBSET Conns /\ Subscribed \in SUBSET Conns
    BY DEF HubInv, HubType, Subscribed
  <2> QED
    BY <2>1, FiniteCounts DEF HubInv
<1> HIDE DEF New
<1>6. Cardinality(Memberships(subscribers)') = Cardinality(Memberships(subscribers)) + Cardinality(New)
  <2>1. Cardinality(Memberships(subscribers) \cap New) = 0
    BY <1>2, FS_EmptySet
  <2>2. Cardinality(Memberships(subscribers) \cup New)
            = Cardinality(Memberships(subscribers)) + Cardinality(New)
                - Cardinality(Memberships(subscribers) \cap New)
    BY <1>4, <1>5, FS_Union
  <2> QED
    BY SMTT(30), <1>1, <1>4, <1>5, <2>1, <2>2
<1>7. Subscribed' = IF S = {} THEN Subscribed ELSE Subscribed \cup {c}
  BY DEF HubInv, HubType, Subscribed, Join
<1>8. c \in Subscribed <=> subs[c] # {}
  BY DEF Subscribed
<1>9. Cardinality(Subscribed') =
          IF subs[c] = {} /\ S # {} THEN Cardinality(Subscribed) + 1 ELSE Cardinality(Subscribed)
  BY <1>5, <1>7, <1>8, FS_AddElement
<1> QED
  BY <1>4, <1>5, <1>6, <1>9 DEF HubInv, CountersExact, Subscribed, Join

LEMMA LeaveCounts ==
    ASSUME HubInv, NEW c \in subscribers, NEW S, Leave(c, S)
    PROVE  CountersExact'
<1> DEFINE Old == {c} \X (S \cap subs[c])
<1>1. Memberships(subscribers)' = Memberships(subscribers) \ Old
  BY DEF HubInv, HubType, Memberships, Leave
<1>2. Memberships(subscribers) \cap Old = Old
  BY DEF HubInv, HubType, Memberships
<1>3. IsFiniteSet(S \cap subs[c])
  <2>1. S \cap subs[c] \in SUBSET Channels
    BY DEF HubInv, HubType
  <2> QED
    BY <2>1, ChannelsAssumption, FS_Subset
<1>4. Cardinality(Old) = Cardinality(S \cap subs[c])
  BY <1>3, SliceCardinality
<1>5. /\ IsFiniteSet(Memberships(subscribers)) /\ IsFiniteSet(Subscribed)
  <2>1. subscribers \in SUBSET Conns /\ Subscribed \in SUBSET Conns
    BY DEF HubInv, HubType, Subscribed
  <2> QED
    BY <2>1, FiniteCounts DEF HubInv
<1> HIDE DEF Old
<1>6. Cardinality(Memberships(subscribers)') = Cardinality(Memberships(subscribers)) - Cardinality(Old)
  BY <1>1, <1>2, <1>5, FS_Difference
<1>7. Subscribed' = IF subs[c] \subseteq S THEN Subscribed \ {c} ELSE Subscribed
  BY DEF HubInv, HubType, Subscribed, Leave
<1>8. c \in Subscribed <=> subs[c] # {}
  BY DEF Subscribed
<1>9. Cardinality(Subscribed') =
          IF subs[c] # {} /\ subs[c] \subseteq S THEN Cardinality(Subscribed) - 1
          ELSE Cardinality(Subscribed)
  BY <1>5, <1>7, <1>8, FS_RemoveElement
<1> QED
  BY <1>4, <1>6, <1>9 DEF HubInv, CountersExact, Subscribed, Leave

\* A fresh registration: the connection leaves all its channels at once.
LEMMA ReconnectCounts ==
    ASSUME HubInv, NEW c \in Conns, Reconnect(c)
    PROVE  CountersExact'
<1> DEFINE Old == {c} \X subs[c]
<1>1. Memberships(subscribers)' = Memberships(subscribers) \ Old
  BY SMTT(30) DEF HubInv, HubType, AbsentIsSilent, Memberships, Reconnect
<1>2. Memberships(subscribers) \cap Old = Old
  BY DEF HubInv, HubType, AbsentIsSilent, Memberships
<1>3. IsFiniteSet(subs[c])
  <2>1. subs[c] \in SUBSET Channels
    BY DEF HubInv, HubType
  <2> QED
    BY <2>1, ChannelsAssumption, FS_Subset
<1>4. Cardinality(Old) = Cardinality(subs[c])
  BY <1>3, SliceCardinality
<1>5. IsFiniteSet(Memberships(subscribers)) /\ IsFiniteSet(Subscribed)
  <2>1. subscribers \in SUBSET Conns /\ Subscribed \in SUBSET Conns
    BY DEF HubInv, HubType, Subscribed
  <2> QED
    BY <2>1, FiniteCounts DEF HubInv
<1> HIDE DEF Old
<1>6. Cardinality(Memberships(subscribers)') = Cardinality(Memberships(subscribers)) - Cardinality(Old)
  BY <1>1, <1>2, <1>5, FS_Difference
<1>7. Subscribed' = Subscribed \ {c}
  BY DEF HubInv, HubType, AbsentIsSilent, Subscribed, Reconnect
<1>8. c \in Subscribed <=> subs[c] # {}
  BY DEF HubInv, AbsentIsSilent, Subscribed
<1>9. Cardinality(Subscribed') =
          IF subs[c] = {} THEN Cardinality(Subscribed) ELSE Cardinality(Subscribed) - 1
  BY <1>5, <1>7, <1>8, FS_RemoveElement
<1> QED
  BY <1>4, <1>6, <1>9 DEF HubInv, CountersExact, Subscribed, Reconnect

-----------------------------------------------------------------------------
(* Each change of the registry preserves the invariant.                    *)

\* State::remove, which cleans the channels that the removed entries list.
LEMMA RemovePreserves ==
    ASSUME HubInv, NEW S \in SUBSET subscribers, Remove(S),
           batch' \in [Conns -> Seq(Command)]
    PROVE  HubInv'
<1>1. HubType'
  BY DEF HubInv, HubType, Remove, IndexWithout
<1>2. AbsentIsSilent'
  BY DEF HubInv, HubType, AbsentIsSilent, Remove
<1>3. IndexConsistent'
  BY DEF HubInv, HubType, AbsentIsSilent, IndexConsistent, Remove, IndexWithout
<1>4. CountersExact'
  BY RemoveCounts
<1> QED
  BY <1>1, <1>2, <1>3, <1>4 DEF HubInv

\* The members a publication finds are registered, so those it removes are too.
LEMMA PublishPreserves ==
    ASSUME HubInv, NEW ch \in Channels, Publish(ch), batch' \in [Conns -> Seq(Command)]
    PROVE  HubInv'
<1> DEFINE S == Overflowed(channels[ch] \cap subscribers)
<1>1. S \in SUBSET subscribers /\ Remove(S)
  BY DEF Publish, Overflowed
<1> HIDE DEF S
<1> QED
  BY <1>1, RemovePreserves

LEMMA JoinPreserves ==
    ASSUME HubInv, NEW c \in subscribers, NEW S \in SUBSET Channels, Join(c, S),
           batch' \in [Conns -> Seq(Command)]
    PROVE  HubInv'
<1>1. HubType'
  BY DEF HubInv, HubType, Join
<1>2. AbsentIsSilent'
  BY DEF HubInv, HubType, AbsentIsSilent, Join
<1>3. IndexConsistent'
  BY DEF HubInv, HubType, IndexConsistent, Join
<1>4. CountersExact'
  BY JoinCounts
<1> QED
  BY <1>1, <1>2, <1>3, <1>4 DEF HubInv

LEMMA LeavePreserves ==
    ASSUME HubInv, NEW c \in subscribers, NEW S, Leave(c, S),
           batch' \in [Conns -> Seq(Command)]
    PROVE  HubInv'
<1>1. HubType'
  BY DEF HubInv, HubType, Leave
<1>2. AbsentIsSilent'
  BY DEF HubInv, HubType, AbsentIsSilent, Leave
<1>3. IndexConsistent'
  BY DEF HubInv, HubType, IndexConsistent, Leave
<1>4. CountersExact'
  BY LeaveCounts
<1> QED
  BY <1>1, <1>2, <1>3, <1>4 DEF HubInv

\* A step that leaves the registry alone.
LEMMA SameHub ==
    ASSUME HubInv, UNCHANGED hub, batch' \in [Conns -> Seq(Command)]
    PROVE  HubInv'
BY DEF HubInv, HubType, AbsentIsSilent, IndexConsistent, CountersExact, Memberships, hub

LEMMA DropPreserves ==
    ASSUME HubInv, NEW c \in Conns, Drop(c)
    PROVE  HubInv'
<1>1. Remove({c} \cap subscribers) /\ batch' \in [Conns -> Seq(Command)]
  BY DEF Drop, client, HubInv, HubType
<1>2. {c} \cap subscribers \in SUBSET subscribers
  OBVIOUS
<1> QED
  BY <1>1, <1>2, RemovePreserves

LEMMA NamedChannels ==
    ASSUME NEW list \in Seq(Channels)
    PROVE  Named(list) \in SUBSET Channels
BY SMTT(30) DEF Named

-----------------------------------------------------------------------------

LEMMA InitHub == Init => HubInv
<1> SUFFICES ASSUME Init
             PROVE  HubInv
  OBVIOUS
<1>1. HubType /\ AbsentIsSilent /\ IndexConsistent
  BY SMTT(30) DEF Init, HubType, AbsentIsSilent, IndexConsistent
<1>2. Memberships(subscribers) = {} /\ {c \in subscribers : subs[c] # {}} = {}
  BY DEF Init, Memberships
<1>3. CountersExact
  BY <1>2, FS_EmptySet DEF Init, CountersExact
<1> QED
  BY <1>1, <1>3 DEF HubInv

\* The steps of the loop, which change the registry only by dropping it.
LEMMA LoopPreserves ==
    ASSUME HubInv, NEW c \in Conns, Loop(c) \/ Read(c) \/ Close(c)
    PROVE  HubInv'
<1>1. CASE NoticeEviction(c) \/ WriteTimeout(c) \/ Close(c)
  BY <1>1, DropPreserves DEF NoticeEviction, WriteTimeout, Close
<1>2. CASE TryMessage(c) \/ Write(c) \/ Wait(c) \/ Wake(c) \/ Poll(c) \/ Read(c)
  <2>1. UNCHANGED <<hub, batch>>
    BY <1>2 DEF TryMessage, Write, Wait, Wake, Poll, Read, client
  <2> QED
    BY <2>1, SameHub DEF HubInv, HubType
<1> QED
  BY <1>1, <1>2 DEF Loop

LEMMA ExecutePreserves ==
    ASSUME HubInv, NEW c \in Conns, Execute(c)
    PROVE  HubInv'
<1> USE ChannelsAssumption, BatchesAssumption
<1>1. CASE \E list \in Lists : Subscribe(c, list)
  <2>1. PICK list \in Lists : Subscribe(c, list)
    BY <1>1
  <2>2. batch' = batch
    BY <2>1 DEF Subscribe, Respond
  <2>3. CASE Refused(c, list)
    BY <2>1, <2>2, <2>3, SameHub DEF Subscribe, HubInv, HubType
  <2>4. CASE ~Refused(c, list)
    <3>1. c \in subscribers /\ Join(c, Named(list))
      BY <2>1, <2>4 DEF Subscribe, Refused, Closed
    <3> QED
      BY <2>2, <3>1, NamedChannels, JoinPreserves DEF HubInv, HubType
  <2> QED
    BY <2>3, <2>4
<1>2. CASE \E list \in Lists : Unsubscribe(c, list)
  <2>1. PICK list \in Lists : Unsubscribe(c, list)
    BY <1>2
  <2>2. batch' = batch /\ c \in subscribers /\ Leave(c, LeaveSet(c, list))
    BY <2>1 DEF Unsubscribe, Respond, Closed
  <2> QED
    BY <2>2, LeavePreserves DEF HubInv, HubType
<1>3. CASE UnsubscribeClosed(c)
  BY <1>3, DropPreserves DEF UnsubscribeClosed
<1>4. CASE \E ch \in Channels : PublishCommand(c, ch)
  <2>1. PICK ch \in Channels : PublishCommand(c, ch)
    BY <1>4
  <2>2. batch' = batch /\ Publish(ch)
    BY <2>1 DEF PublishCommand, Respond
  <2> QED
    BY <2>2, PublishPreserves DEF HubInv, HubType
<1>5. CASE OtherCommand(c)
  <2>1. UNCHANGED hub /\ batch' = batch
    BY <1>5 DEF OtherCommand, Respond
  <2> QED
    BY <2>1, SameHub DEF HubInv, HubType
<1>6. CASE \E b \in Batches : Exec(c, b)
  <2>1. PICK b \in Batches : Exec(c, b)
    BY <1>6
  <2>2. UNCHANGED hub /\ batch' \in [Conns -> Seq(Command)]
    BY <2>1 DEF Exec, HubInv, HubType
  <2> QED
    BY <2>2, SameHub
<1> QED
  BY <1>1, <1>2, <1>3, <1>4, <1>5, <1>6 DEF Execute

\* The commands of a batch, executed with the mutex held.
LEMMA WorkerPreserves ==
    ASSUME HubInv, NEW c \in Conns, Worker(c)
    PROVE  HubInv'
<1>1. CASE CompleteExec(c) \/ FinishExec(c)
  <2>1. UNCHANGED hub /\ batch' = batch
    BY <1>1 DEF CompleteExec, FinishExec, client
  <2> QED
    BY <2>1, SameHub DEF HubInv, HubType
<1>2. CASE ExecRejected(c)
  <2>1. UNCHANGED hub /\ batch' = [batch EXCEPT ![c] = <<>>]
    BY <1>2 DEF ExecRejected
  <2>2. batch' \in [Conns -> Seq(Command)]
    BY SMTT(30), <2>1 DEF HubInv, HubType
  <2> QED
    BY <2>1, <2>2, SameHub
<1>3. CASE ExecLost(c)
  BY <1>3, DropPreserves DEF ExecLost
<1>4. CASE BatchCommand(c)
  <2> DEFINE command == Head(batch[c])
  <2>1. batch[c] \in Seq(Command) /\ batch[c] # <<>>
    BY <1>4 DEF BatchCommand, HubInv, HubType
  <2>2. command \in Command
    BY SMTT(30), <2>1
  <2>3. command.channels \in Seq(Channels) /\ (command.op = "publish" => Len(command.channels) = 1)
    BY <2>2 DEF Command
  <2>4. batch' \in [Conns -> Seq(Command)]
    BY SMTT(30), <1>4, <2>1 DEF BatchCommand, HubInv, HubType
  <2>5. CASE command.op = "publish" /\ Publish(command.channels[1])
    <3>1. command.channels[1] \in Channels
      BY SMTT(30), <2>3, <2>5
    <3> QED
      BY <2>4, <2>5, <3>1, PublishPreserves
  <2>6. CASE ~Refused(c, command.channels) /\ Join(c, Named(command.channels))
    BY <2>3, <2>4, <2>6, NamedChannels, JoinPreserves DEF Refused, Closed
  <2>7. CASE ~Closed(c) /\ Leave(c, LeaveSet(c, command.channels))
    BY <2>4, <2>7, LeavePreserves DEF Closed
  <2>8. CASE UNCHANGED hub
    BY <2>4, <2>8, SameHub
  <2> QED
    BY <1>4, <2>5, <2>6, <2>7, <2>8 DEF BatchCommand
<1> QED
  BY <1>1, <1>3, <1>4, <1>2 DEF Worker

\* A new generation of the policy.
LEMMA PolicyPreserves ==
    ASSUME HubInv, NEW c \in Conns,
           (\E allowed \in SUBSET Channels : Revalidate(c, allowed)) \/ Reconnect(c)
    PROVE  HubInv'
<1>1. CASE \E allowed \in SUBSET Channels : Revalidate(c, allowed)
  <2>1. PICK allowed \in SUBSET Channels : Revalidate(c, allowed)
    BY <1>1
  <2>2. batch' \in [Conns -> Seq(Command)]
    BY <2>1 DEF Revalidate, client, HubInv, HubType
  <2>3. CASE Closed(c)
    BY <2>1, <2>2, <2>3, SameHub DEF Revalidate
  <2>4. CASE ~Closed(c)
    <3>1. c \in subscribers /\ Leave(c, subs[c] \ allowed)
      BY <2>1, <2>4 DEF Revalidate, Closed
    <3> QED
      BY <2>2, <3>1, LeavePreserves
  <2> QED
    BY <2>3, <2>4
<1>2. CASE Reconnect(c)
  <2>1. HubType'
    BY <1>2 DEF Reconnect, client, HubInv, HubType, IndexWithout
  <2>2. AbsentIsSilent'
    BY <1>2 DEF Reconnect, HubInv, HubType, AbsentIsSilent
  <2>3. IndexConsistent'
    BY <1>2 DEF Reconnect, HubInv, HubType, AbsentIsSilent, IndexConsistent, IndexWithout
  <2>4. CountersExact'
    BY <1>2, ReconnectCounts
  <2> QED
    BY <2>1, <2>2, <2>3, <2>4 DEF HubInv
<1> QED
  BY <1>1, <1>2

LEMMA ConnectPreserves ==
    ASSUME HubInv, NEW c \in Conns, Connect(c)
    PROVE  HubInv'
<1>1. HubType' /\ AbsentIsSilent' /\ IndexConsistent'
  BY DEF Connect, client, HubInv, HubType, AbsentIsSilent, IndexConsistent
<1>2. /\ Memberships(subscribers)' = Memberships(subscribers)
      /\ {d \in subscribers : subs[d] # {}}' = {d \in subscribers : subs[d] # {}}
  BY DEF Connect, HubInv, HubType, AbsentIsSilent, Memberships
<1>3. CountersExact'
  BY <1>2 DEF Connect, HubInv, CountersExact
<1> QED
  BY <1>1, <1>3 DEF HubInv

LEMMA NextPreserves == HubInv /\ [Next]_vars => HubInv'
<1> SUFFICES ASSUME HubInv, [Next]_vars
             PROVE  HubInv'
  OBVIOUS
<1>1. CASE Next
  <2>1. PICK c \in Conns :
            \/ Connect(c) \/ Loop(c) \/ Execute(c) \/ Worker(c) \/ Read(c) \/ Close(c)
            \/ \E allowed \in SUBSET Channels : Revalidate(c, allowed)
            \/ Reconnect(c)
    BY <1>1 DEF Next
  <2> QED
    BY <2>1, ConnectPreserves, LoopPreserves, ExecutePreserves, WorkerPreserves, PolicyPreserves
<1>2. CASE UNCHANGED vars
  BY <1>2, SameHub DEF vars, client, HubInv, HubType
<1> QED
  BY <1>1, <1>2

\* The members of each channel are exactly the registered connections whose
\* entry lists it: State::publish finds every subscriber and nobody else, after
\* any interleaving of SUBSCRIBE, UNSUBSCRIBE, EXEC, evictions, dropped
\* connections and changes of policy.
THEOREM HubIndexConsistent == Spec => []IndexConsistent
<1>1. Spec => []HubInv
  BY InitHub, NextPreserves, PTL DEF Spec
<1>2. HubInv => IndexConsistent
  BY DEF HubInv
<1> QED
  BY <1>1, <1>2, PTL

\* The gauges of subscriptions and of active subscribers, which the hub keeps by
\* adding and subtracting as entries come and go, are exact: no path removes a
\* subscription twice or forgets to count one.
THEOREM HubCountersExact == Spec => []CountersExact
<1>1. Spec => []HubInv
  BY InitHub, NextPreserves, PTL DEF Spec
<1>2. HubInv => CountersExact
  BY DEF HubInv
<1> QED
  BY <1>1, <1>2, PTL

=============================================================================
