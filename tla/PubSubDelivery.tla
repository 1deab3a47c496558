--------------------------- MODULE PubSubDelivery ---------------------------
(***************************************************************************)
(* What a connection is sent is exactly what was published to it, in its   *)
(* place among the replies, for every finite set of connections and        *)
(* channels and every limit.  The invariant adds to ExactDelivery what     *)
(* each place of the loop may have left to write (Phase), and that no      *)
(* message of a channel that was left is written, about to be written or   *)
(* queued, except in the queue of a running batch (Silent).  Both are      *)
(* stated over plain sequences and sets, so that most of the argument is   *)
(* about data: what happens when frames are appended, lost or withdrawn.   *)
(***************************************************************************)
EXTENDS PubSubProofs

USE ZenonT(30)

DeliveryType ==
    /\ queue \in [Conns -> Seq(Nat)]
    /\ output \in [Conns -> Seq(Frame)] /\ written \in [Conns -> Seq(Frame)]
    /\ log \in Seq(Publication)
    /\ dropped \in [Conns -> SUBSET (1..Len(log))]
    /\ pc \in [Conns -> Pcs]

\* What is being written, by where the loop is.
Phase(c) ==
    /\ pc[c] \notin {"message", "reply", "batch"} => output[c] = <<>>
    /\ pc[c] \in {"message", "reply"} => output[c] # <<>>
    /\ pc[c] = "batch" => MessageAt(output[c]) = {}
    /\ pc[c] = "new" => /\ c \notin subscribers /\ Heard(c) = {}
                        /\ written[c] = <<>> /\ queue[c] = <<>>

\* The confirmation in place i is the last word on its channel.
LeftAt(frames, i) ==
    /\ frames[i].kind = "unsubscribe"
    /\ \A k \in DOMAIN frames :
          k > i => ~(frames[k].kind = "subscribe" /\ frames[k].channel = frames[i].channel)

\* No message of a channel that was left is on its way, except in a running batch.
Silent(frames, joined, waiting, inBatch) ==
    /\ QuietFrames(frames)
    /\ \A i \in DOMAIN frames : LeftAt(frames, i) =>
          /\ frames[i].channel \notin joined
          /\ frames[i].channel \in waiting => inBatch /\ frames[i].batch

Waiting(c) == {log[n].channel : n \in Named(queue[c])}

ConnInv(c) ==
    /\ Phase(c)
    /\ Delivered(Sent(c), queue[c], Heard(c), c \in subscribers)
    /\ Silent(Sent(c), subs[c], Waiting(c), pc[c] = "batch")
    /\ RepliesFirst(output[c])

DeliveryInv == DeliveryType /\ \A c \in Conns : ConnInv(c)

-----------------------------------------------------------------------------
(* Sequences of frames.                                                    *)

LEMMA ConcatParts ==
    ASSUME NEW s \in Seq(Frame), NEW t \in Seq(Frame)
    PROVE  /\ s \o t \in Seq(Frame) /\ Len(s) \in Nat /\ Len(t) \in Nat
           /\ DOMAIN s = 1..Len(s) /\ DOMAIN t = 1..Len(t)
           /\ DOMAIN (s \o t) = 1..(Len(s) + Len(t))
           /\ \A i \in DOMAIN s : i \in DOMAIN (s \o t) /\ (s \o t)[i] = s[i]
           /\ \A i \in DOMAIN t : Len(s) + i \in DOMAIN (s \o t) /\ (s \o t)[Len(s) + i] = t[i]
           /\ \A k \in DOMAIN (s \o t) : k \in DOMAIN s \/ \E i \in DOMAIN t : k = Len(s) + i
<1>1. s \o t \in Seq(Frame) /\ Len(s) \in Nat /\ Len(t) \in Nat
      /\ DOMAIN s = 1..Len(s) /\ DOMAIN t = 1..Len(t) /\ DOMAIN (s \o t) = 1..(Len(s) + Len(t))
  BY SMTT(30)
<1>2. \A i \in DOMAIN s : i \in DOMAIN (s \o t) /\ (s \o t)[i] = s[i]
  BY SMTT(30)
<1>3. \A i \in DOMAIN t : Len(s) + i \in DOMAIN (s \o t) /\ (s \o t)[Len(s) + i] = t[i]
  BY SMTT(30)
<1>4. ASSUME NEW k \in DOMAIN (s \o t), k \notin DOMAIN s
      PROVE  \E i \in DOMAIN t : k = Len(s) + i
  <2>1. k - Len(s) \in DOMAIN t /\ k = Len(s) + (k - Len(s))
    BY SMTT(30), <1>1, <1>4
  <2> QED
    BY <2>1
<1> QED
  BY <1>1, <1>2, <1>3, <1>4

LEMMA MessagesAreNumbers ==
    ASSUME NEW s \in Seq(Frame)
    PROVE  Messages(s) \in SUBSET Nat
<1>1. \A i \in MessageAt(s) : s[i] \in Frame
  BY SMTT(30) DEF MessageAt
<1>2. \A i \in MessageAt(s) : s[i].n \in Nat
  BY <1>1 DEF Frame
<1> QED
  BY <1>2 DEF Messages

LEMMA ConcatMessages ==
    ASSUME NEW s \in Seq(Frame), NEW t \in Seq(Frame)
    PROVE  Messages(s \o t) = Messages(s) \cup Messages(t)
<1>1. Messages(s \o t) \subseteq Messages(s) \cup Messages(t)
  BY SMTT(30), ConcatParts DEF Messages, MessageAt
<1>2. Messages(s) \subseteq Messages(s \o t)
  BY SMTT(30), ConcatParts DEF Messages, MessageAt
<1>3. Messages(t) \subseteq Messages(s \o t)
  <2> SUFFICES ASSUME NEW i \in MessageAt(t)
               PROVE  t[i].n \in Messages(s \o t)
    BY DEF Messages
  <2>1. Len(s) + i \in MessageAt(s \o t) /\ (s \o t)[Len(s) + i] = t[i]
    BY ConcatParts DEF MessageAt
  <2> QED
    BY <2>1 DEF Messages
<1> QED
  BY <1>1, <1>2, <1>3

LEMMA ConcatInOrder ==
    ASSUME NEW s \in Seq(Frame), NEW t \in Seq(Frame), InOrder(s), InOrder(t),
           \A n \in Messages(s), m \in Messages(t) : n < m
    PROVE  InOrder(s \o t)
<1> SUFFICES ASSUME NEW i \in MessageAt(s \o t), NEW j \in MessageAt(s \o t), i < j
             PROVE  (s \o t)[i].n < (s \o t)[j].n
  BY DEF InOrder
<1>1. CASE j \in DOMAIN s
  <2>1. i \in DOMAIN s
    BY SMTT(30), <1>1, ConcatParts DEF MessageAt
  <2>2. i \in MessageAt(s) /\ j \in MessageAt(s)
    BY SMTT(30), <1>1, <2>1, ConcatParts DEF MessageAt
  <2> QED
    BY SMTT(30), <1>1, <2>1, <2>2, ConcatParts DEF InOrder
<1>2. CASE i \in DOMAIN s /\ j \notin DOMAIN s
  <2>1. PICK l \in DOMAIN t : j = Len(s) + l
    BY SMTT(30), <1>2, ConcatParts DEF MessageAt
  <2>2. (s \o t)[i] = s[i] /\ (s \o t)[j] = t[l]
    BY SMTT(30), <1>2, <2>1, ConcatParts
  <2>3. s[i].n \in Messages(s) /\ t[l].n \in Messages(t)
    BY <1>2, <2>2 DEF Messages, MessageAt
  <2> QED
    BY <2>2, <2>3
<1>3. CASE i \notin DOMAIN s /\ j \notin DOMAIN s
  <2>1. PICK k \in DOMAIN t : i = Len(s) + k
    BY SMTT(30), <1>3, ConcatParts DEF MessageAt
  <2>2. PICK l \in DOMAIN t : j = Len(s) + l
    BY SMTT(30), <1>3, ConcatParts DEF MessageAt
  <2>3. (s \o t)[i] = t[k] /\ (s \o t)[j] = t[l]
    BY <2>1, <2>2, ConcatParts
  <2>4. k \in MessageAt(t) /\ l \in MessageAt(t)
    BY <2>3 DEF MessageAt
  <2>5. k < l
    BY SMTT(30), <2>1, <2>2, ConcatParts
  <2> QED
    BY <2>3, <2>4, <2>5 DEF InOrder
<1> QED
  BY <1>1, <1>2, <1>3

-----------------------------------------------------------------------------
(* What keeps a connection's messages exact.                               *)

\* Messages move from the front of the queue to the frames.
LEMMA DeliverMore ==
    ASSUME NEW s \in Seq(Frame), NEW t \in Seq(Frame), NEW q \in Seq(Nat), NEW rest \in Seq(Nat),
           NEW heard, NEW registered, Delivered(s, q, heard, registered),
           InOrder(t), Increasing(rest), Named(q) = Messages(t) \cup Named(rest),
           \A n \in Messages(t), m \in Named(rest) : n < m
    PROVE  Delivered(s \o t, rest, heard, registered)
<1>1. Messages(s \o t) = Messages(s) \cup Messages(t)
  BY ConcatMessages
<1>2. InOrder(s \o t)
  BY ConcatInOrder DEF Delivered
<1> QED
  BY <1>1, <1>2 DEF Delivered

\* The queue and the frames not yet written are lost with the registration.
LEMMA DeliverPrefix ==
    ASSUME NEW s \in Seq(Frame), NEW t \in Seq(Frame), NEW q \in Seq(Nat), NEW heard, NEW registered,
           Delivered(s \o t, q, heard, registered), heard \subseteq Nat
    PROVE  Delivered(s, <<>>, heard, FALSE)
<1>1. Messages(s \o t) = Messages(s) \cup Messages(t)
  BY ConcatMessages
<1>2. InOrder(s)
  <2>1. \A i \in MessageAt(s) : i \in MessageAt(s \o t) /\ (s \o t)[i] = s[i]
    BY ConcatParts DEF MessageAt
  <2> QED
    BY <2>1 DEF Delivered, InOrder
<1>3. \A n \in Messages(s), m \in Messages(t) : n < m
  <2> SUFFICES ASSUME NEW i \in MessageAt(s), NEW j \in MessageAt(t)
               PROVE  s[i].n < t[j].n
    BY DEF Messages
  <2>1. i \in MessageAt(s \o t) /\ (s \o t)[i] = s[i]
    BY ConcatParts DEF MessageAt
  <2>2. Len(s) + j \in MessageAt(s \o t) /\ (s \o t)[Len(s) + j] = t[j] /\ i < Len(s) + j
    BY SMTT(30), ConcatParts DEF MessageAt
  <2> QED
    BY <2>1, <2>2 DEF Delivered, InOrder
<1>4. Named(<<>>) = {} /\ Increasing(<<>>)
  BY SMTT(30) DEF Named, Increasing
<1>5. \A n \in heard \ Messages(s) : \A m \in Messages(s) : m < n
  BY <1>1, <1>3 DEF Delivered
<1> QED
  BY <1>1, <1>2, <1>4, <1>5 DEF Delivered

\* A publication is accepted, or overflows the queue of a connection that is removed.
LEMMA DeliverNew ==
    ASSUME NEW s \in Seq(Frame), NEW q \in Seq(Nat), NEW heard \in SUBSET Nat,
           Delivered(s, q, heard, TRUE), NEW n \in Nat, \A m \in heard : m < n
    PROVE  /\ Delivered(s, Append(q, n), heard \cup {n}, TRUE)
           /\ Delivered(s, q, heard \cup {n}, FALSE)
<1>1. Named(Append(q, n)) = Named(q) \cup {n}
  BY NamedAppend
<1>2. Increasing(Append(q, n))
  BY IncreasingAppend DEF Delivered
<1>3. Messages(s) \cup Named(q) = heard
  BY DEF Delivered
<1> QED
  BY <1>1, <1>2, <1>3 DEF Delivered

\* A change of policy withdraws some of the queue, all of it for a removed connection.
LEMMA DeliverRetained ==
    ASSUME NEW s \in Seq(Frame), NEW q \in Seq(Nat), NEW heard \in SUBSET Nat, NEW registered,
           Delivered(s, q, heard, registered), NEW K
    PROVE  /\ Delivered(s, Only(q, K), heard \ (Named(q) \ K), registered)
           /\ Delivered(s, <<>>, heard \ (Named(q) \ K), FALSE)
<1>1. Named(Only(q, K)) = Named(q) \cap K /\ (Increasing(q) => Increasing(Only(q, K)))
  BY OnlyKeeps
<1>2. Named(<<>>) = {} /\ Increasing(<<>>)
  BY SMTT(30) DEF Named, Increasing
<1>3. Messages(s) \subseteq heard /\ Named(q) \subseteq heard /\ \A n \in Messages(s) : n \notin Named(q)
  <2>1. Messages(s) \subseteq heard /\ Named(q) \subseteq heard
    BY DEF Delivered
  <2>2. \A n \in Messages(s), m \in Named(q) : n < m
    BY DEF Delivered
  <2>3. \A n \in Nat : ~(n < n)
    BY SMTT(30)
  <2>4. ASSUME NEW n \in Messages(s), n \in Named(q)
        PROVE  FALSE
    <3>1. n \in Nat /\ n < n
      BY <2>1, <2>2, <2>4
    <3> QED
      BY <2>3, <3>1
  <2> QED
    BY <2>1, <2>4
<1>4. Delivered(s, Only(q, K), heard \ (Named(q) \ K), registered)
  BY <1>1, <1>3 DEF Delivered
<1>5. Delivered(s, <<>>, heard \ (Named(q) \ K), FALSE)
  BY <1>2, <1>3 DEF Delivered
<1> QED
  BY <1>4, <1>5

\* A fresh registration forgets all that was not written.
LEMMA DeliverFresh ==
    ASSUME NEW s \in Seq(Frame), NEW q \in Seq(Nat), NEW heard, NEW registered,
           Delivered(s, q, heard, registered)
    PROVE  Delivered(s, <<>>, heard \cap Messages(s), TRUE)
<1>1. Named(<<>>) = {} /\ Increasing(<<>>)
  BY SMTT(30) DEF Named, Increasing
<1> QED
  BY <1>1 DEF Delivered

-----------------------------------------------------------------------------
(* What keeps a channel that was left silent.                              *)

SubscribedIn(frames) ==
    {frames[k].channel : k \in {l \in DOMAIN frames : frames[l].kind = "subscribe"}}

\* Frames are added: messages that were waiting, or confirmations and replies.
LEMMA SilentMore ==
    ASSUME NEW s \in Seq(Frame), NEW t \in Seq(Frame),
           NEW joined, NEW waiting, NEW inBatch \in BOOLEAN, Silent(s, joined, waiting, inBatch),
           NEW joined1, NEW waiting1, NEW inBatch1 \in BOOLEAN,
           QuietFrames(t),
           \A j \in MessageAt(t) : t[j].channel \in waiting /\ (inBatch => t[j].batch),
           joined1 \subseteq joined \cup SubscribedIn(t),
           waiting1 \subseteq waiting, waiting1 = {} \/ inBatch1 = inBatch,
           \A i \in DOMAIN t : LeftAt(t, i) =>
              /\ t[i].channel \notin joined1
              /\ t[i].channel \in waiting1 => inBatch1 /\ t[i].batch
    PROVE  Silent(s \o t, joined1, waiting1, inBatch1)
<1> DEFINE u == s \o t
<1>1. /\ u \in Seq(Frame) /\ Len(s) \in Nat /\ Len(t) \in Nat
      /\ DOMAIN s = 1..Len(s) /\ DOMAIN t = 1..Len(t) /\ DOMAIN u = 1..(Len(s) + Len(t))
      /\ \A i \in DOMAIN s : i \in DOMAIN u /\ u[i] = s[i]
      /\ \A i \in DOMAIN t : Len(s) + i \in DOMAIN u /\ u[Len(s) + i] = t[i]
      /\ \A k \in DOMAIN u : k \in DOMAIN s \/ \E i \in DOMAIN t : k = Len(s) + i
  BY ConcatParts
<1> HIDE DEF u
<1>2. ASSUME NEW i \in DOMAIN u, NEW j \in DOMAIN u, i < j, u[i].kind = "unsubscribe",
             u[j].kind = "message", u[i].channel = u[j].channel, ~(u[i].batch /\ u[j].batch)
      PROVE  \E k \in i..j : u[k].kind = "subscribe" /\ u[k].channel = u[j].channel
  <2>1. CASE j \in DOMAIN s
    <3>1. i \in DOMAIN s /\ u[i] = s[i] /\ u[j] = s[j]
      BY SMTT(30), <1>1, <1>2, <2>1
    <3>2. PICK k \in i..j : s[k].kind = "subscribe" /\ s[k].channel = s[j].channel
      BY SMTT(30), <1>2, <2>1, <3>1 DEF Silent, QuietFrames
    <3>3. u[k] = s[k]
      BY SMTT(30), <1>1, <2>1, <3>1, <3>2
    <3> QED
      BY <3>1, <3>2, <3>3
  <2>2. CASE i \in DOMAIN s /\ j \notin DOMAIN s
    <3>1. PICK l \in DOMAIN t : j = Len(s) + l /\ u[j] = t[l]
      BY <1>1, <2>2
    <3>2. u[i] = s[i]
      BY <1>1, <2>2
    <3>3. l \in MessageAt(t) /\ t[l].channel \in waiting /\ (inBatch => t[l].batch)
      BY <1>2, <3>1 DEF MessageAt
    <3>4. ~LeftAt(s, i)
      BY <1>2, <2>2, <3>1, <3>2, <3>3 DEF Silent
    <3>5. PICK k \in DOMAIN s : k > i /\ s[k].kind = "subscribe" /\ s[k].channel = s[i].channel
      BY <1>2, <3>2, <3>4 DEF LeftAt
    <3>6. u[k] = s[k] /\ k \in i..j
      BY SMTT(30), <1>1, <2>2, <3>1, <3>5
    <3> QED
      BY <1>2, <3>2, <3>5, <3>6
  <2>3. CASE i \notin DOMAIN s /\ j \notin DOMAIN s
    <3>1. PICK l \in DOMAIN t : j = Len(s) + l /\ u[j] = t[l]
      BY <1>1, <2>3
    <3>2. PICK m \in DOMAIN t : i = Len(s) + m /\ u[i] = t[m]
      BY <1>1, <2>3
    <3>3. m < l
      BY SMTT(30), <1>1, <1>2, <3>1, <3>2
    <3>4. PICK k \in m..l : t[k].kind = "subscribe" /\ t[k].channel = t[l].channel
      BY SMTT(30), <1>2, <3>1, <3>2, <3>3 DEF QuietFrames
    <3>5. u[Len(s) + k] = t[k] /\ Len(s) + k \in i..j
      BY SMTT(30), <1>1, <3>1, <3>2, <3>4
    <3> QED
      BY <3>1, <3>4, <3>5
  <2> QED
    BY <1>1, <1>2, <2>1, <2>2, <2>3
<1>3. QuietFrames(u)
  BY <1>2 DEF QuietFrames
<1>4. ASSUME NEW i \in DOMAIN u, LeftAt(u, i)
      PROVE  /\ u[i].channel \notin joined1
             /\ u[i].channel \in waiting1 => inBatch1 /\ u[i].batch
  <2>1. CASE i \in DOMAIN s
    <3>1. u[i] = s[i]
      BY <1>1, <2>1
    <3>2. LeftAt(s, i)
      BY <1>1, <1>4, <2>1, <3>1 DEF LeftAt
    <3>3. u[i].channel \notin SubscribedIn(t)
      <4> SUFFICES ASSUME NEW k \in DOMAIN t, t[k].kind = "subscribe", t[k].channel = u[i].channel
                   PROVE  FALSE
        BY DEF SubscribedIn
      <4>1. Len(s) + k \in DOMAIN u /\ u[Len(s) + k] = t[k] /\ Len(s) + k > i
        BY SMTT(30), <1>1, <2>1
      <4> QED
        BY <1>4, <4>1 DEF LeftAt
    <3> QED
      BY <2>1, <3>1, <3>2, <3>3 DEF Silent
  <2>2. CASE i \notin DOMAIN s
    <3>1. PICK m \in DOMAIN t : i = Len(s) + m /\ u[i] = t[m]
      BY <1>1, <2>2
    <3>2. LeftAt(t, m)
      <4> SUFFICES ASSUME NEW k \in DOMAIN t, k > m, t[k].kind = "subscribe", t[k].channel = t[m].channel
                   PROVE  FALSE
        BY <1>4, <3>1 DEF LeftAt
      <4>1. Len(s) + k \in DOMAIN u /\ u[Len(s) + k] = t[k] /\ Len(s) + k > i
        BY SMTT(30), <1>1, <3>1
      <4> QED
        BY <1>4, <3>1, <4>1 DEF LeftAt
    <3> QED
      BY <3>1, <3>2
  <2> QED
    BY <2>1, <2>2
<1> QED
  BY <1>3, <1>4 DEF Silent, u

\* What was not written is forgotten, and nothing is joined or waiting.
LEMMA SilentPrefix ==
    ASSUME NEW s \in Seq(Frame), NEW t \in Seq(Frame),
           NEW joined, NEW waiting, NEW inBatch, Silent(s \o t, joined, waiting, inBatch)
    PROVE  QuietFrames(s) /\ Silent(s, {}, {}, FALSE)
<1>1. QuietFrames(s)
  <2> SUFFICES ASSUME NEW i \in DOMAIN s, NEW j \in DOMAIN s, i < j, s[i].kind = "unsubscribe",
                      s[j].kind = "message", s[i].channel = s[j].channel, ~(s[i].batch /\ s[j].batch)
               PROVE  \E k \in i..j : s[k].kind = "subscribe" /\ s[k].channel = s[j].channel
    BY DEF QuietFrames
  <2>1. /\ i \in DOMAIN (s \o t) /\ (s \o t)[i] = s[i]
        /\ j \in DOMAIN (s \o t) /\ (s \o t)[j] = s[j]
    BY ConcatParts
  <2>2. PICK k \in i..j : (s \o t)[k].kind = "subscribe" /\ (s \o t)[k].channel = s[j].channel
    BY SMTT(30), <2>1 DEF Silent, QuietFrames
  <2>3. (s \o t)[k] = s[k]
    BY SMTT(30), ConcatParts
  <2> QED
    BY <2>2, <2>3
<1> QED
  BY <1>1 DEF Silent

\* Fewer channels are joined or waiting, or a message of a joined channel waits too.
LEMMA SilentChange ==
    ASSUME NEW s, NEW joined, NEW waiting, NEW inBatch \in BOOLEAN, Silent(s, joined, waiting, inBatch),
           NEW joined1 \in SUBSET joined, NEW waiting1 \in SUBSET (waiting \cup joined),
           NEW inBatch1 \in BOOLEAN, inBatch => inBatch1
    PROVE  Silent(s, joined1, waiting1, inBatch1)
BY DEF Silent

-----------------------------------------------------------------------------
(* The frames the connection adds.                                         *)

LEMMA NotificationFrames ==
    ASSUME log \in Seq(Publication), NEW q \in Seq(Nat), Named(q) \in SUBSET (1..Len(log)),
           NEW b \in BOOLEAN
    PROVE  LET t == Notifications(q, b) IN
           /\ t \in Seq(Frame) /\ Messages(t) = Named(q) /\ (Increasing(q) => InOrder(t))
           /\ DOMAIN t = 1..Len(q)
           /\ \A i \in DOMAIN t :
                 t[i].kind = "message" /\ t[i].batch = b
                 /\ t[i].channel \in {log[n].channel : n \in Named(q)}
<1> DEFINE t == Notifications(q, b)
<1>1. Len(q) \in Nat /\ DOMAIN q = 1..Len(q)
  BY SMTT(30)
<1>2. DOMAIN t = 1..Len(q)
      /\ \A i \in 1..Len(q) :
            t[i] = [kind |-> "message", channel |-> log[q[i]].channel, n |-> q[i], batch |-> b]
  BY DEF Notifications
<1>3. \A i \in 1..Len(q) : q[i] \in Named(q) /\ q[i] \in 1..Len(log) /\ q[i] \in Nat
  BY SMTT(30), <1>1 DEF Named
<1>4. \A n \in 1..Len(log) : log[n].channel \in Channels
  <2>1. \A n \in 1..Len(log) : log[n] \in Publication
    BY SMTT(30)
  <2> QED
    BY <2>1 DEF Publication
<1>5. \A i \in 1..Len(q) : t[i] \in Frame
  BY SMTT(30), <1>2, <1>3, <1>4 DEF Frame
<1>6. t \in Seq(Frame)
  <2>1. t = [i \in 1..Len(q) |-> t[i]]
    BY <1>2 DEF Notifications
  <2> HIDE DEF t
  <2> QED
    BY SMTT(30), <1>1, <1>5, <2>1
<1>7. \A i \in DOMAIN t : t[i].kind = "message" /\ t[i].batch = b /\ t[i].n = q[i]
                          /\ t[i].channel = log[q[i]].channel
  BY SMTT(30), <1>2
<1> HIDE DEF t
<1>8. MessageAt(t) = 1..Len(q)
  BY <1>2, <1>7 DEF MessageAt
<1>9. Messages(t) = Named(q)
  BY SMTT(30), <1>1, <1>2, <1>7, <1>8 DEF Messages, Named
<1>10. Increasing(q) => InOrder(t)
  BY SMTT(30), <1>1, <1>2, <1>7, <1>8 DEF Increasing, InOrder
<1>11. \A i \in DOMAIN t : t[i].channel \in {log[n].channel : n \in Named(q)}
  BY <1>2, <1>3, <1>7
<1> QED
  BY <1>2, <1>6, <1>7, <1>9, <1>10, <1>11 DEF t

LEMMA ConfirmationFrames ==
    ASSUME NEW kind \in {"subscribe", "unsubscribe"}, NEW list \in Seq(Channels \cup {NoChannel}),
           NEW b \in BOOLEAN
    PROVE  LET t == Confirmations(kind, list, b) IN
           /\ t \in Seq(Frame) /\ DOMAIN t = DOMAIN list /\ Len(t) = Len(list)
           /\ \A i \in DOMAIN t : t[i].kind = kind /\ t[i].batch = b /\ t[i].channel = list[i]
<1> DEFINE t == Confirmations(kind, list, b)
<1>1. Len(list) \in Nat /\ DOMAIN list = 1..Len(list)
  BY SMTT(30)
<1>2. DOMAIN t = 1..Len(list)
      /\ \A i \in 1..Len(list) : t[i] = [kind |-> kind, channel |-> list[i], n |-> 0, batch |-> b]
  BY DEF Confirmations, Confirmation
<1>3. \A i \in 1..Len(list) : t[i] \in Frame
  BY SMTT(30), <1>1, <1>2 DEF Frame
<1>4. t = [i \in 1..Len(list) |-> t[i]]
  BY DEF Confirmations
<1>5. \A i \in DOMAIN t : t[i].kind = kind /\ t[i].batch = b /\ t[i].channel = list[i]
  BY SMTT(30), <1>2
<1> HIDE DEF t
<1>6. t \in Seq(Frame) /\ Len(t) = Len(list)
  BY SMTT(30), <1>1, <1>3, <1>4
<1> QED
  BY <1>1, <1>2, <1>5, <1>6 DEF t

LEMMA ListingNames ==
    ASSUME NEW S \in SUBSET Channels
    PROVE  Listing(S) \in Seq(Channels) /\ Named(Listing(S)) = S /\ (S # {} => Listing(S) # <<>>)
<1>1. IsFiniteSet(S)
  BY ChannelsAssumption, FS_Subset
<1>2. Cardinality(S) \in Nat /\ ExistsBijection(1..Cardinality(S), S)
  BY <1>1, FS_CardinalityType
<1>3. PICK l \in [1..Cardinality(S) -> S] : \A x \in S : \E i \in 1..Cardinality(S) : l[i] = x
  BY <1>2 DEF ExistsBijection, Bijection, Surjection
<1>4. Named(l) = S
  BY <1>3 DEF Named
<1>5. Listing(S) \in [1..Cardinality(S) -> S] /\ Named(Listing(S)) = S
  BY <1>4 DEF Listing
<1>6. Listing(S) \in Seq(Channels)
  BY SMTT(30), <1>2, <1>5
<1>7. Named(<<>>) = {}
  BY SMTT(30) DEF Named
<1> QED
  BY <1>5, <1>6, <1>7

\* The confirmations of UNSUBSCRIBE name channels that are left, or no channel.
LEMMA LeaveFramesNamed ==
    ASSUME NEW c \in Conns, subs[c] \in SUBSET Channels, NEW list \in Seq(Channels), NEW b \in BOOLEAN
    PROVE  LET t == LeaveFrames(c, list, b) IN
           /\ t \in Seq(Frame) /\ t # <<>>
           /\ \A i \in DOMAIN t : t[i].kind = "unsubscribe" /\ t[i].batch = b
                                  /\ t[i].channel \in LeaveSet(c, list) \cup {NoChannel}
<1> DEFINE t == LeaveFrames(c, list, b)
           l == IF list = <<>> THEN Listing(subs[c]) ELSE list
<1>1. CASE list = <<>> /\ subs[c] = {}
  <2>1. t = <<[kind |-> "unsubscribe", channel |-> NoChannel, n |-> 0, batch |-> b]>>
    BY <1>1 DEF LeaveFrames, Confirmation
  <2>2. [kind |-> "unsubscribe", channel |-> NoChannel, n |-> 0, batch |-> b] \in Frame
    BY DEF Frame
  <2> QED
    BY SMTT(30), <2>1, <2>2
<1>2. CASE ~(list = <<>> /\ subs[c] = {})
  <2>1. t = Confirmations("unsubscribe", l, b)
    BY <1>2 DEF LeaveFrames
  <2>2. l \in Seq(Channels) /\ l # <<>> /\ Named(l) = LeaveSet(c, list)
    BY <1>2, ListingNames DEF LeaveSet
  <2> HIDE DEF l
  <2>3. l \in Seq(Channels \cup {NoChannel}) /\ Len(l) \in Nat \ {0}
    BY SMTT(30), <2>2
  <2>4. /\ t \in Seq(Frame) /\ DOMAIN t = DOMAIN l /\ Len(t) = Len(l)
        /\ \A i \in DOMAIN t : t[i].kind = "unsubscribe" /\ t[i].batch = b /\ t[i].channel = l[i]
    BY SMTT(30), <2>1, <2>3, ConfirmationFrames
  <2>5. \A i \in DOMAIN l : l[i] \in LeaveSet(c, list)
    BY <2>2 DEF Named
  <2> HIDE DEF t
  <2>6. t # <<>>
    BY <2>3, <2>4
  <2> QED
    BY <2>4, <2>5, <2>6 DEF t
<1> QED
  BY <1>1, <1>2

-----------------------------------------------------------------------------
(* One connection, when frames are added to what it was sent.              *)

LEMMA AddReplies ==
    ASSUME NEW s \in Seq(Frame), NEW t \in Seq(Frame), MessageAt(t) = {}, NEW q \in Seq(Nat),
           NEW heard, NEW registered, Delivered(s, q, heard, registered)
    PROVE  Delivered(s \o t, q, heard, registered)
<1>1. Messages(t) = {} /\ InOrder(t)
  BY DEF Messages, InOrder
<1>2. Increasing(q)
  BY DEF Delivered
<1> QED
  BY <1>1, <1>2, DeliverMore

LEMMA AddRepliesSilent ==
    ASSUME NEW s \in Seq(Frame), NEW t \in Seq(Frame), MessageAt(t) = {},
           NEW joined, NEW waiting, NEW inBatch \in BOOLEAN, Silent(s, joined, waiting, inBatch),
           NEW joined1, joined1 \subseteq joined \cup SubscribedIn(t),
           \A i \in DOMAIN t : t[i].kind = "unsubscribe" =>
              t[i].channel \notin joined1 /\ (t[i].channel \in waiting => inBatch /\ t[i].batch)
    PROVE  Silent(s \o t, joined1, waiting, inBatch)
<1>1. QuietFrames(t)
  BY DEF QuietFrames, MessageAt
<1>2. \A i \in DOMAIN t : LeftAt(t, i) =>
          t[i].channel \notin joined1 /\ (t[i].channel \in waiting => inBatch /\ t[i].batch)
  BY DEF LeftAt
<1> QED
  BY SMTT(30), <1>1, <1>2, SilentMore

LEMMA AddQueue ==
    ASSUME log \in Seq(Publication), NEW q \in Seq(Nat), Named(q) \in SUBSET (1..Len(log)),
           NEW b \in BOOLEAN, NEW s \in Seq(Frame), NEW heard, NEW registered,
           Delivered(s, q, heard, registered)
    PROVE  Delivered(s \o Notifications(q, b), <<>>, heard, registered)
<1>1. Named(<<>>) = {} /\ Increasing(<<>>) /\ <<>> \in Seq(Nat)
  BY SMTT(30) DEF Named, Increasing
<1> DEFINE t == Notifications(q, b)
<1>2. t \in Seq(Frame) /\ Messages(t) = Named(q) /\ InOrder(t)
  BY NotificationFrames DEF Delivered
<1> HIDE DEF t
<1>3. Delivered(s \o t, <<>>, heard, registered)
  BY <1>1, <1>2, DeliverMore
<1> QED
  BY <1>3 DEF t

LEMMA AddQueueSilent ==
    ASSUME log \in Seq(Publication), NEW q \in Seq(Nat), Named(q) \in SUBSET (1..Len(log)),
           NEW b \in BOOLEAN, NEW s \in Seq(Frame), NEW joined, NEW inBatch \in BOOLEAN, inBatch => b,
           NEW inBatch1 \in BOOLEAN,
           Silent(s, joined, {log[n].channel : n \in Named(q)}, inBatch)
    PROVE  Silent(s \o Notifications(q, b), joined, {}, inBatch1)
<1> DEFINE t == Notifications(q, b)
           w == {log[n].channel : n \in Named(q)}
<1>1. t \in Seq(Frame) /\ \A i \in DOMAIN t :
          t[i].kind = "message" /\ t[i].batch = b /\ t[i].channel \in w
  BY NotificationFrames
<1> HIDE DEF t, w
<1>2. QuietFrames(t) /\ \A i \in DOMAIN t : ~LeftAt(t, i)
  BY <1>1 DEF QuietFrames, LeftAt
<1>3. \A j \in MessageAt(t) : t[j].channel \in w /\ (inBatch => t[j].batch)
  BY <1>1 DEF MessageAt
<1>4. Silent(s, joined, w, inBatch)
  BY DEF w
<1>5. Silent(s \o t, joined, {}, inBatch1)
  BY SMTT(30), <1>1, <1>2, <1>3, <1>4, SilentMore
<1> QED
  BY <1>5 DEF t

LEMMA Joining ==
    ASSUME NEW w \in Seq(Frame), NEW o \in Seq(Frame), NEW t \in Seq(Frame)
    PROVE  /\ w \o (o \o t) = (w \o o) \o t /\ w \o <<>> = w /\ <<>> \o w = w
           /\ o \o t \in Seq(Frame) /\ (t # <<>> => o \o t # <<>>)
BY SMTT(30)

\* A batch goes on collecting replies.
LEMMA Collecting ==
    ASSUME NEW w \in Seq(Frame), NEW o \in Seq(Frame), NEW t \in Seq(Frame),
           MessageAt(o) = {}, MessageAt(t) = {}, t # <<>>
    PROVE  /\ o \o t \in Seq(Frame) /\ o \o t # <<>> /\ MessageAt(o \o t) = {}
           /\ w \o (o \o t) = (w \o o) \o t
<1>1. o \o t \in Seq(Frame) /\ o \o t # <<>>
  BY SMTT(30)
<1>2. MessageAt(o \o t) = {}
  BY SMTT(30), ConcatParts DEF MessageAt
<1> QED
  BY SMTT(30), <1>1, <1>2, Joining

LEMMA Moving ==
    ASSUME NEW w \in Seq(Frame), NEW o \in Seq(Frame), o # <<>>
    PROVE  /\ Append(w, Head(o)) \in Seq(Frame) /\ Tail(o) \in Seq(Frame)
           /\ Append(w, Head(o)) \o Tail(o) = w \o o
           /\ (Tail(o) = <<>> <=> ~(Len(o) > 1))
<1>1. Len(o) \in Nat \ {0} /\ Head(o) = o[1] /\ o[1] \in Frame /\ Len(w) \in Nat
  BY SMTT(30)
<1>2. Append(w, Head(o)) \in Seq(Frame) /\ Tail(o) \in Seq(Frame) /\ Len(Tail(o)) = Len(o) - 1
  BY SMTT(30), <1>1
<1>3. Append(w, Head(o)) \o Tail(o) = w \o o
  BY SMTT(30), <1>1, <1>2
<1>4. Tail(o) = <<>> <=> ~(Len(o) > 1)
  <2>1. \A u \in Seq(Frame) : u = <<>> <=> Len(u) = 0
    BY SMTT(30)
  <2>2. Tail(o) = <<>> <=> Len(Tail(o)) = 0
    BY <1>2, <2>1
  <2> QED
    BY SMTT(30), <1>1, <1>2, <2>2
<1> QED
  BY <1>2, <1>3, <1>4

LEMMA OneReply ==
    ASSUME NEW b \in BOOLEAN
    PROVE  /\ <<Reply(b)>> \in Seq(Frame) /\ <<Reply(b)>> # <<>> /\ MessageAt(<<Reply(b)>>) = {}
           /\ \A i \in DOMAIN <<Reply(b)>> : <<Reply(b)>>[i].kind = "reply"
<1>1. Reply(b) \in Frame /\ Reply(b).kind = "reply"
  BY DEF Reply, Frame
<1> QED
  BY SMTT(30), <1>1 DEF MessageAt

-----------------------------------------------------------------------------
(* The steps.                                                              *)

\* A connection that a step does not touch.
LEMMA SameConn ==
    ASSUME NEW d \in Conns, ConnInv(d), log' = log, queue'[d] = queue[d], output'[d] = output[d],
           written'[d] = written[d], dropped'[d] = dropped[d], subs'[d] = subs[d],
           pc'[d] = pc[d], d \in subscribers' <=> d \in subscribers
    PROVE  ConnInv(d)'
<1>1. /\ Sent(d)' = Sent(d) /\ Heard(d)' = Heard(d) /\ Waiting(d)' = Waiting(d)
  BY DEF Sent, Heard, Waiting
<1>2. Phase(d)'
  BY <1>1 DEF ConnInv, Phase
<1>3. Delivered(Sent(d), queue[d], Heard(d), d \in subscribers)'
  BY <1>1 DEF ConnInv, Delivered
<1>4. Silent(Sent(d), subs[d], Waiting(d), pc[d] = "batch")'
  BY <1>1 DEF ConnInv, Silent
<1> QED
  BY <1>2, <1>3, <1>4 DEF ConnInv

\* What is known of a connection before a step.
LEMMA ConnFacts ==
    ASSUME HubInv, DeliveryType, NEW c \in Conns, ConnInv(c)
    PROVE  /\ queue[c] \in Seq(Nat) /\ output[c] \in Seq(Frame) /\ written[c] \in Seq(Frame)
           /\ Sent(c) \in Seq(Frame) /\ Heard(c) \in SUBSET (1..Len(log)) /\ Heard(c) \in SUBSET Nat
           /\ log \in Seq(Publication) /\ subs[c] \in SUBSET Channels /\ Len(log) \in Nat
           /\ Named(queue[c]) \in SUBSET (1..Len(log)) /\ Named(queue[c]) \subseteq Heard(c)
           /\ Delivered(Sent(c), queue[c], Heard(c), c \in subscribers)
           /\ Silent(Sent(c), subs[c], Waiting(c), pc[c] = "batch")
<1>1. queue[c] \in Seq(Nat) /\ output[c] \in Seq(Frame) /\ written[c] \in Seq(Frame)
      /\ log \in Seq(Publication) /\ subs[c] \in SUBSET Channels
  BY DEF DeliveryType, HubInv, HubType
<1>2. Sent(c) \in Seq(Frame) /\ Len(log) \in Nat
  BY SMTT(30), <1>1 DEF Sent
<1>3. Heard(c) \in SUBSET (1..Len(log)) /\ Heard(c) \in SUBSET Nat
  BY SMTT(30), <1>2 DEF Heard
<1>4. Named(queue[c]) \subseteq Heard(c)
  BY DEF ConnInv, Delivered
<1> QED
  BY <1>1, <1>2, <1>3, <1>4 DEF ConnInv

\* State::remove leaves the other connections' entries alone.
LEMMA RemoveOthers ==
    ASSUME HubInv, NEW S \in SUBSET Conns, Remove(S), NEW d \in Conns, d \notin S
    PROVE  subs'[d] = subs[d] /\ (d \in subscribers' <=> d \in subscribers)
BY DEF Remove

\* The connection's guard is dropped: queue and unwritten frames are gone.
LEMMA DropDelivery ==
    ASSUME HubInv, DeliveryInv, NEW c \in Conns, Drop(c)
    PROVE  DeliveryInv'
<1>1. DeliveryType'
  BY SMTT(30) DEF DeliveryInv, DeliveryType, Drop, history, Pcs
<1>2. ASSUME NEW d \in Conns, d # c
      PROVE  ConnInv(d)'
  <2>1. subs'[d] = subs[d] /\ (d \in subscribers' <=> d \in subscribers)
    BY <1>2 DEF Drop, Remove
  <2>2. log' = log /\ queue'[d] = queue[d] /\ output'[d] = output[d] /\ pc'[d] = pc[d]
        /\ written'[d] = written[d] /\ dropped'[d] = dropped[d]
    BY <1>2 DEF Drop, history, DeliveryInv, DeliveryType
  <2> QED
    BY <2>1, <2>2, SameConn DEF DeliveryInv
<1>3. ConnInv(c)'
  <2>1. /\ log' = log /\ written' = written /\ dropped' = dropped /\ queue'[c] = <<>>
        /\ output'[c] = <<>> /\ pc'[c] = "closed" /\ c \notin subscribers'
    BY DEF Drop, Remove, history, DeliveryInv, DeliveryType
  <2>2. subs'[c] = {}
    BY DEF Drop, Remove, HubInv, HubType, AbsentIsSilent
  <2>3. /\ output[c] \in Seq(Frame) /\ written[c] \in Seq(Frame) /\ queue[c] \in Seq(Nat)
        /\ Heard(c) \subseteq Nat
        /\ Delivered(Sent(c), queue[c], Heard(c), c \in subscribers)
        /\ Silent(Sent(c), subs[c], Waiting(c), pc[c] = "batch")
    BY ConnFacts DEF DeliveryInv
  <2>4. Sent(c)' = written[c] /\ Heard(c)' = Heard(c) /\ Waiting(c)' = {}
    BY SMTT(30), <2>1, <2>3 DEF Sent, Heard, Waiting, Named
  <2>5. Delivered(written[c], <<>>, Heard(c), FALSE)
    BY <2>3, DeliverPrefix DEF Sent
  <2>6. Silent(written[c], {}, {}, FALSE)
    BY <2>3, SilentPrefix DEF Sent
  <2>7. Delivered(Sent(c), queue[c], Heard(c), c \in subscribers)'
    BY <2>1, <2>4, <2>5 DEF Delivered
  <2>8. Silent(Sent(c), subs[c], Waiting(c), pc[c] = "batch")'
    BY <2>1, <2>2, <2>4, <2>6
  <2>9. Phase(c)' /\ RepliesFirst(output[c])'
    BY SMTT(30), <2>1 DEF Phase, RepliesFirst
  <2> QED
    BY <2>7, <2>8, <2>9 DEF ConnInv
<1> QED
  BY <1>1, <1>2, <1>3 DEF DeliveryInv

\* The loop goes on, or the batch begins, with nothing to write.
LEMMA MoveDelivery ==
    ASSUME HubInv, DeliveryInv, NEW c \in Conns, NEW p \in {"top", "decode", "waiting", "exec", "batch"},
           pc[c] \in {"top", "decode", "waiting", "exec"}, pc' = [pc EXCEPT ![c] = p],
           UNCHANGED <<subscribers, subs, queue, output, log, written, dropped>>
    PROVE  DeliveryInv'
<1>1. DeliveryType'
  BY DEF DeliveryInv, DeliveryType, Pcs
<1>2. ASSUME NEW d \in Conns, d # c
      PROVE  ConnInv(d)'
  BY <1>2, SameConn DEF DeliveryInv, DeliveryType
<1>3. ConnInv(c)'
  <2>1. pc'[c] = p
    BY DEF DeliveryInv, DeliveryType
  <2>2. Sent(c)' = Sent(c) /\ Heard(c)' = Heard(c) /\ Waiting(c)' = Waiting(c)
    BY DEF Sent, Heard, Waiting
  <2>3. ConnInv(c) /\ output[c] = <<>>
    BY DEF DeliveryInv, ConnInv, Phase
  <2>4. Delivered(Sent(c), queue[c], Heard(c), c \in subscribers)'
    BY <2>2, <2>3 DEF ConnInv, Delivered
  <2>5. Silent(Sent(c), subs[c], Waiting(c), pc[c] = "batch")'
    BY <2>1, <2>2, <2>3 DEF ConnInv, Silent
  <2>6. Phase(c)' /\ RepliesFirst(output[c])'
    BY SMTT(30), <2>1, <2>3 DEF Phase, RepliesFirst, MessageAt
  <2> QED
    BY <2>4, <2>5, <2>6 DEF ConnInv
<1> QED
  BY <1>1, <1>2, <1>3 DEF DeliveryInv

\* The first message of a queue and the others.
LEMMA TailParts ==
    ASSUME NEW q \in Seq(Nat), q # <<>>, Increasing(q)
    PROVE  /\ Tail(q) \in Seq(Nat) /\ Head(q) \in Named(q) /\ Increasing(Tail(q))
           /\ \A m \in Named(Tail(q)) : Head(q) < m
           /\ Named(q) = {Head(q)} \cup Named(Tail(q))
<1> DEFINE r == Tail(q)
<1>1. /\ Len(q) \in Nat /\ 1 \in DOMAIN q /\ Head(q) = q[1] /\ r \in Seq(Nat)
      /\ DOMAIN r = 1..(Len(q) - 1) /\ DOMAIN q = 1..Len(q)
      /\ \A i \in DOMAIN r : r[i] = q[i + 1]
  BY SMTT(30)
<1> HIDE DEF r
<1>2. \A i \in DOMAIN r : i \in Nat /\ i > 0 /\ i + 1 \in DOMAIN q /\ r[i] = q[i + 1]
  BY SMTT(30), <1>1
<1>3. Increasing(r)
  <2> SUFFICES ASSUME NEW i \in DOMAIN r, NEW j \in DOMAIN r, i < j
               PROVE  r[i] < r[j]
    BY DEF Increasing
  <2>1. i + 1 < j + 1
    BY SMTT(30), <1>2
  <2> QED
    BY <1>2, <2>1 DEF Increasing
<1>4. \A i \in DOMAIN r : q[1] < r[i]
  <2> SUFFICES ASSUME NEW i \in DOMAIN r
               PROVE  q[1] < r[i]
    OBVIOUS
  <2>1. 1 < i + 1
    BY SMTT(30), <1>2
  <2> QED
    BY <1>1, <1>2, <2>1 DEF Increasing
<1>5. ASSUME NEW i \in DOMAIN q, i # 1
      PROVE  \E j \in DOMAIN r : r[j] = q[i]
  <2>1. i - 1 \in DOMAIN r /\ (i - 1) + 1 = i
    BY SMTT(30), <1>1, <1>5
  <2> QED
    BY <1>2, <2>1
<1>6. Named(q) = {q[1]} \cup Named(r)
  <2>1. Named(q) \subseteq {q[1]} \cup Named(r)
    BY SMTT(30), <1>5 DEF Named
  <2>2. {q[1]} \cup Named(r) \subseteq Named(q)
    BY SMTT(30), <1>1, <1>2 DEF Named
  <2> QED
    BY <2>1, <2>2
<1>7. \A m \in Named(r) : q[1] < m
  BY <1>4 DEF Named
<1> QED
  BY <1>1, <1>3, <1>6, <1>7 DEF r

LEMMA OneMessage ==
    ASSUME NEW n \in Nat
    PROVE  <<n>> \in Seq(Nat) /\ Named(<<n>>) = {n} /\ Increasing(<<n>>)
<1>1. <<n>> \in Seq(Nat) /\ DOMAIN <<n>> = {1} /\ <<n>>[1] = n
  BY SMTT(30)
<1>2. Named(<<n>>) = {n}
  BY <1>1 DEF Named
<1>3. Increasing(<<n>>)
  BY SMTT(30), <1>1 DEF Increasing
<1> QED
  BY <1>1, <1>2, <1>3

\* One queued message becomes the frame to write.
LEMMA TakeDelivery ==
    ASSUME HubInv, DeliveryInv, NEW c \in Conns, TryMessage(c), queue[c] # <<>>
    PROVE  DeliveryInv'
<1> DEFINE h == Head(queue[c])
           t == Notifications(<<h>>, FALSE)
<1>1. /\ pc[c] = "top" /\ pc' = [pc EXCEPT ![c] = "message"] /\ output' = [output EXCEPT ![c] = t]
      /\ queue' = [queue EXCEPT ![c] = Tail(queue[c])]
      /\ UNCHANGED <<subscribers, subs, log, written, dropped>>
  BY DEF TryMessage, hub, history, DeliveryInv, DeliveryType
<1>2. /\ queue[c] \in Seq(Nat) /\ written[c] \in Seq(Frame) /\ Sent(c) \in Seq(Frame)
      /\ log \in Seq(Publication) /\ Len(log) \in Nat
      /\ Named(queue[c]) \in SUBSET (1..Len(log))
      /\ Delivered(Sent(c), queue[c], Heard(c), c \in subscribers)
      /\ Silent(Sent(c), subs[c], Waiting(c), pc[c] = "batch")
  BY ConnFacts DEF DeliveryInv
<1>3. output[c] = <<>>
  BY <1>1 DEF DeliveryInv, ConnInv, Phase
<1>4. Increasing(queue[c])
  BY <1>2 DEF Delivered
<1>5. /\ Tail(queue[c]) \in Seq(Nat) /\ h \in Named(queue[c]) /\ Increasing(Tail(queue[c]))
      /\ \A m \in Named(Tail(queue[c])) : h < m
      /\ Named(queue[c]) = {h} \cup Named(Tail(queue[c]))
  BY <1>2, <1>4, TailParts
<1> HIDE DEF h
<1>6. h \in 1..Len(log) /\ <<h>> \in Seq(Nat) /\ Named(<<h>>) = {h} /\ Increasing(<<h>>)
  <2>1. h \in 1..Len(log)
    <3>1. h \in Named(queue[c]) /\ Named(queue[c]) \in SUBSET (1..Len(log))
      BY <1>2, <1>5
    <3> QED
      BY <3>1
  <2>2. h \in Nat
    BY SMTT(30), <1>2, <2>1
  <2> QED
    BY <2>1, <2>2, OneMessage
<1>9. /\ t \in Seq(Frame) /\ Messages(t) = {h} /\ InOrder(t) /\ DOMAIN t = 1..1
      /\ \A i \in DOMAIN t : t[i].kind = "message" /\ t[i].batch = FALSE
                             /\ t[i].channel \in {log[n].channel : n \in Named(<<h>>)}
  <2>1. Len(<<h>>) = 1
    OBVIOUS
  <2> QED
    BY <1>2, <1>6, <2>1, NotificationFrames
<1> HIDE DEF t
<1>10. DeliveryType'
  BY <1>1, <1>5, <1>9 DEF DeliveryInv, DeliveryType, Pcs
<1>11. ASSUME NEW d \in Conns, d # c
       PROVE  ConnInv(d)'
  BY <1>1, <1>11, SameConn DEF DeliveryInv, DeliveryType
<1>12. ConnInv(c)'
  <2>1. pc'[c] = "message" /\ output'[c] = t /\ queue'[c] = Tail(queue[c])
    BY <1>1 DEF DeliveryInv, DeliveryType
  <2>2. Sent(c)' = Sent(c) \o t /\ Heard(c)' = Heard(c)
    <3>1. Heard(c)' = Heard(c)
      BY <1>1 DEF Heard
    <3>2. written[c] \o <<>> = written[c]
      BY <1>2, <1>9, Joining
    <3>3. Sent(c) = written[c] /\ Sent(c)' = written[c] \o t
      BY <1>1, <1>3, <2>1, <3>2 DEF Sent
    <3> QED
      BY <3>1, <3>3
  <2>3. Delivered(Sent(c) \o t, Tail(queue[c]), Heard(c), c \in subscribers)
    BY <1>2, <1>5, <1>9, DeliverMore
  <2>4. Waiting(c)' \subseteq Waiting(c) /\ \A i \in DOMAIN t : t[i].channel \in Waiting(c)
    BY <1>1, <1>5, <1>6, <1>9, <2>1 DEF Waiting
  <2>5. QuietFrames(t) /\ (\A i \in DOMAIN t : ~LeftAt(t, i))
        /\ \A j \in MessageAt(t) : t[j].channel \in Waiting(c) /\ (FALSE => t[j].batch)
    BY <1>9, <2>4 DEF QuietFrames, LeftAt, MessageAt
  <2>6. Silent(Sent(c), subs[c], Waiting(c), FALSE)
    BY <1>1, <1>2 DEF Silent
  <2>7. Silent(Sent(c) \o t, subs[c], Waiting(c)', FALSE)
    BY <1>2, <1>9, <2>4, <2>5, <2>6, SilentMore
  <2>8. Delivered(Sent(c), queue[c], Heard(c), c \in subscribers)'
    BY <1>1, <2>1, <2>2, <2>3 DEF Delivered
  <2>9. Silent(Sent(c), subs[c], Waiting(c), pc[c] = "batch")'
    BY <1>1, <2>1, <2>2, <2>7 DEF Silent
  <2>10. t # <<>>
    BY SMTT(30), <1>9
  <2>11. Phase(c)'
    BY <2>1, <2>10 DEF Phase
  <2>12. RepliesFirst(t)
    BY <1>9 DEF RepliesFirst
  <2> QED
    BY <2>1, <2>8, <2>9, <2>11, <2>12 DEF ConnInv
<1> QED
  BY <1>10, <1>11, <1>12 DEF DeliveryInv

\* A frame reaches the socket; what was sent in all is the same.
LEMMA WriteDelivery ==
    ASSUME HubInv, DeliveryInv, NEW c \in Conns, Write(c)
    PROVE  DeliveryInv'
<1>1. /\ pc[c] \in {"message", "reply"}
      /\ written' = [written EXCEPT ![c] = Append(written[c], Head(output[c]))]
      /\ output' = [output EXCEPT ![c] = Tail(output[c])]
      /\ pc' = [pc EXCEPT ![c] = IF Len(output[c]) > 1 THEN pc[c]
                                 ELSE IF pc[c] = "message" THEN "decode" ELSE "top"]
      /\ UNCHANGED <<subscribers, subs, queue, log, dropped>>
  BY DEF Write, hub, DeliveryInv, DeliveryType
<1>2. written[c] \in Seq(Frame) /\ output[c] \in Seq(Frame) /\ output[c] # <<>> /\ ConnInv(c)
  BY <1>1 DEF DeliveryInv, DeliveryType, ConnInv, Phase
<1>3. /\ Append(written[c], Head(output[c])) \in Seq(Frame) /\ Tail(output[c]) \in Seq(Frame)
      /\ Append(written[c], Head(output[c])) \o Tail(output[c]) = Sent(c)
      /\ (Tail(output[c]) = <<>> <=> ~(Len(output[c]) > 1))
  BY <1>2, Moving DEF Sent
<1>4. DeliveryType'
  BY <1>1, <1>2, <1>3 DEF DeliveryInv, DeliveryType, Pcs
<1>5. ASSUME NEW d \in Conns, d # c
      PROVE  ConnInv(d)'
  BY <1>1, <1>5, SameConn DEF DeliveryInv, DeliveryType
<1>6. ConnInv(c)'
  <2>1. /\ written'[c] = Append(written[c], Head(output[c])) /\ output'[c] = Tail(output[c])
        /\ pc'[c] = IF Len(output[c]) > 1 THEN pc[c] ELSE IF pc[c] = "message" THEN "decode" ELSE "top"
    BY <1>1 DEF DeliveryInv, DeliveryType
  <2>2. Sent(c)' = Sent(c) /\ Heard(c)' = Heard(c) /\ Waiting(c)' = Waiting(c)
    BY <1>1, <1>3, <2>1 DEF Sent, Heard, Waiting
  <2>3. Delivered(Sent(c), queue[c], Heard(c), c \in subscribers)'
    BY <1>1, <1>2, <2>2 DEF ConnInv, Delivered
  <2>4. pc'[c] # "batch" /\ pc[c] # "batch" /\ pc'[c] # "new"
    BY SMTT(30), <1>1, <2>1
  <2>5. Silent(Sent(c), subs[c], Waiting(c), pc[c] = "batch")'
    BY <1>1, <1>2, <2>2, <2>4 DEF ConnInv, Silent
  <2>6. Phase(c)'
    <3>1. CASE Len(output[c]) > 1
      BY <1>1, <1>3, <2>1, <3>1 DEF Phase
    <3>2. CASE ~(Len(output[c]) > 1)
      <4>1. output'[c] = <<>> /\ pc'[c] \in {"decode", "top"}
        BY <1>1, <1>3, <2>1, <3>2
      <4> QED
        BY <4>1 DEF Phase
    <3> QED
      BY <3>1, <3>2
  <2>7. RepliesFirst(Tail(output[c]))
    <3>1. /\ Len(output[c]) \in Nat /\ DOMAIN Tail(output[c]) = 1..(Len(output[c]) - 1)
          /\ DOMAIN output[c] = 1..Len(output[c])
          /\ \A i \in DOMAIN Tail(output[c]) : Tail(output[c])[i] = output[c][i + 1]
      BY SMTT(30), <1>2
    <3>2. \A i \in DOMAIN Tail(output[c]) : i + 1 \in DOMAIN output[c]
      BY SMTT(30), <3>1
    <3> QED
      BY SMTT(30), <1>2, <3>1, <3>2 DEF ConnInv, RepliesFirst
  <2> QED
    BY <2>1, <2>3, <2>5, <2>6, <2>7 DEF ConnInv
<1> QED
  BY <1>4, <1>5, <1>6 DEF DeliveryInv

\* A publication, as it reaches each connection.
LEMMA PublishConn ==
    ASSUME HubInv, DeliveryType, NEW ch \in Channels, Publish(ch), dropped' = dropped,
           NEW d \in Conns, ConnInv(d)
    PROVE  /\ queue'[d] \in Seq(Nat)
           /\ Delivered(Sent(d), queue'[d], Heard(d)', d \in subscribers')
           /\ Silent(Sent(d), subs'[d], Waiting(d)', pc[d] = "batch")
           /\ d \notin subscribers => queue'[d] = queue[d] /\ Heard(d)' = Heard(d)
                                      /\ d \notin subscribers'
<1> DEFINE n == Len(log) + 1
           members == channels[ch] \cap subscribers
<1>1. /\ queue[d] \in Seq(Nat) /\ Sent(d) \in Seq(Frame) /\ Len(log) \in Nat
      /\ Heard(d) \in SUBSET (1..Len(log)) /\ Heard(d) \in SUBSET Nat
      /\ log \in Seq(Publication) /\ subs[d] \in SUBSET Channels
      /\ Named(queue[d]) \in SUBSET (1..Len(log))
      /\ Delivered(Sent(d), queue[d], Heard(d), d \in subscribers)
      /\ Silent(Sent(d), subs[d], Waiting(d), pc[d] = "batch")
  BY ConnFacts
<1>2. d \in members <=> ch \in subs[d]
  BY DEF HubInv, AbsentIsSilent, IndexConsistent
<1>3. /\ log' = Append(log, [channel |-> ch, audience |-> {c \in Conns : ch \in subs[c]}])
      /\ queue'[d] = IF d \in Accepting(members) THEN Append(queue[d], n) ELSE queue[d]
      /\ Remove(Overflowed(members))
  BY DEF Publish
<1>4. n \in Nat /\ n \notin 1..Len(log) /\ \A m \in 1..Len(log) : m < n
  BY SMTT(30), <1>1
<1>5. /\ Len(log') = n /\ log'[n].channel = ch /\ (d \in log'[n].audience <=> ch \in subs[d])
      /\ \A m \in 1..Len(log) : log'[m] = log[m]
  BY SMTT(30), <1>1, <1>3
<1>6. Heard(d)' = Heard(d) \cup (IF ch \in subs[d] THEN {n} ELSE {})
  <2>1. n \notin dropped[d]
    BY <1>4 DEF DeliveryType
  <2>2. 1..Len(log') = 1..Len(log) \cup {n}
    BY SMTT(30), <1>1, <1>5
  <2> HIDE DEF n
  <2> QED
    BY <1>5, <2>1, <2>2 DEF Heard
<1>7. \A m \in Heard(d) : m < n
  BY <1>1, <1>4
<1> HIDE DEF n, members
<1>8. CASE ch \notin subs[d]
  <2>1. d \notin Accepting(members) /\ d \notin Overflowed(members)
    BY <1>2, <1>8 DEF Accepting, Overflowed
  <2>2. queue'[d] = queue[d] /\ subs'[d] = subs[d] /\ (d \in subscribers' <=> d \in subscribers)
    BY <1>3, <2>1 DEF Remove
  <2>3. Heard(d)' = Heard(d) /\ Waiting(d)' = Waiting(d)
    BY <1>1, <1>5, <1>6, <1>8, <2>2 DEF Waiting
  <2>4. Delivered(Sent(d), queue'[d], Heard(d)', d \in subscribers')
    BY <1>1, <2>2, <2>3 DEF Delivered
  <2> QED
    BY <1>1, <2>2, <2>3, <2>4
<1>9. CASE ch \in subs[d] /\ d \in Accepting(members)
  <2>1. d \in subscribers /\ d \notin Overflowed(members)
    BY <1>9 DEF Accepting, Overflowed, members
  <2>2. queue'[d] = Append(queue[d], n) /\ subs'[d] = subs[d] /\ d \in subscribers'
    BY <1>3, <1>9, <2>1 DEF Remove
  <2>3. Heard(d)' = Heard(d) \cup {n}
    BY <1>6, <1>9
  <2>4. Named(queue'[d]) = Named(queue[d]) \cup {n}
    BY <1>1, <1>4, <2>2, NamedAppend
  <2>5. Waiting(d)' = Waiting(d) \cup {ch}
    <3>1. Waiting(d)' = {log'[m].channel : m \in Named(queue[d])} \cup {log'[n].channel}
      BY <2>4 DEF Waiting
    <3>2. \A m \in Named(queue[d]) : log'[m] = log[m]
      BY <1>1, <1>5
    <3> QED
      BY <1>5, <3>1, <3>2 DEF Waiting
  <2>6. Delivered(Sent(d), queue[d], Heard(d), TRUE)
    BY <1>1, <2>1 DEF Delivered
  <2>7. Delivered(Sent(d), Append(queue[d], n), Heard(d) \cup {n}, TRUE)
    BY <1>1, <1>4, <1>7, <2>6, DeliverNew
  <2>8. Delivered(Sent(d), queue'[d], Heard(d)', d \in subscribers')
    BY <2>2, <2>3, <2>7 DEF Delivered
  <2>9. Silent(Sent(d), subs'[d], Waiting(d)', pc[d] = "batch")
    BY <1>1, <1>9, <2>2, <2>5 DEF Silent
  <2>10. queue'[d] \in Seq(Nat)
    BY SMTT(30), <1>1, <1>4, <2>2
  <2> QED
    BY <2>1, <2>8, <2>9, <2>10
<1>10. CASE ch \in subs[d] /\ d \notin Accepting(members)
  <2>1. d \in subscribers /\ d \in Overflowed(members)
    BY <1>2, <1>10 DEF Overflowed, members
  <2>2. queue'[d] = queue[d] /\ subs'[d] = {} /\ d \notin subscribers'
    BY <1>3, <1>10, <2>1 DEF Remove
  <2>3. Heard(d)' = Heard(d) \cup {n} /\ Waiting(d)' = Waiting(d)
    BY SMTT(30), <1>1, <1>5, <1>6, <1>10, <2>2 DEF Waiting
  <2>4. Delivered(Sent(d), queue[d], Heard(d), TRUE)
    BY <1>1, <2>1 DEF Delivered
  <2>5. Delivered(Sent(d), queue[d], Heard(d) \cup {n}, FALSE)
    BY <1>1, <1>4, <1>7, <2>4, DeliverNew
  <2>6. Delivered(Sent(d), queue'[d], Heard(d)', d \in subscribers')
    BY <2>2, <2>3, <2>5 DEF Delivered
  <2>7. Silent(Sent(d), subs'[d], Waiting(d)', pc[d] = "batch")
    BY <1>1, <2>2, <2>3 DEF Silent
  <2> QED
    BY <1>1, <2>1, <2>2, <2>6, <2>7
<1> QED
  BY <1>8, <1>9, <1>10

LEMMA PublishType ==
    ASSUME HubInv, DeliveryInv, NEW ch \in Channels, Publish(ch), dropped' = dropped
    PROVE  /\ queue' \in [Conns -> Seq(Nat)] /\ log' \in Seq(Publication)
           /\ dropped' \in [Conns -> SUBSET (1..Len(log'))]
<1>1. log \in Seq(Publication) /\ Len(log) \in Nat
      /\ log' = Append(log, [channel |-> ch, audience |-> {c \in Conns : ch \in subs[c]}])
  BY SMTT(30) DEF Publish, DeliveryInv, DeliveryType
<1>2. [channel |-> ch, audience |-> {c \in Conns : ch \in subs[c]}] \in Publication
  BY DEF Publication
<1>3. log' \in Seq(Publication) /\ Len(log') = Len(log) + 1
  BY SMTT(30), <1>1, <1>2
<1>4. 1..Len(log) \subseteq 1..Len(log')
  BY SMTT(30), <1>1, <1>3
<1>5. \A d \in Conns : queue'[d] \in Seq(Nat)
  BY PublishConn DEF DeliveryInv
<1>6. queue' = [d \in Conns |-> queue'[d]]
  BY DEF Publish
<1>7. queue' \in [Conns -> Seq(Nat)]
  BY <1>5, <1>6
<1> QED
  BY <1>3, <1>4, <1>7 DEF DeliveryInv, DeliveryType

\* A plain reply, with nothing else changed.
LEMMA ReplyDelivery ==
    ASSUME HubInv, DeliveryInv, NEW c \in Conns, NEW b \in BOOLEAN, pc[c] \in {"decode", "exec"},
           pc' = [pc EXCEPT ![c] = "reply"], output' = [output EXCEPT ![c] = <<Reply(b)>>],
           UNCHANGED <<subscribers, subs, queue, log, written, dropped>>
    PROVE  DeliveryInv'
<1> DEFINE t == <<Reply(b)>>
<1>1. /\ t \in Seq(Frame) /\ t # <<>> /\ MessageAt(t) = {}
      /\ \A i \in DOMAIN t : t[i].kind = "reply"
  BY OneReply
<1>2. output' = [output EXCEPT ![c] = t]
  OBVIOUS
<1> HIDE DEF t
<1>3. DeliveryType'
  BY <1>1, <1>2 DEF DeliveryInv, DeliveryType, Pcs
<1>4. ASSUME NEW d \in Conns, d # c
      PROVE  ConnInv(d)'
  BY <1>4, SameConn DEF DeliveryInv, DeliveryType
<1>5. ConnInv(c)'
  <2>1. pc'[c] = "reply" /\ output'[c] = t
    BY <1>2 DEF DeliveryInv, DeliveryType
  <2>2. /\ queue[c] \in Seq(Nat) /\ written[c] \in Seq(Frame) /\ Sent(c) \in Seq(Frame)
        /\ Delivered(Sent(c), queue[c], Heard(c), c \in subscribers)
        /\ Silent(Sent(c), subs[c], Waiting(c), pc[c] = "batch")
    BY ConnFacts DEF DeliveryInv
  <2>3. output[c] = <<>>
    BY DEF DeliveryInv, ConnInv, Phase
  <2>4. Sent(c)' = Sent(c) \o t /\ Heard(c)' = Heard(c) /\ Waiting(c)' = Waiting(c)
    <3>1. Heard(c)' = Heard(c) /\ Waiting(c)' = Waiting(c)
      BY DEF Heard, Waiting
    <3>2. Sent(c) = written[c]
      BY <2>2, <2>3, Joining DEF Sent
    <3>3. Sent(c)' = written[c] \o t
      BY <2>1 DEF Sent
    <3> QED
      BY <3>1, <3>2, <3>3
  <2>5. Delivered(Sent(c) \o t, queue[c], Heard(c), c \in subscribers)
    BY <1>1, <2>2, AddReplies
  <2>6. Silent(Sent(c), subs[c], Waiting(c), FALSE)
    BY <2>2 DEF Silent
  <2>7. \A i \in DOMAIN t : t[i].kind # "unsubscribe"
    BY <1>1
  <2>8. Silent(Sent(c) \o t, subs[c], Waiting(c), FALSE)
    BY <1>1, <2>2, <2>6, <2>7, AddRepliesSilent
  <2>9. Delivered(Sent(c), queue[c], Heard(c), c \in subscribers)'
    BY <2>4, <2>5 DEF Delivered
  <2>10. Silent(Sent(c), subs[c], Waiting(c), pc[c] = "batch")'
    BY <2>1, <2>4, <2>8 DEF Silent
  <2>11. Phase(c)'
    BY <1>1, <2>1 DEF Phase
  <2>12. RepliesFirst(t)
    BY <1>1 DEF RepliesFirst
  <2> QED
    BY <2>1, <2>9, <2>10, <2>11, <2>12 DEF ConnInv
<1> QED
  BY <1>3, <1>4, <1>5 DEF DeliveryInv

\* Confirmations t, after which the connection's channels are S.
Confirming(t, joined, S) ==
    /\ t \in Seq(Frame) /\ t # <<>> /\ MessageAt(t) = {}
    /\ S \subseteq joined \cup SubscribedIn(t)
    /\ \A i \in DOMAIN t : t[i].kind = "unsubscribe" => t[i].channel \notin S

ConfirmStep(c, t, S) ==
    /\ pc[c] = "decode" /\ pc' = [pc EXCEPT ![c] = "reply"]
    /\ subs' = [subs EXCEPT ![c] = S] /\ queue' = [queue EXCEPT ![c] = <<>>]
    /\ output' = [output EXCEPT ![c] = Notifications(queue[c], FALSE) \o t]
    /\ UNCHANGED <<subscribers, log, written, dropped>>

\* The queue is drained and the confirmations follow it.
LEMMA ConfirmDelivery ==
    ASSUME HubInv, DeliveryInv, NEW c \in Conns, NEW t, NEW S, Confirming(t, subs[c], S),
           \A i \in DOMAIN t : ~t[i].batch, ConfirmStep(c, t, S)
    PROVE  DeliveryInv'
<1> DEFINE m == Notifications(queue[c], FALSE)
           f == m \o t
<1>1. /\ queue[c] \in Seq(Nat) /\ written[c] \in Seq(Frame) /\ Sent(c) \in Seq(Frame)
      /\ log \in Seq(Publication) /\ Named(queue[c]) \in SUBSET (1..Len(log))
      /\ Delivered(Sent(c), queue[c], Heard(c), c \in subscribers)
      /\ Silent(Sent(c), subs[c], Waiting(c), pc[c] = "batch")
  BY ConnFacts DEF DeliveryInv
<1>2. m \in Seq(Frame) /\ \A i \in DOMAIN m : ~m[i].batch
  BY <1>1, NotificationFrames
<1>3. Delivered(Sent(c) \o m, <<>>, Heard(c), c \in subscribers)
  BY <1>1, AddQueue
<1>4. Silent(Sent(c), subs[c], {log[n].channel : n \in Named(queue[c])}, FALSE)
  BY <1>1 DEF Silent, Waiting, ConfirmStep
<1>5. Silent(Sent(c) \o m, subs[c], {}, FALSE)
  BY <1>1, <1>4, AddQueueSilent
<1>6. /\ pc[c] = "decode" /\ pc' = [pc EXCEPT ![c] = "reply"] /\ subs' = [subs EXCEPT ![c] = S]
      /\ queue' = [queue EXCEPT ![c] = <<>>] /\ output' = [output EXCEPT ![c] = f]
      /\ UNCHANGED <<subscribers, log, written, dropped>>
  BY DEF ConfirmStep
<1> HIDE DEF m
<1>7. t \in Seq(Frame) /\ t # <<>> /\ MessageAt(t) = {}
  BY DEF Confirming
<1>8. f \in Seq(Frame) /\ f # <<>> /\ written[c] \o f = (written[c] \o m) \o t
  <2> DEFINE w == written[c]
  <2>1. w \in Seq(Frame) /\ m \in Seq(Frame) /\ t \in Seq(Frame) /\ t # <<>>
    BY <1>1, <1>2, <1>7
  <2> HIDE DEF w
  <2>2. m \o t \in Seq(Frame) /\ m \o t # <<>> /\ w \o (m \o t) = (w \o m) \o t
    BY SMTT(30), <2>1, Joining
  <2> QED
    BY <2>2 DEF w
<1>9. RepliesFirst(f)
  <2>1. \A i \in DOMAIN f : ~f[i].batch
    BY SMTT(30), <1>2, <1>7, ConcatParts
  <2> QED
    BY <2>1 DEF RepliesFirst
<1> HIDE DEF f
<1>10. DeliveryType'
  BY SMTT(30), <1>6, <1>8 DEF DeliveryInv, DeliveryType, Pcs
<1>11. ASSUME NEW d \in Conns, d # c
       PROVE  ConnInv(d)'
  BY <1>6, <1>11, SameConn DEF DeliveryInv, DeliveryType, HubInv, HubType
<1>12. ConnInv(c)'
  <2>1. pc'[c] = "reply" /\ output'[c] = f /\ queue'[c] = <<>> /\ subs'[c] = S
    BY <1>6 DEF DeliveryInv, DeliveryType, HubInv, HubType
  <2>2. output[c] = <<>>
    BY <1>6 DEF DeliveryInv, ConnInv, Phase
  <2>3. Sent(c) = written[c] /\ Sent(c) \o m \in Seq(Frame)
    BY SMTT(30), <1>1, <1>2, <2>2 DEF Sent
  <2>4. Sent(c)' = (Sent(c) \o m) \o t
    BY <1>6, <1>8, <2>1, <2>3 DEF Sent
  <2>5. Heard(c)' = Heard(c) /\ Waiting(c)' = {}
    BY SMTT(30), <1>6, <2>1 DEF Heard, Waiting, Named
  <2>6. <<>> \in Seq(Nat)
    BY SMTT(30)
  <2>7. Delivered((Sent(c) \o m) \o t, <<>>, Heard(c), c \in subscribers)
    BY <1>3, <1>7, <2>3, <2>6, AddReplies
  <2>8. Silent((Sent(c) \o m) \o t, S, {}, FALSE)
    BY <1>5, <1>7, <2>3, AddRepliesSilent DEF Confirming
  <2>9. Delivered(Sent(c), queue[c], Heard(c), c \in subscribers)'
    BY <1>6, <2>1, <2>4, <2>5, <2>7 DEF Delivered
  <2>10. Silent(Sent(c), subs[c], Waiting(c), pc[c] = "batch")'
    BY <2>1, <2>4, <2>5, <2>8 DEF Silent
  <2>11. Phase(c)'
    BY <1>8, <2>1 DEF Phase
  <2> QED
    BY <1>9, <2>1, <2>9, <2>10, <2>11 DEF ConnInv
<1> QED
  BY <1>10, <1>11, <1>12 DEF DeliveryInv

\* The publisher's reply, on its own or in a batch.
PublishReply(c, b, p) ==
    /\ \/ pc[c] = "decode" /\ p = "reply" /\ output' = [output EXCEPT ![c] = <<Reply(b)>>]
       \/ pc[c] = "batch" /\ p = "batch" /\ output' = [output EXCEPT ![c] = @ \o <<Reply(b)>>]
    /\ pc' = [pc EXCEPT ![c] = p] /\ UNCHANGED <<written, dropped>>

\* PUBLISH: its effect on every queue, and the reply to the publisher.
LEMMA PublishDelivery ==
    ASSUME HubInv, DeliveryInv, NEW c \in Conns, NEW ch \in Channels, Publish(ch),
           NEW b \in BOOLEAN, NEW p, PublishReply(c, b, p)
    PROVE  DeliveryInv'
<1> DEFINE t == <<Reply(b)>>
           frames == IF pc[c] = "decode" THEN t ELSE output[c] \o t
<1>1. /\ t \in Seq(Frame) /\ t # <<>> /\ MessageAt(t) = {}
      /\ \A i \in DOMAIN t : t[i].kind = "reply"
  BY OneReply
<1>2. pc' = [pc EXCEPT ![c] = p] /\ UNCHANGED <<written, dropped>>
      /\ ((pc[c] = "decode" /\ p = "reply") \/ (pc[c] = "batch" /\ p = "batch"))
  BY DEF PublishReply
<1>3. output' = [output EXCEPT ![c] = frames]
  <2>1. CASE pc[c] = "decode"
    BY <2>1 DEF PublishReply
  <2>2. CASE pc[c] = "batch"
    BY <2>2 DEF PublishReply
  <2> QED
    BY <1>2, <2>1, <2>2
<1> HIDE DEF t
<1>4. frames \in Seq(Frame) /\ MessageAt(frames) = {} /\ frames # <<>>
      /\ written[c] \o frames = Sent(c) \o t /\ Sent(c) \in Seq(Frame)
  <2>1. output[c] \in Seq(Frame) /\ written[c] \in Seq(Frame) /\ Sent(c) \in Seq(Frame)
    BY ConnFacts DEF DeliveryInv
  <2>2. CASE pc[c] = "decode"
    <3>1. frames = t /\ output[c] = <<>>
      BY <2>2 DEF DeliveryInv, ConnInv, Phase
    <3>2. Sent(c) = written[c]
      BY SMTT(30), <2>1, <3>1 DEF Sent
    <3> QED
      BY <1>1, <2>1, <3>1, <3>2
  <2>3. CASE pc[c] = "batch"
    <3>1. frames = output[c] \o t /\ MessageAt(output[c]) = {}
      BY <2>3 DEF DeliveryInv, ConnInv, Phase
    <3> HIDE DEF frames
    <3> DEFINE w == written[c]
               o == output[c]
    <3>2. w \in Seq(Frame) /\ o \in Seq(Frame) /\ MessageAt(o) = {}
      BY <2>1, <3>1
    <3> HIDE DEF w, o
    <3>3. o \o t \in Seq(Frame) /\ o \o t # <<>> /\ MessageAt(o \o t) = {}
          /\ w \o (o \o t) = (w \o o) \o t
      BY SMTT(30), <1>1, <3>2, Collecting
    <3> QED
      BY <2>1, <3>1, <3>3 DEF Sent, w, o
  <2> QED
    BY <1>2, <2>2, <2>3
<1> HIDE DEF frames
<1>5. DeliveryType'
  <2>1. /\ queue' \in [Conns -> Seq(Nat)] /\ log' \in Seq(Publication)
        /\ dropped' \in [Conns -> SUBSET (1..Len(log'))]
    BY <1>2, PublishType
  <2> QED
    BY <1>2, <1>3, <1>4, <2>1 DEF DeliveryInv, DeliveryType, Pcs
<1>6. ASSUME NEW d \in Conns
      PROVE  /\ queue'[d] \in Seq(Nat)
             /\ Delivered(Sent(d), queue'[d], Heard(d)', d \in subscribers')
             /\ Silent(Sent(d), subs'[d], Waiting(d)', pc[d] = "batch")
             /\ d \notin subscribers => queue'[d] = queue[d] /\ Heard(d)' = Heard(d)
                                        /\ d \notin subscribers'
  BY <1>2, PublishConn DEF DeliveryInv
<1>7. ASSUME NEW d \in Conns, d # c
      PROVE  ConnInv(d)'
  <2>1. output'[d] = output[d] /\ written'[d] = written[d] /\ pc'[d] = pc[d] /\ Sent(d)' = Sent(d)
    BY <1>2, <1>3, <1>7 DEF DeliveryInv, DeliveryType, Sent
  <2>2. ConnInv(d)
    BY DEF DeliveryInv
  <2>3. Phase(d)'
    BY <1>6, <2>1, <2>2 DEF ConnInv, Phase
  <2>4. Delivered(Sent(d), queue[d], Heard(d), d \in subscribers)'
    BY <1>6, <2>1
  <2>5. Silent(Sent(d), subs[d], Waiting(d), pc[d] = "batch")'
    BY <1>6, <2>1
  <2> QED
    BY <2>1, <2>2, <2>3, <2>4, <2>5 DEF ConnInv
<1>8. ConnInv(c)'
  <2>1. pc'[c] = p /\ output'[c] = frames /\ Sent(c)' = Sent(c) \o t
    BY <1>2, <1>3, <1>4 DEF DeliveryInv, DeliveryType, Sent
  <2>2. Delivered(Sent(c) \o t, queue'[c], Heard(c)', c \in subscribers')
    BY <1>1, <1>4, <1>6, AddReplies
  <2>3. \A i \in DOMAIN t : t[i].kind # "unsubscribe"
    BY <1>1
  <2>4. (pc[c] = "batch") = (p = "batch")
    BY <1>2
  <2>5. Silent(Sent(c), subs'[c], Waiting(c)', p = "batch")
    BY <1>6, <2>4 DEF Silent
  <2>6. Silent(Sent(c) \o t, subs'[c], Waiting(c)', p = "batch")
    BY <1>1, <1>4, <2>3, <2>5, AddRepliesSilent
  <2>7. Phase(c)'
    BY <1>2, <1>4, <2>1 DEF Phase
  <2>8. RepliesFirst(frames)
    BY <1>4 DEF RepliesFirst, MessageAt
  <2> QED
    BY <2>1, <2>2, <2>6, <2>7, <2>8 DEF ConnInv
<1> QED
  BY <1>5, <1>7, <1>8 DEF DeliveryInv

BatchStep(c, t, S) ==
    /\ pc[c] = "batch" /\ subs' = [subs EXCEPT ![c] = S]
    /\ output' = [output EXCEPT ![c] = @ \o t]
    /\ UNCHANGED <<subscribers, queue, pc, log, written, dropped>>

\* A command of a batch adds its replies; the queue is left as it is.
LEMMA BatchDelivery ==
    ASSUME HubInv, DeliveryInv, NEW c \in Conns, NEW t, NEW S, Confirming(t, subs[c], S),
           \A i \in DOMAIN t : t[i].batch, BatchStep(c, t, S)
    PROVE  DeliveryInv'
<1> DEFINE o == output[c]
           w == written[c]
           f == o \o t
<1>1. /\ queue[c] \in Seq(Nat) /\ w \in Seq(Frame) /\ o \in Seq(Frame) /\ Sent(c) \in Seq(Frame)
      /\ Delivered(Sent(c), queue[c], Heard(c), c \in subscribers)
      /\ Silent(Sent(c), subs[c], Waiting(c), pc[c] = "batch")
  BY ConnFacts DEF DeliveryInv
<1>2. /\ pc[c] = "batch" /\ subs' = [subs EXCEPT ![c] = S] /\ output' = [output EXCEPT ![c] = f]
      /\ UNCHANGED <<subscribers, queue, pc, log, written, dropped>>
  BY DEF BatchStep
<1>3. t \in Seq(Frame) /\ t # <<>> /\ MessageAt(t) = {}
  BY DEF Confirming
<1>4. MessageAt(o) = {} /\ Sent(c) = w \o o
  BY <1>2 DEF DeliveryInv, ConnInv, Phase, Sent
<1> HIDE DEF o, w
<1>5. f \in Seq(Frame) /\ MessageAt(f) = {} /\ w \o f = (w \o o) \o t
  <2>1. w \in Seq(Frame) /\ o \in Seq(Frame) /\ MessageAt(o) = {}
    BY <1>1, <1>4
  <2> QED
    BY SMTT(30), <1>3, <2>1, Collecting
<1> HIDE DEF f
<1>6. DeliveryType'
  BY <1>2, <1>5 DEF DeliveryInv, DeliveryType
<1>7. ASSUME NEW d \in Conns, d # c
      PROVE  ConnInv(d)'
  BY <1>2, <1>7, SameConn DEF DeliveryInv, DeliveryType, HubInv, HubType
<1>8. ConnInv(c)'
  <2>1. output'[c] = f /\ subs'[c] = S /\ pc'[c] = "batch" /\ written'[c] = w
    BY <1>2 DEF DeliveryInv, DeliveryType, HubInv, HubType, w
  <2>2. Sent(c)' = Sent(c) \o t
    BY <1>4, <1>5, <2>1 DEF Sent
  <2>3. Heard(c)' = Heard(c) /\ Waiting(c)' = Waiting(c)
    BY <1>2 DEF Heard, Waiting
  <2>4. Delivered(Sent(c) \o t, queue[c], Heard(c), c \in subscribers)
    BY <1>1, <1>3, AddReplies
  <2>5. Silent(Sent(c), subs[c], Waiting(c), TRUE)
    BY <1>1, <1>2 DEF Silent
  <2>6. Silent(Sent(c) \o t, S, Waiting(c), TRUE)
    BY <1>1, <1>3, <2>5, AddRepliesSilent DEF Confirming
  <2>7. Delivered(Sent(c), queue[c], Heard(c), c \in subscribers)'
    BY <1>2, <2>2, <2>3, <2>4 DEF Delivered
  <2>8. Silent(Sent(c), subs[c], Waiting(c), pc[c] = "batch")'
    BY <2>1, <2>2, <2>3, <2>6 DEF Silent
  <2>9. Phase(c)'
    BY <1>5, <2>1 DEF Phase
  <2>10. RepliesFirst(f)
    BY <1>5 DEF RepliesFirst, MessageAt
  <2> QED
    BY <2>1, <2>7, <2>8, <2>9, <2>10 DEF ConnInv
<1> QED
  BY <1>6, <1>7, <1>8 DEF DeliveryInv

\* The messages that arrived follow the replies of the batch.
LEMMA FinishDelivery ==
    ASSUME HubInv, DeliveryInv, NEW c \in Conns, FinishExec(c)
    PROVE  DeliveryInv'
<1> DEFINE o == output[c]
           w == written[c]
           m == Notifications(queue[c], TRUE)
           f == o \o m
<1>1. /\ queue[c] \in Seq(Nat) /\ w \in Seq(Frame) /\ o \in Seq(Frame) /\ Sent(c) \in Seq(Frame)
      /\ log \in Seq(Publication) /\ Named(queue[c]) \in SUBSET (1..Len(log))
      /\ Delivered(Sent(c), queue[c], Heard(c), c \in subscribers)
      /\ Silent(Sent(c), subs[c], Waiting(c), pc[c] = "batch")
  BY ConnFacts DEF DeliveryInv
<1>2. /\ pc[c] = "batch" /\ output' = [output EXCEPT ![c] = f] /\ queue' = [queue EXCEPT ![c] = <<>>]
      /\ pc' = [pc EXCEPT ![c] = IF output'[c] = <<>> THEN "top" ELSE "reply"]
      /\ UNCHANGED <<subscribers, subs, log, written, dropped>>
  BY DEF FinishExec, ExecFrames, hub, history
<1>3. m \in Seq(Frame) /\ \A i \in DOMAIN m : m[i].kind = "message"
  BY <1>1, NotificationFrames
<1>4. Delivered(Sent(c) \o m, <<>>, Heard(c), c \in subscribers)
  BY <1>1, AddQueue
<1>5. Silent(Sent(c), subs[c], {log[n].channel : n \in Named(queue[c])}, TRUE)
  BY <1>1, <1>2 DEF Silent, Waiting
<1>6. Silent(Sent(c) \o m, subs[c], {}, FALSE)
  BY <1>1, <1>5, AddQueueSilent
<1>7. MessageAt(o) = {} /\ Sent(c) = w \o o
  BY <1>2 DEF DeliveryInv, ConnInv, Phase, Sent
<1> HIDE DEF o, w, m
<1>8. f \in Seq(Frame) /\ w \o f = (w \o o) \o m
  BY SMTT(30), <1>1, <1>3, Joining
<1>9. RepliesFirst(f)
  <2>1. /\ Len(o) \in Nat /\ DOMAIN o = 1..Len(o) /\ DOMAIN m = 1..Len(m) /\ Len(m) \in Nat
        /\ \A i \in DOMAIN o : f[i] = o[i]
        /\ \A k \in DOMAIN f : k \in DOMAIN o \/ \E i \in DOMAIN m : k = Len(o) + i /\ f[k] = m[i]
    BY SMTT(30), <1>1, <1>3, ConcatParts
  <2> SUFFICES ASSUME NEW i \in DOMAIN f, NEW j \in DOMAIN f, i < j, f[i].kind = "message"
               PROVE  f[j].kind = "message"
    BY DEF RepliesFirst
  <2>2. i \notin DOMAIN o
    BY <1>7, <2>1 DEF MessageAt
  <2>3. PICK k \in DOMAIN m : i = Len(o) + k
    BY <2>1, <2>2
  <2>4. j \notin DOMAIN o
    BY SMTT(30), <2>1, <2>3
  <2> HIDE DEF f
  <2> QED
    BY <1>3, <2>1, <2>4
<1> HIDE DEF f
<1>10. output'[c] = f /\ pc'[c] \in {"top", "reply"} /\ (pc'[c] = "top" <=> f = <<>>)
       /\ queue'[c] = <<>> /\ written'[c] = w
  BY <1>2 DEF DeliveryInv, DeliveryType, w
<1>11. DeliveryType'
  BY SMTT(30), <1>2, <1>8, <1>10 DEF DeliveryInv, DeliveryType, Pcs
<1>12. ASSUME NEW d \in Conns, d # c
       PROVE  ConnInv(d)'
  BY <1>2, <1>12, SameConn DEF DeliveryInv, DeliveryType
<1>13. ConnInv(c)'
  <2>1. Sent(c)' = Sent(c) \o m
    BY <1>7, <1>8, <1>10 DEF Sent
  <2>2. Heard(c)' = Heard(c) /\ Waiting(c)' = {}
    BY SMTT(30), <1>2, <1>10 DEF Heard, Waiting, Named
  <2>3. Delivered(Sent(c), queue[c], Heard(c), c \in subscribers)'
    BY <1>2, <1>4, <1>10, <2>1, <2>2 DEF Delivered
  <2>4. Silent(Sent(c), subs[c], Waiting(c), pc[c] = "batch")'
    BY <1>2, <1>6, <1>10, <2>1, <2>2 DEF Silent
  <2>5. Phase(c)'
    BY <1>10 DEF Phase
  <2> QED
    BY <1>9, <1>10, <2>3, <2>4, <2>5 DEF ConnInv
<1> QED
  BY <1>11, <1>12, <1>13 DEF DeliveryInv

\* A change of policy withdraws messages and leaves channels.
LEMMA RevalidateDelivery ==
    ASSUME HubInv, DeliveryInv, NEW c \in Conns, NEW allowed \in SUBSET Channels, Revalidate(c, allowed)
    PROVE  DeliveryInv'
<1> DEFINE q == queue[c]
           K == {n \in Named(q) : log[n].channel \in allowed}
           rest == IF Closed(c) THEN <<>> ELSE Only(q, K)
<1>1. /\ q \in Seq(Nat) /\ Sent(c) \in Seq(Frame) /\ Len(log) \in Nat
      /\ Heard(c) \in SUBSET Nat /\ Named(q) \subseteq Heard(c) /\ Named(q) \in SUBSET (1..Len(log))
      /\ Delivered(Sent(c), q, Heard(c), c \in subscribers)
      /\ Silent(Sent(c), subs[c], Waiting(c), pc[c] = "batch")
  BY ConnFacts DEF DeliveryInv
<1>2. /\ pc[c] \in {"top", "waiting"} /\ pc' = [pc EXCEPT ![c] = "top"]
      /\ queue' = [queue EXCEPT ![c] = rest]
      /\ dropped' = [dropped EXCEPT ![c] = @ \cup {n \in Named(q) : log[n].channel \notin allowed}]
      /\ UNCHANGED <<output, log, written>>
  BY DEF Revalidate, Retained
<1>3. /\ subscribers' = subscribers /\ subs'[c] \subseteq subs[c]
      /\ \A d \in Conns : d # c => subs'[d] = subs[d]
  <2>1. CASE Closed(c)
    BY <2>1 DEF Revalidate, hub
  <2>2. CASE ~Closed(c)
    BY <2>2 DEF Revalidate, Leave, HubInv, HubType
  <2> QED
    BY <2>1, <2>2
<1>4. {n \in Named(q) : log[n].channel \notin allowed} = Named(q) \ K
  OBVIOUS
<1>5. /\ Only(q, K) \in Seq(Nat) /\ Named(Only(q, K)) = Named(q) \cap K
  BY <1>1, OnlyKeeps
<1>6. /\ Delivered(Sent(c), Only(q, K), Heard(c) \ (Named(q) \ K), c \in subscribers)
      /\ Delivered(Sent(c), <<>>, Heard(c) \ (Named(q) \ K), FALSE)
  BY <1>1, DeliverRetained
<1> HIDE DEF K
<1>7. Named(<<>>) = {} /\ <<>> \in Seq(Nat)
  BY SMTT(30) DEF Named
<1>8. rest \in Seq(Nat) /\ Named(rest) \subseteq Named(q)
      /\ Delivered(Sent(c), rest, Heard(c) \ (Named(q) \ K), c \in subscribers)
  <2>1. CASE Closed(c)
    BY <1>6, <1>7, <2>1 DEF Closed, Delivered
  <2>2. CASE ~Closed(c)
    BY <1>5, <1>6, <2>2
  <2> QED
    BY <2>1, <2>2
<1> HIDE DEF rest, q
<1>9. DeliveryType'
  <2>1. dropped'[c] \in SUBSET (1..Len(log)) /\ \A d \in Conns : d # c => dropped'[d] = dropped[d]
    BY <1>1, <1>2 DEF DeliveryInv, DeliveryType
  <2>2. dropped' \in [Conns -> SUBSET (1..Len(log))]
    BY <1>2, <2>1 DEF DeliveryInv, DeliveryType
  <2> QED
    BY <1>2, <1>8, <2>2 DEF DeliveryInv, DeliveryType, Pcs
<1>10. ASSUME NEW d \in Conns, d # c
       PROVE  ConnInv(d)'
  <2>1. /\ log' = log /\ queue'[d] = queue[d] /\ output'[d] = output[d] /\ written'[d] = written[d]
        /\ dropped'[d] = dropped[d] /\ subs'[d] = subs[d] /\ pc'[d] = pc[d]
        /\ (d \in subscribers' <=> d \in subscribers)
    BY <1>2, <1>3, <1>10 DEF DeliveryInv, DeliveryType
  <2> QED
    BY <2>1, SameConn DEF DeliveryInv
<1>11. ConnInv(c)'
  <2>1. /\ queue'[c] = rest /\ pc'[c] = "top" /\ output'[c] = output[c]
        /\ dropped'[c] = dropped[c] \cup (Named(q) \ K)
    BY <1>2, <1>4 DEF DeliveryInv, DeliveryType
  <2>2. Sent(c)' = Sent(c)
    BY <1>2 DEF Sent
  <2>3. Heard(c)' = Heard(c) \ (Named(q) \ K)
    BY <1>2, <2>1 DEF Heard
  <2>4. Waiting(c)' \subseteq Waiting(c)
    BY <1>2, <1>8, <2>1 DEF Waiting, q
  <2>5. output[c] = <<>>
    BY <1>2 DEF DeliveryInv, ConnInv, Phase
  <2>6. Delivered(Sent(c), queue[c], Heard(c), c \in subscribers)'
    BY <1>3, <1>8, <2>1, <2>2, <2>3 DEF Delivered
  <2>7. Silent(Sent(c), subs[c], Waiting(c), pc[c] = "batch")'
    BY <1>1, <1>2, <1>3, <2>1, <2>2, <2>4 DEF Silent
  <2>8. Phase(c)' /\ RepliesFirst(output[c])'
    BY SMTT(30), <2>1, <2>5 DEF Phase, RepliesFirst
  <2> QED
    BY <2>6, <2>7, <2>8 DEF ConnInv
<1> QED
  BY <1>9, <1>10, <1>11 DEF DeliveryInv

\* A fresh registration replaces the old one.
LEMMA ReconnectDelivery ==
    ASSUME HubInv, DeliveryInv, NEW c \in Conns, Reconnect(c)
    PROVE  DeliveryInv'
<1> DEFINE gone == {n \in 1..Len(log) : c \in log[n].audience /\ n \notin Messages(written[c])}
<1>1. /\ queue[c] \in Seq(Nat) /\ written[c] \in Seq(Frame) /\ Sent(c) \in Seq(Frame)
      /\ Delivered(Sent(c), queue[c], Heard(c), c \in subscribers)
      /\ Silent(Sent(c), subs[c], Waiting(c), pc[c] = "batch")
  BY ConnFacts DEF DeliveryInv
<1>2. /\ pc[c] \in {"top", "waiting"} /\ pc' = [pc EXCEPT ![c] = "top"]
      /\ queue' = [queue EXCEPT ![c] = <<>>] /\ subs' = [subs EXCEPT ![c] = {}]
      /\ subscribers' = subscribers \cup {c}
      /\ dropped' = [dropped EXCEPT ![c] = @ \cup gone]
      /\ UNCHANGED <<output, log, written>>
  BY DEF Reconnect
<1>3. gone \in SUBSET (1..Len(log))
  OBVIOUS
<1>4. Heard(c) \ gone = Heard(c) \cap Messages(written[c])
  BY DEF Heard
<1> HIDE DEF gone
<1>5. DeliveryType'
  <2>1. <<>> \in Seq(Nat)
    BY SMTT(30)
  <2>2. dropped' \in [Conns -> SUBSET (1..Len(log))]
    BY <1>2, <1>3 DEF DeliveryInv, DeliveryType
  <2> QED
    BY <1>2, <2>1, <2>2 DEF DeliveryInv, DeliveryType, Pcs
<1>6. ASSUME NEW d \in Conns, d # c
      PROVE  ConnInv(d)'
  <2>1. /\ log' = log /\ queue'[d] = queue[d] /\ output'[d] = output[d] /\ written'[d] = written[d]
        /\ dropped'[d] = dropped[d] /\ subs'[d] = subs[d] /\ pc'[d] = pc[d]
        /\ (d \in subscribers' <=> d \in subscribers)
    BY <1>2, <1>6 DEF DeliveryInv, DeliveryType, HubInv, HubType
  <2> QED
    BY <2>1, SameConn DEF DeliveryInv
<1>7. ConnInv(c)'
  <2>1. /\ queue'[c] = <<>> /\ pc'[c] = "top" /\ output'[c] = output[c] /\ subs'[c] = {}
        /\ dropped'[c] = dropped[c] \cup gone /\ c \in subscribers'
    BY <1>2 DEF DeliveryInv, DeliveryType, HubInv, HubType
  <2>2. output[c] = <<>>
    BY <1>2 DEF DeliveryInv, ConnInv, Phase
  <2>3. Sent(c) = written[c] /\ Sent(c)' = Sent(c)
    BY SMTT(30), <1>1, <1>2, <2>2 DEF Sent
  <2>4. Heard(c)' = Heard(c) \cap Messages(Sent(c))
    BY <1>2, <1>4, <2>1, <2>3 DEF Heard
  <2>5. Waiting(c)' = {}
    BY SMTT(30), <2>1 DEF Waiting, Named
  <2>6. Delivered(Sent(c), <<>>, Heard(c) \cap Messages(Sent(c)), TRUE)
    BY <1>1, DeliverFresh
  <2>7. Delivered(Sent(c), queue[c], Heard(c), c \in subscribers)'
    BY <2>1, <2>3, <2>4, <2>6 DEF Delivered
  <2>8. Silent(Sent(c), subs[c], Waiting(c), pc[c] = "batch")'
    BY <1>1, <2>1, <2>3, <2>5 DEF Silent
  <2>9. Phase(c)' /\ RepliesFirst(output[c])'
    BY SMTT(30), <2>1, <2>2 DEF Phase, RepliesFirst
  <2> QED
    BY <2>7, <2>8, <2>9 DEF ConnInv
<1> QED
  BY <1>5, <1>6, <1>7 DEF DeliveryInv

\* A connection is registered for the first time.
LEMMA ConnectDelivery ==
    ASSUME HubInv, DeliveryInv, NEW c \in Conns, Connect(c)
    PROVE  DeliveryInv'
<1>1. /\ pc[c] = "new" /\ pc' = [pc EXCEPT ![c] = "top"] /\ subscribers' = subscribers \cup {c}
      /\ UNCHANGED <<subs, queue, output, log, written, dropped>>
  BY DEF Connect, history
<1>2. DeliveryType'
  BY <1>1 DEF DeliveryInv, DeliveryType, Pcs
<1>3. ASSUME NEW d \in Conns, d # c
      PROVE  ConnInv(d)'
  BY <1>1, <1>3, SameConn DEF DeliveryInv, DeliveryType
<1>4. ConnInv(c)'
  <2>1. ConnInv(c) /\ pc'[c] = "top" /\ output[c] = <<>> /\ Heard(c) = {}
    BY <1>1 DEF DeliveryInv, DeliveryType, ConnInv, Phase
  <2>2. Sent(c)' = Sent(c) /\ Heard(c)' = Heard(c) /\ Waiting(c)' = Waiting(c)
    BY <1>1 DEF Sent, Heard, Waiting
  <2>3. Delivered(Sent(c), queue[c], Heard(c), c \in subscribers)'
    BY <1>1, <2>1, <2>2 DEF ConnInv, Delivered
  <2>4. Silent(Sent(c), subs[c], Waiting(c), pc[c] = "batch")'
    BY <1>1, <2>1, <2>2 DEF ConnInv, Silent
  <2>5. Phase(c)' /\ RepliesFirst(output[c])'
    BY SMTT(30), <1>1, <2>1 DEF Phase, RepliesFirst
  <2> QED
    BY <2>3, <2>4, <2>5 DEF ConnInv
<1> QED
  BY <1>2, <1>3, <1>4 DEF DeliveryInv

LEMMA InitDelivery == Init => DeliveryInv
<1> SUFFICES ASSUME Init
             PROVE  DeliveryInv
  OBVIOUS
<1>1. DeliveryType
  BY SMTT(30) DEF Init, DeliveryType, Pcs
<1>2. ASSUME NEW c \in Conns
      PROVE  ConnInv(c)
  <2>1. /\ queue[c] = <<>> /\ output[c] = <<>> /\ written[c] = <<>> /\ log = <<>> /\ pc[c] = "new"
        /\ c \notin subscribers
    BY DEF Init
  <2>2. Sent(c) = <<>> /\ Heard(c) = {}
    BY SMTT(30), <2>1 DEF Sent, Heard
  <2>3. Messages(<<>>) = {} /\ Named(<<>>) = {} /\ InOrder(<<>>) /\ Increasing(<<>>)
    BY SMTT(30) DEF Messages, MessageAt, Named, InOrder, Increasing
  <2>4. Delivered(Sent(c), queue[c], Heard(c), c \in subscribers)
    BY <2>1, <2>2, <2>3 DEF Delivered
  <2>5. Silent(Sent(c), subs[c], Waiting(c), pc[c] = "batch") /\ RepliesFirst(output[c])
    BY SMTT(30), <2>1, <2>2 DEF Silent, QuietFrames, RepliesFirst
  <2>6. Phase(c)
    BY <2>1, <2>2 DEF Phase
  <2> QED
    BY <2>4, <2>5, <2>6 DEF ConnInv
<1> QED
  BY <1>1, <1>2 DEF DeliveryInv

\* The confirmations of SUBSCRIBE name the channels joined.
LEMMA JoinFrames ==
    ASSUME NEW list \in Seq(Channels), list # <<>>, NEW b \in BOOLEAN, NEW joined
    PROVE  LET t == Confirmations("subscribe", list, b) IN
           Confirming(t, joined, joined \cup Named(list)) /\ \A i \in DOMAIN t : t[i].batch = b
<1> DEFINE t == Confirmations("subscribe", list, b)
<1>1. list \in Seq(Channels \cup {NoChannel}) /\ Len(list) \in Nat \ {0}
  BY SMTT(30)
<1>2. /\ t \in Seq(Frame) /\ DOMAIN t = DOMAIN list /\ Len(t) = Len(list)
      /\ \A i \in DOMAIN t : t[i].kind = "subscribe" /\ t[i].batch = b /\ t[i].channel = list[i]
  BY SMTT(30), <1>1, ConfirmationFrames
<1> HIDE DEF t
<1>3. t # <<>> /\ MessageAt(t) = {}
  BY <1>1, <1>2 DEF MessageAt
<1>4. Named(list) \subseteq SubscribedIn(t)
  BY <1>2 DEF Named, SubscribedIn
<1>5. Confirming(t, joined, joined \cup Named(list))
  BY <1>2, <1>3, <1>4 DEF Confirming
<1> QED
  BY <1>2, <1>5 DEF t

LEMMA LeaveConfirms ==
    ASSUME NEW c \in Conns, subs[c] \in SUBSET Channels, NEW list \in Seq(Channels), NEW b \in BOOLEAN
    PROVE  LET t == LeaveFrames(c, list, b) IN
           Confirming(t, subs[c], subs[c] \ LeaveSet(c, list)) /\ \A i \in DOMAIN t : t[i].batch = b
<1> DEFINE t == LeaveFrames(c, list, b)
<1>1. /\ t \in Seq(Frame) /\ t # <<>>
      /\ \A i \in DOMAIN t : t[i].kind = "unsubscribe" /\ t[i].batch = b
                             /\ t[i].channel \in LeaveSet(c, list) \cup {NoChannel}
  BY SMTT(30), LeaveFramesNamed
<1> HIDE DEF t
<1>2. MessageAt(t) = {}
  BY <1>1 DEF MessageAt
<1>3. \A i \in DOMAIN t : t[i].channel \notin subs[c] \ LeaveSet(c, list)
  BY <1>1, ChannelsAssumption
<1>4. Confirming(t, subs[c], subs[c] \ LeaveSet(c, list))
  BY <1>1, <1>2, <1>3 DEF Confirming
<1> QED
  BY <1>1, <1>4 DEF t

LEMMA ReplyConfirms ==
    ASSUME NEW joined
    PROVE  Confirming(<<Reply(TRUE)>>, joined, joined)
           /\ \A i \in DOMAIN <<Reply(TRUE)>> : <<Reply(TRUE)>>[i].batch
<1>1. Reply(TRUE) \in Frame /\ Reply(TRUE).kind = "reply" /\ Reply(TRUE).batch
  BY DEF Reply, Frame
<1> DEFINE r == Reply(TRUE)
<1> HIDE DEF r
<1>2. r \in Frame /\ r.kind = "reply" /\ r.batch
  BY <1>1 DEF r
<1>3. <<r>> \in Seq(Frame) /\ <<r>> # <<>> /\ DOMAIN <<r>> = {1} /\ <<r>>[1] = r
  BY SMTT(30), <1>2
<1>4. Confirming(<<r>>, joined, joined) /\ \A i \in DOMAIN <<r>> : <<r>>[i].batch
  BY <1>2, <1>3 DEF Confirming, MessageAt
<1> QED
  BY <1>4 DEF r

LEMMA ExecuteDelivery ==
    ASSUME HubInv, DeliveryInv, NEW c \in Conns, Execute(c)
    PROVE  DeliveryInv'
<1> USE ChannelsAssumption
<1>1. CASE \E list \in Lists : Subscribe(c, list)
  <2>1. PICK list \in Lists : Subscribe(c, list)
    BY <1>1
  <2>2. list \in Seq(Channels) /\ list # <<>> /\ pc[c] = "decode"
    BY <2>1 DEF Subscribe, NextFrame
  <2>3. CASE Refused(c, list)
    <3>1. /\ pc' = [pc EXCEPT ![c] = "reply"] /\ output' = [output EXCEPT ![c] = <<Reply(FALSE)>>]
          /\ UNCHANGED <<subscribers, subs, queue, log, written, dropped>>
      BY <2>1, <2>3 DEF Subscribe, Respond, hub
    <3> QED
      BY <2>2, <3>1, ReplyDelivery
  <2>4. CASE ~Refused(c, list)
    <3> DEFINE t == Confirmations("subscribe", list, FALSE)
               S == subs[c] \cup Named(list)
    <3>1. Confirming(t, subs[c], S) /\ \A i \in DOMAIN t : ~t[i].batch
      BY <2>2, JoinFrames
    <3>2. ConfirmStep(c, t, S)
      BY <2>1, <2>2, <2>4 DEF Subscribe, ConfirmStep, Join, Respond
    <3> HIDE DEF t, S
    <3> QED
      BY <3>1, <3>2, ConfirmDelivery
  <2> QED
    BY <2>3, <2>4
<1>2. CASE \E list \in Lists : Unsubscribe(c, list)
  <2>1. PICK list \in Lists : Unsubscribe(c, list)
    BY <1>2
  <2> DEFINE t == LeaveFrames(c, list, FALSE)
             S == subs[c] \ LeaveSet(c, list)
  <2>2. subs[c] \in SUBSET Channels
    BY DEF HubInv, HubType
  <2>3. Confirming(t, subs[c], S) /\ \A i \in DOMAIN t : ~t[i].batch
    BY <2>2, LeaveConfirms
  <2>4. ConfirmStep(c, t, S)
    BY <2>1 DEF Unsubscribe, NextFrame, ConfirmStep, Leave, Respond
  <2> HIDE DEF t, S
  <2> QED
    BY <2>3, <2>4, ConfirmDelivery
<1>3. CASE UnsubscribeClosed(c)
  BY <1>3, DropDelivery DEF UnsubscribeClosed
<1>4. CASE \E ch \in Channels : PublishCommand(c, ch)
  <2>1. PICK ch \in Channels : PublishCommand(c, ch)
    BY <1>4
  <2>2. Publish(ch) /\ PublishReply(c, FALSE, "reply")
    BY <2>1 DEF PublishCommand, NextFrame, Respond, PublishReply
  <2> QED
    BY <2>2, PublishDelivery
<1>5. CASE OtherCommand(c)
  <2>1. /\ pc[c] = "decode" /\ pc' = [pc EXCEPT ![c] = "reply"]
        /\ output' = [output EXCEPT ![c] = <<Reply(FALSE)>>]
        /\ UNCHANGED <<subscribers, subs, queue, log, written, dropped>>
    BY <1>5 DEF OtherCommand, NextFrame, Respond, hub
  <2> QED
    BY <2>1, ReplyDelivery
<1>6. CASE \E b \in Batches : Exec(c, b)
  <2>1. /\ pc[c] = "decode" /\ pc' = [pc EXCEPT ![c] = "exec"]
        /\ UNCHANGED <<subscribers, subs, queue, output, log, written, dropped>>
    BY <1>6 DEF Exec, NextFrame, hub, history
  <2> QED
    BY <2>1, MoveDelivery
<1> QED
  BY <1>1, <1>2, <1>3, <1>4, <1>5, <1>6 DEF Execute

LEMMA WorkerDelivery ==
    ASSUME HubInv, DeliveryInv, NEW c \in Conns, Worker(c)
    PROVE  DeliveryInv'
<1>1. CASE CompleteExec(c)
  <2>1. /\ pc[c] = "exec" /\ pc' = [pc EXCEPT ![c] = "batch"]
        /\ UNCHANGED <<subscribers, subs, queue, output, log, written, dropped>>
    BY <1>1 DEF CompleteExec, hub, history
  <2> QED
    BY <2>1, MoveDelivery
<1>2. CASE ExecRejected(c)
  <2>1. /\ pc[c] = "exec" /\ pc' = [pc EXCEPT ![c] = "reply"]
        /\ output' = [output EXCEPT ![c] = <<Reply(TRUE)>>]
        /\ UNCHANGED <<subscribers, subs, queue, log, written, dropped>>
    BY <1>2 DEF ExecRejected, hub, history
  <2> QED
    BY <2>1, ReplyDelivery
<1>3. CASE ExecLost(c)
  BY <1>3, DropDelivery DEF ExecLost
<1>4. CASE FinishExec(c)
  BY <1>4, FinishDelivery
<1>5. CASE BatchCommand(c)
  <2> DEFINE command == Head(batch[c])
             list == command.channels
             t == BatchReplies(c, command)
  <2>1. batch[c] \in Seq(Command) /\ batch[c] # <<>>
    BY <1>5 DEF BatchCommand, HubInv, HubType
  <2>2. command \in Command
    BY SMTT(30), <2>1
  <2>3. list \in Seq(Channels) /\ (command.op = "publish" => Len(list) = 1)
        /\ (command.op = "subscribe" => list # <<>>)
    BY <2>2 DEF Command
  <2>4. subs[c] \in SUBSET Channels /\ subs \in [Conns -> SUBSET Channels]
    BY DEF HubInv, HubType
  <2>5. /\ pc[c] = "batch" /\ output' = [output EXCEPT ![c] = @ \o t]
        /\ UNCHANGED <<pc, written, dropped>>
        /\ \/ command.op = "publish" /\ Publish(list[1])
           \/ /\ command.op = "subscribe" /\ ~Refused(c, list)
              /\ Join(c, Named(list)) /\ UNCHANGED <<queue, log>>
           \/ /\ command.op = "unsubscribe" /\ ~Closed(c)
              /\ Leave(c, LeaveSet(c, list)) /\ UNCHANGED <<queue, log>>
           \/ /\ \/ command.op = "other"
                 \/ command.op = "subscribe" /\ Refused(c, list)
                 \/ command.op = "unsubscribe" /\ Closed(c)
              /\ UNCHANGED <<hub, queue, log>>
    BY <1>5 DEF BatchCommand
  <2> HIDE DEF command
  <2>6. CASE command.op = "publish" /\ Publish(list[1])
    <3>1. list[1] \in Channels
      BY SMTT(30), <2>3, <2>6
    <3>2. t = <<Reply(TRUE)>>
      BY <2>6 DEF BatchReplies
    <3>3. PublishReply(c, TRUE, "batch")
      <4>1. pc' = [pc EXCEPT ![c] = "batch"]
        BY <2>5 DEF DeliveryInv, DeliveryType
      <4> QED
        BY <2>5, <3>2, <4>1 DEF PublishReply
    <3> QED
      BY <2>6, <3>1, <3>3, PublishDelivery
  <2>7. CASE /\ command.op = "subscribe" /\ ~Refused(c, list)
             /\ Join(c, Named(list)) /\ UNCHANGED <<queue, log>>
    <3>1. t = Confirmations("subscribe", list, TRUE)
      BY <2>7 DEF BatchReplies
    <3>2. Confirming(t, subs[c], subs[c] \cup Named(list)) /\ \A i \in DOMAIN t : t[i].batch
      BY <2>3, <2>7, <3>1, JoinFrames
    <3>3. BatchStep(c, t, subs[c] \cup Named(list))
      BY <2>5, <2>7 DEF BatchStep, Join
    <3> QED
      BY <3>2, <3>3, BatchDelivery
  <2>8. CASE /\ command.op = "unsubscribe" /\ ~Closed(c)
             /\ Leave(c, LeaveSet(c, list)) /\ UNCHANGED <<queue, log>>
    <3>1. t = LeaveFrames(c, list, TRUE)
      BY <2>8 DEF BatchReplies
    <3>2. Confirming(t, subs[c], subs[c] \ LeaveSet(c, list)) /\ \A i \in DOMAIN t : t[i].batch
      <4> DEFINE u == LeaveFrames(c, list, TRUE)
      <4>1. Confirming(u, subs[c], subs[c] \ LeaveSet(c, list)) /\ \A i \in DOMAIN u : u[i].batch = TRUE
        BY <2>3, <2>4, LeaveConfirms
      <4> HIDE DEF u
      <4>2. t = u
        BY <3>1 DEF u
      <4> QED
        BY <4>1, <4>2
    <3>3. BatchStep(c, t, subs[c] \ LeaveSet(c, list))
      BY <2>5, <2>8 DEF BatchStep, Leave
    <3> QED
      BY <3>2, <3>3, BatchDelivery
  <2>9. CASE /\ \/ command.op = "other"
                \/ command.op = "subscribe" /\ Refused(c, list)
                \/ command.op = "unsubscribe" /\ Closed(c)
             /\ UNCHANGED <<hub, queue, log>>
    <3>1. t = <<Reply(TRUE)>>
      BY <2>9 DEF BatchReplies
    <3>2. Confirming(t, subs[c], subs[c]) /\ \A i \in DOMAIN t : t[i].batch
      BY <3>1, ReplyConfirms
    <3>3. BatchStep(c, t, subs[c])
      BY <2>4, <2>5, <2>9 DEF BatchStep, hub
    <3> QED
      BY <3>2, <3>3, BatchDelivery
  <2> QED
    BY <2>5, <2>6, <2>7, <2>8, <2>9
<1> QED
  BY <1>1, <1>2, <1>3, <1>4, <1>5 DEF Worker

LEMMA LoopDelivery ==
    ASSUME HubInv, DeliveryInv, NEW c \in Conns, Loop(c) \/ Read(c) \/ Close(c)
    PROVE  DeliveryInv'
<1>1. CASE NoticeEviction(c) \/ WriteTimeout(c) \/ Close(c)
  BY <1>1, DropDelivery DEF NoticeEviction, WriteTimeout, Close
<1>2. CASE TryMessage(c) /\ queue[c] # <<>>
  BY <1>2, TakeDelivery
<1>3. CASE Write(c)
  BY <1>3, WriteDelivery
<1>4. CASE (TryMessage(c) /\ queue[c] = <<>>) \/ Wait(c) \/ Wake(c) \/ Poll(c) \/ Read(c)
  <2>1. /\ pc[c] \in {"top", "decode", "waiting", "exec"}
        /\ UNCHANGED <<subscribers, subs, queue, output, log, written, dropped>>
        /\ \E p \in {"top", "decode", "waiting", "exec", "batch"} : pc' = [pc EXCEPT ![c] = p]
    BY <1>4 DEF TryMessage, Wait, Wake, Poll, Read, hub, history
  <2> QED
    BY <2>1, MoveDelivery
<1> QED
  BY <1>1, <1>2, <1>3, <1>4 DEF Loop

LEMMA NextDelivery == HubInv /\ DeliveryInv /\ [Next]_vars => DeliveryInv'
<1> SUFFICES ASSUME HubInv, DeliveryInv, [Next]_vars
             PROVE  DeliveryInv'
  OBVIOUS
<1>1. CASE Next
  <2>1. PICK c \in Conns :
            \/ Connect(c) \/ Loop(c) \/ Execute(c) \/ Worker(c) \/ Read(c) \/ Close(c)
            \/ \E allowed \in SUBSET Channels : Revalidate(c, allowed)
            \/ Reconnect(c)
    BY <1>1 DEF Next
  <2> QED
    BY <2>1, ConnectDelivery, LoopDelivery, ExecuteDelivery, WorkerDelivery, RevalidateDelivery,
       ReconnectDelivery
<1>2. CASE UNCHANGED vars
  <2>1. DeliveryType'
    BY <1>2 DEF vars, history, DeliveryInv, DeliveryType
  <2>2. ASSUME NEW d \in Conns
        PROVE  ConnInv(d)'
    BY <1>2, SameConn DEF vars, hub, history, DeliveryInv
  <2> QED
    BY <2>1, <2>2 DEF DeliveryInv
<1> QED
  BY <1>1, <1>2

LEMMA DeliveryInvariant == Spec => [](HubInv /\ DeliveryInv)
BY InitHub, InitDelivery, NextPreserves, NextDelivery, PTL DEF Spec

\* Every registered connection has been sent, is about to write or has queued
\* exactly what was published while it was subscribed, once each and in order,
\* and an evicted one a prefix of it: try_message, the drains of SUBSCRIBE,
\* UNSUBSCRIBE and EXEC, overflow, revalidation and reconnection lose, repeat
\* and reorder nothing, for any number of connections, channels and publications.
THEOREM HubExactDelivery == Spec => []ExactDelivery
<1>1. HubInv /\ DeliveryInv => ExactDelivery
  BY DEF DeliveryInv, ConnInv, ExactDelivery
<1> QED
  BY <1>1, DeliveryInvariant, PTL

\* No message of a channel is written after the confirmation that it was left,
\* and in the answer to EXEC every reply precedes the messages.
THEOREM HubMessagesInPlace == Spec => []MessagesInPlace
<1>1. HubInv /\ DeliveryInv => MessagesInPlace
  <2> SUFFICES ASSUME HubInv, DeliveryInv, NEW c \in Conns
               PROVE  QuietFrames(written[c]) /\ RepliesFirst(output[c])
    BY DEF MessagesInPlace, QuietAfterUnsubscribe, RepliesBeforeMessages
  <2>1. /\ output[c] \in Seq(Frame) /\ written[c] \in Seq(Frame)
        /\ Silent(Sent(c), subs[c], Waiting(c), pc[c] = "batch")
    BY ConnFacts DEF DeliveryInv
  <2>2. QuietFrames(written[c])
    BY <2>1, SilentPrefix DEF Sent
  <2> QED
    BY <2>2 DEF DeliveryInv, ConnInv
<1> QED
  BY <1>1, DeliveryInvariant, PTL
=============================================================================
