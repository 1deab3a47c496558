------------------------------- MODULE PubSub -------------------------------
(***************************************************************************)
(* The Pub/Sub hub (pubsub.rs) and the loop of the connections that use it *)
(* (connection.rs).  The hub's mutex is taken for one operation at a time, *)
(* except by EXEC, which keeps it from the first command of the batch to   *)
(* the last.  Receiving from a connection's own queue does not take it.    *)
(*                                                                         *)
(* A publication is named by its position in `log`; a connection is named  *)
(* by the identifier the hub gave it.                                      *)
(***************************************************************************)
EXTENDS Naturals, Sequences, FiniteSets, Selection

CONSTANTS
    Conns,           \* connections
    Channels,        \* channel names
    NoConn,          \* nobody holds the mutex
    NoChannel,       \* a frame about no channel
    Resp3,           \* connections that negotiated RESP3
    Secured,         \* configurations: TRUE with a client policy, FALSE without
    Lists,           \* argument lists of SUBSCRIBE and UNSUBSCRIBE
    Batches,         \* command lists of EXEC
    MaxChannels,     \* pubsub_max_channels
    Capacity,        \* pubsub_queue_capacity
    MaxPublications, \* bound on publications
    MaxCommands      \* bound on commands per connection

ASSUME ConnsAssumption ==
    IsFiniteSet(Conns) /\ NoConn \notin Conns /\ Resp3 \subseteq Conns
ASSUME ChannelsAssumption ==
    IsFiniteSet(Channels) /\ NoChannel \notin Channels /\ Lists \subseteq Seq(Channels)
ASSUME LimitsAssumption ==
    /\ MaxChannels \in Nat /\ Capacity \in Nat \ {0}
    /\ MaxPublications \in Nat /\ MaxCommands \in Nat
    /\ Secured \subseteq BOOLEAN

\* A command queued by MULTI.
Command ==
    {m \in [op : {"subscribe", "unsubscribe", "publish", "other"}, channels : Seq(Channels)] :
        /\ m.op = "publish" => Len(m.channels) = 1
        /\ m.op = "subscribe" => m.channels # <<>>}

ASSUME BatchesAssumption == Batches \subseteq Seq(Command)

VARIABLES
    secured,       \* the server runs with a client policy
    subscribers,   \* State.subscribers: identifiers the hub knows
    subs,          \* Entry.channels of each
    channels,      \* State.channels: members of each channel
    subscriptions, \* State.subscriptions
    active,        \* State.active_subscribers
    lock,          \* the connection whose EXEC holds the hub's mutex
    queue,         \* publications in each connection's bounded queue
    evicted,       \* the eviction flag the connection watches
    wake,          \* the permit stored in Notify
    notified,      \* the waiting connection has been notified
    pc,            \* where the connection's loop is
    input,         \* decoded frames the connection has not executed yet
    left,          \* commands the client may still send
    batch,         \* what is left of the EXEC being completed
    output,        \* frames to write before the loop goes on
    log,           \* every publication: its channel and its audience
    written,       \* every frame written to the socket
    dropped        \* publications withdrawn by a change of policy

hub == <<subscribers, subs, channels, subscriptions, active>>
notify == <<wake, notified>>
client == <<input, left, batch>>
history == <<log, written, dropped>>
vars == <<secured, hub, lock, queue, evicted, notify, pc, client, output, history>>

Frame == [kind : {"message", "subscribe", "unsubscribe", "reply"},
          channel : Channels \cup {NoChannel}, n : Nat, batch : BOOLEAN]

\* A response that is no confirmation and no notification.
Reply(b) == [kind |-> "reply", channel |-> NoChannel, n |-> 0, batch |-> b]

Confirmation(kind, channel, b) == [kind |-> kind, channel |-> channel, n |-> 0, batch |-> b]

\* One confirmation per argument.
Confirmations(kind, list, b) == [i \in 1..Len(list) |-> Confirmation(kind, list[i], b)]

\* The messages of a queue as the frames that notify them.
Notifications(q, b) ==
    [i \in 1..Len(q) |->
        [kind |-> "message", channel |-> log[q[i]].channel, n |-> q[i], batch |-> b]]

\* The messages among frames: where they are, and the publications they notify.
MessageAt(frames) == {i \in DOMAIN frames : frames[i].kind = "message"}
Messages(frames) == {frames[i].n : i \in MessageAt(frames)}

Init ==
    /\ secured \in Secured
    /\ subscribers = {} /\ subs = [c \in Conns |-> {}] /\ channels = [ch \in Channels |-> {}]
    /\ subscriptions = 0 /\ active = 0
    /\ lock = NoConn
    /\ queue = [c \in Conns |-> <<>>]
    /\ evicted = [c \in Conns |-> FALSE]
    /\ wake = [c \in Conns |-> FALSE] /\ notified = [c \in Conns |-> FALSE]
    /\ pc = [c \in Conns |-> "new"]
    /\ input = [c \in Conns |-> 0] /\ left = [c \in Conns |-> MaxCommands]
    /\ batch = [c \in Conns |-> <<>>] /\ output = [c \in Conns |-> <<>>]
    /\ log = <<>> /\ written = [c \in Conns |-> <<>>] /\ dropped = [c \in Conns |-> {}]

-----------------------------------------------------------------------------
(* The hub's state, under its mutex.                                       *)

\* notify_one: the waiting connection is told, or else the one permit is stored.
NotifyOne(S) ==
    /\ notified' = [c \in Conns |-> notified[c] \/ (c \in S /\ pc[c] = "waiting")]
    /\ wake' = [c \in Conns |->
                   wake[c] \/ (c \in S /\ (pc[c] # "waiting" \/ notified[c]))]

Memberships(S) == {p \in S \X Channels : p[2] \in subs[p[1]]}

\* Mutant: removed subscribers stay members of their channels.
IndexKept(S) == channels

\* The members of each channel without the removed subscribers, each of which is
\* looked up only in the channels its own entry lists.
IndexWithout(S) == [ch \in Channels |-> channels[ch] \ {c \in S : ch \in subs[c]}]

Remove(S) ==
    /\ subscribers' = subscribers \ S
    /\ subs' = [c \in Conns |-> IF c \in S THEN {} ELSE subs[c]]
    /\ channels' = IndexWithout(S)
    /\ subscriptions' = subscriptions - Cardinality(Memberships(S))
    /\ active' = active - Cardinality({c \in S : subs[c] # {}})
    /\ evicted' = [c \in Conns |-> evicted[c] \/ c \in S]

\* try_send succeeds while the queue has room.
Accepting(members) == {c \in members : Len(queue[c]) < Capacity}

\* Mutant: a full queue loses the message and keeps its subscriber.
OverflowIgnored(members) == {}

\* Subscribers removed because their queue is full.
Overflowed(members) == members \ Accepting(members)

\* Every member with room gets the message; a member without room is removed.
Publish(ch) ==
    LET members == channels[ch] \cap subscribers
        sent == Accepting(members)
    IN  /\ Len(log) < MaxPublications
        /\ queue' = [c \in Conns |->
                        IF c \in sent THEN Append(queue[c], Len(log) + 1) ELSE queue[c]]
        /\ Remove(Overflowed(members))
        /\ NotifyOne(members)
        /\ log' = Append(log, [channel |-> ch, audience |-> {c \in Conns : ch \in subs[c]}])

Closed(c) == c \notin subscribers

\* What makes SUBSCRIBE fail, leaving the subscriptions as they were.
Refused(c, list) == Closed(c) \/ Cardinality(subs[c] \cup Named(list)) > MaxChannels

\* Mutant: channels already joined are counted again.
EveryNamed(c, S) == S

NewlyJoined(c, S) == S \ subs[c]

Join(c, S) ==
    /\ subs' = [subs EXCEPT ![c] = @ \cup S]
    /\ channels' = [ch \in Channels |-> IF ch \in S THEN channels[ch] \cup {c} ELSE channels[ch]]
    /\ subscriptions' = subscriptions + Cardinality(NewlyJoined(c, S))
    /\ active' = IF subs[c] = {} /\ S # {} THEN active + 1 ELSE active
    /\ UNCHANGED subscribers

Leave(c, S) ==
    /\ subs' = [subs EXCEPT ![c] = @ \ S]
    /\ channels' = [ch \in Channels |-> IF ch \in S THEN channels[ch] \ {c} ELSE channels[ch]]
    /\ subscriptions' = subscriptions - Cardinality(S \cap subs[c])
    /\ active' = IF subs[c] # {} /\ subs[c] \subseteq S THEN active - 1 ELSE active
    /\ UNCHANGED subscribers

\* UNSUBSCRIBE without arguments names every channel of the subscriber, or none.
LeaveSet(c, list) == IF list = <<>> THEN subs[c] ELSE Named(list)

\* A fixed order of a set of channels, standing for ascending byte order.
Listing(S) == CHOOSE l \in [1..Cardinality(S) -> S] : Named(l) = S

LeaveFrames(c, list, b) ==
    IF list = <<>> /\ subs[c] = {} THEN <<Confirmation("unsubscribe", NoChannel, b)>>
    ELSE Confirmations("unsubscribe", IF list = <<>> THEN Listing(subs[c]) ELSE list, b)

\* The guard of a connection is dropped: its registration and its queue go away.
Drop(c) ==
    /\ lock = NoConn
    /\ Remove({c} \cap subscribers)
    /\ pc' = [pc EXCEPT ![c] = "closed"]
    /\ queue' = [queue EXCEPT ![c] = <<>>]
    /\ output' = [output EXCEPT ![c] = <<>>]
    /\ wake' = [wake EXCEPT ![c] = FALSE] /\ notified' = [notified EXCEPT ![c] = FALSE]
    /\ UNCHANGED <<lock, client, history>>

-----------------------------------------------------------------------------
(* The loop of a connection.                                               *)

Connect(c) ==
    /\ pc[c] = "new" /\ lock = NoConn
    /\ subscribers' = subscribers \cup {c}
    /\ pc' = [pc EXCEPT ![c] = "top"]
    /\ UNCHANGED <<subs, channels, subscriptions, active, lock, queue, evicted, notify,
                   client, output, history>>

\* Mutant: the loop does not look at the eviction flag.
NeverEvicted(c) == FALSE

is_evicted(c) == evicted[c]

\* One notification per round, then the buffered input is decoded.
TryMessage(c) ==
    /\ pc[c] = "top" /\ ~is_evicted(c)
    /\ IF queue[c] = <<>>
         THEN pc' = [pc EXCEPT ![c] = "decode"] /\ UNCHANGED <<queue, output>>
         ELSE /\ pc' = [pc EXCEPT ![c] = "message"]
              /\ output' = [output EXCEPT ![c] = Notifications(<<Head(queue[c])>>, FALSE)]
              /\ queue' = [queue EXCEPT ![c] = Tail(@)]
    /\ UNCHANGED <<hub, lock, evicted, notify, client, history>>

\* The loop and every write end when the eviction flag is seen.
NoticeEviction(c) == pc[c] \in {"top", "message", "reply"} /\ evicted[c] /\ Drop(c)

\* The next frame reaches the socket.
Write(c) ==
    /\ pc[c] \in {"message", "reply"} /\ ~evicted[c]
    /\ written' = [written EXCEPT ![c] = Append(@, Head(output[c]))]
    /\ output' = [output EXCEPT ![c] = Tail(@)]
    /\ pc' = [pc EXCEPT ![c] = IF Len(output[c]) > 1 THEN @
                               ELSE IF @ = "message" THEN "decode" ELSE "top"]
    /\ UNCHANGED <<hub, lock, queue, evicted, notify, client, log, dropped>>

\* The socket did not take the frame within write_timeout.
WriteTimeout(c) == pc[c] \in {"message", "reply"} /\ ~evicted[c] /\ Drop(c)

\* End of input, a frame timeout, an error or the server's shutdown.
Close(c) == pc[c] \in {"top", "decode", "waiting"} /\ Drop(c)

\* A read brings the rest of k frames, none when the last one is still incomplete.
\* The abandoned wait hands its notification back.
Read(c) ==
    /\ pc[c] = "waiting" \/ (pc[c] = "decode" /\ input[c] = 0)
    /\ \E k \in 0..left[c] :
          /\ input' = [input EXCEPT ![c] = @ + k]
          /\ left' = [left EXCEPT ![c] = @ - k]
    /\ pc' = [pc EXCEPT ![c] = "top"]
    /\ wake' = [wake EXCEPT ![c] = @ \/ notified[c]]
    /\ notified' = [notified EXCEPT ![c] = FALSE]
    /\ UNCHANGED <<hub, lock, queue, evicted, batch, output, history>>

\* Without a complete frame the loop waits, unless a permit is stored.
Wait(c) ==
    /\ pc[c] = "decode" /\ input[c] = 0
    /\ pc' = [pc EXCEPT ![c] = IF wake[c] THEN "top" ELSE "waiting"]
    /\ wake' = [wake EXCEPT ![c] = FALSE]
    /\ UNCHANGED <<hub, lock, queue, evicted, notified, client, output, history>>

Wake(c) ==
    /\ pc[c] = "waiting" /\ notified[c]
    /\ pc' = [pc EXCEPT ![c] = "top"]
    /\ notified' = [notified EXCEPT ![c] = FALSE]
    /\ UNCHANGED <<hub, lock, queue, evicted, wake, client, output, history>>

\* Mutant: the deadline exists only while a frame is incomplete.
NoPoll(c) == FALSE

\* With a client policy the wait ends after a second.
Poll(c) ==
    /\ secured /\ pc[c] = "waiting"
    /\ pc' = [pc EXCEPT ![c] = "top"]
    /\ wake' = [wake EXCEPT ![c] = @ \/ notified[c]]
    /\ notified' = [notified EXCEPT ![c] = FALSE]
    /\ UNCHANGED <<hub, lock, queue, evicted, client, output, history>>

-----------------------------------------------------------------------------
(* The commands a connection executes itself.                              *)

\* A subscriber that speaks RESP2 may only change its subscriptions or ping.
Restricted(c) == subs[c] # {} /\ c \notin Resp3

\* Asking whether the connection is a subscriber takes the mutex.
NextFrame(c) ==
    /\ pc[c] = "decode" /\ input[c] > 0 /\ lock = NoConn
    /\ input' = [input EXCEPT ![c] = @ - 1]
    /\ UNCHANGED left

\* The connection writes these frames before its next round.
Respond(c, frames) ==
    /\ pc' = [pc EXCEPT ![c] = "reply"]
    /\ output' = [output EXCEPT ![c] = frames]
    /\ UNCHANGED <<lock, batch, written, dropped>>

\* SUBSCRIBE: messages already accepted go before the confirmations.
Subscribe(c, list) ==
    /\ NextFrame(c) /\ list # <<>>
    /\ IF Refused(c, list)
         THEN Respond(c, <<Reply(FALSE)>>) /\ UNCHANGED <<hub, queue>>
         ELSE /\ Join(c, Named(list))
              /\ queue' = [queue EXCEPT ![c] = <<>>]
              /\ Respond(c, Notifications(queue[c], FALSE)
                            \o Confirmations("subscribe", list, FALSE))
    /\ UNCHANGED <<evicted, notify, log>>

\* Mutant: messages already accepted stay queued behind the confirmations.
UnsubscribeFirst(c, list) ==
    /\ NextFrame(c) /\ ~Closed(c)
    /\ Leave(c, LeaveSet(c, list))
    /\ Respond(c, LeaveFrames(c, list, FALSE))
    /\ UNCHANGED <<queue, evicted, notify, log>>

\* UNSUBSCRIBE: likewise, so that nothing of a channel follows its confirmation.
Unsubscribe(c, list) ==
    /\ NextFrame(c) /\ ~Closed(c)
    /\ Leave(c, LeaveSet(c, list))
    /\ queue' = [queue EXCEPT ![c] = <<>>]
    /\ Respond(c, Notifications(queue[c], FALSE) \o LeaveFrames(c, list, FALSE))
    /\ UNCHANGED <<evicted, notify, log>>

\* UNSUBSCRIBE on an evicted connection ends it.
UnsubscribeClosed(c) == pc[c] = "decode" /\ input[c] > 0 /\ Closed(c) /\ Drop(c)

PublishCommand(c, ch) ==
    /\ NextFrame(c) /\ ~Restricted(c)
    /\ Publish(ch)
    /\ Respond(c, <<Reply(FALSE)>>)

\* Any other command, a refused one, or a message over the response limit.
OtherCommand(c) ==
    /\ NextFrame(c)
    /\ Respond(c, <<Reply(FALSE)>>)
    /\ UNCHANGED <<hub, queue, evicted, notify, log>>

-----------------------------------------------------------------------------
(* EXEC: the owner worker completes the batch under the hub's mutex.       *)

\* With a client policy a Pub/Sub command poisons MULTI, so no batch holds one.
\* The registration travels with the request.
Exec(c, b) ==
    /\ NextFrame(c) /\ ~Restricted(c)
    /\ secured => \A i \in DOMAIN b : b[i].op = "other"
    /\ pc' = [pc EXCEPT ![c] = "exec"]
    /\ batch' = [batch EXCEPT ![c] = b]
    /\ UNCHANGED <<hub, lock, queue, evicted, notify, output, history>>

\* The mutations were accepted: the worker takes the mutex and applies them.
CompleteExec(c) ==
    /\ pc[c] = "exec" /\ lock = NoConn
    /\ lock' = c
    /\ pc' = [pc EXCEPT ![c] = "batch"]
    /\ UNCHANGED <<hub, queue, evicted, notify, client, output, history>>

\* The watched keys changed or the batch was rejected: nothing is executed.
ExecRejected(c) ==
    /\ pc[c] = "exec"
    /\ pc' = [pc EXCEPT ![c] = "reply"]
    /\ output' = [output EXCEPT ![c] = <<Reply(TRUE)>>]
    /\ batch' = [batch EXCEPT ![c] = <<>>]
    /\ UNCHANGED <<hub, lock, queue, evicted, notify, input, left, history>>

\* The worker or its writer failed; the registration is dropped with the request.
ExecLost(c) == pc[c] = "exec" /\ Drop(c)

\* What one command of the batch adds to the replies.
BatchReplies(c, command) ==
    CASE command.op = "subscribe" /\ ~Refused(c, command.channels) ->
           Confirmations("subscribe", command.channels, TRUE)
      [] command.op = "unsubscribe" /\ ~Closed(c) -> LeaveFrames(c, command.channels, TRUE)
      [] OTHER -> <<Reply(TRUE)>>

\* Subscription changes inside EXEC do not drain the connection's queue.
BatchCommand(c) ==
    /\ pc[c] = "batch" /\ batch[c] # <<>>
    /\ LET command == Head(batch[c]) IN
         /\ batch' = [batch EXCEPT ![c] = Tail(@)]
         /\ output' = [output EXCEPT ![c] = @ \o BatchReplies(c, command)]
         /\ \/ /\ command.op = "publish" /\ Publish(command.channels[1])
            \/ /\ command.op = "subscribe" /\ ~Refused(c, command.channels)
               /\ Join(c, Named(command.channels))
               /\ UNCHANGED <<queue, evicted, notify, log>>
            \/ /\ command.op = "unsubscribe" /\ ~Closed(c)
               /\ Leave(c, LeaveSet(c, command.channels))
               /\ UNCHANGED <<queue, evicted, notify, log>>
            \/ /\ \/ command.op = "other"
                  \/ command.op = "subscribe" /\ Refused(c, command.channels)
                  \/ command.op = "unsubscribe" /\ Closed(c)
               /\ UNCHANGED <<hub, queue, evicted, notify, log>>
    /\ UNCHANGED <<lock, pc, input, left, written, dropped>>

\* Messages to the connection itself follow every reply of the batch.
ExecFrames(c) == output[c] \o Notifications(queue[c], TRUE)

FinishExec(c) ==
    /\ pc[c] = "batch" /\ batch[c] = <<>>
    /\ output' = [output EXCEPT ![c] = ExecFrames(c)]
    /\ queue' = [queue EXCEPT ![c] = <<>>]
    /\ lock' = NoConn
    /\ pc' = [pc EXCEPT ![c] = IF output'[c] = <<>> THEN "top" ELSE "reply"]
    /\ UNCHANGED <<hub, evicted, notify, client, history>>

-----------------------------------------------------------------------------
(* A new generation of the client policy reaches the connection.           *)

Retained(c, allowed) == Only(queue[c], {n \in Named(queue[c]) : log[n].channel \in allowed})

\* Revoked channels are left and their messages discarded; the others are put
\* back in order, each waking the connection.
Revalidate(c, allowed) ==
    LET retained == Retained(c, allowed)
    IN  /\ secured /\ pc[c] \in {"top", "waiting"} /\ lock = NoConn
        /\ IF Closed(c) THEN UNCHANGED hub ELSE Leave(c, subs[c] \ allowed)
        /\ queue' = [queue EXCEPT ![c] = IF Closed(c) THEN <<>> ELSE retained]
        /\ dropped' = [dropped EXCEPT ![c] = @ \cup {n \in Named(queue[c]) :
                                                     log[n].channel \notin allowed}]
        /\ pc' = [pc EXCEPT ![c] = "top"]
        /\ wake' = [wake EXCEPT ![c] = @ \/ notified[c] \/ (~Closed(c) /\ retained # <<>>)]
        /\ notified' = [notified EXCEPT ![c] = FALSE]
        /\ UNCHANGED <<lock, evicted, client, output, log, written>>

\* The credentials no longer hold: a fresh registration replaces the old one,
\* whose subscriptions and messages are gone.
Reconnect(c) ==
    /\ secured /\ pc[c] \in {"top", "waiting"} /\ lock = NoConn
    /\ subscribers' = subscribers \cup {c}
    /\ subs' = [subs EXCEPT ![c] = {}]
    /\ channels' = IndexWithout({c})
    /\ subscriptions' = subscriptions - Cardinality(subs[c])
    /\ active' = IF subs[c] = {} THEN active ELSE active - 1
    /\ evicted' = [evicted EXCEPT ![c] = FALSE]
    /\ queue' = [queue EXCEPT ![c] = <<>>]
    /\ wake' = [wake EXCEPT ![c] = FALSE] /\ notified' = [notified EXCEPT ![c] = FALSE]
    /\ pc' = [pc EXCEPT ![c] = "top"]
    /\ dropped' = [dropped EXCEPT ![c] = @ \cup {n \in 1..Len(log) :
                        c \in log[n].audience /\ n \notin Messages(written[c])}]
    /\ UNCHANGED <<lock, client, output, log, written>>

-----------------------------------------------------------------------------

Loop(c) ==
    TryMessage(c) \/ NoticeEviction(c) \/ Write(c) \/ WriteTimeout(c)
    \/ Wait(c) \/ Wake(c) \/ Poll(c)

Execute(c) ==
    \/ \E list \in Lists : Subscribe(c, list) \/ Unsubscribe(c, list)
    \/ UnsubscribeClosed(c)
    \/ \E ch \in Channels : PublishCommand(c, ch)
    \/ OtherCommand(c)
    \/ \E b \in Batches : Exec(c, b)

Worker(c) ==
    CompleteExec(c) \/ ExecRejected(c) \/ ExecLost(c) \/ BatchCommand(c) \/ FinishExec(c)

Next ==
    /\ \E c \in Conns :
          \/ Connect(c) \/ Loop(c) \/ Execute(c) \/ Worker(c)
          \/ Read(c) \/ Close(c)
          \/ \E allowed \in SUBSET Channels : Revalidate(c, allowed)
          \/ Reconnect(c)
    /\ UNCHANGED secured

Spec == Init /\ [][Next]_vars

\* Tokio polls a ready connection and a worker completes what it accepted;
\* clients, policies and the network owe nothing.
FairSpec ==
    /\ Spec
    /\ \A c \in Conns :
          /\ WF_vars(Loop(c) /\ UNCHANGED secured)
          /\ WF_vars(Execute(c) /\ UNCHANGED secured)
          /\ WF_vars(Worker(c) /\ UNCHANGED secured)

-----------------------------------------------------------------------------
(* Properties.                                                             *)

Pcs == {"new", "top", "message", "decode", "reply", "waiting", "exec", "batch", "closed"}
Publication == [channel : Channels, audience : SUBSET Conns]

\* The state has its type; queues stay within their capacity and the counters,
\* which are unsigned, never go below zero.
TypeOK ==
    /\ secured \in Secured
    /\ subscribers \subseteq Conns
    /\ subs \in [Conns -> SUBSET Channels]
    /\ channels \in [Channels -> SUBSET Conns]
    /\ subscriptions \in Nat /\ active \in Nat
    /\ lock \in Conns \cup {NoConn}
    /\ queue \in [Conns -> Seq(1..Len(log))]
    /\ \A c \in Conns : Len(queue[c]) <= Capacity
    /\ evicted \in [Conns -> BOOLEAN] /\ wake \in [Conns -> BOOLEAN]
    /\ notified \in [Conns -> BOOLEAN]
    /\ pc \in [Conns -> Pcs]
    /\ input \in [Conns -> Nat] /\ left \in [Conns -> Nat]
    /\ batch \in [Conns -> Seq(Command)]
    /\ output \in [Conns -> Seq(Frame)]
    /\ log \in Seq(Publication)
    /\ written \in [Conns -> Seq(Frame)]
    /\ dropped \in [Conns -> SUBSET Nat]

\* The two indexes of the hub agree: a connection is a member of exactly the
\* channels its entry lists, and a removed connection of none, however
\* subscription changes, EXEC, evictions and drops interleave.
IndexConsistent ==
    \A c \in Conns, ch \in Channels :
        c \in channels[ch] <=> c \in subscribers /\ ch \in subs[c]

\* The gauges the hub keeps by increments and decrements equal what the
\* registry holds, whoever removed the entry.
CountersExact ==
    /\ subscriptions = Cardinality(Memberships(subscribers))
    /\ active = Cardinality({c \in subscribers : subs[c] # {}})

\* Publications that reached the connection while it was subscribed, without
\* those a change of policy withdrew.
Heard(c) == {n \in 1..Len(log) : c \in log[n].audience /\ n \notin dropped[c]}

\* What was written to the socket and what is about to be.
Sent(c) == written[c] \o output[c]

InOrder(frames) == \A i, j \in MessageAt(frames) : i < j => frames[i].n < frames[j].n

\* The frames sent and then the queue hold what was heard, once each and in order:
\* all of it for a registered connection, a prefix of it for any other.
Delivered(frames, q, heard, registered) ==
    LET got == Messages(frames) \cup Named(q)
    IN  /\ InOrder(frames) /\ Increasing(q)
        /\ \A n \in Messages(frames), m \in Named(q) : n < m
        /\ got \subseteq heard
        /\ \A n \in heard \ got : ~registered /\ \A m \in got : m < n

\* A registered connection has been sent, is about to write or has queued
\* exactly the publications made while it was subscribed, once each and in
\* publication order; one that was evicted has a prefix of them.  A slow
\* connection is cut off, it never misses a message in the middle.
ExactDelivery ==
    \A c \in Conns : Delivered(Sent(c), queue[c], Heard(c), c \in subscribers)

\* Between leaving a channel and joining it again nothing of it is read, except
\* messages of EXEC after a confirmation of EXEC.
QuietFrames(frames) ==
    \A i, j \in DOMAIN frames :
        /\ i < j /\ frames[i].kind = "unsubscribe" /\ frames[j].kind = "message"
        /\ frames[i].channel = frames[j].channel /\ ~(frames[i].batch /\ frames[j].batch)
        => \E k \in i..j : /\ frames[k].kind = "subscribe"
                          /\ frames[k].channel = frames[j].channel

\* After the confirmation that a channel was left, no message of it is written
\* before the channel is joined again, except inside one EXEC, whose messages
\* follow its replies.
QuietAfterUnsubscribe == \A c \in Conns : QuietFrames(written[c])

\* No other frame follows a message in the answer to EXEC.
RepliesFirst(frames) ==
    \A i, j \in DOMAIN frames :
        i < j /\ frames[i].batch /\ frames[i].kind = "message" => frames[j].kind = "message"

\* In the answer to EXEC every reply precedes the messages the batch, or anyone
\* before it, sent to the connection itself.
RepliesBeforeMessages == \A c \in Conns : RepliesFirst(output[c])

\* What a connection reads is in its place relative to the replies: no message of a
\* channel after it was left, none inside the answer to EXEC (run_inner, write_exec).
MessagesInPlace == QuietAfterUnsubscribe /\ RepliesBeforeMessages

\* An evicted connection ends, even one that waits for input or is blocked on
\* a socket that takes nothing, unless its credentials lapse first and a fresh
\* registration replaces the evicted one.
EvictionCloses == \A c \in Conns : evicted[c] ~> (pc[c] = "closed" \/ ~evicted[c])

\* A message accepted into a queue leaves it: it is written, or the connection
\* is evicted, closed or loses the right to it.
MessagesProgress ==
    \A c \in Conns : \A n \in 1..MaxPublications :
        (n \in Named(queue[c])) ~> (n \notin Named(queue[c]))

=============================================================================
