------------------------------ MODULE Internal ------------------------------
(***************************************************************************)
(* The internal lane under live generations (security/internal_runtime.rs, *)
(* replication/security.rs): links between servers and tools, the lease of *)
(* every frame and operation, the requests a source answers and the frames *)
(* of an export.                                                           *)
(*                                                                         *)
(* A link is driven by the steps its task has left: frames to read, frames *)
(* to write and operations of the database.  The frames are those of Wire; *)
(* the stream between a source and its replica is in Replication, and here *)
(* only its first frames.                                                  *)
(***************************************************************************)
EXTENDS Session

W == INSTANCE Wire

VARIABLES
    links,   \* the internal connections
    work     \* internal operations the database has accepted

internalVars == << links, work >>
vars == << securityVars, sessionVars, internalVars >>

Links == DOMAIN Scenario.links
Lane == The(active.internal)
Certificate(l) == Scenario.links[l].certificate
Inbound(l) == Scenario.links[l].inbound
Version == Scenario.version
FrameLimits == Scenario.frame
Source == Scenario.hello

Unlinked ==
    [pc |-> "closed", open |-> FALSE, peer |-> {}, request |-> {}, steps |-> <<>>, frame |-> {},
     written |-> <<>>]

InitInternal ==
    /\ links = [l \in Links |-> Unlinked]
    /\ work = {}

RegisteredLinks == {l \in Links : links[l].pc \notin {"closed", "handshake"}}

Leased ==
    \/ ClientLeased
    \/ work # {}
    \/ \E l \in Links : links[l].pc \in {"handshake", "frame", "operate"}

LinkTo(l, link) == links' = [links EXCEPT ![l] = link]
OthersSame == UNCHANGED << securityVars, sessionVars >>

---------------------------------------------------------------------------
\* Steps of a link

Write(message) == [do |-> "write", message |-> message]
Read(phase) == [do |-> "read", phase |-> phase]
Operate(op) == [do |-> "operate", op |-> op]
Broken == [do |-> "fail"]
Refuse(reason) == <<Write([type |-> "Reject", reason |-> reason])>>

\* The memory export has no epoch.
ExportCursor ==
    IF Version = W!MEMORY_VERSION THEN [Scenario.cursor EXCEPT !.epoch = 0] ELSE Scenario.cursor

HelloMessage(cursor) ==
    [type |-> IF Version = W!COMPOSED_VERSION THEN "ComposedHello" ELSE "Hello",
     hello |-> [Source EXCEPT !.cursor = cursor]]

Entry(mutation) ==
    [type |-> IF Version = W!MEMORY_VERSION THEN "MemorySnapshotEntry" ELSE "SnapshotEntry",
     shape |-> mutation.shape, value |-> mutation.value, mutations |-> 1, bytes |-> mutation.bytes]

EntryBytes(mutation) == mutation.bytes + 12 + W!HEADER_BYTES
BytesUpTo(i) == SumFunction([j \in 1..i |-> EntryBytes(Scenario.data[j])])

EntrySteps(count) == [i \in 1..count |-> Write(Entry(Scenario.data[i]))]
FullStart == Write([type |-> "FullStart", cursor |-> ExportCursor, entries |-> Len(Scenario.data)])
FullEnd ==
    Write([type |-> "FullEnd", cursor |-> ExportCursor, entries |-> Len(Scenario.data),
           digest |-> [i \in DOMAIN Scenario.data |-> Scenario.data[i].value]])

\* Entries sent before the limit is passed.
Fitting(limit) == Cardinality({i \in DOMAIN Scenario.data : BytesUpTo(i) <= limit})

\* Mutant: a transfer past its limit ends as if it were complete.
SendSnapshotCut(count) == <<FullStart>> \o EntrySteps(count) \o <<FullEnd>>

\* The legacy and composed source counts while it sends.
SendSnapshot(count) ==
    <<FullStart>> \o EntrySteps(count) \o IF count = Len(Scenario.data) THEN <<FullEnd>> ELSE <<Broken>>

\* The memory source counts, and checks the order of the keys, before its Hello.
SendMemorySnapshot ==
    IF /\ \A i \in 2..Len(Scenario.data) : Scenario.data[i - 1].key < Scenario.data[i].key
       /\ BytesUpTo(Len(Scenario.data)) <= Source.maxSnapshot
    THEN <<Write(HelloMessage(<<ExportCursor>>)), FullStart>> \o EntrySteps(Len(Scenario.data)) \o <<FullEnd>>
    ELSE <<Broken>>

\* Why a source refuses to export, if it does.
ExportRejection(m) ==
    CASE \/ m.sider # Source.sider
         \/ m.type # "Export" /\ m.record # Source.record
         \/ m.type = "ComposedExport" /\ ~W!ComposedProfile(m) -> {"IncompatibleVersion"}
      [] OTHER -> IF m.maxRecord < Source.maxRecord \/ m.maxSnapshot < Source.maxSnapshot
                  THEN {"ResourceLimit"} ELSE {}

Answered(rejection, op) == IF rejection = {} THEN <<Operate(op)>> ELSE Refuse(The(rejection))

ServeExport(m) ==
    Answered(ExportRejection(m), "snapshot")

\* A replica resumes here; the copy and the stream are in Replication.
ServeReplica(m) ==
    Answered({IF Version = W!COMPOSED_VERSION THEN W!ComposedAccepts(m.hello, Source)
              ELSE W!Accepts(m.hello, Source)} \ {"accepted"}, "position")

\* serve_connection, legacy and composed
ServeConnection(m) ==
    IF ~database.open THEN Refuse("Unavailable")
    ELSE IF m.type = "StatusRequest" THEN <<Operate("status")>>
    ELSE IF m.type = "Promote" THEN <<Operate("promote")>>
    ELSE IF database.readonly THEN Refuse("Unavailable")
    ELSE IF m.type \in {"Export", "ComposedExport"} THEN ServeExport(m)
    ELSE IF m.type \in {"Hello", "ComposedHello"} THEN ServeReplica(m)
    ELSE Refuse("Unavailable")

\* memory_connection
ServeMemoryConnection(m) ==
    IF m.type = "StatusRequest" THEN <<Operate("status")>>
    ELSE IF m.type = "Promote" THEN <<Operate("promote")>>
    ELSE IF m.type = "Hello" THEN IF database.readonly THEN Refuse("Unavailable") ELSE ServeReplica(m)
    ELSE IF m.type = "MemoryExport" THEN ServeExport(m)
    ELSE <<Broken>>

Serve(m) == IF Version = W!MEMORY_VERSION THEN ServeMemoryConnection(m) ELSE ServeConnection(m)

\* What follows an operation that has finished.
AfterOperation(op) ==
    CASE op = "status" ->
           <<Write([type |-> "Status", readonly |-> database.readonly, cursor |-> Scenario.cursor,
                    upstream |-> <<>>, connected |-> FALSE, counters |-> 0])>>
      [] op = "promote" -> <<Write([type |-> "Promoted", cursor |-> Scenario.cursor])>>
      [] op = "position" ->
           <<Write(HelloMessage(<<Scenario.cursor>>)),
             Write([type |-> "Continue", cursor |-> Scenario.cursor]), Read("ReplicaAck")>>
      [] op = "snapshot" /\ Version = W!MEMORY_VERSION -> SendMemorySnapshot
      [] op = "snapshot" /\ Version # W!MEMORY_VERSION ->
           <<Write(HelloMessage(<<Scenario.cursor>>))>> \o SendSnapshot(Fitting(Scenario.maxDataset))
      [] OTHER -> <<Write([type |-> "Ack", cursor |-> Scenario.cursor])>>

\* The follower's side of the same handshake.
FollowSteps ==
    <<Write(HelloMessage(<<Scenario.cursor>>)), Read("Hello"), Read("ReplicaStart"),
      Write([type |-> "Ack", cursor |-> Scenario.cursor]), Read("ReplicaStream"), Operate("apply")>>

\* Authority::set_request
RequestOf(m) ==
    IF m.type \in {"Hello", "ComposedHello"} THEN "Hello"
    ELSE IF m.type \in {"Export", "MemoryExport", "ComposedExport"} THEN "Export"
    ELSE m.type

---------------------------------------------------------------------------
\* Admission

\* InternalLease::for_request, for_upstream: the certificate, the roles and, for
\* what a peer asks, its request once more.
LinkAdmitted(link, request) ==
    /\ link.open
    /\ RevalidatePeer(Lane, The(link.peer), now)
    /\ The(link.peer).inbound =>
          \E type \in request : AuthorizeInternalRequest(Lane.policy, The(link.peer).certificate.uri, type)

Link(l) ==
    /\ links[l].pc = "closed" /\ CanLease /\ ~stopping
    /\ LinkTo(l, [Unlinked EXCEPT !.pc = "handshake"])
    /\ OthersSame /\ UNCHANGED work

\* accept_with_peer or connect_with_peer, and the registration, under one lease
LinkHandshake(l) ==
    /\ links[l].pc = "handshake"
    /\ LinkTo(l, IF IF Inbound(l) THEN AcceptWithPeer(Lane, Certificate(l), now)
                    ELSE ConnectWithPeer(Lane, Certificate(l), now)
                 THEN [Unlinked EXCEPT !.pc = "ready", !.open = TRUE,
                                       !.peer = {PeerOf(Lane, Certificate(l), Inbound(l))},
                                       !.steps = IF Inbound(l) THEN <<Read("Request")>> ELSE FollowSteps]
                 ELSE Unlinked)
    /\ OthersSame /\ UNCHANGED work

NextStep(link) == Head(link.steps)
At(l, do) == links[l].pc = "ready" /\ links[l].open /\ links[l].steps # <<>> /\ NextStep(links[l]).do = do

\* The kind of a header names the request.
RequestKind(kind) ==
    CASE kind = 1 -> {"Hello"} [] kind = 10 -> {"Export"} [] kind = 11 -> {"StatusRequest"}
      [] kind = 12 -> {"Promote"} [] OTHER -> {}

\* The header and the direction come first; only then is a lease taken.
AdmitRead(l, frame) ==
    /\ At(l, "read")
    /\ LET link == links[l]
           first == NextStep(link).phase = "Request"
           legible == /\ frame # W!Invalid /\ W!Header(frame, Version, FrameLimits)
                      /\ IF first THEN RequestKind(frame.kind) # {} ELSE W!Permits(NextStep(link).phase, frame.kind)
           request == IF first THEN RequestKind(frame.kind) ELSE link.request
       IN  IF ~legible THEN LinkTo(l, Unlinked)
           ELSE /\ CanLease
                /\ LinkTo(l, IF LinkAdmitted(link, request)
                             THEN [link EXCEPT !.pc = "frame", !.frame = {frame}] ELSE Unlinked)
    /\ OthersSame /\ UNCHANGED work

Delivered(link, m) ==
    IF ~link.open \/ m.type \in {"invalid", "Reject"} THEN Unlinked
    ELSE IF NextStep(link).phase = "Request"
    THEN [link EXCEPT !.pc = "ready", !.frame = {}, !.request = {RequestOf(m)}, !.steps = Serve(m)]
    ELSE [link EXCEPT !.pc = "ready", !.frame = {}, !.steps = Tail(@)]

FinishRead(l) ==
    /\ links[l].pc = "frame" /\ NextStep(links[l]).do = "read"
    /\ LinkTo(l, Delivered(links[l], W!Decode(The(links[l].frame), Version, FrameLimits)))
    /\ OthersSame /\ UNCHANGED work

AdmitWrite(l) ==
    /\ At(l, "write") /\ CanLease
    /\ LinkTo(l, IF LinkAdmitted(links[l], links[l].request)
                 THEN [links[l] EXCEPT !.pc = "frame"] ELSE Unlinked)
    /\ OthersSame /\ UNCHANGED work

Sent(link, message, frame) ==
    IF frame = W!Invalid \/ ~link.open THEN Unlinked
    ELSE [link EXCEPT !.pc = "ready", !.steps = Tail(@),
                      !.written = Append(@, [message |-> message, frame |-> frame])]

FinishWrite(l) ==
    /\ links[l].pc = "frame" /\ NextStep(links[l]).do = "write"
    /\ \E message \in {NextStep(links[l]).message} :
          LinkTo(l, Sent(links[l], message, W!Encode(message, Version, FrameLimits)))
    /\ OthersSame /\ UNCHANGED work

BeginOperation(l) ==
    /\ At(l, "operate") /\ CanLease
    /\ LinkTo(l, IF LinkAdmitted(links[l], links[l].request)
                 THEN [links[l] EXCEPT !.pc = "operate"] ELSE Unlinked)
    /\ OthersSame /\ UNCHANGED work

\* InternalLease::admitted_now
AdmittedNow(link) == LinkAdmitted(link, link.request)

\* The barrier is held: check_internal_admission once more.
SubmitOperation(l) ==
    /\ links[l].pc = "operate"
    /\ IF AdmittedNow(links[l]) /\ database.open
       THEN /\ LinkTo(l, [links[l] EXCEPT !.pc = "await"])
            /\ work' = work \union {[link |-> l, op |-> NextStep(links[l]).op, number |-> active.number,
                                     peer |-> The(links[l].peer), request |-> links[l].request,
                                     at |-> now, waited |-> TRUE]}
       ELSE LinkTo(l, Unlinked) /\ UNCHANGED work
    /\ OthersSame

FinishOperation(w) ==
    /\ work' = work \ {w}
    /\ database' = IF w.op = "promote" THEN [database EXCEPT !.readonly = FALSE] ELSE database
    /\ links' = IF w.waited
                THEN [links EXCEPT ![w.link] = [@ EXCEPT !.pc = "ready", !.steps = AfterOperation(w.op)]]
                ELSE links
    /\ UNCHANGED << securityVars, conn, orders, stray, buckets >>

\* A link breaks or its deadline passes; an operation it waited for stays with the
\* database, and keeps its lease.
LoseLink(l) ==
    /\ links[l].pc # "closed" /\ (links[l].pc = "await" => Scenario.late)
    /\ ~\E w \in work : w.link = l /\ ~w.waited   \* bound: one operation left behind
    /\ LinkTo(l, Unlinked)
    /\ work' = {IF w.link = l THEN [w EXCEPT !.waited = FALSE] ELSE w : w \in work}
    /\ OthersSame

\* The task returns: nothing is left, an error, or a socket that was closed.
EndLink(l) ==
    /\ links[l].pc = "ready"
    /\ \/ ~links[l].open \/ links[l].steps = <<>>
       \/ links[l].steps # <<>> /\ NextStep(links[l]).do = "fail"
    /\ LinkTo(l, Unlinked)
    /\ OthersSame /\ UNCHANGED work

\* The watcher of register
ExpireLink(l) ==
    /\ l \in RegisteredLinks /\ links[l].open
    /\ ~Current(The(links[l].peer).validity, now)
    /\ LinkTo(l, [links[l] EXCEPT !.open = FALSE])
    /\ OthersSame /\ UNCHANGED work

\* Endpoint::revalidate closes synchronously, under the write lock.
RevalidatedLinks(replacement) ==
    [l \in Links |->
        IF l \in RegisteredLinks /\ ~RevalidatePeer(The(replacement.internal), The(links[l].peer), now)
        THEN [links[l] EXCEPT !.open = FALSE] ELSE links[l]]

Activate ==
    /\ ~Leased
    /\ BeginActivation(Registered)
    /\ links' = IF loader'.pc = "acks" THEN RevalidatedLinks(loader.replacement) ELSE links
    /\ UNCHANGED << sessionVars, work >>

LinkStep(l) ==
    \/ LinkHandshake(l) \/ FinishRead(l) \/ FinishWrite(l) \/ SubmitOperation(l) \/ EndLink(l)

InternalNext ==
    \/ \E l \in Links :
          \/ LinkStep(l)
          \/ Link(l) \/ AdmitWrite(l) \/ BeginOperation(l) \/ LoseLink(l) \/ ExpireLink(l)
          \/ \E said \in Scenario.links[l].says :
                AdmitRead(l, W!Encode(said.message, said.version, FrameLimits))
    \/ \E w \in work : FinishOperation(w)

Init == InitSecurity /\ InitSession /\ InitInternal

Next ==
    \/ (Advance \/ Stop \/ Put \/ SecurityStep) /\ UNCHANGED << sessionVars, internalVars >>
    \/ SessionNext /\ UNCHANGED internalVars
    \/ InternalNext
    \/ Activate

Spec == Init /\ [][Next]_vars

\* The timer of the poller, the deadlines of handshakes, frames, verifications and
\* requests, and the owners that drain their queues.  None depends on another
\* while a writer keeps new leases out, so fairness among them is not needed.
Progress ==
    /\ loader.pc \in {"lock", "acks"}
    /\ \/ SecurityStep /\ UNCHANGED << sessionVars, internalVars >>
       \/ Activate
       \/ /\ \/ \E c \in Clients : SessionStep(c)
             \/ \E order \in orders : Complete(order)
             \/ StrayEnds
          /\ UNCHANGED internalVars
       \/ \E l \in Links : LinkStep(l)
       \/ \E w \in work : FinishOperation(w)

FairSpec == Spec /\ WF_vars(Progress)

(***************************************************************************)
(* Properties                                                              *)
(***************************************************************************)

\* Whatever the database has accepted and not finished was admitted by the
\* generation that is still active, which authorises every command of it, with
\* a credential or a certificate valid at that moment: a lease travels with the
\* request (ClientLease, InternalLease), past the life of its connection.
AcceptedUnderActive ==
    /\ \A order \in orders :
          /\ order.number = active.number
          /\ Valid(Users, order.proof, order.at)
          /\ \A i \in DOMAIN order.task.commands : Authorize(Users, order.proof.user, order.task.commands[i])
    /\ \A w \in work :
          /\ w.number = active.number
          /\ Current(w.peer.validity, w.at)
          /\ w.peer.inbound => \E type \in w.request :
                AuthorizeInternalRequest(Lane.policy, w.peer.certificate.uri, type)

\* Outside an activation, no socket has another certificate than the active
\* one, and a session holds nothing the active policy denies its user: no
\* identity whose credential is gone, no queued command, no watched key and no
\* channel; without an identity it holds nothing at all (apply_update,
\* acknowledge_after_close, connection.rs).
SessionMatchesPolicy ==
    loader.pc # "acks" =>
        \A c \in Clients :
            LET n == conn[c]
            IN  /\ n.pc # "closed" => n.digest = Transport.digest
                /\ n.identity = {} => n.tx = NewTransaction /\ n.subs = {}
                /\ \A proof \in n.identity :
                      LET Granted(command) == Authorize(Users, proof.user, command)
                      IN  /\ Present(Users, proof)
                          /\ \A q \in n.tx.queue : \A i \in DOMAIN q.commands : Granted(q.commands[i])
                          /\ n.tx.watched # {} => Granted(WatchOf(n.tx.watched))
                          /\ \A channel \in n.subs : Granted(SubscribeTo(channel))

\* EXEC runs the commands answered QUEUED since MULTI, all of them and nothing
\* else, through refusals, reloads and errors of the parser (Transaction::handle
\* and poison).
ExecIsWhatWasQueued ==
    \A order \in orders : order.task.kind = "exec" => order.task.commands = order.task.promised

\* The active generation is one release of the operator, never files of two
\* (Generation::validate against the manifest, read before and after).
LoadedIsWhole == \E i \in DOMAIN Releases : active = Release(i)

\* Outside an activation, a link that is still open is one the active lane
\* accepts: its own certificate, the issuer and serial of the peer, and every
\* role the peer had when it was accepted (revalidate_peer, Endpoint::revalidate).
LinkMatchesPolicy ==
    loader.pc # "acks" =>
        \A l \in RegisteredLinks :
            links[l].open =>
                LET peer == The(links[l].peer)
                IN  /\ peer.own = Lane.own
                    /\ peer.certificate.issuer \in Lane.issuers
                    /\ peer.certificate.serial \notin Lane.revoked
                    /\ IF peer.inbound THEN peer.roles \subseteq RolesOf(Lane.policy, peer.certificate.uri)
                       ELSE UpstreamIdentity(Lane.policy, peer.certificate.uri)

\* A frame written reads back as its message, and under no other transport
\* version (encode_profile, header and decode_profile, protocol.rs); only an
\* Ack is ever taken for the acknowledgement a source waits for.
FramesReadBack ==
    \A l \in Links : links[l].written # <<>> =>
        LET last == links[l].written[Len(links[l].written)]
        IN  /\ W!Decode(last.frame, Version, FrameLimits) = last.message
            /\ \A version \in 1..3 \ {Version} : W!Decode(last.frame, version, FrameLimits) = W!Invalid
            /\ last.message.type # "Ack" => W!ReadFrame(last.frame, "ReplicaAck", Version, FrameLimits) = W!Invalid

\* Outside an activation everything that is open conforms to the active generation: the
\* sessions of clients and the links of peers (activate_inner).
OpenMatchesPolicy == SessionMatchesPolicy /\ LinkMatchesPolicy

\* Every frame reads back as what was sent, and a transfer that reaches its FullEnd has sent the announced number of entries,
\* in order, between FullStart and FullEnd, whatever the limits
\* (send_snapshot, memory_connection).
ExportIsWhole ==
    /\ FramesReadBack
    /\ \A l \in Links :
         LET sent == links[l].written
         IN  \A i \in DOMAIN sent : sent[i].message.type = "FullEnd" =>
                 /\ i = Len(Scenario.data) + 3
                 /\ sent[2].message.type = "FullStart" /\ sent[2].message.entries = i - 3
                 /\ \A j \in DOMAIN Scenario.data : sent[j + 2].message = Entry(Scenario.data[j])

\* A generation is replaced only by one with a larger number, with the same lanes
\* (replacement_of, activate_inner).
GenerationAdvances ==
    [][active' # active =>
          active'.number > active.number /\ (active'.internal = {}) = (active.internal = {})]_active

\* An activation that waits for the lock comes to its end: the leases drain, and
\* every connection acknowledges or is dropped (activate_inner, Session::drop).
ActivationEnds == loader.pc = "lock" ~> loader.pc = "waiting"

=============================================================================
