----------------------------- MODULE MCSecurity -----------------------------
(* Small instances of Internal: releases, clients and links by scenario.  In *)
(* one more scenario a connection only reads, which is Resp.                 *)
EXTENDS Internal, Resp, TLC

\* Policies
A == <<1>>
B == <<1, 2>>
Nothing == [all |-> FALSE, exact |-> {}, prefix |-> {}]
Everything == [Nothing EXCEPT !.all = TRUE]
Only(key) == [Nothing EXCEPT !.exact = {key}]
Under(key) == [Nothing EXCEPT !.prefix = {key}]
Credential(password, from, until) == [verifier |-> password, from |-> from, until |-> until]
Member(credentials) ==
    [credentials |-> credentials, commands |-> COMMANDS, read |-> Everything, write |-> Under(A),
     publish |-> Everything, subscribe |-> Everything, sections |-> {"server"}]
Certified(users, digest, until) ==
    [users |-> users, transport |-> [digest |-> digest, from |-> 0, until |-> until]]
Client(number, client) == [number |-> number, client |-> client, internal |-> {}]

\* Requests
Command(name, keys, channels, sections) ==
    [kind |-> "command",
     command |-> [name |-> name, keys |-> keys, channels |-> channels, sections |-> sections, bytes |-> 1]]
Keys(name, keys) == Command(name, keys, {}, {})
Word(name) == Keys(name, {})
Channels(name, channels) == Command(name, {}, channels, {})
Info(sections) == Command("INFO", {}, {}, sections)
Words(words) == [kind |-> "control", bulk |-> TRUE, words |-> words]
Auth(user, password) == Words(<<"AUTH", user, password>>)
Inline == [kind |-> "control", bulk |-> FALSE, words |-> <<"AUTH">>]
Refused(protocol, fatal) == [kind |-> "refused", protocol |-> protocol, fatal |-> fatal]

U == "u"
V == "v"

NoScenario ==
    [releases |-> <<Client(1, Certified(U :> Member(<<Credential("p", 0, 9)>>), "d", 9))>>,
     outgoing |-> FALSE, maxTime |-> 0, stops |-> FALSE, whole |-> TRUE, late |-> FALSE,
     clients |-> <<>>, readonly |-> FALSE, databases |-> {},
     limits |-> [commands |-> 2, bytes |-> 3, watch |-> 1, channels |-> 1, composed |-> TRUE,
                 shard |-> (A :> 0 @@ B :> 1)],
     links |-> <<>>, version |-> 1, frame |-> [frame |-> 400, record |-> 200, mutations |-> 3],
     hello |-> [sider |-> 32, record |-> 1, shards |-> 2, routing |-> 1, maxRecord |-> 200,
                maxMutations |-> 3, maxSnapshot |-> 150, cursor |-> <<>>],
     cursor |-> [epoch |-> 1, sequence |-> 5], maxDataset |-> 150,
     data |-> <<>>]

\* A queue through a release that takes a grant away.
Narrow == [Member(<<Credential("p", 0, 9)>>) EXCEPT !.write = Only(A), !.read = Only(A)]
Transactions ==
    [NoScenario EXCEPT
        !.releases = @ \o <<Client(2, Certified(U :> Narrow, "d", 9))>>,
        !.clients = ("c" :> [address |-> 1, requests |->
            {Auth(U, "p"), Word("MULTI"), Word("EXEC"), Word("DISCARD"), Keys("SET", {A}),
             Keys("SET", {B}), Keys("WATCH", {A}), Keys("WATCH", {B}), Info({"server"}), Refused(FALSE, FALSE)}])]

\* The same on a profile that refuses a second owner, and on a replica.
OneOwner ==
    [Transactions EXCEPT
        !.limits.composed = FALSE,
        !.databases = {[open |-> TRUE, readonly |-> FALSE], [open |-> FALSE, readonly |-> FALSE]},
        !.readonly = TRUE,
        !.clients.c.requests = {Auth(U, "p"), Word("MULTI"), Word("EXEC"), Keys("SET", {B}), Keys("GET", {A}),
                                Keys("MEM.PUT", {A}), Keys("WATCH", {A}), Keys("WATCH", {A, B}),
                                Info({"memory"}), Word("UNWATCH")}]

\* Two addresses, one bucket, and credentials whose time comes.
Budgets ==
    [NoScenario EXCEPT
        !.releases = <<Client(1, Certified(U :> Member(<<Credential("p", 0, 1), Credential("q", 1, 9)>>), "d", 3))>>,
        !.maxTime = 2,
        !.clients = ("c" :> [address |-> 1, requests |-> {Auth(U, "p"), Auth(U, "q"), Auth("w", "q"), Keys("GET", {A})}]
                     @@ "d" :> [address |-> 2, requests |-> {Auth(U, "short"), Auth(U, "q")}])]

\* Identities that change, and releases that replace the certificate, a
\* credential and, last, nothing: its number is not larger.
Rotation ==
    [NoScenario EXCEPT
        !.releases = <<
            Client(1, Certified(U :> Member(<<Credential("p", 0, 9)>>) @@ V :> Narrow, "d", 2)),
            Client(2, Certified(U :> Member(<<Credential("p", 0, 1), Credential("q", 0, 9)>>)
                                @@ V :> [Narrow EXCEPT !.subscribe = Nothing], "d", 2)),
            Client(3, Certified(V :> Narrow, "e", 9)),
            Client(1, Certified(U :> Member(<<Credential("p", 0, 9)>>), "d", 9))>>,
        !.maxTime = 2,
        !.clients = ("c" :> [address |-> 1, requests |->
            {Auth(U, "p"), Words(<<"HELLO", 3, "AUTH", V, "p">>), Words(<<"HELLO", 2>>), Words(<<"HELLO">>),
             Words(<<"HELLO", 4>>), Words(<<"HELLO", 3, "SETNAME">>), Words(<<"HELLO", 3, "AUTH">>),
             Words(<<"AUTH">>), Inline, Channels("SUBSCRIBE", {A}), Channels("SUBSCRIBE", {A, B}),
             Channels("UNSUBSCRIBE", {}), Channels("UNSUBSCRIBE", {A}), Channels("PUBLISH", {A}),
             Keys("GET", {A}), Refused(FALSE, TRUE), Refused(TRUE, FALSE)}])]

\* Two connections in one activation, and a shutdown.
Together ==
    [Transactions EXCEPT
        !.stops = TRUE, !.late = TRUE,
        !.releases[2] = Client(2, Certified(U :> Narrow, "e", 9)),
        !.clients = ("c" :> [address |-> 1, requests |-> {Auth(U, "p"), Keys("GET", {B})}]
                     @@ "d" :> [address |-> 1, requests |-> {Auth(U, "p"), Channels("SUBSCRIBE", {A})}])]

\* The internal lane
Me == <<"here", 1>>
Replica == <<"there", 1>>
Operator == <<"there", 2>>
Above == <<"above", 1>>
Paper(uri, serial, until) ==
    [uri |-> uri, issuer |-> "ca", serial |-> serial, from |-> 0, until |-> until]
Always == [from |-> 0, until |-> 9]
LaneOf(principals, upstream) ==
    [policy |-> [instance |-> "here", principals |-> principals, upstream |-> upstream],
     own |-> Paper(Me, 0, 9), trusted |-> Always, listed |-> Always, issuers |-> {"ca"}, revoked |-> {}]
Principals ==
    (Replica :> [roles |-> {"Replica", "Backup"}, upstream |-> {"here"}]
     @@ Operator :> [roles |-> {"Monitor", "Promotion"}, upstream |-> {}])
Both(number, lane) ==
    [number |-> number, client |-> NoScenario.releases[1].client, internal |-> {lane}]

Hello(hello) == [type |-> "Hello", hello |-> hello]
Export(type) ==
    [type |-> type, sider |-> 32, record |-> 2, header |-> 7, capabilities |-> 1,
     maxRecord |-> 200, maxSnapshot |-> 150]
Fields(m, names) == [name \in names |-> m[name]]
Says(messages, version) == {[message |-> m, version |-> version] : m \in messages}
Mutation(key, shape, bytes) == [key |-> key, shape |-> shape, value |-> key, bytes |-> bytes]

\* A backup, a replica and an operator ask; then roles and a serial are revoked.
Legacy ==
    [NoScenario EXCEPT
        !.releases = <<Both(1, LaneOf(Principals, {})),
                       Both(2, [LaneOf(Operator :> [roles |-> {"Monitor"}, upstream |-> {}], {})
                                EXCEPT !.revoked = {7}])>>,
        !.maxTime = 1,
        !.databases = {[open |-> FALSE, readonly |-> FALSE]},
        !.data = <<Mutation(1, "put", 20), Mutation(2, "put", 30)>>,
        !.links = ("r" :> [certificate |-> Paper(Replica, 7, 9), inbound |-> TRUE, says |->
                       Says({Hello(NoScenario.hello), Hello([NoScenario.hello EXCEPT !.routing = 2]),
                               Fields(Export("Export"), {"type", "sider", "maxRecord", "maxSnapshot"}),
                               Fields([Export("Export") EXCEPT !.sider = 31], {"type", "sider", "maxRecord", "maxSnapshot"}),
                               [type |-> "Ack", cursor |-> NoScenario.cursor], [type |-> "Promote"]}, 1)]
                   @@ "o" :> [certificate |-> Paper(Operator, 8, 1), inbound |-> TRUE, says |->
                       Says({[type |-> "Promote"], [type |-> "StatusRequest"]}, 1)])]

\* The memory profile: a collection in the export, and a replica promoted.
MemoryHello == [NoScenario.hello EXCEPT !.record = 2, !.cursor = <<NoScenario.cursor>>]
OfMemory ==
    [Legacy EXCEPT
        !.version = 2, !.readonly = TRUE, !.hello.record = 2, !.maxTime = 0,
        !.data = <<Mutation(1, "put", 20), Mutation(2, "image", 40)>>,
        !.links.r.says =
            Says({Hello(MemoryHello), Fields(Export("MemoryExport"), {"type", "sider", "record", "maxRecord", "maxSnapshot"}),
                    [type |-> "Ack", cursor |-> NoScenario.cursor]}, 2)
            \union Says({[type |-> "StatusRequest"]}, 1),
        !.links.o.says = Says({[type |-> "Promote"], [type |-> "StatusRequest"]}, 2)]

\* The composed profile, a transfer past its limit, and a follower of another source.
ComposedOf(hello) == [type |-> "ComposedHello", hello |-> hello @@ [header |-> 7, capabilities |-> 1]]
Composed ==
    [Legacy EXCEPT
        !.version = 3, !.outgoing = TRUE, !.maxTime = 1, !.hello = @ @@ [header |-> 7, capabilities |-> 1],
        !.releases = <<Both(1, LaneOf(Principals, {Above})), Both(2, LaneOf(Principals, {Replica}))>>,
        !.data = <<Mutation(1, "put", 20), Mutation(2, "put", 90)>>,
        !.links = ("r" :> [certificate |-> Paper(Replica, 7, 9), inbound |-> TRUE, says |->
                       Says({ComposedOf(NoScenario.hello),
                               Fields([Export("ComposedExport") EXCEPT !.record = 1], DOMAIN Export("ComposedExport")),
                               Fields([Export("ComposedExport") EXCEPT !.record = 1, !.maxSnapshot = 100],
                                      DOMAIN Export("ComposedExport")),
                               [type |-> "Ack", cursor |-> NoScenario.cursor]}, 3)]
                   @@ "u" :> [certificate |-> Paper(Above, 9, 9), inbound |-> FALSE, says |->
                       Says({ComposedOf(NoScenario.hello), [type |-> "Continue", cursor |-> NoScenario.cursor],
                               [type |-> "Batch", sequence |-> 6, value |-> 1, mutations |-> 1, bytes |-> 30],
                               [type |-> "Reject", reason |-> "Unavailable"]}, 3)])]

\* Operations whose connection is gone.
Abandoned ==
    [Legacy EXCEPT
        !.late = TRUE,
        !.links = ("o" :> [certificate |-> Paper(Operator, 8, 1), inbound |-> TRUE, says |->
                       Says({[type |-> "Promote"], [type |-> "StatusRequest"]}, 1)])]

\* A directory rewritten file by file.
Loading ==
    [Legacy EXCEPT
        !.whole = FALSE, !.links = <<>>, !.maxTime = 0,
        !.releases = <<Both(1, LaneOf(Principals, {})),
                       [Both(2, LaneOf(Principals, {})) EXCEPT !.client = Certified(U :> Narrow, "d", 9)],
                       Both(3, [LaneOf(Principals, {}) EXCEPT !.revoked = {7}])>>]

\* Frames of every kind, within the limits and one past each; then bytes that
\* are no frame, or only the beginning of one.
Leaf(kind, bytes) == Frame(kind, 0, bytes, <<>>)
Num(n) == Frame(":", n, <<>>, <<>>)
Null(kind) == Frame(kind, -1, <<>>, <<>>)
Of(kind, items) == Frame(kind, 0, <<>>, items)
Letter == Leaf("$", <<"a">>)
Terminator == Leaf("$", CRLF)
FrameStreams ==
    {<<Of("*", <<Letter, Terminator>>), Num(-12)>>, <<Leaf("$", <<>>), Null("$"), Null("*"), Of("*", <<>>)>>,
     <<Of("*", <<Of("*", <<Num(99)>>), Letter>>)>>, <<Of("*", <<Of("*", <<Of("*", <<>>)>>)>>), Num(0)>>,
     <<Of("%", <<Letter, Num(1)>>), Leaf("#", <<"t">>)>>,
     <<Of("|", <<Letter, Num(1)>>), Of("~", <<Leaf("_", <<>>)>>)>>,
     <<Of(">", <<Leaf("+", <<"a">>)>>), Leaf("-", <<"a", "b", "c", "d", "e">>)>>,
     <<Leaf("-", <<"a", "b", "c", "d", "e", "f">>), Num(0)>>,
     <<Leaf("=", <<"t", "x", "t", ":">>), Leaf("!", <<"a">>)>>,
     <<Leaf(",", <<"1", ".", "5">>), Leaf("(", <<"-", "7">>)>>,
     <<Of("*", <<Num(1), Num(2), Num(3), Num(4)>>)>>, <<Of("*", <<Num(1), Num(2), Num(3), Num(4), Num(5)>>), Num(0)>>,
     <<Leaf("$", <<"a", "a", "a", "a", "a", "a">>), Num(0)>>}
RawStreams ==
    {<<"+", "a", "LF">>, <<"+", "CR", "a">>, <<"?">>, <<":", "+", "0", "7", "CR", "LF", ":", "-", "CR", "LF">>,
     <<":", "1", "0", "0", "CR", "LF">>,
     <<":", "-", "1", "0", "0", "CR", "LF", ":", "-", "1", "0", "1", "CR", "LF">>,
     <<"$", "1", "CR", "LF", "a", "b">>, <<"*", "1", "CR", "LF", "$", "9", "CR", "LF">>,
     <<"%", "-", "1", "CR", "LF">>, <<"*", "4", "CR", "LF">>, <<"*", "9", "CR", "LF">>,
     <<"*", "2", "0", "0", "CR", "LF">>, <<"=", "4", "CR", "LF", "t", "x", "t", "a", "CR", "LF">>,
     <<",", "1", "x", "CR", "LF">>, <<"#", "x", "CR", "LF">>, <<"_", "1", "CR", "LF">>,
     <<"*", "2", "CR", "LF", "*", "0", "CR", "LF", "*", "1", "CR", "LF", "*", "1", "CR", "LF">>,
     <<"*", "1", "CR", "LF", "*", "1", "CR", "LF", "*", "0", "CR", "LF">>,
     <<"+", "a", "b", "c", "d", "e", "f">>,
     <<"*", "2", "CR", "LF", "$", "5", "CR", "LF", "a", "a", "a", "a", "a", "CR", "LF", "$", "5", "CR", "LF", "a", "a">>}
NoStream == [frames |-> <<>>, raw |-> <<>>]
MCStreams ==
    {NoStream} \union {[frames |-> f, raw |-> <<>>] : f \in FrameStreams}
               \union {[frames |-> <<Letter>>, raw |-> r] : r \in RawStreams}
MCRespLimits ==
    [max_frame_bytes |-> 24, max_bulk_bytes |-> 5, max_line_bytes |-> 8, max_nodes |-> 5, max_depth |-> 2]

MCScenarios ==
    [Transactions |-> Transactions, OneOwner |-> OneOwner, Budgets |-> Budgets, Rotation |-> Rotation,
     Together |-> Together, Legacy |-> Legacy, OfMemory |-> OfMemory, Composed |-> Composed,
     Abandoned |-> Abandoned, Loading |-> Loading, Reading |-> NoScenario]

\* The codec shares no state with the sessions, which take any request at any time.
Reading == chosen = "Reading"
MCInit == Init /\ InitResp /\ (Reading <=> stream # StreamOf(NoStream))
MCNext ==
    \/ ~Reading /\ Next /\ UNCHANGED respVars
    \/ Reading /\ RespNext /\ UNCHANGED vars
MCSpec ==
    /\ MCInit /\ [][MCNext]_<< vars, respVars >>
    /\ WF_<< vars, respVars >>(~Reading /\ Progress /\ UNCHANGED respVars)

=============================================================================
