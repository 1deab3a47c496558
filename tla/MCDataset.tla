----------------------------- MODULE MCDataset -----------------------------
(* Small instances of Offline and Dataset: scenarios of a few keys. *)
EXTENDS Offline

NoRequests ==
    [profile |-> "legacy", shard |-> (1 :> 0 @@ 2 :> 0), quota |-> 300, requests |-> 2,
     maxTime |-> 2, budget |-> 4,
     limits |-> [bytes |-> 400, mutations |-> 3], commands |-> {}, operations |-> {},
     watched |-> {}, transactions |-> {}, jumps |-> FALSE, crashes |-> FALSE,
     tools |-> {}, damage |-> FALSE, target |-> (1 :> 0 @@ 2 :> 0), archiveBytes |-> 4000]

\* Commands
SetTo(k, text) ==
    [op |-> "SET", key |-> k, text |-> text, ttl |-> {}, keep |-> FALSE, condition |-> "none",
     get |-> FALSE]
SetFor(k, text, ms) == [SetTo(k, text) EXCEPT !.ttl = {ms}]
OnKeys(op, keys) == [op |-> op, keys |-> keys]
MSetOf(entries) == [op |-> "MSET", entries |-> entries]
IncrBy(k, n) == [op |-> "INCRBY", key |-> k, delta |-> n]
ExpireIn(k, ms) == [op |-> "EXPIRE", key |-> k, after |-> ms, seconds |-> FALSE]
OnHash(op, k, pairs) == [op |-> op, key |-> k, pairs |-> pairs]
OnList(op, k, texts, left) ==
    [op |-> op, key |-> k, texts |-> texts, left |-> left, start |-> 0, stop |-> -1]
OnSet(op, k, members) == [op |-> op, key |-> k, members |-> members]
OnZset(op, k, scored) == [op |-> op, key |-> k, scored |-> scored, start |-> -2, stop |-> -1]
Text(n) == <<"text", n>>
Num(n) == <<"int", n>>

\* Strings with deadlines, near the quota, the largest instant and a record of
\* one mutation.
Strings ==
    [NoRequests EXCEPT
        !.commands = {SetTo(1, Num(9)), SetFor(1, Text(20), 1), SetFor(2, Text(5), 1),
                      [SetTo(1, Text(40)) EXCEPT !.keep = TRUE, !.get = TRUE],
                      [SetFor(2, Num(1), 2) EXCEPT !.condition = "missing"],
                      [op |-> "GET", key |-> 1], IncrBy(1, 1), IncrBy(1, I64_MAX),
                      ExpireIn(1, 2), ExpireIn(2, 0), ExpireIn(1, I64_MAX - 1),
                      [op |-> "TTL", key |-> 1, seconds |-> FALSE],
                      [op |-> "PERSIST", key |-> 1], OnKeys("DEL", <<1, 1>>),
                      OnKeys("DEL", <<1, 2>>)},
        !.limits.mutations = 1, !.jumps = TRUE, !.crashes = TRUE]

\* Every type of collection, elements added and removed.
Collections ==
    [NoRequests EXCEPT
        !.quota = 420, !.requests = 3,
        !.commands = {OnHash("HSET", 1, <<<<1, Text(3)>>, <<1, Text(4)>>>>),
                      OnHash("HSET", 1, <<<<2, Text(1)>>>>), OnHash("HDEL", 1, <<<<1, Num(0)>>>>),
                      OnHash("HGETALL", 1, <<>>), OnHash("HGET", 1, <<<<1, Num(0)>>>>),
                      OnList("PUSH", 2, <<Text(1), Text(2)>>, TRUE), OnList("POP", 2, <<>>, FALSE),
                      OnList("LRANGE", 2, <<>>, TRUE),
                      OnSet("SADD", 1, <<1, 2, 1>>), OnSet("SREM", 1, <<1, 2>>),
                      OnSet("SMEMBERS", 1, <<>>),
                      OnZset("ZADD", 2, <<<<1, 1>>, <<2, 1>>, <<0, 2>>>>),
                      OnZset("ZREM", 2, <<<<0, 1>>>>), OnZset("ZRANGE", 2, <<>>),
                      ExpireIn(2, 1)},
        !.crashes = TRUE]

\* Two owners, transactions whose commands are split between them.
TwoOwners == (1 :> 0 @@ 2 :> 1 @@ 3 :> 0)
Transactions ==
    [NoRequests EXCEPT
        !.profile = "composed", !.shard = TwoOwners, !.target = TwoOwners, !.quota = 541,
        !.requests = 3,
        !.commands = {SetFor(1, Num(1), 1), SetTo(2, Text(30)), OnKeys("DEL", <<1>>),
                      OnHash("HSET", 3, <<<<1, Text(1)>>>>)},
        !.transactions =
            {<<MSetOf(<<<<1, Text(1)>>, <<2, Text(2)>>, <<1, Text(3)>>>>), IncrBy(1, 1)>>,
             <<OnKeys("DEL", <<2, 1, 2>>), OnKeys("EXISTS", <<1, 2, 1>>)>>,
             <<MSetOf(<<<<1, Text(1)>>, <<3, Text(2)>>, <<2, Text(150)>>>>),
               OnKeys("MGET", <<2, 1, 2, 3>>), [op |-> "UNWATCH"]>>},
        !.watched = {1, 2}, !.crashes = TRUE]

\* WATCH of a key that other requests change and that expires.
Watching ==
    [NoRequests EXCEPT
        !.requests = 4,
        !.commands = {SetFor(1, Num(1), 1), SetTo(1, Num(2)), [op |-> "GET", key |-> 1]},
        !.transactions = {<<SetTo(2, Text(2))>>},
        !.watched = {1}]

\* Vectors
Schema == [dimension |-> 1, identity |-> 1]
At1(x) == [coordinates |-> <<x>>, finite |-> TRUE]
Member(id, x, content) ==
    [id |-> id, namespace |-> 1, content |-> content, vector |-> At1(x), deadline |-> {},
     metadata |-> <<>>]
CreateOf(k) == [op |-> "MEM.CREATE", key |-> k, descriptor |-> Schema]
PutOf(k, m, ttl) ==
    [op |-> "MEM.PUT", key |-> k, descriptor |-> Schema, member |-> m, ttl |-> ttl,
     keep |-> FALSE, condition |-> "none"]
OnMember(op, k, id) == [op |-> op, key |-> k, id |-> id, after |-> 1]
SearchOf(k, x, n) ==
    [op |-> "MEM.SEARCH", key |-> k, descriptor |-> Schema, vector |-> At1(x), k |-> n,
     namespace |-> 1, metadata |-> <<>>]

\* Members with deadlines in a collection with one; a record holds two members.
Vectors ==
    [NoRequests EXCEPT
        !.profile = "memory", !.quota = 1400, !.requests = 3, !.limits.bytes = 130,
        !.operations = {CreateOf(1), PutOf(1, Member(1, 3, 0), {1}),
                        [PutOf(1, Member(2, 0, 0), {}) EXCEPT !.keep = TRUE],
                        OnMember("MEM.GET", 1, 1), OnMember("MEM.PTTL", 1, 1),
                        OnMember("MEM.EXPIRE", 1, 2), OnMember("MEM.PERSIST", 1, 1),
                        OnMember("MEM.DEL", 1, 2), SearchOf(1, 0, 2)},
        !.commands = {ExpireIn(1, 2), OnKeys("DEL", <<1>>)},
        !.crashes = TRUE, !.watched = {1}]

\* Three members, of which a search returns two.
Neighbours ==
    [NoRequests EXCEPT
        !.profile = "memory", !.quota = 1400, !.requests = 4, !.limits.bytes = 200,
        !.operations = {CreateOf(1), PutOf(1, Member(1, 3, 0), {1}), PutOf(1, Member(2, 1, 0), {}),
                        PutOf(1, Member(3, 2, 4), {2}), OnMember("MEM.PTTL", 1, 1),
                        OnMember("MEM.EXPIRE", 1, 3), SearchOf(1, 0, 2)},
        !.watched = {1}]

\* A backup taken of a running server and restored while it may be damaged.
Archives ==
    [NoRequests EXCEPT
        !.maxTime = 1, !.quota = 340,
        !.commands = {SetFor(1, Text(30), 1), SetTo(2, Text(4))},
        !.tools = {"export", "restore"}, !.damage = TRUE]

\* The same of a stopped memory directory.
VectorArchives ==
    [NoRequests EXCEPT
        !.profile = "memory", !.maxTime = 1, !.quota = 800,
        !.operations = {CreateOf(1)}, !.commands = {SetTo(2, Text(4))},
        !.tools = {"offline", "restore"}, !.damage = TRUE]

\* A directory moved to two owners and to the memory format.
Moves ==
    [NoRequests EXCEPT
        !.target = (1 :> 0 @@ 2 :> 1), !.quota = 320,
        !.commands = {SetFor(1, Text(32), 1), SetTo(2, Text(4))},
        !.tools = {"migrate"}]

\* A memory directory moved to two owners.
VectorMoves ==
    [NoRequests EXCEPT
        !.profile = "memory", !.quota = 1600, !.target = (1 :> 0 @@ 2 :> 1),
        !.operations = {CreateOf(1), PutOf(1, Member(1, 3, 0), {1})},
        !.commands = {SetTo(2, Text(4))},
        !.tools = {"migrate"}]

MCScenarios ==
    [strings |-> Strings, collections |-> Collections, transactions |-> Transactions,
     watching |-> Watching, vectors |-> Vectors, neighbours |-> Neighbours,
     archives |-> Archives, vectorArchives |-> VectorArchives, moves |-> Moves,
     vectorMoves |-> VectorMoves]
=============================================================================
