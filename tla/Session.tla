------------------------------- MODULE Session -------------------------------
(***************************************************************************)
(* Protected client connections (connection.rs): the loop that reads an    *)
(* update, a shutdown or a lease, what one request does under the lease,   *)
(* authentication (security/auth.rs) with its permits and address budgets, *)
(* and the orders a connection leaves with the database.                   *)
(*                                                                         *)
(* A connection at "top" holds no lease; from "ready" to the end of its    *)
(* request it does, and so does an order the database has accepted, after  *)
(* its connection is gone as well.  What the orders do to the data is in   *)
(* Owners and Dataset, the delivery of messages in PubSub.                 *)
(***************************************************************************)
EXTENDS Security, Transaction

CONSTANTS
    BUCKET_TOKENS,   \* failures an address may spend
    REFILL,          \* seconds for one more, and until a bucket is idle
    MAX_BUCKETS,     \* addresses remembered
    MAX_FAILURES,    \* failures that close a connection
    RUNNING,         \* verifications that run at once
    ADMITTED         \* verifications admitted, running ones included

ASSUME BudgetAssumption ==
    {BUCKET_TOKENS, REFILL, MAX_BUCKETS, MAX_FAILURES, RUNNING, ADMITTED} \subseteq Nat \ {0}

VARIABLES
    conn,       \* the connection of each client
    orders,     \* operations the database has accepted
    stray,      \* verifications that outlived their deadline
    buckets,    \* failures left, by address
    database    \* open to requests, and readonly

sessionVars == << conn, orders, stray, buckets, database >>

Clients == DOMAIN Scenario.clients
Address(c) == Scenario.clients[c].address
Limits == Scenario.limits
Users == active.client.users
Transport == active.client.transport

Disconnected ==
    [pc |-> "closed", digest |-> "none", identity |-> {}, ever |-> FALSE, failures |-> 0,
     protocol |-> 2, tx |-> NewTransaction, subs |-> {}, task |-> {}]

InitSession ==
    /\ conn = [c \in Clients |-> Disconnected]
    /\ orders = {}
    /\ stray = 0
    /\ buckets = <<>>
    /\ database = [open |-> TRUE, readonly |-> Scenario.readonly]

Registered == {c \in Clients : conn[c].pc \notin {"closed", "handshake"}}

\* Mutant: an order gives its lease back when it is accepted.
ClientLeasedShort ==
    \E c \in Clients : conn[c].pc \in {"handshake", "ready", "queue", "verify", "submit"}

ClientLeased ==
    \/ orders # {}
    \/ \E c \in Clients : conn[c].pc \in {"handshake", "ready", "queue", "verify", "submit"}

To(c, n) == conn' = [conn EXCEPT ![c] = n]
Continue(n) == [n EXCEPT !.pc = "top", !.task = {}]
\* The stream and the local state are dropped before the session is.
Leave(n) == [Disconnected EXCEPT !.pc = "closing", !.digest = n.digest]
Reset(n) == [n EXCEPT !.identity = {}, !.tx = NewTransaction, !.subs = {}]
Expired(n) == \E proof \in n.identity : ~Valid(Users, proof, now)
Refreshed(n) == IF Expired(n) THEN Reset(n) ELSE n
User(n) == The(n.identity).user

SubscribeTo(channel) == [name |-> "SUBSCRIBE", keys |-> {}, channels |-> {channel}, sections |-> {}]

---------------------------------------------------------------------------
\* The life of a connection

\* The handshake runs under a lease, which registers the session as well.
Accept(c) ==
    /\ conn[c].pc = "closed" /\ CanLease /\ ~stopping
    /\ Current(Transport, now)
    /\ To(c, [Disconnected EXCEPT !.pc = "handshake", !.digest = Transport.digest])
    /\ UNCHANGED << securityVars, orders, stray, buckets, database >>

Handshake(c) ==
    /\ conn[c].pc = "handshake"
    /\ \E complete \in BOOLEAN :
          To(c, IF complete THEN Continue(conn[c]) ELSE Disconnected)
    /\ UNCHANGED << securityVars, orders, stray, buckets, database >>

\* Mutant: the acknowledgement does not wait for the socket.
AcknowledgesEarly(close) == TRUE

\* acknowledge_cleanup, or the session's drop
Acknowledges(close) == ~close

\* What is left of a session under the replacement, and whether it is closed.
Removed(n, update) ==
    \/ n.digest # update.transport.digest
    \/ \E proof \in n.identity : ~Present(update.users, proof)

RevalidateSession(n, users, user) ==
    [n EXCEPT !.tx = Revalidate(@, users, user),
              !.subs = {channel \in @ : Authorize(users, user, SubscribeTo(channel))}]

Updated(n, update, close) ==
    CASE close -> Leave(n)
      [] ~close /\ n.identity = {} -> n
      [] OTHER -> IF Valid(update.users, The(n.identity), now)
                  THEN RevalidateSession(n, update.users, User(n)) ELSE Reset(n)

ApplyUpdate(c) ==
    /\ conn[c].pc = "top" /\ c \in updates
    /\ \E close \in {Removed(conn[c], loader.replacement.client)} :
          /\ To(c, Updated(conn[c], loader.replacement.client, close))
          /\ updates' = updates \ {c}
          /\ awaiting' = IF Acknowledges(close) THEN awaiting \ {c} ELSE awaiting
    /\ UNCHANGED << chosen, now, directory, loader, active, stopping, orders, stray, buckets, database >>

\* Mutant: a session dropped leaves its acknowledgements unsent.
AcknowledgeDropLost(c) == UNCHANGED awaiting

\* The close acknowledgements, and the update nobody will read.
AcknowledgeDrop(c) == awaiting' = awaiting \ {c}

DropSession(c) ==
    /\ conn[c].pc = "closing"
    /\ To(c, Disconnected)
    /\ updates' = updates \ {c}
    /\ AcknowledgeDrop(c)
    /\ UNCHANGED << chosen, now, directory, loader, active, stopping, orders, stray, buckets, database >>

\* The top of the loop.  No lease is to be had while an update waits to be read.
Lease(c) ==
    /\ conn[c].pc = "top" /\ (stopping \/ CanLease)
    /\ To(c, IF stopping \/ conn[c].digest # Transport.digest \/ ~Current(Transport, now)
             THEN Leave(conn[c])
             ELSE [Refreshed(conn[c]) EXCEPT !.pc = "ready"])
    /\ UNCHANGED << securityVars, orders, stray, buckets, database >>

\* End of input, a failed write, an eviction, a frame or authentication deadline.
Disconnect(c) ==
    /\ conn[c].pc \in {"top", "ready"}
    /\ To(c, Leave(conn[c]))
    /\ UNCHANGED << securityVars, orders, stray, buckets, database >>

\* No complete frame: the lease is dropped before waiting for input.
NoFrame(c) ==
    /\ conn[c].pc = "ready"
    /\ To(c, Continue(conn[c]))
    /\ UNCHANGED << securityVars, orders, stray, buckets, database >>

---------------------------------------------------------------------------
\* The budget of an address

Refilled(b) ==
    LET elapsed == (now - b.refill) \div REFILL
    IN  [b EXCEPT !.tokens = Earlier(@ + elapsed, BUCKET_TOKENS), !.refill = @ + elapsed * REFILL]

Oldest(table, idle) ==
    CHOOSE peer \in idle : \A other \in idle : table[peer].touched <= table[other].touched

Idle(table) == {peer \in DOMAIN table : now - table[peer].touched >= REFILL}

\* AddressBudget::available, which refills a bucket and may forget an idle one.
Available(table, peer) ==
    CASE peer \in DOMAIN table ->
           [table |-> [table EXCEPT ![peer] = Refilled(@)], ok |-> Refilled(table[peer]).tokens > 0]
      [] peer \notin DOMAIN table /\ Cardinality(DOMAIN table) < MAX_BUCKETS ->
           [table |-> table, ok |-> TRUE]
      [] OTHER -> IF Idle(table) = {} THEN [table |-> table, ok |-> FALSE]
                  ELSE [table |-> Restrict(table, DOMAIN table \ {Oldest(table, Idle(table))}), ok |-> TRUE]

Spend(table, peer) ==
    LET b == IF peer \in DOMAIN table THEN table[peer] ELSE [tokens |-> BUCKET_TOKENS, refill |-> now]
    IN  [p \in DOMAIN table \union {peer} |->
            IF p = peer
            THEN [tokens |-> IF b.tokens = 0 THEN 0 ELSE b.tokens - 1, refill |-> b.refill, touched |-> now]
            ELSE table[p]]

SpendIfAvailable(budget, peer) == IF budget.ok THEN Spend(budget.table, peer) ELSE budget.table
Failure(table, peer) == SpendIfAvailable(Available(table, peer), peer)

---------------------------------------------------------------------------
\* AUTH and HELLO

\* hello.rs: the version and the credentials of a control request, or its error.
Control(error, version, credentials) ==
    [error |-> error, version |-> version, credentials |-> credentials]

ParseAuth(words) ==
    IF Len(words) # 3 THEN Control("WrongArity", {}, {})
    ELSE Control("none", {}, {[user |-> words[2], password |-> words[3]]})

ParseHelloAuth(words) ==
    LET version == IF Len(words) = 1 THEN {} ELSE {words[2]}
    IN  IF ~(version \subseteq {2, 3}) THEN Control("UnsupportedProtocolVersion", {}, {})
        ELSE IF Len(words) <= 2 THEN Control("none", version, {})
        ELSE IF words[3] # "AUTH" THEN Control("UnsupportedHelloOptions", {}, {})
        ELSE IF Len(words) # 5 THEN Control("Syntax", {}, {})
        ELSE Control("none", version, {[user |-> words[4], password |-> words[5]]})

ParseControl(request) ==
    IF ~request.bulk THEN Control("InvalidFormat", {}, {})
    ELSE IF request.words[1] = "AUTH" THEN ParseAuth(request.words) ELSE ParseHelloAuth(request.words)

\* The reply is written; a connection that failed too often, or whose address
\* has nothing left, is closed.
Settle(c, n, table) ==
    \E budget \in {IF n.failures >= MAX_FAILURES THEN [table |-> table, ok |-> FALSE]
                   ELSE Available(table, Address(c))} :
        /\ buckets' = budget.table
        /\ To(c, IF budget.ok THEN Continue(n) ELSE Leave(n))

Failed(n) == [n EXCEPT !.failures = @ + 1]
Chosen(n, version) == IF version = {} THEN n ELSE [n EXCEPT !.protocol = The(version)]

Running == stray + Cardinality({c \in Clients : conn[c].pc = "verify"})
Admitted == stray + Cardinality({c \in Clients : conn[c].pc \in {"queue", "verify"}})

\* verify_peer up to the permit; `short` passwords are refused unread.
Verifying(n, version, credentials) ==
    [n EXCEPT !.pc = "queue", !.task = {[version |-> version, user |-> credentials.user,
                                         password |-> credentials.password, proof |-> {}]}]

BeginVerify(c, n, version, credentials) ==
    \E budget \in {Available(buckets, Address(c))} :
        IF budget.ok /\ credentials.password # "short" /\ Admitted < ADMITTED
        THEN buckets' = budget.table /\ To(c, Verifying(n, version, credentials))
        ELSE Settle(c, Failed(n), IF budget.ok THEN Failure(budget.table, Address(c)) ELSE budget.table)

HandleControl(c, n, control) ==
    CASE control.error = "InvalidFormat" -> To(c, Leave(n)) /\ UNCHANGED buckets
      [] control.error = "none" /\ ~Active(n.tx) /\ control.credentials # {} ->
            BeginVerify(c, n, control.version, The(control.credentials))
      [] OTHER ->
            Settle(c, CASE Active(n.tx) -> [n EXCEPT !.tx = Poison(@)]
                        [] ~Active(n.tx) /\ (control.error # "none" \/ n.identity = {}) -> n
                        [] OTHER -> Chosen(n, control.version), buckets)

RequestControl(c, request) ==
    /\ conn[c].pc = "ready" /\ request.kind = "control"
    /\ HandleControl(c, Refreshed(conn[c]), ParseControl(request))
    /\ UNCHANGED << securityVars, orders, stray, database >>

\* The blocking job: the credentials of the user that the password verifies and
\* that are valid when it starts.
StartJob(c) ==
    /\ conn[c].pc = "queue" /\ Running < RUNNING
    /\ To(c, [conn[c] EXCEPT
                !.pc = "verify",
                !.task = {[task EXCEPT !.proof = {proof \in {[user |-> task.user, verifier |-> task.password]} :
                                                    Valid(Users, proof, now)}] : task \in @}])
    /\ UNCHANGED << securityVars, orders, stray, buckets, database >>

\* Identity, protocol and local state change together, after verification.
Authenticated(n, task) ==
    Chosen([Reset(n) EXCEPT !.identity = task.proof, !.ever = TRUE, !.failures = 0], task.version)

FinishJob(c) ==
    /\ conn[c].pc = "verify"
    /\ \E task \in conn[c].task :
          IF \E proof \in task.proof : Valid(Users, proof, now)
          THEN Settle(c, Authenticated(conn[c], task), Restrict(buckets, DOMAIN buckets \ {Address(c)}))
          ELSE Settle(c, Failed(conn[c]), Failure(buckets, Address(c)))
    /\ UNCHANGED << securityVars, orders, stray, database >>

\* The job keeps its permits when nobody waits for it any more.
VerifyDeadline(c) ==
    /\ conn[c].pc \in {"queue", "verify"}
    /\ stray' = IF conn[c].pc = "verify" THEN stray + 1 ELSE stray
    /\ Settle(c, Failed(conn[c]), Failure(buckets, Address(c)))
    /\ UNCHANGED << securityVars, orders, database >>

StrayEnds ==
    /\ stray > 0
    /\ stray' = stray - 1
    /\ UNCHANGED << securityVars, conn, orders, buckets, database >>

---------------------------------------------------------------------------
\* Requests

\* A frame that is no request, an unknown section of INFO, or an error of the
\* parser: the queue is poisoned, and a malformed request ends the connection.
HandleRefused(n, request) ==
    IF request.protocol \/ (request.fatal /\ n.identity # {}) THEN Leave(n)
    ELSE Continue([n EXCEPT !.tx = Poison(@)])

RequestRefused(c, request) ==
    /\ conn[c].pc = "ready" /\ request.kind = "refused"
    /\ To(c, HandleRefused(Refreshed(conn[c]), request))
    /\ UNCHANGED << securityVars, orders, stray, buckets, database >>

\* What the loop does with a command outside the queue.
Local == {"SUBSCRIBE", "UNSUBSCRIBE", "INFO", "PUBLISH"}
Subscribed(n) == n.subs # {} /\ n.protocol = 2

\* UNSUBSCRIBE without channels leaves them all.
Unsubscribed(subs, channels) == IF channels = {} THEN {} ELSE subs \ channels

Execute(n, command) ==
    CASE command.name = "SUBSCRIBE" ->
            Continue(IF Cardinality(n.subs \union command.channels) > Limits.channels THEN n
                     ELSE [n EXCEPT !.subs = @ \union command.channels])
      [] command.name = "UNSUBSCRIBE" ->
            Continue([n EXCEPT !.subs = Unsubscribed(@, command.channels)])
      [] OTHER ->
            IF Subscribed(n) \/ command.name \in Local THEN Continue(n)
            ELSE [n EXCEPT !.pc = "submit", !.task = {[kind |-> "execute", commands |-> <<command>>]}]

\* The action of the transaction; EXEC authorises every queued command again.
Perform(n, command, handled) ==
    CASE handled.action = "Reply" -> Continue([n EXCEPT !.tx = handled.tx])
      [] handled.action = "Exec" ->
            IF \E i \in DOMAIN handled.commands : ~Authorize(Users, User(n), handled.commands[i])
            THEN Continue([n EXCEPT !.tx = handled.tx])
            ELSE [n EXCEPT !.pc = "submit", !.tx = handled.tx,
                           !.task = {[kind |-> "exec", commands |-> handled.commands,
                                      promised |-> handled.promised, watched |-> handled.watched]}]
      [] handled.action = "Watch" ->
            [n EXCEPT !.pc = "submit",
                      !.task = {[kind |-> "watch", commands |-> <<command>>, keys |-> handled.keys,
                                 shard |-> handled.shard, crossed |-> handled.crossed]}]
      [] OTHER -> Execute(n, command)

HandleCommand(n, command) ==
    CASE n.identity = {} -> Continue(n)
      [] n.identity # {} /\ ~database.open -> Leave(n)
      [] OTHER ->
            IF \/ ~Authorize(Users, User(n), command)
               \/ Active(n.tx) /\ command.name \in Local \ {"INFO"}
            THEN Continue([n EXCEPT !.tx = Poison(@)])
            ELSE IF Subscribed(n) THEN Execute(n, command)
            ELSE Perform(n, command, Handle(n.tx, command, Limits, database.readonly))

RequestCommand(c, request) ==
    /\ conn[c].pc = "ready" /\ request.kind = "command"
    /\ To(c, HandleCommand(Refreshed(conn[c]), request.command))
    /\ UNCHANGED << securityVars, orders, stray, buckets, database >>

---------------------------------------------------------------------------
\* Orders

Owner(commands, watched) ==
    {Limits.shard[key] : key \in watched \union UNION {commands[i].keys : i \in DOMAIN commands}}

Order(c, n, task) ==
    [client |-> c, proof |-> The(n.identity), number |-> active.number, at |-> now, waited |-> TRUE,
     task |-> task]

\* Requests the database does not take: the connection ends.
NotTaken(task) ==
    \/ stopping \/ ~database.open \/ ~Current(Transport, now)
    \/ /\ task.kind = "exec" /\ database.readonly
       /\ Cardinality(Owner(task.commands, task.watched)) > 1

\* The request has its place in the queue of an owner, or the write side of the
\* barrier: the last check of the credential and the certificate.
Submit(c) ==
    /\ conn[c].pc = "submit"
    /\ \E task \in conn[c].task, refused \in {NotTaken(The(conn[c].task))} :
          IF refused \/ Expired(conn[c])
          THEN /\ To(c, IF refused THEN Leave(conn[c]) ELSE Continue(Reset(conn[c])))
               /\ UNCHANGED orders
          ELSE /\ orders' = orders \union {Order(c, conn[c], task)}
               /\ To(c, [conn[c] EXCEPT !.pc = "await", !.task = {}])
    /\ UNCHANGED << securityVars, stray, buckets, database >>

\* The tokens of a WATCH come with its answer.
Returned(n, task, granted) ==
    IF task.kind = "watch" /\ granted
    THEN Continue([n EXCEPT !.tx = Watched(@, task.keys, task.shard, task.crossed)])
    ELSE Continue(n)

\* The owner has finished.
Complete(order) ==
    /\ orders' = orders \ {order}
    /\ \E granted \in BOOLEAN :
          IF order.waited THEN To(order.client, Returned(conn[order.client], order.task, granted))
          ELSE UNCHANGED conn
    /\ UNCHANGED << securityVars, stray, buckets, database >>

\* The deadline of the request; the order is no longer the connection's.
Timeout(c) ==
    /\ conn[c].pc = "await" /\ Scenario.late
    /\ ~\E order \in orders : order.client = c /\ ~order.waited   \* bound: one order left behind
    /\ To(c, Leave(conn[c]))
    /\ orders' = {IF order.client = c THEN [order EXCEPT !.waited = FALSE] ELSE order : order \in orders}
    /\ UNCHANGED << securityVars, stray, buckets, database >>

\* An incomplete publication, and a promotion.
DatabaseChanges ==
    /\ database' \in Scenario.databases \ {database}
    /\ database.open
    /\ ~database.readonly => ~database'.readonly
    /\ UNCHANGED << securityVars, conn, orders, stray, buckets >>

SessionStep(c) ==
    \/ Handshake(c) \/ ApplyUpdate(c) \/ DropSession(c) \/ Lease(c) \/ NoFrame(c)
    \/ StartJob(c) \/ FinishJob(c) \/ Submit(c)

SessionNext ==
    \/ \E c \in Clients :
          \/ SessionStep(c)
          \/ Accept(c) \/ Disconnect(c) \/ VerifyDeadline(c) \/ Timeout(c)
          \/ \E request \in Scenario.clients[c].requests :
                RequestControl(c, request) \/ RequestRefused(c, request) \/ RequestCommand(c, request)
    \/ \E order \in orders : Complete(order)
    \/ StrayEnds
    \/ DatabaseChanges

=============================================================================
