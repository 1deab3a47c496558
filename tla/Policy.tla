------------------------------- MODULE Policy -------------------------------
(***************************************************************************)
(* What a security generation says (security/policy.rs, generation.rs,     *)
(* transport.rs): users with their credentials and scopes, the principals  *)
(* and roles of the internal lane, the validity of the certificates, and   *)
(* when a directory of files is one complete generation.                   *)
(*                                                                         *)
(* A key or a channel is a short sequence, so that a prefix is one; a      *)
(* verifier stands for the password it verifies; a digest is injective, so *)
(* a manifest holds the files it lists; a certificate is its uri, its      *)
(* issuer, its serial number and its validity.  An instant is a number.    *)
(* An optional value is a set of at most one element.                      *)
(***************************************************************************)
EXTENDS Naturals, Sequences, FiniteSets, Functions

CONSTANTS
    MAX_OVERLAP   \* the longest overlap of a user's two credentials, 24 hours in the source

ASSUME OverlapAssumption == MAX_OVERLAP \in Nat

\* One name for every kind of command the tables of the source list.
WRITES == {"SET", "DEL", "MSET", "INCR", "MEM.PUT"}
COMMANDS ==
    WRITES \union {"GET", "MGET", "PUBLISH", "SUBSCRIBE", "MULTI", "EXEC", "DISCARD", "UNWATCH",
                   "WATCH", "INFO", "PING", "MEM.GET"}
SECTIONS == {"server", "memory"}
Roles == {"Replica", "Backup", "Monitor", "Promotion"}

Current(validity, t) == validity.from <= t /\ t < validity.until
\* certificates: a file of certificates is loaded up to its last second.
Covers(validity, t) == validity.from <= t /\ t <= validity.until
Later(a, b) == IF a > b THEN a ELSE b
Earlier(a, b) == IF a < b THEN a ELSE b
Intersect(v, w) == [from |-> Later(v.from, w.from), until |-> Earlier(v.until, w.until)]

---------------------------------------------------------------------------
\* Client policies

ValidScope(scope) == <<>> \notin scope.prefix

StartsWith(value, prefix) == Len(prefix) <= Len(value) /\ SubSeq(value, 1, Len(prefix)) = prefix

ScopePermits(scope, value) ==
    \/ scope.all
    \/ value \in scope.exact
    \/ \E prefix \in scope.prefix : StartsWith(value, prefix)

ValidCredentials(credentials) ==
    /\ Len(credentials) \in 1..2
    /\ \A i \in DOMAIN credentials : credentials[i].from < credentials[i].until
    /\ Len(credentials) = 2 =>
          LET both == Intersect(credentials[1], credentials[2])
          IN  both.until <= both.from + MAX_OVERLAP
              /\ credentials[1].verifier # credentials[2].verifier

\* users: a function from names
ParseClientPolicy(users) ==
    \A name \in DOMAIN users :
        LET user == users[name]
        IN  /\ ValidCredentials(user.credentials)
            /\ user.commands \subseteq COMMANDS
            /\ user.sections \subseteq SECTIONS
            /\ \A scope \in {user.read, user.write, user.publish, user.subscribe} : ValidScope(scope)

\* A command is its name and the keys, channels and sections it mentions.
Authorize(users, name, command) ==
    /\ name \in DOMAIN users
    /\ \/ command.name = "UNSUBSCRIBE"
       \/ LET user == users[name]
              scope == IF command.name \in WRITES THEN user.write ELSE user.read
          IN  /\ command.name \in user.commands \intersect COMMANDS
              /\ \A key \in command.keys : ScopePermits(scope, key)
              /\ CASE command.name = "PUBLISH" ->
                        \A channel \in command.channels : ScopePermits(user.publish, channel)
                   [] command.name = "SUBSCRIBE" ->
                        \A channel \in command.channels : ScopePermits(user.subscribe, channel)
                   [] command.name = "INFO" -> command.sections \subseteq user.sections
                   [] OTHER -> TRUE

\* What AUTH proves: the user and the verifier.
CredentialsOf(users, proof) ==
    IF proof.user \notin DOMAIN users THEN {}
    ELSE {c \in Range(users[proof.user].credentials) : c.verifier = proof.verifier}

Present(users, proof) == CredentialsOf(users, proof) # {}
Valid(users, proof, t) == \E c \in CredentialsOf(users, proof) : Current(c, t)

---------------------------------------------------------------------------
\* The internal lane: a uri is <<instance, principal>>

ParseInternalPolicy(policy, outgoing) ==
    /\ outgoing = (policy.upstream # {})
    /\ \A uri \in DOMAIN policy.principals :
          LET principal == policy.principals[uri]
          IN  /\ principal.roles # {}
              /\ ("Replica" \in principal.roles) = (principal.upstream # {})
              /\ principal.upstream \subseteq {policy.instance}

OwnIdentity(policy, uri) == uri[1] = policy.instance
UpstreamIdentity(policy, uri) == uri \in policy.upstream
AuthorizeRole(policy, uri, role) ==
    uri \in DOMAIN policy.principals /\ role \in policy.principals[uri].roles
RolesOf(policy, uri) == {role \in Roles : AuthorizeRole(policy, uri, role)}

AuthorizeInternalRequest(policy, uri, type) ==
    CASE type = "Hello" -> AuthorizeRole(policy, uri, "Replica")
      [] type = "Export" -> AuthorizeRole(policy, uri, "Backup")
      [] type = "StatusRequest" ->
            AuthorizeRole(policy, uri, "Monitor") \/ AuthorizeRole(policy, uri, "Promotion")
      [] type = "Promote" -> AuthorizeRole(policy, uri, "Promotion")
      [] OTHER -> FALSE

\* lane: policy, the process's own certificate, issuers trusted, serials revoked
\* and the validity the certificate, the issuers and the revocation list share.
BuildInternal(lane, t) ==
    /\ OwnIdentity(lane.policy, lane.own.uri)
    /\ Covers(lane.own, t)
    /\ lane.issuers # {} /\ Covers(lane.trusted, t)
    /\ Current(lane.listed, t)

LaneValidity(lane) == Intersect(Intersect(lane.own, lane.trusted), lane.listed)

\* The verifier of the handshake, used again for a replacement.
Verifies(lane, certificate, t) ==
    /\ certificate.issuer \in lane.issuers
    /\ certificate.serial \notin lane.revoked
    /\ Current(certificate, t)

\* What a handshake proves about a peer; inbound peers keep their roles.
PeerOf(lane, certificate, inbound) ==
    [certificate |-> certificate, inbound |-> inbound, own |-> lane.own,
     roles |-> IF inbound THEN RolesOf(lane.policy, certificate.uri) ELSE {},
     validity |-> Intersect(LaneValidity(lane), certificate)]

AcceptWithPeer(lane, certificate, t) ==
    /\ Current(LaneValidity(lane), t)
    /\ Verifies(lane, certificate, t)
    /\ RolesOf(lane.policy, certificate.uri) # {}

ConnectWithPeer(lane, certificate, t) ==
    /\ Current(LaneValidity(lane), t)
    /\ Verifies(lane, certificate, t)
    /\ UpstreamIdentity(lane.policy, certificate.uri)

RevalidatePeer(lane, peer, t) ==
    /\ lane.own = peer.own
    /\ Current(LaneValidity(lane), t)
    /\ Current(peer.validity, t)
    /\ IF peer.inbound
       THEN peer.roles \subseteq RolesOf(lane.policy, peer.certificate.uri)
       ELSE UpstreamIdentity(lane.policy, peer.certificate.uri)
    /\ Verifies(lane, peer.certificate, t)

---------------------------------------------------------------------------
\* Generations: the manifest and the files it names

Files == {"client", "internal"}

\* Mutant: the files are taken as they are found.
ValidateUnchecked(before, after, files, outgoing, t) ==
    /\ before = after
    /\ before.generation > 0
    /\ ParseClientPolicy(files.client.users) /\ Covers(files.client.transport, t)
    /\ \A lane \in files.internal : ParseInternalPolicy(lane.policy, outgoing) /\ BuildInternal(lane, t)

Validate(before, after, files, outgoing, t) ==
    /\ before = after
    /\ before.generation > 0
    /\ \A name \in Files : before.files[name] = files[name]
    /\ ParseClientPolicy(files.client.users) /\ Covers(files.client.transport, t)
    /\ \A lane \in files.internal : ParseInternalPolicy(lane.policy, outgoing) /\ BuildInternal(lane, t)

GenerationOf(manifest, files) ==
    [number |-> manifest.generation, client |-> files.client, internal |-> files.internal]

\* The whole generation is compared: equal manifests hold equal files.
Unchanged(replacement, active) == replacement = active
ReplacementOf(replacement, active) == replacement.number > active.number

ValidateServer(generation, internal, outgoing, t) ==
    /\ Current(generation.client.transport, t)
    /\ (generation.internal # {}) = internal
    /\ \A lane \in generation.internal :
          Current(LaneValidity(lane), t) /\ (lane.policy.upstream # {}) = outgoing

=============================================================================
