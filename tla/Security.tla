------------------------------ MODULE Security ------------------------------
(***************************************************************************)
(* The runtime of security generations (security/runtime.rs): a poller     *)
(* loads the directory, an activation takes the write side of the lock     *)
(* whose read side every admitted operation holds, tells every connection, *)
(* waits for their acknowledgements and swaps the generation.              *)
(*                                                                         *)
(* The directory is rewritten by its operator one file at a time, or, in a *)
(* scenario that is not about loading, all at once.  Session and Internal  *)
(* add the holders of leases.                                              *)
(***************************************************************************)
EXTENDS Policy

CONSTANTS
    Scenarios   \* by name: releases, clients, links, requests and bounds

\* There is a release to start from, and the queue of a connection has a limit.
ASSUME ScenariosAssumption ==
    \A name \in DOMAIN Scenarios :
        /\ Scenarios[name].releases \in Seq(Range(Scenarios[name].releases))
        /\ Scenarios[name].releases # <<>>
        /\ Scenarios[name].limits.commands \in Nat

VARIABLES
    chosen,     \* the name of the scenario
    now,        \* the wall clock
    directory,  \* the release each file of the directory comes from
    loader,     \* the poller and the activation it awaits
    active,     \* the generation behind the lock
    updates,    \* connections with an update they have not read
    awaiting,   \* connections whose acknowledgement the activation awaits
    stopping    \* the server is shutting down

securityVars == << chosen, now, directory, loader, active, updates, awaiting, stopping >>

Scenario == Scenarios[chosen]
Releases == Scenario.releases

Manifest(i) ==
    [generation |-> Releases[i].number,
     files |-> [client |-> Releases[i].client, internal |-> Releases[i].internal]]
Release(i) == GenerationOf(Manifest(i), Manifest(i).files)

Waiting == [pc |-> "waiting"]

\* A waiting writer keeps new readers out: the lock is fair.
CanLease == loader.pc \notin {"lock", "acks"}

\* The server starts from the first release (StartupSecurity, ClientRuntime::new).
InitSecurity ==
    /\ chosen \in DOMAIN Scenarios
    /\ now = 0
    /\ directory = [file \in {"manifest"} \union Files |-> 1]
    /\ loader = Waiting
    /\ active = Release(1)
    /\ ValidateServer(active, active.internal # {}, Scenario.outgoing, now)
    /\ updates = {}
    /\ awaiting = {}
    /\ stopping = FALSE

Advance ==
    /\ now < Scenario.maxTime
    /\ now' = now + 1
    /\ UNCHANGED << chosen, directory, loader, active, updates, awaiting, stopping >>

Stop ==
    /\ Scenario.stops /\ ~stopping
    /\ stopping' = TRUE
    /\ UNCHANGED << chosen, now, directory, loader, active, updates, awaiting >>

\* The operator's next version of the files, in any order.
Put ==
    /\ \E some \in IF Scenario.whole THEN {DOMAIN directory} ELSE {{file} : file \in DOMAIN directory} :
          /\ \A file \in some : directory[file] < Len(Releases)
          /\ directory' = [file \in DOMAIN directory |->
                             IF file \in some THEN directory[file] + 1 ELSE directory[file]]
    /\ UNCHANGED << chosen, now, loader, active, updates, awaiting, stopping >>

---------------------------------------------------------------------------
\* Loading

\* Generation::server; a load that fails is tried again on the next tick.
Loaded(before, after, files) ==
    IF Validate(before, after, files, Scenario.outgoing, now)
    THEN [pc |-> "lock", replacement |-> GenerationOf(before, files)]
    ELSE Waiting

\* Nobody writes between two reads of a directory replaced as a whole: one step.
PollTick ==
    /\ loader.pc = "waiting" /\ ~stopping
    /\ Len(Releases) > 1   \* bound: a directory nobody rewrites is not polled
    /\ loader' = LET before == Manifest(directory.manifest)
                 IN  IF Scenario.whole THEN Loaded(before, before, before.files)
                     ELSE [pc |-> "client", before |-> before]
    /\ UNCHANGED << chosen, now, directory, active, updates, awaiting, stopping >>

ReadClientFiles ==
    /\ loader.pc = "client"
    /\ loader' = [pc |-> "internal", before |-> loader.before,
                  client |-> Manifest(directory.client).files.client]
    /\ UNCHANGED << chosen, now, directory, active, updates, awaiting, stopping >>

ReadInternalFiles ==
    /\ loader.pc = "internal"
    /\ loader' = [pc |-> "manifest", before |-> loader.before,
                  files |-> [client |-> loader.client,
                             internal |-> Manifest(directory.internal).files.internal]]
    /\ UNCHANGED << chosen, now, directory, active, updates, awaiting, stopping >>

\* The manifest once more
ReadManifestAgain ==
    /\ loader.pc = "manifest"
    /\ loader' = Loaded(loader.before, Manifest(directory.manifest), loader.files)
    /\ UNCHANGED << chosen, now, directory, active, updates, awaiting, stopping >>

---------------------------------------------------------------------------
\* Activation

\* The lanes of the listeners stay, the number grows, and every certificate is
\* still current once the lock is held.
Replaceable(replacement) ==
    /\ (replacement.internal # {}) = (active.internal # {})
    /\ ~Unchanged(replacement, active)
    /\ ReplacementOf(replacement, active)
    /\ Current(replacement.client.transport, now)
    /\ \A lane \in replacement.internal : Current(LaneValidity(lane), now)

\* The write lock is held: every registered connection is sent the update.  An
\* activation refused leaves everything as it was.
BeginActivation(registered) ==
    /\ loader.pc = "lock"
    /\ IF Replaceable(loader.replacement)
       THEN /\ loader' = [loader EXCEPT !.pc = "acks"]
            /\ updates' = registered
            /\ awaiting' = registered
       ELSE /\ loader' = Waiting
            /\ UNCHANGED << updates, awaiting >>
    /\ UNCHANGED << chosen, now, directory, active, stopping >>

Swap ==
    /\ loader.pc = "acks" /\ awaiting = {}
    /\ active' = loader.replacement
    /\ loader' = Waiting
    /\ UNCHANGED << chosen, now, directory, updates, awaiting, stopping >>

SecurityStep ==
    PollTick \/ ReadClientFiles \/ ReadInternalFiles \/ ReadManifestAgain \/ Swap

=============================================================================
