-------------------------------- MODULE Aof --------------------------------
(***************************************************************************)
(* The append-only file and the thread that owns it                        *)
(* (persistence/writer.rs): one process at a time holds the directory, the *)
(* writer thread appends one record per request, a helper thread writes    *)
(* compaction snapshots, and the process may die, or the machine lose      *)
(* power, between any two system calls.                                    *)
(*                                                                         *)
(* A dataset is represented by the history that built it: the sequence of  *)
(* batches applied since sequence zero.  A snapshot of a dataset therefore *)
(* is a history too, and the writer's sequence number is its length.       *)
(***************************************************************************)
EXTENDS Naturals, Sequences

CONSTANTS
    Batch,       \* the resolved batches owners may ask to append
    Images,      \* histories of the datasets a replica may be told to install
    Policies,    \* the SyncPolicy values a process may be configured with
    Failures,    \* which failures happen: a subset of {"process", "power"}
    MaxSequence, \* bound on the sequence number
    MaxGen,      \* bound on the generation number
    MaxDelta     \* max_delta_bytes, in records

ASSUME PoliciesAssumption == Policies \subseteq {"always", "periodic"}
ASSUME FailuresAssumption == Failures \subseteq {"process", "power"}
ASSUME BoundsAssumption == MaxSequence \in Nat /\ MaxGen \in Nat /\ MaxDelta \in Nat
ASSUME ImagesAssumption == Images \subseteq Seq(Batch)

VARIABLES
    dir,         \* generations a directory listing shows
    durableDir,  \* generations the last directory sync made permanent
    files,       \* content of each generation file
    phase,       \* where the writer thread is
    gen,         \* Writer.generation
    sequence,    \* Writer.sequence
    replication, \* role in Writer.replication, "none" without metadata
    dirty,       \* Writer.dirty
    journal,     \* head of the attached journal, NoJournal without one
    synced,      \* AofDiagnostics.synced_sequence
    compaction,  \* Writer.compaction
    policy,      \* SyncPolicy, fixed by the configuration
    served,      \* the history the owners serve: every batch acknowledged
    pending      \* what the owners will serve once the current request is answered

disk == <<dir, durableDir, files>>
writer == <<gen, sequence, replication, dirty, journal, synced>>
owners == <<served, pending>>
vars == <<disk, phase, writer, compaction, policy, owners>>

Gen == 0..MaxGen
Roles == {"none", "primary", "replica"}
NoJournal == MaxSequence + 1

\* A generation file.  The snapshot stands for the first `base` batches of the
\* history and the records for the others; the first `synced` have reached the
\* device; a torn file ends in part of a record.
File == [base : Nat, history : Seq(Batch), synced : Nat, torn : BOOLEAN, role : Roles]

\* A file written from scratch and synchronised before it is renamed into place.
Published(base, history, role) ==
    [base |-> base, history |-> history, synced |-> Len(history),
     torn |-> FALSE, role |-> role]

\* Without a compaction `state` is "none".  The helper thread goes from
\* "writing" to "ready", or to "error" when it could not write its snapshot.
Compaction == [state : {"none", "writing", "ready", "error"}, snapshot : Seq(Batch),
               delta : Seq(Batch), aborted : BOOLEAN, role : Roles]

NoCompaction ==
    [state |-> "none", snapshot |-> <<>>, delta |-> <<>>, aborted |-> FALSE, role |-> "none"]

\* The generation recovery selects: the highest name in the directory.
IsLatest(g, d) == g \in d /\ \A h \in d : h <= g

Init ==
    /\ dir = {} /\ durableDir = {}
    /\ files = [g \in Gen |-> Published(0, <<>>, "none")]
    /\ phase = "down"
    /\ gen = 0 /\ sequence = 0 /\ replication = "none"
    /\ dirty = FALSE /\ journal = NoJournal /\ synced = 0
    /\ compaction = NoCompaction
    /\ policy \in Policies
    /\ served = <<>> /\ pending = <<>>

(***************************************************************************)
(* Recovery: load_profile                                                  *)
(***************************************************************************)

\* An empty directory gets generation 0: written, synchronised, renamed...
CreateInitial ==
    /\ phase = "down" /\ dir = {}
    /\ files' = [files EXCEPT ![0] = Published(0, <<>>, "none")]
    /\ dir' = {0}
    /\ phase' = "created"
    /\ UNCHANGED <<durableDir, writer, compaction, owners>>

\* ...and the directory synchronised, before the file is opened for replay.
SyncInitialDirectory ==
    /\ phase = "created"
    /\ durableDir' = dir
    /\ phase' = "load"
    /\ UNCHANGED <<dir, files, writer, compaction, owners>>

\* Replay of the latest generation, which must be sealed.  Only a file with an
\* incomplete tail is truncated and synchronised; a complete one is not.
Recover ==
    /\ phase = "load" \/ (phase = "down" /\ dir # {})
    /\ \E g \in dir :
         /\ IsLatest(g, dir)
         /\ Len(files[g].history) >= files[g].base
         /\ gen' = g
         /\ sequence' = Len(files[g].history)
         /\ replication' = files[g].role
         /\ synced' = Len(files[g].history)
         /\ served' = files[g].history
         /\ pending' = files[g].history
         /\ files' = IF files[g].torn
                     THEN [files EXCEPT ![g].torn = FALSE, ![g].synced = Len(files[g].history)]
                     ELSE files
    /\ dirty' = FALSE
    /\ journal' = NoJournal
    /\ phase' = "recv"
    /\ UNCHANGED <<dir, durableDir, compaction>>

(***************************************************************************)
(* The request loop: Writer::run                                           *)
(***************************************************************************)

\* What one more record does to a compaction in progress (append_encoded).
DeltaAfter(c, b) ==
    IF c.state = "none" \/ c.aborted THEN c
    ELSE IF Len(c.delta) + 1 > MaxDelta
         THEN [c EXCEPT !.aborted = TRUE, !.delta = <<>>]
         ELSE [c EXCEPT !.delta = Append(@, b)]

\* append_encoded up to the write: the record is in the file, not yet on the device.
WriteRecord(b) ==
    /\ files' = [files EXCEPT ![gen].history = Append(@, b)]
    /\ sequence' = sequence + 1
    /\ dirty' = TRUE
    /\ compaction' = DeltaAfter(compaction, b)
    /\ pending' = Append(served, b)
    /\ phase' = "written"
    /\ UNCHANGED <<dir, durableDir, gen, replication, journal, synced, served>>

\* Request::Append and AppendMemory, which the owners do not send on a replica.
AppendBatch(b) ==
    /\ phase = "recv" /\ replication # "replica"
    /\ sequence < MaxSequence
    /\ WriteRecord(b)

\* Request::Replicate and ReplicateMemory: a batch at the upstream's sequence s,
\* refused without effect unless it follows the file's on a replica.
Replicate(s, b) ==
    /\ phase = "recv" /\ sequence < MaxSequence
    /\ s = sequence + 1 /\ replication = "replica"
    /\ WriteRecord(b)

\* Mutant: a partial write is treated like FormatError::Limit and the loop goes on.
AppendTornSurvived ==
    /\ phase = "recv" /\ sequence < MaxSequence
    /\ files' = [files EXCEPT ![gen].torn = TRUE]
    /\ phase' = "tick"
    /\ UNCHANGED <<dir, durableDir, writer, compaction, owners>>

\* A write that fails leaves part of the record behind, and ends the thread.
AppendTorn ==
    /\ phase = "recv" /\ sequence < MaxSequence
    /\ files' = [files EXCEPT ![gen].torn = TRUE]
    /\ phase' = "failed"
    /\ UNCHANGED <<dir, durableDir, writer, compaction, owners>>

\* Mutant: the diagnostics are updated although sync_all was not called.
SyncFileReportedOnly ==
    /\ dirty' = FALSE
    /\ synced' = sequence
    /\ UNCHANGED <<disk, gen, sequence, replication, journal>>

\* Writer::sync: everything in the current file reaches the device.
SyncFile ==
    /\ files' = [files EXCEPT ![gen].synced = Len(files[gen].history)]
    /\ dirty' = FALSE
    /\ synced' = sequence
    /\ UNCHANGED <<dir, durableDir, gen, sequence, replication, journal>>

SyncRecord ==
    /\ phase = "written" /\ policy = "always"
    /\ SyncFile
    /\ phase' = "synced"
    /\ UNCHANGED <<compaction, owners>>

\* Mutant: the reply and the journal frame leave before the synchronisation.
ReplyAppendBeforeSync ==
    /\ phase \in {"written", "synced"}
    /\ journal' = IF journal = NoJournal THEN NoJournal ELSE sequence
    /\ served' = pending
    /\ phase' = "tick"
    /\ UNCHANGED <<disk, gen, sequence, replication, dirty, synced, compaction, pending>>

\* Mutant: under every policy the reply waits for the append's own synchronisation.
ReplyAppendAfterSync ==
    /\ phase = "synced"
    /\ journal' = IF journal = NoJournal THEN NoJournal ELSE sequence
    /\ served' = pending
    /\ phase' = "tick"
    /\ UNCHANGED <<disk, gen, sequence, replication, dirty, synced, compaction, pending>>

\* The journal gets the frame, the owner its reply; the owner then applies the batch.
ReplyAppend ==
    /\ phase = IF policy = "always" THEN "synced" ELSE "written"
    /\ journal' = IF journal = NoJournal THEN NoJournal ELSE sequence
    /\ served' = pending
    /\ phase' = "tick"
    /\ UNCHANGED <<disk, gen, sequence, replication, dirty, synced, compaction, pending>>

Flush ==
    /\ phase = "recv"
    /\ SyncFile
    /\ phase' = "tick"
    /\ UNCHANGED <<compaction, owners>>

\* Request::Journal: accepted on a primary at the writer's own position.
AttachJournal(head) ==
    /\ phase = "recv"
    /\ head = sequence /\ replication = "primary"
    /\ journal' = head
    /\ phase' = "tick"
    /\ UNCHANGED <<disk, gen, sequence, replication, dirty, synced, compaction, owners>>

\* No request for ten milliseconds.
RecvTimeout ==
    /\ phase = "recv"
    /\ phase' = "tick"
    /\ UNCHANGED <<disk, writer, compaction, owners>>

\* The last handle is gone: synchronise and stop.  The helper thread's snapshot
\* is discarded with the process.
CloseWriter ==
    /\ phase = "recv"
    /\ SyncFile
    /\ compaction' = NoCompaction
    /\ phase' = "down"
    /\ UNCHANGED owners

\* After every request and every timeout: the periodic synchronisation, if due.
Tick ==
    /\ phase = "tick"
    /\ \/ policy = "periodic" /\ dirty /\ SyncFile
       \/ UNCHANGED <<disk, writer>>
    /\ phase' = "finish"
    /\ UNCHANGED <<compaction, owners>>

(***************************************************************************)
(* Compaction: begin_compaction, its helper thread, finish_compaction      *)
(***************************************************************************)

\* Mutant: the new generation's header drops the replication metadata.
BeginCompactionWithoutRole ==
    /\ phase = "recv"
    /\ compaction.state = "none" /\ gen < MaxGen
    /\ compaction' = [state |-> "writing", snapshot |-> served, delta |-> <<>>,
                      aborted |-> FALSE, role |-> "none"]
    /\ phase' = "tick"
    /\ UNCHANGED <<disk, writer, owners>>

\* The owners send their dataset while they hold requests back, so it is what
\* they serve.  Refused without effect while another compaction runs.
BeginCompaction ==
    /\ phase = "recv"
    /\ compaction.state = "none" /\ gen < MaxGen
    /\ compaction' = [state |-> "writing", snapshot |-> served, delta |-> <<>>,
                      aborted |-> FALSE, role |-> replication]
    /\ phase' = "tick"
    /\ UNCHANGED <<disk, writer, owners>>

\* The helper thread finishes its temporary file, or fails to.
SnapshotThread ==
    /\ compaction.state = "writing" /\ phase \notin {"down", "failed"}
    /\ \E outcome \in {"ready", "error"} : compaction' = [compaction EXCEPT !.state = outcome]
    /\ UNCHANGED <<disk, phase, writer, owners>>

FinishNothing ==
    /\ phase = "finish" /\ compaction.state \in {"none", "writing"}
    /\ phase' = "recv"
    /\ UNCHANGED <<disk, writer, compaction, owners>>

\* Delta limit exceeded, or a failure before the rename: stay on the old file.
FinishAbandoned ==
    /\ phase = "finish" /\ compaction.state \in {"ready", "error"}
    /\ compaction' = NoCompaction
    /\ phase' = "recv"
    /\ UNCHANGED <<disk, writer, owners>>

\* Mutant: the records appended while the snapshot was written are not copied.
FinishPublishWithoutDelta ==
    /\ phase = "finish" /\ compaction.state = "ready" /\ ~compaction.aborted
    /\ files' = [files EXCEPT ![gen + 1] =
                    Published(Len(compaction.snapshot), compaction.snapshot, compaction.role)]
    /\ dir' = dir \cup {gen + 1}
    /\ phase' = "compacted"
    /\ UNCHANGED <<durableDir, writer, compaction, owners>>

\* Mutant: an aborted compaction, whose delta was cleared, is published all the same.
FinishPublishAborted ==
    /\ phase = "finish" /\ compaction.state = "ready"
    /\ files' = [files EXCEPT ![gen + 1] =
                    Published(Len(compaction.snapshot),
                              compaction.snapshot \o compaction.delta, compaction.role)]
    /\ dir' = dir \cup {gen + 1}
    /\ phase' = "compacted"
    /\ UNCHANGED <<durableDir, writer, compaction, owners>>

\* The delta is appended, the file synchronised and renamed to the next generation.
FinishPublish ==
    /\ phase = "finish" /\ compaction.state = "ready" /\ ~compaction.aborted
    /\ files' = [files EXCEPT ![gen + 1] =
                    Published(Len(compaction.snapshot),
                              compaction.snapshot \o compaction.delta, compaction.role)]
    /\ dir' = dir \cup {gen + 1}
    /\ phase' = "compacted"
    /\ UNCHANGED <<durableDir, writer, compaction, owners>>

\* Both publications synchronise the directory before the writer switches files.
SyncDirectory ==
    /\ phase \in {"compacted", "installed"}
    /\ durableDir' = dir
    /\ phase' = IF phase = "compacted" THEN "cutover" ELSE "replace"
    /\ UNCHANGED <<dir, files, writer, compaction, owners>>

\* One generation before the current one is kept; removing an older one may fail.
RemoveObsolete(d, g) == { d, d \ {h \in d : h + 2 = g} }

CompactionCutover ==
    /\ phase = "cutover"
    /\ gen' = gen + 1
    /\ dirty' = FALSE
    /\ synced' = sequence
    /\ dir' \in RemoveObsolete(dir, gen + 1)
    /\ compaction' = NoCompaction
    /\ phase' = "recv"
    /\ UNCHANGED <<durableDir, files, sequence, replication, journal, owners>>

(***************************************************************************)
(* Installation of a complete image: install_profile_snapshot              *)
(***************************************************************************)

\* Request::Install and InstallMemory: a replica gets its upstream's image, a
\* node that becomes primary its own.  Refused without effect during a compaction.
InstallPublish(image, role) ==
    /\ phase = "recv"
    /\ compaction.state = "none" /\ gen < MaxGen
    /\ role = "primary" => image = served
    /\ files' = [files EXCEPT ![gen + 1] = Published(Len(image), image, role)]
    /\ dir' = dir \cup {gen + 1}
    /\ pending' = image
    /\ phase' = "installed"
    /\ UNCHANGED <<durableDir, writer, compaction, served>>

\* The writer switches files; the owners, still excluded, replace their stores.
InstallReplace ==
    /\ phase = "replace"
    /\ gen' = gen + 1
    /\ sequence' = Len(files[gen + 1].history)
    /\ replication' = files[gen + 1].role
    /\ journal' = NoJournal
    /\ dirty' = FALSE
    /\ synced' = Len(files[gen + 1].history)
    /\ dir' \in RemoveObsolete(dir, gen + 1)
    /\ served' = pending
    /\ phase' = "tick"
    /\ UNCHANGED <<durableDir, files, compaction, pending>>

(***************************************************************************)
(* Failures                                                                *)
(***************************************************************************)

\* An error the loop does not survive: a failed append, synchronisation or
\* publication of a frame, or any error once the new generation has its name.
IoFailure ==
    /\ \/ phase \in {"recv", "written", "synced", "compacted", "cutover", "installed", "replace"}
       \/ phase = "tick" /\ policy = "periodic" /\ dirty
    /\ phase' = "failed"
    /\ UNCHANGED <<disk, writer, compaction, owners>>

\* The process ends, killed or after the writer failed.  What it wrote stays.
ProcessCrash ==
    /\ "process" \in Failures
    /\ phase # "down"
    /\ phase' = "down"
    /\ compaction' = NoCompaction
    /\ UNCHANGED <<disk, writer, owners>>

\* What is left of file f when only its first n batches reached the device,
\* possibly followed by part of another record.
Cut(f, n, torn) ==
    [f EXCEPT !.history = SubSeq(f.history, 1, n), !.synced = n, !.torn = torn]

\* The machine loses power.  Names added to or removed from the directory since
\* it was synchronised may or may not be there afterwards.  Only the generation
\* that recovery will select is cut: no other one is ever read again.
PowerLoss ==
    /\ "power" \in Failures
    /\ phase' = "down"
    /\ \E d \in SUBSET (dir \cup durableDir) :
         /\ dir \cap durableDir \subseteq d
         /\ dir' = d /\ durableDir' = d
         /\ \/ d = {} /\ files' = files
            \/ \E g \in d : \E n \in files[g].synced..Len(files[g].history), torn \in BOOLEAN :
                 /\ IsLatest(g, d)
                 /\ torn => files[g].torn \/ files[g].synced < Len(files[g].history)
                 /\ files' = [files EXCEPT ![g] = Cut(files[g], n, torn)]
    /\ compaction' = NoCompaction
    /\ UNCHANGED <<writer, owners>>

-----------------------------------------------------------------------------

Request ==
    \/ \E b \in Batch : AppendBatch(b) \/ \E s \in 1..MaxSequence : Replicate(s, b)
    \/ Flush
    \/ \E head \in 0..MaxSequence : AttachJournal(head)
    \/ BeginCompaction
    \/ \E image \in Images \cup {served}, role \in {"primary", "replica"} :
         InstallPublish(image, role)

\* The steps the writer thread takes by itself once it has a request or a timeout.
Loop ==
    \/ SyncRecord \/ ReplyAppend \/ RecvTimeout \/ Tick
    \/ FinishNothing \/ FinishAbandoned \/ FinishPublish
    \/ SyncDirectory \/ CompactionCutover \/ InstallReplace

Step ==
    \/ CreateInitial \/ SyncInitialDirectory \/ Recover
    \/ Request \/ Loop \/ SnapshotThread
    \/ CloseWriter
    \/ AppendTorn \/ IoFailure \/ ProcessCrash \/ PowerLoss

Next == Step /\ UNCHANGED policy

Spec == Init /\ [][Next]_vars

\* The writer thread and the helper thread are scheduled; nothing else need happen.
FairSpec ==
    /\ Spec
    /\ WF_vars((Request \/ Loop) /\ UNCHANGED policy)
    /\ WF_vars(SnapshotThread /\ UNCHANGED policy)

-----------------------------------------------------------------------------

TypeOK ==
    /\ dir \subseteq Gen /\ durableDir \subseteq Gen
    /\ files \in [Gen -> File]
    /\ phase \in {"down", "created", "load", "recv", "written", "synced", "tick", "finish",
                  "compacted", "cutover", "installed", "replace", "failed"}
    /\ gen \in Gen /\ sequence \in Nat /\ replication \in Roles
    /\ dirty \in BOOLEAN /\ journal \in Nat /\ synced \in Nat
    /\ compaction \in Compaction /\ policy \in Policies
    /\ served \in Seq(Batch) /\ pending \in Seq(Batch)

\* The history recovery would rebuild from the directory as it stands satisfies P.
WouldRecover(P(_)) ==
    IF dir = {} THEN P(<<>>) ELSE \A g \in dir : IsLatest(g, dir) => P(files[g].history)

\* Whenever the process dies, the next one rebuilds exactly the dataset the owners
\* serve, or that dataset with the one request that had not been answered applied:
\* acknowledged batches are never lost, reordered or doubled by recovery, by a
\* compaction (snapshot plus delta) or by an installation.
ServedIsRecoverable ==
    WouldRecover(LAMBDA h : h = served \/ h = pending)

\* Under SyncPolicy::Always the same holds when the machine loses power, which drops
\* what was not synchronised: the writer answers an append only after fdatasync, and
\* switches to a generation only after its file and its name are synchronised.
AlwaysIsRecoverable == policy = "always" => ServedIsRecoverable

\* The writer implements DurableLog: its steps on the files are invisible, a restart
\* finds the acknowledged history or the outstanding request's, nothing in between.
Durable ==
    INSTANCE DurableLog WITH committed <- served, offered <- pending,
                             up <- phase \notin {"down", "created", "load"}

ImplementsDurableLog == Durable!Spec

\* Under SyncPolicy::Always a frame reaches the journal, and so the replicas, only
\* once the record is on the primary's device.
JournalIsSynced ==
    policy = "always" /\ phase \notin {"down", "failed"} /\ journal # NoJournal
        => journal <= files[gen].synced

\* Under either policy a power loss may cut the end of the history, never
\* its middle, and never a batch that aof_synced_sequence had reported; under
\* SyncPolicy::Always never one that had reached the journal, and so the replicas.
SyncedSurvives ==
    /\ JournalIsSynced
    /\ phase = "down" =>
         WouldRecover(LAMBDA h :
             \/ h = pending
             \/ /\ Len(h) >= synced
                /\ Len(h) <= Len(served)
                /\ h = SubSeq(served, 1, Len(h)))

\* Nothing is ever written after an incomplete record: the loop ends with the write
\* that left it, and recovery cuts it off before the file is appended to.
NoRecordAfterTorn ==
    [][\A g \in Gen : files[g].torn /\ files'[g].torn => files'[g].history = files[g].history]_vars

\* The role belongs to the same generation as the data (docs/persistence.md): unless
\* an installation is being published, the header that recovery would find has the
\* role of the running writer.
RoleIsRecoverable ==
    phase \in {"recv", "written", "synced", "tick", "finish", "compacted", "cutover"} =>
        \A g \in dir : IsLatest(g, dir) => files[g].role = replication

\* A compaction ends, whatever requests arrive meanwhile: finish_compaction runs
\* after every request and every timeout.
CompactionEnds ==
    (compaction.state # "none") ~> (compaction.state = "none" \/ phase \in {"failed", "down"})

\* An append is answered unless the writer thread ends first.
AppendIsAnswered ==
    (phase = "written") ~> (phase \in {"tick", "failed", "down"})

\* The writer thread makes progress: compactions end and appends are answered.
WriterProgresses == CompactionEnds /\ AppendIsAnswered

\* aof_synced_sequence is "the last sequence covered by confirmed writer
\* synchronization" (docs/metrics.md): the records up to it are on the device.
SyncedIsSynchronised ==
    phase = "recv" => synced <= files[gen].synced

=============================================================================
