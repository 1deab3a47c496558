------------------------------ MODULE Offline ------------------------------
(***************************************************************************)
(* Backup, verification, restoration and migration of a dataset            *)
(* (persistence/backup/, persistence/migration.rs and migration/memory.rs) *)
(* beside the server that owns it.  One tool process runs at a time; it    *)
(* works in a directory of its own and may fail or die between any two     *)
(* operations on files.  A hash or digest of a file is its content.        *)
(***************************************************************************)
EXTENDS Dataset

VARIABLES
    running,      \* the server holds its directory's lock
    tool,         \* the tool that runs, or none
    dirs,         \* directories made by tools: the files of a path, or none
    captured,     \* history: the image the tool that made a path was run on
    finished      \* history: paths whose tool reported success

toolVars == <<running, tool, dirs, captured, finished>>
allVars == <<vars, toolVars>>

Paths == {"backup", "restored", "migrated"}
NoFiles == [snapshot |-> {}, manifest |-> {}, sums |-> {}, temporary |-> {}, generation |-> {}]
Absent == {}

\* A data file: header, entries and, when complete, the seal.
DataFile(profile, sequence, layout, entries) ==
    [profile |-> profile, sequence |-> sequence, layout |-> layout, entries |-> entries,
     seal |-> {[sequence |-> sequence, count |-> Len(entries), digest |-> entries]}]
Sealed(file) == file = DataFile(file.profile, file.sequence, file.layout, file.entries)

AofHeaderBytes(profile) == IF profile = "legacy" THEN 32 ELSE IF profile = "memory" THEN 36 ELSE 64
FileBytes(file) ==
    AofHeaderBytes(file.profile) + 33
        + SumFunction([i \in DOMAIN file.entries |-> 12 + SnapshotBytes(file.entries[i])])

ManifestOf(file) ==
    [profile |-> file.profile, sequence |-> file.sequence, layout |-> file.layout,
     count |-> Len(file.entries), bytes |-> FileBytes(file), hash |-> file,
     transport |-> file.entries]
Checksums(manifest) == [manifest |-> manifest, snapshot |-> manifest.hash]

OfflineInit ==
    /\ Init
    /\ running = TRUE
    /\ tool = {}
    /\ dirs = [path \in Paths |-> Absent]
    /\ captured = [path \in Paths |-> {}]
    /\ finished = {}

---------------------------------------------------------------------------
\* Checks

\* Quotas::add over the entries: each is charged alone, as a recovery at t
\* would keep it, to the owner the layout gives it.
WithinQuotas(entries, layout, t) ==
    LET Charge(m) == MapThenSumSet(LAMBDA e : EntryBytes(e.value),
                                   ReplayedEntry(EmptyStore(0), m, t))
        Used(o) == SumFunction([i \in {j \in DOMAIN entries : layout[entries[j].key] = o} |->
                                   Charge(entries[i])])
        count == Cardinality(Range(layout))
    IN  \A o \in Range(layout) : Used(o) <= QuotaOf(scenario.quota, count, o)

\* Bytes of the frames that carry the first n entries.
TransferBytes(entries, n) == SumFunction([i \in 1..n |-> 24 + 12 + SnapshotBytes(entries[i])])

Ordered(entries) == \A i \in 1..(Len(entries) - 1) : entries[i].key < entries[i + 1].key
EntryFits(m) == SnapshotBytes(m) <= scenario.limits.bytes

\* validate_file
ValidateFile(file, manifest, t) ==
    /\ file.profile = manifest.profile
    /\ file.sequence = manifest.sequence
    /\ file.layout = manifest.layout
    /\ file = manifest.hash
    /\ Len(file.entries) = manifest.count
    /\ Ordered(file.entries)
    /\ \A i \in DOMAIN file.entries : EntryFits(file.entries[i])
    /\ WithinQuotas(file.entries, file.layout, t)
    /\ file.profile # "legacy" =>
          TransferBytes(file.entries, Len(file.entries)) <= scenario.archiveBytes
    /\ Sealed(file)
    /\ file.entries = manifest.transport

\* Manifest::parse and validate, for the profile that was asked for.
ValidManifest(manifest) ==
    /\ manifest.profile = scenario.profile
    /\ manifest.bytes \in AofHeaderBytes(manifest.profile)..scenario.archiveBytes
    /\ manifest.count <= manifest.bytes \div 12

\* Mutant: the checksums are not compared with the files that are there.
VerifyProfileUnsummed(files, layout, t) ==
    /\ files.manifest # {} /\ files.sums # {} /\ files.snapshot # {}
    /\ ValidManifest(The(files.manifest))
    /\ The(files.manifest).layout = layout
    /\ ValidateFile(The(files.snapshot), The(files.manifest), t)

\* The manifest, the checksums of both files, and the file they describe.
VerifyProfile(files, layout, t) ==
    /\ files.manifest # {} /\ files.sums # {} /\ files.snapshot # {}
    /\ ValidManifest(The(files.manifest))
    /\ The(files.manifest).layout = layout
    /\ The(files.sums) = Checksums(The(files.manifest))
    /\ ValidateFile(The(files.snapshot), The(files.manifest), t)

---------------------------------------------------------------------------
\* Steps of a tool

NoTool == tool = {}
Job == The(tool)
Files == The(dirs[Job.path])
ServerUnchanged == UNCHANGED <<vars, running>>

\* Creates the directory, which must not exist, and starts to work in it with
\* the clocks frozen.
Begin(kind, path, image, manifest) ==
    /\ kind \in scenario.tools
    /\ NoTool
    /\ dirs[path] = Absent
    /\ dirs' = [dirs EXCEPT ![path] = {NoFiles}]
    /\ tool' = {[kind |-> kind, path |-> path, step |-> "write", clock |-> clock,
                 image |-> image, manifest |-> manifest, source |-> log]}
    /\ captured' = [captured EXCEPT ![path] =
                       IF kind = "restore" THEN captured["backup"] ELSE {image}]
    /\ ServerUnchanged /\ UNCHANGED finished

\* Goes on to a step with the directory's files changed.
Continue(files, step) ==
    /\ dirs' = [dirs EXCEPT ![Job.path] = {files}]
    /\ tool' = {[Job EXCEPT !.step = step]}
    /\ ServerUnchanged /\ UNCHANGED <<captured, finished>>

\* recover_read_only: what the stopped log holds, written in some profile.
StoppedImage(loaded, profile, layout) ==
    DataFile(profile, Sequence(log), layout, SnapshotOf(loaded.value))
StoppedImages(profile, layout) ==
    {StoppedImage(loaded, profile, layout) :
        loaded \in {r \in {Load(log, scenario.shard, scenario.quota, clock)} : ~Failed(r)}}

\* client::receive: a cut of the running owners.
Export ==
    /\ running /\ Idle
    /\ \E image \in {DataFile(scenario.profile, Sequence(log), scenario.shard, Frozen)} :
          Begin("export", "backup", image, ManifestOf(image))

\* export_memory_offline: the stopped directory, under its lock.
ExportMemoryOffline ==
    /\ ~running
    /\ scenario.profile = "memory"
    /\ \E image \in StoppedImages("memory", scenario.shard) :
          Begin("offline", "backup", image, ManifestOf(image))

RestoreProfile ==
    \E files \in dirs["backup"] :
        /\ VerifyProfile(files, scenario.shard, clock)
        /\ Begin("restore", "restored", The(files.snapshot), The(files.manifest))

\* migrate_offline: a stopped legacy directory, in the same format.
MigrateOffline ==
    /\ ~running
    /\ scenario.profile = "legacy"
    /\ \E image \in StoppedImages("legacy", scenario.target) :
          /\ WithinQuotas(image.entries, scenario.target, clock)
          /\ Begin("migrate", "migrated", image, ManifestOf(image))

\* migrate_memory_offline: a legacy or a memory directory, in the memory format;
\* every record is tried before the directory is created.
MigrateMemoryOffline ==
    /\ ~running
    /\ scenario.profile \in {"legacy", "memory"}
    /\ \E image \in StoppedImages("memory", scenario.target) :
          /\ WithinQuotas(image.entries, scenario.target, clock)
          /\ \A m \in Range(image.entries) : EntryFits(m)
          /\ Begin("migrate", "migrated", image, ManifestOf(image))

\* Backups are written in place, the others under a temporary name.
InPlace == Job.kind \in {"export", "offline"}
Written == IF InPlace THEN Files.snapshot ELSE Files.temporary
WithWritten(file) ==
    IF InPlace THEN [Files EXCEPT !.snapshot = {file}] ELSE [Files EXCEPT !.temporary = {file}]

\* What is copied: a restoration reads the backup again, as it is now.
Source == IF Job.kind = "restore" THEN The(The(dirs["backup"]).snapshot) ELSE Job.image
SoFar == IF Written = {} THEN <<>> ELSE The(Written).entries

WriteRecord ==
    LET n == Len(SoFar) + 1
        m == Source.entries[n]
    IN  /\ ~NoTool /\ Job.step = "write"
        /\ n <= Len(Source.entries)
        /\ Job.kind # "restore" => EntryFits(m)
        /\ InPlace => /\ TransferBytes(Source.entries, n) <= scenario.archiveBytes
                      /\ WithinQuotas(SubSeq(Source.entries, 1, n), Source.layout, Job.clock)
        /\ Continue(WithWritten([Source EXCEPT !.entries = Append(SoFar, m), !.seal = {}]), "write")

\* The end of the file, which is then synchronised.
WriteSeal ==
    /\ ~NoTool /\ Job.step = "write"
    /\ Len(SoFar) >= Len(Source.entries)
    /\ Continue(WithWritten([Source EXCEPT !.entries = SoFar]), "check")

\* verify_file: header, entries, seal and end are those of the image.
VerifyFile(file) == file = Job.image

\* Reads back what was written: validate_file against the manifest, or for a
\* migration against the image, and the memory one's source once more.
CheckWritten ==
    /\ ~NoTool /\ Job.step = "check"
    /\ IF Job.kind = "migrate"
       THEN /\ VerifyFile(The(Written))
            /\ Job.image.profile = "memory" => Job.source = log
       ELSE /\ InPlace => ValidManifest(Job.manifest)
            /\ ValidateFile(The(Written), Job.manifest, Job.clock)
    /\ Continue(Files, IF InPlace THEN "manifest" ELSE "rename")

WriteManifest ==
    /\ ~NoTool /\ Job.step = "manifest"
    /\ Continue([Files EXCEPT !.manifest = {Job.manifest}], "sums")

WriteChecksums ==
    /\ ~NoTool /\ Job.step = "sums"
    /\ Continue([Files EXCEPT !.sums = {Checksums(Job.manifest)}], "finish")

Publish ==
    /\ ~NoTool /\ Job.step = "rename"
    /\ Continue([Files EXCEPT !.generation = Files.temporary, !.temporary = {}], "finish")

\* The directories are synchronised; from here on the tool removes nothing.
Finish ==
    /\ ~NoTool /\ Job.step = "finish"
    /\ finished' = finished \union {Job.path}
    /\ tool' = {}
    /\ ServerUnchanged /\ UNCHANGED <<dirs, captured>>

\* Drop after an error: the directory this tool created goes with its files.
Abandon ==
    /\ ~NoTool
    /\ dirs' = [dirs EXCEPT ![Job.path] = Absent]
    /\ tool' = {}
    /\ ServerUnchanged /\ UNCHANGED <<captured, finished>>

\* The tool's process dies: what it wrote so far stays.
Die ==
    /\ ~NoTool
    /\ tool' = {}
    /\ ServerUnchanged /\ UNCHANGED <<dirs, captured, finished>>

\* The backup's data file loses its last entry and its seal, or is exchanged
\* together with its manifest for those of a smaller backup.
Damage ==
    /\ scenario.damage
    /\ \E files \in dirs["backup"] : \E file \in files.snapshot :
          LET shorter == SubSeq(file.entries, 1, Len(file.entries) - 1)
              other == DataFile(file.profile, file.sequence, file.layout, shorter)
          IN  /\ file.entries # <<>>
              /\ \/ dirs' = [dirs EXCEPT !["backup"] =
                                {[files EXCEPT !.snapshot =
                                     {[file EXCEPT !.entries = shorter, !.seal = {}]}]}]
                 \/ dirs' = [dirs EXCEPT !["backup"] =
                                {[files EXCEPT !.snapshot = {other},
                                               !.manifest = {ManifestOf(other)}]}]
    /\ ServerUnchanged /\ UNCHANGED <<tool, captured, finished>>

\* The server stops and starts again from its own directory, whose lock an
\* offline export or a migration of it holds.
Stop ==
    /\ scenario.tools \cap {"offline", "migrate"} # {}
    /\ running /\ Idle
    /\ running' = FALSE
    /\ token' = {}
    /\ UNCHANGED <<chosen, stores, clock, steady, log, pending, requests>>
    /\ UNCHANGED <<tool, dirs, captured, finished>>

Restart ==
    /\ ~running
    /\ \A job \in tool : job.kind \in {"export", "restore"}
    /\ \E recovered \in {Recovery(clock)} :
          /\ ~Failed(recovered)
          /\ stores' = recovered.value
    /\ running' = TRUE
    /\ UNCHANGED <<chosen, clock, steady, log, pending, token, requests>>
    /\ UNCHANGED <<tool, dirs, captured, finished>>

ToolStep ==
    \/ Export \/ ExportMemoryOffline \/ RestoreProfile
    \/ MigrateOffline \/ MigrateMemoryOffline
    \/ WriteRecord \/ WriteSeal \/ CheckWritten
    \/ WriteManifest \/ WriteChecksums \/ Publish \/ Finish
    \/ Abandon \/ Die

Next ==
    \/ running /\ DatasetNext /\ UNCHANGED toolVars
    \/ ToolStep
    \/ Damage
    \/ Stop
    \/ Restart

Spec == OfflineInit /\ [][Next]_allVars

---------------------------------------------------------------------------
\* Properties

\* A backup that verifies is the image that was taken: no unfinished export and
\* no exchanged or shortened file passes (verify_profile, validate_file).
VerifiedIsGenuine ==
    \A files \in dirs["backup"] :
        VerifyProfile(files, scenario.shard, clock) => files.snapshot = captured["backup"]

\* A directory a server could open holds a generation only when that is the
\* complete image the operation started from: for a restoration the image that
\* was backed up.  A tool that fails or dies at any point, or a backup that is
\* changed after it was verified, never leaves a partial dataset behind under
\* the name a recovery reads (restore_profile, migrate_offline); and once it has
\* reported success nothing removes or replaces what it made: a later run refuses
\* the directory, and one that fails cleans up only what it created
\* (OwnedDirectory::new and drop).
GenerationIsWhole ==
    /\ VerifiedIsGenuine
    /\ \A path \in {"restored", "migrated"} \cap finished :
         \E files \in dirs[path] : files.generation = captured[path]
    /\ \A path \in {"restored", "migrated"} :
         \A files \in dirs[path] : \A file \in files.generation :
             /\ {file} = captured[path]
             /\ ~Failed(Load([base |-> file.sequence, snapshot |-> file.entries, batches |-> <<>>],
                             file.layout, scenario.quota, clock))

=============================================================================
