----------------------------- MODULE AofProofs -----------------------------
(***************************************************************************)
(* Theorems about the append-only file, for every set of batches and       *)
(* images, both synchronisation policies and every value of the bounds.    *)
(***************************************************************************)
EXTENDS Aof, SequenceTheorems, TLAPS

USE ZenonT(30)

Boot == {"down", "created", "load"}
Quiet == {"recv", "tick", "finish"}
Appending == {"written", "synced"}
Compacting == {"compacted", "cutover"}
Installing == {"installed", "replace"}

\* There is room for the generation a compaction or an installation will publish,
\* and neither outlives the process or overlaps the other.
RoomForNext ==
    /\ compaction.state # "none" \/ phase \in Compacting \cup Installing => gen < MaxGen
    /\ phase \in Boot \cup Installing => compaction.state = "none"

TypeInv == TypeOK /\ RoomForNext

-----------------------------------------------------------------------------

\* The fields of a file that the writer takes over when it switches to it.
LEMMA FileFields ==
    ASSUME NEW f \in File
    PROVE  f.history \in Seq(Batch) /\ Len(f.history) \in Nat /\ f.role \in Roles
<1>1. f.history \in Seq(Batch) /\ f.role \in Roles
  BY DEF File
<1> QED
  BY SMTT(30), <1>1

LEMMA PublishedType ==
    ASSUME NEW base \in Nat, NEW h \in Seq(Batch), NEW role \in Roles
    PROVE  /\ Published(base, h, role) \in File
           /\ Published(base, h, role).history = h
           /\ Published(base, h, role).role = role
BY SMTT(30) DEF Published, File

LEMMA NoCompactionType == NoCompaction \in Compaction /\ NoCompaction.state = "none"
BY SMTT(30) DEF NoCompaction, Compaction, Roles

LEMMA DeltaAfterType ==
    ASSUME NEW c \in Compaction, NEW b \in Batch
    PROVE  DeltaAfter(c, b) \in Compaction /\ DeltaAfter(c, b).state = c.state
<1> DEFINE grown == [c EXCEPT !.delta = Append(@, b)]
           cut == [c EXCEPT !.aborted = TRUE, !.delta = <<>>]
<1>1. c.delta \in Seq(Batch) /\ Append(c.delta, b) \in Seq(Batch) /\ <<>> \in Seq(Batch)
  BY SMTT(30) DEF Compaction
<1>2. grown \in Compaction /\ grown.state = c.state
  BY <1>1 DEF Compaction
<1>3. cut \in Compaction /\ cut.state = c.state
  BY <1>1 DEF Compaction
<1>4. DeltaAfter(c, b) \in {c, grown, cut}
  BY DEF DeltaAfter
<1> QED
  BY <1>2, <1>3, <1>4

LEMMA CutType ==
    ASSUME NEW f \in File, NEW n \in f.synced..Len(f.history), NEW torn \in BOOLEAN
    PROVE  Cut(f, n, torn) \in File
<1>1. f.history \in Seq(Batch) /\ f.synced \in Nat
  BY DEF File
<1>2. n \in Nat /\ n <= Len(f.history)
  BY SMTT(30), <1>1
<1>3. SubSeq(f.history, 1, n) \in Seq(Batch)
  BY SMTT(30), <1>1, <1>2, SubSeqProperties
<1> QED
  BY <1>2, <1>3 DEF File, Cut

LEMMA EmptyType == <<>> \in Seq(Batch) /\ Len(<<>>) = 0
BY SMTT(30)

LEMMA RemoveObsoleteSubset ==
    ASSUME NEW d, NEW g, NEW e \in RemoveObsolete(d, g)
    PROVE  e \subseteq d
BY DEF RemoveObsolete

LEMMA NoJournalType == NoJournal \in Nat
BY SMTT(30), BoundsAssumption DEF NoJournal

LEMMA SyncFileType ==
    ASSUME TypeInv, SyncFile
    PROVE  /\ files' \in [Gen -> File] /\ dirty' \in BOOLEAN /\ synced' \in Nat
           /\ \A g \in Gen : files'[g].history = files[g].history
<1>1. files[gen] \in File /\ Len(files[gen].history) \in Nat
  BY SMTT(30) DEF TypeInv, TypeOK, File
<1>2. [files[gen] EXCEPT !.synced = Len(files[gen].history)] \in File
  BY <1>1 DEF File
<1>3. files \in [Gen -> File] /\ gen \in Gen /\ sequence \in Nat
  BY DEF TypeInv, TypeOK
<1>4. files' = [files EXCEPT ![gen] = [files[gen] EXCEPT !.synced = Len(files[gen].history)]]
  BY <1>3 DEF SyncFile
<1>5. files' \in [Gen -> File]
  BY <1>2, <1>3, <1>4
<1>6. ASSUME NEW g \in Gen PROVE files'[g].history = files[g].history
  <2>1. CASE g = gen
    BY <1>1, <1>3, <1>4, <2>1 DEF File
  <2>2. CASE g # gen
    BY <1>3, <1>4, <2>2
  <2> QED
    BY <2>1, <2>2
<1> QED
  BY <1>3, <1>5, <1>6 DEF SyncFile

LEMMA TypeInit == Init => TypeInv
<1> SUFFICES ASSUME Init PROVE TypeInv
  OBVIOUS
<1>1. files \in [Gen -> File]
  BY EmptyType, PublishedType DEF Init, Roles
<1>2. compaction \in Compaction /\ compaction.state = "none"
  BY NoCompactionType DEF Init
<1> QED
  BY SMTT(30), <1>1, <1>2, EmptyType, NoJournalType, BoundsAssumption
     DEF Init, TypeInv, TypeOK, RoomForNext, Gen, Roles, Boot, Compacting, Installing

\* Every step of the writer, of the helper thread and of the environment keeps the types.
LEMMA TypeNext == TypeInv /\ [Next]_vars => TypeInv'
<1> SUFFICES ASSUME TypeInv, [Next]_vars PROVE TypeInv'
  OBVIOUS
<1> USE BoundsAssumption DEF TypeInv, TypeOK, RoomForNext, Gen, Boot, Compacting, Installing,
        disk, writer, owners
<1>0. policy' \in Policies
  BY DEF Next, vars
<1> USE <1>0
<1>1. CASE CreateInitial
  <2>1. files' \in [Gen -> File]
    BY <1>1, EmptyType, PublishedType DEF CreateInitial, Roles
  <2> QED
    BY SMTT(30), <1>1, <2>1 DEF CreateInitial
<1>2. CASE SyncInitialDirectory
  BY <1>2 DEF SyncInitialDirectory
<1>3. CASE Recover
  <2>1. PICK g \in dir :
          /\ IsLatest(g, dir)
          /\ gen' = g
          /\ sequence' = Len(files[g].history)
          /\ replication' = files[g].role
          /\ synced' = Len(files[g].history)
          /\ served' = files[g].history
          /\ pending' = files[g].history
          /\ files' = IF files[g].torn
                      THEN [files EXCEPT ![g].torn = FALSE, ![g].synced = Len(files[g].history)]
                      ELSE files
    BY <1>3 DEF Recover
  <2>2. g \in Gen /\ files[g] \in File
    BY <2>1
  <2>3. files[g].history \in Seq(Batch) /\ files[g].role \in Roles /\ Len(files[g].history) \in Nat
    BY SMTT(30), <2>2 DEF File
  <2>4. files' \in [Gen -> File]
    BY <2>1, <2>2, <2>3 DEF File
  <2>5. /\ phase \in Boot /\ phase' = "recv" /\ dirty' = FALSE /\ journal' = NoJournal
        /\ UNCHANGED <<dir, durableDir, compaction>>
    BY <1>3 DEF Recover
  <2> QED
    BY <2>1, <2>2, <2>3, <2>4, <2>5, NoJournalType
<1>4. ASSUME NEW b \in Batch, WriteRecord(b), phase = "recv"
      PROVE  TypeInv'
  <2>1. files' \in [Gen -> File]
    <3>1. files[gen] \in File /\ Append(files[gen].history, b) \in Seq(Batch)
      BY SMTT(30) DEF File
    <3>2. [files[gen] EXCEPT !.history = Append(@, b)] \in File
      BY <3>1 DEF File
    <3> QED
      BY <1>4, <3>2 DEF WriteRecord
  <2>2. compaction' \in Compaction /\ compaction'.state = compaction.state
    BY <1>4, DeltaAfterType DEF WriteRecord
  <2>3. pending' \in Seq(Batch)
    BY SMTT(30), <1>4 DEF WriteRecord
  <2> QED
    BY SMTT(30), <1>4, <2>1, <2>2, <2>3 DEF WriteRecord
<1>5. ASSUME SyncFile, phase' \in {"synced", "tick", "finish", "down"}, UNCHANGED owners,
             \/ compaction' = compaction /\ phase' # "down"
             \/ compaction' = NoCompaction
      PROVE  TypeInv'
  BY <1>5, SyncFileType, NoCompactionType DEF SyncFile
<1>6. CASE AppendTorn
  <2>1. files' \in [Gen -> File]
    BY <1>6 DEF AppendTorn, File
  <2> QED
    BY <1>6, <2>1 DEF AppendTorn
<1>7. CASE ReplyAppend
  BY <1>7 DEF ReplyAppend, NoJournal
<1>8. CASE \E head \in 0..MaxSequence : AttachJournal(head)
  BY <1>8 DEF AttachJournal
<1>9. CASE RecvTimeout
  BY <1>9 DEF RecvTimeout
<1>10. CASE Tick
  <2>1. CASE UNCHANGED <<disk, writer>>
    BY <1>10, <2>1 DEF Tick
  <2> QED
    BY <1>10, <1>5, <2>1 DEF Tick
<1>11. CASE BeginCompaction
  <2>1. compaction' \in Compaction /\ compaction'.state = "writing"
    BY <1>11, EmptyType DEF BeginCompaction, Compaction
  <2> QED
    BY <1>11, <2>1 DEF BeginCompaction
<1>12. CASE SnapshotThread
  <2>1. compaction' \in Compaction /\ compaction'.state # "none"
    BY <1>12 DEF SnapshotThread, Compaction
  <2> QED
    BY <1>12, <2>1 DEF SnapshotThread
<1>13. CASE FinishNothing
  BY <1>13 DEF FinishNothing
<1>14. CASE FinishAbandoned
  BY <1>14, NoCompactionType DEF FinishAbandoned
<1>15. CASE FinishPublish
  <2>1. /\ compaction.snapshot \in Seq(Batch) /\ compaction.delta \in Seq(Batch)
        /\ compaction.role \in Roles
    BY DEF Compaction
  <2>2. compaction.snapshot \o compaction.delta \in Seq(Batch) /\ Len(compaction.snapshot) \in Nat
    BY SMTT(30), <2>1
  <2>3. files' \in [Gen -> File]
    BY <1>15, <2>1, <2>2, PublishedType DEF FinishPublish
  <2> QED
    BY SMTT(30), <1>15, <2>3 DEF FinishPublish
<1>16. CASE SyncDirectory
  BY <1>16 DEF SyncDirectory
<1>17. CASE CompactionCutover
  <2>1. dir' \subseteq dir
    BY <1>17, RemoveObsoleteSubset DEF CompactionCutover
  <2> QED
    BY SMTT(30), <1>17, <2>1, NoCompactionType DEF CompactionCutover
<1>18. ASSUME NEW image \in Images \cup {served}, NEW role \in {"primary", "replica"},
              InstallPublish(image, role)
       PROVE  TypeInv'
  <2>1. image \in Seq(Batch) /\ Len(image) \in Nat
    BY SMTT(30), ImagesAssumption
  <2>2. files' \in [Gen -> File]
    BY <1>18, <2>1, PublishedType DEF InstallPublish, Roles
  <2> QED
    BY SMTT(30), <1>18, <2>1, <2>2 DEF InstallPublish
<1>19. CASE InstallReplace
  <2>1. gen + 1 \in Gen /\ files[gen + 1] \in File
    BY SMTT(30), <1>19 DEF InstallReplace
  <2>2. Len(files[gen + 1].history) \in Nat /\ files[gen + 1].role \in Roles
    BY <2>1, FileFields
  <2>3. dir' \subseteq dir
    BY <1>19, RemoveObsoleteSubset DEF InstallReplace
  <2> QED
    BY <1>19, <2>1, <2>2, <2>3, NoJournalType DEF InstallReplace
<1>20. CASE IoFailure
  BY <1>20 DEF IoFailure
<1>21. CASE ProcessCrash
  BY <1>21, NoCompactionType DEF ProcessCrash
<1>22. CASE PowerLoss
  <2>1. dir' \subseteq Gen /\ durableDir' \subseteq Gen
    BY <1>22 DEF PowerLoss
  <2>2. files' \in [Gen -> File]
    BY SMTT(30), <1>22, CutType DEF PowerLoss
  <2> QED
    BY <1>22, <2>1, <2>2, NoCompactionType DEF PowerLoss
<1>23. CASE UNCHANGED vars
  BY <1>23 DEF vars
<1>24. CASE Request
  BY <1>24, <1>4, <1>5, <1>8, <1>11, <1>18 DEF Request, AppendBatch, Replicate, Flush
<1>25. CASE Loop
  BY <1>25, <1>5, <1>7, <1>9, <1>10, <1>13, <1>14, <1>15, <1>16, <1>17, <1>19
     DEF Loop, SyncRecord
<1>26. CASE CloseWriter
  BY <1>26, <1>5 DEF CloseWriter
<1> QED
  BY <1>1, <1>2, <1>3, <1>6, <1>12, <1>20, <1>21, <1>22, <1>23, <1>24, <1>25, <1>26 DEF Next, Step

-----------------------------------------------------------------------------

\* Every variable keeps its type, and no generation above MaxGen is ever named
\* (the writer's checked_add).
THEOREM TypeCorrect == Spec => []TypeOK
<1>1. Init => TypeInv
  BY TypeInit
<1>2. TypeInv /\ [Next]_vars => TypeInv'
  BY TypeNext
<1>3. TypeInv => TypeOK
  BY DEF TypeInv
<1> QED
  BY <1>1, <1>2, <1>3, PTL DEF Spec

-----------------------------------------------------------------------------
(***************************************************************************)
(* Recovery without power loss.  ServedIsRecoverable is not inductive: it  *)
(* says what the latest file holds, not which file the writer appends to,  *)
(* nor what the compaction's snapshot and delta add up to.  SafeInv says   *)
(* it for each stretch of the writer's loop.                               *)
(***************************************************************************)

EmptyInv == dir = {} => phase = "down" /\ served = <<>> /\ pending = <<>>

BootInv ==
    phase \in {"created", "load"} =>
        IsLatest(0, dir) /\ files[0].history = <<>> /\ served = <<>> /\ pending = <<>>

QuietInv ==
    phase \in Quiet => IsLatest(gen, dir) /\ files[gen].history = served /\ pending = served

AppendInv ==
    phase \in Appending => IsLatest(gen, dir) /\ files[gen].history = pending

CompactedInv ==
    phase \in Compacting =>
        IsLatest(gen + 1, dir) /\ files[gen + 1].history = served /\ pending = served

InstallInv ==
    phase \in Installing => IsLatest(gen + 1, dir) /\ files[gen + 1].history = pending

StopInv ==
    phase \in {"failed", "down"} =>
        \A g \in dir : IsLatest(g, dir) => files[g].history \in {served, pending}

DeltaInv ==
    compaction.state # "none" /\ ~compaction.aborted /\ phase \in Quiet \cup Appending =>
        files[gen].history = compaction.snapshot \o compaction.delta

SafeInv ==
    /\ EmptyInv /\ BootInv /\ QuietInv /\ AppendInv
    /\ CompactedInv /\ InstallInv /\ StopInv /\ DeltaInv

LEMMA LatestUnique ==
    ASSUME NEW d \in SUBSET Gen, NEW g, NEW h, IsLatest(g, d), IsLatest(h, d)
    PROVE  g = h
BY SMTT(30), BoundsAssumption DEF IsLatest, Gen

LEMMA LatestAdd ==
    ASSUME NEW d \in SUBSET Gen, NEW g, IsLatest(g, d)
    PROVE  IsLatest(g + 1, d \cup {g + 1})
BY SMTT(30), BoundsAssumption DEF IsLatest, Gen

LEMMA LatestRemove ==
    ASSUME NEW d \in SUBSET Gen, NEW g \in Gen, IsLatest(g, d), NEW e \in RemoveObsolete(d, g)
    PROVE  IsLatest(g, e) /\ e # {}
BY SMTT(30), BoundsAssumption DEF IsLatest, Gen, RemoveObsolete

LEMMA SafeRecoverable == TypeInv /\ SafeInv => ServedIsRecoverable
<1> SUFFICES ASSUME TypeInv, SafeInv, dir # {}, NEW g \in dir, IsLatest(g, dir)
             PROVE  files[g].history = served \/ files[g].history = pending
  BY DEF ServedIsRecoverable, WouldRecover, SafeInv, EmptyInv
<1>1. dir \in SUBSET Gen
  BY DEF TypeInv, TypeOK
<1>2. CASE phase \in {"created", "load"}
  BY <1>1, <1>2, LatestUnique DEF SafeInv, BootInv
<1>3. CASE phase \in Quiet
  BY <1>1, <1>3, LatestUnique DEF SafeInv, QuietInv
<1>4. CASE phase \in Appending
  BY <1>1, <1>4, LatestUnique DEF SafeInv, AppendInv
<1>5. CASE phase \in Compacting
  BY <1>1, <1>5, LatestUnique DEF SafeInv, CompactedInv
<1>6. CASE phase \in Installing
  BY <1>1, <1>6, LatestUnique DEF SafeInv, InstallInv
<1>7. CASE phase \in {"failed", "down"}
  BY <1>7 DEF SafeInv, StopInv
<1> QED
  BY <1>2, <1>3, <1>4, <1>5, <1>6, <1>7
     DEF TypeInv, TypeOK, Quiet, Appending, Compacting, Installing

LEMMA ConcatAppend ==
    ASSUME NEW s \in Seq(Batch), NEW t \in Seq(Batch), NEW b \in Batch
    PROVE  s \o Append(t, b) = Append(s \o t, b)
<1>1. <<b>> \in Seq(Batch) /\ s \o t \in Seq(Batch)
  BY SMTT(30)
<1>2. Append(t, b) = t \o <<b>>
  BY AppendIsConcat
<1>3. Append(s \o t, b) = (s \o t) \o <<b>>
  BY <1>1, AppendIsConcat
<1>4. \A u \in Seq(Batch) : (s \o t) \o u = s \o (t \o u)
  BY SMTT(30), ConcatAssociative
<1> QED
  BY <1>1, <1>2, <1>3, <1>4

LEMMA DeltaAfterHistory ==
    ASSUME NEW c \in Compaction, NEW b \in Batch, ~DeltaAfter(c, b).aborted, c.state # "none"
    PROVE  /\ ~c.aborted
           /\ DeltaAfter(c, b).snapshot \o DeltaAfter(c, b).delta
                = Append(c.snapshot \o c.delta, b)
<1> DEFINE grown == [c EXCEPT !.delta = Append(@, b)]
           cut == [c EXCEPT !.aborted = TRUE, !.delta = <<>>]
<1>1. cut.aborted
  BY DEF Compaction
<1>2. ~c.aborted /\ DeltaAfter(c, b) = grown
  BY <1>1 DEF DeltaAfter
<1>3. c.snapshot \in Seq(Batch) /\ c.delta \in Seq(Batch)
  BY DEF Compaction
<1>4. grown.snapshot = c.snapshot /\ grown.delta = Append(c.delta, b)
  BY DEF Compaction
<1>5. c.snapshot \o Append(c.delta, b) = Append(c.snapshot \o c.delta, b)
  BY <1>3, ConcatAppend
<1> QED
  BY <1>2, <1>4, <1>5

LEMMA SafeInit == Init => SafeInv
BY DEF Init, SafeInv, EmptyInv, BootInv, QuietInv, AppendInv, CompactedInv, InstallInv,
       StopInv, DeltaInv, Quiet, Appending, Compacting, Installing

\* Without power loss, every step keeps SafeInv.
LEMMA SafeNext ==
    ASSUME "power" \notin Failures
    PROVE  TypeInv /\ SafeInv /\ [Next]_vars => SafeInv'
<1> SUFFICES ASSUME TypeInv, SafeInv, [Next]_vars PROVE SafeInv'
  OBVIOUS
<1> USE DEF SafeInv, EmptyInv, BootInv, QuietInv, AppendInv, CompactedInv, InstallInv,
            StopInv, DeltaInv, Quiet, Appending, Compacting, Installing, disk, writer, owners
<1>a. /\ dir \in SUBSET Gen /\ gen \in Gen /\ files \in [Gen -> File]
      /\ served \in Seq(Batch) /\ pending \in Seq(Batch) /\ compaction \in Compaction
      /\ MaxGen \in Nat /\ Gen = 0..MaxGen
      /\ phase \in {"down", "created", "load", "recv", "written", "synced", "tick", "finish",
                    "compacted", "cutover", "installed", "replace", "failed"}
  BY BoundsAssumption DEF TypeInv, TypeOK, Gen
<1>b. /\ compaction.state # "none" \/ phase \in Compacting \cup Installing => gen < MaxGen
      /\ phase \in Boot \cup Installing => compaction.state = "none"
  BY DEF TypeInv, RoomForNext
<1>c. \A g \in dir : IsLatest(g, dir) => files[g].history \in {served, pending}
  <2>1. ServedIsRecoverable
    BY SafeRecoverable
  <2> QED
    BY <2>1 DEF ServedIsRecoverable, WouldRecover
<1>1. CASE CreateInitial
  <2>1. files'[0].history = <<>>
    BY SMTT(30), <1>1, <1>a DEF CreateInitial, Published
  <2>2. IsLatest(0, dir')
    BY SMTT(30), <1>1 DEF CreateInitial, IsLatest
  <2> QED
    BY <1>1, <2>1, <2>2 DEF CreateInitial
<1>2. CASE SyncInitialDirectory
  BY <1>2 DEF SyncInitialDirectory
<1>3. CASE Recover
  <2>1. PICK g \in dir :
          /\ IsLatest(g, dir)
          /\ gen' = g
          /\ served' = files[g].history
          /\ pending' = files[g].history
          /\ files' = IF files[g].torn
                      THEN [files EXCEPT ![g].torn = FALSE, ![g].synced = Len(files[g].history)]
                      ELSE files
    BY <1>3 DEF Recover
  <2>2. files'[g].history = files[g].history
    BY <1>a, <2>1 DEF File
  <2>3. dir' = dir /\ phase' = "recv" /\ compaction' = compaction /\ compaction.state = "none"
    BY <1>3, <1>b DEF Recover, Boot
  <2> QED
    BY <2>1, <2>2, <2>3
<1>4. ASSUME NEW b \in Batch, WriteRecord(b), phase = "recv"
      PROVE  SafeInv'
  <2>1. files'[gen].history = Append(served, b)
    BY <1>4, <1>a DEF WriteRecord, File
  <2>2. DeltaInv'
    BY <1>4, <1>a, <2>1, DeltaAfterType, DeltaAfterHistory DEF WriteRecord
  <2> QED
    BY <1>4, <1>a, <2>1, <2>2 DEF WriteRecord, IsLatest
<1>5. ASSUME SyncFile, UNCHANGED owners,
             \/ phase' \in Quiet /\ phase \in Quiet /\ compaction' = compaction
             \/ phase' = "synced" /\ phase = "written" /\ compaction' = compaction
             \/ phase' = "down" /\ phase \in Quiet
      PROVE  SafeInv'
  <2>1. \A g \in Gen : files'[g].history = files[g].history
    BY <1>5, SyncFileType
  <2>2. dir' = dir /\ gen' = gen
    BY <1>5 DEF SyncFile
  <2> QED
    BY <1>5, <1>a, <1>c, <2>1, <2>2
<1>6. CASE AppendTorn
  <2>1. \A g \in Gen : files'[g].history = files[g].history
    BY <1>6, <1>a DEF AppendTorn, File
  <2> QED
    BY <1>6, <1>a, <1>c, <2>1 DEF AppendTorn
<1>7. CASE ReplyAppend
  BY <1>7 DEF ReplyAppend
<1>8. CASE \E head \in 0..MaxSequence : AttachJournal(head)
  BY <1>8 DEF AttachJournal
<1>9. CASE RecvTimeout
  BY <1>9 DEF RecvTimeout
<1>10. CASE Tick
  <2>1. CASE UNCHANGED <<disk, writer>>
    BY <1>10, <2>1 DEF Tick
  <2> QED
    BY <1>10, <1>5, <2>1 DEF Tick
<1>11. CASE BeginCompaction
  <2>1. compaction'.snapshot \o compaction'.delta = served
    BY <1>11, <1>a, ConcatEmptySeq DEF BeginCompaction
  <2> QED
    BY <1>11, <2>1 DEF BeginCompaction
<1>12. CASE SnapshotThread
  <2>1. /\ compaction'.snapshot = compaction.snapshot /\ compaction'.delta = compaction.delta
        /\ compaction'.aborted = compaction.aborted /\ compaction.state # "none"
    BY <1>12, <1>a DEF SnapshotThread, Compaction
  <2> QED
    BY <1>12, <2>1 DEF SnapshotThread
<1>13. CASE FinishNothing
  BY <1>13 DEF FinishNothing
<1>14. CASE FinishAbandoned
  BY <1>14, NoCompactionType DEF FinishAbandoned
<1>15. CASE FinishPublish
  <2>1. gen + 1 \in Gen /\ IsLatest(gen + 1, dir')
    <3>1. gen < MaxGen /\ IsLatest(gen, dir) /\ dir' = dir \cup {gen + 1}
      BY <1>15, <1>b DEF FinishPublish
    <3> QED
      BY SMTT(30), <1>a, <3>1, LatestAdd
  <2>2. files'[gen + 1].history = served
    BY <1>15, <1>a, <2>1 DEF FinishPublish, Published
  <2> QED
    BY <1>15, <2>1, <2>2 DEF FinishPublish
<1>16. CASE SyncDirectory
  BY <1>16 DEF SyncDirectory
<1>17. CASE CompactionCutover
  <2>1. gen + 1 \in Gen /\ IsLatest(gen + 1, dir') /\ dir' # {}
    <3>1. phase = "cutover" /\ dir' \in RemoveObsolete(dir, gen + 1)
      BY <1>17 DEF CompactionCutover
    <3>2. gen + 1 \in Gen /\ IsLatest(gen + 1, dir)
      BY SMTT(30), <1>a, <1>b, <3>1
    <3> QED
      BY <1>a, <3>1, <3>2, LatestRemove
  <2> QED
    BY <1>17, <2>1, NoCompactionType DEF CompactionCutover
<1>18. ASSUME NEW image \in Images \cup {served}, NEW role \in {"primary", "replica"},
              InstallPublish(image, role)
       PROVE  SafeInv'
  <2>1. gen + 1 \in Gen /\ IsLatest(gen + 1, dir')
    BY SMTT(30), <1>18, <1>a, LatestAdd DEF InstallPublish
  <2>2. files'[gen + 1].history = image
    BY <1>18, <1>a, <2>1 DEF InstallPublish, Published
  <2> QED
    BY <1>18, <2>1, <2>2 DEF InstallPublish
<1>19. CASE InstallReplace
  <2>1. gen + 1 \in Gen /\ IsLatest(gen + 1, dir') /\ dir' # {}
    <3>1. phase = "replace" /\ dir' \in RemoveObsolete(dir, gen + 1)
      BY <1>19 DEF InstallReplace
    <3>2. gen + 1 \in Gen /\ IsLatest(gen + 1, dir)
      BY SMTT(30), <1>a, <1>b, <3>1
    <3> QED
      BY <1>a, <3>1, <3>2, LatestRemove
  <2> QED
    BY <1>19, <1>b, <2>1 DEF InstallReplace
<1>20. CASE IoFailure
  BY <1>20, <1>c DEF IoFailure
<1>21. CASE ProcessCrash
  BY <1>21, <1>c DEF ProcessCrash
<1>22. CASE UNCHANGED vars
  BY <1>22 DEF vars
<1>23. CASE Request
  BY <1>23, <1>4, <1>5, <1>8, <1>11, <1>18 DEF Request, AppendBatch, Replicate, Flush
<1>24. CASE Loop
  BY <1>24, <1>5, <1>7, <1>9, <1>10, <1>13, <1>14, <1>15, <1>16, <1>17, <1>19
     DEF Loop, SyncRecord
<1>25. CASE CloseWriter
  BY <1>25, <1>5 DEF CloseWriter
<1> QED
  BY <1>1, <1>2, <1>3, <1>6, <1>12, <1>20, <1>21, <1>22, <1>23, <1>24, <1>25
     DEF Next, Step, PowerLoss

\* As long as the machine keeps power, under either synchronisation policy: however
\* often the process is killed, whatever fails, and whichever compactions and
\* installations run, the directory holds what the owners serve or what the one
\* unanswered request makes of it.
THEOREM ProcessCrashSafe ==
    ASSUME "power" \notin Failures
    PROVE  Spec => []ServedIsRecoverable
<1>1. Init => TypeInv /\ SafeInv
  BY TypeInit, SafeInit
<1>2. TypeInv /\ SafeInv /\ [Next]_vars => (TypeInv /\ SafeInv)'
  BY TypeNext, SafeNext
<1>3. TypeInv /\ SafeInv => ServedIsRecoverable
  BY SafeRecoverable
<1> QED
  BY <1>1, <1>2, <1>3, PTL DEF Spec

-----------------------------------------------------------------------------

\* Every step is a step of DurableLog or leaves its variables alone, if a restart
\* finds what it must and no request is outstanding when the loop takes another.
LEMMA DurableStep ==
    ASSUME ServedIsRecoverable, phase = "recv" => pending = served, [Next]_vars
    PROVE  [Durable!Next]_(Durable!vars)
<1> DEFINE Up == phase \notin {"down", "created", "load"}
<1> USE DEF Durable!vars, Durable!Next, disk, writer, owners
<1>1. CASE CreateInitial \/ SyncInitialDirectory
  BY <1>1 DEF CreateInitial, SyncInitialDirectory
<1>2. CASE Recover
  <2>1. PICK g \in dir : /\ IsLatest(g, dir)
                         /\ served' = files[g].history /\ pending' = files[g].history
    BY <1>2 DEF Recover
  <2>2. files[g].history \in {served, pending}
    BY <2>1 DEF ServedIsRecoverable, WouldRecover
  <2>3. ~Up /\ Up'
    BY <1>2 DEF Recover
  <2> QED
    BY <2>1, <2>2, <2>3 DEF Durable!Restart
<1>3. ASSUME NEW b \in Batch, WriteRecord(b), phase = "recv"
      PROVE  Durable!Offer(b)
  <2>1. Up /\ Up' /\ pending = served
    BY <1>3 DEF WriteRecord
  <2> QED
    BY <1>3, <2>1 DEF WriteRecord, Durable!Offer
<1>4. CASE Request
  <2>1. ASSUME NEW image \in Images \cup {served}, NEW role \in {"primary", "replica"},
               InstallPublish(image, role)
        PROVE  [Durable!Next]_(Durable!vars)
    <3>1. Up /\ Up' /\ pending = served /\ served' = served /\ pending' = image
      BY <2>1 DEF InstallPublish
    <3> QED
      BY <3>1 DEF Durable!OfferImage
  <2>2. CASE Flush \/ BeginCompaction \/ \E head \in 0..MaxSequence : AttachJournal(head)
    BY <2>2 DEF Flush, BeginCompaction, AttachJournal
  <2> QED
    BY <1>3, <1>4, <2>1, <2>2 DEF Request, AppendBatch, Replicate
<1>5. CASE ReplyAppend \/ InstallReplace
  BY <1>5 DEF ReplyAppend, InstallReplace, Durable!Acknowledge
<1>6. CASE SyncRecord \/ RecvTimeout \/ Tick
  BY <1>6 DEF SyncRecord, RecvTimeout, Tick
<1>7. CASE FinishNothing \/ FinishAbandoned \/ FinishPublish \/ SyncDirectory \/ CompactionCutover
  BY <1>7 DEF FinishNothing, FinishAbandoned, FinishPublish, SyncDirectory, CompactionCutover
<1>8. CASE SnapshotThread \/ AppendTorn \/ IoFailure
  BY <1>8 DEF SnapshotThread, AppendTorn, IoFailure
<1>9. CASE CloseWriter \/ ProcessCrash \/ PowerLoss
  BY <1>9 DEF CloseWriter, ProcessCrash, PowerLoss, Durable!Stop
<1>10. CASE UNCHANGED vars
  BY <1>10 DEF vars
<1> QED
  BY <1>1, <1>2, <1>4, <1>5, <1>6, <1>7, <1>8, <1>9, <1>10 DEF Next, Step, Loop

\* As long as the machine keeps power, the writer implements DurableLog.
THEOREM ProcessCrashImplements ==
    ASSUME "power" \notin Failures
    PROVE  Spec => ImplementsDurableLog
<1>1. Init => TypeInv /\ SafeInv /\ Durable!Init
  BY TypeInit, SafeInit DEF Init, Durable!Init
<1>2. TypeInv /\ SafeInv /\ [Next]_vars => (TypeInv /\ SafeInv)'
  BY TypeNext, SafeNext
<1>3. TypeInv /\ SafeInv /\ [Next]_vars => [Durable!Next]_(Durable!vars)
  <2>1. TypeInv /\ SafeInv => ServedIsRecoverable
    BY SafeRecoverable
  <2>2. SafeInv => (phase = "recv" => pending = served)
    BY DEF SafeInv, QuietInv, Quiet
  <2> QED
    BY <2>1, <2>2, DurableStep
<1> QED
  BY <1>1, <1>2, <1>3, PTL DEF Spec, ImplementsDurableLog, Durable!Spec

-----------------------------------------------------------------------------
(***************************************************************************)
(* Role and torn tails, whatever fails.  While the writer serves requests  *)
(* its own file is the latest, carries its role and ends in a complete     *)
(* record; so does the file it is about to switch to.                      *)
(***************************************************************************)

RoleInv ==
    /\ phase \in Quiet \cup Appending => IsLatest(gen, dir) /\ files[gen].role = replication
    /\ phase \in Compacting => IsLatest(gen + 1, dir) /\ files[gen + 1].role = replication
    /\ phase \in Installing => IsLatest(gen + 1, dir)
    /\ compaction.state # "none" /\ phase \in Quiet \cup Appending =>
         compaction.role = replication

TornInv ==
    /\ phase \in Quiet \cup Appending => ~files[gen].torn
    /\ phase \in Compacting \cup Installing => ~files[gen + 1].torn

HeaderInv == RoleInv /\ TornInv

LEMMA HeaderInit == Init => HeaderInv
BY DEF Init, HeaderInv, RoleInv, TornInv, Quiet, Appending, Compacting, Installing, NoCompaction

\* The file a step writes keeps its role and its tail.
LEMMA SyncFileHeader ==
    ASSUME TypeInv, SyncFile, NEW g \in Gen
    PROVE  files'[g].role = files[g].role /\ files'[g].torn = files[g].torn
BY DEF TypeInv, TypeOK, SyncFile, File

\* Every step keeps HeaderInv, and adds no record to a file with an incomplete tail.
LEMMA HeaderNext == TypeInv /\ HeaderInv /\ [Next]_vars => HeaderInv'
<1> SUFFICES ASSUME TypeInv, HeaderInv, [Next]_vars PROVE HeaderInv'
  OBVIOUS
<1> USE DEF HeaderInv, RoleInv, TornInv, Quiet, Appending, Compacting, Installing,
            disk, writer, owners
<1>a. /\ dir \in SUBSET Gen /\ gen \in Gen /\ files \in [Gen -> File]
      /\ compaction \in Compaction /\ MaxGen \in Nat /\ Gen = 0..MaxGen
      /\ phase \in {"down", "created", "load", "recv", "written", "synced", "tick", "finish",
                    "compacted", "cutover", "installed", "replace", "failed"}
  BY BoundsAssumption DEF TypeInv, TypeOK, Gen
<1>b. /\ compaction.state # "none" \/ phase \in Compacting \cup Installing => gen < MaxGen
      /\ phase \in Boot \cup Installing => compaction.state = "none"
  BY DEF TypeInv, RoomForNext
<1>1. CASE CreateInitial \/ SyncInitialDirectory
  BY <1>1 DEF CreateInitial, SyncInitialDirectory
<1>2. CASE Recover
  <2>1. PICK g \in dir :
          /\ IsLatest(g, dir)
          /\ gen' = g
          /\ replication' = files[g].role
          /\ files' = IF files[g].torn
                      THEN [files EXCEPT ![g].torn = FALSE, ![g].synced = Len(files[g].history)]
                      ELSE files
    BY <1>2 DEF Recover
  <2>2. files'[g].role = files[g].role /\ ~files'[g].torn
    BY <1>a, <2>1 DEF File
  <2>3. dir' = dir /\ phase' = "recv" /\ compaction' = compaction /\ compaction.state = "none"
    BY <1>2, <1>b DEF Recover, Boot
  <2> QED
    BY <2>1, <2>2, <2>3
<1>3. ASSUME NEW b \in Batch, WriteRecord(b), phase = "recv"
      PROVE  HeaderInv'
  <2>1. files'[gen].role = files[gen].role /\ files'[gen].torn = files[gen].torn
    BY <1>3, <1>a DEF WriteRecord, File
  <2>2. compaction'.state = compaction.state /\ compaction'.role = compaction.role
    <3>1. compaction' = DeltaAfter(compaction, b)
      BY <1>3 DEF WriteRecord
    <3> QED
      BY <3>1, <1>a DEF DeltaAfter, Compaction
  <2> QED
    BY <1>3, <2>1, <2>2 DEF WriteRecord
<1>4. ASSUME SyncFile, UNCHANGED owners,
             \/ phase' \in Quiet /\ phase \in Quiet /\ compaction' = compaction
             \/ phase' = "synced" /\ phase = "written" /\ compaction' = compaction
             \/ phase' = "down" /\ phase \in Quiet
      PROVE  HeaderInv'
  <2>1. files'[gen].role = files[gen].role /\ files'[gen].torn = files[gen].torn
    BY <1>4, <1>a, SyncFileHeader
  <2> QED
    BY <1>4, <2>1 DEF SyncFile
<1>5. CASE AppendTorn \/ IoFailure \/ ProcessCrash \/ PowerLoss
  BY <1>5 DEF AppendTorn, IoFailure, ProcessCrash, PowerLoss
<1>6. CASE \/ ReplyAppend \/ RecvTimeout \/ FinishNothing
           \/ \E head \in 0..MaxSequence : AttachJournal(head)
  BY <1>6 DEF ReplyAppend, RecvTimeout, FinishNothing, AttachJournal
<1>7. CASE Tick
  <2>1. CASE UNCHANGED <<disk, writer>>
    BY <1>7, <2>1 DEF Tick
  <2> QED
    BY <1>7, <1>4, <2>1 DEF Tick
<1>8. CASE BeginCompaction
  BY <1>8 DEF BeginCompaction
<1>9. CASE SnapshotThread
  <2>1. compaction'.role = compaction.role /\ compaction.state # "none"
    BY <1>9, <1>a DEF SnapshotThread, Compaction
  <2> QED
    BY <1>9, <2>1 DEF SnapshotThread
<1>10. CASE FinishAbandoned
  BY <1>10, NoCompactionType DEF FinishAbandoned
<1>11. CASE FinishPublish
  <2>1. gen + 1 \in Gen /\ IsLatest(gen + 1, dir')
    <3>1. gen < MaxGen /\ IsLatest(gen, dir) /\ dir' = dir \cup {gen + 1}
      BY <1>11, <1>b DEF FinishPublish
    <3> QED
      BY SMTT(30), <1>a, <3>1, LatestAdd
  <2>2. files'[gen + 1].role = compaction.role /\ ~files'[gen + 1].torn
    BY <1>11, <1>a, <2>1 DEF FinishPublish, Published
  <2> QED
    BY <1>11, <2>1, <2>2 DEF FinishPublish
<1>12. CASE SyncDirectory
  BY <1>12 DEF SyncDirectory
<1>13. CASE CompactionCutover
  <2>1. gen + 1 \in Gen /\ IsLatest(gen + 1, dir')
    <3>1. phase = "cutover" /\ dir' \in RemoveObsolete(dir, gen + 1)
      BY <1>13 DEF CompactionCutover
    <3>2. gen + 1 \in Gen /\ IsLatest(gen + 1, dir)
      BY SMTT(30), <1>a, <1>b, <3>1
    <3> QED
      BY <1>a, <3>1, <3>2, LatestRemove
  <2> QED
    BY <1>13, <2>1, NoCompactionType DEF CompactionCutover
<1>14. ASSUME NEW image \in Images \cup {served}, NEW role \in {"primary", "replica"},
              InstallPublish(image, role)
       PROVE  HeaderInv'
  <2>1. gen + 1 \in Gen /\ IsLatest(gen + 1, dir')
    BY SMTT(30), <1>14, <1>a, LatestAdd DEF InstallPublish
  <2>2. ~files'[gen + 1].torn
    BY <1>14, <1>a, <2>1 DEF InstallPublish, Published
  <2> QED
    BY <1>14, <2>1, <2>2 DEF InstallPublish
<1>15. CASE InstallReplace
  <2>1. gen + 1 \in Gen /\ IsLatest(gen + 1, dir')
    <3>1. phase = "replace" /\ dir' \in RemoveObsolete(dir, gen + 1)
      BY <1>15 DEF InstallReplace
    <3>2. gen + 1 \in Gen /\ IsLatest(gen + 1, dir)
      BY SMTT(30), <1>a, <1>b, <3>1
    <3> QED
      BY <1>a, <3>1, <3>2, LatestRemove
  <2> QED
    BY <1>15, <1>b, <2>1 DEF InstallReplace
<1>16. CASE UNCHANGED vars
  BY <1>16 DEF vars
<1>17. CASE Request
  BY <1>17, <1>3, <1>4, <1>6, <1>8, <1>14 DEF Request, AppendBatch, Replicate, Flush
<1>18. CASE Loop
  BY <1>18, <1>4, <1>6, <1>7, <1>10, <1>11, <1>12, <1>13, <1>15 DEF Loop, SyncRecord
<1>19. CASE CloseWriter
  BY <1>19, <1>4 DEF CloseWriter
<1> QED
  BY <1>1, <1>2, <1>5, <1>9, <1>16, <1>17, <1>18, <1>19 DEF Next, Step

\* Whatever fails and in whatever order: a restart finds in the latest generation's
\* header the role the running writer has (compaction copies Writer.replication).
THEOREM RoleSurvives == Spec => []RoleIsRecoverable
<1>1. Init => TypeInv /\ HeaderInv
  BY TypeInit, HeaderInit
<1>2. TypeInv /\ HeaderInv /\ [Next]_vars => (TypeInv /\ HeaderInv)'
  BY TypeNext, HeaderNext
<1>3. TypeInv /\ HeaderInv => RoleIsRecoverable
  <2> SUFFICES ASSUME TypeInv, HeaderInv, NEW g \in dir, IsLatest(g, dir),
                      phase \in Quiet \cup Appending \cup Compacting
               PROVE  files[g].role = replication
    BY DEF RoleIsRecoverable, Quiet, Appending, Compacting
  <2>1. dir \in SUBSET Gen
    BY DEF TypeInv, TypeOK
  <2>2. CASE phase \in Quiet \cup Appending
    BY <2>1, <2>2, LatestUnique DEF HeaderInv, RoleInv
  <2>3. CASE phase \in Compacting
    BY <2>1, <2>3, LatestUnique DEF HeaderInv, RoleInv
  <2> QED
    BY <2>2, <2>3
<1> QED
  BY <1>1, <1>2, <1>3, PTL DEF Spec

\* Without power loss, which may shorten an incomplete tail further, a file that
\* ends in part of a record is never written to again (the failed append ends the
\* thread, and recovery truncates the file first).
THEOREM TornTailsAreFinal ==
    ASSUME "power" \notin Failures
    PROVE  Spec => NoRecordAfterTorn
<1> DEFINE Final == \A g \in Gen : files[g].torn /\ files'[g].torn
                                     => files'[g].history = files[g].history
<1>1. Init => TypeInv /\ HeaderInv
  BY TypeInit, HeaderInit
<1>2. TypeInv /\ HeaderInv /\ [Next]_vars => (TypeInv /\ HeaderInv)'
  BY TypeNext, HeaderNext
<1>3. TypeInv /\ HeaderInv /\ [Next]_vars => [Final]_vars
  <2> SUFFICES ASSUME TypeInv, HeaderInv, Next, NEW g \in Gen, files[g].torn, files'[g].torn
               PROVE  files'[g].history = files[g].history
    OBVIOUS
  <2> USE DEF HeaderInv, TornInv, disk
  <2>a. /\ gen \in Gen /\ files \in [Gen -> File] /\ dir \in SUBSET Gen
        /\ MaxGen \in Nat /\ Gen = 0..MaxGen
    BY BoundsAssumption DEF TypeInv, TypeOK, Gen
  <2>1. CASE files' = files
    BY <2>1
  <2>2. CASE CreateInitial
    BY <2>2, <2>a DEF CreateInitial, Published
  <2>3. CASE Recover
    BY SMTT(30), <2>3, <2>a DEF Recover, File
  <2>4. ASSUME NEW b \in Batch, WriteRecord(b), phase = "recv"
        PROVE  files'[g].history = files[g].history
    <3>1. gen # g
      BY <2>4 DEF Quiet
    <3> QED
      BY <2>4, <3>1, <2>a DEF WriteRecord
  <2>5. CASE SyncFile
    BY <2>5, SyncFileType
  <2>6. CASE AppendTorn
    BY <2>6, <2>a DEF AppendTorn, File
  <2>7. CASE FinishPublish
    BY <2>7, <2>a DEF FinishPublish, Published
  <2>8. CASE \E image \in Images \cup {served}, role \in {"primary", "replica"} :
               InstallPublish(image, role)
    BY SMTT(30), <2>8, <2>a DEF InstallPublish, Published
  <2>9. CASE Request
    BY <2>9, <2>1, <2>4, <2>5, <2>8
       DEF Request, AppendBatch, Replicate, Flush, AttachJournal, BeginCompaction
  <2>10. CASE Loop
    BY <2>10, <2>1, <2>5, <2>7
       DEF Loop, SyncRecord, ReplyAppend, RecvTimeout, Tick, FinishNothing, FinishAbandoned,
           SyncDirectory, CompactionCutover, InstallReplace
  <2> QED
    BY <2>1, <2>2, <2>3, <2>5, <2>6, <2>9, <2>10
       DEF Next, Step, SyncInitialDirectory, SnapshotThread, CloseWriter, IoFailure,
           ProcessCrash, PowerLoss
<1> QED
  BY <1>1, <1>2, <1>3, PTL DEF Spec, NoRecordAfterTorn

-----------------------------------------------------------------------------
(***************************************************************************)
(* Power loss, as long as every stop of the process is one.  What matters  *)
(* is not the directory as it stands but every one a power loss may leave: *)
(* Robust quantifies over the generations that can be the latest then and  *)
(* over the batches of their files that may be cut.  The other conjuncts   *)
(* say, for each stretch of the loop, which names and batches have been    *)
(* synchronised, so that Robust holds whenever the machine stops there.    *)
(***************************************************************************)

\* A restart may rebuild h: what was reported as synchronised is part of it, and
\* under SyncPolicy::Always all that was acknowledged.
Outcome(h) ==
    /\ \/ h = pending
       \/ Len(h) >= synced /\ Len(h) <= Len(served) /\ h = SubSeq(served, 1, Len(h))
    /\ policy = "always" => h \in {served, pending}

\* Wherever the unsynchronised end of file f is cut.
Kept(f) ==
    /\ f.synced <= Len(f.history)
    /\ \A n \in f.synced..Len(f.history) : Outcome(SubSeq(f.history, 1, n))

Robust ==
    /\ dir \cap durableDir = {} => Outcome(<<>>) /\ journal = NoJournal
    /\ \A g \in dir \cup durableDir : (\A h \in dir \cap durableDir : h <= g) => Kept(files[g])

\* No power loss can make another generation than g the latest.
Rooted(g) == g \in dir \cap durableDir /\ \A h \in dir \cup durableDir : h <= g

Sealed(f) == f.synced = Len(f.history)

\* After a power loss or a clean close: one generation to recover from, complete.
Stopped ==
    /\ dir = {} => durableDir = {}
    /\ \A g \in dir : IsLatest(g, dir) => Rooted(g) /\ Sealed(files[g])

\* While the first generation is created.
Starting ==
    /\ dir = {0} /\ files[0].history = <<>> /\ files[0].synced = 0
    /\ journal = NoJournal
    /\ phase = "created" => durableDir = {}
    /\ phase = "load" => durableDir = {0}

\* The writer's file holds what the owners serve, synchronised as far as reported.
Serving ==
    /\ gen \in dir \cap durableDir
    /\ files[gen].history = served /\ sequence = Len(served)
    /\ synced <= files[gen].synced /\ files[gen].synced <= Len(served)
    /\ policy = "always" => files[gen].synced = Len(served)

\* The writer's file also holds the record of the request being answered.
Recording ==
    /\ Rooted(gen)
    /\ files[gen].history = pending /\ sequence = Len(pending)
    /\ \E b \in Batch : pending = Append(served, b)
    /\ synced <= files[gen].synced /\ files[gen].synced <= Len(pending)
    /\ policy = "always" => files[gen].synced >= Len(served)
    /\ phase = "synced" => files[gen].synced = Len(pending)

\* The generation about to replace the writer's is complete, and its name
\* synchronised before the writer switches.
NextFile ==
    /\ gen + 1 \in dir /\ \A h \in dir \cup durableDir : h <= gen + 1
    /\ files[gen + 1].history = pending /\ Sealed(files[gen + 1])
    /\ phase \in {"cutover", "replace"} => gen + 1 \in durableDir

JournalHeld == journal # NoJournal => journal <= Len(served)

DeltaHeld ==
    compaction.state # "none" /\ ~compaction.aborted =>
        files[gen].history = compaction.snapshot \o compaction.delta

PowerInv ==
    /\ phase \in Boot \cup {"failed"} => Robust
    /\ phase = "down" => Stopped
    /\ phase \in {"created", "load"} => Starting
    /\ phase \in Quiet =>
         Serving /\ Rooted(gen) /\ pending = served /\ JournalHeld /\ DeltaHeld
    /\ phase \in Appending => Recording /\ JournalHeld /\ DeltaHeld
    /\ phase \in Compacting => Serving /\ NextFile /\ pending = served /\ JournalHeld
    /\ phase \in Installing => Serving /\ NextFile /\ JournalHeld

LEMMA SubSeqAll ==
    ASSUME NEW s \in Seq(Batch)
    PROVE  SubSeq(s, 1, Len(s)) = s
BY SubSeqFull

\* A prefix of a history, and its length.
LEMMA PrefixFacts ==
    ASSUME NEW s \in Seq(Batch), NEW n \in Nat, n <= Len(s)
    PROVE  SubSeq(s, 1, n) \in Seq(Batch) /\ Len(SubSeq(s, 1, n)) = n
BY SMTT(30), SubSeqProperties

\* A file whose batches are all served, or were when it was written.
LEMMA ServedIsKept ==
    ASSUME TypeInv, NEW f \in File, f.history = served,
           synced <= f.synced, f.synced <= Len(served),
           policy = "always" => f.synced = Len(served)
    PROVE  Kept(f)
<1>1. /\ served \in Seq(Batch) /\ Len(served) \in Nat /\ f.synced \in Nat /\ synced \in Nat
  BY SMTT(30) DEF TypeInv, TypeOK, File
<1>2. SUFFICES ASSUME NEW n \in f.synced..Len(served) PROVE Outcome(SubSeq(served, 1, n))
  BY <1>1 DEF Kept
<1>3. n \in Nat /\ synced <= n /\ n <= Len(served)
  BY SMTT(30), <1>1
<1>4. Len(SubSeq(served, 1, n)) = n
  BY <1>1, <1>3, PrefixFacts
<1>5. ASSUME policy = "always" PROVE SubSeq(served, 1, n) = served
  BY SMTT(30), <1>1, <1>3, <1>5, SubSeqAll
<1> QED
  BY <1>3, <1>4, <1>5 DEF Outcome

\* A file that ends in the record of the request being answered.
LEMMA RecordIsKept ==
    ASSUME TypeInv, NEW f \in File, NEW b \in Batch,
           pending = Append(served, b), f.history = pending,
           synced <= f.synced, f.synced <= Len(pending),
           policy = "always" => f.synced >= Len(served)
    PROVE  Kept(f)
<1>1. /\ served \in Seq(Batch) /\ pending \in Seq(Batch) /\ Len(served) \in Nat
      /\ f.synced \in Nat /\ synced \in Nat /\ Len(pending) = Len(served) + 1
  BY SMTT(30) DEF TypeInv, TypeOK, File
<1>2. SUFFICES ASSUME NEW n \in f.synced..Len(pending) PROVE Outcome(SubSeq(pending, 1, n))
  BY <1>1 DEF Kept
<1>3. n \in Nat /\ synced <= n /\ (policy = "always" => Len(served) <= n)
  BY SMTT(30), <1>1
<1>4. CASE n = Len(pending)
  BY <1>1, <1>4, SubSeqAll DEF Outcome
<1>5. CASE n <= Len(served)
  <2>1. SubSeq(pending, 1, n) = SubSeq(served, 1, n)
    BY SMTT(30), <1>1, <1>3, <1>5
  <2>2. Len(SubSeq(served, 1, n)) = n
    BY <1>1, <1>3, <1>5, PrefixFacts
  <2>3. ASSUME policy = "always" PROVE SubSeq(served, 1, n) = served
    BY SMTT(30), <1>1, <1>3, <1>5, <2>3, SubSeqAll
  <2> QED
    BY <1>3, <1>5, <2>1, <2>2, <2>3 DEF Outcome
<1> QED
  BY SMTT(30), <1>1, <1>2, <1>4, <1>5

\* A file published complete, whose whole history is a permitted outcome.
LEMMA SealedIsKept ==
    ASSUME NEW f \in File, Sealed(f), Outcome(f.history)
    PROVE  Kept(f)
<1>1. f.history \in Seq(Batch) /\ Len(f.history) \in Nat
  BY FileFields
<1>2. \A n \in f.synced..Len(f.history) : n = Len(f.history)
  BY SMTT(30), <1>1 DEF Sealed
<1>3. SubSeq(f.history, 1, Len(f.history)) = f.history
  BY <1>1, SubSeqAll
<1>4. ASSUME NEW n \in f.synced..Len(f.history) PROVE Outcome(SubSeq(f.history, 1, n))
  <2>1. n = Len(f.history)
    BY <1>2
  <2>2. SubSeq(f.history, 1, n) = f.history
    BY <1>3, <2>1
  <2> QED
    BY <2>2
<1>5. f.synced <= Len(f.history)
  BY SMTT(30), <1>1 DEF Sealed
<1> QED
  BY <1>4, <1>5 DEF Kept

\* Whatever the machine may lose, now, a restart finds what it must.
LEMMA PowerIsRobust == TypeInv /\ PowerInv => Robust
<1> SUFFICES ASSUME TypeInv, PowerInv PROVE Robust
  OBVIOUS
<1>a. /\ dir \in SUBSET Gen /\ durableDir \in SUBSET Gen /\ gen \in Gen /\ files \in [Gen -> File]
      /\ MaxGen \in Nat /\ Gen = 0..MaxGen
      /\ phase \in {"down", "created", "load", "recv", "written", "synced", "tick", "finish",
                    "compacted", "cutover", "installed", "replace", "failed"}
  BY BoundsAssumption DEF TypeInv, TypeOK, Gen
<1>1. CASE phase \in Boot \cup {"failed"}
  BY <1>1 DEF PowerInv
<1>2. ASSUME NEW g, Rooted(g), Kept(files[g])
      PROVE  Robust
  <2>1. \A k \in dir \cup durableDir : (\A h \in dir \cap durableDir : h <= k) => k = g
    BY SMTT(30), <1>2, <1>a DEF Rooted
  <2>2. g \in dir \cap durableDir
    BY <1>2 DEF Rooted
  <2> QED
    BY <1>2, <2>1, <2>2 DEF Robust
<1>3. ASSUME phase \in Quiet \cup Compacting \cup Installing
      PROVE  Kept(files[gen]) /\ gen \in dir \cap durableDir
  <2>1. /\ gen \in dir \cap durableDir
        /\ files[gen].history = served
        /\ synced <= files[gen].synced /\ files[gen].synced <= Len(served)
        /\ policy = "always" => files[gen].synced = Len(served)
    BY <1>3 DEF PowerInv, Serving
  <2> QED
    BY <1>a, <2>1, ServedIsKept
<1>4. CASE phase \in Quiet
  BY <1>2, <1>3, <1>4 DEF PowerInv
<1>5. CASE phase \in Appending
  <2>1. PICK b \in Batch : pending = Append(served, b)
    BY <1>5 DEF PowerInv, Recording
  <2>2. /\ Rooted(gen) /\ files[gen].history = pending
        /\ synced <= files[gen].synced /\ files[gen].synced <= Len(pending)
        /\ policy = "always" => files[gen].synced >= Len(served)
    BY <1>5 DEF PowerInv, Recording
  <2>3. Kept(files[gen])
    BY <1>a, <2>1, <2>2, RecordIsKept
  <2> QED
    BY <1>2, <2>2, <2>3
<1>6. CASE phase \in Compacting \cup Installing
  <2>1. /\ gen + 1 \in dir /\ \A h \in dir \cup durableDir : h <= gen + 1
        /\ files[gen + 1].history = pending /\ Sealed(files[gen + 1])
    BY <1>6 DEF PowerInv, NextFile
  <2>2. Kept(files[gen + 1])
    BY <1>a, <2>1, SealedIsKept DEF Outcome
  <2>3. \A k \in dir \cup durableDir :
          (\A h \in dir \cap durableDir : h <= k) => k \in {gen, gen + 1}
    BY SMTT(30), <1>3, <1>6, <1>a, <2>1
  <2> QED
    BY <1>3, <1>6, <2>2, <2>3 DEF Robust
<1> QED
  BY <1>a, <1>1, <1>4, <1>5, <1>6 DEF Boot, Quiet, Appending, Compacting, Installing

LEMMA PowerInit == Init => TypeInv /\ PowerInv
<1> SUFFICES ASSUME Init PROVE PowerInv
  BY TypeInit
<1>1. dir = {} /\ durableDir = {} /\ served = <<>> /\ pending = <<>> /\ journal = NoJournal
  BY DEF Init
<1>2. Robust
  BY <1>1 DEF Robust, Outcome
<1> QED
  BY <1>1, <1>2 DEF Init, PowerInv, Stopped, Quiet, Appending, Compacting, Installing

\* Robust speaks of the names, of the files' histories and synchronised lengths, and
\* of what is served; a step that changes none of these keeps it.
LEMMA RobustKept ==
    ASSUME TypeInv, Robust, UNCHANGED <<dir, durableDir, served, pending, synced, policy, journal>>,
           \A g \in Gen : /\ files'[g].history = files[g].history
                          /\ files'[g].synced = files[g].synced
    PROVE  Robust'
<1>1. dir \cup durableDir \subseteq Gen
  BY DEF TypeInv, TypeOK
<1>2. ASSUME NEW g \in dir \cup durableDir, Kept(files[g]) PROVE Kept(files[g])'
  BY <1>1, <1>2 DEF Kept, Outcome
<1>3. dir \cap durableDir = {} => Outcome(<<>>)' /\ journal' = NoJournal
  BY DEF Robust, Outcome
<1> QED
  BY <1>2, <1>3 DEF Robust

\* A power loss leaves one generation to recover from, complete up to the cut.
LEMMA PowerLossRobust ==
    ASSUME TypeInv, Robust, PowerLoss, policy' = policy
    PROVE  Robust' /\ Stopped'
<1>a. /\ dir \in SUBSET Gen /\ durableDir \in SUBSET Gen /\ files \in [Gen -> File]
      /\ MaxGen \in Nat /\ Gen = 0..MaxGen
  BY BoundsAssumption DEF TypeInv, TypeOK, Gen
<1>b. /\ served' = served /\ pending' = pending /\ synced' = synced
      /\ journal' = journal /\ dir' = durableDir'
  BY DEF PowerLoss, writer, owners
<1>c. PICK d \in SUBSET (dir \cup durableDir) :
        /\ dir \cap durableDir \subseteq d
        /\ dir' = d /\ durableDir' = d
        /\ \/ d = {} /\ files' = files
           \/ \E g \in d : \E n \in files[g].synced..Len(files[g].history), torn \in BOOLEAN :
                /\ IsLatest(g, d)
                /\ files' = [files EXCEPT ![g] = Cut(files[g], n, torn)]
  BY DEF PowerLoss
<1>1. CASE d = {}
  <2>1. dir \cap durableDir = {} /\ dir' = {} /\ durableDir' = {}
    BY <1>1, <1>c
  <2>2. Outcome(<<>>)' /\ journal' = NoJournal
    BY <1>b, <2>1 DEF Robust, Outcome
  <2>3. Robust'
    BY <2>1, <2>2 DEF Robust
  <2> QED
    BY <2>1, <2>3 DEF Stopped
<1>2. ASSUME NEW g \in d, NEW n \in files[g].synced..Len(files[g].history), NEW torn \in BOOLEAN,
             IsLatest(g, d), files' = [files EXCEPT ![g] = Cut(files[g], n, torn)]
      PROVE  Robust' /\ Stopped'
  <2>1. g \in Gen /\ files[g] \in File /\ files[g].history \in Seq(Batch) /\ files[g].synced \in Nat
    BY <1>a, <1>c DEF File
  <2>2. n \in Nat /\ n <= Len(files[g].history)
    BY SMTT(30), <2>1
  <2>3. Kept(files[g])
    BY <1>2, <1>c DEF Robust, IsLatest
  <2>4. Outcome(SubSeq(files[g].history, 1, n))
    BY <2>3 DEF Kept
  <2>5. /\ files'[g] = Cut(files[g], n, torn)
        /\ files'[g].history = SubSeq(files[g].history, 1, n) /\ files'[g].synced = n
    BY <1>2, <1>a, <2>1 DEF Cut, File
  <2>6. files'[g] \in File /\ Len(files'[g].history) = n
    BY SMTT(30), <2>1, <2>2, <2>5, CutType, PrefixFacts
  <2>7. Sealed(files[g])'
    BY <2>5, <2>6 DEF Sealed
  <2>8. (Outcome(files[g].history))'
    BY <1>b, <2>4, <2>5 DEF Outcome
  <2>9. Kept(files[g])'
    <3>1. /\ files'[g].history \in Seq(Batch) /\ Len(files'[g].history) \in Nat
          /\ files'[g].synced = Len(files'[g].history)
      BY <2>6, <2>7, FileFields DEF Sealed
    <3>2. \A k \in files'[g].synced..Len(files'[g].history) :
             SubSeq(files'[g].history, 1, k) = files'[g].history
      BY SMTT(30), <3>1, SubSeqAll
    <3> QED
      BY SMTT(30), <3>1, <3>2, <2>8 DEF Kept, Outcome
  <2>10. Rooted(g)'
    BY <1>2, <1>c DEF Rooted, IsLatest
  <2>11. \A k \in d : (\A h \in d : h <= k) => k = g
    BY SMTT(30), <1>2, <1>a, <1>c DEF IsLatest
  <2>12. Robust'
    BY <1>c, <2>9, <2>10, <2>11 DEF Robust, Rooted
  <2> QED
    BY <1>c, <2>7, <2>10, <2>11, <2>12 DEF Stopped, IsLatest
<1> QED
  BY <1>c, <1>1, <1>2

\* With power losses as the only way a process ends, every step keeps PowerInv.
LEMMA PowerNext ==
    ASSUME "process" \notin Failures
    PROVE  TypeInv /\ PowerInv /\ [Next]_vars => PowerInv'
<1> SUFFICES ASSUME TypeInv, PowerInv, [Next]_vars PROVE PowerInv'
  OBVIOUS
<1> USE DEF Boot, Quiet, Appending, Compacting, Installing, disk, writer, owners
<1>a. /\ dir \in SUBSET Gen /\ durableDir \in SUBSET Gen /\ gen \in Gen /\ files \in [Gen -> File]
      /\ served \in Seq(Batch) /\ pending \in Seq(Batch) /\ compaction \in Compaction
      /\ synced \in Nat /\ sequence \in Nat /\ journal \in Nat
      /\ MaxGen \in Nat /\ Gen = 0..MaxGen
  BY BoundsAssumption DEF TypeInv, TypeOK, Gen
<1>p. phase \in {"down", "created", "load", "recv", "written", "synced", "tick", "finish",
                 "compacted", "cutover", "installed", "replace", "failed"}
  BY DEF TypeInv, TypeOK
<1>b. /\ compaction.state # "none" \/ phase \in Compacting \cup Installing => gen < MaxGen
      /\ phase \in Boot \cup Installing => compaction.state = "none"
  BY DEF TypeInv, RoomForNext
<1>c. Robust
  BY PowerIsRobust
<1>d. policy' = policy
  BY DEF Next, vars
<1>e. /\ files[gen].history \in Seq(Batch) /\ Len(files[gen].history) \in Nat
      /\ files[gen].synced \in Nat /\ Len(served) \in Nat /\ Len(pending) \in Nat
  BY SMTT(30), <1>a DEF File
<1>q. phase \in Quiet =>
        Serving /\ Rooted(gen) /\ pending = served /\ JournalHeld /\ DeltaHeld
  BY DEF PowerInv
<1>r. ASSUME phase' \in Quiet, Serving', Rooted(gen)', pending' = served', JournalHeld', DeltaHeld'
      PROVE  PowerInv'
  BY <1>r DEF PowerInv
<1>1. CASE CreateInitial
  <2>1. files'[0].history = <<>> /\ files'[0].synced = 0
    BY SMTT(30), <1>1, <1>a, EmptyType DEF CreateInitial, Published
  <2>2. /\ phase = "down" /\ dir = {} /\ dir' = {0} /\ durableDir' = durableDir
        /\ phase' = "created" /\ served' = served /\ pending' = pending /\ synced' = synced
        /\ journal' = journal
    BY <1>1 DEF CreateInitial
  <2>3. durableDir = {}
    BY <2>2 DEF PowerInv, Stopped
  <2>4. Outcome(<<>>) /\ journal = NoJournal
    BY <1>c, <2>2 DEF Robust
  <2>5. Outcome(<<>>)'
    BY <1>d, <2>2, <2>4 DEF Outcome
  <2>6. Kept(files[0])'
    <3>1. files'[0].synced <= Len(files'[0].history)
      BY SMTT(30), <2>1, EmptyType
    <3>2. \A n \in files'[0].synced..Len(files'[0].history) :
             SubSeq(files'[0].history, 1, n) = <<>>
      BY SMTT(30), <2>1, EmptyType, SubSeqAll
    <3> QED
      BY <2>5, <3>1, <3>2 DEF Kept, Outcome
  <2>7. Robust'
    BY <2>2, <2>3, <2>4, <2>5, <2>6 DEF Robust
  <2>8. Starting'
    BY <2>1, <2>2, <2>3, <2>4 DEF Starting
  <2> QED
    BY <2>2, <2>7, <2>8 DEF PowerInv
<1>2. CASE SyncInitialDirectory
  <2>1. /\ phase = "created" /\ phase' = "load" /\ durableDir' = dir /\ dir' = dir
        /\ files' = files /\ served' = served /\ pending' = pending /\ synced' = synced
        /\ journal' = journal
    BY <1>2 DEF SyncInitialDirectory
  <2>2. Starting
    BY <2>1 DEF PowerInv
  <2>3. Kept(files[0])
    BY <1>c, <2>1, <2>2 DEF Robust, Starting
  <2>4. Kept(files[0])'
    BY <1>d, <2>1, <2>3 DEF Kept, Outcome
  <2>5. Robust'
    BY <2>1, <2>2, <2>4 DEF Robust, Starting
  <2>6. Starting'
    BY <2>1, <2>2 DEF Starting
  <2> QED
    BY <2>1, <2>5, <2>6 DEF PowerInv
<1>3. CASE Recover
  <2>1. PICK g \in dir :
          /\ IsLatest(g, dir)
          /\ gen' = g
          /\ sequence' = Len(files[g].history)
          /\ synced' = Len(files[g].history)
          /\ served' = files[g].history
          /\ pending' = files[g].history
          /\ files' = IF files[g].torn
                      THEN [files EXCEPT ![g].torn = FALSE, ![g].synced = Len(files[g].history)]
                      ELSE files
    BY <1>3 DEF Recover
  <2>2. /\ phase \in {"load", "down"} /\ phase' = "recv" /\ journal' = NoJournal
        /\ dir' = dir /\ durableDir' = durableDir /\ compaction' = compaction
    BY <1>3 DEF Recover
  <2>3. Rooted(g) /\ Sealed(files[g])
    <3>1. CASE phase = "down"
      BY <2>1, <3>1 DEF PowerInv, Stopped
    <3>2. CASE phase = "load"
      <4>1. Starting
        BY <3>2 DEF PowerInv
      <4> QED
        BY SMTT(30), <2>1, <3>2, <4>1, EmptyType DEF Starting, Rooted, Sealed
    <3> QED
      BY <2>2, <3>1, <3>2
  <2>4. /\ files'[g].history = files[g].history /\ files'[g].synced = Len(files[g].history)
        /\ g \in Gen /\ Len(files[g].history) \in Nat
    BY <1>a, <2>1, <2>3 DEF File, Sealed
  <2>5. Rooted(gen)'
    BY <2>1, <2>2, <2>3 DEF Rooted
  <2>6. Serving'
    BY SMTT(30), <2>1, <2>4, <2>5 DEF Serving, Rooted
  <2>7. JournalHeld' /\ DeltaHeld'
    BY <1>b, <2>2 DEF JournalHeld, DeltaHeld
  <2> QED
    BY <1>r, <2>1, <2>2, <2>5, <2>6, <2>7
<1>4. ASSUME NEW b \in Batch, WriteRecord(b), phase = "recv"
      PROVE  PowerInv'
  <2>1. Serving /\ Rooted(gen) /\ pending = served /\ JournalHeld /\ DeltaHeld
    BY <1>4, <1>q
  <2>2. files'[gen].history = Append(served, b) /\ files'[gen].synced = files[gen].synced
    BY <1>4, <1>a, <2>1 DEF WriteRecord, File, Serving
  <2>3. Len(Append(served, b)) = Len(served) + 1
    BY SMTT(30), <1>a
  <2>4. /\ phase' = "written" /\ gen' = gen /\ synced' = synced /\ sequence' = sequence + 1
        /\ pending' = Append(served, b) /\ served' = served /\ journal' = journal
        /\ dir' = dir /\ durableDir' = durableDir /\ compaction' = DeltaAfter(compaction, b)
    BY <1>4 DEF WriteRecord
  <2>5. DeltaHeld'
    BY <1>a, <2>1, <2>2, <2>4, DeltaAfterType, DeltaAfterHistory DEF DeltaHeld, Serving
  <2>6. Rooted(gen)'
    BY <2>1, <2>4 DEF Rooted
  <2>7. Recording'
    BY SMTT(30), <1>d, <1>e, <2>1, <2>2, <2>3, <2>4, <2>6 DEF Serving, Recording
  <2>8. JournalHeld'
    BY <2>1, <2>4 DEF JournalHeld
  <2> QED
    BY <2>4, <2>5, <2>7, <2>8 DEF PowerInv
<1>5. ASSUME SyncFile, UNCHANGED owners, Rooted(gen)
      PROVE  /\ dir' = dir /\ durableDir' = durableDir /\ gen' = gen /\ sequence' = sequence
             /\ synced' = sequence /\ journal' = journal /\ served' = served /\ pending' = pending
             /\ files'[gen] \in File /\ files'[gen].history = files[gen].history
             /\ files'[gen].synced = Len(files[gen].history) /\ Rooted(gen)'
  <2>1. files'[gen].history = files[gen].history /\ files'[gen] \in File
    BY <1>5, <1>a, SyncFileType
  <2>2. files'[gen].synced = Len(files[gen].history)
    BY <1>5, <1>a DEF SyncFile, File
  <2>3. /\ dir' = dir /\ durableDir' = durableDir /\ gen' = gen /\ sequence' = sequence
        /\ synced' = sequence /\ journal' = journal
    BY <1>5 DEF SyncFile
  <2>4. Rooted(gen)'
    BY <1>5, <2>3 DEF Rooted
  <2> QED
    BY <1>5, <2>1, <2>2, <2>3, <2>4
<1>6. ASSUME SyncFile, UNCHANGED owners, phase \in Quiet, phase' \in Quiet, compaction' = compaction
      PROVE  PowerInv'
  <2>1. Serving /\ Rooted(gen) /\ pending = served /\ JournalHeld /\ DeltaHeld
    BY <1>6, <1>q
  <2>2. Serving'
    BY SMTT(30), <1>5, <1>6, <1>e, <2>1 DEF Serving
  <2>3. JournalHeld' /\ DeltaHeld'
    BY <1>5, <1>6, <2>1 DEF JournalHeld, DeltaHeld
  <2> QED
    BY <1>5, <1>6, <1>r, <2>1, <2>2, <2>3
<1>7. CASE SyncRecord
  <2>1. /\ SyncFile /\ UNCHANGED owners /\ phase = "written" /\ phase' = "synced"
        /\ compaction' = compaction
    BY <1>7 DEF SyncRecord
  <2>2. Recording /\ JournalHeld /\ DeltaHeld
    BY <2>1 DEF PowerInv
  <2>3. PICK b \in Batch : pending = Append(served, b)
    BY <2>2 DEF Recording
  <2>4. Len(pending) = Len(served) + 1
    BY SMTT(30), <1>a, <2>3
  <2>5. Rooted(gen)
    BY <2>2 DEF Recording
  <2>6. Recording'
    BY SMTT(30), <1>5, <1>e, <2>1, <2>2, <2>3, <2>4, <2>5 DEF Recording
  <2>7. JournalHeld' /\ DeltaHeld'
    BY <1>5, <2>1, <2>2, <2>5 DEF JournalHeld, DeltaHeld
  <2> QED
    BY <2>1, <2>6, <2>7 DEF PowerInv
<1>8. CASE CloseWriter
  <2>1. SyncFile /\ UNCHANGED owners /\ phase = "recv" /\ phase' = "down"
    BY <1>8 DEF CloseWriter
  <2>2. Serving /\ Rooted(gen) /\ pending = served
    BY <1>q, <2>1
  <2>3. /\ files'[gen] \in File /\ files'[gen].history = served
        /\ files'[gen].synced = Len(served) /\ Rooted(gen)'
        /\ dir' = dir /\ durableDir' = durableDir /\ gen' = gen /\ pending' = served
    BY <1>5, <2>1, <2>2 DEF Serving
  <2>4. Sealed(files[gen])'
    BY <2>3 DEF Sealed
  <2>5. Kept(files[gen])'
    <3>1. files'[gen'].synced <= Len(files'[gen'].history)
      BY SMTT(30), <1>e, <2>3
    <3>2. \A n \in files'[gen'].synced..Len(files'[gen'].history) :
             SubSeq(files'[gen'].history, 1, n) = served
      BY SMTT(30), <1>a, <2>3, SubSeqAll
    <3> QED
      BY <2>3, <3>1, <3>2 DEF Kept, Outcome
  <2>6. \A g \in dir \cup durableDir : (\A h \in dir \cap durableDir : h <= g) => g = gen
    BY SMTT(30), <1>a, <2>2 DEF Rooted
  <2>7. Robust'
    BY <2>2, <2>3, <2>5, <2>6 DEF Robust, Rooted
  <2>8. Stopped'
    BY <2>2, <2>3, <2>4, <2>6 DEF Stopped, Rooted, IsLatest
  <2> QED
    BY <2>1, <2>7, <2>8 DEF PowerInv
<1>9. CASE AppendTorn
  <2>1. \A g \in Gen : files'[g].history = files[g].history /\ files'[g].synced = files[g].synced
    BY <1>9, <1>a DEF AppendTorn, File
  <2>2. Robust' /\ phase' = "failed"
    BY <1>9, <1>c, <1>d, <2>1, RobustKept DEF AppendTorn
  <2> QED
    BY <2>2 DEF PowerInv
<1>10. CASE IoFailure
  <2>1. Robust' /\ phase' = "failed"
    BY <1>10, <1>c, <1>d, RobustKept DEF IoFailure
  <2> QED
    BY <2>1 DEF PowerInv
<1>11. CASE PowerLoss
  <2>1. Robust' /\ Stopped' /\ phase' = "down"
    BY <1>11, <1>c, <1>d, PowerLossRobust DEF PowerLoss
  <2> QED
    BY <2>1 DEF PowerInv
<1>12. CASE ReplyAppend
  <2>1. /\ phase \in Appending /\ (policy = "always" => phase = "synced") /\ phase' = "tick"
        /\ UNCHANGED <<disk, gen, sequence, synced, compaction, pending>> /\ served' = pending
        /\ journal' \in {NoJournal, sequence}
    BY <1>12 DEF ReplyAppend
  <2>2. Recording /\ DeltaHeld
    BY <2>1 DEF PowerInv
  <2>3. Rooted(gen)'
    BY <2>1, <2>2 DEF Recording, Rooted
  <2>4. Serving'
    BY <1>d, <2>1, <2>2 DEF Serving, Recording, Rooted
  <2>5. JournalHeld'
    BY SMTT(30), <1>e, <2>1, <2>2 DEF JournalHeld, Recording
  <2>6. DeltaHeld'
    BY <2>1, <2>2 DEF DeltaHeld
  <2> QED
    BY <1>r, <2>1, <2>3, <2>4, <2>5, <2>6
<1>13. ASSUME UNCHANGED <<disk, gen, sequence, synced, owners>>, phase \in Quiet, phase' \in Quiet,
              journal' \in {journal, sequence},
              \/ compaction' = compaction
              \/ compaction'.state = "none"
              \/ compaction'.snapshot \o compaction'.delta = served
       PROVE  PowerInv'
  <2>1. Serving /\ Rooted(gen) /\ pending = served /\ JournalHeld /\ DeltaHeld
    BY <1>13, <1>q
  <2>2. Rooted(gen)'
    BY <1>13, <2>1 DEF Rooted
  <2>3. Serving'
    BY <1>13, <1>d, <2>1 DEF Serving
  <2>4. JournalHeld'
    BY SMTT(30), <1>13, <1>e, <2>1 DEF JournalHeld, Serving
  <2>5. DeltaHeld'
    BY <1>13, <2>1 DEF DeltaHeld, Serving
  <2> QED
    BY <1>r, <1>13, <2>1, <2>2, <2>3, <2>4, <2>5
<1>14. CASE \E head \in 0..MaxSequence : AttachJournal(head)
  BY <1>14, <1>13 DEF AttachJournal
<1>15. CASE RecvTimeout \/ FinishNothing
  BY <1>15, <1>13 DEF RecvTimeout, FinishNothing
<1>16. CASE Tick
  <2>1. CASE UNCHANGED <<disk, writer>>
    BY <1>16, <1>13, <2>1 DEF Tick
  <2> QED
    BY <1>16, <1>6, <2>1 DEF Tick
<1>17. CASE BeginCompaction
  <2>1. compaction'.snapshot \o compaction'.delta = served
    BY <1>17, <1>a, ConcatEmptySeq DEF BeginCompaction
  <2> QED
    BY <1>17, <1>13, <2>1 DEF BeginCompaction
<1>18. CASE FinishAbandoned
  BY <1>18, <1>13, NoCompactionType DEF FinishAbandoned
<1>19. CASE SnapshotThread
  <2>1. /\ compaction'.snapshot = compaction.snapshot /\ compaction'.delta = compaction.delta
        /\ compaction'.aborted = compaction.aborted /\ compaction.state # "none"
    BY <1>19, <1>a DEF SnapshotThread, Compaction
  <2>2. /\ phase \notin Boot \cup {"failed"} \cup Installing
        /\ UNCHANGED <<disk, phase, writer, owners>>
    BY <1>19, <1>b, <2>1 DEF SnapshotThread
  <2>3. DeltaHeld => DeltaHeld'
    BY <2>1, <2>2 DEF DeltaHeld
  <2>4. (Serving => Serving') /\ (Rooted(gen) => Rooted(gen)') /\ (JournalHeld => JournalHeld')
    BY <1>d, <2>2 DEF Serving, Rooted, JournalHeld
  <2>5. (Recording => Recording') /\ (NextFile => NextFile')
    BY <1>d, <2>2 DEF Recording, NextFile, Rooted, Sealed
  <2> QED
    BY <1>p, <2>2, <2>3, <2>4, <2>5 DEF PowerInv
<1>20. ASSUME NEW h \in Seq(Batch), NEW base, NEW role, phase \in Quiet, gen < MaxGen,
              files' = [files EXCEPT ![gen + 1] = Published(base, h, role)],
              dir' = dir \cup {gen + 1},
              UNCHANGED <<durableDir, gen, sequence, journal, synced, served>>, pending' = h,
              phase' \in {"compacted", "installed"}
       PROVE  Serving' /\ NextFile' /\ JournalHeld'
  <2>1. Serving /\ Rooted(gen) /\ JournalHeld
    BY <1>20, <1>q
  <2>2. gen + 1 \in Gen /\ gen + 1 # gen
    BY SMTT(30), <1>20, <1>a
  <2>3. files'[gen + 1].history = h /\ files'[gen + 1].synced = Len(h) /\ files'[gen] = files[gen]
    BY <1>20, <1>a, <2>2 DEF Published
  <2>4. \A k \in dir' \cup durableDir' : k <= gen + 1
    BY SMTT(30), <1>20, <1>a, <2>1 DEF Rooted
  <2>5. NextFile'
    BY <1>20, <2>3, <2>4 DEF NextFile, Sealed
  <2>6. Serving'
    BY <1>20, <1>d, <2>1, <2>3 DEF Serving
  <2>7. JournalHeld'
    BY <1>20, <2>1 DEF JournalHeld
  <2> QED
    BY <2>5, <2>6, <2>7
<1>21. CASE FinishPublish
  <2>1. phase = "finish" /\ compaction.state = "ready" /\ ~compaction.aborted
    BY <1>21 DEF FinishPublish
  <2>2. served = compaction.snapshot \o compaction.delta /\ pending = served
    BY <1>q, <2>1 DEF DeltaHeld, Serving
  <2>3. /\ phase \in Quiet /\ gen < MaxGen
        /\ files' = [files EXCEPT ![gen + 1] =
                        Published(Len(compaction.snapshot), served, compaction.role)]
        /\ dir' = dir \cup {gen + 1}
    BY <1>21, <1>b, <2>1, <2>2 DEF FinishPublish
  <2>4. /\ UNCHANGED <<durableDir, gen, sequence, journal, synced, served>>
        /\ pending' = served /\ phase' = "compacted"
    BY <1>21, <2>2 DEF FinishPublish
  <2>5. Serving' /\ NextFile' /\ JournalHeld'
    <3> HIDE DEF Quiet
    <3> QED
      BY <1>20, <1>a, <2>3, <2>4
  <2> QED
    BY <2>4, <2>5 DEF PowerInv
<1>22. ASSUME NEW image \in Images \cup {served}, NEW role \in {"primary", "replica"},
              InstallPublish(image, role)
       PROVE  PowerInv'
  <2>1. image \in Seq(Batch)
    BY <1>a, ImagesAssumption
  <2>2. /\ phase \in Quiet /\ gen < MaxGen
        /\ files' = [files EXCEPT ![gen + 1] = Published(Len(image), image, role)]
        /\ dir' = dir \cup {gen + 1}
    BY <1>22 DEF InstallPublish
  <2>3. /\ UNCHANGED <<durableDir, gen, sequence, journal, synced, served>>
        /\ pending' = image /\ phase' = "installed"
    BY <1>22 DEF InstallPublish
  <2>4. Serving' /\ NextFile' /\ JournalHeld'
    <3> HIDE DEF Quiet
    <3> QED
      BY <1>20, <2>1, <2>2, <2>3
  <2> QED
    BY <2>3, <2>4 DEF PowerInv
<1>23. CASE SyncDirectory
  <2>1. /\ \/ phase = "compacted" /\ phase' = "cutover"
           \/ phase = "installed" /\ phase' = "replace"
        /\ durableDir' = dir /\ UNCHANGED <<dir, files, writer, owners>>
    BY <1>23 DEF SyncDirectory
  <2>2. Serving /\ NextFile /\ JournalHeld
    BY <2>1 DEF PowerInv
  <2>3. Serving' /\ JournalHeld'
    BY <1>d, <2>1, <2>2 DEF Serving, JournalHeld
  <2>4. NextFile'
    BY <2>1, <2>2 DEF NextFile, Sealed
  <2> QED
    BY <2>1, <2>3, <2>4 DEF PowerInv
<1>24. ASSUME phase \in {"cutover", "replace"}, dir' \in RemoveObsolete(dir, gen + 1),
              gen' = gen + 1, UNCHANGED <<durableDir, files>>
       PROVE  /\ Rooted(gen)' /\ files'[gen'].history = pending
              /\ files'[gen'].synced = Len(pending) /\ Serving /\ JournalHeld
  <2>1. Serving /\ NextFile /\ JournalHeld
    BY <1>24 DEF PowerInv
  <2>2. gen + 1 \in Gen /\ gen + 1 \in dir /\ gen + 1 \in durableDir
    BY <1>24, <1>a, <1>b, <2>1 DEF NextFile
  <2>3. gen + 1 \in dir' /\ dir' \subseteq dir
    BY SMTT(30), <1>24, <1>a, <2>2 DEF RemoveObsolete
  <2>4. Rooted(gen)'
    BY <1>24, <2>1, <2>2, <2>3 DEF Rooted, NextFile
  <2> QED
    BY <1>24, <2>1, <2>4 DEF NextFile, Sealed
<1>25. CASE CompactionCutover
  <2>1. /\ phase = "cutover" /\ dir' \in RemoveObsolete(dir, gen + 1) /\ gen' = gen + 1
        /\ UNCHANGED <<durableDir, files, sequence, journal, served, pending>>
        /\ synced' = sequence /\ phase' = "recv" /\ compaction' = NoCompaction
    BY <1>25 DEF CompactionCutover
  <2>2. pending = served
    BY <2>1 DEF PowerInv
  <2>3. Serving'
    BY SMTT(30), <1>24, <1>e, <2>1, <2>2 DEF Serving, Rooted
  <2>4. JournalHeld' /\ DeltaHeld'
    BY <1>24, <2>1, NoCompactionType DEF JournalHeld, DeltaHeld
  <2> QED
    BY <1>24, <1>r, <2>1, <2>2, <2>3, <2>4
<1>26. CASE InstallReplace
  <2>1. /\ phase = "replace" /\ dir' \in RemoveObsolete(dir, gen + 1) /\ gen' = gen + 1
        /\ UNCHANGED <<durableDir, files, compaction, pending>> /\ served' = pending
        /\ sequence' = Len(files[gen + 1].history) /\ synced' = Len(files[gen + 1].history)
        /\ journal' = NoJournal /\ phase' = "tick"
    BY <1>26 DEF InstallReplace
  <2>2. Serving'
    BY SMTT(30), <1>24, <1>e, <2>1 DEF Serving, Rooted
  <2>3. JournalHeld' /\ DeltaHeld'
    BY <1>b, <2>1 DEF JournalHeld, DeltaHeld
  <2> QED
    BY <1>24, <1>r, <2>1, <2>2, <2>3
<1>27. CASE UNCHANGED vars
  <2>1. Robust'
    BY <1>27, <1>c, RobustKept DEF vars
  <2>2. (Stopped => Stopped') /\ (Starting => Starting')
    BY <1>27 DEF vars, Stopped, Starting, Rooted, Sealed
  <2>3. (Serving => Serving') /\ (Rooted(gen) => Rooted(gen)') /\ (JournalHeld => JournalHeld')
    BY <1>27 DEF vars, Serving, Rooted, JournalHeld
  <2>4. (Recording => Recording') /\ (NextFile => NextFile') /\ (DeltaHeld => DeltaHeld')
    BY <1>27 DEF vars, Recording, NextFile, Rooted, Sealed, DeltaHeld
  <2> QED
    BY <1>27, <2>1, <2>2, <2>3, <2>4 DEF PowerInv, vars
<1>28. CASE Request
  BY <1>28, <1>4, <1>6, <1>14, <1>17, <1>22 DEF Request, AppendBatch, Replicate, Flush
<1>29. CASE Loop
  BY <1>29, <1>7, <1>12, <1>15, <1>16, <1>18, <1>21, <1>23, <1>25, <1>26 DEF Loop
<1> QED
  BY <1>1, <1>2, <1>3, <1>8, <1>9, <1>10, <1>11, <1>19, <1>27, <1>28, <1>29
     DEF Next, Step, ProcessCrash

\* What a restart would find now is a permitted outcome.
LEMMA RobustRecovers ==
    ASSUME TypeInv, Robust, NEW g \in dir, IsLatest(g, dir)
    PROVE  Outcome(files[g].history)
<1>1. g \in Gen /\ files[g] \in File /\ dir \in SUBSET Gen
  BY DEF TypeInv, TypeOK
<1>2. files[g].history \in Seq(Batch) /\ files[g].synced \in Nat /\ Len(files[g].history) \in Nat
  BY SMTT(30), <1>1 DEF File
<1>3. Kept(files[g])
  BY DEF Robust, IsLatest
<1>4. Len(files[g].history) \in files[g].synced..Len(files[g].history)
  BY SMTT(30), <1>2, <1>3 DEF Kept
<1>5. Outcome(SubSeq(files[g].history, 1, Len(files[g].history)))
  BY <1>3, <1>4 DEF Kept
<1>6. SubSeq(files[g].history, 1, Len(files[g].history)) = files[g].history
  BY <1>2, SubSeqAll
<1> QED
  BY <1>5, <1>6

LEMMA EmptyRecovers ==
    ASSUME Robust, dir = {}
    PROVE  Outcome(<<>>)
BY DEF Robust

LEMMA PowerInvariant ==
    ASSUME "process" \notin Failures
    PROVE  Spec => [](TypeInv /\ PowerInv)
<1>1. Init => TypeInv /\ PowerInv
  BY PowerInit
<1>2. TypeInv /\ PowerInv /\ [Next]_vars => (TypeInv /\ PowerInv)'
  BY TypeNext, PowerNext
<1> QED
  BY <1>1, <1>2, PTL DEF Spec

LEMMA AlwaysFollows == TypeInv /\ PowerInv => AlwaysIsRecoverable
<1> SUFFICES ASSUME TypeInv, PowerInv, policy = "always" PROVE ServedIsRecoverable
  BY DEF AlwaysIsRecoverable
<1>1. Robust
  BY PowerIsRobust
<1>2. dir = {} => <<>> \in {served, pending}
  BY <1>1, EmptyRecovers DEF Outcome
<1>3. \A g \in dir : IsLatest(g, dir) => files[g].history \in {served, pending}
  BY <1>1, RobustRecovers DEF Outcome
<1> QED
  BY <1>2, <1>3 DEF ServedIsRecoverable, WouldRecover

\* However often the machine loses power, and whatever part of the unsynchronised
\* names and batches is gone then: under SyncPolicy::Always recovery finds what was
\* acknowledged, or that with the one unanswered request applied.
THEOREM PowerLossSafe ==
    ASSUME "process" \notin Failures
    PROVE  Spec => []AlwaysIsRecoverable
<1>1. Spec => [](TypeInv /\ PowerInv)
  BY PowerInvariant
<1>2. TypeInv /\ PowerInv => AlwaysIsRecoverable
  BY AlwaysFollows
<1> QED
  BY <1>1, <1>2, PTL

\* Under either policy a power loss cuts at most the end of the history, never what
\* aof_synced_sequence had reported; and under SyncPolicy::Always the journal is
\* never ahead of the device (append_encoded synchronises before it publishes).
THEOREM SyncedPrefixSurvives ==
    ASSUME "process" \notin Failures
    PROVE  Spec => []SyncedSurvives
<1>1. Spec => [](TypeInv /\ PowerInv)
  BY PowerInvariant
<1>2. TypeInv /\ PowerInv => SyncedSurvives
  <2> SUFFICES ASSUME TypeInv, PowerInv PROVE SyncedSurvives
    OBVIOUS
  <2>1. Robust
    BY PowerIsRobust
  <2>2. JournalIsSynced
    <3> SUFFICES ASSUME policy = "always", phase \notin {"down", "failed"}, journal # NoJournal
                 PROVE  journal <= files[gen].synced
      BY DEF JournalIsSynced
    <3>1. /\ gen \in Gen /\ files \in [Gen -> File] /\ journal \in Nat /\ Len(served) \in Nat
          /\ phase \in {"down", "created", "load", "recv", "written", "synced", "tick", "finish",
                        "compacted", "cutover", "installed", "replace", "failed"}
      BY SMTT(30) DEF TypeInv, TypeOK
    <3>2. files[gen].synced \in Nat
      BY <3>1 DEF File
    <3>3. phase \in Quiet \cup Appending \cup Compacting \cup Installing
      BY <3>1 DEF PowerInv, Starting, Quiet, Appending, Compacting, Installing
    <3>4. journal <= Len(served)
      BY <3>3 DEF PowerInv, JournalHeld
    <3>5. Len(served) <= files[gen].synced
      BY <3>1, <3>2, <3>3 DEF PowerInv, Serving, Recording
    <3> QED
      BY SMTT(30), <3>1, <3>2, <3>4, <3>5
  <2>3. dir = {} => Outcome(<<>>)
    BY <2>1, EmptyRecovers
  <2>4. \A g \in dir : IsLatest(g, dir) => Outcome(files[g].history)
    BY <2>1, RobustRecovers
  <2> QED
    BY <2>2, <2>3, <2>4 DEF SyncedSurvives, WouldRecover, Outcome
<1> QED
  BY <1>1, <1>2, PTL

\* Under SyncPolicy::Always the writer implements DurableLog although the machine
\* loses power: the same promise as without power loss, from the synchronisations.
THEOREM PowerLossImplements ==
    ASSUME "process" \notin Failures, Policies = {"always"}
    PROVE  Spec => ImplementsDurableLog
<1>1. Spec => [](TypeInv /\ PowerInv)
  BY PowerInvariant
<1>2. Init => Durable!Init
  BY DEF Init, Durable!Init
<1>3. TypeInv /\ PowerInv /\ [Next]_vars => [Durable!Next]_(Durable!vars)
  <2>1. TypeInv /\ PowerInv => ServedIsRecoverable
    BY AlwaysFollows DEF AlwaysIsRecoverable, TypeInv, TypeOK
  <2>2. PowerInv => (phase = "recv" => pending = served)
    BY DEF PowerInv, Quiet
  <2> QED
    BY <2>1, <2>2, DurableStep
<1> QED
  BY <1>1, <1>2, <1>3, PTL DEF Spec, ImplementsDurableLog, Durable!Spec
=============================================================================
