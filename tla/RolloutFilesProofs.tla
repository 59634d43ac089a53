------------------------ MODULE RolloutFilesProofs ------------------------
(***************************************************************************)
(* Proofs about WriterLock and RolloutFiles: the writer lock excludes, for *)
(* any number of processes and of lock files, and a recorder only touches  *)
(* the thread's files under it.                                            *)
(***************************************************************************)
EXTENDS RolloutFiles, SequenceTheorems, TLAPS

LockInv == LockTypeOK /\ HeldIsNamed /\ MutualExclusion

-----------------------------------------------------------------------------
(* The lock starts free and unnamed.                                       *)
LEMMA LockInitInv == LockInit => LockInv
  BY ProcsAssumption DEF LockInit, LockInv, LockTypeOK, HeldIsNamed,
     MutualExclusion, Coordinating

(* Steps of acquire preserve the invariant: a lock file that is swept has  *)
(* no owner, and the one that is opened is the one that is named.          *)
LEMMA AcquireInv ==
  ASSUME LockInv, NEW p \in Procs, AcquireStep(p)
  PROVE  LockInv'
<1> USE ProcsAssumption, InodesAssumption
    DEF LockInv, LockTypeOK, HeldIsNamed, MutualExclusion, Coordinating
<1>1. CASE LockCoordination(p)
  BY <1>1 DEF LockCoordination
<1>2. CASE FindStale(p)
  BY <1>2 DEF FindStale, IsLocked
<1>3. CASE Sweep(p)
  BY <1>3 DEF Sweep
<1>4. CASE OpenLock(p)
  BY <1>4 DEF OpenLock
<1>5. CASE TryLock(p)
  BY <1>5 DEF TryLock, IsLocked
<1>6. CASE Conflict(p)
  BY <1>6 DEF Conflict
<1> QED BY <1>1, <1>2, <1>3, <1>4, <1>5, <1>6 DEF AcquireStep

(* Steps of release preserve it: the name goes while coordination lasts.   *)
LEMMA ReleaseInv ==
  ASSUME LockInv, NEW p \in Procs, ReleaseStep(p)
  PROVE  LockInv'
<1> USE ProcsAssumption, InodesAssumption
    DEF LockInv, LockTypeOK, HeldIsNamed, MutualExclusion, Coordinating
<1>1. CASE BeginDrop(p)
  BY <1>1 DEF BeginDrop
<1>2. CASE CloseLock(p)
  BY <1>2 DEF CloseLock
<1>3. CASE Unlink(p)
  BY <1>3 DEF Unlink
<1>4. CASE DropUncoordinated(p)
  BY <1>4 DEF DropUncoordinated
<1> QED BY <1>1, <1>2, <1>3, <1>4 DEF ReleaseStep

(* A death releases whatever the process had.                              *)
LEMMA DieInv ==
  ASSUME LockInv, NEW p \in Procs, Die(p)
  PROVE  LockInv'
  BY ProcsAssumption, InodesAssumption
     DEF Die, LockInv, LockTypeOK, HeldIsNamed, MutualExclusion, Coordinating

LEMMA LockStepInv == LockInv /\ [LockNext]_lockVars => LockInv'
<1> SUFFICES ASSUME LockInv, [LockNext]_lockVars PROVE LockInv'
  OBVIOUS
<1>1. CASE LockNext
  BY <1>1, AcquireInv, ReleaseInv, DieInv DEF LockNext
<1>2. CASE UNCHANGED lockVars
  BY <1>2 DEF lockVars, LockInv, LockTypeOK, HeldIsNamed, MutualExclusion
<1> QED BY <1>1, <1>2

(***************************************************************************)
(* At most one process holds a thread's writer lock, whatever lock files   *)
(* are unlinked, recreated or left behind by processes that died.          *)
(***************************************************************************)
THEOREM LockExcludes == LockSpec => [](HeldIsNamed /\ MutualExclusion)
<1>1. LockInv => HeldIsNamed /\ MutualExclusion
  BY DEF LockInv
<1> QED BY LockInitInv, LockStepInv, <1>1, PTL DEF LockSpec

-----------------------------------------------------------------------------
(* What the proofs use of IsPrefix.                                        *)
LEMMA PrefixReflexive == \A S : \A s \in Seq(S) : IsPrefix(s, s)
  BY DEF IsPrefix

LEMMA PrefixAppend ==
  ASSUME NEW S, NEW s \in Seq(S), NEW t \in Seq(S), NEW x \in S, IsPrefix(s, t)
  PROVE  IsPrefix(s, Append(t, x))
<1>1. Len(s) <= Len(t) /\ SubSeq(s, 1, Len(s)) = SubSeq(t, 1, Len(s))
  BY DEF IsPrefix
<1>2. SubSeq(Append(t, x), 1, Len(s)) = SubSeq(t, 1, Len(s))
  BY <1>1
<1> QED BY <1>1, <1>2 DEF IsPrefix

-----------------------------------------------------------------------------
(* The parts of a step that RolloutFiles shares with WriterLock.           *)
LEMMA StepIsLockStep == [Next]_vars => [LockNext]_lockVars
<1> SUFFICES ASSUME [Next]_vars PROVE [LockNext]_lockVars
  OBVIOUS
<1>1. ASSUME NEW p \in Procs, Acquire(p) PROVE LockNext
  BY <1>1 DEF Acquire, LockNext
<1>2. ASSUME NEW p \in Procs, Release(p) PROVE LockNext
  BY <1>2 DEF Release, LockNext
<1>3. ASSUME NEW p \in Procs, WriterDies(p) PROVE LockNext
  BY <1>3 DEF WriterDies, LockNext
<1>4. ASSUME NEW p \in Procs,
             \/ Resume(p) \/ Find(p) \/ Decode(p) \/ Link(p) \/ Retime(p)
             \/ RemoveCompressed(p) \/ Open(p) \/ Shutdown(p)
             \/ \E x \in Items : AppendItem(p, x)
      PROVE  UNCHANGED lockVars
  BY <1>4 DEF Resume, Find, Decode, Link, Retime, RemoveCompressed, Open,
     Shutdown, AppendItem
<1>5. ASSUME \/ StartJob \/ SkipCompressed \/ Encode \/ CheckUnchanged
             \/ Persist \/ Recheck \/ Undo \/ RemovePlain \/ JobDies \/ Age
      PROVE  UNCHANGED lockVars
  BY <1>5 DEF StartJob, SkipCompressed, Encode, CheckUnchanged, Persist,
     Recheck, Undo, RemovePlain, JobDies, Age
<1>6. CASE UNCHANGED vars
  BY <1>6 DEF vars
<1>7. CASE Next
  BY <1>7, <1>1, <1>2, <1>3, <1>4, <1>5 DEF Next
<1> QED BY <1>6, <1>7

(***************************************************************************)
(* The system of RolloutFiles implements the lock's specification: it      *)
(* takes and releases the lock as WriterLock says, and in no other way.    *)
(***************************************************************************)
THEOREM SpecImplementsLock == Spec => LockSpec
<1>1. Init => LockInit
  BY DEF Init
<1> QED BY <1>1, StepIsLockStep, PTL DEF Spec, LockSpec

-----------------------------------------------------------------------------
(* Type correctness, one lemma per group of actions.                       *)
LEMMA InitTypes == Init => TypeOK
<1> SUFFICES ASSUME Init PROVE TypeOK
  OBVIOUS
<1>1. LockTypeOK
  BY LockInitInv DEF Init, LockInv
<1>2. <<>> \in Seq(Records) /\ <<Old>> \in Seq(Records)
  BY DEF Records
<1>3. NoWriter \in Writers /\ NoJob \in Jobs
  BY <1>2 DEF NoWriter, NoJob, Writers, Jobs, WriterPcs, JobPcs
<1>4. data \in [FileInodes -> Seq(Records)] /\ zst \in Seq(Records)
  BY <1>2 DEF Init
<1>5. /\ writer \in [Procs -> Writers] /\ job \in Jobs
      /\ \A p \in Procs : ~At(p, "live")
  BY <1>3 DEF Init, At, NoWriter
<1>6. /\ plain \in FileInodes \cup {NoFile}
      /\ mtime \in [FileInodes -> {"cold", "warm"}]
      /\ acked \subseteq Items /\ deaths \in 0..MaxDeaths
  BY DeathsAssumption DEF Init
<1> QED BY <1>1, <1>4, <1>5, <1>6 DEF TypeOK

LEMMA NoneTyped == NoWriter \in Writers /\ NoJob \in Jobs
<1>1. <<>> \in Seq(Records)
  OBVIOUS
<1> QED BY <1>1 DEF NoWriter, NoJob, Writers, Jobs, WriterPcs, JobPcs

LEMMA WriterTypes ==
  ASSUME TypeOK, LockTypeOK', NEW p \in Procs,
         \/ Resume(p) \/ Find(p) \/ Decode(p) \/ Link(p) \/ Retime(p)
         \/ RemoveCompressed(p) \/ Open(p) \/ Shutdown(p)
         \/ \E x \in Items : AppendItem(p, x)
         \/ Acquire(p) \/ Release(p) \/ WriterDies(p)
  PROVE  TypeOK'
<1> USE FilesAssumption, DeathsAssumption, NoneTyped
    DEF TypeOK, At, Goto, Close, Named, Writers, WriterPcs
<1>0. <<>> \in Seq(Records)
  OBVIOUS
<1>1. CASE Resume(p)
  BY <1>1, <1>0 DEF Resume, NoWriter
<1>2. CASE Find(p)
  BY <1>2, ZenonT(40) DEF Find
<1>3. CASE Decode(p)
  <2>1. CASE zst = <<>>
    <3>1. writer' = [writer EXCEPT ![p] = [NoWriter EXCEPT !.pc = "closed"]]
      BY <1>3, <2>1 DEF Decode
    <3>2. writer' \in [Procs -> Writers]
      BY <3>1, <1>0 DEF NoWriter
    <3>3. \A q \in Procs : writer'[q].pc = "live" => writer'[q].fd # NoFile
      BY <3>1 DEF NoWriter
    <3> QED BY <1>3, <2>1, <3>2, <3>3 DEF Decode
  <2>2. CASE zst # <<>>
    <3>1. writer' = [writer EXCEPT ![p].pc = "link", ![p].temp = zst]
      BY <1>3, <2>2 DEF Decode
    <3>2. writer' \in [Procs -> Writers]
      BY <3>1
    <3>3. \A q \in Procs : writer'[q].pc = "live" => writer'[q].fd # NoFile
      BY <3>1
    <3> QED BY <1>3, <3>2, <3>3 DEF Decode
  <2> QED BY <2>1, <2>2
<1>4. CASE Link(p)
  <2>1. CASE Named
    <3>1. /\ writer' = [writer EXCEPT ![p].pc = "retime"]
          /\ UNCHANGED <<plain, data, mtime>>
      BY <1>4, <2>1 DEF Link
    <3>2. writer' \in [Procs -> Writers]
      BY <3>1
    <3>3. \A q \in Procs : writer'[q].pc = "live" => writer'[q].fd # NoFile
      BY <3>1
    <3> QED BY <1>4, <3>1, <3>2, <3>3 DEF Link
  <2>2. CASE ~Named
    <3>1. PICK i \in FileInodes :
            /\ plain' = i
            /\ data' = [data EXCEPT ![i] = writer[p].temp]
            /\ mtime' = [mtime EXCEPT ![i] = "warm"]
            /\ writer' = [writer EXCEPT ![p].pc = "retime", ![p].fd = i]
      BY <1>4, <2>2 DEF Link
    <3>2. writer' \in [Procs -> Writers]
      BY <3>1, ZenonT(40)
    <3>3. \A q \in Procs : writer'[q].pc = "live" => writer'[q].fd # NoFile
      BY <3>1
    <3>4. /\ data' \in [FileInodes -> Seq(Records)]
          /\ mtime' \in [FileInodes -> {"cold", "warm"}]
      BY <3>1
    <3> QED BY <1>4, <3>1, <3>2, <3>3, <3>4 DEF Link
  <2> QED BY <2>1, <2>2
<1>5. CASE Retime(p)
  BY <1>5 DEF Retime
<1>6. CASE RemoveCompressed(p)
  BY <1>6, <1>0 DEF RemoveCompressed
<1>7. CASE Open(p)
  <2>1. CASE Named
    <3>1. writer' = [writer EXCEPT ![p].pc = "live", ![p].fd = plain]
      BY <1>7, <2>1 DEF Open
    <3>2. writer' \in [Procs -> Writers]
      BY <3>1, ZenonT(40)
    <3>3. \A q \in Procs : writer'[q].pc = "live" => writer'[q].fd # NoFile
      BY <3>1, <2>1
    <3>4. mtime' \in [FileInodes -> {"cold", "warm"}]
      BY <1>7, <2>1 DEF Open
    <3> QED BY <1>7, <3>2, <3>3, <3>4 DEF Open
  <2>2. CASE ~Named
    <3>1. writer' = [writer EXCEPT ![p] = [NoWriter EXCEPT !.pc = "closed"]]
      BY <1>7, <2>2 DEF Open
    <3>2. writer' \in [Procs -> Writers]
      BY <3>1, <1>0 DEF NoWriter
    <3>3. \A q \in Procs : writer'[q].pc = "live" => writer'[q].fd # NoFile
      BY <3>1 DEF NoWriter
    <3> QED BY <1>7, <2>2, <3>2, <3>3 DEF Open
  <2> QED BY <2>1, <2>2
<1>8. CASE Shutdown(p)
  BY <1>8, <1>0 DEF Shutdown, NoWriter
<1>9. ASSUME NEW x \in Items, AppendItem(p, x) PROVE TypeOK'
  <2>1. Append(data[writer[p].fd], x) \in Seq(Records)
    BY <1>9 DEF AppendItem, Records
  <2> QED BY <1>9, <2>1 DEF AppendItem
<1>10. CASE Acquire(p)
  BY <1>10 DEF Acquire, fileVars
<1>11. CASE Release(p)
  BY <1>11, <1>0 DEF Release, NoWriter
<1>12. CASE WriterDies(p)
  BY <1>12, <1>0 DEF WriterDies, NoWriter
<1> QED BY <1>1, <1>2, <1>3, <1>4, <1>5, <1>6, <1>7, <1>8, <1>9, <1>10,
           <1>11, <1>12

LEMMA JobTypes ==
  ASSUME TypeOK, LockTypeOK',
         \/ StartJob \/ SkipCompressed \/ Encode \/ CheckUnchanged
         \/ Persist \/ Recheck \/ Undo \/ RemovePlain \/ JobDies \/ Age
  PROVE  TypeOK'
<1> USE FilesAssumption, DeathsAssumption, NoneTyped
    DEF TypeOK, At, JobAt, JobGoto, Named, Jobs, JobPcs
<1>0. <<>> \in Seq(Records)
  OBVIOUS
<1>1. CASE StartJob
  <2>1. Len(data[plain]) \in Nat
    BY <1>1 DEF StartJob
  <2>2. job' \in Jobs
    BY <1>1, <1>0, <2>1 DEF StartJob, NoJob
  <2> QED BY <1>1, <2>2 DEF StartJob
<1>2. CASE SkipCompressed
  BY <1>2 DEF SkipCompressed
<1>3. CASE Encode
  BY <1>3 DEF Encode
<1>4. CASE CheckUnchanged
  BY <1>4 DEF CheckUnchanged
<1>5. CASE Persist
  <2>1. job' \in Jobs
    BY <1>5, SMTT(30) DEF Persist
  <2>2. zst' \in Seq(Records)
    BY <1>5 DEF Persist
  <2> QED BY <1>5, <2>1, <2>2 DEF Persist
<1>6. CASE Recheck
  BY <1>6 DEF Recheck
<1>7. CASE Undo
  BY <1>7, <1>0 DEF Undo
<1>8. CASE RemovePlain
  BY <1>8 DEF RemovePlain
<1>9. CASE JobDies
  BY <1>9 DEF JobDies
<1>10. CASE Age
  BY <1>10 DEF Age
<1> QED BY <1>1, <1>2, <1>3, <1>4, <1>5, <1>6, <1>7, <1>8, <1>9, <1>10

-----------------------------------------------------------------------------
(* Records that are appended, decoded and compressed, and never lost.      *)
FilesInv == LockInv /\ TypeOK /\ StagesAgree /\ PlainIsNewest

KeepsRecords ==
    \/ IsPrefix(Visible, Visible')
    \/ JobAt("unlink") /\ IsPrefix(job.temp, Visible')

LEMMA OneAtWork ==
  ASSUME FilesInv, NEW p \in Procs, NEW q \in Procs, ~At(p, "none"),
         ~At(q, "none")
  PROVE  p = q
<1>1. lpc[p] = "held" /\ lpc[q] = "held"
  BY DEF FilesInv, StagesAgree
<1> QED BY <1>1 DEF FilesInv, LockInv, HeldIsNamed, MutualExclusion

(* A step that leaves both files alone shows readers the same.             *)
LEMMA SameVisible ==
  ASSUME TypeOK, UNCHANGED <<plain, data, zst>>
  PROVE  KeepsRecords
<1>1. Visible' = Visible
  BY DEF Visible, Named
<1>2. Visible \in Seq(Records)
  BY DEF TypeOK, Visible, Named
<1> QED BY <1>1, <1>2, PrefixReflexive DEF KeepsRecords

(* Steps of the lock and of a recorder that leave both files alone.        *)
LEMMA QuietStages ==
  ASSUME FilesInv, NEW p \in Procs, TypeOK',
         \/ Acquire(p) \/ Release(p) \/ WriterDies(p) \/ Resume(p)
         \/ Retime(p) \/ Open(p) \/ Shutdown(p)
  PROVE  StagesAgree' /\ PlainIsNewest'
<1> USE DEF FilesInv, TypeOK, StagesAgree, PlainIsNewest, At, Goto, Close,
        Named, NoWriter, Materializing, Writers, WriterPcs
<1>1. CASE Acquire(p)
  <2>1. \A q \in Procs : lpc[q] = "held" => lpc'[q] = "held"
    BY <1>1 DEF Acquire, AcquireStep, LockCoordination, FindStale, Sweep,
       OpenLock, TryLock, Conflict, LockInv, LockTypeOK
  <2> QED BY <1>1, <2>1 DEF Acquire, fileVars
<1>2. CASE Release(p)
  <2>1. \A q \in Procs \ {p} : lpc[q] = "held" => lpc'[q] = "held"
    BY <1>2 DEF Release, ReleaseStep, BeginDrop, CloseLock, Unlink,
       DropUncoordinated, LockInv, LockTypeOK
  <2> QED BY <1>2, <2>1 DEF Release
<1>3. CASE WriterDies(p)
  <2>1. \A q \in Procs \ {p} : lpc[q] = "held" => lpc'[q] = "held"
    BY <1>3 DEF WriterDies, Die, LockInv, LockTypeOK
  <2> QED BY <1>3, <2>1 DEF WriterDies
<1>4. CASE Resume(p)
  BY <1>4 DEF Resume, lockVars
<1>5. CASE Retime(p)
  BY <1>5 DEF Retime, lockVars
<1>6. CASE Open(p)
  <2>1. /\ writer' = [writer EXCEPT ![p] = writer'[p]]
        /\ writer'[p].pc \in {"live", "closed"}
    BY <1>6 DEF Open
  <2>2. UNCHANGED <<lpc, plain, data, zst, job>> /\ At(p, "open")
    BY <1>6 DEF Open, lockVars
  <2>3. \A q \in Procs : q # p => writer'[q] = writer[q]
    BY <2>1
  <2>4. lpc'[p] = "held" /\ writer'[p].pc \notin Materializing
    BY <2>1, <2>2
  <2>5. PlainIsNewest'
    BY <2>2
  <2>6. \A q \in Procs : writer'[q].pc # "none" => lpc'[q] = "held"
    BY <2>2, <2>3, <2>4
  <2>7. \A q \in Procs : writer'[q].pc \in Materializing => writer'[q] = writer[q]
    BY <2>3, <2>4
  <2>8. StagesAgree'
    BY <2>2, <2>6, <2>7
  <2> QED BY <2>5, <2>8
<1>7. CASE Shutdown(p)
  BY <1>7 DEF Shutdown, lockVars
<1> QED BY <1>1, <1>2, <1>3, <1>4, <1>5, <1>6, <1>7

(* Find and Decode start a materialization, with the compressed file alone.*)
LEMMA StartStages ==
  ASSUME FilesInv, NEW p \in Procs, TypeOK', Find(p) \/ Decode(p)
  PROVE  StagesAgree' /\ PlainIsNewest'
<1> USE DEF FilesInv, TypeOK, StagesAgree, PlainIsNewest, At, Goto, Close,
        Named, NoWriter, Materializing, Copying, Persisted, Writers, WriterPcs
<1>1. CASE Find(p)
  BY <1>1 DEF Find, lockVars
<1>2. CASE Decode(p)
  <2>1. zst # <<>>
    BY <1>2 DEF Decode
  <2>2. writer' = [writer EXCEPT ![p].pc = "link", ![p].temp = zst]
    BY <1>2, <2>1 DEF Decode
  <2> QED BY <1>2, <2>2 DEF Decode, lockVars
<1> QED BY <1>1, <1>2

(* Link: the plain file appears with all that the compressed one has.      *)
LEMMA LinkStages ==
  ASSUME FilesInv, NEW p \in Procs, TypeOK', Link(p)
  PROVE  StagesAgree' /\ PlainIsNewest' /\ KeepsRecords
<1> USE DEF FilesInv, TypeOK
<1>1. ~Named /\ writer[p].temp = zst /\ zst # <<>> /\ At(p, "link")
  BY DEF Link, StagesAgree, At, Materializing
<1>2. PICK i \in FileInodes :
        /\ plain' = i
        /\ data' = [data EXCEPT ![i] = zst]
        /\ writer' = [writer EXCEPT ![p].pc = "retime", ![p].fd = i]
        /\ UNCHANGED <<lpc, zst, job>>
  BY <1>1 DEF Link, lockVars
<1>3. Named' /\ data'[plain'] = zst /\ IsPrefix(zst, zst)
  BY <1>2, FilesAssumption, PrefixReflexive DEF Named
<1>4. \A q \in Procs : q # p => At(q, "none")
  BY <1>1, OneAtWork DEF At
<1>5. StagesAgree'
  BY <1>1, <1>2, <1>3, <1>4
     DEF StagesAgree, At, Materializing, Copying, Persisted, Writers
<1>6. PlainIsNewest'
  BY <1>2, <1>3 DEF PlainIsNewest
<1>7. KeepsRecords
  BY <1>1, <1>3 DEF KeepsRecords, Visible
<1> QED BY <1>5, <1>6, <1>7

(* The compressed file goes when the plain one is there, and no job has    *)
(* just written it.                                                        *)
LEMMA RemoveCompressedStages ==
  ASSUME FilesInv, NEW p \in Procs, TypeOK', RemoveCompressed(p)
  PROVE  StagesAgree' /\ PlainIsNewest' /\ KeepsRecords
<1> USE DEF FilesInv, TypeOK
<1>1. Named /\ job.pc \notin Persisted /\ At(p, "discard")
  BY DEF RemoveCompressed, StagesAgree, At, Materializing
<1>2. /\ UNCHANGED <<lpc, plain, data, job>> /\ zst' = <<>>
      /\ writer' = [writer EXCEPT ![p].pc = "open"]
  BY DEF RemoveCompressed, Goto, lockVars
<1>3. \A q \in Procs : q # p => At(q, "none")
  BY <1>1, OneAtWork DEF At
<1>4. StagesAgree'
  BY <1>1, <1>2, <1>3 DEF StagesAgree, At, Materializing, Named, Writers
<1>5. PlainIsNewest'
  BY <1>2 DEF PlainIsNewest
<1>6. Visible' = Visible /\ Visible \in Seq(Records)
  BY <1>1, <1>2 DEF Visible, Named
<1> QED BY <1>4, <1>5, <1>6, PrefixReflexive DEF KeepsRecords

(* An append adds to the plain file, or to one that was unlinked.          *)
LEMMA AppendStages ==
  ASSUME FilesInv, NEW p \in Procs, NEW x \in Items, TypeOK', AppendItem(p, x)
  PROVE  StagesAgree' /\ PlainIsNewest' /\ KeepsRecords
<1> USE DEF FilesInv, TypeOK
<1> DEFINE i == writer[p].fd
<1>1. /\ i \in FileInodes
      /\ data' = [data EXCEPT ![i] = Append(data[i], x)]
      /\ UNCHANGED <<lpc, plain, zst, writer, job>>
  BY FilesAssumption DEF AppendItem, Writers, lockVars
<1>2. x \in Records
  BY DEF Records
<1>3. ASSUME NEW s \in Seq(Records), Named, IsPrefix(s, data[plain])
      PROVE  IsPrefix(s, data'[plain])
  <2>1. plain \in FileInodes
    BY <1>3 DEF Named
  <2>2. CASE plain = i
    BY <1>1, <1>2, <1>3, <2>1, <2>2, PrefixAppend
  <2>3. CASE plain # i
    BY <1>1, <1>3, <2>1, <2>3
  <2> QED BY <2>2, <2>3
<1>4. StagesAgree'
  BY <1>1, <1>3 DEF StagesAgree, At, Named, Jobs
<1>5. PlainIsNewest'
  BY <1>1, <1>3 DEF PlainIsNewest, Named
<1>6. KeepsRecords
  <2>1. CASE Named
    <3>1. data[plain] \in Seq(Records)
      BY <2>1 DEF Named
    <3>2. IsPrefix(data[plain], data'[plain])
      BY <1>3, <2>1, <3>1, PrefixReflexive
    <3> QED BY <1>1, <2>1, <3>2 DEF KeepsRecords, Visible, Named
  <2>2. CASE ~Named
    BY <1>1, <2>2, PrefixReflexive DEF KeepsRecords, Visible, Named
  <2> QED BY <2>1, <2>2
<1> QED BY <1>4, <1>5, <1>6

(* The steps of the job; a copy begins as a prefix of the plain file.      *)
LEMMA JobStages ==
  ASSUME FilesInv, TypeOK',
         \/ StartJob \/ SkipCompressed \/ Encode \/ CheckUnchanged
         \/ Persist \/ Recheck \/ Undo \/ RemovePlain \/ JobDies \/ Age
  PROVE  StagesAgree' /\ PlainIsNewest' /\ KeepsRecords
<1> USE DEF FilesInv, TypeOK, JobAt, JobGoto, Jobs, Copying, Persisted
<1>1. CASE StartJob \/ SkipCompressed \/ CheckUnchanged \/ Recheck \/ JobDies
  <2>1. /\ UNCHANGED <<lpc, plain, data, zst, writer>>
        /\ job'.pc \in Copying => job.pc \in Copying /\ job'.temp = job.temp
        /\ job'.pc \in Persisted => job.pc \in Persisted /\ job'.temp = job.temp
    <3>1. CASE StartJob
      BY <3>1 DEF StartJob, NoJob, lockVars
    <3>2. CASE SkipCompressed
      BY <3>2 DEF SkipCompressed, NoJob, lockVars
    <3>3. CASE CheckUnchanged
      BY <3>3 DEF CheckUnchanged, NoJob, lockVars
    <3>4. CASE Recheck
      BY <3>4 DEF Recheck, lockVars
    <3>5. CASE JobDies
      BY <3>5 DEF JobDies, NoJob, lockVars
    <3> QED BY <1>1, <3>1, <3>2, <3>3, <3>4, <3>5
  <2>2. StagesAgree' /\ PlainIsNewest'
    BY <2>1 DEF StagesAgree, PlainIsNewest, At, Named
  <2> QED BY <2>1, <2>2, SameVisible
<1>2. CASE Encode
  <2>1. UNCHANGED <<lpc, plain, data, zst, writer>>
    BY <1>2 DEF Encode, lockVars
  <2>2. job'.pc \in Copying => Named /\ job'.temp = data[plain]
    BY <1>2 DEF Encode, NoJob
  <2>3. job'.pc \notin Persisted
    BY <1>2 DEF Encode, NoJob
  <2>4. Named => IsPrefix(data[plain], data[plain])
    BY PrefixReflexive DEF Named
  <2>5. StagesAgree' /\ PlainIsNewest'
    BY <2>1, <2>2, <2>3, <2>4 DEF StagesAgree, PlainIsNewest, At, Named
  <2> QED BY <2>1, <2>5, SameVisible
<1>3. CASE Persist /\ zst # <<>>
  <2>1. UNCHANGED <<lpc, plain, data, zst, writer>> /\ job' = NoJob
    BY <1>3 DEF Persist, lockVars
  <2>2. StagesAgree' /\ PlainIsNewest'
    BY <2>1 DEF StagesAgree, PlainIsNewest, At, Named, NoJob
  <2> QED BY <2>1, <2>2, SameVisible
<1>4. CASE Persist /\ zst = <<>>
  <2>1. /\ UNCHANGED <<lpc, plain, data, writer>> /\ zst' = job.temp
        /\ job' = [job EXCEPT !.pc = "recheck"]
        /\ Named /\ IsPrefix(job.temp, data[plain])
    BY <1>4 DEF Persist, lockVars, StagesAgree
  <2>2. \A p \in Procs : writer[p].pc \notin Materializing
    BY <1>4 DEF StagesAgree
  <2>3. StagesAgree' /\ PlainIsNewest'
    BY <2>1, <2>2 DEF StagesAgree, PlainIsNewest, At, Named
  <2>4. Visible' = Visible /\ Visible \in Seq(Records)
    BY <2>1 DEF Visible, Named
  <2> QED BY <2>3, <2>4, PrefixReflexive DEF KeepsRecords
<1>5. CASE Undo
  <2>1. /\ UNCHANGED <<lpc, plain, data, writer>> /\ zst' = <<>>
        /\ job' = NoJob /\ Named
    BY <1>5 DEF Undo, lockVars, StagesAgree
  <2>2. \A p \in Procs : writer[p].pc \notin Materializing
    BY <1>5 DEF Undo, StagesAgree
  <2>3. StagesAgree' /\ PlainIsNewest'
    BY <2>1, <2>2 DEF StagesAgree, PlainIsNewest, At, Named, NoJob
  <2>4. Visible' = Visible /\ Visible \in Seq(Records)
    BY <2>1 DEF Visible, Named
  <2> QED BY <2>3, <2>4, PrefixReflexive DEF KeepsRecords
<1>6. CASE RemovePlain
  <2>1. /\ UNCHANGED <<lpc, data, zst, writer>> /\ plain' = NoFile
        /\ job' = NoJob /\ zst = job.temp /\ JobAt("unlink")
    BY <1>6 DEF RemovePlain, lockVars, StagesAgree
  <2>2. \A p \in Procs : writer[p].pc \notin Materializing
    BY <1>6 DEF RemovePlain, StagesAgree
  <2>3. StagesAgree' /\ PlainIsNewest'
    BY <2>1, <2>2 DEF StagesAgree, PlainIsNewest, At, Named, NoJob
  <2>4. Visible' = job.temp /\ job.temp \in Seq(Records)
    BY <2>1 DEF Visible, Named
  <2> QED BY <2>1, <2>3, <2>4, PrefixReflexive DEF KeepsRecords
<1>7. CASE Age
  <2>1. UNCHANGED <<lpc, plain, data, zst, writer, job>>
    BY <1>7 DEF Age, lockVars
  <2>2. StagesAgree' /\ PlainIsNewest'
    BY <2>1 DEF StagesAgree, PlainIsNewest, At, Named
  <2> QED BY <2>1, <2>2, SameVisible
<1> QED BY <1>1, <1>2, <1>3, <1>4, <1>5, <1>6, <1>7

LEMMA FilesInit == Init => FilesInv
<1> SUFFICES ASSUME Init PROVE FilesInv
  OBVIOUS
<1>1. LockInv /\ TypeOK
  BY InitTypes, LockInitInv DEF Init
<1>2. StagesAgree /\ PlainIsNewest
  BY DEF Init, StagesAgree, PlainIsNewest, At, Named, NoWriter, NoJob,
     Materializing, Copying, Persisted
<1> QED BY <1>1, <1>2 DEF FilesInv

LEMMA FilesStep ==
  FilesInv /\ [Next]_vars => FilesInv' /\ (KeepsRecords \/ UNCHANGED vars)
<1> SUFFICES ASSUME FilesInv, [Next]_vars
             PROVE  FilesInv' /\ (KeepsRecords \/ UNCHANGED vars)
  OBVIOUS
<1>1. LockInv'
  BY StepIsLockStep, LockStepInv DEF FilesInv
<1>2. CASE UNCHANGED vars
  <2>1. TypeOK'
    BY <1>1, <1>2 DEF vars, fileVars, FilesInv, TypeOK, LockInv, At
  <2>2. StagesAgree' /\ PlainIsNewest'
    BY <1>2 DEF vars, fileVars, lockVars, FilesInv, StagesAgree,
       PlainIsNewest, At, Named
  <2> QED BY <1>1, <1>2, <2>1, <2>2 DEF FilesInv
<1>3. ASSUME NEW p \in Procs,
             \/ Acquire(p) \/ Release(p) \/ WriterDies(p) \/ Resume(p)
             \/ Retime(p) \/ Open(p) \/ Shutdown(p)
      PROVE  FilesInv' /\ KeepsRecords
  <2>1. TypeOK'
    BY <1>1, <1>3, WriterTypes DEF FilesInv, LockInv
  <2>2. StagesAgree' /\ PlainIsNewest'
    BY <1>3, <2>1, QuietStages
  <2>3. UNCHANGED <<plain, data, zst>>
    BY <1>3 DEF Acquire, Release, WriterDies, Resume, Retime, Open, Shutdown,
       fileVars
  <2> QED BY <1>1, <2>1, <2>2, <2>3, SameVisible DEF FilesInv
<1>4. ASSUME NEW p \in Procs, Find(p) \/ Decode(p)
      PROVE  FilesInv' /\ KeepsRecords
  <2>1. TypeOK'
    BY <1>1, <1>4, WriterTypes DEF FilesInv, LockInv
  <2>2. StagesAgree' /\ PlainIsNewest'
    BY <1>4, <2>1, StartStages
  <2>3. UNCHANGED <<plain, data, zst>>
    BY <1>4 DEF Find, Decode
  <2> QED BY <1>1, <2>1, <2>2, <2>3, SameVisible DEF FilesInv
<1>5. ASSUME NEW p \in Procs, Link(p) \/ RemoveCompressed(p)
      PROVE  FilesInv' /\ KeepsRecords
  <2>1. TypeOK'
    BY <1>1, <1>5, WriterTypes DEF FilesInv, LockInv
  <2> QED BY <1>1, <1>5, <2>1, LinkStages, RemoveCompressedStages DEF FilesInv
<1>6. ASSUME NEW p \in Procs, NEW x \in Items, AppendItem(p, x)
      PROVE  FilesInv' /\ KeepsRecords
  <2>1. TypeOK'
    BY <1>1, <1>6, WriterTypes DEF FilesInv, LockInv
  <2> QED BY <1>1, <1>6, <2>1, AppendStages DEF FilesInv
<1>7. ASSUME \/ StartJob \/ SkipCompressed \/ Encode \/ CheckUnchanged
             \/ Persist \/ Recheck \/ Undo \/ RemovePlain \/ JobDies \/ Age
      PROVE  FilesInv' /\ KeepsRecords
  <2>1. TypeOK'
    BY <1>1, <1>7, JobTypes DEF FilesInv, LockInv
  <2> QED BY <1>1, <1>7, <2>1, JobStages DEF FilesInv
<1>8. CASE Next
  BY <1>8, <1>3, <1>4, <1>5, <1>6, <1>7 DEF Next
<1> QED BY <1>2, <1>8

(***************************************************************************)
(* Every reachable state is well typed.                                    *)
(***************************************************************************)
THEOREM SpecTypeOK == Spec => []TypeOK
<1>1. FilesInv => TypeOK
  BY DEF FilesInv
<1> QED BY FilesInit, FilesStep, <1>1, PTL DEF Spec

(***************************************************************************)
(* A recorder has the thread's files open only under the writer lock, and  *)
(* only one process has it.                                                *)
(***************************************************************************)
THEOREM SpecOneRecorder == Spec => []OneRecorder
<1>1. FilesInv => OneRecorder
  BY DEF FilesInv, LockInv, StagesAgree, HeldIsNamed, OneRecorder
<1> QED BY FilesInit, FilesStep, <1>1, PTL DEF Spec

(***************************************************************************)
(* When both representations exist the plain one, which readers prefer,    *)
(* has everything that the compressed one has.                             *)
(***************************************************************************)
THEOREM SpecPlainIsNewest == Spec => []PlainIsNewest
<1>1. FilesInv => PlainIsNewest
  BY DEF FilesInv
<1> QED BY FilesInit, FilesStep, <1>1, PTL DEF Spec

(***************************************************************************)
(* The stages of a materialization and of the compression job agree with   *)
(* the files on disk.                                                      *)
(***************************************************************************)
THEOREM SpecStagesAgree == Spec => []StagesAgree
<1>1. FilesInv => StagesAgree
  BY DEF FilesInv
<1> QED BY FilesInit, FilesStep, <1>1, PTL DEF Spec

(***************************************************************************)
(* No step takes records from readers but the job's removal of the plain   *)
(* file, which takes at most what was appended after the job's copy.       *)
(***************************************************************************)
THEOREM SpecReadersLoseNothing == Spec => ReadersLoseNothing
<1>1. FilesInv /\ [Next]_vars => [KeepsRecords]_vars
  BY FilesStep
<1> QED BY FilesInit, FilesStep, <1>1, PTL DEF Spec, ReadersLoseNothing, KeepsRecords
=============================================================================
