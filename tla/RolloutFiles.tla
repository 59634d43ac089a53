---------------------------- MODULE RolloutFiles ----------------------------
(***************************************************************************)
(* The two representations of a thread's rollout on disk, the plain        *)
(* rollout-*.jsonl and the compressed rollout-*.jsonl.zst                  *)
(* (rollout/src/compression.rs), against the processes that resume and     *)
(* append to it (recorder.rs: open_rollout_for_append) under the thread's  *)
(* writer lock (WriterLock).                                               *)
(*                                                                         *)
(* The compression job of a cold rollout runs in whatever process started  *)
(* last, and takes no lock: it relies on the length and the modification   *)
(* time of the plain file.  One step is one file system operation, and any *)
(* process may die between two of them.  I/O errors are RolloutLog's.      *)
(***************************************************************************)
EXTENDS WriterLock, Sequences, SequencesExt

CONSTANTS
    Old,            \* the record of the thread's earlier life
    Items,          \* records appended now, each once
    FileInodes, NoFile,
    MaxDeaths       \* bound on processes that die

ASSUME FilesAssumption == NoFile \notin FileInodes /\ Old \notin Items
ASSUME DeathsAssumption == MaxDeaths \in Nat

VARIABLES
    plain,      \* the inode that the .jsonl name leads to
    data,       \* inode -> its records
    mtime,      \* inode -> "cold" (MIN_ROLLOUT_AGE and more) or "warm"
    zst,        \* the records in the .jsonl.zst, <<>> if there is none
    writer,     \* process -> its recorder
    job,        \* the compression job
    acked,      \* items whose append was flushed and acknowledged
    deaths

fileVars == <<plain, data, mtime, zst, writer, job, acked, deaths>>
vars == <<lockVars, fileVars>>

NoWriter == [pc |-> "none", fd |-> NoFile, refresh |-> FALSE, temp |-> <<>>]
NoJob == [pc |-> "none", len |-> 0, temp |-> <<>>]

(* A thread that was last written some time ago, in either representation. *)
Init ==
    /\ LockInit
    /\ data = [i \in FileInodes |-> <<Old>>]
    /\ mtime = [i \in FileInodes |-> "cold"]
    /\ \/ plain \in FileInodes /\ zst = <<>>
       \/ plain = NoFile /\ zst = <<Old>>
    /\ writer = [p \in Procs |-> NoWriter]
    /\ job = NoJob
    /\ acked = {} /\ deaths = 0

Named == plain # NoFile
At(p, label) == writer[p].pc = label
Goto(p, label) == writer' = [writer EXCEPT ![p].pc = label]
Close(p) == writer' = [writer EXCEPT ![p] = [NoWriter EXCEPT !.pc = "closed"]]

-----------------------------------------------------------------------------
(***************************************************************************)
(* A recorder resumes the thread.                                          *)
(***************************************************************************)
(* open_rollout_for_append remembers whether there was a plain file.       *)
Resume(p) ==
    /\ lpc[p] = "held" /\ At(p, "none")
    /\ writer' = [writer EXCEPT ![p] = [NoWriter EXCEPT !.pc = "find",
                                                       !.refresh = ~Named]]
    /\ UNCHANGED <<lockVars, plain, data, mtime, zst, job, acked, deaths>>

(* materialize_rollout_for_append_blocking: nothing to do for a plain      *)
(* file, nor without a compressed one.                                     *)
Find(p) ==
    /\ At(p, "find")
    /\ Goto(p, IF Named \/ zst = <<>> THEN "open" ELSE "decode")
    /\ UNCHANGED <<lockVars, plain, data, mtime, zst, job, acked, deaths>>

(* The compressed file is decoded into a temporary one, unless it is gone. *)
Decode(p) ==
    /\ At(p, "decode")
    /\ IF zst = <<>> THEN Close(p)
       ELSE writer' = [writer EXCEPT ![p].pc = "link", ![p].temp = zst]
    /\ UNCHANGED <<lockVars, plain, data, mtime, zst, job, acked, deaths>>

Unused(i) == i # plain /\ \A p \in Procs : writer[p].fd # i

(* Mutant of Link: the temporary file is linked before it is filled.       *)
LinkUnfilled(p) ==
    /\ At(p, "link") /\ ~Named
    /\ \E i \in FileInodes :
         /\ Unused(i)
         /\ plain' = i
         /\ data' = [data EXCEPT ![i] = <<>>]
         /\ mtime' = [mtime EXCEPT ![i] = "warm"]
         /\ writer' = [writer EXCEPT ![p].pc = "retime", ![p].fd = i]
    /\ UNCHANGED <<lockVars, zst, job, acked, deaths>>

(* hard_link gives it the plain name; a plain file that is there stays.    *)
Link(p) ==
    /\ At(p, "link")
    /\ IF Named
       THEN Goto(p, "retime") /\ UNCHANGED <<plain, data, mtime>>
       ELSE \E i \in FileInodes :
              /\ Unused(i)
              /\ plain' = i
              /\ data' = [data EXCEPT ![i] = writer[p].temp]
              /\ mtime' = [mtime EXCEPT ![i] = "warm"]
              /\ writer' = [writer EXCEPT ![p].pc = "retime", ![p].fd = i]
    /\ UNCHANGED <<lockVars, zst, job, acked, deaths>>

(* The modification time of the compressed file is carried over.           *)
Retime(p) ==
    /\ At(p, "retime")
    /\ mtime' = IF writer[p].fd = NoFile THEN mtime
                ELSE [mtime EXCEPT ![writer[p].fd] = "cold"]
    /\ writer' = [writer EXCEPT ![p].pc = "discard", ![p].fd = NoFile]
    /\ UNCHANGED <<lockVars, plain, data, zst, job, acked, deaths>>

RemoveCompressed(p) ==
    /\ At(p, "discard")
    /\ zst' = <<>>
    /\ Goto(p, "open")
    /\ UNCHANGED <<lockVars, plain, data, mtime, job, acked, deaths>>

(* The plain file is opened for append, without create; its modification   *)
(* time is refreshed only if there was none at first.                      *)
Open(p) ==
    /\ At(p, "open")
    /\ IF Named
       THEN /\ writer' = [writer EXCEPT ![p].pc = "live", ![p].fd = plain]
            /\ mtime' = IF writer[p].refresh
                        THEN [mtime EXCEPT ![plain] = "warm"] ELSE mtime
       ELSE Close(p) /\ UNCHANGED mtime
    /\ UNCHANGED <<lockVars, plain, data, zst, job, acked, deaths>>

(* An append that was flushed (append_items).                              *)
AppendItem(p, x) ==
    LET i == writer[p].fd IN
    /\ At(p, "live") /\ x \notin acked
    /\ data' = [data EXCEPT ![i] = Append(@, x)]
    /\ mtime' = [mtime EXCEPT ![i] = "warm"]
    /\ acked' = acked \cup {x}
    /\ UNCHANGED <<lockVars, plain, zst, writer, job, deaths>>

Shutdown(p) ==
    /\ At(p, "live")
    /\ Close(p)
    /\ UNCHANGED <<lockVars, plain, data, mtime, zst, job, acked, deaths>>

-----------------------------------------------------------------------------
(***************************************************************************)
(* compress_rollout_if_cold_blocking.                                      *)
(***************************************************************************)
JobAt(label) == job.pc = label
JobGoto(label) == job' = [job EXCEPT !.pc = label]

(* same_file_state: the job only starts on a cold file.                    *)
SameState == Named /\ Len(data[plain]) = job.len /\ mtime[plain] = "cold"

(* cold_file_state.  One worker runs at a time, by the run marker; that a  *)
(* marker of six hours is taken over, by two processes perhaps, while a    *)
(* worker stops after five (WORKER_MAX_RUNTIME), is not modelled.          *)
StartJob ==
    /\ JobAt("none") /\ Named /\ mtime[plain] = "cold"
    /\ job' = [NoJob EXCEPT !.pc = "exists", !.len = Len(data[plain])]
    /\ UNCHANGED <<lockVars, plain, data, mtime, zst, writer, acked, deaths>>

SkipCompressed ==
    /\ JobAt("exists")
    /\ IF zst # <<>> THEN job' = NoJob ELSE JobGoto("encode")
    /\ UNCHANGED <<lockVars, plain, data, mtime, zst, writer, acked, deaths>>

Encode ==
    /\ JobAt("encode")
    /\ job' = IF Named THEN [job EXCEPT !.pc = "check", !.temp = data[plain]]
              ELSE NoJob
    /\ UNCHANGED <<lockVars, plain, data, mtime, zst, writer, acked, deaths>>

CheckUnchanged ==
    /\ JobAt("check")
    /\ IF SameState THEN JobGoto("persist") ELSE job' = NoJob
    /\ UNCHANGED <<lockVars, plain, data, mtime, zst, writer, acked, deaths>>

(* Mutant of Persist: the plain file goes before the compressed one comes. *)
PersistLast ==
    /\ JobAt("persist")
    /\ plain' = NoFile
    /\ JobGoto("recheck")
    /\ UNCHANGED <<lockVars, data, mtime, zst, writer, acked, deaths>>

(* persist_noclobber.                                                      *)
Persist ==
    /\ JobAt("persist")
    /\ IF zst # <<>> THEN job' = NoJob /\ UNCHANGED zst
       ELSE zst' = job.temp /\ JobGoto("recheck")
    /\ UNCHANGED <<lockVars, plain, data, mtime, writer, acked, deaths>>

Recheck ==
    /\ JobAt("recheck")
    /\ JobGoto(IF SameState THEN "unlink" ELSE "undo")
    /\ UNCHANGED <<lockVars, plain, data, mtime, zst, writer, acked, deaths>>

Undo ==
    /\ JobAt("undo")
    /\ zst' = <<>>
    /\ job' = NoJob
    /\ UNCHANGED <<lockVars, plain, data, mtime, writer, acked, deaths>>

RemovePlain ==
    /\ JobAt("unlink")
    /\ plain' = NoFile
    /\ job' = NoJob
    /\ UNCHANGED <<lockVars, data, mtime, zst, writer, acked, deaths>>

-----------------------------------------------------------------------------
(* A week passes: no job runs that long (WORKER_MAX_RUNTIME), no resume    *)
(* does, but a session may be left open.                                   *)
Age ==
    /\ JobAt("none")
    /\ \A p \in Procs : writer[p].pc \in {"none", "live", "closed"}
    /\ mtime' = [i \in FileInodes |-> "cold"]
    /\ UNCHANGED <<lockVars, plain, data, zst, writer, job, acked, deaths>>

(* The process of a writer, or the one with the job, dies.                 *)
WriterDies(p) ==
    /\ deaths < MaxDeaths /\ deaths' = deaths + 1
    /\ Die(p)
    /\ writer' = [writer EXCEPT ![p] = NoWriter]
    /\ UNCHANGED <<plain, data, mtime, zst, job, acked>>

JobDies ==
    /\ deaths < MaxDeaths /\ deaths' = deaths + 1
    /\ ~JobAt("none")
    /\ job' = NoJob
    /\ UNCHANGED <<lockVars, plain, data, mtime, zst, writer, acked>>

(* resume_thread takes the lock first; the guard goes with the recorder,   *)
(* or with the call that failed.                                           *)
Acquire(p) == AcquireStep(p) /\ UNCHANGED fileVars
Release(p) ==
    /\ writer[p].pc \in {"none", "closed"} /\ ReleaseStep(p)
    /\ writer' = [writer EXCEPT ![p] = NoWriter]
    /\ UNCHANGED <<plain, data, mtime, zst, job, acked, deaths>>

Next ==
    \/ \E p \in Procs : Acquire(p)
    \/ \E p \in Procs : Release(p)
    \/ \E p \in Procs : Resume(p)
    \/ \E p \in Procs : Find(p)
    \/ \E p \in Procs : Decode(p)
    \/ \E p \in Procs : Link(p)
    \/ \E p \in Procs : Retime(p)
    \/ \E p \in Procs : RemoveCompressed(p)
    \/ \E p \in Procs : Open(p)
    \/ \E p \in Procs, x \in Items : AppendItem(p, x)
    \/ \E p \in Procs : Shutdown(p)
    \/ \E p \in Procs : WriterDies(p)
    \/ StartJob \/ SkipCompressed \/ Encode \/ CheckUnchanged \/ Persist
    \/ Recheck \/ Undo \/ RemovePlain \/ JobDies
    \/ Age

Spec == Init /\ [][Next]_vars

-----------------------------------------------------------------------------
WriterPcs == {"none", "find", "decode", "link", "retime", "discard", "open",
              "live", "closed"}
JobPcs == {"none", "exists", "encode", "check", "persist", "recheck", "undo",
           "unlink"}
Records == Items \cup {Old}

Writers == [pc : WriterPcs, fd : FileInodes \cup {NoFile},
            refresh : BOOLEAN, temp : Seq(Records)]
Jobs == [pc : JobPcs, len : Nat, temp : Seq(Records)]

(* The types of the two files, their users and the job; a live recorder    *)
(* has a file open (open_rollout_for_append fails otherwise).              *)
TypeOK ==
    /\ LockTypeOK
    /\ plain \in FileInodes \cup {NoFile}
    /\ data \in [FileInodes -> Seq(Records)]
    /\ mtime \in [FileInodes -> {"cold", "warm"}]
    /\ zst \in Seq(Records)
    /\ writer \in [Procs -> Writers]
    /\ \A p \in Procs : At(p, "live") => writer[p].fd # NoFile
    /\ job \in Jobs
    /\ acked \subseteq Items
    /\ deaths \in 0..MaxDeaths

(* What a reader finds: the plain file if there is one (path precedence).  *)
Visible == IF Named THEN data[plain] ELSE zst

(***************************************************************************)
(* Readers prefer the plain file: when both are there it has everything    *)
(* that the compressed one has.                                            *)
(***************************************************************************)
PlainIsNewest == Named /\ zst # <<>> => IsPrefix(zst, data[plain])

(***************************************************************************)
(* A recorder opens the thread's file under the writer lock, and no other  *)
(* process has it open: records of two sessions never mix.                 *)
(***************************************************************************)
OneRecorder ==
    /\ MutualExclusion
    /\ \A p \in Procs : ~At(p, "none") => p \in locked

(***************************************************************************)
(* Compression, materialization and deaths never take records from         *)
(* readers, with one exception: removing the plain file takes what was     *)
(* appended since the job's last look at it, and nothing older.            *)
(***************************************************************************)
ReadersLoseNothing ==
    [][\/ IsPrefix(Visible, Visible')
       \/ JobAt("unlink") /\ IsPrefix(job.temp, Visible')]_vars

(***************************************************************************)
(* Why: materialization goes from the compressed file alone to the plain   *)
(* one alone, by way of both; the job goes the other way; and while one is *)
(* past its point of no return the other is not under way.                 *)
(***************************************************************************)
Materializing == {"decode", "link", "retime", "discard"}
Copying == {"check", "persist", "recheck", "undo", "unlink"}
Persisted == {"recheck", "undo", "unlink"}

StagesAgree ==
    /\ \A p \in Procs : ~At(p, "none") => lpc[p] = "held"
    /\ \A p \in Procs : writer[p].pc \in Materializing =>
           /\ zst # <<>> /\ job.pc \notin Persisted
           /\ Named <=> writer[p].pc \in {"retime", "discard"}
           /\ At(p, "link") => writer[p].temp = zst
    /\ job.pc \in Copying => Named /\ IsPrefix(job.temp, data[plain])
    /\ job.pc \in Persisted => zst = job.temp

(***************************************************************************)
(* A flush "writes any rollout records already queued in the recorder and  *)
(* ensures they are durably persisted" (live_writer.rs): what was          *)
(* acknowledged can be read back.                                          *)
(***************************************************************************)
AckedIsVisible == acked \subseteq {Visible[k] : k \in DOMAIN Visible}
=============================================================================
