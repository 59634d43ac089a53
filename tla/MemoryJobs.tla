----------------------------- MODULE MemoryJobs -----------------------------
(***************************************************************************)
(* The memory pipeline's job rows (state/src/runtime/memories.rs) and the  *)
(* startup runs that work through them (memories/write: phase1.rs and      *)
(* phase2.rs).                                                             *)
(*                                                                         *)
(* Every session that starts runs the pipeline, in whatever process it is  *)
(* in.  Stage 1 claims idle threads and extracts a memory from each;       *)
(* stage 2 claims one global job and has an agent consolidate the memories *)
(* in a shared directory.  A claim is a lease with an ownership token.     *)
(* There is no lock: leases expire, by the wall clock, under runs that are *)
(* slow or suspended; processes die; threads and memories are deleted      *)
(* while runs are under way.  An action is one database transaction, or    *)
(* one step of a run between two of them.                                  *)
(*                                                                         *)
(* A time in a row is kept as the time that remains.  A run claims a job   *)
(* at most once, so that the run is its own ownership token.               *)
(***************************************************************************)
EXTENDS Naturals, FiniteSets, FiniteSetsExt

CONSTANTS
    Threads,
    Runs, NoRun,    \* startup runs
    MaxUpdate,      \* bound on a thread's updated_at
    Lease,          \* JOB_LEASE_SECONDS
    Backoff,        \* JOB_RETRY_DELAY_SECONDS
    Cooldown,       \* PHASE2_SUCCESS_COOLDOWN_SECONDS
    Retries,        \* DEFAULT_RETRY_REMAINING
    MaxRunning,     \* max_rollouts_per_startup
    MaxForgets      \* bound on threads turned off or deleted, and on resets

ASSUME RunAssumption == NoRun \notin Runs
ASSUME ThreadsAssumption == IsFiniteSet(Threads)
ASSUME BoundAssumption ==
    /\ {MaxUpdate, Lease, Backoff, Cooldown, Retries, MaxRunning,
        MaxForgets} \subseteq Nat
    /\ Lease > 0 /\ Retries > 0 /\ MaxUpdate > 0

VARIABLES
    updated,    \* thread -> updated_at
    mode,       \* thread -> memory_mode: "enabled", or else "off"; "deleted"
    op,         \* thread -> where its pollution or its deletion stands
    jobs,       \* thread -> its row of kind memory_stage1
    outputs,    \* thread -> its row of stage1_outputs
    global,     \* the row of kind memory_consolidate_global
    run,        \* run -> where it stands
    baseline,   \* thread -> the snapshot the last successful stage 2 used
    stale,      \* claims whose thread or memory was deleted since
    forgets

vars == <<updated, mode, op, jobs, outputs, global, run, baseline, stale,
          forgets>>

notRun == <<updated, mode, op, jobs, outputs, global, baseline, stale, forgets>>

Times == 0..MaxUpdate
Later == MaxUpdate + 1      \* the present, after every update

NoJob == [status |-> "none", token |-> NoRun, lease |-> 0, wait |-> 0,
          left |-> 0, input |-> 0, success |-> 0]
NoGlobal == [status |-> "none", token |-> NoRun, lease |-> 0, wait |-> 0,
             cool |-> 0, failed |-> FALSE, input |-> 0, success |-> 0]
NoOutput == [src |-> 0, sel |-> 0, by |-> NoRun]
None == [t \in Threads |-> 0]
IdleRun == [pc |-> "idle", scan |-> None, claims |-> None, mark |-> 0,
            keys |-> None, picks |-> None]

Init ==
    /\ updated = [t \in Threads |-> 1]
    /\ mode = [t \in Threads |-> "enabled"]
    /\ op = [t \in Threads |-> "none"]
    /\ jobs = [t \in Threads |-> NoJob]
    /\ outputs = [t \in Threads |-> NoOutput]
    /\ global = NoGlobal
    /\ run = [r \in Runs |-> IdleRun]
    /\ baseline = None
    /\ stale = {} /\ forgets = 0

At(r, label) == run[r].pc = label
Goto(r, label) == run' = [run EXCEPT ![r].pc = label]
Leave(r, label) == run' = [run EXCEPT ![r] = [IdleRun EXCEPT !.pc = label]]
Enabled(t) == mode[t] = "enabled"

-----------------------------------------------------------------------------
(***************************************************************************)
(* Stage 1.                                                                *)
(***************************************************************************)
(* phase1::prune: outputs that went unused for long, none of the baseline. *)
Prune(r) ==
    /\ At(r, "idle")
    /\ \E S \in SUBSET {t \in Threads : outputs[t].sel = 0} :
         outputs' = [t \in Threads |-> IF t \in S THEN NoOutput ELSE outputs[t]]
    /\ Goto(r, "scan")
    /\ UNCHANGED <<updated, mode, op, jobs, global, baseline, stale, forgets>>

(* claim_stage1_jobs_for_startup reads the threads first.  (They are       *)
(* updated all the time; as nothing else looks at that, it is seen here.)  *)
Scan(r) ==
    /\ At(r, "scan")
    /\ \E now \in [Threads -> Times] :
         /\ \A t \in Threads : now[t] >= updated[t]
         /\ updated' = now
         /\ run' = [run EXCEPT ![r].pc = "claim",
                      ![r].scan = [t \in Threads |-> IF Enabled(t) THEN now[t]
                                                     ELSE 0]]
    /\ UNCHANGED <<mode, op, jobs, outputs, global, baseline, stale, forgets>>

(* Mutant of UpToDate: only the output is looked at.                       *)
UpToDateByOutput(t, w) == outputs[t].src >= w
UpToDate(t, w) == outputs[t].src >= w \/ jobs[t].success >= w

Leased == {t \in Threads : jobs[t].status = "running" /\ jobs[t].lease > 0}

(* Mutants of Claimable: retries are not counted; one job too many.        *)
ClaimableAgain(t, w) ==
    /\ t \notin Leased /\ Cardinality(Leased) < MaxRunning
    /\ jobs[t].wait = 0 \/ w > jobs[t].input
ClaimableBeyond(t, w) ==
    /\ t \notin Leased /\ Cardinality(Leased) <= MaxRunning
    /\ jobs[t].wait = 0 \/ w > jobs[t].input
    /\ jobs[t].left > 0 \/ w > jobs[t].input

(* The WHERE clauses of the upsert; for a new row, w is past its input.    *)
Claimable(t, w) ==
    /\ t \notin Leased /\ Cardinality(Leased) < MaxRunning
    /\ jobs[t].wait = 0 \/ w > jobs[t].input
    /\ jobs[t].left > 0 \/ w > jobs[t].input

(* Then it tries each of them: try_claim_stage1_job.                       *)
ClaimStage1(r, t) ==
    LET w == run[r].scan[t] IN
    /\ At(r, "claim") /\ w > 0
    /\ Cardinality({u \in Threads : run[r].claims[u] > 0}) < MaxRunning
    /\ IF ~UpToDate(t, w) /\ Claimable(t, w)
       THEN /\ jobs' = [jobs EXCEPT ![t] =
                  [jobs[t] EXCEPT
                     !.status = "running", !.token = r, !.lease = Lease,
                     !.wait = 0, !.input = w,
                     !.left = IF w > jobs[t].input THEN Retries ELSE @]]
            /\ run' = [run EXCEPT ![r].scan[t] = 0, ![r].claims[t] = w]
       ELSE run' = [run EXCEPT ![r].scan[t] = 0] /\ UNCHANGED jobs
    /\ UNCHANGED <<updated, mode, op, outputs, global, baseline, stale, forgets>>

(* All were tried, or max_claimed is reached.                              *)
StartJobs(r) ==
    /\ At(r, "claim")
    /\ \/ run[r].scan = None
       \/ Cardinality({u \in Threads : run[r].claims[u] > 0}) >= MaxRunning
    /\ run' = [run EXCEPT ![r].pc = "work", ![r].scan = None]
    /\ UNCHANGED notRun

(* enqueue_global_consolidation_with_executor; nothing reads the retry     *)
(* count of this row.                                                      *)
Enqueued(g, w) ==
    IF g.status = "none"
    THEN [NoGlobal EXCEPT !.status = "pending", !.input = w]
    ELSE [g EXCEPT !.status = IF @ = "running" THEN @ ELSE "pending",
                   !.wait = IF g.status = "running" THEN @ ELSE 0,
                   !.input = IF w > @ THEN w ELSE @ + 1]

(* Mutant of Owns: the ownership token is not compared.                    *)
OwnsAny(r, t) == jobs[t].status = "running"
Owns(r, t) == jobs[t].status = "running" /\ jobs[t].token = r

Finished(r, t) == run' = [run EXCEPT ![r].claims[t] = 0]
Succeeded(t) ==
    jobs' = [jobs EXCEPT ![t] = [jobs[t] EXCEPT !.status = "done", !.lease = 0,
                                                !.success = jobs[t].input]]

(* mark_stage1_job_succeeded: a memory of the thread as it was claimed.    *)
Extracted(r, t) ==
    LET w == run[r].claims[t] IN
    /\ At(r, "work") /\ w > 0
    /\ IF Owns(r, t)
       THEN /\ Succeeded(t)
            /\ outputs' = IF w >= outputs[t].src
                          THEN [outputs EXCEPT ![t] =
                                  [outputs[t] EXCEPT !.src = w, !.by = r]]
                          ELSE outputs
            /\ global' = Enqueued(global, w)
       ELSE UNCHANGED <<jobs, outputs, global>>
    /\ Finished(r, t)
    /\ UNCHANGED <<updated, mode, op, baseline, stale, forgets>>

(* mark_stage1_job_succeeded_no_output.                                    *)
ExtractedNothing(r, t) ==
    /\ At(r, "work") /\ run[r].claims[t] > 0
    /\ IF Owns(r, t)
       THEN /\ Succeeded(t)
            /\ outputs' = [outputs EXCEPT ![t] = NoOutput]
            /\ global' = IF outputs[t].src > 0
                         THEN Enqueued(global, jobs[t].input) ELSE global
       ELSE UNCHANGED <<jobs, outputs, global>>
    /\ Finished(r, t)
    /\ UNCHANGED <<updated, mode, op, baseline, stale, forgets>>

(* mark_stage1_job_failed.                                                 *)
ExtractionFailed(r, t) ==
    /\ At(r, "work") /\ run[r].claims[t] > 0
    /\ jobs' = IF Owns(r, t)
               THEN [jobs EXCEPT ![t] =
                       [jobs[t] EXCEPT !.status = "error", !.lease = 0,
                                       !.wait = Backoff, !.left = @ - 1]]
               ELSE jobs
    /\ Finished(r, t)
    /\ UNCHANGED <<updated, mode, op, outputs, global, baseline, stale, forgets>>

-----------------------------------------------------------------------------
(***************************************************************************)
(* Stage 2.                                                                *)
(***************************************************************************)
OwnsGlobal(r) == global.status = "running" /\ global.token = r

(* try_claim_global_phase2_job.                                            *)
ClaimGlobal(r) ==
    /\ At(r, "work") /\ run[r].claims = None
    /\ IF \/ global.wait > 0
          \/ global.status = "running" /\ global.lease > 0
          \/ ~global.failed /\ global.cool > 0
       THEN Leave(r, "end") /\ UNCHANGED global
       ELSE /\ global' = [global EXCEPT !.status = "running", !.token = r,
                            !.lease = Lease, !.wait = 0, !.cool = 0,
                            !.failed = FALSE]
            /\ run' = [run EXCEPT ![r].pc = "keys", ![r].mark = global.input]
    /\ UNCHANGED <<updated, mode, op, jobs, outputs, baseline, stale, forgets>>

(* get_phase2_input_selection: first the keys of the rows to use.  Their   *)
(* number, rank and age decide which are taken: any may be, or may not.    *)
(* (The rows come in pages, and their threads are tested one by one.  A    *)
(* row that changes before the test has a key that matches no longer.)     *)
SelectKey(r, t) ==
    /\ At(r, "keys")
    /\ Enabled(t) /\ outputs[t].src > 0
    /\ run' = [run EXCEPT ![r].keys[t] = outputs[t].src]
    /\ UNCHANGED notRun

EndKeys(r) ==
    /\ At(r, "keys")
    /\ Goto(r, "rows")
    /\ UNCHANGED notRun

(* Then each row that still has its key, if the thread is still enabled.   *)
ReadRow(r, t) ==
    LET k == run[r].keys[t] IN
    /\ At(r, "rows") /\ k > 0
    /\ run' = IF outputs[t].src = k
              THEN [run EXCEPT ![r].pc = "check", ![r].picks[t] = k]
              ELSE [run EXCEPT ![r].keys[t] = 0]
    /\ UNCHANGED notRun

CheckRow(r, t) ==
    /\ At(r, "check") /\ run[r].keys[t] > 0 /\ run[r].picks[t] > 0
    /\ run' = [run EXCEPT ![r].pc = "rows", ![r].keys[t] = 0,
                          ![r].picks[t] = IF Enabled(t) THEN @ ELSE 0]
    /\ UNCHANGED notRun

(* get_watermark.                                                          *)
Watermark(claimed, picks) == Max({claimed} \cup {picks[t] : t \in Threads})

(* The inputs are written to the memory directory; the agent starts if     *)
(* there is a difference to the baseline, or an artifact is missing.       *)
Sync(r) ==
    /\ At(r, "rows") /\ run[r].keys = None
    /\ \E next \in {"mark", "agent"} :
         run' = [run EXCEPT ![r].pc = next,
                           ![r].mark = Watermark(@, run[r].picks)]
    /\ UNCHANGED notRun

(* loop_agent: a heartbeat while the agent runs.                           *)
Heartbeat(r) ==
    /\ At(r, "agent")
    /\ IF OwnsGlobal(r)
       THEN global' = [global EXCEPT !.lease = Lease] /\ UNCHANGED run
       ELSE Leave(r, "stopping") /\ UNCHANGED global
    /\ UNCHANGED <<updated, mode, op, jobs, outputs, baseline, stale, forgets>>

(* The agent completes; or it fails, or a heartbeat does.                  *)
AgentEnds(r) ==
    /\ At(r, "agent")
    /\ Goto(r, "completed") \/ Leave(r, "stopping")
    /\ UNCHANGED notRun

(* Its session is shut down, but not within the time given for that: the   *)
(* lease is left to expire, and the agent is on its own.                   *)
ShutdownTimesOut(r) ==
    /\ run[r].pc \in {"completed", "stopping"}
    /\ Leave(r, "hung")
    /\ UNCHANGED notRun

HungAgentEnds(r) ==
    /\ At(r, "hung")
    /\ Leave(r, "end")
    /\ UNCHANGED notRun

(* Still the owner?  Then the baseline of the directory may be reset.      *)
ConfirmOwnership(r) ==
    /\ At(r, "completed")
    /\ IF OwnsGlobal(r)
       THEN global' = [global EXCEPT !.lease = Lease] /\ Goto(r, "reset")
       ELSE UNCHANGED global /\ Leave(r, "end")
    /\ UNCHANGED <<updated, mode, op, jobs, outputs, baseline, stale, forgets>>

ResetBaseline(r) ==
    /\ At(r, "reset")
    /\ Goto(r, "mark")
    /\ UNCHANGED notRun

(* Mutant of Marked: the snapshot's source_updated_at is not compared.     *)
MarkedByThread(o, pick) == [o EXCEPT !.sel = IF pick > 0 THEN o.src ELSE 0]

(* selected_for_phase2 and its source_updated_at, for the selected rows.   *)
Marked(o, pick) == [o EXCEPT !.sel = IF o.src = pick THEN pick ELSE 0]

(* mark_global_phase2_job_succeeded.                                       *)
MarkSucceeded(r) ==
    LET picks == run[r].picks IN
    /\ At(r, "mark")
    /\ IF OwnsGlobal(r)
       THEN /\ global' = [global EXCEPT !.status = "done", !.lease = 0,
                            !.cool = Cooldown, !.failed = FALSE,
                            !.success = Max({@, run[r].mark})]
            /\ outputs' = [t \in Threads |-> Marked(outputs[t], picks[t])]
            /\ baseline' = picks
       ELSE UNCHANGED <<global, outputs, baseline>>
    /\ Leave(r, "end")
    /\ UNCHANGED <<updated, mode, op, jobs, stale, forgets>>

(* job::failed, after an error of any step or of the agent; no running row *)
(* is without a token, so that its second update finds none.               *)
MarkFailed(r) ==
    /\ run[r].pc \in {"keys", "rows", "check", "stopping", "completed", "reset"}
    /\ global' = IF OwnsGlobal(r)
                 THEN [global EXCEPT !.status = "error", !.lease = 0,
                         !.cool = Cooldown, !.wait = Backoff, !.failed = TRUE]
                 ELSE global
    /\ Leave(r, "end")
    /\ UNCHANGED <<updated, mode, op, jobs, outputs, baseline, stale, forgets>>

-----------------------------------------------------------------------------
(***************************************************************************)
(* What happens meanwhile.                                                 *)
(***************************************************************************)
Crash(r) ==
    /\ run[r].pc \notin {"idle", "end"}
    /\ Leave(r, "end")
    /\ UNCHANGED notRun

Less(n) == IF n > 0 THEN n - 1 ELSE 0

(* Time passes, for every row at once.                                     *)
Tick ==
    /\ jobs' = [t \in Threads |-> [jobs[t] EXCEPT !.lease = Less(@),
                                                  !.wait = Less(@)]]
    /\ global' = [global EXCEPT !.lease = Less(@), !.wait = Less(@),
                                !.cool = Less(@)]
    /\ UNCHANGED <<updated, mode, op, outputs, run, baseline, stale, forgets>>

Forget == forgets < MaxForgets /\ forgets' = forgets + 1

(* set_thread_memory_mode, for the user, who may also turn it on again.    *)
SetMemoryMode(t) ==
    /\ mode[t] # "deleted"
    /\ mode' = [mode EXCEPT ![t] = IF Enabled(t) THEN "off" ELSE "enabled"]
    /\ IF Enabled(t) THEN Forget ELSE UNCHANGED forgets
    /\ UNCHANGED <<updated, op, jobs, outputs, global, run, baseline, stale>>

(* mark_thread_memory_mode_polluted: three statements, no transaction.     *)
ReadSelected(t) ==
    /\ Forget
    /\ op[t] = "none" /\ mode[t] # "deleted"
    /\ op' = [op EXCEPT ![t] = IF outputs[t].sel > 0 THEN "selected"
                               ELSE "unselected"]
    /\ UNCHANGED <<updated, mode, jobs, outputs, global, run, baseline, stale>>

SetPolluted(t) ==
    /\ op[t] \in {"selected", "unselected"}
    /\ mode' = [mode EXCEPT ![t] = "off"]
    /\ op' = [op EXCEPT ![t] = IF @ = "selected" THEN "forget" ELSE "none"]
    /\ UNCHANGED <<updated, jobs, outputs, global, run, baseline, stale,
                   forgets>>

EnqueueForgetting(t) ==
    /\ op[t] = "forget"
    /\ op' = [op EXCEPT ![t] = "none"]
    /\ global' = Enqueued(global, Later)
    /\ UNCHANGED <<updated, mode, jobs, outputs, run, baseline, stale, forgets>>

Outstanding(S) == {c \in Runs \X S : run[c[1]].claims[c[2]] > 0}

(* delete_threads_strict: delete_thread_memory, and later, in the other    *)
(* database, the thread itself.                                            *)
DeleteThreadMemory(t) ==
    /\ Forget
    /\ op[t] = "none" /\ mode[t] # "deleted"
    /\ op' = [op EXCEPT ![t] = "delete"]
    /\ outputs' = [outputs EXCEPT ![t] = NoOutput]
    /\ jobs' = [jobs EXCEPT ![t] = NoJob]
    /\ global' = IF outputs[t].sel > 0 THEN Enqueued(global, Later) ELSE global
    /\ stale' = stale \cup Outstanding({t})
    /\ UNCHANGED <<updated, mode, run, baseline>>

DeleteThread(t) ==
    /\ op[t] = "delete"
    /\ op' = [op EXCEPT ![t] = "none"]
    /\ mode' = [mode EXCEPT ![t] = "deleted"]
    /\ UNCHANGED <<updated, jobs, outputs, global, run, baseline, stale,
                   forgets>>

(* clear_memory_data (memory/reset).                                       *)
ClearMemoryData ==
    /\ Forget
    /\ outputs' = [t \in Threads |-> NoOutput]
    /\ jobs' = [t \in Threads |-> NoJob]
    /\ global' = NoGlobal
    /\ baseline' = None
    /\ stale' = stale \cup Outstanding(Threads)
    /\ UNCHANGED <<updated, mode, op, run>>

Next ==
    \/ \E r \in Runs : Prune(r)
    \/ \E r \in Runs : Scan(r)
    \/ \E r \in Runs, t \in Threads : ClaimStage1(r, t)
    \/ \E r \in Runs : StartJobs(r)
    \/ \E r \in Runs, t \in Threads : Extracted(r, t)
    \/ \E r \in Runs, t \in Threads : ExtractedNothing(r, t)
    \/ \E r \in Runs, t \in Threads : ExtractionFailed(r, t)
    \/ \E r \in Runs : ClaimGlobal(r)
    \/ \E r \in Runs, t \in Threads : SelectKey(r, t)
    \/ \E r \in Runs : EndKeys(r)
    \/ \E r \in Runs, t \in Threads : ReadRow(r, t)
    \/ \E r \in Runs, t \in Threads : CheckRow(r, t)
    \/ \E r \in Runs : Sync(r)
    \/ \E r \in Runs : Heartbeat(r)
    \/ \E r \in Runs : AgentEnds(r)
    \/ \E r \in Runs : ShutdownTimesOut(r)
    \/ \E r \in Runs : HungAgentEnds(r)
    \/ \E r \in Runs : ConfirmOwnership(r)
    \/ \E r \in Runs : ResetBaseline(r)
    \/ \E r \in Runs : MarkSucceeded(r)
    \/ \E r \in Runs : MarkFailed(r)
    \/ \E r \in Runs : Crash(r)
    \/ Tick
    \/ \E t \in Threads : SetMemoryMode(t)
    \/ \E t \in Threads : ReadSelected(t)
    \/ \E t \in Threads : SetPolluted(t)
    \/ \E t \in Threads : EnqueueForgetting(t)
    \/ \E t \in Threads : DeleteThreadMemory(t)
    \/ \E t \in Threads : DeleteThread(t)
    \/ ClearMemoryData

Spec == Init /\ [][Next]_vars

-----------------------------------------------------------------------------
Pcs == {"idle", "scan", "claim", "work", "keys", "rows", "check",
        "agent", "completed", "stopping", "hung", "reset", "mark", "end"}
Modes == {"enabled", "off", "deleted"}
Ops == {"none", "selected", "unselected", "forget", "delete"}

Job == [status : {"none", "running", "done", "error"},
        token : Runs \cup {NoRun}, lease : 0..Lease, wait : 0..Backoff,
        left : 0..Retries, input : Times, success : Times]
Output == [src : Times, sel : Times, by : Runs \cup {NoRun}]
Global == [status : {"none", "pending", "running", "done", "error"},
           token : Runs \cup {NoRun}, lease : 0..Lease, wait : 0..Backoff,
           cool : 0..Cooldown, failed : BOOLEAN, input : Nat, success : Nat]
Run == [pc : Pcs, scan : [Threads -> Times], claims : [Threads -> Times],
        mark : Nat, keys : [Threads -> Times], picks : [Threads -> Times]]

(* The types of the rows and of the runs; a claim that is out of retries   *)
(* is never made, so that retry_remaining stays a natural number.          *)
TypeOK ==
    /\ updated \in [Threads -> Times]
    /\ mode \in [Threads -> Modes] /\ op \in [Threads -> Ops]
    /\ jobs \in [Threads -> Job]
    /\ outputs \in [Threads -> Output]
    /\ global \in Global
    /\ run \in [Runs -> Run]
    /\ baseline \in [Threads -> Times]
    /\ stale \subseteq Runs \X Threads
    /\ forgets \in 0..MaxForgets

(***************************************************************************)
(* A thread's memory is that of its last successful job: a worker whose    *)
(* lease ran out, and whose job was given to another, writes neither the   *)
(* row nor the output when it finishes late (ownership_token).             *)
(***************************************************************************)
OutputMatchesJob ==
    \A t \in Threads : outputs[t].src > 0 => outputs[t].src = jobs[t].success

(***************************************************************************)
(* "global running job count for `memory_stage1` is below                  *)
(* `max_running_jobs`" at every claim, and so at all times.                *)
(***************************************************************************)
RunningWithinCap == Cardinality(Leased) <= MaxRunning

(***************************************************************************)
(* What was deleted stays deleted: no run that claimed a thread before the *)
(* thread or all memories were deleted stores a memory of it afterwards.   *)
(***************************************************************************)
DeletedStaysDeleted ==
    \A t \in Threads : <<outputs[t].by, t>> \notin stale

(***************************************************************************)
(* "successful Phase 2 runs mark the exact stage-1 snapshots they          *)
(* consumed" (memories/README.md), and the marks stay exact: no memory is  *)
(* marked with another snapshot than the one that was consumed, and one    *)
(* that is still the consumed snapshot is marked, so that it is neither    *)
(* pruned nor forgotten in silence.  Between the selection and the mark,   *)
(* and after it, memories are extracted again, pruned and deleted, and     *)
(* threads turned off and on.  (A deletion under way starts over.)         *)
(***************************************************************************)
SelectionIsExact ==
    \A t \in Threads :
        /\ outputs[t].sel \in {0, baseline[t]}
        /\ /\ op[t] # "delete" /\ mode[t] # "deleted"
           /\ baseline[t] > 0 /\ outputs[t].src = baseline[t]
           => outputs[t].sel = baseline[t]

(***************************************************************************)
(* Success watermarks do not move backwards, though a run may claim a      *)
(* thread at an update older than one that has been seen; a deletion       *)
(* starts over.                                                            *)
(***************************************************************************)
WatermarksAdvance ==
    [][/\ \A t \in Threads : jobs'[t].status # "none" =>
            jobs'[t].success >= jobs[t].success
       /\ global'.status # "none" => global'.success >= global.success]_vars

(***************************************************************************)
(* Stage 2 "claims a single global phase-2 lock before touching the        *)
(* memories root (so only one consolidation inspects or mutates the        *)
(* workspace at a time)" (memories/README.md).                             *)
(***************************************************************************)
InWorkspace(r) == run[r].pc \in {"keys", "rows", "check", "agent",
                                 "completed", "stopping", "hung", "reset",
                                 "mark"}
OneConsolidation ==
    \A r, s \in Runs : InWorkspace(r) /\ InWorkspace(s) => r = s
=============================================================================
