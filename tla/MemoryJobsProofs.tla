-------------------------- MODULE MemoryJobsProofs --------------------------
(***************************************************************************)
(* Proofs about MemoryJobs, for any number of threads and of startup runs, *)
(* and any lease, delay and limit.                                         *)
(*                                                                         *)
(* OutputMatchesJob is not inductive: that a late worker writes nothing    *)
(* rests on the token, and that the owner's write is never older than the  *)
(* output it replaces rests on a claim being newer than the last success.  *)
(* DeletedStaysDeleted rests on a run claiming a thread at most once, from *)
(* what its scan read.  The parts of JInv say so.                          *)
(* SelectionIsExact rests on the times of a thread's memories: they grow   *)
(* until its deletion, so that a memory stored after a selection has       *)
(* another key than the one selected (SelInv).                             *)
(***************************************************************************)
EXTENDS MemoryJobs, FiniteSetTheorems, WellFoundedInduction, TLAPS

(* A claim is newer than the last success of its job, and the last try was *)
(* not used up before.                                                     *)
ClaimIsNews ==
    \A t \in Threads : jobs[t].status = "running" =>
        jobs[t].input > jobs[t].success /\ jobs[t].left > 0

(* The owner of a job holds the watermark it was claimed with.             *)
OwnerKnowsInput ==
    \A r \in Runs, t \in Threads :
        Owns(r, t) /\ run[r].claims[t] > 0 => run[r].claims[t] = jobs[t].input

(* What a run has claimed it does not claim again.                         *)
ClaimedOnce ==
    \A r \in Runs, t \in Threads :
        run[r].claims[t] > 0 =>
            run[r].scan[t] = 0 /\ run[r].pc \notin {"idle", "scan"}

(* A run whose claim was deleted owns nothing of the thread, wrote nothing *)
(* of it and will not claim it.                                            *)
StaleIsOut ==
    \A r \in Runs, t \in Threads :
        <<r, t>> \in stale =>
            /\ run[r].scan[t] = 0 /\ run[r].pc \notin {"idle", "scan"}
            /\ jobs[t].token # r /\ outputs[t].by # r

(* A global row that does not exist has no success.                        *)
FreshGlobal == global.status = "none" => global.success = 0

JInv == OutputMatchesJob /\ ClaimIsNews /\ OwnerKnowsInput /\ ClaimedOnce
        /\ StaleIsOut

-----------------------------------------------------------------------------
(* A nonempty set of numbers with a bound has a greatest element.          *)
LEMMA MaxIsUpperBound ==
  ASSUME NEW S, S \subseteq Nat, S # {}, NEW b \in Nat, \A x \in S : x <= b
  PROVE  Max(S) \in S /\ \A y \in S : Max(S) >= y
  <1> DEFINE T == {b - x : x \in S}
  <1>1. T \subseteq Nat /\ T # {}
    OBVIOUS
  <1>2. PICK m \in T : \A y \in T : <<y, m>> \notin OpToRel(<, Nat)
    BY <1>1, NatLessThanWellFounded, WFMin
  <1>3. \A y \in T : ~(y < m)
    BY <1>1, <1>2 DEF OpToRel
  <1>4. PICK x \in S : m = b - x
    OBVIOUS
  <1>5. \A y \in S : x >= y
    <2> TAKE y \in S
    <2>1. b - y \in T
      OBVIOUS
    <2>2. ~(b - y < b - x)
      BY <1>3, <1>4, <2>1
    <2>3. x \in Nat /\ y \in Nat
      OBVIOUS
    <2> QED BY <2>2, <2>3
  <1>6. \E z \in S : \A y \in S : z >= y
    BY <1>5
  <1> QED BY <1>6 DEF Max

(* get_watermark returns a number.                                         *)
LEMMA WatermarkType ==
  ASSUME NEW claimed \in Nat, NEW picks \in [Threads -> Times]
  PROVE  Watermark(claimed, picks) \in Nat
  <1> DEFINE S == {claimed} \cup {picks[t] : t \in Threads}
  <1>1. MaxUpdate \in Nat
    BY BoundAssumption
  <1>2. S \subseteq Nat /\ S # {} /\ \A x \in S : x <= claimed + MaxUpdate
    BY <1>1 DEF Times
  <1> HIDE DEF S
  <1>3. claimed + MaxUpdate \in Nat
    BY <1>1
  <1>4. Max(S) \in S
    BY <1>2, <1>3, MaxIsUpperBound
  <1> QED BY <1>2, <1>4 DEF Watermark, S

(* The larger of two success watermarks.                                   *)
LEMMA MaxOfTwo ==
  ASSUME NEW m \in Nat, NEW n \in Nat
  PROVE  Max({m, n}) \in Nat /\ Max({m, n}) >= m
  <1>1. /\ {m, n} \subseteq Nat /\ {m, n} # {}
        /\ \A x \in {m, n} : x <= m + n
    OBVIOUS
  <1>2. Max({m, n}) \in {m, n} /\ \A y \in {m, n} : Max({m, n}) >= y
    BY <1>1, MaxIsUpperBound
  <1> QED BY <1>2

(* The bounds are numbers.                                                 *)
LEMMA BoundTypes ==
  /\ MaxUpdate \in Nat /\ Lease \in Nat /\ Backoff \in Nat /\ Cooldown \in Nat
  /\ Retries \in Nat /\ MaxRunning \in Nat /\ MaxForgets \in Nat
  /\ Lease > 0 /\ Retries > 0 /\ MaxUpdate > 0
  BY BoundAssumption

(* The ends of the ranges that a row's times lie in.                       *)
LEMMA BoundRanges ==
  /\ 0 \in 0..Lease /\ Lease \in 0..Lease /\ 0 \in 0..Backoff
  /\ Backoff \in 0..Backoff /\ 0 \in 0..Cooldown /\ Cooldown \in 0..Cooldown
  BY BoundTypes

(* enqueue_global_consolidation keeps the row's shape and its success.     *)
LEMMA EnqueuedType ==
  ASSUME NEW g \in Global, NEW w \in Nat
  PROVE  /\ Enqueued(g, w) \in Global
         /\ Enqueued(g, w).status # "none"
         /\ Enqueued(g, w).success = IF g.status = "none" THEN 0 ELSE g.success
  <1>1. CASE g.status = "none"
    <2>1. Enqueued(g, w) = [status |-> "pending", token |-> NoRun, lease |-> 0,
                            wait |-> 0, cool |-> 0, failed |-> FALSE,
                            input |-> w, success |-> 0]
      BY <1>1 DEF Enqueued, NoGlobal
    <2> QED BY <1>1, <2>1, BoundTypes DEF Global
  <1>2. CASE g.status # "none"
    <2> DEFINE st == IF g.status = "running" THEN "running" ELSE "pending"
               wt == IF g.status = "running" THEN g.wait ELSE 0
               inp == IF w > g.input THEN w ELSE g.input + 1
    <2>1. Enqueued(g, w) = [g EXCEPT !.status = st, !.wait = wt, !.input = inp]
      BY <1>2 DEF Enqueued, Global
    <2>2. /\ st \in {"pending", "running"} /\ wt \in 0..Backoff /\ inp \in Nat
      BY BoundTypes DEF Global
    <2> HIDE DEF st, wt, inp
    <2> QED BY <1>2, <2>1, <2>2 DEF Global
  <1> QED BY <1>1, <1>2

-----------------------------------------------------------------------------
(* Steps that claim nothing, store no new memory and delete no claim.      *)
LEMMA KeepJInv ==
  ASSUME TypeOK, JInv, stale' = stale,
         \A t \in Threads : /\ outputs'[t].src \in {0, outputs[t].src}
                            /\ outputs'[t].by \in {NoRun, outputs[t].by},
         \A t \in Threads : \/ jobs'[t].success = jobs[t].success
                            \/ outputs'[t].src = 0,
         \A t \in Threads : jobs'[t].token = jobs[t].token,
         \A t \in Threads : jobs'[t].status = "running" =>
             /\ jobs[t].status = "running" /\ jobs'[t].input = jobs[t].input
             /\ jobs'[t].success = jobs[t].success
             /\ jobs'[t].left = jobs[t].left,
         \A r \in Runs, t \in Threads :
             /\ run'[r].claims[t] \in {0, run[r].claims[t]}
             /\ run'[r].scan[t] \in {0, run[r].scan[t]},
         \A r \in Runs : run[r].pc \notin {"idle", "scan"} =>
             run'[r].pc \notin {"idle", "scan"}
  PROVE  JInv'
  <1>1. OutputMatchesJob'
    BY DEF JInv, OutputMatchesJob
  <1>2. ClaimIsNews'
    BY DEF JInv, ClaimIsNews
  <1>3. OwnerKnowsInput'
    BY DEF JInv, OwnerKnowsInput, Owns
  <1>4. ClaimedOnce'
    BY DEF JInv, ClaimedOnce
  <1>5. StaleIsOut'
    BY RunAssumption DEF JInv, StaleIsOut
  <1> QED BY <1>1, <1>2, <1>3, <1>4, <1>5 DEF JInv

(* A run that moves on, with what it does to outputs and the global row.   *)
LEMMA MoveInv ==
  ASSUME TypeOK, JInv, NEW r \in Runs, NEW l \in Pcs,
         run' = [run EXCEPT ![r].pc = l],
         l \in {"idle", "scan"} => run[r].pc \in {"idle", "scan"},
         UNCHANGED <<updated, mode, op, jobs, stale, forgets>>,
         outputs' \in [Threads -> Output],
         \A t \in Threads : /\ outputs'[t].src \in {0, outputs[t].src}
                            /\ outputs'[t].by \in {NoRun, outputs[t].by},
         global' \in Global, baseline' \in [Threads -> Times]
  PROVE  TypeOK' /\ JInv'
  <1>1. run' \in [Runs -> Run]
    <2>1. run \in [Runs -> Run] /\ run[r] \in Run
      BY DEF TypeOK
    <2>2. [run[r] EXCEPT !.pc = l] \in Run
      BY <2>1 DEF Run
    <2> QED BY <2>1, <2>2
  <1>2. TypeOK'
    BY <1>1 DEF TypeOK
  <1>3. \A x \in Runs : /\ run'[x].claims = run[x].claims
                        /\ run'[x].scan = run[x].scan
                        /\ run[x].pc \notin {"idle", "scan"} =>
                             run'[x].pc \notin {"idle", "scan"}
    BY DEF TypeOK, Run
  <1>4. JInv'
    BY <1>3, KeepJInv
  <1> QED BY <1>2, <1>4

(* A run that moves on and touches nothing else.                           *)
LEMMA GotoInv ==
  ASSUME TypeOK, JInv, NEW r \in Runs, NEW l \in Pcs \ {"idle", "scan"},
         Goto(r, l),
         UNCHANGED <<updated, mode, op, jobs, outputs, baseline, stale, forgets>>,
         global' \in Global
  PROVE  TypeOK' /\ JInv'
  BY MoveInv DEF Goto, TypeOK

(* A run that leaves forgets what it scanned, claimed and selected.        *)
LEMMA LeaveInv ==
  ASSUME TypeOK, JInv, NEW r \in Runs, NEW l \in Pcs \ {"idle", "scan"},
         Leave(r, l), UNCHANGED <<updated, mode, op, jobs, stale, forgets>>,
         outputs' \in [Threads -> Output],
         \A t \in Threads : /\ outputs'[t].src \in {0, outputs[t].src}
                            /\ outputs'[t].by \in {NoRun, outputs[t].by},
         global' \in Global, baseline' \in [Threads -> Times]
  PROVE  TypeOK' /\ JInv'
  <1> DEFINE me == [IdleRun EXCEPT !.pc = l]
  <1>1. run' = [run EXCEPT ![r] = me]
    BY DEF Leave
  <1>2. /\ me \in Run /\ me.pc = l
        /\ \A t \in Threads : me.claims[t] = 0 /\ me.scan[t] = 0
    BY BoundTypes DEF IdleRun, None, Run, Times
  <1> HIDE DEF me
  <1>3. run' \in [Runs -> Run] /\ run'[r] = me
        /\ \A x \in Runs \ {r} : run'[x] = run[x]
    BY <1>1, <1>2 DEF TypeOK
  <1>4. TypeOK'
    BY <1>3 DEF TypeOK
  <1>5. JInv'
    BY <1>2, <1>3, KeepJInv
  <1> QED BY <1>4, <1>5

(* A run that leaves and touches nothing but the global row.               *)
LEMMA LeaveGlobalInv ==
  ASSUME TypeOK, JInv, NEW r \in Runs, NEW l \in Pcs \ {"idle", "scan"},
         Leave(r, l),
         UNCHANGED <<updated, mode, op, jobs, outputs, baseline, stale, forgets>>,
         global' \in Global
  PROVE  TypeOK' /\ JInv'
  BY LeaveInv DEF TypeOK

-----------------------------------------------------------------------------
(* prune removes outputs and nothing else.                                 *)
LEMMA PruneInv ==
  ASSUME TypeOK, JInv, NEW r \in Runs, Prune(r)
  PROVE  TypeOK' /\ JInv'
  <1>1. PICK S \in SUBSET Threads :
          outputs' = [t \in Threads |-> IF t \in S THEN NoOutput ELSE outputs[t]]
    BY DEF Prune
  <1>2. NoOutput \in Output
    BY BoundTypes DEF NoOutput, Output, Times
  <1>3. outputs' \in [Threads -> Output]
    BY <1>1, <1>2 DEF TypeOK
  <1>4. \A t \in Threads : /\ outputs'[t].src \in {0, outputs[t].src}
                           /\ outputs'[t].by \in {NoRun, outputs[t].by}
    BY <1>1 DEF NoOutput
  <1> QED BY <1>3, <1>4, MoveInv DEF Prune, Goto, At, Pcs, TypeOK

(* claim_stage1_jobs_for_startup reads before anything is claimed.         *)
LEMMA ScanInv ==
  ASSUME TypeOK, JInv, NEW r \in Runs, Scan(r)
  PROVE  TypeOK' /\ JInv'
  <1>1. PICK now \in [Threads -> Times] :
          /\ run[r].pc = "scan" /\ updated' = now
          /\ run' = [run EXCEPT ![r].pc = "claim",
                       ![r].scan = [t \in Threads |-> IF Enabled(t) THEN now[t]
                                                      ELSE 0]]
          /\ UNCHANGED <<mode, op, jobs, outputs, global, baseline, stale,
                         forgets>>
    BY DEF Scan, At
  <1> DEFINE seen == [t \in Threads |-> IF Enabled(t) THEN now[t] ELSE 0]
  <1>2. seen \in [Threads -> Times] /\ run \in [Runs -> Run]
    BY BoundTypes DEF TypeOK, Times
  <1>0. run' = [run EXCEPT ![r].pc = "claim", ![r].scan = seen]
    BY <1>1
  <1> HIDE DEF seen
  <1>3. run' \in [Runs -> Run]
    <2> DEFINE me == [run[r] EXCEPT !.pc = "claim", !.scan = seen]
    <2>1. run[r] \in Run /\ "claim" \in Pcs
      BY <1>2 DEF Pcs
    <2>2. me \in Run
      BY <1>2, <2>1 DEF Run
    <2>3. run' = [run EXCEPT ![r] = me]
      BY <1>0, <1>2, <2>1 DEF Run
    <2> HIDE DEF me
    <2> QED BY <1>2, <2>2, <2>3
  <1>4. TypeOK'
    BY <1>1, <1>3 DEF TypeOK
  <1>5. /\ \A x \in Runs \ {r} : run'[x] = run[x]
        /\ run'[r].claims = run[r].claims /\ run'[r].pc = "claim"
    BY <1>0, <1>2 DEF Run
  <1>6. \A t \in Threads : run[r].claims[t] = 0 /\ <<r, t>> \notin stale
    <2> TAKE t \in Threads
    <2>1. run[r].claims[t] \in Nat
      BY BoundTypes DEF TypeOK, Run, Times
    <2> QED BY <1>1, <2>1 DEF JInv, ClaimedOnce, StaleIsOut
  <1>7. UNCHANGED <<jobs, outputs, stale>>
    BY <1>1
  <1>8. OutputMatchesJob' /\ ClaimIsNews'
    BY <1>7 DEF JInv, OutputMatchesJob, ClaimIsNews
  <1>9. OwnerKnowsInput'
    BY <1>5, <1>7 DEF JInv, OwnerKnowsInput, Owns
  <1>10. ClaimedOnce'
    <2> SUFFICES ASSUME NEW x \in Runs, NEW t \in Threads, run'[x].claims[t] > 0
                 PROVE  run'[x].scan[t] = 0 /\ run'[x].pc \notin {"idle", "scan"}
      BY DEF ClaimedOnce
    <2>1. run'[r].claims[t] = 0
      BY <1>5, <1>6
    <2>2. x # r
      BY <2>1
    <2> QED BY <1>5, <2>2 DEF JInv, ClaimedOnce
  <1>11. StaleIsOut'
    BY <1>5, <1>6, <1>7 DEF JInv, StaleIsOut
  <1> QED BY <1>4, <1>8, <1>9, <1>10, <1>11 DEF JInv

(* try_claim_stage1_job.                                                   *)
LEMMA ClaimStage1Inv ==
  ASSUME TypeOK, JInv, NEW r \in Runs, NEW t \in Threads, ClaimStage1(r, t)
  PROVE  TypeOK' /\ JInv'
  <1> DEFINE w == run[r].scan[t]
  <1>1. /\ run[r].pc = "claim" /\ w > 0
        /\ UNCHANGED <<updated, mode, op, outputs, global, baseline, stale,
                       forgets>>
    BY DEF ClaimStage1, At
  <1>2. w \in Times /\ w \in Nat
    BY BoundTypes DEF TypeOK, Run, Times
  <1>3. CASE ~UpToDate(t, w) /\ Claimable(t, w)
    <2> DEFINE tries == IF w > jobs[t].input THEN Retries ELSE jobs[t].left
               row == [jobs[t] EXCEPT !.status = "running", !.token = r,
                         !.lease = Lease, !.wait = 0, !.input = w,
                         !.left = tries]
    <2>1. /\ jobs' = [jobs EXCEPT ![t] = row]
          /\ run' = [run EXCEPT ![r].scan[t] = 0, ![r].claims[t] = w]
      <3>1. /\ jobs' = [jobs EXCEPT ![t] =
                  [jobs[t] EXCEPT
                     !.status = "running", !.token = r, !.lease = Lease,
                     !.wait = 0, !.input = w,
                     !.left = IF w > jobs[t].input THEN Retries ELSE @]]
            /\ run' = [run EXCEPT ![r].scan[t] = 0, ![r].claims[t] = w]
        BY <1>3, Zenon DEF ClaimStage1
      <3> DEFINE claimed ==
                   [jobs[t] EXCEPT !.status = "running", !.token = r,
                      !.lease = Lease, !.wait = 0, !.input = w,
                      !.left = IF w > jobs[t].input THEN Retries ELSE @]
      <3>2. claimed = row
        BY DEF TypeOK, Job
      <3> QED BY <3>1, <3>2, Zenon
    <2>0. tries \in 0..Retries /\ tries > 0
      BY <1>2, <1>3, BoundTypes DEF TypeOK, Job, Times, Claimable
    <2> HIDE DEF tries
    <2>2. /\ row \in Job /\ row.status = "running" /\ row.token = r
          /\ row.input = w /\ row.success = jobs[t].success /\ row.left > 0
      <3>1. jobs[t] \in Job /\ r \in Runs \cup {NoRun}
        BY DEF TypeOK
      <3>2. Lease \in 0..Lease /\ 0 \in 0..Backoff
        BY BoundTypes
      <3> HIDE DEF w
      <3> QED BY <1>2, <2>0, <3>1, <3>2 DEF Job
    <2>3. w > row.success
      BY <1>2, <1>3, <2>2, BoundTypes DEF UpToDate, TypeOK, Job, Times
    <2> HIDE DEF row
    <2>4. jobs' \in [Threads -> Job]
      BY <2>1, <2>2 DEF TypeOK
    <2>5. run' \in [Runs -> Run]
      <3> DEFINE me == [run[r] EXCEPT !.scan = [@ EXCEPT ![t] = 0],
                                      !.claims = [@ EXCEPT ![t] = w]]
      <3>0. run \in [Runs -> Run] /\ run[r] \in Run
        BY DEF TypeOK
      <3>1. run' = [run EXCEPT ![r] = me]
        <4> HIDE DEF w
        <4> QED BY <2>1, <3>0 DEF Run
      <3>2. /\ run[r] \in Run
            /\ [run[r].scan EXCEPT ![t] = 0] \in [Threads -> Times]
            /\ [run[r].claims EXCEPT ![t] = w] \in [Threads -> Times]
        BY <1>2, BoundTypes DEF TypeOK, Run, Times
      <3>3. me \in Run
        BY <3>2 DEF Run
      <3> QED BY <3>1, <3>3 DEF TypeOK
    <2>6. TypeOK'
      BY <1>1, <2>4, <2>5 DEF TypeOK
    <2>7. /\ jobs'[t] = row /\ \A u \in Threads \ {t} : jobs'[u] = jobs[u]
          /\ \A x \in Runs \ {r} : run'[x] = run[x]
          /\ run'[r].pc = "claim"
          /\ \A u \in Threads \ {t} : /\ run'[r].claims[u] = run[r].claims[u]
                                      /\ run'[r].scan[u] = run[r].scan[u]
          /\ run'[r].claims[t] = w /\ run'[r].scan[t] = 0
      BY <1>1, <2>1 DEF TypeOK, Run
    <2>8. <<r, t>> \notin stale
      BY <1>1, <1>2 DEF JInv, StaleIsOut
    <2> HIDE DEF w
    <2>9. OutputMatchesJob'
      BY <1>1, <2>2, <2>7 DEF JInv, OutputMatchesJob
    <2>10. ClaimIsNews'
      BY <2>2, <2>3, <2>7 DEF JInv, ClaimIsNews
    <2>11. OwnerKnowsInput'
      BY <2>2, <2>7 DEF JInv, OwnerKnowsInput, Owns
    <2>12. ClaimedOnce'
      BY <1>1, <2>7 DEF JInv, ClaimedOnce
    <2>13. StaleIsOut'
      BY <1>1, <2>2, <2>7, <2>8 DEF JInv, StaleIsOut
    <2> QED BY <2>6, <2>9, <2>10, <2>11, <2>12, <2>13 DEF JInv
  <1>4. CASE ~(~UpToDate(t, w) /\ Claimable(t, w))
    <2>1. UNCHANGED jobs /\ run' = [run EXCEPT ![r].scan[t] = 0]
      BY <1>4 DEF ClaimStage1
    <2>2. run' \in [Runs -> Run]
      <3> DEFINE me == [run[r] EXCEPT !.scan = [@ EXCEPT ![t] = 0]]
      <3>1. run' = [run EXCEPT ![r] = me]
        BY <2>1 DEF TypeOK, Run
      <3>2. /\ run[r] \in Run
            /\ [run[r].scan EXCEPT ![t] = 0] \in [Threads -> Times]
        BY BoundTypes DEF TypeOK, Run, Times
      <3>3. me \in Run
        BY <3>2 DEF Run
      <3> QED BY <3>1, <3>3 DEF TypeOK
    <2>3. TypeOK'
      BY <1>1, <2>1, <2>2 DEF TypeOK
    <2>4. \A x \in Runs, u \in Threads :
            /\ run'[x].claims[u] = run[x].claims[u]
            /\ run'[x].scan[u] \in {0, run[x].scan[u]}
            /\ run'[x].pc = run[x].pc
      BY <2>1 DEF TypeOK, Run
    <2>5. \A x \in Runs : run'[x].pc = run[x].pc
      BY <2>1 DEF TypeOK, Run
    <2>6. JInv'
      BY <1>1, <2>1, <2>4, <2>5, KeepJInv
    <2> QED BY <2>3, <2>6
  <1> QED BY <1>3, <1>4

(* The claims are made; what is left of the scan is dropped.               *)
LEMMA StartJobsInv ==
  ASSUME TypeOK, JInv, NEW r \in Runs, StartJobs(r)
  PROVE  TypeOK' /\ JInv'
  <1>1. /\ run' = [run EXCEPT ![r].pc = "work", ![r].scan = None]
        /\ UNCHANGED notRun
    BY DEF StartJobs
  <1>2. None \in [Threads -> Times]
    BY BoundTypes DEF None, Times
  <1>3. run' \in [Runs -> Run]
    <2> DEFINE me == [run[r] EXCEPT !.pc = "work", !.scan = None]
    <2>1. run \in [Runs -> Run] /\ run[r] \in Run /\ "work" \in Pcs
      BY DEF TypeOK, Pcs
    <2>2. me \in Run
      BY <1>2, <2>1 DEF Run
    <2>3. run' = [run EXCEPT ![r] = me]
      BY <1>1, <2>1 DEF Run
    <2> HIDE DEF me
    <2> QED BY <2>1, <2>2, <2>3
  <1>4. TypeOK'
    BY <1>1, <1>3 DEF TypeOK, notRun
  <1>5. /\ \A x \in Runs, u \in Threads :
            /\ run'[x].claims[u] = run[x].claims[u]
            /\ run'[x].scan[u] \in {0, run[x].scan[u]}
        /\ \A x \in Runs : run[x].pc \notin {"idle", "scan"} =>
             run'[x].pc \notin {"idle", "scan"}
    BY <1>1 DEF TypeOK, Run, None
  <1>6. JInv'
    BY <1>1, <1>5, KeepJInv DEF notRun
  <1> QED BY <1>4, <1>6

-----------------------------------------------------------------------------
(* A worker is done with a claim.                                          *)
LEMMA FinishedType ==
  ASSUME TypeOK, NEW r \in Runs, NEW t \in Threads,
         run' = [run EXCEPT ![r].claims[t] = 0]
  PROVE  /\ run' \in [Runs -> Run]
         /\ \A x \in Runs : run'[x].pc = run[x].pc
         /\ \A x \in Runs, u \in Threads :
              /\ run'[x].claims[u] \in {0, run[x].claims[u]}
              /\ run'[x].scan[u] = run[x].scan[u]
  <1> DEFINE me == [run[r] EXCEPT !.claims = [@ EXCEPT ![t] = 0]]
  <1>1. run' = [run EXCEPT ![r] = me]
    BY DEF TypeOK, Run
  <1>2. /\ run[r] \in Run
        /\ [run[r].claims EXCEPT ![t] = 0] \in [Threads -> Times]
    BY BoundTypes DEF TypeOK, Run, Times
  <1>3. me \in Run
    BY <1>2 DEF Run
  <1>4. /\ me.pc = run[r].pc /\ me.scan = run[r].scan
        /\ me.claims = [run[r].claims EXCEPT ![t] = 0]
    BY <1>2 DEF Run
  <1> HIDE DEF me
  <1>5. run'[r] = me /\ \A x \in Runs \ {r} : run'[x] = run[x]
    BY <1>1 DEF TypeOK
  <1>6. \A u \in Threads : me.claims[u] \in {0, run[r].claims[u]}
    BY <1>4 DEF TypeOK, Run
  <1> QED BY <1>1, <1>3, <1>4, <1>5, <1>6 DEF TypeOK

(* mark_stage1_job_succeeded: only the owner of a job writes.              *)
LEMMA ExtractedInv ==
  ASSUME TypeOK, JInv, NEW r \in Runs, NEW t \in Threads, Extracted(r, t)
  PROVE  TypeOK' /\ JInv'
  <1> DEFINE w == run[r].claims[t]
  <1>1. /\ run' = [run EXCEPT ![r].claims[t] = 0] /\ w > 0
        /\ UNCHANGED <<updated, mode, op, baseline, stale, forgets>>
    BY DEF Extracted, Finished
  <1>2. w \in Times /\ w \in Nat
    BY BoundTypes DEF TypeOK, Run, Times
  <1>3. run' \in [Runs -> Run]
    BY <1>1, FinishedType
  <1>4. \A x \in Runs, u \in Threads :
          /\ run'[x].claims[u] \in {0, run[x].claims[u]}
          /\ run'[x].scan[u] = run[x].scan[u]
          /\ run'[x].pc = run[x].pc
    BY <1>1, FinishedType
  <1>5. \A x \in Runs : run'[x].pc = run[x].pc
    BY <1>1, FinishedType
  <1>6. CASE ~Owns(r, t)
    <2>1. UNCHANGED <<jobs, outputs, global>>
      BY <1>6, Zenon DEF Extracted
    <2>2. TypeOK'
      BY <1>1, <1>3, <2>1 DEF TypeOK
    <2>3. JInv'
      BY <1>1, <1>4, <1>5, <2>1, KeepJInv
    <2> QED BY <2>2, <2>3
  <1>7. CASE Owns(r, t)
    <2>1. /\ Succeeded(t) /\ global' = Enqueued(global, w)
          /\ outputs' = IF w >= outputs[t].src
                        THEN [outputs EXCEPT ![t] =
                                [outputs[t] EXCEPT !.src = w, !.by = r]]
                        ELSE outputs
      BY <1>7, Zenon DEF Extracted
    <2>2. /\ jobs[t] \in Job /\ jobs[t].status = "running" /\ jobs[t].token = r
          /\ jobs[t].input > jobs[t].success
          /\ w = jobs[t].input
      BY <1>1, <1>7 DEF TypeOK, JInv, Owns, OwnerKnowsInput, ClaimIsNews
    <2>3. outputs[t] \in Output
      BY DEF TypeOK
    <2>4. w >= outputs[t].src
      BY <1>2, <2>2, <2>3, BoundTypes
         DEF JInv, OutputMatchesJob, Job, Output, Times
    <2> DEFINE out == [outputs[t] EXCEPT !.src = w, !.by = r]
               row == [jobs[t] EXCEPT !.status = "done", !.lease = 0,
                                      !.success = jobs[t].input]
    <2>5. /\ outputs' = [outputs EXCEPT ![t] = out]
          /\ jobs' = [jobs EXCEPT ![t] = row]
      BY <2>1, <2>4 DEF Succeeded
    <2>6. /\ out \in Output /\ out.src = w /\ out.by = r
          /\ row \in Job /\ row.status = "done" /\ row.success = w
          /\ row.token = r
      <3>1. 0 \in 0..Lease /\ r \in Runs \cup {NoRun}
        BY BoundTypes
      <3> HIDE DEF w
      <3>2. out \in Output /\ out.src = w /\ out.by = r
        BY <1>2, <2>3, <3>1 DEF Output
      <3>3. /\ row \in Job /\ row.status = "done" /\ row.success = w
            /\ row.token = r
        BY <2>2, <3>1 DEF Job
      <3> QED BY <3>2, <3>3
    <2> HIDE DEF out, row
    <2>7. global' \in Global
      BY <1>2, <2>1, EnqueuedType DEF TypeOK
    <2>8. TypeOK'
      BY <1>1, <1>3, <2>5, <2>6, <2>7 DEF TypeOK
    <2>9. /\ jobs'[t] = row /\ outputs'[t] = out
          /\ \A u \in Threads \ {t} : jobs'[u] = jobs[u]
                                      /\ outputs'[u] = outputs[u]
      BY <2>5 DEF TypeOK
    <2>10. <<r, t>> \notin stale
      BY <2>2 DEF JInv, StaleIsOut
    <2> HIDE DEF w
    <2>11. OutputMatchesJob'
      BY <2>6, <2>9 DEF JInv, OutputMatchesJob
    <2>12. ClaimIsNews'
      BY <2>6, <2>9 DEF JInv, ClaimIsNews
    <2>13. OwnerKnowsInput'
      BY <1>4, <2>6, <2>9 DEF JInv, OwnerKnowsInput, Owns
    <2>14. ClaimedOnce'
      BY <1>4 DEF JInv, ClaimedOnce
    <2>15. StaleIsOut'
      BY <1>1, <1>4, <2>2, <2>6, <2>9, <2>10 DEF JInv, StaleIsOut
    <2> QED BY <2>8, <2>11, <2>12, <2>13, <2>14, <2>15 DEF JInv
  <1> QED BY <1>6, <1>7

(* mark_stage1_job_succeeded_no_output.                                    *)
LEMMA ExtractedNothingInv ==
  ASSUME TypeOK, JInv, NEW r \in Runs, NEW t \in Threads, ExtractedNothing(r, t)
  PROVE  TypeOK' /\ JInv'
  <1>1. /\ run' = [run EXCEPT ![r].claims[t] = 0]
        /\ UNCHANGED <<updated, mode, op, baseline, stale, forgets>>
    BY DEF ExtractedNothing, Finished
  <1>2. /\ run' \in [Runs -> Run]
        /\ \A x \in Runs : run'[x].pc = run[x].pc
        /\ \A x \in Runs, u \in Threads :
             /\ run'[x].claims[u] \in {0, run[x].claims[u]}
             /\ run'[x].scan[u] = run[x].scan[u]
    BY <1>1, FinishedType
  <1>3. CASE ~Owns(r, t)
    <2>1. UNCHANGED <<jobs, outputs, global>>
      BY <1>3, Zenon DEF ExtractedNothing
    <2>2. TypeOK'
      BY <1>1, <1>2, <2>1 DEF TypeOK
    <2>3. JInv'
      BY <1>1, <1>2, <2>1, KeepJInv
    <2> QED BY <2>2, <2>3
  <1>4. CASE Owns(r, t)
    <2>1. /\ Succeeded(t) /\ outputs' = [outputs EXCEPT ![t] = NoOutput]
          /\ global' \in {Enqueued(global, jobs[t].input), global}
      BY <1>4, Zenon DEF ExtractedNothing
    <2>2. NoOutput \in Output /\ NoOutput.src = 0 /\ NoOutput.by = NoRun
      BY BoundTypes DEF NoOutput, Output, Times
    <2> DEFINE row == [jobs[t] EXCEPT !.status = "done", !.lease = 0,
                                      !.success = jobs[t].input]
    <2>3. jobs' = [jobs EXCEPT ![t] = row]
      BY <2>1 DEF Succeeded
    <2>4. /\ row \in Job /\ row.status = "done" /\ row.token = jobs[t].token
          /\ jobs[t].input \in Nat
      <3>1. jobs[t] \in Job /\ 0 \in 0..Lease
        BY BoundTypes DEF TypeOK
      <3>2. jobs[t].input \in Nat
        BY <3>1, BoundTypes DEF Job, Times
      <3> QED BY <3>1, <3>2 DEF Job
    <2> HIDE DEF row
    <2>5. global' \in Global
      BY <2>1, <2>4, EnqueuedType DEF TypeOK
    <2>6. TypeOK'
      BY <1>1, <1>2, <2>1, <2>2, <2>3, <2>4, <2>5 DEF TypeOK
    <2>7. /\ jobs'[t] = row /\ outputs'[t] = NoOutput
          /\ \A u \in Threads \ {t} : jobs'[u] = jobs[u]
                                      /\ outputs'[u] = outputs[u]
      BY <2>1, <2>3 DEF TypeOK
    <2>8. JInv'
      BY <1>1, <1>2, <2>2, <2>4, <2>7, KeepJInv
    <2> QED BY <2>6, <2>8
  <1> QED BY <1>3, <1>4

(* mark_stage1_job_failed.                                                 *)
LEMMA ExtractionFailedInv ==
  ASSUME TypeOK, JInv, NEW r \in Runs, NEW t \in Threads, ExtractionFailed(r, t)
  PROVE  TypeOK' /\ JInv'
  <1>1. /\ run' = [run EXCEPT ![r].claims[t] = 0]
        /\ UNCHANGED <<updated, mode, op, outputs, global, baseline, stale,
                       forgets>>
    BY DEF ExtractionFailed, Finished
  <1>2. /\ run' \in [Runs -> Run]
        /\ \A x \in Runs : run'[x].pc = run[x].pc
        /\ \A x \in Runs, u \in Threads :
             /\ run'[x].claims[u] \in {0, run[x].claims[u]}
             /\ run'[x].scan[u] = run[x].scan[u]
    BY <1>1, FinishedType
  <1>3. CASE ~Owns(r, t)
    <2>1. UNCHANGED jobs
      BY <1>3, Zenon DEF ExtractionFailed
    <2>2. TypeOK'
      BY <1>1, <1>2, <2>1 DEF TypeOK
    <2>3. JInv'
      BY <1>1, <1>2, <2>1, KeepJInv
    <2> QED BY <2>2, <2>3
  <1>4. CASE Owns(r, t)
    <2> DEFINE row == [jobs[t] EXCEPT !.status = "error", !.lease = 0,
                                      !.wait = Backoff, !.left = @ - 1]
    <2>1. jobs' = [jobs EXCEPT ![t] = row]
      BY <1>4, Zenon DEF ExtractionFailed
    <2>2. jobs[t] \in Job /\ jobs[t].left > 0
      BY <1>4 DEF TypeOK, JInv, ClaimIsNews, Owns
    <2>3. jobs[t].left - 1 \in 0..Retries /\ 0 \in 0..Lease
          /\ Backoff \in 0..Backoff
      BY <2>2, BoundTypes DEF Job
    <2>4. /\ row \in Job /\ row.status = "error" /\ row.token = jobs[t].token
          /\ row.success = jobs[t].success
      BY <2>2, <2>3 DEF Job
    <2> HIDE DEF row
    <2>5. TypeOK'
      BY <1>1, <1>2, <2>1, <2>4 DEF TypeOK
    <2>6. /\ jobs'[t] = row
          /\ \A u \in Threads \ {t} : jobs'[u] = jobs[u]
      BY <2>1 DEF TypeOK
    <2>7. JInv'
      BY <1>1, <1>2, <2>4, <2>6, KeepJInv
    <2> QED BY <2>5, <2>7
  <1> QED BY <1>3, <1>4

-----------------------------------------------------------------------------
(* try_claim_global_phase2_job.                                            *)
LEMMA ClaimGlobalInv ==
  ASSUME TypeOK, JInv, NEW r \in Runs, ClaimGlobal(r)
  PROVE  TypeOK' /\ JInv'
  <1>1. UNCHANGED <<updated, mode, op, jobs, outputs, baseline, stale, forgets>>
    BY DEF ClaimGlobal
  <1>2. \/ Leave(r, "end") /\ UNCHANGED global
        \/ /\ global' = [global EXCEPT !.status = "running", !.token = r,
                            !.lease = Lease, !.wait = 0, !.cool = 0,
                            !.failed = FALSE]
           /\ run' = [run EXCEPT ![r].pc = "keys", ![r].mark = global.input]
    BY DEF ClaimGlobal
  <1>3. CASE Leave(r, "end") /\ UNCHANGED global
    BY <1>1, <1>3, LeaveGlobalInv DEF Pcs, TypeOK
  <1>4. CASE /\ global' = [global EXCEPT !.status = "running", !.token = r,
                            !.lease = Lease, !.wait = 0, !.cool = 0,
                            !.failed = FALSE]
             /\ run' = [run EXCEPT ![r].pc = "keys", ![r].mark = global.input]
    <2>1. global' \in Global
      <3>1. global \in Global /\ r \in Runs \cup {NoRun}
        BY DEF TypeOK
      <3> QED BY <1>4, <3>1, BoundRanges DEF Global
    <2>2. run' \in [Runs -> Run]
      <3>1. global.input \in Nat /\ "keys" \in Pcs
        BY DEF TypeOK, Global, Pcs
      <3>2. run \in [Runs -> Run]
        BY DEF TypeOK
      <3> QED BY <1>4, <3>1, <3>2 DEF Run
    <2>3. TypeOK'
      BY <1>1, <2>1, <2>2 DEF TypeOK
    <2>4. \A x \in Runs : /\ run'[x].claims = run[x].claims
                          /\ run'[x].scan = run[x].scan
                          /\ run[x].pc \notin {"idle", "scan"} =>
                               run'[x].pc \notin {"idle", "scan"}
      BY <1>4 DEF TypeOK, Run
    <2>5. JInv'
      BY <1>1, <2>4, KeepJInv
    <2> QED BY <2>3, <2>5
  <1> QED BY <1>2, <1>3, <1>4

(* A run that goes on with its selection: only what it holds changes.      *)
LEMMA HoldInv ==
  ASSUME TypeOK, JInv, NEW r \in Runs, UNCHANGED notRun, NEW me \in Run,
         run' = [run EXCEPT ![r] = me],
         me.claims = run[r].claims, me.scan = run[r].scan,
         me.pc \notin {"idle", "scan"}
  PROVE  TypeOK' /\ JInv'
  <1>1. run' \in [Runs -> Run] /\ run'[r] = me
        /\ \A x \in Runs \ {r} : run'[x] = run[x]
    BY DEF TypeOK
  <1>2. TypeOK'
    BY <1>1 DEF TypeOK, notRun
  <1>3. JInv'
    BY <1>1, KeepJInv DEF notRun
  <1> QED BY <1>2, <1>3

(* What each step of the selection does to the run.                        *)
LEMMA SelectStep ==
  ASSUME TypeOK, NEW r \in Runs,
         \/ \E t \in Threads : SelectKey(r, t) \/ ReadRow(r, t) \/ CheckRow(r, t)
         \/ EndKeys(r) \/ Sync(r)
  PROVE  \E l \in {"keys", "rows", "check", "mark", "agent"}, m \in Nat,
            keys \in [Threads -> Times], picks \in [Threads -> Times] :
           run' = [run EXCEPT ![r] = [run[r] EXCEPT
                     !.pc = l, !.mark = m, !.keys = keys, !.picks = picks]]
  <1> DEFINE k == run[r].keys
             p == run[r].picks
             To(l, m, keys, picks) ==
               run' = [run EXCEPT ![r] = [run[r] EXCEPT
                         !.pc = l, !.mark = m, !.keys = keys, !.picks = picks]]
  <1>0. /\ run \in [Runs -> Run] /\ run[r] \in Run
        /\ k \in [Threads -> Times] /\ p \in [Threads -> Times]
        /\ run[r].mark \in Nat /\ 0 \in Times
    BY BoundTypes DEF TypeOK, Run, Times
  <1>1. ASSUME NEW t \in Threads, SelectKey(r, t)
        PROVE  /\ To("keys", run[r].mark, [k EXCEPT ![t] = outputs[t].src], p)
               /\ [k EXCEPT ![t] = outputs[t].src] \in [Threads -> Times]
    <2>1. outputs[t].src \in Times
      BY DEF TypeOK, Output
    <2>2. run[r].pc = "keys" /\ run' = [run EXCEPT ![r].keys[t] = outputs[t].src]
      BY <1>1 DEF SelectKey, At
    <2> QED BY <1>0, <2>1, <2>2 DEF Run
  <1>2. ASSUME NEW t \in Threads, ReadRow(r, t)
        PROVE  \/ /\ To("check", run[r].mark, k, [p EXCEPT ![t] = k[t]])
                  /\ [p EXCEPT ![t] = k[t]] \in [Threads -> Times]
               \/ /\ To("rows", run[r].mark, [k EXCEPT ![t] = 0], p)
                  /\ [k EXCEPT ![t] = 0] \in [Threads -> Times]
    <2>0. run[r].pc = "rows"
      BY <1>2 DEF ReadRow, At
    <2>1. \/ run' = [run EXCEPT ![r].pc = "check", ![r].picks[t] = k[t]]
          \/ run' = [run EXCEPT ![r].keys[t] = 0]
      BY <1>2 DEF ReadRow
    <2>2. /\ [p EXCEPT ![t] = k[t]] \in [Threads -> Times]
          /\ [k EXCEPT ![t] = 0] \in [Threads -> Times]
      BY <1>0
    <2>3. CASE run' = [run EXCEPT ![r].pc = "check", ![r].picks[t] = k[t]]
      <3>1. To("check", run[r].mark, k, [p EXCEPT ![t] = k[t]])
        BY <1>0, <2>3 DEF Run
      <3> QED BY <2>2, <3>1
    <2>4. CASE run' = [run EXCEPT ![r].keys[t] = 0]
      <3>1. To("rows", run[r].mark, [k EXCEPT ![t] = 0], p)
        BY <1>0, <2>0, <2>4 DEF Run
      <3> QED BY <2>2, <3>1
    <2> QED BY <2>1, <2>3, <2>4
  <1>3. ASSUME NEW t \in Threads, CheckRow(r, t)
        PROVE  \E n \in Times :
                 /\ To("rows", run[r].mark, [k EXCEPT ![t] = 0],
                       [p EXCEPT ![t] = n])
                 /\ [k EXCEPT ![t] = 0] \in [Threads -> Times]
                 /\ [p EXCEPT ![t] = n] \in [Threads -> Times]
    <2> DEFINE n == IF Enabled(t) THEN p[t] ELSE 0
    <2>1. n \in Times
      BY <1>0
    <2>2. run' = [run EXCEPT ![r].pc = "rows", ![r].keys[t] = 0,
                             ![r].picks[t] = IF Enabled(t) THEN @ ELSE 0]
      BY <1>3 DEF CheckRow
    <2>3. run' = [run EXCEPT ![r].pc = "rows", ![r].keys[t] = 0,
                             ![r].picks[t] = n]
      BY <1>0, <2>2 DEF Run
    <2> HIDE DEF n
    <2>4. /\ To("rows", run[r].mark, [k EXCEPT ![t] = 0], [p EXCEPT ![t] = n])
          /\ [k EXCEPT ![t] = 0] \in [Threads -> Times]
          /\ [p EXCEPT ![t] = n] \in [Threads -> Times]
      BY <1>0, <2>1, <2>3 DEF Run
    <2> HIDE DEF k, p, To
    <2> QED BY <2>1, <2>4, Zenon
  <1>4. ASSUME EndKeys(r) PROVE To("rows", run[r].mark, k, p)
    BY <1>0, <1>4 DEF EndKeys, Goto, Run
  <1>5. ASSUME Sync(r)
        PROVE  \E l \in {"mark", "agent"} : To(l, Watermark(run[r].mark, p), k, p)
    <2> DEFINE m == Watermark(run[r].mark, p)
    <2>1. PICK l \in {"mark", "agent"} :
            run' = [run EXCEPT ![r].pc = l, ![r].mark = m]
      BY <1>5 DEF Sync
    <2> HIDE DEF m
    <2>2. To(l, m, k, p)
      BY <1>0, <2>1 DEF Run
    <2> QED BY <2>2 DEF m
  <1>6. Watermark(run[r].mark, p) \in Nat
    BY <1>0, WatermarkType
  <1> DEFINE Stepped ==
               \E l \in {"keys", "rows", "check", "mark", "agent"}, m \in Nat,
                  keys \in [Threads -> Times], picks \in [Threads -> Times] :
                 run' = [run EXCEPT ![r] = [run[r] EXCEPT
                           !.pc = l, !.mark = m, !.keys = keys, !.picks = picks]]
  <1> HIDE DEF k, p
  <1>7. ASSUME NEW l \in {"keys", "rows", "check", "mark", "agent"}, NEW m \in Nat,
               NEW keys \in [Threads -> Times], NEW picks \in [Threads -> Times],
               To(l, m, keys, picks)
        PROVE  Stepped
    BY <1>7, Zenon
  <1> HIDE DEF Stepped, To
  <1>8. ASSUME NEW t \in Threads, SelectKey(r, t) PROVE Stepped
    BY <1>0, <1>1, <1>7, <1>8, Zenon
  <1>9. ASSUME NEW t \in Threads, ReadRow(r, t) PROVE Stepped
    BY <1>0, <1>2, <1>7, <1>9, Zenon
  <1>10. ASSUME NEW t \in Threads, CheckRow(r, t) PROVE Stepped
    BY <1>0, <1>3, <1>7, <1>10, Zenon
  <1>11. ASSUME EndKeys(r) \/ Sync(r) PROVE Stepped
    BY <1>0, <1>4, <1>5, <1>6, <1>7, <1>11, Zenon
  <1> QED BY <1>8, <1>9, <1>10, <1>11 DEF Stepped

(* get_phase2_input_selection, and the choice to start an agent.           *)
LEMMA SelectInv ==
  ASSUME TypeOK, JInv, NEW r \in Runs,
         \/ \E t \in Threads : SelectKey(r, t) \/ ReadRow(r, t) \/ CheckRow(r, t)
         \/ EndKeys(r) \/ Sync(r)
  PROVE  TypeOK' /\ JInv'
  <1>1. UNCHANGED notRun
    BY DEF SelectKey, ReadRow, CheckRow, EndKeys, Sync
  <1>2. PICK l \in {"keys", "rows", "check", "mark", "agent"}, m \in Nat,
             keys \in [Threads -> Times], picks \in [Threads -> Times] :
          run' = [run EXCEPT ![r] = [run[r] EXCEPT
                    !.pc = l, !.mark = m, !.keys = keys, !.picks = picks]]
    BY SelectStep
  <1> DEFINE me == [run[r] EXCEPT !.pc = l, !.mark = m, !.keys = keys,
                                  !.picks = picks]
  <1>3. run[r] \in Run /\ l \in Pcs /\ l \notin {"idle", "scan"}
    BY DEF TypeOK, Pcs
  <1>4. /\ me \in Run /\ me.claims = run[r].claims /\ me.scan = run[r].scan
        /\ me.pc = l
    BY <1>3 DEF Run
  <1>5. run' = [run EXCEPT ![r] = me]
    BY <1>2
  <1> HIDE DEF me
  <1> QED BY <1>1, <1>3, <1>4, <1>5, HoldInv

(* The steps of stage 2 that leave the database alone.                     *)
LEMMA AgentStepInv ==
  ASSUME TypeOK, JInv, NEW r \in Runs,
         \/ AgentEnds(r) \/ ShutdownTimesOut(r) \/ HungAgentEnds(r)
         \/ ResetBaseline(r) \/ Crash(r)
  PROVE  TypeOK' /\ JInv'
  <1>1. UNCHANGED notRun
    BY DEF AgentEnds, ShutdownTimesOut, HungAgentEnds, ResetBaseline, Crash
  <1>2. \E l \in {"mark", "completed", "stopping", "hung", "end"} :
          Goto(r, l) \/ Leave(r, l)
    BY DEF AgentEnds, ShutdownTimesOut, HungAgentEnds, ResetBaseline, Crash
  <1> QED BY <1>1, <1>2, GotoInv, LeaveGlobalInv DEF notRun, Pcs, TypeOK

(* Heartbeats, and the row's end: by its owner or not at all.              *)
LEMMA LeaseStepInv ==
  ASSUME TypeOK, JInv, NEW r \in Runs,
         Heartbeat(r) \/ ConfirmOwnership(r) \/ MarkFailed(r)
  PROVE  TypeOK' /\ JInv'
  <1>1. UNCHANGED <<updated, mode, op, jobs, outputs, baseline, stale, forgets>>
    BY DEF Heartbeat, ConfirmOwnership, MarkFailed
  <1>2. global' \in Global
    <2>1. \/ UNCHANGED global
          \/ global' = [global EXCEPT !.lease = Lease]
          \/ global' = [global EXCEPT !.status = "error", !.lease = 0,
                          !.cool = Cooldown, !.wait = Backoff, !.failed = TRUE]
      BY DEF Heartbeat, ConfirmOwnership, MarkFailed
    <2>2. global \in Global
      BY DEF TypeOK
    <2> QED BY <2>1, <2>2, BoundRanges DEF Global
  <1>3. \/ UNCHANGED run
        \/ \E l \in {"stopping", "reset", "end"} : Goto(r, l) \/ Leave(r, l)
    BY DEF Heartbeat, ConfirmOwnership, MarkFailed
  <1>4. CASE UNCHANGED run
    <2>1. TypeOK'
      BY <1>1, <1>2, <1>4 DEF TypeOK
    <2>2. JInv'
      BY <1>1, <1>4, KeepJInv
    <2> QED BY <2>1, <2>2
  <1>5. CASE \E l \in {"stopping", "reset", "end"} : Goto(r, l) \/ Leave(r, l)
    BY <1>1, <1>2, <1>5, GotoInv, LeaveGlobalInv DEF Pcs
  <1> QED BY <1>3, <1>4, <1>5

(* mark_global_phase2_job_succeeded.                                       *)
LEMMA MarkSucceededInv ==
  ASSUME TypeOK, JInv, NEW r \in Runs, MarkSucceeded(r)
  PROVE  TypeOK' /\ JInv'
  <1> DEFINE picks == run[r].picks
  <1>1. Leave(r, "end") /\ UNCHANGED <<updated, mode, op, jobs, stale, forgets>>
    BY DEF MarkSucceeded
  <1>2. picks \in [Threads -> Times] /\ run[r].mark \in Nat
    BY DEF TypeOK, Run
  <1>3. CASE ~OwnsGlobal(r)
    <2>1. UNCHANGED <<global, outputs, baseline>>
      BY <1>3, Zenon DEF MarkSucceeded
    <2> QED BY <1>1, <2>1, LeaveInv DEF Pcs, TypeOK
  <1>4. CASE OwnsGlobal(r)
    <2>1. /\ global' = [global EXCEPT !.status = "done", !.lease = 0,
                          !.cool = Cooldown, !.failed = FALSE,
                          !.success = Max({@, run[r].mark})]
          /\ outputs' = [t \in Threads |->
               [outputs[t] EXCEPT !.sel = IF outputs[t].src = picks[t]
                                          THEN picks[t] ELSE 0]]
          /\ baseline' = picks
      BY <1>4, Zenon DEF MarkSucceeded, Marked
    <2>2. Max({global.success, run[r].mark}) \in Nat
      BY <1>2, MaxOfTwo DEF TypeOK, Global
    <2>3. global' \in Global
      <3>1. global \in Global
        BY DEF TypeOK
      <3> DEFINE m == Max({global.success, run[r].mark})
      <3>2. global' = [global EXCEPT !.status = "done", !.lease = 0,
                         !.cool = Cooldown, !.failed = FALSE, !.success = m]
        BY <2>1
      <3> HIDE DEF m
      <3> QED BY <2>2, <3>1, <3>2, BoundRanges DEF Global, m
    <2>4. \A t \in Threads : /\ outputs'[t] \in Output
                             /\ outputs'[t].src = outputs[t].src
                             /\ outputs'[t].by = outputs[t].by
      BY <1>2, <2>1, BoundTypes DEF TypeOK, Output, Times
    <2>5. outputs' \in [Threads -> Output]
      BY <2>1, <2>4
    <2> HIDE DEF picks
    <2> QED BY <1>1, <1>2, <2>1, <2>3, <2>4, <2>5, LeaveInv DEF Pcs
  <1> QED BY <1>3, <1>4

(* Time passes.                                                            *)
LEMMA TickInv ==
  ASSUME TypeOK, JInv, Tick
  PROVE  TypeOK' /\ JInv'
  <1>1. \A n \in Nat, m \in Nat : n <= m => Less(n) \in 0..m
    BY DEF Less
  <1>2. \A t \in Threads :
          /\ jobs'[t] = [jobs[t] EXCEPT !.lease = Less(jobs[t].lease),
                                        !.wait = Less(jobs[t].wait)]
          /\ jobs[t] \in Job
          /\ Less(jobs[t].lease) \in 0..Lease
          /\ Less(jobs[t].wait) \in 0..Backoff
    <2> TAKE t \in Threads
    <2>1. jobs[t] \in Job
      BY DEF TypeOK
    <2>2. /\ jobs[t].lease \in Nat /\ jobs[t].lease <= Lease
          /\ jobs[t].wait \in Nat /\ jobs[t].wait <= Backoff
      BY <2>1, BoundTypes DEF Job
    <2> QED BY <1>1, <2>1, <2>2, BoundTypes DEF Tick
  <1>3. \A t \in Threads :
          /\ jobs'[t] \in Job
          /\ jobs'[t].status = jobs[t].status /\ jobs'[t].token = jobs[t].token
          /\ jobs'[t].input = jobs[t].input /\ jobs'[t].left = jobs[t].left
          /\ jobs'[t].success = jobs[t].success
    <2> SUFFICES ASSUME NEW t \in Threads
                 PROVE  LET j == jobs[t]
                            k == jobs'[t]
                        IN  /\ k \in Job
                            /\ k.status = j.status /\ k.token = j.token
                            /\ k.input = j.input /\ k.left = j.left
                            /\ k.success = j.success
      OBVIOUS
    <2> DEFINE j == jobs[t]
               k == jobs'[t]
               l == Less(jobs[t].lease)
               w == Less(jobs[t].wait)
    <2>1. j \in Job /\ l \in 0..Lease /\ w \in 0..Backoff
      BY <1>2
    <2>2. k = [j EXCEPT !.lease = l, !.wait = w]
      BY <1>2
    <2> HIDE DEF j, k, l, w
    <2>3. /\ k \in Job
          /\ k.status = j.status /\ k.token = j.token /\ k.input = j.input
          /\ k.left = j.left /\ k.success = j.success
      BY <2>1, <2>2 DEF Job
    <2> QED BY <2>3 DEF j, k
  <1>4. jobs' \in [Threads -> Job]
    BY <1>3 DEF Tick
  <1>5. /\ Less(global.lease) \in 0..Lease /\ Less(global.wait) \in 0..Backoff
        /\ Less(global.cool) \in 0..Cooldown
    BY <1>1, BoundTypes DEF TypeOK, Global
  <1>6. global' \in Global
    BY <1>5 DEF Tick, TypeOK, Global
  <1>7. UNCHANGED <<updated, mode, op, outputs, run, baseline, stale, forgets>>
    BY DEF Tick
  <1>8. TypeOK'
    BY <1>4, <1>6, <1>7 DEF TypeOK
  <1>9. JInv'
    BY <1>3, <1>7, KeepJInv
  <1> QED BY <1>8, <1>9

-----------------------------------------------------------------------------
(* The thread's row: its mode, the statements that mark it polluted, and   *)
(* the end of its deletion.                                                *)
LEMMA ThreadStepInv ==
  ASSUME TypeOK, JInv, NEW t \in Threads,
         \/ SetMemoryMode(t) \/ ReadSelected(t) \/ SetPolluted(t)
         \/ EnqueueForgetting(t) \/ DeleteThread(t)
  PROVE  TypeOK' /\ JInv'
  <1>1. UNCHANGED <<updated, jobs, outputs, run, baseline, stale>>
    BY DEF SetMemoryMode, ReadSelected, SetPolluted, EnqueueForgetting,
       DeleteThread
  <1>2. op' \in [Threads -> Ops]
    BY DEF SetMemoryMode, ReadSelected, SetPolluted, EnqueueForgetting,
       DeleteThread, TypeOK, Ops
  <1>3. mode' \in [Threads -> Modes]
    BY DEF SetMemoryMode, ReadSelected, SetPolluted, EnqueueForgetting,
       DeleteThread, TypeOK, Modes
  <1>4. global' \in Global
    <2>1. Later \in Nat
      BY BoundTypes DEF Later
    <2>2. global' = global \/ global' = Enqueued(global, Later)
      BY DEF SetMemoryMode, ReadSelected, SetPolluted, EnqueueForgetting,
         DeleteThread
    <2> QED BY <2>1, <2>2, EnqueuedType DEF TypeOK
  <1>5. forgets' \in 0..MaxForgets
    BY BoundTypes DEF SetMemoryMode, ReadSelected, SetPolluted,
       EnqueueForgetting, DeleteThread, TypeOK, Forget
  <1>6. TypeOK'
    BY <1>1, <1>2, <1>3, <1>4, <1>5 DEF TypeOK
  <1>7. JInv'
    BY <1>1, KeepJInv
  <1> QED BY <1>6, <1>7

(* Deleting the memory of threads: their rows go, and every claim on them  *)
(* that is still held becomes stale.                                       *)
LEMMA ForgetJInv ==
  ASSUME TypeOK, JInv, NEW S \in SUBSET Threads, run' = run,
         stale' = stale \cup Outstanding(S),
         \A t \in S : jobs'[t] = NoJob /\ outputs'[t] = NoOutput,
         \A t \in Threads \ S : jobs'[t] = jobs[t] /\ outputs'[t] = outputs[t]
  PROVE  JInv'
  <1>1. /\ NoJob.status = "none" /\ NoJob.token = NoRun /\ NoJob.success = 0
        /\ NoOutput.src = 0 /\ NoOutput.by = NoRun
    BY DEF NoJob, NoOutput
  <1>2. OutputMatchesJob'
    BY <1>1 DEF JInv, OutputMatchesJob
  <1>3. ClaimIsNews'
    BY <1>1 DEF JInv, ClaimIsNews
  <1>4. OwnerKnowsInput'
    BY <1>1 DEF JInv, OwnerKnowsInput, Owns
  <1>5. ClaimedOnce'
    BY DEF JInv, ClaimedOnce
  <1>6. StaleIsOut'
    <2> SUFFICES ASSUME NEW r \in Runs, NEW t \in Threads, <<r, t>> \in stale'
                 PROVE  /\ run[r].scan[t] = 0 /\ run[r].pc \notin {"idle", "scan"}
                        /\ jobs'[t].token # r /\ outputs'[t].by # r
      BY DEF StaleIsOut
    <2>1. CASE <<r, t>> \in Outstanding(S)
      <3>1. t \in S /\ run[r].claims[t] > 0
        BY <2>1 DEF Outstanding
      <3> QED BY <1>1, <3>1, RunAssumption DEF JInv, ClaimedOnce
    <2>2. CASE <<r, t>> \in stale
      BY <1>1, <2>2, RunAssumption DEF JInv, StaleIsOut
    <2> QED BY <2>1, <2>2
  <1> QED BY <1>2, <1>3, <1>4, <1>5, <1>6 DEF JInv

(* delete_thread_memory and clear_memory_data.                             *)
LEMMA ForgetInv ==
  ASSUME TypeOK, JInv,
         (\E t \in Threads : DeleteThreadMemory(t)) \/ ClearMemoryData
  PROVE  TypeOK' /\ JInv'
  <1>1. NoJob \in Job /\ NoOutput \in Output /\ None \in [Threads -> Times]
    BY BoundTypes DEF NoJob, Job, NoOutput, Output, None, Times
  <1>2. NoGlobal \in Global
    BY BoundRanges DEF NoGlobal, Global
  <1>3. \A S \in SUBSET Threads : Outstanding(S) \subseteq Runs \X Threads
    BY DEF Outstanding
  <1>4. ASSUME NEW t \in Threads, DeleteThreadMemory(t)
        PROVE  TypeOK' /\ JInv'
    <2>1. /\ op' = [op EXCEPT ![t] = "delete"]
          /\ outputs' = [outputs EXCEPT ![t] = NoOutput]
          /\ jobs' = [jobs EXCEPT ![t] = NoJob]
          /\ stale' = stale \cup Outstanding({t})
          /\ UNCHANGED <<updated, mode, run, baseline>>
          /\ global' = global \/ global' = Enqueued(global, Later)
          /\ forgets < MaxForgets /\ forgets' = forgets + 1
      BY <1>4 DEF DeleteThreadMemory, Forget
    <2>2. Later \in Nat
      BY BoundTypes DEF Later
    <2>3. global' \in Global
      BY <2>1, <2>2, EnqueuedType DEF TypeOK
    <2>4. op' \in [Threads -> Ops] /\ forgets' \in 0..MaxForgets
      BY <2>1, BoundTypes DEF TypeOK, Ops
    <2>5. TypeOK'
      BY <1>1, <1>3, <2>1, <2>3, <2>4 DEF TypeOK
    <2>6. /\ jobs'[t] = NoJob /\ outputs'[t] = NoOutput
          /\ \A u \in Threads \ {t} : jobs'[u] = jobs[u]
                                      /\ outputs'[u] = outputs[u]
      BY <2>1 DEF TypeOK
    <2>7. JInv'
      BY <2>1, <2>6, ForgetJInv
    <2> QED BY <2>5, <2>7
  <1>5. CASE ClearMemoryData
    <2>1. /\ outputs' = [t \in Threads |-> NoOutput]
          /\ jobs' = [t \in Threads |-> NoJob]
          /\ global' = NoGlobal /\ baseline' = None
          /\ stale' = stale \cup Outstanding(Threads)
          /\ UNCHANGED <<updated, mode, op, run>>
          /\ forgets < MaxForgets /\ forgets' = forgets + 1
      BY <1>5 DEF ClearMemoryData, Forget
    <2>2. forgets' \in 0..MaxForgets
      BY <2>1, BoundTypes DEF TypeOK
    <2>3. TypeOK'
      BY <1>1, <1>2, <1>3, <2>1, <2>2 DEF TypeOK
    <2>4. JInv'
      BY <2>1, ForgetJInv
    <2> QED BY <2>3, <2>4
  <1> QED BY <1>4, <1>5

(* The database starts empty, and no run has begun.                        *)
LEMMA InitInv == Init => TypeOK /\ JInv
  <1> SUFFICES ASSUME Init PROVE TypeOK /\ JInv
    OBVIOUS
  <1>1. /\ NoJob \in Job /\ NoJob.status = "none" /\ NoJob.success = 0
        /\ NoOutput \in Output /\ NoOutput.src = 0
        /\ None \in [Threads -> Times]
    BY BoundTypes DEF NoJob, Job, NoOutput, Output, None, Times
  <1>2. NoGlobal \in Global
    BY BoundRanges DEF NoGlobal, Global
  <1>3. IdleRun \in Run /\ \A t \in Threads : IdleRun.claims[t] = 0
    BY <1>1 DEF IdleRun, Run, Pcs, None
  <1>4. updated \in [Threads -> Times] /\ mode \in [Threads -> Modes]
        /\ op \in [Threads -> Ops] /\ forgets \in 0..MaxForgets
    BY BoundTypes DEF Init, Times, Modes, Ops
  <1>5. TypeOK
    BY <1>1, <1>2, <1>3, <1>4 DEF Init, TypeOK
  <1>6. OutputMatchesJob /\ ClaimIsNews /\ OwnerKnowsInput
    BY <1>1 DEF Init, OutputMatchesJob, ClaimIsNews, OwnerKnowsInput, Owns
  <1>7. ClaimedOnce /\ StaleIsOut
    BY <1>3 DEF Init, ClaimedOnce, StaleIsOut
  <1> QED BY <1>5, <1>6, <1>7 DEF JInv

(* TypeOK and JInv are inductive together.                                 *)
LEMMA NextInv == TypeOK /\ JInv /\ [Next]_vars => TypeOK' /\ JInv'
  <1> SUFFICES ASSUME TypeOK, JInv, [Next]_vars PROVE TypeOK' /\ JInv'
    OBVIOUS
  <1>1. ASSUME NEW r \in Runs, Prune(r) \/ Scan(r) \/ StartJobs(r)
        PROVE  TypeOK' /\ JInv'
    BY <1>1, PruneInv, ScanInv, StartJobsInv
  <1>2. ASSUME NEW r \in Runs, NEW t \in Threads,
               \/ ClaimStage1(r, t) \/ Extracted(r, t) \/ ExtractedNothing(r, t)
               \/ ExtractionFailed(r, t)
        PROVE  TypeOK' /\ JInv'
    BY <1>2, ClaimStage1Inv, ExtractedInv, ExtractedNothingInv,
       ExtractionFailedInv
  <1>3. ASSUME NEW r \in Runs,
               \/ \E t \in Threads : \/ SelectKey(r, t) \/ ReadRow(r, t)
                                     \/ CheckRow(r, t)
               \/ EndKeys(r) \/ Sync(r)
        PROVE  TypeOK' /\ JInv'
    BY <1>3, SelectInv
  <1>10. ASSUME NEW r \in Runs, ClaimGlobal(r) \/ MarkSucceeded(r)
        PROVE  TypeOK' /\ JInv'
    BY <1>10, ClaimGlobalInv, MarkSucceededInv
  <1>4. ASSUME NEW r \in Runs,
               \/ AgentEnds(r) \/ ShutdownTimesOut(r)
               \/ HungAgentEnds(r) \/ ResetBaseline(r) \/ Crash(r)
        PROVE  TypeOK' /\ JInv'
    BY <1>4, AgentStepInv
  <1>5. ASSUME NEW r \in Runs, Heartbeat(r) \/ ConfirmOwnership(r) \/ MarkFailed(r)
        PROVE  TypeOK' /\ JInv'
    BY <1>5, LeaseStepInv
  <1>6. ASSUME NEW t \in Threads,
               \/ SetMemoryMode(t) \/ ReadSelected(t) \/ SetPolluted(t)
               \/ EnqueueForgetting(t) \/ DeleteThread(t)
        PROVE  TypeOK' /\ JInv'
    BY <1>6, ThreadStepInv
  <1>7. CASE (\E t \in Threads : DeleteThreadMemory(t)) \/ ClearMemoryData
    BY <1>7, ForgetInv
  <1>8. CASE Tick
    BY <1>8, TickInv
  <1>9. CASE UNCHANGED vars
    <2>1. TypeOK'
      BY <1>9 DEF vars, TypeOK
    <2>2. JInv'
      BY <1>9, KeepJInv DEF vars
    <2> QED BY <2>1, <2>2
  <1> QED BY <1>1, <1>2, <1>3, <1>4, <1>5, <1>6, <1>7, <1>8, <1>9, <1>10
          DEF Next

(* TypeOK and JInv hold throughout.                                        *)
LEMMA SpecInv == Spec => [](TypeOK /\ JInv)
  BY InitInv, NextInv, PTL DEF Spec

-----------------------------------------------------------------------------
(***************************************************************************)
(* Every row and every run keeps its shape; in particular the retry count  *)
(* of a job never falls below zero, which rests on try_claim_stage1_job    *)
(* refusing a job without retries.                                         *)
(***************************************************************************)
THEOREM SpecTypeOK == Spec => []TypeOK
  BY SpecInv, PTL

(***************************************************************************)
(* A thread's memory is that of its last successful job, whatever leases   *)
(* run out under whichever workers (ownership_token).                      *)
(***************************************************************************)
THEOREM SpecOutputMatchesJob == Spec => []OutputMatchesJob
  <1>1. JInv => OutputMatchesJob
    BY DEF JInv
  <1> QED BY <1>1, SpecInv, PTL

(***************************************************************************)
(* No run brings back a memory of what was deleted after it claimed it     *)
(* (delete_thread_memory and clear_memory_data delete the job rows).       *)
(***************************************************************************)
THEOREM SpecDeletedStaysDeleted == Spec => []DeletedStaysDeleted
  <1>1. TypeOK /\ JInv => DeletedStaysDeleted
    <2> SUFFICES ASSUME TypeOK, JInv, NEW t \in Threads,
                        <<outputs[t].by, t>> \in stale
                 PROVE  FALSE
      BY DEF DeletedStaysDeleted
    <2>1. outputs[t].by \in Runs
      BY DEF TypeOK
    <2> QED BY <2>1 DEF JInv, StaleIsOut
  <1> QED BY <1>1, SpecInv, PTL

-----------------------------------------------------------------------------
(* No step but a claim makes a job running or lengthens its lease.         *)
LEMMA OnlyClaimsLease ==
  ASSUME TypeOK, Next,
         ~\E r \in Runs, t \in Threads : ClaimStage1(r, t)
  PROVE  Leased' \subseteq Leased
  <1>1. ASSUME NEW r \in Runs, NEW t \in Threads,
               Extracted(r, t) \/ ExtractedNothing(r, t) \/ ExtractionFailed(r, t)
        PROVE  Leased' \subseteq Leased
    <2> DEFINE done == [jobs[t] EXCEPT !.status = "done", !.lease = 0,
                                       !.success = jobs[t].input]
               error == [jobs[t] EXCEPT !.status = "error", !.lease = 0,
                                        !.wait = Backoff, !.left = @ - 1]
    <2>1. \/ jobs' = jobs
          \/ jobs' = [jobs EXCEPT ![t] = done]
          \/ jobs' = [jobs EXCEPT ![t] = error]
      BY <1>1, Zenon DEF Extracted, ExtractedNothing, ExtractionFailed, Succeeded
    <2>2. done.status = "done" /\ error.status = "error"
      BY DEF TypeOK, Job
    <2> HIDE DEF done, error
    <2> QED BY <2>1, <2>2 DEF Leased, TypeOK
  <1>2. CASE (\E t \in Threads : DeleteThreadMemory(t)) \/ ClearMemoryData
    <2>1. NoJob.status # "running"
      BY DEF NoJob
    <2>2. \A t \in Threads : jobs'[t] = jobs[t] \/ jobs'[t] = NoJob
      BY <1>2 DEF DeleteThreadMemory, ClearMemoryData, TypeOK
    <2> QED BY <2>1, <2>2 DEF Leased
  <1>3. CASE Tick
    <2>0. \A t \in Threads : jobs[t] \in Job /\ jobs[t].lease \in Nat
      BY BoundTypes DEF TypeOK, Job
    <2>1. \A t \in Threads : jobs'[t] = [jobs[t] EXCEPT
                                           !.lease = Less(jobs[t].lease),
                                           !.wait = Less(jobs[t].wait)]
      BY <1>3 DEF Tick
    <2>2. \A t \in Threads : /\ jobs'[t].status = jobs[t].status
                             /\ jobs'[t].lease = Less(jobs[t].lease)
      BY <2>0, <2>1 DEF Job
    <2>3. \A n \in Nat : Less(n) > 0 => n > 0
      BY DEF Less
    <2> QED BY <2>0, <2>2, <2>3 DEF Leased
  <1>4. CASE UNCHANGED jobs
    BY <1>4 DEF Leased
  <1>5. ASSUME NEW r \in Runs,
               \/ Prune(r) \/ Scan(r) \/ StartJobs(r) \/ ClaimGlobal(r)
               \/ (\E t \in Threads : \/ SelectKey(r, t) \/ ReadRow(r, t)
                                      \/ CheckRow(r, t))
               \/ EndKeys(r) \/ Sync(r) \/ Heartbeat(r)
               \/ AgentEnds(r) \/ ShutdownTimesOut(r) \/ HungAgentEnds(r)
               \/ ConfirmOwnership(r) \/ ResetBaseline(r) \/ MarkSucceeded(r)
               \/ MarkFailed(r) \/ Crash(r)
        PROVE  UNCHANGED jobs
    BY <1>5 DEF Prune, Scan, StartJobs, ClaimGlobal, SelectKey, EndKeys, ReadRow,
       CheckRow, Sync, Heartbeat, AgentEnds, ShutdownTimesOut, HungAgentEnds,
       ConfirmOwnership, ResetBaseline, MarkSucceeded, MarkFailed, Crash, notRun
  <1>6. ASSUME NEW t \in Threads,
               \/ SetMemoryMode(t) \/ ReadSelected(t) \/ SetPolluted(t)
               \/ EnqueueForgetting(t) \/ DeleteThread(t)
        PROVE  UNCHANGED jobs
    BY <1>6 DEF SetMemoryMode, ReadSelected, SetPolluted, EnqueueForgetting,
       DeleteThread
  <1> QED BY <1>1, <1>2, <1>3, <1>4, <1>5, <1>6 DEF Next

(***************************************************************************)
(* No more than max_running_jobs extractions hold a lease, however many    *)
(* runs claim at once: the count is part of the claiming statement.        *)
(***************************************************************************)
THEOREM SpecRunningWithinCap == Spec => []RunningWithinCap
  <1>1. Init => RunningWithinCap
    <2> SUFFICES ASSUME Init PROVE RunningWithinCap
      OBVIOUS
    <2>1. Leased = {}
      BY DEF Init, Leased, NoJob
    <2> QED BY <2>1, FS_EmptySet, BoundTypes DEF RunningWithinCap
  <1>2. IsFiniteSet(Leased) /\ IsFiniteSet(Leased')
    BY ThreadsAssumption, FS_Subset DEF Leased
  <1>3. TypeOK /\ RunningWithinCap /\ [Next]_vars => RunningWithinCap'
    <2> SUFFICES ASSUME TypeOK, RunningWithinCap, [Next]_vars
                 PROVE  RunningWithinCap'
      OBVIOUS
    <2>1. CASE Leased' \subseteq Leased
      <3>1. Cardinality(Leased') <= Cardinality(Leased)
        BY <1>2, <2>1, FS_Subset
      <3>2. Cardinality(Leased) \in Nat /\ Cardinality(Leased') \in Nat
        BY <1>2, FS_CardinalityType
      <3> QED BY <3>1, <3>2, BoundTypes DEF RunningWithinCap
    <2>2. ASSUME NEW r \in Runs, NEW t \in Threads, ClaimStage1(r, t),
                 UNCHANGED jobs
          PROVE  Leased' \subseteq Leased
      BY <2>2 DEF Leased
    <2>3. ASSUME NEW r \in Runs, NEW t \in Threads, ClaimStage1(r, t),
                 ~UNCHANGED jobs
          PROVE  RunningWithinCap'
      <3>1. Claimable(t, run[r].scan[t])
        BY <2>3, Zenon DEF ClaimStage1
      <3>2. \E row : jobs' = [jobs EXCEPT ![t] = row]
        BY <2>3, Zenon DEF ClaimStage1
      <3>3. \A u \in Threads \ {t} : jobs'[u] = jobs[u]
        BY <3>2 DEF TypeOK
      <3>4. Leased' \subseteq Leased \cup {t}
        BY <3>3 DEF Leased
      <3>5. t \notin Leased /\ Cardinality(Leased) < MaxRunning
        BY <3>1 DEF Claimable
      <3>6. /\ IsFiniteSet(Leased \cup {t})
            /\ Cardinality(Leased \cup {t}) = Cardinality(Leased) + 1
        BY <1>2, <3>5, FS_AddElement
      <3>7. Cardinality(Leased') <= Cardinality(Leased) + 1
        BY <3>4, <3>6, FS_Subset
      <3>8. Cardinality(Leased) \in Nat /\ Cardinality(Leased') \in Nat
        BY <1>2, FS_CardinalityType
      <3> QED BY <3>5, <3>7, <3>8, BoundTypes DEF RunningWithinCap
    <2>4. CASE UNCHANGED vars
      <3>1. Leased' \subseteq Leased
        BY <2>4 DEF vars, Leased
      <3> QED BY <2>1, <3>1
    <2> QED BY <2>1, <2>2, <2>3, <2>4, OnlyClaimsLease
  <1> QED BY <1>1, <1>3, SpecTypeOK, PTL DEF Spec

-----------------------------------------------------------------------------
(* Only a success moves a job's success watermark, to its input; only a    *)
(* deletion sets it back.                                                  *)
LEMMA JobsAdvance ==
  ASSUME TypeOK, JInv, Next, NEW t \in Threads,
         ~DeleteThreadMemory(t), ~ClearMemoryData
  PROVE  jobs'[t].success >= jobs[t].success
  <1>1. jobs[t].success \in Nat /\ jobs[t] \in Job
    BY BoundTypes DEF TypeOK, Job, Times
  <1>2. CASE jobs'[t].success = jobs[t].success
    BY <1>1, <1>2
  <1>3. ASSUME NEW r \in Runs, NEW u \in Threads,
               Extracted(r, u) \/ ExtractedNothing(r, u)
        PROVE  jobs'[t].success >= jobs[t].success
    <2> DEFINE done == [jobs[u] EXCEPT !.status = "done", !.lease = 0,
                                       !.success = jobs[u].input]
    <2>1. jobs' = jobs \/ (Owns(r, u) /\ jobs' = [jobs EXCEPT ![u] = done])
      BY <1>3, Zenon DEF Extracted, ExtractedNothing, Succeeded
    <2>2. done.success = jobs[u].input
      BY DEF TypeOK, Job
    <2> HIDE DEF done
    <2>3. CASE jobs' = jobs \/ u # t
      BY <1>2, <2>1, <2>3 DEF TypeOK
    <2>4. CASE Owns(r, u) /\ jobs' = [jobs EXCEPT ![u] = done] /\ u = t
      <3>1. jobs'[t].success = jobs[t].input /\ jobs[t].status = "running"
        BY <2>2, <2>4 DEF TypeOK, Owns
      <3>2. jobs[t].input > jobs[t].success /\ jobs[t].input \in Nat
        BY <3>1, BoundTypes DEF JInv, ClaimIsNews, TypeOK, Job, Times
      <3> QED BY <1>1, <3>1, <3>2
    <2> QED BY <2>1, <2>3, <2>4
  <1>4. ASSUME NEW r \in Runs, NEW u \in Threads, ExtractionFailed(r, u)
        PROVE  jobs'[t].success = jobs[t].success
    <2> DEFINE error == [jobs[u] EXCEPT !.status = "error", !.lease = 0,
                                        !.wait = Backoff, !.left = @ - 1]
    <2>1. jobs' = jobs \/ jobs' = [jobs EXCEPT ![u] = error]
      BY <1>4, Zenon DEF ExtractionFailed
    <2>2. error.success = jobs[u].success
      BY DEF TypeOK, Job
    <2> HIDE DEF error
    <2> QED BY <2>1, <2>2 DEF TypeOK
  <1>5. ASSUME NEW r \in Runs, NEW u \in Threads, ClaimStage1(r, u)
        PROVE  jobs'[t].success = jobs[t].success
    <2> DEFINE claimed ==
                 [jobs[u] EXCEPT !.status = "running", !.token = r,
                    !.lease = Lease, !.wait = 0, !.input = run[r].scan[u],
                    !.left = IF run[r].scan[u] > jobs[u].input THEN Retries
                             ELSE @]
    <2>1. jobs' = jobs \/ jobs' = [jobs EXCEPT ![u] = claimed]
      BY <1>5, Zenon DEF ClaimStage1
    <2>2. claimed.success = jobs[u].success
      BY DEF TypeOK, Job
    <2> HIDE DEF claimed
    <2> QED BY <2>1, <2>2 DEF TypeOK
  <1>6. ASSUME NEW u \in Threads, DeleteThreadMemory(u)
        PROVE  jobs'[t].success = jobs[t].success
    <2>1. u # t
      BY <1>6
    <2>2. jobs' = [jobs EXCEPT ![u] = NoJob]
      BY <1>6 DEF DeleteThreadMemory
    <2> QED BY <2>1, <2>2 DEF TypeOK
  <1>7. CASE Tick
    BY <1>1, <1>2, <1>7 DEF Tick, Job
  <1>8. ASSUME NEW r \in Runs,
               \/ Prune(r) \/ Scan(r) \/ StartJobs(r) \/ ClaimGlobal(r)
               \/ (\E u \in Threads : \/ SelectKey(r, u) \/ ReadRow(r, u)
                                      \/ CheckRow(r, u))
               \/ EndKeys(r) \/ Sync(r) \/ Heartbeat(r)
               \/ AgentEnds(r) \/ ShutdownTimesOut(r) \/ HungAgentEnds(r)
               \/ ConfirmOwnership(r) \/ ResetBaseline(r) \/ MarkSucceeded(r)
               \/ MarkFailed(r) \/ Crash(r)
        PROVE  jobs' = jobs
    BY <1>8 DEF Prune, Scan, StartJobs, ClaimGlobal, SelectKey, EndKeys, ReadRow,
       CheckRow, Sync, Heartbeat, AgentEnds, ShutdownTimesOut, HungAgentEnds,
       ConfirmOwnership, ResetBaseline, MarkSucceeded, MarkFailed, Crash, notRun
  <1>9. ASSUME NEW u \in Threads,
               \/ SetMemoryMode(u) \/ ReadSelected(u) \/ SetPolluted(u)
               \/ EnqueueForgetting(u) \/ DeleteThread(u)
        PROVE  jobs' = jobs
    BY <1>9 DEF SetMemoryMode, ReadSelected, SetPolluted, EnqueueForgetting,
       DeleteThread
  <1> QED BY <1>2, <1>3, <1>4, <1>5, <1>6, <1>7, <1>8, <1>9 DEF Next

(* Every step of the global row: it is deleted, or it exists or stays away *)
(* and its success watermark does not fall.                                *)
LEMMA GlobalAdvances ==
  ASSUME TypeOK, FreshGlobal, [Next]_vars
  PROVE  \/ global' = NoGlobal
         \/ /\ global'.status = "none" => global'.success = 0
            /\ global'.success >= global.success
  <1> DEFINE Moved == /\ global'.status = "none" => global'.success = 0
                      /\ global'.success >= global.success
  <1>1. global \in Global /\ global.success \in Nat
    BY DEF TypeOK, Global
  <1>2. ASSUME global' = global PROVE Moved
    BY <1>1, <1>2 DEF FreshGlobal
  <1>3. ASSUME NEW w \in Nat, global' = Enqueued(global, w) PROVE Moved
    BY <1>1, <1>3, EnqueuedType DEF FreshGlobal
  <1>4. ASSUME NEW r \in Runs, NEW t \in Threads,
               Extracted(r, t) \/ ExtractedNothing(r, t)
        PROVE  Moved
    <2>1. run[r].claims[t] \in Nat /\ jobs[t].input \in Nat
      BY BoundTypes DEF TypeOK, Run, Job, Times
    <2>2. \/ global' = global \/ global' = Enqueued(global, run[r].claims[t])
          \/ global' = Enqueued(global, jobs[t].input)
      BY <1>4, Zenon DEF Extracted, ExtractedNothing
    <2> QED BY <1>2, <1>3, <2>1, <2>2
  <1>5. ASSUME NEW t \in Threads, EnqueueForgetting(t) \/ DeleteThreadMemory(t)
        PROVE  Moved
    <2>1. Later \in Nat
      BY BoundTypes DEF Later
    <2>2. global' = global \/ global' = Enqueued(global, Later)
      BY <1>5 DEF EnqueueForgetting, DeleteThreadMemory
    <2> QED BY <1>2, <1>3, <2>1, <2>2
  <1>6. ASSUME NEW r \in Runs,
               ClaimGlobal(r) \/ Heartbeat(r) \/ ConfirmOwnership(r) \/ MarkFailed(r)
        PROVE  Moved
    <2>1. \/ global' = global
          \/ global' = [global EXCEPT !.status = "running", !.token = r,
                           !.lease = Lease, !.wait = 0, !.cool = 0,
                           !.failed = FALSE]
          \/ OwnsGlobal(r) /\ global' = [global EXCEPT !.lease = Lease]
          \/ global' = [global EXCEPT !.status = "error", !.lease = 0,
                           !.cool = Cooldown, !.wait = Backoff, !.failed = TRUE]
      BY <1>6 DEF ClaimGlobal, Heartbeat, ConfirmOwnership, MarkFailed
    <2>2. CASE global' # global
      <3>1. /\ global'.success = global.success
            /\ global'.status \in {"running", "error"}
        BY <1>1, <2>1, <2>2 DEF Global, OwnsGlobal
      <3> QED BY <1>1, <3>1
    <2> QED BY <1>2, <2>2
  <1>7. ASSUME NEW r \in Runs, MarkSucceeded(r) PROVE Moved
    <2> DEFINE m == Max({global.success, run[r].mark})
    <2>1. \/ global' = global
          \/ global' = [global EXCEPT !.status = "done", !.lease = 0,
                           !.cool = Cooldown, !.failed = FALSE, !.success = m]
      BY <1>7 DEF MarkSucceeded
    <2>2. run[r].mark \in Nat
      BY DEF TypeOK, Run
    <2>3. m \in Nat /\ m >= global.success
      BY <1>1, <2>2, MaxOfTwo
    <2> HIDE DEF m
    <2> QED BY <1>1, <1>2, <2>1, <2>3 DEF Global
  <1>8. ASSUME Tick PROVE Moved
    <2> DEFINE l == Less(global.lease) w == Less(global.wait)
               c == Less(global.cool)
    <2>1. global' = [global EXCEPT !.lease = l, !.wait = w, !.cool = c]
      BY <1>8 DEF Tick
    <2> HIDE DEF l, w, c
    <2>2. global'.success = global.success /\ global'.status = global.status
      BY <1>1, <2>1 DEF Global
    <2> QED BY <1>1, <2>2 DEF FreshGlobal
  <1>9. CASE ClearMemoryData
    BY <1>9 DEF ClearMemoryData
  <1>10. ASSUME NEW r \in Runs,
               \/ Prune(r) \/ Scan(r) \/ StartJobs(r)
               \/ (\E t \in Threads : \/ SelectKey(r, t) \/ ReadRow(r, t)
                                      \/ CheckRow(r, t))
               \/ EndKeys(r) \/ Sync(r)
               \/ AgentEnds(r) \/ ShutdownTimesOut(r) \/ HungAgentEnds(r)
               \/ ResetBaseline(r) \/ Crash(r)
        PROVE  global' = global
    BY <1>10 DEF Prune, Scan, StartJobs, SelectKey, EndKeys, ReadRow, CheckRow,
       Sync, AgentEnds, ShutdownTimesOut, HungAgentEnds, ResetBaseline, Crash, notRun
  <1>11. ASSUME NEW t \in Threads,
               \/ SetMemoryMode(t) \/ ReadSelected(t) \/ SetPolluted(t)
               \/ DeleteThread(t)
               \/ \E r \in Runs : ClaimStage1(r, t) \/ ExtractionFailed(r, t)
        PROVE  global' = global
    BY <1>11 DEF SetMemoryMode, ReadSelected, SetPolluted, DeleteThread,
       ClaimStage1, ExtractionFailed
  <1>12. CASE UNCHANGED vars
    BY <1>2, <1>12 DEF vars
  <1> HIDE DEF Moved
  <1>13. global' = NoGlobal \/ Moved
    BY <1>2, <1>4, <1>5, <1>6, <1>7, <1>8, <1>9, <1>10, <1>11, <1>12
       DEF Next, Moved
  <1> QED BY <1>13 DEF Moved

(***************************************************************************)
(* Success watermarks move backwards with a deletion only: a run that      *)
(* claims a thread at an update older than one already extracted is turned *)
(* away (UpToDate), and an older claim is overtaken by its token.          *)
(***************************************************************************)
THEOREM SpecWatermarksAdvance == Spec => WatermarksAdvance
  <1>1. NoGlobal.status = "none" /\ NoGlobal.success = 0
    BY DEF NoGlobal
  <1>2. Init => FreshGlobal
    BY <1>1 DEF Init, FreshGlobal
  <1>3. TypeOK /\ FreshGlobal /\ [Next]_vars => FreshGlobal'
    BY <1>1, GlobalAdvances DEF FreshGlobal
  <1>4. Spec => []FreshGlobal
    BY <1>2, <1>3, SpecTypeOK, PTL DEF Spec
  <1>5. TypeOK /\ JInv /\ FreshGlobal /\ [Next]_vars =>
          [/\ \A t \in Threads : jobs'[t].status # "none" =>
                jobs'[t].success >= jobs[t].success
           /\ global'.status # "none" => global'.success >= global.success]_vars
    <2> SUFFICES ASSUME TypeOK, JInv, FreshGlobal, Next
                 PROVE  /\ \A t \in Threads : jobs'[t].status # "none" =>
                             jobs'[t].success >= jobs[t].success
                        /\ global'.status # "none" =>
                             global'.success >= global.success
      OBVIOUS
    <2>1. ASSUME NEW t \in Threads, DeleteThreadMemory(t) \/ ClearMemoryData
          PROVE  jobs'[t].status = "none"
      BY <2>1 DEF DeleteThreadMemory, ClearMemoryData, TypeOK, NoJob
    <2>2. ASSUME NEW t \in Threads, jobs'[t].status # "none"
          PROVE  jobs'[t].success >= jobs[t].success
      BY <2>1, <2>2, JobsAdvance
    <2>3. global'.status # "none" => global'.success >= global.success
      BY <1>1, GlobalAdvances
    <2> QED BY <2>2, <2>3
  <1> QED BY <1>4, <1>5, SpecInv, PTL DEF Spec, WatermarksAdvance

-----------------------------------------------------------------------------
(***************************************************************************)
(* The marks of stage 2 are exact.  A memory is recognised by the time of  *)
(* its snapshot; that no later memory has the time of an earlier one rests *)
(* on the job's success watermark, which is at or past the time of every   *)
(* memory selected or consumed, until the thread is deleted, while a new   *)
(* memory is past it.                                                      *)
(***************************************************************************)
Live(t) == op[t] # "delete" /\ mode[t] # "deleted"

(* No operation is under way on a thread that is gone: it stays away.      *)
DeletedIsFinal == \A t \in Threads : mode[t] = "deleted" => op[t] = "none"

(* What stage 2 consumed is not newer than the last success.               *)
BaselineIsOld ==
    \A t \in Threads : Live(t) => baseline[t] <= jobs[t].success

(* Neither is what the owner of the global job has selected so far.        *)
SelectionIsOld ==
    \A r \in Runs, t \in Threads :
        OwnsGlobal(r) /\ Live(t) => /\ run[r].keys[t] <= jobs[t].success
                                   /\ run[r].picks[t] <= jobs[t].success

(* A run has selected nothing before it claims the global job.             *)
Before == {"idle", "scan", "claim", "work"}
SelectsAfterClaim ==
    \A r \in Runs : run[r].pc \in Before =>
        \A t \in Threads : run[r].keys[t] = 0 /\ run[r].picks[t] = 0

SelInv == /\ DeletedIsFinal /\ BaselineIsOld /\ SelectionIsOld
          /\ SelectsAfterClaim /\ SelectionIsExact

(* A thread that is deleted, or being deleted, does not come back.         *)
LEMMA LiveStep ==
  ASSUME TypeOK, DeletedIsFinal, Next
  PROVE  DeletedIsFinal' /\ \A t \in Threads : Live(t)' => Live(t)
  <1>1. ASSUME UNCHANGED <<mode, op>>
        PROVE  DeletedIsFinal' /\ \A t \in Threads : Live(t)' => Live(t)
    BY <1>1 DEF DeletedIsFinal, Live
  <1>2. ASSUME NEW t \in Threads, SetMemoryMode(t)
        PROVE  DeletedIsFinal' /\ \A u \in Threads : Live(u)' => Live(u)
    BY <1>2 DEF SetMemoryMode, DeletedIsFinal, Live, TypeOK
  <1>3. ASSUME NEW t \in Threads,
               ReadSelected(t) \/ SetPolluted(t) \/ EnqueueForgetting(t)
        PROVE  DeletedIsFinal' /\ \A u \in Threads : Live(u)' => Live(u)
    BY <1>3 DEF ReadSelected, SetPolluted, EnqueueForgetting, DeletedIsFinal,
       Live, TypeOK
  <1>4. ASSUME NEW t \in Threads, DeleteThreadMemory(t) \/ DeleteThread(t)
        PROVE  DeletedIsFinal' /\ \A u \in Threads : Live(u)' => Live(u)
    BY <1>4 DEF DeleteThreadMemory, DeleteThread, DeletedIsFinal, Live, TypeOK
  <1>5. ASSUME NEW r \in Runs,
               \/ Prune(r) \/ Scan(r) \/ StartJobs(r) \/ ClaimGlobal(r)
               \/ EndKeys(r) \/ Sync(r) \/ Heartbeat(r)
               \/ AgentEnds(r) \/ ShutdownTimesOut(r) \/ HungAgentEnds(r)
               \/ ConfirmOwnership(r) \/ ResetBaseline(r) \/ MarkSucceeded(r)
               \/ MarkFailed(r) \/ Crash(r)
        PROVE  UNCHANGED <<mode, op>>
    BY <1>5 DEF Prune, Scan, StartJobs, ClaimGlobal, EndKeys, Sync, Heartbeat,
       AgentEnds, ShutdownTimesOut, HungAgentEnds, ConfirmOwnership,
       ResetBaseline, MarkSucceeded, MarkFailed, Crash, notRun
  <1>6. ASSUME NEW r \in Runs, NEW t \in Threads,
               \/ ClaimStage1(r, t) \/ Extracted(r, t) \/ ExtractedNothing(r, t)
               \/ ExtractionFailed(r, t) \/ SelectKey(r, t) \/ ReadRow(r, t)
               \/ CheckRow(r, t)
        PROVE  UNCHANGED <<mode, op>>
    BY <1>6 DEF ClaimStage1, Extracted, ExtractedNothing, ExtractionFailed,
       SelectKey, ReadRow, CheckRow, notRun
  <1>7. CASE Tick \/ ClearMemoryData
    BY <1>1, <1>7 DEF Tick, ClearMemoryData
  <1> QED BY <1>1, <1>2, <1>3, <1>4, <1>5, <1>6, <1>7 DEF Next

(* Steps of the outputs and of the baseline: a memory is deleted, or is    *)
(* replaced by one past the last success and keeps its mark; only the      *)
(* owner of the global job marks.                                          *)
LEMMA OutputStep ==
  ASSUME TypeOK, JInv, Next, NEW t \in Threads,
         \A r \in Runs : MarkSucceeded(r) => ~OwnsGlobal(r), ~ClearMemoryData
  PROVE  /\ baseline' = baseline
         /\ \/ outputs'[t] = outputs[t]
            \/ outputs'[t].src = 0 /\ outputs'[t].sel = 0
            \/ /\ outputs'[t].sel = outputs[t].sel
               /\ outputs'[t].src > jobs[t].success
  <1> DEFINE Stored == \/ outputs'[t] = outputs[t]
                       \/ outputs'[t].src = 0 /\ outputs'[t].sel = 0
                       \/ /\ outputs'[t].sel = outputs[t].sel
                          /\ outputs'[t].src > jobs[t].success
  <1>0. NoOutput.src = 0 /\ NoOutput.sel = 0
    BY DEF NoOutput
  <1>1. ASSUME NEW r \in Runs, NEW u \in Threads, Extracted(r, u)
        PROVE  baseline' = baseline /\ Stored
    <2> DEFINE w == run[r].claims[u]
               out == [outputs[u] EXCEPT !.src = w, !.by = r]
    <2>1. /\ baseline' = baseline /\ w > 0
          /\ \/ outputs' = outputs
             \/ Owns(r, u) /\ outputs' = [outputs EXCEPT ![u] = out]
      BY <1>1 DEF Extracted
    <2>2. CASE outputs' = outputs \/ u # t
      BY <2>1, <2>2 DEF TypeOK
    <2>3. CASE u = t /\ Owns(r, u) /\ outputs' = [outputs EXCEPT ![u] = out]
      <3>1. w > jobs[t].success
        BY <2>1, <2>3 DEF JInv, OwnerKnowsInput, ClaimIsNews, Owns
      <3>2. out.src = w /\ out.sel = outputs[u].sel
        BY DEF TypeOK, Output
      <3> HIDE DEF w, out
      <3>3. outputs'[t] = out
        BY <2>3 DEF TypeOK
      <3> QED BY <2>1, <2>3, <3>1, <3>2, <3>3
    <2> QED BY <2>1, <2>2, <2>3
  <1>2. ASSUME NEW r \in Runs, NEW u \in Threads, ExtractedNothing(r, u)
        PROVE  baseline' = baseline /\ Stored
    <2>1. /\ baseline' = baseline
          /\ outputs' = outputs \/ outputs' = [outputs EXCEPT ![u] = NoOutput]
      BY <1>2 DEF ExtractedNothing
    <2> QED BY <1>0, <2>1 DEF TypeOK
  <1>3. ASSUME NEW u \in Threads, DeleteThreadMemory(u)
        PROVE  baseline' = baseline /\ Stored
    <2>1. baseline' = baseline /\ outputs' = [outputs EXCEPT ![u] = NoOutput]
      BY <1>3 DEF DeleteThreadMemory
    <2> QED BY <1>0, <2>1 DEF TypeOK
  <1>4. ASSUME NEW r \in Runs, Prune(r)
        PROVE  baseline' = baseline /\ Stored
    <2>1. outputs'[t] = outputs[t] \/ outputs'[t] = NoOutput
      BY <1>4 DEF Prune
    <2> QED BY <1>0, <1>4, <2>1 DEF Prune
  <1>5. ASSUME NEW r \in Runs, MarkSucceeded(r)
        PROVE  UNCHANGED <<outputs, baseline>>
    BY <1>5 DEF MarkSucceeded
  <1>6. ASSUME NEW r \in Runs,
               \/ Scan(r) \/ StartJobs(r) \/ ClaimGlobal(r)
               \/ EndKeys(r) \/ Sync(r) \/ Heartbeat(r)
               \/ AgentEnds(r) \/ ShutdownTimesOut(r) \/ HungAgentEnds(r)
               \/ ConfirmOwnership(r) \/ ResetBaseline(r)
               \/ MarkFailed(r) \/ Crash(r)
        PROVE  UNCHANGED <<outputs, baseline>>
    BY <1>6 DEF Scan, StartJobs, ClaimGlobal, EndKeys, Sync, Heartbeat,
       AgentEnds, ShutdownTimesOut, HungAgentEnds, ConfirmOwnership,
       ResetBaseline, MarkFailed, Crash, notRun
  <1>7. ASSUME NEW r \in Runs, NEW u \in Threads,
               \/ ClaimStage1(r, u) \/ ExtractionFailed(r, u)
               \/ SelectKey(r, u) \/ ReadRow(r, u) \/ CheckRow(r, u)
        PROVE  UNCHANGED <<outputs, baseline>>
    BY <1>7 DEF ClaimStage1, ExtractionFailed, SelectKey, ReadRow, CheckRow,
       notRun
  <1>8. ASSUME NEW u \in Threads,
               \/ SetMemoryMode(u) \/ ReadSelected(u) \/ SetPolluted(u)
               \/ EnqueueForgetting(u) \/ DeleteThread(u)
        PROVE  UNCHANGED <<outputs, baseline>>
    BY <1>8 DEF SetMemoryMode, ReadSelected, SetPolluted, EnqueueForgetting,
       DeleteThread
  <1>9. ASSUME Tick PROVE UNCHANGED <<outputs, baseline>>
    BY <1>9 DEF Tick
  <1>10. ASSUME UNCHANGED <<outputs, baseline>>
         PROVE  baseline' = baseline /\ Stored
    BY <1>10
  <1> HIDE DEF Stored
  <1>11. baseline' = baseline /\ Stored
    BY <1>1, <1>2, <1>3, <1>4, <1>5, <1>6, <1>7, <1>8, <1>9, <1>10 DEF Next
  <1> QED BY <1>11 DEF Stored

(* The global job passes to a run by its claim only.                       *)
LEMMA OwnerStep ==
  ASSUME TypeOK, Next, NEW r \in Runs, OwnsGlobal(r)'
  PROVE  \/ OwnsGlobal(r)
         \/ /\ run[r].pc = "work"
            /\ run'[r].keys = run[r].keys /\ run'[r].picks = run[r].picks
  <1>0. global \in Global
    BY DEF TypeOK
  <1>1. ASSUME NEW w, global' = global \/ global' = Enqueued(global, w)
        PROVE  OwnsGlobal(r)
    BY <1>0, <1>1 DEF OwnsGlobal, Enqueued, NoGlobal, Global
  <1>2. ASSUME NEW x \in Runs, NEW t \in Threads,
               \/ Extracted(x, t) \/ ExtractedNothing(x, t)
               \/ ClaimStage1(x, t) \/ ExtractionFailed(x, t)
               \/ SelectKey(x, t) \/ ReadRow(x, t) \/ CheckRow(x, t)
        PROVE  \E w : global' = global \/ global' = Enqueued(global, w)
    BY <1>2 DEF Extracted, ExtractedNothing, ClaimStage1, ExtractionFailed,
       SelectKey, ReadRow, CheckRow, notRun
  <1>3. ASSUME NEW t \in Threads,
               \/ SetMemoryMode(t) \/ ReadSelected(t) \/ SetPolluted(t)
               \/ EnqueueForgetting(t) \/ DeleteThread(t)
               \/ DeleteThreadMemory(t)
        PROVE  \E w : global' = global \/ global' = Enqueued(global, w)
    BY <1>3 DEF SetMemoryMode, ReadSelected, SetPolluted, EnqueueForgetting,
       DeleteThread, DeleteThreadMemory
  <1>4. ASSUME NEW x \in Runs,
               \/ Prune(x) \/ Scan(x) \/ StartJobs(x) \/ EndKeys(x) \/ Sync(x)
               \/ AgentEnds(x) \/ ShutdownTimesOut(x) \/ HungAgentEnds(x)
               \/ ResetBaseline(x) \/ Crash(x)
        PROVE  global' = global
    BY <1>4 DEF Prune, Scan, StartJobs, EndKeys, Sync, AgentEnds,
       ShutdownTimesOut, HungAgentEnds, ResetBaseline, Crash, notRun
  <1>5. ASSUME NEW x \in Runs,
               \/ Heartbeat(x) \/ ConfirmOwnership(x) \/ MarkFailed(x)
               \/ MarkSucceeded(x)
        PROVE  OwnsGlobal(r)
    <2>1. \/ global' = global
          \/ global' = [global EXCEPT !.lease = Lease]
          \/ global' = [global EXCEPT !.status = "error", !.lease = 0,
                          !.cool = Cooldown, !.wait = Backoff, !.failed = TRUE]
          \/ \E m : global' = [global EXCEPT !.status = "done", !.lease = 0,
                                  !.cool = Cooldown, !.failed = FALSE,
                                  !.success = m]
      BY <1>5 DEF Heartbeat, ConfirmOwnership, MarkFailed, MarkSucceeded
    <2> QED BY <1>0, <2>1 DEF OwnsGlobal, Global
  <1>6. ASSUME NEW x \in Runs, ClaimGlobal(x), ~OwnsGlobal(r)
        PROVE  /\ run[r].pc = "work"
               /\ run'[r].keys = run[r].keys /\ run'[r].picks = run[r].picks
    <2>1. \/ global' = global
          \/ /\ global' = [global EXCEPT !.status = "running", !.token = x,
                              !.lease = Lease, !.wait = 0, !.cool = 0,
                              !.failed = FALSE]
             /\ run' = [run EXCEPT ![x].pc = "keys", ![x].mark = global.input]
      BY <1>6 DEF ClaimGlobal
    <2>2. run[x].pc = "work"
      BY <1>6 DEF ClaimGlobal, At
    <2>3. global'.token = x
      BY <1>0, <1>1, <1>6, <2>1 DEF Global
    <2>4. x = r /\ global' # global
      BY <1>1, <1>6, <2>3 DEF OwnsGlobal
    <2> QED BY <2>1, <2>2, <2>4 DEF TypeOK, Run
  <1>7. CASE Tick
    <2> DEFINE l == Less(global.lease)
               w == Less(global.wait)
               c == Less(global.cool)
    <2>1. global' = [global EXCEPT !.lease = l, !.wait = w, !.cool = c]
      BY <1>7 DEF Tick
    <2> HIDE DEF l, w, c
    <2> QED BY <1>0, <2>1 DEF OwnsGlobal, Global
  <1>8. CASE ClearMemoryData
    BY <1>8 DEF ClearMemoryData, OwnsGlobal, NoGlobal
  <1> QED BY <1>1, <1>2, <1>3, <1>4, <1>5, <1>6, <1>7, <1>8 DEF Next

(* A run selects what is stored, after its claim.                          *)
LEMMA SelectionStep ==
  ASSUME TypeOK, Next, NEW x \in Runs
  PROVE  /\ run'[x].pc \in Before => /\ run[x].pc \in Before
                                     /\ run'[x].keys = run[x].keys
                                     /\ run'[x].picks = run[x].picks
         /\ \A u \in Threads :
              /\ run'[x].keys[u] \in {0, run[x].keys[u], outputs[u].src}
              /\ run'[x].picks[u] \in {0, run[x].picks[u], run[x].keys[u]}
  <1> DEFINE Selects ==
               /\ run'[x].pc \in Before => /\ run[x].pc \in Before
                                           /\ run'[x].keys = run[x].keys
                                           /\ run'[x].picks = run[x].picks
               /\ \A u \in Threads :
                    /\ run'[x].keys[u] \in {0, run[x].keys[u], outputs[u].src}
                    /\ run'[x].picks[u] \in {0, run[x].picks[u], run[x].keys[u]}
  <1>0. run \in [Runs -> Run]
    BY DEF TypeOK
  <1>1. ASSUME run' = run PROVE Selects
    BY <1>1
  <1>2. ASSUME NEW r \in Runs, NEW l \in Pcs \ Before, Leave(r, l)
        PROVE  Selects
    <2> DEFINE me == [IdleRun EXCEPT !.pc = l]
    <2>1. run' = [run EXCEPT ![r] = me]
      BY <1>2 DEF Leave
    <2>2. me.pc = l /\ \A u \in Threads : me.keys[u] = 0 /\ me.picks[u] = 0
      BY DEF IdleRun, None
    <2> HIDE DEF me
    <2> QED BY <1>0, <2>1, <2>2
  <1>3. ASSUME NEW r \in Runs, NEW l \in Pcs,
               l \in Before => run[r].pc \in Before, Goto(r, l)
        PROVE  Selects
    BY <1>0, <1>3 DEF Goto, Run
  <1>4. ASSUME NEW r \in Runs, NEW t \in Threads,
               ClaimStage1(r, t)
        PROVE  Selects
    <2> DEFINE w == run[r].scan[t]
    <2>1. \/ run' = [run EXCEPT ![r].scan[t] = 0]
          \/ run' = [run EXCEPT ![r].scan[t] = 0, ![r].claims[t] = w]
      BY <1>4 DEF ClaimStage1
    <2> HIDE DEF w
    <2>2. CASE run' = [run EXCEPT ![r].scan[t] = 0]
      BY <1>0, <2>2 DEF Run
    <2>3. CASE run' = [run EXCEPT ![r].scan[t] = 0, ![r].claims[t] = w]
      BY <1>0, <2>3 DEF Run
    <2> QED BY <2>1, <2>2, <2>3
  <1>5. ASSUME NEW r \in Runs, NEW t \in Threads,
               Extracted(r, t) \/ ExtractedNothing(r, t) \/ ExtractionFailed(r, t)
        PROVE  Selects
    <2>1. run' = [run EXCEPT ![r].claims[t] = 0]
      BY <1>5 DEF Extracted, ExtractedNothing, ExtractionFailed, Finished
    <2> QED BY <1>0, <2>1 DEF Run
  <1>6. ASSUME NEW r \in Runs, Scan(r) \/ StartJobs(r) PROVE Selects
    <2>1. /\ run[r].pc \in Before
          /\ \E l, f : run' = [run EXCEPT ![r].pc = l, ![r].scan = f]
      BY <1>6 DEF Scan, StartJobs, At, Before
    <2> QED BY <1>0, <2>1 DEF Run
  <1>7. ASSUME NEW r \in Runs, NEW t \in Threads, SelectKey(r, t)
        PROVE  Selects
    <2>1. /\ run[r].pc \notin Before
          /\ run' = [run EXCEPT ![r].keys[t] = outputs[t].src]
      BY <1>7 DEF SelectKey, At, Before
    <2> QED BY <1>0, <2>1 DEF Run
  <1>8. ASSUME NEW r \in Runs, NEW t \in Threads, ReadRow(r, t)
        PROVE  Selects
    <2> DEFINE k == run[r].keys[t]
    <2>1. /\ run[r].pc \notin Before
          /\ \/ run' = [run EXCEPT ![r].pc = "check", ![r].picks[t] = k]
             \/ run' = [run EXCEPT ![r].keys[t] = 0]
      BY <1>8 DEF ReadRow, At, Before
    <2>2. "check" \notin Before
      BY DEF Before
    <2>3. CASE run' = [run EXCEPT ![r].pc = "check", ![r].picks[t] = k]
      <3> HIDE DEF k
      <3>1. run'[r].pc = "check" /\ run'[r].keys = run[r].keys
            /\ run'[r].picks = [run[r].picks EXCEPT ![t] = k]
            /\ \A y \in Runs \ {r} : run'[y] = run[y]
        BY <1>0, <2>3 DEF Run
      <3>2. run[r].picks \in [Threads -> Times]
        BY <1>0 DEF Run
      <3> QED BY <2>2, <3>1, <3>2 DEF k
    <2>4. CASE run' = [run EXCEPT ![r].keys[t] = 0]
      BY <1>0, <2>1, <2>4 DEF Run
    <2> QED BY <2>1, <2>3, <2>4
  <1>9. ASSUME NEW r \in Runs, NEW t \in Threads, CheckRow(r, t)
        PROVE  Selects
    <2>1. /\ run[r].pc \notin Before
          /\ \E n \in {0, run[r].picks[t]} :
               run' = [run EXCEPT ![r].pc = "rows", ![r].keys[t] = 0,
                                  ![r].picks[t] = n]
      <3> DEFINE n == IF Enabled(t) THEN run[r].picks[t] ELSE 0
      <3>1. run' = [run EXCEPT ![r].pc = "rows", ![r].keys[t] = 0,
                               ![r].picks[t] = IF Enabled(t) THEN @ ELSE 0]
        BY <1>9 DEF CheckRow
      <3>2. run' = [run EXCEPT ![r].pc = "rows", ![r].keys[t] = 0,
                               ![r].picks[t] = n]
        BY <1>0, <3>1 DEF Run
      <3>3. n \in {0, run[r].picks[t]} /\ run[r].pc \notin Before
        BY <1>9 DEF CheckRow, At, Before
      <3> HIDE DEF n
      <3> QED BY <3>2, <3>3, Zenon
    <2>2. "rows" \notin Before
      BY DEF Before
    <2>3. PICK n \in {0, run[r].picks[t]} :
            run' = [run EXCEPT ![r].pc = "rows", ![r].keys[t] = 0,
                               ![r].picks[t] = n]
      BY <2>1
    <2> QED BY <1>0, <2>2, <2>3 DEF Run
  <1>10. ASSUME NEW r \in Runs, Sync(r)
         PROVE  Selects
    <2>1. \E l \in {"mark", "agent"} : \E m :
            run' = [run EXCEPT ![r].pc = l, ![r].mark = m]
      BY <1>10 DEF Sync
    <2> QED BY <1>0, <2>1 DEF Run, Before
  <1>11. ASSUME NEW r \in Runs, ClaimGlobal(r)
         PROVE  Selects
    <2>1. Leave(r, "end") \/ \E m : run' = [run EXCEPT ![r].pc = "keys",
                                                        ![r].mark = m]
      BY <1>11 DEF ClaimGlobal
    <2>2. CASE Leave(r, "end")
      BY <1>2, <2>2 DEF Pcs, Before
    <2>3. CASE \E m : run' = [run EXCEPT ![r].pc = "keys", ![r].mark = m]
      BY <1>0, <2>3 DEF Run, Before
    <2> QED BY <2>1, <2>2, <2>3
  <1>12. ASSUME NEW r \in Runs,
               \/ Prune(r) \/ EndKeys(r) \/ Heartbeat(r) \/ AgentEnds(r)
               \/ ShutdownTimesOut(r) \/ HungAgentEnds(r) \/ ConfirmOwnership(r)
               \/ ResetBaseline(r) \/ MarkSucceeded(r) \/ MarkFailed(r)
               \/ Crash(r)
         PROVE  Selects
    <2>1. \/ run' = run
          \/ \E l \in {"end", "stopping", "hung"} : Leave(r, l)
          \/ \E l \in {"rows", "completed", "reset", "mark"} : Goto(r, l)
          \/ run[r].pc = "idle" /\ Goto(r, "scan")
      BY <1>12 DEF Prune, EndKeys, Heartbeat, AgentEnds, ShutdownTimesOut,
         HungAgentEnds, ConfirmOwnership, ResetBaseline, MarkSucceeded,
         MarkFailed, Crash, At
    <2>2. /\ {"end", "stopping", "hung"} \subseteq Pcs \ Before
          /\ {"rows", "completed", "reset", "mark"} \subseteq Pcs \ Before
          /\ "scan" \in Pcs /\ "idle" \in Before
      BY DEF Pcs, Before
    <2> HIDE DEF Selects
    <2> QED BY <1>1, <1>2, <1>3, <2>1, <2>2
  <1>13. ASSUME \/ Tick \/ ClearMemoryData
                \/ \E t \in Threads :
                     \/ SetMemoryMode(t) \/ ReadSelected(t) \/ SetPolluted(t)
                     \/ EnqueueForgetting(t) \/ DeleteThread(t)
                     \/ DeleteThreadMemory(t)
         PROVE  run' = run
    BY <1>13 DEF Tick, ClearMemoryData, SetMemoryMode, ReadSelected,
       SetPolluted, EnqueueForgetting, DeleteThread, DeleteThreadMemory
  <1> HIDE DEF Selects
  <1>14. Selects
    BY <1>1, <1>4, <1>5, <1>6, <1>7, <1>8, <1>9, <1>10, <1>11, <1>12, <1>13
       DEF Next
  <1> QED BY <1>14 DEF Selects

(* mark_global_phase2_job_succeeded, by the owner.                         *)
LEMMA MarkSel ==
  ASSUME TypeOK, TypeOK', SelInv, Next, NEW r \in Runs, MarkSucceeded(r),
         OwnsGlobal(r)
  PROVE  SelInv'
  <1>1. DeletedIsFinal' /\ \A t \in Threads : Live(t)' => Live(t)
    BY LiveStep DEF SelInv
  <1>2. /\ baseline' = run[r].picks /\ UNCHANGED jobs
        /\ global' = [global EXCEPT !.status = "done", !.lease = 0,
                        !.cool = Cooldown, !.failed = FALSE,
                        !.success = Max({@, run[r].mark})]
    BY DEF MarkSucceeded
  <1>3. \A t \in Threads : outputs'[t] = Marked(outputs[t], run[r].picks[t])
    BY DEF MarkSucceeded
  <1>4. BaselineIsOld'
    BY <1>1, <1>2 DEF SelInv, SelectionIsOld, BaselineIsOld
  <1>5. global'.status = "done"
    BY <1>2 DEF TypeOK, Global
  <1>6. SelectionIsOld'
    BY <1>5 DEF SelectionIsOld, OwnsGlobal
  <1>7. SelectsAfterClaim'
    BY SelectionStep DEF SelInv, SelectsAfterClaim
  <1>8. \A t \in Threads :
          /\ outputs'[t].src = outputs[t].src
          /\ outputs'[t].sel = IF outputs[t].src = baseline'[t]
                               THEN baseline'[t] ELSE 0
    <2> TAKE t \in Threads
    <2>1. outputs[t] \in Output
      BY DEF TypeOK
    <2> QED BY <1>2, <1>3, <2>1 DEF Marked, Output
  <1>9. SelectionIsExact'
    BY <1>8 DEF SelectionIsExact
  <1> QED BY <1>1, <1>4, <1>6, <1>7, <1>9 DEF SelInv

(* clear_memory_data.                                                      *)
LEMMA ClearSel ==
  ASSUME TypeOK, TypeOK', SelInv, Next, ClearMemoryData
  PROVE  SelInv'
  <1>1. DeletedIsFinal'
    BY LiveStep DEF SelInv
  <1>2. /\ outputs' = [t \in Threads |-> NoOutput] /\ baseline' = None
        /\ jobs' = [t \in Threads |-> NoJob] /\ global' = NoGlobal
    BY DEF ClearMemoryData
  <1>3. /\ NoOutput.sel = 0 /\ NoJob.success = 0 /\ NoGlobal.status = "none"
        /\ \A t \in Threads : None[t] = 0
    BY DEF NoOutput, NoJob, NoGlobal, None
  <1>4. BaselineIsOld'
    BY <1>2, <1>3 DEF BaselineIsOld
  <1>5. SelectionIsOld'
    BY <1>2, <1>3 DEF SelectionIsOld, OwnsGlobal
  <1>6. SelectsAfterClaim'
    BY SelectionStep DEF SelInv, SelectsAfterClaim
  <1>7. SelectionIsExact'
    BY <1>2, <1>3 DEF SelectionIsExact
  <1> QED BY <1>1, <1>4, <1>5, <1>6, <1>7 DEF SelInv

(* Every other step.                                                       *)
LEMMA KeepSel ==
  ASSUME TypeOK, TypeOK', JInv, SelInv, Next, ~ClearMemoryData,
         \A r \in Runs : MarkSucceeded(r) => ~OwnsGlobal(r)
  PROVE  SelInv'
  <1>1. DeletedIsFinal' /\ \A t \in Threads : Live(t)' => Live(t)
    BY LiveStep DEF SelInv
  <1>2. \A t \in Threads : Live(t)' => jobs'[t].success >= jobs[t].success
    <2> SUFFICES ASSUME NEW t \in Threads, Live(t)'
                 PROVE  jobs'[t].success >= jobs[t].success
      OBVIOUS
    <2>1. ~DeleteThreadMemory(t)
      BY DEF DeleteThreadMemory, Live, TypeOK
    <2> QED BY <2>1, JobsAdvance
  <1>3. \A t \in Threads :
          /\ jobs[t].success \in Nat /\ jobs'[t].success \in Nat
          /\ baseline[t] \in Nat /\ outputs[t].src \in Nat
          /\ outputs'[t].src \in Nat
    BY BoundTypes DEF TypeOK, Job, Output, Times
  <1>4. \A r \in Runs, t \in Threads :
          run[r].keys[t] \in Nat /\ run[r].picks[t] \in Nat
    BY BoundTypes DEF TypeOK, Run, Times
  <1>5. /\ baseline' = baseline
        /\ \A t \in Threads :
             \/ outputs'[t] = outputs[t]
             \/ outputs'[t].src = 0 /\ outputs'[t].sel = 0
             \/ /\ outputs'[t].sel = outputs[t].sel
                /\ outputs'[t].src > jobs[t].success
    <2>1. CASE Threads = {}
      BY <2>1 DEF TypeOK
    <2>2. CASE Threads # {}
      BY <2>2, OutputStep
    <2> QED BY <2>1, <2>2
  <1>6. BaselineIsOld'
    BY <1>1, <1>2, <1>3, <1>5 DEF SelInv, BaselineIsOld
  <1>7. SelectionIsOld'
    <2> SUFFICES ASSUME NEW r \in Runs, NEW t \in Threads, OwnsGlobal(r)',
                        Live(t)'
                 PROVE  /\ run'[r].keys[t] <= jobs'[t].success
                        /\ run'[r].picks[t] <= jobs'[t].success
      BY DEF SelectionIsOld
    <2>1. outputs[t].src <= jobs[t].success
      BY <1>3 DEF JInv, OutputMatchesJob
    <2>2. /\ run'[r].keys[t] \in {0, run[r].keys[t], outputs[t].src}
          /\ run'[r].picks[t] \in {0, run[r].picks[t], run[r].keys[t]}
      BY SelectionStep
    <2>3. Live(t) /\ jobs'[t].success >= jobs[t].success
      BY <1>1, <1>2
    <2>4. CASE OwnsGlobal(r)
      <3>1. /\ run[r].keys[t] <= jobs[t].success
            /\ run[r].picks[t] <= jobs[t].success
        BY <2>3, <2>4 DEF SelInv, SelectionIsOld
      <3> QED BY <1>3, <1>4, <2>1, <2>2, <2>3, <3>1
    <2>5. CASE ~OwnsGlobal(r)
      <3>1. /\ run[r].pc = "work" /\ run'[r].keys = run[r].keys
            /\ run'[r].picks = run[r].picks
        BY <2>5, OwnerStep
      <3>2. run'[r].keys[t] = 0 /\ run'[r].picks[t] = 0
        BY <3>1 DEF SelInv, SelectsAfterClaim, Before
      <3> QED BY <1>3, <3>2
    <2> QED BY <2>4, <2>5
  <1>8. SelectsAfterClaim'
    BY SelectionStep DEF SelInv, SelectsAfterClaim
  <1>9. SelectionIsExact'
    <2> SUFFICES ASSUME NEW t \in Threads
                 PROVE  /\ outputs'[t].sel \in {0, baseline[t]}
                        /\ (Live(t)' /\ baseline[t] > 0
                               /\ outputs'[t].src = baseline[t])
                             => outputs'[t].sel = baseline[t]
      BY <1>5 DEF SelectionIsExact, Live
    <2>1. /\ outputs[t].sel \in {0, baseline[t]}
          /\ (Live(t) /\ baseline[t] > 0 /\ outputs[t].src = baseline[t])
               => outputs[t].sel = baseline[t]
      BY DEF SelInv, SelectionIsExact, Live
    <2>2. Live(t)' => Live(t) /\ baseline[t] <= jobs[t].success
      BY <1>1 DEF SelInv, BaselineIsOld
    <2> QED BY <1>3, <1>5, <2>1, <2>2
  <1> QED BY <1>1, <1>6, <1>7, <1>8, <1>9 DEF SelInv

(***************************************************************************)
(* After a consolidation, and until the next, a memory is marked with the  *)
(* snapshot that was consumed or not at all, and it is marked if it still  *)
(* is that snapshot: whatever is extracted, pruned, deleted, turned off    *)
(* and on between the selection, the mark and now, for any choice of the   *)
(* memories to use.                                                        *)
(***************************************************************************)
THEOREM SpecSelectionIsExact == Spec => []SelectionIsExact
  <1>1. Init => SelInv
    <2> SUFFICES ASSUME Init PROVE SelInv
      OBVIOUS
    <2>1. /\ NoOutput.sel = 0 /\ NoJob.success = 0 /\ NoGlobal.status = "none"
          /\ \A t \in Threads : /\ None[t] = 0 /\ IdleRun.keys[t] = 0
                                 /\ IdleRun.picks[t] = 0
      BY DEF NoOutput, NoJob, NoGlobal, None, IdleRun
    <2>2. DeletedIsFinal /\ BaselineIsOld
      BY <2>1 DEF Init, DeletedIsFinal, BaselineIsOld
    <2>3. SelectionIsOld /\ SelectsAfterClaim
      BY <2>1 DEF Init, SelectionIsOld, OwnsGlobal, SelectsAfterClaim
    <2>4. SelectionIsExact
      BY <2>1 DEF Init, SelectionIsExact
    <2> QED BY <2>2, <2>3, <2>4 DEF SelInv
  <1>2. ASSUME TypeOK, TypeOK', JInv, SelInv, [Next]_vars PROVE SelInv'
    <2>1. CASE UNCHANGED vars
      BY <1>2, <2>1 DEF vars, SelInv, DeletedIsFinal, BaselineIsOld, Live,
         SelectionIsOld, OwnsGlobal, SelectsAfterClaim, SelectionIsExact
    <2>2. CASE Next
      BY <1>2, <2>2, MarkSel, ClearSel, KeepSel
    <2> QED BY <1>2, <2>1, <2>2
  <1>3. SelInv => SelectionIsExact
    BY DEF SelInv
  <1> QED BY <1>1, <1>2, <1>3, SpecInv, PTL DEF Spec
=============================================================================
