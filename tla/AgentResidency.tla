--------------------------- MODULE AgentResidency ---------------------------
(***************************************************************************)
(* Residency and execution limits of V2 sub-agents                         *)
(* (core/src/agent/control/residency.rs, execution.rs, and the parts of    *)
(* control.rs, control/spawn.rs and thread_manager.rs that use them).      *)
(*                                                                         *)
(* A caller is a tool call of some agent of the tree: it spawns an agent,  *)
(* or sends a message (queued) or a follow-up (starts a turn) to one,      *)
(* which is reloaded first when it is not resident.  A caller that finds   *)
(* no free slot unloads the least recently used idle resident.  Tool calls *)
(* run side by side and yield at every await, and a call is dropped when   *)
(* its turn is aborted.  A session handles its submissions in order.       *)
(***************************************************************************)
EXTENDS Naturals, Sequences, FiniteSets, SequencesExt

CONSTANTS
    Threads,        \* ids of sub-agent threads
    Stored,         \* those of an earlier run (restore_v2_agent_metadata)
    Callers,
    NoThread,
    Limit,          \* AgentExecutionLimiter::max_threads, of the root's config
    Scopes,         \* what an instance exercises: the capacity, and a bound on
                    \* the tool calls
    MaxCancels      \* bound on dropped calls

ASSUME ThreadsAssumption ==
    NoThread \notin Threads /\ IsFiniteSet(Threads) /\ Stored \subseteq Threads
ASSUME CallersAssumption == IsFiniteSet(Callers) /\ Callers # {}
ASSUME LimitsAssumption ==
    Limit \in Nat /\ MaxCancels \in Nat
ASSUME ScopesAssumption == Scopes \subseteq [capacity : Nat, calls : Nat]

VARIABLES
    residents,  \* V2ResidencyState::residents, least recently used first
    pending,    \* V2ResidencyState::pending_slots
    loaded,     \* ThreadManagerState::threads
    known,      \* threads with metadata in the agent registry
    sess,       \* thread -> "none", "fresh" (PendingInit), "running",
                \*           "idle" (Completed, Errored, Interrupted), "dead"
    gen,        \* thread -> which session of the thread this is
    chan,       \* thread -> submissions not handled yet
    mbox,       \* thread -> most urgent mail waiting in the mailbox
    caller,     \* caller -> where its call stands, and its locals
    leaked,     \* threads a dropped call had taken off the list, or was about
                \* to put on it
    calls, cancels,
    scope       \* the member of Scopes this behaviour belongs to

vars == <<residents, pending, loaded, known, sess, gen, chan, mbox, caller,
          leaked, calls, cancels, scope>>
sessVars == <<sess, gen, chan, mbox>>

(* effective_agent_max_threads, of the config that a tree of agents        *)
(* inherits, and the bound.                                                *)
Capacity == scope.capacity
MaxCalls == scope.calls

Idle == [pc |-> "idle", op |-> "none", tgt |-> NoThread, cand |-> NoThread,
         candGen |-> 0, scan |-> 0]

Init ==
    /\ residents = <<>> /\ pending = 0
    /\ loaded = {} /\ known = Stored
    /\ sess = [t \in Threads |-> "none"]
    /\ gen = [t \in Threads |-> 0]
    /\ chan = [t \in Threads |-> <<>>]
    /\ mbox = [t \in Threads |-> "none"]
    /\ caller = [c \in Callers |-> Idle]
    /\ leaked = {} /\ calls = 0 /\ cancels = 0
    /\ scope \in Scopes

-----------------------------------------------------------------------------
Live(t) == sess[t] \in {"fresh", "running", "idle"}
Running == {t \in Threads : sess[t] = "running"}

At(c, label) == caller[c].pc = label
Goto(c, label) == caller' = [caller EXCEPT ![c].pc = label]
Return(c) == caller' = [caller EXCEPT ![c] = Idle]

Listed == {residents[i] : i \in DOMAIN residents}

(* touch_resident, and V2Residency::remove.  Both retain all other threads *)
(* on the list; one that is listed is listed once (TypeOK).                *)
Without(t) ==
    IF t \in Listed
    THEN RemoveAt(residents, CHOOSE i \in DOMAIN residents : residents[i] = t)
    ELSE residents

(* Mutant of Touched: a thread may be listed twice.                        *)
TouchedAgain(t) == Append(residents, t)

Touched(t) == Append(Without(t), t)

(* is_unloadable.  (Its three reads are no more precise than one: all of   *)
(* them are out of date when the shutdown is submitted.)                   *)
Unloadable(t) == sess[t] = "idle" /\ mbox[t] = "none"

-----------------------------------------------------------------------------
(***************************************************************************)
(* Tool calls.                                                             *)
(***************************************************************************)
(* spawn_agent_internal: the execution limit is tested first, and not      *)
(* again before the initial prompt is sent.                                *)
BeginSpawn(c) ==
    /\ At(c, "idle") /\ calls < MaxCalls
    /\ Cardinality(Running) < Limit
    /\ calls' = calls + 1
    /\ caller' = [caller EXCEPT ![c] =
                    [Idle EXCEPT !.pc = "reserve", !.op = "spawn"]]
    /\ UNCHANGED <<residents, pending, loaded, known, sessVars, leaked,
                   cancels, scope>>

(* The message tools name an agent of the registry.                        *)
BeginMessage(c, op, t) ==
    /\ At(c, "idle") /\ calls < MaxCalls
    /\ t \in known
    /\ calls' = calls + 1
    /\ caller' = [caller EXCEPT ![c] =
                    [Idle EXCEPT !.pc = "resolve", !.op = op, !.tgt = t]]
    /\ UNCHANGED <<residents, pending, loaded, known, sessVars, leaked,
                   cancels, scope>>

(* ensure_v2_agent_loaded up to the reservation.                           *)
Resolve(c) ==
    LET t == caller[c].tgt IN
    /\ At(c, "resolve")
    /\ IF t \in loaded
       THEN residents' = Touched(t) /\ Goto(c, "capacity")
       ELSE /\ UNCHANGED residents
            /\ IF t \in known THEN Goto(c, "reserve") ELSE Return(c)
    /\ UNCHANGED <<pending, loaded, known, sessVars, leaked, calls, cancels,
                   scope>>

(* Mutant of HasRoom: one slot too many.                                   *)
HasRoomOffByOne == Len(residents) + pending <= Capacity

HasRoom == Len(residents) + pending < Capacity

(* reserve_slot: try_reserve_pending_slot, or start to scan as many        *)
(* candidates as there are residents.                                      *)
Reserve(c) ==
    /\ At(c, "reserve")
    /\ IF HasRoom
       THEN /\ pending' = pending + 1
            /\ Goto(c, IF caller[c].op = "spawn" THEN "create" ELSE "lookup")
       ELSE /\ UNCHANGED pending
            /\ caller' = [caller EXCEPT ![c].pc = "scan",
                                        ![c].scan = Len(residents)]
    /\ UNCHANGED <<residents, loaded, known, sessVars, leaked, calls, cancels,
                   scope>>

(* pop_lru_candidate: the thread being reloaded goes to the back; without  *)
(* a candidate, or after the last one, the call fails (AgentLimitReached). *)
PopCandidate(c) ==
    LET free == {i \in DOMAIN residents : residents[i] # caller[c].tgt}
        first == Min(free)
    IN
    /\ At(c, "scan")
    /\ IF caller[c].scan = 0 \/ free = {}
       THEN Return(c) /\ UNCHANGED residents
       ELSE /\ residents' = SubSeq(residents, first + 1, Len(residents))
                            \o SubSeq(residents, 1, first - 1)
            /\ caller' = [caller EXCEPT ![c].pc = "inspect",
                            ![c].cand = residents[first],
                            ![c].candGen = gen[residents[first]]]
    /\ UNCHANGED <<pending, loaded, known, sessVars, leaked, calls, cancels,
                   scope>>

(* Mutant of PutBack: a busy candidate is not returned to the list.        *)
PutBackNot(t) == residents

PutBack(t) == Touched(t)

(* The candidate is gone, busy (it goes back), or about to be shut down.   *)
Inspect(c) ==
    LET t == caller[c].cand
        busy == t \in loaded /\ ~Unloadable(t)
    IN
    /\ At(c, "inspect")
    /\ residents' = IF busy THEN PutBack(t) ELSE residents
    /\ caller' = IF t \in loaded /\ ~busy
                 THEN [caller EXCEPT ![c].pc = "evict", ![c].candGen = gen[t]]
                 ELSE [caller EXCEPT ![c].pc = "scan", ![c].cand = NoThread,
                                     ![c].scan = @ - 1]
    /\ UNCHANGED <<pending, loaded, known, sessVars, leaked, calls, cancels,
                   scope>>

(* The session the caller holds, rather than a later one of the thread.    *)
HoldsLive(c) == LET t == caller[c].cand IN gen[t] = caller[c].candGen /\ Live(t)

(* shutdown_and_wait submits Op::Shutdown and waits for the loop to end.   *)
SubmitShutdown(c) ==
    LET t == caller[c].cand IN
    /\ At(c, "evict")
    /\ chan' = IF HoldsLive(c) THEN [chan EXCEPT ![t] = Append(@, "shutdown")]
               ELSE chan
    /\ Goto(c, "wait")
    /\ UNCHANGED <<residents, pending, loaded, known, sess, gen, mbox, leaked,
                   calls, cancels, scope>>

(* remove_thread goes by id; then the loop of reserve_slot tries again.    *)
Unload(c) ==
    /\ At(c, "wait") /\ ~HoldsLive(c)
    /\ loaded' = loaded \ {caller[c].cand}
    /\ caller' = [caller EXCEPT ![c].pc = "reserve", ![c].cand = NoThread]
    /\ UNCHANGED <<residents, pending, known, sessVars, leaked, calls,
                   cancels, scope>>

(* Mutant of DropSlot: the slot of a failed call is not given back.        *)
DropSlotForgets == UNCHANGED pending

(* Drop for V2ResidencySlot; commit gives the slot up as well.             *)
DropSlot == pending' = pending - 1

(* spawn_thread looks for a thread to resume, under the write lock.  One   *)
(* that runs is returned and its slot committed; one that died is removed. *)
Lookup(c) ==
    LET t == caller[c].tgt IN
    /\ At(c, "lookup")
    /\ IF t \in loaded /\ Live(t)
       THEN DropSlot /\ residents' = Touched(t) /\ Goto(c, "capacity")
       ELSE UNCHANGED <<residents, pending>> /\ Goto(c, "create")
    /\ loaded' = IF Live(t) THEN loaded ELSE loaded \ {t}
    /\ UNCHANGED <<known, sessVars, leaked, calls, cancels, scope>>

(* The session is up, of a new thread or of the one that is reloaded, and  *)
(* finalize_thread_spawn finds no other entry and inserts it.  (A thread   *)
(* that an Unload by id took from the map while its session runs cannot be *)
(* resumed: the store knows a live writer.)                                *)
Create(c, t) ==
    /\ At(c, "create")
    /\ IF caller[c].op = "spawn" THEN gen[t] = 0 /\ t \notin Stored
       ELSE t = caller[c].tgt
    /\ t \notin loaded /\ ~Live(t)
    /\ loaded' = loaded \cup {t}
    /\ sess' = [sess EXCEPT ![t] = "fresh"]
    /\ gen' = [gen EXCEPT ![t] = @ + 1]
    /\ caller' = [caller EXCEPT ![c].pc = "commit", ![c].tgt = t]
    /\ UNCHANGED <<residents, pending, known, chan, mbox, leaked, calls,
                   cancels, scope>>

(* The creation fails, or finalize_thread_spawn meets the entry of another *)
(* caller; the reload then settles for the thread that it finds loaded.    *)
CreateLosesRace(c) ==
    /\ At(c, "create") /\ caller[c].op # "spawn"
    /\ caller[c].tgt \in loaded
    /\ DropSlot
    /\ residents' = Touched(caller[c].tgt)
    /\ Goto(c, "capacity")
    /\ UNCHANGED <<loaded, known, sessVars, leaked, calls, cancels, scope>>

CreateFails(c) ==
    /\ At(c, "create") /\ (caller[c].op # "spawn" => caller[c].tgt \notin loaded)
    /\ DropSlot
    /\ Return(c)
    /\ UNCHANGED <<residents, loaded, known, sessVars, leaked, calls, cancels,
                   scope>>

(* The residency slot is committed, for a new agent also its registry      *)
(* entry; an agent that was reloaded has one, unless it was forgotten.     *)
Commit(c) ==
    LET t == caller[c].tgt IN
    /\ At(c, "commit")
    /\ pending' = pending - 1
    /\ residents' = Touched(t)
    /\ known' = IF caller[c].op = "spawn" THEN known \cup {t} ELSE known
    /\ Goto(c, IF caller[c].op = "spawn" THEN "send" ELSE "capacity")
    /\ UNCHANGED <<loaded, sessVars, leaked, calls, cancels, scope>>

(* ensure_execution_capacity_for_turn_start.                               *)
CheckCapacity(c) ==
    LET t == caller[c].tgt IN
    /\ At(c, "capacity")
    /\ IF t \in loaded /\ (\/ caller[c].op = "message"
                           \/ sess[t] = "running"
                           \/ Cardinality(Running) < Limit)
       THEN Goto(c, "send") ELSE Return(c)
    /\ UNCHANGED <<residents, pending, loaded, known, sessVars, leaked, calls,
                   cancels, scope>>

(* send_op; when the session loop is gone (InternalAgentDied),             *)
(* handle_thread_request_result forgets the agent.                         *)
Send(c) ==
    LET t == caller[c].tgt
        died == t \in loaded /\ ~Live(t)
    IN
    /\ At(c, "send")
    /\ chan' = IF t \in loaded /\ Live(t)
               THEN [chan EXCEPT ![t] = Append(@, IF caller[c].op = "message"
                                                  THEN "queue" ELSE "trigger")]
               ELSE chan
    /\ loaded' = IF died THEN loaded \ {t} ELSE loaded
    /\ known' = IF died THEN known \ {t} ELSE known
    /\ residents' = IF died THEN Without(t) ELSE residents
    /\ Return(c)
    /\ UNCHANGED <<pending, sess, gen, mbox, leaked, calls, cancels, scope>>

HoldsSlot(c) == caller[c].pc \in {"lookup", "create", "commit"}

(* The thread that call c alone can put on the list, back or for the first *)
(* time.                                                                   *)
Carried(c) == ({caller[c].cand} \cup (IF At(c, "commit") THEN {caller[c].tgt}
                                      ELSE {})) \ {NoThread}

(* The turn of the caller is aborted: the call ends at an await.  A reload *)
(* still awaits emit_thread_resume_lifecycle between the insertion of its  *)
(* thread and the commit; a spawn does not.  A slot is given back by its   *)
(* guard; the thread the call carries is not.                              *)
Cancel(c) ==
    /\ \/ caller[c].pc \in {"resolve", "inspect", "evict", "wait", "lookup",
                            "create", "capacity", "send"}
       \/ At(c, "commit") /\ caller[c].op # "spawn"
    /\ cancels < MaxCancels /\ cancels' = cancels + 1
    /\ IF HoldsSlot(c) THEN DropSlot ELSE UNCHANGED pending
    /\ leaked' = leaked \cup Carried(c)
    /\ Return(c)
    /\ UNCHANGED <<residents, loaded, known, sessVars, calls, scope>>

CallerStep(c) ==
    \/ Resolve(c) \/ Reserve(c) \/ PopCandidate(c) \/ Inspect(c)
    \/ SubmitShutdown(c) \/ Unload(c) \/ Lookup(c)
    \/ (\E t \in Threads : Create(c, t)) \/ CreateLosesRace(c)
    \/ CreateFails(c) \/ Commit(c) \/ CheckCapacity(c) \/ Send(c)

-----------------------------------------------------------------------------
(***************************************************************************)
(* The session of a thread, as far as its residents' list sees it          *)
(* (TurnLifecycle has the rest).                                           *)
(***************************************************************************)
(* inter_agent_communication: mail that asks for a turn starts one in an   *)
(* idle session, and start_task takes its execution guard unconditionally. *)
HandleMail(t) ==
    /\ Live(t) /\ chan[t] # <<>> /\ Head(chan[t]) # "shutdown"
    /\ chan' = [chan EXCEPT ![t] = Tail(@)]
    /\ IF Head(chan[t]) = "trigger" /\ sess[t] # "running"
       THEN /\ sess' = [sess EXCEPT ![t] = "running"]
            /\ mbox' = [mbox EXCEPT ![t] = "none"]
       ELSE /\ mbox' = [mbox EXCEPT ![t] = IF @ = "trigger" THEN @
                                           ELSE Head(chan[t])]
            /\ UNCHANGED sess
    /\ UNCHANGED <<residents, pending, loaded, known, gen, caller, leaked,
                   calls, cancels, scope>>

(* Mutant of HandleShutdown: the loop goes on after Op::Shutdown.          *)
HandleShutdownIgnored(t) ==
    /\ Live(t) /\ chan[t] # <<>> /\ Head(chan[t]) = "shutdown"
    /\ chan' = [chan EXCEPT ![t] = Tail(@)]
    /\ UNCHANGED <<residents, pending, loaded, known, sess, gen, mbox, caller,
                   leaked, calls, cancels, scope>>

(* Op::Shutdown: the turn is aborted, the loop ends, what is queued behind *)
(* it or waits in the mailbox goes with it.                                *)
HandleShutdown(t) ==
    /\ Live(t) /\ chan[t] # <<>> /\ Head(chan[t]) = "shutdown"
    /\ sess' = [sess EXCEPT ![t] = "dead"]
    /\ chan' = [chan EXCEPT ![t] = <<>>]
    /\ mbox' = [mbox EXCEPT ![t] = "none"]
    /\ UNCHANGED <<residents, pending, loaded, known, gen, caller, leaked,
                   calls, cancels, scope>>

(* The running turn takes the mail, or the next one does at its end.       *)
TakeMail(t) ==
    /\ sess[t] = "running" /\ mbox[t] # "none"
    /\ mbox' = [mbox EXCEPT ![t] = "none"]
    /\ UNCHANGED <<residents, pending, loaded, known, sess, gen, chan, caller,
                   leaked, calls, cancels, scope>>

TurnEnds(t) ==
    /\ sess[t] = "running" /\ mbox[t] # "trigger"
    /\ sess' = [sess EXCEPT ![t] = "idle"]
    /\ UNCHANGED <<residents, pending, loaded, known, gen, chan, mbox, caller,
                   leaked, calls, cancels, scope>>

-----------------------------------------------------------------------------
Next ==
    \/ \E c \in Callers : BeginSpawn(c)
    \/ \E c \in Callers, op \in {"message", "followup"}, t \in Threads :
         BeginMessage(c, op, t)
    \/ \E c \in Callers : Resolve(c)
    \/ \E c \in Callers : Reserve(c)
    \/ \E c \in Callers : PopCandidate(c)
    \/ \E c \in Callers : Inspect(c)
    \/ \E c \in Callers : SubmitShutdown(c)
    \/ \E c \in Callers : Unload(c)
    \/ \E c \in Callers : Lookup(c)
    \/ \E c \in Callers, t \in Threads : Create(c, t)
    \/ \E c \in Callers : CreateLosesRace(c)
    \/ \E c \in Callers : CreateFails(c)
    \/ \E c \in Callers : Commit(c)
    \/ \E c \in Callers : CheckCapacity(c)
    \/ \E c \in Callers : Send(c)
    \/ \E c \in Callers : Cancel(c)
    \/ \E t \in Threads : HandleMail(t)
    \/ \E t \in Threads : HandleShutdown(t)
    \/ \E t \in Threads : TakeMail(t)
    \/ \E t \in Threads : TurnEnds(t)

Spec == Init /\ [][Next]_vars

(* The runtime polls the calls and the submission loops; nothing says that *)
(* a turn of the model ends.                                               *)
Fairness ==
    /\ \A c \in Callers : WF_vars(CallerStep(c))
    /\ \A t \in Threads : WF_vars(HandleMail(t) \/ HandleShutdown(t))

FairSpec == Spec /\ Fairness

-----------------------------------------------------------------------------
Pcs == {"idle", "resolve", "reserve", "scan", "inspect", "evict", "wait",
        "lookup", "create", "commit", "capacity", "send"}

(* The types of the residency list, the loaded threads and the calls; a    *)
(* thread is on the list at most once (touch_resident).                    *)
TypeOK ==
    /\ residents \in Seq(Threads)
    /\ \A i, j \in DOMAIN residents : residents[i] = residents[j] => i = j
    /\ pending \in 0..Cardinality(Callers)
    /\ loaded \subseteq Threads /\ known \subseteq Threads
    /\ leaked \subseteq Threads
    /\ sess \in [Threads -> {"none", "fresh", "running", "idle", "dead"}]
    /\ gen \in [Threads -> Nat]
    /\ chan \in [Threads -> Seq({"queue", "trigger", "shutdown"})]
    /\ mbox \in [Threads -> {"none", "queue", "trigger"}]
    /\ caller \in [Callers -> [pc : Pcs,
                               op : {"none", "spawn", "message", "followup"},
                               tgt : Threads \cup {NoThread},
                               cand : Threads \cup {NoThread},
                               candGen : Nat, scan : Nat]]
    /\ scope \in Scopes
    /\ calls \in 0..MaxCalls /\ cancels \in 0..MaxCancels

(***************************************************************************)
(* pending_slots counts the calls that hold a slot, on every way out of    *)
(* reserve_slot and of the creation that follows: success, error, a lost   *)
(* race and a dropped call.                                                *)
(***************************************************************************)
SlotsAreHeld == pending = Cardinality({c \in Callers : HoldsSlot(c)})

Candidates == {caller[c].cand : c \in Callers} \ {NoThread}
Promised == {caller[c].tgt : c \in {d \in Callers : At(d, "commit")}}

(***************************************************************************)
(* A loaded sub-agent can be found by a later eviction: it is on the list, *)
(* an evicting call has taken it and will return or remove it, or the call *)
(* that inserted it is about to list it.  Only a call dropped in the middle*)
(* of an eviction, or of a reload past the insertion, leaves one behind.   *)
(***************************************************************************)
LoadedIsTracked == loaded \subseteq Listed \cup Candidates \cup Promised \cup leaked

(***************************************************************************)
(* How far the limit can be exceeded: while a call waits for its candidate *)
(* to shut down the candidate's slot is already free for others, so every  *)
(* concurrent call but one, and every eviction or reload dropped half way, *)
(* may add one thread to the capacity, and no interleaving adds more.      *)
(***************************************************************************)
OvershootIsBounded ==
    Cardinality(loaded) <= Capacity + (Cardinality(Callers) - 1)
                           + Cardinality(leaked)

(***************************************************************************)
(* Every tool call returns: a call that evicts is not kept waiting by its  *)
(* candidate, nor kept scanning by others that return theirs to the list.  *)
(***************************************************************************)
CallsReturn == \A c \in Callers : ~At(c, "idle") ~> At(c, "idle")
=============================================================================
