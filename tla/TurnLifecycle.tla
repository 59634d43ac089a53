--------------------------- MODULE TurnLifecycle ---------------------------
(***************************************************************************)
(* The turn lifecycle of a session: Session::active_turn, the input queue  *)
(* and the tasks that start, steer, abort and finish turns                 *)
(* (core/src/tasks/mod.rs, session/input_queue.rs, session/inject.rs,      *)
(* session/handlers.rs, tasks/regular.rs).                                 *)
(*                                                                         *)
(* Actors.  The submission loop handles one Op at a time; an extension     *)
(* starts idle turns and injects items; the guardian's circuit breaker     *)
(* aborts a turn from a task of its own; and every turn has a worker, the  *)
(* tokio task that start_task spawns.  All of them run the same async      *)
(* procedures on the shared active_turn, and yield at every await; one     *)
(* action below is what happens between two awaits that matter.            *)
(*                                                                         *)
(* Inputs are opaque items.  pc[a] is where actor a stands in the          *)
(* procedure it runs; frame[a] holds the procedure's local variables.      *)
(***************************************************************************)
EXTENDS Naturals, FiniteSets

CONSTANTS
    MaxTurns,       \* turn ids are 1..MaxTurns; a worker bears its turn's id
    Loop, Ext, Guardian,
    NoTurn,
    UserItems,      \* user messages, each submitted once
    TriggerMail,    \* inter-agent mail with trigger_turn
    QueueMail,      \* inter-agent mail without
    ExtItems,       \* response items an extension injects or starts with
    Scopes          \* [ops, turns]: which Ops and actors are exercised
                    \* together, and how many turns there are

Turns == 1..MaxTurns
Mail == TriggerMail \cup QueueMail
Items == UserItems \cup Mail \cup ExtItems
Actors == Turns \cup {Loop, Ext, Guardian}
OpNames == {"UserInput", "Interrupt", "Compact", "TriggerMail", "QueueMail",
            "Shutdown", "Inject", "StartIfIdle", "Denial"}

ASSUME TurnsAssumption == MaxTurns \in Nat
ASSUME ScopesAssumption ==
    \A s \in Scopes : s.ops \subseteq OpNames /\ s.turns \in 0..MaxTurns
ASSUME NoTurnAssumption == NoTurn \notin Turns
ASSUME ActorsAssumption ==
    /\ {Loop, Ext, Guardian} \cap (Turns \cup {NoTurn}) = {}
    /\ Loop # Ext /\ Loop # Guardian /\ Ext # Guardian

(* ActiveTurn::default() allocates a turn state: at most a reservation and *)
(* two get_or_insert_with per turn.                                        *)
States == 1..(3 * MaxTurns)

VARIABLES
    active,     \* Session::active_turn: [ts, task]; ts = 0 is None
    nextTs,     \* next turn state to allocate
    pending,    \* turn state -> pending_input
    phase,      \* turn state -> mailbox_delivery_phase
    mailbox,    \* mailbox_pending_mails
    pc, frame,
    kind,       \* turn -> task kind, "unused" until its context exists
    input,      \* turn -> the task_input its worker has not recorded yet
    cancelled,  \* turn -> its cancellation token
    started,    \* turn -> TurnStarted was sent
    terminal,   \* turn -> how many TurnComplete/TurnAborted were sent
    history,    \* items recorded in the conversation
    accepted,   \* items the session took in
    discarded,  \* items given up with an aborted turn or a failed request
    stop,       \* the submission loop: "no", "stopping", "stopped"
    scope       \* the member of Scopes this behaviour belongs to

turnVars == <<kind, input, cancelled, started, terminal>>
dataVars == <<pending, phase, mailbox, history, accepted, discarded, stop,
              scope>>
vars == <<active, nextTs, pc, frame, turnVars, dataVars>>

NoActive == [ts |-> 0, task |-> NoTurn]

(* Locals: the turn being started or aborted, the captured turn state, the *)
(* items held between two awaits, and what follows an abort.               *)
EmptyFrame == [turn |-> NoTurn, ts |-> 0, items |-> {}, next |-> NoTurn,
               then |-> "done"]

WorkerPcs == {"none", "spawned", "run", "hooks", "returned", "take", "record",
              "emit", "clear", "ended", "killed"}
AbortPcs == {"abort_wait", "abort_emit", "abort_clear"}
StartPcs == {"m_check", "m_reserve", "s_drain", "s_state", "s_extend",
             "s_install", "u_abort"}
ExtPcs == {"x_reserve", "x_recheck", "x_verify", "g_abort"}

(* The types of the slot, the turns, the input queue and the actors.       *)
TypeOK ==
    /\ active \in [ts : States \cup {0}, task : Turns \cup {NoTurn}]
    /\ active.ts = 0 => active = NoActive
    /\ nextTs \in 1..(3 * MaxTurns + 1)
    /\ pending \in [States -> SUBSET Items]
    /\ phase \in [States -> {"CurrentTurn", "NextTurn"}]
    /\ mailbox \subseteq Mail
    /\ pc \in [Actors -> WorkerPcs \cup AbortPcs \cup StartPcs \cup ExtPcs
                         \cup {"idle"}]
    /\ frame \in [Actors -> [turn : Turns \cup {NoTurn}, ts : States \cup {0},
                             items : SUBSET Items, next : Turns \cup {NoTurn},
                             then : {"start", "maybe", "done"}]]
    /\ kind \in [Turns -> {"unused", "Regular", "Compact"}]
    /\ input \in [Turns -> SUBSET Items]
    /\ cancelled \in [Turns -> BOOLEAN]
    /\ started \in [Turns -> BOOLEAN]
    /\ terminal \in [Turns -> 0..2]
    /\ history \subseteq Items /\ accepted \subseteq Items
    /\ discarded \subseteq Items
    /\ stop \in {"no", "stopping", "stopped"}
    /\ scope \in Scopes

Init ==
    /\ active = NoActive
    /\ nextTs = 1
    /\ pending = [s \in States |-> {}]
    /\ phase = [s \in States |-> "CurrentTurn"]
    /\ mailbox = {}
    /\ pc = [a \in Actors |-> IF a \in Turns THEN "none" ELSE "idle"]
    /\ frame = [a \in Actors |-> EmptyFrame]
    /\ kind = [t \in Turns |-> "unused"]
    /\ input = [t \in Turns |-> {}]
    /\ cancelled = [t \in Turns |-> FALSE]
    /\ started = [t \in Turns |-> FALSE]
    /\ terminal = [t \in Turns |-> 0]
    /\ history = {} /\ accepted = {} /\ discarded = {}
    /\ stop = "no"
    /\ scope \in Scopes

-----------------------------------------------------------------------------
(* Turn ids are generated in the order of their creation.                  *)
Unused == {t \in 1..scope.turns :
             kind[t] = "unused" /\ \A s \in 1..(t - 1) : kind[s] # "unused"}

(* The procedure of actor a is over.                                       *)
Rest(a) == IF a \in Turns THEN "ended" ELSE "idle"

Goto(a, label) == pc' = [pc EXCEPT ![a] = label]
Return(a) == /\ pc' = [pc EXCEPT ![a] = Rest(a)]
             /\ frame' = [frame EXCEPT ![a] = EmptyFrame]

HasTriggerMail == mailbox \cap TriggerMail # {}

(* InputQueue::get_pending_input: the pending items of whatever turn is    *)
(* active and, unless that turn has put mail off, the mailbox.             *)
Drainable ==
    IF active.ts = 0 THEN mailbox
    ELSE IF phase[active.ts] = "CurrentTurn" THEN pending[active.ts] \cup mailbox
    ELSE {}

DrainPending ==
    /\ mailbox' = mailbox \ Drainable
    /\ pending' = [s \in States |->
                     IF s = active.ts THEN pending[s] \ Drainable ELSE pending[s]]

(* InputQueue::has_pending_input.                                          *)
HasPending == Drainable # {}

(* extend_pending_input_and_accept_mailbox_delivery_for_turn_state.        *)
ExtendAndAccept(items) ==
    /\ pending' = [pending EXCEPT ![active.ts] = @ \cup items]
    /\ phase' = [phase EXCEPT ![active.ts] = "CurrentTurn"]

-----------------------------------------------------------------------------
(***************************************************************************)
(* start_task, run by actor a for turn frame[a].next.                      *)
(***************************************************************************)
SDrain(a) ==
    /\ pc[a] = "s_drain"
    /\ frame' = [frame EXCEPT ![a].items = Drainable]
    /\ DrainPending
    /\ Goto(a, "s_state")
    /\ UNCHANGED <<active, nextTs, turnVars, phase, history, accepted, discarded, stop, scope>>

(* active.get_or_insert_with(ActiveTurn::default), then `task` in it.      *)
GetOrInsert(task) ==
    IF active.ts = 0
    THEN /\ active' = [ts |-> nextTs, task |-> task]
         /\ nextTs' = nextTs + 1
    ELSE /\ active' = [active EXCEPT !.task = task]
         /\ UNCHANGED nextTs

SState(a) ==
    /\ pc[a] = "s_state"
    /\ GetOrInsert(active.task)
    /\ frame' = [frame EXCEPT ![a].ts = active'.ts]
    /\ Goto(a, "s_extend")
    /\ UNCHANGED <<turnVars, dataVars>>

SExtend(a) ==
    /\ pc[a] = "s_extend"
    /\ pending' = [pending EXCEPT ![frame[a].ts] = @ \cup frame[a].items]
    /\ frame' = [frame EXCEPT ![a].items = {}]
    /\ Goto(a, "s_install")
    /\ UNCHANGED <<active, nextTs, turnVars, phase, mailbox, history, accepted,
                   discarded, stop, scope>>

(* Spawn the worker and store the RunningTask.  A RunningTask that is      *)
(* overwritten is dropped, and its AbortOnDropHandle kills its worker.     *)
SInstall(a) ==
    LET t == frame[a].next
        old == active.task
    IN
    /\ pc[a] = "s_install"
    /\ GetOrInsert(t)
    /\ pc' = [b \in Actors |->
                IF b = t THEN "spawned"
                ELSE IF b = a THEN Rest(a)
                ELSE IF b = old /\ pc[b] # "ended" THEN "killed" ELSE pc[b]]
    /\ frame' = [frame EXCEPT ![a] = EmptyFrame]
    /\ UNCHANGED <<turnVars, dataVars>>

(***************************************************************************)
(* maybe_start_turn_for_pending_work.  (No durable sleep is outstanding.)  *)
(***************************************************************************)
MCheck(a) ==
    /\ pc[a] = "m_check"
    /\ IF HasTriggerMail THEN Goto(a, "m_reserve") /\ UNCHANGED frame
                         ELSE Return(a)
    /\ UNCHANGED <<active, nextTs, turnVars, dataVars>>

(* Mutant of MReserve: the reservation does not look at active_turn.       *)
MReserveBlindly(a) ==
    /\ pc[a] = "m_reserve"
    /\ \E t \in Unused :
         /\ kind' = [kind EXCEPT ![t] = "Regular"]
         /\ frame' = [frame EXCEPT ![a].next = t]
    /\ active' = [ts |-> nextTs, task |-> NoTurn]
    /\ nextTs' = nextTs + 1
    /\ Goto(a, "s_drain")
    /\ UNCHANGED <<input, cancelled, started, terminal, dataVars>>

MReserve(a) ==
    /\ pc[a] = "m_reserve"
    /\ IF active.ts # 0
       THEN Return(a) /\ UNCHANGED <<active, nextTs, kind>>
       ELSE /\ \E t \in Unused :
                 /\ kind' = [kind EXCEPT ![t] = "Regular"]
                 /\ frame' = [frame EXCEPT ![a].next = t]
            /\ active' = [ts |-> nextTs, task |-> NoTurn]
            /\ nextTs' = nextTs + 1
            /\ Goto(a, "s_drain")
    /\ UNCHANGED <<input, cancelled, started, terminal, dataVars>>

(* Mutants of TakeActive: the slot loses its state but keeps its task; the *)
(* token of the task is not cancelled.                                     *)
TakeActiveKeepsTask(a, next, then, other) ==
    /\ active' = [active EXCEPT !.ts = 0]
    /\ IF active.task = NoTurn
       THEN /\ Goto(a, other)
            /\ frame' = [frame EXCEPT ![a].next = next]
            /\ UNCHANGED cancelled
       ELSE /\ Goto(a, "abort_wait")
            /\ frame' = [frame EXCEPT ![a] = [turn |-> active.task,
                           ts |-> active.ts, items |-> {}, next |-> next,
                           then |-> then]]
            /\ cancelled' = [cancelled EXCEPT ![active.task] = TRUE]

TakeActiveNoCancel(a, next, then, other) ==
    /\ active' = NoActive
    /\ UNCHANGED cancelled
    /\ IF active.task = NoTurn
       THEN /\ Goto(a, other)
            /\ frame' = [frame EXCEPT ![a].next = next]
       ELSE /\ Goto(a, "abort_wait")
            /\ frame' = [frame EXCEPT ![a] = [turn |-> active.task,
                           ts |-> active.ts, items |-> {}, next |-> next,
                           then |-> then]]

(***************************************************************************)
(* abort_all_tasks / abort_turn_if_active: take the active turn, and when  *)
(* it has a task cancel its token.  `then` is what the caller does next    *)
(* when a task was aborted, `other` where it goes when none was.           *)
(***************************************************************************)
TakeActive(a, next, then, other) ==
    /\ active' = NoActive
    /\ IF active.task = NoTurn
       THEN /\ Goto(a, other)
            /\ frame' = [frame EXCEPT ![a].next = next]
            /\ UNCHANGED cancelled
       ELSE /\ Goto(a, "abort_wait")
            /\ frame' = [frame EXCEPT ![a] = [turn |-> active.task,
                           ts |-> active.ts, items |-> {}, next |-> next,
                           then |-> then]]
            /\ cancelled' = [cancelled EXCEPT ![active.task] = TRUE]

(* Mutant: an abort that finds the worker finished sends nothing.          *)
AbortWaitReturnsIfEnded(a) ==
    /\ pc[a] = "abort_wait"
    /\ IF pc[frame[a].turn] = "ended"
       THEN Return(a)
       ELSE /\ pc' = [pc EXCEPT ![a] = "abort_emit", ![frame[a].turn] = "killed"]
            /\ UNCHANGED frame
    /\ UNCHANGED <<active, nextTs, turnVars, dataVars>>

(* handle_task_abort: `done` was notified or the grace period is over; the *)
(* worker's handle is aborted, and what it had not recorded goes with it.  *)
AbortWait(a) ==
    /\ pc[a] = "abort_wait"
    /\ pc' = [pc EXCEPT ![a] = "abort_emit",
                        ![frame[a].turn] = IF @ = "ended" THEN @ ELSE "killed"]
    /\ discarded' = discarded \cup input[frame[a].turn]
                              \cup frame[frame[a].turn].items
    /\ UNCHANGED <<active, nextTs, frame, turnVars, pending, phase, mailbox,
                   history, accepted, stop, scope>>

(* The interrupted marker is recorded and TurnAborted sent.                *)
AbortEmit(a) ==
    /\ pc[a] = "abort_emit"
    /\ terminal' = [terminal EXCEPT ![frame[a].turn] = @ + 1]
    /\ Goto(a, "abort_clear")
    /\ UNCHANGED <<active, nextTs, frame, kind, input, cancelled, started,
                   dataVars>>

(* clear_pending of the aborted turn, then on to what the caller does.     *)
AbortClear(a) ==
    LET s == frame[a].ts IN
    /\ pc[a] = "abort_clear"
    /\ discarded' = discarded \cup pending[s]
    /\ pending' = [pending EXCEPT ![s] = {}]
    /\ pc' = [pc EXCEPT ![a] = CASE frame[a].then = "start" -> "s_drain"
                                 [] frame[a].then = "maybe" -> "m_check"
                                 [] OTHER -> Rest(a)]
    /\ frame' = [frame EXCEPT ![a] = [EmptyFrame EXCEPT !.next = frame[a].next]]
    /\ UNCHANGED <<active, nextTs, turnVars, phase, mailbox, history, accepted, stop, scope>>

AbortStep(a) == AbortWait(a) \/ AbortEmit(a) \/ AbortClear(a)
StartStep(a) == \/ SDrain(a) \/ SState(a) \/ SExtend(a) \/ SInstall(a)
                \/ MCheck(a) \/ MReserve(a)

-----------------------------------------------------------------------------
(***************************************************************************)
(* The submission loop.                                                    *)
(***************************************************************************)
LoopReady(op) == op \in scope.ops /\ pc[Loop] = "idle" /\ stop = "no"

(* The context of a new turn, on the way to spawn_task.                    *)
NewTurn(k, items) ==
    /\ \E t \in Unused :
        /\ kind' = [kind EXCEPT ![t] = k]
        /\ input' = [input EXCEPT ![t] = items]
        /\ frame' = [frame EXCEPT ![Loop].next = t]
    /\ Goto(Loop, "u_abort")
    /\ UNCHANGED <<active, nextTs, cancelled, started, terminal>>

(* spawn_task: abort_all_tasks(Replaced), then start_task.                 *)
SpawnTask ==
    /\ pc[Loop] = "u_abort"
    /\ TakeActive(Loop, frame[Loop].next, "start", "s_drain")
    /\ UNCHANGED <<nextTs, kind, input, started, terminal, dataVars>>

(* Op::UserInput: steer the running regular turn...                        *)
Steer(i) ==
    /\ LoopReady("UserInput") /\ i \notin accepted
    /\ active.task # NoTurn /\ kind[active.task] = "Regular"
    /\ ExtendAndAccept({i})
    /\ accepted' = accepted \cup {i}
    /\ UNCHANGED <<active, nextTs, pc, frame, turnVars, mailbox, history, discarded, stop, scope>>

(* ... or start one when there is no task to steer.  A Review or Compact   *)
(* task is not steerable: the message is refused with an error event.      *)
UserTurn(i) ==
    /\ LoopReady("UserInput") /\ i \notin accepted
    /\ active.task = NoTurn
    /\ NewTurn("Regular", {i})
    /\ accepted' = accepted \cup {i}
    /\ UNCHANGED <<pending, phase, mailbox, history, discarded, stop, scope>>

(* Op::Compact (and Op::Review): replace whatever runs.                    *)
Compact ==
    /\ LoopReady("Compact")
    /\ NewTurn("Compact", {})
    /\ UNCHANGED dataVars

(* Op::Interrupt.                                                          *)
Interrupt ==
    /\ LoopReady("Interrupt")
    /\ active.ts # 0
    /\ TakeActive(Loop, NoTurn, "maybe", "idle")
    /\ UNCHANGED <<nextTs, kind, input, started, terminal, dataVars>>

(* Mutant: the runtime is torn down without aborting the running turn.     *)
ShutdownSkipsAbort ==
    /\ LoopReady("Shutdown")
    /\ stop' = "stopping"
    /\ UNCHANGED <<active, nextTs, pc, frame, turnVars, pending, phase, mailbox,
                   history, accepted, discarded, scope>>

(* Op::Shutdown, or the channel closed: shutdown_session_runtime aborts    *)
(* like an interrupt, then the thread-stop lifecycle and ShutdownComplete. *)
Shutdown ==
    /\ LoopReady("Shutdown")
    /\ stop' = "stopping"
    /\ TakeActive(Loop, NoTurn, "maybe", "idle")
    /\ UNCHANGED <<nextTs, kind, input, started, terminal, pending, phase,
                   mailbox, history, accepted, discarded, scope>>

ShutdownComplete ==
    /\ stop = "stopping" /\ pc[Loop] = "idle"
    /\ stop' = "stopped"
    /\ UNCHANGED <<active, nextTs, pc, frame, turnVars, pending, phase, mailbox,
                   history, accepted, discarded, scope>>

(* Op::InterAgentCommunication.                                            *)
ReceiveMail(m) ==
    /\ LoopReady(IF m \in TriggerMail THEN "TriggerMail" ELSE "QueueMail")
    /\ m \notin accepted
    /\ mailbox' = mailbox \cup {m}
    /\ accepted' = accepted \cup {m}
    /\ Goto(Loop, IF m \in TriggerMail THEN "m_check" ELSE "idle")
    /\ UNCHANGED <<active, nextTs, frame, turnVars, pending, phase, history,
                   discarded, stop, scope>>

-----------------------------------------------------------------------------
(***************************************************************************)
(* An extension (the goal runtime): inject_no_new_turn and                 *)
(* try_start_turn_if_idle.                                                 *)
(***************************************************************************)
Inject(e) ==
    /\ "Inject" \in scope.ops /\ pc[Ext] = "idle" /\ e \notin accepted
    /\ accepted' = accepted \cup {e}
    /\ IF active.ts # 0
       THEN ExtendAndAccept({e}) /\ UNCHANGED history
       ELSE history' = history \cup {e} /\ UNCHANGED <<pending, phase>>
    /\ UNCHANGED <<active, nextTs, pc, frame, turnVars, mailbox, discarded, stop, scope>>

XBegin(e) ==
    /\ "StartIfIdle" \in scope.ops /\ pc[Ext] = "idle" /\ e \notin accepted
    /\ ~HasTriggerMail
    /\ Goto(Ext, "x_reserve")
    /\ frame' = [frame EXCEPT ![Ext].items = {e}]
    /\ UNCHANGED <<active, nextTs, turnVars, dataVars>>

(* Busy: the item goes back to the extension.                              *)
XReserve ==
    /\ pc[Ext] = "x_reserve"
    /\ IF active.ts # 0
       THEN Return(Ext) /\ UNCHANGED <<active, nextTs, kind>>
       ELSE /\ active' = [ts |-> nextTs, task |-> NoTurn]
            /\ nextTs' = nextTs + 1
            /\ \E t \in Unused :
                 /\ kind' = [kind EXCEPT ![t] = "Regular"]
                 /\ frame' = [frame EXCEPT ![Ext].next = t, ![Ext].ts = nextTs]
            /\ Goto(Ext, "x_recheck")
    /\ UNCHANGED <<input, cancelled, started, terminal, dataVars>>

StillReserved == active.task = NoTurn /\ active.ts = frame[Ext].ts

(* The re-checks for trigger mail around new_default_turn: give way.       *)
XRecheck ==
    /\ pc[Ext] = "x_recheck"
    /\ IF HasTriggerMail
       THEN /\ active' = IF StillReserved THEN NoActive ELSE active
            /\ Goto(Ext, "m_check")
            /\ frame' = [frame EXCEPT ![Ext] = EmptyFrame]
       ELSE Goto(Ext, "x_verify") /\ UNCHANGED <<active, frame>>
    /\ UNCHANGED <<nextTs, turnVars, dataVars>>

(* The still_reserved check; then the item joins the reserved turn.        *)
XVerify ==
    /\ pc[Ext] = "x_verify"
    /\ IF StillReserved
       THEN /\ pending' = [pending EXCEPT ![active.ts] = @ \cup frame[Ext].items]
            /\ accepted' = accepted \cup frame[Ext].items
            /\ Goto(Ext, "s_drain")
            /\ frame' = [frame EXCEPT ![Ext].items = {}]
       ELSE Return(Ext) /\ UNCHANGED <<pending, accepted>>
    /\ UNCHANGED <<active, nextTs, turnVars, phase, mailbox, history, discarded, stop, scope>>

(***************************************************************************)
(* record_guardian_denial on turn t spawns abort_turn_if_active.           *)
(***************************************************************************)
Denial(t) ==
    /\ "Denial" \in scope.ops /\ pc[Guardian] = "idle"
    /\ pc[t] = "run" /\ active.task = t
    /\ Goto(Guardian, "g_abort")
    /\ frame' = [frame EXCEPT ![Guardian].turn = t]
    /\ UNCHANGED <<active, nextTs, turnVars, dataVars>>

GuardianAbort ==
    /\ pc[Guardian] = "g_abort"
    /\ IF active.task = frame[Guardian].turn
       THEN TakeActive(Guardian, NoTurn, "maybe", "idle")
       ELSE Return(Guardian) /\ UNCHANGED <<active, cancelled>>
    /\ UNCHANGED <<nextTs, kind, input, started, terminal, dataVars>>

-----------------------------------------------------------------------------
(***************************************************************************)
(* The worker of turn t: RegularTask::run (a Compact task takes no input). *)
(***************************************************************************)
WStart(t) ==
    /\ pc[t] = "spawned"
    /\ started' = [started EXCEPT ![t] = TRUE]
    /\ Goto(t, "run")
    /\ UNCHANGED <<active, nextTs, frame, kind, input, cancelled, terminal,
                   dataVars>>

(* run_turn records the turn's own input before its first request ...      *)
WRecordInput(t) ==
    /\ pc[t] = "run" /\ input[t] # {}
    /\ history' = history \cup input[t]
    /\ input' = [input EXCEPT ![t] = {}]
    /\ UNCHANGED <<active, nextTs, pc, frame, kind, cancelled, started, terminal,
                   pending, phase, mailbox, accepted, discarded, stop, scope>>

(* ... unless compaction or the capture of the context fails before it     *)
(* gets there: those paths return with the input unrecorded.               *)
WFail(t) ==
    /\ pc[t] = "run" /\ input[t] # {}
    /\ discarded' = discarded \cup input[t]
    /\ input' = [input EXCEPT ![t] = {}]
    /\ UNCHANGED <<active, nextTs, pc, frame, kind, cancelled, started, terminal,
                   pending, phase, mailbox, history, accepted, stop, scope>>

(* A later request drains the pending input of the active turn; the hooks  *)
(* run, and then it is recorded (run_hooks_and_record_inputs).             *)
WDrain(t) ==
    /\ pc[t] = "run" /\ kind[t] = "Regular" /\ input[t] = {}
    /\ HasPending
    /\ frame' = [frame EXCEPT ![t].items = Drainable]
    /\ DrainPending
    /\ Goto(t, "hooks")
    /\ UNCHANGED <<active, nextTs, turnVars, phase, history, accepted, discarded,
                   stop, scope>>

WRecord(t) ==
    /\ pc[t] = "hooks"
    /\ history' = history \cup frame[t].items
    /\ frame' = [frame EXCEPT ![t].items = {}]
    /\ Goto(t, "run")
    /\ UNCHANGED <<active, nextTs, turnVars, pending, phase, mailbox, accepted,
                   discarded, stop, scope>>

(* A completed final answer puts late mail off to the next turn, unless    *)
(* something other than queue-only mail is pending.                        *)
WFinal(t) ==
    /\ pc[t] = "run" /\ active.task = t
    /\ pending[active.ts] \subseteq QueueMail
    /\ phase' = [phase EXCEPT ![active.ts] = "NextTurn"]
    /\ UNCHANGED <<active, nextTs, pc, frame, turnVars, pending, mailbox, history,
                   accepted, discarded, stop, scope>>

(* A tool call reopens the turn for mail.                                  *)
WToolCall(t) ==
    /\ pc[t] = "run" /\ active.task = t
    /\ phase' = [phase EXCEPT ![active.ts] = "CurrentTurn"]
    /\ UNCHANGED <<active, nextTs, pc, frame, turnVars, pending, mailbox, history,
                   accepted, discarded, stop, scope>>

(* run returns Ok when nothing is pending ...                              *)
WReturnOk(t) ==
    /\ pc[t] = "run" /\ input[t] = {}
    /\ kind[t] = "Regular" => ~HasPending
    /\ Goto(t, "returned")
    /\ UNCHANGED <<active, nextTs, frame, turnVars, dataVars>>

(* ... and Err on a cancellation at any point, its own input recorded, or  *)
(* when the context of the turn cannot be captured (WFail before it).      *)
WReturnErr(t) ==
    /\ pc[t] = "run"
    /\ history' = history \cup input[t]
    /\ input' = [input EXCEPT ![t] = {}]
    /\ Goto(t, "returned")
    /\ UNCHANGED <<active, nextTs, frame, kind, cancelled, started, terminal,
                   pending, phase, mailbox, accepted, discarded, stop, scope>>

(* The is_cancelled test before on_task_finished.                          *)
WCheck(t) ==
    /\ pc[t] = "returned"
    /\ Goto(t, IF cancelled[t] THEN "ended" ELSE "take")
    /\ UNCHANGED <<active, nextTs, frame, turnVars, dataVars>>

(* Mutant: the task stays in the slot while the turn finishes.             *)
FTakeLeavesTask(t) ==
    /\ pc[t] = "take"
    /\ IF active.task = NoTurn
       THEN Return(t)
       ELSE /\ frame' = [frame EXCEPT ![t].ts = active.ts]
            /\ Goto(t, "record")
    /\ UNCHANGED <<active, nextTs, turnVars, dataVars>>

(* on_task_finished: take and detach the task of the active turn, whoever's *)
(* it is; return when there is none.                                       *)
FTake(t) ==
    /\ pc[t] = "take"
    /\ IF active.task = NoTurn
       THEN Return(t) /\ UNCHANGED active
       ELSE /\ active' = [active EXCEPT !.task = NoTurn]
            /\ frame' = [frame EXCEPT ![t].ts = active.ts]
            /\ Goto(t, "record")
    /\ UNCHANGED <<nextTs, turnVars, dataVars>>

(* Mutant: leftover pending input is dropped instead of recorded.          *)
FRecordDrops(t) ==
    /\ pc[t] = "record"
    /\ pending' = [pending EXCEPT ![frame[t].ts] = {}]
    /\ Goto(t, "emit")
    /\ UNCHANGED <<active, nextTs, frame, turnVars, phase, mailbox, history,
                   accepted, discarded, stop, scope>>

(* take_pending_input_for_turn_state, recorded in the history.             *)
FRecord(t) ==
    /\ pc[t] = "record"
    /\ history' = history \cup pending[frame[t].ts]
    /\ pending' = [pending EXCEPT ![frame[t].ts] = {}]
    /\ Goto(t, "emit")
    /\ UNCHANGED <<active, nextTs, frame, turnVars, phase, mailbox, accepted,
                   discarded, stop, scope>>

FEmit(t) ==
    /\ pc[t] = "emit"
    /\ terminal' = [terminal EXCEPT ![t] = @ + 1]
    /\ Goto(t, "clear")
    /\ UNCHANGED <<active, nextTs, frame, kind, input, cancelled, started,
                   dataVars>>

(* Mutant: the idle slot is cleared without starting pending work.       *)
FClearOnly(t) ==
    /\ pc[t] = "clear"
    /\ active' = IF active.task = NoTurn /\ active.ts = frame[t].ts
                 THEN NoActive ELSE active
    /\ Return(t)
    /\ UNCHANGED <<nextTs, turnVars, dataVars>>

(* Clear the slot if it is still this turn's, then start pending work.     *)
FClear(t) ==
    /\ pc[t] = "clear"
    /\ IF active.task = NoTurn /\ active.ts = frame[t].ts
       THEN /\ active' = NoActive
            /\ Goto(t, "m_check")
            /\ frame' = [frame EXCEPT ![t] = EmptyFrame]
       ELSE Return(t) /\ UNCHANGED active
    /\ UNCHANGED <<nextTs, turnVars, dataVars>>

WorkerStep(t) ==
    \/ WStart(t) \/ WRecordInput(t) \/ WFail(t) \/ WDrain(t) \/ WRecord(t)
    \/ WFinal(t) \/ WToolCall(t)
    \/ WReturnOk(t) \/ WReturnErr(t) \/ WCheck(t)
    \/ FTake(t) \/ FRecord(t) \/ FEmit(t) \/ FClear(t)

-----------------------------------------------------------------------------
Next ==
    \/ \E a \in Actors : AbortStep(a) \/ StartStep(a)
    \/ \E t \in Turns : WorkerStep(t) \/ Denial(t)
    \/ \E i \in UserItems : Steer(i) \/ UserTurn(i)
    \/ \E m \in Mail : ReceiveMail(m)
    \/ \E e \in ExtItems : Inject(e) \/ XBegin(e)
    \/ Compact \/ SpawnTask \/ Interrupt \/ Shutdown \/ ShutdownComplete
    \/ XReserve \/ XRecheck \/ XVerify \/ GuardianAbort

Spec == Init /\ [][Next]_vars

(* The runtime polls every ready task; a turn's requests end, so that its  *)
(* run returns.  Nothing obliges a client to submit an Op.                 *)
Fairness ==
    /\ \A a \in Actors : WF_vars(AbortStep(a)) /\ WF_vars(StartStep(a))
    /\ \A t \in Turns :
        /\ WF_vars(WStart(t) \/ WRecord(t) \/ WCheck(t))
        /\ WF_vars(WReturnOk(t) \/ WReturnErr(t))
        /\ WF_vars(FTake(t) \/ FRecord(t) \/ FEmit(t) \/ FClear(t))
    /\ WF_vars(XReserve \/ XRecheck \/ XVerify)
    /\ WF_vars(GuardianAbort)
    /\ WF_vars(SpawnTask \/ ShutdownComplete)

FairSpec == Spec /\ Fairness

-----------------------------------------------------------------------------
(***************************************************************************)
(* start_task finds the slot of the active turn free when it stores its    *)
(* RunningTask, as its debug_assert!(turn.task.is_none()) says; otherwise  *)
(* it drops, and so kills, a running turn.                                 *)
(***************************************************************************)
SlotFreeAtInstall ==
    [][\A a \in Actors :
        pc[a] = "s_install" /\ pc'[a] # "s_install" => active.task = NoTurn]_vars

BeingAborted(t) ==
    \E a \in Actors : pc[a] \in {"abort_wait", "abort_emit"} /\ frame[a].turn = t

(***************************************************************************)
(* A turn that was started and whose worker is gone has sent exactly one   *)
(* terminal event, or an abort that will send it is under way ("Each turn  *)
(* emits turn/started when it begins running and ends with                 *)
(* turn/completed").                                                       *)
(***************************************************************************)
EndsWithOneTerminal ==
    \A t \in Turns :
        /\ terminal[t] <= 1
        /\ started[t] /\ pc[t] \in {"ended", "killed"}
           => terminal[t] = 1 \/ BeingAborted(t)

(***************************************************************************)
(* A turn that runs and was not cancelled is the task of the active turn,  *)
(* so that a steer or an interrupt reaches it, and is the only one         *)
(* ("Session has at most one Task running at a time").                     *)
(***************************************************************************)
RunningTurnIsActive ==
    \A t \in Turns :
        pc[t] \in {"spawned", "run", "hooks"} /\ ~cancelled[t] => active.task = t

Gone == {t \in Turns : pc[t] \in {"ended", "killed"}}

HeldStates ==
    {active.ts} \cup
    {frame[a].ts : a \in {b \in Actors : pc[b] \in {"record"} \cup AbortPcs}}

(***************************************************************************)
(* No accepted item falls between two awaits: it waits in the mailbox, in  *)
(* the active turn, in a procedure that is still to hand it on or in a     *)
(* worker that is still to record it, or it is in the history, or it was   *)
(* given up openly: with a turn that was aborted or a request that failed. *)
(***************************************************************************)
InputAccountedFor ==
    accepted \subseteq
        mailbox \cup history \cup discarded
        \cup (UNION {input[t] : t \in Turns \ Gone})
        \cup (UNION {frame[a].items : a \in Actors \ Gone})
        \cup (UNION {pending[s] : s \in HeldStates \ {0}})

(***************************************************************************)
(* When the session says ShutdownComplete no turn runs any more: the abort *)
(* in shutdown_session_runtime was the last word on turns                  *)
(* (submission_loop_channel_close_aborts_active_turn_before_               *)
(* thread_stop_lifecycle).                                                 *)
(***************************************************************************)
ShutdownEndsTurns ==
    stop = "stopped" =>
        \A t \in Turns : pc[t] \in {"spawned", "run", "hooks"} => cancelled[t]

(***************************************************************************)
(* Every turn that started ends with a terminal event, whether it returns, *)
(* is interrupted or replaced (on_task_finished, handle_task_abort).       *)
(***************************************************************************)
StartedTurnsEnd == \A t \in Turns : started[t] ~> terminal[t] = 1

(***************************************************************************)
(* Mail that asks for a turn is put before the model in the end, even when *)
(* it arrives while the worker of the last turn is finishing, or is given  *)
(* up with the turn that took it in and was interrupted; it never stays in *)
(* the mailbox (maybe_start_turn_for_pending_work).                        *)
(***************************************************************************)
TriggerMailIsHandled ==
    \A m \in TriggerMail : m \in mailbox ~> m \in history \cup discarded
=============================================================================
