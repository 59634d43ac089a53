------------------------ MODULE TurnLifecycleProofs ------------------------
(***************************************************************************)
(* Proofs about TurnLifecycle, for every number of turns and every set of  *)
(* items, under the hypothesis that one side drives the session: either a  *)
(* client (user input, interrupts, compactions, a shutdown) or other       *)
(* agents and an extension (mail that asks for a turn, idle starts).  Both *)
(* may queue mail and inject items.  Without the hypothesis the properties *)
(* are false, as the run on RaceScopes shows: start_task of one side finds *)
(* the RunningTask of the other in the slot.                               *)
(*                                                                         *)
(* The argument.  A procedure that is about to install a task has the slot *)
(* to itself: the submission loop has emptied it (client), or it holds the *)
(* reservation it took from an empty slot (agents); a worker that finishes *)
(* clears the slot only while the turn state in it is its own.  So a live  *)
(* worker is the task of the slot until it detaches itself or an abort     *)
(* cancels it, and exactly one of the two sends its terminal event.        *)
(***************************************************************************)
EXTENDS TurnLifecycle, TLAPS

ClientOps == {"UserInput", "Interrupt", "Compact", "QueueMail", "Inject",
              "Shutdown"}
AgentOps == {"TriggerMail", "QueueMail", "StartIfIdle", "Inject"}

(* Every behaviour has one driver.                                         *)
OneDriver ==
    \A s \in Scopes : s.ops \subseteq ClientOps \/ s.ops \subseteq AgentOps

(* The session is driven by a client.                                      *)
Client == scope.ops \subseteq ClientOps

Frame == [turn : Turns \cup {NoTurn}, ts : States \cup {0},
          items : SUBSET Items, next : Turns \cup {NoTurn},
          then : {"start", "maybe", "done"}]

Live == {"spawned", "run", "hooks", "returned", "take"}
Finishing == {"record", "emit", "clear"}
Chain == {"m_check", "m_reserve"}
TaskPcs == {"s_drain", "s_state", "s_extend", "s_install"}
Passing == {"x_reserve", "x_recheck", "x_verify"}

(* Where each actor may stand under the one driver or the other.           *)
PcInv ==
    /\ pc[Guardian] = "idle"
    /\ Client =>
         /\ pc[Loop] \in {"idle", "u_abort", "m_check"} \cup AbortPcs \cup TaskPcs
         /\ pc[Ext] = "idle"
         /\ \A t \in Turns : pc[t] \in WorkerPcs \cup {"m_check"}
         /\ ~HasTriggerMail
    /\ ~Client =>
         /\ pc[Loop] \in {"idle"} \cup Chain \cup TaskPcs
         /\ pc[Ext] \in {"idle"} \cup Passing \cup Chain \cup TaskPcs
         /\ \A t \in Turns : pc[t] \in WorkerPcs \cup Chain \cup TaskPcs
         /\ stop = "no"

(* Actor a has the slot to itself.                                         *)
Starting(a) == pc[a] \in TaskPcs \cup {"x_recheck", "x_verify"}

(* Actor a carries a turn it has made and not installed.                   *)
Carries(a) ==
    \/ Starting(a) \/ pc[a] = "u_abort"
    \/ pc[a] \in AbortPcs /\ frame[a].then = "start"

(* It finds no task in the slot ...                                        *)
FreeInv == \A a \in Actors : Starting(a) => active.task = NoTurn

(* ... no other actor at the same work ...                                 *)
SoleInv == \A a, b \in Actors : Starting(a) /\ Starting(b) => a = b

(* ... no finishing worker that would clear the slot under it ...          *)
ApartInv ==
    \A a \in Actors, t \in Turns :
        Starting(a) /\ pc[t] \in Finishing => frame[t].ts # active.ts

(* ... and the turn state it reserved or inserted.                         *)
HoldInv ==
    \A a \in Actors :
        /\ pc[a] \in {"s_extend", "s_install", "x_recheck", "x_verify"} =>
             active.ts # 0 /\ frame[a].ts = active.ts
        /\ pc[a] \in {"s_drain", "s_state"} => (Client <=> active.ts = 0)

(* The turn an actor carries exists and has no worker yet.                 *)
NextInv ==
    \A a \in Actors : Carries(a) =>
        /\ frame[a].next \in Turns
        /\ kind[frame[a].next] # "unused"
        /\ pc[frame[a].next] = "none"

(* Turn states are allocated at most one per turn.                         *)
TsInv ==
    /\ nextTs \in 1..(MaxTurns + 1)
    /\ active.ts < nextTs
    /\ \A t \in Turns : kind[t] = "unused" => nextTs <= t /\ pc[t] = "none"
    /\ \A s, t \in Turns : s < t /\ kind[s] = "unused" => kind[t] = "unused"
    /\ Client /\ Carries(Loop) /\ pc[Loop] \notin {"s_extend", "s_install"} =>
         nextTs <= frame[Loop].next

(* The task in the slot is live, a live worker is in the slot or being     *)
(* aborted, a finishing worker has left it, a new one was never there.     *)
LiveInv ==
    /\ active.task # NoTurn =>
         active.ts # 0 /\ pc[active.task] \in Live /\ ~cancelled[active.task]
    /\ \A t \in Turns :
        /\ pc[t] \in Live =>
             \/ active.task = t
             \/ cancelled[t] /\ pc[Loop] = "abort_wait" /\ frame[Loop].turn = t
        /\ pc[t] \in Finishing =>
             /\ frame[t].ts \in 1..(nextTs - 1)
             /\ frame[t].ts = active.ts => active.task = NoTurn
        /\ pc[t] = "none" => ~cancelled[t]

(* After a shutdown the slot stays empty.                                  *)
StopInv ==
    stop # "no" =>
        /\ active = NoActive
        /\ pc[Loop] \in {"idle", "m_check"} \cup AbortPcs
        /\ pc[Loop] \in AbortPcs => frame[Loop].then # "start"

(* The turn the submission loop aborts.                                    *)
AbortInv ==
    pc[Loop] \in AbortPcs =>
      /\ active = NoActive
      /\ frame[Loop].ts # 0
      /\ frame[Loop].turn \in Turns
      /\ cancelled[frame[Loop].turn]
      /\ pc[Loop] = "abort_wait" =>
           pc[frame[Loop].turn] \in Live \cup {"ended"} /\ terminal[frame[Loop].turn] = 0
      /\ pc[Loop] = "abort_emit" =>
           pc[frame[Loop].turn] \in {"ended", "killed"} /\ terminal[frame[Loop].turn] = 0
      /\ pc[Loop] = "abort_clear" =>
           pc[frame[Loop].turn] \in {"ended", "killed"} /\ terminal[frame[Loop].turn] = 1

(* How many terminal events a turn has sent, by where its worker stands.   *)
TermInv ==
    \A t \in Turns :
      /\ pc[t] \in {"none", "record", "emit"} \cup Live => terminal[t] = 0
      /\ pc[t] \in {"clear"} \cup Chain \cup TaskPcs => terminal[t] = 1
      /\ pc[t] \in {"ended", "killed"} =>
           \/ terminal[t] = 1
           \/ /\ terminal[t] = 0
              /\ pc[Loop] \in {"abort_wait", "abort_emit"} /\ frame[Loop].turn = t

(* The control invariant.                                                  *)
KInv ==
    /\ TypeOK /\ PcInv
    /\ FreeInv /\ SoleInv /\ ApartInv /\ HoldInv /\ NextInv
    /\ TsInv /\ LiveInv /\ StopInv /\ AbortInv /\ TermInv

-----------------------------------------------------------------------------
(* The drivers' operations.                                                *)
LEMMA DriverOps ==
    ASSUME OneDriver, scope \in Scopes
    PROVE  /\ "UserInput" \in scope.ops => Client
           /\ "Interrupt" \in scope.ops => Client
           /\ "Compact" \in scope.ops => Client
           /\ "Shutdown" \in scope.ops => Client
           /\ "TriggerMail" \in scope.ops => ~Client
           /\ "StartIfIdle" \in scope.ops => ~Client
           /\ "Denial" \notin scope.ops
  BY DEF OneDriver, Client, ClientOps, AgentOps

(* The actors are told apart, and none is the turn "none".                 *)
LEMMA ActorFacts ==
    /\ Turns \subseteq Actors /\ Loop \in Actors /\ Ext \in Actors /\ Guardian \in Actors
    /\ Loop \notin Turns /\ Ext \notin Turns /\ Guardian \notin Turns
    /\ NoTurn \notin Turns
    /\ Loop # NoTurn /\ Ext # NoTurn /\ Guardian # NoTurn
    /\ Loop # Ext /\ Loop # Guardian /\ Ext # Guardian
    /\ \A a \in Actors : a \in Turns \/ a = Loop \/ a = Ext \/ a = Guardian
  BY ActorsAssumption, NoTurnAssumption DEF Actors

LEMMA TurnFacts ==
    /\ MaxTurns \in Nat
    /\ \A t \in Turns : t \in Nat /\ 1 <= t /\ t <= MaxTurns
    /\ \A t : t \in Nat /\ 1 <= t /\ t <= MaxTurns => t \in Turns
    /\ \A s : s \in Nat /\ 1 <= s /\ s <= MaxTurns => s \in States
    /\ \A s \in States : s \in Nat /\ 1 <= s
    /\ NoActive.ts = 0 /\ NoActive.task = NoTurn
    /\ 0 \notin States
  BY TurnsAssumption DEF Turns, States, NoActive

LEMMA InitKInv == Init => KInv
<1> SUFFICES ASSUME Init PROVE KInv
  OBVIOUS
<1>1. /\ active = NoActive /\ nextTs = 1 /\ stop = "no"
      /\ \A a \in Actors : pc[a] = IF a \in Turns THEN "none" ELSE "idle"
      /\ \A t \in Turns : kind[t] = "unused" /\ terminal[t] = 0 /\ ~cancelled[t]
  BY ActorFacts DEF Init
<1>2. TypeOK
  BY TurnsAssumption, TurnFacts DEF Init, TypeOK, NoActive, EmptyFrame, WorkerPcs
<1>3. PcInv
  BY <1>1, ActorFacts DEF Init, PcInv, HasTriggerMail, WorkerPcs
<1>4. FreeInv /\ SoleInv /\ ApartInv /\ HoldInv /\ NextInv
  BY <1>1, ActorFacts DEF FreeInv, SoleInv, ApartInv, HoldInv, NextInv, Starting,
     Carries, TaskPcs, AbortPcs
<1>5. TsInv
  BY <1>1, ActorFacts, TurnFacts DEF TsInv, Carries, Starting, TaskPcs, AbortPcs
<1>6. LiveInv /\ StopInv /\ AbortInv /\ TermInv
  BY <1>1, ActorFacts, TurnFacts DEF LiveInv, StopInv, AbortInv, TermInv, Live, Finishing,
     AbortPcs, Chain, TaskPcs
<1> QED BY <1>2, <1>3, <1>4, <1>5, <1>6 DEF KInv

-----------------------------------------------------------------------------
(***************************************************************************)
(* Steps by their effect on the control state.  All fields of a frame but  *)
(* its items are control.                                                  *)
(***************************************************************************)
SameFrame(b) ==
    /\ frame'[b].turn = frame[b].turn /\ frame'[b].ts = frame[b].ts
    /\ frame'[b].next = frame[b].next /\ frame'[b].then = frame[b].then

SameFrames == \A b \in Actors : SameFrame(b)

(* Actor a moves to label l; nobody else moves.                            *)
Moves(a, l) == pc'[a] = l /\ \A b \in Actors : b # a => pc'[b] = pc[b]

SameSlot == active' = active /\ nextTs' = nextTs /\ kind' = kind

SameRest == cancelled' = cancelled /\ terminal' = terminal /\ stop' = stop /\ scope' = scope

(* A client's session has no mail that asks for a turn.                    *)
MailInv == Client => ~HasTriggerMail

LEMMA KeepsMail ==
    ASSUME KInv, mailbox' \subseteq mailbox, scope' = scope
    PROVE  MailInv'
  BY DEF KInv, PcInv, MailInv, Client, HasTriggerMail

(* Nothing of the control state changes.                                   *)
LEMMA QuietStep ==
    ASSUME KInv, TypeOK', MailInv', SameFrames, SameSlot, SameRest,
           \A b \in Actors : pc'[b] = pc[b]
    PROVE  KInv'
<1> USE ActorFacts, TurnFacts
<1>0. Client' <=> Client
  BY DEF SameRest, Client
<1>1. PcInv'
  BY <1>0 DEF KInv, PcInv, MailInv, SameRest
<1>2. FreeInv' /\ SoleInv' /\ ApartInv'
  BY DEF KInv, FreeInv, SoleInv, ApartInv, Starting, SameFrames, SameFrame, SameSlot
<1>3. HoldInv'
  BY <1>0 DEF KInv, HoldInv, SameFrames, SameFrame, SameSlot
<1>4. NextInv'
  BY DEF KInv, NextInv, Carries, Starting, SameFrames, SameFrame, SameSlot
<1>5. TsInv'
  BY <1>0 DEF KInv, TsInv, Carries, Starting, SameFrames, SameFrame, SameSlot
<1>6. LiveInv' /\ AbortInv' /\ TermInv'
  BY DEF KInv, TypeOK, LiveInv, AbortInv, TermInv, SameFrames, SameFrame, SameSlot, SameRest
<1>7. StopInv'
  BY DEF KInv, StopInv, SameFrames, SameFrame, SameSlot, SameRest
<1> QED BY <1>1, <1>2, <1>3, <1>4, <1>5, <1>6, <1>7 DEF KInv

(* A live worker goes on.                                                  *)
LEMMA LiveMove ==
    ASSUME KInv, TypeOK', MailInv', SameFrames, SameSlot, SameRest,
           NEW t \in Turns, NEW l \in Live, pc[t] \in Live, Moves(t, l)
    PROVE  KInv'
<1> USE ActorFacts, TurnFacts
<1>0. Client' <=> Client
  BY DEF SameRest, Client
<1>a. /\ ~Starting(t)
      /\ \A b \in Actors : Starting(b)' <=> Starting(b)
      /\ \A b \in Actors : Carries(b)' <=> Carries(b)
      /\ \A b \in Actors, f \in {"s_extend", "s_install", "x_recheck", "x_verify",
                                 "s_drain", "s_state", "none", "clear", "record", "emit"} :
           pc'[b] = f <=> pc[b] = f
  BY DEF Moves, Live, Starting, Carries, TaskPcs, AbortPcs, SameFrames, SameFrame
<1>1. PcInv'
  BY <1>0 DEF KInv, PcInv, MailInv, SameRest, Moves, Live, WorkerPcs
<1>2. FreeInv' /\ SoleInv' /\ ApartInv'
  BY <1>a DEF KInv, FreeInv, SoleInv, ApartInv, SameFrames, SameFrame, SameSlot, Finishing
<1>3. HoldInv'
  BY <1>0, <1>a DEF KInv, HoldInv, SameFrames, SameFrame, SameSlot
<1>4. NextInv'
  BY <1>a DEF KInv, NextInv, SameFrames, SameFrame, SameSlot
<1>5. TsInv'
  BY <1>0, <1>a DEF KInv, TsInv, SameFrames, SameFrame, SameSlot, Moves
<1>6. LiveInv'
  BY <1>a DEF KInv, TypeOK, LiveInv, SameFrames, SameFrame, SameSlot, SameRest, Moves, Live, Finishing
<1>7. AbortInv' /\ TermInv'
  BY DEF KInv, AbortInv, TermInv, SameFrames, SameFrame, SameSlot, SameRest, Moves,
         Live, Chain, TaskPcs, AbortPcs
<1>8. StopInv'
  BY DEF KInv, StopInv, SameFrames, SameFrame, SameSlot, SameRest, Moves
<1> QED BY <1>1, <1>2, <1>3, <1>4, <1>5, <1>6, <1>7, <1>8 DEF KInv

-----------------------------------------------------------------------------
(***************************************************************************)
(* The worker.                                                             *)
(***************************************************************************)
LEMMA DrainTypes ==
    ASSUME TypeOK
    PROVE  /\ Drainable \subseteq Items
           /\ DrainPending => /\ mailbox' \subseteq mailbox
                              /\ pending' \in [States -> SUBSET Items]
<1>1. Drainable \subseteq Items
  BY DEF Drainable, TypeOK, Items, Mail
<1> QED BY <1>1 DEF DrainPending, TypeOK

(* Replacing the items of one frame keeps the types and the control.       *)
LEMMA ItemsFrame ==
    ASSUME TypeOK, NEW a \in Actors, NEW S \in SUBSET Items,
           frame' = [frame EXCEPT ![a].items = S]
    PROVE  /\ frame' \in [Actors -> Frame]
           /\ SameFrames
           /\ frame'[a].items = S
           /\ \A b \in Actors : b # a => frame'[b] = frame[b]
  BY DEF TypeOK, Frame, SameFrames, SameFrame

LEMMA SameFrameIsSame ==
    ASSUME frame' = frame
    PROVE  SameFrames
  BY DEF SameFrames, SameFrame

LEMMA GotoMoves ==
    ASSUME TypeOK, NEW a \in Actors, NEW l, Goto(a, l)
    PROVE  /\ Moves(a, l)
           /\ l \in WorkerPcs \cup AbortPcs \cup StartPcs \cup ExtPcs \cup {"idle"} =>
                pc' \in [Actors -> WorkerPcs \cup AbortPcs \cup StartPcs \cup ExtPcs
                                   \cup {"idle"}]
  BY DEF TypeOK, Goto, Moves

LEMMA WStartKeeps ==
    ASSUME KInv, NEW t \in Turns, WStart(t)
    PROVE  KInv'
<1> USE ActorFacts
<1>0. TypeOK
  BY DEF KInv
<1>1. TypeOK'
  BY <1>0, GotoMoves DEF TypeOK, WStart, dataVars, WorkerPcs
<1>2. MailInv'
  BY KeepsMail DEF WStart, dataVars
<1>3. SameFrames /\ SameSlot /\ SameRest
  BY SameFrameIsSame DEF WStart, SameSlot, SameRest, dataVars
<1>4. Moves(t, "run") /\ pc[t] \in Live /\ "run" \in Live
  BY <1>0, GotoMoves DEF WStart, Live
<1> QED BY <1>1, <1>2, <1>3, <1>4, LiveMove

LEMMA WQuietKeeps ==
    ASSUME KInv, NEW t \in Turns,
           WRecordInput(t) \/ WFail(t) \/ WFinal(t) \/ WToolCall(t)
    PROVE  KInv'
<1> USE ActorFacts
<1>0. TypeOK
  BY DEF KInv
<1>1. TypeOK'
  <2>1. CASE WRecordInput(t)
    BY <1>0, <2>1 DEF TypeOK, WRecordInput
  <2>2. CASE WFail(t)
    BY <1>0, <2>2 DEF TypeOK, WFail
  <2>3. CASE WFinal(t)
    BY <1>0, <2>3 DEF TypeOK, WFinal, turnVars
  <2>4. CASE WToolCall(t)
    BY <1>0, <2>4 DEF TypeOK, WToolCall, turnVars
  <2> QED BY <2>1, <2>2, <2>3, <2>4
<1>2. MailInv'
  BY KeepsMail DEF WRecordInput, WFail, WFinal, WToolCall
<1>3. SameFrames /\ SameSlot /\ SameRest /\ pc' = pc
  BY SameFrameIsSame DEF WRecordInput, WFail, WFinal, WToolCall, SameSlot, SameRest, turnVars
<1> QED BY <1>1, <1>2, <1>3, QuietStep

LEMMA WDrainKeeps ==
    ASSUME KInv, NEW t \in Turns, WDrain(t)
    PROVE  KInv'
<1> USE ActorFacts
<1>0. TypeOK
  BY DEF KInv
<1>1. frame' \in [Actors -> Frame] /\ SameFrames
  BY <1>0, ItemsFrame, DrainTypes DEF WDrain
<1>2. TypeOK'
  BY <1>0, <1>1, GotoMoves, DrainTypes DEF TypeOK, WDrain, turnVars, WorkerPcs, Frame, Mail
<1>3. MailInv'
  BY <1>0, KeepsMail, DrainTypes DEF WDrain
<1>4. SameSlot /\ SameRest
  BY DEF WDrain, SameSlot, SameRest, turnVars
<1>5. Moves(t, "hooks") /\ pc[t] \in Live /\ "hooks" \in Live
  BY <1>0, GotoMoves DEF WDrain, Live
<1> QED BY <1>1, <1>2, <1>3, <1>4, <1>5, LiveMove

LEMMA WRecordKeeps ==
    ASSUME KInv, NEW t \in Turns, WRecord(t)
    PROVE  KInv'
<1> USE ActorFacts
<1>0. TypeOK
  BY DEF KInv
<1>1. frame' \in [Actors -> Frame] /\ SameFrames
  <2>1. {} \in SUBSET Items
    OBVIOUS
  <2>2. frame' = [frame EXCEPT ![t].items = {}]
    BY DEF WRecord
  <2> QED BY <1>0, <2>1, <2>2, ItemsFrame
<1>2. TypeOK'
  BY <1>0, <1>1, GotoMoves DEF TypeOK, WRecord, turnVars, WorkerPcs, Frame
<1>3. MailInv'
  BY <1>0, KeepsMail DEF WRecord
<1>4. SameSlot /\ SameRest
  BY DEF WRecord, SameSlot, SameRest, turnVars
<1>5. Moves(t, "run") /\ pc[t] \in Live /\ "run" \in Live
  BY <1>0, GotoMoves DEF WRecord, Live
<1> QED BY <1>1, <1>2, <1>3, <1>4, <1>5, LiveMove

LEMMA WReturnKeeps ==
    ASSUME KInv, NEW t \in Turns, WReturnOk(t) \/ WReturnErr(t)
    PROVE  KInv'
<1> USE ActorFacts
<1>0. TypeOK
  BY DEF KInv
<1>1. TypeOK'
  <2>1. CASE WReturnOk(t)
    BY <1>0, <2>1, GotoMoves DEF TypeOK, WReturnOk, turnVars, dataVars, WorkerPcs
  <2>2. CASE WReturnErr(t)
    BY <1>0, <2>2, GotoMoves DEF TypeOK, WReturnErr, WorkerPcs
  <2> QED BY <2>1, <2>2
<1>2. MailInv'
  BY KeepsMail DEF WReturnOk, WReturnErr, dataVars
<1>3. SameFrames /\ SameSlot /\ SameRest
  BY SameFrameIsSame DEF WReturnOk, WReturnErr, SameSlot, SameRest, turnVars, dataVars
<1>4. Moves(t, "returned") /\ pc[t] \in Live /\ "returned" \in Live
  BY <1>0, GotoMoves DEF WReturnOk, WReturnErr, Live
<1> QED BY <1>1, <1>2, <1>3, <1>4, LiveMove

(* A worker that is not in the slot any more ends.                         *)
LEMMA EndMove ==
    ASSUME NEW t \in Turns, KInv, TypeOK', MailInv',
           \A b \in Actors : b # t => SameFrame(b),
           SameSlot, SameRest,
           pc[t] \in Live, active.task # t, Moves(t, "ended")
    PROVE  KInv'
<1> USE ActorFacts, TurnFacts
<1>0. Client' <=> Client
  BY DEF SameRest, Client
<1>a. /\ ~Starting(t)
      /\ \A b \in Actors : Starting(b)' <=> Starting(b)
      /\ \A b \in Actors : Carries(b)' <=> Carries(b)
      /\ \A b \in Actors, f \in {"s_extend", "s_install", "x_recheck", "x_verify",
                                 "s_drain", "s_state", "none", "clear", "record", "emit"} :
           pc'[b] = f <=> pc[b] = f
      /\ pc[Loop] = "abort_wait" /\ frame[Loop].turn = t
  BY DEF Moves, Live, Starting, Carries, TaskPcs, AbortPcs, SameFrame, KInv, LiveInv
<1>b. \A b \in Actors : pc[b] \notin Live => SameFrame(b)
  OBVIOUS
<1>1. PcInv'
  BY <1>0 DEF KInv, PcInv, MailInv, SameRest, Moves, Live, WorkerPcs
<1>2. FreeInv' /\ SoleInv' /\ ApartInv'
  BY <1>a, <1>b DEF KInv, FreeInv, SoleInv, ApartInv, SameFrame, SameSlot, Finishing, Live
<1>3. HoldInv'
  BY <1>0, <1>a, <1>b DEF KInv, HoldInv, SameFrame, SameSlot, Live
<1>4. NextInv'
  BY <1>a DEF KInv, NextInv, SameFrame, SameSlot, Live, Carries, Starting, TaskPcs, AbortPcs
<1>5. TsInv'
  BY <1>0, <1>a DEF KInv, TsInv, SameFrame, SameSlot, Moves, Live
<1>6. LiveInv'
  <2>1. active.task \in Turns \cup {NoTurn}
    BY DEF KInv, TypeOK
  <2> QED BY <1>a, <2>1 DEF KInv, LiveInv, SameFrame, SameSlot, SameRest, Moves, Live, Finishing
<1>7. AbortInv' /\ TermInv'
  BY <1>a DEF KInv, AbortInv, TermInv, SameFrame, SameSlot, SameRest, Moves,
         Live, Chain, TaskPcs, AbortPcs
<1>8. StopInv'
  BY DEF KInv, StopInv, SameFrame, SameSlot, SameRest, Moves
<1> QED BY <1>1, <1>2, <1>3, <1>4, <1>5, <1>6, <1>7, <1>8 DEF KInv

(* What Return leaves.                                                     *)
LEMMA ReturnMoves ==
    ASSUME TypeOK, NEW a \in Actors, Return(a)
    PROVE  /\ Moves(a, IF a \in Turns THEN "ended" ELSE "idle")
           /\ pc' \in [Actors -> WorkerPcs \cup AbortPcs \cup StartPcs \cup ExtPcs
                                 \cup {"idle"}]
           /\ frame' \in [Actors -> Frame]
           /\ \A b \in Actors : b # a => SameFrame(b)
           /\ \A b \in Actors : b # a => frame'[b] = frame[b]
           /\ frame'[a] = EmptyFrame
  BY DEF TypeOK, Return, Rest, Moves, Frame, EmptyFrame, SameFrame, WorkerPcs

LEMMA WCheckKeeps ==
    ASSUME KInv, NEW t \in Turns, WCheck(t)
    PROVE  KInv'
<1> USE ActorFacts
<1>0. TypeOK
  BY DEF KInv
<1>1. TypeOK'
  <2>1. (IF cancelled[t] THEN "ended" ELSE "take") \in WorkerPcs
    BY DEF WorkerPcs
  <2> QED BY <1>0, <2>1, GotoMoves DEF TypeOK, WCheck, turnVars, dataVars
<1>2. MailInv'
  BY KeepsMail DEF WCheck, dataVars
<1>3. SameFrames /\ SameSlot /\ SameRest
  BY SameFrameIsSame DEF WCheck, SameSlot, SameRest, turnVars, dataVars
<1>4. CASE cancelled[t]
  <2>1. Moves(t, "ended") /\ pc[t] \in Live
    BY <1>0, <1>4, GotoMoves DEF WCheck, Live
  <2>2. active.task # t
    BY <1>4 DEF KInv, LiveInv
  <2> QED BY <1>1, <1>2, <1>3, <2>1, <2>2, EndMove DEF SameFrames
<1>5. CASE ~cancelled[t]
  <2>1. Moves(t, "take") /\ pc[t] \in Live /\ "take" \in Live
    BY <1>0, <1>5, GotoMoves DEF WCheck, Live
  <2> QED BY <1>1, <1>2, <1>3, <2>1, LiveMove
<1> QED BY <1>4, <1>5

LEMMA FTakeKeeps ==
    ASSUME KInv, NEW t \in Turns, FTake(t)
    PROVE  KInv'
<1> USE ActorFacts, TurnFacts
<1>0. TypeOK /\ pc[t] = "take"
  BY DEF KInv, FTake
<1>2. MailInv'
  BY KeepsMail DEF FTake, dataVars
<1>3. SameRest /\ nextTs' = nextTs /\ kind' = kind
  BY DEF FTake, SameRest, turnVars, dataVars
<1>4. CASE active.task = NoTurn
  <2>1. Return(t) /\ active' = active
    BY <1>4 DEF FTake
  <2>2. TypeOK'
    BY <1>0, <2>1, ReturnMoves DEF TypeOK, Frame, FTake, turnVars, dataVars
  <2>3. Moves(t, "ended") /\ pc[t] \in Live /\ SameSlot /\ active.task # t
    BY <1>0, <1>3, <1>4, <2>1, ReturnMoves DEF Live, SameSlot
  <2> QED BY <1>0, <1>2, <1>3, <2>1, <2>2, <2>3, EndMove, ReturnMoves
<1>5. CASE active.task # NoTurn
  <2>1. /\ active' = [active EXCEPT !.task = NoTurn]
        /\ frame' = [frame EXCEPT ![t].ts = active.ts]
        /\ Goto(t, "record")
    BY <1>5 DEF FTake
  <2>2. /\ active'.ts = active.ts /\ active'.task = NoTurn
        /\ active.ts \in States /\ active.task = t
    BY <1>0, <1>5, <2>1 DEF TypeOK, NoActive, KInv, LiveInv, AbortInv, Live, AbortPcs
  <2>3. /\ frame' \in [Actors -> Frame] /\ frame'[t].ts = active.ts
        /\ \A b \in Actors : b # t => SameFrame(b)
    <3>1. frame \in [Actors -> Frame] /\ active.ts \in States \cup {0} /\ t \in Actors
      BY <1>0 DEF TypeOK, Frame
    <3>2. /\ frame' \in [Actors -> Frame]
          /\ frame'[t].ts = active.ts
          /\ \A b \in Actors : b # t => frame'[b] = frame[b]
      BY <2>1, <3>1 DEF Frame
    <3> QED BY <3>2 DEF SameFrame
  <2>4. /\ Moves(t, "record")
        /\ pc' \in [Actors -> WorkerPcs \cup AbortPcs \cup StartPcs \cup ExtPcs \cup {"idle"}]
    BY <1>0, <2>1, GotoMoves DEF WorkerPcs
  <2>5. active' \in [ts : States \cup {0}, task : Turns \cup {NoTurn}] /\ active'.ts # 0
    BY <1>0, <2>1, <2>2 DEF TypeOK
  <2>6. TypeOK'
    BY <1>0, <2>3, <2>4, <2>5 DEF TypeOK, Frame, FTake, turnVars, dataVars
  <2>7. Client' <=> Client
    BY <1>3 DEF SameRest, Client
  <2>8. \A b \in Actors : ~Starting(b) /\ ~Starting(b)'
    BY <1>0, <1>5, <2>4 DEF KInv, FreeInv, Starting, Moves, TaskPcs
  <2>9. stop = "no" /\ pc[Loop] \notin AbortPcs
    BY <1>5 DEF KInv, StopInv, AbortInv, NoActive
  <2>10. PcInv'
    BY <1>2, <1>3, <2>4, <2>7 DEF KInv, PcInv, MailInv, SameRest, Moves, WorkerPcs
  <2>11. FreeInv' /\ SoleInv' /\ ApartInv'
    BY <2>8 DEF FreeInv, SoleInv, ApartInv
  <2>12. HoldInv'
    BY <2>8 DEF HoldInv, Starting, TaskPcs
  <2>13. NextInv'
    BY <1>0, <1>3, <2>3, <2>4, <2>8, <2>9 DEF KInv, NextInv, Carries, Moves, SameFrame, AbortPcs
  <2>14. TsInv'
    BY <1>0, <1>3, <2>2, <2>3, <2>4, <2>7, <2>8 DEF KInv, TsInv, Carries, Moves, SameFrame, AbortPcs
  <2>15. LiveInv'
    BY <1>0, <1>3, <2>2, <2>3, <2>4 DEF KInv, LiveInv, TypeOK, TsInv, SameFrame, SameRest, Moves, Live, Finishing
  <2>16. AbortInv' /\ StopInv'
    BY <1>0, <1>3, <2>4, <2>9 DEF AbortInv, StopInv, Moves, SameRest
  <2>17. TermInv'
    BY <1>0, <1>3, <2>4, <2>3 DEF KInv, TermInv, Moves, SameRest, SameFrame, Live, Chain, TaskPcs
  <2> QED BY <2>6, <2>10, <2>11, <2>12, <2>13, <2>14, <2>15, <2>16, <2>17 DEF KInv
<1> QED BY <1>4, <1>5

(* A finishing worker goes on; its turn counts its terminal event when it  *)
(* leaves "emit".                                                          *)
LEMMA FinishMove ==
    ASSUME NEW t \in Turns, NEW l \in {"emit", "clear"},
           KInv, TypeOK', MailInv', SameFrames, SameSlot,
           cancelled' = cancelled, stop' = stop, scope' = scope,
           pc[t] \in Finishing, Moves(t, l),
           \A s \in Turns : s # t => terminal'[s] = terminal[s],
           terminal'[t] = IF l = "clear" THEN 1 ELSE 0
    PROVE  KInv'
<1> USE ActorFacts, TurnFacts
<1>0. Client' <=> Client
  BY DEF Client
<1>a. /\ ~Starting(t)
      /\ \A b \in Actors : Starting(b)' <=> Starting(b)
      /\ \A b \in Actors : Carries(b)' <=> Carries(b)
      /\ \A b \in Actors, f \in {"s_extend", "s_install", "x_recheck", "x_verify",
                                 "s_drain", "s_state", "none"} :
           pc'[b] = f <=> pc[b] = f
      /\ \A b \in Actors : pc'[b] \in Finishing <=> pc[b] \in Finishing
      /\ \A b \in Actors : pc'[b] \in Live <=> pc[b] \in Live
  BY DEF Moves, Live, Starting, Carries, TaskPcs, AbortPcs, SameFrames, SameFrame, Finishing
<1>b. pc[Loop] \in AbortPcs => frame[Loop].turn # t
  BY DEF KInv, AbortInv, Live, Finishing, AbortPcs
<1>1. PcInv'
  BY <1>0 DEF KInv, PcInv, MailInv, Moves, WorkerPcs
<1>2. FreeInv' /\ SoleInv' /\ ApartInv'
  BY <1>a DEF KInv, FreeInv, SoleInv, ApartInv, SameFrames, SameFrame, SameSlot
<1>3. HoldInv'
  BY <1>0, <1>a DEF KInv, HoldInv, SameFrames, SameFrame, SameSlot
<1>4. NextInv'
  BY <1>a DEF KInv, NextInv, SameFrames, SameFrame, SameSlot
<1>5. TsInv'
  BY <1>0, <1>a DEF KInv, TsInv, SameFrames, SameFrame, SameSlot, Moves
<1>6. LiveInv'
  BY <1>a DEF KInv, TypeOK, LiveInv, SameFrames, SameFrame, SameSlot, Moves
<1>7. AbortInv'
  BY <1>b DEF KInv, AbortInv, SameFrames, SameFrame, SameSlot, Moves
<1>9. TermInv'
  BY DEF KInv, TermInv, SameFrames, SameFrame, SameSlot, Moves, Live, Chain, TaskPcs
<1>8. StopInv'
  BY DEF KInv, StopInv, SameFrames, SameFrame, SameSlot, Moves
<1> QED BY <1>1, <1>2, <1>3, <1>4, <1>5, <1>6, <1>7, <1>8, <1>9 DEF KInv

LEMMA FRecordKeeps ==
    ASSUME KInv, NEW t \in Turns, FRecord(t)
    PROVE  KInv'
<1> USE ActorFacts
<1>0. TypeOK /\ pc[t] = "record"
  BY DEF KInv, FRecord
<1>a. frame[t].ts \in States
  BY <1>0 DEF TypeOK, KInv, LiveInv, Finishing
<1>1. TypeOK'
  BY <1>0, <1>a, GotoMoves DEF TypeOK, FRecord, turnVars, WorkerPcs
<1>2. MailInv'
  BY KeepsMail DEF FRecord
<1>3. SameFrames /\ SameSlot /\ SameRest /\ terminal[t] = 0
  BY <1>0, SameFrameIsSame DEF FRecord, SameSlot, SameRest, turnVars, KInv, TermInv
<1>4. Moves(t, "emit") /\ pc[t] \in Finishing
  BY <1>0, GotoMoves DEF FRecord, Finishing
<1> QED BY <1>1, <1>2, <1>3, <1>4, FinishMove DEF SameRest

LEMMA FEmitKeeps ==
    ASSUME KInv, NEW t \in Turns, FEmit(t)
    PROVE  KInv'
<1> USE ActorFacts
<1>0. TypeOK /\ pc[t] = "emit" /\ terminal[t] = 0
  BY DEF KInv, FEmit, TermInv
<1>a. /\ terminal' \in [Turns -> 0..2] /\ terminal'[t] = 1
      /\ \A s \in Turns : s # t => terminal'[s] = terminal[s]
  BY <1>0 DEF TypeOK, FEmit
<1>1. TypeOK'
  BY <1>0, <1>a, GotoMoves DEF TypeOK, FEmit, dataVars, WorkerPcs
<1>2. MailInv'
  BY KeepsMail DEF FEmit, dataVars
<1>3. SameFrames /\ SameSlot /\ cancelled' = cancelled /\ stop' = stop /\ scope' = scope
  BY SameFrameIsSame DEF FEmit, SameSlot, dataVars
<1>4. Moves(t, "clear") /\ pc[t] \in Finishing
  BY <1>0, GotoMoves DEF FEmit, Finishing
<1> QED BY <1>1, <1>2, <1>3, <1>4, <1>a, FinishMove

LEMMA FClearKeeps ==
    ASSUME KInv, NEW t \in Turns, FClear(t)
    PROVE  KInv'
<1> USE ActorFacts, TurnFacts
<1> DEFINE l == IF active.task = NoTurn /\ active.ts = frame[t].ts THEN "m_check" ELSE "ended"
<1>0. TypeOK /\ pc[t] = "clear"
  BY DEF KInv, FClear
<1>1. MailInv'
  BY KeepsMail DEF FClear, dataVars
<1>2. SameRest /\ nextTs' = nextTs /\ kind' = kind
  BY DEF FClear, SameRest, turnVars, dataVars
<1>3. /\ \/ active' = active
         \/ active' = NoActive /\ active.task = NoTurn /\ active.ts = frame[t].ts
      /\ Moves(t, l) /\ l \in {"m_check", "ended"}
      /\ frame' \in [Actors -> Frame]
      /\ \A b \in Actors : b # t => SameFrame(b)
  <2>1. CASE active.task = NoTurn /\ active.ts = frame[t].ts
    <3>1. active' = NoActive /\ Goto(t, "m_check") /\ frame' = [frame EXCEPT ![t] = EmptyFrame]
      BY <2>1 DEF FClear
    <3>2. /\ frame' \in [Actors -> Frame]
          /\ \A b \in Actors : b # t => frame'[b] = frame[b]
      BY <1>0, <3>1 DEF TypeOK, Frame, EmptyFrame
    <3> QED BY <1>0, <2>1, <3>1, <3>2, GotoMoves DEF SameFrame
  <2>2. CASE ~(active.task = NoTurn /\ active.ts = frame[t].ts)
    <3>1. active' = active /\ Return(t)
      BY <2>2 DEF FClear
    <3> QED BY <1>0, <2>2, <3>1, ReturnMoves
  <2> QED BY <2>1, <2>2
<1> HIDE DEF l
<1>4. TypeOK'
  <2>1. pc' \in [Actors -> WorkerPcs \cup AbortPcs \cup StartPcs \cup ExtPcs \cup {"idle"}]
    <3>1. Goto(t, "m_check") \/ Return(t)
      BY DEF FClear
    <3> QED BY <1>0, <3>1, GotoMoves, ReturnMoves DEF StartPcs
  <2> QED BY <1>0, <1>3, <2>1 DEF TypeOK, Frame, FClear, turnVars, dataVars, NoActive
<1>5. Client' <=> Client
  BY <1>2 DEF SameRest, Client
<1>6. /\ ~Starting(t)
      /\ \A b \in Actors : Starting(b)' <=> Starting(b)
      /\ \A b \in Actors : Starting(b) => active' = active
      /\ \A b \in Actors : Carries(b)' <=> Carries(b)
      /\ \A b \in Actors, f \in {"s_extend", "s_install", "x_recheck", "x_verify",
                                 "s_drain", "s_state", "none", "spawned", "run", "hooks",
                                 "returned", "take", "record", "emit"} :
           pc'[b] = f <=> pc[b] = f
      /\ \A b \in Actors : pc'[b] \in Finishing => b # t /\ pc[b] \in Finishing
  <2>1. \A b \in Actors : Starting(b) => active' = active
    BY <1>0, <1>3 DEF KInv, ApartInv, Finishing
  <2> QED BY <1>0, <1>3, <2>1 DEF Moves, Starting, Carries, TaskPcs, AbortPcs, SameFrame, Finishing
<1>7. PcInv'
  BY <1>1, <1>2, <1>3, <1>5 DEF KInv, PcInv, MailInv, Moves, WorkerPcs, Chain, SameRest
<1>8. FreeInv' /\ SoleInv'
  BY <1>6 DEF KInv, FreeInv, SoleInv
<1>9. ApartInv'
  BY <1>6, <1>3 DEF KInv, ApartInv, SameFrame
<1>10. HoldInv'
  BY <1>0, <1>3, <1>5, <1>6 DEF KInv, HoldInv, SameFrame, Starting, TaskPcs
<1>11. NextInv'
  BY <1>0, <1>2, <1>3, <1>6 DEF KInv, NextInv, SameFrame, Carries, Starting, TaskPcs, AbortPcs
<1>12. TsInv'
  <2>1. TsInv /\ nextTs \in Nat /\ active.ts \in Nat
    BY <1>0 DEF KInv, TypeOK, States
  <2>2. active'.ts < nextTs'
    BY <1>2, <1>3, <2>1 DEF TsInv
  <2>3. \A s \in Turns : kind'[s] = "unused" => nextTs' <= s /\ pc'[s] = "none"
    BY <1>0, <1>2, <1>6, <2>1 DEF TsInv
  <2>4. Client' /\ Carries(Loop)' /\ pc'[Loop] \notin {"s_extend", "s_install"} =>
          nextTs' <= frame'[Loop].next
    BY <1>2, <1>3, <1>5, <1>6, <2>1 DEF TsInv, SameFrame
  <2> QED BY <1>2, <2>1, <2>2, <2>3, <2>4 DEF TsInv
<1>13. LiveInv'
  BY <1>0, <1>2, <1>3, <1>6 DEF KInv, LiveInv, TypeOK, SameFrame, SameRest, Moves, Live, Finishing
<1>14. AbortInv'
  BY <1>0, <1>2, <1>3, <1>6 DEF KInv, AbortInv, SameFrame, SameRest, Moves, Live, AbortPcs
<1>15. TermInv'
  BY <1>0, <1>2, <1>3 DEF KInv, TermInv, Moves, SameRest, SameFrame, Live, Chain, TaskPcs
<1>16. StopInv'
  BY <1>0, <1>2, <1>3 DEF KInv, StopInv, Moves, SameRest, SameFrame
<1> QED BY <1>4, <1>7, <1>8, <1>9, <1>10, <1>11, <1>12, <1>13, <1>14, <1>15, <1>16 DEF KInv

-----------------------------------------------------------------------------
(***************************************************************************)
(* Starting a turn.                                                        *)
(***************************************************************************)
(* An actor that has nothing at stake in the slot moves on.                *)
LEMMA SideMove ==
    ASSUME NEW a \in Actors, NEW l \in {"idle", "m_check", "m_reserve", "x_reserve", "ended"},
           KInv, TypeOK', PcInv', \A b \in Actors : b # a => SameFrame(b),
           SameSlot, SameRest, Moves(a, l),
           pc[a] \in {"idle", "m_check", "m_reserve", "x_reserve"},
           a = Loop => l \in {"idle", "m_check"} \/ stop = "no"
    PROVE  KInv'
<1> USE ActorFacts, TurnFacts
<1>0. Client' <=> Client
  BY DEF SameRest, Client
<1>a. /\ ~Starting(a) /\ ~Carries(a)
      /\ \A b \in Actors : Starting(b)' <=> Starting(b)
      /\ \A b \in Actors : Carries(b)' <=> Carries(b)
      /\ \A b \in Actors, f \in {"s_extend", "s_install", "x_recheck", "x_verify",
                                 "s_drain", "s_state", "none", "clear", "record", "emit",
                                 "abort_wait", "abort_emit", "abort_clear"} :
           pc'[b] = f <=> pc[b] = f
      /\ \A b \in Actors : pc'[b] \in Live <=> pc[b] \in Live
      /\ pc[a] \notin Live /\ pc[a] \notin Finishing /\ pc[a] \notin AbortPcs
  BY DEF Moves, Live, Starting, Carries, TaskPcs, AbortPcs, SameFrame, Finishing
<1>b. \A t \in Turns : t = a => terminal[t] = 1 /\ pc[t] \in Chain /\ l \in Chain \cup {"ended"}
  <2> SUFFICES ASSUME a \in Turns
               PROVE  terminal[a] = 1 /\ pc[a] \in Chain /\ l \in Chain \cup {"ended"}
    OBVIOUS
  <2>1. pc[a] \in Chain /\ l \in Chain \cup {"ended"}
    BY <1>0 DEF KInv, PcInv, WorkerPcs, Chain, TaskPcs, Moves
  <2> QED BY <2>1 DEF KInv, TermInv
<1>2. FreeInv' /\ SoleInv' /\ ApartInv'
  BY <1>a DEF KInv, FreeInv, SoleInv, ApartInv, SameFrame, SameSlot, Finishing
<1>3. HoldInv'
  BY <1>0, <1>a DEF KInv, HoldInv, SameFrame, SameSlot
<1>4. NextInv'
  BY <1>a DEF KInv, NextInv, SameFrame, SameSlot
<1>5. TsInv'
  BY <1>0, <1>a DEF KInv, TsInv, SameFrame, SameSlot, Moves
<1>6. LiveInv'
  <2>1. active.task \in Turns \cup {NoTurn}
    BY DEF KInv, TypeOK
  <2>2. \A t \in Turns : pc'[t] \in Finishing => SameFrame(t)
    BY <1>a DEF Finishing
  <2> QED BY <1>a, <2>1, <2>2 DEF KInv, LiveInv, SameFrame, SameSlot, SameRest, Finishing
<1>7. AbortInv'
  BY <1>a DEF KInv, AbortInv, SameFrame, SameSlot, SameRest, Moves, AbortPcs, Live
<1>9. TermInv'
  BY <1>a, <1>b DEF KInv, TermInv, SameFrame, SameSlot, SameRest, Moves, AbortPcs, Live, Chain, TaskPcs
<1>8. StopInv'
  BY <1>a DEF KInv, StopInv, SameFrame, SameSlot, SameRest, Moves, AbortPcs
<1> QED BY <1>2, <1>3, <1>4, <1>5, <1>6, <1>7, <1>8, <1>9 DEF KInv

(* An actor that has the slot to itself goes on without touching it.       *)
LEMMA TaskMove ==
    ASSUME NEW a \in Actors, NEW l,
           KInv, TypeOK', SameFrames, SameSlot, SameRest, MailInv', Moves(a, l),
           \/ pc[a] = "s_drain" /\ l = "s_state"
           \/ pc[a] = "s_extend" /\ l = "s_install"
           \/ pc[a] = "x_recheck" /\ l = "x_verify"
           \/ pc[a] = "x_verify" /\ l = "s_drain"
    PROVE  KInv'
<1> USE ActorFacts, TurnFacts
<1>0. Client' <=> Client
  BY DEF SameRest, Client
<1>a. /\ Starting(a)
      /\ \A b \in Actors : Starting(b)' <=> Starting(b)
      /\ \A b \in Actors : Carries(b)' <=> Carries(b)
      /\ \A b \in Actors, f \in {"none", "clear", "record", "emit", "ended", "killed",
                                 "abort_wait", "abort_emit", "abort_clear"} :
           pc'[b] = f <=> pc[b] = f
      /\ \A b \in Actors : pc'[b] \in Live <=> pc[b] \in Live
      /\ \A b \in Actors : pc'[b] \in Finishing <=> pc[b] \in Finishing
      /\ pc[a] \notin Live /\ pc[a] \notin Finishing /\ pc[a] \notin AbortPcs
  BY DEF Moves, Live, Starting, Carries, TaskPcs, AbortPcs, SameFrames, SameFrame, Finishing
<1>b. pc[a] = "x_verify" \/ pc[a] = "x_recheck" => a = Ext /\ ~Client
  BY DEF KInv, PcInv, WorkerPcs, Chain, TaskPcs, AbortPcs
<1>1. PcInv'
  BY <1>0, <1>b DEF KInv, PcInv, MailInv, SameRest, Moves, WorkerPcs, Chain, TaskPcs, Passing, AbortPcs
<1>2. FreeInv' /\ SoleInv' /\ ApartInv'
  BY <1>a DEF KInv, FreeInv, SoleInv, ApartInv, SameFrames, SameFrame, SameSlot
<1>3. HoldInv'
  BY <1>0, <1>b DEF KInv, HoldInv, SameFrames, SameFrame, SameSlot, Moves
<1>4. NextInv'
  BY <1>a DEF KInv, NextInv, SameFrames, SameFrame, SameSlot
<1>5. TsInv'
  BY <1>0, <1>a, <1>b DEF KInv, TsInv, SameFrames, SameFrame, SameSlot, Moves
<1>6. LiveInv'
  BY <1>a DEF KInv, TypeOK, LiveInv, SameFrames, SameFrame, SameSlot, SameRest, Moves
<1>7. AbortInv'
  BY <1>a DEF KInv, AbortInv, SameFrames, SameFrame, SameSlot, SameRest, Moves, AbortPcs, Live
<1>9. TermInv'
  BY <1>a, <1>b DEF KInv, TermInv, SameFrames, SameFrame, SameSlot, SameRest, Moves, Chain, TaskPcs
<1>8. StopInv'
  BY <1>a DEF KInv, StopInv, SameFrames, SameFrame, SameSlot, SameRest, Moves, AbortPcs
<1> QED BY <1>1, <1>2, <1>3, <1>4, <1>5, <1>6, <1>7, <1>8, <1>9 DEF KInv

(* An actor reserves the empty slot for a new turn, under agents only.     *)
LEMMA ReserveMove ==
    ASSUME NEW a \in Actors, NEW l, NEW t \in Unused,
           KInv, ~Client, SameRest, Moves(a, l),
           \A b \in Actors : b # a => SameFrame(b),
           \/ pc[a] = "m_reserve" /\ l = "s_drain"
           \/ pc[a] = "x_reserve" /\ l = "x_recheck" /\ frame'[a].ts = nextTs,
           frame'[a].next = t,
           active.ts = 0, active'.ts = nextTs, active'.task = NoTurn,
           nextTs' = nextTs + 1, kind' = [kind EXCEPT ![t] = "Regular"],
           TypeOK'
    PROVE  KInv'
<1> USE ActorFacts, TurnFacts
<1>0. ~Client'
  BY DEF SameRest, Client
<1>t. TypeOK /\ nextTs \in Nat /\ 1 <= nextTs /\ active.task = NoTurn
  BY DEF KInv, TypeOK, NoActive
<1>u. /\ t \in Turns /\ kind[t] = "unused" /\ nextTs <= t
      /\ \A s \in Turns : s < t => kind[s] # "unused"
  BY <1>t, ScopesAssumption DEF Unused, Turns, TypeOK, KInv, TsInv
<1>a. /\ \A b \in Actors : ~Starting(b)
      /\ \A b \in Actors : Starting(b)' <=> b = a
      /\ pc[Loop] \notin AbortPcs /\ pc[Loop] # "u_abort"
      /\ \A b \in Actors : Carries(b)' => b = a
      /\ \A b \in Actors, f \in {"none", "clear", "record", "emit", "ended", "killed"} :
           pc'[b] = f <=> pc[b] = f
      /\ \A b \in Actors : pc'[b] \in Live <=> pc[b] \in Live
      /\ \A b \in Actors : pc'[b] \in Finishing <=> pc[b] \in Finishing
      /\ pc[a] \notin Live /\ pc[a] \notin Finishing
  <2>1. \A b \in Actors : ~Starting(b)
    BY DEF KInv, HoldInv, Starting, TaskPcs
  <2>2. /\ \A b \in Actors : pc[b] \notin AbortPcs /\ pc[b] # "u_abort"
    BY DEF KInv, PcInv, AbortPcs, Chain, TaskPcs, Passing, WorkerPcs
  <2> QED BY <2>1, <2>2 DEF Moves, Live, Starting, Carries, TaskPcs, AbortPcs, SameFrame, Finishing
<1>b. pc[a] = "x_reserve" => a = Ext
  BY DEF KInv, PcInv, WorkerPcs, Chain, TaskPcs, AbortPcs
<1>k. /\ kind'[t] = "Regular" /\ \A s \in Turns : s # t => kind'[s] = kind[s]
      /\ pc'[t] = "none"
  BY <1>t, <1>u, <1>a DEF TypeOK, KInv, TsInv
<1>1. PcInv'
  BY <1>0, <1>b DEF KInv, PcInv, SameRest, Moves, Chain, TaskPcs, Passing, WorkerPcs
<1>2. FreeInv' /\ SoleInv'
  BY <1>a DEF FreeInv, SoleInv
<1>3. ApartInv'
  BY <1>a, <1>t DEF KInv, LiveInv, ApartInv, SameFrame, Finishing
<1>4. HoldInv'
  BY <1>0, <1>a, <1>t DEF HoldInv, Moves, Starting, TaskPcs
<1>5. NextInv'
  BY <1>a, <1>k, <1>u DEF NextInv
<1>6. TsInv'
  <2>1. nextTs + 1 \in 1..(MaxTurns + 1)
    BY <1>t, <1>u
  <2>2. \A s \in Turns : kind'[s] = "unused" => nextTs + 1 <= s /\ pc'[s] = "none"
    BY <1>t, <1>u, <1>k, <1>a DEF KInv, TsInv
  <2>3. \A r, s \in Turns : r < s /\ kind'[r] = "unused" => kind'[s] = "unused"
    BY <1>t, <1>u, <1>k DEF KInv, TsInv
  <2> QED BY <1>0, <1>t, <2>1, <2>2, <2>3 DEF TsInv
<1>7. LiveInv'
  BY <1>a, <1>t DEF KInv, LiveInv, SameFrame, SameRest, Finishing, AbortPcs
<1>8. AbortInv' /\ StopInv'
  BY <1>0, <1>1 DEF AbortInv, StopInv, PcInv, AbortPcs, Chain, TaskPcs
<1>9. TermInv'
  BY <1>a, <1>b DEF KInv, TermInv, SameRest, Moves, Chain, TaskPcs, AbortPcs
<1> QED BY <1>1, <1>2, <1>3, <1>4, <1>5, <1>6, <1>7, <1>8, <1>9 DEF KInv

(* Procedures of the actors that only the one driver or the other has.     *)
LEMMA AgentPcs ==
    ASSUME KInv, NEW a \in Actors, pc[a] \in {"m_reserve"} \cup Passing
    PROVE  ~Client /\ (pc[a] \in Passing => a = Ext)
  BY ActorFacts DEF KInv, PcInv, WorkerPcs, AbortPcs, TaskPcs, Chain, Passing

LEMMA NotGuardian ==
    ASSUME KInv, NEW a \in Actors, pc[a] # "idle"
    PROVE  a # Guardian
  BY DEF KInv, PcInv

(* An actor returns from maybe_start_turn_for_pending_work or gives up a   *)
(* reservation it did not get.                                             *)
LEMMA ReturnKeeps ==
    ASSUME KInv, NEW a \in Actors, pc[a] \in {"m_check", "m_reserve", "x_reserve"},
           Return(a), UNCHANGED <<active, nextTs, turnVars, dataVars>>
    PROVE  KInv'
<1> USE ActorFacts
<1> DEFINE l == IF a \in Turns THEN "ended" ELSE "idle"
<1>0. TypeOK
  BY DEF KInv
<1>1. /\ Moves(a, l)
      /\ \A b \in Actors : b # a => SameFrame(b)
  BY <1>0, ReturnMoves
<1>2. TypeOK'
  BY <1>0, ReturnMoves DEF TypeOK, Frame, turnVars, dataVars
<1>3. MailInv'
  BY KeepsMail DEF dataVars
<1>4. SameSlot /\ SameRest
  BY DEF SameSlot, SameRest, turnVars, dataVars
<1>5. (a \in Turns => l = "ended") /\ (a \notin Turns => l = "idle")
  OBVIOUS
<1> HIDE DEF l
<1>6. Client' <=> Client
  BY <1>4 DEF SameRest, Client
<1>7. PcInv'
  BY <1>1, <1>3, <1>4, <1>5, <1>6 DEF KInv, PcInv, MailInv, Moves, SameRest, WorkerPcs
<1> QED BY <1>1, <1>2, <1>4, <1>5, <1>7, SideMove

LEMMA MCheckKeeps ==
    ASSUME KInv, NEW a \in Actors, MCheck(a)
    PROVE  KInv'
<1> USE ActorFacts
<1>0. TypeOK /\ pc[a] = "m_check"
  BY DEF KInv, MCheck
<1>1. CASE HasTriggerMail
  <2>1. Goto(a, "m_reserve") /\ frame' = frame /\ ~Client
    BY <1>1 DEF MCheck, KInv, PcInv
  <2>2. TypeOK'
    BY <1>0, <2>1, GotoMoves DEF TypeOK, MCheck, turnVars, dataVars, StartPcs
  <2>3. SameSlot /\ SameRest /\ SameFrames
    BY <2>1, SameFrameIsSame DEF SameSlot, SameRest, turnVars, dataVars, MCheck
  <2>4. Moves(a, "m_reserve")
    BY <1>0, <2>1, GotoMoves
  <2>5. ~Client'
    BY <2>1, <2>3 DEF SameRest, Client
  <2>6. PcInv' /\ stop = "no"
    BY <1>0, <2>1, <2>3, <2>4, <2>5, NotGuardian DEF KInv, PcInv, Moves, SameRest, Chain
  <2> QED BY <1>0, <2>2, <2>3, <2>4, <2>6, SideMove DEF SameFrames
<1>2. CASE ~HasTriggerMail
  BY <1>0, <1>2, ReturnKeeps DEF MCheck
<1> QED BY <1>1, <1>2

(* The frame of a reservation.                                             *)
LEMMA ReserveFrame ==
    ASSUME TypeOK, NEW a \in Actors, NEW t \in Turns,
           frame' = [frame EXCEPT ![a].next = t]
    PROVE  /\ frame' \in [Actors -> Frame]
           /\ \A b \in Actors : b # a => frame'[b] = frame[b] /\ SameFrame(b)
           /\ frame'[a].next = t /\ frame'[a].ts = frame[a].ts
           /\ frame'[a].items = frame[a].items /\ frame'[a].then = frame[a].then
<1>1. frame \in [Actors -> Frame]
  BY DEF TypeOK, Frame
<1> QED BY <1>1 DEF Frame, SameFrame

LEMMA UnusedTurn ==
    ASSUME KInv, NEW t \in Unused
    PROVE  /\ t \in Turns /\ kind[t] = "unused" /\ nextTs <= t /\ pc[t] = "none"
           /\ nextTs \in States /\ nextTs + 1 \in 1..(3 * MaxTurns + 1)
           /\ nextTs \in Nat
<1>1. t \in Turns /\ kind[t] = "unused"
  <2>1. scope \in Scopes
    BY DEF KInv, TypeOK
  <2> QED BY <2>1, ScopesAssumption, TurnsAssumption DEF Unused, Turns
<1> QED BY <1>1, TurnFacts DEF KInv, TsInv, TypeOK, Turns, States

LEMMA MReserveKeeps ==
    ASSUME KInv, NEW a \in Actors, MReserve(a)
    PROVE  KInv'
<1> USE ActorFacts, TurnFacts
<1>0. TypeOK /\ pc[a] = "m_reserve" /\ ~Client
  BY AgentPcs DEF KInv, MReserve
<1>1. CASE active.ts # 0
  BY <1>0, <1>1, ReturnKeeps DEF MReserve, turnVars
<1>2. CASE active.ts = 0
  <2>1. PICK t \in Unused : /\ kind' = [kind EXCEPT ![t] = "Regular"]
                            /\ frame' = [frame EXCEPT ![a].next = t]
    BY <1>2 DEF MReserve
  <2>2. /\ active' = [ts |-> nextTs, task |-> NoTurn] /\ nextTs' = nextTs + 1
        /\ Goto(a, "s_drain")
    BY <1>2 DEF MReserve
  <2>3. t \in Turns /\ nextTs \in States /\ nextTs + 1 \in 1..(3 * MaxTurns + 1)
    BY UnusedTurn
  <2>4. /\ \A b \in Actors : b # a => SameFrame(b)
        /\ frame'[a].next = t
        /\ frame' \in [Actors -> Frame]
    BY <1>0, <2>1, <2>3, ReserveFrame
  <2>5. active' \in [ts : States \cup {0}, task : Turns \cup {NoTurn}] /\ active'.ts # 0
    BY <2>2, <2>3
  <2>6. kind' \in [Turns -> {"unused", "Regular", "Compact"}]
    BY <1>0, <2>1, <2>3 DEF TypeOK
  <2>7. TypeOK'
    BY <1>0, <2>2, <2>3, <2>4, <2>5, <2>6, GotoMoves DEF TypeOK, Frame, StartPcs, MReserve, dataVars
  <2>8. SameRest
    BY DEF MReserve, SameRest, dataVars
  <2>9. Moves(a, "s_drain") /\ active'.ts = nextTs /\ active'.task = NoTurn
    BY <1>0, <2>2, GotoMoves
  <2> QED BY <1>0, <1>2, <2>1, <2>2, <2>4, <2>7, <2>8, <2>9, ReserveMove
<1> QED BY <1>1, <1>2

LEMMA SDrainKeeps ==
    ASSUME KInv, NEW a \in Actors, SDrain(a)
    PROVE  KInv'
<1>0. TypeOK /\ pc[a] = "s_drain"
  BY DEF KInv, SDrain
<1>1. frame' \in [Actors -> Frame] /\ SameFrames
  BY <1>0, ItemsFrame, DrainTypes DEF SDrain
<1>2. TypeOK'
  BY <1>0, <1>1, GotoMoves, DrainTypes DEF TypeOK, SDrain, turnVars, StartPcs, Frame, Mail
<1>3. MailInv'
  BY <1>0, KeepsMail, DrainTypes DEF SDrain
<1>4. SameSlot /\ SameRest
  BY DEF SDrain, SameSlot, SameRest, turnVars
<1>5. Moves(a, "s_state")
  BY <1>0, GotoMoves DEF SDrain
<1> QED BY <1>0, <1>1, <1>2, <1>3, <1>4, <1>5, TaskMove

LEMMA SExtendKeeps ==
    ASSUME KInv, NEW a \in Actors, SExtend(a)
    PROVE  KInv'
<1>0. TypeOK /\ pc[a] = "s_extend"
  BY DEF KInv, SExtend
<1>1. frame' \in [Actors -> Frame] /\ SameFrames
  <2>1. {} \in SUBSET Items
    OBVIOUS
  <2>2. frame' = [frame EXCEPT ![a].items = {}]
    BY DEF SExtend
  <2> QED BY <1>0, <2>1, <2>2, ItemsFrame
<1>2. TypeOK'
  <2>1. frame[a].items \subseteq Items
    BY <1>0 DEF TypeOK
  <2>2. pending' \in [States -> SUBSET Items]
    BY <1>0, <2>1 DEF TypeOK, SExtend
  <2> QED BY <1>0, <1>1, <2>2, GotoMoves DEF TypeOK, SExtend, turnVars, StartPcs, Frame
<1>3. MailInv'
  BY <1>0, KeepsMail DEF SExtend
<1>4. SameSlot /\ SameRest
  BY DEF SExtend, SameSlot, SameRest, turnVars
<1>5. Moves(a, "s_install")
  BY <1>0, GotoMoves DEF SExtend
<1> QED BY <1>0, <1>1, <1>2, <1>3, <1>4, <1>5, TaskMove

LEMMA SStateKeeps ==
    ASSUME KInv, NEW a \in Actors, SState(a)
    PROVE  KInv'
<1> USE ActorFacts, TurnFacts
<1>0. TypeOK /\ pc[a] = "s_state" /\ Starting(a) /\ Carries(a) /\ active.task = NoTurn
  <2>1. pc[a] = "s_state"
    BY DEF SState
  <2>2. Starting(a) /\ Carries(a)
    BY <2>1 DEF Starting, Carries, TaskPcs
  <2> QED BY <2>1, <2>2 DEF KInv, FreeInv
<1>1. MailInv'
  BY KeepsMail DEF SState, dataVars
<1>2. /\ SameRest /\ kind' = kind
      /\ frame' = [frame EXCEPT ![a].ts = active'.ts]
      /\ Goto(a, "s_extend")
  BY DEF SState, SameRest, turnVars, dataVars
<1>3. Moves(a, "s_extend")
  BY <1>0, <1>2, GotoMoves
<1>4. Client' <=> Client
  BY <1>2 DEF SameRest, Client
<1>5. /\ Client <=> active.ts = 0
      /\ Client => a = Loop
      /\ frame[a].next \in Turns /\ kind[frame[a].next] # "unused"
      /\ Client => nextTs <= frame[a].next
      /\ nextTs \in Nat /\ 1 <= nextTs /\ nextTs <= MaxTurns + 1
      /\ active.ts \in Nat /\ active.ts < nextTs
  <2>1. /\ Client <=> active.ts = 0
        /\ frame[a].next \in Turns /\ kind[frame[a].next] # "unused"
        /\ nextTs \in Nat /\ 1 <= nextTs /\ nextTs <= MaxTurns + 1
        /\ active.ts \in Nat /\ active.ts < nextTs
    BY <1>0 DEF KInv, HoldInv, NextInv, TsInv, TypeOK
  <2>2. Client => a = Loop
    BY <1>0 DEF KInv, PcInv, WorkerPcs
  <2> QED BY <1>0, <2>1, <2>2 DEF KInv, TsInv
<1>6. /\ active' = [ts |-> active'.ts, task |-> NoTurn]
      /\ Client => active'.ts = nextTs /\ nextTs' = nextTs + 1
      /\ ~Client => active'.ts = active.ts /\ nextTs' = nextTs
      /\ active'.task = NoTurn
  BY <1>0, <1>5 DEF SState, GetOrInsert, TypeOK
<1>7. /\ active'.ts \in States /\ active'.ts # 0
      /\ active' \in [ts : States \cup {0}, task : Turns \cup {NoTurn}]
      /\ nextTs' \in 1..(MaxTurns + 1) /\ active'.ts < nextTs'
      /\ nextTs' \in 1..(3 * MaxTurns + 1)
  <2>1. nextTs' \in 1..(MaxTurns + 1) /\ active'.ts < nextTs' /\ active'.ts \in States
    BY <1>0, <1>5, <1>6 DEF TypeOK
  <2> QED BY <1>6, <2>1
<1>8. /\ frame' \in [Actors -> Frame] /\ frame'[a].ts = active'.ts
      /\ frame'[a].next = frame[a].next
      /\ \A b \in Actors : b # a => SameFrame(b)
  <2>1. frame \in [Actors -> Frame] /\ active'.ts \in States \cup {0}
    BY <1>0, <1>7 DEF TypeOK, Frame
  <2>2. /\ frame' \in [Actors -> Frame]
        /\ frame'[a].ts = active'.ts /\ frame'[a].next = frame[a].next
        /\ \A b \in Actors : b # a => frame'[b] = frame[b]
    BY <1>2, <2>1 DEF Frame
  <2> QED BY <2>2 DEF SameFrame
<1>9. TypeOK'
  BY <1>0, <1>2, <1>7, <1>8, GotoMoves DEF TypeOK, Frame, StartPcs, SState, turnVars, dataVars
<1>10. /\ \A b \in Actors : Starting(b)' => b = a
       /\ \A b \in Actors : Starting(b) => b = a
       /\ \A b \in Actors : Carries(b)' <=> Carries(b)
       /\ \A b \in Actors, f \in {"none", "clear", "record", "emit", "ended", "killed",
                                  "abort_wait", "abort_emit", "abort_clear"} :
            pc'[b] = f <=> pc[b] = f
       /\ \A b \in Actors : pc'[b] \in Live <=> pc[b] \in Live
       /\ \A b \in Actors : pc'[b] \in Finishing <=> pc[b] \in Finishing
       /\ pc[a] \notin Live /\ pc[a] \notin Finishing /\ pc[a] \notin AbortPcs
  <2>1. \A b \in Actors : Starting(b) => b = a
    BY <1>0 DEF KInv, SoleInv
  <2> QED BY <1>0, <1>3, <1>8, <2>1
          DEF Moves, Live, Starting, Carries, TaskPcs, AbortPcs, SameFrame, Finishing
<1>11. \A t \in Turns : pc[t] \in Finishing =>
          t # a /\ frame'[t].ts = frame[t].ts /\ frame[t].ts # active'.ts
                /\ frame[t].ts \in 1..(nextTs - 1)
  BY <1>0, <1>5, <1>6, <1>8, <1>10 DEF KInv, ApartInv, LiveInv, SameFrame
<1>12. PcInv'
  BY <1>0, <1>1, <1>2, <1>3, <1>4 DEF KInv, PcInv, MailInv, SameRest, Moves, TaskPcs, WorkerPcs
<1>13. FreeInv' /\ SoleInv' /\ ApartInv'
  BY <1>6, <1>10, <1>11 DEF FreeInv, SoleInv, ApartInv
<1>14. HoldInv'
  BY <1>3, <1>7, <1>8, <1>10 DEF HoldInv, Moves, Starting, TaskPcs
<1>15. NextInv'
  BY <1>0, <1>2, <1>8, <1>10 DEF KInv, NextInv, SameFrame
<1>16. TsInv'
  <2>1. \A s \in Turns : kind[s] = "unused" => nextTs' <= s
    BY <1>5, <1>6 DEF KInv, TsInv
  <2>2. Carries(Loop)' /\ Client => pc'[Loop] = "s_extend"
    BY <1>3, <1>5 DEF Moves
  <2> QED BY <1>2, <1>4, <1>7, <1>10, <2>1, <2>2 DEF KInv, TsInv
<1>17. LiveInv'
  BY <1>0, <1>2, <1>3, <1>5, <1>6, <1>7, <1>10, <1>11, <1>8
     DEF KInv, LiveInv, AbortInv, AbortPcs, NoActive, SameRest, SameFrame, Moves
<1>18. AbortInv' /\ StopInv'
  BY <1>0, <1>2, <1>3, <1>5, <1>8, <1>10 DEF KInv, AbortInv, StopInv, PcInv, SameRest, Moves, AbortPcs, TaskPcs, Chain, NoActive
<1>19. TermInv'
  BY <1>0, <1>2, <1>3, <1>8, <1>10 DEF KInv, TermInv, SameRest, SameFrame, Moves, Chain, TaskPcs
<1> QED BY <1>9, <1>12, <1>13, <1>14, <1>15, <1>16, <1>17, <1>18, <1>19 DEF KInv

LEMMA SInstallKeeps ==
    ASSUME KInv, NEW a \in Actors, SInstall(a)
    PROVE  KInv'
<1> USE ActorFacts, TurnFacts
<1>0. TypeOK /\ pc[a] = "s_install" /\ Starting(a) /\ Carries(a) /\ active.task = NoTurn
  <2>1. pc[a] = "s_install"
    BY DEF SInstall
  <2>2. Starting(a) /\ Carries(a)
    BY <2>1 DEF Starting, Carries, TaskPcs
  <2> QED BY <2>1, <2>2 DEF KInv, FreeInv
<1>1. MailInv'
  BY KeepsMail DEF SInstall, dataVars
<1>2. SameRest /\ kind' = kind
  BY DEF SInstall, SameRest, turnVars, dataVars
<1>t. PICK t \in Turns : t = frame[a].next
  BY <1>0 DEF KInv, NextInv
<1>3. /\ t # a /\ kind[t] # "unused" /\ pc[t] = "none"
      /\ active.ts # 0 /\ active.ts \in States
  BY <1>0, <1>t DEF KInv, NextInv, HoldInv, TypeOK
<1>4. /\ nextTs' = nextTs /\ active' = [active EXCEPT !.task = t]
      /\ active'.ts = active.ts /\ active'.task = t
      /\ active' \in [ts : States \cup {0}, task : Turns \cup {NoTurn}]
  BY <1>0, <1>t, <1>3 DEF SInstall, GetOrInsert, TypeOK
<1>5. /\ pc'[t] = "spawned"
      /\ pc'[a] = IF a \in Turns THEN "ended" ELSE "idle"
      /\ \A b \in Actors : b # t /\ b # a => pc'[b] = pc[b]
      /\ pc' \in [Actors -> WorkerPcs \cup AbortPcs \cup StartPcs \cup ExtPcs \cup {"idle"}]
  BY <1>0, <1>t, <1>3 DEF SInstall, Rest, TypeOK, WorkerPcs
<1>6. /\ frame' \in [Actors -> Frame]
      /\ \A b \in Actors : b # a => SameFrame(b)
  <2>1. /\ frame' \in [Actors -> Frame]
        /\ \A b \in Actors : b # a => frame'[b] = frame[b]
    BY <1>0 DEF SInstall, TypeOK, Frame, EmptyFrame
  <2> QED BY <2>1 DEF SameFrame
<1>7. TypeOK'
  BY <1>0, <1>3, <1>4, <1>5, <1>6 DEF TypeOK, Frame, SInstall, turnVars, dataVars
<1>8. Client' <=> Client
  BY <1>2 DEF SameRest, Client
<1>9. /\ \A b \in Actors : Starting(b) => b = a
      /\ \A b \in Actors : ~Starting(b)' /\ ~Carries(b)'
      /\ pc[Loop] \notin AbortPcs
      /\ stop = "no"
      /\ \A b \in Actors : b # t => (pc'[b] \in Live <=> pc[b] \in Live)
      /\ \A b \in Actors : pc'[b] \in Finishing => b # t /\ b # a /\ pc[b] \in Finishing
  <2>1. \A b \in Actors : Starting(b) => b = a
    BY <1>0 DEF KInv, SoleInv
  <2>2. pc[Loop] \notin AbortPcs /\ stop = "no"
    BY <1>0, <1>3 DEF KInv, AbortInv, StopInv, NoActive
  <2>3. \A b \in Actors : b # a => ~Carries(b)
    <3>1. \A b \in Actors : pc[b] \in AbortPcs \cup {"u_abort"} => b = Loop /\ Client
      BY DEF KInv, PcInv, AbortPcs, WorkerPcs, Chain, TaskPcs, Passing
    <3>2. Client => a = Loop
      BY <1>0 DEF KInv, PcInv, WorkerPcs
    <3> QED BY <2>1, <2>2, <3>1, <3>2 DEF Carries
  <2>4. \A b \in Actors : ~Starting(b)' /\ ~Carries(b)'
    <3>1. ~Starting(t)' /\ ~Carries(t)' /\ ~Starting(a)' /\ ~Carries(a)'
      BY <1>5 DEF Starting, Carries, TaskPcs, AbortPcs
    <3> QED BY <1>5, <1>6, <2>3, <3>1 DEF Starting, Carries, SameFrame
  <2>5. \A b \in Actors : b # t => (pc'[b] \in Live <=> pc[b] \in Live)
    BY <1>0, <1>5 DEF Live
  <2>6. \A b \in Actors : pc'[b] \in Finishing => b # t /\ b # a /\ pc[b] \in Finishing
    BY <1>5 DEF Finishing
  <2> QED BY <2>1, <2>2, <2>4, <2>5, <2>6
<1>12. PcInv'
  BY <1>0, <1>1, <1>2, <1>3, <1>5, <1>8 DEF KInv, PcInv, MailInv, SameRest, WorkerPcs
<1>13. FreeInv' /\ SoleInv' /\ ApartInv' /\ NextInv'
  BY <1>9 DEF FreeInv, SoleInv, ApartInv, NextInv
<1>14. HoldInv'
  BY <1>9 DEF HoldInv, Starting, TaskPcs
<1>16. TsInv'
  <2>1. \A s \in Turns : kind[s] = "unused" => s # t /\ s # a /\ pc'[s] = "none"
    BY <1>0, <1>3, <1>5 DEF KInv, TsInv
  <2> QED BY <1>2, <1>4, <1>8, <1>9, <2>1 DEF KInv, TsInv
<1>17. LiveInv'
  <2>1. ~cancelled[t]
    BY <1>3 DEF KInv, LiveInv
  <2>2. \A s \in Turns : s # t => pc'[s] \notin Live
    BY <1>0, <1>9 DEF KInv, LiveInv, AbortPcs
  <2>3. \A s \in Turns : pc'[s] \in Finishing => frame'[s].ts = frame[s].ts /\ frame[s].ts # active.ts
                                                 /\ frame[s].ts \in 1..(nextTs - 1)
    BY <1>0, <1>6, <1>9 DEF KInv, LiveInv, ApartInv, SameFrame
  <2>4. \A s \in Turns : pc'[s] = "none" => ~cancelled[s]
    BY <1>5 DEF KInv, LiveInv
  <2>5. pc'[t] \in Live /\ ~(t \in {NoTurn}) /\ cancelled' = cancelled
    BY <1>2, <1>5 DEF Live, SameRest
  <2> QED BY <1>3, <1>4, <2>1, <2>2, <2>3, <2>4, <2>5 DEF LiveInv
<1>18. AbortInv' /\ StopInv'
  BY <1>2, <1>3, <1>5, <1>9 DEF AbortInv, StopInv, SameRest, AbortPcs
<1>19. TermInv'
  BY <1>0, <1>2, <1>3, <1>5, <1>9 DEF KInv, TermInv, SameRest, Live, Chain, TaskPcs, AbortPcs
<1> QED BY <1>7, <1>12, <1>13, <1>14, <1>16, <1>17, <1>18, <1>19 DEF KInv

-----------------------------------------------------------------------------
(***************************************************************************)
(* The extension.                                                          *)
(***************************************************************************)
LEMMA XBeginKeeps ==
    ASSUME KInv, OneDriver, NEW e \in ExtItems, XBegin(e)
    PROVE  KInv'
<1> USE ActorFacts
<1>0. TypeOK /\ pc[Ext] = "idle" /\ ~Client
  BY DriverOps DEF KInv, TypeOK, XBegin
<1>1. frame' \in [Actors -> Frame] /\ SameFrames
  <2>1. {e} \in SUBSET Items
    BY DEF Items
  <2>2. frame' = [frame EXCEPT ![Ext].items = {e}]
    BY DEF XBegin
  <2> QED BY <1>0, <2>1, <2>2, ItemsFrame
<1>2. TypeOK'
  BY <1>0, <1>1, GotoMoves DEF TypeOK, XBegin, turnVars, dataVars, ExtPcs, Frame
<1>3. SameSlot /\ SameRest
  BY DEF XBegin, SameSlot, SameRest, turnVars, dataVars
<1>4. Moves(Ext, "x_reserve")
  BY <1>0, GotoMoves DEF XBegin
<1>5. ~Client'
  BY <1>0, <1>3 DEF SameRest, Client
<1>6. PcInv'
  BY <1>0, <1>3, <1>4, <1>5 DEF KInv, PcInv, Moves, SameRest, Passing
<1> QED BY <1>0, <1>1, <1>2, <1>3, <1>4, <1>6, SideMove DEF SameFrames

LEMMA XReserveKeeps ==
    ASSUME KInv, XReserve
    PROVE  KInv'
<1> USE ActorFacts, TurnFacts
<1>0. TypeOK /\ pc[Ext] = "x_reserve" /\ ~Client
  BY AgentPcs DEF KInv, XReserve, Passing
<1>1. CASE active.ts # 0
  BY <1>0, <1>1, ReturnKeeps DEF XReserve, turnVars
<1>2. CASE active.ts = 0
  <2>1. PICK t \in Unused :
          /\ kind' = [kind EXCEPT ![t] = "Regular"]
          /\ frame' = [frame EXCEPT ![Ext].next = t, ![Ext].ts = nextTs]
    BY <1>2 DEF XReserve
  <2>2. /\ active' = [ts |-> nextTs, task |-> NoTurn] /\ nextTs' = nextTs + 1
        /\ Goto(Ext, "x_recheck")
    BY <1>2 DEF XReserve
  <2>3. t \in Turns /\ nextTs \in States /\ nextTs + 1 \in 1..(3 * MaxTurns + 1)
    BY UnusedTurn
  <2>4. /\ \A b \in Actors : b # Ext => SameFrame(b)
        /\ frame'[Ext].next = t /\ frame'[Ext].ts = nextTs
        /\ frame' \in [Actors -> Frame]
    <3>1. frame \in [Actors -> Frame]
      BY <1>0 DEF TypeOK, Frame
    <3>2. /\ \A b \in Actors : b # Ext => frame'[b] = frame[b]
          /\ frame'[Ext].next = t /\ frame'[Ext].ts = nextTs
          /\ frame' \in [Actors -> Frame]
      <4> DEFINE g == [frame EXCEPT ![Ext].next = t]
      <4>1. /\ g \in [Actors -> Frame] /\ g[Ext].next = t
            /\ \A b \in Actors : b # Ext => g[b] = frame[b]
        BY <2>3, <3>1 DEF Frame
      <4>2. frame' = [g EXCEPT ![Ext].ts = nextTs]
        BY <2>1
      <4> HIDE DEF g
      <4>3. /\ \A b \in Actors : b # Ext => frame'[b] = g[b]
            /\ frame'[Ext].next = g[Ext].next /\ frame'[Ext].ts = nextTs
            /\ frame' \in [Actors -> Frame]
        BY <2>3, <4>1, <4>2 DEF Frame
      <4> QED BY <4>1, <4>3
    <3> QED BY <3>2 DEF SameFrame
  <2>5. active' \in [ts : States \cup {0}, task : Turns \cup {NoTurn}] /\ active'.ts # 0
    BY <2>2, <2>3
  <2>6. kind' \in [Turns -> {"unused", "Regular", "Compact"}]
    BY <1>0, <2>1, <2>3 DEF TypeOK
  <2>7. TypeOK'
    BY <1>0, <2>2, <2>3, <2>4, <2>5, <2>6, GotoMoves DEF TypeOK, Frame, ExtPcs, XReserve, dataVars
  <2>8. SameRest
    BY DEF XReserve, SameRest, dataVars
  <2>9. Moves(Ext, "x_recheck") /\ active'.ts = nextTs /\ active'.task = NoTurn
    BY <1>0, <2>2, GotoMoves
  <2> QED BY <1>0, <1>2, <2>1, <2>2, <2>4, <2>7, <2>8, <2>9, ReserveMove
<1> QED BY <1>1, <1>2

LEMMA XRecheckKeeps ==
    ASSUME KInv, XRecheck
    PROVE  KInv'
<1> USE ActorFacts, TurnFacts
<1>0. TypeOK /\ pc[Ext] = "x_recheck" /\ ~Client
  BY AgentPcs DEF KInv, XRecheck, Passing
<1>1. MailInv'
  BY KeepsMail DEF XRecheck, dataVars
<1>2. SameRest /\ nextTs' = nextTs /\ kind' = kind
  BY DEF XRecheck, SameRest, turnVars, dataVars
<1>3. CASE ~HasTriggerMail
  <2>1. Goto(Ext, "x_verify") /\ active' = active /\ frame' = frame
    BY <1>3 DEF XRecheck
  <2>2. TypeOK'
    BY <1>0, <2>1, GotoMoves DEF TypeOK, XRecheck, turnVars, dataVars, ExtPcs
  <2>3. Moves(Ext, "x_verify") /\ SameSlot /\ SameFrames
    BY <1>0, <1>2, <2>1, GotoMoves, SameFrameIsSame DEF SameSlot
  <2> QED BY <1>0, <1>1, <1>2, <2>2, <2>3, TaskMove
<1>4. CASE HasTriggerMail
  <2>1. active.task = NoTurn /\ active.ts = frame[Ext].ts /\ active.ts # 0 /\ Starting(Ext)
    BY <1>0 DEF KInv, FreeInv, HoldInv, Starting
  <2>2. active' = NoActive /\ Goto(Ext, "m_check") /\ frame' = [frame EXCEPT ![Ext] = EmptyFrame]
    BY <1>4, <2>1 DEF XRecheck, StillReserved
  <2>3. /\ frame' \in [Actors -> Frame]
        /\ \A b \in Actors : b # Ext => SameFrame(b)
    <3>1. /\ frame' \in [Actors -> Frame]
          /\ \A b \in Actors : b # Ext => frame'[b] = frame[b]
      BY <1>0, <2>2 DEF TypeOK, Frame, EmptyFrame
    <3> QED BY <3>1 DEF SameFrame
  <2>4. TypeOK'
    BY <1>0, <2>2, <2>3, GotoMoves DEF TypeOK, Frame, XRecheck, turnVars, dataVars, StartPcs, NoActive
  <2>5. Moves(Ext, "m_check") /\ active'.ts = 0 /\ active'.task = NoTurn
    BY <1>0, <2>2, GotoMoves
  <2>6. ~Client'
    BY <1>0, <1>2 DEF SameRest, Client
  <2>7. /\ \A b \in Actors : ~Starting(b)' /\ ~Carries(b)'
        /\ \A b \in Actors, f \in {"none", "clear", "record", "emit", "ended", "killed"} :
             pc'[b] = f <=> pc[b] = f
        /\ \A b \in Actors : pc'[b] \in Live <=> pc[b] \in Live
    <3>1. \A b \in Actors : Starting(b) => b = Ext
      BY <2>1 DEF KInv, SoleInv
    <3>2. \A b \in Actors : pc[b] \notin AbortPcs /\ pc[b] # "u_abort"
      BY <1>0 DEF KInv, PcInv, AbortPcs, Chain, TaskPcs, Passing, WorkerPcs
    <3> QED BY <1>0, <2>5, <3>1, <3>2 DEF Moves, Live, Starting, Carries, TaskPcs, AbortPcs
  <2>8. PcInv'
    BY <1>0, <1>2, <2>5, <2>6 DEF KInv, PcInv, SameRest, Moves, Chain
  <2>9. FreeInv' /\ SoleInv' /\ ApartInv' /\ NextInv'
    BY <2>7 DEF FreeInv, SoleInv, ApartInv, NextInv
  <2>10. HoldInv'
    BY <2>7 DEF HoldInv, Starting, TaskPcs
  <2>11. TsInv'
    BY <1>2, <2>5, <2>6, <2>7 DEF KInv, TsInv
  <2>12. LiveInv'
    BY <1>0, <1>2, <2>1, <2>3, <2>5, <2>7
       DEF KInv, LiveInv, SameRest, SameFrame, Finishing, Moves
  <2>13. AbortInv' /\ StopInv'
    BY <2>6, <2>8 DEF AbortInv, StopInv, PcInv, AbortPcs, Chain, TaskPcs
  <2>14. TermInv'
    BY <1>0, <1>2, <2>5 DEF KInv, TermInv, SameRest, Moves, Live, Chain, TaskPcs, PcInv, AbortPcs
  <2> QED BY <2>4, <2>8, <2>9, <2>10, <2>11, <2>12, <2>13, <2>14 DEF KInv
<1> QED BY <1>3, <1>4

LEMMA XVerifyKeeps ==
    ASSUME KInv, XVerify
    PROVE  KInv'
<1> USE ActorFacts, TurnFacts
<1>0. TypeOK /\ pc[Ext] = "x_verify" /\ ~Client
  BY AgentPcs DEF KInv, XVerify, Passing
<1>1. active.task = NoTurn /\ active.ts = frame[Ext].ts /\ active.ts # 0
  BY <1>0 DEF KInv, FreeInv, HoldInv, Starting
<1>2. /\ pending' = [pending EXCEPT ![active.ts] = @ \cup frame[Ext].items]
      /\ accepted' = accepted \cup frame[Ext].items
      /\ Goto(Ext, "s_drain")
      /\ frame' = [frame EXCEPT ![Ext].items = {}]
  BY <1>1 DEF XVerify, StillReserved
<1>3. frame' \in [Actors -> Frame] /\ SameFrames
  <2>1. {} \in SUBSET Items
    OBVIOUS
  <2> QED BY <1>0, <1>2, <2>1, ItemsFrame
<1>4. /\ pending' \in [States -> SUBSET Items] /\ accepted' \subseteq Items
  <2>1. frame[Ext].items \subseteq Items
    BY <1>0 DEF TypeOK
  <2> QED BY <1>0, <1>2, <2>1 DEF TypeOK
<1>5. TypeOK'
  BY <1>0, <1>2, <1>3, <1>4, GotoMoves DEF TypeOK, Frame, XVerify, turnVars, StartPcs
<1>6. SameSlot /\ SameRest
  BY DEF XVerify, SameSlot, SameRest, turnVars
<1>7. MailInv'
  BY KeepsMail DEF XVerify
<1>8. Moves(Ext, "s_drain")
  BY <1>0, <1>2, GotoMoves
<1> QED BY <1>0, <1>3, <1>5, <1>6, <1>7, <1>8, TaskMove

LEMMA InjectKeeps ==
    ASSUME KInv, NEW e \in ExtItems, Inject(e)
    PROVE  KInv'
<1>0. TypeOK
  BY DEF KInv
<1>1. TypeOK'
  <2>1. {e} \subseteq Items
    BY DEF Items
  <2>2. /\ pending' \in [States -> SUBSET Items]
        /\ phase' \in [States -> {"CurrentTurn", "NextTurn"}]
        /\ history' \subseteq Items /\ accepted' \subseteq Items
    BY <1>0, <2>1 DEF Inject, ExtendAndAccept, TypeOK
  <2> QED BY <1>0, <2>2 DEF TypeOK, Inject, turnVars
<1>2. MailInv'
  BY KeepsMail DEF Inject
<1>3. SameFrames /\ SameSlot /\ SameRest /\ pc' = pc
  BY SameFrameIsSame DEF Inject, SameSlot, SameRest, turnVars
<1> QED BY <1>1, <1>2, <1>3, QuietStep

-----------------------------------------------------------------------------
(***************************************************************************)
(* Aborts, which only the submission loop of a client makes.               *)
(***************************************************************************)
LEMMA LoopAborts ==
    ASSUME KInv, NEW a \in Actors, pc[a] \in AbortPcs \cup {"u_abort"}
    PROVE  a = Loop /\ Client
  BY ActorFacts DEF KInv, PcInv, WorkerPcs, AbortPcs, TaskPcs, Chain, Passing

(* Under a client only the submission loop starts turns.                   *)
LEMMA LoopStarts ==
    ASSUME KInv, Client, NEW a \in Actors, Starting(a) \/ Carries(a)
    PROVE  a = Loop
  BY ActorFacts DEF KInv, PcInv, WorkerPcs, AbortPcs, TaskPcs, Starting, Carries

LEMMA AbortWaitKeeps ==
    ASSUME KInv, NEW a \in Actors, AbortWait(a)
    PROVE  KInv'
<1> USE ActorFacts, TurnFacts
<1>0. TypeOK /\ pc[a] = "abort_wait" /\ a = Loop /\ Client
  BY LoopAborts DEF KInv, AbortWait, AbortPcs
<1>t. PICK t \in Turns : t = frame[Loop].turn
  BY <1>0 DEF KInv, AbortInv, AbortPcs
<1>1. MailInv'
  BY KeepsMail DEF AbortWait
<1>2. SameRest /\ SameSlot /\ SameFrames
  BY SameFrameIsSame DEF AbortWait, SameRest, SameSlot, turnVars
<1>3. /\ pc[t] \in Live \cup {"ended"} /\ active = NoActive /\ cancelled[t] /\ terminal[t] = 0
      /\ frame[Loop].ts # 0
  BY <1>0, <1>t DEF KInv, AbortInv, AbortPcs
<1>4. /\ pc'[Loop] = "abort_emit" /\ pc'[t] \in {"ended", "killed"}
      /\ \A b \in Actors : b # Loop /\ b # t => pc'[b] = pc[b]
      /\ pc' \in [Actors -> WorkerPcs \cup AbortPcs \cup StartPcs \cup ExtPcs \cup {"idle"}]
  <2>1. pc' = [pc EXCEPT ![Loop] = "abort_emit",
                         ![t] = IF @ = "ended" THEN @ ELSE "killed"]
    BY <1>0, <1>t DEF AbortWait
  <2> QED BY <1>0, <2>1 DEF TypeOK, WorkerPcs, AbortPcs
<1>5. TypeOK'
  <2>1. discarded' \subseteq Items
    <3>1. input[t] \subseteq Items /\ frame[t].items \subseteq Items /\ discarded \subseteq Items
      BY <1>0 DEF TypeOK
    <3> QED BY <1>0, <1>t, <3>1 DEF AbortWait
  <2> QED BY <1>0, <1>4, <2>1 DEF TypeOK, AbortWait, turnVars
<1>6. Client'
  BY <1>0, <1>2 DEF SameRest, Client
<1>7. /\ \A b \in Actors : ~Starting(b)'
      /\ \A b \in Actors : Carries(b)' <=> Carries(b)
      /\ \A b \in Actors : pc'[b] = "none" <=> pc[b] = "none"
      /\ \A b \in Actors : pc'[b] \in Live => b # t /\ b # Loop /\ pc[b] \in Live
      /\ \A b \in Actors : pc'[b] \in Finishing => b # t /\ b # Loop /\ pc[b] \in Finishing
  <2>1. \A b \in Actors : Starting(b) => b = Loop
    BY <1>0, LoopStarts
  <2>2. \A b \in Actors : ~Starting(b)'
    BY <1>4, <2>1 DEF Starting, TaskPcs
  <2>3. Carries(Loop)' <=> Carries(Loop)
    BY <1>0, <1>2, <1>4 DEF Carries, Starting, TaskPcs, AbortPcs, SameFrames, SameFrame
  <2>4. \A b \in Actors : b # Loop => ~Carries(b)
    BY <1>0, LoopStarts
  <2>5. \A b \in Actors : b # Loop => ~Carries(b)'
    BY <1>2, <1>4, <2>4 DEF Carries, Starting, TaskPcs, AbortPcs, SameFrames, SameFrame
  <2> QED BY <1>0, <1>3, <1>4, <2>2, <2>3, <2>4, <2>5 DEF Live, Finishing
<1>8. PcInv'
  BY <1>0, <1>1, <1>2, <1>4, <1>6 DEF KInv, PcInv, MailInv, SameRest, AbortPcs, WorkerPcs
<1>9. FreeInv' /\ SoleInv' /\ ApartInv'
  BY <1>7 DEF FreeInv, SoleInv, ApartInv
<1>10. HoldInv'
  BY <1>7 DEF HoldInv, Starting, TaskPcs
<1>11. NextInv'
  BY <1>2, <1>7 DEF KInv, NextInv, SameSlot, SameFrames, SameFrame
<1>12. TsInv'
  <2>1. Carries(Loop)' => nextTs' <= frame'[Loop].next
    BY <1>0, <1>2, <1>7 DEF KInv, TsInv, SameSlot, SameFrames, SameFrame
  <2> QED BY <1>2, <1>7, <2>1 DEF KInv, TsInv, SameSlot
<1>13. LiveInv'
  <2>1. active'.task = NoTurn
    BY <1>2, <1>3 DEF SameSlot
  <2>2. \A s \in Turns : pc'[s] \notin Live
    BY <1>t, <1>3, <1>7 DEF KInv, LiveInv
  <2> QED BY <1>2, <1>7, <2>1, <2>2 DEF KInv, LiveInv, SameSlot, SameRest, SameFrames, SameFrame
<1>14. AbortInv' /\ StopInv'
  BY <1>0, <1>t, <1>2, <1>3, <1>4
     DEF KInv, AbortInv, StopInv, SameSlot, SameRest, SameFrames, SameFrame, AbortPcs
<1>15. TermInv'
  BY <1>0, <1>t, <1>2, <1>3, <1>4
     DEF KInv, TermInv, SameSlot, SameRest, SameFrames, SameFrame, Live, Chain, TaskPcs
<1> QED BY <1>5, <1>8, <1>9, <1>10, <1>11, <1>12, <1>13, <1>14, <1>15 DEF KInv

LEMMA AbortEmitKeeps ==
    ASSUME KInv, NEW a \in Actors, AbortEmit(a)
    PROVE  KInv'
<1> USE ActorFacts, TurnFacts
<1>0. TypeOK /\ pc[a] = "abort_emit" /\ a = Loop /\ Client
  BY LoopAborts DEF KInv, AbortEmit, AbortPcs
<1>t. PICK t \in Turns : t = frame[Loop].turn
  BY <1>0 DEF KInv, AbortInv, AbortPcs
<1>1. MailInv'
  BY KeepsMail DEF AbortEmit, dataVars
<1>2. SameSlot /\ SameFrames /\ cancelled' = cancelled /\ stop' = stop /\ scope' = scope
  BY SameFrameIsSame DEF AbortEmit, SameSlot, dataVars
<1>3. /\ pc[t] \in {"ended", "killed"} /\ active = NoActive /\ cancelled[t] /\ terminal[t] = 0
      /\ frame[Loop].ts # 0
  BY <1>0, <1>t DEF KInv, AbortInv, AbortPcs
<1>4. /\ Moves(Loop, "abort_clear")
      /\ pc' \in [Actors -> WorkerPcs \cup AbortPcs \cup StartPcs \cup ExtPcs \cup {"idle"}]
  BY <1>0, GotoMoves DEF AbortEmit, AbortPcs
<1>5. /\ terminal' \in [Turns -> 0..2] /\ terminal'[t] = 1
      /\ \A s \in Turns : s # t => terminal'[s] = terminal[s]
  BY <1>0, <1>t, <1>3 DEF AbortEmit, TypeOK
<1>6. TypeOK'
  BY <1>0, <1>4, <1>5 DEF TypeOK, AbortEmit, dataVars
<1>7. Client'
  BY <1>0, <1>2 DEF Client
<1>8. /\ \A b \in Actors : ~Starting(b)'
      /\ \A b \in Actors : Carries(b)' <=> Carries(b)
      /\ \A b \in Turns : pc'[b] = pc[b]
  <2>1. \A b \in Actors : Starting(b) => b = Loop
    BY <1>0, LoopStarts
  <2>2. \A b \in Actors : ~Starting(b)'
    BY <1>4, <2>1 DEF Starting, TaskPcs, Moves
  <2> QED BY <1>0, <1>2, <1>4, <2>1, <2>2 DEF Carries, Starting, TaskPcs, AbortPcs, SameFrames, SameFrame, Moves
<1>9. PcInv'
  BY <1>0, <1>1, <1>2, <1>4, <1>7 DEF KInv, PcInv, MailInv, Moves, AbortPcs
<1>10. FreeInv' /\ SoleInv' /\ ApartInv'
  BY <1>8 DEF FreeInv, SoleInv, ApartInv
<1>11. HoldInv'
  BY <1>8 DEF HoldInv, Starting, TaskPcs
<1>12. NextInv'
  BY <1>2, <1>8 DEF KInv, NextInv, SameSlot, SameFrames, SameFrame
<1>13. TsInv'
  <2>1. Carries(Loop)' => nextTs' <= frame'[Loop].next
    BY <1>0, <1>2, <1>8 DEF KInv, TsInv, SameSlot, SameFrames, SameFrame
  <2> QED BY <1>2, <1>8, <2>1 DEF KInv, TsInv, SameSlot
<1>14. LiveInv'
  <2>1. active'.task = NoTurn
    BY <1>2, <1>3 DEF SameSlot
  <2>2. \A s \in Turns : pc'[s] \notin Live
    BY <1>0, <1>3, <1>8 DEF KInv, LiveInv
  <2> QED BY <1>2, <1>8, <2>1, <2>2 DEF KInv, LiveInv, SameSlot, SameFrames, SameFrame
<1>15. AbortInv' /\ StopInv'
  BY <1>0, <1>t, <1>2, <1>3, <1>4, <1>5
     DEF KInv, AbortInv, StopInv, SameSlot, SameFrames, SameFrame, AbortPcs, Moves
<1>16. TermInv'
  BY <1>0, <1>t, <1>2, <1>3, <1>4, <1>5, <1>8
     DEF KInv, TermInv, SameSlot, SameFrames, SameFrame, Live, Chain, TaskPcs
<1> QED BY <1>6, <1>9, <1>10, <1>11, <1>12, <1>13, <1>14, <1>15, <1>16 DEF KInv

(* The submission loop goes on with an empty slot.                         *)
LEMMA EmptyMove ==
    ASSUME NEW l \in {"s_drain", "m_check", "idle"},
           KInv, Client, TypeOK', MailInv', Moves(Loop, l),
           pc[Loop] \in {"abort_clear", "u_abort", "idle"},
           active.task = NoTurn, active' = NoActive,
           nextTs' = nextTs, kind' = kind, cancelled' = cancelled,
           terminal' = terminal, scope' = scope,
           \A b \in Actors : b # Loop => SameFrame(b),
           l = "s_drain" => /\ Carries(Loop) /\ stop' = "no"
                            /\ frame'[Loop].next = frame[Loop].next
    PROVE  KInv'
<1> USE ActorFacts, TurnFacts
<1>0. Client' /\ active'.task = NoTurn /\ active'.ts = 0
  BY DEF Client
<1>1. /\ \A b \in Actors : b # Loop => ~Starting(b)' /\ ~Carries(b)'
      /\ Starting(Loop)' <=> l = "s_drain"
      /\ Carries(Loop)' <=> l = "s_drain"
      /\ \A b \in Turns : pc'[b] = pc[b]
  <2>1. \A b \in Actors : b # Loop => ~Starting(b) /\ ~Carries(b)
    BY LoopStarts
  <2> QED BY <2>1 DEF Moves, Starting, Carries, TaskPcs, AbortPcs, SameFrame
<1>2. PcInv'
  BY <1>0 DEF KInv, PcInv, MailInv, Moves, TaskPcs
<1>3. FreeInv' /\ SoleInv'
  BY <1>0, <1>1 DEF FreeInv, SoleInv
<1>4. ApartInv'
  BY <1>0, <1>1 DEF KInv, LiveInv, ApartInv, SameFrame
<1>5. HoldInv'
  BY <1>0, <1>1 DEF HoldInv, Starting, TaskPcs, Moves
<1>6. NextInv'
  BY <1>1 DEF KInv, NextInv
<1>7. TsInv'
  <2>1. l = "s_drain" => nextTs <= frame[Loop].next
    BY DEF KInv, TsInv
  <2>2. 0 < nextTs
    BY DEF KInv, TsInv
  <2> QED BY <1>0, <1>1, <2>1, <2>2 DEF KInv, TsInv
<1>8. LiveInv'
  BY <1>0, <1>1 DEF KInv, LiveInv, SameFrame
<1>9. AbortInv' /\ StopInv'
  BY <1>0 DEF AbortInv, StopInv, Moves, AbortPcs
<1>10. TermInv'
  BY <1>1 DEF KInv, TermInv
<1> QED BY <1>2, <1>3, <1>4, <1>5, <1>6, <1>7, <1>8, <1>9, <1>10 DEF KInv

(* The submission loop takes a running task out of the slot.               *)
LEMMA TakeMove ==
    ASSUME KInv, Client, TypeOK', MailInv', Moves(Loop, "abort_wait"),
           pc[Loop] \in {"u_abort", "idle"},
           active.task # NoTurn, active' = NoActive,
           nextTs' = nextTs, kind' = kind, terminal' = terminal, scope' = scope,
           cancelled'[active.task] = TRUE,
           \A s \in Turns : s # active.task => cancelled'[s] = cancelled[s],
           \A b \in Actors : b # Loop => SameFrame(b),
           frame'[Loop].turn = active.task, frame'[Loop].ts = active.ts,
           frame'[Loop].then = "start" =>
               Carries(Loop) /\ stop' = "no" /\ frame'[Loop].next = frame[Loop].next
    PROVE  KInv'
<1> USE ActorFacts, TurnFacts
<1>t. PICK t \in Turns : t = active.task
  BY DEF KInv, TypeOK
<1>0. Client' /\ active'.task = NoTurn /\ active'.ts = 0
  BY DEF Client
<1>1. /\ \A b \in Actors : ~Starting(b)'
      /\ \A b \in Actors : b # Loop => ~Carries(b)'
      /\ Carries(Loop)' <=> frame'[Loop].then = "start"
      /\ \A b \in Turns : pc'[b] = pc[b]
  <2>1. \A b \in Actors : b # Loop => ~Starting(b) /\ ~Carries(b)
    BY LoopStarts
  <2> QED BY <2>1 DEF Moves, Starting, Carries, TaskPcs, AbortPcs, SameFrame
<1>a. /\ pc[t] \in Live /\ active.ts # 0 /\ terminal[t] = 0
      /\ \A s \in Turns : s # t => pc[s] \notin Live
  <2>1. pc[t] \in Live /\ active.ts # 0
    BY <1>t DEF KInv, LiveInv
  <2>2. terminal[t] = 0
    BY <2>1 DEF KInv, TermInv
  <2>3. \A s \in Turns : s # t => pc[s] \notin Live
    BY <1>t DEF KInv, LiveInv
  <2> QED BY <2>1, <2>2, <2>3
<1>2. PcInv'
  BY <1>0 DEF KInv, PcInv, MailInv, Moves, AbortPcs
<1>3. FreeInv' /\ SoleInv' /\ ApartInv'
  BY <1>1 DEF FreeInv, SoleInv, ApartInv
<1>5. HoldInv'
  BY <1>1 DEF HoldInv, Starting, TaskPcs
<1>6. NextInv'
  BY <1>1 DEF KInv, NextInv
<1>7. TsInv'
  <2>1. frame'[Loop].then = "start" => nextTs <= frame'[Loop].next
    BY DEF KInv, TsInv
  <2>2. 0 < nextTs
    BY DEF KInv, TsInv
  <2> QED BY <1>0, <1>1, <2>1, <2>2 DEF KInv, TsInv
<1>8. LiveInv'
  <2>1. \A s \in Turns : pc'[s] \in Live =>
          cancelled'[s] /\ pc'[Loop] = "abort_wait" /\ frame'[Loop].turn = s
    BY <1>t, <1>1, <1>a DEF Moves
  <2>2. \A s \in Turns : pc'[s] = "none" => ~cancelled'[s]
    BY <1>t, <1>1, <1>a DEF KInv, LiveInv, Live
  <2>3. \A s \in Turns : pc'[s] \in Finishing => frame'[s].ts \in 1..(nextTs' - 1)
    BY <1>1 DEF KInv, LiveInv, SameFrame
  <2> QED BY <1>0, <2>1, <2>2, <2>3 DEF LiveInv
<1>9. AbortInv'
  BY <1>t, <1>0, <1>1, <1>a DEF AbortInv, Moves, AbortPcs
<1>11. StopInv'
  BY <1>0 DEF StopInv, Moves, AbortPcs
<1>10. TermInv'
  BY <1>t, <1>1, <1>a DEF KInv, TermInv, Live
<1> QED BY <1>2, <1>3, <1>5, <1>6, <1>7, <1>8, <1>9, <1>10, <1>11 DEF KInv

LEMMA AbortClearKeeps ==
    ASSUME KInv, NEW a \in Actors, AbortClear(a)
    PROVE  KInv'
<1> USE ActorFacts, TurnFacts
<1> DEFINE l == CASE frame[Loop].then = "start" -> "s_drain"
                  [] frame[Loop].then = "maybe" -> "m_check"
                  [] OTHER -> "idle"
<1>0. TypeOK /\ pc[a] = "abort_clear" /\ a = Loop /\ Client
  BY LoopAborts DEF KInv, AbortClear, AbortPcs
<1>1. MailInv'
  BY KeepsMail DEF AbortClear
<1>2. SameRest /\ SameSlot
  BY DEF AbortClear, SameRest, SameSlot, turnVars
<1>3. active = NoActive /\ frame[Loop].ts \in States
  BY <1>0 DEF KInv, AbortInv, AbortPcs, TypeOK
<1>4. pc' = [pc EXCEPT ![Loop] = l] /\ l \in {"s_drain", "m_check", "idle"}
      /\ (l = "s_drain" <=> frame[Loop].then = "start")
  <2>1. Rest(Loop) = "idle"
    BY DEF Rest
  <2> QED BY <1>0, <2>1 DEF AbortClear
<1> HIDE DEF l
<1>5. /\ frame' \in [Actors -> Frame] /\ frame'[Loop].next = frame[Loop].next
      /\ \A b \in Actors : b # Loop => SameFrame(b)
  <2>1. frame' = [frame EXCEPT ![Loop] = [EmptyFrame EXCEPT !.next = frame[Loop].next]]
    BY <1>0 DEF AbortClear
  <2>2. /\ [EmptyFrame EXCEPT !.next = frame[Loop].next] \in Frame
        /\ [EmptyFrame EXCEPT !.next = frame[Loop].next].next = frame[Loop].next
    BY <1>0 DEF TypeOK, EmptyFrame, Frame
  <2>3. frame \in [Actors -> Frame]
    BY <1>0 DEF TypeOK, Frame
  <2>4. /\ frame' \in [Actors -> Frame]
        /\ frame'[Loop] = [EmptyFrame EXCEPT !.next = frame[Loop].next]
        /\ \A b \in Actors : b # Loop => frame'[b] = frame[b]
    BY <2>1, <2>2, <2>3
  <2> QED BY <2>2, <2>4 DEF SameFrame
<1>6. /\ discarded' \subseteq Items /\ pending' \in [States -> SUBSET Items]
      /\ pc' \in [Actors -> WorkerPcs \cup AbortPcs \cup StartPcs \cup ExtPcs \cup {"idle"}]
      /\ Moves(Loop, l)
  <2>1. discarded' \subseteq Items /\ pending' \in [States -> SUBSET Items]
    BY <1>0, <1>3 DEF AbortClear, TypeOK
  <2>2. /\ pc' \in [Actors -> WorkerPcs \cup AbortPcs \cup StartPcs \cup ExtPcs \cup {"idle"}]
        /\ Moves(Loop, l)
    BY <1>0, <1>4, GotoMoves DEF Goto, StartPcs
  <2> QED BY <2>1, <2>2
<1>7. TypeOK'
  BY <1>0, <1>5, <1>6 DEF TypeOK, Frame, AbortClear, turnVars
<1>8. l = "s_drain" => Carries(Loop) /\ stop' = "no"
  BY <1>0, <1>2, <1>4 DEF Carries, AbortPcs, KInv, StopInv, SameRest
<1> QED BY <1>0, <1>1, <1>2, <1>3, <1>4, <1>5, <1>6, <1>7, <1>8, EmptyMove DEF SameRest, SameSlot

(* TakeActive by the submission loop, for a new turn or for none.          *)
LEMMA TakeActiveKeeps ==
    ASSUME NEW next, NEW then, NEW other,
           KInv, Client, TakeActive(Loop, next, then, other),
           \/ /\ pc[Loop] = "u_abort" /\ next = frame[Loop].next
              /\ then = "start" /\ other = "s_drain" /\ stop' = stop
           \/ /\ pc[Loop] = "idle" /\ next = NoTurn
              /\ then = "maybe" /\ other = "idle",
           stop' \in {"no", "stopping", "stopped"},
           UNCHANGED <<nextTs, kind, input, started, terminal, pending, phase,
                       mailbox, history, accepted, discarded, scope>>
    PROVE  KInv'
<1> USE ActorFacts, TurnFacts
<1>0. TypeOK
  BY DEF KInv
<1>1. MailInv'
  BY KeepsMail
<1>2. next \in Turns \cup {NoTurn} /\ active' = NoActive
  BY <1>0 DEF TypeOK, TakeActive
<1>3. active' \in [ts : States \cup {0}, task : Turns \cup {NoTurn}]
  BY <1>2 DEF NoActive
<1>4. other = "s_drain" => Carries(Loop) /\ stop' = "no" /\ then = "start"
  BY DEF Carries, KInv, StopInv, AbortPcs
<1>5. then = "start" => other = "s_drain" /\ next = frame[Loop].next
  OBVIOUS
<1>6. CASE active.task = NoTurn
  <2>1. Goto(Loop, other) /\ frame' = [frame EXCEPT ![Loop].next = next] /\ cancelled' = cancelled
    BY <1>6 DEF TakeActive
  <2>2. /\ frame' \in [Actors -> Frame] /\ frame'[Loop].next = next
        /\ \A b \in Actors : b # Loop => frame'[b] = frame[b]
    <3>1. frame \in [Actors -> Frame]
      BY <1>0 DEF TypeOK, Frame
    <3> QED BY <1>2, <2>1, <3>1 DEF Frame
  <2>3. \A b \in Actors : b # Loop => SameFrame(b)
    BY <2>2 DEF SameFrame
  <2>4. /\ Moves(Loop, other) /\ other \in {"s_drain", "m_check", "idle"}
        /\ pc' \in [Actors -> WorkerPcs \cup AbortPcs \cup StartPcs \cup ExtPcs \cup {"idle"}]
    BY <1>0, <2>1, GotoMoves DEF StartPcs
  <2>5. TypeOK'
    BY <1>0, <1>2, <1>3, <2>1, <2>2, <2>4 DEF TypeOK, Frame
  <2> QED BY <1>1, <1>2, <1>4, <1>5, <1>6, <2>1, <2>2, <2>3, <2>4, <2>5, EmptyMove
<1>7. CASE active.task # NoTurn
  <2> DEFINE r == [turn |-> active.task, ts |-> active.ts, items |-> {}, next |-> next,
                   then |-> then]
  <2>1. Goto(Loop, "abort_wait") /\ frame' = [frame EXCEPT ![Loop] = r]
        /\ cancelled' = [cancelled EXCEPT ![active.task] = TRUE]
    BY <1>7 DEF TakeActive
  <2>2. /\ r \in Frame /\ r.turn = active.task /\ r.ts = active.ts
        /\ r.next = next /\ r.then = then
    BY <1>0, <1>2 DEF TypeOK, Frame
  <2> HIDE DEF r
  <2>3. /\ frame' \in [Actors -> Frame] /\ frame'[Loop] = r
        /\ \A b \in Actors : b # Loop => frame'[b] = frame[b]
    <3>1. frame \in [Actors -> Frame]
      BY <1>0 DEF TypeOK, Frame
    <3> QED BY <2>1, <2>2, <3>1
  <2>4. \A b \in Actors : b # Loop => SameFrame(b)
    BY <2>3 DEF SameFrame
  <2>5. /\ Moves(Loop, "abort_wait")
        /\ pc' \in [Actors -> WorkerPcs \cup AbortPcs \cup StartPcs \cup ExtPcs \cup {"idle"}]
    BY <1>0, <2>1, GotoMoves DEF AbortPcs
  <2>6. /\ cancelled' \in [Turns -> BOOLEAN] /\ cancelled'[active.task] = TRUE
        /\ \A s \in Turns : s # active.task => cancelled'[s] = cancelled[s]
    BY <1>0, <1>7, <2>1 DEF TypeOK
  <2>7. TypeOK'
    BY <1>0, <1>2, <1>3, <2>3, <2>5, <2>6 DEF TypeOK, Frame
  <2> QED BY <1>1, <1>2, <1>4, <1>5, <1>7, <2>2, <2>3, <2>4, <2>5, <2>6, <2>7, TakeMove
<1> QED BY <1>6, <1>7

-----------------------------------------------------------------------------
(***************************************************************************)
(* The submission loop.                                                    *)
(***************************************************************************)
(* A client's operation makes a new turn.                                  *)
LEMMA NewTurnKeeps ==
    ASSUME KInv, Client, pc[Loop] = "idle", stop = "no",
           NEW k \in {"Regular", "Compact"}, NEW S \in SUBSET Items, NewTurn(k, S),
           UNCHANGED <<pending, phase, mailbox, history, discarded, stop, scope>>,
           accepted' \subseteq Items
    PROVE  KInv'
<1> USE ActorFacts, TurnFacts
<1>0. TypeOK
  BY DEF KInv
<1>1. PICK t \in Unused : /\ kind' = [kind EXCEPT ![t] = k]
                          /\ input' = [input EXCEPT ![t] = S]
                          /\ frame' = [frame EXCEPT ![Loop].next = t]
  BY DEF NewTurn
<1>2. /\ t \in Turns /\ kind[t] = "unused" /\ nextTs <= t /\ pc[t] = "none" /\ nextTs \in Nat
      /\ \A s \in Turns : s < t => kind[s] # "unused"
  <2>1. \A s \in 1..(t - 1) : kind[s] # "unused"
    BY DEF Unused
  <2>2. t \in Turns /\ kind[t] = "unused" /\ nextTs <= t /\ pc[t] = "none" /\ nextTs \in Nat
    BY UnusedTurn
  <2> QED BY <2>1, <2>2
<1>3. /\ frame' \in [Actors -> Frame] /\ frame'[Loop].next = t
      /\ \A b \in Actors : b # Loop => SameFrame(b)
  <2>1. t \in Turns /\ frame' = [frame EXCEPT ![Loop].next = t]
    BY <1>1, <1>2
  <2> QED BY <1>0, <2>1, ReserveFrame
<1>4. /\ Moves(Loop, "u_abort")
      /\ pc' \in [Actors -> WorkerPcs \cup AbortPcs \cup StartPcs \cup ExtPcs \cup {"idle"}]
  BY <1>0, GotoMoves DEF NewTurn, StartPcs
<1>5. /\ kind' \in [Turns -> {"unused", "Regular", "Compact"}]
      /\ input' \in [Turns -> SUBSET Items]
      /\ kind'[t] # "unused" /\ \A s \in Turns : s # t => kind'[s] = kind[s]
  BY <1>0, <1>1, <1>2 DEF TypeOK
<1>6. TypeOK'
  BY <1>0, <1>3, <1>4, <1>5 DEF TypeOK, Frame, NewTurn
<1>7. SameRest /\ active' = active /\ nextTs' = nextTs /\ mailbox' = mailbox
  BY DEF NewTurn, SameRest
<1>8. Client' /\ MailInv'
  BY <1>7, KeepsMail DEF SameRest, Client
<1>9. /\ \A b \in Actors : ~Starting(b)'
      /\ \A b \in Actors : Carries(b)' => b = Loop
      /\ \A b \in Turns : pc'[b] = pc[b]
  <2>1. \A b \in Actors : b # Loop => ~Starting(b) /\ ~Carries(b)
    BY LoopStarts
  <2> QED BY <1>3, <1>4, <2>1 DEF Moves, Starting, Carries, TaskPcs, AbortPcs, SameFrame
<1>10. PcInv'
  BY <1>4, <1>7, <1>8 DEF KInv, PcInv, MailInv, Moves, SameRest
<1>11. FreeInv' /\ SoleInv' /\ ApartInv'
  BY <1>9 DEF FreeInv, SoleInv, ApartInv
<1>12. HoldInv'
  BY <1>9 DEF HoldInv, Starting, TaskPcs
<1>13. NextInv'
  BY <1>2, <1>3, <1>5, <1>9 DEF NextInv
<1>14. TsInv'
  <2>1. \A s \in Turns : kind'[s] = "unused" => nextTs <= s /\ pc'[s] = "none"
    BY <1>2, <1>5, <1>9 DEF KInv, TsInv
  <2>2. \A r, s \in Turns : r < s /\ kind'[r] = "unused" => kind'[s] = "unused"
    BY <1>2, <1>5 DEF KInv, TsInv
  <2> QED BY <1>2, <1>3, <1>7, <2>1, <2>2 DEF KInv, TsInv
<1>15. LiveInv'
  <2>1. active.task \in Turns \cup {NoTurn}
    BY <1>0 DEF TypeOK
  <2> QED BY <1>3, <1>7, <1>9, <2>1 DEF KInv, LiveInv, SameRest, SameFrame
<1>16. AbortInv' /\ StopInv'
  BY <1>4, <1>7 DEF AbortInv, StopInv, Moves, AbortPcs, SameRest
<1>17. TermInv'
  BY <1>4, <1>7, <1>9 DEF KInv, TermInv, SameRest
<1> QED BY <1>6, <1>10, <1>11, <1>12, <1>13, <1>14, <1>15, <1>16, <1>17 DEF KInv

LEMMA UserTurnKeeps ==
    ASSUME KInv, OneDriver, NEW i \in UserItems, UserTurn(i)
    PROVE  KInv'
<1>1. Client /\ pc[Loop] = "idle" /\ stop = "no"
  BY DriverOps DEF UserTurn, LoopReady, KInv, TypeOK
<1>2. {i} \in SUBSET Items /\ accepted' \subseteq Items
  BY DEF Items, UserTurn, KInv, TypeOK
<1> QED BY <1>1, <1>2, NewTurnKeeps DEF UserTurn

LEMMA CompactKeeps ==
    ASSUME KInv, OneDriver, Compact
    PROVE  KInv'
<1>1. Client /\ pc[Loop] = "idle" /\ stop = "no"
  BY DriverOps DEF Compact, LoopReady, KInv, TypeOK
<1>2. {} \in SUBSET Items /\ accepted' \subseteq Items
  BY DEF Compact, KInv, TypeOK, dataVars
<1> QED BY <1>1, <1>2, NewTurnKeeps DEF Compact, dataVars

LEMMA SpawnTaskKeeps ==
    ASSUME KInv, SpawnTask
    PROVE  KInv'
<1>1. Client /\ pc[Loop] = "u_abort"
  BY LoopAborts, ActorFacts DEF SpawnTask
<1>2. stop' \in {"no", "stopping", "stopped"} /\ stop' = stop
  BY DEF SpawnTask, dataVars, KInv, TypeOK
<1> QED BY <1>1, <1>2, TakeActiveKeeps DEF SpawnTask, dataVars

LEMMA InterruptKeeps ==
    ASSUME KInv, OneDriver, Interrupt
    PROVE  KInv'
<1>1. Client /\ pc[Loop] = "idle" /\ stop = "no"
  BY DriverOps DEF Interrupt, LoopReady, KInv, TypeOK
<1>2. stop' \in {"no", "stopping", "stopped"}
  BY DEF Interrupt, dataVars, KInv, TypeOK
<1> QED BY <1>1, <1>2, TakeActiveKeeps DEF Interrupt, dataVars

LEMMA ShutdownKeeps ==
    ASSUME KInv, OneDriver, Shutdown
    PROVE  KInv'
<1>1. Client /\ pc[Loop] = "idle" /\ stop = "no"
  BY DriverOps DEF Shutdown, LoopReady, KInv, TypeOK
<1>2. stop' \in {"no", "stopping", "stopped"}
  BY DEF Shutdown
<1> QED BY <1>1, <1>2, TakeActiveKeeps DEF Shutdown

LEMMA ShutdownCompleteKeeps ==
    ASSUME KInv, ShutdownComplete
    PROVE  KInv'
<1> USE ActorFacts, TurnFacts
<1>1. stop = "stopping" /\ stop' = "stopped" /\ pc[Loop] = "idle" /\ scope' = scope
  BY DEF ShutdownComplete
<1>2. /\ active' = active /\ nextTs' = nextTs /\ pc' = pc /\ frame' = frame /\ kind' = kind
      /\ cancelled' = cancelled /\ terminal' = terminal /\ mailbox' = mailbox
  BY DEF ShutdownComplete, turnVars
<1>3. TypeOK'
  BY DEF KInv, TypeOK, ShutdownComplete, turnVars
<1>4. (Client' <=> Client) /\ Client
  BY <1>1 DEF Client, KInv, PcInv
<1>5. PcInv' /\ HoldInv' /\ TsInv'
  BY <1>1, <1>2, <1>4 DEF KInv, PcInv, HoldInv, TsInv, Carries, Starting, HasTriggerMail
<1>6. FreeInv' /\ SoleInv' /\ ApartInv' /\ NextInv'
  BY <1>2 DEF KInv, FreeInv, SoleInv, ApartInv, NextInv, Carries, Starting
<1>7. LiveInv' /\ AbortInv' /\ TermInv' /\ StopInv'
  BY <1>1, <1>2 DEF KInv, LiveInv, AbortInv, TermInv, StopInv
<1> QED BY <1>3, <1>5, <1>6, <1>7 DEF KInv

LEMMA SteerKeeps ==
    ASSUME KInv, NEW i \in UserItems, Steer(i)
    PROVE  KInv'
<1>0. TypeOK
  BY DEF KInv
<1>1. TypeOK'
  <2>1. {i} \subseteq Items
    BY DEF Items
  <2>2. /\ pending' \in [States -> SUBSET Items]
        /\ phase' \in [States -> {"CurrentTurn", "NextTurn"}]
        /\ accepted' \subseteq Items
    BY <1>0, <2>1 DEF Steer, ExtendAndAccept, TypeOK
  <2> QED BY <1>0, <2>2 DEF TypeOK, Steer, turnVars
<1>2. MailInv'
  BY KeepsMail DEF Steer
<1>3. SameFrames /\ SameSlot /\ SameRest /\ pc' = pc
  BY SameFrameIsSame DEF Steer, SameSlot, SameRest, turnVars
<1> QED BY <1>1, <1>2, <1>3, QuietStep

LEMMA ReceiveMailKeeps ==
    ASSUME KInv, OneDriver, NEW m \in Mail, ReceiveMail(m)
    PROVE  KInv'
<1> USE ActorFacts
<1> DEFINE l == IF m \in TriggerMail THEN "m_check" ELSE "idle"
<1>0. TypeOK /\ pc[Loop] = "idle" /\ stop = "no" /\ scope \in Scopes
  BY DEF KInv, TypeOK, ReceiveMail, LoopReady
<1>1. m \in TriggerMail => ~Client
  BY <1>0, DriverOps DEF ReceiveMail, LoopReady
<1>2. l \in {"m_check", "idle"} /\ Goto(Loop, l) /\ (l = "m_check" => ~Client)
  BY <1>1 DEF ReceiveMail
<1> HIDE DEF l
<1>3. /\ Moves(Loop, l)
      /\ pc' \in [Actors -> WorkerPcs \cup AbortPcs \cup StartPcs \cup ExtPcs \cup {"idle"}]
  BY <1>0, <1>2, GotoMoves DEF StartPcs
<1>4. SameFrames /\ SameSlot /\ SameRest
  BY SameFrameIsSame DEF ReceiveMail, SameSlot, SameRest, turnVars
<1>5. TypeOK'
  BY <1>0, <1>3 DEF TypeOK, ReceiveMail, turnVars, Items
<1>6. (Client' <=> Client) /\ MailInv'
  <2>1. Client' <=> Client
    BY <1>4 DEF SameRest, Client
  <2>2. Client => ~HasTriggerMail /\ m \notin TriggerMail /\ mailbox' = mailbox \cup {m}
    BY <1>1 DEF KInv, PcInv, ReceiveMail
  <2>3. Client => ~HasTriggerMail'
    BY <2>2 DEF HasTriggerMail
  <2> QED BY <2>1, <2>3 DEF MailInv
<1>7. PcInv'
  BY <1>0, <1>2, <1>3, <1>4, <1>6 DEF KInv, PcInv, MailInv, Moves, SameRest, Chain
<1> QED BY <1>0, <1>2, <1>3, <1>4, <1>5, <1>7, SideMove DEF SameFrames

-----------------------------------------------------------------------------
LEMMA ActorStepKeeps ==
    ASSUME KInv, NEW a \in Actors, AbortStep(a) \/ StartStep(a)
    PROVE  KInv'
  BY AbortWaitKeeps, AbortEmitKeeps, AbortClearKeeps, SDrainKeeps, SStateKeeps,
     SExtendKeeps, SInstallKeeps, MCheckKeeps, MReserveKeeps DEF AbortStep, StartStep

LEMMA WorkerStepKeeps ==
    ASSUME KInv, NEW t \in Turns, WorkerStep(t)
    PROVE  KInv'
  BY WStartKeeps, WQuietKeeps, WDrainKeeps, WRecordKeeps, WReturnKeeps, WCheckKeeps,
     FTakeKeeps, FRecordKeeps, FEmitKeeps, FClearKeeps DEF WorkerStep

(* The guardian's abort is neither driver's.                               *)
LEMMA NoDenial ==
    ASSUME KInv, OneDriver
    PROVE  ~GuardianAbort /\ \A t \in Turns : ~Denial(t)
<1>1. scope \in Scopes /\ pc[Guardian] = "idle"
  BY DEF KInv, TypeOK, PcInv
<1> QED BY <1>1, DriverOps DEF GuardianAbort, Denial

LEMMA StutterKeeps ==
    ASSUME KInv, UNCHANGED vars
    PROVE  KInv'
<1>1. TypeOK'
  BY DEF KInv, TypeOK, vars, turnVars, dataVars
<1>2. MailInv'
  BY KeepsMail DEF vars, dataVars
<1> QED BY <1>1, <1>2, SameFrameIsSame, QuietStep DEF vars, turnVars, dataVars, SameSlot, SameRest

LEMMA NextKeeps ==
    ASSUME OneDriver, KInv, [Next]_vars
    PROVE  KInv'
<1>1. CASE \E a \in Actors : AbortStep(a) \/ StartStep(a)
  BY <1>1, ActorStepKeeps
<1>2. CASE \E t \in Turns : WorkerStep(t) \/ Denial(t)
  BY <1>2, WorkerStepKeeps, NoDenial
<1>3. CASE \E i \in UserItems : Steer(i) \/ UserTurn(i)
  BY <1>3, SteerKeeps, UserTurnKeeps
<1>4. CASE \E m \in Mail : ReceiveMail(m)
  BY <1>4, ReceiveMailKeeps
<1>5. CASE \E e \in ExtItems : Inject(e) \/ XBegin(e)
  BY <1>5, InjectKeeps, XBeginKeeps
<1>6. CASE Compact \/ SpawnTask \/ Interrupt \/ Shutdown \/ ShutdownComplete
  BY <1>6, CompactKeeps, SpawnTaskKeeps, InterruptKeeps, ShutdownKeeps, ShutdownCompleteKeeps
<1>7. CASE XReserve \/ XRecheck \/ XVerify \/ GuardianAbort
  BY <1>7, XReserveKeeps, XRecheckKeeps, XVerifyKeeps, NoDenial
<1>8. CASE UNCHANGED vars
  BY <1>8, StutterKeeps
<1> QED BY <1>1, <1>2, <1>3, <1>4, <1>5, <1>6, <1>7, <1>8 DEF Next

LEMMA SpecKInv ==
    ASSUME OneDriver
    PROVE  Spec => []KInv
<1>1. KInv /\ [Next]_vars => KInv'
  BY NextKeeps
<1> QED BY <1>1, InitKInv, PTL DEF Spec

(***************************************************************************)
(* TypeOK: the slot, the turns, the input queue and the actors keep their  *)
(* types; at most one turn state is allocated per turn, and no turn has    *)
(* more than one terminal event.                                           *)
(***************************************************************************)
THEOREM SpecTypeOK ==
    ASSUME OneDriver
    PROVE  Spec => []TypeOK
<1>1. KInv => TypeOK
  BY DEF KInv
<1> QED BY <1>1, SpecKInv, PTL

(***************************************************************************)
(* RunningTurnIsActive: a worker that runs and was not cancelled is the    *)
(* task of the active turn, where a steer or an interrupt finds it.        *)
(***************************************************************************)
THEOREM SpecRunningTurnIsActive ==
    ASSUME OneDriver
    PROVE  Spec => []RunningTurnIsActive
<1>1. KInv => RunningTurnIsActive
  BY DEF KInv, LiveInv, RunningTurnIsActive, Live
<1> QED BY <1>1, SpecKInv, PTL

(***************************************************************************)
(* EndsWithOneTerminal: a turn sends its terminal event once, from         *)
(* on_task_finished or from handle_task_abort.                             *)
(***************************************************************************)
THEOREM SpecEndsWithOneTerminal ==
    ASSUME OneDriver
    PROVE  Spec => []EndsWithOneTerminal
<1>1. KInv => EndsWithOneTerminal
  <2> SUFFICES ASSUME KInv, NEW t \in Turns
               PROVE  /\ terminal[t] <= 1
                      /\ started[t] /\ pc[t] \in {"ended", "killed"}
                           => terminal[t] = 1 \/ BeingAborted(t)
    BY DEF EndsWithOneTerminal
  <2>1. pc[t] \in WorkerPcs \cup Chain \cup TaskPcs
    BY DEF KInv, PcInv, Chain
  <2>2. terminal[t] = 0 \/ terminal[t] = 1
    BY <2>1 DEF KInv, TermInv, WorkerPcs, Live
  <2>3. pc[t] \in {"ended", "killed"} => terminal[t] = 1 \/ BeingAborted(t)
    BY ActorFacts DEF KInv, TermInv, BeingAborted
  <2> QED BY <2>2, <2>3
<1> QED BY <1>1, SpecKInv, PTL

(***************************************************************************)
(* ShutdownEndsTurns: when the session says ShutdownComplete every worker  *)
(* that is still polled was cancelled by the abort of the shutdown.        *)
(***************************************************************************)
THEOREM SpecShutdownEndsTurns ==
    ASSUME OneDriver
    PROVE  Spec => []ShutdownEndsTurns
<1>1. KInv => ShutdownEndsTurns
  BY ActorFacts, TurnFacts DEF KInv, StopInv, LiveInv, ShutdownEndsTurns, Live
<1> QED BY <1>1, SpecKInv, PTL

(***************************************************************************)
(* SlotFreeAtInstall: the debug_assert!(turn.task.is_none()) of start_task *)
(* holds, so that no running turn is dropped by the start of another.      *)
(***************************************************************************)
THEOREM SpecSlotFreeAtInstall ==
    ASSUME OneDriver
    PROVE  Spec => SlotFreeAtInstall
<1>1. KInv /\ [Next]_vars =>
        [\A a \in Actors :
           pc[a] = "s_install" /\ pc'[a] # "s_install" => active.task = NoTurn]_vars
  BY DEF KInv, FreeInv, Starting, TaskPcs
<1> QED BY <1>1, SpecKInv, PTL DEF Spec, SlotFreeAtInstall

-----------------------------------------------------------------------------
(***************************************************************************)
(* No input is lost.  A second invariant, on top of the first, says where  *)
(* the items may be.  It needs that nothing is injected: an item injected  *)
(* into a turn that has recorded its leftover input is lost.               *)
(***************************************************************************)
NoInject == \A s \in Scopes : "Inject" \notin s.ops

Holding == {"hooks", "killed", "s_state", "s_extend"} \cup Passing
Drained == {"returned", "take", "ended"} \cup Finishing \cup Chain \cup TaskPcs
Owning == {"record"} \cup AbortPcs
Over == {"ended", "killed"}

(* Which procedures hold items between two awaits, and which workers have  *)
(* recorded their own input.                                               *)
ItemInv ==
    /\ \A a \in Actors : frame[a].items # {} => pc[a] \in Holding
    /\ \A t \in Turns :
         /\ pc[t] \in Drained => input[t] = {}
         /\ kind[t] = "unused" => input[t] = {}

(* Turn states that are new, reserved by the extension or recorded by a    *)
(* finishing worker have no pending input.                                 *)
EmptyInv ==
    /\ \A s \in States : nextTs <= s => pending[s] = {}
    /\ pc[Ext] \in {"x_recheck", "x_verify"} => pending[frame[Ext].ts] = {}
    /\ \A t \in Turns : pc[t] \in {"emit", "clear"} => pending[frame[t].ts] = {}

(* A client's slot that is neither empty nor being filled belongs to a     *)
(* finishing worker.                                                       *)
IdleInv ==
    Client /\ active.ts # 0 /\ active.task = NoTurn /\ ~Starting(Loop) =>
      \E t \in Turns : pc[t] \in Finishing /\ frame[t].ts = active.ts

(* Where an accepted item is.                                              *)
Kept(i) ==
    \/ i \in mailbox \cup history \cup discarded
    \/ \E t \in Turns : pc[t] \notin Over /\ i \in input[t]
    \/ \E a \in Actors : pc[a] \notin Over \cup Passing /\ i \in frame[a].items
    \/ active.ts # 0 /\ i \in pending[active.ts]
    \/ \E a \in Actors : pc[a] \in Owning /\ i \in pending[frame[a].ts]

AccInv == \A i \in accepted : Kept(i)

(* The data invariant.                                                     *)
DInv == ItemInv /\ EmptyInv /\ IdleInv /\ AccInv

LEMMA InitDInv == Init => DInv
<1> SUFFICES ASSUME Init PROVE DInv
  OBVIOUS
<1>1. /\ active.ts = 0 /\ accepted = {}
      /\ \A a \in Actors : frame[a].items = {} /\ pc[a] \notin {"emit", "clear", "x_recheck", "x_verify"}
      /\ \A t \in Turns : input[t] = {}
      /\ \A s \in States : pending[s] = {}
  BY ActorFacts, TurnFacts DEF Init, EmptyFrame
<1> QED BY <1>1, ActorFacts DEF DInv, ItemInv, EmptyInv, IdleInv, AccInv

SameData ==
    /\ pending' = pending /\ input' = input /\ mailbox' = mailbox /\ scope' = scope
    /\ history' = history /\ discarded' = discarded /\ accepted' = accepted

(* Actor a moves and no item does.                                         *)
LEMMA PlainMove ==
    ASSUME NEW a \in Actors, NEW l, KInv, DInv, SameData, SameSlot, Moves(a, l),
           \A b \in Actors : b # a => frame'[b] = frame[b],
           frame'[a].items = frame[a].items \/ frame[a].items = {} \/ pc[a] \in Passing,
           frame'[a].items # {} => l \in Holding \ {"killed"},
           l \in Passing => pc[a] \in Passing \/ frame[a].items = {},
           a \in Turns => pc[a] \notin Over /\ l # "killed" /\ (l \in Drained => input[a] = {}),
           l \in Over => frame[a].items = {},
           pc[a] \in Owning => l \in Owning /\ frame'[a].ts = frame[a].ts,
           pc[a] \in Finishing <=> l \in Finishing,
           l \in Finishing => frame'[a].ts = frame[a].ts,
           l \in {"emit", "clear"} => pc[a] \in {"emit", "clear"},
           l \in {"x_recheck", "x_verify"} => pc[a] \in {"x_recheck", "x_verify"}
                                              /\ frame'[a].ts = frame[a].ts,
           Starting(a)' <=> Starting(a)
    PROVE  DInv'
<1> USE ActorFacts, TurnFacts
<1>1. ItemInv'
  BY DEF DInv, ItemInv, SameData, SameSlot, Moves, Holding
<1>2. EmptyInv'
  <2>1. \A t \in Turns : pc'[t] \in {"emit", "clear"} =>
          pc[t] \in {"emit", "clear"} /\ frame'[t].ts = frame[t].ts
    BY DEF Moves, Finishing
  <2>2. pc'[Ext] \in {"x_recheck", "x_verify"} =>
          pc[Ext] \in {"x_recheck", "x_verify"} /\ frame'[Ext].ts = frame[Ext].ts
    BY DEF Moves
  <2> QED BY <2>1, <2>2 DEF DInv, EmptyInv, SameData, SameSlot
<1>3. IdleInv'
  <2>1. (Client' <=> Client) /\ active' = active
    BY DEF SameData, Client, SameSlot
  <2>2. Starting(Loop)' <=> Starting(Loop)
    BY DEF Moves, Starting
  <2>3. \A t \in Turns : pc[t] \in Finishing => pc'[t] \in Finishing /\ frame'[t].ts = frame[t].ts
    BY DEF Moves
  <2> QED BY <2>1, <2>2, <2>3 DEF DInv, IdleInv
<1>4. AccInv'
  <2> SUFFICES ASSUME NEW i \in accepted, Kept(i)
               PROVE  Kept(i)'
    BY DEF DInv, AccInv, SameData
  <2>1. CASE i \in mailbox \cup history \cup discarded
    BY <2>1 DEF Kept, SameData
  <2>2. CASE \E t \in Turns : pc[t] \notin Over /\ i \in input[t]
    <3>1. PICK t \in Turns : pc[t] \notin Over /\ i \in input[t]
      BY <2>2
    <3>2. pc'[t] \notin Over
      BY <3>1 DEF Moves, Over, Drained
    <3> QED BY <3>1, <3>2 DEF Kept, SameData
  <2>3. CASE \E b \in Actors : pc[b] \notin Over \cup Passing /\ i \in frame[b].items
    <3>1. PICK b \in Actors : pc[b] \notin Over \cup Passing /\ i \in frame[b].items
      BY <2>3
    <3>2. pc'[b] \notin Over \cup Passing /\ i \in frame'[b].items
      BY <3>1 DEF Moves
    <3> QED BY <3>1, <3>2 DEF Kept
  <2>4. CASE active.ts # 0 /\ i \in pending[active.ts]
    BY <2>4 DEF Kept, SameData, SameSlot
  <2>5. CASE \E b \in Actors : pc[b] \in Owning /\ i \in pending[frame[b].ts]
    <3>1. PICK b \in Actors : pc[b] \in Owning /\ i \in pending[frame[b].ts]
      BY <2>5
    <3>2. pc'[b] \in Owning /\ frame'[b].ts = frame[b].ts
      BY <3>1 DEF Moves
    <3> QED BY <3>1, <3>2 DEF Kept, SameData
  <2> QED BY <2>1, <2>2, <2>3, <2>4, <2>5 DEF Kept
<1> QED BY <1>1, <1>2, <1>3, <1>4 DEF DInv

(* The turn states that finishing workers and aborts hold are real.        *)
LEMMA OwnedStates ==
    ASSUME KInv, NEW a \in Actors, pc[a] \in Owning \cup Finishing
    PROVE  frame[a].ts \in States
<1>1. frame[a].ts \in States \cup {0}
  BY DEF KInv, TypeOK
<1>2. CASE pc[a] \in AbortPcs
  BY <1>1, <1>2, LoopAborts DEF KInv, AbortInv
<1>3. CASE pc[a] \in Finishing
  <2>1. a \in Turns
    BY <1>3, ActorFacts DEF KInv, PcInv, Finishing, AbortPcs, Chain, TaskPcs, Passing
  <2> QED BY <1>1, <1>3, <2>1, TurnFacts DEF KInv, LiveInv, TsInv
<1> QED BY <1>2, <1>3 DEF Owning, Finishing

(* The control state stands still, or a live worker moves within {"run",   *)
(* "hooks", "returned"}; the states that must be empty are untouched.      *)
LEMMA LiveData ==
    ASSUME NEW t \in Turns, NEW l \in {"run", "hooks", "returned"}, KInv, DInv,
           SameSlot, scope' = scope, Moves(t, l), pc[t] \in {"run", "hooks"},
           \A b \in Actors : b # t => frame'[b] = frame[b],
           \A s \in States : pending'[s] \subseteq pending[s],
           frame'[t].items # {} => l = "hooks",
           \A s \in Turns : s # t => input'[s] = input[s],
           l = "returned" \/ kind[t] = "unused" => input'[t] = {}
    PROVE  ItemInv' /\ EmptyInv' /\ IdleInv'
<1> USE ActorFacts, TurnFacts
<1>1. ItemInv'
  BY DEF DInv, ItemInv, SameSlot, Moves, Holding, Drained, Finishing, Chain, TaskPcs
<1>2. EmptyInv'
  <2>1. \A s \in Turns : pc'[s] \in {"emit", "clear"} =>
          pc[s] \in {"emit", "clear"} /\ frame'[s].ts = frame[s].ts /\ frame[s].ts \in States
    BY DEF Moves, KInv, LiveInv, TsInv, Finishing
  <2>2. pc'[Ext] \in {"x_recheck", "x_verify"} =>
          pc[Ext] \in {"x_recheck", "x_verify"} /\ frame'[Ext].ts = frame[Ext].ts
          /\ frame[Ext].ts \in States
    BY DEF Moves, KInv, HoldInv, TypeOK
  <2> QED BY <2>1, <2>2 DEF DInv, EmptyInv, SameSlot
<1>3. IdleInv'
  <2>1. (Client' <=> Client) /\ active' = active
    BY DEF Client, SameSlot
  <2>2. Starting(Loop)' <=> Starting(Loop)
    BY DEF Moves, Starting
  <2>3. \A s \in Turns : pc[s] \in Finishing => pc'[s] \in Finishing /\ frame'[s].ts = frame[s].ts
    BY DEF Moves, Finishing
  <2> QED BY <2>1, <2>2, <2>3 DEF DInv, IdleInv
<1> QED BY <1>1, <1>2, <1>3

LEMMA WRecordInputData ==
    ASSUME KInv, DInv, NEW t \in Turns, WRecordInput(t) \/ WFail(t) \/ WReturnErr(t)
    PROVE  DInv'
<1> USE ActorFacts, TurnFacts
<1>0. TypeOK
  BY DEF KInv
<1>1. /\ SameSlot /\ scope' = scope /\ pending' = pending /\ mailbox' = mailbox /\ frame' = frame
      /\ accepted' = accepted /\ pc[t] = "run"
  BY DEF WRecordInput, WFail, WReturnErr, SameSlot
<1>2. PICK l \in {"run", "returned"} : Moves(t, l)
  <2>1. CASE WRecordInput(t) \/ WFail(t)
    BY <2>1 DEF WRecordInput, WFail, Moves
  <2>2. CASE WReturnErr(t)
    BY <1>0, <2>2, GotoMoves DEF WReturnErr
  <2> QED BY <2>1, <2>2
<1>3. /\ input' = [input EXCEPT ![t] = {}]
      /\ input'[t] = {} /\ \A s \in Turns : s # t => input'[s] = input[s]
      /\ history \subseteq history' /\ discarded \subseteq discarded'
      /\ input[t] \subseteq history' \cup discarded'
  BY <1>0 DEF TypeOK, WRecordInput, WFail, WReturnErr
<1>4. frame[t].items = {}
  BY <1>1 DEF DInv, ItemInv, Holding, Passing
<1>5. ItemInv' /\ EmptyInv' /\ IdleInv'
  BY <1>1, <1>2, <1>3, <1>4, LiveData
<1>6. AccInv'
  <2> SUFFICES ASSUME NEW i \in accepted, Kept(i)
               PROVE  Kept(i)'
    BY <1>1 DEF DInv, AccInv
  <2> QED BY <1>1, <1>2, <1>3 DEF Kept, Moves, SameSlot, Over, Owning, AbortPcs, Passing
<1> QED BY <1>5, <1>6 DEF DInv

LEMMA WRecordData ==
    ASSUME KInv, DInv, NEW t \in Turns, WRecord(t)
    PROVE  DInv'
<1> USE ActorFacts, TurnFacts
<1>0. TypeOK
  BY DEF KInv
<1>1. /\ SameSlot /\ scope' = scope /\ pending' = pending /\ mailbox' = mailbox /\ input' = input
      /\ accepted' = accepted /\ discarded' = discarded /\ pc[t] = "hooks"
      /\ history' = history \cup frame[t].items
  BY DEF WRecord, SameSlot, turnVars
<1>2. Moves(t, "run")
  BY <1>0, GotoMoves DEF WRecord
<1>3. /\ SameFrames /\ frame'[t].items = {}
      /\ \A b \in Actors : b # t => frame'[b] = frame[b]
  <2>1. {} \in SUBSET Items /\ frame' = [frame EXCEPT ![t].items = {}]
    BY DEF WRecord
  <2> QED BY <1>0, <2>1, ItemsFrame
<1>4. kind[t] # "unused"
  BY <1>1 DEF KInv, TsInv
<1>5. ItemInv' /\ EmptyInv' /\ IdleInv'
  BY <1>1, <1>2, <1>3, <1>4, LiveData
<1>6. AccInv'
  <2> SUFFICES ASSUME NEW i \in accepted, Kept(i)
               PROVE  Kept(i)'
    BY <1>1 DEF DInv, AccInv
  <2> QED BY <1>1, <1>2, <1>3 DEF Kept, Moves, SameSlot, Over, Owning, AbortPcs, Passing
<1> QED BY <1>5, <1>6 DEF DInv

(* Draining takes items out of the mailbox and the active turn, no others. *)
LEMMA DrainData ==
    ASSUME TypeOK, DrainPending
    PROVE  /\ \A s \in States : pending'[s] \subseteq pending[s]
           /\ mailbox \subseteq mailbox' \cup Drainable
           /\ \A s \in States : s # active.ts => pending'[s] = pending[s]
           /\ active.ts # 0 => pending[active.ts] \subseteq pending'[active.ts] \cup Drainable
  BY DEF TypeOK, DrainPending

LEMMA WDrainData ==
    ASSUME KInv, DInv, NEW t \in Turns, WDrain(t)
    PROVE  DInv'
<1> USE ActorFacts, TurnFacts
<1>0. TypeOK /\ KInv'
  BY WDrainKeeps DEF KInv
<1>1. /\ SameSlot /\ scope' = scope /\ input' = input /\ history' = history
      /\ accepted' = accepted /\ discarded' = discarded /\ pc[t] = "run" /\ DrainPending
  BY DEF WDrain, SameSlot, turnVars
<1>2. Moves(t, "hooks")
  BY <1>0, GotoMoves DEF WDrain
<1>3. /\ SameFrames /\ frame'[t].items = Drainable
      /\ \A b \in Actors : b # t => frame'[b] = frame[b]
  BY <1>0, DrainTypes, ItemsFrame DEF WDrain
<1>4. kind[t] # "unused" /\ frame[t].items = {}
  BY <1>1 DEF KInv, TsInv, DInv, ItemInv, Holding, Passing
<1>5. ItemInv' /\ EmptyInv' /\ IdleInv'
  BY <1>0, <1>1, <1>2, <1>3, <1>4, LiveData, DrainData
<1>6. AccInv'
  <2> SUFFICES ASSUME NEW i \in accepted, Kept(i)
               PROVE  Kept(i)'
    BY <1>1 DEF DInv, AccInv
  <2>1. i \in Drainable => Kept(i)'
    BY <1>2, <1>3 DEF Kept, Moves, Over, Passing
  <2>2. CASE i \notin Drainable
    <3>1. \A s \in States : i \in pending[s] => i \in pending'[s]
      BY <1>0, <1>1, <2>2, DrainData
    <3>2. i \in mailbox => i \in mailbox'
      BY <1>0, <1>1, <2>2, DrainData
    <3>3. active.ts # 0 => active.ts \in States
      BY <1>0 DEF TypeOK
    <3>4. \A b \in Actors : pc[b] \in Owning => frame[b].ts \in States
      BY OwnedStates
    <3> QED BY <1>1, <1>2, <1>3, <1>4, <3>1, <3>2, <3>3, <3>4
            DEF Kept, Moves, SameSlot, Over, Owning, AbortPcs, Passing
  <2> QED BY <2>1, <2>2
<1> QED BY <1>5, <1>6 DEF DInv

(* Neither an item nor an actor moves.                                     *)
LEMMA StillData ==
    ASSUME DInv, SameData, SameSlot, pc' = pc, frame' = frame
    PROVE  DInv'
<1>1. Client' <=> Client
  BY DEF SameData, Client
<1>2. ItemInv' /\ EmptyInv'
  BY DEF DInv, ItemInv, EmptyInv, SameData, SameSlot
<1>3. IdleInv'
  BY <1>1 DEF DInv, IdleInv, SameSlot, Starting
<1>4. AccInv'
  BY DEF DInv, AccInv, Kept, SameData, SameSlot
<1> QED BY <1>2, <1>3, <1>4 DEF DInv

LEMMA WPlainData ==
    ASSUME KInv, DInv, NEW t \in Turns, WStart(t) \/ WReturnOk(t) \/ WCheck(t) \/ FEmit(t)
    PROVE  DInv'
<1> USE ActorFacts
<1>0. TypeOK
  BY DEF KInv
<1>1. SameData /\ SameSlot /\ frame' = frame
  BY DEF WStart, WReturnOk, WCheck, FEmit, SameData, SameSlot, turnVars, dataVars
<1>2. PICK l : /\ Moves(t, l)
               /\ \/ pc[t] = "spawned" /\ l = "run"
                  \/ pc[t] = "run" /\ l = "returned" /\ input[t] = {}
                  \/ pc[t] = "returned" /\ l \in {"ended", "take"}
                  \/ pc[t] = "emit" /\ l = "clear"
  <2>1. CASE WStart(t)
    BY <1>0, <2>1, GotoMoves DEF WStart
  <2>2. CASE WReturnOk(t)
    BY <1>0, <2>2, GotoMoves DEF WReturnOk
  <2>3. CASE WCheck(t)
    BY <1>0, <2>3, GotoMoves DEF WCheck
  <2>4. CASE FEmit(t)
    BY <1>0, <2>4, GotoMoves DEF FEmit
  <2> QED BY <2>1, <2>2, <2>3, <2>4
<1>3. /\ frame[t].items = {}
      /\ l \in Drained => input[t] = {}
  BY <1>2 DEF DInv, ItemInv, Holding, Drained, Passing, Finishing, Chain, TaskPcs
<1>4. /\ pc[t] \notin Over /\ l # "killed" /\ l \notin Passing
      /\ pc[t] \notin Owning
      /\ pc[t] \in Finishing <=> l \in Finishing
      /\ l \in {"emit", "clear"} => pc[t] \in {"emit", "clear"}
      /\ l \notin {"x_recheck", "x_verify"}
  BY <1>2 DEF Over, Passing, Owning, AbortPcs, Finishing
<1>5. Starting(t)' <=> Starting(t)
  BY <1>2 DEF Starting, Moves, TaskPcs
<1> QED BY <1>1, <1>2, <1>3, <1>4, <1>5, PlainMove

LEMMA WStillData ==
    ASSUME DInv, (\E t \in Turns : WFinal(t) \/ WToolCall(t)) \/ ShutdownComplete
    PROVE  DInv'
  BY StillData DEF WFinal, WToolCall, ShutdownComplete, SameData, SameSlot, turnVars

(* An actor with nothing in hand returns.                                  *)
LEMMA ReturnData ==
    ASSUME KInv, DInv, NEW a \in Actors, Return(a), SameData, SameSlot,
           pc[a] \in {"m_check", "m_reserve", "x_reserve", "take"}
    PROVE  DInv'
<1> USE ActorFacts
<1>0. TypeOK
  BY DEF KInv
<1>1. PICK l : /\ Moves(a, l) /\ (a \in Turns => l = "ended") /\ (a \notin Turns => l = "idle")
  BY <1>0, ReturnMoves
<1>2. /\ frame'[a].items = {}
      /\ \A b \in Actors : b # a => frame'[b] = frame[b]
  BY <1>0, ReturnMoves DEF EmptyFrame
<1>3. /\ frame[a].items = {} \/ pc[a] \in Passing
      /\ l \in Over => a \in Turns /\ frame[a].items = {}
      /\ a \in Turns => input[a] = {} /\ pc[a] \notin Over /\ l # "killed"
  <2>1. frame[a].items = {} \/ pc[a] \in Passing
    BY DEF DInv, ItemInv, Holding, Passing
  <2>2. a \in Turns => pc[a] # "x_reserve"
    BY DEF KInv, PcInv, WorkerPcs, Chain, TaskPcs
  <2>3. a \in Turns => input[a] = {} /\ frame[a].items = {}
    BY <2>1, <2>2 DEF DInv, ItemInv, Drained, Chain, Passing
  <2> QED BY <1>1, <2>1, <2>3 DEF Over
<1>4. /\ l \notin Passing /\ l \notin Finishing /\ pc[a] \notin Owning /\ pc[a] \notin Finishing
      /\ l \notin {"emit", "clear", "x_recheck", "x_verify"}
  BY <1>1 DEF Passing, Owning, AbortPcs, Finishing
<1>5. Starting(a)' <=> Starting(a)
  BY <1>1 DEF Starting, Moves, TaskPcs
<1> QED BY <1>1, <1>2, <1>3, <1>4, <1>5, PlainMove

LEMMA MCheckData ==
    ASSUME KInv, DInv, NEW a \in Actors, MCheck(a)
    PROVE  DInv'
<1> USE ActorFacts
<1>0. TypeOK /\ pc[a] = "m_check"
  BY DEF KInv, MCheck
<1>1. SameData /\ SameSlot
  BY DEF MCheck, SameData, SameSlot, turnVars, dataVars
<1>2. CASE HasTriggerMail
  <2>1. Moves(a, "m_reserve") /\ frame' = frame
    BY <1>0, <1>2, GotoMoves DEF MCheck
  <2>2. frame[a].items = {} /\ (a \in Turns => input[a] = {})
    BY <1>0 DEF DInv, ItemInv, Holding, Passing, Drained, Chain
  <2>3. /\ pc[a] \notin Over /\ pc[a] \notin Owning /\ pc[a] \notin Finishing
        /\ "m_reserve" \notin Passing \cup Finishing \cup Over
    BY <1>0 DEF Over, Owning, Finishing, AbortPcs, Passing
  <2>4. Starting(a)' <=> Starting(a)
    BY <1>0, <2>1 DEF Starting, Moves, TaskPcs
  <2> QED BY <1>1, <2>1, <2>2, <2>3, <2>4, PlainMove
<1>3. CASE ~HasTriggerMail
  BY <1>0, <1>1, <1>3, ReturnData DEF MCheck
<1> QED BY <1>2, <1>3

LEMMA AbortEmitData ==
    ASSUME KInv, DInv, NEW a \in Actors, AbortEmit(a)
    PROVE  DInv'
<1> USE ActorFacts
<1>0. TypeOK /\ pc[a] = "abort_emit" /\ a = Loop
  BY LoopAborts DEF KInv, AbortEmit, AbortPcs
<1>1. SameData /\ SameSlot /\ frame' = frame
  BY DEF AbortEmit, SameData, SameSlot, turnVars, dataVars
<1>2. Moves(a, "abort_clear")
  BY <1>0, GotoMoves DEF AbortEmit
<1>3. frame[a].items = {}
  BY <1>0 DEF DInv, ItemInv, Holding, Passing
<1>4. /\ pc[a] \notin Finishing /\ "abort_clear" \in Owning
      /\ "abort_clear" \notin Passing \cup Finishing \cup Over
  BY <1>0 DEF Over, Owning, Finishing, AbortPcs, Passing
<1>5. Starting(a)' <=> Starting(a)
  BY <1>0, <1>2 DEF Starting, Moves, TaskPcs
<1> QED BY <1>0, <1>1, <1>2, <1>3, <1>4, <1>5, PlainMove

LEMMA XBeginData ==
    ASSUME KInv, DInv, NEW e \in ExtItems, XBegin(e)
    PROVE  DInv'
<1> USE ActorFacts
<1>0. TypeOK /\ pc[Ext] = "idle"
  BY DEF KInv, XBegin
<1>1. SameData /\ SameSlot
  BY DEF XBegin, SameData, SameSlot, turnVars, dataVars
<1>2. Moves(Ext, "x_reserve")
  BY <1>0, GotoMoves DEF XBegin
<1>3. /\ \A b \in Actors : b # Ext => frame'[b] = frame[b]
      /\ frame[Ext].items = {}
  <2>1. {e} \in SUBSET Items /\ frame' = [frame EXCEPT ![Ext].items = {e}]
    BY DEF XBegin, Items
  <2>2. frame[Ext].items = {}
    BY <1>0 DEF DInv, ItemInv, Holding, Passing
  <2> QED BY <1>0, <2>1, <2>2, ItemsFrame
<1>4. /\ pc[Ext] \notin Finishing \cup Owning /\ "x_reserve" \in Holding /\ "x_reserve" # "killed"
      /\ "x_reserve" \notin Finishing \cup Over \cup Owning
  BY <1>0 DEF Over, Owning, Finishing, AbortPcs, Passing, Holding
<1>5. Starting(Ext)' <=> Starting(Ext)
  BY <1>0, <1>2 DEF Starting, Moves, TaskPcs
<1> QED BY <1>0, <1>1, <1>2, <1>3, <1>4, <1>5, PlainMove

(* What an actor that has the slot to itself keeps away from.              *)
LEMMA StartApart ==
    ASSUME KInv, NEW a \in Actors, Starting(a)
    PROVE  /\ active.task = NoTurn /\ active.ts \in States \cup {0}
           /\ \A t \in Turns : pc[t] \in Finishing => frame[t].ts # active.ts
           /\ \A b \in Actors : Starting(b) => b = a
           /\ pc[a] \notin Over \cup Owning \cup Finishing \cup Live
           /\ Client => a = Loop
<1>1. active.task = NoTurn /\ active.ts \in States \cup {0}
  BY DEF KInv, FreeInv, TypeOK
<1>2. pc[a] \notin Over \cup Owning \cup Finishing \cup Live
  BY DEF Starting, TaskPcs, Over, Owning, Finishing, Live, AbortPcs
<1> QED BY <1>1, <1>2, LoopStarts DEF KInv, ApartInv, SoleInv

LEMMA SDrainData ==
    ASSUME KInv, DInv, NEW a \in Actors, SDrain(a)
    PROVE  DInv'
<1> USE ActorFacts, TurnFacts
<1>0. TypeOK /\ pc[a] = "s_drain" /\ Starting(a)
  BY DEF KInv, SDrain, Starting, TaskPcs
<1>1. /\ SameSlot /\ scope' = scope /\ input' = input /\ history' = history
      /\ accepted' = accepted /\ discarded' = discarded /\ DrainPending
  BY DEF SDrain, SameSlot, turnVars
<1>2. Moves(a, "s_state")
  BY <1>0, GotoMoves DEF SDrain
<1>3. /\ SameFrames /\ frame'[a].items = Drainable
      /\ \A b \in Actors : b # a => frame'[b] = frame[b]
  <2>1. Drainable \in SUBSET Items /\ frame' = [frame EXCEPT ![a].items = Drainable]
    BY <1>0, DrainTypes DEF SDrain
  <2> QED BY <1>0, <2>1, ItemsFrame
<1>4. frame[a].items = {}
  BY <1>0 DEF DInv, ItemInv, Holding, Passing
<1>5. ItemInv'
  BY <1>0, <1>1, <1>2, <1>3 DEF DInv, ItemInv, SameSlot, Moves, Holding, Drained, TaskPcs
<1>6. EmptyInv'
  <2>1. \A s \in Turns : pc'[s] \in {"emit", "clear"} =>
          pc[s] \in {"emit", "clear"} /\ frame'[s].ts = frame[s].ts /\ frame[s].ts \in States
    BY <1>2, <1>3, OwnedStates DEF Moves, Finishing
  <2>2. pc'[Ext] \in {"x_recheck", "x_verify"} =>
          pc[Ext] \in {"x_recheck", "x_verify"} /\ frame'[Ext].ts = frame[Ext].ts
          /\ frame[Ext].ts \in States
    BY <1>0, <1>2, <1>3 DEF Moves, KInv, HoldInv, TypeOK
  <2> QED BY <1>0, <1>1, <2>1, <2>2, DrainData DEF DInv, EmptyInv, SameSlot
<1>7. IdleInv'
  <2>1. Client' => a = Loop
    BY <1>0, <1>1, StartApart DEF Client
  <2> QED BY <1>2, <2>1 DEF IdleInv, Starting, TaskPcs, Moves
<1>8. AccInv'
  <2> SUFFICES ASSUME NEW i \in accepted, Kept(i)
               PROVE  Kept(i)'
    BY <1>1 DEF DInv, AccInv
  <2>1. i \in Drainable => Kept(i)'
    BY <1>2, <1>3 DEF Kept, Moves, Over, Passing
  <2>2. CASE i \notin Drainable
    <3>1. \A s \in States : i \in pending[s] => i \in pending'[s]
      BY <1>0, <1>1, <2>2, DrainData
    <3>2. i \in mailbox => i \in mailbox'
      BY <1>0, <1>1, <2>2, DrainData
    <3>3. active.ts # 0 => active.ts \in States
      BY <1>0 DEF TypeOK
    <3>4. \A b \in Actors : pc[b] \in Owning => frame[b].ts \in States
      BY OwnedStates
    <3> QED BY <1>0, <1>1, <1>2, <1>3, <1>4, <3>1, <3>2, <3>3, <3>4
            DEF Kept, Moves, SameSlot, Over, Owning, AbortPcs, Passing
  <2> QED BY <2>1, <2>2
<1> QED BY <1>5, <1>6, <1>7, <1>8 DEF DInv

(* Items are added to the active turn.                                     *)
LEMMA AddedData ==
    ASSUME KInv, DInv, NEW S, active.ts \in States, nextTs' = nextTs,
           pending' = [pending EXCEPT ![active.ts] = @ \cup S],
           \A t \in Turns : pc[t] \in Finishing => frame[t].ts # active.ts,
           \A t \in Turns : pc'[t] \in {"emit", "clear"} =>
               pc[t] \in {"emit", "clear"} /\ frame'[t].ts = frame[t].ts,
           pc'[Ext] \notin {"x_recheck", "x_verify"}
    PROVE  /\ EmptyInv'
           /\ S \subseteq pending'[active.ts]
           /\ \A s \in States : pending[s] \subseteq pending'[s]
<1>1. pending \in [States -> SUBSET Items] /\ nextTs \in Nat /\ active.ts < nextTs
  BY DEF KInv, TypeOK, TsInv
<1>2. \A s \in States : s # active.ts => pending'[s] = pending[s]
  BY <1>1
<1>3. pending'[active.ts] = pending[active.ts] \cup S
  BY <1>1
<1>4. \A t \in Turns : pc'[t] \in {"emit", "clear"} => pending'[frame'[t].ts] = {}
  BY <1>2, OwnedStates, ActorFacts DEF Finishing, DInv, EmptyInv
<1>5. \A s \in States : nextTs' <= s => pending'[s] = {}
  BY <1>1, <1>2, TurnFacts DEF DInv, EmptyInv
<1> QED BY <1>2, <1>3, <1>4, <1>5 DEF EmptyInv

LEMMA SExtendData ==
    ASSUME KInv, DInv, NEW a \in Actors, SExtend(a)
    PROVE  DInv'
<1> USE ActorFacts, TurnFacts
<1>0. TypeOK /\ pc[a] = "s_extend" /\ Starting(a)
  BY DEF KInv, SExtend, Starting, TaskPcs
<1>1. /\ SameSlot /\ scope' = scope /\ input' = input /\ history' = history
      /\ accepted' = accepted /\ discarded' = discarded /\ mailbox' = mailbox
  BY DEF SExtend, SameSlot, turnVars
<1>2. Moves(a, "s_install")
  BY <1>0, GotoMoves DEF SExtend
<1>3. /\ SameFrames /\ frame'[a].items = {}
      /\ \A b \in Actors : b # a => frame'[b] = frame[b]
  <2>1. {} \in SUBSET Items /\ frame' = [frame EXCEPT ![a].items = {}]
    BY DEF SExtend
  <2> QED BY <1>0, <2>1, ItemsFrame
<1>4. /\ active.ts # 0 /\ frame[a].ts = active.ts /\ active.ts \in States
      /\ pending' = [pending EXCEPT ![active.ts] = @ \cup frame[a].items]
  BY <1>0 DEF KInv, HoldInv, TypeOK, SExtend
<1>5. ItemInv'
  BY <1>0, <1>1, <1>2, <1>3 DEF DInv, ItemInv, SameSlot, Moves, Holding, Drained, TaskPcs
<1>6. /\ EmptyInv'
      /\ frame[a].items \subseteq pending'[active.ts]
      /\ \A s \in States : pending[s] \subseteq pending'[s]
  <2>1. /\ \A t \in Turns : pc[t] \in Finishing => frame[t].ts # active.ts
        /\ \A b \in Actors : Starting(b) => b = a
    BY <1>0, StartApart
  <2>2. \A t \in Turns : pc'[t] \in {"emit", "clear"} =>
          pc[t] \in {"emit", "clear"} /\ frame'[t].ts = frame[t].ts
    BY <1>2, <1>3 DEF Moves
  <2>3. pc'[Ext] \notin {"x_recheck", "x_verify"}
    BY <1>2, <2>1 DEF Moves, Starting
  <2> QED BY <1>1, <1>4, <2>1, <2>2, <2>3, AddedData DEF SameSlot
<1>7. IdleInv'
  <2>1. Client' => a = Loop
    BY <1>0, <1>1, StartApart DEF Client
  <2> QED BY <1>2, <2>1 DEF IdleInv, Starting, TaskPcs, Moves
<1>8. AccInv'
  <2> SUFFICES ASSUME NEW i \in accepted, Kept(i)
               PROVE  Kept(i)'
    BY <1>1 DEF DInv, AccInv
  <2>1. i \in pending'[active.ts] => Kept(i)'
    BY <1>1, <1>4 DEF Kept, SameSlot
  <2>2. \A b \in Actors : pc[b] \in Owning => frame[b].ts \in States
    BY OwnedStates
  <2> QED BY <1>0, <1>1, <1>2, <1>3, <1>4, <1>6, <2>1, <2>2
          DEF Kept, Moves, SameSlot, Over, Owning, AbortPcs, Passing
<1> QED BY <1>5, <1>6, <1>7, <1>8 DEF DInv

LEMMA XVerifyData ==
    ASSUME KInv, DInv, XVerify
    PROVE  DInv'
<1> USE ActorFacts, TurnFacts
<1>0. TypeOK /\ pc[Ext] = "x_verify" /\ Starting(Ext) /\ ~Client
  BY AgentPcs DEF KInv, XVerify, Starting, Passing
<1>1. active.task = NoTurn /\ active.ts = frame[Ext].ts /\ active.ts # 0 /\ active.ts \in States
  BY <1>0 DEF KInv, FreeInv, HoldInv, TypeOK
<1>2. /\ pending' = [pending EXCEPT ![active.ts] = @ \cup frame[Ext].items]
      /\ accepted' = accepted \cup frame[Ext].items
      /\ Goto(Ext, "s_drain")
      /\ frame' = [frame EXCEPT ![Ext].items = {}]
  BY <1>1 DEF XVerify, StillReserved
<1>3. /\ SameSlot /\ scope' = scope /\ input' = input /\ history' = history
      /\ discarded' = discarded /\ mailbox' = mailbox
  BY DEF XVerify, SameSlot, turnVars
<1>4. /\ SameFrames /\ frame'[Ext].items = {}
      /\ \A b \in Actors : b # Ext => frame'[b] = frame[b]
  <2>1. {} \in SUBSET Items
    OBVIOUS
  <2> QED BY <1>0, <1>2, <2>1, ItemsFrame
<1>5. Moves(Ext, "s_drain")
  BY <1>0, <1>2, GotoMoves
<1>6. ItemInv'
  BY <1>0, <1>3, <1>4, <1>5 DEF DInv, ItemInv, SameSlot, Moves
<1>7. /\ EmptyInv'
      /\ frame[Ext].items \subseteq pending'[active.ts]
      /\ \A s \in States : pending[s] \subseteq pending'[s]
  <2>1. \A t \in Turns : pc[t] \in Finishing => frame[t].ts # active.ts
    BY <1>0, StartApart
  <2>2. \A t \in Turns : pc'[t] \in {"emit", "clear"} =>
          pc[t] \in {"emit", "clear"} /\ frame'[t].ts = frame[t].ts
    BY <1>4, <1>5 DEF Moves
  <2>3. pc'[Ext] \notin {"x_recheck", "x_verify"}
    BY <1>5 DEF Moves
  <2> QED BY <1>1, <1>2, <1>3, <2>1, <2>2, <2>3, AddedData DEF SameSlot
<1>8. IdleInv'
  BY <1>0, <1>3 DEF IdleInv, Client
<1>9. AccInv'
  <2>1. \A i : i \in pending'[active.ts] => Kept(i)'
    BY <1>1, <1>3 DEF Kept, SameSlot
  <2>2. \A b \in Actors : pc[b] \in Owning => frame[b].ts \in States
    BY OwnedStates
  <2>3. ASSUME NEW i \in accepted, Kept(i)
        PROVE  Kept(i)'
    BY <1>0, <1>1, <1>3, <1>4, <1>5, <1>7, <2>1, <2>2, <2>3
       DEF Kept, Moves, SameSlot, Over, Owning, AbortPcs, Passing
  <2> QED BY <1>2, <1>7, <2>1, <2>3 DEF AccInv, DInv
<1> QED BY <1>6, <1>7, <1>8, <1>9 DEF DInv

(* An actor changes the slot; all items stay where they are, but for those *)
(* of a turn state the slot may drop.                                      *)
LEMMA SlotData ==
    ASSUME KInv, DInv, SameData, nextTs <= nextTs', nextTs \in Nat, nextTs' \in Nat,
           \A b \in Actors : frame'[b].items = frame[b].items \/ frame[b].items = {},
           \A b \in Actors : frame'[b].items # {} => pc'[b] \in Holding,
           \A b \in Actors : pc[b] \notin Over \cup Passing /\ frame[b].items # {} =>
               pc'[b] \notin Over \cup Passing,
           \A b \in Actors : pc[b] \in Owning => pc'[b] \in Owning /\ frame'[b].ts = frame[b].ts,
           \A t \in Turns : pc[t] \notin Over /\ input[t] # {} => pc'[t] \notin Over,
           \A t \in Turns : pc'[t] \in Drained => pc[t] \in Drained \/ input[t] = {},
           \A t \in Turns : kind'[t] = "unused" => kind[t] = "unused",
           \A t \in Turns : pc'[t] \in {"emit", "clear"} =>
               pc[t] \in {"emit", "clear"} /\ frame'[t].ts = frame[t].ts,
           pc'[Ext] \in {"x_recheck", "x_verify"} =>
               \/ pc[Ext] \in {"x_recheck", "x_verify"} /\ frame'[Ext].ts = frame[Ext].ts
               \/ frame'[Ext].ts \in States /\ nextTs <= frame'[Ext].ts,
           \/ active.ts = 0
           \/ active'.ts = active.ts
           \/ pending[active.ts] = {}
           \/ \E b \in Actors : pc'[b] \in Owning /\ frame'[b].ts = active.ts
    PROVE  ItemInv' /\ EmptyInv' /\ AccInv'
<1> USE ActorFacts, TurnFacts
<1>1. ItemInv'
  BY DEF DInv, ItemInv, SameData
<1>2. EmptyInv'
  <2>1. EmptyInv /\ pending' = pending
    BY DEF DInv, SameData
  <2>2. \A s \in States : nextTs' <= s => pending'[s] = {}
    BY <2>1 DEF EmptyInv
  <2>3. pc'[Ext] \in {"x_recheck", "x_verify"} => pending'[frame'[Ext].ts] = {}
    BY <2>1 DEF EmptyInv
  <2>4. \A t \in Turns : pc'[t] \in {"emit", "clear"} => pending'[frame'[t].ts] = {}
    BY <2>1 DEF EmptyInv
  <2> QED BY <2>2, <2>3, <2>4 DEF EmptyInv
<1>3. AccInv'
  <2> SUFFICES ASSUME NEW i \in accepted, Kept(i)
               PROVE  Kept(i)'
    BY DEF DInv, AccInv, SameData
  <2>1. CASE i \in mailbox \cup history \cup discarded
    BY <2>1 DEF Kept, SameData
  <2>2. CASE \E t \in Turns : pc[t] \notin Over /\ i \in input[t]
    <3>1. PICK t \in Turns : pc[t] \notin Over /\ i \in input[t]
      BY <2>2
    <3>2. pc'[t] \notin Over
      BY <3>1
    <3> QED BY <3>1, <3>2 DEF Kept, SameData
  <2>3. CASE \E b \in Actors : pc[b] \notin Over \cup Passing /\ i \in frame[b].items
    <3>1. PICK b \in Actors : pc[b] \notin Over \cup Passing /\ i \in frame[b].items
      BY <2>3
    <3>2. pc'[b] \notin Over \cup Passing /\ i \in frame'[b].items
      BY <3>1
    <3> QED BY <3>1, <3>2 DEF Kept
  <2>4. CASE active.ts # 0 /\ i \in pending[active.ts]
    BY <2>4 DEF Kept, SameData
  <2>5. CASE \E b \in Actors : pc[b] \in Owning /\ i \in pending[frame[b].ts]
    BY <2>5 DEF Kept, SameData
  <2> QED BY <2>1, <2>2, <2>3, <2>4, <2>5 DEF Kept
<1> QED BY <1>1, <1>2, <1>3

LEMMA SStateData ==
    ASSUME KInv, DInv, NEW a \in Actors, SState(a)
    PROVE  DInv'
<1> USE ActorFacts, TurnFacts
<1>0. TypeOK /\ pc[a] = "s_state" /\ Starting(a)
  BY DEF KInv, SState, Starting, TaskPcs
<1>1. SameData /\ kind' = kind
  BY DEF SState, SameData, turnVars, dataVars
<1>2. Moves(a, "s_extend")
  BY <1>0, GotoMoves DEF SState
<1>3. /\ frame'[a].items = frame[a].items
      /\ \A b \in Actors : b # a => frame'[b] = frame[b]
  <2>1. frame' = [frame EXCEPT ![a].ts = active'.ts] /\ frame \in [Actors -> Frame]
    BY <1>0 DEF SState, TypeOK, Frame
  <2> QED BY <2>1 DEF Frame
<1>4. /\ active.ts = 0 \/ active'.ts = active.ts
      /\ nextTs <= nextTs' /\ nextTs \in Nat /\ nextTs' \in Nat
  BY <1>0 DEF SState, GetOrInsert, TypeOK
<1>5. ItemInv' /\ EmptyInv' /\ AccInv'
  <2>1. pc[a] \notin Owning \cup Over \cup Finishing /\ "s_extend" \in Holding \ Passing
        /\ "s_extend" \notin Over /\ (a \in Turns => pc[a] \in Drained)
    BY <1>0 DEF Owning, Over, Finishing, AbortPcs, Holding, Passing, Drained, TaskPcs
  <2>2. \A b \in Actors : frame'[b].items # {} => pc'[b] \in Holding
    BY <1>2, <1>3, <2>1 DEF Moves, DInv, ItemInv
  <2> QED BY <1>0, <1>1, <1>2, <1>3, <1>4, <2>1, <2>2, SlotData DEF Moves
<1>6. IdleInv'
  <2>1. Client' => a = Loop
    BY <1>0, <1>1, StartApart DEF Client, SameData
  <2> QED BY <1>2, <2>1 DEF IdleInv, Starting, TaskPcs, Moves
<1> QED BY <1>5, <1>6 DEF DInv

LEMMA SInstallData ==
    ASSUME KInv, DInv, NEW a \in Actors, SInstall(a)
    PROVE  DInv'
<1> USE ActorFacts, TurnFacts
<1>0. TypeOK /\ pc[a] = "s_install" /\ Starting(a) /\ Carries(a) /\ active.task = NoTurn
  <2>1. pc[a] = "s_install"
    BY DEF SInstall
  <2>2. Starting(a) /\ Carries(a)
    BY <2>1 DEF Starting, Carries, TaskPcs
  <2> QED BY <2>1, <2>2 DEF KInv, FreeInv
<1>1. SameData /\ kind' = kind
  BY DEF SInstall, SameData, turnVars, dataVars
<1>t. PICK t \in Turns : t = frame[a].next
  BY <1>0 DEF KInv, NextInv
<1>2. t # a /\ pc[t] = "none" /\ active.ts # 0 /\ frame[a].items = {} /\ (a \in Turns => input[a] = {})
  BY <1>0, <1>t DEF KInv, NextInv, HoldInv, DInv, ItemInv, Holding, Passing, Drained, TaskPcs
<1>3. /\ nextTs' = nextTs /\ nextTs \in Nat
      /\ active'.ts = active.ts /\ active'.task = t
  BY <1>0, <1>t, <1>2 DEF SInstall, GetOrInsert, TypeOK
<1>4. /\ pc'[t] = "spawned"
      /\ pc'[a] = IF a \in Turns THEN "ended" ELSE "idle"
      /\ \A b \in Actors : b # t /\ b # a => pc'[b] = pc[b]
  BY <1>0, <1>t, <1>2 DEF SInstall, Rest, TypeOK
<1>5. /\ frame'[a].items = {}
      /\ \A b \in Actors : b # a => frame'[b] = frame[b]
  BY <1>0 DEF SInstall, TypeOK, EmptyFrame
<1>6. ItemInv' /\ EmptyInv' /\ AccInv'
  <2>1. frame[t].items = {}
    BY <1>2 DEF DInv, ItemInv, Holding, Passing
  <2>2. \A b \in Actors : frame'[b].items # {} => pc'[b] \in Holding
    BY <1>4, <1>5, <2>1 DEF DInv, ItemInv
  <2>3. \A b \in Actors : pc[b] \in Owning => b # a /\ b # t
    BY <1>0, <1>2 DEF Owning, AbortPcs
  <2>4. \A s \in Turns : pc[s] \notin Over /\ input[s] # {} => pc'[s] \notin Over
    BY <1>2, <1>4 DEF Over
  <2>5. \A s \in Turns : pc'[s] \in Drained => pc[s] \in Drained \/ input[s] = {}
    BY <1>2, <1>4 DEF Drained, Finishing, Chain, TaskPcs
  <2>6. \A s \in Turns : pc'[s] \in {"emit", "clear"} => s # a /\ s # t
    BY <1>4
  <2>7. pc'[Ext] \in {"x_recheck", "x_verify"} => Ext # a /\ Ext # t
    BY <1>4
  <2> QED BY <1>1, <1>2, <1>3, <1>4, <1>5, <2>1, <2>2, <2>3, <2>4, <2>5, <2>6, <2>7, SlotData
<1>7. IdleInv'
  BY <1>3 DEF IdleInv
<1> QED BY <1>6, <1>7 DEF DInv

(* A reservation, by whoever makes it.                                     *)
LEMMA ReserveData ==
    ASSUME KInv, KInv', DInv, NEW a \in Actors, NEW l \in {"s_drain", "x_recheck"}, ~Client,
           pc[a] \in {"m_reserve", "x_reserve"}, Moves(a, l), SameData,
           active.ts = 0, nextTs' = nextTs + 1, nextTs \in States,
           NEW t \in Turns, kind' = [kind EXCEPT ![t] = "Regular"],
           \A b \in Actors : b # a => frame'[b] = frame[b],
           frame'[a].items = frame[a].items,
           l = "x_recheck" => pc[a] = "x_reserve" /\ frame'[a].ts = nextTs,
           l = "s_drain" => pc[a] = "m_reserve"
    PROVE  DInv'
<1> USE ActorFacts, TurnFacts
<1>1. TypeOK
  BY DEF KInv
<1>2. /\ pc[a] = "x_reserve" => a = Ext
      /\ l = "s_drain" => frame[a].items = {}
      /\ a \in Turns => pc[a] \in Drained
  BY AgentPcs DEF DInv, ItemInv, Holding, Passing, Drained, Chain
<1>3. ItemInv' /\ EmptyInv' /\ AccInv'
  <2>1. \A b \in Actors : frame'[b].items # {} => pc'[b] \in Holding
    BY <1>2 DEF DInv, ItemInv, Moves, Holding, Passing
  <2>2. \A b \in Actors : pc[b] \in Owning => b # a
    BY DEF Owning, AbortPcs
  <2>3. \A s \in Turns : pc'[s] \in Over => s # a /\ pc[s] \in Over
    BY DEF Over, Moves
  <2>4. \A b \in Actors : pc[b] \notin Over \cup Passing /\ frame[b].items # {} =>
          pc'[b] \notin Over \cup Passing
    BY <1>2 DEF Moves, Passing, DInv, ItemInv, Holding
  <2>5. \A s \in Turns : kind'[s] = "unused" => kind[s] = "unused"
    BY <1>1 DEF TypeOK
  <2>6. \A s \in Turns : pc'[s] \in Drained => pc[s] \in Drained
    BY <1>2 DEF Moves
  <2>7. \A s \in Turns : pc'[s] \in {"emit", "clear"} => s # a /\ pc[s] \in {"emit", "clear"}
    BY DEF Moves
  <2>8. pc'[Ext] \in {"x_recheck", "x_verify"} =>
          \/ Ext # a /\ pc[Ext] \in {"x_recheck", "x_verify"}
          \/ frame'[Ext].ts \in States /\ nextTs <= frame'[Ext].ts
    BY DEF Moves
  <2>9. nextTs <= nextTs' /\ nextTs \in Nat /\ nextTs' \in Nat
    OBVIOUS
  <2>10. \A b \in Actors : pc[b] \in Owning => pc'[b] \in Owning /\ frame'[b].ts = frame[b].ts
    BY <2>2 DEF Moves
  <2> QED BY <2>1, <2>3, <2>4, <2>5, <2>6, <2>7, <2>8, <2>9, <2>10, SlotData
<1>4. IdleInv'
  BY DEF IdleInv, Client, SameData
<1> QED BY <1>3, <1>4 DEF DInv

LEMMA MReserveData ==
    ASSUME KInv, DInv, NEW a \in Actors, MReserve(a)
    PROVE  DInv'
<1>0. TypeOK /\ pc[a] = "m_reserve" /\ ~Client /\ KInv'
  BY AgentPcs, MReserveKeeps DEF KInv, MReserve
<1>1. SameData
  BY DEF MReserve, SameData, dataVars
<1>2. CASE active.ts # 0
  BY <1>0, <1>1, <1>2, ReturnData DEF MReserve, SameSlot
<1>3. CASE active.ts = 0
  <2>1. PICK t \in Unused : /\ kind' = [kind EXCEPT ![t] = "Regular"]
                            /\ frame' = [frame EXCEPT ![a].next = t]
    BY <1>3 DEF MReserve
  <2>2. nextTs' = nextTs + 1 /\ Moves(a, "s_drain")
    BY <1>0, <1>3, GotoMoves DEF MReserve
  <2>3. t \in Turns /\ nextTs \in States
    BY UnusedTurn
  <2>4. /\ \A b \in Actors : b # a => frame'[b] = frame[b]
        /\ frame'[a].items = frame[a].items
    BY <1>0, <2>1, <2>3, ReserveFrame
  <2> QED BY <1>0, <1>1, <1>3, <2>1, <2>2, <2>3, <2>4, ReserveData
<1> QED BY <1>2, <1>3

LEMMA XReserveData ==
    ASSUME KInv, DInv, XReserve
    PROVE  DInv'
<1> USE ActorFacts
<1>0. TypeOK /\ pc[Ext] = "x_reserve" /\ ~Client /\ KInv'
  BY AgentPcs, XReserveKeeps DEF KInv, XReserve, Passing
<1>1. SameData
  BY DEF XReserve, SameData, dataVars
<1>2. CASE active.ts # 0
  BY <1>0, <1>1, <1>2, ReturnData DEF XReserve, SameSlot
<1>3. CASE active.ts = 0
  <2>1. PICK t \in Unused :
          /\ kind' = [kind EXCEPT ![t] = "Regular"]
          /\ frame' = [frame EXCEPT ![Ext].next = t, ![Ext].ts = nextTs]
    BY <1>3 DEF XReserve
  <2>2. nextTs' = nextTs + 1 /\ Moves(Ext, "x_recheck")
    BY <1>0, <1>3, GotoMoves DEF XReserve
  <2>3. t \in Turns /\ nextTs \in States
    BY UnusedTurn
  <2>4. /\ \A b \in Actors : b # Ext => frame'[b] = frame[b]
        /\ frame'[Ext].items = frame[Ext].items /\ frame'[Ext].ts = nextTs
    <3> DEFINE g == [frame EXCEPT ![Ext].next = t]
    <3>1. /\ g \in [Actors -> Frame] /\ g[Ext].items = frame[Ext].items
          /\ \A b \in Actors : b # Ext => g[b] = frame[b]
      <4>1. frame \in [Actors -> Frame]
        BY <1>0 DEF TypeOK, Frame
      <4> QED BY <2>3, <4>1 DEF Frame
    <3>2. frame' = [g EXCEPT ![Ext].ts = nextTs]
      BY <2>1
    <3> HIDE DEF g
    <3>3. /\ \A b \in Actors : b # Ext => frame'[b] = g[b]
          /\ frame'[Ext].items = g[Ext].items /\ frame'[Ext].ts = nextTs
      BY <3>1, <3>2 DEF Frame
    <3> QED BY <3>1, <3>3
  <2> QED BY <1>0, <1>1, <1>3, <2>1, <2>2, <2>3, <2>4, ReserveData
<1> QED BY <1>2, <1>3

LEMMA XRecheckData ==
    ASSUME KInv, DInv, XRecheck
    PROVE  DInv'
<1> USE ActorFacts, TurnFacts
<1>0. TypeOK /\ pc[Ext] = "x_recheck" /\ ~Client /\ Starting(Ext)
  BY AgentPcs DEF KInv, XRecheck, Passing, Starting
<1>1. SameData /\ nextTs' = nextTs /\ kind' = kind /\ nextTs \in Nat
  BY <1>0 DEF XRecheck, SameData, turnVars, dataVars, TypeOK
<1>2. pending[active.ts] = {} /\ active.ts # 0
  BY <1>0 DEF KInv, HoldInv, DInv, EmptyInv
<1>3. PICK l \in {"m_check", "x_verify"} :
        /\ Moves(Ext, l)
        /\ \A b \in Actors : b # Ext => frame'[b] = frame[b]
        /\ l = "m_check" => frame'[Ext].items = {}
        /\ l = "x_verify" => frame' = frame
  <2>1. CASE HasTriggerMail
    <3>1. Moves(Ext, "m_check")
      BY <1>0, <2>1, GotoMoves DEF XRecheck
    <3>2. frame' = [frame EXCEPT ![Ext] = EmptyFrame] /\ frame \in [Actors -> Frame]
      BY <1>0, <2>1 DEF XRecheck, TypeOK, Frame
    <3>3. frame'[Ext].items = {} /\ \A b \in Actors : b # Ext => frame'[b] = frame[b]
      BY <3>2 DEF EmptyFrame
    <3> QED BY <3>1, <3>3
  <2>2. CASE ~HasTriggerMail
    BY <1>0, <2>2, GotoMoves DEF XRecheck
  <2> QED BY <2>1, <2>2
<1>4. ItemInv'
  BY <1>0, <1>1, <1>3 DEF DInv, ItemInv, SameData, Moves, Holding, Passing
<1>5. EmptyInv'
  BY <1>0, <1>1, <1>3 DEF DInv, EmptyInv, SameData, Moves
<1>6. IdleInv'
  BY <1>0, <1>1 DEF IdleInv, Client, SameData
<1>7. AccInv'
  <2> SUFFICES ASSUME NEW i \in accepted, Kept(i)
               PROVE  Kept(i)'
    BY <1>1 DEF DInv, AccInv, SameData
  <2> QED BY <1>0, <1>1, <1>2, <1>3
          DEF Kept, Moves, SameData, Over, Owning, AbortPcs, Passing
<1> QED BY <1>4, <1>5, <1>6, <1>7 DEF DInv

LEMMA FTakeData ==
    ASSUME KInv, DInv, NEW t \in Turns, FTake(t)
    PROVE  DInv'
<1> USE ActorFacts, TurnFacts
<1>0. TypeOK /\ pc[t] = "take"
  BY DEF KInv, FTake
<1>1. SameData /\ nextTs' = nextTs /\ kind' = kind /\ nextTs \in Nat
  BY <1>0 DEF FTake, SameData, turnVars, dataVars, TypeOK
<1>2. CASE active.task = NoTurn
  BY <1>0, <1>1, <1>2, ReturnData DEF FTake, SameSlot
<1>3. CASE active.task # NoTurn
  <2>1. active'.ts = active.ts /\ Moves(t, "record")
    BY <1>0, <1>3, GotoMoves DEF FTake, TypeOK
  <2>2. /\ frame'[t].items = frame[t].items /\ frame'[t].ts = active.ts
        /\ \A b \in Actors : b # t => frame'[b] = frame[b]
    <3>1. frame \in [Actors -> Frame] /\ frame' = [frame EXCEPT ![t].ts = active.ts]
      BY <1>0, <1>3 DEF FTake, TypeOK, Frame
    <3> QED BY <3>1 DEF Frame
  <2>3. frame[t].items = {} /\ input[t] = {}
    BY <1>0 DEF DInv, ItemInv, Holding, Passing, Drained
  <2>4. /\ "take" \notin Owning \cup Over \cup Passing
        /\ "record" \notin Over \cup Passing
    BY DEF Owning, Over, Passing, AbortPcs
  <2>5. \A b \in Actors : frame'[b].items # {} => pc'[b] \in Holding
    BY <2>1, <2>2, <2>3 DEF Moves, DInv, ItemInv
  <2>6. \A b \in Actors : pc[b] \in Owning => pc'[b] \in Owning /\ frame'[b].ts = frame[b].ts
    BY <1>0, <2>1, <2>2, <2>4 DEF Moves
  <2>7. /\ \A s \in Turns : pc'[s] \in {"emit", "clear"} =>
             pc[s] \in {"emit", "clear"} /\ frame'[s].ts = frame[s].ts
        /\ pc'[Ext] \in {"x_recheck", "x_verify"} =>
             pc[Ext] \in {"x_recheck", "x_verify"} /\ frame'[Ext].ts = frame[Ext].ts
    BY <2>1, <2>2 DEF Moves
  <2>8. /\ \A b \in Actors : pc[b] \notin Over \cup Passing /\ frame[b].items # {} =>
             pc'[b] \notin Over \cup Passing
        /\ \A s \in Turns : pc[s] \notin Over /\ input[s] # {} => pc'[s] \notin Over
        /\ \A s \in Turns : pc'[s] \in Drained => pc[s] \in Drained \/ input[s] = {}
    BY <2>1, <2>3, <2>4 DEF Moves
  <2>9. ItemInv' /\ EmptyInv' /\ AccInv'
    BY <1>1, <2>1, <2>2, <2>3, <2>5, <2>6, <2>7, <2>8, SlotData
  <2>10. IdleInv'
    BY <2>1, <2>2 DEF IdleInv, Moves, Finishing
  <2> QED BY <2>9, <2>10 DEF DInv
<1> QED BY <1>2, <1>3

LEMMA FRecordData ==
    ASSUME KInv, DInv, NEW t \in Turns, FRecord(t)
    PROVE  DInv'
<1> USE ActorFacts, TurnFacts
<1>0. TypeOK /\ pc[t] = "record"
  BY DEF KInv, FRecord
<1>1. /\ SameSlot /\ scope' = scope /\ input' = input /\ mailbox' = mailbox
      /\ accepted' = accepted /\ discarded' = discarded /\ frame' = frame
      /\ history' = history \cup pending[frame[t].ts]
  BY DEF FRecord, SameSlot, turnVars
<1>2. Moves(t, "emit")
  BY <1>0, GotoMoves DEF FRecord
<1>3. frame[t].ts \in States
  BY <1>0, OwnedStates DEF Owning
<1>4. /\ pending'[frame[t].ts] = {}
      /\ \A s \in States : s # frame[t].ts => pending'[s] = pending[s]
  BY <1>0, <1>3 DEF FRecord, TypeOK
<1>5. frame[t].items = {} /\ input[t] = {}
  BY <1>0 DEF DInv, ItemInv, Holding, Passing, Drained, Finishing
<1>6. ItemInv'
  BY <1>1, <1>2, <1>5 DEF DInv, ItemInv, SameSlot, Moves
<1>7. EmptyInv'
  <2>1. \A s \in Turns : pc[s] \in {"emit", "clear"} => frame[s].ts \in States
    BY OwnedStates DEF Finishing
  <2>2. pc[Ext] \in {"x_recheck", "x_verify"} => frame[Ext].ts \in States
    BY <1>0 DEF KInv, HoldInv, TypeOK
  <2> QED BY <1>1, <1>2, <1>4, <2>1, <2>2 DEF DInv, EmptyInv, SameSlot, Moves
<1>8. IdleInv'
  <2>1. (Client' <=> Client) /\ active' = active
    BY <1>1 DEF Client, SameSlot
  <2>2. Starting(Loop)' <=> Starting(Loop)
    BY <1>2 DEF Moves, Starting
  <2>3. \A s \in Turns : pc[s] \in Finishing => pc'[s] \in Finishing /\ frame'[s].ts = frame[s].ts
    BY <1>1, <1>2 DEF Moves, Finishing
  <2> QED BY <2>1, <2>2, <2>3 DEF DInv, IdleInv
<1>9. AccInv'
  <2> SUFFICES ASSUME NEW i \in accepted, Kept(i)
               PROVE  Kept(i)'
    BY <1>1 DEF DInv, AccInv
  <2>1. \A b \in Actors : pc[b] \in Owning => frame[b].ts \in States
    BY OwnedStates
  <2>2. active.ts # 0 => active.ts \in States
    BY <1>0 DEF TypeOK
  <2>3. i \in pending[frame[t].ts] => Kept(i)'
    BY <1>1 DEF Kept
  <2> QED BY <1>0, <1>1, <1>2, <1>4, <1>5, <2>1, <2>2, <2>3
          DEF Kept, Moves, SameSlot, Over, Owning, AbortPcs, Passing
<1> QED BY <1>6, <1>7, <1>8, <1>9 DEF DInv

LEMMA FClearData ==
    ASSUME KInv, DInv, NEW t \in Turns, FClear(t)
    PROVE  DInv'
<1> USE ActorFacts, TurnFacts
<1>0. TypeOK /\ pc[t] = "clear"
  BY DEF KInv, FClear
<1>1. SameData /\ nextTs' = nextTs /\ kind' = kind
  BY DEF FClear, SameData, turnVars, dataVars
<1>2. frame[t].items = {} /\ input[t] = {} /\ pending[frame[t].ts] = {}
  BY <1>0 DEF DInv, ItemInv, EmptyInv, Holding, Passing, Drained, Finishing
<1>3. /\ frame'[t].items = {}
      /\ \A b \in Actors : b # t => frame'[b] = frame[b]
  <2>1. frame \in [Actors -> Frame] /\ frame' = [frame EXCEPT ![t] = EmptyFrame]
    BY <1>0 DEF FClear, Return, TypeOK, Frame
  <2> QED BY <2>1 DEF EmptyFrame
<1>4. PICK l \in {"m_check", "ended"} :
        /\ Moves(t, l)
        /\ \/ active' = NoActive /\ active.ts = frame[t].ts
           \/ active' = active /\ ~(active.task = NoTurn /\ active.ts = frame[t].ts)
  <2>1. CASE active.task = NoTurn /\ active.ts = frame[t].ts
    <3>1. Moves(t, "m_check")
      BY <1>0, <2>1, GotoMoves DEF FClear
    <3> QED BY <2>1, <3>1 DEF FClear
  <2>2. CASE ~(active.task = NoTurn /\ active.ts = frame[t].ts)
    <3>1. Moves(t, "ended")
      BY <1>0, <2>2, ReturnMoves DEF FClear
    <3> QED BY <2>2, <3>1 DEF FClear
  <2> QED BY <2>1, <2>2
<1>5. ItemInv'
  BY <1>1, <1>2, <1>3, <1>4 DEF DInv, ItemInv, SameData, Moves
<1>6. EmptyInv'
  BY <1>1, <1>3, <1>4 DEF DInv, EmptyInv, SameData, Moves
<1>7. IdleInv'
  <2>1. (Client' <=> Client) /\ (Starting(Loop)' <=> Starting(Loop))
    BY <1>1, <1>4 DEF Client, SameData, Moves, Starting
  <2>2. \A s \in Turns : s # t => pc'[s] = pc[s] /\ frame'[s].ts = frame[s].ts
    BY <1>3, <1>4 DEF Moves
  <2> QED BY <1>4, <2>1, <2>2 DEF DInv, IdleInv
<1>8. AccInv'
  <2> SUFFICES ASSUME NEW i \in accepted, Kept(i)
               PROVE  Kept(i)'
    BY <1>1 DEF DInv, AccInv, SameData
  <2> QED BY <1>0, <1>1, <1>2, <1>3, <1>4
          DEF Kept, Moves, SameData, Over, Owning, AbortPcs, Passing
<1> QED BY <1>5, <1>6, <1>7, <1>8 DEF DInv

LEMMA AbortWaitData ==
    ASSUME KInv, DInv, NEW a \in Actors, AbortWait(a)
    PROVE  DInv'
<1> USE ActorFacts, TurnFacts
<1>0. TypeOK /\ pc[a] = "abort_wait" /\ a = Loop
  BY LoopAborts DEF KInv, AbortWait, AbortPcs
<1>t. PICK t \in Turns : t = frame[Loop].turn
  BY <1>0 DEF KInv, AbortInv, AbortPcs
<1>1. active.ts = 0 /\ pc[t] \in Live \cup {"ended"}
  BY <1>0, <1>t DEF KInv, AbortInv, AbortPcs
<1>2. /\ SameSlot /\ scope' = scope /\ input' = input /\ mailbox' = mailbox /\ frame' = frame
      /\ accepted' = accepted /\ history' = history /\ pending' = pending
      /\ discarded' = discarded \cup input[t] \cup frame[t].items
  BY <1>0, <1>t DEF AbortWait, SameSlot, turnVars
<1>3. /\ pc'[Loop] = "abort_emit"
      /\ pc'[t] = IF pc[t] = "ended" THEN "ended" ELSE "killed"
      /\ \A b \in Actors : b # Loop /\ b # t => pc'[b] = pc[b]
  BY <1>0, <1>t DEF AbortWait, TypeOK
<1>4. frame[Loop].items = {}
  BY <1>0 DEF DInv, ItemInv, Holding, Passing
<1>5. ItemInv'
  <2>1. \A b \in Actors : frame'[b].items # {} => pc'[b] \in Holding
    BY <1>2, <1>3, <1>4 DEF DInv, ItemInv, Holding
  <2>2. \A s \in Turns : pc'[s] \in Drained => pc[s] \in Drained
    BY <1>3 DEF Drained, Finishing, Chain, TaskPcs
  <2> QED BY <1>2, <2>1, <2>2 DEF DInv, ItemInv, SameSlot
<1>6. EmptyInv'
  BY <1>2, <1>3 DEF DInv, EmptyInv, SameSlot
<1>7. IdleInv'
  BY <1>1, <1>2 DEF IdleInv, SameSlot
<1>8. AccInv'
  <2> SUFFICES ASSUME NEW i \in accepted, Kept(i)
               PROVE  Kept(i)'
    BY <1>2 DEF DInv, AccInv
  <2>1. i \in input[t] \/ i \in frame[t].items => Kept(i)'
    BY <1>2 DEF Kept
  <2>2. pc[t] \notin Owning
    BY <1>1 DEF Live, Owning, AbortPcs
  <2>3. pc'[Loop] \in Owning
    BY <1>3 DEF Owning, AbortPcs
  <2> QED BY <1>1, <1>2, <1>3, <1>4, <2>1, <2>2, <2>3 DEF Kept, SameSlot
<1> QED BY <1>5, <1>6, <1>7, <1>8 DEF DInv

LEMMA AbortClearData ==
    ASSUME KInv, DInv, NEW a \in Actors, AbortClear(a)
    PROVE  DInv'
<1> USE ActorFacts, TurnFacts
<1>0. TypeOK /\ pc[a] = "abort_clear" /\ a = Loop
  BY LoopAborts DEF KInv, AbortClear, AbortPcs
<1>1. active.ts = 0
  BY <1>0 DEF KInv, AbortInv, AbortPcs
<1>s. PICK s \in States : s = frame[Loop].ts
  BY <1>0, OwnedStates DEF Owning, AbortPcs
<1>2. /\ SameSlot /\ scope' = scope /\ input' = input /\ mailbox' = mailbox
      /\ accepted' = accepted /\ history' = history
      /\ discarded' = discarded \cup pending[s]
      /\ pending' = [pending EXCEPT ![s] = {}]
  BY <1>0, <1>s DEF AbortClear, SameSlot, turnVars
<1>3. /\ pending'[s] = {}
      /\ \A r \in States : r # s => pending'[r] = pending[r]
  BY <1>0, <1>2 DEF TypeOK
<1>4. PICK l \in {"s_drain", "m_check", "idle"} : Moves(Loop, l)
  BY <1>0 DEF AbortClear, Rest, Moves, TypeOK
<1>5. /\ frame'[Loop].items = {}
      /\ \A b \in Actors : b # Loop => frame'[b] = frame[b]
  <2>1. /\ frame \in [Actors -> Frame]
        /\ frame' = [frame EXCEPT ![Loop] = [EmptyFrame EXCEPT !.next = frame[Loop].next]]
    BY <1>0 DEF AbortClear, TypeOK, Frame
  <2> QED BY <2>1 DEF EmptyFrame
<1>6. frame[Loop].items = {}
  BY <1>0 DEF DInv, ItemInv, Holding, Passing
<1>7. ItemInv'
  BY <1>2, <1>4, <1>5 DEF DInv, ItemInv, SameSlot, Moves
<1>8. EmptyInv'
  <2>1. \A t \in Turns : pc[t] \in {"emit", "clear"} => frame[t].ts \in States
    BY OwnedStates DEF Finishing
  <2>2. pc[Ext] \in {"x_recheck", "x_verify"} => frame[Ext].ts \in States
    BY <1>0 DEF KInv, HoldInv, TypeOK
  <2> QED BY <1>2, <1>3, <1>4, <1>5, <2>1, <2>2 DEF DInv, EmptyInv, SameSlot, Moves
<1>9. IdleInv'
  BY <1>1, <1>2 DEF IdleInv, SameSlot
<1>10. AccInv'
  <2> SUFFICES ASSUME NEW i \in accepted, Kept(i)
               PROVE  Kept(i)'
    BY <1>2 DEF DInv, AccInv
  <2>1. \A b \in Actors : pc[b] \in Owning => frame[b].ts \in States
    BY OwnedStates
  <2>2. i \in pending[s] => Kept(i)'
    BY <1>2 DEF Kept
  <2> QED BY <1>1, <1>2, <1>3, <1>4, <1>5, <1>6, <1>s, <2>1, <2>2
          DEF Kept, Moves, SameSlot
<1> QED BY <1>7, <1>8, <1>9, <1>10 DEF DInv

(* The submission loop takes the active turn: an abort or the worker that  *)
(* is finishing owns its pending input from there.                         *)
LEMMA TakeActiveData ==
    ASSUME KInv, DInv, Client, NEW next, NEW then, NEW other \in {"idle", "s_drain"},
           TakeActive(Loop, next, then, other), pc[Loop] \in {"idle", "u_abort"},
           SameData, nextTs' = nextTs, kind' = kind
    PROVE  DInv'
<1> USE ActorFacts, TurnFacts
<1>0. TypeOK /\ active' = NoActive /\ frame \in [Actors -> Frame] /\ nextTs \in Nat
  BY DEF KInv, TakeActive, TypeOK, Frame
<1>1. frame[Loop].items = {} /\ pc[Loop] \notin Owning \cup Over \cup Finishing /\ ~Starting(Loop)
  BY DEF DInv, ItemInv, Holding, Passing, Owning, Over, Finishing, AbortPcs, Starting, TaskPcs
<1>2. PICK l \in {"idle", "s_drain", "abort_wait"} :
        /\ Moves(Loop, l)
        /\ frame'[Loop].items = {}
        /\ \A b \in Actors : b # Loop => frame'[b] = frame[b]
        /\ active.task # NoTurn => l = "abort_wait" /\ frame'[Loop].ts = active.ts
  <2>1. CASE active.task = NoTurn
    <3>1. Moves(Loop, other) /\ frame' = [frame EXCEPT ![Loop].next = next]
      BY <1>0, <2>1, GotoMoves DEF TakeActive
    <3>2. frame'[Loop].items = {} /\ \A b \in Actors : b # Loop => frame'[b] = frame[b]
      BY <1>0, <1>1, <3>1 DEF Frame
    <3> QED BY <2>1, <3>1, <3>2
  <2>2. CASE active.task # NoTurn
    <3>1. /\ Moves(Loop, "abort_wait")
          /\ frame' = [frame EXCEPT ![Loop] = [turn |-> active.task, ts |-> active.ts,
                                               items |-> {}, next |-> next, then |-> then]]
      BY <1>0, <2>2, GotoMoves DEF TakeActive
    <3>2. /\ frame'[Loop].items = {} /\ frame'[Loop].ts = active.ts
          /\ \A b \in Actors : b # Loop => frame'[b] = frame[b]
      BY <1>0, <3>1
    <3> QED BY <3>1, <3>2
  <2> QED BY <2>1, <2>2
<1>3. \/ active.ts = 0
      \/ pending[active.ts] = {}
      \/ \E b \in Actors : pc'[b] \in Owning /\ frame'[b].ts = active.ts
  <2>1. CASE active.task # NoTurn
    BY <1>2, <2>1 DEF Moves, Owning, AbortPcs
  <2>2. CASE active.task = NoTurn /\ active.ts # 0
    <3>1. PICK t \in Turns : pc[t] \in Finishing /\ frame[t].ts = active.ts
      BY <1>1, <2>2 DEF DInv, IdleInv
    <3>2. pc'[t] = pc[t] /\ frame'[t].ts = active.ts
      BY <1>2, <3>1 DEF Moves
    <3>3. pc[t] = "record" \/ pending[active.ts] = {}
      BY <3>1 DEF Finishing, DInv, EmptyInv
    <3> QED BY <3>2, <3>3 DEF Owning
  <2> QED BY <2>1, <2>2
<1>4. /\ \A b \in Actors : frame'[b].items # {} => pc'[b] \in Holding
      /\ \A b \in Actors : pc[b] \in Owning => pc'[b] \in Owning /\ frame'[b].ts = frame[b].ts
      /\ \A b \in Actors : b # Loop => pc'[b] = pc[b]
      /\ pc'[Ext] = pc[Ext] /\ frame'[Ext] = frame[Ext]
      /\ \A t \in Turns : pc'[t] = pc[t] /\ frame'[t] = frame[t]
  BY <1>1, <1>2 DEF Moves, DInv, ItemInv
<1>5. ItemInv' /\ EmptyInv' /\ AccInv'
  <2>1. \A b \in Actors : frame'[b].items = frame[b].items \/ frame[b].items = {}
    BY <1>1, <1>2
  <2>2. \A b \in Actors : pc[b] \notin Over \cup Passing /\ frame[b].items # {} =>
          pc'[b] \notin Over \cup Passing
    BY <1>1, <1>4
  <2> QED BY <1>0, <1>3, <1>4, <2>1, <2>2, SlotData
<1>6. IdleInv'
  BY <1>0 DEF IdleInv
<1> QED BY <1>5, <1>6 DEF DInv

LEMMA LoopTakesData ==
    ASSUME KInv, DInv, OneDriver, SpawnTask \/ Interrupt \/ Shutdown
    PROVE  DInv'
<1>1. Client /\ pc[Loop] \in {"idle", "u_abort"}
  BY DriverOps, LoopAborts, ActorFacts
     DEF SpawnTask, Interrupt, Shutdown, LoopReady, KInv, TypeOK
<1>2. SameData /\ nextTs' = nextTs /\ kind' = kind
  BY DEF SpawnTask, Interrupt, Shutdown, SameData, dataVars
<1>3. CASE SpawnTask
  BY <1>1, <1>2, <1>3, TakeActiveData DEF SpawnTask
<1>4. CASE Interrupt \/ Shutdown
  <2>1. TakeActive(Loop, NoTurn, "maybe", "idle")
    BY <1>4 DEF Interrupt, Shutdown
  <2> QED BY <1>1, <1>2, <2>1, TakeActiveData
<1> QED BY <1>3, <1>4

(* A turn is made with its input, which is accepted with it.               *)
LEMMA NewTurnData ==
    ASSUME KInv, DInv, pc[Loop] = "idle", NEW k \in {"Regular", "Compact"},
           NEW S \in SUBSET Items, NewTurn(k, S), accepted' = accepted \cup S,
           UNCHANGED <<pending, mailbox, history, discarded, scope>>
    PROVE  DInv'
<1> USE ActorFacts, TurnFacts
<1>0. TypeOK /\ frame \in [Actors -> Frame]
  BY DEF KInv, TypeOK, Frame
<1>1. PICK t \in Unused :
        /\ kind' = [kind EXCEPT ![t] = k]
        /\ input' = [input EXCEPT ![t] = S]
        /\ frame' = [frame EXCEPT ![Loop].next = t]
  BY DEF NewTurn
<1>2. t \in Turns /\ pc[t] = "none" /\ kind[t] = "unused"
  BY UnusedTurn
<1>3. active' = active /\ nextTs' = nextTs /\ Moves(Loop, "u_abort")
  BY <1>0, GotoMoves DEF NewTurn
<1>4. /\ input[t] = {} /\ input'[t] = S
      /\ \A s \in Turns : s # t => input'[s] = input[s] /\ kind'[s] = kind[s]
      /\ kind'[t] # "unused"
  BY <1>0, <1>1, <1>2 DEF DInv, ItemInv, TypeOK
<1>5. /\ frame'[Loop].items = frame[Loop].items
      /\ \A b \in Actors : b # Loop => frame'[b] = frame[b]
  BY <1>0, <1>1 DEF Frame
<1>6. frame[Loop].items = {}
  BY DEF DInv, ItemInv, Holding, Passing
<1>7. ItemInv'
  BY <1>2, <1>3, <1>4, <1>5, <1>6
     DEF DInv, ItemInv, Moves, Drained, Finishing, Chain, TaskPcs
<1>8. EmptyInv'
  BY <1>3, <1>5 DEF DInv, EmptyInv, Moves
<1>9. IdleInv'
  <2>1. (Client' <=> Client) /\ ~Starting(Loop)
    BY DEF Client, Starting, TaskPcs
  <2> QED BY <1>3, <1>5, <2>1 DEF DInv, IdleInv, Moves
<1>10. AccInv'
  <2>1. ASSUME NEW i \in accepted, Kept(i)
        PROVE  Kept(i)'
    BY <1>3, <1>4, <1>5, <1>6, <2>1 DEF Kept, Moves, Owning, AbortPcs
  <2>2. ASSUME NEW i \in S
        PROVE  Kept(i)'
    BY <1>2, <1>3, <1>4, <2>2 DEF Kept, Moves, Over
  <2> QED BY <2>1, <2>2 DEF AccInv, DInv
<1> QED BY <1>7, <1>8, <1>9, <1>10 DEF DInv

LEMMA UserTurnData ==
    ASSUME KInv, DInv, (\E i \in UserItems : UserTurn(i)) \/ Compact
    PROVE  DInv'
<1>1. pc[Loop] = "idle"
  BY DEF UserTurn, Compact, LoopReady
<1>2. ASSUME NEW i \in UserItems, UserTurn(i)
      PROVE  DInv'
  <2>1. {i} \in SUBSET Items
    BY DEF Items
  <2>2. NewTurn("Regular", {i}) /\ accepted' = accepted \cup {i}
        /\ UNCHANGED <<pending, mailbox, history, discarded, scope>>
    BY <1>2 DEF UserTurn
  <2> QED BY <1>1, <2>1, <2>2, NewTurnData
<1>3. CASE Compact
  <2>1. NewTurn("Compact", {}) /\ accepted' = accepted \cup {}
        /\ UNCHANGED <<pending, mailbox, history, discarded, scope>>
    BY <1>3 DEF Compact, dataVars
  <2>2. {} \in SUBSET Items
    OBVIOUS
  <2> QED BY <1>1, <2>1, <2>2, NewTurnData
<1> QED BY <1>2, <1>3

LEMMA ReceiveMailData ==
    ASSUME KInv, DInv, NEW m \in Mail, ReceiveMail(m)
    PROVE  DInv'
<1> USE ActorFacts, TurnFacts
<1>0. TypeOK /\ pc[Loop] = "idle"
  BY DEF KInv, ReceiveMail, LoopReady
<1>1. /\ SameSlot /\ scope' = scope /\ input' = input /\ pending' = pending /\ frame' = frame
      /\ history' = history /\ discarded' = discarded
      /\ mailbox' = mailbox \cup {m} /\ accepted' = accepted \cup {m}
  BY DEF ReceiveMail, SameSlot, turnVars
<1>2. PICK l \in {"m_check", "idle"} : Moves(Loop, l)
  BY <1>0, GotoMoves DEF ReceiveMail
<1>3. frame[Loop].items = {}
  BY <1>0 DEF DInv, ItemInv, Holding, Passing
<1>4. ItemInv'
  BY <1>1, <1>2, <1>3 DEF DInv, ItemInv, Moves, SameSlot
<1>5. EmptyInv'
  BY <1>1, <1>2 DEF DInv, EmptyInv, Moves, SameSlot
<1>6. IdleInv'
  <2>1. (Client' <=> Client) /\ ~Starting(Loop)
    BY <1>0, <1>1 DEF Client, Starting, TaskPcs
  <2> QED BY <1>1, <1>2, <2>1 DEF DInv, IdleInv, Moves, SameSlot
<1>7. AccInv'
  <2>1. ASSUME NEW i \in accepted, Kept(i)
        PROVE  Kept(i)'
    BY <1>0, <1>1, <1>2, <1>3, <2>1 DEF Kept, Moves, SameSlot, Owning, AbortPcs
  <2>2. Kept(m)'
    BY <1>1 DEF Kept
  <2> QED BY <1>1, <2>1, <2>2 DEF AccInv, DInv
<1> QED BY <1>4, <1>5, <1>6, <1>7 DEF DInv

LEMMA SteerData ==
    ASSUME KInv, DInv, NEW i \in UserItems, Steer(i)
    PROVE  DInv'
<1> USE ActorFacts, TurnFacts
<1>0. TypeOK /\ active.task # NoTurn /\ active.ts # 0 /\ active.ts \in States
  BY DEF KInv, Steer, LiveInv, TypeOK
<1>1. /\ SameSlot /\ scope' = scope /\ input' = input /\ pc' = pc /\ frame' = frame
      /\ history' = history /\ discarded' = discarded /\ mailbox' = mailbox
      /\ accepted' = accepted \cup {i}
      /\ pending' = [pending EXCEPT ![active.ts] = @ \cup {i}]
  BY DEF Steer, ExtendAndAccept, SameSlot, turnVars
<1>2. /\ EmptyInv'
      /\ {i} \subseteq pending'[active.ts]
      /\ \A s \in States : pending[s] \subseteq pending'[s]
  <2>1. \A t \in Turns : pc[t] \in Finishing => frame[t].ts # active.ts
    BY <1>0 DEF KInv, LiveInv
  <2>2. pc'[Ext] \notin {"x_recheck", "x_verify"}
    BY <1>0, <1>1 DEF KInv, FreeInv, Starting
  <2> QED BY <1>0, <1>1, <2>1, <2>2, AddedData DEF SameSlot
<1>3. ItemInv' /\ IdleInv'
  BY <1>0, <1>1 DEF DInv, ItemInv, IdleInv, SameSlot
<1>4. AccInv'
  <2>1. \A b \in Actors : pc[b] \in Owning => frame[b].ts \in States
    BY OwnedStates
  <2>2. ASSUME NEW j \in accepted, Kept(j)
        PROVE  Kept(j)'
    BY <1>0, <1>1, <1>2, <2>1, <2>2 DEF Kept, SameSlot
  <2>3. Kept(i)'
    BY <1>0, <1>1, <1>2 DEF Kept, SameSlot
  <2> QED BY <1>1, <2>2, <2>3 DEF AccInv, DInv
<1> QED BY <1>2, <1>3, <1>4 DEF DInv

LEMMA NextData ==
    ASSUME OneDriver, NoInject, KInv, DInv, [Next]_vars
    PROVE  DInv'
<1>0. scope \in Scopes
  BY DEF KInv, TypeOK
<1>1. CASE \E a \in Actors : AbortStep(a) \/ StartStep(a)
  BY <1>1, AbortWaitData, AbortEmitData, AbortClearData, SDrainData, SStateData, SExtendData,
     SInstallData, MCheckData, MReserveData DEF AbortStep, StartStep
<1>2. CASE \E t \in Turns : WorkerStep(t)
  BY <1>2, WRecordInputData, WRecordData, WDrainData, WPlainData, WStillData, FTakeData,
     FRecordData, FClearData DEF WorkerStep
<1>3. CASE \E i \in UserItems : Steer(i) \/ UserTurn(i)
  BY <1>3, SteerData, UserTurnData
<1>4. CASE \E m \in Mail : ReceiveMail(m)
  BY <1>4, ReceiveMailData
<1>5. CASE \E e \in ExtItems : Inject(e) \/ XBegin(e)
  BY <1>0, <1>5, XBeginData DEF NoInject, Inject
<1>6. CASE Compact \/ SpawnTask \/ Interrupt \/ Shutdown \/ ShutdownComplete
  BY <1>6, UserTurnData, LoopTakesData, WStillData
<1>7. CASE XReserve \/ XRecheck \/ XVerify
  BY <1>7, XReserveData, XRecheckData, XVerifyData
<1>8. CASE GuardianAbort \/ \E t \in Turns : Denial(t)
  BY <1>8, NoDenial
<1>9. CASE UNCHANGED vars
  BY <1>9, StillData DEF vars, turnVars, dataVars, SameData, SameSlot
<1> QED BY <1>1, <1>2, <1>3, <1>4, <1>5, <1>6, <1>7, <1>8, <1>9 DEF Next

(* Both invariants together.                                               *)
LEMMA SpecDInv ==
    ASSUME OneDriver, NoInject
    PROVE  Spec => [](KInv /\ DInv)
<1>1. KInv /\ DInv /\ [Next]_vars => (KInv /\ DInv)'
  BY NextKeeps, NextData
<1>2. Init => KInv /\ DInv
  BY InitKInv, InitDInv
<1> QED BY <1>1, <1>2, PTL DEF Spec

(***************************************************************************)
(* No accepted item falls between two awaits (get_pending_input, start_    *)
(* task, handle_task_abort, on_task_finished): it waits where somebody is  *)
(* still to take it, or is in the history, or was given up openly.  Needs  *)
(* one driver and no injected items.                                       *)
(***************************************************************************)
THEOREM SpecInputAccountedFor ==
    ASSUME OneDriver, NoInject
    PROVE  Spec => []InputAccountedFor
<1>1. KInv /\ DInv => InputAccountedFor
  <2> SUFFICES ASSUME KInv, DInv, NEW i \in accepted
               PROVE  \/ i \in mailbox \cup history \cup discarded
                      \/ \E t \in Turns \ Gone : i \in input[t]
                      \/ \E a \in Actors \ Gone : i \in frame[a].items
                      \/ \E s \in HeldStates \ {0} : i \in pending[s]
    BY DEF InputAccountedFor
  <2>1. Kept(i)
    BY DEF DInv, AccInv
  <2>2. CASE \E t \in Turns : pc[t] \notin Over /\ i \in input[t]
    BY <2>2 DEF Gone, Over
  <2>3. CASE \E a \in Actors : pc[a] \notin Over \cup Passing /\ i \in frame[a].items
    BY <2>3 DEF Gone, Over
  <2>4. CASE active.ts # 0 /\ i \in pending[active.ts]
    BY <2>4 DEF HeldStates
  <2>5. CASE \E a \in Actors : pc[a] \in Owning /\ i \in pending[frame[a].ts]
    <3>1. PICK a \in Actors : pc[a] \in Owning /\ i \in pending[frame[a].ts]
      BY <2>5
    <3>2. frame[a].ts \in HeldStates \ {0}
      BY <3>1, OwnedStates, TurnFacts DEF HeldStates, Owning
    <3> QED BY <3>1, <3>2
  <2> QED BY <2>1, <2>2, <2>3, <2>4, <2>5 DEF Kept
<1> QED BY <1>1, SpecDInv, PTL
=============================================================================
