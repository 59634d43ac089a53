----------------------------- MODULE RolloutLog -----------------------------
(***************************************************************************)
(* The persistence of one paginated thread: the rollout recorder and its   *)
(* writer task (rollout/src/recorder.rs, ordinal.rs), the operations of    *)
(* the local thread store on it (thread-store/src/local/live_writer.rs)    *)
(* and the projection of the JSONL file into SQLite                        *)
(* (thread_history_materialization.rs, thread_history.rs).                 *)
(*                                                                         *)
(* The caller holds the thread's live_writer_lock from the first send to   *)
(* the end of the projection, unless its future is dropped on the way; the *)
(* writer task takes commands from the channel in order and does one file  *)
(* operation per step.  A file operation may fail, and a failed write may  *)
(* leave any prefix of its line behind; the process may die between any    *)
(* two steps.  What the operating system accepted survives (the code never *)
(* calls fsync on a live rollout, so power loss is not covered).           *)
(***************************************************************************)
EXTENDS Naturals, Sequences, FiniteSets, SequencesExt

CONSTANTS
    Items,          \* rollout items the session appends, each once
    Meta,           \* the SessionMeta record
    MaxFaults,      \* I/O errors of the writer
    MaxLosses,      \* lost processes and dropped futures
    MaxQueue        \* bound of the command channel (256 in the code)

ASSUME MetaAssumption == Meta \notin Items
ASSUME BoundsAssumption ==
    MaxFaults \in Nat /\ MaxLosses \in Nat /\ MaxQueue \in Nat \ {0}

VARIABLES
    file,       \* [exists, lines, cut]: cut = the last line has no newline
    writer,     \* RolloutWriterState and where the writer task stands
    pending,    \* pending_items
    chan,       \* RolloutCmds sent and not received
    client,     \* the store operation under way
    proj,       \* thread_history_projection_state and the rows projected
    proc,       \* "open": live recorder; "closed", "lost": none
    submitted,  \* items handed to this recorder
    acked,      \* items covered by an operation that returned Ok
    faults, losses

diskVars == <<file, proj>>
vars == <<diskVars, writer, pending, chan, client, proc, submitted, acked,
          faults, losses>>

(* A line of the file: its item, its ordinal, and whether it parses.       *)
Line == [item : Items \cup {Meta}, ord : Nat, ok : BOOLEAN]

Barriers == {"persist", "flush", "shutdown"}
Cmd == [kind : {"add"} \cup Barriers, item : Items \cup {Meta}, ack : BOOLEAN]

IdleClient == [pc |-> "idle", op |-> "none", plan |-> <<>>]

(* RolloutRecorder::new: Create defers the file to the first persist.      *)
CreatedWriter ==
    [open |-> FALSE, deferred |-> TRUE, meta |-> TRUE, next |-> 0,
     pc |-> "recv", attempt |-> 1, kind |-> "none", ack |-> FALSE]

StoppedWriter == [CreatedWriter EXCEPT !.pc = "stopped"]

Init ==
    /\ file = [exists |-> FALSE, lines |-> <<>>, cut |-> FALSE]
    /\ writer = CreatedWriter
    /\ pending = <<>> /\ chan = <<>>
    /\ client = IdleClient
    /\ proj = [off |-> 0, ord |-> 0, rows |-> <<>>]
    /\ proc = "open"
    /\ submitted = {} /\ acked = {}
    /\ faults = 0 /\ losses = 0

-----------------------------------------------------------------------------
(***************************************************************************)
(* What a reader of the file sees: load_rollout_items skips lines that do  *)
(* not parse, and reads a last line that has no newline.                   *)
(***************************************************************************)
Parsed == {k \in DOMAIN file.lines : file.lines[k].ok}

Readable == {file.lines[k].item : k \in Parsed}

(* The elements of s at the positions S, in order.                         *)
At(s, S) == [n \in 1..Cardinality(S) |->
               s[CHOOSE k \in S : Cardinality({j \in S : j <= k}) = n]]

(* The items in the order of their first line.                             *)
Fresh == {k \in Parsed :
            \A j \in Parsed : j < k => file.lines[j].item # file.lines[k].item}
LineItems == [k \in DOMAIN file.lines |-> file.lines[k].item]
History == At(LineItems, Fresh)

(* Mutant of Terminated: the file is opened as it is.                      *)
LeftCut == file

(* ensure_rollout_is_newline_terminated.                                   *)
Terminated == [file EXCEPT !.cut = FALSE]

-----------------------------------------------------------------------------
(***************************************************************************)
(* The store's operations (write_and_project, shutdown_thread).            *)
(***************************************************************************)
Send(cmd) ==
    /\ Len(chan) < MaxQueue
    /\ chan' = Append(chan, cmd)

(* append_items: record_canonical_items, then a flush.                     *)
Record(i) ==
    /\ proc = "open" /\ client.pc = "idle"
    /\ i \notin submitted \cup Readable
    /\ Send([kind |-> "add", item |-> i, ack |-> FALSE])
    /\ submitted' = submitted \cup {i}
    /\ client' = [client EXCEPT !.pc = "send", !.op = "flush"]
    /\ UNCHANGED <<diskVars, writer, pending, proc, acked, faults, losses>>

(* persist_thread, flush_thread, shutdown_thread.                          *)
Begin(op) ==
    /\ proc = "open" /\ client.pc = "idle"
    /\ client' = [client EXCEPT !.pc = "send", !.op = op]
    /\ UNCHANGED <<diskVars, writer, pending, chan, proc, submitted, acked,
                   faults, losses>>

SendBarrier ==
    /\ client.pc = "send"
    /\ Send([kind |-> client.op, item |-> Meta, ack |-> TRUE])
    /\ client' = [client EXCEPT !.pc = "wait"]
    /\ UNCHANGED <<diskVars, writer, pending, proc, submitted, acked, faults,
                   losses>>

(* The future of a write is dropped with the turn that awaits it: the      *)
(* lock is released, what was sent stays in the channel.                   *)
Cancel ==
    /\ client.pc # "idle" /\ client.op # "shutdown"
    /\ losses < MaxLosses /\ losses' = losses + 1
    /\ client' = IdleClient
    /\ chan' = [k \in DOMAIN chan |-> [chan[k] EXCEPT !.ack = FALSE]]
    /\ writer' = [writer EXCEPT !.ack = FALSE]
    /\ UNCHANGED <<diskVars, pending, proc, submitted, acked, faults>>

(* Mutants of Answer: a failed barrier is answered Ok; or is not answered. *)
AnswerOk(ok) ==
    /\ client' = IF writer.ack THEN [client EXCEPT !.pc = "read"] ELSE client
    /\ acked' = IF writer.ack THEN acked \cup submitted ELSE acked

AnswerOnlyOk(ok) ==
    /\ client' = IF writer.ack /\ ok THEN [client EXCEPT !.pc = "read"] ELSE client
    /\ acked' = IF writer.ack /\ ok THEN acked \cup submitted ELSE acked

(* The writer answers the barrier it is at.                                *)
Answer(ok) ==
    /\ client' = IF ~writer.ack THEN client
                 ELSE IF ok THEN [client EXCEPT !.pc = "read"]
                 ELSE IdleClient
    /\ acked' = IF writer.ack /\ ok THEN acked \cup submitted ELSE acked

-----------------------------------------------------------------------------
(***************************************************************************)
(* The writer task.                                                        *)
(***************************************************************************)
IsDeferred == ~writer.open /\ writer.deferred

(* rollout_writer receives a command.  AddItems on a file that is not      *)
(* materialized only buffers, and a barrier with nothing to do returns Ok. *)
Receive ==
    LET cmd == Head(chan)
        items == IF cmd.kind = "add" THEN Append(pending, cmd.item) ELSE pending
    IN
    /\ writer.pc = "recv" /\ chan # <<>>
    /\ chan' = Tail(chan)
    /\ pending' = items
    /\ writer' = IF IsDeferred /\ cmd.kind = "add" THEN writer
                 ELSE [writer EXCEPT !.kind = cmd.kind, !.ack = cmd.ack, !.pc =
                         IF IsDeferred /\ items = <<>> /\ cmd.kind # "persist"
                         THEN "done" ELSE "open"]
    /\ UNCHANGED <<diskVars, client, proc, submitted, acked, faults, losses>>

(* ensure_writer_open: open_log_file creates the file and terminates its   *)
(* last line.                                                              *)
OpenFile ==
    /\ writer.pc = "open"
    /\ IF writer.open
       THEN writer' = [writer EXCEPT !.pc = "meta"] /\ UNCHANGED file
       ELSE /\ file' = [Terminated EXCEPT !.exists = TRUE]
            /\ writer' = [writer EXCEPT !.open = TRUE, !.deferred = FALSE,
                                        !.pc = "meta"]
    /\ UNCHANGED <<proj, pending, chan, client, proc, submitted, acked, faults,
                   losses>>

(* A line appended to the file, whole or torn, under the current ordinal.  *)
Appended(item, ok) ==
    Append(file.lines, [item |-> item, ord |-> writer.next, ok |-> ok])

(* Mutant of Advanced: the ordinal stays after a write.                    *)
NotAdvanced == writer.next

(* RolloutOrdinalState::advance.                                           *)
Advanced == writer.next + 1

(* write_session_meta_if_needed.                                           *)
WriteMeta ==
    /\ writer.pc = "meta"
    /\ IF writer.meta
       THEN /\ file' = [file EXCEPT !.lines = Appended(Meta, TRUE)]
            /\ writer' = [writer EXCEPT !.meta = FALSE, !.pc = "items",
                                        !.next = Advanced]
       ELSE writer' = [writer EXCEPT !.pc = "items"] /\ UNCHANGED file
    /\ UNCHANGED <<proj, pending, chan, client, proc, submitted, acked, faults,
                   losses>>

(* write_pending_items_once: an item leaves the queue when it is written.  *)
WriteItem ==
    /\ writer.pc = "items" /\ pending # <<>>
    /\ file' = [file EXCEPT !.lines = Appended(Head(pending), TRUE)]
    /\ writer' = [writer EXCEPT !.next = Advanced]
    /\ pending' = Tail(pending)
    /\ UNCHANGED <<proj, chan, client, proc, submitted, acked, faults, losses>>

(* The flush of the handle at the end of write_pending_once.               *)
FlushFile ==
    /\ writer.pc = "items" /\ pending = <<>>
    /\ writer' = [writer EXCEPT !.pc = "done"]
    /\ UNCHANGED <<diskVars, pending, chan, client, proc, submitted, acked,
                   faults, losses>>

(* enter_recovery_mode drops the handle; the operation is tried once more. *)
Recover ==
    /\ writer' = [writer EXCEPT !.open = FALSE, !.attempt = 2,
                    !.pc = IF writer.attempt = 1 THEN "open" ELSE "failed"]
    /\ UNCHANGED pending

(* Opening fails, perhaps after the file was created, or the last flush.   *)
OpenFails ==
    /\ faults < MaxFaults /\ faults' = faults + 1
    /\ \/ writer.pc = "open" /\ ~writer.open
       \/ writer.pc = "items" /\ pending = <<>>
    /\ \E made \in {file.exists, TRUE} : file' = [file EXCEPT !.exists = made]
    /\ Recover
    /\ UNCHANGED <<proj, chan, client, proc, submitted, acked, losses>>

(* A write fails and leaves nothing, a fragment, or all of the line but    *)
(* its newline; the ordinal and the queue stay.                            *)
WriteFails ==
    LET item == IF writer.pc = "meta" THEN Meta ELSE Head(pending) IN
    /\ faults < MaxFaults /\ faults' = faults + 1
    /\ \/ writer.pc = "meta" /\ writer.meta
       \/ writer.pc = "items" /\ pending # <<>>
    /\ \/ UNCHANGED file
       \/ \E ok \in BOOLEAN :
            file' = [file EXCEPT !.cut = TRUE, !.lines = Appended(item, ok)]
    /\ Recover
    /\ UNCHANGED <<proj, chan, client, proc, submitted, acked, losses>>

(* The barrier is answered; a shutdown that succeeded ends the task.       *)
Finish ==
    /\ writer.pc \in {"done", "failed"}
    /\ writer' = [writer EXCEPT !.kind = "none", !.ack = FALSE, !.attempt = 1,
                              !.pc =
                    IF writer.kind = "shutdown" /\ writer.pc = "done"
                    THEN "stopped" ELSE "recv"]
    /\ Answer(writer.pc = "done")
    /\ UNCHANGED <<diskVars, pending, chan, proc, submitted, faults, losses>>

WriterStep == \/ Receive \/ OpenFile \/ WriteMeta \/ WriteItem \/ FlushFile
              \/ OpenFails \/ WriteFails \/ Finish

-----------------------------------------------------------------------------
(***************************************************************************)
(* materialize_to_sqlite, after an operation that succeeded.               *)
(***************************************************************************)
Complete == Len(file.lines) - (IF file.cut THEN 1 ELSE 0)

(* read_projection_steps, one line: lines that do not parse wait for a     *)
(* later ordinal to say whether they used one up; an ordinal that went     *)
(* back, or a gap that they cannot cover, is an error.                     *)
ReadLine(s, i) ==
    LET l == file.lines[i] IN
    IF s.err THEN s
    ELSE IF ~l.ok THEN [s EXCEPT !.rejected = @ + 1]
    ELSE IF l.ord < s.ord \/ l.ord - s.ord > s.rejected THEN [s EXCEPT !.err = TRUE]
    ELSE [off |-> i, ord |-> l.ord + 1, rejected |-> 0, err |-> FALSE,
          rows |-> Append(s.rows, l.item)]

(* From byte offset `off`, expecting ordinal `ord`.                        *)
Steps(off, ord) ==
    LET step[i \in off..Complete] ==
          IF i = off
          THEN [off |-> off, ord |-> ord, rows |-> <<>>, rejected |-> 0, err |-> FALSE]
          ELSE ReadLine(step[i - 1], i)
    IN step[Complete]

(* The store operation is over; after a shutdown the recorder goes.        *)
Leave ==
    IF client.op = "shutdown"
    THEN /\ proc' = "closed" /\ submitted' = {}
         /\ writer' = StoppedWriter
         /\ client' = IdleClient
    ELSE client' = IdleClient /\ UNCHANGED <<proc, submitted, writer>>

(* There is something new to project.                                      *)
ReadSteps ==
    LET s == Steps(proj.off, proj.ord) IN
    /\ client.pc = "read"
    /\ file.exists /\ Meta \in Readable /\ ~s.err /\ s.off # proj.off
    /\ client' = [client EXCEPT !.pc = "apply",
                    !.plan = [start |-> proj.off, off |-> s.off, ord |-> s.ord,
                              rows |-> s.rows]]
    /\ UNCHANGED <<diskVars, writer, pending, chan, proc, submitted, acked,
                   faults, losses>>

(* Nothing to project, or an error, which is only logged.                  *)
ReadNothing ==
    LET s == Steps(proj.off, proj.ord) IN
    /\ client.pc = "read"
    /\ ~file.exists \/ Meta \notin Readable \/ s.err \/ s.off = proj.off
    /\ Leave
    /\ UNCHANGED <<diskVars, pending, chan, acked, faults, losses>>

(* Mutant of ApplyProjection: the rows are written, the checkpoint is not  *)
(* (two transactions instead of one, the second one lost).                 *)
ApplyProjectionRowsOnly ==
    /\ client.pc = "apply"
    /\ client.plan.start = proj.off
    /\ proj' = [proj EXCEPT !.rows = @ \o client.plan.rows]
    /\ Leave
    /\ UNCHANGED <<file, pending, chan, acked, faults, losses>>

(* apply_projection: one transaction moves rows, offset and ordinal.       *)
ApplyProjection ==
    /\ client.pc = "apply"
    /\ client.plan.start = proj.off
    /\ proj' = [off |-> client.plan.off, ord |-> client.plan.ord,
                rows |-> proj.rows \o client.plan.rows]
    /\ Leave
    /\ UNCHANGED <<file, pending, chan, acked, faults, losses>>

(* The transaction fails and rolls back; the projection stays behind.      *)
ApplyFails ==
    /\ client.pc = "apply"
    /\ Leave
    /\ UNCHANGED <<diskVars, pending, chan, acked, faults, losses>>

ClientStep == SendBarrier \/ ReadSteps \/ ReadNothing \/ ApplyProjection \/ ApplyFails

-----------------------------------------------------------------------------
(***************************************************************************)
(* Loss of the process, and resume_thread.                                 *)
(***************************************************************************)
DropRecorder ==
    /\ proc' = "lost" /\ submitted' = {}
    /\ writer' = StoppedWriter
    /\ pending' = <<>> /\ chan' = <<>>
    /\ client' = IdleClient

Crash ==
    /\ proc = "open" /\ losses < MaxLosses
    /\ losses' = losses + 1
    /\ DropRecorder
    /\ UNCHANGED <<diskVars, acked, faults>>

(* discard_thread: the session failed to initialise, nothing is under way. *)
Discard ==
    /\ proc = "open" /\ client.pc = "idle"
    /\ chan = <<>> /\ writer.pc = "recv"
    /\ DropRecorder
    /\ UNCHANGED <<diskVars, acked, faults, losses>>

(* ordinal_state_for_rollout: the first line must parse, as SessionMeta;   *)
(* the next ordinal follows the last record that parses.                   *)
StartsWithMeta ==
    file.lines # <<>> /\ file.lines[1].ok /\ file.lines[1].item = Meta

(* Mutant of ResumeOrdinal: the ordinal of the last record itself.         *)
ResumeAtLast == file.lines[Max(Parsed)].ord

ResumeOrdinal == file.lines[Max(Parsed)].ord + 1

(* The history is read before (a thread without SessionMeta is not found); *)
(* open_rollout_for_append terminates the last line before it may fail.    *)
Resume ==
    /\ proc # "open"
    /\ file.exists /\ Meta \in Readable
    /\ file' = Terminated
    /\ IF StartsWithMeta
       THEN /\ proc' = "open"
            /\ writer' = [open |-> TRUE, deferred |-> FALSE, meta |-> FALSE,
                          next |-> ResumeOrdinal, pc |-> "recv", attempt |-> 1,
                          kind |-> "none", ack |-> FALSE]
       ELSE UNCHANGED <<proc, writer>>
    /\ UNCHANGED <<proj, pending, chan, client, submitted, acked, faults, losses>>

-----------------------------------------------------------------------------
Next ==
    \/ \E i \in Items : Record(i)
    \/ \E op \in Barriers : Begin(op)
    \/ SendBarrier \/ Cancel
    \/ Receive \/ OpenFile \/ WriteMeta \/ WriteItem \/ FlushFile
    \/ OpenFails \/ WriteFails \/ Finish
    \/ ReadSteps \/ ReadNothing \/ ApplyProjection \/ ApplyFails
    \/ Crash \/ Discard \/ Resume

Spec == Init /\ [][Next]_vars

(* The runtime polls the writer task and the waiting store operation.      *)
Fairness == WF_vars(WriterStep) /\ WF_vars(ClientStep)

FairSpec == Spec /\ Fairness

-----------------------------------------------------------------------------
(* The types of the file, the recorder, the operation under way and the    *)
(* projection; an open handle appends after a complete line.               *)
TypeOK ==
    /\ file \in [exists : BOOLEAN, lines : Seq(Line), cut : BOOLEAN]
    /\ ~file.exists => file.lines = <<>>
    /\ file.cut => file.lines # <<>>
    /\ writer.open => file.exists /\ ~file.cut /\ ~writer.deferred
    /\ writer.next \in Nat /\ writer.attempt \in {1, 2} /\ writer.ack \in BOOLEAN
    /\ writer.pc \in {"recv", "open", "meta", "items", "done", "failed", "stopped"}
    /\ pending \in Seq(Items)
    /\ chan \in Seq(Cmd) /\ Len(chan) <= MaxQueue
    /\ client.pc \in {"idle", "send", "wait", "read", "apply"}
    /\ proj.off \in Nat /\ proj.ord \in Nat /\ proj.rows \in Seq(Items \cup {Meta})
    /\ proc \in {"open", "closed", "lost"}
    /\ submitted \subseteq Items /\ acked \subseteq Items
    /\ faults \in 0..MaxFaults /\ losses \in 0..MaxLosses

(***************************************************************************)
(* The thread log in the recorder's state.  The log is the history a       *)
(* reader sees without its SessionMeta; the buffer is what is pending or   *)
(* queued (a barrier carries no item) and not readable yet.                *)
(***************************************************************************)
Logged == {k \in Fresh : file.lines[k].item # Meta}

Queue == pending \o [k \in DOMAIN chan |-> chan[k].item]
Unwritten == {k \in DOMAIN Queue : Queue[k] # Meta /\ Queue[k] \notin Readable}

Log == INSTANCE ThreadLog WITH
         log <- At(LineItems, Logged),
         buffer <- At(Queue, Unwritten),
         acked <- acked,
         phase <- proc

(***************************************************************************)
(* The recorder implements the thread log: appended items become durable   *)
(* in order and, repeated lines of a retried write aside, once; a barrier  *)
(* that returned Ok covers only items in the file; a shutdown that         *)
(* returned Ok leaves nothing buffered.                                    *)
(***************************************************************************)
ImplementsThreadLog == Log!Spec

(* The records at j and k parse, and none between them does.               *)
Follows(j, k) == j < k /\ \A m \in Parsed : m <= j \/ k <= m

(***************************************************************************)
(* The ordinals of the records that parse count them from zero, through    *)
(* retries, torn lines, losses and resumes: only a record written twice    *)
(* repeats one (RolloutOrdinalState).                                      *)
(***************************************************************************)
OrdinalsCountRecords ==
    LET l == file.lines IN
    /\ \A k \in Parsed : (\A j \in Parsed : k <= j) => l[k].ord = 0
    /\ \A j, k \in Parsed : Follows(j, k) =>
         l[k].ord = IF l[k].item = l[j].item THEN l[j].ord ELSE l[j].ord + 1

(***************************************************************************)
(* SQLite lags the canonical history after a failure but never gets ahead  *)
(* of it or skips a record: its rows are a prefix of the history, and both *)
(* checkpoints describe that prefix.                                       *)
(***************************************************************************)
ProjectionIsPrefix ==
    /\ IsPrefix(proj.rows, History)
    /\ proj.ord = Len(proj.rows)
    /\ proj.off <= Complete
    /\ Cardinality({k \in Parsed : k <= proj.off}) = proj.ord

Repeats == Fresh # Parsed

(***************************************************************************)
(* The projection can always go on from its checkpoint: torn lines, which  *)
(* it defers until a later ordinal, never stop it for good.  (A record     *)
(* that was written twice does.)                                           *)
(***************************************************************************)
ProjectionNotWedged == ~Repeats => ~Steps(proj.off, proj.ord).err

(***************************************************************************)
(* Every store operation returns: the writer answers each barrier, after   *)
(* its retry at the latest, or the process is lost.                        *)
(***************************************************************************)
OperationsReturn == client.pc # "idle" ~> client.pc = "idle"
=============================================================================
