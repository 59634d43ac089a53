----------------------------- MODULE ThreadLog -----------------------------
(***************************************************************************)
(* What the persistence of a thread promises its session: an append-only   *)
(* log with a volatile buffer before it.  Items enter the log in the order *)
(* they were handed over, each once; a barrier that succeeds covers only   *)
(* items that are in the log; closing the log leaves nothing behind in the *)
(* buffer; and only a lost process (or a discarded, half-initialised       *)
(* thread) drops what was buffered.                                        *)
(***************************************************************************)
EXTENDS Sequences

CONSTANT Items

VARIABLES
    log,        \* durable items, in order
    buffer,     \* handed over, not durable yet
    acked,      \* items covered by a barrier that reported success
    phase       \* "open", "closed" by a shutdown, "lost"

logVars == <<log, buffer, acked, phase>>

Elems(s) == {s[i] : i \in DOMAIN s}

Init ==
    /\ log = <<>> /\ buffer = <<>> /\ acked = {}
    /\ phase = "open"

Submit(i) ==
    /\ phase = "open"
    /\ i \notin Elems(log) \cup Elems(buffer)
    /\ buffer' = Append(buffer, i)
    /\ UNCHANGED <<log, acked, phase>>

Commit ==
    /\ phase = "open" /\ buffer # <<>>
    /\ log' = Append(log, Head(buffer))
    /\ buffer' = Tail(buffer)
    /\ UNCHANGED <<acked, phase>>

Acknowledge ==
    /\ acked' \subseteq Elems(log) /\ acked \subseteq acked'
    /\ UNCHANGED <<log, buffer, phase>>

Close ==
    /\ phase = "open" /\ buffer = <<>>
    /\ phase' = "closed"
    /\ UNCHANGED <<log, buffer, acked>>

Lose ==
    /\ phase = "open"
    /\ buffer' = <<>> /\ phase' = "lost"
    /\ UNCHANGED <<log, acked>>

Reopen ==
    /\ phase # "open"
    /\ phase' = "open"
    /\ UNCHANGED <<log, buffer, acked>>

Next ==
    \/ \E i \in Items : Submit(i)
    \/ Commit \/ Acknowledge \/ Close \/ Lose \/ Reopen

Spec == Init /\ [][Next]_logVars
=============================================================================
