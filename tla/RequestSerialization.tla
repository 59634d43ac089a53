------------------------ MODULE RequestSerialization ------------------------
(***************************************************************************)
(* The app-server's request scheduler: the per-key queues of               *)
(* app-server/src/request_serialization.rs, the per-connection gate of     *)
(* app-server/src/connection_rpc_gate.rs, and the parts of the processor   *)
(* loop (lib.rs, message_processor.rs) that feed and close them.           *)
(*                                                                         *)
(* A request is dispatched by the processor loop, in the order in which    *)
(* the loop reads the transport.  A request with a serialization scope is  *)
(* pushed on the queue of its key; the first push on an absent key spawns  *)
(* the key's drain task, here named after the request whose enqueue        *)
(* spawned it.  The drain task pops one Exclusive request, or a maximal    *)
(* run of SharedRead requests, runs the batch to the end and comes back    *)
(* for more.  A handler that panics unwinds the drain task that polls it:  *)
(* the rest of its batch is dropped and the map entry stays behind.        *)
(***************************************************************************)
EXTENDS Naturals, Sequences, FiniteSets

CONSTANTS
    Requests,   \* identities of requests, each used once
    Conns,      \* connections
    Scopes,     \* serialization scopes: records [kind, name]
    NoConn,     \* "no connection": background work, connection-free keys
    NoKey       \* the key of a request that goes through no queue

ScopeKinds == {"Global", "GlobalSharedRead", "Thread", "ThreadPath",
               "CommandExecProcess", "Process", "FuzzyFileSearchSession",
               "FsWatch", "McpOauth"}

(* Scopes whose queue key carries the connection id.                       *)
ConnectionScoped == {"CommandExecProcess", "Process", "FsWatch"}

(***************************************************************************)
(* RequestSerializationQueueKey::from_scope.                               *)
(***************************************************************************)
KeyOf(c, scope) ==
    [kind |-> IF scope.kind = "GlobalSharedRead" THEN "Global" ELSE scope.kind,
     name |-> scope.name,
     conn |-> IF scope.kind \in ConnectionScoped THEN c ELSE NoConn]

AccessOf(scope) ==
    IF scope.kind = "GlobalSharedRead" THEN "SharedRead" ELSE "Exclusive"

Keys == {KeyOf(c, s) : c \in Conns \cup {NoConn}, s \in Scopes}

ASSUME ScopesAssumption ==
    \A s \in Scopes : s.kind \in ScopeKinds

ASSUME NullsAssumption ==
    /\ NoConn \notin Conns
    /\ NoKey \notin Keys

VARIABLES
    queues,     \* Keys -> Seq(Requests): the VecDeque of each key
    entries,    \* the keys that have an entry in the HashMap
    drainer,    \* drain task spawned by the enqueue of a request
    batch,      \* the requests a drain task has popped and is joining
    status,     \* where a request is in its life
    key, access, conn,  \* what the request was enqueued with
    ticket,     \* arrival order of a request (history variable)
    clock,      \* the next ticket
    accepting,  \* ConnectionRpcGate.accepting of each connection
    cleanup,    \* what the processor loop has done with a connection
    loop        \* the processor loop

queueVars == <<queues, entries, drainer, batch>>
reqVars   == <<key, access, conn, ticket, clock>>
connVars  == <<accepting, cleanup, loop>>
vars == <<queueVars, status, reqVars, connVars>>

Settled == {"done", "skipped", "dropped"}
Statuses == {"new", "queued", "batched", "running"} \cup Settled
Live == {"locking", "joining"}      \* a drain task that still exists
Cleanups == {"open", "closing", "cleaned", "timedout", "aborted"}

(* The types of queues, tasks, requests and connections.                   *)
TypeOK ==
    /\ queues \in [Keys -> Seq(Requests)]
    /\ entries \subseteq Keys
    /\ drainer \in [Requests -> Live \cup {"none", "returned", "panicked"}]
    /\ batch \in [Requests -> SUBSET Requests]
    /\ status \in [Requests -> Statuses]
    /\ key \in [Requests -> Keys \cup {NoKey}]
    /\ access \in [Requests -> {"Exclusive", "SharedRead"}]
    /\ conn \in [Requests -> Conns \cup {NoConn}]
    /\ ticket \in [Requests -> Nat]
    /\ clock \in Nat
    /\ accepting \in [Conns -> BOOLEAN]
    /\ cleanup \in [Conns -> Cleanups]
    /\ loop \in {"running", "draining", "exited", "forced"}

Init ==
    /\ queues = [k \in Keys |-> <<>>]
    /\ entries = {}
    /\ drainer = [r \in Requests |-> "none"]
    /\ batch = [r \in Requests |-> {}]
    /\ status = [r \in Requests |-> "new"]
    /\ key = [r \in Requests |-> NoKey]
    /\ access = [r \in Requests |-> "Exclusive"]
    /\ conn = [r \in Requests |-> NoConn]
    /\ ticket = [r \in Requests |-> 0]
    /\ clock = 1
    /\ accepting = [c \in Conns |-> TRUE]
    /\ cleanup = [c \in Conns |-> "open"]
    /\ loop = "running"

-----------------------------------------------------------------------------
(* Mutants of Enqueue: spawn a drain task whenever the queue is empty; push *)
(* at the wrong end.                                                       *)
EnqueueSpawnsOnEmptyQueue(r, k, a) ==
    /\ queues' = [queues EXCEPT ![k] = Append(@, r)]
    /\ entries' = entries \cup {k}
    /\ drainer' = [drainer EXCEPT ![r] = IF queues[k] # <<>> THEN "none"
                                                            ELSE "locking"]
    /\ status' = [status EXCEPT ![r] = "queued"]
    /\ key' = [key EXCEPT ![r] = k]
    /\ access' = [access EXCEPT ![r] = a]
    /\ ticket' = [ticket EXCEPT ![r] = clock]
    /\ clock' = clock + 1
    /\ UNCHANGED <<batch, connVars>>

EnqueuePushesFront(r, k, a) ==
    /\ queues' = [queues EXCEPT ![k] = <<r>> \o @]
    /\ entries' = entries \cup {k}
    /\ drainer' = [drainer EXCEPT ![r] = IF k \in entries THEN "none"
                                                          ELSE "locking"]
    /\ status' = [status EXCEPT ![r] = "queued"]
    /\ key' = [key EXCEPT ![r] = k]
    /\ access' = [access EXCEPT ![r] = a]
    /\ ticket' = [ticket EXCEPT ![r] = clock]
    /\ clock' = clock + 1
    /\ UNCHANGED <<batch, connVars>>

(***************************************************************************)
(* RequestSerializationQueues::enqueue: push under the map's lock, and     *)
(* spawn a drain task when the key had no entry.                           *)
(***************************************************************************)
Enqueue(r, k, a) ==
    /\ queues' = [queues EXCEPT ![k] = Append(@, r)]
    /\ entries' = entries \cup {k}
    /\ drainer' = [drainer EXCEPT ![r] = IF k \in entries THEN "none"
                                                          ELSE "locking"]
    /\ status' = [status EXCEPT ![r] = "queued"]
    /\ key' = [key EXCEPT ![r] = k]
    /\ access' = [access EXCEPT ![r] = a]
    /\ ticket' = [ticket EXCEPT ![r] = clock]
    /\ clock' = clock + 1
    /\ UNCHANGED <<batch, connVars>>

(***************************************************************************)
(* dispatch_initialized_client_request on the processor loop, which drops  *)
(* requests of a connection it no longer knows.  Without a scope the       *)
(* request is spawned at once and meets only its gate.                     *)
(***************************************************************************)
Dispatch(r, c, s) ==
    /\ loop = "running"
    /\ cleanup[c] = "open"
    /\ status[r] = "new"
    /\ conn' = [conn EXCEPT ![r] = c]
    /\ Enqueue(r, KeyOf(c, s), AccessOf(s))

DispatchUnserialized(r, c) ==
    /\ loop = "running"
    /\ cleanup[c] = "open"
    /\ status[r] = "new"
    /\ conn' = [conn EXCEPT ![r] = c]
    /\ status' = [status EXCEPT ![r] = "batched"]
    /\ UNCHANGED <<queueVars, key, access, ticket, clock, connVars>>

(***************************************************************************)
(* enqueue_background: app-owned work (effective_plugin_change.rs) in the  *)
(* queue of a Global key, Exclusive and with no gate.                      *)
(***************************************************************************)
EnqueueBackground(r, s) ==
    /\ status[r] = "new"
    /\ s.kind = "Global"
    /\ UNCHANGED conn
    /\ Enqueue(r, KeyOf(NoConn, s), AccessOf(s))

(* Mutant: the run of SharedRead requests takes one request too many.      *)
IsBatchTooLong(q, n) ==
    IF access[q[1]] = "Exclusive"
    THEN n = 1
    ELSE /\ \A i \in 1..(n - 1) : access[q[i]] = "SharedRead"
         /\ n < Len(q) => access[q[n]] = "Exclusive"

(***************************************************************************)
(* The batch drain pops: the first request alone when it is Exclusive,     *)
(* otherwise the longest run of SharedRead requests at the front.          *)
(***************************************************************************)
IsBatch(q, n) ==
    IF access[q[1]] = "Exclusive"
    THEN n = 1
    ELSE /\ \A i \in 1..n : access[q[i]] = "SharedRead"
         /\ n < Len(q) => access[q[n + 1]] = "Exclusive"

DrainPop(d) ==
    LET q == queues[key[d]] IN
    /\ drainer[d] = "locking"
    /\ key[d] \in entries
    /\ \E n \in 1..Len(q) :
        /\ IsBatch(q, n)
        /\ queues' = [queues EXCEPT ![key[d]] = SubSeq(q, n + 1, Len(q))]
        /\ batch' = [batch EXCEPT ![d] = {q[i] : i \in 1..n}]
        /\ status' = [r \in Requests |->
                        IF r \in {q[i] : i \in 1..n} THEN "batched"
                                                     ELSE status[r]]
    /\ drainer' = [drainer EXCEPT ![d] = "joining"]
    /\ UNCHANGED <<entries, reqVars, connVars>>

(* Mutant: the returning drain task leaves its map entry behind.           *)
DrainReturnKeepsEntry(d) ==
    /\ drainer[d] = "locking"
    /\ key[d] \notin entries \/ queues[key[d]] = <<>>
    /\ drainer' = [drainer EXCEPT ![d] = "returned"]
    /\ UNCHANGED <<queues, entries, batch, status, reqVars, connVars>>

(* The queue is empty (or its entry gone): drop the entry and return.      *)
DrainReturn(d) ==
    /\ drainer[d] = "locking"
    /\ key[d] \notin entries \/ queues[key[d]] = <<>>
    /\ entries' = entries \ {key[d]}
    /\ drainer' = [drainer EXCEPT ![d] = "returned"]
    /\ UNCHANGED <<queues, batch, status, reqVars, connVars>>

(* join_all is over: back to the head of drain's loop.                     *)
DrainJoined(d) ==
    /\ drainer[d] = "joining"
    /\ \A r \in batch[d] : status[r] \in Settled
    /\ batch' = [batch EXCEPT ![d] = {}]
    /\ drainer' = [drainer EXCEPT ![d] = "locking"]
    /\ UNCHANGED <<queues, entries, status, reqVars, connVars>>

(***************************************************************************)
(* QueuedInitializedRequest::run and ConnectionRpcGate::run up to the      *)
(* first poll of the handler: take a token, or return at a closed gate.    *)
(***************************************************************************)
MayStart(r) == conn[r] = NoConn \/ (conn[r] \in Conns /\ accepting[conn[r]])

GateRun(r) ==
    /\ status[r] = "batched"
    /\ status' = [status EXCEPT ![r] = IF MayStart(r) THEN "running"
                                                      ELSE "skipped"]
    /\ UNCHANGED <<queueVars, reqVars, connVars>>

(* The handler's future is ready; its token is dropped.                    *)
Finish(r) ==
    /\ status[r] = "running"
    /\ status' = [status EXCEPT ![r] = "done"]
    /\ UNCHANGED <<queueVars, reqVars, connVars>>

(* The handler panics: the task that polls it unwinds and drops what it    *)
(* holds, tokens included.  Nobody removes the map entry of a dead drain.  *)
Panic(r) ==
    /\ status[r] = "running"
    /\ LET hit == {d \in Requests : drainer[d] = "joining" /\ r \in batch[d]}
           lost == {r} \cup UNION {batch[d] : d \in hit}
       IN /\ status' = [x \in Requests |->
                          IF x \in lost /\ status[x] \notin Settled
                          THEN "dropped" ELSE status[x]]
          /\ drainer' = [d \in Requests |->
                          IF d \in hit THEN "panicked" ELSE drainer[d]]
          /\ batch' = [d \in Requests |-> IF d \in hit THEN {} ELSE batch[d]]
    /\ UNCHANGED <<queues, entries, reqVars, connVars>>

-----------------------------------------------------------------------------
(* The tokens of the connection's TaskTracker.                             *)
InFlight(c) == {r \in Requests : conn[r] = c /\ status[r] = "running"}

(* Mutants: the gate stays open; the cleanup does not wait for the tokens. *)
ConnectionClosedKeepsGate(c) ==
    /\ loop = "running"
    /\ cleanup[c] = "open"
    /\ cleanup' = [cleanup EXCEPT ![c] = "closing"]
    /\ UNCHANGED <<queueVars, status, reqVars, accepting, loop>>

CleanupDrainedAtOnce(c) ==
    /\ cleanup[c] = "closing"
    /\ cleanup' = [cleanup EXCEPT ![c] = "cleaned"]
    /\ UNCHANGED <<queueVars, status, reqVars, accepting, loop>>

(* TransportEvent::ConnectionClosed: the loop forgets the connection,      *)
(* closes its gate and spawns the cleanup task.                            *)
ConnectionClosed(c) ==
    /\ loop = "running"
    /\ cleanup[c] = "open"
    /\ accepting' = [accepting EXCEPT ![c] = FALSE]
    /\ cleanup' = [cleanup EXCEPT ![c] = "closing"]
    /\ UNCHANGED <<queueVars, status, reqVars, loop>>

(* MessageProcessor::connection_closed: shutdown() of the gate returns...  *)
CleanupDrained(c) ==
    /\ cleanup[c] = "closing"
    /\ InFlight(c) = {}
    /\ cleanup' = [cleanup EXCEPT ![c] = "cleaned"]
    /\ UNCHANGED <<queueVars, status, reqVars, accepting, loop>>

(* ... or CONNECTION_RPC_DRAIN_TIMEOUT strikes first, whatever still runs. *)
CleanupTimeout(c) ==
    /\ cleanup[c] = "closing"
    /\ cleanup' = [cleanup EXCEPT ![c] = "timedout"]
    /\ UNCHANGED <<queueVars, status, reqVars, accepting, loop>>

(* The processor loop ends without force: shutdown() of every gate it      *)
(* still knows.                                                            *)
BeginShutdown ==
    /\ loop = "running"
    /\ loop' = "draining"
    /\ accepting' = [c \in Conns |-> FALSE]
    /\ UNCHANGED <<queueVars, status, reqVars, cleanup>>

(* All gates drained and all cleanup tasks ended.                          *)
FinishShutdown ==
    /\ loop = "draining"
    /\ \A c \in Conns : /\ cleanup[c] # "closing"
                        /\ cleanup[c] = "open" => InFlight(c) = {}
    /\ loop' = "exited"
    /\ UNCHANGED <<queueVars, status, reqVars, accepting, cleanup>>

(* A forced shutdown aborts the cleanup tasks and waits for nothing.       *)
ForceShutdown ==
    /\ loop = "running"
    /\ loop' = "forced"
    /\ cleanup' = [c \in Conns |-> IF cleanup[c] = "closing" THEN "aborted"
                                                             ELSE cleanup[c]]
    /\ UNCHANGED <<queueVars, status, reqVars, accepting>>

-----------------------------------------------------------------------------
RequestStep(r) == GateRun(r) \/ Finish(r) \/ Panic(r)
DrainStep(d)   == DrainPop(d) \/ DrainReturn(d) \/ DrainJoined(d)
CleanupStep(c) == CleanupDrained(c) \/ CleanupTimeout(c)

Next ==
    \/ \E r \in Requests :
        \/ \E c \in Conns, s \in Scopes : Dispatch(r, c, s)
        \/ \E c \in Conns : DispatchUnserialized(r, c)
        \/ \E s \in Scopes : EnqueueBackground(r, s)
        \/ RequestStep(r)
        \/ DrainStep(r)
    \/ \E c \in Conns : ConnectionClosed(c) \/ CleanupStep(c)
    \/ BeginShutdown \/ FinishShutdown \/ ForceShutdown

Spec == Init /\ [][Next]_vars

(* The runtime polls every spawned task that is ready; a handler that is   *)
(* polled ends, one way or the other.                                      *)
Fairness == \A r \in Requests : WF_vars(RequestStep(r)) /\ WF_vars(DrainStep(r))

FairSpec == Spec /\ Fairness

-----------------------------------------------------------------------------
(***************************************************************************)
(* An Exclusive request shares its key with no other running handler,      *)
(* whatever mix of readers, writers, closed gates and panics came before   *)
(* it (the `access` test of drain and the one-drain-task rule of enqueue). *)
(***************************************************************************)
ExclusiveRunsAlone ==
    \A r, s \in Requests :
        /\ r # s
        /\ status[r] = "running" /\ status[s] = "running"
        /\ key[r] \in Keys /\ key[r] = key[s]
        => access[r] = "SharedRead" /\ access[s] = "SharedRead"

DrainersOf(k) == {d \in Requests : drainer[d] \in Live /\ key[d] = k}

Wedged(k) == \E d \in Requests : drainer[d] = "panicked" /\ key[d] = k

(***************************************************************************)
(* The map entry stands for the key's drain task: never two live tasks on  *)
(* one key, never a live task or a waiting request without the entry, and  *)
(* an entry without a task only after a handler of that key panicked       *)
(* (enqueue's should_spawn against drain's queues.remove).                 *)
(***************************************************************************)
EntryIsItsDrainer ==
    \A k \in Keys :
        /\ \A d, e \in DrainersOf(k) : d = e
        /\ DrainersOf(k) # {} => k \in entries
        /\ k \in entries => DrainersOf(k) # {} \/ Wedged(k)
        /\ queues[k] # <<>> => k \in entries

(***************************************************************************)
(* Requests of one key take effect in arrival order: a later one has       *)
(* started only if every earlier one is settled or both are SharedRead     *)
(* (tests same_key_requests_run_fifo and                                   *)
(* later_shared_reads_do_not_jump_ahead_of_queued_write).                  *)
(***************************************************************************)
FifoPerKey ==
    \A r, s \in Requests :
        /\ key[r] \in Keys /\ key[r] = key[s]
        /\ ticket[r] < ticket[s]
        /\ status[s] \in {"running", "done"}
        => \/ status[r] \in Settled
           \/ /\ access[r] = "SharedRead" /\ access[s] = "SharedRead"
              /\ status[r] \in {"batched", "running"}

(***************************************************************************)
(* A handler queued before its connection closed, or before a graceful     *)
(* shutdown, never starts afterwards, however late its turn in the queue   *)
(* comes ("Closing the gate prevents queued handlers from starting").      *)
(***************************************************************************)
NoStartAfterClose ==
    [][\A r \in Requests :
        /\ conn[r] \in Conns
        /\ status[r] # "running" /\ status'[r] = "running"
        => cleanup[conn[r]] = "open" /\ loop \in {"running", "forced"}]_vars

(***************************************************************************)
(* Once a connection was cleaned up without a timeout none of its handlers *)
(* runs, so connection_closed frees the connection's watches and processes *)
(* under nobody's feet; the same holds of every connection still open when *)
(* a graceful shutdown has drained the gates.                              *)
(***************************************************************************)
QuietAfterCleanup ==
    \A c \in Conns :
        \/ cleanup[c] = "cleaned"
        \/ loop = "exited" /\ cleanup[c] = "open"
        => InFlight(c) = {}

(***************************************************************************)
(* Every request is run or skipped in the end, even one of a closed        *)
(* connection and a writer behind a stream of readers, unless a handler of *)
(* its key panics: after a panic the key's entry stays in the map and      *)
(* nothing drains its queue again.                                         *)
(***************************************************************************)
EveryRequestSettles ==
    \A r \in Requests :
        status[r] \in {"queued", "batched", "running"}
            ~> status[r] \in Settled \/ Wedged(key[r])
=============================================================================
