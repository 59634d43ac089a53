--------------------- MODULE RequestSerializationProofs ---------------------
(***************************************************************************)
(* Proofs about RequestSerialization, for every set of requests,           *)
(* connections and scopes.                                                 *)
(*                                                                         *)
(* ExclusiveRunsAlone and EntryIsItsDrainer are not inductive: that two    *)
(* handlers do not overlap depends on both being in the batch of one drain *)
(* task, that the task is unique depends on the map entry, and that a      *)
(* popped request is gone from the queue depends on the queue holding it   *)
(* once.  The parts of IInv below say so.                                  *)
(***************************************************************************)
EXTENDS RequestSerialization, TLAPS

(* A queue holds each of its requests once, and they wait for its key.     *)
QueueInv ==
    \A k \in Keys : \A i \in 1..Len(queues[k]) :
        /\ status[queues[k][i]] = "queued"
        /\ key[queues[k][i]] = k
        /\ \A j \in 1..Len(queues[k]) : queues[k][i] = queues[k][j] => i = j

(* Drain tasks, their keys and the map entries.                            *)
TaskInv ==
    /\ \A d \in Requests : drainer[d] # "none" => key[d] \in Keys
    /\ \A d \in Requests : drainer[d] \in Live => key[d] \in entries
    /\ \A d, e \in Requests :
        drainer[d] \in Live /\ drainer[e] \in Live /\ key[d] = key[e] => d = e
    /\ \A k \in entries : \E d \in Requests :
        drainer[d] \in Live \cup {"panicked"} /\ key[d] = k
    /\ \A k \in Keys : queues[k] # <<>> => k \in entries
    /\ \A r \in Requests : status[r] = "new" => drainer[r] = "none"
                                                /\ key[r] = NoKey

(* What a drain task joins, and who joins a popped request.                *)
BatchInv ==
    /\ \A d \in Requests : drainer[d] # "joining" => batch[d] = {}
    /\ \A d \in Requests : \A r \in batch[d] :
        /\ key[r] = key[d]
        /\ status[r] \in {"batched", "running"} \cup Settled
        /\ \A s \in batch[d] : r = s \/ (access[r] = "SharedRead"
                                         /\ access[s] = "SharedRead")
    /\ \A r \in Requests :
        status[r] \in {"batched", "running"} /\ key[r] \in Keys
        => \E d \in Requests : r \in batch[d]

IInv == TypeOK /\ QueueInv /\ TaskInv /\ BatchInv

(* The keys that dispatch and enqueue_background compute are keys.         *)
LEMMA KeyOfType ==
    ASSUME NEW c \in Conns \cup {NoConn}, NEW s \in Scopes
    PROVE  KeyOf(c, s) \in Keys
BY DEF Keys

(* from_scope returns one of the two access modes.                         *)
LEMMA AccessOfType ==
    ASSUME NEW s
    PROVE  AccessOf(s) \in {"Exclusive", "SharedRead"}
BY DEF AccessOf

(* What pop_front leaves of a queue.                                       *)
LEMMA PopType ==
    ASSUME NEW q \in Seq(Requests), NEW n \in 1..Len(q)
    PROVE  /\ SubSeq(q, n + 1, Len(q)) \in Seq(Requests)
           /\ Len(SubSeq(q, n + 1, Len(q))) = Len(q) - n
           /\ \A i \in 1..(Len(q) - n) : SubSeq(q, n + 1, Len(q))[i] = q[n + i]
           /\ {q[i] : i \in 1..n} \subseteq Requests
<1>1. Len(q) \in Nat /\ n \in Nat /\ n <= Len(q)
  OBVIOUS
<1> QED BY <1>1

(* Initially no request waits and no task exists.                          *)
LEMMA InitIInv == Init => IInv
<1> SUFFICES ASSUME Init PROVE IInv
  OBVIOUS
<1> USE DEF Init
<1>1. TypeOK BY DEF TypeOK, Statuses, Cleanups, Live
<1>2. QueueInv BY DEF QueueInv
<1>3. TaskInv BY DEF TaskInv, Live
<1>4. BatchInv BY DEF BatchInv
<1> QED BY <1>1, <1>2, <1>3, <1>4 DEF IInv

(* An enqueue of a new request on a key preserves the invariant.           *)
LEMMA EnqueueIInv ==
    ASSUME IInv, NEW r \in Requests, NEW k \in Keys,
           NEW a \in {"Exclusive", "SharedRead"},
           status[r] = "new", Enqueue(r, k, a),
           conn' \in [Requests -> Conns \cup {NoConn}]
    PROVE  IInv'
<1> USE DEF IInv, Enqueue, connVars
<1>1. TypeOK'
  <2>1. queues' \in [Keys -> Seq(Requests)] BY DEF TypeOK
  <2>2. entries' \subseteq Keys BY DEF TypeOK
  <2>3. drainer' \in [Requests -> Live \cup {"none", "returned", "panicked"}]
    BY DEF TypeOK, Live
  <2>4. status' \in [Requests -> Statuses] BY DEF TypeOK, Statuses
  <2>5. /\ key' \in [Requests -> Keys \cup {NoKey}]
        /\ access' \in [Requests -> {"Exclusive", "SharedRead"}]
    BY DEF TypeOK
  <2>6. ticket' \in [Requests -> Nat] /\ clock' \in Nat BY DEF TypeOK
  <2>7. UNCHANGED <<batch, accepting, cleanup, loop>> OBVIOUS
  <2> QED BY <2>1, <2>2, <2>3, <2>4, <2>5, <2>6, <2>7 DEF TypeOK
<1>2. QueueInv' BY DEF TypeOK, QueueInv
<1>3. TaskInv' BY NullsAssumption DEF TypeOK, TaskInv, Live
<1>4. BatchInv' BY NullsAssumption DEF TypeOK, BatchInv, TaskInv, Live, Settled
<1> QED BY <1>1, <1>2, <1>3, <1>4
(* A pop moves a maximal batch from the queue to its drain task.           *)
LEMMA DrainPopIInv ==
    ASSUME IInv, NEW d \in Requests, DrainPop(d)
    PROVE  IInv'
<1> DEFINE q == queues[key[d]]
<1>0. key[d] \in Keys /\ q \in Seq(Requests) /\ drainer[d] = "locking"
  BY DEF IInv, TaskInv, TypeOK, DrainPop
<1>1. PICK n \in 1..Len(q) :
        /\ IsBatch(q, n)
        /\ queues' = [queues EXCEPT ![key[d]] = SubSeq(q, n + 1, Len(q))]
        /\ batch' = [batch EXCEPT ![d] = {q[i] : i \in 1..n}]
        /\ status' = [r \in Requests |->
                        IF r \in {q[i] : i \in 1..n} THEN "batched"
                                                     ELSE status[r]]
  BY DEF DrainPop
<1> DEFINE B == {q[i] : i \in 1..n}
<1>2. /\ drainer' = [drainer EXCEPT ![d] = "joining"]
      /\ UNCHANGED <<entries, key, access, conn, ticket, clock,
                     accepting, cleanup, loop>>
  BY DEF DrainPop, reqVars, connVars
<1>3. /\ SubSeq(q, n + 1, Len(q)) \in Seq(Requests)
      /\ Len(SubSeq(q, n + 1, Len(q))) = Len(q) - n
      /\ \A i \in 1..(Len(q) - n) : SubSeq(q, n + 1, Len(q))[i] = q[n + i]
      /\ B \subseteq Requests
  BY <1>0, PopType
<1>4. \A r \in B : status[r] = "queued" /\ key[r] = key[d]
  BY <1>0 DEF IInv, QueueInv
<1>5. \A r, s \in B : r = s \/ (access[r] = "SharedRead"
                                /\ access[s] = "SharedRead")
  <2>1. Len(q) \in Nat BY <1>0
  <2>2. CASE access[q[1]] = "Exclusive" BY <1>1, <2>1, <2>2 DEF IsBatch
  <2>3. CASE access[q[1]] # "Exclusive" BY <1>1, <2>3 DEF IsBatch
  <2> QED BY <2>2, <2>3
<1> HIDE DEF q, B
<1>6. TypeOK'
  <2>1. queues' \in [Keys -> Seq(Requests)]
    BY <1>0, <1>1, <1>3 DEF IInv, TypeOK
  <2>2. batch' \in [Requests -> SUBSET Requests]
    BY <1>1, <1>3 DEF IInv, TypeOK, B
  <2>3. status' \in [Requests -> Statuses]
    BY <1>1 DEF IInv, TypeOK, Statuses
  <2>4. drainer' \in [Requests -> Live \cup {"none", "returned", "panicked"}]
    BY <1>2 DEF IInv, TypeOK, Live
  <2> QED BY <1>2, <2>1, <2>2, <2>3, <2>4 DEF IInv, TypeOK
<1>7. QueueInv'
  <2> SUFFICES ASSUME NEW k \in Keys, NEW i \in 1..Len(queues'[k])
               PROVE  /\ status'[queues'[k][i]] = "queued"
                      /\ key[queues'[k][i]] = k
                      /\ \A j \in 1..Len(queues'[k]) :
                            queues'[k][i] = queues'[k][j] => i = j
    BY <1>2 DEF QueueInv
  <2>1. CASE k = key[d]
    <3>1. queues'[k] = SubSeq(q, n + 1, Len(q))
      BY <1>0, <1>1, <2>1 DEF IInv, TypeOK
    <3>2. Len(q) \in Nat /\ n \in 1..Len(q) BY <1>0, <1>1
    <3>3. /\ i \in 1..(Len(q) - n)
          /\ queues'[k][i] = q[n + i]
          /\ n + i \in 1..Len(q)
      BY <3>1, <3>2, <1>3
    <3>4. \A a, b \in 1..Len(q) : q[a] = q[b] => a = b
      BY <1>0 DEF IInv, QueueInv, q
    <3>5. q[n + i] \notin B BY <3>2, <3>3, <3>4 DEF B
    <3>6. q[n + i] \in Requests BY <1>0, <3>3
    <3>7. status'[q[n + i]] = "queued" /\ key[q[n + i]] = k
      BY <1>0, <1>1, <2>1, <3>3, <3>5, <3>6 DEF IInv, QueueInv, q, B
    <3>8. ASSUME NEW j \in 1..Len(queues'[k]), queues'[k][i] = queues'[k][j]
          PROVE  i = j
      <4>1. j \in 1..(Len(q) - n) /\ queues'[k][j] = q[n + j]
            /\ n + j \in 1..Len(q)
        BY <3>1, <3>2, <1>3, SMTT(30)
      <4>2. n + i = n + j BY <3>3, <3>4, <3>8, <4>1
      <4> QED BY <3>2, <3>3, <4>1, <4>2
    <3> QED BY <3>3, <3>7, <3>8
  <2>2. CASE k # key[d]
    <3>1. queues'[k] = queues[k] BY <1>1, <2>2 DEF IInv, TypeOK
    <3>2. queues[k][i] \in Requests BY <3>1 DEF IInv, TypeOK
    <3>3. queues[k][i] \notin B BY <1>4, <2>2, <3>1 DEF IInv, QueueInv
    <3>4. status'[queues[k][i]] = status[queues[k][i]]
      BY <1>1, <3>2, <3>3 DEF B
    <3> QED BY <3>1, <3>4 DEF IInv, QueueInv
  <2> QED BY <2>1, <2>2
<1>8. TaskInv'
  <2>1. \A k \in Keys : queues'[k] # <<>> => k \in entries
    BY <1>0, <1>1 DEF IInv, TaskInv, TypeOK, DrainPop
  <2>2. \A r \in Requests : status'[r] = "new" => status[r] = "new" /\ r # d
    BY <1>0, <1>1 DEF IInv, TaskInv
  <2> QED BY <1>0, <1>2, <2>1, <2>2 DEF IInv, TaskInv, TypeOK, Live
<1>9. BatchInv'
  <2>1. /\ batch'[d] = B
        /\ \A e \in Requests \ {d} : batch'[e] = batch[e]
        /\ \A r \in Requests : status'[r] = IF r \in B THEN "batched" ELSE status[r]
    BY <1>1 DEF IInv, TypeOK, B
  <2>2. batch[d] = {} BY <1>0 DEF IInv, BatchInv
  <2>3. \A e \in Requests : \A r \in batch[e] : r \notin B
    BY <1>4 DEF IInv, BatchInv, Settled
  <2>4. \A e \in Requests : drainer'[e] # "joining" => batch'[e] = {}
    BY <1>2, <2>1 DEF IInv, BatchInv, TypeOK
  <2>5. \A e \in Requests : \A r \in batch'[e] :
            /\ key'[r] = key'[e]
            /\ status'[r] \in {"batched", "running"} \cup Settled
            /\ \A s \in batch'[e] : r = s \/ (access'[r] = "SharedRead"
                                              /\ access'[s] = "SharedRead")
    <3> SUFFICES ASSUME NEW e \in Requests, NEW r \in batch'[e]
                 PROVE  /\ key[r] = key[e]
                        /\ status'[r] \in {"batched", "running"} \cup Settled
                        /\ \A s \in batch'[e] : r = s
                              \/ (access[r] = "SharedRead"
                                  /\ access[s] = "SharedRead")
      BY <1>2
    <3>1. CASE e = d BY <1>3, <1>4, <1>5, <2>1, <3>1
    <3>2. CASE e # d
      <4>1. r \in batch[e] /\ batch'[e] = batch[e] /\ r \in Requests
        BY <2>1, <3>2 DEF IInv, TypeOK
      <4>2. status'[r] = status[r] BY <2>1, <2>3, <4>1
      <4> QED BY <4>1, <4>2 DEF IInv, BatchInv
    <3> QED BY <3>1, <3>2
  <2>6. ASSUME NEW r \in Requests, status'[r] \in {"batched", "running"},
               key'[r] \in Keys
        PROVE  \E e \in Requests : r \in batch'[e]
    <3>1. CASE r \in B BY <2>1, <3>1
    <3>2. CASE r \notin B BY <1>2, <2>1, <2>2, <2>6, <3>2 DEF IInv, BatchInv
    <3> QED BY <3>1, <3>2
  <2> QED BY <2>4, <2>5, <2>6 DEF BatchInv
<1> QED BY <1>6, <1>7, <1>8, <1>9 DEF IInv
(* A drain task that finds its queue empty takes its entry along.          *)
LEMMA DrainReturnIInv ==
    ASSUME IInv, NEW d \in Requests, DrainReturn(d)
    PROVE  IInv'
<1> USE DEF DrainReturn, IInv, reqVars, connVars
<1>1. TypeOK' BY DEF TypeOK, Live
<1>2. QueueInv' BY DEF QueueInv
<1>3. TaskInv' BY DEF TypeOK, TaskInv, Live
<1>4. BatchInv' BY DEF TypeOK, BatchInv
<1> QED BY <1>1, <1>2, <1>3, <1>4

(* The join of a settled batch.                                            *)
LEMMA DrainJoinedIInv ==
    ASSUME IInv, NEW d \in Requests, DrainJoined(d)
    PROVE  IInv'
<1> USE DEF DrainJoined, IInv, reqVars, connVars
<1>1. TypeOK' BY DEF TypeOK, Live
<1>2. QueueInv' BY DEF QueueInv
<1>3. TaskInv' BY DEF TypeOK, TaskInv, Live
<1>4. BatchInv'
  <2>1. /\ batch'[d] = {}
        /\ \A e \in Requests \ {d} : batch'[e] = batch[e]
                                     /\ drainer'[e] = drainer[e]
    BY DEF TypeOK
  <2>2. \A r \in Requests :
          status[r] \in {"batched", "running"} /\ key[r] \in Keys
          => \E e \in Requests : r \in batch'[e]
    BY <2>1 DEF BatchInv, Settled
  <2> QED BY <2>1, <2>2 DEF BatchInv
<1> QED BY <1>1, <1>2, <1>3, <1>4

(* A request that moves within its batch: gate, start, end.                *)
LEMMA StatusStepIInv ==
    ASSUME IInv, NEW r \in Requests,
           status[r] \in {"batched", "running"},
           NEW x \in {"running"} \cup Settled,
           status' = [status EXCEPT ![r] = x],
           UNCHANGED <<queueVars, reqVars, connVars>>
    PROVE  IInv'
<1> USE DEF IInv, queueVars, reqVars, connVars
<1>1. TypeOK' BY DEF TypeOK, Statuses
<1>2. QueueInv' BY DEF QueueInv, TypeOK
<1>3. TaskInv' BY DEF TypeOK, TaskInv, Settled
<1>4. BatchInv' BY DEF TypeOK, BatchInv
<1> QED BY <1>1, <1>2, <1>3, <1>4

(* A panic empties the batch of the task it kills and leaves its entry.    *)
LEMMA PanicIInv ==
    ASSUME IInv, NEW r \in Requests, Panic(r)
    PROVE  IInv'
<1> DEFINE hit == {d \in Requests : drainer[d] = "joining" /\ r \in batch[d]}
           lost == {r} \cup UNION {batch[d] : d \in hit}
<1>1. /\ status' = [x \in Requests |->
                      IF x \in lost /\ status[x] \notin Settled
                      THEN "dropped" ELSE status[x]]
      /\ drainer' = [d \in Requests |->
                      IF d \in hit THEN "panicked" ELSE drainer[d]]
      /\ batch' = [d \in Requests |-> IF d \in hit THEN {} ELSE batch[d]]
      /\ UNCHANGED <<queues, entries, key, access, conn, ticket, clock,
                     accepting, cleanup, loop>>
      /\ status[r] = "running"
  BY DEF Panic, reqVars, connVars
<1>2. /\ \A x \in lost : status[x] \in {"batched", "running"} \cup Settled
      /\ lost \subseteq Requests
  BY <1>1 DEF IInv, BatchInv, TypeOK
<1>3. \A d \in Requests : d \notin hit => batch[d] = {} \/ r \notin batch[d]
  BY DEF IInv, BatchInv
<1>4. \A d \in hit : drainer[d] = "joining" /\ d \in Requests
  OBVIOUS
<1>5. \A d \in hit : batch[d] \subseteq lost
  OBVIOUS
<1>6. r \in lost
  OBVIOUS
<1> HIDE DEF hit, lost
<1>7. TypeOK'
  <2>1. status' \in [Requests -> Statuses]
    BY <1>1 DEF IInv, TypeOK, Statuses, Settled
  <2>2. drainer' \in [Requests -> Live \cup {"none", "returned", "panicked"}]
    BY <1>1 DEF IInv, TypeOK, Live
  <2>3. batch' \in [Requests -> SUBSET Requests]
    BY <1>1 DEF IInv, TypeOK
  <2> QED BY <1>1, <2>1, <2>2, <2>3 DEF IInv, TypeOK
<1>8. QueueInv'
  <2>1. \A x \in Requests : status[x] = "queued" => status'[x] = "queued"
    BY <1>1, <1>2 DEF Settled
  <2>2. \A k \in Keys : \A i \in 1..Len(queues[k]) : queues[k][i] \in Requests
    BY DEF IInv, TypeOK
  <2> QED BY <1>1, <2>1, <2>2 DEF IInv, QueueInv
<1>9. TaskInv'
  <2>1. \A d \in Requests : /\ drainer'[d] \in Live => drainer[d] \in Live
                            /\ drainer'[d] = "none" <=> drainer[d] = "none"
                            /\ drainer[d] \in Live \cup {"panicked"}
                               => drainer'[d] \in Live \cup {"panicked"}
    BY <1>1, <1>4 DEF Live
  <2>2. \A x \in Requests : status'[x] = "new" => status[x] = "new"
    BY <1>1
  <2> QED BY <1>1, <2>1, <2>2 DEF IInv, TaskInv
<1>10. BatchInv'
  <2>1. \A d \in Requests : drainer'[d] # "joining" => batch'[d] = {}
    BY <1>1 DEF IInv, BatchInv
  <2>2. \A d \in Requests : \A x \in batch'[d] :
          x \in batch[d] /\ x \in Requests /\ d \notin hit
          /\ batch'[d] = batch[d]
    BY <1>1 DEF IInv, TypeOK
  <2>3. \A x \in Requests :
          status[x] \in {"batched", "running"} \cup Settled
          => status'[x] \in {"batched", "running"} \cup Settled
    BY <1>1 DEF Settled
  <2>4. ASSUME NEW x \in Requests, status'[x] \in {"batched", "running"},
               key[x] \in Keys
        PROVE  \E d \in Requests : x \in batch'[d]
    <3>1. status[x] = status'[x] /\ x \notin lost
      BY <1>1, <2>4 DEF Settled
    <3>2. PICK d \in Requests : x \in batch[d]
      BY <2>4, <3>1 DEF IInv, BatchInv
    <3>3. d \notin hit BY <1>5, <3>1, <3>2
    <3> QED BY <1>1, <3>2, <3>3
  <2> QED BY <1>1, <2>1, <2>2, <2>3, <2>4 DEF IInv, BatchInv
<1> QED BY <1>7, <1>8, <1>9, <1>10 DEF IInv

(* The steps of connections and of the processor loop touch no queue.      *)
LEMMA LoopStepIInv ==
    ASSUME IInv,
           \/ \E c \in Conns : ConnectionClosed(c) \/ CleanupStep(c)
           \/ BeginShutdown \/ FinishShutdown \/ ForceShutdown
    PROVE  IInv'
<1> USE DEF queueVars, reqVars
<1>1. UNCHANGED <<queues, entries, drainer, batch, status, key, access, conn,
                  ticket, clock>>
  BY DEF ConnectionClosed, CleanupStep, CleanupDrained, CleanupTimeout,
         BeginShutdown, FinishShutdown, ForceShutdown
<1>2. /\ accepting' \in [Conns -> BOOLEAN]
      /\ cleanup' \in [Conns -> Cleanups]
      /\ loop' \in {"running", "draining", "exited", "forced"}
  BY DEF IInv, TypeOK, Cleanups, ConnectionClosed, CleanupStep, CleanupDrained,
         CleanupTimeout, BeginShutdown, FinishShutdown, ForceShutdown
<1>3. TypeOK' BY <1>1, <1>2 DEF IInv, TypeOK
<1>4. QueueInv' /\ TaskInv' /\ BatchInv'
  BY <1>1 DEF IInv, QueueInv, TaskInv, BatchInv
<1> QED BY <1>3, <1>4 DEF IInv

(* A request without a scope goes straight to its gate.                    *)
LEMMA DispatchUnserializedIInv ==
    ASSUME IInv, NEW r \in Requests, NEW c \in Conns, DispatchUnserialized(r, c)
    PROVE  IInv'
<1> USE DEF DispatchUnserialized, IInv, queueVars, connVars
<1>1. TypeOK' BY DEF TypeOK, Statuses
<1>2. QueueInv' BY DEF TypeOK, QueueInv
<1>3. TaskInv' BY DEF TypeOK, TaskInv
<1>4. BatchInv' BY NullsAssumption DEF TypeOK, BatchInv, TaskInv, Settled
<1> QED BY <1>1, <1>2, <1>3, <1>4

(* IInv is inductive.                                                      *)
LEMMA NextIInv == IInv /\ [Next]_vars => IInv'
<1> SUFFICES ASSUME IInv, [Next]_vars PROVE IInv'
  OBVIOUS
<1>1. ASSUME NEW r \in Requests, NEW c \in Conns, NEW s \in Scopes,
             Dispatch(r, c, s)
      PROVE  IInv'
  <2>1. conn' \in [Requests -> Conns \cup {NoConn}]
    BY <1>1 DEF Dispatch, IInv, TypeOK
  <2> QED BY <1>1, <2>1, EnqueueIInv, KeyOfType, AccessOfType DEF Dispatch
<1>2. ASSUME NEW r \in Requests, NEW s \in Scopes, EnqueueBackground(r, s)
      PROVE  IInv'
  <2>1. conn' \in [Requests -> Conns \cup {NoConn}]
    BY <1>2 DEF EnqueueBackground, IInv, TypeOK
  <2> QED BY <1>2, <2>1, EnqueueIInv, KeyOfType, AccessOfType
          DEF EnqueueBackground
<1>3. ASSUME NEW r \in Requests, NEW c \in Conns, DispatchUnserialized(r, c)
      PROVE  IInv'
  BY <1>3, DispatchUnserializedIInv
<1>4. ASSUME NEW r \in Requests, GateRun(r) PROVE IInv'
  <2>1. status[r] \in {"batched", "running"}
    BY <1>4 DEF GateRun
  <2>2. CASE MayStart(r)
    BY <1>4, <2>1, <2>2, StatusStepIInv DEF GateRun
  <2>3. CASE ~MayStart(r)
    BY <1>4, <2>1, <2>3, StatusStepIInv DEF GateRun, Settled
  <2> QED BY <2>2, <2>3
<1>5. ASSUME NEW r \in Requests, Finish(r) PROVE IInv'
  BY <1>5, StatusStepIInv DEF Finish, Settled
<1>6. ASSUME NEW r \in Requests, Panic(r) PROVE IInv'
  BY <1>6, PanicIInv
<1>7. ASSUME NEW d \in Requests, DrainStep(d) PROVE IInv'
  BY <1>7, DrainPopIInv, DrainReturnIInv, DrainJoinedIInv DEF DrainStep
<1>8. CASE \/ \E c \in Conns : ConnectionClosed(c) \/ CleanupStep(c)
           \/ BeginShutdown \/ FinishShutdown \/ ForceShutdown
  BY <1>8, LoopStepIInv
<1>9. CASE UNCHANGED vars
  BY <1>9 DEF vars, queueVars, reqVars, connVars, IInv, TypeOK, QueueInv,
              TaskInv, BatchInv
<1> QED BY <1>1, <1>2, <1>3, <1>4, <1>5, <1>6, <1>7, <1>8, <1>9
        DEF Next, RequestStep

(* Every behaviour keeps the invariant.                                    *)
LEMMA SpecIInv == Spec => []IInv
BY InitIInv, NextIInv, PTL DEF Spec

(***************************************************************************)
(* The variables keep their types.                                         *)
(***************************************************************************)
THEOREM SpecTypeOK == Spec => []TypeOK
<1>1. IInv => TypeOK BY DEF IInv
<1> QED BY <1>1, SpecIInv, PTL

(***************************************************************************)
(* Exclusive handlers of app-server/src/request_serialization.rs never     *)
(* overlap another handler of their key.                                   *)
(***************************************************************************)
THEOREM SpecExclusiveRunsAlone == Spec => []ExclusiveRunsAlone
<1>1. IInv => ExclusiveRunsAlone
  <2> SUFFICES ASSUME IInv, NEW r \in Requests, NEW s \in Requests, r # s,
                      status[r] = "running", status[s] = "running",
                      key[r] \in Keys, key[r] = key[s]
               PROVE  access[r] = "SharedRead" /\ access[s] = "SharedRead"
    BY DEF ExclusiveRunsAlone
  <2>1. PICK d \in Requests : r \in batch[d]
    BY DEF IInv, BatchInv
  <2>2. PICK e \in Requests : s \in batch[e]
    BY DEF IInv, BatchInv
  <2>3. drainer[d] \in Live /\ drainer[e] \in Live
    BY <2>1, <2>2 DEF IInv, BatchInv, Live
  <2>4. key[d] = key[e]
    BY <2>1, <2>2 DEF IInv, BatchInv
  <2>5. d = e
    BY <2>3, <2>4 DEF IInv, TaskInv
  <2> QED BY <2>1, <2>2, <2>5 DEF IInv, BatchInv
<1> QED BY <1>1, SpecIInv, PTL

(***************************************************************************)
(* A key has at most one drain task, and its map entry tells whether it    *)
(* has one, as long as none of its handlers panicked.                      *)
(***************************************************************************)
THEOREM SpecEntryIsItsDrainer == Spec => []EntryIsItsDrainer
<1>1. IInv => EntryIsItsDrainer
  <2> SUFFICES ASSUME IInv, NEW k \in Keys
               PROVE  /\ \A d, e \in DrainersOf(k) : d = e
                      /\ DrainersOf(k) # {} => k \in entries
                      /\ k \in entries => DrainersOf(k) # {} \/ Wedged(k)
                      /\ queues[k] # <<>> => k \in entries
    BY DEF EntryIsItsDrainer
  <2> QED BY DEF IInv, TaskInv, DrainersOf, Wedged
<1> QED BY <1>1, SpecIInv, PTL
-----------------------------------------------------------------------------
(***************************************************************************)
(* The gate.  A connection the loop has let go of, and every connection    *)
(* once a graceful shutdown began, has a closed gate.                      *)
(***************************************************************************)
GateInv ==
    /\ \A c \in Conns : cleanup[c] # "open" => ~accepting[c]
    /\ loop \in {"draining", "exited"} => \A c \in Conns : ~accepting[c]

(* GateInv and QuietAfterCleanup are inductive together.                   *)
LEMMA NextGateInv ==
    TypeOK /\ GateInv /\ QuietAfterCleanup /\ [Next]_vars
        => (GateInv /\ QuietAfterCleanup)'
<1> SUFFICES ASSUME TypeOK, GateInv, QuietAfterCleanup, [Next]_vars
             PROVE  GateInv' /\ QuietAfterCleanup'
  OBVIOUS
<1>1. ASSUME UNCHANGED connVars,
             \A r \in Requests : status'[r] = "running"
                => \/ status[r] = "running" /\ conn'[r] = conn[r]
                   \/ conn'[r] \in Conns => accepting[conn'[r]]
      PROVE  GateInv' /\ QuietAfterCleanup'
  <2>1. GateInv' BY <1>1 DEF GateInv, connVars
  <2>2. ASSUME NEW c \in Conns,
               cleanup[c] = "cleaned" \/ (loop = "exited" /\ cleanup[c] = "open"),
               NEW r \in Requests, conn'[r] = c, status'[r] = "running"
        PROVE  FALSE
    <3>1. ~accepting[c] BY <2>2 DEF GateInv
    <3>2. r \in InFlight(c) BY <1>1, <2>2, <3>1 DEF InFlight
    <3> QED BY <2>2, <3>2 DEF QuietAfterCleanup
  <2> QED BY <1>1, <2>1, <2>2 DEF QuietAfterCleanup, InFlight, connVars
<1>2. ASSUME NEW r \in Requests, NEW k, NEW a, status[r] = "new",
             Enqueue(r, k, a), \A x \in Requests \ {r} : conn'[x] = conn[x]
      PROVE  GateInv' /\ QuietAfterCleanup'
  BY <1>1, <1>2 DEF Enqueue, TypeOK
<1>3. ASSUME NEW r \in Requests, NEW c \in Conns, NEW s \in Scopes,
             Dispatch(r, c, s)
      PROVE  GateInv' /\ QuietAfterCleanup'
  <2>1. \A x \in Requests \ {r} : conn'[x] = conn[x]
    BY <1>3 DEF Dispatch, TypeOK
  <2> QED BY <1>2, <1>3, <2>1 DEF Dispatch
<1>4. ASSUME NEW r \in Requests, NEW s \in Scopes, EnqueueBackground(r, s)
      PROVE  GateInv' /\ QuietAfterCleanup'
  BY <1>2, <1>4 DEF EnqueueBackground
<1>5. ASSUME NEW r \in Requests, NEW c \in Conns, DispatchUnserialized(r, c)
      PROVE  GateInv' /\ QuietAfterCleanup'
  BY <1>1, <1>5 DEF DispatchUnserialized, TypeOK
<1>6. ASSUME NEW r \in Requests, RequestStep(r)
      PROVE  GateInv' /\ QuietAfterCleanup'
  <2>1. CASE GateRun(r)
    <3>1. UNCHANGED connVars /\ conn' = conn
      BY <2>1 DEF GateRun, reqVars
    <3>2. \A x \in Requests \ {r} : status'[x] = status[x]
      BY <2>1 DEF GateRun, TypeOK
    <3>3. status'[r] = "running" => (conn[r] \in Conns => accepting[conn[r]])
      BY <2>1, NullsAssumption DEF GateRun, MayStart, TypeOK
    <3> QED BY <1>1, <3>1, <3>2, <3>3
  <2>2. CASE Finish(r)
    BY <1>1, <2>2 DEF Finish, TypeOK, reqVars
  <2>3. CASE Panic(r)
    BY <1>1, <2>3 DEF Panic, reqVars
  <2> QED BY <1>6, <2>1, <2>2, <2>3 DEF RequestStep
<1>7. ASSUME NEW d \in Requests, DrainStep(d)
      PROVE  GateInv' /\ QuietAfterCleanup'
  <2>1. CASE DrainPop(d)
    BY <1>1, <2>1 DEF DrainPop, reqVars
  <2>2. CASE DrainReturn(d) \/ DrainJoined(d)
    BY <1>1, <2>2 DEF DrainReturn, DrainJoined, reqVars
  <2> QED BY <1>7, <2>1, <2>2 DEF DrainStep
<1>8. CASE \/ \E c \in Conns : ConnectionClosed(c) \/ CleanupStep(c)
           \/ BeginShutdown \/ FinishShutdown \/ ForceShutdown
  <2>1. UNCHANGED <<status, conn>>
    BY <1>8 DEF ConnectionClosed, CleanupStep, CleanupDrained, CleanupTimeout,
                BeginShutdown, FinishShutdown, ForceShutdown, reqVars
  <2>2. \A c \in Conns : InFlight(c)' = InFlight(c)
    BY <2>1 DEF InFlight
  <2>3. GateInv'
    BY <1>8 DEF GateInv, TypeOK, ConnectionClosed, CleanupStep, CleanupDrained,
                CleanupTimeout, BeginShutdown, FinishShutdown, ForceShutdown
  <2>4. QuietAfterCleanup'
    BY <1>8, <2>2 DEF QuietAfterCleanup, TypeOK, ConnectionClosed, CleanupStep,
                CleanupDrained, CleanupTimeout, BeginShutdown, FinishShutdown,
                ForceShutdown
  <2> QED BY <2>3, <2>4
<1>9. CASE UNCHANGED vars
  BY <1>1, <1>9 DEF vars, connVars, reqVars
<1> QED BY <1>3, <1>4, <1>5, <1>6, <1>7, <1>8, <1>9 DEF Next

(***************************************************************************)
(* ConnectionRpcGate::shutdown: after a cleanup that did not time out, and *)
(* after a graceful shutdown, no handler of the connection runs.           *)
(***************************************************************************)
THEOREM SpecQuietAfterCleanup == Spec => []QuietAfterCleanup
<1>1. Init => GateInv /\ QuietAfterCleanup
  BY DEF Init, GateInv, QuietAfterCleanup
<1> QED BY <1>1, NextGateInv, SpecTypeOK, PTL DEF Spec

(***************************************************************************)
(* ConnectionRpcGate::close: no handler of a closed connection starts.     *)
(***************************************************************************)
THEOREM SpecNoStartAfterClose == Spec => NoStartAfterClose
<1> DEFINE Late == \A r \in Requests :
        /\ conn[r] \in Conns
        /\ status[r] # "running" /\ status'[r] = "running"
        => cleanup[conn[r]] = "open" /\ loop \in {"running", "forced"}
<1>1. Init => GateInv /\ QuietAfterCleanup
  BY DEF Init, GateInv, QuietAfterCleanup
<1>2. TypeOK /\ GateInv /\ [Next]_vars => [Late]_vars
  <2> SUFFICES ASSUME TypeOK, GateInv, Next PROVE Late
    OBVIOUS
  <2> SUFFICES ASSUME NEW r \in Requests, conn[r] \in Conns,
                      status[r] # "running", status'[r] = "running"
               PROVE  cleanup[conn[r]] = "open" /\ loop \in {"running", "forced"}
    OBVIOUS
  <2>1. GateRun(r)
    <3>1. ASSUME NEW x \in Requests, NEW c \in Conns, NEW s \in Scopes
          PROVE  ~Dispatch(x, c, s)
      BY DEF TypeOK, Dispatch, Enqueue
    <3>2. ASSUME NEW s \in Scopes, NEW x \in Requests
          PROVE  ~EnqueueBackground(x, s)
      BY DEF TypeOK, Enqueue, EnqueueBackground
    <3>3. ASSUME NEW x \in Requests PROVE ~Finish(x) /\ ~DrainStep(x)
      BY ZenonT(40) DEF TypeOK, Finish, DrainStep, DrainPop, DrainReturn, DrainJoined
    <3>4. ASSUME NEW x \in Requests PROVE ~Panic(x)
      BY DEF TypeOK, Panic
    <3>5. ASSUME NEW x \in Requests, GateRun(x) PROVE x = r
      BY <3>5 DEF TypeOK, GateRun
    <3>6. /\ \A c \in Conns : ~ConnectionClosed(c) /\ ~CleanupStep(c)
          /\ ~BeginShutdown /\ ~FinishShutdown /\ ~ForceShutdown
      BY DEF ConnectionClosed, CleanupStep, CleanupDrained, CleanupTimeout,
             BeginShutdown, FinishShutdown, ForceShutdown
    <3>7. ASSUME NEW x \in Requests, NEW c \in Conns
          PROVE  ~DispatchUnserialized(x, c)
      BY DEF TypeOK, DispatchUnserialized
    <3> QED BY <3>1, <3>2, <3>3, <3>4, <3>5, <3>6, <3>7 DEF Next, RequestStep
  <2>2. accepting[conn[r]]
    BY <2>1, NullsAssumption DEF GateRun, MayStart, TypeOK
  <2> QED BY <2>2 DEF GateInv, TypeOK
<1> QED BY <1>1, <1>2, NextGateInv, SpecTypeOK, PTL DEF Spec, NoStartAfterClose
-----------------------------------------------------------------------------
(***************************************************************************)
(* Arrival order.  A queue is sorted by arrival, what waits is in it, and  *)
(* whatever arrived after a waiting request waits too; what arrived after  *)
(* a member of a batch waits or is a member of the same batch.             *)
(***************************************************************************)
OrderInv ==
    /\ \A r \in Requests : key[r] \in Keys => ticket[r] < clock
    /\ \A r \in Requests : status[r] = "queued" =>
        /\ key[r] \in Keys
        /\ \E i \in 1..Len(queues[key[r]]) : queues[key[r]][i] = r
    /\ \A k \in Keys : \A i, j \in 1..Len(queues[k]) :
        i < j => ticket[queues[k][i]] < ticket[queues[k][j]]
    /\ \A r, s \in Requests :
        status[r] = "queued" /\ key[s] = key[r] /\ ticket[r] < ticket[s]
        => status[s] = "queued"
    /\ \A d, s \in Requests : \A r \in batch[d] :
        key[s] = key[r] /\ ticket[r] < ticket[s]
        => s \in batch[d] \/ status[s] = "queued"

(* The newest request goes behind everything of its key.                   *)
LEMMA EnqueueOrderInv ==
    ASSUME IInv, OrderInv, NEW r \in Requests, NEW k \in Keys, NEW a,
           status[r] = "new", Enqueue(r, k, a)
    PROVE  OrderInv'
<1>1. /\ queues' = [queues EXCEPT ![k] = Append(@, r)]
      /\ status' = [status EXCEPT ![r] = "queued"]
      /\ key' = [key EXCEPT ![r] = k]
      /\ ticket' = [ticket EXCEPT ![r] = clock]
      /\ clock' = clock + 1
      /\ batch' = batch
  BY DEF Enqueue
<1>2. /\ queues \in [Keys -> Seq(Requests)] /\ clock \in Nat
      /\ ticket \in [Requests -> Nat] /\ status \in [Requests -> Statuses]
      /\ key \in [Requests -> Keys \cup {NoKey}]
      /\ batch \in [Requests -> SUBSET Requests]
  BY DEF IInv, TypeOK
<1>3. /\ \A x \in Requests \ {r} : /\ key'[x] = key[x] /\ ticket'[x] = ticket[x]
                                   /\ status'[x] = status[x]
      /\ key'[r] = k /\ ticket'[r] = clock /\ status'[r] = "queued"
  BY <1>1, <1>2
<1>4. /\ queues'[k] = Append(queues[k], r)
      /\ \A m \in Keys \ {k} : queues'[m] = queues[m]
  BY <1>1, <1>2
<1>5. /\ queues[k] \in Seq(Requests) /\ Len(queues[k]) \in Nat
      /\ Len(queues'[k]) = Len(queues[k]) + 1
      /\ queues'[k][Len(queues[k]) + 1] = r
      /\ \A i \in 1..Len(queues[k]) : queues'[k][i] = queues[k][i]
  BY <1>2, <1>4
<1>6. \A m \in Keys : \A i \in 1..Len(queues[m]) :
        /\ queues[m][i] \in Requests \ {r}
        /\ key[queues[m][i]] = m /\ ticket[queues[m][i]] < clock
  BY <1>2 DEF IInv, QueueInv, OrderInv
<1>7. \A x \in Requests : key'[x] \in Keys => ticket'[x] < clock'
  BY <1>1, <1>2, <1>3 DEF OrderInv
<1>8. ASSUME NEW x \in Requests, status'[x] = "queued"
      PROVE  /\ key'[x] \in Keys
             /\ \E i \in 1..Len(queues'[key'[x]]) : queues'[key'[x]][i] = x
  <2>1. CASE x = r
    BY <1>3, <1>5, <2>1
  <2>2. CASE x # r
    <3>1. PICK i \in 1..Len(queues[key[x]]) : queues[key[x]][i] = x
      BY <1>3, <1>8, <2>2 DEF OrderInv
    <3>2. key'[x] = key[x] /\ key[x] \in Keys
      BY <1>3, <1>8, <2>2 DEF OrderInv
    <3>3. CASE key[x] = k
      <4>1. i \in 1..Len(queues'[k]) /\ queues'[k][i] = x
        BY <1>5, <3>1, <3>3
      <4> QED BY <3>2, <3>3, <4>1
    <3>4. CASE key[x] # k
      BY <1>4, <3>1, <3>2, <3>4
    <3> QED BY <3>3, <3>4
  <2> QED BY <2>1, <2>2
<1>9. ASSUME NEW m \in Keys, NEW i \in 1..Len(queues'[m]),
             NEW j \in 1..Len(queues'[m]), i < j
      PROVE  ticket'[queues'[m][i]] < ticket'[queues'[m][j]]
  <2>1. CASE m # k
    BY <1>3, <1>4, <1>6, <1>9, <2>1 DEF OrderInv
  <2>2. CASE m = k
    <3>1. i \in 1..Len(queues[k])
      BY <1>5, <1>9, <2>2
    <3>2. CASE j = Len(queues[k]) + 1
      BY <1>3, <1>5, <1>6, <2>2, <3>1, <3>2
    <3>3. CASE j # Len(queues[k]) + 1
      <4>1. j \in 1..Len(queues[k])
        BY <1>5, <2>2, <3>3
      <4> QED BY <1>3, <1>5, <1>6, <1>9, <2>2, <3>1, <4>1 DEF OrderInv
    <3> QED BY <3>2, <3>3
  <2> QED BY <2>1, <2>2
<1>10. ASSUME NEW x \in Requests, NEW y \in Requests, status'[x] = "queued",
              key'[y] = key'[x], ticket'[x] < ticket'[y]
       PROVE  status'[y] = "queued"
  <2>1. CASE y = r
    BY <1>3, <2>1
  <2>2. CASE y # r /\ x # r
    BY <1>3, <1>10, <2>2 DEF OrderInv
  <2>3. CASE y # r /\ x = r
    BY <1>2, <1>3, <1>10, <2>3 DEF OrderInv
  <2> QED BY <2>1, <2>2, <2>3
<1>11. ASSUME NEW d \in Requests, NEW y \in Requests, NEW x \in batch'[d],
              key'[y] = key'[x], ticket'[x] < ticket'[y]
       PROVE  y \in batch'[d] \/ status'[y] = "queued"
  <2>1. x \in Requests /\ x # r /\ x \in batch[d]
    BY <1>1, <1>2 DEF IInv, BatchInv, Settled
  <2>2. CASE y = r
    BY <1>3, <2>2
  <2>3. CASE y # r
    BY <1>1, <1>3, <1>11, <2>1, <2>3 DEF OrderInv
  <2> QED BY <2>2, <2>3
<1> QED BY <1>7, <1>8, <1>9, <1>10, <1>11 DEF OrderInv

(* A pop takes the oldest requests of its key, and no others are popped.   *)
LEMMA DrainPopOrderInv ==
    ASSUME IInv, OrderInv, NEW d \in Requests, DrainPop(d)
    PROVE  OrderInv'
<1> DEFINE q == queues[key[d]]
<1>0. key[d] \in Keys /\ q \in Seq(Requests) /\ drainer[d] = "locking"
  BY DEF IInv, TaskInv, TypeOK, DrainPop
<1>1. PICK n \in 1..Len(q) :
        /\ queues' = [queues EXCEPT ![key[d]] = SubSeq(q, n + 1, Len(q))]
        /\ batch' = [batch EXCEPT ![d] = {q[i] : i \in 1..n}]
        /\ status' = [r \in Requests |->
                        IF r \in {q[i] : i \in 1..n} THEN "batched"
                                                     ELSE status[r]]
  BY DEF DrainPop
<1> DEFINE B == {q[i] : i \in 1..n}
<1>2. UNCHANGED <<key, ticket, clock>>
  BY DEF DrainPop, reqVars
<1>3. /\ Len(SubSeq(q, n + 1, Len(q))) = Len(q) - n
      /\ \A i \in 1..(Len(q) - n) : SubSeq(q, n + 1, Len(q))[i] = q[n + i]
      /\ B \subseteq Requests
  BY <1>0, PopType
<1>4. Len(q) \in Nat /\ n \in Nat /\ n <= Len(q)
  BY <1>0
<1>5. /\ \A x \in B : status[x] = "queued" /\ key[x] = key[d]
      /\ \A x \in B : \E i \in 1..n : x = q[i]
      /\ \A i \in 1..Len(q) : i <= n => q[i] \in B
  BY <1>0, <1>4 DEF IInv, QueueInv
<1>6. \A i, j \in 1..Len(q) : i < j => ticket[q[i]] < ticket[q[j]]
  BY <1>0 DEF OrderInv
<1>7. /\ queues'[key[d]] = SubSeq(q, n + 1, Len(q))
      /\ \A k \in Keys \ {key[d]} : queues'[k] = queues[k]
      /\ batch'[d] = B
      /\ \A e \in Requests \ {d} : batch'[e] = batch[e]
      /\ \A x \in Requests : status'[x] = IF x \in B THEN "batched" ELSE status[x]
  BY <1>0, <1>1 DEF IInv, TypeOK
<1>8. \A x \in Requests : status[x] = "queued" /\ key[x] = key[d]
                          => \E i \in 1..Len(q) : q[i] = x
  BY DEF OrderInv
<1> HIDE DEF q, B
<1>9. ASSUME NEW x \in Requests, status'[x] = "queued"
      PROVE  /\ key[x] \in Keys
             /\ \E i \in 1..Len(queues'[key[x]]) : queues'[key[x]][i] = x
  <2>1. status[x] = "queued" /\ x \notin B /\ key[x] \in Keys
    BY <1>7, <1>9 DEF OrderInv
  <2>2. CASE key[x] # key[d]
    BY <1>7, <2>1, <2>2 DEF OrderInv
  <2>3. CASE key[x] = key[d]
    <3>1. PICK i \in 1..Len(q) : q[i] = x
      BY <1>8, <2>1, <2>3
    <3>2. i > n
      BY <1>4, <1>5, <2>1, <3>1
    <3>3. /\ i - n \in 1..(Len(q) - n)
          /\ q[n + (i - n)] = x
      BY <1>4, <3>1, <3>2
    <3>4. SubSeq(q, n + 1, Len(q))[i - n] = x
      BY <1>3, <3>3
    <3> QED BY <1>3, <1>7, <2>1, <2>3, <3>3, <3>4
  <2> QED BY <2>2, <2>3
<1>10. ASSUME NEW k \in Keys, NEW i \in 1..Len(queues'[k]),
              NEW j \in 1..Len(queues'[k]), i < j
       PROVE  ticket[queues'[k][i]] < ticket[queues'[k][j]]
  <2>1. CASE k # key[d]
    BY <1>7, <1>10, <2>1 DEF OrderInv
  <2>2. CASE k = key[d]
    <3>1. /\ i \in 1..(Len(q) - n) /\ j \in 1..(Len(q) - n)
          /\ queues'[k][i] = q[n + i] /\ queues'[k][j] = q[n + j]
      BY <1>3, <1>7, <2>2
    <3>2. n + i \in 1..Len(q) /\ n + j \in 1..Len(q) /\ n + i < n + j
      BY <1>4, <1>10, <3>1
    <3> QED BY <1>6, <3>1, <3>2
  <2> QED BY <2>1, <2>2
<1>11. ASSUME NEW x \in Requests, NEW y \in Requests, status'[x] = "queued",
              key[y] = key[x], ticket[x] < ticket[y]
       PROVE  status'[y] = "queued"
  <2>1. status[x] = "queued" /\ x \notin B /\ status[y] = "queued"
    BY <1>7, <1>11 DEF OrderInv
  <2>2. ASSUME y \in B PROVE FALSE
    <3>1. PICK i \in 1..n : q[i] = y
      BY <1>5, <2>2
    <3>2. PICK j \in 1..Len(q) : q[j] = x
      BY <1>5, <1>8, <1>11, <2>1, <2>2
    <3>3. j > n
      BY <1>4, <1>5, <2>1, <3>2
    <3>4. i \in 1..Len(q) /\ i < j
      BY <1>4, <3>1, <3>2, <3>3
    <3>5. ticket[y] < ticket[x]
      BY <1>6, <3>1, <3>2, <3>4
    <3>6. ticket[x] \in Nat /\ ticket[y] \in Nat
      BY DEF IInv, TypeOK
    <3> QED BY <1>11, <3>5, <3>6
  <2> QED BY <1>7, <2>1, <2>2
<1>12. ASSUME NEW e \in Requests, NEW y \in Requests, NEW x \in batch'[e],
              key[y] = key[x], ticket[x] < ticket[y]
       PROVE  y \in batch'[e] \/ status'[y] = "queued"
  <2>1. CASE e = d
    <3>1. x \in B /\ status[x] = "queued" /\ x \in Requests
      BY <1>3, <1>5, <1>7, <1>12, <2>1
    <3>2. status[y] = "queued"
      BY <1>12, <3>1 DEF OrderInv
    <3> QED BY <1>7, <2>1, <3>2
  <2>2. CASE e # d
    <3>1. x \in batch[e] /\ batch'[e] = batch[e]
      BY <1>7, <1>12, <2>2
    <3>2. y \in batch[e] \/ status[y] = "queued"
      BY <1>12, <3>1 DEF OrderInv
    <3>3. key[x] = key[e] /\ drainer[e] = "joining"
      BY <3>1 DEF IInv, BatchInv
    <3>4. key[e] # key[d]
      BY <1>0, <2>2, <3>3 DEF IInv, TaskInv, Live
    <3>5. y \notin B
      BY <1>5, <1>12, <3>3, <3>4
    <3> QED BY <1>7, <3>1, <3>2, <3>5
  <2> QED BY <2>1, <2>2
<1>13. \A x \in Requests : key[x] \in Keys => ticket[x] < clock
  BY DEF OrderInv
<1> QED BY <1>2, <1>9, <1>10, <1>11, <1>12, <1>13 DEF OrderInv

(* Every other step leaves the queues alone, takes no request to or from   *)
(* "queued" and puts none into a batch.                                    *)
LEMMA OtherStepOrderInv ==
    ASSUME IInv, OrderInv, UNCHANGED <<queues, key, ticket, clock>>,
           \A d \in Requests : batch'[d] = batch[d] \/ batch'[d] = {},
           \A r \in Requests : status'[r] = "queued" <=> status[r] = "queued"
    PROVE  OrderInv'
<1>1. \A d \in Requests : \A x \in batch'[d] :
        x \in batch[d] /\ batch'[d] = batch[d]
  OBVIOUS
<1> QED BY <1>1 DEF OrderInv

(* OrderInv is inductive relative to IInv.                                 *)
LEMMA NextOrderInv == IInv /\ OrderInv /\ [Next]_vars => OrderInv'
<1> SUFFICES ASSUME IInv, OrderInv, [Next]_vars PROVE OrderInv'
  OBVIOUS
<1>0. TypeOK
  BY DEF IInv
<1>1. ASSUME NEW r \in Requests, NEW c \in Conns, NEW s \in Scopes,
             Dispatch(r, c, s)
      PROVE  OrderInv'
  BY <1>1, EnqueueOrderInv, KeyOfType DEF Dispatch
<1>2. ASSUME NEW r \in Requests, NEW s \in Scopes, EnqueueBackground(r, s)
      PROVE  OrderInv'
  BY <1>2, EnqueueOrderInv, KeyOfType DEF EnqueueBackground
<1>3. ASSUME NEW r \in Requests, NEW c \in Conns, DispatchUnserialized(r, c)
      PROVE  OrderInv'
  BY <1>0, <1>3, OtherStepOrderInv DEF DispatchUnserialized, queueVars, TypeOK
<1>4. ASSUME NEW r \in Requests, GateRun(r) \/ Finish(r) PROVE OrderInv'
  BY <1>0, <1>4, OtherStepOrderInv
     DEF GateRun, Finish, queueVars, reqVars, TypeOK
<1>5. ASSUME NEW r \in Requests, Panic(r) PROVE OrderInv'
  <2>1. UNCHANGED <<queues, key, ticket, clock>>
    BY <1>5 DEF Panic, reqVars
  <2>2. \A d \in Requests : batch'[d] = batch[d] \/ batch'[d] = {}
    BY <1>5 DEF Panic
  <2>3. \A x \in Requests : status'[x] = "queued" <=> status[x] = "queued"
    BY <1>5 DEF Panic, IInv, BatchInv, Settled
  <2> QED BY <2>1, <2>2, <2>3, OtherStepOrderInv
<1>6. ASSUME NEW d \in Requests, DrainPop(d) PROVE OrderInv'
  BY <1>6, DrainPopOrderInv
<1>7. ASSUME NEW d \in Requests, DrainReturn(d) \/ DrainJoined(d)
      PROVE  OrderInv'
  BY <1>0, <1>7, OtherStepOrderInv DEF DrainReturn, DrainJoined, reqVars, TypeOK
<1>8. CASE \/ \E c \in Conns : ConnectionClosed(c) \/ CleanupStep(c)
           \/ BeginShutdown \/ FinishShutdown \/ ForceShutdown
  <2>1. UNCHANGED <<queues, batch, status, key, ticket, clock>>
    BY <1>8 DEF ConnectionClosed, CleanupStep, CleanupDrained, CleanupTimeout,
                BeginShutdown, FinishShutdown, ForceShutdown, queueVars, reqVars
  <2> QED BY <2>1, OtherStepOrderInv
<1>9. CASE UNCHANGED vars
  BY <1>9, OtherStepOrderInv DEF vars, queueVars, reqVars
<1> QED BY <1>1, <1>2, <1>3, <1>4, <1>5, <1>6, <1>7, <1>8, <1>9
        DEF Next, RequestStep, DrainStep

(***************************************************************************)
(* Requests of one key take effect in arrival order, shared reads of one   *)
(* batch apart (drain pops from the front; a write never overtakes and is  *)
(* never overtaken).                                                       *)
(***************************************************************************)
THEOREM SpecFifoPerKey == Spec => []FifoPerKey
<1>1. Init => OrderInv
  BY DEF Init, OrderInv
<1>2. IInv /\ OrderInv => FifoPerKey
  <2> SUFFICES ASSUME IInv, OrderInv, NEW r \in Requests, NEW s \in Requests,
                      key[r] \in Keys, key[r] = key[s], ticket[r] < ticket[s],
                      status[s] \in {"running", "done"}, status[r] \notin Settled
               PROVE  /\ access[r] = "SharedRead" /\ access[s] = "SharedRead"
                      /\ status[r] \in {"batched", "running"}
    BY DEF FifoPerKey
  <2>1. status[r] # "new" /\ status[r] # "queued"
    BY NullsAssumption DEF IInv, TaskInv, OrderInv
  <2>2. status[r] \in {"batched", "running"}
    BY <2>1 DEF IInv, TypeOK, Statuses
  <2>3. PICK d \in Requests : r \in batch[d]
    BY <2>2 DEF IInv, BatchInv
  <2>4. s \in batch[d]
    BY <2>3 DEF OrderInv
  <2>5. r # s
    BY DEF IInv, TypeOK
  <2> QED BY <2>2, <2>3, <2>4, <2>5 DEF IInv, BatchInv
<1> QED BY <1>1, <1>2, NextOrderInv, SpecIInv, PTL DEF Spec
=============================================================================
