------------------------- MODULE RolloutLogProofs -------------------------
(***************************************************************************)
(* Proofs about RolloutLog, for any number of items, faults and losses.    *)
(*                                                                         *)
(* The inductive invariant LogInv has six parts: the types and the state   *)
(* of the handle (Types, Handle); what remains when the recorder is gone   *)
(* or its operation was dropped (Dropped); where the writer task and the   *)
(* operation it answers may stand (Protocol); how the records of the file, *)
(* the ordinals, the queue and the acknowledged items hang together        *)
(* (Records); and the projection with the plan read but not yet applied    *)
(* (ProjInv).  read_projection_steps is a recursive function of the line:  *)
(* what it returns is proved by taking the first line at which a claim     *)
(* would fail.                                                             *)
(***************************************************************************)
EXTENDS RolloutLog, SequenceTheorems, FiniteSetTheorems, TLAPS

(***************************************************************************)
(* The inductive invariant.  Its types, first.                             *)
(***************************************************************************)
File == [exists : BOOLEAN, lines : Seq(Line), cut : BOOLEAN]
Writer == [open : BOOLEAN, deferred : BOOLEAN, meta : BOOLEAN, next : Nat,
           pc : {"recv", "open", "meta", "items", "done", "failed", "stopped"},
           attempt : {1, 2}, kind : {"none", "add"} \cup Barriers, ack : BOOLEAN]
Checkpoint == [off : Nat, ord : Nat, rows : Seq(Items \cup {Meta})]
Plan == [start : Nat, off : Nat, ord : Nat, rows : Seq(Items \cup {Meta})]
Client == [pc : {"idle", "send", "wait", "read", "apply"},
           op : {"none"} \cup Barriers, plan : {<<>>} \cup Plan]

Types ==
    /\ file \in File
    /\ writer \in Writer
    /\ pending \in Seq(Items)
    /\ chan \in Seq(Cmd) /\ Len(chan) <= MaxQueue
    /\ client \in Client
    /\ proj \in Checkpoint
    /\ proc \in {"open", "closed", "lost"}
    /\ submitted \subseteq Items /\ acked \subseteq Items
    /\ faults \in 0..MaxFaults /\ losses \in 0..MaxLosses

(* An open handle is on a file that exists and appends after a whole line. *)
Handle ==
    /\ ~file.exists => file.lines = <<>>
    /\ file.cut => file.lines # <<>>
    /\ writer.open => file.exists /\ ~file.cut /\ ~writer.deferred
    /\ writer.pc \in {"meta", "items"} => writer.open

(* Without a recorder there is no writer, no queue and no operation.       *)
Dropped ==
    proc # "open" => /\ writer = StoppedWriter /\ client = IdleClient
                     /\ pending = <<>> /\ chan = <<>> /\ submitted = {}

(***************************************************************************)
(* A barrier that will be answered is the client's own and the last thing  *)
(* sent; a shutdown always is one, and after it nothing is left to write.  *)
(***************************************************************************)
Channel ==
    \A k \in DOMAIN chan :
        /\ chan[k].kind = "add" <=> chan[k].item # Meta
        /\ chan[k].kind = "shutdown" => chan[k].ack
        /\ chan[k].ack => /\ k = Len(chan) /\ client.pc = "wait"
                          /\ chan[k].kind = client.op /\ ~writer.ack

Answering ==
    /\ writer.ack => /\ client.pc = "wait" /\ client.op = writer.kind
                     /\ chan = <<>> /\ writer.pc \notin {"recv", "stopped"}
    /\ writer.kind = "shutdown" => writer.ack

Drained ==
    /\ writer.pc = "done" => pending = <<>>
    /\ writer.pc = "stopped" => pending = <<>> /\ chan = <<>>
    /\ proc = "open" =>
         (writer.pc = "stopped" <=>
            client.op = "shutdown" /\ client.pc \in {"read", "apply"})

Calling ==
    /\ client.pc = "idle" <=> client = IdleClient
    /\ client.pc = "idle" <=> client.op = "none"

Protocol == Channel /\ Answering /\ Drained /\ Calling

(***************************************************************************)
(* The ordinals of the records that parse go up, without a gap from zero,  *)
(* and only the lines of one record share one.                             *)
(***************************************************************************)
Ordinals ==
    LET l == file.lines IN
    /\ \A j, k \in Parsed : j < k => l[j].ord <= l[k].ord
    /\ \A j, k \in Parsed : l[j].ord = l[k].ord <=> l[j].item = l[k].item
    /\ \A k \in Parsed : \A n \in Nat :
         n < l[k].ord => \E j \in Parsed : j < k /\ l[j].ord = n
    /\ \A k \in Parsed : l[k].ord = 0 <=> l[k].item = Meta

(***************************************************************************)
(* The writer's ordinal follows the records in the file; the one exception *)
(* is the record it is about to write again.                               *)
(***************************************************************************)
NextOrdinal ==
    LET l == file.lines IN
    /\ \A k \in Parsed : l[k].ord <= writer.next
    /\ \A n \in Nat : n < writer.next => \E k \in Parsed : l[k].ord = n
    /\ \A k \in Parsed : l[k].ord = writer.next =>
         IF writer.meta THEN l[k].item = Meta
         ELSE pending # <<>> /\ l[k].item = Head(pending)
    /\ writer.meta <=> writer.next = 0
    /\ writer.pc = "items" => ~writer.meta

(* An item is queued once, not again once its record is behind, and until  *)
(* then.                                                                   *)
Waiting == {Queue[q] : q \in DOMAIN Queue} \ {Meta}

QueuedOnce ==
    /\ \A p, q \in DOMAIN Queue : Queue[p] = Queue[q] /\ Queue[p] # Meta => p = q
    /\ \A k \in Parsed : file.lines[k].ord < writer.next => file.lines[k].item \notin Waiting
    /\ Waiting \subseteq submitted
    /\ submitted \subseteq Readable \cup Waiting

(* What an operation that returned Ok covered is in the file.              *)
AckedIsReadable == acked \subseteq Readable

Records ==
    /\ Ordinals
    /\ proc = "open" => NextOrdinal /\ QueuedOnce
    /\ AckedIsReadable

(***************************************************************************)
(* A checkpoint of the projection: the complete lines up to an offset, in  *)
(* which no record repeats, and the items of their records by ordinal.     *)
(***************************************************************************)
Projects(off, ord, rows) ==
    LET l == file.lines IN
    /\ off <= Complete /\ Len(rows) = ord
    /\ \A k \in Parsed : k <= off => l[k].ord < ord /\ rows[l[k].ord + 1] = l[k].item
    /\ \A n \in Nat : n < ord => \E k \in Parsed : k <= off /\ l[k].ord = n
    /\ \A j, k \in Parsed : j < k /\ k <= off => l[j].ord # l[k].ord

ProjInv ==
    /\ Projects(proj.off, proj.ord, proj.rows)
    /\ client.pc = "apply" =>
         /\ client.plan \in Plan
         /\ client.plan.start = proj.off
         /\ Projects(client.plan.off, client.plan.ord, proj.rows \o client.plan.rows)

LogInv == Types /\ Handle /\ Dropped /\ Protocol /\ Records /\ ProjInv

-----------------------------------------------------------------------------
(* Sequences: an element appended to the second of two parts is appended   *)
(* to the whole; the first leaves the whole when it leaves the first part; *)
(* and one may pass from the front of the second to the end of the first.  *)
LEMMA ConcatAppend ==
  ASSUME NEW S, NEW a \in Seq(S), NEW b \in Seq(S), NEW x \in S
  PROVE  a \o Append(b, x) = Append(a \o b, x)
  <1>1. Append(b, x) \in Seq(S) /\ a \o b \in Seq(S)
    OBVIOUS
  <1> DEFINE s == a \o Append(b, x)
             t == Append(a \o b, x)
  <1>2. s \in Seq(S) /\ t \in Seq(S) /\ Len(s) = Len(a) + Len(b) + 1 /\ Len(t) = Len(s)
    BY <1>1
  <1>3. \A i \in 1..Len(s) : s[i] = t[i]
    BY <1>1, <1>2
  <1> HIDE DEF s, t
  <1>4. s = t
    BY <1>2, <1>3, SeqEqual
  <1> QED BY <1>4 DEF s, t

LEMMA ConcatTail ==
  ASSUME NEW S, NEW a \in Seq(S), NEW b \in Seq(S), a # <<>>
  PROVE  Tail(a) \o b = Tail(a \o b) /\ Head(a) = (a \o b)[1] /\ a \o b # <<>>
  <1>1. /\ Tail(a) \in Seq(S) /\ Len(Tail(a)) = Len(a) - 1 /\ Len(a) > 0 /\ Len(a) \in Nat
        /\ Len(b) \in Nat /\ Head(a) = a[1]
        /\ \A i \in 1..Len(Tail(a)) : Tail(a)[i] = a[i + 1]
    BY HeadTailProperties, EmptySeq, LenProperties
  <1>2. /\ a \o b \in Seq(S) /\ Len(a \o b) = Len(a) + Len(b) /\ a \o b # <<>>
        /\ \A i \in 1..Len(a) + Len(b) : (a \o b)[i] =
                     IF i <= Len(a) THEN a[i] ELSE b[i - Len(a)]
    <2>1. /\ a \o b \in Seq(S) /\ Len(a \o b) = Len(a) + Len(b)
          /\ \A i \in 1..Len(a) + Len(b) : (a \o b)[i] =
                     IF i <= Len(a) THEN a[i] ELSE b[i - Len(a)]
      BY ConcatProperties
    <2>2. a \o b # <<>>
      BY <2>1, <1>1, EmptySeq
    <2> QED BY <2>1, <2>2
  <1> DEFINE s == Tail(a) \o b
             t == Tail(a \o b)
  <1>3. /\ s \in Seq(S) /\ Len(s) = Len(a) - 1 + Len(b)
        /\ \A i \in 1..(Len(a) - 1) + Len(b) : s[i] =
                     IF i <= Len(a) - 1 THEN Tail(a)[i] ELSE b[i - (Len(a) - 1)]
    BY <1>1, ConcatProperties
  <1>4. /\ t \in Seq(S) /\ Len(t) = Len(a) + Len(b) - 1
        /\ \A i \in 1..Len(t) : t[i] = (a \o b)[i + 1]
    BY <1>2, HeadTailProperties
  <1> HIDE DEF s, t
  <1>5. \A i \in 1..Len(s) : s[i] = t[i]
    <2> TAKE i \in 1..Len(s)
    <2>1. i \in Nat /\ i + 1 \in 1..Len(a) + Len(b) /\ i \in 1..Len(t) /\ i \in 1..(Len(a) - 1) + Len(b)
      BY <1>1, <1>3, <1>4
    <2>2. t[i] = IF i + 1 <= Len(a) THEN a[i + 1] ELSE b[i + 1 - Len(a)]
      <3>1. t[i] = (a \o b)[i + 1]
        BY <2>1, <1>4
      <3> QED BY <3>1, <2>1, <1>2
    <2>3. CASE i <= Len(a) - 1
      BY <2>1, <2>2, <2>3, <1>1, <1>3
    <2>4. CASE ~(i <= Len(a) - 1)
      <3>1. i + 1 - Len(a) = i - (Len(a) - 1) /\ ~(i + 1 <= Len(a))
        BY <2>1, <2>4, <1>1
      <3> QED BY <3>1, <2>1, <2>2, <2>4, <1>3
    <2> QED BY <2>3, <2>4
  <1>6. s = t
    BY <1>1, <1>3, <1>4, <1>5, SeqEqual
  <1>7. (a \o b)[1] = a[1]
    BY <1>1, <1>2
  <1> QED BY <1>1, <1>2, <1>6, <1>7 DEF s, t
-----------------------------------------------------------------------------
(* A line read back from the file it was appended to.                      *)
LEMMA AppendLine ==
  ASSUME Types, NEW x \in Line, file'.lines = Append(file.lines, x)
  PROVE  LET n == Len(file.lines) + 1 IN
         /\ n \in Nat /\ n > 0
         /\ DOMAIN file'.lines = 1..n
         /\ file'.lines[n] = x
         /\ \A k \in Parsed : k \in Nat /\ k < n /\ file'.lines[k] = file.lines[k]
         /\ Parsed' = IF x.ok THEN Parsed \cup {n} ELSE Parsed
  <1> DEFINE n == Len(file.lines) + 1
  <1>1. file.lines \in Seq(Line)
    BY DEF Types, File
  <1>2. n \in Nat /\ n > 0 /\ DOMAIN file.lines = 1..Len(file.lines)
    BY <1>1
  <1>3. /\ file'.lines \in Seq(Line) /\ Len(file'.lines) = n
        /\ DOMAIN file'.lines = 1..n
        /\ file'.lines[n] = x
        /\ \A k \in 1..Len(file.lines) : file'.lines[k] = file.lines[k]
    BY <1>1
  <1>4. \A k \in Parsed : k \in 1..Len(file.lines)
    BY <1>2 DEF Parsed
  <1>5. Parsed' = IF x.ok THEN Parsed \cup {n} ELSE Parsed
    BY <1>2, <1>3 DEF Parsed
  <1> QED BY <1>2, <1>3, <1>4, <1>5

(* The positions of the lines that parse, and what is there.               *)
LEMMA ParsedType ==
  ASSUME Types
  PROVE  /\ file.lines \in Seq(Line)
         /\ \A k \in Parsed : /\ k \in 1..Len(file.lines) /\ k \in Nat
                              /\ file.lines[k] \in Line
                              /\ file.lines[k].ord \in Nat
                              /\ file.lines[k].item \in Items \cup {Meta}
                              /\ file.lines[k].ok
  <1>1. file.lines \in Seq(Line)
    BY DEF Types, File
  <1>2. \A k \in Parsed : k \in 1..Len(file.lines) /\ k \in Nat /\ file.lines[k] \in Line /\ file.lines[k].ok
    BY <1>1 DEF Parsed
  <1> QED BY <1>1, <1>2 DEF Line
(* Every set of natural numbers that has an element has a least one.       *)
LEMMA Least ==
  ASSUME NEW S, S \subseteq Nat, S # {}
  PROVE  \E m \in S : \A k \in S : m <= k
  <1>1. PICK m \in S : \A k \in S : <<k, m>> \notin OpToRel(<, Nat)
    BY NatLessThanWellFounded, WFMin
  <1>2. \A k \in S : ~(k < m)
    BY <1>1 DEF OpToRel
  <1> QED BY <1>2

StartAt(off, ord) ==
    [off |-> off, ord |-> ord, rows |-> <<>>, rejected |-> 0, err |-> FALSE]

(* g is the scan of the lines after `off` up to n.                         *)
Scan(g, off, ord, n) ==
    g = [i \in off..n |-> IF i = off THEN StartAt(off, ord) ELSE ReadLine(g[i - 1], i)]

LEMMA ScanExists ==
  ASSUME NEW off \in Nat, NEW ord, NEW n \in Nat, off <= n
  PROVE  \E g : Scan(g, off, ord, n)
  <1> DEFINE Bad == {m \in Nat : off <= m /\ ~\E g : Scan(g, off, ord, m)}
  <1>1. SUFFICES ASSUME Bad # {} PROVE FALSE
    OBVIOUS
  <1>2. PICK m \in Bad : \A k \in Bad : m <= k
    BY <1>1, Least
  <1>3. m # off
    <2>1. Scan([i \in off..off |-> StartAt(off, ord)], off, ord, off)
      BY DEF Scan
    <2> QED BY <1>2, <2>1
  <1>4. m - 1 \in Nat /\ off <= m - 1 /\ m - 1 \notin Bad
    BY <1>2, <1>3
  <1>5. PICK g : Scan(g, off, ord, m - 1)
    BY <1>4
  <1> DEFINE h == [i \in off..m |-> IF i = m THEN ReadLine(g[m - 1], m) ELSE g[i]]
  <1>6. \A i \in off..m : h[i] = IF i = off THEN StartAt(off, ord) ELSE ReadLine(h[i - 1], i)
    <2> TAKE i \in off..m
    <2>1. CASE i = m
      BY <2>1, <1>4
    <2>2. CASE i # m
      <3>1. i \in off..(m - 1) /\ (i # off => i - 1 \in off..(m - 1) /\ i - 1 # m)
        BY <2>2, <1>4
      <3>2. g[i] = IF i = off THEN StartAt(off, ord) ELSE ReadLine(g[i - 1], i)
        BY <3>1, <1>5 DEF Scan
      <3>3. h[i] = g[i] /\ (i # off => h[i - 1] = g[i - 1])
        BY <3>1, <2>2
      <3> QED BY <3>1, <3>2, <3>3
    <2> QED BY <2>1, <2>2
  <1>7. Scan(h, off, ord, m)
    BY <1>6 DEF Scan
  <1> QED BY <1>2, <1>7

LEMMA StepsScan ==
  ASSUME NEW off \in Nat, NEW ord, Complete \in Nat, off <= Complete
  PROVE  \E g : Scan(g, off, ord, Complete) /\ Steps(off, ord) = g[Complete]
  <1> DEFINE f == CHOOSE g : Scan(g, off, ord, Complete)
  <1>1. Scan(f, off, ord, Complete)
    BY ScanExists
  <1>2. Steps(off, ord) = f[Complete]
    BY DEF Steps, Scan, StartAt
  <1> QED BY <1>1, <1>2

ScanState == [off : Nat, ord : Nat, rows : Seq(Items \cup {Meta}), rejected : Nat,
              err : BOOLEAN]

(* What the scan knows after line i: the checkpoint it has reached, with   *)
(* no record since; or that a record repeats.                              *)
Scanned(s, i) ==
    /\ s \in ScanState
    /\ s.err => Repeats
    /\ ~s.err => /\ s.off <= i
                 /\ \A k \in Parsed : s.off < k => i < k
                 /\ Projects(s.off, s.ord, proj.rows \o s.rows)

(* The complete lines are those of the file, without one that has no       *)
(* newline yet.                                                            *)
LEMMA CompleteType ==
  ASSUME Types, Handle
  PROVE  Complete \in Nat /\ Complete <= Len(file.lines)
  <1>1. file.lines \in Seq(Line) /\ (file.cut => file.lines # <<>>)
    BY DEF Types, File, Handle
  <1>2. CASE file.cut
    <2>1. Complete = Len(file.lines) - 1
      BY <1>2 DEF Complete
    <2> QED BY <1>1, <1>2, <2>1
  <1>3. CASE ~file.cut
    <2>1. Complete = Len(file.lines) - 0
      BY <1>3 DEF Complete
    <2> QED BY <1>1, <2>1
  <1> QED BY <1>2, <1>3

(* One line of the scan.                                                   *)
LEMMA ScanLine ==
  ASSUME Types, Handle, Ordinals, NEW n \in Nat, n - 1 \in Nat, n <= Complete,
         NEW s, Scanned(s, n - 1)
  PROVE  Scanned(ReadLine(s, n), n)
  <1> DEFINE l == file.lines
  <1>0. /\ l \in Seq(Line) /\ Complete \in Nat /\ Complete <= Len(l)
        /\ n \in 1..Len(l) /\ l[n] \in Line /\ proj.rows \in Seq(Items \cup {Meta})
    <2>1. l \in Seq(Line) /\ Len(l) \in Nat /\ proj.rows \in Seq(Items \cup {Meta})
      BY DEF Types, File, Checkpoint
    <2>2. Complete \in Nat /\ Complete <= Len(l)
      BY CompleteType
    <2> QED BY <2>1, <2>2
  <1>1. /\ l[n].ord \in Nat /\ l[n].item \in Items \cup {Meta} /\ l[n].ok \in BOOLEAN
    BY <1>0 DEF Line
  <1>2. n \in Parsed <=> l[n].ok
    BY <1>0 DEF Parsed
  <1>3. \A k \in Parsed : k \in Nat /\ l[k].ord \in Nat
    BY ParsedType
  <1>4. s \in ScanState /\ s.off \in Nat /\ s.ord \in Nat /\ s.rejected \in Nat
        /\ s.rows \in Seq(Items \cup {Meta})
    BY DEF Scanned, ScanState
  <1>5. CASE s.err
    <2>1. ReadLine(s, n) = s
      BY <1>5 DEF ReadLine
    <2> QED BY <2>1, <1>5 DEF Scanned
  <1>6. CASE ~s.err /\ ~l[n].ok
    <2> DEFINE t == [s EXCEPT !.rejected = @ + 1]
    <2>1. ReadLine(s, n) = t
      BY <1>6 DEF ReadLine
    <2>2. /\ t \in ScanState /\ ~t.err /\ t.off = s.off /\ t.ord = s.ord /\ t.rows = s.rows
      BY <1>4, <1>6 DEF ScanState
    <2>3. \A k \in Parsed : t.off < k => n < k
      BY <2>2, <1>2, <1>3, <1>6 DEF Scanned
    <2>4. Scanned(t, n)
      BY <2>2, <2>3, <1>4, <1>6 DEF Scanned
    <2> QED BY <2>1, <2>4
  <1>7. CASE ~s.err /\ l[n].ok
    <2>1. /\ \A k \in Parsed : s.off < k => n - 1 < k
          /\ \A k \in Parsed : k <= s.off => l[k].ord < s.ord
          /\ s.off <= n - 1
      BY <1>7 DEF Scanned, Projects
    <2>6. /\ \A k \in Parsed : k <= s.off => (proj.rows \o s.rows)[l[k].ord + 1] = l[k].item
          /\ Len(proj.rows \o s.rows) = s.ord
      BY <1>7 DEF Scanned, Projects
    <2>7. /\ \A m \in Nat : m < s.ord => \E k \in Parsed : k <= s.off /\ l[k].ord = m
          /\ \A j, k \in Parsed : j < k /\ k <= s.off => l[j].ord # l[k].ord
      BY <1>7 DEF Scanned, Projects
    <2>2. n \in Parsed
      BY <1>2, <1>7
    <2>3. l[n].ord <= s.ord
      <3>1. SUFFICES ASSUME s.ord < l[n].ord PROVE FALSE
        BY <1>1, <1>4
      <3>2. PICK j \in Parsed : j < n /\ l[j].ord = s.ord
        BY <3>1, <2>2, <1>4 DEF Ordinals
      <3> QED BY <3>2, <2>1, <1>3, <1>4
    <2>4. CASE l[n].ord < s.ord
      <3>1. PICK k \in Parsed : k <= s.off /\ l[k].ord = l[n].ord
        BY <2>4, <2>7, <1>1
      <3>2. k < n /\ l[k].item = l[n].item
        <4>1. k < n
          BY <3>1, <2>1, <1>3, <1>4
        <4>2. l[k].item = l[n].item
          BY <3>1, <2>2 DEF Ordinals
        <4> QED BY <4>1, <4>2
      <3>3. n \notin Fresh
        BY <3>1, <3>2 DEF Fresh
      <3>4. Repeats
        BY <3>3, <2>2 DEF Repeats
      <3> DEFINE t == [s EXCEPT !.err = TRUE]
      <3>5. ReadLine(s, n) = t
        BY <1>7, <2>4 DEF ReadLine
      <3>6. t \in ScanState /\ t.err
        BY <1>4 DEF ScanState
      <3> QED BY <3>4, <3>5, <3>6 DEF Scanned
    <2>5. CASE l[n].ord = s.ord
      <3> DEFINE r == proj.rows \o s.rows
                 t == [off |-> n, ord |-> l[n].ord + 1, rejected |-> 0, err |-> FALSE,
                       rows |-> Append(s.rows, l[n].item)]
                 u == proj.rows \o t.rows
      <3>1. ReadLine(s, n) = t
        BY <1>7, <2>5, <1>1, <1>4 DEF ReadLine
      <3>2. t \in ScanState /\ ~t.err /\ t.off = n /\ t.ord = s.ord + 1
        BY <1>1, <1>4, <2>5 DEF ScanState
      <3>3. /\ Len(u) = s.ord + 1
            /\ u[s.ord + 1] = l[n].item
            /\ \A m \in Nat : m < s.ord => u[m + 1] = r[m + 1]
        <4>1. t.rows = Append(s.rows, l[n].item)
          OBVIOUS
        <4> HIDE DEF t
        <4>2. r \in Seq(Items \cup {Meta}) /\ Len(r) = s.ord
          BY <1>0, <1>4, <2>6
        <4>3. u = Append(r, l[n].item)
          <5>1. /\ proj.rows \in Seq(Items \cup {Meta}) /\ s.rows \in Seq(Items \cup {Meta})
                /\ l[n].item \in Items \cup {Meta}
            BY <1>0, <1>1, <1>4
          <5>2. proj.rows \o Append(s.rows, l[n].item) = Append(proj.rows \o s.rows, l[n].item)
            <6> DEFINE T == Items \cup {Meta}
            <6> HIDE DEF T
            <6>1. \A a, b \in Seq(T) : \A x \in T : a \o Append(b, x) = Append(a \o b, x)
              BY ConcatAppend
            <6> QED BY <5>1, <6>1, Zenon DEF T
          <5> QED BY <5>2, <4>1
        <4> HIDE DEF r, u
        <4> QED BY <4>2, <4>3, <1>1, <1>4
      <3>4. \A k \in Parsed : k <= n => k = n \/ k <= s.off
        BY <2>1, <1>3, <1>4
      <3> HIDE DEF t, u, r
      <3>5. \A k \in Parsed : k <= n => l[k].ord < s.ord + 1 /\ u[l[k].ord + 1] = l[k].item
        <4> TAKE k \in Parsed
        <4> HAVE k <= n
        <4>1. CASE k = n
          BY <4>1, <3>3, <2>5, <1>4
        <4>2. CASE k <= s.off
          <5>1. l[k].ord < s.ord /\ r[l[k].ord + 1] = l[k].item
            BY <4>2, <2>1, <2>6 DEF r
          <5>2. l[k].ord \in Nat /\ s.ord \in Nat
            BY <1>3, <1>4
          <5>3. u[l[k].ord + 1] = r[l[k].ord + 1]
            BY <5>1, <5>2, <3>3
          <5> QED BY <5>1, <5>2, <5>3
        <4> QED BY <4>1, <4>2, <3>4
      <3>6. \A m \in Nat : m < s.ord + 1 => \E k \in Parsed : k <= n /\ l[k].ord = m
        <4> TAKE m \in Nat
        <4> HAVE m < s.ord + 1
        <4>1. CASE m = s.ord
          BY <4>1, <2>2, <2>5
        <4>2. CASE m < s.ord
          BY <4>2, <2>7, <2>1, <1>3, <1>4
        <4> QED BY <4>1, <4>2, <1>4
      <3>7. \A j, k \in Parsed : j < k /\ k <= n => l[j].ord # l[k].ord
        <4> TAKE j, k \in Parsed
        <4> HAVE j < k /\ k <= n
        <4>1. CASE k = n
          <5>1. j <= s.off
            BY <4>1, <3>4, <1>3
          <5>2. l[j].ord < s.ord
            BY <5>1, <2>1
          <5> QED BY <5>2, <4>1, <2>5, <1>3, <1>4
        <4>2. CASE k <= s.off
          BY <4>2, <2>7
        <4> QED BY <4>1, <4>2, <3>4
      <3>8. Projects(n, s.ord + 1, u)
        BY <3>3, <3>5, <3>6, <3>7 DEF Projects
      <3>9. \A k \in Parsed : n < k => n < k
        OBVIOUS
      <3>10. Scanned(t, n)
        BY <3>2, <3>8, <3>9 DEF Scanned, u
      <3> QED BY <3>1, <3>10
    <2> QED BY <2>3, <2>4, <2>5, <1>1, <1>4
  <1> QED BY <1>1, <1>5, <1>6, <1>7

(***************************************************************************)
(* The steps read from a checkpoint lead to a checkpoint; they fail only   *)
(* at a record that repeats.                                               *)
(***************************************************************************)
LEMMA StepsProject ==
  ASSUME Types, Handle, Ordinals, Projects(proj.off, proj.ord, proj.rows)
  PROVE  Scanned(Steps(proj.off, proj.ord), Complete)
  <1>0. /\ proj \in Checkpoint /\ proj.off \in Nat /\ proj.ord \in Nat
        /\ proj.rows \in Seq(Items \cup {Meta}) /\ proj.off <= Complete
        /\ Complete \in Nat
    <2>1. proj \in Checkpoint
      BY DEF Types, File
    <2>2. proj.off <= Complete
      BY DEF Projects
    <2> QED BY <2>1, <2>2, CompleteType DEF Checkpoint
  <1> DEFINE off == proj.off
             s0 == StartAt(proj.off, proj.ord)
  <1>1. PICK g : Scan(g, off, proj.ord, Complete) /\ Steps(off, proj.ord) = g[Complete]
    BY <1>0, StepsScan
  <1>2. /\ g[off] = s0
        /\ \A i \in off..Complete : i # off => g[i] = ReadLine(g[i - 1], i)
    BY <1>0, <1>1 DEF Scan
  <1>3. Scanned(s0, off)
    <2>1. /\ s0 \in ScanState /\ ~s0.err /\ s0.off = off /\ s0.ord = proj.ord
          /\ s0.rows = <<>>
      BY <1>0 DEF ScanState, StartAt
    <2>2. proj.rows \o s0.rows = proj.rows
      BY <2>1, <1>0
    <2>3. off <= off /\ \A k \in Parsed : off < k => off < k
      BY <1>0
    <2> HIDE DEF s0
    <2> QED BY <2>1, <2>2, <2>3 DEF Scanned
  <1> DEFINE Bad == {i \in Nat : i \in off..Complete /\ ~Scanned(g[i], i)}
  <1>4. Bad = {}
    <2>1. SUFFICES ASSUME Bad # {} PROVE FALSE
      OBVIOUS
    <2>2. PICK n \in Bad : \A k \in Bad : n <= k
      BY <2>1, Least
    <2>3. n # off
      BY <2>2, <1>2, <1>3
    <2>4. n - 1 \in Nat /\ n - 1 \in off..Complete /\ n <= Complete /\ n - 1 \notin Bad
      BY <2>2, <2>3, <1>0
    <2>5. Scanned(g[n - 1], n - 1)
      BY <2>4
    <2>6. Scanned(ReadLine(g[n - 1], n), n)
      BY <2>2, <2>4, <2>5, ScanLine
    <2>7. g[n] = ReadLine(g[n - 1], n)
      BY <2>2, <2>3, <1>2
    <2> QED BY <2>2, <2>6, <2>7
  <1>5. Complete \in off..Complete /\ Complete \notin Bad
    BY <1>0, <1>4
  <1>6. Scanned(g[Complete], Complete)
    BY <1>0, <1>5
  <1> QED BY <1>1, <1>6
-----------------------------------------------------------------------------
(* Records that a step changes in a field or two keep their types.         *)
LEMMA NewLine ==
  ASSUME Types, NEW item \in Items \cup {Meta}, NEW ok \in BOOLEAN
  PROVE  /\ Appended(item, ok) \in Seq(Line)
         /\ [item |-> item, ord |-> writer.next, ok |-> ok] \in Line
  <1>1. writer.next \in Nat /\ file.lines \in Seq(Line)
    BY DEF Types, Writer, File
  <1>2. [item |-> item, ord |-> writer.next, ok |-> ok] \in Line
    BY <1>1 DEF Line
  <1> QED BY <1>1, <1>2 DEF Appended

LEMMA HeadPending ==
  ASSUME Types, pending # <<>>
  PROVE  /\ Head(pending) \in Items /\ Tail(pending) \in Seq(Items)
         /\ Head(pending) = pending[1] /\ 1 \in DOMAIN pending
  <1>1. pending \in Seq(Items)
    BY DEF Types
  <1> QED BY <1>1

LEMMA RecoverTypes ==
  ASSUME Types, Recover
  PROVE  writer' \in Writer /\ pending' \in Seq(Items)
  <1>1. writer \in Writer /\ pending \in Seq(Items)
    BY DEF Types
  <1>2. (IF writer.attempt = 1 THEN "open" ELSE "failed") \in
        {"recv", "open", "meta", "items", "done", "failed", "stopped"}
    OBVIOUS
  <1> QED BY <1>1, <1>2 DEF Recover, Writer

LEMMA LeaveTypes ==
  ASSUME Types, Leave
  PROVE  /\ writer' \in Writer /\ client' \in Client
         /\ proc' \in {"open", "closed", "lost"} /\ submitted' \subseteq Items
  <1>1. /\ writer \in Writer /\ client \in Client
        /\ proc \in {"open", "closed", "lost"} /\ submitted \subseteq Items
    BY DEF Types
  <1>2. IdleClient \in Client
    BY DEF IdleClient, Client
  <1>3. StoppedWriter \in Writer
    BY DEF StoppedWriter, CreatedWriter, Writer, Barriers
  <1> QED BY <1>1, <1>2, <1>3 DEF Leave

LEMMA DropTypes ==
  ASSUME DropRecorder
  PROVE  /\ writer' \in Writer /\ client' \in Client
         /\ pending' \in Seq(Items) /\ chan' = <<>> /\ chan' \in Seq(Cmd)
         /\ proc' \in {"open", "closed", "lost"} /\ submitted' \subseteq Items
  <1>2. IdleClient \in Client
    BY DEF IdleClient, Client
  <1>3. StoppedWriter \in Writer
    BY DEF StoppedWriter, CreatedWriter, Writer, Barriers
  <1> QED BY <1>2, <1>3 DEF DropRecorder

LEMMA SendTypes ==
  ASSUME Types, NEW cmd \in Cmd, Send(cmd)
  PROVE  chan' \in Seq(Cmd) /\ Len(chan') <= MaxQueue
  <1>1. chan \in Seq(Cmd) /\ Len(chan) < MaxQueue /\ chan' = Append(chan, cmd)
    BY DEF Types, Send
  <1> QED BY <1>1, BoundsAssumption

(* The first command leaves the channel.                                   *)
LEMMA HeadChan ==
  ASSUME Types, chan # <<>>
  PROVE  /\ Head(chan) \in Cmd /\ Head(chan) = chan[1]
         /\ Tail(chan) \in Seq(Cmd) /\ Len(Tail(chan)) = Len(chan) - 1
         /\ Len(chan) \in Nat /\ Len(chan) > 0
         /\ DOMAIN chan = 1..Len(chan)
         /\ DOMAIN Tail(chan) = 1..(Len(chan) - 1)
         /\ \A k \in DOMAIN Tail(chan) : Tail(chan)[k] = chan[k + 1]
  <1>1. chan \in Seq(Cmd)
    BY DEF Types
  <1> QED BY <1>1

(* A cancelled operation waits for none of the commands it sent.           *)
LEMMA CancelChan ==
  ASSUME Types, chan' = [k \in DOMAIN chan |-> [chan[k] EXCEPT !.ack = FALSE]]
  PROVE  /\ chan' \in Seq(Cmd) /\ Len(chan') = Len(chan) /\ DOMAIN chan' = DOMAIN chan
         /\ \A k \in DOMAIN chan : /\ ~chan'[k].ack /\ chan'[k].kind = chan[k].kind
                                   /\ chan'[k].item = chan[k].item
  <1>1. chan \in Seq(Cmd) /\ Len(chan) \in Nat /\ DOMAIN chan = 1..Len(chan)
    BY DEF Types
  <1>2. \A k \in DOMAIN chan : chan[k] \in Cmd
    BY <1>1
  <1>3. \A k \in DOMAIN chan :
          /\ chan'[k] \in Cmd /\ ~chan'[k].ack /\ chan'[k].kind = chan[k].kind
          /\ chan'[k].item = chan[k].item
    BY <1>2 DEF Cmd
  <1>4. chan' \in [1..Len(chan) -> Cmd]
    BY <1>1, <1>3
  <1>5. chan' \in Seq(Cmd) /\ Len(chan') = Len(chan) /\ DOMAIN chan' = DOMAIN chan
    BY <1>1, <1>4
  <1> QED BY <1>3, <1>5

-----------------------------------------------------------------------------
(* Steps of the caller, and of the recorder's life.                        *)
CallStep ==
    \/ \E i \in Items : Record(i)
    \/ \E op \in Barriers : Begin(op)
    \/ SendBarrier \/ Cancel

ProjectStep == ReadSteps \/ ReadNothing \/ ApplyProjection \/ ApplyFails

LifeStep == Crash \/ Discard \/ Resume

LEMMA NextSteps == Next => CallStep \/ WriterStep \/ ProjectStep \/ LifeStep
  BY DEF Next, CallStep, WriterStep, ProjectStep, LifeStep

(* Every action keeps the types.                                           *)
LEMMA InitTypes == Init => Types
  <1> SUFFICES ASSUME Init PROVE Types
    OBVIOUS
  <1>1. file \in File
    BY DEF Init, File
  <1>2. writer \in Writer
    BY DEF Init, Writer, CreatedWriter, Barriers
  <1>3. client \in Client
    BY DEF Init, Client, IdleClient
  <1>4. proj \in Checkpoint
    BY DEF Init, Checkpoint
  <1> QED BY <1>1, <1>2, <1>3, <1>4, BoundsAssumption DEF Init, Types

LEMMA ClientTypes ==
  ASSUME Types, Protocol, CallStep
  PROVE  Types'
  <1>0. client \in Client /\ writer \in Writer /\ chan \in Seq(Cmd)
    BY DEF Types
  <1>1. ASSUME NEW i \in Items, Record(i) PROVE Types'
    <2>1. [kind |-> "add", item |-> i, ack |-> FALSE] \in Cmd
      BY DEF Cmd
    <2>2. chan' \in Seq(Cmd) /\ Len(chan') <= MaxQueue
      BY <1>1, <2>1, SendTypes DEF Record
    <2>3. client' \in Client
      BY <1>0, <1>1 DEF Record, Client, Barriers
    <2> QED BY <1>1, <2>2, <2>3 DEF Record, Types, diskVars
  <1>2. ASSUME NEW op \in Barriers, Begin(op) PROVE Types'
    <2>3. client' \in Client
      BY <1>0, <1>2 DEF Begin, Client
    <2> QED BY <1>2, <2>3 DEF Begin, Types, diskVars
  <1>3. CASE SendBarrier
    <2>1. client.op \in Barriers
      BY <1>0, <1>3 DEF Client, Protocol, Calling, SendBarrier
    <2>2. [kind |-> client.op, item |-> Meta, ack |-> TRUE] \in Cmd
      BY <2>1 DEF Cmd
    <2>3. chan' \in Seq(Cmd) /\ Len(chan') <= MaxQueue
      BY <1>3, <2>2, SendTypes DEF SendBarrier
    <2>4. client' \in Client
      BY <1>0, <1>3 DEF SendBarrier, Client
    <2> QED BY <1>3, <2>3, <2>4 DEF SendBarrier, Types, diskVars
  <1>4. CASE Cancel
    <2>1. client' \in Client
      BY <1>4 DEF Cancel, IdleClient, Client
    <2>2. writer' \in Writer
      BY <1>0, <1>4 DEF Cancel, Writer
    <2>3. chan' \in Seq(Cmd) /\ Len(chan') = Len(chan)
      BY <1>4, CancelChan DEF Cancel
    <2>4. losses' \in 0..MaxLosses
      BY <1>4, BoundsAssumption DEF Cancel, Types
    <2> QED BY <1>4, <2>1, <2>2, <2>3, <2>4 DEF Cancel, Types, diskVars
  <1> QED BY <1>1, <1>2, <1>3, <1>4 DEF CallStep

LEMMA WriterTypes ==
  ASSUME Types, Protocol, WriterStep
  PROVE  Types'
  <1>0. /\ client \in Client /\ writer \in Writer /\ chan \in Seq(Cmd) /\ file \in File
        /\ pending \in Seq(Items)
    BY DEF Types
  <1>1. CASE Receive
    <2>1. chan # <<>> /\ Head(chan) \in Cmd /\ Head(chan).kind \in {"add"} \cup Barriers
          /\ Head(chan).ack \in BOOLEAN /\ Head(chan).item \in Items \cup {Meta}
      BY <1>1, HeadChan DEF Receive, Cmd
    <2>2. chan' \in Seq(Cmd) /\ Len(chan') <= MaxQueue
      <3>1. chan' = Tail(chan) /\ Len(chan) <= MaxQueue /\ MaxQueue \in Nat
        BY <1>1, BoundsAssumption DEF Receive, Types
      <3> QED BY <3>1, <2>1, HeadChan
    <2>3. pending' \in Seq(Items)
      <3>1. Head(chan).kind = "add" => Head(chan).item \in Items
        <4>1. 1 \in DOMAIN chan /\ Head(chan) = chan[1]
          BY <2>1, HeadChan
        <4> QED BY <4>1, <2>1 DEF Protocol, Channel
      <3> QED BY <1>0, <1>1, <3>1 DEF Receive
    <2>4. writer' \in Writer
      BY <1>0, <1>1, <2>1 DEF Receive, Writer, Barriers
    <2> QED BY <1>1, <2>2, <2>3, <2>4 DEF Receive, Types, diskVars
  <1>2. CASE OpenFile
    <2>1. writer' \in Writer
      BY <1>0, <1>2 DEF OpenFile, Writer
    <2>2. file' \in File
      BY <1>0, <1>2 DEF OpenFile, File, Terminated
    <2> QED BY <1>2, <2>1, <2>2 DEF OpenFile, Types
  <1>3. CASE WriteMeta
    <2>1. writer' \in Writer
      <3>1. Advanced \in Nat
        BY <1>0 DEF Advanced, Writer
      <3>2. CASE writer.meta
        <4>1. writer' = [writer EXCEPT !.meta = FALSE, !.pc = "items", !.next = Advanced]
          BY <1>3, <3>2 DEF WriteMeta
        <4> QED BY <1>0, <3>1, <4>1 DEF Writer
      <3>3. CASE ~writer.meta
        BY <1>0, <1>3, <3>3 DEF WriteMeta, Writer
      <3> QED BY <3>2, <3>3
    <2>2. Appended(Meta, TRUE) \in Seq(Line)
      BY NewLine
    <2>3. file' = file \/ file' = [file EXCEPT !.lines = Appended(Meta, TRUE)]
      BY <1>3 DEF WriteMeta
    <2> DEFINE ls == Appended(Meta, TRUE)
    <2>4. file' \in File
      <3> HIDE DEF ls
      <3>1. [file EXCEPT !.lines = ls] \in File
        BY <1>0, <2>2 DEF File, ls
      <3> QED BY <1>0, <2>3, <3>1 DEF ls
    <2> QED BY <1>3, <2>1, <2>4 DEF WriteMeta, Types
  <1>4. CASE WriteItem
    <2>1. writer' \in Writer
      <3>1. Advanced \in Nat
        BY <1>0 DEF Advanced, Writer
      <3>2. writer' = [writer EXCEPT !.next = Advanced]
        BY <1>4 DEF WriteItem
      <3> QED BY <1>0, <3>1, <3>2 DEF Writer
    <2>2. pending # <<>> /\ Head(pending) \in Items /\ Tail(pending) \in Seq(Items)
      BY <1>4, HeadPending DEF WriteItem
    <2>3. Appended(Head(pending), TRUE) \in Seq(Line)
      BY <2>2, NewLine
    <2>4. file' \in File
      BY <1>0, <1>4, <2>3 DEF WriteItem, File
    <2> QED BY <1>4, <2>1, <2>2, <2>4 DEF WriteItem, Types
  <1>5. CASE FlushFile
    <2>1. writer' \in Writer
      BY <1>0, <1>5 DEF FlushFile, Writer
    <2> QED BY <1>5, <2>1 DEF FlushFile, Types, diskVars
  <1>6. CASE OpenFails
    <2>1. Recover /\ faults' \in 0..MaxFaults
      BY <1>6, BoundsAssumption DEF OpenFails, Types
    <2>2. file' \in File
      BY <1>0, <1>6 DEF OpenFails, File
    <2>3. writer' \in Writer /\ pending' \in Seq(Items)
      BY <2>1, RecoverTypes
    <2> QED BY <1>6, <2>1, <2>2, <2>3 DEF OpenFails, Types
  <1>7. CASE WriteFails
    <2> DEFINE item == IF writer.pc = "meta" THEN Meta ELSE Head(pending)
    <2>1. Recover /\ faults' \in 0..MaxFaults
      <3>1. Recover /\ faults < MaxFaults /\ faults' = faults + 1
        BY <1>7 DEF WriteFails
      <3>2. faults \in 0..MaxFaults
        BY DEF Types
      <3> QED BY <3>1, <3>2, BoundsAssumption
    <2>2. item \in Items \cup {Meta}
      BY <1>7, HeadPending DEF WriteFails
    <2>3. file' \in File
      <3>1. CASE UNCHANGED file
        BY <3>1, <1>0
      <3>2. ASSUME NEW ok \in BOOLEAN,
                   file' = [file EXCEPT !.cut = TRUE, !.lines = Appended(item, ok)]
            PROVE  file' \in File
        <4>1. Appended(item, ok) \in Seq(Line)
          BY <2>2, NewLine
        <4> HIDE DEF item
        <4> QED BY <1>0, <3>2, <4>1 DEF File
      <3> QED BY <1>7, <3>1, <3>2 DEF WriteFails
    <2>4. writer' \in Writer /\ pending' \in Seq(Items)
      BY <2>1, RecoverTypes
    <2> QED BY <1>7, <2>1, <2>3, <2>4 DEF WriteFails, Types
  <1>8. CASE Finish
    <2>1. writer' \in Writer
      BY <1>0, <1>8 DEF Finish, Writer
    <2>2. client' \in Client
      BY <1>0, <1>8 DEF Finish, Answer, IdleClient, Client
    <2>3. acked' \subseteq Items
      BY <1>8 DEF Finish, Answer, Types
    <2> QED BY <1>8, <2>1, <2>2, <2>3 DEF Finish, Types, diskVars
  <1> QED BY <1>1, <1>2, <1>3, <1>4, <1>5, <1>6, <1>7, <1>8 DEF WriterStep

LEMMA ProjectionTypes ==
  ASSUME Types, Handle, Ordinals, ProjInv,
         ProjectStep
  PROVE  Types'
  <1>0. client \in Client /\ proj \in Checkpoint
    BY DEF Types
  <1>1. CASE ReadSteps
    <2> DEFINE s == Steps(proj.off, proj.ord)
               p == [start |-> proj.off, off |-> s.off, ord |-> s.ord, rows |-> s.rows]
    <2>1. Scanned(s, Complete)
      BY StepsProject DEF ProjInv
    <2>2. s \in ScanState
      BY <2>1 DEF Scanned
    <2> HIDE DEF s
    <2>3. p \in Plan
      BY <1>0, <2>2 DEF Plan, ScanState, Checkpoint
    <2>4. client' = [client EXCEPT !.pc = "apply", !.plan = p]
      BY <1>1 DEF ReadSteps, s
    <2> HIDE DEF p
    <2>5. client' \in Client
      BY <1>0, <2>3, <2>4 DEF Client
    <2> QED BY <1>1, <2>5 DEF ReadSteps, Types, diskVars
  <1>2. CASE ReadNothing
    <2>1. Leave
      BY <1>2 DEF ReadNothing
    <2> QED BY <1>2, <2>1, LeaveTypes DEF ReadNothing, Types, diskVars
  <1>3. CASE ApplyProjection
    <2>1. Leave
      BY <1>3 DEF ApplyProjection
    <2>2. client.plan \in Plan
      BY <1>3 DEF ApplyProjection, ProjInv
    <2>3. proj' \in Checkpoint
      <3>1. /\ proj.rows \in Seq(Items \cup {Meta}) /\ client.plan.rows \in Seq(Items \cup {Meta})
            /\ client.plan.off \in Nat /\ client.plan.ord \in Nat
        BY <1>0, <2>2 DEF Checkpoint, Plan
      <3>2. proj.rows \o client.plan.rows \in Seq(Items \cup {Meta})
        BY <3>1
      <3> QED BY <1>3, <3>1, <3>2 DEF ApplyProjection, Checkpoint
    <2> QED BY <1>3, <2>1, <2>3, LeaveTypes DEF ApplyProjection, Types
  <1>4. CASE ApplyFails
    <2>1. Leave
      BY <1>4 DEF ApplyFails
    <2> QED BY <1>4, <2>1, LeaveTypes DEF ApplyFails, Types, diskVars
  <1> QED BY <1>1, <1>2, <1>3, <1>4 DEF ProjectStep

(* The last of a set of lines that parse.                                  *)
LEMMA LastParsed ==
  ASSUME Types, Parsed # {}
  PROVE  Max(Parsed) \in Parsed /\ \A k \in Parsed : k <= Max(Parsed)
  <1> DEFINE b == Len(file.lines)
             T == {b - k : k \in Parsed}
  <1>0. b \in Nat /\ \A k \in Parsed : k \in Nat /\ k <= b
    BY ParsedType
  <1>1. T \subseteq Nat /\ T # {}
    BY <1>0
  <1>2. PICK m \in T : \A y \in T : m <= y
    BY <1>1, Least
  <1>3. PICK x \in Parsed : m = b - x
    BY <1>2
  <1>4. \A y \in Parsed : x >= y
    <2> TAKE y \in Parsed
    <2>1. b - y \in T
      OBVIOUS
    <2>2. m <= b - y
      BY <1>2, <2>1
    <2> HIDE DEF T, b
    <2> QED BY <1>0, <1>3, <2>2
  <1>5. Max(Parsed) \in Parsed /\ \A y \in Parsed : Max(Parsed) >= y
    BY <1>3, <1>4 DEF Max
  <1> QED BY <1>0, <1>5

LEMMA LifeTypes ==
  ASSUME Types, LifeStep
  PROVE  Types'
  <1>1. CASE Crash
    <2>1. DropRecorder /\ losses' \in 0..MaxLosses
      BY <1>1, BoundsAssumption DEF Crash, Types
    <2> QED BY <1>1, <2>1, DropTypes, BoundsAssumption DEF Crash, Types, diskVars
  <1>2. CASE Discard
    <2>1. DropRecorder
      BY <1>2 DEF Discard
    <2> QED BY <1>2, <2>1, DropTypes, BoundsAssumption DEF Discard, Types, diskVars
  <1>3. CASE Resume
    <2>1. file' \in File
      BY <1>3 DEF Resume, Terminated, Types, File
    <2>2. ResumeOrdinal \in Nat
      <3>1. Parsed # {}
        BY <1>3 DEF Resume, Readable
      <3>2. file.lines[Max(Parsed)].ord \in Nat
        BY <3>1, LastParsed, ParsedType
      <3> QED BY <3>2 DEF ResumeOrdinal
    <2>3. writer' \in Writer /\ proc' \in {"open", "closed", "lost"}
      <3> DEFINE w == [open |-> TRUE, deferred |-> FALSE, meta |-> FALSE,
                       next |-> ResumeOrdinal, pc |-> "recv", attempt |-> 1,
                       kind |-> "none", ack |-> FALSE]
      <3>1. w \in Writer
        BY <2>2 DEF Writer
      <3>2. writer \in Writer /\ proc \in {"open", "closed", "lost"}
        BY DEF Types
      <3>3. (writer' = w /\ proc' = "open") \/ (writer' = writer /\ proc' = proc)
        BY <1>3 DEF Resume
      <3> QED BY <3>1, <3>2, <3>3
    <2> QED BY <1>3, <2>1, <2>3 DEF Resume, Types
  <1> QED BY <1>1, <1>2, <1>3 DEF LifeStep
-----------------------------------------------------------------------------
(* The handle: what each action does to it.                                *)
LEMMA HandleStep ==
  ASSUME Types, Handle, Dropped, Next
  PROVE  Handle'
  <1>0. /\ writer \in Writer /\ file \in File /\ file.lines \in Seq(Line)
        /\ pending \in Seq(Items)
    BY DEF Types, File
  <1> DEFINE H == /\ ~file.exists => file.lines = <<>>
                  /\ file.cut => file.lines # <<>>
                  /\ writer.open => file.exists /\ ~file.cut /\ ~writer.deferred
                  /\ writer.pc \in {"meta", "items"} => writer.open
  <1>h. H
    BY DEF Handle
  <1>s. SUFFICES H'
    BY DEF Handle
  <1>a. \A item, ok : Appended(item, ok) # <<>>
    BY <1>0 DEF Appended
  <1>r. ASSUME Leave, UNCHANGED file PROVE H'
    <2>1. \/ UNCHANGED writer
          \/ writer' = StoppedWriter
      BY <1>r DEF Leave
    <2> QED BY <1>r, <1>h, <2>1 DEF StoppedWriter, CreatedWriter
  <1>1. CASE CallStep
    <2>1. UNCHANGED file
      BY <1>1 DEF CallStep, Record, Begin, SendBarrier, Cancel, diskVars
    <2>2. UNCHANGED writer \/ writer' = [writer EXCEPT !.ack = FALSE]
      BY <1>1 DEF CallStep, Record, Begin, SendBarrier, Cancel
    <2>3. UNCHANGED <<writer.open, writer.pc, writer.deferred>>
      BY <1>0, <2>2 DEF Writer
    <2> QED BY <2>1, <2>3, <1>h
  <1>2. CASE Receive
    <2>1. UNCHANGED <<file, writer.open, writer.deferred>> /\ writer'.pc \notin {"meta", "items"}
      BY <1>0, <1>2 DEF Receive, Writer, diskVars
    <2> QED BY <2>1, <1>h
  <1>3. CASE OpenFile
    <2>1. CASE writer.open
      BY <2>1, <1>0, <1>3, <1>h DEF OpenFile, Writer
    <2>2. CASE ~writer.open
      <3>1. writer'.open /\ ~writer'.deferred
        BY <2>2, <1>0, <1>3 DEF OpenFile, Writer
      <3>2. file'.exists /\ ~file'.cut
        BY <2>2, <1>0, <1>3 DEF OpenFile, Terminated, File
      <3> QED BY <3>1, <3>2
    <2> QED BY <2>1, <2>2
  <1>4. CASE WriteMeta
    <2>1. writer.open /\ UNCHANGED <<writer.open, writer.deferred>>
      BY <1>0, <1>4, <1>h DEF WriteMeta, Writer
    <2>2. UNCHANGED <<file.exists, file.cut>>
      BY <1>0, <1>4 DEF WriteMeta, File
    <2> QED BY <2>1, <2>2, <1>h
  <1>5. CASE WriteItem
    <2>1. writer.open /\ UNCHANGED <<writer.open, writer.deferred>>
      BY <1>0, <1>5, <1>h DEF WriteItem, Writer
    <2>2. UNCHANGED <<file.exists, file.cut>>
      BY <1>0, <1>5 DEF WriteItem, File
    <2> QED BY <2>1, <2>2, <1>h
  <1>6. CASE FlushFile
    <2>1. UNCHANGED <<file, writer.open, writer.deferred>> /\ writer'.pc \notin {"meta", "items"}
      BY <1>0, <1>6 DEF FlushFile, Writer, diskVars
    <2> QED BY <2>1, <1>h
  <1>7. CASE OpenFails
    <2>1. ~writer'.open /\ writer'.pc \notin {"meta", "items"}
      BY <1>0, <1>7 DEF OpenFails, Recover, Writer
    <2>2. (file.exists => file'.exists) /\ UNCHANGED <<file.cut, file.lines>>
      BY <1>0, <1>7 DEF OpenFails, File
    <2> QED BY <2>1, <2>2, <1>h
  <1>8. CASE WriteFails
    <2>1. ~writer'.open /\ writer'.pc \notin {"meta", "items"}
      BY <1>0, <1>8 DEF WriteFails, Recover, Writer
    <2>2. writer.open
      BY <1>8, <1>h DEF WriteFails
    <2>3. \/ UNCHANGED file
          \/ file'.exists = file.exists /\ file'.lines # <<>>
      <3>1. CASE UNCHANGED file
        BY <3>1
      <3>2. ASSUME NEW item, NEW ok, file' = [file EXCEPT !.cut = TRUE, !.lines = Appended(item, ok)]
            PROVE  file'.exists = file.exists /\ file'.lines # <<>>
        <4>1. Appended(item, ok) # <<>>
          BY <1>a
        <4> QED BY <3>2, <4>1, <1>0 DEF File
      <3> QED BY <3>1, <3>2, <1>8 DEF WriteFails
    <2> QED BY <2>1, <2>2, <2>3, <1>h
  <1>9. CASE Finish
    <2>1. UNCHANGED <<file, writer.open, writer.deferred>> /\ writer'.pc \notin {"meta", "items"}
      BY <1>0, <1>9 DEF Finish, Writer, diskVars
    <2> QED BY <2>1, <1>h
  <1>10. CASE ProjectStep
    <2>1. UNCHANGED file /\ (Leave \/ UNCHANGED writer)
      BY <1>10 DEF ProjectStep, ReadSteps, ReadNothing, ApplyProjection, ApplyFails, diskVars
    <2> QED BY <2>1, <1>r, <1>h
  <1>11. CASE Crash \/ Discard
    <2>1. UNCHANGED file /\ writer' = StoppedWriter
      BY <1>11 DEF Crash, Discard, DropRecorder, diskVars
    <2> QED BY <2>1, <1>h DEF StoppedWriter, CreatedWriter
  <1>12. CASE Resume
    <2>1. file'.exists /\ ~file'.cut
      BY <1>0, <1>12 DEF Resume, Terminated, File
    <2>2. writer = StoppedWriter
      BY <1>12 DEF Resume, Dropped
    <2>3. (~writer'.deferred /\ writer'.open) \/ UNCHANGED writer
      BY <1>12 DEF Resume
    <2>4. writer'.pc \notin {"meta", "items"}
      BY <1>12, <2>2 DEF Resume, StoppedWriter, CreatedWriter
    <2>5. ~writer.open
      BY <2>2 DEF StoppedWriter, CreatedWriter
    <2> QED BY <2>1, <2>3, <2>4, <2>5
  <1> QED BY <1>1, <1>2, <1>3, <1>4, <1>5, <1>6, <1>7, <1>8, <1>9, <1>10, <1>11, <1>12, NextSteps
      DEF WriterStep, LifeStep

(* Without a recorder, nothing of it is left.                              *)
LEMMA DroppedStep ==
  ASSUME Types, Dropped, Protocol, Next
  PROVE  Dropped'
  <1> DEFINE D == /\ writer = StoppedWriter /\ client = IdleClient
                  /\ pending = <<>> /\ chan = <<>> /\ submitted = {}
  <1>1. SUFFICES ASSUME proc' # "open" PROVE D'
    BY DEF Dropped
  <1>2. CASE proc # "open"
    <2>1. D
      BY <1>2 DEF Dropped
    <2>2. writer.pc = "stopped" /\ client.pc = "idle"
      BY <2>1 DEF StoppedWriter, CreatedWriter, IdleClient
    <2>3. ~CallStep /\ ~WriterStep /\ ~ProjectStep /\ ~Crash /\ ~Discard
      BY <1>2, <2>2 DEF CallStep, WriterStep, ProjectStep, Record, Begin, SendBarrier, Cancel,
         Receive, OpenFile, WriteMeta, WriteItem, FlushFile, OpenFails, WriteFails, Finish,
         ReadSteps, ReadNothing, ApplyProjection, ApplyFails, Crash, Discard
    <2>4. Resume
      BY <2>3, NextSteps DEF LifeStep
    <2> QED BY <2>1, <2>4, <1>1 DEF Resume
  <1>3. CASE proc = "open"
    <2>1. proc' # proc
      BY <1>1, <1>3
    <2>2. ~CallStep /\ ~WriterStep /\ ~ReadSteps /\ ~Resume
      BY <2>1, <1>3 DEF CallStep, WriterStep, Record, Begin, SendBarrier, Cancel,
         Receive, OpenFile, WriteMeta, WriteItem, FlushFile, OpenFails, WriteFails, Finish,
         ReadSteps, Resume
    <2>3. CASE Crash \/ Discard
      BY <2>3 DEF Crash, Discard, DropRecorder
    <2>4. CASE ReadNothing \/ ApplyProjection \/ ApplyFails
      <3>1. Leave /\ client.pc \in {"read", "apply"} /\ UNCHANGED <<pending, chan>>
        BY <2>4 DEF ReadNothing, ApplyProjection, ApplyFails
      <3>2. client.op = "shutdown"
        BY <3>1, <2>1 DEF Leave
      <3>3. pending = <<>> /\ chan = <<>>
        BY <1>3, <3>1, <3>2 DEF Protocol, Drained
      <3> QED BY <3>1, <3>2, <3>3 DEF Leave
    <2> QED BY <2>2, <2>3, <2>4, NextSteps DEF LifeStep, ProjectStep
  <1> QED BY <1>2, <1>3
-----------------------------------------------------------------------------
(* The protocol between the caller and the writer task.                    *)
LEMMA CallProtocol ==
  ASSUME Types, Dropped, Protocol, CallStep
  PROVE  Protocol'
  <1>0. /\ client \in Client /\ writer \in Writer /\ chan \in Seq(Cmd)
    BY DEF Types
  <1>p. Channel /\ Answering /\ Drained /\ Calling
    BY DEF Protocol
  <1>c. DOMAIN chan = 1..Len(chan) /\ Len(chan) \in Nat
    BY <1>0
  <1>1. ASSUME NEW i \in Items, Record(i) PROVE Protocol'
    <2> DEFINE c == [kind |-> "add", item |-> i, ack |-> FALSE]
    <2>0. c \in Cmd /\ c.kind = "add" /\ c.item = i /\ ~c.ack /\ i # Meta
      BY MetaAssumption DEF Cmd
    <2>1. chan' = Append(chan, c)
      BY <1>1 DEF Record, Send
    <2> HIDE DEF c
    <2>2. /\ DOMAIN chan' = 1..(Len(chan) + 1) /\ chan'[Len(chan) + 1] = c
          /\ \A k \in DOMAIN chan : chan'[k] = chan[k]
      BY <2>0, <2>1, <1>0
    <2>3. client.pc = "idle" /\ UNCHANGED <<writer, pending, proc>> /\ proc = "open"
      BY <1>1 DEF Record
    <2>4. client'.pc = "send" /\ client'.op = "flush"
      BY <1>0, <1>1 DEF Record, Client
    <2>5. Channel'
      <3> SUFFICES ASSUME NEW k \in DOMAIN chan'
                   PROVE  /\ chan'[k].kind = "add" <=> chan'[k].item # Meta
                          /\ chan'[k].kind = "shutdown" => chan'[k].ack
                          /\ ~chan'[k].ack
        BY DEF Channel
      <3>1. CASE k = Len(chan) + 1
        BY <3>1, <2>0, <2>2
      <3>2. CASE k \in DOMAIN chan
        BY <3>2, <2>2, <2>3, <1>p DEF Channel
      <3> QED BY <3>1, <3>2, <2>2, <1>c
    <2>6. Answering'
      BY <2>3, <1>p DEF Answering
    <2>7. Drained'
      BY <2>3, <2>4, <1>p DEF Drained
    <2>8. Calling'
      BY <2>4 DEF Calling, IdleClient
    <2> QED BY <2>5, <2>6, <2>7, <2>8 DEF Protocol
  <1>2. ASSUME NEW op \in Barriers, Begin(op) PROVE Protocol'
    <2>3. client.pc = "idle" /\ UNCHANGED <<writer, pending, proc, chan>> /\ proc = "open"
      BY <1>2 DEF Begin
    <2>4. client'.pc = "send" /\ client'.op # "none"
      BY <1>0, <1>2 DEF Begin, Client, Barriers
    <2>5. Channel'
      BY <2>3, <1>p DEF Channel
    <2>6. Answering'
      BY <2>3, <1>p DEF Answering
    <2>7. Drained'
      BY <2>3, <2>4, <1>p DEF Drained
    <2>8. Calling'
      BY <2>4 DEF Calling, IdleClient
    <2> QED BY <2>5, <2>6, <2>7, <2>8 DEF Protocol
  <1>3. CASE SendBarrier
    <2> DEFINE c == [kind |-> client.op, item |-> Meta, ack |-> TRUE]
    <2>0. client.pc = "send" /\ client.op \in Barriers /\ proc = "open"
      BY <1>0, <1>3, <1>p DEF SendBarrier, Client, Calling, Dropped, IdleClient
    <2>1. c \in Cmd /\ c.kind = client.op /\ c.item = Meta /\ c.ack /\ c.kind # "add"
      BY <2>0 DEF Cmd, Barriers
    <2>2. chan' = Append(chan, c) /\ UNCHANGED <<writer, pending, proc>>
      BY <1>3 DEF SendBarrier, Send
    <2> HIDE DEF c
    <2>3. /\ DOMAIN chan' = 1..(Len(chan) + 1) /\ chan'[Len(chan) + 1] = c
          /\ \A k \in DOMAIN chan : chan'[k] = chan[k]
          /\ Len(chan') = Len(chan) + 1
      BY <2>1, <2>2, <1>0
    <2>4. client'.pc = "wait" /\ client'.op = client.op
      BY <1>0, <1>3 DEF SendBarrier, Client
    <2>5. ~writer.ack
      BY <2>0, <1>p DEF Answering
    <2>6. Channel'
      <3> SUFFICES ASSUME NEW k \in DOMAIN chan'
                   PROVE  /\ chan'[k].kind = "add" <=> chan'[k].item # Meta
                          /\ chan'[k].kind = "shutdown" => chan'[k].ack
                          /\ chan'[k].ack => /\ k = Len(chan') /\ client'.pc = "wait"
                                             /\ chan'[k].kind = client'.op /\ ~writer'.ack
        BY DEF Channel
      <3>1. CASE k = Len(chan) + 1
        BY <3>1, <2>1, <2>2, <2>3, <2>4, <2>5
      <3>2. CASE k \in DOMAIN chan
        BY <3>2, <2>0, <2>3, <1>p DEF Channel
      <3> QED BY <3>1, <3>2, <2>3, <1>c
    <2>7. Answering'
      BY <2>2, <2>5, <1>p DEF Answering
    <2>8. Drained'
      BY <2>0, <2>2, <2>4, <1>p DEF Drained
    <2>9. Calling'
      BY <2>0, <2>4 DEF Calling, IdleClient, Barriers
    <2> QED BY <2>6, <2>7, <2>8, <2>9 DEF Protocol
  <1>4. CASE Cancel
    <2>1. /\ DOMAIN chan' = DOMAIN chan /\ Len(chan') = Len(chan)
          /\ \A k \in DOMAIN chan : /\ ~chan'[k].ack /\ chan'[k].kind = chan[k].kind
                                    /\ chan'[k].item = chan[k].item
      BY <1>4, CancelChan DEF Cancel
    <2>2. /\ client' = IdleClient /\ client'.pc = "idle" /\ client'.op = "none"
          /\ UNCHANGED <<pending, proc>> /\ client.op # "shutdown" /\ client.pc # "idle"
      BY <1>4 DEF Cancel, IdleClient
    <2>3. ~writer'.ack /\ writer'.pc = writer.pc /\ writer'.kind = writer.kind
      BY <1>0, <1>4 DEF Cancel, Writer
    <2>4. proc = "open"
      BY <2>2 DEF Dropped, IdleClient
    <2>5. writer.pc # "stopped"
      BY <2>2, <2>4, <1>p DEF Drained
    <2>6. Channel'
      <3> SUFFICES ASSUME NEW k \in DOMAIN chan'
                   PROVE  /\ chan'[k].kind = "add" <=> chan'[k].item # Meta
                          /\ chan'[k].kind # "shutdown"
                          /\ ~chan'[k].ack
        BY DEF Channel
      <3> QED BY <2>1, <2>2, <1>p DEF Channel
    <2>7. Answering'
      BY <2>2, <2>3, <1>p DEF Answering
    <2>8. Drained'
      BY <2>2, <2>3, <2>5, <1>p DEF Drained
    <2>9. Calling'
      BY <2>2 DEF Calling
    <2> QED BY <2>6, <2>7, <2>8, <2>9 DEF Protocol
  <1> QED BY <1>1, <1>2, <1>3, <1>4 DEF CallStep

LEMMA ReceiveProtocol ==
  ASSUME Types, Dropped, Protocol, Receive
  PROVE  Protocol'
  <1>0. /\ client \in Client /\ writer \in Writer /\ chan \in Seq(Cmd)
    BY DEF Types
  <1>p. Channel /\ Answering /\ Drained /\ Calling
    BY DEF Protocol
  <1>1. /\ chan # <<>> /\ chan' = Tail(chan) /\ writer.pc = "recv"
        /\ UNCHANGED <<client, proc>>
    BY DEF Receive
  <1>2. /\ Head(chan) \in Cmd /\ Head(chan) = chan[1]
        /\ Len(chan) \in Nat /\ Len(chan) > 0 /\ Len(chan') = Len(chan) - 1
        /\ DOMAIN chan = 1..Len(chan)
        /\ DOMAIN chan' = 1..(Len(chan) - 1)
        /\ \A k \in DOMAIN chan' : k \in Nat /\ k + 1 \in DOMAIN chan /\ chan'[k] = chan[k + 1]
    BY <1>1, HeadChan
  <1> DEFINE c == chan[1]
  <1>3. \/ writer' = writer
        \/ writer'.kind = c.kind /\ writer'.ack = c.ack /\ writer'.pc \in {"done", "open"}
    BY <1>0, <1>2 DEF Receive, Writer
  <1>4. writer'.pc # "stopped" /\ (writer'.pc = "done" => pending' = <<>>)
    BY <1>0, <1>1, <1>2 DEF Receive, Writer
  <1>5. ~writer.ack
    BY <1>1, <1>p DEF Answering
  <1>6. /\ c.kind = "shutdown" => c.ack
        /\ c.ack => 1 = Len(chan) /\ client.pc = "wait" /\ c.kind = client.op
    BY <1>2, <1>p DEF Channel
  <1>7. c.ack => chan' = <<>>
    BY <1>0, <1>1, <1>2, <1>6
  <1> HIDE DEF c
  <1>8. Channel'
    <2> SUFFICES ASSUME NEW k \in DOMAIN chan'
                 PROVE  /\ chan'[k].kind = "add" <=> chan'[k].item # Meta
                        /\ chan'[k].kind = "shutdown" => chan'[k].ack
                        /\ chan'[k].ack => /\ k = Len(chan') /\ client'.pc = "wait"
                                           /\ chan'[k].kind = client'.op /\ ~writer'.ack
      BY DEF Channel
    <2>1. /\ chan'[k].kind = "add" <=> chan'[k].item # Meta
          /\ chan'[k].kind = "shutdown" => chan'[k].ack
          /\ chan'[k].ack => /\ k + 1 = Len(chan) /\ client.pc = "wait"
                             /\ chan'[k].kind = client.op
      BY <1>2, <1>p DEF Channel
    <2>2. ~c.ack
      BY <1>2, <1>6
    <2>3. ~writer'.ack
      BY <2>2, <1>3, <1>5
    <2>4. k + 1 = Len(chan) => k = Len(chan')
      BY <1>2
    <2> QED BY <2>1, <2>3, <2>4, <1>1
  <1>9. Answering'
    BY <1>1, <1>3, <1>5, <1>6, <1>7, <1>p DEF Answering
  <1>10. Drained'
    BY <1>1, <1>4, <1>p DEF Drained
  <1>11. Calling'
    BY <1>1, <1>p DEF Calling
  <1> QED BY <1>8, <1>9, <1>10, <1>11 DEF Protocol

(* Steps inside an operation of the writer leave the protocol alone.       *)
LEMMA WriteProtocol ==
  ASSUME Types, Dropped, Protocol,
         UNCHANGED <<chan, client, proc, writer.ack, writer.kind>>,
         writer.pc \notin {"recv", "stopped"}, writer'.pc \notin {"recv", "stopped"},
         writer'.pc = "done" => pending' = <<>>
  PROVE  Protocol'
  <1>p. Channel /\ Answering /\ Drained /\ Calling
    BY DEF Protocol
  <1>1. Channel'
    BY <1>p DEF Channel
  <1>2. Answering'
    BY <1>p DEF Answering
  <1>3. Drained'
    BY <1>p DEF Drained
  <1>4. Calling'
    BY <1>p DEF Calling
  <1> QED BY <1>1, <1>2, <1>3, <1>4 DEF Protocol

LEMMA FinishProtocol ==
  ASSUME Types, Dropped, Protocol, Finish
  PROVE  Protocol'
  <1>0. /\ client \in Client /\ writer \in Writer /\ chan \in Seq(Cmd)
    BY DEF Types
  <1>p. Channel /\ Answering /\ Drained /\ Calling
    BY DEF Protocol
  <1>1. /\ writer.pc \in {"done", "failed"} /\ UNCHANGED <<pending, chan, proc>>
        /\ Answer(writer.pc = "done")
    BY DEF Finish
  <1>2. /\ writer'.kind = "none" /\ ~writer'.ack
        /\ writer'.pc = IF writer.kind = "shutdown" /\ writer.pc = "done"
                        THEN "stopped" ELSE "recv"
    BY <1>0 DEF Finish, Writer
  <1>3. CASE ~writer.ack
    <2>1. UNCHANGED client /\ writer'.pc = "recv"
      BY <1>1, <1>2, <1>3, <1>p DEF Answer, Answering
    <2>2. Channel'
      BY <2>1, <1>1, <1>2, <1>p DEF Channel
    <2>3. Answering'
      BY <1>2 DEF Answering
    <2>4. Drained'
      BY <2>1, <1>1, <1>p DEF Drained
    <2>5. Calling'
      BY <2>1, <1>p DEF Calling
    <2> QED BY <2>2, <2>3, <2>4, <2>5 DEF Protocol
  <1>4. CASE writer.ack
    <2>1. client.pc = "wait" /\ client.op = writer.kind /\ chan = <<>> /\ DOMAIN chan = {}
      BY <1>4, <1>p DEF Answering
    <2>2. client' = IF writer.pc = "done" THEN [client EXCEPT !.pc = "read"] ELSE IdleClient
      BY <1>1, <1>4 DEF Answer
    <2>3. client.op # "none"
      BY <2>1, <1>p DEF Calling
    <2>4. Channel'
      BY <2>1, <1>1 DEF Channel
    <2>5. Answering'
      BY <1>2 DEF Answering
    <2>6. CASE writer.pc = "done"
      <3>1. client'.pc = "read" /\ client'.op = writer.kind
        BY <2>1, <2>2, <2>6, <1>0 DEF Client
      <3>2. pending' = <<>> /\ chan' = <<>>
        BY <2>1, <2>6, <1>1, <1>p DEF Drained
      <3>3. Drained'
        BY <3>1, <3>2, <2>6, <1>2 DEF Drained
      <3>4. Calling'
        BY <3>1, <2>1, <2>3 DEF Calling, IdleClient
      <3> QED BY <2>4, <2>5, <3>3, <3>4 DEF Protocol
    <2>7. CASE writer.pc = "failed"
      <3>1. client' = IdleClient /\ client'.pc = "idle" /\ client'.op = "none"
        BY <2>2, <2>7 DEF IdleClient
      <3>2. writer'.pc = "recv"
        BY <2>7, <1>2
      <3>3. Drained'
        BY <3>1, <3>2 DEF Drained
      <3>4. Calling'
        BY <3>1 DEF Calling
      <3> QED BY <2>4, <2>5, <3>3, <3>4 DEF Protocol
    <2> QED BY <2>6, <2>7, <1>1
  <1> QED BY <1>3, <1>4

LEMMA WriterProtocol ==
  ASSUME Types, Dropped, Protocol, WriterStep
  PROVE  Protocol'
  <1>0. writer \in Writer
    BY DEF Types
  <1>1. CASE Receive
    BY <1>1, ReceiveProtocol
  <1>2. CASE OpenFile
    <2>1. UNCHANGED <<writer.ack, writer.kind>> /\ writer'.pc = "meta"
      BY <1>0, <1>2 DEF OpenFile, Writer
    <2>2. UNCHANGED <<chan, client, proc>> /\ writer.pc = "open"
      BY <1>2 DEF OpenFile
    <2> QED BY <2>1, <2>2, WriteProtocol
  <1>3. CASE WriteMeta
    <2>1. UNCHANGED <<writer.ack, writer.kind>> /\ writer'.pc = "items"
      BY <1>0, <1>3 DEF WriteMeta, Writer
    <2>2. UNCHANGED <<chan, client, proc>> /\ writer.pc = "meta"
      BY <1>3 DEF WriteMeta
    <2> QED BY <2>1, <2>2, WriteProtocol
  <1>4. CASE WriteItem
    <2>1. UNCHANGED <<writer.ack, writer.kind, writer.pc>>
      BY <1>0, <1>4 DEF WriteItem, Writer
    <2>2. UNCHANGED <<chan, client, proc>> /\ writer.pc = "items"
      BY <1>4 DEF WriteItem
    <2> QED BY <2>1, <2>2, WriteProtocol
  <1>5. CASE FlushFile
    <2>1. UNCHANGED <<writer.ack, writer.kind>> /\ writer'.pc = "done"
      BY <1>0, <1>5 DEF FlushFile, Writer
    <2>2. UNCHANGED <<chan, client, proc, pending>> /\ writer.pc = "items" /\ pending = <<>>
      BY <1>5 DEF FlushFile
    <2> QED BY <2>1, <2>2, WriteProtocol
  <1>6. CASE OpenFails
    <2>1. UNCHANGED <<writer.ack, writer.kind>> /\ writer'.pc \in {"open", "failed"}
      BY <1>0, <1>6 DEF OpenFails, Recover, Writer
    <2>2. UNCHANGED <<chan, client, proc>> /\ writer.pc \in {"open", "items"}
      BY <1>6 DEF OpenFails
    <2> QED BY <2>1, <2>2, WriteProtocol
  <1>7. CASE WriteFails
    <2>1. UNCHANGED <<writer.ack, writer.kind>> /\ writer'.pc \in {"open", "failed"}
      BY <1>0, <1>7 DEF WriteFails, Recover, Writer
    <2>2. UNCHANGED <<chan, client, proc>> /\ writer.pc \in {"meta", "items"}
      BY <1>7 DEF WriteFails
    <2> QED BY <2>1, <2>2, WriteProtocol
  <1>8. CASE Finish
    BY <1>8, FinishProtocol
  <1> QED BY <1>1, <1>2, <1>3, <1>4, <1>5, <1>6, <1>7, <1>8 DEF WriterStep

LEMMA LeaveProtocol ==
  ASSUME Types, Dropped, Protocol, Leave, client.pc \in {"read", "apply"},
         UNCHANGED <<pending, chan>>
  PROVE  Protocol'
  <1>p. Channel /\ Answering /\ Drained /\ Calling
    BY DEF Protocol
  <1>1. client' = IdleClient /\ client'.pc = "idle" /\ client'.op = "none"
    BY DEF Leave, IdleClient
  <1>2. proc = "open"
    BY DEF Dropped, IdleClient
  <1>3. \A k \in DOMAIN chan : ~chan[k].ack
    BY <1>p DEF Channel
  <1>4. Channel'
    BY <1>p, <1>3 DEF Channel
  <1>5. Calling'
    BY <1>1 DEF Calling
  <1>6. CASE client.op = "shutdown"
    <2>1. proc' = "closed" /\ writer' = StoppedWriter
      BY <1>6 DEF Leave
    <2>2. ~writer'.ack /\ writer'.kind = "none" /\ writer'.pc = "stopped"
      BY <2>1 DEF StoppedWriter, CreatedWriter
    <2>3. pending' = <<>> /\ chan' = <<>>
      BY <1>2, <1>6, <1>p DEF Drained
    <2> QED BY <2>1, <2>2, <2>3, <1>4, <1>5 DEF Protocol, Answering, Drained
  <1>7. CASE client.op # "shutdown"
    <2>1. UNCHANGED <<proc, writer>>
      BY <1>7 DEF Leave
    <2>2. writer.pc # "stopped" /\ ~writer.ack
      BY <1>2, <1>7, <1>p DEF Drained, Answering
    <2> QED BY <2>1, <2>2, <1>1, <1>4, <1>5, <1>p DEF Protocol, Answering, Drained
  <1> QED BY <1>6, <1>7

LEMMA ProjectProtocol ==
  ASSUME Types, Dropped, Protocol, ProjectStep
  PROVE  Protocol'
  <1>0. client \in Client
    BY DEF Types
  <1>1. CASE ReadSteps
    <2>1. /\ client.pc = "read" /\ client'.pc = "apply" /\ UNCHANGED client.op
      BY <1>0, <1>1 DEF ReadSteps, Client
    <2>2. UNCHANGED <<writer, pending, chan, proc>>
      BY <1>1 DEF ReadSteps
    <2>p. Channel /\ Answering /\ Drained /\ Calling
      BY DEF Protocol
    <2>3. Channel'
      BY <2>1, <2>2, <2>p DEF Channel
    <2>4. Answering'
      BY <2>1, <2>2, <2>p DEF Answering
    <2>5. Drained'
      BY <2>1, <2>2, <2>p DEF Drained
    <2>6. Calling'
      BY <2>1, <2>p DEF Calling, IdleClient
    <2> QED BY <2>3, <2>4, <2>5, <2>6 DEF Protocol
  <1>2. CASE ReadNothing
    BY <1>2, LeaveProtocol DEF ReadNothing
  <1>3. CASE ApplyProjection
    BY <1>3, LeaveProtocol DEF ApplyProjection
  <1>4. CASE ApplyFails
    BY <1>4, LeaveProtocol DEF ApplyFails
  <1> QED BY <1>1, <1>2, <1>3, <1>4 DEF ProjectStep

LEMMA LifeProtocol ==
  ASSUME Types, Dropped, Protocol, LifeStep
  PROVE  Protocol'
  <1>1. CASE Crash \/ Discard
    <2>1. DropRecorder
      BY <1>1 DEF Crash, Discard
    <2>2. /\ ~writer'.ack /\ writer'.kind = "none" /\ client'.pc = "idle" /\ client'.op = "none"
          /\ client' = IdleClient /\ chan' = <<>> /\ pending' = <<>> /\ proc' # "open"
      BY <2>1 DEF DropRecorder, StoppedWriter, CreatedWriter, IdleClient
    <2> QED BY <2>2 DEF Protocol, Channel, Answering, Drained, Calling
  <1>2. CASE Resume
    <2>1. /\ proc # "open" /\ UNCHANGED <<pending, chan, client>>
          /\ \/ UNCHANGED <<proc, writer>>
             \/ ~writer'.ack /\ writer'.kind = "none" /\ writer'.pc = "recv"
      BY <1>2 DEF Resume
    <2>2. pending = <<>> /\ chan = <<>> /\ client = IdleClient
      BY <2>1 DEF Dropped
    <2>3. client.pc = "idle" /\ client.op = "none"
      BY <2>2 DEF IdleClient
    <2> QED BY <2>1, <2>2, <2>3 DEF Protocol, Channel, Answering, Drained, Calling
  <1> QED BY <1>1, <1>2 DEF LifeStep
-----------------------------------------------------------------------------
(* The queue: pending items and the commands behind them.                  *)
Cat(p, c) == p \o [k \in DOMAIN c |-> c[k].item]

LEMMA CatType ==
  ASSUME NEW p \in Seq(Items), NEW c \in Seq(Cmd)
  PROVE  /\ [k \in DOMAIN c |-> c[k].item] \in Seq(Items \cup {Meta})
         /\ Len([k \in DOMAIN c |-> c[k].item]) = Len(c)
         /\ Len(p) \in Nat /\ Len(c) \in Nat
         /\ Cat(p, c) \in Seq(Items \cup {Meta})
         /\ Len(Cat(p, c)) = Len(p) + Len(c)
         /\ DOMAIN Cat(p, c) = 1..(Len(p) + Len(c))
         /\ \A q \in DOMAIN Cat(p, c) :
              Cat(p, c)[q] = IF q <= Len(p) THEN p[q] ELSE c[q - Len(p)].item
  <1>2. Len(p) \in Nat /\ Len(c) \in Nat /\ DOMAIN c = 1..Len(c)
    OBVIOUS
  <1>3. \A k \in DOMAIN c : c[k].item \in Items \cup {Meta}
    <2>1. \A k \in DOMAIN c : c[k] \in Cmd
      OBVIOUS
    <2> QED BY <2>1 DEF Cmd
  <1> DEFINE d == [k \in DOMAIN c |-> c[k].item]
             T == Items \cup {Meta}
  <1>4. d \in [1..Len(c) -> T]
    BY <1>2, <1>3
  <1>a. \A q \in DOMAIN c : d[q] = c[q].item
    OBVIOUS
  <1>b. Cat(p, c) = p \o d
    BY DEF Cat
  <1> HIDE DEF d
  <1>5. d \in Seq(T) /\ Len(d) = Len(c) /\ p \in Seq(T)
    BY <1>2, <1>4
  <1> HIDE DEF T
  <1>8. /\ Cat(p, c) \in Seq(T) /\ Len(Cat(p, c)) = Len(p) + Len(c)
        /\ \A q \in 1..(Len(p) + Len(c)) :
             Cat(p, c)[q] = IF q <= Len(p) THEN p[q] ELSE d[q - Len(p)]
    <2>1. \A a, b \in Seq(T) :
            /\ a \o b \in Seq(T) /\ Len(a \o b) = Len(a) + Len(b)
            /\ \A q \in 1..(Len(a) + Len(b)) :
                 (a \o b)[q] = IF q <= Len(a) THEN a[q] ELSE b[q - Len(a)]
      BY ConcatProperties
    <2>2. /\ p \o d \in Seq(T) /\ Len(p \o d) = Len(p) + Len(d)
          /\ \A q \in 1..(Len(p) + Len(d)) :
               (p \o d)[q] = IF q <= Len(p) THEN p[q] ELSE d[q - Len(p)]
      BY <2>1, <1>5
    <2> QED BY <2>2, <1>5, <1>b
  <1>9. DOMAIN Cat(p, c) = 1..(Len(p) + Len(c))
    BY <1>8, LenProperties
  <1>10. \A q \in DOMAIN Cat(p, c) :
           Cat(p, c)[q] = IF q <= Len(p) THEN p[q] ELSE c[q - Len(p)].item
    <2> TAKE q \in DOMAIN Cat(p, c)
    <2>1. CASE q <= Len(p)
      BY <2>1, <1>8, <1>9
    <2>2. CASE ~(q <= Len(p))
      <3>1. q - Len(p) \in DOMAIN c
        BY <2>2, <1>2, <1>9
      <3>2. d[q - Len(p)] = c[q - Len(p)].item
        BY <3>1, <1>a
      <3> QED BY <2>2, <3>2, <1>8, <1>9
    <2> QED BY <2>1, <2>2
  <1> QED BY <1>2, <1>5, <1>8, <1>9, <1>10 DEF T, d

(* Moving the first command's item to the end of the pending items.        *)
LEMMA CatMove ==
  ASSUME NEW p \in Seq(Items), NEW c \in Seq(Cmd), c # <<>>, Head(c).item \in Items
  PROVE  Cat(Append(p, Head(c).item), Tail(c)) = Cat(p, c)
  <1> DEFINE x == Head(c).item
             r == Append(p, x)
             d == Tail(c)
  <1>1. /\ Head(c) = c[1] /\ d \in Seq(Cmd) /\ Len(d) = Len(c) - 1
        /\ Len(c) \in Nat /\ Len(c) > 0
        /\ \A k \in 1..(Len(c) - 1) : d[k] = c[k + 1]
    OBVIOUS
  <1>2. /\ r \in Seq(Items) /\ Len(p) \in Nat /\ Len(r) = Len(p) + 1 /\ r[Len(p) + 1] = c[1].item
        /\ \A q \in 1..Len(p) : r[q] = p[q]
    BY <1>1
  <1> HIDE DEF x, r, d
  <1> DEFINE s == Cat(r, d)
             t == Cat(p, c)
  <1>3. /\ t \in Seq(Items \cup {Meta}) /\ Len(t) = Len(p) + Len(c)
        /\ \A q \in 1..(Len(p) + Len(c)) :
             t[q] = IF q <= Len(p) THEN p[q] ELSE c[q - Len(p)].item
    BY CatType
  <1>4. /\ s \in Seq(Items \cup {Meta}) /\ Len(s) = Len(r) + Len(d)
        /\ \A q \in 1..(Len(r) + Len(d)) :
             s[q] = IF q <= Len(r) THEN r[q] ELSE d[q - Len(r)].item
    <2> HIDE DEF s
    <2>1. d \in Seq(Cmd) /\ r \in Seq(Items)
      BY <1>1, <1>2
    <2>2. s = Cat(r, d)
      BY DEF s
    <2>3. s \in Seq(Items \cup {Meta}) /\ Len(s) = Len(r) + Len(d)
      BY <2>1, <2>2, CatType
    <2>4. DOMAIN s = 1..(Len(r) + Len(d))
      BY <2>1, <2>2, CatType
    <2>5. \A q \in DOMAIN s : s[q] = IF q <= Len(r) THEN r[q] ELSE d[q - Len(r)].item
      BY <2>1, <2>2, CatType
    <2> QED BY <2>3, <2>4, <2>5
  <1>5. Len(s) = Len(t) /\ Len(s) \in Nat
    BY <1>1, <1>2, <1>3, <1>4
  <1> HIDE DEF s, t
  <1>6. \A q \in 1..Len(s) : s[q] = t[q]
    <2> TAKE q \in 1..Len(s)
    <2>0. q \in 1..(Len(p) + Len(c)) /\ q \in 1..(Len(r) + Len(d)) /\ q \in Nat
      BY <1>3, <1>4, <1>5
    <2>1. CASE q <= Len(p)
      <3>1. q \in 1..Len(p) /\ q <= Len(r)
        BY <2>0, <2>1, <1>2
      <3> QED BY <3>1, <2>0, <2>1, <1>2, <1>3, <1>4
    <2>2. CASE q = Len(p) + 1
      <3>1. ~(q <= Len(p)) /\ q <= Len(r) /\ q - Len(p) = 1
        BY <2>2, <1>2
      <3> QED BY <3>1, <2>0, <2>2, <1>2, <1>3, <1>4
    <2>3. CASE q > Len(p) + 1
      <3>1. /\ ~(q <= Len(p)) /\ ~(q <= Len(r))
            /\ q - Len(r) \in 1..(Len(c) - 1) /\ (q - Len(r)) + 1 = q - Len(p)
        BY <2>0, <2>3, <1>1, <1>2
      <3>2. d[q - Len(r)] = c[q - Len(p)]
        BY <3>1, <1>1
      <3> QED BY <3>1, <3>2, <2>0, <1>3, <1>4
    <2> QED BY <2>0, <2>1, <2>2, <2>3, <1>2
  <1>7. s = t
    BY <1>3, <1>4, <1>5, <1>6, SeqEqual
  <1> QED BY <1>7 DEF s, t, r, d, x

(* Dropping the first command, which carries no item.                      *)
LEMMA CatDrop ==
  ASSUME NEW p \in Seq(Items), NEW c \in Seq(Cmd), c # <<>>
  PROVE  LET m == Len(p) + 1 IN
         /\ m \in DOMAIN Cat(p, c) /\ Cat(p, c)[m] = Head(c).item
         /\ DOMAIN Cat(p, c) = 1..(Len(Cat(p, Tail(c))) + 1)
         /\ DOMAIN Cat(p, Tail(c)) = 1..Len(Cat(p, Tail(c)))
         /\ Len(Cat(p, Tail(c))) \in Nat
         /\ \A q \in DOMAIN Cat(p, Tail(c)) :
              Cat(p, Tail(c))[q] = Cat(p, c)[IF q < m THEN q ELSE q + 1]
  <1> DEFINE m == Len(p) + 1
             d == Tail(c)
             s == Cat(p, d)
             t == Cat(p, c)
  <1>1. /\ Head(c) = c[1] /\ d \in Seq(Cmd) /\ Len(d) = Len(c) - 1
        /\ Len(c) \in Nat /\ Len(c) > 0 /\ Len(p) \in Nat
        /\ \A k \in 1..(Len(c) - 1) : d[k] = c[k + 1]
    OBVIOUS
  <1> HIDE DEF d
  <1>3. /\ Len(t) = Len(p) + Len(c) /\ DOMAIN t = 1..(Len(p) + Len(c))
        /\ \A q \in 1..(Len(p) + Len(c)) :
             t[q] = IF q <= Len(p) THEN p[q] ELSE c[q - Len(p)].item
    BY CatType
  <1>4. /\ Len(s) = Len(p) + Len(d) /\ DOMAIN s = 1..(Len(p) + Len(d))
        /\ \A q \in 1..(Len(p) + Len(d)) :
             s[q] = IF q <= Len(p) THEN p[q] ELSE d[q - Len(p)].item
    BY <1>1, CatType
  <1> HIDE DEF s, t
  <1>5. m \in DOMAIN t /\ t[m] = c[1].item
    <2>1. m \in 1..(Len(p) + Len(c)) /\ ~(m <= Len(p)) /\ m - Len(p) = 1
      BY <1>1
    <2> QED BY <2>1, <1>3
  <1>6. DOMAIN t = 1..(Len(s) + 1) /\ DOMAIN s = 1..Len(s) /\ Len(s) \in Nat
    BY <1>1, <1>3, <1>4
  <1>7. \A q \in DOMAIN s : s[q] = t[IF q < m THEN q ELSE q + 1]
    <2> TAKE q \in DOMAIN s
    <2>0. q \in Nat /\ q \in 1..(Len(p) + Len(d)) /\ q \in 1..(Len(p) + Len(c)) /\ q + 1 \in 1..(Len(p) + Len(c))
      BY <1>1, <1>4
    <2>1. CASE q <= Len(p)
      <3>1. q < m
        BY <2>0, <2>1, <1>1
      <3> QED BY <3>1, <2>0, <2>1, <1>3, <1>4
    <2>2. CASE ~(q <= Len(p))
      <3>1. /\ ~(q < m) /\ ~(q + 1 <= Len(p)) /\ q - Len(p) \in 1..(Len(c) - 1)
            /\ (q - Len(p)) + 1 = (q + 1) - Len(p)
        BY <2>0, <2>2, <1>1
      <3>2. d[q - Len(p)] = c[(q + 1) - Len(p)]
        BY <3>1, <1>1
      <3> QED BY <3>1, <3>2, <2>0, <2>2, <1>3, <1>4
    <2> QED BY <2>1, <2>2
  <1> QED BY <1>1, <1>5, <1>6, <1>7 DEF s, t, d

LEMMA QueueType ==
  ASSUME Types
  PROVE  /\ Queue = Cat(pending, chan) /\ pending \in Seq(Items) /\ chan \in Seq(Cmd)
         /\ Len(pending) \in Nat /\ Len(chan) \in Nat
         /\ Queue \in Seq(Items \cup {Meta})
         /\ Len(Queue) = Len(pending) + Len(chan) /\ Len(Queue) \in Nat
         /\ DOMAIN Queue = 1..Len(Queue)
         /\ Meta \notin Waiting /\ Waiting \subseteq Items
  <1>1. pending \in Seq(Items) /\ chan \in Seq(Cmd) /\ Queue = Cat(pending, chan)
    BY DEF Types, Queue, Cat
  <1>2. /\ Queue \in Seq(Items \cup {Meta})
        /\ Len(Queue) = Len(pending) + Len(chan)
        /\ Len(pending) \in Nat /\ Len(chan) \in Nat
        /\ DOMAIN Queue = 1..Len(Queue)
    BY <1>1, CatType
  <1>3. Waiting \subseteq Items
    <2>1. \A q \in DOMAIN Queue : Queue[q] \in Items \cup {Meta}
      BY <1>2
    <2> QED BY <2>1 DEF Waiting
  <1> QED BY <1>1, <1>2, <1>3 DEF Waiting

(* Sending a command.                                                      *)
LEMMA QueueSend ==
  ASSUME Types, NEW c \in Cmd, chan' = Append(chan, c), pending' = pending
  PROVE  Queue' = Append(Queue, c.item)
  <1> DEFINE D(s) == [k \in DOMAIN s |-> s[k].item]
             T == Items \cup {Meta}
  <1>1. chan \in Seq(Cmd) /\ c.item \in T /\ pending \in Seq(Items) /\ pending \in Seq(T)
    BY DEF Types, Cmd
  <1>2. D(Append(chan, c)) = Append(D(chan), c.item)
    BY <1>1
  <1>3. D(chan) \in Seq(T)
    BY <1>1, CatType
  <1>4. Queue' = pending \o D(Append(chan, c)) /\ Queue = pending \o D(chan)
    BY DEF Queue
  <1> HIDE DEF T, D
  <1>5. \A a, b \in Seq(T) : \A x \in T : a \o Append(b, x) = Append(a \o b, x)
    BY ConcatAppend
  <1> QED BY <1>1, <1>2, <1>3, <1>4, <1>5

(* Cancelling changes none of the items queued.                            *)
LEMMA QueueCancel ==
  ASSUME Types, Cancel
  PROVE  Queue' = Queue
  <1>1. /\ DOMAIN chan' = DOMAIN chan
        /\ \A k \in DOMAIN chan : chan'[k].item = chan[k].item
    BY CancelChan DEF Cancel
  <1> QED BY <1>1 DEF Cancel, Queue

(* A received item stays where it is in the queue; another command goes.   *)
LEMMA QueueReceive ==
  ASSUME Types, Protocol, Receive
  PROVE  /\ chan # <<>>
         /\ Head(chan).item # Meta => Queue' = Queue
         /\ Head(chan).item = Meta => Queue = Cat(pending, chan) /\ Queue' = Cat(pending, Tail(chan))
         /\ (Head(chan).item = Meta /\ pending' = pending) \/ pending' = Append(pending, Head(chan).item)
  <1>1. chan # <<>> /\ chan' = Tail(chan)
        /\ pending' = IF Head(chan).kind = "add" THEN Append(pending, Head(chan).item) ELSE pending
    BY DEF Receive
  <1>2. /\ Head(chan) \in Cmd /\ Head(chan) = chan[1] /\ 1 \in DOMAIN chan
    BY <1>1, HeadChan
  <1>3. /\ Head(chan).kind = "add" <=> Head(chan).item # Meta
        /\ Head(chan).item # Meta => Head(chan).item \in Items
    BY <1>2 DEF Protocol, Channel, Cmd
  <1>4. pending \in Seq(Items) /\ chan \in Seq(Cmd)
    BY DEF Types
  <1>5. Queue = Cat(pending, chan) /\ Queue' = Cat(pending', chan')
    BY DEF Queue, Cat
  <1>6. ASSUME Head(chan).item # Meta PROVE Queue' = Queue
    BY <1>1, <1>3, <1>4, <1>5, <1>6, CatMove
  <1> QED BY <1>1, <1>3, <1>5, <1>6

(* An item that was written leaves the queue.                              *)
LEMMA QueueWrite ==
  ASSUME Types, pending # <<>>, pending' = Tail(pending), chan' = chan
  PROVE  /\ Queue' = Tail(Queue) /\ Queue[1] = Head(pending) /\ Queue # <<>>
         /\ Len(Queue) > 0 /\ DOMAIN Queue' = 1..(Len(Queue) - 1)
         /\ \A q \in DOMAIN Queue' : Queue'[q] = Queue[q + 1]
  <1> DEFINE d == [k \in DOMAIN chan |-> chan[k].item]
             T == Items \cup {Meta}
  <1>1. pending \in Seq(T) /\ d \in Seq(T) /\ Queue \in Seq(T)
    <2>1. pending \in Seq(Items) /\ chan \in Seq(Cmd) /\ Queue \in Seq(T)
      BY QueueType
    <2>2. pending \in Seq(T)
      BY <2>1
    <2>3. d \in Seq(T)
      BY <2>1, CatType
    <2> QED BY <2>1, <2>2, <2>3
  <1>2. Queue = pending \o d /\ Queue' = Tail(pending) \o d
    BY DEF Queue
  <1> HIDE DEF d, T
  <1>3. \A a, b \in Seq(T) : a # <<>> => Tail(a) \o b = Tail(a \o b) /\ Head(a) = (a \o b)[1] /\ a \o b # <<>>
    BY ConcatTail
  <1>4. Queue' = Tail(Queue) /\ Queue[1] = Head(pending) /\ Queue # <<>>
    BY <1>1, <1>2, <1>3
  <1>5. \A a \in Seq(T) : a # <<>> => Len(a) > 0 /\ DOMAIN Tail(a) = 1..(Len(a) - 1) /\ \A q \in DOMAIN Tail(a) : Tail(a)[q] = a[q + 1]
    OBVIOUS
  <1> QED BY <1>1, <1>4, <1>5

(* The first pending item is the first of the queue.                       *)
LEMMA QueueHead ==
  ASSUME Types, pending # <<>>
  PROVE  1 \in DOMAIN Queue /\ Queue[1] = Head(pending) /\ Head(pending) \in Waiting
  <1> DEFINE d == [k \in DOMAIN chan |-> chan[k].item]
             T == Items \cup {Meta}
  <1>1. pending \in Seq(T) /\ d \in Seq(T) /\ Queue \in Seq(T)
    <2>1. pending \in Seq(Items) /\ chan \in Seq(Cmd) /\ Queue \in Seq(T)
      BY QueueType
    <2>2. pending \in Seq(T)
      BY <2>1
    <2>3. d \in Seq(T)
      BY <2>1, CatType
    <2> QED BY <2>1, <2>2, <2>3
  <1>2. Queue = pending \o d
    BY DEF Queue
  <1> HIDE DEF d, T
  <1>3. \A a, b \in Seq(T) : a # <<>> => Head(a) = (a \o b)[1] /\ a \o b # <<>>
    BY ConcatTail
  <1>4. Queue[1] = Head(pending) /\ Queue # <<>>
    BY <1>1, <1>2, <1>3
  <1>5. 1 \in DOMAIN Queue
    BY <1>1, <1>4
  <1>6. Head(pending) \in Items
    BY HeadPending
  <1> QED BY <1>4, <1>5, <1>6, MetaAssumption DEF Waiting
-----------------------------------------------------------------------------
(* The ordinals.  Steps that append no record that parses.                 *)
LEMMA SameLines ==
  ASSUME file'.lines = file.lines
  PROVE  Parsed' = Parsed /\ Readable' = Readable /\ (Ordinals => Ordinals')
  <1>1. Parsed' = Parsed
    BY DEF Parsed
  <1> QED BY <1>1 DEF Readable, Ordinals

LEMMA TornLine ==
  ASSUME Types, NEW x \in Line, ~x.ok, file'.lines = Append(file.lines, x)
  PROVE  /\ Parsed' = Parsed /\ Readable' = Readable /\ (Ordinals => Ordinals')
         /\ \A k \in Parsed : file'.lines[k] = file.lines[k]
  <1>1. Parsed' = Parsed /\ \A k \in Parsed : file'.lines[k] = file.lines[k]
    BY AppendLine
  <1>2. Readable' = Readable
    BY <1>1 DEF Readable
  <1>3. ASSUME Ordinals PROVE Ordinals'
    <2> DEFINE m == file'.lines
               l == file.lines
    <2>0. Parsed' = Parsed /\ \A k \in Parsed : m[k] = l[k]
      BY <1>1
    <2> HIDE DEF m
    <2>1. \A j, k \in Parsed' : j < k => m[j].ord <= m[k].ord
      BY <2>0, <1>3 DEF Ordinals
    <2>2. \A j, k \in Parsed' : m[j].ord = m[k].ord <=> m[j].item = m[k].item
      <3> TAKE j, k \in Parsed'
      <3>1. l[j].ord = l[k].ord <=> l[j].item = l[k].item
        BY <2>0, <1>3 DEF Ordinals
      <3>2. m[j] = l[j] /\ m[k] = l[k]
        BY <2>0
      <3> QED BY <3>1, <3>2
    <2>3. \A k \in Parsed' : \A n \in Nat :
            n < m[k].ord => \E j \in Parsed' : j < k /\ m[j].ord = n
      <3> TAKE k \in Parsed'
      <3> TAKE n \in Nat
      <3> HAVE n < m[k].ord
      <3>1. PICK j \in Parsed : j < k /\ l[j].ord = n
        BY <2>0, <1>3 DEF Ordinals
      <3> QED BY <3>1, <2>0
    <2>4. \A k \in Parsed' : m[k].ord = 0 <=> m[k].item = Meta
      <3> TAKE k \in Parsed'
      <3>1. l[k].ord = 0 <=> l[k].item = Meta
        BY <2>0, <1>3 DEF Ordinals
      <3> QED BY <3>1, <2>0
    <2> QED BY <2>1, <2>2, <2>3, <2>4 DEF Ordinals, m
  <1> QED BY <1>1, <1>2, <1>3

(* The record the writer is at.                                            *)
Current == IF writer.meta THEN Meta ELSE Head(pending)

(* A record is written whole: it is new, or the one written last again.    *)
LEMMA WholeLine ==
  ASSUME Types, Ordinals, NextOrdinal, QueuedOnce, writer.meta \/ pending # <<>>,
         NEW x \in Line, x.ok, x.ord = writer.next, x.item = Current,
         file'.lines = Append(file.lines, x)
  PROVE  LET n == Len(file.lines) + 1 IN
         /\ Ordinals'
         /\ Parsed' = Parsed \cup {n} /\ file'.lines[n] = x
         /\ \A k \in Parsed : k \in Nat /\ k < n /\ file'.lines[k] = file.lines[k]
         /\ Readable' = Readable \cup {x.item}
  <1> DEFINE n == Len(file.lines) + 1
             l == file.lines
             m == file'.lines
  <1>1. /\ n \in Nat /\ m[n] = x /\ Parsed' = Parsed \cup {n}
        /\ \A k \in Parsed : k \in Nat /\ k < n /\ m[k] = l[k]
    BY AppendLine
  <1>2. \A k \in Parsed : l[k].ord \in Nat /\ l[k].ord <= x.ord
    BY ParsedType DEF NextOrdinal
  <1>3. x.ord \in Nat /\ x.ord = writer.next
    BY DEF Types, Writer
  <1>4. \A k \in Parsed : l[k].ord = x.ord <=> l[k].item = x.item
    <2> TAKE k \in Parsed
    <2>1. ASSUME l[k].ord = x.ord PROVE l[k].item = x.item
      BY <2>1 DEF NextOrdinal, Current
    <2>2. ASSUME l[k].item = x.item, l[k].ord < x.ord PROVE FALSE
      <3>1. CASE writer.meta
        <4>1. x.ord = 0
          BY <3>1 DEF NextOrdinal
        <4> QED BY <4>1, <2>2, <1>2
      <3>2. CASE ~writer.meta
        <4>1. x.item \in Waiting
          BY <3>2, QueueHead DEF Current
        <4> QED BY <4>1, <2>2 DEF QueuedOnce
      <3> QED BY <3>1, <3>2
    <2> QED BY <2>1, <2>2, <1>2, <1>3
  <1>5. \A i \in Nat : i < x.ord => \E k \in Parsed : l[k].ord = i
    BY DEF NextOrdinal
  <1>6. x.ord = 0 <=> x.item = Meta
    <2>1. writer.meta <=> x.ord = 0
      BY DEF NextOrdinal
    <2>2. CASE writer.meta
      BY <2>1, <2>2 DEF Current
    <2>3. CASE ~writer.meta
      <3>1. x.item \in Items
        BY <2>3, HeadPending DEF Current
      <3> QED BY <2>1, <2>3, <3>1, MetaAssumption
    <2> QED BY <2>2, <2>3
  <1>7. Ordinals'
    <2>1. \A j, k \in Parsed' : j < k => m[j].ord <= m[k].ord
      <3> TAKE j, k \in Parsed'
      <3> HAVE j < k
      <3>1. CASE k = n
        <4>1. j \in Parsed
          BY <3>1, <1>1
        <4> QED BY <4>1, <3>1, <1>1, <1>2
      <3>2. CASE k \in Parsed
        <4>1. j \in Parsed
          BY <3>2, <1>1
        <4> QED BY <4>1, <3>2, <1>1 DEF Ordinals
      <3> QED BY <3>1, <3>2, <1>1
    <2>2. \A j, k \in Parsed' : m[j].ord = m[k].ord <=> m[j].item = m[k].item
      <3> TAKE j, k \in Parsed'
      <3>1. CASE j = n /\ k = n
        BY <3>1
      <3>2. CASE j \in Parsed /\ k = n
        BY <3>2, <1>1, <1>4
      <3>3. CASE j = n /\ k \in Parsed
        BY <3>3, <1>1, <1>4
      <3>4. CASE j \in Parsed /\ k \in Parsed
        <4>1. l[j].ord = l[k].ord <=> l[j].item = l[k].item
          BY <3>4 DEF Ordinals
        <4>2. m[j] = l[j] /\ m[k] = l[k]
          BY <3>4, <1>1
        <4> QED BY <4>1, <4>2
      <3> QED BY <3>1, <3>2, <3>3, <3>4, <1>1
    <2>3. \A k \in Parsed' : \A i \in Nat :
            i < m[k].ord => \E j \in Parsed' : j < k /\ m[j].ord = i
      <3> TAKE k \in Parsed'
      <3> TAKE i \in Nat
      <3> HAVE i < m[k].ord
      <3>1. CASE k = n
        <4>1. PICK j \in Parsed : l[j].ord = i
          BY <3>1, <1>1, <1>5
        <4> QED BY <4>1, <3>1, <1>1
      <3>2. CASE k \in Parsed
        <4>0. i < l[k].ord
          BY <3>2, <1>1
        <4>1. PICK j \in Parsed : j < k /\ l[j].ord = i
          BY <3>2, <4>0 DEF Ordinals
        <4> QED BY <4>1, <1>1
      <3> QED BY <3>1, <3>2, <1>1
    <2>4. \A k \in Parsed' : m[k].ord = 0 <=> m[k].item = Meta
      <3> TAKE k \in Parsed'
      <3>1. CASE k = n
        BY <3>1, <1>1, <1>6
      <3>2. CASE k \in Parsed
        <4>1. l[k].ord = 0 <=> l[k].item = Meta
          BY <3>2 DEF Ordinals
        <4>2. m[k] = l[k]
          BY <3>2, <1>1
        <4> QED BY <4>1, <4>2
      <3> QED BY <3>1, <3>2, <1>1
    <2> QED BY <2>1, <2>2, <2>3, <2>4 DEF Ordinals
  <1>8. Readable' = Readable \cup {x.item}
    <2>1. Readable' = {m[k].item : k \in Parsed'}
      BY DEF Readable
    <2>2. {m[k].item : k \in Parsed'} = {l[k].item : k \in Parsed} \cup {x.item}
      <3>1. \A k \in Parsed' : m[k].item \in {l[j].item : j \in Parsed} \cup {x.item}
        BY <1>1
      <3>2. x.item \in {m[k].item : k \in Parsed'}
        BY <1>1
      <3>3. \A k \in Parsed : l[k].item \in {m[j].item : j \in Parsed'}
        BY <1>1
      <3> QED BY <3>1, <3>2, <3>3
    <2> QED BY <2>1, <2>2 DEF Readable
  <1> QED BY <1>1, <1>7, <1>8

(* A record written and left behind.                                       *)
LEMMA NextAfter ==
  ASSUME Types, Ordinals, NextOrdinal, QueuedOnce, writer.meta \/ pending # <<>>,
         NEW x \in Line, x.ok, x.ord = writer.next, x.item = Current,
         file'.lines = Append(file.lines, x),
         writer'.next = writer.next + 1, ~writer'.meta
  PROVE  NextOrdinal'
  <1> DEFINE n == Len(file.lines) + 1
             l == file.lines
             m == file'.lines
  <1>1. /\ m[n] = x /\ Parsed' = Parsed \cup {n}
        /\ \A k \in Parsed : m[k] = l[k]
    BY WholeLine
  <1>2. writer.next \in Nat
    BY DEF Types, Writer
  <1>3. \A k \in Parsed : l[k].ord \in Nat /\ l[k].ord <= writer.next
    BY ParsedType DEF NextOrdinal
  <1>4. \A k \in Parsed' : m[k].ord < writer'.next /\ m[k].ord \in Nat
    <2> TAKE k \in Parsed'
    <2>1. CASE k = n
      <3>1. m[k].ord = writer.next
        BY <2>1, <1>1
      <3> QED BY <3>1, <1>2
    <2>2. CASE k \in Parsed
      <3>1. m[k].ord = l[k].ord
        BY <2>2, <1>1
      <3> QED BY <2>2, <3>1, <1>2, <1>3
    <2> QED BY <2>1, <2>2, <1>1
  <1>5. \A i \in Nat : i < writer'.next => \E k \in Parsed' : m[k].ord = i
    <2> TAKE i \in Nat
    <2> HAVE i < writer'.next
    <2>0. i = writer.next \/ i < writer.next
      BY <1>2
    <2>1. CASE i = writer.next
      BY <2>1, <1>1
    <2>2. CASE i < writer.next
      <3>1. PICK k \in Parsed : l[k].ord = i
        BY <2>2 DEF NextOrdinal
      <3> QED BY <3>1, <1>1
    <2> QED BY <2>0, <2>1, <2>2
  <1>6. writer'.next # 0 /\ writer'.next \in Nat
    BY <1>2
  <1>7. \A k \in Parsed' : m[k].ord <= writer'.next /\ m[k].ord # writer'.next
    <2> TAKE k \in Parsed'
    <2>1. m[k].ord < writer'.next /\ m[k].ord \in Nat
      BY <1>4
    <2>2. \A a, b \in Nat : a < b => a <= b /\ a # b
      OBVIOUS
    <2> QED BY <2>1, <2>2, <1>6
  <1> QED BY <1>5, <1>6, <1>7 DEF NextOrdinal

(* A record written that the writer is still at.                           *)
LEMMA NextAgain ==
  ASSUME Types, Ordinals, NextOrdinal, QueuedOnce, writer.meta \/ pending # <<>>,
         NEW x \in Line, x.ok, x.ord = writer.next, x.item = Current,
         file'.lines = Append(file.lines, x),
         UNCHANGED <<writer.next, writer.meta, pending, chan, submitted>>,
         writer'.pc # "items"
  PROVE  NextOrdinal' /\ QueuedOnce'
  <1> DEFINE n == Len(file.lines) + 1
             l == file.lines
             m == file'.lines
  <1>1. /\ m[n] = x /\ Parsed' = Parsed \cup {n} /\ Readable' = Readable \cup {x.item}
        /\ \A k \in Parsed : m[k] = l[k]
    BY WholeLine
  <1>2. writer.next \in Nat
    BY DEF Types, Writer
  <1>3. NextOrdinal'
    <2>1. \A k \in Parsed' : m[k].ord <= writer'.next
      <3> TAKE k \in Parsed'
      <3>1. CASE k = n
        <4>1. m[k].ord = writer.next
          BY <3>1, <1>1
        <4> QED BY <4>1, <1>2
      <3>2. CASE k \in Parsed
        <4>1. m[k].ord = l[k].ord
          BY <3>2, <1>1
        <4> QED BY <3>2, <4>1 DEF NextOrdinal
      <3> QED BY <3>1, <3>2, <1>1
    <2>2. \A i \in Nat : i < writer'.next => \E k \in Parsed' : m[k].ord = i
      <3> TAKE i \in Nat
      <3> HAVE i < writer'.next
      <3>1. PICK k \in Parsed : l[k].ord = i
        BY DEF NextOrdinal
      <3> QED BY <3>1, <1>1
    <2>3. \A k \in Parsed' : m[k].ord = writer'.next =>
            IF writer'.meta THEN m[k].item = Meta
            ELSE pending' # <<>> /\ m[k].item = Head(pending')
      <3> TAKE k \in Parsed'
      <3> HAVE m[k].ord = writer'.next
      <3>1. CASE k = n
        BY <3>1, <1>1 DEF Current
      <3>2. CASE k \in Parsed
        BY <3>2, <1>1 DEF NextOrdinal
      <3> QED BY <3>1, <3>2, <1>1
    <2> QED BY <2>1, <2>2, <2>3 DEF NextOrdinal
  <1>4. QueuedOnce'
    <2>1. Queue' = Queue /\ Waiting' = Waiting
      BY DEF Queue, Waiting
    <2>2. \A k \in Parsed' : m[k].ord < writer'.next => m[k].item \notin Waiting
      <3> TAKE k \in Parsed'
      <3> HAVE m[k].ord < writer'.next
      <3>1. k # n
        BY <1>1, <1>2
      <3> QED BY <3>1, <1>1 DEF QueuedOnce
    <2> QED BY <2>1, <2>2, <1>1 DEF QueuedOnce
  <1> QED BY <1>3, <1>4

(* Steps that leave the records and the writer's place alone.              *)
LEMMA SamePlace ==
  ASSUME Types, NextOrdinal,
         Parsed' = Parsed, \A k \in Parsed : file'.lines[k] = file.lines[k],
         UNCHANGED <<writer.next, writer.meta>>,
         pending # <<>> => pending' # <<>> /\ Head(pending') = Head(pending),
         writer'.pc = "items" => ~writer.meta
  PROVE  NextOrdinal'
  BY DEF NextOrdinal

LEMMA SameQueue ==
  ASSUME Types, QueuedOnce,
         Parsed' = Parsed, \A k \in Parsed : file'.lines[k] = file.lines[k],
         UNCHANGED <<writer.next, submitted, Queue>>
  PROVE  QueuedOnce'
  <1>1. Readable' = Readable
    BY DEF Readable
  <1>2. Waiting' = Waiting
    BY DEF Waiting
  <1> QED BY <1>1, <1>2 DEF QueuedOnce
-----------------------------------------------------------------------------
(* The records and the queue, action by action.                            *)
LEMMA QueueGrows ==
  ASSUME Types, NEW x \in Items \cup {Meta}, Queue' = Append(Queue, x)
  PROVE  /\ DOMAIN Queue' = 1..(Len(Queue) + 1) /\ Queue'[Len(Queue) + 1] = x
         /\ \A q \in DOMAIN Queue : Queue'[q] = Queue[q]
         /\ Waiting' = (Waiting \cup {x}) \ {Meta}
  <1>1. Queue \in Seq(Items \cup {Meta}) /\ Len(Queue) \in Nat /\ DOMAIN Queue = 1..Len(Queue)
    BY QueueType
  <1>2. /\ DOMAIN Queue' = 1..(Len(Queue) + 1) /\ Queue'[Len(Queue) + 1] = x
        /\ \A q \in DOMAIN Queue : Queue'[q] = Queue[q]
    BY <1>1
  <1>3. DOMAIN Queue' = DOMAIN Queue \cup {Len(Queue) + 1}
    BY <1>1, <1>2
  <1>4. Waiting' = (Waiting \cup {x}) \ {Meta}
    BY <1>2, <1>3 DEF Waiting
  <1> QED BY <1>2, <1>4

LEMMA RecordRecords ==
  ASSUME Types, Records, NEW i \in Items, Record(i)
  PROVE  Records'
  <1> DEFINE c == [kind |-> "add", item |-> i, ack |-> FALSE]
  <1>0. c \in Cmd /\ c.item = i
    BY DEF Cmd
  <1>1. /\ proc = "open" /\ i \notin submitted /\ i \notin Readable
        /\ chan' = Append(chan, c) /\ submitted' = submitted \cup {i}
        /\ UNCHANGED <<file, writer, pending, acked, proc>>
    BY DEF Record, Send, diskVars
  <1> HIDE DEF c
  <1>2. Queue' = Append(Queue, i)
    BY <1>0, <1>1, QueueSend
  <1>3. Parsed' = Parsed /\ Readable' = Readable /\ Ordinals'
    BY <1>1, SameLines DEF Records
  <1>4. NextOrdinal'
    BY <1>1, <1>3 DEF Records, NextOrdinal
  <1>5. /\ DOMAIN Queue' = 1..(Len(Queue) + 1) /\ Queue'[Len(Queue) + 1] = i
        /\ \A q \in DOMAIN Queue : Queue'[q] = Queue[q]
        /\ Waiting' = Waiting \cup {i}
        /\ Len(Queue) \in Nat /\ DOMAIN Queue = 1..Len(Queue)
    BY <1>2, QueueGrows, QueueType, MetaAssumption
  <1>6. i \notin Waiting
    BY <1>1 DEF Records, QueuedOnce
  <1>7. QueuedOnce'
    <2>1. \A p, q \in DOMAIN Queue' : Queue'[p] = Queue'[q] /\ Queue'[p] # Meta => p = q
      <3> TAKE p, q \in DOMAIN Queue'
      <3> HAVE Queue'[p] = Queue'[q] /\ Queue'[p] # Meta
      <3>0. /\ p = Len(Queue) + 1 \/ p \in DOMAIN Queue
            /\ q = Len(Queue) + 1 \/ q \in DOMAIN Queue
        BY <1>5
      <3>1. CASE p \in DOMAIN Queue /\ q \in DOMAIN Queue
        <4>1. Queue[p] = Queue[q] /\ Queue[p] # Meta
          BY <3>1, <1>5
        <4> QED BY <3>1, <4>1, <1>1 DEF Records, QueuedOnce
      <3>2. ASSUME NEW r \in DOMAIN Queue, Queue'[r] = i PROVE FALSE
        <4>1. Queue[r] = i /\ i # Meta
          BY <3>2, <1>5, MetaAssumption
        <4> QED BY <4>1, <1>6 DEF Waiting
      <3> QED BY <3>0, <3>1, <3>2, <1>5
    <2>2. \A k \in Parsed' : file'.lines[k].ord < writer'.next => file'.lines[k].item \notin Waiting'
      <3> TAKE k \in Parsed'
      <3> HAVE file'.lines[k].ord < writer'.next
      <3>1. file.lines[k].item \in Readable /\ k \in Parsed
        BY <1>3 DEF Readable
      <3>2. file.lines[k].item \notin Waiting
        BY <3>1, <1>1 DEF Records, QueuedOnce
      <3> QED BY <3>1, <3>2, <1>1, <1>5
    <2>3. Waiting' \subseteq submitted' /\ submitted' \subseteq Readable' \cup Waiting'
      BY <1>1, <1>3, <1>5 DEF Records, QueuedOnce
    <2> QED BY <2>1, <2>2, <2>3 DEF QueuedOnce
  <1> QED BY <1>1, <1>3, <1>4, <1>7 DEF Records, AckedIsReadable

LEMMA BarrierRecords ==
  ASSUME Types, Types', Records, SendBarrier, proc = "open"
  PROVE  Records'
  <1> DEFINE c == [kind |-> client.op, item |-> Meta, ack |-> TRUE]
  <1>1. /\ chan' = Append(chan, c) /\ UNCHANGED <<file, writer, pending, acked, proc, submitted>>
    BY DEF SendBarrier, Send, diskVars
  <1>0. c.item = Meta
    OBVIOUS
  <1> HIDE DEF c
  <1>a. c \in Cmd
    <2>1. chan' \in Seq(Cmd)
      BY DEF Types
    <2>2. DOMAIN chan' = 1..Len(chan') /\ \A k \in 1..Len(chan') : chan'[k] \in Cmd
      BY <2>1
    <2>3. chan \in Seq(Cmd)
      BY DEF Types
    <2>4. Len(chan') = Len(chan) + 1 /\ chan'[Len(chan) + 1] = c /\ Len(chan) \in Nat
      BY <1>1, <2>3
    <2>5. Len(chan) + 1 \in 1..Len(chan')
      BY <2>4
    <2> QED BY <2>2, <2>4, <2>5
  <1>2. Queue' = Append(Queue, Meta)
    BY <1>0, <1>1, <1>a, QueueSend
  <1>3. Parsed' = Parsed /\ Readable' = Readable /\ Ordinals'
    BY <1>1, SameLines DEF Records
  <1>4. NextOrdinal'
    BY <1>1, <1>3 DEF Records, NextOrdinal
  <1>5. /\ DOMAIN Queue' = 1..(Len(Queue) + 1) /\ Queue'[Len(Queue) + 1] = Meta
        /\ \A q \in DOMAIN Queue : Queue'[q] = Queue[q]
        /\ Waiting' = (Waiting \cup {Meta}) \ {Meta}
    BY <1>2, QueueGrows
  <1>b. Waiting' = Waiting /\ Len(Queue) \in Nat /\ DOMAIN Queue = 1..Len(Queue)
    <2>1. Meta \notin Waiting /\ Len(Queue) \in Nat /\ DOMAIN Queue = 1..Len(Queue)
      BY QueueType
    <2> QED BY <2>1, <1>5
  <1>7. QueuedOnce'
    <2>1. \A p, q \in DOMAIN Queue' : Queue'[p] = Queue'[q] /\ Queue'[p] # Meta => p = q
      <3> TAKE p, q \in DOMAIN Queue'
      <3> HAVE Queue'[p] = Queue'[q] /\ Queue'[p] # Meta
      <3>1. p \in DOMAIN Queue /\ q \in DOMAIN Queue
        BY <1>5, <1>b
      <3>2. Queue[p] = Queue[q] /\ Queue[p] # Meta
        BY <3>1, <1>5
      <3> QED BY <3>1, <3>2 DEF Records, QueuedOnce
    <2>2. \A k \in Parsed' : file'.lines[k].ord < writer'.next => file'.lines[k].item \notin Waiting'
      BY <1>1, <1>3, <1>b DEF Records, QueuedOnce
    <2>3. Waiting' \subseteq submitted' /\ submitted' \subseteq Readable' \cup Waiting'
      BY <1>1, <1>3, <1>b DEF Records, QueuedOnce
    <2> QED BY <2>1, <2>2, <2>3 DEF QueuedOnce
  <1> QED BY <1>1, <1>3, <1>4, <1>7 DEF Records, AckedIsReadable

(* Steps that touch neither the file, nor the queue, nor the writer's      *)
(* place.                                                                  *)
LEMMA QuietRecords ==
  ASSUME Types, Records,
         file'.lines = file.lines,
         proc' = "open" => /\ proc = "open"
                           /\ UNCHANGED <<writer.next, writer.meta, Queue, submitted, pending>>
                           /\ writer'.pc = "items" => writer.pc = "items" \/ ~writer.meta,
         acked' \subseteq acked \cup Readable
  PROVE  Records'
  <1>1. /\ Parsed' = Parsed /\ Readable' = Readable /\ Ordinals'
        /\ \A k \in Parsed : file'.lines[k] = file.lines[k]
    BY SameLines DEF Records
  <1>2. ASSUME proc' = "open" PROVE NextOrdinal' /\ QueuedOnce'
    <2>1. /\ NextOrdinal /\ QueuedOnce
          /\ UNCHANGED <<writer.next, writer.meta, Queue, submitted, pending>>
          /\ writer'.pc = "items" => writer.pc = "items" \/ ~writer.meta
      BY <1>2 DEF Records
    <2>2. writer'.pc = "items" => ~writer.meta
      BY <2>1 DEF NextOrdinal
    <2>3. NextOrdinal'
      BY <2>1, <2>2, <1>1, SamePlace
    <2>4. QueuedOnce'
      BY <2>1, <1>1, SameQueue
    <2> QED BY <2>3, <2>4
  <1>3. AckedIsReadable'
    BY <1>1 DEF Records, AckedIsReadable
  <1> QED BY <1>1, <1>2, <1>3 DEF Records

LEMMA CallRecords ==
  ASSUME Types, Types', Dropped, Records, CallStep
  PROVE  Records'
  <1>1. ASSUME NEW i \in Items, Record(i) PROVE Records'
    BY <1>1, RecordRecords
  <1>2. ASSUME NEW op \in Barriers, Begin(op) PROVE Records'
    <2>1. UNCHANGED <<file, writer, pending, chan, proc, submitted, acked>> /\ proc = "open"
      BY <1>2 DEF Begin, diskVars
    <2>2. UNCHANGED Queue
      BY <2>1 DEF Queue
    <2> QED BY <2>1, <2>2, QuietRecords
  <1>3. CASE SendBarrier
    <2>1. proc = "open"
      BY <1>3 DEF SendBarrier, Dropped, IdleClient
    <2> QED BY <1>3, <2>1, BarrierRecords
  <1>4. CASE Cancel
    <2>1. UNCHANGED <<file, pending, proc, submitted, acked>> /\ proc = "open"
      BY <1>4 DEF Cancel, diskVars, Dropped, IdleClient
    <2>2. UNCHANGED <<writer.next, writer.meta, writer.pc>>
      BY <1>4 DEF Cancel, Types, Writer
    <2>3. UNCHANGED Queue
      BY <1>4, QueueCancel
    <2> QED BY <2>1, <2>2, <2>3, QuietRecords
  <1> QED BY <1>1, <1>2, <1>3, <1>4 DEF CallStep

LEMMA ReceiveRecords ==
  ASSUME Types, Dropped, Protocol, Records, Receive
  PROVE  Records'
  <1>0. writer \in Writer
    BY DEF Types
  <1>1. /\ UNCHANGED <<file, proc, submitted, acked>> /\ writer.pc = "recv"
    BY DEF Receive, diskVars
  <1>2. UNCHANGED <<writer.next, writer.meta>> /\ writer'.pc # "items"
    BY <1>0 DEF Receive, Writer
  <1>3. proc = "open"
    BY <1>1 DEF Dropped, StoppedWriter, CreatedWriter
  <1>4. /\ Parsed' = Parsed /\ Readable' = Readable /\ Ordinals'
        /\ \A k \in Parsed : file'.lines[k] = file.lines[k]
    BY <1>1, SameLines DEF Records
  <1>5. /\ chan # <<>>
        /\ Head(chan).item # Meta => Queue' = Queue
        /\ Head(chan).item = Meta => Queue = Cat(pending, chan) /\ Queue' = Cat(pending, Tail(chan))
        /\ (Head(chan).item = Meta /\ pending' = pending) \/ pending' = Append(pending, Head(chan).item)
    BY QueueReceive
  <1>6. NextOrdinal'
    <2>1. pending # <<>> => pending' # <<>> /\ Head(pending') = Head(pending)
      <3>1. pending \in Seq(Items) /\ chan \in Seq(Cmd)
        BY DEF Types
      <3>2. \A s \in Seq(Items) : \A y : s # <<>> => Append(s, y) # <<>> /\ Head(Append(s, y)) = Head(s)
        OBVIOUS
      <3> QED BY <3>1, <3>2, <1>5
    <2> QED BY <2>1, <1>2, <1>3, <1>4, SamePlace DEF Records
  <1>7. QueuedOnce'
    <2>1. CASE Head(chan).item # Meta
      BY <2>1, <1>1, <1>2, <1>3, <1>4, <1>5, SameQueue DEF Records
    <2>2. CASE Head(chan).item = Meta
      <3> DEFINE m == Len(pending) + 1
                 f(q) == IF q < m THEN q ELSE q + 1
      <3>0. pending \in Seq(Items) /\ chan \in Seq(Cmd) /\ Len(pending) \in Nat
        BY DEF Types
      <3>1. /\ m \in DOMAIN Queue /\ Queue[m] = Meta
            /\ DOMAIN Queue = 1..(Len(Queue') + 1)
            /\ DOMAIN Queue' = 1..Len(Queue') /\ Len(Queue') \in Nat
            /\ \A q \in DOMAIN Queue' : Queue'[q] = Queue[f(q)]
        BY <2>2, <3>0, <1>5, CatDrop
      <3>2. m \in Nat
        BY <3>0
      <3> HIDE DEF m
      <3>3. \A q \in DOMAIN Queue' : f(q) \in DOMAIN Queue
        BY <3>1, <3>2
      <3>4. \A p, q \in DOMAIN Queue' : f(p) = f(q) => p = q
        BY <3>1, <3>2
      <3>5. \A r \in DOMAIN Queue : r # m => \E q \in DOMAIN Queue' : r = f(q)
        <4> TAKE r \in DOMAIN Queue
        <4> HAVE r # m
        <4>1. CASE r < m
          <5>1. r \in DOMAIN Queue'
            BY <4>1, <3>1, <3>2
          <5> QED BY <4>1, <5>1
        <4>2. CASE r > m
          <5>1. r - 1 \in DOMAIN Queue' /\ ~(r - 1 < m) /\ (r - 1) + 1 = r
            BY <4>2, <3>1, <3>2
          <5> QED BY <5>1
        <4> QED BY <4>1, <4>2, <3>1, <3>2
      <3> HIDE DEF f
      <3>6. Waiting' = Waiting
        <4>1. ASSUME NEW i \in Waiting' PROVE i \in Waiting
          <5>1. PICK q \in DOMAIN Queue' : i = Queue'[q] /\ i # Meta
            BY <4>1 DEF Waiting
          <5> QED BY <5>1, <3>1, <3>3 DEF Waiting
        <4>2. ASSUME NEW i \in Waiting PROVE i \in Waiting'
          <5>1. PICK r \in DOMAIN Queue : i = Queue[r] /\ i # Meta
            BY <4>2 DEF Waiting
          <5>2. PICK q \in DOMAIN Queue' : r = f(q)
            BY <5>1, <3>1, <3>5
          <5>3. i = Queue'[q]
            BY <5>1, <5>2, <3>1
          <5> QED BY <5>1, <5>3 DEF Waiting
        <4> QED BY <4>1, <4>2
      <3>7. \A p, q \in DOMAIN Queue' : Queue'[p] = Queue'[q] /\ Queue'[p] # Meta => p = q
        <4> TAKE p, q \in DOMAIN Queue'
        <4> HAVE Queue'[p] = Queue'[q] /\ Queue'[p] # Meta
        <4>1. Queue[f(p)] = Queue[f(q)] /\ Queue[f(p)] # Meta /\ f(p) \in DOMAIN Queue /\ f(q) \in DOMAIN Queue
          BY <3>1, <3>3
        <4>2. f(p) = f(q)
          BY <4>1, <1>3 DEF Records, QueuedOnce
        <4> QED BY <4>2, <3>4
      <3>8. \A k \in Parsed' : file'.lines[k].ord < writer'.next => file'.lines[k].item \notin Waiting'
        BY <3>6, <1>1, <1>2, <1>3, <1>4 DEF Records, QueuedOnce
      <3>9. Waiting' \subseteq submitted' /\ submitted' \subseteq Readable' \cup Waiting'
        BY <3>6, <1>1, <1>3, <1>4 DEF Records, QueuedOnce
      <3> QED BY <3>7, <3>8, <3>9 DEF QueuedOnce
    <2> QED BY <2>1, <2>2
  <1> QED BY <1>1, <1>3, <1>4, <1>6, <1>7 DEF Records, AckedIsReadable

(* A writer at work belongs to an open recorder.                           *)
LEMMA WriterOpen ==
  ASSUME Dropped, writer.pc # "stopped"
  PROVE  proc = "open"
  BY DEF Dropped, StoppedWriter, CreatedWriter

LEMMA MetaRecords ==
  ASSUME Types, Dropped, Records, WriteMeta
  PROVE  Records'
  <1>0. writer \in Writer /\ file \in File
    BY DEF Types
  <1>1. /\ writer.pc = "meta"
        /\ UNCHANGED <<pending, chan, proc, submitted, acked>>
    BY DEF WriteMeta
  <1>2. proc = "open"
    BY <1>1, WriterOpen
  <1>3. Queue' = Queue /\ Waiting' = Waiting
    BY <1>1 DEF Queue, Waiting
  <1>4. Ordinals /\ NextOrdinal /\ QueuedOnce /\ AckedIsReadable
    BY <1>2 DEF Records
  <1>5. CASE ~writer.meta
    <2>1. /\ UNCHANGED <<file, writer.next, writer.meta>>
      BY <1>0, <1>5 DEF WriteMeta, Writer
    <2> QED BY <1>1, <1>2, <1>3, <1>5, <2>1, QuietRecords
  <1>6. CASE writer.meta
    <2> DEFINE x == [item |-> Meta, ord |-> writer.next, ok |-> TRUE]
               n == Len(file.lines) + 1
    <2>1. x \in Line /\ x.ok /\ x.ord = writer.next /\ x.item = Meta
      BY NewLine
    <2>2. /\ file'.lines = Append(file.lines, x)
          /\ writer'.next = writer.next + 1 /\ ~writer'.meta
      BY <1>0, <1>6 DEF WriteMeta, Appended, Advanced, Writer, File
    <2> HIDE DEF x
    <2>3. x.item = Current
      BY <2>1, <1>6 DEF Current
    <2>4. /\ Ordinals'
          /\ Parsed' = Parsed \cup {n} /\ file'.lines[n] = x
          /\ \A k \in Parsed : file'.lines[k] = file.lines[k]
          /\ Readable' = Readable \cup {x.item}
      BY <1>4, <1>6, <2>1, <2>2, <2>3, WholeLine
    <2>5. NextOrdinal'
      BY <1>4, <1>6, <2>1, <2>2, <2>3, NextAfter
    <2>6. writer.next = 0 /\ Meta \notin Waiting
      BY <1>4, <1>6, QueueType DEF NextOrdinal
    <2>7. \A k \in Parsed' : file'.lines[k].item = Meta
      <3> TAKE k \in Parsed'
      <3>1. CASE k = n
        BY <3>1, <2>1, <2>4
      <3>2. CASE k \in Parsed
        <4>1. file.lines[k].ord <= 0 /\ file.lines[k].ord \in Nat
          BY <3>2, <2>6, <1>4, ParsedType DEF NextOrdinal
        <4>2. file.lines[k].ord = 0
          BY <4>1
        <4> QED BY <4>2, <3>2, <2>4, <1>4 DEF Ordinals
      <3> QED BY <3>1, <3>2, <2>4
    <2>8. QueuedOnce'
      BY <2>4, <2>6, <2>7, <1>1, <1>3, <1>4 DEF QueuedOnce
    <2> QED BY <2>4, <2>5, <2>8, <1>1, <1>4 DEF Records, AckedIsReadable
  <1> QED BY <1>5, <1>6

LEMMA ItemRecords ==
  ASSUME Types, Dropped, Records, WriteItem
  PROVE  Records'
  <1>0. writer \in Writer /\ file \in File
    BY DEF Types
  <1>1. /\ writer.pc = "items" /\ pending # <<>> /\ pending' = Tail(pending)
        /\ UNCHANGED <<chan, proc, submitted, acked>>
    BY DEF WriteItem
  <1>2. proc = "open"
    BY <1>1, WriterOpen
  <1>4. Ordinals /\ NextOrdinal /\ QueuedOnce /\ AckedIsReadable /\ ~writer.meta
    BY <1>1, <1>2 DEF Records, NextOrdinal
  <1> DEFINE x == [item |-> Head(pending), ord |-> writer.next, ok |-> TRUE]
             n == Len(file.lines) + 1
  <1>5. x \in Line /\ x.ok /\ x.ord = writer.next /\ x.item = Head(pending)
    BY <1>1, HeadPending, NewLine
  <1>6. /\ file'.lines = Append(file.lines, x)
        /\ writer'.next = writer.next + 1 /\ UNCHANGED writer.meta
    BY <1>0 DEF WriteItem, Appended, Advanced, Writer, File
  <1> HIDE DEF x
  <1>7. x.item = Current
    BY <1>4, <1>5 DEF Current
  <1>8. /\ Ordinals'
        /\ Parsed' = Parsed \cup {n} /\ file'.lines[n] = x
        /\ \A k \in Parsed : file'.lines[k] = file.lines[k]
        /\ Readable' = Readable \cup {x.item}
    BY <1>1, <1>4, <1>5, <1>6, <1>7, WholeLine
  <1>9. NextOrdinal'
    BY <1>1, <1>4, <1>5, <1>6, <1>7, NextAfter
  <1>10. /\ Queue[1] = x.item /\ Len(Queue) > 0 /\ DOMAIN Queue' = 1..(Len(Queue) - 1)
         /\ \A q \in DOMAIN Queue' : Queue'[q] = Queue[q + 1]
    BY <1>1, <1>5, QueueWrite
  <1>11. Len(Queue) \in Nat /\ DOMAIN Queue = 1..Len(Queue) /\ x.item \in Waiting /\ x.item # Meta
    BY <1>1, <1>5, QueueType, QueueHead
  <1>12. \A q \in DOMAIN Queue' : q \in Nat /\ q + 1 \in DOMAIN Queue /\ q + 1 # 1
    BY <1>10, <1>11
  <1>13. 1 \in DOMAIN Queue
    BY <1>10, <1>11
  <1>14. \A p, q \in DOMAIN Queue' : Queue'[p] = Queue'[q] /\ Queue'[p] # Meta => p = q
    <2> TAKE p, q \in DOMAIN Queue'
    <2> HAVE Queue'[p] = Queue'[q] /\ Queue'[p] # Meta
    <2>1. p + 1 = q + 1
      BY <1>4, <1>10, <1>12 DEF QueuedOnce
    <2> QED BY <2>1, <1>12
  <1>15. Waiting' = Waiting \ {x.item}
    <2>1. ASSUME NEW i \in Waiting' PROVE i \in Waiting /\ i # x.item
      <3>1. PICK q \in DOMAIN Queue' : i = Queue'[q] /\ i # Meta
        BY <2>1 DEF Waiting
      <3>2. q + 1 \in DOMAIN Queue /\ i = Queue[q + 1] /\ q + 1 # 1
        BY <3>1, <1>10, <1>12
      <3>3. i # x.item
        BY <3>1, <3>2, <1>4, <1>10, <1>13 DEF QueuedOnce
      <3> QED BY <3>1, <3>2, <3>3 DEF Waiting
    <2>2. ASSUME NEW i \in Waiting, i # x.item PROVE i \in Waiting'
      <3>1. PICK q \in DOMAIN Queue : i = Queue[q] /\ i # Meta
        BY <2>2 DEF Waiting
      <3>2. q - 1 \in DOMAIN Queue' /\ (q - 1) + 1 = q
        BY <3>1, <2>2, <1>10, <1>11
      <3>3. i = Queue'[q - 1]
        BY <3>1, <3>2, <1>10
      <3> QED BY <3>1, <3>2, <3>3 DEF Waiting
    <2> QED BY <2>1, <2>2
  <1>16. \A k \in Parsed' : file'.lines[k].ord < writer'.next => file'.lines[k].item \notin Waiting'
    <2> TAKE k \in Parsed'
    <2> HAVE file'.lines[k].ord < writer'.next
    <2>1. CASE k = n
      BY <2>1, <1>8, <1>15
    <2>2. CASE k \in Parsed
      <3>1. file.lines[k].ord \in Nat /\ writer.next \in Nat /\ file.lines[k].ord <= writer.next
        BY <2>2, <1>0, <1>4, ParsedType DEF NextOrdinal, Writer
      <3>2. CASE file.lines[k].ord < writer.next
        BY <3>2, <2>2, <1>4, <1>8, <1>15 DEF QueuedOnce
      <3>3. CASE file.lines[k].ord = writer.next
        <4>1. file.lines[k].item = x.item
          BY <3>3, <2>2, <1>4, <1>5 DEF NextOrdinal
        <4> QED BY <4>1, <2>2, <1>8, <1>15
      <3> QED BY <3>1, <3>2, <3>3
    <2> QED BY <2>1, <2>2, <1>8
  <1>17. QueuedOnce'
    <2>1. Waiting' \subseteq submitted' /\ submitted' \subseteq Readable' \cup Waiting'
      BY <1>1, <1>4, <1>8, <1>15 DEF QueuedOnce
    <2> QED BY <2>1, <1>14, <1>16 DEF QueuedOnce
  <1> QED BY <1>1, <1>4, <1>8, <1>9, <1>17 DEF Records, AckedIsReadable

LEMMA FailRecords ==
  ASSUME Types, Dropped, Records, WriteFails
  PROVE  Records'
  <1>0. writer \in Writer /\ file \in File
    BY DEF Types
  <1>1. /\ UNCHANGED <<pending, chan, proc, submitted, acked>>
        /\ (writer.pc = "meta" /\ writer.meta) \/ (writer.pc = "items" /\ pending # <<>>)
    BY DEF WriteFails, Recover
  <1>2. proc = "open"
    BY <1>1, WriterOpen
  <1>3. Queue' = Queue
    BY <1>1 DEF Queue
  <1>4. Ordinals /\ NextOrdinal /\ QueuedOnce /\ AckedIsReadable
        /\ (writer.pc = "items" => ~writer.meta)
    BY <1>2 DEF Records, NextOrdinal
  <1>5. UNCHANGED <<writer.next, writer.meta>> /\ writer'.pc # "items"
    BY <1>0 DEF WriteFails, Recover, Writer
  <1>6. CASE UNCHANGED file
    BY <1>1, <1>2, <1>3, <1>5, <1>6, QuietRecords
  <1>7. ASSUME NEW ok \in BOOLEAN,
               file' = [file EXCEPT !.cut = TRUE, !.lines = Appended(Current, ok)]
        PROVE  Records'
    <2> DEFINE x == [item |-> Current, ord |-> writer.next, ok |-> ok]
               n == Len(file.lines) + 1
    <2>0. Current \in Items \cup {Meta}
      BY <1>1, <1>4, HeadPending DEF Current
    <2>1. x \in Line /\ x.ok = ok /\ x.ord = writer.next /\ x.item = Current
      BY <2>0, NewLine
    <2>2. file'.lines = Append(file.lines, x)
      BY <1>0, <1>7 DEF Appended, File
    <2> HIDE DEF x
    <2>3. CASE ok
      <3>1. /\ Ordinals' /\ Readable' = Readable \cup {x.item}
        BY <1>1, <1>4, <2>1, <2>2, <2>3, WholeLine
      <3>2. NextOrdinal' /\ QueuedOnce'
        BY <1>1, <1>4, <1>5, <2>1, <2>2, <2>3, NextAgain
      <3> QED BY <3>1, <3>2, <1>1, <1>4 DEF Records, AckedIsReadable
    <2>4. CASE ~ok
      <3>1. /\ Parsed' = Parsed /\ Readable' = Readable /\ Ordinals'
            /\ \A k \in Parsed : file'.lines[k] = file.lines[k]
        BY <1>4, <2>1, <2>2, <2>4, TornLine
      <3>2. NextOrdinal'
        BY <3>1, <1>1, <1>4, <1>5, SamePlace
      <3>3. QueuedOnce'
        BY <3>1, <1>1, <1>3, <1>4, <1>5, SameQueue
      <3> QED BY <3>1, <3>2, <3>3, <1>1, <1>4 DEF Records, AckedIsReadable
    <2> QED BY <2>3, <2>4
  <1>8. (IF writer.pc = "meta" THEN Meta ELSE Head(pending)) = Current
    BY <1>1, <1>4 DEF Current
  <1>9. \/ UNCHANGED file
        \/ \E ok \in BOOLEAN : file' = [file EXCEPT !.cut = TRUE,
              !.lines = Appended(IF writer.pc = "meta" THEN Meta ELSE Head(pending), ok)]
    BY DEF WriteFails
  <1> QED BY <1>6, <1>7, <1>8, <1>9

LEMMA FinishRecords ==
  ASSUME Types, Dropped, Protocol, Records, Finish
  PROVE  Records'
  <1>0. writer \in Writer
    BY DEF Types
  <1>1. /\ writer.pc \in {"done", "failed"}
        /\ UNCHANGED <<file, pending, chan, proc, submitted>>
        /\ acked' = IF writer.ack /\ writer.pc = "done" THEN acked \cup submitted ELSE acked
    BY DEF Finish, Answer, diskVars
  <1>2. UNCHANGED <<writer.next, writer.meta>> /\ writer'.pc # "items"
    BY <1>0 DEF Finish, Writer
  <1>3. proc = "open" /\ Queue' = Queue
    BY <1>1, WriterOpen DEF Queue
  <1>4. ASSUME writer.ack, writer.pc = "done" PROVE submitted \subseteq Readable
    <2>1. pending = <<>> /\ chan = <<>>
      BY <1>4 DEF Protocol, Answering, Drained
    <2>2. DOMAIN Queue = {}
      <3>1. Len(Queue) = Len(pending) + Len(chan) /\ DOMAIN Queue = 1..Len(Queue)
        BY QueueType
      <3>2. Len(pending) = 0 /\ Len(chan) = 0
        BY <2>1
      <3> QED BY <3>1, <3>2
    <2>3. Waiting = {}
      BY <2>2 DEF Waiting
    <2> QED BY <2>3, <1>3 DEF Records, QueuedOnce
  <1>5. acked' \subseteq acked \cup Readable
    BY <1>1, <1>4
  <1> QED BY <1>1, <1>2, <1>3, <1>5, QuietRecords

LEMMA WriterRecords ==
  ASSUME Types, Dropped, Protocol, Records, WriterStep
  PROVE  Records'
  <1>0. writer \in Writer /\ file \in File
    BY DEF Types
  <1>1. CASE Receive
    BY <1>1, ReceiveRecords
  <1>2. CASE OpenFile
    <2>1. /\ UNCHANGED <<pending, chan, proc, submitted, acked>> /\ writer.pc = "open"
      BY <1>2 DEF OpenFile
    <2>2. UNCHANGED <<writer.next, writer.meta>> /\ writer'.pc # "items"
      BY <1>0, <1>2 DEF OpenFile, Writer
    <2>3. file'.lines = file.lines
      BY <1>0, <1>2 DEF OpenFile, Terminated, File
    <2>4. proc = "open" /\ Queue' = Queue
      BY <2>1, WriterOpen DEF Queue
    <2> QED BY <2>1, <2>2, <2>3, <2>4, QuietRecords
  <1>3. CASE WriteMeta
    BY <1>3, MetaRecords
  <1>4. CASE WriteItem
    BY <1>4, ItemRecords
  <1>5. CASE FlushFile
    <2>1. /\ UNCHANGED <<file, pending, chan, proc, submitted, acked>> /\ writer.pc = "items"
      BY <1>5 DEF FlushFile, diskVars
    <2>2. UNCHANGED <<writer.next, writer.meta>> /\ writer'.pc # "items"
      BY <1>0, <1>5 DEF FlushFile, Writer
    <2>3. proc = "open" /\ Queue' = Queue
      BY <2>1, WriterOpen DEF Queue
    <2> QED BY <2>1, <2>2, <2>3, QuietRecords
  <1>6. CASE OpenFails
    <2>1. /\ UNCHANGED <<pending, chan, proc, submitted, acked>>
          /\ writer.pc \in {"open", "items"}
      BY <1>6 DEF OpenFails, Recover
    <2>2. UNCHANGED <<writer.next, writer.meta>> /\ writer'.pc # "items"
      BY <1>0, <1>6 DEF OpenFails, Recover, Writer
    <2>3. file'.lines = file.lines
      BY <1>0, <1>6 DEF OpenFails, File
    <2>4. proc = "open" /\ Queue' = Queue
      BY <2>1, WriterOpen DEF Queue
    <2> QED BY <2>1, <2>2, <2>3, <2>4, QuietRecords
  <1>7. CASE WriteFails
    BY <1>7, FailRecords
  <1>8. CASE Finish
    BY <1>8, FinishRecords
  <1> QED BY <1>1, <1>2, <1>3, <1>4, <1>5, <1>6, <1>7, <1>8 DEF WriterStep

LEMMA ProjectRecords ==
  ASSUME Types, Dropped, Records, ProjectStep
  PROVE  Records'
  <1>1. /\ UNCHANGED <<file, pending, chan, acked>>
        /\ client.pc \in {"read", "apply"}
        /\ Leave \/ UNCHANGED <<writer, proc, submitted>>
    BY DEF ProjectStep, ReadSteps, ReadNothing, ApplyProjection, ApplyFails, diskVars
  <1>2. proc = "open" /\ Queue' = Queue
    BY <1>1 DEF Queue, Dropped, IdleClient
  <1>3. proc' = "open" => UNCHANGED <<writer, submitted>>
    BY <1>1 DEF Leave
  <1> QED BY <1>1, <1>2, <1>3, QuietRecords

(* The writer of a resumed thread goes on after the last record.           *)
LEMMA ResumeRecords ==
  ASSUME Types, Dropped, Records, Resume
  PROVE  Records'
  <1>0. writer \in Writer /\ file \in File
    BY DEF Types
  <1>1. /\ proc # "open" /\ Meta \in Readable
        /\ UNCHANGED <<pending, chan, submitted, acked>>
    BY DEF Resume
  <1>2. file'.lines = file.lines
    BY <1>0 DEF Resume, Terminated, File
  <1>3. /\ Parsed' = Parsed /\ Readable' = Readable /\ Ordinals /\ Ordinals'
    BY <1>2, SameLines DEF Records
  <1>4. CASE proc' # "open"
    BY <1>1, <1>3, <1>4 DEF Records, AckedIsReadable
  <1>5. CASE proc' = "open"
    <2> DEFINE l == file.lines
               z == Max(Parsed)
    <2>1. /\ writer'.next = l[z].ord + 1 /\ ~writer'.meta /\ writer'.pc = "recv"
      BY <1>1, <1>5 DEF Resume, ResumeOrdinal
    <2>2. /\ z \in Parsed /\ \A k \in Parsed : k <= z
      <3>1. Parsed # {}
        BY <1>1 DEF Readable
      <3> QED BY <3>1, LastParsed
    <2> HIDE DEF z
    <2>3. \A k \in Parsed : k \in Nat /\ l[k].ord \in Nat
      BY ParsedType
    <2>4. \A k \in Parsed : l[k].ord <= l[z].ord
      <3> TAKE k \in Parsed
      <3>1. k = z \/ k < z
        BY <2>2, <2>3
      <3> QED BY <3>1, <2>2, <2>3, <1>3 DEF Ordinals
    <2>5. \A n \in Nat : n < l[z].ord + 1 => \E k \in Parsed : l[k].ord = n
      <3> TAKE n \in Nat
      <3> HAVE n < l[z].ord + 1
      <3>1. CASE n = l[z].ord
        BY <3>1, <2>2
      <3>2. CASE n < l[z].ord
        BY <3>2, <2>2, <1>3 DEF Ordinals
      <3> QED BY <3>1, <3>2, <2>2, <2>3
    <2>6. \A k \in Parsed : l[k].ord <= writer'.next /\ l[k].ord # writer'.next
      <3> TAKE k \in Parsed
      <3>1. l[k].ord \in Nat /\ l[z].ord \in Nat /\ l[k].ord <= l[z].ord
        BY <2>2, <2>3, <2>4
      <3>2. \A a, b \in Nat : a <= b => a <= b + 1 /\ a # b + 1
        OBVIOUS
      <3> QED BY <3>1, <3>2, <2>1
    <2>7. writer'.next # 0
      BY <2>1, <2>2, <2>3
    <2>8. NextOrdinal'
      BY <1>2, <1>3, <2>1, <2>5, <2>6, <2>7 DEF NextOrdinal
    <2>9. Queue' = Queue /\ Waiting' = Waiting /\ DOMAIN Queue = {}
      <3>1. Queue' = Queue
        BY <1>1 DEF Queue
      <3>2. Len(Queue) = Len(pending) + Len(chan) /\ DOMAIN Queue = 1..Len(Queue)
        BY QueueType
      <3>3. Len(pending) = 0 /\ Len(chan) = 0
        BY <1>1 DEF Dropped
      <3>4. DOMAIN Queue = {}
        BY <3>2, <3>3
      <3> QED BY <3>1, <3>4 DEF Waiting
    <2>10. Waiting' = {} /\ submitted' = {}
      BY <2>9, <1>1 DEF Waiting, Dropped
    <2>11. QueuedOnce'
      BY <2>9, <2>10 DEF QueuedOnce
    <2> QED BY <1>1, <1>3, <2>8, <2>11 DEF Records, AckedIsReadable
  <1> QED BY <1>4, <1>5

LEMMA LifeRecords ==
  ASSUME Types, Dropped, Records, LifeStep
  PROVE  Records'
  <1>1. CASE Crash \/ Discard
    <2>1. file' = file /\ acked' = acked /\ proc' # "open"
      BY <1>1 DEF Crash, Discard, DropRecorder, diskVars
    <2> QED BY <2>1, QuietRecords
  <1>2. CASE Resume
    BY <1>2, ResumeRecords
  <1> QED BY <1>1, <1>2 DEF LifeStep
-----------------------------------------------------------------------------
(***************************************************************************)
(* The projection.  A checkpoint outlives what is done to the file: lines  *)
(* are only added, after the ones that are complete.                       *)
(***************************************************************************)
(* Lines are only added, after the ones that are complete.                 *)
Grows ==
    /\ Complete <= Complete'
    /\ \A k \in Parsed : k \in Parsed' /\ file'.lines[k] = file.lines[k]
    /\ \A k \in Parsed' : k \in Parsed \/ Complete < k

LEMMA SameFileGrows ==
  ASSUME Types, Handle, file'.lines = file.lines, file'.cut => file.cut
  PROVE  Grows
  <1>1. Len(file.lines) \in Nat /\ Parsed' = Parsed
    BY ParsedType DEF Parsed
  <1>2. Complete <= Complete'
    <2>1. CASE file.cut
      <3>1. Complete = Len(file.lines) - 1
        BY <2>1 DEF Complete
      <3>2. Complete' = Len(file.lines) - 1 \/ Complete' = Len(file.lines) - 0
        BY DEF Complete
      <3> QED BY <3>1, <3>2, <1>1
    <2>2. CASE ~file.cut
      <3>1. Complete = Len(file.lines) - 0 /\ Complete' = Len(file.lines) - 0
        BY <2>2 DEF Complete
      <3> QED BY <3>1, <1>1
    <2> QED BY <2>1, <2>2
  <1> QED BY <1>1, <1>2 DEF Grows

LEMMA AppendGrows ==
  ASSUME Types, ~file.cut, NEW x \in Line, file'.lines = Append(file.lines, x)
  PROVE  Grows
  <1> DEFINE n == Len(file.lines) + 1
  <1>1. /\ n \in Nat /\ \A k \in Parsed : file'.lines[k] = file.lines[k]
        /\ Parsed' = IF x.ok THEN Parsed \cup {n} ELSE Parsed
    BY AppendLine
  <1>2. Len(file.lines) \in Nat /\ Len(file'.lines) = n
    BY ParsedType
  <1>3. Complete = Len(file.lines)
    <2>1. Complete = Len(file.lines) - 0
      BY DEF Complete
    <2> QED BY <2>1, <1>2
  <1>4. Complete <= Complete'
    <2>1. Complete' = Len(file'.lines) - 1 \/ Complete' = Len(file'.lines) - 0
      BY DEF Complete
    <2> QED BY <2>1, <1>2, <1>3
  <1>5. \A k \in Parsed' : k \in Parsed \/ k = n
    BY <1>1
  <1>6. Complete < n
    BY <1>2, <1>3
  <1> QED BY <1>1, <1>4, <1>5, <1>6 DEF Grows

LEMMA NextGrows ==
  ASSUME Types, Handle, Next
  PROVE  Grows
  <1>0. file \in File /\ writer \in Writer
    BY DEF Types
  <1>1. CASE CallStep
    <2>1. file' = file
      BY <1>1 DEF CallStep, Record, Begin, SendBarrier, Cancel, diskVars
    <2> QED BY <2>1, SameFileGrows
  <1>2. CASE Receive \/ FlushFile \/ Finish
    <2>1. file' = file
      BY <1>2 DEF Receive, FlushFile, Finish, diskVars
    <2> QED BY <2>1, SameFileGrows
  <1>3. CASE OpenFile \/ OpenFails
    <2>1. file'.lines = file.lines /\ (file'.cut => file.cut)
      BY <1>0, <1>3 DEF OpenFile, OpenFails, Terminated, File
    <2> QED BY <2>1, SameFileGrows
  <1>4. CASE WriteMeta
    <2>1. CASE ~writer.meta
      <3>1. file' = file
        BY <1>4, <2>1 DEF WriteMeta
      <3> QED BY <3>1, SameFileGrows
    <2>2. CASE writer.meta
      <3>1. ~file.cut
        BY <1>4 DEF WriteMeta, Handle
      <3>2. /\ [item |-> Meta, ord |-> writer.next, ok |-> TRUE] \in Line
            /\ file'.lines = Append(file.lines, [item |-> Meta, ord |-> writer.next, ok |-> TRUE])
        BY <1>0, <1>4, <2>2, NewLine DEF WriteMeta, Appended, File
      <3> QED BY <3>1, <3>2, AppendGrows
    <2> QED BY <2>1, <2>2
  <1>5. CASE WriteItem
    <2>1. ~file.cut /\ Head(pending) \in Items
      BY <1>5, HeadPending DEF WriteItem, Handle
    <2>2. /\ [item |-> Head(pending), ord |-> writer.next, ok |-> TRUE] \in Line
          /\ file'.lines = Append(file.lines, [item |-> Head(pending), ord |-> writer.next, ok |-> TRUE])
      BY <1>0, <1>5, <2>1, NewLine DEF WriteItem, Appended, File
    <2> QED BY <2>1, <2>2, AppendGrows
  <1>6. CASE WriteFails
    <2> DEFINE item == IF writer.pc = "meta" THEN Meta ELSE Head(pending)
    <2>1. ~file.cut /\ item \in Items \cup {Meta}
      BY <1>6, HeadPending DEF WriteFails, Handle
    <2>2. \/ UNCHANGED file
          \/ \E ok \in BOOLEAN : file' = [file EXCEPT !.cut = TRUE, !.lines = Appended(item, ok)]
      BY <1>6 DEF WriteFails
    <2> HIDE DEF item
    <2>3. ASSUME NEW ok \in BOOLEAN, file' = [file EXCEPT !.cut = TRUE, !.lines = Appended(item, ok)]
          PROVE  Grows
      <3>1. /\ [item |-> item, ord |-> writer.next, ok |-> ok] \in Line
            /\ file'.lines = Append(file.lines, [item |-> item, ord |-> writer.next, ok |-> ok])
        BY <1>0, <2>1, <2>3, NewLine DEF Appended, File
      <3> QED BY <2>1, <3>1, AppendGrows
    <2> QED BY <2>2, <2>3, SameFileGrows
  <1>7. CASE ProjectStep
    <2>1. file' = file
      BY <1>7 DEF ProjectStep, ReadSteps, ReadNothing, ApplyProjection, ApplyFails, diskVars
    <2> QED BY <2>1, SameFileGrows
  <1>8. CASE LifeStep
    <2>1. file'.lines = file.lines /\ (file'.cut => file.cut)
      BY <1>0, <1>8 DEF LifeStep, Crash, Discard, Resume, Terminated, diskVars, File
    <2> QED BY <2>1, SameFileGrows
  <1> QED BY <1>1, <1>2, <1>3, <1>4, <1>5, <1>6, <1>7, <1>8, NextSteps DEF WriterStep

LEMMA SameProjects ==
  ASSUME Types, Types', Handle, Grows, NEW off \in Nat, NEW ord \in Nat, NEW rows,
         Projects(off, ord, rows)
  PROVE  Projects(off, ord, rows)'
  <1> DEFINE l == file.lines
             m == file'.lines
  <1>0. Complete \in Nat /\ Complete <= Complete' /\ Complete' \in Int
    <2>1. Complete \in Nat /\ Complete <= Complete'
      BY CompleteType DEF Grows
    <2>2. file'.lines \in Seq(Line)
      BY DEF Types, File
    <2>3. Complete' \in Int
      <3>1. Complete' = Len(file'.lines) - 1 \/ Complete' = Len(file'.lines) - 0
        BY DEF Complete
      <3> QED BY <2>2, <3>1
    <2> QED BY <2>1, <2>3
  <1>1. off <= Complete /\ Len(rows) = ord
    BY DEF Projects
  <1>2. \A k \in Parsed' : k \in Nat
    <2>1. file'.lines \in Seq(Line)
      BY DEF Types, File
    <2> QED BY <2>1 DEF Parsed
  <1>3. \A k \in Parsed' : k <= off => k \in Parsed /\ m[k] = l[k]
    <2> TAKE k \in Parsed'
    <2> HAVE k <= off
    <2>1. ~(Complete < k)
      BY <1>0, <1>1, <1>2
    <2>2. k \in Parsed
      BY <2>1 DEF Grows
    <2> QED BY <2>2 DEF Grows
  <1>4. off <= Complete'
    BY <1>0, <1>1
  <1>5. \A k \in Parsed' : k <= off => m[k].ord < ord /\ rows[m[k].ord + 1] = m[k].item
    BY <1>3 DEF Projects
  <1>6. \A n \in Nat : n < ord => \E k \in Parsed' : k <= off /\ m[k].ord = n
    <2> TAKE n \in Nat
    <2> HAVE n < ord
    <2>1. PICK k \in Parsed : k <= off /\ l[k].ord = n
      BY DEF Projects
    <2> QED BY <2>1 DEF Grows
  <1>7. \A j, k \in Parsed' : j < k /\ k <= off => m[j].ord # m[k].ord
    <2> TAKE j, k \in Parsed'
    <2> HAVE j < k /\ k <= off
    <2>1. j <= off
      BY <1>2
    <2>2. j \in Parsed /\ k \in Parsed /\ m[j] = l[j] /\ m[k] = l[k]
      BY <2>1, <1>3
    <2> QED BY <2>2 DEF Projects
  <1> QED BY <1>1, <1>4, <1>5, <1>6, <1>7 DEF Projects

(* What is kept of the projection while it stays where it is.              *)
LEMMA KeepProjection ==
  ASSUME Types, Types', Handle, Grows, ProjInv, proj' = proj,
         client'.pc = "apply" => client.pc = "apply" /\ client'.plan = client.plan
  PROVE  ProjInv'
  <1>1. Projects(proj.off, proj.ord, proj.rows)'
    <2> DEFINE off == proj.off
               ord == proj.ord
               rows == proj.rows
    <2>1. off \in Nat /\ ord \in Nat /\ Projects(off, ord, rows)
      BY DEF Types, Checkpoint, ProjInv
    <2>2. PICK a \in Nat, b \in Nat : a = off /\ b = ord
      BY <2>1
    <2>3. PICK c : c = rows
      OBVIOUS
    <2>4. Projects(a, b, c)
      BY <2>1, <2>2, <2>3
    <2>5. Projects(a, b, c)'
      BY <2>4, SameProjects
    <2>6. a = off' /\ b = ord' /\ c = rows'
      BY <2>2, <2>3
    <2> QED BY <2>5, <2>6 DEF Projects
  <1>2. ASSUME client'.pc = "apply"
        PROVE  /\ client'.plan \in Plan /\ client'.plan.start = proj'.off
               /\ Projects(client.plan.off, client.plan.ord, proj.rows \o client.plan.rows)'
    <2> DEFINE off == client.plan.off
               ord == client.plan.ord
               rows == proj.rows \o client.plan.rows
    <2>1. /\ client.plan \in Plan /\ client.plan.start = proj.off /\ Projects(off, ord, rows)
          /\ client'.plan = client.plan
      BY <1>2 DEF ProjInv
    <2>0. off \in Nat /\ ord \in Nat
      BY <2>1 DEF Plan
    <2>2. PICK a \in Nat, b \in Nat : a = off /\ b = ord
      BY <2>0
    <2>3. PICK c : c = rows
      OBVIOUS
    <2>4. Projects(a, b, c)
      BY <2>1, <2>2, <2>3
    <2>5. Projects(a, b, c)'
      BY <2>4, SameProjects
    <2>6. a = off' /\ b = ord' /\ c = rows'
      BY <2>1, <2>2, <2>3
    <2>7. Projects(client.plan.off, client.plan.ord, proj.rows \o client.plan.rows)'
      <3> HIDE DEF off, ord, rows
      <3>1. Projects(off, ord, rows)'
        BY <2>5, <2>6 DEF Projects
      <3> QED BY <3>1 DEF off, ord, rows
    <2> QED BY <2>1, <2>7
  <1> QED BY <1>1, <1>2 DEF ProjInv

LEMMA ReadProjection ==
  ASSUME Types, Handle, Ordinals, ProjInv, ReadSteps
  PROVE  ProjInv'
  <1> DEFINE s == Steps(proj.off, proj.ord)
  <1>0. client \in Client /\ proj \in Checkpoint
    BY DEF Types
  <1>1. ~s.err /\ UNCHANGED <<file, proj>>
        /\ client' = [client EXCEPT !.pc = "apply",
                        !.plan = [start |-> proj.off, off |-> s.off, ord |-> s.ord,
                                  rows |-> s.rows]]
    BY DEF ReadSteps, diskVars
  <1>2. Scanned(s, Complete)
    BY StepsProject DEF ProjInv
  <1> HIDE DEF s
  <1>3. s \in ScanState /\ Projects(s.off, s.ord, proj.rows \o s.rows)
    BY <1>1, <1>2 DEF Scanned
  <1>4. client'.plan = [start |-> proj.off, off |-> s.off, ord |-> s.ord, rows |-> s.rows]
    BY <1>0, <1>1 DEF Client
  <1>5. /\ client'.plan \in Plan /\ client'.plan.start = proj'.off
    BY <1>0, <1>1, <1>3, <1>4 DEF Plan, ScanState, Checkpoint
  <1>6. /\ client'.plan.off = s.off /\ client'.plan.ord = s.ord /\ client'.plan.rows = s.rows
    BY <1>4
  <1>7. Parsed' = Parsed /\ Complete' = Complete /\ proj' = proj /\ file' = file
    BY <1>1 DEF Parsed, Complete
  <1>8. Projects(client.plan.off, client.plan.ord, proj.rows \o client.plan.rows)'
    BY <1>3, <1>6, <1>7 DEF Projects
  <1>9. Projects(proj.off, proj.ord, proj.rows)'
    BY <1>7 DEF Projects, ProjInv
  <1> QED BY <1>5, <1>8, <1>9 DEF ProjInv

LEMMA ApplyProjected ==
  ASSUME Types, ProjInv, ApplyProjection
  PROVE  ProjInv'
  <1>1. /\ client.pc = "apply" /\ file' = file
        /\ proj'.off = client.plan.off /\ proj'.ord = client.plan.ord
        /\ proj'.rows = proj.rows \o client.plan.rows
    BY DEF ApplyProjection
  <1>0. client'.pc # "apply"
    <2>1. client' = IdleClient
      BY DEF ApplyProjection, Leave
    <2> QED BY <2>1 DEF IdleClient
  <1>2. Parsed' = Parsed /\ Complete' = Complete
    BY <1>1 DEF Parsed, Complete
  <1>3. Projects(client.plan.off, client.plan.ord, proj.rows \o client.plan.rows)
    BY <1>1 DEF ProjInv
  <1>4. Projects(proj.off, proj.ord, proj.rows)'
    BY <1>1, <1>2, <1>3 DEF Projects
  <1> QED BY <1>0, <1>4 DEF ProjInv

LEMMA ProjInvStep ==
  ASSUME Types, Types', Handle, Records, ProjInv, Next
  PROVE  ProjInv'
  <1>0. client \in Client /\ Grows
    BY NextGrows DEF Types
  <1>1. CASE CallStep
    <2>1. proj' = proj
      BY <1>1 DEF CallStep, Record, Begin, SendBarrier, Cancel, diskVars
    <2>2. client'.pc # "apply"
      <3>1. ASSUME NEW i \in Items, Record(i) PROVE client'.pc = "send"
        BY <1>0, <3>1 DEF Record, Client
      <3>2. ASSUME NEW op \in Barriers, Begin(op) PROVE client'.pc = "send"
        BY <1>0, <3>2 DEF Begin, Client
      <3>3. CASE SendBarrier
        BY <1>0, <3>3 DEF SendBarrier, Client
      <3>4. CASE Cancel
        BY <3>4 DEF Cancel, IdleClient
      <3> QED BY <1>1, <3>1, <3>2, <3>3, <3>4 DEF CallStep
    <2> QED BY <2>1, <2>2, <1>0, KeepProjection
  <1>2. CASE WriterStep
    <2>1. CASE Finish
      <3>1. proj' = proj
        BY <2>1 DEF Finish, diskVars
      <3>2. client' = client \/ client'.pc # "apply"
        BY <1>0, <2>1 DEF Finish, Answer, IdleClient, Client
      <3> QED BY <3>1, <3>2, <1>0, KeepProjection
    <2>2. CASE ~Finish
      <3>1. proj' = proj /\ client' = client
        BY <1>2, <2>2 DEF WriterStep, Receive, OpenFile, WriteMeta, WriteItem, FlushFile,
                          OpenFails, WriteFails, diskVars
      <3> QED BY <3>1, <1>0, KeepProjection
    <2> QED BY <2>1, <2>2
  <1>3. CASE ReadSteps
    BY <1>3, ReadProjection DEF Records
  <1>4. CASE ReadNothing \/ ApplyFails
    <2>1. proj' = proj /\ client'.pc # "apply"
      BY <1>4 DEF ReadNothing, ApplyFails, Leave, IdleClient, diskVars
    <2> QED BY <2>1, <1>0, KeepProjection
  <1>5. CASE ApplyProjection
    BY <1>5, ApplyProjected
  <1>6. CASE LifeStep
    <2>1. proj' = proj /\ (client' = client \/ client'.pc # "apply")
      BY <1>6 DEF LifeStep, Crash, Discard, Resume, DropRecorder, IdleClient, diskVars
    <2> QED BY <2>1, <1>0, KeepProjection
  <1> QED BY <1>1, <1>2, <1>3, <1>4, <1>5, <1>6, NextSteps DEF ProjectStep

-----------------------------------------------------------------------------
(* The invariant.                                                          *)
LEMMA InitLogInv ==
  ASSUME Init
  PROVE  LogInv
  <1>1. Types
    BY InitTypes
  <1>2. /\ file.lines = <<>> /\ ~file.exists /\ ~file.cut
        /\ writer = CreatedWriter /\ pending = <<>> /\ chan = <<>> /\ client = IdleClient
        /\ proj.off = 0 /\ proj.ord = 0 /\ proj.rows = <<>>
        /\ proc = "open" /\ submitted = {} /\ acked = {}
    BY DEF Init
  <1>3. Handle /\ Dropped
    BY <1>2 DEF Handle, Dropped, CreatedWriter
  <1>4. Protocol
    BY <1>2 DEF Protocol, Channel, Answering, Drained, Calling, CreatedWriter, IdleClient
  <1>5. Parsed = {}
    BY <1>2 DEF Parsed
  <1>6. Ordinals /\ AckedIsReadable
    BY <1>2, <1>5 DEF Ordinals, AckedIsReadable
  <1>7. NextOrdinal
    BY <1>2, <1>5 DEF NextOrdinal, CreatedWriter
  <1>8. DOMAIN Queue = {}
    <2>1. Len(Queue) = Len(pending) + Len(chan) /\ DOMAIN Queue = 1..Len(Queue)
      BY <1>1, QueueType
    <2>2. Len(pending) = 0 /\ Len(chan) = 0
      BY <1>2
    <2> QED BY <2>1, <2>2
  <1>9. QueuedOnce
    BY <1>2, <1>5, <1>8 DEF QueuedOnce, Waiting
  <1>10. ProjInv
    <2>1. Complete = 0
      BY <1>2 DEF Complete
    <2>2. Projects(0, 0, <<>>)
      BY <2>1, <1>5 DEF Projects
    <2> QED BY <2>2, <1>2 DEF ProjInv, IdleClient
  <1> QED BY <1>1, <1>3, <1>4, <1>6, <1>7, <1>9, <1>10 DEF LogInv, Records

LEMMA NextLogInv ==
  ASSUME LogInv, Next
  PROVE  LogInv'
  <1>0. Types /\ Handle /\ Dropped /\ Protocol /\ Records /\ ProjInv /\ Ordinals
    BY DEF LogInv, Records
  <1>1. CallStep \/ WriterStep \/ ProjectStep \/ LifeStep
    BY NextSteps
  <1>2. Types'
    BY <1>0, <1>1, ClientTypes, WriterTypes, ProjectionTypes, LifeTypes
  <1>3. Handle' /\ Dropped'
    BY <1>0, HandleStep, DroppedStep
  <1>4. Protocol'
    BY <1>0, <1>1, CallProtocol, WriterProtocol, ProjectProtocol, LifeProtocol
  <1>5. Records'
    BY <1>0, <1>1, <1>2, CallRecords, WriterRecords, ProjectRecords, LifeRecords
  <1>6. ProjInv'
    BY <1>0, <1>2, ProjInvStep
  <1> QED BY <1>2, <1>3, <1>4, <1>5, <1>6 DEF LogInv

LEMMA SameLogInv ==
  ASSUME LogInv, UNCHANGED vars
  PROVE  LogInv'
  <1>1. UNCHANGED <<file, proj, writer, pending, chan, client, proc, submitted, acked, faults, losses>>
    BY DEF vars, diskVars
  <1>2. Types' /\ Handle' /\ Dropped' /\ Protocol'
    BY <1>1 DEF LogInv, Types, Handle, Dropped, Protocol, Channel, Answering, Drained, Calling
  <1>3. Parsed' = Parsed /\ Queue' = Queue /\ Complete' = Complete
    BY <1>1 DEF Parsed, Queue, Complete
  <1>4. Readable' = Readable /\ Waiting' = Waiting
    BY <1>1, <1>3 DEF Readable, Waiting
  <1>5. Records'
    BY <1>1, <1>3, <1>4 DEF LogInv, Records, Ordinals, NextOrdinal, QueuedOnce, AckedIsReadable
  <1>6. ProjInv'
    <2>1. Types /\ Handle /\ ProjInv
      BY DEF LogInv
    <2>2. Grows
      BY <2>1, <1>1, SameFileGrows
    <2> QED BY <2>1, <2>2, <1>1, <1>2, KeepProjection
  <1> QED BY <1>2, <1>5, <1>6 DEF LogInv

(* The invariant of the recorder, its queue, the file and the projection.  *)
THEOREM LogInvariant == Spec => []LogInv
  <1>1. Init => LogInv
    BY InitLogInv
  <1>2. LogInv /\ [Next]_vars => LogInv'
    BY NextLogInv, SameLogInv
  <1> QED BY <1>1, <1>2, PTL DEF Spec

-----------------------------------------------------------------------------
(***************************************************************************)
(* Type correctness of the recorder, the file, the store operation and the *)
(* projection; an open handle is on a file that exists and appends after a *)
(* complete line (open_rollout_for_append, ensure_writer_open).            *)
(***************************************************************************)
THEOREM TypeCorrect == Spec => []TypeOK
  <1>1. LogInv => TypeOK
    BY DEF LogInv, Types, Handle, TypeOK, File, Writer, Client, Checkpoint
  <1> QED BY <1>1, LogInvariant, PTL

LEMMA OrdinalsCount ==
  ASSUME Types, Ordinals
  PROVE  OrdinalsCountRecords
  <1> DEFINE l == file.lines
  <1>0. \A k \in Parsed : k \in Nat /\ l[k].ord \in Nat
    BY ParsedType
  <1>1. ASSUME NEW k \in Parsed, \A j \in Parsed : k <= j
        PROVE  l[k].ord = 0
    <2>1. ASSUME l[k].ord # 0 PROVE FALSE
      <3>1. 0 < l[k].ord
        BY <2>1, <1>0
      <3>2. PICK j \in Parsed : j < k
        BY <3>1 DEF Ordinals
      <3> QED BY <3>2, <1>0, <1>1
    <2> QED BY <2>1
  <1>2. ASSUME NEW j \in Parsed, NEW k \in Parsed, Follows(j, k)
        PROVE  l[k].ord = IF l[k].item = l[j].item THEN l[j].ord ELSE l[j].ord + 1
    <2>0. j < k /\ (\A m \in Parsed : m <= j \/ k <= m)
      BY <1>2 DEF Follows
    <2>1. l[j].ord <= l[k].ord
      BY <2>0 DEF Ordinals
    <2>2. l[j].ord = l[k].ord <=> l[j].item = l[k].item
      BY DEF Ordinals
    <2>3. ASSUME l[j].ord + 1 < l[k].ord PROVE FALSE
      <3>1. PICK m \in Parsed : m < k /\ l[m].ord = l[j].ord + 1
        BY <2>3, <1>0 DEF Ordinals
      <3>2. m <= j
        BY <3>1, <2>0, <1>0
      <3>3. l[m].ord <= l[j].ord
        <4>1. m = j \/ m < j
          BY <3>2, <1>0
        <4> QED BY <4>1, <1>0 DEF Ordinals
      <3> QED BY <3>1, <3>3, <1>0
    <2>4. l[k].ord = l[j].ord \/ l[k].ord = l[j].ord + 1
      BY <2>1, <2>3, <1>0
    <2> QED BY <2>2, <2>4
  <1> QED BY <1>1, <1>2 DEF OrdinalsCountRecords

(***************************************************************************)
(* The ordinals of the records in the file count them from zero, whatever  *)
(* writes failed or tore a line, whichever futures were dropped, and       *)
(* however often the process was lost and the thread resumed: the recorder *)
(* advances with what it wrote, and a resume goes on after the last record *)
(* (RolloutOrdinalState, ordinal_state_for_rollout).                       *)
(***************************************************************************)
THEOREM OrdinalsCounted == Spec => []OrdinalsCountRecords
  <1>1. LogInv => OrdinalsCountRecords
    BY OrdinalsCount DEF LogInv, Records
  <1> QED BY <1>1, LogInvariant, PTL

(***************************************************************************)
(* Unless a record was written twice, read_projection_steps finds no error *)
(* in the file from the checkpoint of the projection: the lines a failed   *)
(* write left behind never stop it.                                        *)
(***************************************************************************)
THEOREM ProjectionGoesOn == Spec => []ProjectionNotWedged
  <1>1. LogInv => ProjectionNotWedged
    <2>1. SUFFICES ASSUME LogInv PROVE ProjectionNotWedged
      OBVIOUS
    <2>2. Scanned(Steps(proj.off, proj.ord), Complete)
      BY <2>1, StepsProject DEF LogInv, Records, ProjInv
    <2> QED BY <2>2 DEF Scanned, ProjectionNotWedged
  <1> QED BY <1>1, LogInvariant, PTL

(***************************************************************************)
(* What a store operation that returned Ok covered can be read back from   *)
(* the file from then on: rollout_writer answers a barrier Ok only when    *)
(* the items before it are written.                                        *)
(***************************************************************************)
THEOREM AcknowledgedIsDurable == Spec => []AckedIsReadable
  <1>1. LogInv => AckedIsReadable
    BY DEF LogInv, Records
  <1> QED BY <1>1, LogInvariant, PTL
=============================================================================
