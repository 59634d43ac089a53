------------------------ MODULE AgentResidencyProofs ------------------------
(***************************************************************************)
(* For any number of threads, calls and dropped calls, and any capacity:   *)
(* the residency list and the pending slots are well formed, a slot is     *)
(* given back on every way out of a call, a loaded agent is tracked, and   *)
(* the capacity is exceeded by no more than the evictions under way and    *)
(* what dropped calls left behind.                                         *)
(***************************************************************************)
EXTENDS AgentResidency, SequenceTheorems, FiniteSetTheorems, TLAPS

Elems(s) == {s[i] : i \in DOMAIN s}
Distinct(s) == \A i, j \in DOMAIN s : s[i] = s[j] => i = j

CallerType == [pc : Pcs, op : {"none", "spawn", "message", "followup"},
               tgt : Threads \cup {NoThread}, cand : Threads \cup {NoThread},
               candGen : Nat, scan : Nat]

(* TypeOK but for the pending slots, which SlotsAreHeld counts.            *)
ListType == residents \in Seq(Threads) /\ Distinct(residents)
SetsType == /\ loaded \subseteq Threads /\ known \subseteq Threads
            /\ leaked \subseteq Threads
            /\ scope \in Scopes
            /\ calls \in 0..MaxCalls /\ cancels \in 0..MaxCancels
SessType == /\ sess \in [Threads -> {"none", "fresh", "running", "idle", "dead"}]
            /\ gen \in [Threads -> Nat]
            /\ chan \in [Threads -> Seq({"queue", "trigger", "shutdown"})]
            /\ mbox \in [Threads -> {"none", "queue", "trigger"}]
RType == ListType /\ SetsType /\ SessType /\ caller \in [Callers -> CallerType]

(* What a call knows at each of its steps: a candidate while it evicts, a  *)
(* target once it has one.                                                 *)
Knows(r) ==
    /\ r.cand \in Threads <=> r.pc \in {"inspect", "evict", "wait"}
    /\ r.pc \in {"inspect", "evict", "wait"} => r.scan > 0
    /\ r.pc \in {"resolve", "commit", "capacity", "send"} => r.tgt \in Threads
    /\ r.pc # "idle" /\ r.op # "spawn" => r.tgt \in Threads
CallerInv == \A c \in Callers : Knows(caller[c])

Creating == {c \in Callers : caller[c].pc \in {"lookup", "create"}}
Committing == {c \in Callers : At(c, "commit")}
Slots == {c \in Callers : HoldsSlot(c)}

(* Where an eviction can find a thread, now or later, or what was lost.    *)
Tracked == Listed \cup Candidates \cup {caller[c].tgt : c \in Committing} \cup leaked
TrackInv == loaded \subseteq Tracked

Bound == Capacity + (Cardinality(Callers) - 1) + Cardinality(leaked)

(* Every tracked thread and every thread about to be created fits.         *)
BoundInv == Cardinality(Tracked) + Cardinality(Creating) <= Bound

RInv == RType /\ CallerInv /\ SlotsAreHeld /\ TrackInv /\ BoundInv

USE DEF Capacity, MaxCalls

LEMMA ScopeTypes ==
  ASSUME SetsType
  PROVE  Capacity \in Nat /\ MaxCalls \in Nat
  BY ScopesAssumption DEF SetsType

-----------------------------------------------------------------------------
(* h tells where in r the entries of s come from: everywhere but from a.   *)
AllBut(r, s, n, a, h) ==
    /\ n \in Nat /\ a \in 1..n /\ h \in [1..(n - 1) -> 1..n]
    /\ DOMAIN r = 1..n /\ DOMAIN s = 1..(n - 1)
    /\ \A i \in 1..(n - 1) : h[i] # a /\ s[i] = r[h[i]]
    /\ \A i, j \in 1..(n - 1) : h[i] = h[j] => i = j
    /\ \A k \in 1..n : k # a => \E i \in 1..(n - 1) : h[i] = k

(* A list that has all entries of another but one, in some order.          *)
LEMMA Reindexed ==
  ASSUME NEW r, NEW s, NEW n, NEW a, NEW h, Distinct(r), AllBut(r, s, n, a, h)
  PROVE  Distinct(s) /\ Elems(s) = Elems(r) \ {r[a]}
  <1> USE DEF AllBut
  <1>1. Distinct(s)
    BY DEF Distinct
  <1>2. ASSUME NEW e \in Elems(s) PROVE e \in Elems(r) \ {r[a]}
    <2>1. PICK i \in 1..(n - 1) : e = s[i]
      BY DEF Elems
    <2>2. e = r[h[i]] /\ h[i] \in 1..n /\ h[i] # a
      BY <2>1
    <2> QED BY <2>2 DEF Elems, Distinct
  <1>3. ASSUME NEW e \in Elems(r) \ {r[a]} PROVE e \in Elems(s)
    <2>1. PICK k \in 1..n : e = r[k] /\ k # a
      BY DEF Elems
    <2>2. PICK i \in 1..(n - 1) : h[i] = k
      BY <2>1
    <2> QED BY <2>1, <2>2 DEF Elems
  <1> QED BY <1>1, <1>2, <1>3

(* The parts of a list before and after an entry.                          *)
LEMMA Parts ==
  ASSUME NEW S, NEW r \in Seq(S), NEW a \in 1..Len(r)
  PROVE  /\ SubSeq(r, 1, a - 1) \in Seq(S) /\ Len(SubSeq(r, 1, a - 1)) = a - 1
         /\ \A i \in 1..(a - 1) : SubSeq(r, 1, a - 1)[i] = r[i]
         /\ SubSeq(r, a + 1, Len(r)) \in Seq(S)
         /\ Len(SubSeq(r, a + 1, Len(r))) = Len(r) - a
         /\ \A i \in 1..(Len(r) - a) : SubSeq(r, a + 1, Len(r))[i] = r[a + i]
  <1>0. Len(r) \in Nat /\ a \in Nat /\ 1 <= a /\ a <= Len(r)
        /\ \A i \in 1..Len(r) : r[i] \in S
    OBVIOUS
  <1>1. \A i \in 1..(a - 1) : r[i] \in S
    BY <1>0
  <1>2. \A i \in (a + 1)..Len(r) : r[i] \in S
    BY <1>0
  <1> DEFINE n == Len(r)
             x == SubSeq(r, 1, a - 1)
             y == SubSeq(r, a + 1, n)
  <1>3. /\ x \in Seq(S) /\ Len(x) = IF 1 <= a - 1 THEN (a - 1) - 1 + 1 ELSE 0
        /\ \A i \in 1..((a - 1) - 1 + 1) : x[i] = r[1 + i - 1]
    BY <1>0, <1>1, SubSeqProperties
  <1>4. /\ y \in Seq(S) /\ Len(y) = IF a + 1 <= n THEN n - (a + 1) + 1 ELSE 0
        /\ \A i \in 1..(n - (a + 1) + 1) : y[i] = r[(a + 1) + i - 1]
    BY <1>0, <1>2, SubSeqProperties
  <1>5. n \in Nat /\ a \in Nat /\ 1 <= a /\ a <= n
    BY <1>0
  <1> HIDE DEF n, x, y
  <1>6. Len(x) = a - 1 /\ \A i \in 1..(a - 1) : x[i] = r[i]
    BY <1>3, <1>5
  <1>7. Len(y) = n - a /\ \A i \in 1..(n - a) : y[i] = r[a + i]
    BY <1>4, <1>5
  <1> QED BY <1>3, <1>4, <1>6, <1>7 DEF n, x, y

(* One entry is taken out of a list.                                       *)
LEMMA RemoveAtProperties ==
  ASSUME NEW S, NEW r \in Seq(S), Distinct(r), NEW a \in 1..Len(r)
  PROVE  /\ RemoveAt(r, a) \in Seq(S) /\ Distinct(RemoveAt(r, a))
         /\ Elems(RemoveAt(r, a)) = Elems(r) \ {r[a]}
  <1> DEFINE n == Len(r)
             x == SubSeq(r, 1, a - 1)
             y == SubSeq(r, a + 1, n)
             s == x \o y
             h == [i \in 1..(n - 1) |-> IF i < a THEN i ELSE i + 1]
  <1>1. n \in Nat /\ a \in 1..n /\ DOMAIN r = 1..n
    OBVIOUS
  <1>2. /\ x \in Seq(S) /\ Len(x) = a - 1 /\ \A i \in 1..(a - 1) : x[i] = r[i]
        /\ y \in Seq(S) /\ Len(y) = n - a /\ \A i \in 1..(n - a) : y[i] = r[a + i]
    BY Parts
  <1>3. RemoveAt(r, a) = s
    BY DEF RemoveAt
  <1> HIDE DEF n, x, y
  <1>4. /\ s \in Seq(S) /\ Len(s) = Len(x) + Len(y)
        /\ \A i \in 1..(Len(x) + Len(y)) :
              s[i] = IF i <= Len(x) THEN x[i] ELSE y[i - Len(x)]
    BY <1>2, ConcatProperties
  <1>5. Len(x) + Len(y) = n - 1
    BY <1>1, <1>2
  <1>6. DOMAIN s = 1..(n - 1)
    BY <1>4, <1>5
  <1> HIDE DEF s
  <1>7. \A i \in 1..(n - 1) : s[i] = r[h[i]]
    BY <1>1, <1>2, <1>4, <1>5
  <1>8. /\ h \in [1..(n - 1) -> 1..n]
        /\ \A i \in 1..(n - 1) : h[i] # a
        /\ \A i, j \in 1..(n - 1) : h[i] = h[j] => i = j
    BY <1>1
  <1>9. ASSUME NEW k \in 1..n, k # a PROVE \E i \in 1..(n - 1) : h[i] = k
    <2>1. CASE k < a
      BY <1>1, <2>1
    <2>2. CASE k > a
      <3>1. k - 1 \in 1..(n - 1) /\ h[k - 1] = k
        BY <1>1, <2>2
      <3> QED BY <3>1
    <2> QED BY <1>1, <1>9, <2>1, <2>2
  <1> HIDE DEF h
  <1>10. Distinct(s) /\ Elems(s) = Elems(r) \ {r[a]}
    <2>1. AllBut(r, s, n, a, h)
      BY <1>1, <1>6, <1>7, <1>8, <1>9 DEF AllBut
    <2> QED BY <2>1, Reindexed
  <1> QED BY <1>3, <1>4, <1>10

(* What pop_lru_candidate leaves: the entries before it go to the back.    *)
LEMMA RotateProperties ==
  ASSUME NEW S, NEW r \in Seq(S), Distinct(r), NEW a \in 1..Len(r),
         NEW z, z = SubSeq(r, a + 1, Len(r)) \o SubSeq(r, 1, a - 1)
  PROVE  z \in Seq(S) /\ Distinct(z) /\ Elems(z) = Elems(r) \ {r[a]}
  <1> DEFINE n == Len(r)
             x == SubSeq(r, 1, a - 1)
             y == SubSeq(r, a + 1, n)
             s == y \o x
             h == [i \in 1..(n - 1) |-> IF i <= n - a THEN a + i ELSE i - (n - a)]
  <1>1. n \in Nat /\ a \in 1..n /\ DOMAIN r = 1..n
    OBVIOUS
  <1>2. /\ x \in Seq(S) /\ Len(x) = a - 1 /\ \A i \in 1..(a - 1) : x[i] = r[i]
        /\ y \in Seq(S) /\ Len(y) = n - a /\ \A i \in 1..(n - a) : y[i] = r[a + i]
    BY Parts
  <1>3. z = s
    OBVIOUS
  <1> HIDE DEF n, x, y
  <1>4. /\ s \in Seq(S) /\ Len(s) = Len(y) + Len(x)
        /\ \A i \in 1..(Len(y) + Len(x)) :
              s[i] = IF i <= Len(y) THEN y[i] ELSE x[i - Len(y)]
    BY <1>2, ConcatProperties
  <1>5. Len(y) + Len(x) = n - 1
    BY <1>1, <1>2
  <1>6. DOMAIN s = 1..(n - 1)
    BY <1>4, <1>5
  <1> HIDE DEF s
  <1>7. \A i \in 1..(n - 1) : s[i] = r[h[i]]
    BY <1>1, <1>2, <1>4, <1>5
  <1>8. /\ h \in [1..(n - 1) -> 1..n]
        /\ \A i \in 1..(n - 1) : h[i] # a
        /\ \A i, j \in 1..(n - 1) : h[i] = h[j] => i = j
    BY <1>1
  <1>9. ASSUME NEW k \in 1..n, k # a PROVE \E i \in 1..(n - 1) : h[i] = k
    <2>1. CASE k < a
      <3>1. k + (n - a) \in 1..(n - 1) /\ h[k + (n - a)] = k
        BY <1>1, <2>1
      <3> QED BY <3>1
    <2>2. CASE k > a
      <3>1. k - a \in 1..(n - 1) /\ h[k - a] = k
        BY <1>1, <2>2
      <3> QED BY <3>1
    <2> QED BY <1>1, <1>9, <2>1, <2>2
  <1> HIDE DEF h
  <1>10. Distinct(s) /\ Elems(s) = Elems(r) \ {r[a]}
    <2>1. AllBut(r, s, n, a, h)
      BY <1>1, <1>6, <1>7, <1>8, <1>9 DEF AllBut
    <2> QED BY <2>1, Reindexed
  <1> QED BY <1>3, <1>4, <1>10

(* V2Residency::remove takes a thread off the list and nothing else.       *)
LEMMA WithoutProperties ==
  ASSUME ListType, NEW t
  PROVE  /\ Without(t) \in Seq(Threads) /\ Distinct(Without(t))
         /\ Elems(Without(t)) = Listed \ {t}
  <1>1. CASE t \in Listed
    <2> DEFINE a == CHOOSE i \in DOMAIN residents : residents[i] = t
    <2>1. a \in 1..Len(residents) /\ residents[a] = t
      BY <1>1 DEF Listed, ListType
    <2>2. Without(t) = RemoveAt(residents, a)
      BY <1>1 DEF Without
    <2> HIDE DEF a
    <2>3. residents \in Seq(Threads) /\ Distinct(residents) /\ Elems(residents) = Listed
      BY DEF ListType, Listed, Elems
    <2> QED BY <2>1, <2>2, <2>3, RemoveAtProperties
  <1>2. CASE t \notin Listed
    BY <1>2 DEF Without, ListType, Listed, Elems
  <1> QED BY <1>1, <1>2

(* touch_resident puts a thread on the list, once.                         *)
LEMMA TouchedProperties ==
  ASSUME ListType, NEW t \in Threads
  PROVE  /\ Touched(t) \in Seq(Threads) /\ Distinct(Touched(t))
         /\ Elems(Touched(t)) = Listed \cup {t}
  <1> DEFINE w == Without(t)
  <1>1. w \in Seq(Threads) /\ Distinct(w) /\ Elems(w) = Listed \ {t}
    BY WithoutProperties
  <1>2. Touched(t) = Append(w, t)
    BY DEF Touched
  <1> HIDE DEF w
  <1>3. /\ Append(w, t) \in Seq(Threads) /\ DOMAIN Append(w, t) = 1..(Len(w) + 1)
        /\ \A i \in 1..Len(w) : Append(w, t)[i] = w[i]
        /\ Append(w, t)[Len(w) + 1] = t /\ Len(w) \in Nat /\ DOMAIN w = 1..Len(w)
    BY <1>1
  <1>4. \A i \in 1..Len(w) : w[i] # t
    BY <1>1, <1>3 DEF Elems
  <1>5. Distinct(Append(w, t))
    BY <1>1, <1>3, <1>4 DEF Distinct
  <1>6. Elems(Append(w, t)) = Elems(w) \cup {t}
    BY <1>3 DEF Elems
  <1> QED BY <1>1, <1>2, <1>3, <1>5, <1>6

-----------------------------------------------------------------------------
(* The threads that one call stands for.                                   *)
Own(r) == ({r.cand} \cup (IF r.pc = "commit" THEN {r.tgt} ELSE {})) \ {NoThread}
Others(c) == UNION {Own(caller[d]) : d \in Callers \ {c}}

(* What is tracked is on the list, left behind, or of some call.           *)
LEMMA TrackedBy ==
  ASSUME caller \in [Callers -> CallerType], CallerInv, NEW c \in Callers
  PROVE  Tracked = Listed \cup leaked \cup Own(caller[c]) \cup Others(c)
  <1>1. ASSUME NEW t \in Candidates PROVE t \in Own(caller[c]) \cup Others(c)
    BY DEF Candidates, Own, Others
  <1>2. ASSUME NEW d \in Committing
        PROVE  caller[d].tgt \in Own(caller[c]) \cup Others(c)
    <2>1. caller[d].tgt \in Own(caller[d])
      BY ThreadsAssumption DEF Committing, At, CallerInv, Knows, Own
    <2> QED BY <2>1 DEF Others, Committing
  <1>3. ASSUME NEW d \in Callers
        PROVE  Own(caller[d]) \subseteq Candidates \cup {caller[e].tgt : e \in Committing}
    BY DEF Own, Candidates, Committing, At
  <1>4. Own(caller[c]) \cup Others(c)
        \subseteq Candidates \cup {caller[e].tgt : e \in Committing}
    BY <1>3 DEF Others
  <1> QED BY <1>1, <1>2, <1>4 DEF Tracked

(* A step of one call, as far as calls and tracked threads are concerned.  *)
LEMMA CallStep ==
  ASSUME RInv, NEW c \in Callers, NEW r \in CallerType, Knows(r),
         caller' = [caller EXCEPT ![c] = r]
  PROVE  /\ caller' \in [Callers -> CallerType] /\ CallerInv'
         /\ caller'[c] = r /\ \A d \in Callers \ {c} : caller'[d] = caller[d]
         /\ Tracked = Listed \cup leaked \cup Own(caller[c]) \cup Others(c)
         /\ Tracked' = Listed' \cup leaked' \cup Own(r) \cup Others(c)
         /\ Creating' = IF r.pc \in {"lookup", "create"} THEN Creating \cup {c} ELSE Creating \ {c}
  <1>0. caller \in [Callers -> CallerType] /\ CallerInv
    BY DEF RInv, RType
  <1>1. /\ caller' \in [Callers -> CallerType]
        /\ caller'[c] = r /\ \A d \in Callers \ {c} : caller'[d] = caller[d]
    BY <1>0
  <1>2. CallerInv'
    BY <1>0, <1>1 DEF CallerInv
  <1>3. Others(c)' = Others(c)
    BY <1>1 DEF Others
  <1>4. Tracked' = Listed' \cup leaked' \cup Own(caller'[c]) \cup Others(c)'
    <2>1. caller' \in [Callers -> CallerType] /\ CallerInv'
      BY <1>1, <1>2
    <2>2. ASSUME NEW t \in Candidates' PROVE t \in Own(caller'[c]) \cup Others(c)'
      BY DEF Candidates, Own, Others
    <2>3. ASSUME NEW d \in Committing'
          PROVE  caller'[d].tgt \in Own(caller'[c]) \cup Others(c)'
      <3>1. caller'[d].tgt \in Own(caller'[d])
        BY <2>1, ThreadsAssumption DEF Committing, At, CallerInv, Knows, Own
      <3> QED BY <3>1 DEF Others, Committing
    <2>4. ASSUME NEW d \in Callers
          PROVE  Own(caller'[d]) \subseteq (Candidates \cup {caller[e].tgt : e \in Committing})'
      BY DEF Own, Candidates, Committing, At
    <2>5. Own(caller'[c]) \cup Others(c)'
          \subseteq (Candidates \cup {caller[e].tgt : e \in Committing})'
      BY <2>4 DEF Others
    <2> QED BY <2>2, <2>3, <2>5 DEF Tracked
  <1>5. Creating' = IF r.pc \in {"lookup", "create"} THEN Creating \cup {c} ELSE Creating \ {c}
    BY <1>1 DEF Creating, At
  <1> QED BY <1>0, <1>1, <1>2, <1>3, <1>4, <1>5, TrackedBy

(* Slots are taken and given back one at a time.                           *)
LEMMA SlotStep ==
  ASSUME SlotsAreHeld, NEW c \in Callers,
         \A d \in Callers \ {c} : caller'[d] = caller[d],
         \/ (HoldsSlot(c)' <=> HoldsSlot(c)) /\ pending' = pending
         \/ ~HoldsSlot(c) /\ HoldsSlot(c)' /\ pending' = pending + 1
         \/ HoldsSlot(c) /\ ~HoldsSlot(c)' /\ pending' = pending - 1
  PROVE  SlotsAreHeld'
  <1>0. IsFiniteSet(Slots) /\ pending = Cardinality(Slots)
    <2>1. Slots \in SUBSET Callers
      BY DEF Slots
    <2> QED BY <2>1, CallersAssumption, FS_Subset DEF Slots, SlotsAreHeld
  <1>1. CASE (HoldsSlot(c)' <=> HoldsSlot(c)) /\ pending' = pending
    <2>1. Slots' = Slots
      BY <1>1 DEF Slots, HoldsSlot
    <2> QED BY <1>0, <1>1, <2>1 DEF SlotsAreHeld, Slots
  <1>2. CASE ~HoldsSlot(c) /\ HoldsSlot(c)' /\ pending' = pending + 1
    <2>1. Slots' = Slots \cup {c} /\ c \notin Slots
      BY <1>2 DEF Slots, HoldsSlot
    <2>2. Cardinality(Slots') = Cardinality(Slots) + 1
      BY <1>0, <2>1, FS_AddElement
    <2> QED BY <1>0, <1>2, <2>2 DEF SlotsAreHeld, Slots
  <1>3. CASE HoldsSlot(c) /\ ~HoldsSlot(c)' /\ pending' = pending - 1
    <2>1. Slots' = Slots \ {c} /\ c \in Slots
      BY <1>3 DEF Slots, HoldsSlot
    <2>2. Cardinality(Slots') = Cardinality(Slots) - 1
      BY <1>0, <2>1, FS_RemoveElement
    <2> QED BY <1>0, <1>3, <2>2 DEF SlotsAreHeld, Slots
  <1> QED BY <1>1, <1>2, <1>3

(* All the sets that are counted are finite.                               *)
LEMMA AllFinite ==
  ASSUME RInv
  PROVE  /\ IsFiniteSet(Tracked) /\ Cardinality(Tracked) \in Nat
         /\ IsFiniteSet(Creating) /\ Cardinality(Creating) \in Nat
         /\ IsFiniteSet(leaked) /\ Cardinality(leaked) \in Nat
         /\ Tracked \subseteq Threads /\ Creating \subseteq Callers
         /\ Cardinality(Callers) \in Nat /\ Cardinality(Callers) > 0
         /\ Bound \in Int
  <1>1. Tracked \in SUBSET Threads
    <2>1. Listed \subseteq Threads
      BY DEF RInv, RType, ListType, Listed
    <2>2. Candidates \subseteq Threads
      BY DEF RInv, RType, CallerType, Candidates
    <2>3. {caller[c].tgt : c \in Committing} \subseteq Threads
      BY DEF RInv, CallerInv, Knows, Committing, At
    <2> QED BY <2>1, <2>2, <2>3 DEF RInv, RType, SetsType, Tracked
  <1>2. Creating \in SUBSET Callers
    BY DEF Creating
  <1>3. leaked \in SUBSET Threads
    BY DEF RInv, RType, SetsType
  <1>4. IsFiniteSet(Threads) /\ IsFiniteSet(Callers) /\ Callers # {}
    BY ThreadsAssumption, CallersAssumption
  <1>5. IsFiniteSet(Tracked) /\ IsFiniteSet(Creating) /\ IsFiniteSet(leaked)
    BY <1>1, <1>2, <1>3, <1>4, FS_Subset
  <1>6. /\ Cardinality(Tracked) \in Nat /\ Cardinality(Creating) \in Nat
        /\ Cardinality(leaked) \in Nat /\ Cardinality(Callers) \in Nat
    BY <1>4, <1>5, FS_CardinalityType
  <1>7. Cardinality(Callers) > 0
    BY <1>4, <1>6, FS_EmptySet
  <1>8. Bound \in Int
    <2>1. Capacity \in Nat
      BY ScopeTypes DEF RInv, RType
    <2> QED BY <1>6, <2>1 DEF Bound
  <1> QED BY <1>1, <1>2, <1>5, <1>6, <1>7, <1>8

(* No thread more is tracked and no call more is about to create one.      *)
LEMMA BoundStep ==
  ASSUME RInv, scope' = scope, leaked' \subseteq Threads, leaked \subseteq leaked',
         Tracked' \subseteq Tracked, Creating' \subseteq Creating
  PROVE  BoundInv'
  <1>1. /\ Tracked' \in SUBSET Tracked /\ Creating' \in SUBSET Creating
        /\ leaked \in SUBSET leaked' /\ leaked' \in SUBSET Threads
    OBVIOUS
  <1>2. /\ Cardinality(Tracked') <= Cardinality(Tracked) /\ IsFiniteSet(Tracked')
        /\ Cardinality(Creating') <= Cardinality(Creating) /\ IsFiniteSet(Creating')
    BY <1>1, AllFinite, FS_Subset
  <1>3. IsFiniteSet(leaked')
    BY <1>1, ThreadsAssumption, FS_Subset
  <1>4. Cardinality(leaked) <= Cardinality(leaked')
    BY <1>1, <1>3, FS_Subset
  <1>5. /\ Cardinality(Tracked') \in Nat /\ Cardinality(Creating') \in Nat
        /\ Cardinality(leaked') \in Nat
    BY <1>2, <1>3, FS_CardinalityType
  <1>6. Cardinality(Tracked) + Cardinality(Creating)
        <= Capacity + (Cardinality(Callers) - 1) + Cardinality(leaked)
    BY DEF RInv, BoundInv, Bound
  <1>7. Capacity \in Nat
    BY ScopeTypes DEF RInv, RType
  <1>8. Cardinality(Tracked') + Cardinality(Creating')
        <= Capacity + (Cardinality(Callers) - 1) + Cardinality(leaked')
    BY <1>2, <1>4, <1>5, <1>6, <1>7, AllFinite
  <1> QED BY <1>8 DEF BoundInv, Bound

(* A step of a call that takes no slot and lists no thread it did not      *)
(* stand for.                                                              *)
LEMMA QuietStep ==
  ASSUME RInv, NEW c \in Callers, NEW r \in CallerType, Knows(r),
         caller' = [caller EXCEPT ![c] = r],
         ListType', SetsType', SessType', scope' = scope, leaked \subseteq leaked',
         Listed' \cup leaked' \cup Own(r)
           \subseteq Listed \cup leaked \cup Own(caller[c]) \cup Others(c),
         loaded' \subseteq Listed' \cup leaked' \cup Own(r) \cup Others(c),
         r.pc \in {"lookup", "create"} => caller[c].pc \in {"lookup", "create"},
         r.pc = "commit" => caller[c].pc = "commit",
         pending' = IF HoldsSlot(c) /\ r.pc \notin {"lookup", "create", "commit"}
                    THEN pending - 1 ELSE pending
  PROVE  RInv'
  <1>1. /\ caller' \in [Callers -> CallerType] /\ CallerInv'
        /\ caller'[c] = r /\ \A d \in Callers \ {c} : caller'[d] = caller[d]
        /\ Tracked = Listed \cup leaked \cup Own(caller[c]) \cup Others(c)
        /\ Tracked' = Listed' \cup leaked' \cup Own(r) \cup Others(c)
        /\ Creating' = IF r.pc \in {"lookup", "create"} THEN Creating \cup {c} ELSE Creating \ {c}
    BY CallStep
  <1>2. Creating' \subseteq Creating
    BY <1>1 DEF Creating, At
  <1>3. SlotsAreHeld'
    <2>1. HoldsSlot(c)' <=> r.pc \in {"lookup", "create", "commit"}
      BY <1>1 DEF HoldsSlot
    <2>2. r.pc \in {"lookup", "create", "commit"} => HoldsSlot(c)
      BY DEF HoldsSlot
    <2> QED BY <1>1, <2>1, <2>2, SlotStep DEF RInv
  <1>4. TrackInv'
    BY <1>1 DEF TrackInv
  <1>5. BoundInv'
    BY <1>1, <1>2, BoundStep DEF SetsType
  <1> QED BY <1>1, <1>3, <1>4, <1>5 DEF RInv, RType

(* A step of a session: no call and no list is concerned.                  *)
LEMMA SessionStep ==
  ASSUME RInv, SessType',
         UNCHANGED <<residents, pending, loaded, known, caller, leaked, calls, cancels, scope>>
  PROVE  RInv'
  <1>1. RType' /\ CallerInv'
    BY DEF RInv, RType, ListType, SetsType, CallerInv
  <1>2. Tracked' = Tracked /\ Creating' = Creating
    BY DEF Tracked, Creating, Candidates, Committing, Listed, At
  <1>3. SlotsAreHeld'
    BY DEF RInv, SlotsAreHeld, HoldsSlot
  <1>4. TrackInv' /\ BoundInv'
    BY <1>2 DEF RInv, TrackInv, BoundInv, Bound
  <1> QED BY <1>1, <1>3, <1>4 DEF RInv

-----------------------------------------------------------------------------
(* A call begins.                                                          *)
LEMMA BeginRInv ==
  ASSUME RInv, NEW c \in Callers,
         \/ BeginSpawn(c)
         \/ \E op \in {"message", "followup"}, t \in Threads : BeginMessage(c, op, t)
  PROVE  RInv'
  <1>0. RType /\ ListType /\ SetsType /\ SessType /\ TrackInv
    BY DEF RInv, RType
  <1>1. PICK r \in CallerType :
          /\ caller' = [caller EXCEPT ![c] = r]
          /\ Knows(r) /\ r.cand = NoThread /\ r.pc \in {"reserve", "resolve"}
    <2>1. CASE BeginSpawn(c)
      <3> DEFINE r == [Idle EXCEPT !.pc = "reserve", !.op = "spawn"]
      <3>1. r \in CallerType /\ Knows(r) /\ r.cand = NoThread /\ r.pc = "reserve"
        BY ThreadsAssumption DEF Idle, CallerType, Pcs, Knows
      <3> QED BY <2>1, <3>1 DEF BeginSpawn
    <2>2. ASSUME NEW op \in {"message", "followup"}, NEW t \in Threads, BeginMessage(c, op, t)
          PROVE  \E r \in CallerType :
                   /\ caller' = [caller EXCEPT ![c] = r]
                   /\ Knows(r) /\ r.cand = NoThread /\ r.pc \in {"reserve", "resolve"}
      <3> DEFINE r == [Idle EXCEPT !.pc = "resolve", !.op = op, !.tgt = t]
      <3>1. r \in CallerType /\ Knows(r) /\ r.cand = NoThread /\ r.pc = "resolve"
        BY ThreadsAssumption DEF Idle, CallerType, Pcs, Knows
      <3> QED BY <2>2, <3>1 DEF BeginMessage
    <2> QED BY <2>1, <2>2
  <1>2. /\ caller[c].pc = "idle" /\ calls' \in 0..MaxCalls
        /\ UNCHANGED <<residents, pending, loaded, known, sess, gen, chan, mbox, leaked, cancels, scope>>
    <2>1. calls \in 0..MaxCalls /\ MaxCalls \in Nat
      BY <1>0, ScopeTypes DEF SetsType
    <2>2. /\ caller[c].pc = "idle" /\ calls < MaxCalls /\ calls' = calls + 1
          /\ UNCHANGED <<residents, pending, loaded, known, sess, gen, chan, mbox,
                         leaked, cancels, scope>>
      BY ZenonT(30) DEF BeginSpawn, BeginMessage, At, sessVars
    <2> HIDE DEF BeginSpawn, BeginMessage
    <2> QED BY <2>1, <2>2
  <1>3. ListType' /\ SetsType' /\ SessType' /\ Listed' = Listed
    BY <1>0, <1>2 DEF ListType, SetsType, SessType, Listed
  <1>4. Own(r) = {} /\ Own(caller[c]) = {}
    BY <1>1, <1>2 DEF Own, RInv, CallerInv, Knows, RType, CallerType
  <1>5. Tracked = Listed \cup leaked \cup Own(caller[c]) \cup Others(c)
    BY TrackedBy DEF RInv, RType
  <1> QED BY <1>0, <1>1, <1>2, <1>3, <1>4, <1>5, QuietStep DEF TrackInv, HoldsSlot

(* Facts about a call before a step.                                       *)
LEMMA CallFacts ==
  ASSUME RInv, NEW c \in Callers
  PROVE  /\ ListType /\ SetsType /\ SessType
         /\ caller[c] \in CallerType /\ Knows(caller[c])
         /\ loaded \subseteq Listed \cup leaked \cup Own(caller[c]) \cup Others(c)
         /\ loaded \subseteq Threads
  <1>1. Tracked = Listed \cup leaked \cup Own(caller[c]) \cup Others(c)
    BY TrackedBy DEF RInv, RType
  <1> QED BY <1>1 DEF RInv, RType, CallerInv, TrackInv, SetsType

(* ensure_v2_agent_loaded touches a loaded thread, which is tracked.       *)
LEMMA ResolveRInv ==
  ASSUME RInv, NEW c \in Callers, Resolve(c)
  PROVE  RInv'
  <1> DEFINE t == caller[c].tgt
  <1>0. /\ ListType /\ SetsType /\ SessType
        /\ caller[c] \in CallerType /\ Knows(caller[c])
        /\ loaded \subseteq Listed \cup leaked \cup Own(caller[c]) \cup Others(c)
        /\ loaded \subseteq Threads
    BY CallFacts
  <1>1. /\ caller[c].pc = "resolve"
        /\ UNCHANGED <<pending, loaded, known, sess, gen, chan, mbox, leaked, calls, cancels, scope>>
    BY DEF Resolve, At, sessVars
  <1>2. SetsType' /\ SessType'
    BY <1>0, <1>1 DEF SetsType, SessType
  <1>3. ListType' /\ Listed \subseteq Listed'
        /\ Listed' \subseteq Listed \cup loaded
    <2>1. CASE t \in loaded
      <3>1. residents' = Touched(t) /\ t \in Threads
        BY <1>0, <2>1 DEF Resolve
      <3>2. /\ Touched(t) \in Seq(Threads) /\ Distinct(Touched(t))
            /\ Elems(Touched(t)) = Listed \cup {t}
        BY <1>0, <3>1, TouchedProperties
      <3> QED BY <2>1, <3>1, <3>2 DEF ListType, Listed, Elems
    <2>2. CASE t \notin loaded
      BY <1>0, <2>2 DEF Resolve, ListType, Listed
    <2> QED BY <2>1, <2>2
  <1>4. \E r \in CallerType :
          /\ caller' = [caller EXCEPT ![c] = r] /\ Knows(r)
          /\ r.pc \notin {"lookup", "create", "commit"} /\ Own(r) = {}
    <2>1. CASE \E l \in {"capacity", "reserve"} : Goto(c, l)
      <3>1. PICK l \in {"capacity", "reserve"} : Goto(c, l)
        BY <2>1
      <3> DEFINE r == [caller[c] EXCEPT !.pc = l]
      <3>2. r \in CallerType /\ Knows(r) /\ r.pc = l /\ Own(r) = {}
        BY <1>0, <1>1 DEF CallerType, Pcs, Knows, Own
      <3> QED BY <3>1, <3>2 DEF Goto
    <2>2. CASE Return(c)
      <3>1. Idle \in CallerType /\ Knows(Idle) /\ Own(Idle) = {} /\ Idle.pc = "idle"
        BY ThreadsAssumption DEF Idle, CallerType, Pcs, Knows, Own
      <3> QED BY <2>2, <3>1 DEF Return
    <2> QED BY <2>1, <2>2 DEF Resolve
  <1>5. Own(caller[c]) = {}
    BY <1>0, <1>1 DEF Own, Knows, CallerType
  <1> QED BY <1>0, <1>1, <1>2, <1>3, <1>4, <1>5, QuietStep DEF HoldsSlot

(* The record a call returns with, and one that only moves on.             *)
LEMMA IdleFacts == Idle \in CallerType /\ Knows(Idle) /\ Own(Idle) = {} /\ Idle.pc = "idle"
  BY ThreadsAssumption DEF Idle, CallerType, Pcs, Knows, Own

(* A call that has a candidate.                                            *)
LEMMA EvictRecord ==
  ASSUME NEW q, q \in CallerType, Knows(q), q.scan # 0,
         q.pc \in {"scan", "inspect", "evict"},
         NEW r, r \in CallerType, r.pc \in {"inspect", "evict", "wait"},
         r.cand \in Threads, r.tgt = q.tgt, r.op = q.op, r.scan = q.scan
  PROVE  Knows(r) /\ Own(r) = {r.cand}
  <1>2. Knows(r)
    <2>1. q.scan > 0 /\ (q.op # "spawn" => q.tgt \in Threads)
      BY DEF CallerType, Knows
    <2> QED BY <2>1 DEF Knows
  <1>3. Own(r) = {r.cand}
    BY ThreadsAssumption DEF Own
  <1> QED BY <1>2, <1>3

(* The first free entry of a list without duplicates.                      *)
LEMMA FirstFree ==
  ASSUME ListType, NEW t, NEW free,
         free = {i \in DOMAIN residents : residents[i] # t}, free # {}
  PROVE  Min(free) \in free
  <1>1. residents \in Seq(Threads) /\ Distinct(residents) /\ DOMAIN residents = 1..Len(residents)
        /\ Len(residents) \in Nat
    BY DEF ListType
  <1>2. \E i \in free : \A j \in free : i <= j
    <2>1. CASE 1 \in free
      BY <1>1, <2>1
    <2>2. CASE 1 \notin free
      <3>1. PICK i \in free : TRUE
        OBVIOUS
      <3>2. i \in 1..Len(residents) /\ i # 1 /\ 1 \in 1..Len(residents)
        BY <1>1, <2>2, <3>1
      <3>3. residents[1] = t /\ 2 \in 1..Len(residents)
        BY <1>1, <2>2, <3>2
      <3>4. 2 \in free
        BY <1>1, <3>2, <3>3 DEF Distinct
      <3>5. \A j \in free : 2 <= j
        BY <1>1, <2>2
      <3> QED BY <3>4, <3>5
    <2> QED BY <2>1, <2>2
  <1> QED BY <1>2 DEF Min

(* pop_lru_candidate: the candidate leaves the list and belongs to the     *)
(* call; without one the call fails.                                       *)
LEMMA PopCandidateRInv ==
  ASSUME RInv, NEW c \in Callers, PopCandidate(c)
  PROVE  RInv'
  <1> DEFINE free == {i \in DOMAIN residents : residents[i] # caller[c].tgt}
             first == Min(free)
  <1>0. /\ ListType /\ SetsType /\ SessType
        /\ caller[c] \in CallerType /\ Knows(caller[c])
        /\ loaded \subseteq Listed \cup leaked \cup Own(caller[c]) \cup Others(c)
        /\ loaded \subseteq Threads
    BY CallFacts
  <1>1. /\ caller[c].pc = "scan"
        /\ UNCHANGED <<pending, loaded, known, sess, gen, chan, mbox, leaked, calls, cancels, scope>>
    BY DEF PopCandidate, At, sessVars
  <1>2. SetsType' /\ SessType'
    BY <1>0, <1>1 DEF SetsType, SessType
  <1>3. Own(caller[c]) = {}
    BY <1>0, <1>1 DEF Own, Knows, CallerType
  <1>4. CASE caller[c].scan = 0 \/ free = {}
    <2>1. caller' = [caller EXCEPT ![c] = Idle] /\ residents' = residents
      BY <1>4 DEF PopCandidate, Return
    <2>2. ListType' /\ Listed' = Listed
      BY <1>0, <2>1 DEF ListType, Listed
    <2> QED BY <1>0, <1>1, <1>2, <1>3, <2>1, <2>2, IdleFacts, QuietStep DEF HoldsSlot
  <1>5. CASE ~(caller[c].scan = 0 \/ free = {})
    <2>1. /\ residents' = SubSeq(residents, first + 1, Len(residents))
                            \o SubSeq(residents, 1, first - 1)
          /\ caller' = [caller EXCEPT ![c].pc = "inspect",
                          ![c].cand = residents[first],
                          ![c].candGen = gen[residents[first]]]
      BY <1>5 DEF PopCandidate
    <2>2. first \in 1..Len(residents)
      <3>1. Min(free) \in free
        <4> HIDE DEF free
        <4>1. free = {i \in DOMAIN residents : residents[i] # caller[c].tgt} /\ free # {}
          BY <1>5 DEF free
        <4> QED BY <1>0, <4>1, FirstFree
      <3>2. DOMAIN residents = 1..Len(residents)
        BY <1>0 DEF ListType
      <3> QED BY <3>1, <3>2
    <2> HIDE DEF first
    <2> DEFINE k == residents[first]
               r == [caller[c] EXCEPT !.pc = "inspect", !.cand = k, !.candGen = gen[k]]
    <2>3. k \in Threads /\ k # NoThread /\ gen[k] \in Nat
      BY <1>0, <2>2, ThreadsAssumption DEF ListType, SessType
    <2>4. residents' \in Seq(Threads) /\ Distinct(residents') /\ Elems(residents') = Elems(residents) \ {k}
      BY <1>0, <2>1, <2>2, RotateProperties DEF ListType
    <2>5. ListType' /\ Listed' = Listed \ {k} /\ k \in Listed
      <3>1. Listed = Elems(residents) /\ Listed' = Elems(residents')
        BY DEF Listed, Elems
      <3>2. first \in DOMAIN residents
        BY <1>0, <2>2 DEF ListType
      <3>3. k \in Listed
        BY <3>2 DEF Listed
      <3> HIDE DEF k
      <3> QED BY <2>4, <3>1, <3>3 DEF ListType
    <2> HIDE DEF k
    <2>6. caller' = [caller EXCEPT ![c] = r]
      BY <2>1 DEF k
    <2>7. r \in CallerType /\ Knows(r) /\ Own(r) = {k} /\ r.pc = "inspect"
      <3> DEFINE q == caller[c]
      <3>1. q \in CallerType /\ Knows(q) /\ q.pc = "scan" /\ q.scan # 0
        BY <1>0, <1>1, <1>5
      <3>2. r = [q EXCEPT !.pc = "inspect", !.cand = k, !.candGen = gen[k]]
        OBVIOUS
      <3> HIDE DEF q, r
      <3>3. /\ r \in CallerType /\ r.pc = "inspect" /\ r.cand = k
            /\ r.tgt = q.tgt /\ r.op = q.op /\ r.scan = q.scan
        BY <2>3, <3>1, <3>2 DEF CallerType, Pcs
      <3> QED BY <2>3, <3>1, <3>3, EvictRecord
    <2> HIDE DEF r
    <2> QED BY <1>0, <1>1, <1>2, <1>3, <2>5, <2>6, <2>7, QuietStep DEF HoldsSlot
  <1> QED BY <1>4, <1>5

(* The candidate goes back to the list, is dropped when it is not loaded,  *)
(* or stays with the call.                                                 *)
LEMMA InspectRInv ==
  ASSUME RInv, NEW c \in Callers, Inspect(c)
  PROVE  RInv'
  <1> DEFINE t == caller[c].cand
             busy == t \in loaded /\ ~Unloadable(t)
  <1>0. /\ ListType /\ SetsType /\ SessType
        /\ caller[c] \in CallerType /\ Knows(caller[c])
        /\ loaded \subseteq Listed \cup leaked \cup Own(caller[c]) \cup Others(c)
        /\ loaded \subseteq Threads
    BY CallFacts
  <1>1. /\ caller[c].pc = "inspect"
        /\ UNCHANGED <<pending, loaded, known, sess, gen, chan, mbox, leaked, calls, cancels, scope>>
    BY DEF Inspect, At, sessVars
  <1>2. SetsType' /\ SessType'
    BY <1>0, <1>1 DEF SetsType, SessType
  <1>3. t \in Threads /\ t # NoThread /\ Own(caller[c]) = {t} /\ caller[c].scan \in Nat
        /\ caller[c].scan > 0
    BY <1>0, <1>1, ThreadsAssumption DEF Own, Knows, CallerType
  <1>4. CASE t \in loaded /\ ~busy
    <2> DEFINE r == [caller[c] EXCEPT !.pc = "evict", !.candGen = gen[t]]
    <2>1. caller' = [caller EXCEPT ![c] = r] /\ residents' = residents
      BY <1>4 DEF Inspect
    <2>2. ListType' /\ Listed' = Listed
      BY <1>0, <2>1 DEF ListType, Listed
    <2>3. gen[t] \in Nat
      BY <1>0, <1>3 DEF SessType
    <2>4. r \in CallerType /\ Knows(r) /\ Own(r) = {t} /\ r.pc = "evict"
      <3> DEFINE q == caller[c]
      <3>1. /\ q \in CallerType /\ Knows(q) /\ q.pc = "inspect" /\ q.scan # 0
            /\ q.cand = t
        BY <1>0, <1>1, <1>3
      <3>2. r = [q EXCEPT !.pc = "evict", !.candGen = gen[t]]
        OBVIOUS
      <3> HIDE DEF q, r, t
      <3>3. /\ r \in CallerType /\ r.pc = "evict" /\ r.cand = t
            /\ r.tgt = q.tgt /\ r.op = q.op /\ r.scan = q.scan
        BY <2>3, <3>1, <3>2 DEF CallerType, Pcs
      <3> QED BY <1>3, <3>1, <3>3, EvictRecord
    <2> HIDE DEF r
    <2> QED BY <1>0, <1>1, <1>2, <1>3, <2>1, <2>2, <2>4, QuietStep DEF HoldsSlot
  <1>5. CASE ~(t \in loaded /\ ~busy)
    <2> DEFINE r == [caller[c] EXCEPT !.pc = "scan", !.cand = NoThread, !.scan = @ - 1]
    <2>1. caller' = [caller EXCEPT ![c] = r]
      BY <1>5 DEF Inspect
    <2>2. r \in CallerType /\ Knows(r) /\ Own(r) = {} /\ r.pc = "scan"
      <3> DEFINE q == caller[c]
      <3>1. /\ q \in CallerType /\ Knows(q) /\ q.pc = "inspect" /\ q.scan - 1 \in Nat
        BY <1>0, <1>1, <1>3
      <3>2. r = [q EXCEPT !.pc = "scan", !.cand = NoThread, !.scan = q.scan - 1]
        OBVIOUS
      <3> HIDE DEF q, r
      <3>3. /\ r \in CallerType /\ r.pc = "scan" /\ r.cand = NoThread
            /\ r.tgt = q.tgt /\ r.op = q.op
        BY <3>1, <3>2 DEF CallerType, Pcs
      <3> QED BY <3>1, <3>3, ThreadsAssumption DEF Knows, Own
    <2> HIDE DEF r
    <2>3. CASE busy
      <3>1. residents' = Touched(t)
        BY <2>3 DEF Inspect, PutBack
      <3>2. /\ Touched(t) \in Seq(Threads) /\ Distinct(Touched(t))
            /\ Elems(Touched(t)) = Listed \cup {t}
        BY <1>0, <1>3, TouchedProperties
      <3>3. ListType' /\ Listed' = Listed \cup {t}
        BY <3>1, <3>2 DEF ListType, Listed, Elems
      <3> QED BY <1>0, <1>1, <1>2, <1>3, <2>1, <2>2, <3>3, QuietStep DEF HoldsSlot
    <2>4. CASE ~busy
      <3>1. residents' = residents /\ t \notin loaded
        BY <1>5, <2>4 DEF Inspect
      <3>2. ListType' /\ Listed' = Listed
        BY <1>0, <3>1 DEF ListType, Listed
      <3> QED BY <1>0, <1>1, <1>2, <1>3, <2>1, <2>2, <3>1, <3>2, QuietStep DEF HoldsSlot
    <2> QED BY <2>3, <2>4
  <1> QED BY <1>4, <1>5

(* A call that moves on with its locals.                                   *)
LEMMA GotoRecord ==
  ASSUME NEW c \in Callers, caller[c] \in CallerType, NEW l \in Pcs, Goto(c, l)
  PROVE  \E r \in CallerType :
           /\ caller' = [caller EXCEPT ![c] = r] /\ r.pc = l
           /\ r.op = caller[c].op /\ r.tgt = caller[c].tgt /\ r.cand = caller[c].cand
           /\ r.scan = caller[c].scan
  <1> DEFINE q == caller[c]
             r == [q EXCEPT !.pc = l]
  <1>1. caller' = [caller EXCEPT ![c] = r]
    BY DEF Goto
  <1>2. q \in CallerType /\ r = [q EXCEPT !.pc = l]
    OBVIOUS
  <1> HIDE DEF q, r
  <1>3. /\ r \in CallerType /\ r.pc = l /\ r.op = q.op /\ r.tgt = q.tgt /\ r.cand = q.cand
        /\ r.scan = q.scan
    BY <1>2 DEF CallerType
  <1> QED BY <1>1, <1>3 DEF q

(* A call that stands for no thread.                                       *)
LEMMA PlainRecord ==
  ASSUME NEW r, r \in CallerType, r.cand = NoThread,
         r.pc \notin {"inspect", "evict", "wait", "commit"},
         r.pc \in {"resolve", "capacity", "send"} \/ r.op # "spawn" => r.tgt \in Threads
  PROVE  Knows(r) /\ Own(r) = {}
  BY ThreadsAssumption DEF Knows, Own

(* shutdown_and_wait keeps the candidate.                                  *)
LEMMA SubmitShutdownRInv ==
  ASSUME RInv, NEW c \in Callers, SubmitShutdown(c)
  PROVE  RInv'
  <1> DEFINE t == caller[c].cand
  <1>0. /\ ListType /\ SetsType /\ SessType
        /\ caller[c] \in CallerType /\ Knows(caller[c])
        /\ loaded \subseteq Listed \cup leaked \cup Own(caller[c]) \cup Others(c)
        /\ loaded \subseteq Threads
    BY CallFacts
  <1>1. /\ caller[c].pc = "evict" /\ Goto(c, "wait")
        /\ UNCHANGED <<residents, pending, loaded, known, sess, gen, mbox, leaked,
                       calls, cancels, scope>>
    BY DEF SubmitShutdown, At
  <1>2. t \in Threads /\ t # NoThread /\ caller[c].scan # 0
    BY <1>0, <1>1, ThreadsAssumption DEF Knows, CallerType
  <1>3. Own(caller[c]) = {t}
    BY <1>1, <1>2 DEF Own
  <1>4. PICK r \in CallerType :
          /\ caller' = [caller EXCEPT ![c] = r] /\ r.pc = "wait"
          /\ r.op = caller[c].op /\ r.tgt = caller[c].tgt /\ r.cand = t
          /\ r.scan = caller[c].scan
    <2>1. "wait" \in Pcs
      BY DEF Pcs
    <2> QED BY <1>0, <1>1, <2>1, GotoRecord
  <1>5. Knows(r) /\ Own(r) = {t}
    <2>1. caller[c] \in CallerType /\ Knows(caller[c])
      BY <1>0
    <2> QED BY <1>1, <1>2, <1>4, <2>1, EvictRecord
  <1>6. SessType'
    <2>1. chan' \in [Threads -> Seq({"queue", "trigger", "shutdown"})]
      <3>1. chan \in [Threads -> Seq({"queue", "trigger", "shutdown"})]
        BY <1>0 DEF SessType
      <3>2. chan[t] \in Seq({"queue", "trigger", "shutdown"})
        BY <1>2, <3>1
      <3> DEFINE v == Append(chan[t], "shutdown")
      <3>3. v \in Seq({"queue", "trigger", "shutdown"})
        BY <3>2
      <3>4. chan' = chan \/ chan' = [chan EXCEPT ![t] = v]
        BY DEF SubmitShutdown
      <3> HIDE DEF v
      <3> QED BY <3>1, <3>3, <3>4
    <2> QED BY <1>0, <1>1, <2>1 DEF SessType
  <1>7. ListType' /\ SetsType' /\ Listed' = Listed
    BY <1>0, <1>1 DEF ListType, SetsType, Listed
  <1> QED BY <1>0, <1>1, <1>3, <1>4, <1>5, <1>6, <1>7, QuietStep DEF HoldsSlot

(* remove_thread unloads the candidate, which is tracked no longer.        *)
LEMMA UnloadRInv ==
  ASSUME RInv, NEW c \in Callers, Unload(c)
  PROVE  RInv'
  <1> DEFINE t == caller[c].cand
             r == [caller[c] EXCEPT !.pc = "reserve", !.cand = NoThread]
  <1>0. /\ ListType /\ SetsType /\ SessType
        /\ caller[c] \in CallerType /\ Knows(caller[c])
        /\ loaded \subseteq Listed \cup leaked \cup Own(caller[c]) \cup Others(c)
        /\ loaded \subseteq Threads
    BY CallFacts
  <1>1. /\ caller[c].pc = "wait" /\ caller' = [caller EXCEPT ![c] = r]
        /\ loaded' = loaded \ {t}
        /\ UNCHANGED <<residents, pending, known, sess, gen, chan, mbox, leaked,
                       calls, cancels, scope>>
    BY DEF Unload, At, sessVars
  <1>2. Own(caller[c]) = {t}
    BY <1>0, <1>1, ThreadsAssumption DEF Knows, CallerType, Own
  <1>3. r \in CallerType /\ Knows(r) /\ Own(r) = {} /\ r.pc = "reserve"
    <2> DEFINE q == caller[c]
    <2>1. q \in CallerType /\ Knows(q) /\ q.pc = "wait"
      BY <1>0, <1>1
    <2>2. r = [q EXCEPT !.pc = "reserve", !.cand = NoThread]
      OBVIOUS
    <2> HIDE DEF q, r
    <2>3. /\ r \in CallerType /\ r.pc = "reserve" /\ r.cand = NoThread
          /\ r.tgt = q.tgt /\ r.op = q.op
      BY <2>1, <2>2 DEF CallerType, Pcs
    <2>4. r.op # "spawn" => r.tgt \in Threads
      BY <2>1, <2>3 DEF Knows
    <2> QED BY <2>3, <2>4, PlainRecord
  <1> HIDE DEF r
  <1>4. ListType' /\ SetsType' /\ SessType' /\ Listed' = Listed
    BY <1>0, <1>1 DEF ListType, SetsType, SessType, Listed
  <1> QED BY <1>0, <1>1, <1>2, <1>3, <1>4, QuietStep DEF HoldsSlot

(* The slot of a creation that failed is given back.                       *)
LEMMA CreateFailsRInv ==
  ASSUME RInv, NEW c \in Callers, CreateFails(c)
  PROVE  RInv'
  <1>0. /\ ListType /\ SetsType /\ SessType
        /\ caller[c] \in CallerType /\ Knows(caller[c])
        /\ loaded \subseteq Listed \cup leaked \cup Own(caller[c]) \cup Others(c)
        /\ loaded \subseteq Threads
    BY CallFacts
  <1>1. /\ caller[c].pc = "create" /\ caller' = [caller EXCEPT ![c] = Idle]
        /\ pending' = pending - 1
        /\ UNCHANGED <<residents, loaded, known, sess, gen, chan, mbox, leaked,
                       calls, cancels, scope>>
    BY DEF CreateFails, At, sessVars, DropSlot, Return
  <1>2. Own(caller[c]) = {}
    BY <1>0, <1>1 DEF Knows, CallerType, Own
  <1>3. ListType' /\ SetsType' /\ SessType' /\ Listed' = Listed
    BY <1>0, <1>1 DEF ListType, SetsType, SessType, Listed
  <1> QED BY <1>0, <1>1, <1>2, <1>3, IdleFacts, QuietStep DEF HoldsSlot

(* A lost race: the thread is loaded, hence tracked, and is touched.       *)
LEMMA CreateLosesRaceRInv ==
  ASSUME RInv, NEW c \in Callers, CreateLosesRace(c)
  PROVE  RInv'
  <1> DEFINE t == caller[c].tgt
  <1>0. /\ ListType /\ SetsType /\ SessType
        /\ caller[c] \in CallerType /\ Knows(caller[c])
        /\ loaded \subseteq Listed \cup leaked \cup Own(caller[c]) \cup Others(c)
        /\ loaded \subseteq Threads
    BY CallFacts
  <1>1. /\ caller[c].pc = "create" /\ Goto(c, "capacity") /\ t \in loaded
        /\ pending' = pending - 1 /\ residents' = Touched(t)
        /\ UNCHANGED <<loaded, known, sess, gen, chan, mbox, leaked, calls, cancels, scope>>
    BY DEF CreateLosesRace, At, sessVars, DropSlot
  <1>2. Own(caller[c]) = {} /\ caller[c].cand = NoThread
    BY <1>0, <1>1 DEF Knows, CallerType, Own
  <1>3. PICK r \in CallerType :
          /\ caller' = [caller EXCEPT ![c] = r] /\ r.pc = "capacity"
          /\ r.op = caller[c].op /\ r.tgt = t /\ r.cand = caller[c].cand
          /\ r.scan = caller[c].scan
    <2>1. "capacity" \in Pcs
      BY DEF Pcs
    <2> QED BY <1>0, <1>1, <2>1, GotoRecord
  <1>4. Knows(r) /\ Own(r) = {}
    <2>1. t \in Threads
      BY <1>0, <1>1
    <2> QED BY <1>2, <1>3, <2>1, PlainRecord
  <1>5. SetsType' /\ SessType'
    BY <1>0, <1>1 DEF SetsType, SessType
  <1>6. ListType' /\ Listed' = Listed \cup {t}
    <2>1. /\ Touched(t) \in Seq(Threads) /\ Distinct(Touched(t))
          /\ Elems(Touched(t)) = Listed \cup {t}
      BY <1>0, <1>1, TouchedProperties
    <2> QED BY <1>1, <2>1 DEF ListType, Listed, Elems
  <1> QED BY <1>0, <1>1, <1>2, <1>3, <1>4, <1>5, <1>6, QuietStep DEF HoldsSlot

(* A thread to resume that is loaded is tracked and is touched; one that   *)
(* died is tracked no longer.                                              *)
LEMMA LookupRInv ==
  ASSUME RInv, NEW c \in Callers, Lookup(c)
  PROVE  RInv'
  <1> DEFINE t == caller[c].tgt
             up == t \in loaded /\ Live(t)
  <1>0. /\ ListType /\ SetsType /\ SessType
        /\ caller[c] \in CallerType /\ Knows(caller[c])
        /\ loaded \subseteq Listed \cup leaked \cup Own(caller[c]) \cup Others(c)
        /\ loaded \subseteq Threads
    BY CallFacts
  <1>1. /\ caller[c].pc = "lookup" /\ loaded' \subseteq loaded
        /\ IF up THEN pending' = pending - 1 /\ residents' = Touched(t) /\ Goto(c, "capacity")
           ELSE pending' = pending /\ residents' = residents /\ Goto(c, "create")
        /\ UNCHANGED <<known, sess, gen, chan, mbox, leaked, calls, cancels, scope>>
    BY DEF Lookup, At, sessVars, DropSlot
  <1>2. /\ Own(caller[c]) = {} /\ caller[c].cand = NoThread
        /\ (caller[c].op # "spawn" => t \in Threads)
    BY <1>0, <1>1 DEF Knows, CallerType, Own
  <1>3. SetsType' /\ SessType'
    BY <1>0, <1>1 DEF SetsType, SessType
  <1>4. "capacity" \in Pcs /\ "create" \in Pcs
    BY DEF Pcs
  <1>5. CASE up
    <2>1. t \in Threads /\ Goto(c, "capacity") /\ pending' = pending - 1 /\ residents' = Touched(t)
      BY <1>0, <1>1, <1>5
    <2>2. PICK r \in CallerType :
            /\ caller' = [caller EXCEPT ![c] = r] /\ r.pc = "capacity"
            /\ r.op = caller[c].op /\ r.tgt = t /\ r.cand = caller[c].cand
            /\ r.scan = caller[c].scan
      BY <1>0, <1>4, <2>1, GotoRecord
    <2>3. Knows(r) /\ Own(r) = {}
      BY <1>2, <2>1, <2>2, PlainRecord
    <2>4. ListType' /\ Listed' = Listed \cup {t}
      <3>1. /\ Touched(t) \in Seq(Threads) /\ Distinct(Touched(t))
            /\ Elems(Touched(t)) = Listed \cup {t}
        BY <1>0, <2>1, TouchedProperties
      <3> QED BY <2>1, <3>1 DEF ListType, Listed, Elems
    <2> QED BY <1>0, <1>1, <1>2, <1>3, <1>5, <2>1, <2>2, <2>3, <2>4, QuietStep DEF HoldsSlot
  <1>6. CASE ~up
    <2>1. Goto(c, "create") /\ pending' = pending /\ residents' = residents
      BY <1>1, <1>6
    <2>2. PICK r \in CallerType :
            /\ caller' = [caller EXCEPT ![c] = r] /\ r.pc = "create"
            /\ r.op = caller[c].op /\ r.tgt = t /\ r.cand = caller[c].cand
            /\ r.scan = caller[c].scan
      BY <1>0, <1>4, <2>1, GotoRecord
    <2>3. Knows(r) /\ Own(r) = {}
      BY <1>2, <2>2, PlainRecord
    <2>4. ListType' /\ Listed' = Listed
      BY <1>0, <2>1 DEF ListType, Listed
    <2> QED BY <1>0, <1>1, <1>2, <1>3, <2>1, <2>2, <2>3, <2>4, QuietStep DEF HoldsSlot
  <1> QED BY <1>5, <1>6

(* The committed thread goes on the list, and its slot is given back.      *)
LEMMA CommitRInv ==
  ASSUME RInv, NEW c \in Callers, Commit(c)
  PROVE  RInv'
  <1> DEFINE t == caller[c].tgt
  <1>0. /\ ListType /\ SetsType /\ SessType
        /\ caller[c] \in CallerType /\ Knows(caller[c])
        /\ loaded \subseteq Listed \cup leaked \cup Own(caller[c]) \cup Others(c)
        /\ loaded \subseteq Threads
    BY CallFacts
  <1>1. /\ caller[c].pc = "commit"
        /\ pending' = pending - 1 /\ residents' = Touched(t)
        /\ known' \subseteq known \cup {t}
        /\ UNCHANGED <<loaded, sess, gen, chan, mbox, leaked, calls, cancels, scope>>
    BY DEF Commit, At, sessVars
  <1>2. t \in Threads /\ Own(caller[c]) = {t} /\ caller[c].cand = NoThread
    BY <1>0, <1>1, ThreadsAssumption DEF Knows, CallerType, Own
  <1>3. PICK l \in {"send", "capacity"} : Goto(c, l)
    BY DEF Commit
  <1>4. PICK r \in CallerType :
          /\ caller' = [caller EXCEPT ![c] = r] /\ r.pc = l
          /\ r.op = caller[c].op /\ r.tgt = t /\ r.cand = caller[c].cand
          /\ r.scan = caller[c].scan
    <2>1. l \in Pcs
      BY DEF Pcs
    <2> QED BY <1>0, <1>3, <2>1, GotoRecord
  <1>5. Knows(r) /\ Own(r) = {} /\ r.pc \notin {"lookup", "create", "commit"}
    <2>1. r.pc \in {"send", "capacity"}
      BY <1>4
    <2> QED BY <1>2, <1>4, <2>1, PlainRecord
  <1>6. SetsType' /\ SessType'
    BY <1>0, <1>1, <1>2 DEF SetsType, SessType
  <1>7. ListType' /\ Listed' = Listed \cup {t}
    <2>1. /\ Touched(t) \in Seq(Threads) /\ Distinct(Touched(t))
          /\ Elems(Touched(t)) = Listed \cup {t}
      BY <1>0, <1>2, TouchedProperties
    <2> QED BY <1>1, <2>1 DEF ListType, Listed, Elems
  <1> QED BY <1>0, <1>1, <1>2, <1>4, <1>5, <1>6, <1>7, QuietStep DEF HoldsSlot

(* ensure_execution_capacity_for_turn_start only moves the call.           *)
LEMMA CheckCapacityRInv ==
  ASSUME RInv, NEW c \in Callers, CheckCapacity(c)
  PROVE  RInv'
  <1>0. /\ ListType /\ SetsType /\ SessType
        /\ caller[c] \in CallerType /\ Knows(caller[c])
        /\ loaded \subseteq Listed \cup leaked \cup Own(caller[c]) \cup Others(c)
        /\ loaded \subseteq Threads
    BY CallFacts
  <1>1. /\ caller[c].pc = "capacity" /\ (Goto(c, "send") \/ Return(c))
        /\ UNCHANGED <<residents, pending, loaded, known, sess, gen, chan, mbox,
                       leaked, calls, cancels, scope>>
    BY DEF CheckCapacity, At, sessVars
  <1>2. /\ Own(caller[c]) = {} /\ caller[c].cand = NoThread
        /\ caller[c].tgt \in Threads
    BY <1>0, <1>1 DEF Knows, CallerType, Own
  <1>3. \E r \in CallerType :
          /\ caller' = [caller EXCEPT ![c] = r] /\ Knows(r)
          /\ r.pc \notin {"lookup", "create", "commit"} /\ Own(r) = {}
    <2>1. CASE Goto(c, "send")
      <3>1. "send" \in Pcs
        BY DEF Pcs
      <3>2. PICK r \in CallerType :
              /\ caller' = [caller EXCEPT ![c] = r] /\ r.pc = "send"
              /\ r.op = caller[c].op /\ r.tgt = caller[c].tgt /\ r.cand = caller[c].cand
              /\ r.scan = caller[c].scan
        BY <1>0, <2>1, <3>1, GotoRecord
      <3>3. Knows(r) /\ Own(r) = {}
        BY <1>2, <3>2, PlainRecord
      <3> QED BY <3>2, <3>3
    <2>2. CASE Return(c)
      BY <2>2, IdleFacts DEF Return
    <2> QED BY <1>1, <2>1, <2>2
  <1>4. ListType' /\ SetsType' /\ SessType' /\ Listed' = Listed
    BY <1>0, <1>1 DEF ListType, SetsType, SessType, Listed
  <1> QED BY <1>0, <1>1, <1>2, <1>3, <1>4, QuietStep DEF HoldsSlot

(* A message to a thread whose loop is gone makes the tree forget it.      *)
LEMMA SendRInv ==
  ASSUME RInv, NEW c \in Callers, Send(c)
  PROVE  RInv'
  <1> DEFINE t == caller[c].tgt
             died == t \in loaded /\ ~Live(t)
  <1>0. /\ ListType /\ SetsType /\ SessType
        /\ caller[c] \in CallerType /\ Knows(caller[c])
        /\ loaded \subseteq Listed \cup leaked \cup Own(caller[c]) \cup Others(c)
        /\ loaded \subseteq Threads
    BY CallFacts
  <1>1. /\ caller[c].pc = "send" /\ caller' = [caller EXCEPT ![c] = Idle]
        /\ UNCHANGED <<pending, sess, gen, mbox, leaked, calls, cancels, scope>>
    BY DEF Send, At, Return
  <1>2. Own(caller[c]) = {} /\ t \in Threads
    BY <1>0, <1>1 DEF Knows, CallerType, Own
  <1>3. SessType'
    <2> DEFINE M == {"queue", "trigger", "shutdown"}
    <2>1. chan \in [Threads -> Seq(M)]
      BY <1>0 DEF SessType
    <2>2. chan[t] \in Seq(M)
      BY <1>2, <2>1
    <2> DEFINE v == Append(chan[t], IF caller[c].op = "message" THEN "queue" ELSE "trigger")
    <2>3. v \in Seq(M)
      BY <2>2
    <2>4. chan' = chan \/ chan' = [chan EXCEPT ![t] = v]
      BY DEF Send
    <2> HIDE DEF v, M
    <2>5. chan' \in [Threads -> Seq(M)]
      BY <2>1, <2>3, <2>4
    <2> QED BY <1>0, <1>1, <2>5 DEF SessType, M
  <1>4. CASE died
    <2>1. loaded' = loaded \ {t} /\ known' = known \ {t} /\ residents' = Without(t)
      BY <1>4 DEF Send
    <2>2. /\ Without(t) \in Seq(Threads) /\ Distinct(Without(t))
          /\ Elems(Without(t)) = Listed \ {t}
      BY <1>0, WithoutProperties
    <2>3. ListType' /\ Listed' = Listed \ {t}
      BY <2>1, <2>2 DEF ListType, Listed, Elems
    <2>4. SetsType'
      BY <1>0, <1>1, <2>1 DEF SetsType
    <2> QED BY <1>0, <1>1, <1>2, <1>3, <2>1, <2>3, <2>4, IdleFacts, QuietStep DEF HoldsSlot
  <1>5. CASE ~died
    <2>1. loaded' = loaded /\ known' = known /\ residents' = residents
      BY <1>5 DEF Send
    <2>2. ListType' /\ SetsType' /\ Listed' = Listed
      BY <1>0, <1>1, <2>1 DEF ListType, SetsType, Listed
    <2> QED BY <1>0, <1>1, <1>2, <1>3, <2>1, <2>2, IdleFacts, QuietStep DEF HoldsSlot
  <1> QED BY <1>4, <1>5

(* A dropped call gives its slot back and leaves behind its candidate, or  *)
(* the thread that it had inserted and not yet listed.                     *)
LEMMA CancelRInv ==
  ASSUME RInv, NEW c \in Callers, Cancel(c)
  PROVE  RInv'
  <1>0. /\ ListType /\ SetsType /\ SessType
        /\ caller[c] \in CallerType /\ Knows(caller[c])
        /\ loaded \subseteq Listed \cup leaked \cup Own(caller[c]) \cup Others(c)
        /\ loaded \subseteq Threads
    BY CallFacts
  <1>1. /\ caller' = [caller EXCEPT ![c] = Idle]
        /\ cancels < MaxCancels /\ cancels' = cancels + 1
        /\ pending' = IF HoldsSlot(c) THEN pending - 1 ELSE pending
        /\ leaked' = leaked \cup Carried(c)
        /\ UNCHANGED <<residents, loaded, known, sess, gen, chan, mbox, calls, scope>>
    BY DEF Cancel, Return, DropSlot, sessVars
  <1>2. Carried(c) = Own(caller[c])
    BY DEF Own, Carried, At
  <1>3. leaked' = leaked \cup Own(caller[c])
    BY <1>1, <1>2
  <1>4. Own(caller[c]) \subseteq Threads
    BY <1>0 DEF CallerType, Own
  <1>5. SetsType'
    <2>1. cancels' \in 0..MaxCancels
      BY <1>0, <1>1, LimitsAssumption DEF SetsType
    <2> QED BY <1>0, <1>1, <1>3, <1>4, <2>1 DEF SetsType
  <1>6. ListType' /\ SessType' /\ Listed' = Listed
    BY <1>0, <1>1 DEF ListType, SessType, Listed
  <1> QED BY <1>0, <1>1, <1>3, <1>5, <1>6, IdleFacts, QuietStep

-----------------------------------------------------------------------------
(* The image of a finite set is no larger.                                 *)
LEMMA ImageBound ==
  ASSUME NEW S, IsFiniteSet(S), NEW f, NEW T, T = {f[x] : x \in S}
  PROVE  IsFiniteSet(T) /\ Cardinality(T) <= Cardinality(S)
  <1> DEFINE g == [x \in S |-> f[x]]
  <1>1. g \in Surjection(S, T)
    BY DEF Surjection
  <1> HIDE DEF g
  <1> QED BY <1>1, FS_Surjection

(* A union is no larger than its parts together.                           *)
LEMMA UnionBound ==
  ASSUME NEW A, IsFiniteSet(A), NEW B, IsFiniteSet(B), NEW a \in Nat, NEW b \in Nat,
         Cardinality(A) <= a, Cardinality(B) <= b
  PROVE  IsFiniteSet(A \cup B) /\ Cardinality(A \cup B) <= a + b
  <1>1. /\ IsFiniteSet(A \cup B)
        /\ Cardinality(A \cup B) = Cardinality(A) + Cardinality(B) - Cardinality(A \cap B)
    BY FS_Union
  <1>2. A \cap B \in SUBSET A
    OBVIOUS
  <1>3. IsFiniteSet(A \cap B)
    BY <1>2, FS_Subset
  <1>4. Cardinality(A) \in Nat /\ Cardinality(B) \in Nat /\ Cardinality(A \cap B) \in Nat
    BY <1>3, FS_CardinalityType
  <1> QED BY <1>1, <1>4

(* The pending slots are those of the calls that create and that commit.   *)
LEMMA PendingCounts ==
  ASSUME RInv
  PROVE  /\ IsFiniteSet(Committing) /\ Cardinality(Committing) \in Nat
         /\ pending = Cardinality(Creating) + Cardinality(Committing)
  <1>1. Committing \in SUBSET Callers
    BY DEF Committing
  <1>2. IsFiniteSet(Committing)
    BY <1>1, CallersAssumption, FS_Subset
  <1>3. Slots = Creating \cup Committing /\ Creating \cap Committing = {}
    BY DEF Slots, Creating, Committing, HoldsSlot, At
  <1>4. Cardinality(Slots) = Cardinality(Creating) + Cardinality(Committing) - Cardinality({})
    BY <1>2, <1>3, AllFinite, FS_Union
  <1>5. Cardinality({}) = 0 /\ Cardinality(Committing) \in Nat
    BY <1>2, FS_EmptySet, FS_CardinalityType
  <1>6. pending = Cardinality(Slots)
    BY DEF RInv, SlotsAreHeld, Slots
  <1> QED BY <1>2, <1>4, <1>5, <1>6, AllFinite

(* A call without a candidate leaves room for one candidate less.          *)
LEMMA TrackedCount ==
  ASSUME RInv, NEW c \in Callers, caller[c].cand = NoThread
  PROVE  Cardinality(Tracked) <= Len(residents) + (Cardinality(Callers) - 1)
                                 + Cardinality(Committing) + Cardinality(leaked)
  <1> DEFINE A == Listed
             B == Candidates
             C == {caller[d].tgt : d \in Committing}
             n == Len(residents)
             k == Cardinality(Callers) - 1
             m == Cardinality(Committing)
             l == Cardinality(leaked)
  <1>0. /\ k \in Nat /\ m \in Nat /\ l \in Nat /\ n \in Nat
        /\ IsFiniteSet(leaked) /\ IsFiniteSet(Committing)
        /\ residents \in Seq(Threads)
    BY AllFinite, PendingCounts DEF RInv, RType, ListType
  <1>1. IsFiniteSet(A) /\ Cardinality(A) <= n
    <2>1. IsFiniteSet(1..n) /\ Cardinality(1..n) = n
      <3>1. 1 \in Int /\ n \in Int /\ n \in Nat
        BY <1>0
      <3> HIDE DEF n
      <3>2. IsFiniteSet(1..n) /\ Cardinality(1..n) = IF 1 > n THEN 0 ELSE n - 1 + 1
        BY <3>1, FS_Interval
      <3> QED BY <3>1, <3>2
    <2>2. A = {residents[i] : i \in 1..n}
      BY <1>0 DEF Listed
    <2> HIDE DEF A, n
    <2>3. IsFiniteSet(A) /\ Cardinality(A) <= Cardinality(1..n)
      BY <2>1, <2>2, ImageBound
    <2> QED BY <2>1, <2>3
  <1>2. IsFiniteSet(B) /\ Cardinality(B) <= k
    <2> DEFINE R == Callers \ {c}
               f == [d \in Callers |-> caller[d].cand]
               T == {f[d] : d \in R}
    <2>1. IsFiniteSet(R) /\ Cardinality(R) = k
      BY CallersAssumption, FS_RemoveElement
    <2>2. B \in SUBSET T
      BY DEF Candidates
    <2> HIDE DEF R, f
    <2>3. IsFiniteSet(T) /\ Cardinality(T) <= Cardinality(R)
      BY <2>1, ImageBound
    <2> HIDE DEF T, B
    <2>4. IsFiniteSet(B) /\ Cardinality(B) <= Cardinality(T)
      BY <2>2, <2>3, FS_Subset
    <2>5. Cardinality(B) \in Nat /\ Cardinality(T) \in Nat
      BY <2>3, <2>4, FS_CardinalityType
    <2> HIDE DEF k
    <2> QED BY <1>0, <2>1, <2>3, <2>4, <2>5
  <1>3. IsFiniteSet(C) /\ Cardinality(C) <= m
    <2> DEFINE f == [d \in Callers |-> caller[d].tgt]
    <2>1. C = {f[d] : d \in Committing}
      BY DEF Committing
    <2> HIDE DEF f, C
    <2> QED BY <1>0, <2>1, ImageBound
  <1>4. Tracked = ((A \cup B) \cup C) \cup leaked
    BY DEF Tracked
  <1> HIDE DEF A, B, C, n, k, m
  <1>5. IsFiniteSet(A \cup B) /\ Cardinality(A \cup B) <= n + k
    BY <1>0, <1>1, <1>2, UnionBound
  <1>6. IsFiniteSet((A \cup B) \cup C) /\ Cardinality((A \cup B) \cup C) <= (n + k) + m
    <2>1. n + k \in Nat
      BY <1>0
    <2> QED BY <1>0, <1>3, <1>5, <2>1, UnionBound
  <1>7. Cardinality(Tracked) <= ((n + k) + m) + l
    <2>1. (n + k) + m \in Nat /\ Cardinality(leaked) <= l
      BY <1>0
    <2> HIDE DEF l
    <2> QED BY <1>0, <1>4, <1>6, <2>1, UnionBound
  <1> QED BY <1>7 DEF n, k, m

(* try_reserve_pending_slot: the slot is there for the thread of the call. *)
LEMMA ReserveRInv ==
  ASSUME RInv, NEW c \in Callers, Reserve(c)
  PROVE  RInv'
  <1>0. /\ ListType /\ SetsType /\ SessType
        /\ caller[c] \in CallerType /\ Knows(caller[c])
        /\ loaded \subseteq Listed \cup leaked \cup Own(caller[c]) \cup Others(c)
        /\ loaded \subseteq Threads
    BY CallFacts
  <1>1. /\ caller[c].pc = "reserve"
        /\ UNCHANGED <<residents, loaded, known, sess, gen, chan, mbox, leaked, calls, cancels, scope>>
    BY DEF Reserve, At, sessVars
  <1>2. /\ Own(caller[c]) = {} /\ caller[c].cand = NoThread
        /\ (caller[c].op # "spawn" => caller[c].tgt \in Threads)
    BY <1>0, <1>1 DEF Knows, CallerType, Own
  <1>3. ListType' /\ SetsType' /\ SessType' /\ Listed' = Listed
    BY <1>0, <1>1 DEF ListType, SetsType, SessType, Listed
  <1>4. CASE ~HasRoom
    <2> DEFINE q == caller[c]
               r == [q EXCEPT !.pc = "scan", !.scan = Len(residents)]
    <2>1. caller' = [caller EXCEPT ![c] = r] /\ pending' = pending
      BY <1>4 DEF Reserve
    <2>2. q \in CallerType /\ Len(residents) \in Nat /\ q.cand = NoThread
          /\ (q.op # "spawn" => q.tgt \in Threads)
      BY <1>0, <1>2 DEF ListType
    <2>3. r = [q EXCEPT !.pc = "scan", !.scan = Len(residents)]
      OBVIOUS
    <2>4. r \in CallerType /\ Knows(r) /\ Own(r) = {} /\ r.pc = "scan"
      <3> HIDE DEF q, r
      <3>1. /\ r \in CallerType /\ r.pc = "scan" /\ r.cand = NoThread
            /\ r.tgt = q.tgt /\ r.op = q.op
        BY <2>2, <2>3 DEF CallerType, Pcs
      <3> QED BY <2>2, <3>1, PlainRecord
    <2> HIDE DEF r
    <2> QED BY <1>0, <1>1, <1>2, <1>3, <2>1, <2>4, QuietStep DEF HoldsSlot
  <1>5. CASE HasRoom
    <2>1. PICK step \in {"lookup", "create"} : pending' = pending + 1 /\ Goto(c, step)
      BY <1>5 DEF Reserve
    <2>2. step \in Pcs
      BY DEF Pcs
    <2>3. PICK r \in CallerType :
            /\ caller' = [caller EXCEPT ![c] = r] /\ r.pc = step
            /\ r.op = caller[c].op /\ r.tgt = caller[c].tgt /\ r.cand = caller[c].cand
            /\ r.scan = caller[c].scan
      BY <1>0, <2>1, <2>2, GotoRecord
    <2>4. Knows(r) /\ Own(r) = {}
      BY <1>2, <2>3, PlainRecord
    <2>5. /\ caller' \in [Callers -> CallerType] /\ CallerInv'
          /\ caller'[c] = r /\ \A d \in Callers \ {c} : caller'[d] = caller[d]
          /\ Tracked = Listed \cup leaked \cup Own(caller[c]) \cup Others(c)
          /\ Tracked' = Listed' \cup leaked' \cup Own(r) \cup Others(c)
          /\ Creating' = IF r.pc \in {"lookup", "create"} THEN Creating \cup {c} ELSE Creating \ {c}
      BY <2>3, <2>4, CallStep
    <2>6. SlotsAreHeld'
      <3>1. HoldsSlot(c)' /\ ~HoldsSlot(c)
        BY <1>1, <2>3, <2>5 DEF HoldsSlot
      <3> QED BY <2>1, <2>5, <3>1, SlotStep DEF RInv
    <2>7. Tracked' = Tracked /\ TrackInv'
      BY <1>0, <1>1, <1>2, <1>3, <2>4, <2>5 DEF TrackInv
    <2>8. Cardinality(Creating') = Cardinality(Creating) + 1
      <3>1. c \notin Creating /\ Creating' = Creating \cup {c}
        BY <1>1, <2>3, <2>5 DEF Creating, At
      <3> QED BY <3>1, AllFinite, FS_AddElement
    <2>9. BoundInv'
      <3> DEFINE x == Cardinality(Tracked)
                 y == Cardinality(Creating)
                 z == Cardinality(Committing)
                 k == Cardinality(Callers)
                 l == Cardinality(leaked)
                 n == Len(residents)
      <3>1. x <= n + (k - 1) + z + l
        BY <1>2, TrackedCount
      <3>2. n + pending < Capacity /\ pending = y + z
        BY <1>5, PendingCounts DEF HasRoom
      <3>3. x \in Nat /\ y \in Nat /\ z \in Nat /\ k \in Nat /\ l \in Nat /\ n \in Nat
            /\ Capacity \in Nat
        BY <1>0, AllFinite, PendingCounts, ScopeTypes DEF ListType
      <3>4. /\ Cardinality(Tracked') = x /\ Cardinality(Creating') = y + 1
            /\ Cardinality(leaked') = l
        BY <1>1, <2>7, <2>8
      <3> HIDE DEF x, y, z, k, l, n
      <3>5. x + (y + 1) <= Capacity + (k - 1) + l
        BY <3>1, <3>2, <3>3
      <3>6. scope' = scope
        BY <1>1
      <3> QED BY <3>4, <3>5, <3>6 DEF BoundInv, Bound, k
    <2> QED BY <1>3, <2>5, <2>6, <2>7, <2>9 DEF RInv, RType
  <1> QED BY <1>4, <1>5

(* The thread that is created takes the place of the call that creates it. *)
LEMMA CreateRInv ==
  ASSUME RInv, NEW c \in Callers, NEW t \in Threads, Create(c, t)
  PROVE  RInv'
  <1> DEFINE q == caller[c]
             r == [q EXCEPT !.pc = "commit", !.tgt = t]
  <1>0. /\ ListType /\ SetsType /\ SessType
        /\ q \in CallerType /\ Knows(q)
        /\ loaded \subseteq Listed \cup leaked \cup Own(q) \cup Others(c)
        /\ loaded \subseteq Threads
    BY CallFacts
  <1>1. /\ q.pc = "create" /\ caller' = [caller EXCEPT ![c] = r]
        /\ loaded' = loaded \cup {t}
        /\ sess' = [sess EXCEPT ![t] = "fresh"] /\ gen' = [gen EXCEPT ![t] = @ + 1]
        /\ UNCHANGED <<residents, pending, known, chan, mbox, leaked, calls, cancels, scope>>
    BY DEF Create, At
  <1>2. Own(q) = {} /\ q.cand = NoThread
    BY <1>0, <1>1 DEF Knows, CallerType, Own
  <1>3. r \in CallerType /\ r.pc = "commit" /\ r.cand = NoThread /\ r.tgt = t
    <2>1. q \in CallerType /\ q.cand = NoThread /\ r = [q EXCEPT !.pc = "commit", !.tgt = t]
      BY <1>0, <1>2
    <2> HIDE DEF q, r
    <2> QED BY <2>1 DEF CallerType, Pcs
  <1> HIDE DEF r
  <1>4. Knows(r) /\ Own(r) = {t}
    BY <1>3, ThreadsAssumption DEF Knows, Own
  <1>5. ListType' /\ SetsType' /\ SessType' /\ Listed' = Listed
    <2>1. SessType'
      BY <1>0, <1>1 DEF SessType
    <2> QED BY <1>0, <1>1, <2>1 DEF ListType, SetsType, Listed
  <1>6. /\ caller' \in [Callers -> CallerType] /\ CallerInv'
        /\ caller'[c] = r /\ \A d \in Callers \ {c} : caller'[d] = caller[d]
        /\ Tracked = Listed \cup leaked \cup Own(caller[c]) \cup Others(c)
        /\ Tracked' = Listed' \cup leaked' \cup Own(r) \cup Others(c)
        /\ Creating' = IF r.pc \in {"lookup", "create"} THEN Creating \cup {c} ELSE Creating \ {c}
    BY <1>1, <1>3, <1>4, CallStep
  <1>7. SlotsAreHeld'
    <2>1. HoldsSlot(c)' /\ HoldsSlot(c)
      BY <1>1, <1>3, <1>6 DEF HoldsSlot
    <2> QED BY <1>1, <1>6, <2>1, SlotStep DEF RInv
  <1>8. Tracked' = Tracked \cup {t} /\ TrackInv'
    BY <1>0, <1>1, <1>2, <1>4, <1>5, <1>6 DEF TrackInv
  <1>9. Cardinality(Creating') = Cardinality(Creating) - 1
    <2>1. c \in Creating /\ Creating' = Creating \ {c}
      BY <1>1, <1>3, <1>6 DEF Creating, At
    <2> QED BY <2>1, AllFinite, FS_RemoveElement
  <1>10. /\ Cardinality(Tracked') \in Nat
         /\ Cardinality(Tracked') <= Cardinality(Tracked) + 1
    <2>1. /\ IsFiniteSet(Tracked')
          /\ Cardinality(Tracked') = IF t \in Tracked THEN Cardinality(Tracked)
                                     ELSE Cardinality(Tracked) + 1
      BY <1>8, AllFinite, FS_AddElement
    <2>2. Cardinality(Tracked') \in Nat
      BY <2>1, FS_CardinalityType
    <2> QED BY <2>1, <2>2, AllFinite
  <1>11. BoundInv'
    <2> DEFINE x == Cardinality(Tracked)
               x2 == Cardinality(Tracked')
               y == Cardinality(Creating)
    <2>1. x \in Nat /\ x2 \in Nat /\ y \in Nat /\ Bound \in Int /\ x + y <= Bound /\ x2 <= x + 1
      BY <1>10, AllFinite DEF RInv, BoundInv
    <2>2. Bound' = Bound
      BY <1>1 DEF Bound
    <2>3. Cardinality(Creating') = y - 1
      BY <1>9
    <2> HIDE DEF x, y, x2, Bound
    <2>4. x2 + (y - 1) <= Bound
      BY <2>1
    <2> QED BY <2>2, <2>3, <2>4 DEF BoundInv, x2
  <1> QED BY <1>5, <1>6, <1>7, <1>8, <1>11 DEF RInv, RType

-----------------------------------------------------------------------------
(* The session loop of a thread.                                           *)
LEMMA SessionRInv ==
  ASSUME RInv, NEW t \in Threads,
         HandleMail(t) \/ HandleShutdown(t) \/ TakeMail(t) \/ TurnEnds(t)
  PROVE  RInv'
  <1> DEFINE M == {"queue", "trigger", "shutdown"}
  <1>1. /\ SessType /\ chan[t] \in Seq(M)
        /\ sess \in [Threads -> {"none", "fresh", "running", "idle", "dead"}]
        /\ chan \in [Threads -> Seq(M)]
        /\ mbox \in [Threads -> {"none", "queue", "trigger"}]
    BY DEF RInv, RType, SessType
  <1>2. UNCHANGED <<residents, pending, loaded, known, gen, caller, leaked, calls, cancels, scope>>
    BY DEF HandleMail, HandleShutdown, TakeMail, TurnEnds
  <1>3. CASE HandleMail(t)
    <2>1. chan[t] # <<>> /\ Head(chan[t]) # "shutdown"
      BY <1>3 DEF HandleMail
    <2> DEFINE v == Tail(chan[t])
               m == Head(chan[t])
    <2>2. v \in Seq(M) /\ m \in {"queue", "trigger"}
      BY <1>1, <2>1
    <2>3. /\ chan' = [chan EXCEPT ![t] = v]
          /\ \/ /\ sess' = [sess EXCEPT ![t] = "running"]
                /\ mbox' = [mbox EXCEPT ![t] = "none"]
             \/ /\ mbox' = [mbox EXCEPT ![t] = IF @ = "trigger" THEN @ ELSE m]
                /\ sess' = sess
      BY <1>3 DEF HandleMail
    <2> HIDE DEF v, m, M
    <2>4. chan' \in [Threads -> Seq(M)]
      BY <1>1, <2>2, <2>3
    <2>5. /\ sess' \in [Threads -> {"none", "fresh", "running", "idle", "dead"}]
          /\ mbox' \in [Threads -> {"none", "queue", "trigger"}]
      BY <1>1, <2>2, <2>3
    <2>6. SessType'
      BY <1>1, <1>2, <2>4, <2>5 DEF SessType, M
    <2> QED BY <1>2, <2>6, SessionStep
  <1>4. CASE HandleShutdown(t)
    <2>1. /\ chan' = [chan EXCEPT ![t] = <<>>] /\ sess' = [sess EXCEPT ![t] = "dead"]
          /\ mbox' = [mbox EXCEPT ![t] = "none"]
      BY <1>4 DEF HandleShutdown
    <2>2. <<>> \in Seq(M)
      OBVIOUS
    <2> HIDE DEF M
    <2>3. SessType'
      BY <1>1, <1>2, <2>1, <2>2 DEF SessType, M
    <2> QED BY <1>2, <2>3, SessionStep
  <1>5. CASE TakeMail(t)
    <2>1. SessType'
      BY <1>1, <1>5 DEF SessType, TakeMail
    <2> QED BY <1>2, <2>1, SessionStep
  <1>6. CASE TurnEnds(t)
    <2>1. SessType'
      BY <1>1, <1>6 DEF SessType, TurnEnds
    <2> QED BY <1>2, <2>1, SessionStep
  <1> QED BY <1>3, <1>4, <1>5, <1>6

(* At first nothing is loaded and no call is under way.                    *)
LEMMA InitRInv == Init => RInv
  <1> SUFFICES ASSUME Init PROVE RInv
    OBVIOUS
  <1> USE DEF Init
  <1>1. ListType /\ SetsType /\ SessType /\ Listed = {}
    <2>1. SetsType
      BY ThreadsAssumption, LimitsAssumption, ScopesAssumption DEF SetsType
    <2> QED BY <2>1 DEF ListType, SessType, Listed, Distinct
  <1>2. caller \in [Callers -> CallerType] /\ CallerInv
    BY IdleFacts DEF CallerInv
  <1>3. Slots = {} /\ Creating = {} /\ Committing = {} /\ Candidates = {}
    BY DEF Slots, Creating, Committing, Candidates, HoldsSlot, At, Idle
  <1>4. Tracked = {}
    BY <1>1, <1>3 DEF Tracked
  <1>5. Cardinality({}) = 0
    BY FS_EmptySet
  <1>6. SlotsAreHeld
    BY <1>3, <1>5 DEF SlotsAreHeld, Slots
  <1>7. BoundInv
    <2>1. Cardinality(Callers) \in Nat /\ Cardinality(Callers) > 0
      <3>1. Cardinality(Callers) \in Nat
        BY CallersAssumption, FS_CardinalityType
      <3> QED BY <3>1, CallersAssumption, FS_EmptySet
    <2>2. Capacity \in Nat /\ leaked = {}
      BY <1>1, ScopeTypes
    <2> QED BY <1>3, <1>4, <1>5, <2>1, <2>2 DEF BoundInv, Bound
  <1> QED BY <1>1, <1>2, <1>4, <1>6, <1>7 DEF RInv, RType, TrackInv

(* Every step preserves the invariant.                                     *)
LEMMA NextRInv == RInv /\ [Next]_vars => RInv'
  <1> SUFFICES ASSUME RInv, [Next]_vars PROVE RInv'
    OBVIOUS
  <1>1. CASE UNCHANGED vars
    <2>1. UNCHANGED <<residents, pending, loaded, known, caller, leaked, calls, cancels, scope>>
      BY <1>1 DEF vars
    <2>2. SessType'
      BY <1>1 DEF vars, RInv, RType, SessType
    <2> QED BY <2>1, <2>2, SessionStep
  <1>2. CASE Next
    BY <1>2, BeginRInv, ResolveRInv, ReserveRInv, PopCandidateRInv, InspectRInv,
       SubmitShutdownRInv, UnloadRInv, LookupRInv, CreateRInv, CreateLosesRaceRInv, CreateFailsRInv,
       CommitRInv, CheckCapacityRInv, SendRInv, CancelRInv, SessionRInv DEF Next
  <1> QED BY <1>1, <1>2

(* The invariant holds of every behaviour.                                 *)
LEMMA SpecRInv == Spec => []RInv
  BY InitRInv, NextRInv, PTL DEF Spec

(***************************************************************************)
(* The residency list holds threads, each at most once, and the pending    *)
(* slots never exceed the calls, for any number of threads and calls       *)
(* (V2Residency, touch_resident).                                          *)
(***************************************************************************)
THEOREM SpecTypeOK == Spec => []TypeOK
  <1>1. RInv => TypeOK
    <2> SUFFICES ASSUME RInv PROVE TypeOK
      OBVIOUS
    <2>1. pending \in 0..Cardinality(Callers)
      <3>1. Slots \in SUBSET Callers
        BY DEF Slots
      <3>2. IsFiniteSet(Slots) /\ Cardinality(Slots) <= Cardinality(Callers)
        BY <3>1, CallersAssumption, FS_Subset
      <3>3. Cardinality(Slots) \in Nat /\ Cardinality(Callers) \in Nat
        BY <3>2, CallersAssumption, FS_CardinalityType
      <3>4. pending = Cardinality(Slots)
        BY DEF RInv, SlotsAreHeld, Slots
      <3> QED BY <3>2, <3>3, <3>4
    <2>2. RType
      BY DEF RInv
    <2> QED BY <2>1, <2>2
        DEF TypeOK, RType, ListType, SetsType, SessType, CallerType, Distinct
  <1> QED BY <1>1, SpecRInv, PTL

(***************************************************************************)
(* A pending slot is given back on every way out of a call: commit, error, *)
(* lost race, dropped call (Drop for V2ResidencySlot).                     *)
(***************************************************************************)
THEOREM SpecSlotsAreHeld == Spec => []SlotsAreHeld
  <1>1. RInv => SlotsAreHeld
    BY DEF RInv
  <1> QED BY <1>1, SpecRInv, PTL

(***************************************************************************)
(* A loaded sub-agent is on the list, in the hands of a call, or was left  *)
(* behind by a dropped eviction or reload: no interleaving of spawns,      *)
(* reloads, evictions and failures makes another one unreachable for the   *)
(* eviction.                                                               *)
(***************************************************************************)
THEOREM SpecLoadedIsTracked == Spec => []LoadedIsTracked
  <1>1. RInv => LoadedIsTracked
    <2> SUFFICES ASSUME RInv PROVE LoadedIsTracked
      OBVIOUS
    <2>1. {caller[c].tgt : c \in Committing} = Promised
      BY DEF Promised, Committing
    <2>2. loaded \subseteq Tracked
      BY DEF RInv, TrackInv
    <2> QED BY <2>1, <2>2 DEF LoadedIsTracked, Tracked
  <1> QED BY <1>1, SpecRInv, PTL

(***************************************************************************)
(* try_reserve_pending_slot tests the list and the pending slots, while a  *)
(* candidate being shut down is on neither: for any number of calls, the   *)
(* loaded threads exceed the capacity by less than the number of calls,    *)
(* apart from what dropped evictions and reloads left behind.              *)
(***************************************************************************)
THEOREM SpecOvershootIsBounded == Spec => []OvershootIsBounded
  <1>1. RInv => OvershootIsBounded
    <2> SUFFICES ASSUME RInv PROVE OvershootIsBounded
      OBVIOUS
    <2>1. loaded \in SUBSET Tracked
      BY DEF RInv, TrackInv
    <2>2. IsFiniteSet(loaded) /\ Cardinality(loaded) <= Cardinality(Tracked)
      BY <2>1, AllFinite, FS_Subset
    <2>3. Cardinality(loaded) \in Nat
      BY <2>2, FS_CardinalityType
    <2> DEFINE x == Cardinality(loaded)
               y == Cardinality(Tracked)
               z == Cardinality(Creating)
    <2>4. /\ x \in Nat /\ y \in Nat /\ z \in Nat /\ x <= y /\ y + z <= Bound
          /\ Bound \in Int
      BY <2>2, <2>3, AllFinite DEF RInv, BoundInv
    <2> HIDE DEF x, y, z, Bound
    <2>5. x <= Bound
      BY <2>4
    <2> QED BY <2>5 DEF OvershootIsBounded, Bound, x
  <1> QED BY <1>1, SpecRInv, PTL
=============================================================================
