-------------------------- MODULE ThreadLogProofs --------------------------
(***************************************************************************)
(* The two results about RolloutLog that speak of lists: the rows of the   *)
(* projection are a prefix of the history, and the recorder implements     *)
(* ThreadLog.  Both take the positions of a file or a queue in order       *)
(* (operator At), so the first part is about counting: the rank of a       *)
(* position, and what At becomes when a last position is added or the      *)
(* first one goes.  The invariant of RolloutLogProofs supplies the facts   *)
(* about the system; no further strengthening is needed here.              *)
(***************************************************************************)
EXTENDS RolloutLogProofs
-----------------------------------------------------------------------------
(* e lists the set S of n naturals in increasing order.                    *)
Lists(e, n, S) ==
    /\ n \in Nat
    /\ e \in [1..n -> Nat]
    /\ S = {e[i] : i \in 1..n}
    /\ \A i, j \in 1..n : i < j => e[i] < e[j]

(* A set of naturals with an upper bound has a list.                       *)
LEMMA ListOne ==
  ASSUME NEW e, NEW n, NEW S, Lists(e, n, S), NEW m \in Nat, \A k \in S : k < m
  PROVE  Lists([i \in 1..(n + 1) |-> IF i = n + 1 THEN m ELSE e[i]], n + 1, S \cup {m})
  <1> DEFINE d == [i \in 1..(n + 1) |-> IF i = n + 1 THEN m ELSE e[i]]
  <1>1. /\ n \in Nat /\ \A i \in 1..n : e[i] \in Nat /\ e[i] \in S
        /\ S = {e[i] : i \in 1..n}
    BY DEF Lists
  <1>2. /\ \A i \in 1..n : i \in 1..(n + 1) /\ i # n + 1 /\ d[i] = e[i]
        /\ n + 1 \in 1..(n + 1) /\ d[n + 1] = m
        /\ \A i \in 1..(n + 1) : i = n + 1 \/ i \in 1..n
    BY <1>1
  <1>3. d \in [1..(n + 1) -> Nat]
    BY <1>1
  <1> HIDE DEF d
  <1>4. S \cup {m} = {d[i] : i \in 1..(n + 1)}
    BY <1>1, <1>2
  <1>5. \A i, j \in 1..(n + 1) : i < j => d[i] < d[j]
    <2> TAKE i, j \in 1..(n + 1)
    <2> HAVE i < j
    <2>1. i \in 1..n
      BY <1>1
    <2>2. CASE j = n + 1
      BY <2>1, <2>2, <1>1, <1>2
    <2>3. CASE j \in 1..n
      BY <2>1, <2>3, <1>2 DEF Lists
    <2> QED BY <2>2, <2>3, <1>2
  <1>6. Lists(d, n + 1, S \cup {m})
    <2>1. n + 1 \in Nat
      BY <1>1
    <2> QED BY <2>1, <1>3, <1>4, <1>5, Zenon DEF Lists
  <1> QED BY <1>6 DEF d

LEMMA ListExists ==
  ASSUME NEW b \in Nat, NEW S, S \subseteq 1..b
  PROVE  \E n, e : Lists(e, n, S)
  <1> DEFINE Part(m) == {k \in S : k <= m}
             Bad == {m \in Nat : ~\E n, e : Lists(e, n, Part(m))}
  <1>0. \A k \in S : k \in Nat /\ 1 <= k /\ k <= b
    OBVIOUS
  <1>1. Part(0) = {} /\ Part(b) = S
    <2>1. \A k \in S : ~(k <= 0)
      BY <1>0
    <2> QED BY <2>1, <1>0
  <1>2. ASSUME NEW m \in Nat, m # 0
        PROVE  IF m \in S THEN /\ Part(m) = Part(m - 1) \cup {m}
                               /\ \A k \in Part(m - 1) : k < m
               ELSE Part(m) = Part(m - 1)
    <2>1. \A k \in S : k <= m <=> k = m \/ k <= m - 1
      BY <1>0, <1>2
    <2>2. \A k \in S : k <= m - 1 => k < m
      BY <1>0, <1>2
    <2> QED BY <2>1, <2>2
  <1> HIDE DEF Part
  <1>3. Bad = {}
    <2>1. SUFFICES ASSUME Bad # {} PROVE FALSE
      OBVIOUS
    <2>0. Bad \subseteq Nat
      OBVIOUS
    <2>2. PICK m \in Bad : \A k \in Bad : m <= k
      BY <2>0, <2>1, Least
    <2>a. m \in Nat /\ ~\E n, e : Lists(e, n, Part(m))
      BY <2>2
    <2>3. m # 0
      <3>1. 1..0 = {} /\ 0 \in Nat
        OBVIOUS
      <3>2. Lists([i \in 1..0 |-> 0], 0, {})
        BY <3>1 DEF Lists
      <3> QED BY <2>a, <3>2, <1>1
    <2>4. m - 1 \in Nat /\ ~(m <= m - 1)
      BY <2>a, <2>3
    <2>b. m - 1 \notin Bad
      <3> HIDE DEF Bad
      <3> QED BY <2>2, <2>4
    <2>5. PICK n, e : Lists(e, n, Part(m - 1))
      BY <2>4, <2>b
    <2>6. CASE m \in S
      <3>1. Part(m) = Part(m - 1) \cup {m} /\ \A k \in Part(m - 1) : k < m
        BY <2>a, <2>3, <2>6, <1>2
      <3>2. \E n2, e2 : Lists(e2, n2, Part(m - 1) \cup {m})
        BY <2>a, <2>5, <3>1, ListOne
      <3> QED BY <2>a, <3>1, <3>2
    <2>7. CASE m \notin S
      <3>1. Part(m) = Part(m - 1)
        BY <2>a, <2>3, <2>7, <1>2
      <3> QED BY <2>a, <2>5, <3>1
    <2> QED BY <2>6, <2>7
  <1>4. \E n, e : Lists(e, n, Part(b))
    BY <1>3
  <1> QED BY <1>1, <1>4

(* A list counts its set, and the elements up to any of them.              *)
LEMMA ListCounts ==
  ASSUME NEW e, NEW n, NEW S, Lists(e, n, S)
  PROVE  Cardinality(S) = n
  <1>1. /\ n \in Nat /\ e \in [1..n -> Nat] /\ S = {e[i] : i \in 1..n}
        /\ \A i, j \in 1..n : i < j => e[i] < e[j]
    BY DEF Lists
  <1>2. \A i, j \in 1..n : e[i] = e[j] => i = j
    <2> TAKE i, j \in 1..n
    <2> HAVE e[i] = e[j]
    <2>1. ~(i < j) /\ ~(j < i)
      BY <1>1
    <2> QED BY <2>1, <1>1
  <1>3. e \in [1..n -> S]
    BY <1>1
  <1>4. e \in Bijection(1..n, S)
    BY <1>1, <1>2, <1>3 DEF Bijection, Injection, Surjection, IsInjective
  <1>5. ExistsBijection(1..n, S)
    BY <1>4 DEF ExistsBijection
  <1> QED BY <1>1, <1>5, FS_CountingElements

LEMMA ListRank ==
  ASSUME NEW e, NEW n, NEW S, Lists(e, n, S), NEW i \in 1..n
  PROVE  e[i] \in S /\ Cardinality({j \in S : j <= e[i]}) = i
  <1>1. /\ n \in Nat /\ i \in Nat /\ e \in [1..n -> Nat] /\ S = {e[k] : k \in 1..n}
        /\ \A k \in 1..n : e[k] \in Nat
        /\ \A j, k \in 1..n : j < k => e[j] < e[k]
    BY DEF Lists
  <1> DEFINE d == [k \in 1..i |-> e[k]]
             T == {j \in S : j <= e[i]}
  <1>2. \A k \in 1..i : k \in 1..n /\ d[k] = e[k]
    BY <1>1
  <1>3. d \in [1..i -> Nat] /\ \A j, k \in 1..i : j < k => d[j] < d[k]
    BY <1>1, <1>2
  <1>4. \A k \in 1..n : e[k] <= e[i] <=> k <= i
    <2> TAKE k \in 1..n
    <2>1. /\ k < i => e[k] < e[i]
          /\ i < k => e[i] < e[k]
          /\ e[k] \in Nat /\ e[i] \in Nat /\ k \in Nat
      BY <1>1
    <2> QED BY <2>1, <1>1
  <1>5. T = {d[k] : k \in 1..i}
    <2>1. \A x \in T : \E k \in 1..i : x = d[k]
      <3> TAKE x \in T
      <3>1. PICK k \in 1..n : x = e[k]
        BY <1>1
      <3>2. k \in 1..i
        BY <3>1, <1>1, <1>4
      <3> QED BY <3>1, <3>2, <1>2
    <2>2. \A k \in 1..i : d[k] \in T
      <3> TAKE k \in 1..i
      <3>1. k \in 1..n /\ d[k] = e[k] /\ k <= i
        BY <1>1, <1>2
      <3>2. e[k] \in S /\ e[k] <= e[i]
        BY <3>1, <1>1, <1>4
      <3> QED BY <3>1, <3>2
    <2> HIDE DEF T, d
    <2> QED BY <2>1, <2>2
  <1> HIDE DEF T, d
  <1>6. Lists(d, i, T)
    BY <1>1, <1>3, <1>5 DEF Lists
  <1>7. Cardinality(T) = i
    BY <1>6, ListCounts
  <1> QED BY <1>1, <1>7 DEF T

(* The elements of s at the positions S, by their list.                    *)
LEMMA ListAt ==
  ASSUME NEW e, NEW n, NEW S, Lists(e, n, S), NEW s
  PROVE  At(s, S) = [i \in 1..n |-> s[e[i]]]
  <1>1. /\ n \in Nat /\ S = {e[k] : k \in 1..n} /\ Cardinality(S) = n
    BY ListCounts DEF Lists
  <1>2. \A i \in 1..n : e[i] \in S /\ Cardinality({j \in S : j <= e[i]}) = i
    BY ListRank
  <1> DEFINE c(i) == CHOOSE k \in S : Cardinality({j \in S : j <= k}) = i
  <1>3. At(s, S) = [i \in 1..n |-> s[c(i)]]
    BY <1>1 DEF At
  <1>4. ASSUME NEW i \in 1..n PROVE c(i) = e[i]
    <2>1. c(i) \in S /\ Cardinality({j \in S : j <= c(i)}) = i
      BY <1>2
    <2> HIDE DEF c
    <2>2. PICK k \in 1..n : c(i) = e[k]
      BY <1>1, <2>1
    <2>3. k = i
      BY <1>2, <2>1, <2>2
    <2> QED BY <2>2, <2>3
  <1> HIDE DEF c
  <1> QED BY <1>3, <1>4

(* Positions with a bound, sequences that agree on them, a match of two    *)
(* sets of positions, a position after the others, the first of them.      *)
Bounded(S) == \E b \in Nat : S \subseteq 1..b
Agree(t, s, S) == \A k \in S : t[k] = s[k]
Matches(f, S, T) ==
    /\ T \subseteq Nat /\ f \in [S -> T]
    /\ \A y \in T : \E k \in S : y = f[k]
    /\ \A j, k \in S : j < k => f[j] < f[k]
WithLast(U, S, m) ==
    m \in Nat /\ (\A k \in S : k < m) /\ \A k : k \in U <=> k \in S \/ k = m
WithoutFirst(T, S, m) ==
    m \in S /\ (\A k \in S : m <= k) /\ \A k : k \in T <=> k \in S /\ k # m

(* A selection is a sequence of the elements selected.                     *)
LEMMA AtElements ==
  ASSUME NEW S, Bounded(S), NEW s
  PROVE  /\ Len(At(s, S)) \in Nat /\ DOMAIN At(s, S) = 1..Len(At(s, S))
         /\ {At(s, S)[i] : i \in DOMAIN At(s, S)} = {s[k] : k \in S}
         /\ S = {} => At(s, S) = <<>>
  <1>1. PICK n, e : Lists(e, n, S)
    BY ListExists DEF Bounded
  <1>0. At(s, S) = [i \in 1..n |-> s[e[i]]]
    BY <1>1, ListAt
  <1>2. At(s, S) = [i \in 1..n |-> s[e[i]]] /\ n \in Nat /\ S = {e[i] : i \in 1..n}
    BY <1>0, <1>1 DEF Lists
  <1>3. Len(At(s, S)) = n /\ DOMAIN At(s, S) = 1..n
    BY <1>2
  <1>4. {At(s, S)[i] : i \in DOMAIN At(s, S)} = {s[k] : k \in S}
    <2>1. \A i \in 1..n : At(s, S)[i] = s[e[i]] /\ e[i] \in S
      BY <1>2
    <2>2. \A k \in S : \E i \in 1..n : k = e[i]
      BY <1>2
    <2> QED BY <2>1, <2>2, <1>3
  <1>5. ASSUME S = {} PROVE At(s, S) = <<>>
    <2>1. 1..n = {}
      BY <1>2, <1>5
    <2> QED BY <2>1, <1>2
  <1> QED BY <1>2, <1>3, <1>4, <1>5

LEMMA AtType ==
  ASSUME NEW S, Bounded(S), NEW s, NEW V, \A k \in S : s[k] \in V
  PROVE  At(s, S) \in Seq(V)
  <1>1. PICK n, e : Lists(e, n, S)
    BY ListExists DEF Bounded
  <1>0. At(s, S) = [i \in 1..n |-> s[e[i]]]
    BY <1>1, ListAt
  <1>2. At(s, S) = [i \in 1..n |-> s[e[i]]] /\ n \in Nat /\ S = {e[i] : i \in 1..n}
    BY <1>0, <1>1 DEF Lists
  <1>3. \A i \in 1..n : s[e[i]] \in V
    BY <1>2
  <1> QED BY <1>2, <1>3

(* Two selections that match, in order, are equal.                         *)
LEMMA AtMap ==
  ASSUME NEW S, Bounded(S), NEW T, NEW f, Matches(f, S, T),
         NEW s, NEW t, \A k \in S : t[f[k]] = s[k]
  PROVE  At(t, T) = At(s, S)
  <1>0. /\ T \subseteq Nat /\ f \in [S -> T]
        /\ \A y \in T : \E k \in S : y = f[k]
        /\ \A j, k \in S : j < k => f[j] < f[k]
    BY DEF Matches
  <1>1. PICK n, e : Lists(e, n, S)
    BY ListExists DEF Bounded
  <1>2. /\ n \in Nat /\ S = {e[i] : i \in 1..n} /\ \A i \in 1..n : e[i] \in S
        /\ \A i, j \in 1..n : i < j => e[i] < e[j]
    BY <1>1 DEF Lists
  <1> DEFINE d == [i \in 1..n |-> f[e[i]]]
  <1>3. d \in [1..n -> Nat]
    BY <1>0, <1>2
  <1>4. T = {d[i] : i \in 1..n}
    <2>1. \A y \in T : \E i \in 1..n : y = d[i]
      BY <1>0, <1>2
    <2>2. \A i \in 1..n : d[i] \in T
      BY <1>0, <1>2
    <2> HIDE DEF d
    <2> QED BY <2>1, <2>2
  <1>5. \A i, j \in 1..n : i < j => d[i] < d[j]
    BY <1>0, <1>2
  <1>6. \A i \in 1..n : t[d[i]] = s[e[i]]
    BY <1>2
  <1> HIDE DEF d
  <1>7. Lists(d, n, T)
    BY <1>2, <1>3, <1>4, <1>5 DEF Lists
  <1>8. At(t, T) = [i \in 1..n |-> t[d[i]]] /\ At(s, S) = [i \in 1..n |-> s[e[i]]]
    BY <1>1, <1>7, ListAt
  <1> QED BY <1>6, <1>8

LEMMA AtSame ==
  ASSUME NEW S, Bounded(S), NEW s, NEW t, Agree(t, s, S)
  PROVE  At(t, S) = At(s, S)
  <1>1. PICK n, e : Lists(e, n, S)
    BY ListExists DEF Bounded
  <1>2. \A i \in 1..n : e[i] \in S
    BY <1>1 DEF Lists
  <1>3. At(s, S) = [i \in 1..n |-> s[e[i]]]
    BY <1>1, ListAt
  <1>4. At(t, S) = [i \in 1..n |-> t[e[i]]]
    BY <1>1, ListAt
  <1> QED BY <1>2, <1>3, <1>4 DEF Agree

(* A position after the others appends its element.                        *)
LEMMA AtAppend ==
  ASSUME NEW S, Bounded(S), NEW m, NEW U, WithLast(U, S, m),
         NEW s, NEW t, Agree(t, s, S)
  PROVE  At(t, U) = Append(At(s, S), t[m])
  <1>0. /\ m \in Nat /\ \A k \in S : k < m
        /\ \A k : k \in U <=> k \in S \/ k = m
        /\ \A k \in S : t[k] = s[k]
    BY DEF WithLast, Agree
  <1>1. PICK n, e : Lists(e, n, S)
    BY ListExists DEF Bounded
  <1> DEFINE d == [i \in 1..(n + 1) |-> IF i = n + 1 THEN m ELSE e[i]]
             a == At(s, S)
             c == At(t, U)
  <1>2. /\ n \in Nat /\ \A i \in 1..n : e[i] \in S
    BY <1>1 DEF Lists
  <1>3. Lists(d, n + 1, U)
    <2>1. U = S \cup {m}
      BY <1>0
    <2>2. Lists(d, n + 1, S \cup {m})
      BY <1>0, <1>1, ListOne
    <2> QED BY <2>1, <2>2
  <1>4. /\ \A i \in 1..n : i \in 1..(n + 1) /\ d[i] = e[i]
        /\ n + 1 \in 1..(n + 1) /\ d[n + 1] = m
    BY <1>2
  <1> HIDE DEF d
  <1>a. a = [i \in 1..n |-> s[e[i]]]
    BY <1>1, ListAt
  <1>b. c = [i \in 1..(n + 1) |-> t[d[i]]]
    <2> DEFINE p == n + 1
    <2>1. Lists(d, p, U)
      BY <1>3
    <2> HIDE DEF p
    <2>2. At(t, U) = [i \in 1..p |-> t[d[i]]]
      BY <2>1, ListAt
    <2> QED BY <2>2 DEF p
  <1>5. c = [i \in 1..(n + 1) |-> t[d[i]]] /\ a = [i \in 1..n |-> s[e[i]]]
    BY <1>a, <1>b
  <1> HIDE DEF a, c
  <1>6. Append(a, t[m]) = [i \in 1..(n + 1) |-> IF i = n + 1 THEN t[m] ELSE a[i]]
    <2>1. Len(a) = n
      BY <1>2, <1>5
    <2> QED BY <2>1, <1>2, <1>5
  <1>7. \A i \in 1..(n + 1) : t[d[i]] = IF i = n + 1 THEN t[m] ELSE a[i]
    <2> TAKE i \in 1..(n + 1)
    <2>1. CASE i = n + 1
      BY <2>1, <1>4
    <2>2. CASE i # n + 1
      <3>1. i \in 1..n
        BY <2>2, <1>2
      <3>2. t[d[i]] = s[e[i]] /\ a[i] = s[e[i]]
        BY <3>1, <1>0, <1>2, <1>4, <1>5
      <3> QED BY <3>2, <2>2
    <2> QED BY <2>1, <2>2
  <1>8. c = Append(a, t[m])
    BY <1>5, <1>6, <1>7
  <1> QED BY <1>8 DEF a, c

(* The first position selects the head, the others the tail.               *)
LEMMA AtTail ==
  ASSUME NEW S, Bounded(S), NEW m, NEW T, WithoutFirst(T, S, m), NEW s
  PROVE  /\ At(s, S) # <<>> /\ Head(At(s, S)) = s[m]
         /\ Tail(At(s, S)) = At(s, T)
  <1>0. /\ m \in S /\ m \in Nat /\ \A k \in S : m <= k
        /\ \A k : k \in T <=> k \in S /\ k # m
    BY DEF WithoutFirst, Bounded
  <1>1. PICK n, e : Lists(e, n, S)
    BY ListExists DEF Bounded
  <1> DEFINE d == [i \in 1..(n - 1) |-> e[i + 1]]
             a == At(s, S)
  <1>2. /\ n \in Nat /\ \A i \in 1..n : e[i] \in S /\ e[i] \in Nat
        /\ \A i, j \in 1..n : i < j => e[i] < e[j]
        /\ \A k \in S : \E i \in 1..n : k = e[i]
    BY <1>1 DEF Lists
  <1>3. n # 0 /\ 1 \in 1..n /\ n - 1 \in Nat
    <2>1. PICK i \in 1..n : m = e[i]
      BY <1>0, <1>2
    <2> QED BY <2>1, <1>2
  <1>4. e[1] = m
    <2>1. PICK i \in 1..n : m = e[i]
      BY <1>0, <1>2
    <2>2. i = 1 \/ 1 < i
      BY <2>1, <1>2
    <2>3. 1 < i => e[1] < e[i]
      BY <1>2, <1>3
    <2>4. m <= e[1] /\ m \in Nat /\ e[1] \in Nat
      BY <1>0, <1>2, <1>3, <2>1
    <2> QED BY <2>1, <2>2, <2>3, <2>4
  <1>5. \A i \in 1..(n - 1) : i + 1 \in 1..n /\ 1 < i + 1 /\ d[i] = e[i + 1]
    BY <1>2, <1>3
  <1> HIDE DEF d
  <1>6. Lists(d, n - 1, T)
    <2>1. d \in [1..(n - 1) -> Nat]
      BY <1>2, <1>5 DEF d
    <2>2. \A i \in 1..(n - 1) : d[i] \in T
      <3> TAKE i \in 1..(n - 1)
      <3>1. d[i] \in S /\ m < d[i] /\ d[i] \in Nat
        BY <1>2, <1>3, <1>4, <1>5
      <3> QED BY <3>1, <1>0
    <2>3. \A k \in T : \E i \in 1..(n - 1) : k = d[i]
      <3> TAKE k \in T
      <3>1. PICK i \in 1..n : k = e[i]
        BY <1>0, <1>2
      <3>2. i # 1
        BY <3>1, <1>0, <1>4
      <3>3. i - 1 \in 1..(n - 1) /\ (i - 1) + 1 = i
        BY <3>1, <3>2, <1>2
      <3>4. k = d[i - 1]
        BY <3>1, <3>3, <1>5
      <3> QED BY <3>3, <3>4
    <2>4. \A i, j \in 1..(n - 1) : i < j => d[i] < d[j]
      <3> TAKE i, j \in 1..(n - 1)
      <3> HAVE i < j
      <3>1. i + 1 < j + 1
        BY <1>2
      <3> QED BY <3>1, <1>2, <1>5
    <2>5. T = {d[i] : i \in 1..(n - 1)}
      BY <2>2, <2>3
    <2> QED BY <2>1, <2>4, <2>5, <1>3, Zenon DEF Lists
  <1>c. At(s, T) = [i \in 1..(n - 1) |-> s[d[i]]]
    <2> DEFINE p == n - 1
    <2>1. Lists(d, p, T)
      BY <1>6
    <2> HIDE DEF p
    <2>2. At(s, T) = [i \in 1..p |-> s[d[i]]]
      BY <2>1, ListAt
    <2> QED BY <2>2 DEF p
  <1>7. At(s, T) = [i \in 1..(n - 1) |-> s[d[i]]] /\ a = [i \in 1..n |-> s[e[i]]]
    BY <1>1, <1>c, ListAt
  <1> HIDE DEF a
  <1>8. a # <<>> /\ Head(a) = s[m]
    BY <1>2, <1>3, <1>4, <1>7
  <1>9. Tail(a) = [i \in 1..(n - 1) |-> a[i + 1]]
    BY <1>2, <1>3, <1>7
  <1>10. \A i \in 1..(n - 1) : a[i + 1] = s[d[i]]
    BY <1>5, <1>7
  <1>11. Tail(a) = At(s, T)
    BY <1>7, <1>9, <1>10
  <1> QED BY <1>8, <1>11 DEF a
-----------------------------------------------------------------------------
(* The history and the ordinals: an item's first line has the position of  *)
(* its ordinal among the first lines.                                      *)
LEMMA FirstLine ==
  ASSUME Types, Ordinals, NEW k \in Parsed
  PROVE  \E j \in Fresh : j <= k /\ file.lines[j].ord = file.lines[k].ord
  <1> DEFINE l == file.lines
             S == {j \in Parsed : l[j].ord = l[k].ord}
  <1>0. \A j \in Parsed : j \in Nat
    BY ParsedType
  <1>1. S \subseteq Nat /\ k \in S
    BY <1>0
  <1>2. PICK j \in S : \A i \in S : j <= i
    BY <1>1, Least
  <1>3. j \in Fresh
    <2>1. ASSUME NEW i \in Parsed, i < j, l[i].item = l[j].item PROVE FALSE
      <3>1. l[i].ord = l[j].ord
        BY <2>1 DEF Ordinals
      <3>2. i \in S
        BY <3>1
      <3> QED BY <2>1, <3>2, <1>0, <1>2
    <2> QED BY <2>1 DEF Fresh
  <1> QED BY <1>1, <1>2, <1>3

LEMMA FreshOrdinals ==
  ASSUME Types, Ordinals, NEW e, NEW n, Lists(e, n, Fresh), NEW i \in 1..n
  PROVE  file.lines[e[i]].ord = i - 1
  <1> DEFINE l == file.lines
             Bad == {j \in Nat : j \in 1..n /\ l[e[j]].ord # j - 1}
  <1>0. /\ n \in Nat /\ \A j \in 1..n : j \in Nat /\ e[j] \in Fresh
        /\ \A j \in Fresh : \E h \in 1..n : j = e[h]
        /\ \A j, h \in 1..n : j < h => e[j] < e[h]
    BY DEF Lists
  <1>1. \A j \in Fresh : j \in Parsed /\ j \in Nat /\ l[j].ord \in Nat
    BY ParsedType DEF Fresh
  <1>2. \A j, h \in 1..n : j < h => l[e[j]].ord < l[e[h]].ord
    <2> TAKE j, h \in 1..n
    <2> HAVE j < h
    <2>1. e[j] < e[h] /\ e[j] \in Fresh /\ e[h] \in Fresh
      BY <1>0
    <2>2. l[e[j]].ord <= l[e[h]].ord
      BY <2>1, <1>1 DEF Ordinals
    <2>3. l[e[j]].item # l[e[h]].item
      BY <2>1, <1>1 DEF Fresh
    <2>4. l[e[j]].ord # l[e[h]].ord
      BY <2>1, <2>3, <1>1 DEF Ordinals
    <2>5. l[e[j]].ord \in Nat /\ l[e[h]].ord \in Nat
      BY <2>1, <1>1
    <2> QED BY <2>2, <2>4, <2>5
  <1>3. Bad = {}
    <2>1. SUFFICES ASSUME Bad # {} PROVE FALSE
      OBVIOUS
    <2>0. Bad \subseteq Nat
      OBVIOUS
    <2>2. PICK j \in Bad : \A h \in Bad : j <= h
      BY <2>0, <2>1, Least
    <2>3. j \in 1..n /\ l[e[j]].ord # j - 1 /\ e[j] \in Parsed /\ l[e[j]].ord \in Nat
      BY <2>2, <1>0, <1>1
    <2>4. \A h \in 1..n : h < j => l[e[h]].ord = h - 1
      <3> TAKE h \in 1..n
      <3> HAVE h < j
      <3>1. h \in Nat /\ j \in Nat /\ ~(j <= h)
        BY <2>3
      <3>2. h \notin Bad
        <4> HIDE DEF Bad
        <4> QED BY <3>1, <2>2
      <3> QED BY <3>1, <3>2
    <2>5. l[e[j]].ord >= j - 1
      <3>1. CASE j = 1
        BY <3>1, <2>3
      <3>2. CASE j # 1
        <4>1. j - 1 \in 1..n /\ j - 1 < j
          BY <2>3, <3>2, <1>0
        <4>2. l[e[j - 1]].ord = j - 2 /\ l[e[j - 1]].ord < l[e[j]].ord
          <5>1. l[e[j - 1]].ord = (j - 1) - 1
            BY <4>1, <2>4
          <5>2. l[e[j - 1]].ord < l[e[j]].ord
            BY <4>1, <2>3, <1>2
          <5> QED BY <5>1, <5>2, <2>3
        <4> QED BY <4>2, <2>3
      <3> QED BY <3>1, <3>2
    <2>6. j - 1 \in Nat /\ j - 1 < l[e[j]].ord
      BY <2>3, <2>5
    <2>7. PICK k \in Parsed : l[k].ord = j - 1
      BY <2>3, <2>6 DEF Ordinals
    <2>8. PICK h \in 1..n : l[e[h]].ord = j - 1
      <3>1. PICK g \in Fresh : l[g].ord = j - 1
        BY <2>7, FirstLine
      <3> QED BY <3>1, <1>0
    <2>9. CASE h < j
      BY <2>4, <2>8, <2>9, <2>3
    <2>10. CASE h = j
      BY <2>3, <2>8, <2>10
    <2>11. CASE j < h
      <3>1. l[e[j]].ord < l[e[h]].ord
        BY <2>3, <2>11, <1>2
      <3> QED BY <3>1, <2>3, <2>6, <2>8
    <2> QED BY <2>3, <2>9, <2>10, <2>11
  <1> QED BY <1>0, <1>3

(* A checkpoint covers the first lines up to its ordinal, and no other.    *)
LEMMA Prefix ==
  ASSUME Types, Handle, Ordinals, Projects(proj.off, proj.ord, proj.rows)
  PROVE  ProjectionIsPrefix
  <1> DEFINE l == file.lines
             off == proj.off
             ord == proj.ord
             rows == proj.rows
             S == {k \in Parsed : k <= off}
             b == Len(file.lines)
             V == Items \cup {Meta}
  <1>0. /\ off \in Nat /\ ord \in Nat /\ rows \in Seq(V) /\ Len(rows) = ord /\ off <= Complete
        /\ \A k \in Parsed : k <= off => l[k].ord < ord /\ rows[l[k].ord + 1] = l[k].item
        /\ \A i \in Nat : i < ord => \E k \in Parsed : k <= off /\ l[k].ord = i
        /\ \A j, k \in Parsed : j < k /\ k <= off => l[j].ord # l[k].ord
    <2>1. proj \in Checkpoint
      BY DEF Types
    <2> QED BY <2>1 DEF Checkpoint, Projects
  <1>1. /\ b \in Nat
        /\ \A k \in Parsed : k \in Nat /\ k \in 1..b /\ l[k].ord \in Nat /\ l[k].item \in V
    BY ParsedType
  <1>2. Fresh \subseteq Parsed /\ Fresh \subseteq 1..b
    BY <1>1 DEF Fresh
  <1>3. PICK n, e : Lists(e, n, Fresh)
    <2> HIDE DEF b
    <2> QED BY <1>1, <1>2, ListExists
  <1>4. /\ n \in Nat /\ e \in [1..n -> Nat] /\ \A i \in 1..n : i \in Nat /\ e[i] \in Fresh /\ e[i] \in Parsed
        /\ \A k \in Fresh : \E i \in 1..n : k = e[i]
        /\ \A i, j \in 1..n : i < j => e[i] < e[j]
    BY <1>2, <1>3 DEF Lists
  <1>5. \A i \in 1..n : l[e[i]].ord = i - 1
    BY <1>3, FreshOrdinals
  <1>6. \A k \in S : k \in Fresh
    <2> TAKE k \in S
    <2>1. ASSUME NEW j \in Parsed, j < k, l[j].item = l[k].item PROVE FALSE
      <3>1. l[j].ord = l[k].ord
        BY <2>1 DEF Ordinals
      <3> QED BY <3>1, <2>1, <1>0
    <2> QED BY <2>1 DEF Fresh
  <1>7. ASSUME NEW i \in 1..ord
        PROVE  i \in 1..n /\ e[i] \in S /\ rows[i] = l[e[i]].item
    <2>1. i \in Nat /\ i - 1 \in Nat /\ i - 1 < ord
      BY <1>0
    <2>2. PICK k \in Parsed : k <= off /\ l[k].ord = i - 1
      BY <2>1, <1>0
    <2>3. PICK h \in 1..n : k = e[h]
      BY <2>2, <1>4, <1>6
    <2>4. h - 1 = i - 1
      BY <2>2, <2>3, <1>5
    <2>5. h = i
      BY <2>1, <2>3, <2>4, <1>4
    <2>6. rows[(i - 1) + 1] = l[k].item
      BY <2>2, <1>0
    <2>7. (i - 1) + 1 = i
      BY <2>1
    <2> QED BY <2>2, <2>3, <2>5, <2>6, <2>7
  <1>8. ord <= n
    <2>1. CASE ord = 0
      BY <2>1, <1>4
    <2>2. CASE ord # 0
      <3>1. ord \in 1..ord
        BY <2>2, <1>0
      <3>2. ord \in 1..n
        BY <3>1, <1>7
      <3> QED BY <3>2, <1>4
    <2> QED BY <2>1, <2>2
  <1>9. History = [i \in 1..n |-> LineItems[e[i]]]
    BY <1>3, ListAt DEF History
  <1>10. \A i \in 1..n : History[i] = l[e[i]].item /\ History[i] \in V
    <2> TAKE i \in 1..n
    <2>1. e[i] \in DOMAIN l
      BY <1>4 DEF Parsed
    <2>2. LineItems[e[i]] = l[e[i]].item
      BY <2>1 DEF LineItems
    <2> QED BY <2>2, <1>1, <1>4, <1>9
  <1>11. History \in Seq(V) /\ Len(History) = n
    <2>1. History \in [1..n -> V]
      BY <1>9, <1>10
    <2> HIDE DEF V
    <2> QED BY <2>1, <1>4
  <1>12. IsPrefix(rows, History)
    <2>0. \A i \in 1..ord : rows[i] = History[i]
      BY <1>7, <1>10
    <2> HIDE DEF rows, ord, V
    <2>1. SubSeq(rows, 1, ord) = [i \in 1..ord |-> rows[i]]
      BY <1>0
    <2>2. SubSeq(History, 1, ord) = [i \in 1..ord |-> History[i]]
      BY <1>0, <1>8, <1>11
    <2>3. SubSeq(rows, 1, ord) = SubSeq(History, 1, ord)
      BY <2>0, <2>1, <2>2
    <2> QED BY <2>3, <1>0, <1>8, <1>11 DEF IsPrefix
  <1>13. Cardinality(S) = ord
    <2> DEFINE d == [i \in 1..ord |-> e[i]]
    <2>1. \A i \in 1..ord : d[i] = e[i] /\ i \in 1..n
      BY <1>7
    <2>2. d \in [1..ord -> Nat]
      BY <2>1, <1>4
    <2>3. \A i, j \in 1..ord : i < j => d[i] < d[j]
      BY <2>1, <1>4
    <2>4. \A i \in 1..ord : d[i] \in S
      BY <2>1, <1>7
    <2>5. \A k \in S : \E i \in 1..ord : k = d[i]
      <3> TAKE k \in S
      <3>1. PICK i \in 1..n : k = e[i]
        BY <1>4, <1>6
      <3>2. i - 1 < ord
        BY <3>1, <1>0, <1>5
      <3>3. i \in 1..ord
        BY <3>1, <3>2, <1>0, <1>4
      <3> QED BY <3>1, <3>3, <2>1
    <2> HIDE DEF d, S, ord
    <2>6. S = {d[i] : i \in 1..ord}
      BY <2>4, <2>5
    <2>7. Lists(d, ord, S)
      BY <1>0, <2>2, <2>3, <2>6 DEF Lists
    <2> QED BY <2>7, ListCounts
  <1> QED BY <1>0, <1>12, <1>13 DEF ProjectionIsPrefix

(***************************************************************************)
(* The rows of SQLite are a prefix of the history that load_rollout_items  *)
(* reads, and offset and ordinal of the checkpoint describe that prefix:   *)
(* apply_projection moves all three at once, from the checkpoint the steps *)
(* were read from.                                                         *)
(***************************************************************************)
THEOREM ProjectionPrefix == Spec => []ProjectionIsPrefix
  <1>1. LogInv => ProjectionIsPrefix
    BY Prefix DEF LogInv, Records, ProjInv
  <1> QED BY <1>1, LogInvariant, PTL
-----------------------------------------------------------------------------
(***************************************************************************)
(* The refinement.  The log and the buffer of ThreadLog, as the recorder   *)
(* implements them.                                                        *)
(***************************************************************************)
LogNow == At(LineItems, Logged)
BufferNow == At(Queue, Unwritten)

LEMMA LoggedType ==
  ASSUME Types
  PROVE  /\ Bounded(Logged) /\ Logged \subseteq Parsed
         /\ \A k \in Logged : LineItems[k] = file.lines[k].item
  <1>1. Logged \subseteq Parsed
    BY DEF Logged, Fresh
  <1>2. Len(file.lines) \in Nat /\ \A k \in Parsed : k \in 1..Len(file.lines)
    BY ParsedType
  <1>3. \A k \in Parsed : LineItems[k] = file.lines[k].item
    BY DEF Parsed, LineItems
  <1> QED BY <1>1, <1>2, <1>3 DEF Bounded

LEMMA UnwrittenType ==
  ASSUME Types
  PROVE  /\ Len(Queue) \in Nat /\ DOMAIN Queue = 1..Len(Queue)
         /\ Bounded(Unwritten)
         /\ \A k \in Unwritten : k \in Nat /\ k \in 1..Len(Queue)
  <1>1. Len(Queue) \in Nat /\ DOMAIN Queue = 1..Len(Queue)
    BY QueueType
  <1>2. Unwritten \subseteq 1..Len(Queue)
    BY <1>1 DEF Unwritten
  <1> QED BY <1>1, <1>2 DEF Bounded

LEMMA LogElements ==
  ASSUME Types, Ordinals
  PROVE  Log!Elems(LogNow) = Readable \ {Meta}
  <1> DEFINE l == file.lines
  <1>1. Log!Elems(LogNow) = {LineItems[k] : k \in Logged}
    <2>1. Bounded(Logged)
      BY LoggedType
    <2>2. {At(LineItems, Logged)[i] : i \in DOMAIN At(LineItems, Logged)} = {LineItems[k] : k \in Logged}
      BY <2>1, AtElements
    <2> QED BY <2>2 DEF Log!Elems, LogNow
  <1>2. {LineItems[k] : k \in Logged} = {l[k].item : k \in Logged}
    BY LoggedType
  <1>3. \A k \in Logged : l[k].item \in Readable /\ l[k].item # Meta
    BY LoggedType DEF Readable, Logged
  <1>4. \A x \in Readable \ {Meta} : \E k \in Logged : x = l[k].item
    <2> TAKE x \in Readable \ {Meta}
    <2>1. PICK k \in Parsed : x = l[k].item
      BY DEF Readable
    <2>2. PICK j \in Fresh : l[j].ord = l[k].ord
      BY FirstLine
    <2>3. l[j].item = x
      BY <2>1, <2>2 DEF Ordinals, Fresh
    <2> QED BY <2>2, <2>3 DEF Logged
  <1> QED BY <1>1, <1>2, <1>3, <1>4

LEMMA BufferElements ==
  ASSUME Types
  PROVE  /\ Log!Elems(BufferNow) \subseteq Waiting
         /\ Unwritten = {} => BufferNow = <<>>
  <1>1. Bounded(Unwritten)
    BY UnwrittenType
  <1>2. {At(Queue, Unwritten)[i] : i \in DOMAIN At(Queue, Unwritten)} = {Queue[k] : k \in Unwritten}
    BY <1>1, AtElements
  <1>3. Unwritten = {} => At(Queue, Unwritten) = <<>>
    BY <1>1, AtElements
  <1>4. Log!Elems(BufferNow) = {Queue[k] : k \in Unwritten}
    BY <1>2 DEF Log!Elems, BufferNow
  <1>5. {Queue[k] : k \in Unwritten} \subseteq Waiting
    BY DEF Unwritten, Waiting
  <1> QED BY <1>3, <1>4, <1>5 DEF BufferNow

(* Nothing queued, nothing buffered.                                       *)
LEMMA BufferEmpty ==
  ASSUME Types, pending = <<>>, chan = <<>>
  PROVE  BufferNow = <<>>
  <1>1. Len(Queue) = Len(pending) + Len(chan) /\ DOMAIN Queue = 1..Len(Queue)
    BY QueueType
  <1>2. Len(pending) = 0 /\ Len(chan) = 0
    OBVIOUS
  <1>3. Unwritten = {}
    BY <1>1, <1>2 DEF Unwritten
  <1> QED BY <1>3, BufferElements

(* The log, when no record is added.                                       *)
LEMMA LogSame ==
  ASSUME Types, Parsed' = Parsed, \A k \in Parsed : file'.lines[k] = file.lines[k]
  PROVE  LogNow' = LogNow /\ Readable' = Readable
  <1>1. Readable' = Readable
    BY DEF Readable
  <1>2. Fresh' = Fresh
    <2>1. \A k \in Parsed : file'.lines[k].item = file.lines[k].item
      OBVIOUS
    <2> QED BY <2>1 DEF Fresh
  <1>3. Logged' = Logged
    BY <1>2 DEF Logged, Fresh
  <1>4. \A k \in Logged : LineItems'[k] = LineItems[k]
    <2> TAKE k \in Logged
    <2>1. k \in Parsed /\ k \in DOMAIN file'.lines /\ k \in DOMAIN file.lines
      BY LoggedType DEF Parsed
    <2>2. LineItems'[k] = file'.lines[k].item
      BY <2>1 DEF LineItems
    <2>3. LineItems[k] = file.lines[k].item
      BY <2>1 DEF LineItems
    <2> QED BY <2>1, <2>2, <2>3
  <1>5. At(LineItems', Logged) = At(LineItems, Logged)
    BY <1>4, LoggedType, AtSame DEF Agree
  <1> QED BY <1>1, <1>3, <1>5 DEF LogNow

(* The log, when a record is added: it is there, or comes last.            *)
LEMMA LogWhole ==
  ASSUME Types, NEW x \in Line, NEW n \in Nat,
         Parsed' = Parsed \cup {n}, file'.lines[n] = x,
         \A k \in Parsed : k \in Nat /\ k < n /\ file'.lines[k] = file.lines[k]
  PROVE  LogNow' = IF x.item = Meta \/ x.item \in Readable
                   THEN LogNow ELSE Append(LogNow, x.item)
  <1> DEFINE l == file.lines
             m == file'.lines
  <1>0. /\ Bounded(Logged) /\ n \in Nat /\ n \notin Parsed
        /\ \A k \in Logged : k \in Parsed /\ k < n
    BY LoggedType
  <1>1. \A k \in Parsed : k \in Fresh' <=> k \in Fresh
    <2> TAKE k \in Parsed
    <2>1. \A j \in Parsed' : j < k => j \in Parsed
      BY <1>0
    <2>2. (\A j \in Parsed' : j < k => m[j].item # m[k].item)
            <=> (\A j \in Parsed : j < k => l[j].item # l[k].item)
      BY <2>1
    <2>3. k \in Fresh' <=> \A j \in Parsed' : j < k => m[j].item # m[k].item
      BY DEF Fresh
    <2>4. k \in Fresh <=> \A j \in Parsed : j < k => l[j].item # l[k].item
      BY DEF Fresh
    <2> QED BY <2>2, <2>3, <2>4
  <1>2. n \in Fresh' <=> x.item \notin Readable
    <2>1. n \in Fresh' <=> \A j \in Parsed' : j < n => m[j].item # x.item
      BY DEF Fresh
    <2>2. (\A j \in Parsed' : j < n => m[j].item # x.item) <=> (\A j \in Parsed : l[j].item # x.item)
      BY <1>0
    <2> QED BY <2>1, <2>2 DEF Readable
  <1>3. \A k : k \in Logged' <=> k \in Logged \/ (k = n /\ x.item # Meta /\ x.item \notin Readable)
    <2> TAKE k
    <2>1. k \in Logged' <=> k \in Fresh' /\ m[k].item # Meta
      BY DEF Logged
    <2>2. k \in Logged <=> k \in Fresh /\ l[k].item # Meta
      BY DEF Logged
    <2>3. k \in Fresh' => k \in Parsed \/ k = n
      BY DEF Fresh
    <2>4. k \in Fresh => k \in Parsed
      BY DEF Fresh
    <2>5. CASE k = n
      BY <2>1, <2>5, <1>0, <1>2
    <2>6. CASE k \in Parsed
      BY <2>1, <2>2, <2>6, <1>0, <1>1
    <2>7. CASE k # n /\ k \notin Parsed
      BY <2>1, <2>2, <2>3, <2>4, <2>7
    <2> QED BY <2>5, <2>6, <2>7
  <1>4. \A k \in Parsed' : LineItems'[k] = m[k].item
    <2> TAKE k \in Parsed'
    <2>1. k \in DOMAIN file'.lines
      BY DEF Parsed
    <2> QED BY <2>1 DEF LineItems
  <1>5. Agree(LineItems', LineItems, Logged)
    BY <1>0, <1>4, LoggedType DEF Agree
  <1>6. LineItems'[n] = x.item
    BY <1>4
  <1>7. CASE x.item = Meta \/ x.item \in Readable
    <2>1. Logged' = Logged
      BY <1>3, <1>7
    <2>2. At(LineItems', Logged) = At(LineItems, Logged)
      BY <1>0, <1>5, AtSame
    <2> QED BY <2>1, <2>2, <1>7 DEF LogNow
  <1>8. CASE ~(x.item = Meta \/ x.item \in Readable)
    <2>1. WithLast(Logged', Logged, n)
      BY <1>0, <1>3, <1>8 DEF WithLast
    <2>2. At(LineItems', Logged') = Append(At(LineItems, Logged), LineItems'[n])
      BY <2>1, <1>0, <1>5, AtAppend
    <2> QED BY <2>2, <1>6, <1>8 DEF LogNow
  <1> QED BY <1>7, <1>8
-----------------------------------------------------------------------------
(* The buffer, step by step.                                               *)
LEMMA BufferSame ==
  ASSUME Types, Queue' = Queue, \A i \in Waiting : i \in Readable' <=> i \in Readable
  PROVE  BufferNow' = BufferNow
  <1>1. \A k \in DOMAIN Queue : Queue[k] # Meta => Queue[k] \in Waiting
    BY DEF Waiting
  <1>2. Unwritten' = Unwritten
    BY <1>1 DEF Unwritten
  <1> QED BY <1>2 DEF BufferNow

(* Something is sent.                                                      *)
LEMMA BufferSend ==
  ASSUME Types, NEW x \in Items \cup {Meta}, Queue' = Append(Queue, x), Readable' = Readable,
         x = Meta \/ x \notin Readable
  PROVE  BufferNow' = IF x = Meta THEN BufferNow ELSE Append(BufferNow, x)
  <1> DEFINE n == Len(Queue) + 1
  <1>0. /\ Bounded(Unwritten) /\ Len(Queue) \in Nat /\ DOMAIN Queue = 1..Len(Queue)
        /\ \A k \in Unwritten : k \in Nat /\ k \in 1..Len(Queue)
    BY UnwrittenType
  <1>1. /\ DOMAIN Queue' = 1..n /\ Queue'[n] = x
        /\ \A q \in DOMAIN Queue : Queue'[q] = Queue[q]
    BY QueueGrows
  <1>2. n \in Nat /\ \A k : k \in 1..n <=> k \in DOMAIN Queue \/ k = n
    BY <1>0
  <1>3. \A k \in Unwritten : k < n /\ k \in DOMAIN Queue
    BY <1>0
  <1>4. n \notin DOMAIN Queue
    BY <1>0
  <1> HIDE DEF n
  <1>5. \A k : k \in Unwritten' <=> k \in Unwritten \/ (k = n /\ x # Meta)
    <2> TAKE k
    <2>1. k \in Unwritten' <=> k \in 1..n /\ Queue'[k] # Meta /\ Queue'[k] \notin Readable
      BY <1>1 DEF Unwritten
    <2>2. k \in Unwritten <=> k \in DOMAIN Queue /\ Queue[k] # Meta /\ Queue[k] \notin Readable
      BY DEF Unwritten
    <2>3. CASE k = n
      BY <2>1, <2>2, <2>3, <1>1, <1>2, <1>4
    <2>4. CASE k # n
      BY <2>1, <2>2, <2>4, <1>1, <1>2
    <2> QED BY <2>3, <2>4
  <1>6. Agree(Queue', Queue, Unwritten)
    BY <1>1, <1>3 DEF Agree
  <1>7. CASE x = Meta
    <2>1. Unwritten' = Unwritten
      BY <1>5, <1>7
    <2>2. At(Queue', Unwritten) = At(Queue, Unwritten)
      BY <1>0, <1>6, AtSame
    <2> QED BY <2>1, <2>2, <1>7 DEF BufferNow
  <1>8. CASE x # Meta
    <2>1. WithLast(Unwritten', Unwritten, n)
      BY <1>2, <1>3, <1>5, <1>8 DEF WithLast
    <2>2. ASSUME NEW r, Agree(r, Queue, Unwritten)
          PROVE  At(r, Unwritten') = Append(At(Queue, Unwritten), r[n])
      BY <2>1, <2>2, <1>0, AtAppend
    <2>3. At(Queue', Unwritten') = Append(At(Queue, Unwritten), Queue'[n])
      BY <2>2, <1>6
    <2> QED BY <2>3, <1>1, <1>8 DEF BufferNow
  <1> QED BY <1>7, <1>8

(* A command that carries no item is received.                             *)
LEMMA BufferReceive ==
  ASSUME Types, Types', Protocol, Receive
  PROVE  BufferNow' = BufferNow
  <1>1. /\ chan # <<>>
        /\ Head(chan).item # Meta => Queue' = Queue
        /\ Head(chan).item = Meta => Queue = Cat(pending, chan) /\ Queue' = Cat(pending, Tail(chan))
    BY QueueReceive
  <1>2. file' = file
    BY DEF Receive, diskVars
  <1>3. Readable' = Readable
    BY <1>2 DEF Readable, Parsed
  <1>4. CASE Head(chan).item # Meta
    BY <1>1, <1>3, <1>4, BufferSame
  <1>5. CASE Head(chan).item = Meta
    <2> DEFINE m == Len(pending) + 1
               f == [q \in Unwritten' |-> IF q < m THEN q ELSE q + 1]
    <2>0. pending \in Seq(Items) /\ chan \in Seq(Cmd) /\ Len(pending) \in Nat
      BY DEF Types
    <2>1. /\ m \in DOMAIN Queue /\ Queue[m] = Meta
          /\ DOMAIN Queue = 1..(Len(Queue') + 1)
          /\ DOMAIN Queue' = 1..Len(Queue') /\ Len(Queue') \in Nat
          /\ \A q \in DOMAIN Queue' : Queue'[q] = Queue[IF q < m THEN q ELSE q + 1]
      BY <1>1, <1>5, <2>0, CatDrop
    <2>2. m \in Nat
      BY <2>0
    <2> HIDE DEF m
    <2>3. \A k : k \in Unwritten' <=> k \in DOMAIN Queue' /\ Queue'[k] # Meta /\ Queue'[k] \notin Readable
      BY <1>3 DEF Unwritten
    <2>4. \A k : k \in Unwritten <=> k \in DOMAIN Queue /\ Queue[k] # Meta /\ Queue[k] \notin Readable
      BY DEF Unwritten
    <2>5. \A k \in Unwritten : k \in Nat
      BY UnwrittenType
    <2>6. Bounded(Unwritten')
      <3>1. Unwritten' \subseteq 1..Len(Queue')
        BY <2>1, <2>3
      <3> QED BY <3>1, <2>1 DEF Bounded
    <2>7. \A q \in Unwritten' : /\ q \in Nat /\ q \in DOMAIN Queue'
                                /\ f[q] = IF q < m THEN q ELSE q + 1
                                /\ f[q] \in DOMAIN Queue /\ Queue'[q] = Queue[f[q]]
      <3> TAKE q \in Unwritten'
      <3>1. q \in DOMAIN Queue' /\ q \in Nat
        BY <2>1, <2>3
      <3>2. f[q] = IF q < m THEN q ELSE q + 1
        OBVIOUS
      <3>3. f[q] \in DOMAIN Queue
        BY <3>1, <3>2, <2>1
      <3> QED BY <3>1, <3>2, <3>3, <2>1
    <2>8. \A q \in Unwritten' : f[q] \in Unwritten
      <3> TAKE q \in Unwritten'
      <3> HIDE DEF f
      <3> QED BY <2>3, <2>4, <2>7
    <2>9. \A y \in Unwritten : \E q \in Unwritten' : y = f[q]
      <3> TAKE y \in Unwritten
      <3>0. y \in DOMAIN Queue /\ y # m /\ y \in Nat /\ Queue[y] # Meta /\ Queue[y] \notin Readable
        BY <2>1, <2>4, <2>5
      <3>1. CASE y < m
        <4>1. y \in DOMAIN Queue' /\ Queue'[y] = Queue[y]
          BY <3>0, <3>1, <2>1, <2>2
        <4>2. y \in Unwritten'
          BY <4>1, <3>0, <2>3
        <4> QED BY <4>2, <3>1
      <3>2. CASE y > m
        <4>1. y - 1 \in DOMAIN Queue' /\ ~(y - 1 < m) /\ (y - 1) + 1 = y
          BY <3>0, <3>2, <2>1, <2>2
        <4>2. Queue'[y - 1] = Queue[y]
          BY <4>1, <2>1
        <4>3. y - 1 \in Unwritten'
          BY <4>1, <4>2, <3>0, <2>3
        <4>4. f[y - 1] = y
          BY <4>1, <4>3
        <4> QED BY <4>3, <4>4
      <3> QED BY <3>0, <3>1, <3>2, <2>2
    <2>10. \A j, k \in Unwritten' : j < k => f[j] < f[k]
      <3> TAKE j, k \in Unwritten'
      <3> HAVE j < k
      <3>1. /\ j \in Nat /\ k \in Nat /\ f[j] = (IF j < m THEN j ELSE j + 1)
            /\ f[k] = IF k < m THEN k ELSE k + 1
        BY <2>7
      <3> HIDE DEF f
      <3> QED BY <3>1, <2>2
    <2>11. f \in [Unwritten' -> Unwritten]
      BY <2>8
    <2> HIDE DEF f
    <2>12. Matches(f, Unwritten', Unwritten)
      BY <2>5, <2>9, <2>10, <2>11 DEF Matches
    <2>13. \A k \in Unwritten' : Queue[f[k]] = Queue'[k]
      BY <2>7
    <2>14. At(Queue, Unwritten) = At(Queue', Unwritten')
      BY <2>6, <2>12, <2>13, AtMap
    <2> QED BY <2>14 DEF BufferNow
  <1> QED BY <1>4, <1>5

(* The first item is readable: it leaves the buffer, unless it had before. *)
LEMMA BufferHead ==
  ASSUME Types, QueuedOnce, pending # <<>>, NEW T,
         \A k : k \in T <=> k \in Unwritten /\ k # 1
  PROVE  LET h == Head(pending) IN
         IF h \in Readable THEN At(Queue, T) = BufferNow
         ELSE /\ BufferNow # <<>> /\ Head(BufferNow) = h
              /\ At(Queue, T) = Tail(BufferNow)
  <1> DEFINE h == Head(pending)
  <1>0. Bounded(Unwritten) /\ \A k \in Unwritten : k \in Nat /\ k \in 1..Len(Queue)
    BY UnwrittenType
  <1>1. 1 \in DOMAIN Queue /\ Queue[1] = h /\ h # Meta
    BY QueueHead, QueueType
  <1>2. 1 \in Unwritten <=> h \notin Readable
    BY <1>1 DEF Unwritten
  <1>3. CASE h \in Readable
    <2>1. T = Unwritten
      BY <1>2, <1>3
    <2> QED BY <2>1, <1>3 DEF BufferNow
  <1>4. CASE h \notin Readable
    <2>1. \A k \in Unwritten : 1 <= k
      BY <1>0
    <2>2. WithoutFirst(T, Unwritten, 1)
      BY <2>1, <1>2, <1>4 DEF WithoutFirst
    <2>3. /\ At(Queue, Unwritten) # <<>> /\ Head(At(Queue, Unwritten)) = Queue[1]
          /\ Tail(At(Queue, Unwritten)) = At(Queue, T)
      BY <2>2, <1>0, AtTail
    <2> QED BY <2>3, <1>1, <1>4 DEF BufferNow
  <1> QED BY <1>3, <1>4

LEMMA BufferWrite ==
  ASSUME Types, Types', QueuedOnce, pending # <<>>, pending' = Tail(pending), chan' = chan,
         Readable' = Readable \cup {Head(pending)}
  PROVE  IF Head(pending) \in Readable THEN BufferNow' = BufferNow
         ELSE /\ BufferNow # <<>> /\ Head(BufferNow) = Head(pending)
              /\ BufferNow' = Tail(BufferNow)
  <1> DEFINE h == Head(pending)
             T == {k \in Unwritten : k # 1}
             f == [q \in Unwritten' |-> q + 1]
  <1>1. /\ Queue[1] = h /\ Len(Queue) > 0 /\ DOMAIN Queue' = 1..(Len(Queue) - 1)
        /\ \A q \in DOMAIN Queue' : Queue'[q] = Queue[q + 1]
    BY QueueWrite
  <1>2. /\ Len(Queue) \in Nat /\ DOMAIN Queue = 1..Len(Queue) /\ 1 \in DOMAIN Queue /\ h # Meta
    BY QueueType, QueueHead
  <1>3. \A q \in DOMAIN Queue' : q \in Nat /\ q + 1 \in DOMAIN Queue /\ q + 1 # 1
    BY <1>1, <1>2
  <1>4. \A q \in DOMAIN Queue : q # 1 => q \in Nat /\ q - 1 \in DOMAIN Queue' /\ (q - 1) + 1 = q
    BY <1>1, <1>2
  <1>5. \A q \in DOMAIN Queue : q # 1 /\ Queue[q] # Meta => Queue[q] # h
    BY <1>1, <1>2 DEF QueuedOnce
  <1>6. \A k : k \in Unwritten' <=> k \in DOMAIN Queue' /\ Queue'[k] # Meta /\ Queue'[k] \notin Readable'
    BY DEF Unwritten
  <1>7. \A k : k \in Unwritten <=> k \in DOMAIN Queue /\ Queue[k] # Meta /\ Queue[k] \notin Readable
    BY DEF Unwritten
  <1>8. Bounded(Unwritten')
    <2>1. Unwritten' \subseteq 1..(Len(Queue) - 1) /\ Len(Queue) - 1 \in Nat
      BY <1>1, <1>2, <1>6
    <2> QED BY <2>1 DEF Bounded
  <1>9. \A q \in Unwritten' : f[q] \in T /\ Queue[f[q]] = Queue'[q]
    <2> TAKE q \in Unwritten'
    <2>1. q \in DOMAIN Queue' /\ Queue'[q] # Meta /\ Queue'[q] \notin Readable
      BY <1>6
    <2>2. q + 1 \in Unwritten /\ q + 1 # 1 /\ Queue[q + 1] = Queue'[q]
      BY <2>1, <1>1, <1>3, <1>7
    <2> QED BY <2>2
  <1>10. \A y \in T : \E q \in Unwritten' : y = f[q]
    <2> TAKE y \in T
    <2>1. /\ y \in DOMAIN Queue /\ y # 1 /\ Queue[y] # Meta /\ Queue[y] \notin Readable
      BY <1>7
    <2>2. y - 1 \in DOMAIN Queue' /\ (y - 1) + 1 = y /\ Queue[y] # h
      BY <2>1, <1>4, <1>5
    <2>3. Queue'[y - 1] = Queue[y]
      BY <2>2, <1>1
    <2>4. y - 1 \in Unwritten'
      BY <2>1, <2>2, <2>3, <1>6
    <2> QED BY <2>2, <2>4
  <1>11. \A j, k \in Unwritten' : j < k => f[j] < f[k]
    BY <1>3, <1>6
  <1>12. f \in [Unwritten' -> T]
    BY <1>9
  <1>13. \A k \in T : k \in Nat
    BY UnwrittenType
  <1>14. \A k : k \in T <=> k \in Unwritten /\ k # 1
    OBVIOUS
  <1> HIDE DEF f, T
  <1>15. Matches(f, Unwritten', T)
    BY <1>10, <1>11, <1>12, <1>13 DEF Matches
  <1>16. At(Queue, T) = At(Queue', Unwritten')
    BY <1>8, <1>9, <1>15, AtMap
  <1>17. IF h \in Readable THEN At(Queue, T) = BufferNow
         ELSE /\ BufferNow # <<>> /\ Head(BufferNow) = h
              /\ At(Queue, T) = Tail(BufferNow)
    BY <1>14, BufferHead
  <1>18. BufferNow' = At(Queue, T)
    BY <1>16 DEF BufferNow
  <1> QED BY <1>17, <1>18

LEMMA BufferKept ==
  ASSUME Types, QueuedOnce, pending # <<>>, Queue' = Queue,
         Readable' = Readable \cup {Head(pending)}
  PROVE  IF Head(pending) \in Readable THEN BufferNow' = BufferNow
         ELSE /\ BufferNow # <<>> /\ Head(BufferNow) = Head(pending)
              /\ BufferNow' = Tail(BufferNow)
  <1> DEFINE h == Head(pending)
  <1>1. 1 \in DOMAIN Queue /\ Queue[1] = h /\ h # Meta
    BY QueueHead, QueueType
  <1>2. \A q \in DOMAIN Queue : q # 1 /\ Queue[q] # Meta => Queue[q] # h
    BY <1>1 DEF QueuedOnce
  <1>3. \A k : k \in Unwritten' <=> k \in Unwritten /\ k # 1
    <2> TAKE k
    <2>1. k \in Unwritten' <=> k \in DOMAIN Queue /\ Queue[k] # Meta /\ Queue[k] \notin Readable'
      BY DEF Unwritten
    <2>2. k \in Unwritten <=> k \in DOMAIN Queue /\ Queue[k] # Meta /\ Queue[k] \notin Readable
      BY DEF Unwritten
    <2> QED BY <2>1, <2>2, <1>1, <1>2
  <1>4. IF h \in Readable THEN At(Queue, Unwritten') = BufferNow
        ELSE /\ BufferNow # <<>> /\ Head(BufferNow) = h
             /\ At(Queue, Unwritten') = Tail(BufferNow)
    BY <1>3, BufferHead
  <1> QED BY <1>4 DEF BufferNow
-----------------------------------------------------------------------------
(* The steps of ThreadLog, by what they do to its variables.               *)
LogStep == Log!Next \/ UNCHANGED <<LogNow, BufferNow, acked, proc>>

LEMMA IsSubmit ==
  ASSUME NEW i \in Items, proc = "open",
         i \notin Log!Elems(LogNow) \cup Log!Elems(BufferNow),
         BufferNow' = Append(BufferNow, i), UNCHANGED <<LogNow, acked, proc>>
  PROVE  LogStep
  <1>1. Log!Submit(i)
    BY DEF Log!Submit, LogNow, BufferNow
  <1> QED BY <1>1 DEF LogStep, Log!Next

LEMMA IsCommit ==
  ASSUME proc = "open", BufferNow # <<>>, LogNow' = Append(LogNow, Head(BufferNow)),
         BufferNow' = Tail(BufferNow), UNCHANGED <<acked, proc>>
  PROVE  LogStep
  <1>1. Log!Commit
    BY DEF Log!Commit, LogNow, BufferNow
  <1> QED BY <1>1 DEF LogStep, Log!Next

LEMMA IsAcknowledge ==
  ASSUME acked' \subseteq Log!Elems(LogNow), acked \subseteq acked',
         UNCHANGED <<LogNow, BufferNow, proc>>
  PROVE  LogStep
  <1>1. Log!Acknowledge
    BY DEF Log!Acknowledge, LogNow, BufferNow
  <1> QED BY <1>1 DEF LogStep, Log!Next

LEMMA IsClose ==
  ASSUME proc = "open", BufferNow = <<>>, proc' = "closed",
         UNCHANGED <<LogNow, BufferNow, acked>>
  PROVE  LogStep
  <1>1. Log!Close
    BY DEF Log!Close, LogNow, BufferNow
  <1> QED BY <1>1 DEF LogStep, Log!Next

LEMMA IsLose ==
  ASSUME proc = "open", BufferNow' = <<>>, proc' = "lost", UNCHANGED <<LogNow, acked>>
  PROVE  LogStep
  <1>1. Log!Lose
    BY DEF Log!Lose, LogNow, BufferNow
  <1> QED BY <1>1 DEF LogStep, Log!Next

LEMMA IsReopen ==
  ASSUME proc # "open", proc' = "open", UNCHANGED <<LogNow, BufferNow, acked>>
  PROVE  LogStep
  <1>1. Log!Reopen
    BY DEF Log!Reopen, LogNow, BufferNow
  <1> QED BY <1>1 DEF LogStep, Log!Next

LEMMA IsStutter ==
  ASSUME UNCHANGED <<LogNow, BufferNow, acked, proc>>
  PROVE  LogStep
  BY DEF LogStep

(* Steps that touch neither the records nor the queue.                     *)
LEMMA QuietLog ==
  ASSUME Types, file'.lines = file.lines
  PROVE  UNCHANGED LogNow /\ Readable' = Readable /\ (Queue' = Queue => UNCHANGED BufferNow)
  <1>1. Parsed' = Parsed /\ \A k \in Parsed : file'.lines[k] = file.lines[k]
    BY DEF Parsed
  <1>2. UNCHANGED LogNow /\ Readable' = Readable
    BY <1>1, LogSame
  <1> QED BY <1>2, BufferSame

-----------------------------------------------------------------------------
(* Each action of the recorder is a step of ThreadLog or none.             *)
LEMMA CallLog ==
  ASSUME LogInv, Types', CallStep
  PROVE  LogStep
  <1>0. Types /\ Records /\ Dropped /\ Ordinals
    BY DEF LogInv, Records
  <1>1. ASSUME NEW i \in Items, Record(i) PROVE LogStep
    <2> DEFINE c == [kind |-> "add", item |-> i, ack |-> FALSE]
    <2>0. c \in Cmd /\ c.item = i
      BY DEF Cmd
    <2>1. /\ proc = "open" /\ i \notin submitted /\ i \notin Readable
          /\ chan' = Append(chan, c) /\ UNCHANGED <<file, pending, acked, proc>>
      BY <1>1 DEF Record, Send, diskVars
    <2> HIDE DEF c
    <2>2. Queue' = Append(Queue, i)
      BY <1>0, <2>0, <2>1, QueueSend
    <2>3. UNCHANGED LogNow /\ Readable' = Readable
      BY <1>0, <2>1, QuietLog
    <2>4. BufferNow' = Append(BufferNow, i)
      <3>1. i \in Items \cup {Meta} /\ i # Meta
        BY MetaAssumption
      <3> QED BY <3>1, <1>0, <2>1, <2>2, <2>3, BufferSend
    <2>5. i \notin Waiting
      BY <1>0, <2>1 DEF Records, QueuedOnce
    <2>6. i \notin Log!Elems(LogNow) \cup Log!Elems(BufferNow)
      <3>1. Log!Elems(LogNow) \subseteq Readable
        BY <1>0, LogElements
      <3>2. Log!Elems(BufferNow) \subseteq Waiting
        BY <1>0, BufferElements
      <3> QED BY <3>1, <3>2, <2>1, <2>5
    <2> QED BY <2>1, <2>3, <2>4, <2>6, IsSubmit
  <1>2. ASSUME NEW op \in Barriers, Begin(op) PROVE LogStep
    <2>1. UNCHANGED <<file, pending, chan, acked, proc>>
      BY <1>2 DEF Begin, diskVars
    <2>2. Queue' = Queue
      BY <2>1 DEF Queue
    <2> QED BY <1>0, <2>1, <2>2, QuietLog, IsStutter
  <1>3. CASE SendBarrier
    <2> DEFINE c == [kind |-> client.op, item |-> Meta, ack |-> TRUE]
    <2>1. /\ chan' = Append(chan, c) /\ UNCHANGED <<file, pending, acked, proc>>
      BY <1>3 DEF SendBarrier, Send, diskVars
    <2>2. c.item = Meta
      OBVIOUS
    <2> HIDE DEF c
    <2>3. c \in Cmd
      <3>1. chan \in Seq(Cmd) /\ chan' \in Seq(Cmd)
        BY <1>0 DEF Types
      <3>2. Len(chan') = Len(chan) + 1 /\ chan'[Len(chan) + 1] = c /\ Len(chan) \in Nat
        BY <2>1, <3>1
      <3>3. Len(chan) + 1 \in 1..Len(chan')
        BY <3>2
      <3>4. \A k \in 1..Len(chan') : chan'[k] \in Cmd
        BY <3>1
      <3> QED BY <3>2, <3>3, <3>4
    <2>4. Queue' = Append(Queue, Meta)
      BY <1>0, <2>1, <2>2, <2>3, QueueSend
    <2>5. UNCHANGED LogNow /\ Readable' = Readable
      BY <1>0, <2>1, QuietLog
    <2>6. UNCHANGED BufferNow
      BY <1>0, <2>4, <2>5, BufferSend
    <2> QED BY <2>1, <2>5, <2>6, IsStutter
  <1>4. CASE Cancel
    <2>1. UNCHANGED <<file, acked, proc>>
      BY <1>4 DEF Cancel, diskVars
    <2>2. Queue' = Queue
      BY <1>0, <1>4, QueueCancel
    <2> QED BY <1>0, <2>1, <2>2, QuietLog, IsStutter
  <1> QED BY <1>1, <1>2, <1>3, <1>4 DEF CallStep

(* A record is written whole, its item kept or dropped from the queue.     *)
LEMMA WholeLog ==
  ASSUME Types, Types', Ordinals, NextOrdinal, QueuedOnce, proc = "open",
         writer.meta \/ pending # <<>>,
         NEW x \in Line, x.ok, x.ord = writer.next, x.item = Current,
         file'.lines = Append(file.lines, x), UNCHANGED <<chan, acked, proc>>,
         pending' = pending \/ (~writer.meta /\ pending' = Tail(pending))
  PROVE  LogStep
  <1>1. PICK n : n = Len(file.lines) + 1
    OBVIOUS
  <1>2. /\ n \in Nat /\ Parsed' = Parsed \cup {n} /\ file'.lines[n] = x
        /\ \A k \in Parsed : k \in Nat /\ k < n /\ file'.lines[k] = file.lines[k]
        /\ Readable' = Readable \cup {x.item}
    BY <1>1, WholeLine, AppendLine
  <1>3. LogNow' = IF x.item = Meta \/ x.item \in Readable
                  THEN LogNow ELSE Append(LogNow, x.item)
    BY <1>2, LogWhole
  <1>4. CASE writer.meta
    <2>1. x.item = Meta
      BY <1>4 DEF Current
    <2>2. Queue' = Queue /\ Meta \notin Waiting
      BY <1>4, QueueType DEF Queue
    <2>3. BufferNow' = BufferNow
      BY <2>1, <2>2, <1>2, BufferSame
    <2> QED BY <2>1, <2>3, <1>3, IsStutter
  <1>5. CASE ~writer.meta
    <2>1. x.item = Head(pending) /\ pending # <<>>
      BY <1>5 DEF Current
    <2>2. x.item # Meta
      BY <2>1, QueueHead, QueueType
    <2>3. IF x.item \in Readable THEN BufferNow' = BufferNow
          ELSE /\ BufferNow # <<>> /\ Head(BufferNow) = x.item
               /\ BufferNow' = Tail(BufferNow)
      <3>1. CASE pending' = pending
        <4>1. Queue' = Queue
          BY <3>1 DEF Queue
        <4> QED BY <4>1, <2>1, <1>2, BufferKept
      <3>2. CASE pending' = Tail(pending)
        BY <3>2, <2>1, <1>2, BufferWrite
      <3> QED BY <3>1, <3>2
    <2>4. CASE x.item \in Readable
      BY <2>3, <2>4, <1>3, IsStutter
    <2>5. CASE x.item \notin Readable
      BY <2>2, <2>3, <2>5, <1>3, IsCommit
    <2> QED BY <2>4, <2>5
  <1> QED BY <1>4, <1>5

LEMMA WriterLog ==
  ASSUME LogInv, LogInv', WriterStep
  PROVE  LogStep
  <1>0. /\ Types /\ Types' /\ Handle /\ Dropped /\ Protocol /\ Records /\ Ordinals
        /\ AckedIsReadable' /\ writer \in Writer /\ file \in File
    BY DEF LogInv, Records, Types
  <1>1. CASE Receive
    <2>1. UNCHANGED <<file, acked, proc>>
      BY <1>1 DEF Receive, diskVars
    <2>2. UNCHANGED LogNow
      BY <1>0, <2>1, QuietLog
    <2>3. UNCHANGED BufferNow
      BY <1>0, <1>1, BufferReceive
    <2> QED BY <2>1, <2>2, <2>3, IsStutter
  <1>2. CASE OpenFile \/ FlushFile \/ OpenFails
    <2>1. UNCHANGED <<pending, chan, acked, proc>>
      BY <1>2 DEF OpenFile, FlushFile, OpenFails, Recover
    <2>2. file'.lines = file.lines
      BY <1>0, <1>2 DEF OpenFile, FlushFile, OpenFails, Terminated, File, diskVars
    <2>3. Queue' = Queue
      BY <2>1 DEF Queue
    <2> QED BY <1>0, <2>1, <2>2, <2>3, QuietLog, IsStutter
  <1>3. CASE WriteMeta
    <2>1. UNCHANGED <<pending, chan, acked, proc>> /\ writer.pc = "meta"
      BY <1>3 DEF WriteMeta
    <2>2. proc = "open"
      BY <1>0, <2>1, WriterOpen
    <2>3. NextOrdinal /\ QueuedOnce
      BY <1>0, <2>2 DEF Records
    <2>4. CASE ~writer.meta
      <3>1. file' = file /\ Queue' = Queue
        BY <1>3, <2>1, <2>4 DEF WriteMeta, Queue
      <3> QED BY <1>0, <2>1, <3>1, QuietLog, IsStutter
    <2>5. CASE writer.meta
      <3> DEFINE x == [item |-> Meta, ord |-> writer.next, ok |-> TRUE]
      <3>1. x \in Line /\ x.ok /\ x.ord = writer.next /\ x.item = Current
        BY <1>0, <2>5, NewLine DEF Current
      <3>2. file'.lines = Append(file.lines, x)
        BY <1>0, <1>3, <2>5 DEF WriteMeta, Appended, File
      <3> HIDE DEF x
      <3> QED BY <1>0, <2>1, <2>2, <2>3, <2>5, <3>1, <3>2, WholeLog
    <2> QED BY <2>4, <2>5
  <1>4. CASE WriteItem
    <2>1. /\ UNCHANGED <<chan, acked, proc>> /\ writer.pc = "items"
          /\ pending # <<>> /\ pending' = Tail(pending)
      BY <1>4 DEF WriteItem
    <2>2. proc = "open"
      BY <1>0, <2>1, WriterOpen
    <2>3. NextOrdinal /\ QueuedOnce /\ ~writer.meta
      BY <1>0, <2>1, <2>2 DEF Records, NextOrdinal
    <2> DEFINE x == [item |-> Head(pending), ord |-> writer.next, ok |-> TRUE]
    <2>4. x \in Line /\ x.ok /\ x.ord = writer.next /\ x.item = Current
      <3>1. Head(pending) \in Items
        BY <1>0, <2>1, HeadPending
      <3> QED BY <3>1, <1>0, <2>3, NewLine DEF Current
    <2>5. file'.lines = Append(file.lines, x)
      BY <1>0, <1>4 DEF WriteItem, Appended, File
    <2> HIDE DEF x
    <2> QED BY <1>0, <2>1, <2>2, <2>3, <2>4, <2>5, WholeLog
  <1>5. CASE WriteFails
    <2>1. /\ UNCHANGED <<pending, chan, acked, proc>>
          /\ (writer.pc = "meta" /\ writer.meta) \/ (writer.pc = "items" /\ pending # <<>>)
      BY <1>5 DEF WriteFails, Recover
    <2>2. proc = "open"
      BY <1>0, <2>1, WriterOpen
    <2>3. /\ NextOrdinal /\ QueuedOnce /\ (writer.pc = "items" => ~writer.meta)
      BY <1>0, <2>2 DEF Records, NextOrdinal
    <2>4. Queue' = Queue
      BY <2>1 DEF Queue
    <2>5. (IF writer.pc = "meta" THEN Meta ELSE Head(pending)) = Current
      BY <2>1, <2>3 DEF Current
    <2>6. \/ UNCHANGED file
          \/ \E ok \in BOOLEAN : file' = [file EXCEPT !.cut = TRUE,
                !.lines = Appended(IF writer.pc = "meta" THEN Meta ELSE Head(pending), ok)]
      BY <1>5 DEF WriteFails
    <2>7. CASE UNCHANGED file
      BY <1>0, <2>1, <2>4, <2>7, QuietLog, IsStutter
    <2>8. ASSUME NEW ok \in BOOLEAN,
                 file' = [file EXCEPT !.cut = TRUE, !.lines = Appended(Current, ok)]
          PROVE  LogStep
      <3> DEFINE x == [item |-> Current, ord |-> writer.next, ok |-> ok]
      <3>0. Current \in Items \cup {Meta}
        BY <1>0, <2>1, <2>3, HeadPending DEF Current
      <3>1. x \in Line /\ x.ok = ok /\ x.ord = writer.next /\ x.item = Current
        BY <1>0, <3>0, NewLine
      <3>2. file'.lines = Append(file.lines, x)
        BY <1>0, <2>8 DEF Appended, File
      <3> HIDE DEF x
      <3>3. CASE ok
        BY <1>0, <2>1, <2>2, <2>3, <3>1, <3>2, <3>3, WholeLog
      <3>4. CASE ~ok
        <4>1. Parsed' = Parsed /\ \A k \in Parsed : file'.lines[k] = file.lines[k]
          BY <1>0, <3>1, <3>2, <3>4, TornLine
        <4>2. UNCHANGED LogNow /\ Readable' = Readable
          BY <1>0, <4>1, LogSame
        <4>3. UNCHANGED BufferNow
          BY <1>0, <2>4, <4>2, BufferSame
        <4> QED BY <2>1, <4>2, <4>3, IsStutter
      <3> QED BY <3>3, <3>4
    <2> QED BY <2>5, <2>6, <2>7, <2>8
  <1>6. CASE Finish
    <2>1. /\ UNCHANGED <<file, pending, chan, proc>> /\ acked \subseteq acked'
      BY <1>6 DEF Finish, Answer, diskVars
    <2>2. Queue' = Queue
      BY <2>1 DEF Queue
    <2>3. UNCHANGED <<LogNow, BufferNow>> /\ Readable' = Readable
      BY <1>0, <2>1, <2>2, QuietLog
    <2>4. acked' \subseteq Readable /\ Meta \notin acked'
      BY <1>0, <2>3, MetaAssumption DEF AckedIsReadable, Types
    <2>5. acked' \subseteq Log!Elems(LogNow)
      BY <1>0, <2>4, LogElements
    <2> QED BY <2>1, <2>3, <2>5, IsAcknowledge
  <1> QED BY <1>1, <1>2, <1>3, <1>4, <1>5, <1>6 DEF WriterStep

LEMMA ProjectLog ==
  ASSUME LogInv, ProjectStep
  PROVE  LogStep
  <1>0. Types /\ Dropped /\ Protocol
    BY DEF LogInv
  <1>1. /\ UNCHANGED <<file, pending, chan, acked>> /\ client.pc \in {"read", "apply"}
        /\ Leave \/ UNCHANGED <<writer, proc, submitted>>
    BY DEF ProjectStep, ReadSteps, ReadNothing, ApplyProjection, ApplyFails, diskVars
  <1>2. proc = "open" /\ Queue' = Queue
    BY <1>0, <1>1 DEF Queue, Dropped, IdleClient
  <1>3. UNCHANGED <<LogNow, BufferNow>>
    BY <1>0, <1>1, <1>2, QuietLog
  <1>4. CASE proc' = proc
    BY <1>1, <1>3, <1>4, IsStutter
  <1>5. CASE proc' # proc
    <2>1. client.op = "shutdown" /\ proc' = "closed"
      BY <1>1, <1>5 DEF Leave
    <2>2. pending = <<>> /\ chan = <<>>
      BY <1>0, <1>1, <1>2, <2>1 DEF Protocol, Drained
    <2>3. BufferNow = <<>>
      BY <1>0, <2>2, BufferEmpty
    <2> QED BY <1>1, <1>2, <1>3, <2>1, <2>3, IsClose
  <1> QED BY <1>4, <1>5

LEMMA LifeLog ==
  ASSUME LogInv, Types', LifeStep
  PROVE  LogStep
  <1>0. Types /\ file \in File
    BY DEF LogInv, Types
  <1>1. CASE Crash \/ Discard
    <2>1. /\ UNCHANGED <<file, acked>> /\ proc = "open" /\ proc' = "lost"
          /\ pending' = <<>> /\ chan' = <<>>
      BY <1>1 DEF Crash, Discard, DropRecorder, diskVars
    <2>2. UNCHANGED LogNow
      BY <1>0, <2>1, QuietLog
    <2>3. BufferNow' = <<>>
      <3>1. Queue' = <<>>
        BY <2>1 DEF Queue
      <3>2. Unwritten' = {}
        BY <3>1 DEF Unwritten
      <3>3. Bounded({}) 
        BY DEF Bounded
      <3>4. \A s : At(s, {}) = <<>>
        BY <3>3, AtElements
      <3>5. At(Queue', Unwritten') = <<>>
        BY <3>2, <3>4
      <3> QED BY <3>5 DEF BufferNow
    <2> QED BY <2>1, <2>2, <2>3, IsLose
  <1>2. CASE Resume
    <2>1. UNCHANGED <<pending, chan, acked>> /\ proc # "open"
          /\ (proc' = "open" \/ proc' = proc)
      BY <1>2 DEF Resume
    <2>2. file'.lines = file.lines /\ Queue' = Queue
      BY <1>0, <1>2, <2>1 DEF Resume, Terminated, File, Queue
    <2>3. UNCHANGED <<LogNow, BufferNow>>
      BY <1>0, <2>2, QuietLog
    <2> QED BY <2>1, <2>3, IsReopen, IsStutter
  <1> QED BY <1>1, <1>2 DEF LifeStep

LEMMA InitLog ==
  ASSUME Init
  PROVE  Log!Init
  <1>1. /\ file.lines = <<>> /\ pending = <<>> /\ chan = <<>> /\ acked = {} /\ proc = "open"
    BY DEF Init
  <1>2. Types
    BY InitTypes
  <1>3. BufferNow = <<>>
    BY <1>1, <1>2, BufferEmpty
  <1>4. LogNow = <<>>
    <2>1. Logged = {}
      BY <1>1 DEF Logged, Fresh, Parsed
    <2>2. Bounded(Logged)
      BY <1>2, LoggedType
    <2>3. At(LineItems, Logged) = <<>>
      BY <2>1, <2>2, AtElements
    <2> QED BY <2>3 DEF LogNow
  <1> QED BY <1>1, <1>3, <1>4 DEF Log!Init, LogNow, BufferNow

LEMMA NextLog ==
  ASSUME LogInv, LogInv', [Next]_vars
  PROVE  [Log!Next]_(Log!logVars)
  <1>0. Types /\ Types'
    BY DEF LogInv
  <1>1. ASSUME Next PROVE LogStep
    <2>1. CallStep \/ WriterStep \/ ProjectStep \/ LifeStep
      BY <1>1, NextSteps
    <2> QED BY <2>1, <1>0, CallLog, WriterLog, ProjectLog, LifeLog
  <1>2. ASSUME UNCHANGED vars PROVE LogStep
    <2>1. UNCHANGED <<file, pending, chan, acked, proc>>
      BY <1>2 DEF vars, diskVars
    <2>2. Queue' = Queue
      BY <2>1 DEF Queue
    <2> QED BY <1>0, <2>1, <2>2, QuietLog, IsStutter
  <1>3. LogStep
    BY <1>1, <1>2
  <1> QED BY <1>3 DEF LogStep, Log!logVars, LogNow, BufferNow

(***************************************************************************)
(* The recorder, its writer task and the file implement the thread log,    *)
(* for any number of items, faults and losses: each item recorded enters   *)
(* the log once, in the order of the calls, though a failed write may have *)
(* left it in the file twice; a flush that returned Ok covers only items   *)
(* in the log; a shutdown that returned Ok leaves nothing behind.          *)
(***************************************************************************)
THEOREM RecorderIsThreadLog == Spec => ImplementsThreadLog
  <1>1. Init => Log!Init
    BY InitLog
  <1>2. LogInv /\ LogInv' /\ [Next]_vars => [Log!Next]_(Log!logVars)
    BY NextLog
  <1> QED BY <1>1, <1>2, LogInvariant, PTL DEF Spec, ImplementsThreadLog, Log!Spec
=============================================================================
