----------------------------- MODULE SavedProofs -----------------------------
(***************************************************************************)
(* PhasePlan::build, for every list of phases: the order it gives is one in *)
(* which no phase waits, and the plans it accepts are those without a cycle *)
(* whose only last phase is mandatory.  Then what is stored, for every      *)
(* number of sessions, bundles and restarts, and for every codec that reads *)
(* back what it wrote or refuses it: what a restart puts back, when a start *)
(* is refused, and that a generation names the contents of an entry.        *)
(***************************************************************************)
EXTENDS SavedState, FiniteSetTheorems, TLAPS

\* Most leaves are first-order and go to Zenon; one that needs arithmetic or
\* sequences cites SMT.
USE Zenon

----------------------------------------------------------------------------
(* Numbers, iteration and lists of the members of a set. *)

\* A nonempty set of naturals has a least element.
LEMMA LeastIndex ==
  ASSUME NEW T \in SUBSET Nat, T # {}
  PROVE  \E x \in T : \A y \in T : x <= y
<1> DEFINE Less == OpToRel(<, Nat)
<1>1. IsWellFoundedOn(Less, Nat)
  BY NatLessThanWellFounded
<1>2. \A x, y \in Nat : <<x, y>> \in Less <=> x < y
  BY SMT DEF OpToRel
<1> HIDE DEF Less
<1>3. PICK x \in T : \A y \in T : ~(<<y, x>> \in Less)
  BY <1>1, WFMin
<1>4. \A y \in T : ~(y < x)
  BY <1>2, <1>3
<1>5. \A y \in T : x <= y
  BY <1>4, SMT
<1> QED
  BY <1>5

\* A set of naturals that holds 0 and the successor of all it holds is Nat.
LEMMA AllIndices ==
  ASSUME NEW S \in SUBSET Nat, 0 \in S, \A n \in S : n + 1 \in S
  PROVE  S = Nat
<1> SUFFICES ASSUME S # Nat
             PROVE  FALSE
  OBVIOUS
<1>1. PICK x \in Nat \ S : \A y \in Nat \ S : x <= y
  BY LeastIndex
<1>2. x # 0 /\ x - 1 \in Nat /\ ~(x <= x - 1) /\ (x - 1) + 1 = x
  BY <1>1, SMT
<1>3. x - 1 \in S
  BY <1>1, <1>2
<1>4. (x - 1) + 1 \in S
  BY <1>3
<1> QED
  BY <1>1, <1>2, <1>4

Iterates(g, x0, step, n) == g[0] = x0 /\ \A i \in 1..n : g[i] = step[i][g[i - 1]]

\* The passes of a loop define a function of their number.
LEMMA LoopExists ==
  ASSUME NEW X, NEW x0 \in X, NEW N \in Nat, NEW step \in [1..N -> [X -> X]]
  PROVE  \E g \in [0..N -> X] : Iterates(g, x0, step, N)
<1> DEFINE S == {n \in Nat : n <= N => \E g \in [0..n -> X] : Iterates(g, x0, step, n)}
<1>1. 0 \in S
  <2>1. [i \in 0..0 |-> x0] \in [0..0 -> X] /\ Iterates([i \in 0..0 |-> x0], x0, step, 0)
    BY SMT DEF Iterates
  <2>2. 0 \in Nat
    OBVIOUS
  <2> QED
    BY <2>1, <2>2
<1>2. \A n \in S : n + 1 \in S
  <2> SUFFICES ASSUME NEW n \in S, n + 1 <= N
               PROVE  \E g \in [0..n + 1 -> X] : Iterates(g, x0, step, n + 1)
    <3>1. \A n \in S : n + 1 \in Nat
      BY SMT
    <3> QED
      BY <3>1
  <2>1. n \in Nat /\ n <= N /\ n + 1 \in 1..N
    BY SMT
  <2>2. PICK g \in [0..n -> X] : Iterates(g, x0, step, n)
    BY <2>1
  <2> DEFINE h == [i \in 0..n + 1 |-> IF i <= n THEN g[i] ELSE step[n + 1][g[n]]]
  <2>3. g[n] \in X /\ step[n + 1][g[n]] \in X
    <3>1. n \in 0..n
      BY <2>1, SMT
    <3> QED
      BY <2>1, <2>2, <3>1
  <2>4. h \in [0..n + 1 -> X]
    <3>1. \A i \in 0..n + 1 : i <= n => i \in 0..n
      BY <2>1, SMT
    <3> QED
      BY <2>2, <2>3, <3>1
  <2>5. h[0] = x0
    <3>1. 0 \in 0..n + 1 /\ 0 <= n
      BY <2>1, SMT
    <3> QED
      BY <2>2, <3>1 DEF Iterates
  <2>6. \A i \in 1..n + 1 : h[i] = step[i][h[i - 1]]
    <3> TAKE i \in 1..n + 1
    <3>1. CASE i <= n
      <4>1. i \in 0..n + 1 /\ i - 1 \in 0..n + 1 /\ i - 1 <= n /\ i \in 1..n
        BY <2>1, <3>1, SMT
      <4> QED
        BY <2>2, <3>1, <4>1 DEF Iterates
    <3>2. CASE ~(i <= n)
      <4>1. i = n + 1 /\ i - 1 = n /\ i \in 0..n + 1 /\ n \in 0..n + 1 /\ n <= n
        BY <2>1, <3>2, SMT
      <4> QED
        BY <3>2, <4>1
    <3> QED
      BY <3>1, <3>2
  <2> QED
    BY <2>4, <2>5, <2>6 DEF Iterates
<1>3. N \in S
  <2>1. S \in SUBSET Nat
    OBVIOUS
  <2> HIDE DEF S
  <2> QED
    BY <1>1, <1>2, <2>1, AllIndices
<1>4. N <= N
  BY SMT
<1> QED
  BY <1>3, <1>4

Ascends(s) == \A i, j \in DOMAIN s : i < j => s[i] < s[j]

\* The greatest element of a nonempty set of indices.
LEMMA GreatestIndex ==
  ASSUME NEW N \in Nat, NEW T \in SUBSET (1..N), T # {}
  PROVE  \E x \in T : \A y \in T : y <= x
<1> DEFINE U == {N - t : t \in T}
<1>1. \A t \in T : N - t \in Nat
  BY SMT
<1>2. U \in SUBSET Nat /\ U # {}
  BY <1>1
<1> HIDE DEF U
<1>3. PICK u \in U : \A v \in U : u <= v
  BY <1>2, LeastIndex
<1>4. PICK x \in T : u = N - x
  BY <1>3 DEF U
<1>5. \A y \in T : N - x <= N - y
  BY <1>3, <1>4 DEF U
<1>6. \A y \in T : y <= x
  BY <1>5, SMT
<1> QED
  BY <1>6

\* A set of indices can be listed in ascending order.
LEMMA AscendingExists ==
  ASSUME NEW N \in Nat, NEW S0 \in SUBSET (1..N)
  PROVE  \E s \in [1..Cardinality(S0) -> S0] : Ascends(s)
<1> DEFINE P(n) == \A S \in SUBSET (1..N) : Cardinality(S) = n => \E s \in [1..n -> S] : Ascends(s)
           Q == {n \in Nat : P(n)}
<1>0. \A S \in SUBSET (1..N) : IsFiniteSet(S) /\ Cardinality(S) \in Nat
  <2>1. IsFiniteSet(1..N)
    BY FS_Interval, SMT
  <2> QED
    BY <2>1, FS_Subset, FS_CardinalityType
<1>1. 0 \in Q
  <2>1. \A S : [i \in 1..0 |-> 0] \in [1..0 -> S] /\ Ascends([i \in 1..0 |-> 0])
    BY SMT DEF Ascends
  <2>2. 0 \in Nat
    OBVIOUS
  <2> QED
    BY <2>1, <2>2
<1>2. \A n \in Q : n + 1 \in Q
  <2> SUFFICES ASSUME NEW n \in Q, NEW S \in SUBSET (1..N), Cardinality(S) = n + 1
               PROVE  \E s \in [1..n + 1 -> S] : Ascends(s)
    <3>1. \A n \in Q : n + 1 \in Nat
      BY SMT
    <3> QED
      BY <3>1
  <2>1. n \in Nat /\ n + 1 # 0
    BY SMT
  <2>2. S # {}
    BY <2>1, FS_EmptySet
  <2>3. PICK m \in S : \A y \in S : y <= m
    BY <2>2, GreatestIndex
  <2>4. S \ {m} \in SUBSET (1..N)
    OBVIOUS
  <2>5. Cardinality(S \ {m}) = n
    <3>1. Cardinality(S \ {m}) = Cardinality(S) - 1
      BY <1>0, <2>3, FS_RemoveElement
    <3> QED
      BY <2>1, <3>1, SMT
  <2>6. PICK s \in [1..n -> S \ {m}] : Ascends(s)
    BY <2>4, <2>5
  <2> DEFINE t == [i \in 1..n + 1 |-> IF i <= n THEN s[i] ELSE m]
  <2>7. \A i \in 1..n + 1 : i <= n => i \in 1..n
    BY <2>1, SMT
  <2>8. t \in [1..n + 1 -> S]
    BY <2>3, <2>6, <2>7
  <2>9. \A i, j \in 1..n + 1 : i < j => t[i] < t[j]
    <3> SUFFICES ASSUME NEW i \in 1..n + 1, NEW j \in 1..n + 1, i < j
                 PROVE  t[i] < t[j]
      OBVIOUS
    <3>1. i <= n /\ i \in 1..n
      BY <2>1, SMT
    <3>2. t[i] = s[i] /\ s[i] \in S \ {m}
      BY <2>6, <3>1
    <3>3. CASE j <= n
      <4>1. s[i] < s[j]
        BY <2>6, <2>7, <3>1, <3>3 DEF Ascends
      <4> QED
        BY <3>2, <3>3, <4>1
    <3>4. CASE ~(j <= n)
      <4>1. \A x \in 1..N : x \in Nat
        BY SMT
      <4>2. s[i] <= m /\ s[i] # m /\ s[i] \in Nat /\ m \in Nat
        BY <2>3, <3>2, <4>1
      <4>3. s[i] < m
        BY <4>2, SMT
      <4> QED
        BY <3>2, <3>4, <4>3
    <3> QED
      BY <3>3, <3>4
  <2> QED
    <3> HIDE DEF t
    <3>1. DOMAIN t = 1..n + 1
      BY <2>8
    <3>2. Ascends(t)
      BY <2>9, <3>1 DEF Ascends
    <3> QED
      BY <2>8, <3>2
<1>3. Q = Nat
  <2>1. Q \in SUBSET Nat
    OBVIOUS
  <2> HIDE DEF Q
  <2> QED
    BY <1>1, <1>2, <2>1, AllIndices
<1>4. Cardinality(S0) \in Q
  BY <1>0, <1>3
<1> QED
  BY <1>4

\* s lists the members of S, each once.
ListsOnce(s, S) ==
  /\ s \in Seq(S) /\ Range(s) = S
  /\ \A i, j \in 1..Len(s) : s[i] = s[j] => i = j

\* The sorted list of a set of indices names each of them once.
LEMMA AscendingLists ==
  ASSUME NEW N \in Nat, NEW S \in SUBSET (1..N)
  PROVE  ListsOnce(Ascending(S), S)
<1> DEFINE n == Cardinality(S)
           s == Ascending(S)
<1>1. IsFiniteSet(S) /\ n \in Nat
  <2>1. IsFiniteSet(1..N)
    BY FS_Interval, SMT
  <2> QED
    BY <2>1, FS_Subset, FS_CardinalityType
<1>2. s \in [1..n -> S] /\ Ascends(s)
  <2>1. \E t \in [1..n -> S] : Ascends(t)
    BY AscendingExists
  <2> QED
    BY <2>1 DEF Ascending, Ascends
<1> HIDE DEF s, n
<1>3. s \in Seq(S) /\ Len(s) = n /\ DOMAIN s = 1..n
  BY <1>1, <1>2, SMT
<1>4. \A i, j \in 1..n : s[i] = s[j] => i = j
  <2> SUFFICES ASSUME NEW i \in 1..n, NEW j \in 1..n, s[i] = s[j], i # j
               PROVE  FALSE
    OBVIOUS
  <2>1. i < j \/ j < i
    BY <1>1, SMT
  <2>2. s[i] < s[j] \/ s[j] < s[i]
    BY <1>2, <1>3, <2>1 DEF Ascends
  <2>3. s[i] \in Nat /\ s[j] \in Nat
    <3>1. s[i] \in S /\ s[j] \in S
      BY <1>2
    <3>2. \A x \in 1..N : x \in Nat
      BY SMT
    <3> QED
      BY <3>1, <3>2
  <2> QED
    BY <2>2, <2>3, SMT
<1>5. \A x \in S : \E i \in 1..n : s[i] = x
  <2>1. s \in Injection(1..n, S)
    BY <1>2, <1>4 DEF Injection, IsInjective
  <2>2. Cardinality(1..n) = n
    <3>1. 1 \in Int /\ n \in Int
      BY <1>1, SMT
    <3>2. Cardinality(1..n) = IF 1 > n THEN 0 ELSE n-1+1
      BY <3>1, FS_Interval
    <3> QED
      BY <1>1, <3>2, SMT
  <2>3. s \in Surjection(1..n, S)
    BY <1>1, <2>1, <2>2, FS_Injection DEF n
  <2> QED
    BY <2>3 DEF Surjection
<1>6. Range(s) = S
  BY <1>2, <1>3, <1>5 DEF Range
<1> QED
  BY <1>3, <1>4, <1>6 DEF ListsOnce, s

----------------------------------------------------------------------------
(* Sequences that name nothing twice. *)

Once(s) == \A i, j \in 1..Len(s) : s[i] = s[j] => i = j

\* The members of a sequence, by their positions.
LEMMA MembersAre ==
  ASSUME NEW X, NEW s \in Seq(X)
  PROVE  /\ Len(s) \in Nat /\ DOMAIN s = 1..Len(s) /\ Range(s) \subseteq X
         /\ \A x : x \in Range(s) <=> \E i \in 1..Len(s) : s[i] = x
<1>1. Len(s) \in Nat /\ DOMAIN s = 1..Len(s) /\ \A i \in 1..Len(s) : s[i] \in X
  BY SMT
<1> QED
  BY <1>1 DEF Range

\* t names the members of s and those of S, each once.
Extends(t, s, S) == Once(t) /\ Range(t) = Range(s) \cup S

\* Sequences of different members stay without repetition in a row.
LEMMA OnceConcat ==
  ASSUME NEW X, NEW s \in Seq(X), NEW t \in Seq(X), Once(s), Once(t),
         \A x \in Range(s) : x \notin Range(t)
  PROVE  s \o t \in Seq(X) /\ Extends(s \o t, s, Range(t))
<1> DEFINE u == s \o t
<1>1. u \in Seq(X) /\ Len(u) = Len(s) + Len(t) /\ Len(s) \in Nat /\ Len(t) \in Nat
  BY SMT
<1>2. \A i \in 1..Len(s) : i \in 1..Len(u) /\ u[i] = s[i]
  BY SMT
<1>3. \A i \in 1..Len(t) : Len(s) + i \in 1..Len(u) /\ u[Len(s) + i] = t[i]
  BY SMT
<1>4. \A i \in 1..Len(u) : \/ i \in 1..Len(s)
                           \/ i - Len(s) \in 1..Len(t) /\ i = Len(s) + (i - Len(s))
  BY <1>1, SMT
<1>5. \A i, j \in 1..Len(t) : Len(s) + i = Len(s) + j <=> i = j
  BY <1>1, SMT
<1> HIDE DEF u
<1>6. \A x : x \in Range(s) <=> \E i \in 1..Len(s) : s[i] = x
  BY MembersAre
<1>7. \A x : x \in Range(t) <=> \E i \in 1..Len(t) : t[i] = x
  BY MembersAre
<1>8. \A x : x \in Range(u) <=> \E i \in 1..Len(u) : u[i] = x
  BY <1>1, MembersAre
<1>9. \A i \in 1..Len(s) : u[i] \in Range(s)
  BY <1>2, <1>6
<1>10. \A i \in 1..Len(u) : i \notin 1..Len(s) => u[i] \in Range(t)
  <2> SUFFICES ASSUME NEW i \in 1..Len(u), i \notin 1..Len(s)
               PROVE  u[i] \in Range(t)
    OBVIOUS
  <2>1. i - Len(s) \in 1..Len(t) /\ i = Len(s) + (i - Len(s))
    BY <1>4
  <2>2. u[i] = t[i - Len(s)]
    BY <1>3, <2>1
  <2> QED
    BY <1>7, <2>1, <2>2
<1>11. Range(u) = Range(s) \cup Range(t)
  <2>1. \A x : x \in Range(u) => x \in Range(s) \/ x \in Range(t)
    <3>1. \A i \in 1..Len(u) : u[i] \in Range(s) \/ u[i] \in Range(t)
      BY <1>9, <1>10
    <3> QED
      BY <1>8, <3>1
  <2>2. \A x \in Range(s) : x \in Range(u)
    BY <1>2, <1>6, <1>8
  <2>3. \A x \in Range(t) : x \in Range(u)
    BY <1>3, <1>7, <1>8
  <2> QED
    BY <2>1, <2>2, <2>3
<1>12. Once(u)
  <2> SUFFICES ASSUME NEW i \in 1..Len(u), NEW j \in 1..Len(u), u[i] = u[j]
               PROVE  i = j
    BY DEF Once
  <2>1. CASE i \in 1..Len(s) /\ j \in 1..Len(s)
    BY <1>2, <2>1 DEF Once
  <2>2. CASE i \notin 1..Len(s) /\ j \notin 1..Len(s)
    <3>1. i - Len(s) \in 1..Len(t) /\ i = Len(s) + (i - Len(s))
      BY <1>4, <2>2
    <3>2. j - Len(s) \in 1..Len(t) /\ j = Len(s) + (j - Len(s))
      BY <1>4, <2>2
    <3>3. t[i - Len(s)] = t[j - Len(s)]
      BY <1>3, <3>1, <3>2
    <3>4. i - Len(s) = j - Len(s)
      BY <3>1, <3>2, <3>3 DEF Once
    <3> QED
      BY <3>1, <3>2, <3>4
  <2>3. CASE i \in 1..Len(s) /\ j \notin 1..Len(s)
    BY <1>9, <1>10, <2>3
  <2>4. CASE i \notin 1..Len(s) /\ j \in 1..Len(s)
    BY <1>9, <1>10, <2>4
  <2> QED
    BY <2>1, <2>2, <2>3, <2>4
<1> QED
  BY <1>1, <1>11, <1>12 DEF Extends, u

\* The head of a sequence without repetition is not in its tail.
LEMMA OnceTail ==
  ASSUME NEW X, NEW s \in Seq(X), Once(s), s # <<>>
  PROVE  /\ Head(s) \in Range(s) /\ Tail(s) \in Seq(X) /\ Once(Tail(s))
         /\ Range(Tail(s)) = Range(s) \ {Head(s)}
<1> DEFINE t == Tail(s)
<1>1. /\ t \in Seq(X) /\ Len(t) = Len(s) - 1 /\ Len(s) \in Nat /\ Len(s) >= 1
      /\ Head(s) = s[1] /\ 1 \in 1..Len(s)
  BY SMT
<1>2. \A i \in 1..Len(t) : t[i] = s[i + 1]
  BY SMT
<1> HIDE DEF t
<1>3. \A i \in 1..Len(t) : i + 1 \in 1..Len(s) /\ i + 1 # 1
  BY <1>1, SMT
<1>4. \A i \in 1..Len(s) : i # 1 => i - 1 \in 1..Len(t) /\ (i - 1) + 1 = i
  BY <1>1, SMT
<1>5. \A i, j \in 1..Len(t) : i + 1 = j + 1 => i = j
  BY <1>1, SMT
<1>6. \A x : x \in Range(s) <=> \E i \in 1..Len(s) : s[i] = x
  BY MembersAre
<1>7. \A x : x \in Range(t) <=> \E i \in 1..Len(t) : t[i] = x
  BY <1>1, MembersAre
<1>8. Once(t)
  <2> SUFFICES ASSUME NEW i \in 1..Len(t), NEW j \in 1..Len(t), t[i] = t[j]
               PROVE  i = j
    BY DEF Once
  <2>1. s[i + 1] = s[j + 1]
    BY <1>2
  <2>2. i + 1 = j + 1
    BY <1>3, <2>1 DEF Once
  <2> QED
    BY <1>5, <2>2
<1>9. Range(t) = Range(s) \ {Head(s)}
  <2>1. \A x \in Range(t) : x \in Range(s)
    BY <1>2, <1>3, <1>6, <1>7
  <2>2. \A x \in Range(t) : x # Head(s)
    <3> SUFFICES ASSUME NEW i \in 1..Len(t), t[i] = s[1]
                 PROVE  FALSE
      BY <1>1, <1>7
    <3>1. s[i + 1] = s[1]
      BY <1>2
    <3> QED
      BY <1>1, <1>3, <3>1 DEF Once
  <2>3. \A x \in Range(s) : x # Head(s) => x \in Range(t)
    <3> SUFFICES ASSUME NEW i \in 1..Len(s), s[i] # s[1]
                 PROVE  s[i] \in Range(t)
      BY <1>1, <1>6
    <3>1. i - 1 \in 1..Len(t) /\ (i - 1) + 1 = i
      BY <1>4
    <3>2. t[i - 1] = s[(i - 1) + 1]
      BY <1>2, <3>1
    <3> QED
      BY <1>7, <3>1, <3>2
  <2> QED
    BY <2>1, <2>2, <2>3
<1> QED
  BY <1>1, <1>6, <1>8, <1>9 DEF t

\* A new member at the end.
LEMMA OnceAppend ==
  ASSUME NEW X, NEW s \in Seq(X), NEW x \in X, Once(s), x \notin Range(s)
  PROVE  Append(s, x) \in Seq(X) /\ Extends(Append(s, x), s, {x})
<1>1. <<x>> \in Seq(X) /\ Len(<<x>>) = 1 /\ <<x>>[1] = x /\ 1..1 = {1}
  BY SMT
<1>2. Once(<<x>>)
  BY <1>1 DEF Once
<1>3. Range(<<x>>) = {x}
  <2>1. DOMAIN <<x>> = {1}
    BY <1>1, SMT
  <2> QED
    BY <1>1, <2>1 DEF Range
<1>4. \A y \in Range(s) : y \notin Range(<<x>>)
  BY <1>3
<1>5. s \o <<x>> \in Seq(X) /\ Extends(s \o <<x>>, s, Range(<<x>>))
  BY <1>1, <1>2, <1>4, OnceConcat
<1>6. Append(s, x) = s \o <<x>>
  BY SMT
<1> QED
  BY <1>3, <1>5, <1>6

----------------------------------------------------------------------------
(* Nodes and what they wait for. *)

Wellformed(nodes) == nodes \in Seq(PhaseNodes) /\ ~DuplicateIds(nodes) /\ ~MissingDependency(nodes)

\* The nodes of a plan are numbered from 1.
LEMMA NodeCount ==
  ASSUME NEW nodes, Wellformed(nodes)
  PROVE  Len(nodes) \in Nat /\ DOMAIN nodes = 1..Len(nodes)
<1>1. nodes \in Seq(PhaseNodes)
  BY DEF Wellformed
<1> QED
  BY <1>1, SMT

\* A node is found by its identity.
LEMMA NodeIs ==
  ASSUME NEW nodes, Wellformed(nodes), NEW i \in DOMAIN nodes
  PROVE  /\ nodes[i].id \in IdsOf(nodes) /\ IndexOf(nodes, nodes[i].id) = i
         /\ \A j \in DOMAIN nodes : nodes[i].id = nodes[j].id => i = j
<1>1. \A j \in DOMAIN nodes : nodes[j].id = nodes[i].id => j = i
  BY DEF Wellformed, DuplicateIds
<1> QED
  BY <1>1 DEF IdsOf, IndexOf

\* An identity of the plan is that of a node.
LEMMA IdIs ==
  ASSUME NEW nodes, Wellformed(nodes), NEW id \in IdsOf(nodes)
  PROVE  IndexOf(nodes, id) \in DOMAIN nodes /\ nodes[IndexOf(nodes, id)].id = id
<1>1. PICK i \in DOMAIN nodes : nodes[i].id = id
  BY DEF IdsOf
<1> QED
  BY <1>1 DEF IndexOf

\* What a node depends on is in the plan.
LEMMA DependenciesAre ==
  ASSUME NEW nodes, Wellformed(nodes), NEW i \in DOMAIN nodes
  PROVE  nodes[i].depends_on \in Seq(Nat) /\ Range(nodes[i].depends_on) \subseteq IdsOf(nodes)
<1>1. nodes[i] \in PhaseNodes
  BY SMT DEF Wellformed
<1>2. nodes[i].depends_on \in Seq(Nat)
  BY <1>1, SMT DEF PhaseNodes
<1> QED
  BY <1>2 DEF Wellformed, MissingDependency

\* The places in the dependencies of node i that name no phase of T.
Waits(nodes, i, T) == {d \in DOMAIN nodes[i].depends_on : nodes[i].depends_on[d] \notin T}

\* A node waits for nothing when all it depends on is in T.
LEMMA WaitsAre ==
  ASSUME NEW nodes, Wellformed(nodes), NEW i \in DOMAIN nodes, NEW T
  PROVE  /\ IsFiniteSet(Waits(nodes, i, T)) /\ Cardinality(Waits(nodes, i, T)) \in Nat
         /\ Cardinality(Waits(nodes, i, T)) = 0 <=> Waits(nodes, i, T) = {}
         /\ Waits(nodes, i, T) = {} <=> Range(nodes[i].depends_on) \subseteq T
<1> DEFINE deps == nodes[i].depends_on
<1>1. deps \in Seq(Nat)
  BY DependenciesAre
<1>2. Len(deps) \in Nat /\ DOMAIN deps = 1..Len(deps)
  BY <1>1, SMT
<1>3. IsFiniteSet(DOMAIN deps)
  <2>1. 1 \in Int /\ Len(deps) \in Int
    BY <1>2, SMT
  <2> QED
    BY <1>2, <2>1, FS_Interval
<1>4. Waits(nodes, i, T) \in SUBSET DOMAIN deps
  BY DEF Waits
<1>5. IsFiniteSet(Waits(nodes, i, T))
  BY <1>3, <1>4, FS_Subset
<1>6. Cardinality(Waits(nodes, i, T)) \in Nat
  BY <1>5, FS_CardinalityType
<1>7. Cardinality(Waits(nodes, i, T)) = 0 <=> Waits(nodes, i, T) = {}
  BY <1>5, FS_EmptySet
<1>8. Waits(nodes, i, T) = {} <=> Range(deps) \subseteq T
  BY DEF Waits, Range
<1> QED
  BY <1>5, <1>6, <1>7, <1>8

CountsDown(nodes, i, T, id) ==
  Cardinality(Waits(nodes, i, T \cup {id})) =
    Cardinality(Waits(nodes, i, T)) - Occurrences(nodes[i].depends_on, id)

\* The count of what a node waits for goes down by the occurrences of what is taken.
LEMMA WaitsLess ==
  ASSUME NEW nodes, Wellformed(nodes), NEW i \in DOMAIN nodes, NEW T, NEW id, id \notin T
  PROVE  CountsDown(nodes, i, T, id)
<1> DEFINE A == Waits(nodes, i, T)
           B == {d \in DOMAIN nodes[i].depends_on : nodes[i].depends_on[d] = id}
<1>1. Waits(nodes, i, T \cup {id}) = A \ B /\ A \cap B = B
  BY DEF Waits
<1>2. IsFiniteSet(A)
  BY WaitsAre
<1> HIDE DEF A
<1>3. Cardinality(A \ B) = Cardinality(A) - Cardinality(A \cap B)
  BY <1>2, FS_Difference
<1> QED
  BY <1>1, <1>3 DEF CountsDown, Occurrences, A

\* The nodes that wait for another one are its dependents.
LEMMA DependentsAre ==
  ASSUME NEW nodes, NEW i \in DOMAIN nodes, NEW j \in DOMAIN nodes
  PROVE  j \in Dependents(nodes, i) <=> nodes[i].id \in Range(nodes[j].depends_on)
  BY DEF Dependents

----------------------------------------------------------------------------
(* The sort. *)

Sorts(nodes) ==
  [ready : Seq(DOMAIN nodes), indegree : [DOMAIN nodes -> Int], order : Seq(IdsOf(nodes))]

\* No phase of the order comes before one it depends on.
NoneWaits(nodes, order) ==
  \A k \in 1..Len(order) : is_ready(nodes, order[k], Range(SubSeq(order, 1, k - 1)))

\* The locals after n passes: ready holds the nodes that wait for nothing and that
\* were not taken.
SortAs(nodes, sort, n) ==
  LET taken == Range(sort.order)
  IN  /\ sort \in Sorts(nodes) /\ Once(sort.ready) /\ Once(sort.order)
      /\ \A i \in DOMAIN nodes : sort.indegree[i] = Cardinality(Waits(nodes, i, taken))
      /\ \A i \in Range(sort.ready) : nodes[i].id \notin taken
      /\ \A i \in DOMAIN nodes :
           Waits(nodes, i, taken) = {} <=> i \in Range(sort.ready) \/ nodes[i].id \in taken
      /\ NoneWaits(nodes, sort.order)
      /\ Len(sort.order) = n \/ sort.ready = <<>>

\* Before the first pass.
LEMMA SortStarts ==
  ASSUME NEW nodes, Wellformed(nodes)
  PROVE  SortAs(nodes, KahnStart(nodes), 0)
<1> DEFINE sort == KahnStart(nodes)
           deg == [i \in DOMAIN nodes |-> Len(nodes[i].depends_on)]
           first == {i \in DOMAIN nodes : deg[i] = 0}
<1>1. sort = [ready |-> Ascending(first), indegree |-> deg, order |-> <<>>]
  BY DEF KahnStart
<1>2. \A i \in DOMAIN nodes : deg[i] \in Nat /\ deg[i] = Cardinality(Waits(nodes, i, {}))
  <2> TAKE i \in DOMAIN nodes
  <2>1. nodes[i].depends_on \in Seq(Nat)
    BY DependenciesAre
  <2>2. Len(nodes[i].depends_on) \in Nat /\ DOMAIN nodes[i].depends_on = 1..Len(nodes[i].depends_on)
    BY <2>1, SMT
  <2>3. Waits(nodes, i, {}) = 1..Len(nodes[i].depends_on)
    BY <2>2 DEF Waits
  <2>4. \A n \in Nat : Cardinality(1..n) = n
    <3> TAKE n \in Nat
    <3>1. 1 \in Int /\ n \in Int
      BY SMT
    <3>2. Cardinality(1..n) = IF 1 > n THEN 0 ELSE n-1+1
      BY <3>1, FS_Interval
    <3> QED
      BY <3>2, SMT
  <2> QED
    BY <2>2, <2>3, <2>4
<1>3. Len(nodes) \in Nat /\ DOMAIN nodes = 1..Len(nodes)
  BY NodeCount
<1>4. ListsOnce(Ascending(first), first)
  <2>1. first \in SUBSET (1..Len(nodes))
    BY <1>3
  <2> HIDE DEF first
  <2> QED
    BY <1>3, <2>1, AscendingLists
<1>5. /\ Ascending(first) \in Seq(first) /\ Range(Ascending(first)) = first /\ Once(Ascending(first))
  BY <1>4 DEF ListsOnce, Once
<1>6. deg \in [DOMAIN nodes -> Int] /\ \A i \in DOMAIN nodes : i \in first <=> deg[i] = 0
  <2>1. \A n \in Nat : n \in Int
    BY SMT
  <2> QED
    BY <1>2, <2>1
<1>7. Ascending(first) \in Seq(DOMAIN nodes)
  <2>1. first \subseteq DOMAIN nodes
    OBVIOUS
  <2> HIDE DEF first
  <2>2. \A S, T : S \subseteq T => \A s \in Seq(S) : s \in Seq(T)
    BY SMT
  <2> QED
    BY <1>5, <2>1, <2>2
<1>8. <<>> \in Seq(IdsOf(nodes)) /\ Len(<<>>) = 0 /\ 1..0 = {} /\ Range(<<>>) = {}
  BY SMT DEF Range
<1> HIDE DEF first, deg
<1>9. sort.ready = Ascending(first) /\ sort.indegree = deg /\ sort.order = <<>>
  BY <1>1, SMT
<1>10. sort \in Sorts(nodes)
  BY <1>1, <1>6, <1>7, <1>8, SMT DEF Sorts
<1>11. Once(<<>>) /\ NoneWaits(nodes, <<>>)
  BY <1>8 DEF Once, NoneWaits
<1>12. \A i \in DOMAIN nodes : Waits(nodes, i, {}) = {} <=> i \in first
  <2> TAKE i \in DOMAIN nodes
  <2>1. Cardinality(Waits(nodes, i, {})) = 0 <=> Waits(nodes, i, {}) = {}
    BY WaitsAre
  <2> QED
    BY <1>2, <1>6, <2>1
<1> QED
  BY <1>2, <1>5, <1>8, <1>9, <1>10, <1>11, <1>12 DEF SortAs

\* Taking a phase that waits for nothing after the others.
LEMMA NoneWaitsMore ==
  ASSUME NEW nodes, Wellformed(nodes), NEW order \in Seq(IdsOf(nodes)), NoneWaits(nodes, order),
         NEW id \in IdsOf(nodes), Range(nodes[IndexOf(nodes, id)].depends_on) \subseteq Range(order)
  PROVE  NoneWaits(nodes, Append(order, id))
<1> DEFINE n == Len(order)
           more == Append(order, id)
<1>1. /\ n \in Nat /\ Len(more) = n + 1 /\ more[n + 1] = id /\ SubSeq(more, 1, (n + 1) - 1) = order
      /\ \A k \in 1..n : more[k] = order[k] /\ SubSeq(more, 1, k - 1) = SubSeq(order, 1, k - 1)
  BY SMT
<1>2. \A k \in 1..n + 1 : k \in 1..n \/ k = n + 1
  BY <1>1, SMT
<1> HIDE DEF n, more
<1> SUFFICES ASSUME NEW k \in 1..Len(more)
             PROVE  is_ready(nodes, more[k], Range(SubSeq(more, 1, k - 1)))
  BY DEF NoneWaits, more
<1>3. CASE k \in 1..n
  BY <1>1, <1>3 DEF NoneWaits, n
<1>4. CASE k = n + 1
  BY <1>1, <1>4 DEF is_ready
<1> QED
  BY <1>1, <1>2, <1>3, <1>4

\* One pass takes a node and releases those that waited for nothing else.
LEMMA SortGoesOn ==
  ASSUME NEW nodes, Wellformed(nodes), NEW n \in Nat, NEW sort, SortAs(nodes, sort, n)
  PROVE  SortAs(nodes, TakeReady(nodes, sort), n + 1)
<1> DEFINE taken == Range(sort.order)
           current == Head(sort.ready)
           id == nodes[current].id
           left == [i \in DOMAIN nodes |-> sort.indegree[i] - Occurrences(nodes[i].depends_on, id)]
           released == {i \in Dependents(nodes, current) : left[i] = 0}
           queue == Tail(sort.ready) \o Ascending(released)
           next == TakeReady(nodes, sort)
<1>1. /\ sort \in Sorts(nodes) /\ Once(sort.ready) /\ Once(sort.order)
      /\ \A i \in DOMAIN nodes : sort.indegree[i] = Cardinality(Waits(nodes, i, taken))
      /\ \A i \in Range(sort.ready) : nodes[i].id \notin taken
      /\ \A i \in DOMAIN nodes :
           Waits(nodes, i, taken) = {} <=> i \in Range(sort.ready) \/ nodes[i].id \in taken
      /\ NoneWaits(nodes, sort.order)
      /\ Len(sort.order) = n \/ sort.ready = <<>>
  BY DEF SortAs
<1>2. CASE sort.ready = <<>>
  <2>1. next = sort
    BY <1>2 DEF TakeReady
  <2> QED
    BY <1>1, <1>2, <2>1 DEF SortAs
<1>3. CASE sort.ready # <<>>
  <2>1. /\ sort.ready \in Seq(DOMAIN nodes) /\ sort.order \in Seq(IdsOf(nodes))
        /\ sort.indegree \in [DOMAIN nodes -> Int]
    BY <1>1 DEF Sorts
  <2>2. next = [ready |-> queue, indegree |-> left, order |-> Append(sort.order, id)]
    BY <1>3 DEF TakeReady
  <2> HIDE DEF queue, left, released, next
  <2>3. next.ready = queue /\ next.indegree = left /\ next.order = Append(sort.order, id)
    BY <2>2
  <2>4. /\ current \in Range(sort.ready) /\ Tail(sort.ready) \in Seq(DOMAIN nodes)
        /\ Once(Tail(sort.ready)) /\ Range(Tail(sort.ready)) = Range(sort.ready) \ {current}
    BY <1>1, <1>3, <2>1, OnceTail
  <2>5. current \in DOMAIN nodes /\ Range(sort.ready) \subseteq DOMAIN nodes
    BY <2>1, <2>4, MembersAre
  <2>6. id \in IdsOf(nodes) /\ IndexOf(nodes, id) = current /\ id \notin taken
    BY <1>1, <2>4, <2>5, NodeIs
  <2> HIDE DEF id, current, taken
  <2>7. \A i \in DOMAIN nodes : left[i] = Cardinality(Waits(nodes, i, taken \cup {id}))
    <3> TAKE i \in DOMAIN nodes
    <3>1. CountsDown(nodes, i, taken, id)
      BY <2>6, WaitsLess
    <3> QED
      BY <1>1, <3>1 DEF CountsDown, left
  <2>8. \A i \in DOMAIN nodes : left[i] = 0 <=> Waits(nodes, i, taken \cup {id}) = {}
    <3> TAKE i \in DOMAIN nodes
    <3>1. Cardinality(Waits(nodes, i, taken \cup {id})) = 0 <=> Waits(nodes, i, taken \cup {id}) = {}
      BY WaitsAre
    <3> QED
      BY <2>7, <3>1
  <2>9. \A i \in DOMAIN nodes : left[i] \in Int
    <3>1. \A i \in DOMAIN nodes : Cardinality(Waits(nodes, i, taken \cup {id})) \in Nat
      BY WaitsAre
    <3>2. \A k \in Nat : k \in Int
      BY SMT
    <3> QED
      BY <2>7, <3>1, <3>2
  <2>10. \A i \in DOMAIN nodes : i \in Dependents(nodes, current) => Waits(nodes, i, taken) # {}
    <3> SUFFICES ASSUME NEW i \in DOMAIN nodes, i \in Dependents(nodes, current)
                 PROVE  Waits(nodes, i, taken) # {}
      OBVIOUS
    <3>1. id \in Range(nodes[i].depends_on)
      BY <2>5, DependentsAre DEF id
    <3>2. Waits(nodes, i, taken) = {} <=> Range(nodes[i].depends_on) \subseteq taken
      BY WaitsAre
    <3> QED
      BY <2>6, <3>1, <3>2
  <2>11. released \subseteq DOMAIN nodes /\ \A i \in released : i \in Dependents(nodes, current) /\ left[i] = 0
    BY DEF Dependents, released
  <2>12. \A i \in DOMAIN nodes : i \in Dependents(nodes, current) /\ left[i] = 0 => i \in released
    BY DEF released
  <2>13. /\ Ascending(released) \in Seq(DOMAIN nodes) /\ Range(Ascending(released)) = released
         /\ Once(Ascending(released))
    <3>1. Len(nodes) \in Nat /\ DOMAIN nodes = 1..Len(nodes)
      BY NodeCount
    <3>2. released \in SUBSET (1..Len(nodes))
      BY <2>11, <3>1
    <3>3. ListsOnce(Ascending(released), released)
      BY <3>1, <3>2, AscendingLists
    <3>4. \A S, T : S \subseteq T => \A s \in Seq(S) : s \in Seq(T)
      BY SMT
    <3> QED
      BY <2>11, <3>3, <3>4 DEF ListsOnce, Once
  <2>14. \A i \in Range(Tail(sort.ready)) : i \notin Range(Ascending(released))
    BY <1>1, <2>4, <2>5, <2>10, <2>11, <2>13
  <2>15. queue \in Seq(DOMAIN nodes) /\ Extends(queue, Tail(sort.ready), Range(Ascending(released)))
    BY <2>4, <2>13, <2>14, OnceConcat DEF queue
  <2>16. Once(queue) /\ Range(queue) = (Range(sort.ready) \ {current}) \cup released
    BY <2>4, <2>13, <2>15 DEF Extends
  <2>17. Append(sort.order, id) \in Seq(IdsOf(nodes)) /\ Extends(Append(sort.order, id), sort.order, {id})
    BY <1>1, <2>1, <2>6, OnceAppend DEF taken
  <2>18. Once(next.order) /\ Range(next.order) = taken \cup {id}
    BY <2>3, <2>17 DEF Extends, taken
  <2>19. next \in Sorts(nodes)
    <3>1. left \in [DOMAIN nodes -> Int]
      BY <2>9 DEF left
    <3> QED
      BY <2>2, <2>15, <2>17, <3>1 DEF Sorts
  <2>20. \A i \in Range(queue) : nodes[i].id \notin taken \cup {id}
    <3> TAKE i \in Range(queue)
    <3>1. i \in DOMAIN nodes /\ i # current /\ nodes[i].id \notin taken
      BY <1>1, <2>4, <2>5, <2>10, <2>11, <2>16
    <3>2. nodes[i].id # id
      BY <2>5, <3>1, NodeIs DEF id
    <3> QED
      BY <3>1, <3>2
  <2>21. \A i \in DOMAIN nodes :
           Waits(nodes, i, taken \cup {id}) = {} <=> i \in Range(queue) \/ nodes[i].id \in taken \cup {id}
    <3> TAKE i \in DOMAIN nodes
    <3>1. Waits(nodes, i, taken) = {} <=> Range(nodes[i].depends_on) \subseteq taken
      BY WaitsAre
    <3>2. Waits(nodes, i, taken \cup {id}) = {} <=> Range(nodes[i].depends_on) \subseteq taken \cup {id}
      BY WaitsAre
    <3>3. i \in Dependents(nodes, current) <=> id \in Range(nodes[i].depends_on)
      BY <2>5, DependentsAre DEF id
    <3>4. nodes[i].id = id <=> i = current
      BY <2>5, NodeIs DEF id
    <3>5. CASE Waits(nodes, i, taken) = {}
      BY <1>1, <2>16, <3>1, <3>2, <3>4, <3>5
    <3>6. CASE Waits(nodes, i, taken) # {}
      <4>1. i \notin Range(sort.ready) /\ nodes[i].id \notin taken
        BY <1>1, <3>6
      <4>2. i # current
        BY <2>4, <4>1
      <4>3. Waits(nodes, i, taken \cup {id}) = {} <=> i \in released
        BY <2>8, <2>11, <2>12, <3>1, <3>2, <3>3, <3>6
      <4> QED
        BY <2>16, <3>4, <4>1, <4>2, <4>3
    <3> QED
      BY <3>5, <3>6
  <2>22. NoneWaits(nodes, Append(sort.order, id))
    <3>1. Range(nodes[current].depends_on) \subseteq taken
      <4>1. Waits(nodes, current, taken) = {}
        BY <1>1, <2>4, <2>5
      <4> QED
        BY <2>5, <4>1, WaitsAre
    <3> QED
      BY <1>1, <2>1, <2>6, <3>1, NoneWaitsMore DEF taken
  <2>23. Len(next.order) = n + 1
    <3>1. Len(sort.order) = n
      BY <1>1, <1>3
    <3>2. Len(Append(sort.order, id)) = Len(sort.order) + 1
      BY <2>1, SMT
    <3> QED
      BY <2>3, <3>1, <3>2
  <2> QED
    BY <2>3, <2>7, <2>16, <2>18, <2>19, <2>20, <2>21, <2>22, <2>23 DEF SortAs, next
<1> QED
  BY <1>2, <1>3

\* The function Kahn is the sequence of the passes.
LEMMA KahnPasses ==
  ASSUME NEW nodes, Wellformed(nodes)
  PROVE  /\ Kahn(nodes)[0] = KahnStart(nodes)
         /\ \A n \in 1..Len(nodes) : Kahn(nodes)[n] = TakeReady(nodes, Kahn(nodes)[n - 1])
<1> DEFINE N == Len(nodes)
           X == {sort \in Sorts(nodes) : \E n \in Nat : SortAs(nodes, sort, n)}
           step == [i \in 1..N |-> [x \in X |-> TakeReady(nodes, x)]]
           P(h) == h = [n \in 0..N |-> IF n = 0 THEN KahnStart(nodes) ELSE TakeReady(nodes, h[n - 1])]
<1>1. N \in Nat
  BY NodeCount
<1>2. KahnStart(nodes) \in X
  <2>1. SortAs(nodes, KahnStart(nodes), 0) /\ 0 \in Nat
    BY SortStarts
  <2> QED
    BY <2>1 DEF SortAs
<1>3. \A x \in X : TakeReady(nodes, x) \in X
  <2> TAKE x \in X
  <2>1. PICK n \in Nat : SortAs(nodes, x, n)
    OBVIOUS
  <2>2. SortAs(nodes, TakeReady(nodes, x), n + 1)
    BY <2>1, SortGoesOn
  <2>3. n + 1 \in Nat
    BY <2>1, SMT
  <2> QED
    BY <2>2, <2>3 DEF SortAs
<1> HIDE DEF X
<1>4. step \in [1..N -> [X -> X]]
  BY <1>3
<1> HIDE DEF step
<1>5. PICK g \in [0..N -> X] : Iterates(g, KahnStart(nodes), step, N)
  BY <1>1, <1>2, <1>4, LoopExists
<1>6. \A n \in 0..N : n # 0 => n \in 1..N /\ n - 1 \in 0..N
  BY <1>1, SMT
<1>7. \A n \in 1..N : n \in 0..N /\ n # 0
  BY <1>1, SMT
<1>8. P(g)
  <2>1. \A n \in 0..N : g[n] = IF n = 0 THEN KahnStart(nodes) ELSE TakeReady(nodes, g[n - 1])
    BY <1>5, <1>6 DEF Iterates, step
  <2>2. g = [n \in 0..N |-> g[n]]
    BY <1>5
  <2> QED
    BY <2>1, <2>2
<1>9. Kahn(nodes) = CHOOSE h : P(h)
  BY DEF Kahn
<1>10. P(Kahn(nodes))
  <2> HIDE DEF P
  <2> QED
    BY <1>8, <1>9
<1>11. 0 \in 0..N
  BY <1>1, SMT
<1> QED
  BY <1>7, <1>10, <1>11

\* The locals of the sort after any number of passes.
LEMMA SortInvariant ==
  ASSUME NEW nodes, Wellformed(nodes), NEW n \in 0..Len(nodes)
  PROVE  SortAs(nodes, Kahn(nodes)[n], n)
<1> DEFINE S == {m \in Nat : m <= Len(nodes) => SortAs(nodes, Kahn(nodes)[m], m)}
<1>1. Len(nodes) \in Nat
  BY NodeCount
<1>2. 0 \in S
  <2>1. 0 \in Nat
    OBVIOUS
  <2> QED
    BY <2>1, KahnPasses, SortStarts
<1>3. \A m \in S : m + 1 \in S
  <2> TAKE m \in S
  <2>1. m \in Nat /\ m + 1 \in Nat /\ (m + 1) - 1 = m
    BY SMT
  <2>2. m + 1 <= Len(nodes) => m <= Len(nodes) /\ m + 1 \in 1..Len(nodes)
    BY <1>1, <2>1, SMT
  <2>3. m + 1 <= Len(nodes) => SortAs(nodes, Kahn(nodes)[m + 1], m + 1)
    <3> SUFFICES ASSUME m + 1 <= Len(nodes)
                 PROVE  SortAs(nodes, Kahn(nodes)[m + 1], m + 1)
      OBVIOUS
    <3>1. SortAs(nodes, TakeReady(nodes, Kahn(nodes)[m]), m + 1)
      BY <2>1, <2>2, SortGoesOn
    <3>2. Kahn(nodes)[m + 1] = TakeReady(nodes, Kahn(nodes)[(m + 1) - 1])
      BY <2>2, KahnPasses
    <3> QED
      BY <2>1, <3>1, <3>2
  <2> QED
    BY <2>1, <2>3
<1>4. S = Nat
  <2>1. S \in SUBSET Nat
    OBVIOUS
  <2> HIDE DEF S
  <2> QED
    BY <1>2, <1>3, <2>1, AllIndices
<1>5. n \in Nat /\ n <= Len(nodes)
  BY <1>1, SMT
<1> QED
  BY <1>4, <1>5

\* A plan has as many phases as nodes.
LEMMA IdCount ==
  ASSUME NEW nodes, Wellformed(nodes)
  PROVE  IsFiniteSet(IdsOf(nodes)) /\ Cardinality(IdsOf(nodes)) = Len(nodes)
<1> DEFINE N == Len(nodes)
           ids == IdsOf(nodes)
           name == [i \in 1..N |-> nodes[i].id]
<1>0. N \in Nat /\ DOMAIN nodes = 1..N
  BY NodeCount
<1>1. name \in Surjection(1..N, ids) /\ name \in Injection(1..N, ids)
  <2>1. \A i \in 1..N : nodes[i].id \in ids
    BY <1>0, NodeIs
  <2>2. name \in [1..N -> ids]
    BY <2>1
  <2>3. \A x \in ids : \E i \in 1..N : name[i] = x
    BY <1>0 DEF IdsOf
  <2>4. \A i, j \in 1..N : name[i] = name[j] => i = j
    BY <1>0, NodeIs
  <2> HIDE DEF name
  <2> QED
    BY <2>2, <2>3, <2>4 DEF Surjection, Injection, IsInjective
<1>2. IsFiniteSet(1..N) /\ Cardinality(1..N) = N
  <2>1. 1 \in Int /\ N \in Int
    BY <1>0, SMT
  <2>2. IsFiniteSet(1..N) /\ Cardinality(1..N) = IF 1 > N THEN 0 ELSE N-1+1
    BY <2>1, FS_Interval
  <2> QED
    BY <1>0, <2>2, SMT
<1>3. IsFiniteSet(ids) /\ Cardinality(ids) = N
  <2> HIDE DEF name, N, ids
  <2> QED
    BY <1>1, <1>2, FS_Surjection
<1> QED
  BY <1>3

\* What the sort returns.
Sorted(nodes, order) ==
  /\ order \in Seq(IdsOf(nodes)) /\ Once(order) /\ NoneWaits(nodes, order)
  /\ Len(order) <= Len(nodes)
  /\ Len(order) = Len(nodes) <=> Range(order) = IdsOf(nodes)
  /\ \A i \in DOMAIN nodes :
       Range(nodes[i].depends_on) \subseteq Range(order) => nodes[i].id \in Range(order)

\* The loop has ended after as many passes as there are nodes: no node is taken
\* twice, and every node that waits for none but taken ones is taken.
LEMMA SortEnds ==
  ASSUME NEW nodes, Wellformed(nodes)
  PROVE  Kahn(nodes)[Len(nodes)].ready = <<>> /\ Sorted(nodes, TopologicalOrder(nodes))
<1> DEFINE N == Len(nodes)
           ids == IdsOf(nodes)
           sort == Kahn(nodes)[N]
           order == sort.order
           taken == Range(order)
<1>1. N \in Nat /\ DOMAIN nodes = 1..N
  BY NodeCount
<1>2. SortAs(nodes, sort, N)
  <2>1. N \in 0..N
    BY <1>1, SMT
  <2> QED
    BY <2>1, SortInvariant
<1> HIDE DEF sort
<1>3. /\ sort \in Sorts(nodes) /\ Once(sort.ready) /\ Once(order)
      /\ \A i \in Range(sort.ready) : nodes[i].id \notin taken
      /\ \A i \in DOMAIN nodes :
           Waits(nodes, i, taken) = {} <=> i \in Range(sort.ready) \/ nodes[i].id \in taken
      /\ NoneWaits(nodes, order)
      /\ Len(order) = N \/ sort.ready = <<>>
  BY <1>2 DEF SortAs
<1>4. sort.ready \in Seq(DOMAIN nodes) /\ order \in Seq(ids)
  BY <1>3 DEF Sorts
<1>5. IsFiniteSet(ids) /\ Cardinality(ids) = N
  BY IdCount
<1>6. Len(order) \in Nat /\ DOMAIN order = 1..Len(order) /\ taken \subseteq ids
  BY <1>4, MembersAre
<1>7. order \in [1..Len(order) -> ids]
  BY <1>4, SMT
<1>8. order \in Injection(1..Len(order), ids)
  BY <1>3, <1>6, <1>7 DEF Injection, IsInjective, Once
<1>9. Cardinality(1..Len(order)) = Len(order)
  <2>1. 1 \in Int /\ Len(order) \in Int
    BY <1>6, SMT
  <2>2. Cardinality(1..Len(order)) = IF 1 > Len(order) THEN 0 ELSE Len(order)-1+1
    BY <2>1, FS_Interval
  <2> QED
    BY <1>6, <2>2, SMT
<1>10. Len(order) <= N /\ (Len(order) = N <=> order \in Surjection(1..Len(order), ids))
  <2> HIDE DEF N, ids, order
  <2>1. /\ Cardinality(1..Len(order)) <= Cardinality(ids)
        /\ Cardinality(1..Len(order)) = Cardinality(ids) <=> order \in Surjection(1..Len(order), ids)
    BY <1>5, <1>8, FS_Injection
  <2> QED
    BY <1>5, <1>9, <2>1
<1>11. order \in Surjection(1..Len(order), ids) <=> taken = ids
  <2>1. \A x : x \in taken <=> \E i \in 1..Len(order) : order[i] = x
    BY <1>4, MembersAre
  <2> QED
    BY <1>6, <1>7, <2>1 DEF Surjection
<1>12. sort.ready = <<>>
  <2> SUFFICES ASSUME sort.ready # <<>>
               PROVE  FALSE
    OBVIOUS
  <2>1. taken = ids
    BY <1>3, <1>10, <1>11
  <2>2. Head(sort.ready) \in Range(sort.ready)
    BY <1>3, <1>4, OnceTail
  <2>3. Head(sort.ready) \in DOMAIN nodes
    BY <1>4, <2>2, MembersAre
  <2>4. nodes[Head(sort.ready)].id \in ids
    BY <2>3, NodeIs
  <2> QED
    BY <1>3, <2>1, <2>2, <2>4
<1>13. \A i \in DOMAIN nodes : Range(nodes[i].depends_on) \subseteq taken => nodes[i].id \in taken
  <2> SUFFICES ASSUME NEW i \in DOMAIN nodes, Range(nodes[i].depends_on) \subseteq taken
               PROVE  nodes[i].id \in taken
    OBVIOUS
  <2>1. Waits(nodes, i, taken) = {}
    BY WaitsAre
  <2>2. Range(sort.ready) = {}
    <3>1. DOMAIN <<>> = {}
      BY SMT
    <3> QED
      BY <1>12, <3>1 DEF Range
  <2> QED
    BY <1>3, <2>1, <2>2
<1> QED
  <2>1. Sorted(nodes, order)
    BY <1>3, <1>4, <1>10, <1>11, <1>13 DEF Sorted
  <2> QED
    BY <1>12, <2>1 DEF TopologicalOrder, sort

----------------------------------------------------------------------------
(* Cycles. *)

\* What comes before the place k of a sequence.
LEMMA EarlierAre ==
  ASSUME NEW X, NEW s \in Seq(X), NEW k \in 1..Len(s), NEW x
  PROVE  x \in Range(SubSeq(s, 1, k - 1)) <=> \E j \in 1..Len(s) : j < k /\ s[j] = x
<1> DEFINE t == SubSeq(s, 1, k - 1)
<1>1. t \in Seq(X) /\ Len(t) = k - 1 /\ \A j \in 1..k - 1 : t[j] = s[j]
  BY SMT
<1>2. \A j : j \in 1..k - 1 <=> j \in 1..Len(s) /\ j < k
  BY SMT
<1> HIDE DEF t
<1>3. x \in Range(t) <=> \E j \in 1..Len(t) : t[j] = x
  BY <1>1, MembersAre
<1>4. x \in Range(t) <=> \E j \in 1..k - 1 : s[j] = x
  BY <1>1, <1>3
<1>5. x \in Range(t) <=> \E j \in 1..Len(s) : j < k /\ s[j] = x
  BY <1>2, <1>4
<1> QED
  BY <1>5 DEF t

Earlier(s, k, x) == \E j \in 1..Len(s) : j < k /\ s[j] = x

\* In an order without waiting, what a phase depends on is earlier.
LEMMA DependencyEarlier ==
  ASSUME NEW nodes, NEW order \in Seq(IdsOf(nodes)), NoneWaits(nodes, order),
         NEW k \in 1..Len(order), NEW x \in DependsOn(nodes, order[k])
  PROVE  Earlier(order, k, x)
<1>1. DependsOn(nodes, order[k]) \subseteq Range(SubSeq(order, 1, k - 1))
  BY DEF NoneWaits, is_ready, DependsOn
<1> QED
  BY <1>1, EarlierAre DEF Earlier

\* The sort takes every node exactly when there is no cycle.
LEMMA CompleteIsAcyclic ==
  ASSUME NEW nodes, Wellformed(nodes), NEW order, Sorted(nodes, order)
  PROVE  Len(order) = Len(nodes) <=> Acyclic(nodes)
<1> DEFINE ids == IdsOf(nodes)
           taken == Range(order)
<1>1. /\ order \in Seq(ids) /\ Once(order) /\ NoneWaits(nodes, order)
      /\ Len(order) = Len(nodes) <=> taken = ids
      /\ \A i \in DOMAIN nodes : Range(nodes[i].depends_on) \subseteq taken => nodes[i].id \in taken
  BY DEF Sorted
<1>2. taken \subseteq ids /\ Len(order) \in Nat
  BY <1>1, MembersAre
<1>3. \A x : x \in taken <=> \E k \in 1..Len(order) : order[k] = x
  BY <1>1, MembersAre
<1>4. ASSUME Acyclic(nodes), taken # ids
      PROVE  FALSE
  <2>1. ids \ taken # {} /\ ids \ taken \in SUBSET ids
    BY <1>2, <1>4
  <2>2. PICK id \in ids \ taken : DependsOn(nodes, id) \cap (ids \ taken) = {}
    BY <1>4, <2>1 DEF Acyclic
  <2>3. IndexOf(nodes, id) \in DOMAIN nodes /\ nodes[IndexOf(nodes, id)].id = id
    BY <2>2, IdIs
  <2>4. DependsOn(nodes, id) \subseteq ids
    BY <2>3, DependenciesAre DEF DependsOn
  <2>5. Range(nodes[IndexOf(nodes, id)].depends_on) \subseteq taken
    BY <2>2, <2>4 DEF DependsOn
  <2> QED
    BY <1>1, <2>2, <2>3, <2>5
<1>5. ASSUME taken = ids
      PROVE  Acyclic(nodes)
  <2> SUFFICES ASSUME NEW C \in SUBSET ids, C # {}
               PROVE  \E id \in C : DependsOn(nodes, id) \cap C = {}
    BY DEF Acyclic
  <2> DEFINE K == {k \in 1..Len(order) : order[k] \in C}
  <2>1. K \in SUBSET Nat /\ K # {}
    <3>1. \A k \in 1..Len(order) : k \in Nat
      BY <1>2, SMT
    <3>2. \A x \in C : \E k \in 1..Len(order) : order[k] = x
      BY <1>3, <1>5
    <3> QED
      BY <3>1, <3>2
  <2>2. PICK k \in K : \A j \in K : k <= j
    <3> HIDE DEF K
    <3> QED
      BY <2>1, LeastIndex
  <2>3. k \in 1..Len(order) /\ order[k] \in C
    BY <2>2
  <2>4. DependsOn(nodes, order[k]) \cap C = {}
    <3> SUFFICES ASSUME NEW x \in DependsOn(nodes, order[k]), x \in C
                 PROVE  FALSE
      OBVIOUS
    <3>0. order \in Seq(IdsOf(nodes)) /\ NoneWaits(nodes, order)
      BY <1>1
    <3> HIDE DEF ids, taken, K
    <3>1. PICK j \in 1..Len(order) : j < k /\ order[j] = x
      <4>1. Earlier(order, k, x)
        BY <2>3, <3>0, DependencyEarlier
      <4> QED
        BY <4>1 DEF Earlier
    <3>2. k <= j
      BY <2>2, <3>1 DEF K
    <3> QED
      BY <1>2, <2>3, <3>1, <3>2, SMT
  <2> QED
    BY <2>3, <2>4
<1> QED
  BY <1>1, <1>4, <1>5

\* A phase that depends on itself is a cycle.
LEMMA AcyclicNoSelf ==
  ASSUME NEW nodes, Wellformed(nodes), Acyclic(nodes)
  PROVE  ~SelfDependency(nodes)
<1> SUFFICES ASSUME NEW i \in DOMAIN nodes, nodes[i].id \in Range(nodes[i].depends_on)
             PROVE  FALSE
  BY DEF SelfDependency
<1>1. nodes[i].id \in IdsOf(nodes) /\ IndexOf(nodes, nodes[i].id) = i
  BY NodeIs
<1>2. {nodes[i].id} \in SUBSET IdsOf(nodes) /\ {nodes[i].id} # {}
  BY <1>1
<1>3. DependsOn(nodes, nodes[i].id) \cap {nodes[i].id} = {}
  BY <1>2 DEF Acyclic
<1> QED
  BY <1>1, <1>3 DEF DependsOn

----------------------------------------------------------------------------
(* The pass over the order, backwards. *)

\* The phase the pass n looks at is the n-th from the end.
LEMMA ReachPasses ==
  ASSUME NEW nodes, NEW order \in Seq(IdsOf(nodes))
  PROVE  /\ ReachesPrimary(nodes, order)[0] = {}
         /\ \A n \in 1..Len(order) :
              ReachesPrimary(nodes, order)[n] =
                WithReaching(nodes, order, order[Len(order) + 1 - n], ReachesPrimary(nodes, order)[n - 1])
<1> DEFINE N == Len(order)
           X == SUBSET IdsOf(nodes)
           at(n) == order[N + 1 - n]
           step == [i \in 1..N |-> [x \in X |-> WithReaching(nodes, order, at(i), x)]]
           P(h) == h = [n \in 0..N |-> IF n = 0 THEN {} ELSE WithReaching(nodes, order, at(n), h[n - 1])]
<1>1. N \in Nat /\ \A n \in 1..N : at(n) \in IdsOf(nodes)
  BY SMT
<1>2. {} \in X
  OBVIOUS
<1>3. \A n \in 1..N, x \in X : WithReaching(nodes, order, at(n), x) \in X
  BY <1>1 DEF WithReaching
<1> HIDE DEF X, at
<1>4. step \in [1..N -> [X -> X]]
  BY <1>3
<1> HIDE DEF step
<1>5. PICK g \in [0..N -> X] : Iterates(g, {}, step, N)
  BY <1>1, <1>2, <1>4, LoopExists
<1>6. \A n \in 0..N : n # 0 => n \in 1..N /\ n - 1 \in 0..N
  BY <1>1, SMT
<1>7. \A n \in 1..N : n \in 0..N /\ n # 0
  BY <1>1, SMT
<1>8. P(g)
  <2>1. \A n \in 0..N : g[n] = IF n = 0 THEN {} ELSE WithReaching(nodes, order, at(n), g[n - 1])
    BY <1>5, <1>6 DEF Iterates, step
  <2>2. g = [n \in 0..N |-> g[n]]
    BY <1>5
  <2> QED
    BY <2>1, <2>2
<1>9. ReachesPrimary(nodes, order) = CHOOSE h : P(h)
  BY DEF ReachesPrimary, at
<1>10. P(ReachesPrimary(nodes, order))
  <2> HIDE DEF P
  <2> QED
    BY <1>8, <1>9
<1>11. 0 \in 0..N
  BY <1>1, SMT
<1> QED
  BY <1>7, <1>10, <1>11 DEF at

\* Some phase of the plan depends on the phase.
Feeds(nodes, id) == Dependents(nodes, IndexOf(nodes, id)) # {}

\* Every phase but the last one is depended upon.
OneEnd(nodes, order) == \A id \in IdsOf(nodes) : id # Primary(order) => Feeds(nodes, id)

\* Only the last phase and phases that feed another one are found.
LEMMA FoundFeeds ==
  ASSUME NEW nodes, NEW order \in Seq(IdsOf(nodes)), NEW n \in 0..Len(order)
  PROVE  \A id \in ReachesPrimary(nodes, order)[n] :
           id \in IdsOf(nodes) /\ (id = Primary(order) \/ Feeds(nodes, id))
<1> DEFINE N == Len(order)
           R == ReachesPrimary(nodes, order)
           Good(F) == \A id \in F : id \in IdsOf(nodes) /\ (id = Primary(order) \/ Feeds(nodes, id))
           S == {m \in Nat : m <= N => Good(R[m])}
<1>1. N \in Nat
  BY MembersAre
<1>2. R[0] = {} /\ \A m \in 1..N : R[m] = WithReaching(nodes, order, order[N + 1 - m], R[m - 1])
  BY ReachPasses
<1> HIDE DEF R
<1>3. 0 \in S
  <2>1. 0 \in Nat
    OBVIOUS
  <2> QED
    BY <1>2, <2>1
<1>4. \A m \in S : m + 1 \in S
  <2> SUFFICES ASSUME NEW m \in S, m + 1 <= N
               PROVE  m + 1 \in Nat /\ Good(R[m + 1])
    <3>1. \A m \in Nat : m + 1 \in Nat
      BY SMT
    <3> QED
      BY <3>1
  <2>1. m \in Nat /\ m <= N /\ m + 1 \in 1..N /\ (m + 1) - 1 = m /\ m + 1 \in Nat
    BY <1>1, SMT
  <2>2. Good(R[m])
    BY <2>1
  <2>3. R[m + 1] = WithReaching(nodes, order, order[N + 1 - (m + 1)], R[m])
    BY <1>2, <2>1
  <2>4. order[N + 1 - (m + 1)] \in IdsOf(nodes)
    BY <1>1, <2>1, SMT
  <2> QED
    BY <2>1, <2>2, <2>3, <2>4 DEF WithReaching, Reaches, Feeds
<1>5. S = Nat
  <2>1. S \in SUBSET Nat
    OBVIOUS
  <2> HIDE DEF S
  <2> QED
    BY <1>3, <1>4, <2>1, AllIndices
<1>6. n \in Nat /\ n <= N
  BY <1>1, SMT
<1> QED
  BY <1>5, <1>6 DEF R

\* What depends on a phase comes later in the order.
LEMMA DependentLater ==
  ASSUME NEW nodes, Wellformed(nodes), NEW order, Sorted(nodes, order), Len(order) = Len(nodes),
         NEW k \in 1..Len(order), NEW j \in Dependents(nodes, IndexOf(nodes, order[k]))
  PROVE  \E l \in 1..Len(order) : k < l /\ order[l] = nodes[j].id
<1>1. order \in Seq(IdsOf(nodes)) /\ Once(order) /\ NoneWaits(nodes, order) /\ Range(order) = IdsOf(nodes)
  BY DEF Sorted
<1>2. Len(order) \in Nat /\ \A x : x \in Range(order) <=> \E i \in 1..Len(order) : order[i] = x
  BY <1>1, MembersAre
<1>3. order[k] \in IdsOf(nodes)
  BY <1>1, <1>2
<1>4. nodes[IndexOf(nodes, order[k])].id = order[k]
  BY <1>3, IdIs
<1>5. j \in DOMAIN nodes /\ order[k] \in Range(nodes[j].depends_on)
  BY <1>4 DEF Dependents
<1>6. nodes[j].id \in IdsOf(nodes) /\ IndexOf(nodes, nodes[j].id) = j
  BY <1>5, NodeIs
<1>7. PICK l \in 1..Len(order) : order[l] = nodes[j].id
  BY <1>1, <1>2, <1>6
<1>8. order[k] \in DependsOn(nodes, order[l])
  BY <1>5, <1>6, <1>7 DEF DependsOn
<1>9. PICK i \in 1..Len(order) : i < l /\ order[i] = order[k]
  <2>1. order \in Seq(IdsOf(nodes)) /\ NoneWaits(nodes, order)
    BY <1>1
  <2>2. l \in 1..Len(order)
    BY <1>7
  <2>3. Earlier(order, l, order[k])
    BY <1>8, <2>1, <2>2, DependencyEarlier
  <2> QED
    BY <2>3 DEF Earlier
<1>10. i = k
  BY <1>1, <1>9 DEF Once
<1> QED
  BY <1>7, <1>9, <1>10

\* The last phase of a complete order is depended upon by none.
LEMMA LastIsSink ==
  ASSUME NEW nodes, Wellformed(nodes), NEW order, Sorted(nodes, order), Len(order) = Len(nodes),
         nodes # <<>>
  PROVE  /\ Len(order) \in 1..Len(order) /\ order[Len(order)] = Primary(order)
         /\ Primary(order) \in IdsOf(nodes) /\ ~Feeds(nodes, Primary(order))
<1>1. order \in Seq(IdsOf(nodes))
  BY DEF Sorted
<1>2. Len(nodes) \in Nat /\ Len(nodes) # 0
  <2>1. nodes \in Seq(PhaseNodes)
    BY DEF Wellformed
  <2> QED
    BY <2>1, SMT
<1>3. Len(order) \in 1..Len(order) /\ ~(\E l \in 1..Len(order) : Len(order) < l)
  BY <1>2, SMT
<1>4. order[Len(order)] = Primary(order)
  BY DEF Primary
<1>5. Primary(order) \in IdsOf(nodes)
  BY <1>1, <1>3, <1>4, SMT
<1>6. ASSUME NEW j \in Dependents(nodes, IndexOf(nodes, Primary(order)))
      PROVE  FALSE
  <2>1. j \in Dependents(nodes, IndexOf(nodes, order[Len(order)]))
    BY <1>4
  <2> QED
    BY ONLY <1>3, <2>1, DependentLater, Wellformed(nodes), Sorted(nodes, order), Len(order) = Len(nodes)
<1> QED
  BY <1>3, <1>4, <1>5, <1>6 DEF Feeds

\* When every other phase is depended upon, the pass finds every phase it meets: a
\* dependent comes later in the order, and the pass has met it.
LEMMA OneEndFindsAll ==
  ASSUME NEW nodes, Wellformed(nodes), NEW order, Sorted(nodes, order), Len(order) = Len(nodes),
         OneEnd(nodes, order), NEW n \in 0..Len(order)
  PROVE  \A k \in 1..Len(order) : Len(order) - n < k => order[k] \in ReachesPrimary(nodes, order)[n]
<1> DEFINE N == Len(order)
           R == ReachesPrimary(nodes, order)
           S == {m \in Nat : m <= N => \A k \in 1..N : N - m < k => order[k] \in R[m]}
<1>0. order \in Seq(IdsOf(nodes))
  BY DEF Sorted
<1>1. N \in Nat /\ \A k \in 1..N : order[k] \in IdsOf(nodes)
  BY <1>0, SMT
<1>2. R[0] = {} /\ \A m \in 1..N : R[m] = WithReaching(nodes, order, order[N + 1 - m], R[m - 1])
  BY <1>0, ReachPasses
<1> HIDE DEF R
<1>3. 0 \in S
  <2>1. 0 \in Nat /\ \A k \in 1..N : ~(N - 0 < k)
    BY <1>1, SMT
  <2> QED
    BY <2>1
<1>4. \A m \in S : m + 1 \in S
  <2> SUFFICES ASSUME NEW m \in S, m + 1 <= N
               PROVE  m + 1 \in Nat /\ \A k \in 1..N : N - (m + 1) < k => order[k] \in R[m + 1]
    <3>1. \A i \in Nat : i + 1 \in Nat
      BY SMT
    <3> QED
      BY <3>1
  <2>1. /\ m \in Nat /\ m <= N /\ m + 1 \in 1..N /\ (m + 1) - 1 = m /\ m + 1 \in Nat
        /\ N - m \in 1..N /\ N + 1 - (m + 1) = N - m
        /\ \A k \in 1..N : N - (m + 1) < k => N - m < k \/ k = N - m
    <3>1. m \in Nat
      OBVIOUS
    <3> HIDE DEF N, S
    <3> QED
      BY <1>1, <3>1, SMT
  <2> DEFINE at == order[N - m]
  <2>2. \A k \in 1..N : N - m < k => order[k] \in R[m]
    BY <2>1
  <2>3. R[m + 1] = WithReaching(nodes, order, at, R[m])
    BY <1>2, <2>1
  <2>4. Reaches(nodes, order, at, R[m])
    <3>1. CASE at = Primary(order)
      BY <3>1 DEF Reaches
    <3>2. CASE at # Primary(order)
      <4>1. at \in IdsOf(nodes)
        BY <1>1, <2>1
      <4>2. PICK j : j \in Dependents(nodes, IndexOf(nodes, at))
        BY <3>2, <4>1 DEF OneEnd, Feeds
      <4>3. PICK l \in 1..N : N - m < l /\ order[l] = nodes[j].id
        BY ONLY <2>1, <4>2, DependentLater, Wellformed(nodes), Sorted(nodes, order), Len(order) = Len(nodes)
      <4>4. nodes[j].id \in R[m]
        BY <2>2, <4>3
      <4> QED
        BY <4>2, <4>4 DEF Reaches
    <3> QED
      BY <3>1, <3>2
  <2>5. R[m + 1] = R[m] \cup {at}
    BY <2>3, <2>4 DEF WithReaching
  <2> QED
    BY <2>1, <2>2, <2>5
<1>5. S = Nat
  <2>1. S \in SUBSET Nat
    OBVIOUS
  <2> HIDE DEF S
  <2> QED
    BY <1>3, <1>4, <2>1, AllIndices
<1>6. n \in Nat /\ n <= N
  BY <1>1, SMT
<1> QED
  BY <1>5, <1>6 DEF R

\* The pass finds every phase exactly when every phase but the last feeds another one.
LEMMA AllFound ==
  ASSUME NEW nodes, Wellformed(nodes), NEW order, Sorted(nodes, order), Len(order) = Len(nodes)
  PROVE  ReachesPrimary(nodes, order)[Len(order)] = IdsOf(nodes) <=> OneEnd(nodes, order)
<1> DEFINE F == ReachesPrimary(nodes, order)[Len(order)]
<1>1. order \in Seq(IdsOf(nodes)) /\ Range(order) = IdsOf(nodes)
  BY DEF Sorted
<1>2. Len(order) \in Nat /\ \A x : x \in Range(order) <=> \E i \in 1..Len(order) : order[i] = x
  BY <1>1, MembersAre
<1>3. Len(order) \in 0..Len(order) /\ \A k \in 1..Len(order) : Len(order) - Len(order) < k
  BY <1>2, SMT
<1>4. ASSUME F = IdsOf(nodes)
      PROVE  OneEnd(nodes, order)
  BY <1>1, <1>3, <1>4, FoundFeeds DEF OneEnd
<1>5. ASSUME OneEnd(nodes, order)
      PROVE  F = IdsOf(nodes)
  <2>1. \A k \in 1..Len(order) : order[k] \in F
    BY <1>3, <1>5, OneEndFindsAll
  <2>2. IdsOf(nodes) \subseteq F
    BY <1>1, <1>2, <2>1
  <2>3. F \subseteq IdsOf(nodes)
    BY <1>1, <1>3, FoundFeeds
  <2> QED
    BY <2>2, <2>3
<1> QED
  BY <1>4, <1>5

----------------------------------------------------------------------------
(* The walk over the dependencies of a phase. *)

\* The phases of a walk are among P.
Within(walk, P) == walk.pending \subseteq P /\ walk.visited \subseteq P

\* P holds what its phases depend on.
Closed(nodes, P) == \A id \in P : DependsOn(nodes, id) \subseteq P

\* The fields of a walk.
LEMMA WalkFields ==
  ASSUME NEW A, NEW B
  PROVE  [pending |-> A, visited |-> B].pending = A /\ [pending |-> A, visited |-> B].visited = B
  OBVIOUS

Walks(nodes) == [pending : SUBSET IdsOf(nodes), visited : SUBSET IdsOf(nodes)]

\* One pass visits a pending phase that is not visited, when there is one.
LEMMA VisitIs ==
  ASSUME NEW nodes, NEW walk, ~(walk.pending \subseteq walk.visited)
  PROVE  \E id \in walk.pending \ walk.visited :
           /\ VisitNext(nodes, walk).pending = (walk.pending \ {id}) \cup DependsOn(nodes, id)
           /\ VisitNext(nodes, walk).visited = walk.visited \cup {id}
<1> DEFINE id == CHOOSE p \in walk.pending : p \notin walk.visited
           next == [pending |-> (walk.pending \ {id}) \cup DependsOn(nodes, id),
                    visited |-> walk.visited \cup {id}]
<1>1. id \in walk.pending /\ id \notin walk.visited
  OBVIOUS
<1>2. VisitNext(nodes, walk) = next
  BY DEF VisitNext, DependsOn
<1> HIDE DEF id
<1>3. /\ next.pending = (walk.pending \ {id}) \cup DependsOn(nodes, id)
      /\ next.visited = walk.visited \cup {id}
  OBVIOUS
<1> QED
  BY <1>1, <1>2, <1>3

\* A pass stays within a set that holds what its phases depend on.
LEMMA VisitWithin ==
  ASSUME NEW nodes, NEW P, Closed(nodes, P), NEW walk, Within(walk, P)
  PROVE  Within(VisitNext(nodes, walk), P)
<1>1. CASE walk.pending \subseteq walk.visited
  BY <1>1 DEF VisitNext
<1>2. CASE ~(walk.pending \subseteq walk.visited)
  <2>1. PICK id \in walk.pending \ walk.visited :
           /\ VisitNext(nodes, walk).pending = (walk.pending \ {id}) \cup DependsOn(nodes, id)
           /\ VisitNext(nodes, walk).visited = walk.visited \cup {id}
    BY <1>2, VisitIs
  <2>2. id \in P /\ DependsOn(nodes, id) \subseteq P
    BY <2>1 DEF Within, Closed
  <2> QED
    BY <2>1, <2>2 DEF Within
<1> QED
  BY <1>1, <1>2

\* A plan holds what its phases depend on.
LEMMA AllClosed ==
  ASSUME NEW nodes, Wellformed(nodes)
  PROVE  Closed(nodes, IdsOf(nodes))
  BY IdIs, DependenciesAre DEF Closed, DependsOn

\* The locals of the walk keep their types.
LEMMA WalksOn ==
  ASSUME NEW nodes, Wellformed(nodes), NEW walk \in Walks(nodes)
  PROVE  VisitNext(nodes, walk) \in Walks(nodes)
<1>1. Within(walk, IdsOf(nodes))
  BY DEF Within, Walks
<1>2. Within(VisitNext(nodes, walk), IdsOf(nodes))
  BY <1>1, AllClosed, VisitWithin
<1>3. CASE walk.pending \subseteq walk.visited
  BY <1>3 DEF VisitNext
<1>4. CASE ~(walk.pending \subseteq walk.visited)
  <2>1. VisitNext(nodes, walk) = [pending |-> VisitNext(nodes, walk).pending,
                                  visited |-> VisitNext(nodes, walk).visited]
    BY <1>4 DEF VisitNext
  <2>2. \A A, B \in SUBSET IdsOf(nodes) : [pending |-> A, visited |-> B] \in Walks(nodes)
    BY DEF Walks
  <2> QED
    BY <1>2, <2>1, <2>2 DEF Within
<1> QED
  BY <1>3, <1>4

\* The locals of the walk after each pass.
LEMMA WalkPasses ==
  ASSUME NEW nodes, Wellformed(nodes), NEW pending \in SUBSET IdsOf(nodes)
  PROVE  LET W == WalkDependencies(nodes, pending)
         IN  /\ W[0] = [pending |-> pending, visited |-> {}]
             /\ \A n \in 1..Len(nodes) : W[n] = VisitNext(nodes, W[n - 1])
<1> DEFINE N == Len(nodes)
           X == Walks(nodes)
           x0 == [pending |-> pending, visited |-> {}]
           step == [i \in 1..N |-> [x \in X |-> VisitNext(nodes, x)]]
           P(h) == h = [n \in 0..N |-> IF n = 0 THEN x0 ELSE VisitNext(nodes, h[n - 1])]
<1>1. N \in Nat
  BY NodeCount
<1>2. x0 \in X
  BY DEF Walks
<1>3. \A x \in X : VisitNext(nodes, x) \in X
  BY WalksOn
<1>9. WalkDependencies(nodes, pending) = CHOOSE h : P(h)
  BY DEF WalkDependencies
<1> HIDE DEF X, x0
<1>4. step \in [1..N -> [X -> X]]
  BY <1>3
<1> HIDE DEF step
<1>5. PICK g \in [0..N -> X] : Iterates(g, x0, step, N)
  BY <1>1, <1>2, <1>4, LoopExists
<1>6. \A n \in 0..N : n # 0 => n \in 1..N /\ n - 1 \in 0..N
  BY <1>1, SMT
<1>7. \A n \in 1..N : n \in 0..N /\ n # 0
  BY <1>1, SMT
<1>8. P(g)
  <2>1. \A n \in 0..N : g[n] = IF n = 0 THEN x0 ELSE VisitNext(nodes, g[n - 1])
    BY <1>5, <1>6 DEF Iterates, step
  <2>2. g = [n \in 0..N |-> g[n]]
    BY <1>5
  <2> QED
    BY <2>1, <2>2
<1>10. P(WalkDependencies(nodes, pending))
  <2> HIDE DEF P
  <2> QED
    BY <1>8, <1>9
<1>11. 0 \in 0..N
  BY <1>1, SMT
<1> QED
  BY <1>7, <1>10, <1>11 DEF x0

\* The walk stays within a set that holds what its phases depend on.
LEMMA WalkWithin ==
  ASSUME NEW nodes, Wellformed(nodes), NEW P \in SUBSET IdsOf(nodes), Closed(nodes, P),
         NEW pending \in SUBSET P, NEW n \in 0..Len(nodes)
  PROVE  Within(WalkDependencies(nodes, pending)[n], P)
<1> DEFINE N == Len(nodes)
           W == WalkDependencies(nodes, pending)
           S == {m \in Nat : m <= N => Within(W[m], P)}
<1>1. N \in Nat
  BY NodeCount
<1>2. W[0] = [pending |-> pending, visited |-> {}] /\ \A m \in 1..N : W[m] = VisitNext(nodes, W[m - 1])
  BY WalkPasses
<1> HIDE DEF W
<1>3. 0 \in S
  <2>1. 0 \in Nat
    OBVIOUS
  <2>2. W[0].pending = pending /\ W[0].visited = {}
    BY <1>2, WalkFields
  <2> QED
    BY <2>1, <2>2 DEF Within
<1>4. \A m \in S : m + 1 \in S
  <2> SUFFICES ASSUME NEW m \in S, m + 1 <= N
               PROVE  m + 1 \in Nat /\ Within(W[m + 1], P)
    <3>1. \A i \in Nat : i + 1 \in Nat
      BY SMT
    <3> QED
      BY <3>1
  <2>1. m \in Nat /\ m <= N /\ m + 1 \in 1..N /\ (m + 1) - 1 = m /\ m + 1 \in Nat
    BY <1>1, SMT
  <2>2. Within(W[m], P) /\ W[m + 1] = VisitNext(nodes, W[m])
    BY <1>2, <2>1
  <2> QED
    BY <2>1, <2>2, VisitWithin
<1>5. S = Nat
  <2>1. S \in SUBSET Nat
    OBVIOUS
  <2> HIDE DEF S
  <2> QED
    BY <1>3, <1>4, <2>1, AllIndices
<1>6. n \in Nat /\ n <= N
  BY <1>1, SMT
<1> QED
  BY <1>5, <1>6 DEF W

\* What transitive_dependencies lists for a phase is before it in the order.
LEMMA DependenciesBefore ==
  ASSUME NEW nodes, Wellformed(nodes), NEW order, Sorted(nodes, order), NEW k \in 1..Len(order)
  PROVE  transitive_dependencies(nodes, order[k]) \subseteq Range(SubSeq(order, 1, k - 1))
<1> DEFINE P == Range(SubSeq(order, 1, k - 1))
           first == DependsOn(nodes, order[k])
<1>1. order \in Seq(IdsOf(nodes)) /\ NoneWaits(nodes, order)
  BY DEF Sorted
<1>2. Len(order) \in Nat /\ Len(nodes) \in Nat /\ \A j \in 1..Len(order) : order[j] \in IdsOf(nodes)
  BY <1>1, NodeCount, SMT
<1>3. \A x : x \in P <=> Earlier(order, k, x)
  BY <1>1, EarlierAre DEF Earlier
<1> HIDE DEF P
<1>4. P \in SUBSET IdsOf(nodes)
  BY <1>2, <1>3 DEF Earlier
<1>5. first \in SUBSET P
  BY <1>1, <1>3, DependencyEarlier
<1>6. Closed(nodes, P)
  <2> SUFFICES ASSUME NEW id \in P, NEW x \in DependsOn(nodes, id)
               PROVE  x \in P
    BY DEF Closed
  <2>1. PICK j \in 1..Len(order) : j < k /\ order[j] = id
    BY <1>3 DEF Earlier
  <2>2. x \in DependsOn(nodes, order[j])
    BY <2>1
  <2>3. Earlier(order, j, x)
    BY <1>1, <2>2, DependencyEarlier
  <2>4. PICK i \in 1..Len(order) : i < j /\ order[i] = x
    BY <2>3 DEF Earlier
  <2>5. i < k
    BY <1>2, <2>1, <2>4, SMT
  <2> QED
    BY <1>3, <2>4, <2>5 DEF Earlier
<1>7. Len(nodes) \in 0..Len(nodes)
  BY <1>2, SMT
<1> HIDE DEF first
<1>8. Within(WalkDependencies(nodes, first)[Len(nodes)], P)
  BY <1>4, <1>5, <1>6, <1>7, WalkWithin
<1>9. transitive_dependencies(nodes, order[k]) = WalkDependencies(nodes, first)[Len(nodes)].visited
  BY DEF transitive_dependencies, first, DependsOn
<1> QED
  BY <1>8, <1>9 DEF Within, P

\* What the phases of a walk depend on is visited or pending.
Covers(nodes, walk, first) ==
  /\ first \subseteq walk.pending \cup walk.visited
  /\ \A id \in walk.visited : DependsOn(nodes, id) \subseteq walk.pending \cup walk.visited

\* A walk that goes on visits one more phase in each pass.
Progress(walk, n) == walk.pending \subseteq walk.visited \/ Cardinality(walk.visited) = n

\* A pass loses no phase, and either there is none left or it visits one more.
LEMMA VisitCovers ==
  ASSUME NEW nodes, Wellformed(nodes), NEW walk, Within(walk, IdsOf(nodes)), NEW first,
         Covers(nodes, walk, first), NEW n \in Nat, Progress(walk, n)
  PROVE  Covers(nodes, VisitNext(nodes, walk), first) /\ Progress(VisitNext(nodes, walk), n + 1)
<1>1. CASE walk.pending \subseteq walk.visited
  BY <1>1 DEF VisitNext, Progress
<1>2. CASE ~(walk.pending \subseteq walk.visited)
  <2>1. PICK id \in walk.pending \ walk.visited :
           /\ VisitNext(nodes, walk).pending = (walk.pending \ {id}) \cup DependsOn(nodes, id)
           /\ VisitNext(nodes, walk).visited = walk.visited \cup {id}
    BY <1>2, VisitIs
  <2>2. IsFiniteSet(walk.visited)
    BY IdCount, FS_Subset DEF Within
  <2>3. Cardinality(walk.visited \cup {id}) = n + 1
    <3>1. Cardinality(walk.visited) = n
      BY <1>2 DEF Progress
    <3> QED
      BY <2>1, <2>2, <3>1, FS_AddElement
  <2>4. Progress(VisitNext(nodes, walk), n + 1)
    BY <2>1, <2>3 DEF Progress
  <2>5. Covers(nodes, VisitNext(nodes, walk), first)
    BY <2>1 DEF Covers
  <2> QED
    BY <2>4, <2>5
<1> QED
  BY <1>1, <1>2

\* After as many passes as there are nodes the walk has ended: what it visited holds
\* what it started from and what its phases depend on.
LEMMA WalkEnds ==
  ASSUME NEW nodes, Wellformed(nodes), NEW first \in SUBSET IdsOf(nodes)
  PROVE  LET found == WalkDependencies(nodes, first)[Len(nodes)].visited
         IN  first \subseteq found /\ Closed(nodes, found)
<1> DEFINE N == Len(nodes)
           W == WalkDependencies(nodes, first)
           S == {m \in Nat : m <= N => Covers(nodes, W[m], first) /\ Progress(W[m], m)}
<1>1. N \in Nat /\ \A m \in Nat : m <= N => m \in 0..N
  BY NodeCount, SMT
<1>2. W[0] = [pending |-> first, visited |-> {}] /\ \A m \in 1..N : W[m] = VisitNext(nodes, W[m - 1])
  BY WalkPasses
<1>3. \A m \in 0..N : Within(W[m], IdsOf(nodes))
  BY AllClosed, WalkWithin
<1> HIDE DEF W
<1>4. 0 \in S
  <2>1. 0 \in Nat
    OBVIOUS
  <2>2. W[0].pending = first /\ W[0].visited = {}
    BY <1>2, WalkFields
  <2>3. Cardinality({}) = 0
    BY FS_EmptySet
  <2> QED
    BY <2>1, <2>2, <2>3 DEF Covers, Progress
<1>5. \A m \in S : m + 1 \in S
  <2> SUFFICES ASSUME NEW m \in S, m + 1 <= N
               PROVE  m + 1 \in Nat /\ Covers(nodes, W[m + 1], first) /\ Progress(W[m + 1], m + 1)
    <3>1. \A i \in Nat : i + 1 \in Nat
      BY SMT
    <3> QED
      BY <3>1
  <2>1. m \in Nat /\ m <= N /\ m + 1 \in 1..N /\ (m + 1) - 1 = m /\ m + 1 \in Nat
    BY <1>1, SMT
  <2>2. Covers(nodes, W[m], first) /\ Progress(W[m], m) /\ W[m + 1] = VisitNext(nodes, W[m])
    BY <1>2, <2>1
  <2>3. Within(W[m], IdsOf(nodes))
    BY <1>1, <1>3, <2>1
  <2> QED
    BY <2>1, <2>2, <2>3, VisitCovers
<1>6. S = Nat
  <2>1. S \in SUBSET Nat
    OBVIOUS
  <2> HIDE DEF S
  <2> QED
    BY <1>4, <1>5, <2>1, AllIndices
<1>7. N <= N
  BY <1>1, SMT
<1>8. Covers(nodes, W[N], first) /\ Progress(W[N], N) /\ Within(W[N], IdsOf(nodes))
  BY <1>1, <1>3, <1>6, <1>7
<1>9. W[N].pending \subseteq W[N].visited
  <2>1. CASE Cardinality(W[N].visited) = N
    <3>1. W[N].visited \subseteq IdsOf(nodes) /\ W[N].pending \subseteq IdsOf(nodes)
      BY <1>8 DEF Within
    <3>2. W[N].visited = IdsOf(nodes)
      BY <2>1, <3>1, IdCount, FS_Subset
    <3> QED
      BY <3>1, <3>2
  <2> QED
    BY <1>8, <2>1 DEF Progress
<1>10. first \subseteq W[N].visited /\ Closed(nodes, W[N].visited)
  BY <1>8, <1>9 DEF Covers, Closed
<1> QED
  BY <1>10 DEF W

----------------------------------------------------------------------------
(* PhasePlan::build. *)

\* What build has established when it returns a plan, and that it returns one then.
Passes(nodes) ==
  /\ nodes # <<>> /\ Len(nodes) <= kMaxPhases
  /\ ~AbsentId(nodes) /\ ~DuplicateIds(nodes) /\ ~SelfDependency(nodes) /\ ~MissingDependency(nodes)
  /\ \A i \in DOMAIN nodes : ~FanInImpossible(nodes[i])
  /\ Len(TopologicalOrder(nodes)) = Len(nodes)
  /\ AnySinkMandatory(nodes)
  /\ ReachesPrimary(nodes, TopologicalOrder(nodes))[Len(TopologicalOrder(nodes))] = IdsOf(nodes)

\* build returns the sorted plan when every check passes, and a defect otherwise.
LEMMA BuildPasses ==
  ASSUME NEW nodes, nodes \in Seq(PhaseNodes)
  PROVE  (Build(nodes).ok <=> Passes(nodes)) /\ (Build(nodes).ok => Build(nodes).order = TopologicalOrder(nodes))
<1>1. \A r : Defect(r).ok = FALSE
  BY DEF Defect
<1>2. \A o : Plan(o).ok = TRUE /\ Plan(o).order = o
  BY DEF Plan
<1>3. Len(nodes) > kMaxPhases <=> ~(Len(nodes) <= kMaxPhases)
  BY SMT DEF kMaxPhases
<1>4. Passes(nodes) => Build(nodes) = Plan(TopologicalOrder(nodes))
  BY <1>3 DEF Build, Passes
<1>5. ~Passes(nodes) => \E r : Build(nodes) = Defect(r)
  BY <1>3 DEF Build, Passes
<1> QED
  BY <1>1, <1>2, <1>4, <1>5

\* With one phase that none depends on, the sink that is mandatory is that one.
LEMMA OneSink ==
  ASSUME NEW nodes, Wellformed(nodes), nodes # <<>>,
         NEW order, Sorted(nodes, order), Len(order) = Len(nodes)
  PROVE  (AnySinkMandatory(nodes) /\ OneEnd(nodes, order)) <=>
           \E id \in IdsOf(nodes) : Sinks(nodes) = {id} /\ nodes[IndexOf(nodes, id)].mandatory
<1> DEFINE last == Primary(order)
<1>1. last \in IdsOf(nodes) /\ ~Feeds(nodes, last)
  BY LastIsSink
<1>2. \A id \in IdsOf(nodes) : id \in Sinks(nodes) <=> ~Feeds(nodes, id)
  <2> TAKE id \in IdsOf(nodes)
  <2>1. nodes[IndexOf(nodes, id)].id = id
    BY IdIs
  <2> QED
    BY <2>1 DEF Sinks, Feeds, Dependents
<1>3. Sinks(nodes) \subseteq IdsOf(nodes)
  BY DEF Sinks
<1>4. last \in Sinks(nodes)
  BY <1>1, <1>2
<1>5. OneEnd(nodes, order) <=> Sinks(nodes) = {last}
  BY <1>1, <1>2, <1>3, <1>4 DEF OneEnd
<1>6. ASSUME Sinks(nodes) = {last}
      PROVE  AnySinkMandatory(nodes) <=> nodes[IndexOf(nodes, last)].mandatory
  <2>1. IndexOf(nodes, last) \in DOMAIN nodes /\ Dependents(nodes, IndexOf(nodes, last)) = {}
    BY <1>1, IdIs DEF Feeds
  <2>2. ASSUME NEW i \in DOMAIN nodes, Dependents(nodes, i) = {}
        PROVE  i = IndexOf(nodes, last)
    <3>1. nodes[i].id \in IdsOf(nodes) /\ IndexOf(nodes, nodes[i].id) = i
      BY NodeIs
    <3>2. nodes[i].id \in Sinks(nodes)
      BY <1>2, <2>2, <3>1 DEF Feeds
    <3> QED
      BY <1>6, <3>1, <3>2
  <2> QED
    BY <2>1, <2>2 DEF AnySinkMandatory
<1>7. \A id : Sinks(nodes) = {id} => id = last
  BY <1>4
<1> QED
  BY <1>1, <1>5, <1>6, <1>7

\* What PlanAccepted asks of a list of nodes.
Acceptable(nodes) ==
  /\ nodes # <<>> /\ Len(nodes) <= kMaxPhases
  /\ ~AbsentId(nodes) /\ ~DuplicateIds(nodes) /\ ~MissingDependency(nodes)
  /\ \A i \in DOMAIN nodes : ~FanInImpossible(nodes[i])
  /\ Acyclic(nodes)
  /\ \E id \in IdsOf(nodes) : Sinks(nodes) = {id} /\ nodes[IndexOf(nodes, id)].mandatory

\* The checks of build decide whether a list is acceptable.
LEMMA PassesAcceptable ==
  ASSUME NEW nodes \in Seq(PhaseNodes)
  PROVE  Passes(nodes) <=> Acceptable(nodes)
<1> DEFINE order == TopologicalOrder(nodes)
<1>1. CASE ~Wellformed(nodes)
  BY <1>1 DEF Wellformed, Passes, Acceptable
<1>2. CASE nodes = <<>>
  BY <1>2 DEF Passes, Acceptable
<1>3. CASE Wellformed(nodes) /\ nodes # <<>>
  <2>1. Wellformed(nodes) /\ Sorted(nodes, order)
    BY <1>3, SortEnds
  <2>2. ~DuplicateIds(nodes) /\ ~MissingDependency(nodes)
    BY <2>1 DEF Wellformed
  <2> HIDE DEF order
  <2>3. Len(order) = Len(nodes) <=> Acyclic(nodes)
    BY <2>1, CompleteIsAcyclic
  <2>4. Acyclic(nodes) => ~SelfDependency(nodes)
    BY <2>1, AcyclicNoSelf
  <2>5. Len(order) = Len(nodes) =>
          (ReachesPrimary(nodes, order)[Len(order)] = IdsOf(nodes) <=> OneEnd(nodes, order))
    BY <2>1, AllFound
  <2>6. Len(order) = Len(nodes) =>
          ((AnySinkMandatory(nodes) /\ OneEnd(nodes, order)) <=>
             \E id \in IdsOf(nodes) : Sinks(nodes) = {id} /\ nodes[IndexOf(nodes, id)].mandatory)
    BY <1>3, <2>1, OneSink
  <2> DEFINE ends == \E id \in IdsOf(nodes) : Sinks(nodes) = {id} /\ nodes[IndexOf(nodes, id)].mandatory
             reach == ReachesPrimary(nodes, order)[Len(order)] = IdsOf(nodes)
             fed == \A i \in DOMAIN nodes : ~FanInImpossible(nodes[i])
  <2>7. Len(order) = Len(nodes) => ((AnySinkMandatory(nodes) /\ reach) <=> ends)
    BY <2>5, <2>6
  <2>8. Passes(nodes) <=> /\ nodes # <<>> /\ Len(nodes) <= kMaxPhases /\ ~AbsentId(nodes) /\ ~DuplicateIds(nodes)
                          /\ ~SelfDependency(nodes) /\ ~MissingDependency(nodes) /\ fed
                          /\ Len(order) = Len(nodes) /\ AnySinkMandatory(nodes) /\ reach
    BY DEF Passes, order
  <2>9. Acceptable(nodes) <=> /\ nodes # <<>> /\ Len(nodes) <= kMaxPhases /\ ~AbsentId(nodes)
                              /\ ~DuplicateIds(nodes) /\ ~MissingDependency(nodes) /\ fed
                              /\ Acyclic(nodes) /\ ends
    BY DEF Acceptable
  <2> HIDE DEF ends, reach, fed
  <2> QED
    BY <1>3, <2>2, <2>3, <2>4, <2>7, <2>8, <2>9
<1> QED
  BY <1>1, <1>2, <1>3

----------------------------------------------------------------------------
(* The theorems. *)

\* A proposal that was made is one of the lists, with what build made of it.
Proposed == \E nodes \in Plans : proposal = [nodes |-> nodes, built |-> Build(nodes)]

ProposalInv == proposal = NoPlan \/ Proposed

\* build turns down or sorts what is proposed; nothing else is kept.
LEMMA ProposalInvariant == Spec => []ProposalInv
<1>1. Init => ProposalInv
  BY DEF Init, ProposalInit, ProposalInv
<1>2. [Next]_vars => ProposePlan \/ UNCHANGED proposal
  BY DEF Next, vars, Register, Revise, Refresh, Update, CreateSession, Persist, Crash, Restart,
         Send, Receive, Propose
<1>3. ProposalInv /\ (ProposePlan \/ UNCHANGED proposal) => ProposalInv'
  BY DEF ProposalInv, ProposePlan, Proposed, NoPlan, Defect
<1> QED
  BY <1>1, <1>2, <1>3, PTL DEF Spec

\* The fields of a proposal.
LEMMA ProposedIs ==
  ASSUME Proposed
  PROVE  proposal.nodes \in Seq(PhaseNodes) /\ proposal.built = Build(proposal.nodes)
<1>1. PICK nodes \in Plans : proposal = [nodes |-> nodes, built |-> Build(nodes)]
  BY DEF Proposed
<1>2. \A b : [nodes |-> nodes, built |-> b].nodes = nodes /\ [nodes |-> nodes, built |-> b].built = b
  OBVIOUS
<1>3. proposal.nodes = nodes /\ proposal.built = Build(nodes)
  BY <1>1, <1>2
<1> QED
  BY <1>3, PlansAreLists

\* PhasePlan::build returns, for every list of phases an adapter can propose, an order
\* that has each phase once and after what it depends on, directly or through others.
THEOREM PlansAreOrdered == Spec => []PlanOrdered
<1>1. ProposalInv => PlanOrdered
  <2> SUFFICES ASSUME ProposalInv, proposal.built.ok
               PROVE  PlanOrdered
    BY DEF PlanOrdered
  <2> DEFINE nodes == proposal.nodes
             order == proposal.built.order
  <2>1. Proposed
    <3>1. proposal # NoPlan
      <4>1. NoPlan.built = Defect("none")
        BY DEF NoPlan
      <4>2. Defect("none").ok = FALSE
        BY DEF Defect
      <4> QED
        BY <4>1, <4>2
    <3> QED
      BY <3>1 DEF ProposalInv
  <2>2. nodes \in Seq(PhaseNodes) /\ proposal.built = Build(nodes)
    BY <2>1, ProposedIs
  <2>3. Passes(nodes) /\ order = TopologicalOrder(nodes)
    BY <2>2, BuildPasses
  <2>4. Wellformed(nodes) /\ Len(order) = Len(nodes)
    BY <2>2, <2>3 DEF Passes, Wellformed
  <2>5. Sorted(nodes, order)
    BY <2>3, <2>4, SortEnds
  <2> HIDE DEF nodes, order
  <2>6. order \in Seq(IdsOf(nodes)) /\ NoneWaits(nodes, order) /\ Range(order) = IdsOf(nodes)
    BY <2>4, <2>5 DEF Sorted
  <2>7. DOMAIN order = 1..Len(order)
    BY <2>6, MembersAre
  <2>8. \A k \in DOMAIN order : is_ready(nodes, order[k], Range(SubSeq(order, 1, k - 1)))
    BY <2>6, <2>7 DEF NoneWaits
  <2>9. \A k \in DOMAIN order :
          LET found == transitive_dependencies(nodes, order[k])
          IN  /\ found \subseteq Range(SubSeq(order, 1, k - 1))
              /\ DependsOn(nodes, order[k]) \subseteq found
              /\ \A id \in found : DependsOn(nodes, id) \subseteq found
    <3> SUFFICES ASSUME NEW k \in DOMAIN order
                 PROVE  LET found == transitive_dependencies(nodes, order[k])
                        IN  /\ found \subseteq Range(SubSeq(order, 1, k - 1))
                            /\ DependsOn(nodes, order[k]) \subseteq found
                            /\ \A id \in found : DependsOn(nodes, id) \subseteq found
      OBVIOUS
    <3>1. order[k] \in IdsOf(nodes)
      BY <2>6, <2>7, MembersAre
    <3> DEFINE first == DependsOn(nodes, order[k])
    <3>2. first \in SUBSET IdsOf(nodes)
      BY <2>4, <3>1, AllClosed DEF Closed
    <3>3. transitive_dependencies(nodes, order[k]) = WalkDependencies(nodes, first)[Len(nodes)].visited
      BY DEF transitive_dependencies, DependsOn
    <3>4. transitive_dependencies(nodes, order[k]) \subseteq Range(SubSeq(order, 1, k - 1))
      BY <2>4, <2>5, <2>7, DependenciesBefore
    <3> HIDE DEF first
    <3>5. /\ first \subseteq WalkDependencies(nodes, first)[Len(nodes)].visited
          /\ Closed(nodes, WalkDependencies(nodes, first)[Len(nodes)].visited)
      BY <2>4, <3>2, WalkEnds
    <3> QED
      BY <3>3, <3>4, <3>5 DEF Closed, first
  <2> QED
    BY <2>4, <2>6, <2>8, <2>9 DEF PlanOrdered, nodes, order
<1> QED
  BY <1>1, ProposalInvariant, PTL

\* PhasePlan::build accepts exactly the lists of phases that have no cycle and end in
\* one mandatory phase, whose phases are distinct, known and possible to feed.
THEOREM PlansAreJudged == Spec => []PlanAccepted
<1>1. ProposalInv => PlanAccepted
  <2> SUFFICES ASSUME ProposalInv, proposal # NoPlan
               PROVE  proposal.built.ok <=> Acceptable(proposal.nodes)
    BY DEF PlanAccepted, Acceptable
  <2>1. Proposed
    BY DEF ProposalInv
  <2>2. proposal.nodes \in Seq(PhaseNodes) /\ proposal.built = Build(proposal.nodes)
    BY <2>1, ProposedIs
  <2> QED
    BY <2>2, BuildPasses, PassesAcceptable
<1> QED
  BY <1>1, ProposalInvariant, PTL

----------------------------------------------------------------------------
(* Stored records: types. *)

LiveEntries == [generation : 1..MaxGeneration, sample : Contents]
Entries == {Absent} \cup LiveEntries
Bundles == [session : Sessions, generation : 1..MaxGeneration, sample : Contents]

SavedInv ==
  /\ kind \in Kinds /\ unusual \in Samples[kind] /\ fate = Fate(kind, unusual)
  /\ entry \in Entries
  /\ bound \in [Sessions -> Entries]
  /\ journal \in Seq(Bundles)
  /\ running \in {"up", "down", "refused"}
  /\ restarts \in 0..MaxRestarts
  /\ running = "down" => restarts < MaxRestarts
  /\ running = "up" => \A s \in Sessions : bound[s] # Absent => entry # Absent
  /\ running = "refused" => \E i \in DOMAIN journal : ~Guarded(journal[i])
  /\ wire \in Contents /\ inbox \in {"none", "as sent", "refused", "altered"}

\* Generations count from 1.
LEMMA FirstGeneration == 1 \in 1..MaxGeneration /\ \A g \in 1..MaxGeneration : g # 0
  BY BoundsAssumption, SMT

\* An entry that is live is not the absent one, and is made of what it may hold.
LEMMA LiveIs ==
  ASSUME NEW g \in 1..MaxGeneration, NEW sample \in Contents
  PROVE  /\ Entry(g, sample) \in LiveEntries /\ Entry(g, sample) # Absent
         /\ Entry(g, sample).generation = g /\ Entry(g, sample).sample = sample
<1>1. g # 0
  BY BoundsAssumption, SMT
<1>2. Entry(g, sample).generation = g /\ Entry(g, sample).sample = sample
  BY DEF Entry
<1>3. Absent.generation = 0
  BY DEF Absent, Entry
<1>4. Entry(g, sample) \in LiveEntries
  BY SMT DEF LiveEntries, Entry
<1> QED
  BY <1>1, <1>2, <1>3, <1>4

\* The fields of a live entry.
LEMMA LiveFields ==
  ASSUME NEW e \in LiveEntries
  PROVE  e # Absent /\ e.generation \in 1..MaxGeneration /\ e.sample \in Contents
<1>1. e.generation \in 1..MaxGeneration /\ e.sample \in Contents
  BY SMT DEF LiveEntries
<1>2. e.generation # 0
  BY <1>1, BoundsAssumption, SMT
<1>3. Absent.generation = 0
  BY DEF Absent, Entry
<1> QED
  BY <1>1, <1>2, <1>3

\* An entry is absent or live.
LEMMA EntryIs ==
  ASSUME NEW e \in Entries, e # Absent
  PROVE  e \in LiveEntries /\ e.generation \in 1..MaxGeneration /\ e.sample \in Contents
  BY LiveFields DEF Entries

\* The bundle of a session with a live entry.
LEMMA BundleIs ==
  ASSUME NEW s \in Sessions, NEW e \in LiveEntries
  PROVE  /\ Bundle(s, e) \in Bundles /\ Bundle(s, e).session = s
         /\ Bundle(s, e).generation = e.generation /\ Bundle(s, e).sample = e.sample
<1>1. e.generation \in 1..MaxGeneration /\ e.sample \in Contents
  BY LiveFields
<1>2. Bundle(s, e) \in Bundles
  BY <1>1, SMT DEF Bundle, Bundles
<1> QED
  BY <1>2 DEF Bundle

\* The fields of a bundle.
LEMMA BundleFields ==
  ASSUME NEW b \in Bundles
  PROVE  b.session \in Sessions /\ b.generation \in 1..MaxGeneration /\ b.sample \in Contents
  BY SMT DEF Bundles

\* k is j with x at its end.
Appended(k, j, x, X) ==
  /\ Len(j) \in Nat /\ DOMAIN j = 1..Len(j) /\ \A i \in 1..Len(j) : j[i] \in X
  /\ k \in Seq(X) /\ Len(k) = Len(j) + 1 /\ DOMAIN k = 1..Len(j) + 1
  /\ \A i \in 1..Len(j) : i \in 1..Len(j) + 1 /\ k[i] = j[i]
  /\ k[Len(j) + 1] = x /\ Len(j) + 1 \in 1..Len(j) + 1
  /\ \A i \in 1..Len(j) + 1 : i \in 1..Len(j) \/ i = Len(j) + 1

\* A journal and one more bundle.
LEMMA JournalIs ==
  ASSUME NEW X, NEW j \in Seq(X), NEW x \in X
  PROVE  Appended(Append(j, x), j, x, X)
  BY SMT DEF Appended

\* A record of a kind that is stored is read back as it was, or its unguarded field is
\* refused.
LEMMA OutcomeIs ==
  ASSUME SavedInv, kind \in Saved, NEW b \in Bundles
  PROVE  Outcome(b) = "as sent" \/ (Outcome(b) = "refused" /\ ~Guarded(b))
<1>1. kind \in Kinds /\ unusual \in Samples[kind] /\ fate = Fate(kind, unusual)
  BY DEF SavedInv
<1>2. /\ fate.ordinary = "as sent"
      /\ fate.unusual = "as sent" \/ (fate.unusual = "refused" /\ unusual.path \in Unguarded[kind])
  BY <1>1, CodecAssumption
<1>3. b.sample = Plain \/ b.sample = unusual
  BY BundleFields DEF Contents
<1> QED
  BY <1>2, <1>3 DEF Outcome, Becomes, Guarded

----------------------------------------------------------------------------
(* Runtime::create. *)

\* The bundle of a session that counts is the last one that is not passed over.
LEMMA LatestIs ==
  ASSUME SavedInv, NEW s, BundlesOf(s) # {}
  PROVE  \E i \in BundlesOf(s) :
           Latest(s) = journal[i] /\ Latest(s) \in Bundles /\ Latest(s).session = s /\ \A j \in BundlesOf(s) : j <= i
<1>1. journal \in Seq(Bundles)
  BY DEF SavedInv
<1>2. Len(journal) \in Nat /\ DOMAIN journal = 1..Len(journal) /\ \A i \in 1..Len(journal) : journal[i] \in Bundles
  BY <1>1, SMT
<1>3. BundlesOf(s) \in SUBSET (1..Len(journal)) /\ \A i \in BundlesOf(s) : journal[i].session = s
  BY <1>2 DEF BundlesOf
<1>4. \E i \in BundlesOf(s) : \A j \in BundlesOf(s) : j <= i
  BY <1>2, <1>3, GreatestIndex
<1> DEFINE last == CHOOSE i \in BundlesOf(s) : \A j \in BundlesOf(s) : j <= i
<1>5. last \in BundlesOf(s) /\ \A j \in BundlesOf(s) : j <= last
  BY <1>4
<1>6. Latest(s) = journal[last]
  BY DEF Latest
<1> HIDE DEF last
<1> QED
  BY <1>2, <1>3, <1>5, <1>6

\* What is put back of a bundle that is read as it was written.
LEMMA ReinstatedIs ==
  ASSUME NEW b \in Bundles, Outcome(b) = "as sent"
  PROVE  /\ Reinstated(b) \in LiveEntries /\ Reinstated(b).sample = b.sample
         /\ kind \in {"toolchain", "source"} => Reinstated(b).generation = b.generation
<1>1. b.generation \in 1..MaxGeneration /\ b.sample \in Contents
  BY BundleFields
<1>2. Recovered(b) = b.sample
  BY DEF Recovered
<1>3. 1 \in 1..MaxGeneration /\ b.generation # 0
  BY <1>1, FirstGeneration
<1>4. kind \in {"toolchain", "source"} => Reinstated(b) = Entry(b.generation, b.sample)
  BY <1>2, <1>3 DEF Reinstated, register_toolchain_as, add_as
<1>5. kind \notin {"toolchain", "source"} => Reinstated(b) = Entry(1, b.sample)
  BY <1>2 DEF Reinstated, intern_as
<1>6. /\ Entry(b.generation, b.sample) \in LiveEntries /\ Entry(1, b.sample) \in LiveEntries
      /\ Entry(b.generation, b.sample).generation = b.generation
      /\ Entry(b.generation, b.sample).sample = b.sample /\ Entry(1, b.sample).sample = b.sample
  BY <1>1, <1>3, LiveIs
<1> QED
  BY <1>4, <1>5, <1>6

Adoptions == [ok : BOOLEAN, entry : Entries, journal : Seq(Bundles)]

AdoptionStart == [ok |-> TRUE, entry |-> Absent, journal |-> journal]

\* A session whose bundle is read back.
Returns(s) == BundlesOf(s) # {} /\ Outcome(Latest(s)) = "as sent"

\* A session whose bundle is refused.
Refuses(s) == BundlesOf(s) # {} /\ Outcome(Latest(s)) = "refused"

\* e comes from the highest of the sessions up to n that have bundles.
Restores(e, n) ==
  \/ e = Absent /\ \A s \in 1..n : BundlesOf(s) = {}
  \/ \E s \in 1..n : /\ Returns(s) /\ e = Reinstated(Latest(s))
                     /\ \A t \in 1..n : s < t => BundlesOf(t) = {}

\* The journal grows by a bundle of each session that returns.
JournalRestored(j, n) ==
  /\ j \in Seq(Bundles) /\ Len(journal) <= Len(j)
  /\ \A i \in 1..Len(journal) : j[i] = journal[i]
  /\ \A i \in 1..Len(j) : Len(journal) < i =>
       \E s \in 1..n : Returns(s) /\ j[i] = Bundle(s, Reinstated(Latest(s)))

\* The sessions up to n are adopted, or one of them is refused.
AdoptedAs(acc, n) ==
  /\ acc \in Adoptions
  /\ JournalRestored(acc.journal, n)
  /\ acc.ok => Restores(acc.entry, n)
  /\ ~acc.ok => \E s \in 1..n : Refuses(s)

RefusedAs(new, acc) == new \in Adoptions /\ new.ok = FALSE /\ new.journal = acc.journal

\* A record of the loop with ok cleared.
LEMMA NotOk ==
  ASSUME NEW A, NEW B, NEW r \in [ok : BOOLEAN, entry : A, journal : B]
  PROVE  /\ [r EXCEPT !.ok = FALSE] \in [ok : BOOLEAN, entry : A, journal : B]
         /\ [r EXCEPT !.ok = FALSE].ok = FALSE /\ [r EXCEPT !.ok = FALSE].journal = r.journal
  OBVIOUS

\* The fields of the locals of the loop.
LEMMA AdoptionFields ==
  ASSUME NEW o, NEW e, NEW j
  PROVE  /\ [ok |-> o, entry |-> e, journal |-> j].ok = o
         /\ [ok |-> o, entry |-> e, journal |-> j].entry = e
         /\ [ok |-> o, entry |-> e, journal |-> j].journal = j
  OBVIOUS

\* One session is adopted, refused, or has no bundle.
LEMMA AdoptCases ==
  ASSUME SavedInv, kind \in Saved, NEW acc \in Adoptions, NEW s \in Sessions
  PROVE  \/ (~acc.ok \/ BundlesOf(s) = {}) /\ Adopt(acc, s) = acc
         \/ acc.ok /\ Refuses(s) /\ RefusedAs(Adopt(acc, s), acc)
         \/ /\ acc.ok /\ Returns(s) /\ Latest(s) \in Bundles
            /\ Adopt(acc, s) = [ok |-> TRUE, entry |-> Reinstated(Latest(s)),
                                journal |-> Append(acc.journal, Bundle(s, Reinstated(Latest(s))))]
<1>1. CASE ~acc.ok \/ BundlesOf(s) = {}
  BY <1>1 DEF Adopt
<1>2. CASE acc.ok /\ BundlesOf(s) # {}
  <2>1. Latest(s) \in Bundles
    BY <1>2, LatestIs
  <2>2. CASE Outcome(Latest(s)) = "refused"
    <3>1. Adopt(acc, s) = [acc EXCEPT !.ok = FALSE]
      BY <1>2, <2>2 DEF Adopt
    <3>2. RefusedAs([acc EXCEPT !.ok = FALSE], acc)
      BY NotOk DEF RefusedAs, Adoptions
    <3> QED
      BY <1>2, <2>2, <3>1, <3>2 DEF Refuses
  <2>3. CASE Outcome(Latest(s)) = "as sent"
    <3>1. Adopt(acc, s) = [ok |-> TRUE, entry |-> Reinstated(Latest(s)),
                           journal |-> Append(acc.journal, Bundle(s, Reinstated(Latest(s))))]
      BY <1>2, <2>3 DEF Adopt
    <3> QED
      BY <1>2, <2>1, <2>3, <3>1 DEF Returns
  <2> QED
    BY <2>1, <2>2, <2>3, OutcomeIs
<1>3. acc.ok \in BOOLEAN
  BY SMT DEF Adoptions
<1> QED
  BY <1>1, <1>2, <1>3

\* The locals of the loop over the sessions keep their types.
LEMMA AdoptTypes ==
  ASSUME SavedInv, kind \in Saved, NEW acc \in Adoptions, NEW s \in Sessions
  PROVE  Adopt(acc, s) \in Adoptions
<1>1. acc.ok \in BOOLEAN /\ acc.entry \in Entries /\ acc.journal \in Seq(Bundles)
  BY SMT DEF Adoptions
<1>2. \A o \in BOOLEAN, e \in Entries, j \in Seq(Bundles) : [ok |-> o, entry |-> e, journal |-> j] \in Adoptions
  BY DEF Adoptions
<1>3. ASSUME Returns(s), Latest(s) \in Bundles
      PROVE  /\ Reinstated(Latest(s)) \in Entries
             /\ Append(acc.journal, Bundle(s, Reinstated(Latest(s)))) \in Seq(Bundles)
  <2>1. Reinstated(Latest(s)) \in LiveEntries
    BY <1>3, ReinstatedIs DEF Returns
  <2>2. Bundle(s, Reinstated(Latest(s))) \in Bundles
    BY <2>1, BundleIs
  <2>3. Appended(Append(acc.journal, Bundle(s, Reinstated(Latest(s)))), acc.journal,
                 Bundle(s, Reinstated(Latest(s))), Bundles)
    BY <1>1, <2>2, JournalIs
  <2> QED
    BY <2>1, <2>3 DEF Entries, Appended
<1> QED
  BY <1>1, <1>2, <1>3, AdoptCases DEF RefusedAs

\* The loop over the sessions, in ascending order.
LEMMA AdoptedPasses ==
  ASSUME SavedInv, kind \in Saved
  PROVE  /\ Adopted[0] = AdoptionStart
         /\ \A s \in Sessions : Adopted[s] = Adopt(Adopted[s - 1], s)
<1> DEFINE N == NSessions
           X == Adoptions
           x0 == AdoptionStart
           step == [s \in 1..N |-> [x \in X |-> Adopt(x, s)]]
           P(h) == h = [s \in 0..N |-> IF s = 0 THEN x0 ELSE Adopt(h[s - 1], s)]
<1>1. N \in Nat /\ Sessions = 1..N
  BY BoundsAssumption DEF Sessions
<1>2. x0 \in X
  <2>1. journal \in Seq(Bundles) /\ Absent \in Entries
    BY DEF SavedInv, Entries
  <2> QED
    BY <2>1 DEF AdoptionStart, Adoptions
<1>3. \A s \in 1..N, x \in X : Adopt(x, s) \in X
  BY <1>1, AdoptTypes
<1>4. Adopted = CHOOSE h : P(h)
  BY DEF Adopted, AdoptionStart
<1> HIDE DEF X, x0
<1>5. step \in [1..N -> [X -> X]]
  BY <1>3
<1> HIDE DEF step
<1>6. PICK g \in [0..N -> X] : Iterates(g, x0, step, N)
  BY <1>1, <1>2, <1>5, LoopExists
<1>7. \A n \in 0..N : n # 0 => n \in 1..N /\ n - 1 \in 0..N
  BY <1>1, SMT
<1>8. \A n \in 1..N : n \in 0..N /\ n # 0
  BY <1>1, SMT
<1>9. P(g)
  <2>1. \A n \in 0..N : g[n] = IF n = 0 THEN x0 ELSE Adopt(g[n - 1], n)
    BY <1>6, <1>7 DEF Iterates, step
  <2>2. g = [n \in 0..N |-> g[n]]
    BY <1>6
  <2> QED
    BY <2>1, <2>2
<1>10. P(Adopted)
  <2> HIDE DEF P
  <2> QED
    BY <1>4, <1>9
<1>11. 0 \in 0..N
  BY <1>1, SMT
<1> QED
  BY <1>1, <1>8, <1>10, <1>11 DEF x0

\* What the next session adds.
LEMMA AdoptGoesOn ==
  ASSUME SavedInv, kind \in Saved, NEW n \in Nat, n + 1 \in Sessions, NEW acc, AdoptedAs(acc, n)
  PROVE  AdoptedAs(Adopt(acc, n + 1), n + 1)
<1> DEFINE s == n + 1
           new == Adopt(acc, s)
<1>1. /\ acc \in Adoptions /\ JournalRestored(acc.journal, n)
      /\ acc.ok => Restores(acc.entry, n)
      /\ ~acc.ok => \E t \in 1..n : Refuses(t)
  BY DEF AdoptedAs
<1>2. /\ \A t \in 1..n : t \in 1..s /\ t < s
      /\ s \in 1..s
      /\ \A t \in 1..s : (t \in 1..n \/ t = s) /\ ~(s < t)
  BY SMT
<1>3. new \in Adoptions
  BY <1>1, AdoptTypes
<1>4. JournalRestored(acc.journal, s)
  BY <1>1, <1>2 DEF JournalRestored
<1>5. CASE (~acc.ok \/ BundlesOf(s) = {}) /\ new = acc
  <2>1. ASSUME acc.ok
        PROVE  Restores(acc.entry, s)
    <3>1. BundlesOf(s) = {}
      BY <1>5, <2>1
    <3>2. Restores(acc.entry, n)
      BY <1>1, <2>1
    <3> HIDE DEF s
    <3>3. CASE acc.entry = Absent /\ \A t \in 1..n : BundlesOf(t) = {}
      BY <1>2, <3>1, <3>3 DEF Restores
    <3>4. CASE \E t \in 1..n : /\ Returns(t) /\ acc.entry = Reinstated(Latest(t))
                               /\ \A u \in 1..n : t < u => BundlesOf(u) = {}
      <4>1. PICK t \in 1..n : /\ Returns(t) /\ acc.entry = Reinstated(Latest(t))
                              /\ \A u \in 1..n : t < u => BundlesOf(u) = {}
        BY <3>4
      <4>2. \A u \in 1..s : t < u => BundlesOf(u) = {}
        BY <1>2, <3>1, <4>1
      <4> QED
        BY <1>2, <4>1, <4>2 DEF Restores
    <3> QED
      BY <3>2, <3>3, <3>4 DEF Restores
  <2>2. ~acc.ok => \E t \in 1..s : Refuses(t)
    BY <1>1, <1>2
  <2> QED
    BY <1>3, <1>4, <1>5, <2>1, <2>2 DEF AdoptedAs
<1>6. CASE acc.ok /\ Refuses(s) /\ RefusedAs(new, acc)
  <2>1. new.ok = FALSE /\ new.journal = acc.journal
    BY <1>6 DEF RefusedAs
  <2>2. \E t \in 1..s : Refuses(t)
    BY <1>2, <1>6
  <2> HIDE DEF new
  <2>3. AdoptedAs(new, s)
    BY <1>3, <1>4, <2>1, <2>2 DEF AdoptedAs
  <2> QED
    BY <2>3 DEF new
<1>7. CASE /\ acc.ok /\ Returns(s) /\ Latest(s) \in Bundles
           /\ new = [ok |-> TRUE, entry |-> Reinstated(Latest(s)),
                     journal |-> Append(acc.journal, Bundle(s, Reinstated(Latest(s))))]
  <2> DEFINE e == Reinstated(Latest(s))
             b == Bundle(s, e)
             j == acc.journal
  <2>1. new.ok = TRUE /\ new.entry = e /\ new.journal = Append(j, b)
    <3>1. new = [ok |-> TRUE, entry |-> e, journal |-> Append(j, b)]
      BY <1>7
    <3> HIDE DEF new, e, j, b
    <3> QED
      BY <3>1, AdoptionFields
  <2>2. e \in LiveEntries
    BY <1>7, ReinstatedIs DEF Returns
  <2>3. b \in Bundles /\ j \in Seq(Bundles)
    BY <1>1, <2>2, BundleIs DEF JournalRestored
  <2>4. Restores(new.entry, s)
    BY <1>2, <1>7, <2>1 DEF Restores
  <2>5. JournalRestored(Append(j, b), s)
    <3>0. journal \in Seq(Bundles) /\ Len(journal) <= Len(j)
      BY <1>1 DEF SavedInv, JournalRestored
    <3>1. Len(journal) \in Nat /\ Len(journal) <= Len(j)
      BY <3>0, SMT
    <3> DEFINE k == Append(j, b)
    <3> HIDE DEF e, b, j, new
    <3>2. Appended(k, j, b, Bundles)
      BY <2>3, JournalIs
    <3> HIDE DEF k
    <3>3. Len(journal) <= Len(k) /\ \A i \in 1..Len(journal) : i \in 1..Len(j)
      <4>1. Len(j) \in Nat /\ Len(k) = Len(j) + 1
        BY <3>2 DEF Appended
      <4> QED
        BY <3>1, <4>1, SMT
    <3>4. \A i \in 1..Len(journal) : k[i] = journal[i]
      BY <1>4, <3>2, <3>3 DEF JournalRestored, Appended, j
    <3>5. \A i \in 1..Len(k) : Len(journal) < i =>
            \E t \in 1..s : Returns(t) /\ k[i] = Bundle(t, Reinstated(Latest(t)))
      <4> SUFFICES ASSUME NEW i \in 1..Len(k), Len(journal) < i
                   PROVE  \E t \in 1..s : Returns(t) /\ k[i] = Bundle(t, Reinstated(Latest(t)))
        OBVIOUS
      <4>1. CASE i \in 1..Len(j)
        BY <1>4, <3>2, <4>1 DEF JournalRestored, Appended, j
      <4>2. CASE i = Len(j) + 1
        BY <1>2, <1>7, <3>2, <4>2 DEF Appended, b, e
      <4> QED
        BY <3>2, <4>1, <4>2 DEF Appended
    <3> QED
      BY <3>2, <3>3, <3>4, <3>5 DEF JournalRestored, Appended, k
  <2> HIDE DEF new, e, b
  <2>6. AdoptedAs(new, s)
    BY <1>3, <2>1, <2>4, <2>5 DEF AdoptedAs
  <2> QED
    BY <2>6 DEF new
<1> QED
  BY <1>1, <1>5, <1>6, <1>7, AdoptCases

\* After the loop every session that could be read is back, or one was refused.
LEMMA AdoptedIs ==
  ASSUME SavedInv, kind \in Saved
  PROVE  AdoptedAs(Adopted[NSessions], NSessions)
<1> DEFINE S == {n \in Nat : n <= NSessions => AdoptedAs(Adopted[n], n)}
<1>1. NSessions \in Nat /\ NSessions <= NSessions /\ Sessions = 1..NSessions
  <2>1. NSessions \in Nat
    BY BoundsAssumption
  <2>2. NSessions <= NSessions
    BY <2>1, SMT
  <2> QED
    BY <2>1, <2>2 DEF Sessions
<1>2. AdoptedAs(AdoptionStart, 0)
  <2>1. journal \in Seq(Bundles) /\ Absent \in Entries
    BY DEF SavedInv, Entries
  <2>2. /\ AdoptionStart.ok = TRUE /\ AdoptionStart.entry = Absent /\ AdoptionStart.journal = journal
        /\ AdoptionStart \in Adoptions
    <3>1. \A o \in BOOLEAN, e \in Entries, j \in Seq(Bundles) : [ok |-> o, entry |-> e, journal |-> j] \in Adoptions
      BY DEF Adoptions
    <3>2. AdoptionStart \in Adoptions
      BY <2>1, <3>1 DEF AdoptionStart
    <3> QED
      BY <3>2, AdoptionFields DEF AdoptionStart
  <2>3. Len(journal) <= Len(journal) /\ \A i \in 1..Len(journal) : ~(Len(journal) < i)
    BY <2>1, SMT
  <2>4. JournalRestored(journal, 0)
    BY <2>1, <2>3 DEF JournalRestored
  <2>5. \A t \in 1..0 : FALSE
    BY SMT
  <2> QED
    BY <2>2, <2>4, <2>5 DEF AdoptedAs, Restores
<1>3. 0 \in S
  BY <1>2, AdoptedPasses
<1>4. \A n \in S : n + 1 \in S
  <2> SUFFICES ASSUME NEW n \in S, n + 1 <= NSessions
               PROVE  AdoptedAs(Adopted[n + 1], n + 1)
    <3>1. \A n \in S : n + 1 \in Nat
      BY SMT
    <3> QED
      BY <3>1
  <2>1. n \in Nat /\ n <= NSessions /\ n + 1 \in 1..NSessions /\ (n + 1) - 1 = n
    BY <1>1, SMT
  <2>2. AdoptedAs(Adopted[n], n)
    BY <2>1
  <2>3. Adopted[n + 1] = Adopt(Adopted[n], n + 1)
    BY <1>1, <2>1, AdoptedPasses
  <2> QED
    BY <1>1, <2>1, <2>2, <2>3, AdoptGoesOn
<1>5. NSessions \in S
  <2>1. S \in SUBSET Nat
    OBVIOUS
  <2> HIDE DEF S
  <2> QED
    BY <1>1, <1>3, <1>4, <2>1, AllIndices
<1> QED
  BY <1>1, <1>5

\* An invalidated entry has the same contents under a new generation.
LEMMA InvalidatedIs ==
  ASSUME NEW e \in LiveEntries
  PROVE  invalidate(e) = Entry(e.generation + 1, e.sample)
<1>1. e = [generation |-> e.generation, sample |-> e.sample]
  BY DEF LiveEntries
<1>2. \A g, x : [[generation |-> g, sample |-> x] EXCEPT !.generation = @ + 1] = [generation |-> g + 1, sample |-> x]
  BY SMT
<1>3. [e EXCEPT !.generation = @ + 1] = [generation |-> e.generation + 1, sample |-> e.sample]
  BY <1>1, <1>2
<1> QED
  BY <1>3 DEF invalidate, Entry

----------------------------------------------------------------------------
(* The inductive invariant of what is stored. *)

\* No step changes the record that is followed, nor what the codec makes of it.
LEMMA KindKept ==
  ASSUME [Next]_vars
  PROVE  UNCHANGED <<kind, unusual, fate>>
  BY DEF Next, vars, Register, Revise, Refresh, Update, CreateSession, Persist, Crash, Restart,
         Send, Receive, Propose

\* So the contents that records may have stay the same.
LEMMA TypesKept ==
  ASSUME UNCHANGED <<kind, unusual, fate>>
  PROVE  Contents' = Contents /\ LiveEntries' = LiveEntries /\ Entries' = Entries /\ Bundles' = Bundles
<1>1. Contents' = Contents
  BY DEF Contents
<1>2. LiveEntries' = LiveEntries /\ Bundles' = Bundles
  BY <1>1 DEF LiveEntries, Bundles
<1> QED
  BY <1>1, <1>2 DEF Entries

\* A registry or a session gives the live record new contents or a new generation.
Rewrites == Register \/ Revise \/ Refresh \/ Update

\* What it makes is a live record, within the bounds.
LEMMA RewrittenIs ==
  ASSUME SavedInv, Rewrites
  PROVE  /\ entry' \in LiveEntries /\ running = "up"
         /\ UNCHANGED <<kind, unusual, fate, bound, journal, running, restarts, wire, inbox, proposal>>
<1>0. entry \in Entries
  BY DEF SavedInv
<1>1. 1 \in 1..MaxGeneration
  BY FirstGeneration
<1>2. CASE Register
  <2>1. PICK sample \in Contents : entry' = Entry(1, sample)
    BY <1>2 DEF Register, register_toolchain, add_source, intern
  <2> QED
    BY <1>1, <1>2, <2>1, LiveIs DEF Register, Up
<1>3. ASSUME entry.generation \in 1..(MaxGeneration - 1)
      PROVE  /\ entry \in LiveEntries /\ entry.sample \in Contents
             /\ entry.generation + 1 \in 1..MaxGeneration
  <2>1. entry.generation # 0 /\ entry.generation + 1 \in 1..MaxGeneration
    BY <1>3, BoundsAssumption, SMT
  <2>2. Absent.generation = 0
    BY DEF Absent, Entry
  <2> QED
    BY <1>0, <2>1, <2>2, EntryIs
<1>4. CASE Revise
  <2>1. PICK sample \in Contents : entry' = revise(entry, sample)
    BY <1>4 DEF Revise
  <2>2. /\ entry \in LiveEntries /\ entry.sample \in Contents
        /\ entry.generation + 1 \in 1..MaxGeneration
    BY <1>3, <1>4 DEF Revise
  <2>3. entry' = entry \/ entry' = Entry(entry.generation + 1, sample)
    BY <2>1 DEF revise
  <2>4. entry' \in LiveEntries
    BY <2>2, <2>3, LiveIs
  <2> QED
    BY <1>4, <2>4 DEF Revise, Up
<1>5. CASE Refresh
  <2>1. /\ entry \in LiveEntries /\ entry.sample \in Contents
        /\ entry.generation + 1 \in 1..MaxGeneration
    BY <1>3, <1>5 DEF Refresh
  <2>2. \/ \E sample \in Contents : entry' = refresh(entry, sample, Differ(entry.sample, sample))
        \/ entry' = invalidate(entry)
    BY <1>5 DEF Refresh
  <2>3. ASSUME \E sample \in Contents : entry' = refresh(entry, sample, Differ(entry.sample, sample))
        PROVE  entry' \in LiveEntries
    <3>1. PICK sample \in Contents : entry' = entry \/ entry' = Entry(entry.generation + 1, sample)
      BY <2>3 DEF refresh
    <3> QED
      BY <2>1, <3>1, LiveIs
  <2>4. ASSUME entry' = invalidate(entry)
        PROVE  entry' \in LiveEntries
    <3>1. entry' = Entry(entry.generation + 1, entry.sample)
      BY <2>1, <2>4, InvalidatedIs
    <3> QED
      BY <2>1, <3>1, LiveIs
  <2> QED
    BY <1>5, <2>2, <2>3, <2>4 DEF Refresh, Up
<1>6. CASE Update
  <2>1. PICK sample \in Contents : entry' = Entry(1, sample)
    BY <1>6 DEF Update
  <2> QED
    BY <1>1, <1>6, <2>1, LiveIs DEF Update, Up
<1> QED
  BY <1>2, <1>4, <1>5, <1>6 DEF Rewrites

\* The session s is stored, after it was bound to the live record or as it was.
Stores(s) ==
  /\ entry \in LiveEntries /\ running = "up" /\ journal' = Append(journal, Bundle(s, entry))
  /\ \/ bound[s] = Absent /\ (\A t \in Sessions : t < s => bound[t] # Absent) /\ bound' = [bound EXCEPT ![s] = entry]
     \/ bound[s] # Absent /\ bound' = bound
  /\ UNCHANGED <<kind, unusual, fate, entry, running, restarts, wire, inbox, proposal>>

\* A session that is created or persisted is stored with the live record.
LEMMA StoredIs ==
  ASSUME SavedInv, CreateSession \/ Persist
  PROVE  \E s \in Sessions : Stores(s)
<1>0. entry \in Entries /\ (running = "up" => \A s \in Sessions : bound[s] # Absent => entry # Absent)
  BY DEF SavedInv
<1>1. CASE CreateSession
  <2>1. entry \in LiveEntries
    BY <1>0, <1>1, EntryIs DEF CreateSession
  <2> QED
    BY <1>1, <2>1 DEF CreateSession, Up, Stores
<1>2. CASE Persist
  <2>1. PICK s \in Sessions : bound[s] # Absent /\ journal' = Append(journal, Bundle(s, entry))
    BY <1>2 DEF Persist
  <2>2. entry \in LiveEntries
    BY <1>0, <1>2, <2>1, EntryIs DEF Persist, Up
  <2> QED
    BY <1>2, <2>1, <2>2 DEF Persist, Up, Stores
<1> QED
  BY <1>1, <1>2

\* The journal after a restart: the bundles there were, and one of each session that is back.
\* A bundle whose contents are refused is the cause of a refused start.
LEMMA RestartIs ==
  ASSUME SavedInv, Restart
  PROVE  /\ JournalRestored(journal', NSessions)
         /\ \/ running' = "up" /\ entry' \in Entries /\ Restores(entry', NSessions)
            \/ running' = "refused" /\ entry' = Absent /\ \E s \in Sessions : Refuses(s)
<1> DEFINE all == Adopted[NSessions]
<1>1. AdoptedAs(all, NSessions)
  BY AdoptedIs DEF Restart
<1>2. /\ running' = IF all.ok THEN "up" ELSE "refused"
      /\ entry' = IF all.ok THEN all.entry ELSE Absent
      /\ journal' = all.journal
  BY DEF Restart
<1> HIDE DEF all
<1>3. all.ok \in BOOLEAN /\ all.entry \in Entries
  BY <1>1, SMT DEF AdoptedAs, Adoptions
<1>4. CASE all.ok
  BY <1>1, <1>2, <1>3, <1>4 DEF AdoptedAs
<1>5. CASE ~all.ok
  BY <1>1, <1>2, <1>5 DEF AdoptedAs, Sessions
<1> QED
  BY <1>4, <1>5

\* A session that is refused has a bundle with an unguarded field.
LEMMA RefusedIsUnguarded ==
  ASSUME SavedInv, kind \in Saved, NEW s, Refuses(s)
  PROVE  \E i \in 1..Len(journal) : ~Guarded(journal[i])
<1>1. PICK i \in BundlesOf(s) : Latest(s) = journal[i] /\ Latest(s) \in Bundles
  BY LatestIs DEF Refuses
<1>2. ~Guarded(Latest(s))
  BY <1>1, OutcomeIs DEF Refuses
<1>3. DOMAIN journal = 1..Len(journal)
  <2>1. journal \in Seq(Bundles)
    BY DEF SavedInv
  <2> QED
    BY <2>1, SMT
<1>4. i \in 1..Len(journal)
  BY <1>1, <1>3 DEF BundlesOf
<1> QED
  BY <1>1, <1>2, <1>4

\* The bindings after a restart are those there were.
LEMMA BoundAfterRestart ==
  ASSUME SavedInv, Restart
  PROVE  /\ bound' \in [Sessions -> Entries]
         /\ \A s \in Sessions : bound'[s] # Absent => BundlesOf(s) # {} /\ bound'[s] = bound[s]
         /\ \A s \in Sessions : BundlesOf(s) # {} => bound'[s] = bound[s]
<1>1. bound' = [s \in Sessions |-> IF BundlesOf(s) = {} THEN Absent ELSE bound[s]]
  BY DEF Restart
<1>2. bound \in [Sessions -> Entries] /\ Absent \in Entries
  BY DEF SavedInv, Entries
<1>3. \A s \in Sessions : (IF BundlesOf(s) = {} THEN Absent ELSE bound[s]) \in Entries
  BY <1>2
<1>4. \A s \in Sessions : bound'[s] = IF BundlesOf(s) = {} THEN Absent ELSE bound[s]
  BY <1>1
<1>5. bound' \in [Sessions -> Entries]
  BY <1>1, <1>3
<1> QED
  BY <1>4, <1>5

\* A restart keeps the invariant.
LEMMA RestartKeepsSaved ==
  ASSUME SavedInv, Restart
  PROVE  SavedInv'
<1>1. /\ UNCHANGED <<kind, unusual, fate, wire, inbox>> /\ restarts' = restarts + 1 /\ running = "down"
      /\ kind \in Saved
  BY DEF Restart
<1>2. /\ Contents' = Contents /\ Entries' = Entries /\ Bundles' = Bundles
  BY <1>1, TypesKept
<1>3. Absent \in Entries
  BY DEF Entries
<1>4. /\ JournalRestored(journal', NSessions) /\ entry' \in Entries
      /\ \/ running' = "up" /\ Restores(entry', NSessions)
         \/ running' = "refused" /\ \E s \in Sessions : Refuses(s)
  BY <1>3, RestartIs
<1>5. /\ kind \in Kinds /\ unusual \in Samples[kind] /\ fate = Fate(kind, unusual)
      /\ wire \in Contents /\ inbox \in {"none", "as sent", "refused", "altered"}
      /\ restarts \in 0..MaxRestarts /\ restarts < MaxRestarts
  BY <1>1 DEF SavedInv
<1>6. restarts' \in 0..MaxRestarts
  <2>1. \A m \in Nat : \A r \in 0..m : r < m => r + 1 \in 0..m
    BY SMT
  <2> QED
    BY <1>1, <1>5, <2>1, BoundsAssumption
<1>7. /\ bound' \in [Sessions -> Entries]
      /\ \A s \in Sessions : bound'[s] # Absent => BundlesOf(s) # {}
  BY BoundAfterRestart
<1>8. ASSUME running' = "up", NEW s \in Sessions, bound'[s] # Absent
      PROVE  entry' # Absent
  <2>1. BundlesOf(s) # {} /\ Restores(entry', NSessions) /\ s \in 1..NSessions
    BY <1>4, <1>7, <1>8 DEF Sessions
  <2>2. PICK t \in 1..NSessions : Returns(t) /\ entry' = Reinstated(Latest(t))
    BY <2>1 DEF Restores
  <2>3. Latest(t) \in Bundles /\ Outcome(Latest(t)) = "as sent"
    BY <2>2, LatestIs DEF Returns
  <2>4. entry' \in LiveEntries
    BY <2>2, <2>3, ReinstatedIs
  <2> QED
    BY <2>4, LiveFields
<1>9. ASSUME running' = "refused"
      PROVE  \E i \in DOMAIN journal' : ~(journal'[i].sample.path \notin Unguarded[kind])
  <2>1. PICK i \in 1..Len(journal) : ~Guarded(journal[i])
    BY <1>1, <1>4, <1>9, RefusedIsUnguarded
  <2>2. journal'[i] = journal[i] /\ journal' \in Seq(Bundles) /\ Len(journal) <= Len(journal')
    BY <1>4, <2>1 DEF JournalRestored
  <2>3. journal \in Seq(Bundles)
    BY DEF SavedInv
  <2>4. i \in DOMAIN journal'
    BY <2>1, <2>2, <2>3, SMT
  <2> QED
    BY <2>1, <2>2, <2>4 DEF Guarded
<1>10. journal' \in Seq(Bundles)
  BY <1>4 DEF JournalRestored
<1>11. Absent' = Absent
  BY DEF Absent, Entry
<1> QED
  BY <1>1, <1>2, <1>4, <1>5, <1>6, <1>7, <1>8, <1>9, <1>10, <1>11 DEF SavedInv, Guarded

\* Every step keeps the invariant.
LEMMA SavedStep ==
  ASSUME SavedInv, [Next]_vars
  PROVE  SavedInv'
<1>1. UNCHANGED <<kind, unusual, fate>>
  BY KindKept
<1>2. Contents' = Contents /\ Entries' = Entries /\ Bundles' = Bundles
  BY <1>1, TypesKept
<1>3. /\ kind \in Kinds /\ unusual \in Samples[kind] /\ fate = Fate(kind, unusual)
      /\ entry \in Entries /\ bound \in [Sessions -> Entries] /\ journal \in Seq(Bundles)
      /\ running \in {"up", "down", "refused"} /\ restarts \in 0..MaxRestarts
      /\ running = "down" => restarts < MaxRestarts
      /\ running = "up" => \A s \in Sessions : bound[s] # Absent => entry # Absent
      /\ running = "refused" => \E i \in DOMAIN journal : ~Guarded(journal[i])
      /\ wire \in Contents /\ inbox \in {"none", "as sent", "refused", "altered"}
  BY DEF SavedInv
<1>4. CASE Rewrites
  <2>1. /\ entry' \in LiveEntries /\ running = "up"
        /\ UNCHANGED <<bound, journal, running, restarts, wire, inbox>>
    BY <1>4, RewrittenIs
  <2>2. entry' \in Entries /\ entry' # Absent
    BY <2>1, LiveFields DEF Entries
  <2> QED
    BY <1>1, <1>2, <1>3, <2>1, <2>2 DEF SavedInv
<1>5. CASE CreateSession \/ Persist
  <2>1. PICK s \in Sessions : Stores(s)
    BY <1>5, StoredIs
  <2>2. entry \in LiveEntries /\ entry # Absent /\ running = "up"
    BY <2>1, LiveFields DEF Stores
  <2>3. bound' \in [Sessions -> Entries]
    BY <1>3, <2>1 DEF Stores
  <2>4. Bundle(s, entry) \in Bundles
    BY <2>2, BundleIs
  <2>5. journal' \in Seq(Bundles)
    <3>1. Appended(Append(journal, Bundle(s, entry)), journal, Bundle(s, entry), Bundles)
      BY <1>3, <2>4, JournalIs
    <3> QED
      BY <2>1, <3>1 DEF Appended, Stores
  <2>6. UNCHANGED <<entry, running, restarts, wire, inbox>>
    BY <2>1 DEF Stores
  <2> QED
    BY <1>1, <1>2, <1>3, <2>2, <2>3, <2>5, <2>6 DEF SavedInv
<1>6. CASE Crash
  <2>1. /\ running' = "down" /\ entry' = Absent /\ restarts < MaxRestarts
        /\ UNCHANGED <<bound, journal, restarts, wire, inbox>>
    BY <1>6 DEF Crash
  <2> QED
    BY <1>1, <1>2, <1>3, <2>1 DEF SavedInv, Entries
<1>7. CASE Restart
  BY <1>7, RestartKeepsSaved
<1>8. CASE Send \/ Receive
  <2>1. /\ UNCHANGED <<entry, bound, journal, running, restarts>>
        /\ \/ wire' = unusual /\ inbox' = inbox
           \/ wire' = wire /\ inbox' = Becomes(wire)
    BY <1>8 DEF Send, Receive
  <2>2. unusual \in Contents
    BY DEF Contents
  <2>3. Becomes(wire) \in {"as sent", "refused", "altered"}
    <3>1. fate \in [ordinary : Outcomes, unusual : Outcomes, differ : BOOLEAN]
      BY <1>3, CodecAssumption
    <3>2. fate.ordinary \in Outcomes /\ fate.unusual \in Outcomes
      BY <3>1, SMT
    <3> QED
      BY <3>2 DEF Becomes, Outcomes
  <2>4. wire' \in Contents /\ inbox' \in {"none", "as sent", "refused", "altered"}
    BY <1>3, <2>1, <2>2, <2>3
  <2> QED
    BY <1>1, <1>2, <1>3, <2>1, <2>4 DEF SavedInv, Guarded
<1>9. CASE Propose \/ UNCHANGED vars
  <2>1. UNCHANGED <<entry, bound, journal, running, restarts, wire, inbox>>
    BY <1>9 DEF Propose, vars
  <2> QED
    BY <1>1, <1>2, <1>3, <2>1 DEF SavedInv, Guarded
<1> QED
  BY <1>4, <1>5, <1>6, <1>7, <1>8, <1>9 DEF Next, Rewrites

\* The invariant holds at the start.
LEMMA SavedStart == Init => SavedInv
<1> SUFFICES ASSUME Init
             PROVE  SavedInv
  OBVIOUS
<1>1. /\ kind \in Kinds /\ unusual \in Samples[kind] /\ fate = Fate(kind, unusual)
      /\ entry = Absent /\ bound = [s \in Sessions |-> Absent] /\ journal = <<>>
      /\ running = "up" /\ restarts = 0 /\ wire = Plain /\ inbox = "none"
  BY DEF Init
<1>2. Absent \in Entries /\ Plain \in Contents
  BY DEF Entries, Contents
<1>3. bound \in [Sessions -> Entries] /\ \A s \in Sessions : bound[s] = Absent
  BY <1>1, <1>2
<1>4. journal \in Seq(Bundles)
  <2>1. \A X : <<>> \in Seq(X)
    BY SMT
  <2> QED
    BY <1>1, <2>1
<1>5. restarts \in 0..MaxRestarts
  <2>1. \A m \in Nat : 0 \in 0..m
    BY SMT
  <2> QED
    BY <1>1, <2>1, BoundsAssumption
<1> QED
  BY <1>1, <1>2, <1>3, <1>4, <1>5 DEF SavedInv

\* The invariant holds in every state, for any number of sessions, of restarts and of
\* bundles, and for every codec that reads back what it wrote or refuses it.
THEOREM SavedInvariant == Spec => []SavedInv
  BY SavedStart, SavedStep, PTL DEF Spec

\* The record that is followed, the bundles in the journal and the message under way
\* are what they may be, through every crash and restart of Runtime::create.
THEOREM SavedTypes == Spec => []SavedTypeOK
<1>1. SavedInv => SavedTypeOK
  <2> SUFFICES ASSUME SavedInv
               PROVE  SavedTypeOK
    OBVIOUS
  <2>1. /\ kind \in Kinds /\ entry \in Entries /\ journal \in Seq(Bundles)
        /\ running \in {"up", "down", "refused"} /\ restarts \in 0..MaxRestarts
        /\ inbox \in {"none", "as sent", "refused", "altered"}
    BY DEF SavedInv
  <2>2. entry.generation \in 0..MaxGeneration
    <3>1. \A m \in Nat : 0 \in 0..m /\ \A g \in 1..m : g \in 0..m
      BY SMT
    <3>2. MaxGeneration \in Nat
      BY BoundsAssumption
    <3>3. Absent.generation = 0
      BY DEF Absent, Entry
    <3> QED
      BY <2>1, <3>1, <3>2, <3>3, EntryIs
  <2>3. \A i \in DOMAIN journal : journal[i] \in Bundles
    <3>1. \A X : \A j \in Seq(X) : \A i \in DOMAIN j : j[i] \in X
      BY SMT
    <3> QED
      BY <2>1, <3>1
  <2> QED
    BY <2>1, <2>2, <2>3, BundleFields DEF SavedTypeOK
<1> QED
  BY <1>1, SavedInvariant, PTL

\* Runtime::create refuses to start on state of its own writing only when some bundle
\* holds a field that nothing limits before it is stored.
THEOREM StartsOnGuardedState == Spec => []RefusesOnlyUnguarded
<1>1. SavedInv => RefusesOnlyUnguarded
  BY DEF SavedInv, RefusesOnlyUnguarded
<1> QED
  BY <1>1, SavedInvariant, PTL

----------------------------------------------------------------------------
(* What a restart puts back. *)

\* The bundles of the highest session in the journal.
Written == {i \in DOMAIN journal : \A j \in DOMAIN journal : journal[j].session <= journal[i].session}

\* The bundle that decides is the last one of the highest session in the journal.
LEMMA DecidingIs ==
  ASSUME SavedInv, journal # <<>>
  PROVE  \E i \in DOMAIN journal :
           /\ Deciding = journal[i] /\ journal[i] \in Bundles
           /\ \A j \in DOMAIN journal : journal[j].session <= journal[i].session
           /\ \A j \in DOMAIN journal : journal[j].session = journal[i].session => j <= i
<1>1. journal \in Seq(Bundles)
  BY DEF SavedInv
<1>2. /\ Len(journal) \in Nat /\ DOMAIN journal = 1..Len(journal)
      /\ 1 \in DOMAIN journal /\ \A i \in 1..Len(journal) : journal[i] \in Bundles
  BY <1>1, SMT
<1> DEFINE T == {journal[i].session : i \in DOMAIN journal}
<1>3. NSessions \in Nat /\ T \in SUBSET (1..NSessions) /\ T # {}
  BY <1>2, BundleFields, BoundsAssumption DEF Sessions
<1>4. PICK h \in T : \A x \in T : x <= h
  <2> HIDE DEF T
  <2> QED
    BY <1>3, GreatestIndex
<1>5. Written \in SUBSET (1..Len(journal)) /\ Written # {}
  BY <1>2, <1>4 DEF Written
<1>6. \E i \in Written : \A j \in Written : j <= i
  BY <1>2, <1>5, GreatestIndex
<1> DEFINE last == CHOOSE i \in Written : \A j \in Written : j <= i
<1>7. last \in Written /\ \A j \in Written : j <= last
  BY <1>6
<1>8. Deciding = journal[last]
  BY DEF Deciding, Written
<1> HIDE DEF last
<1>9. \A j \in DOMAIN journal : journal[j].session = journal[last].session => j \in Written
  BY <1>7 DEF Written
<1>10. last \in DOMAIN journal /\ \A j \in DOMAIN journal : journal[j].session <= journal[last].session
  BY <1>7 DEF Written
<1> QED
  BY <1>2, <1>7, <1>8, <1>9, <1>10

\* When its contents are guarded, it is what a restart puts back.
LEMMA DecidingIsRestored ==
  ASSUME SavedInv, Restart, running' = "up", journal # <<>>, Guarded(Deciding)
  PROVE  /\ entry'.sample = Deciding.sample
         /\ kind = "toolchain" => entry'.generation = Deciding.generation
<1>1. PICK i \in DOMAIN journal :
        /\ Deciding = journal[i] /\ journal[i] \in Bundles
        /\ \A j \in DOMAIN journal : journal[j].session <= journal[i].session
        /\ \A j \in DOMAIN journal : journal[j].session = journal[i].session => j <= i
  BY DecidingIs
<1> DEFINE h == Deciding.session
<1>2. kind \in Saved
  BY DEF Restart
<1>3. Outcome(Deciding) = "as sent" /\ h \in 1..NSessions
  BY <1>1, <1>2, OutcomeIs, BundleFields DEF Sessions
<1>4. i \in BundlesOf(h)
  BY <1>1, <1>3 DEF BundlesOf, PassedOver
<1>5. Latest(h) = Deciding
  <2>1. PICK k \in BundlesOf(h) : Latest(h) = journal[k] /\ \A j \in BundlesOf(h) : j <= k
    BY <1>4, LatestIs
  <2>2. k \in DOMAIN journal /\ journal[k].session = journal[i].session
    BY <1>1, <2>1 DEF BundlesOf
  <2>3. k <= i /\ i <= k
    BY <1>1, <1>4, <2>1, <2>2
  <2>4. k = i
    <3>1. journal \in Seq(Bundles)
      BY DEF SavedInv
    <3>2. DOMAIN journal \subseteq Nat
      BY <3>1, SMT
    <3>3. \A x, y \in Nat : x <= y /\ y <= x => x = y
      BY SMT
    <3> QED
      BY <1>1, <2>2, <2>3, <3>2, <3>3
  <2> QED
    BY <1>1, <2>1, <2>4
<1>6. \A t \in 1..NSessions : BundlesOf(t) # {} => t <= h
  BY <1>1 DEF BundlesOf
<1>7. Restores(entry', NSessions)
  BY RestartIs
<1>8. PICK s \in 1..NSessions : /\ Returns(s) /\ entry' = Reinstated(Latest(s))
                                /\ \A t \in 1..NSessions : s < t => BundlesOf(t) = {}
  BY <1>3, <1>4, <1>7 DEF Restores
<1>9. s = h
  <2>1. s <= h /\ ~(s < h)
    BY <1>3, <1>4, <1>6, <1>8 DEF Returns
  <2>2. \A x, y \in 1..NSessions : x <= y /\ ~(x < y) => x = y
    BY BoundsAssumption, SMT
  <2> HIDE DEF h
  <2> QED
    BY <1>3, <1>8, <2>1, <2>2
<1>10. entry' = Reinstated(Deciding)
  BY <1>5, <1>8, <1>9
<1> QED
  BY <1>1, <1>3, <1>10, ReinstatedIs

\* A restart puts back the last contents that were stored, whatever their magnitude, in
\* every record but those with an unguarded field; a toolchain returns with the
\* generation it had.
THEOREM StoredIsRestored == Spec => SavedIsRestored
<1>1. ASSUME SavedInv, [Next]_vars, running = "down", running' = "up", journal # <<>>, Guarded(Deciding)
      PROVE  /\ entry'.sample = Deciding.sample
             /\ kind = "toolchain" => entry'.generation = Deciding.generation
  <2>1. Restart
    BY <1>1 DEF Next, vars, Register, Revise, Refresh, Update, CreateSession, Persist, Crash, Up,
                Send, Receive, Propose
  <2> QED
    BY <1>1, <2>1, DecidingIsRestored
<1>2. SavedInv /\ [Next]_vars
      => [running = "down" /\ running' = "up" /\ journal # <<>> /\ Guarded(Deciding)
            => /\ entry'.sample = Deciding.sample
               /\ kind = "toolchain" => entry'.generation = Deciding.generation]_vars
  BY <1>1
<1> QED
  BY <1>2, SavedInvariant, PTL DEF Spec, SavedIsRestored

----------------------------------------------------------------------------
(* Generations across restarts. *)

\* Contents that a generation does not tell apart.
Same(a, b) == a = b \/ (kind = "toolchain" /\ ~fate.differ)

\* a is older than b, or both are of the generation that names their contents.
NotNewer(a, b) ==
  a.generation <= b.generation /\ (a.generation = b.generation => Same(a.sample, b.sample))

\* The generations of toolchains and of sources survive a restart.
Continuous == kind \in {"toolchain", "source"} \/ (kind \in Registered /\ restarts = 0)

\* Sessions are bound in the order of their creation, to ever newer entries; the bundles
\* of a session are never older than what it was bound to.
InOrder(b, j) ==
  /\ \A s, t \in Sessions : s < t /\ b[t] # Absent => b[s] # Absent /\ NotNewer(b[s], b[t])
  /\ \A i \in DOMAIN j : b[j[i].session] # Absent /\ NotNewer(b[j[i].session], j[i])
  /\ \A s \in Sessions : b[s] # Absent => \E i \in DOMAIN j : j[i].session = s

\* No session is bound to anything newer than e.
Newest(b, e) == \A s \in Sessions : b[s] # Absent => NotNewer(b[s], e)

OrderInv == Continuous => InOrder(bound, journal) /\ (running = "up" => Newest(bound, entry))

Generational(x) == x.generation \in Nat

\* Of three entries, the first is not newer than the last.
LEMMA NotNewerThan ==
  ASSUME NEW a, NEW b, NEW c, Generational(a), Generational(b), Generational(c), NotNewer(a, b), NotNewer(b, c)
  PROVE  NotNewer(a, c)
<1>1. /\ \A x, y, z \in Nat : x <= y /\ y <= z => x <= z /\ (x = z => x = y /\ y = z)
  BY SMT
<1>2. /\ a.generation \in Nat /\ b.generation \in Nat /\ c.generation \in Nat
      /\ a.generation <= b.generation /\ b.generation <= c.generation
  BY DEF NotNewer, Generational
<1>3. a.generation <= c.generation
  BY <1>1, <1>2
<1>4. ASSUME a.generation = c.generation
      PROVE  Same(a.sample, c.sample)
  <2>1. a.generation = b.generation /\ b.generation = c.generation
    BY <1>1, <1>2, <1>4
  <2> QED
    BY <2>1 DEF NotNewer, Same
<1> QED
  BY <1>3, <1>4 DEF NotNewer

\* Entries and bundles have generations.
LEMMA GenerationsAre ==
  /\ \A e \in Entries : Generational(e)
  /\ \A b \in Bundles : Generational(b)
<1>1. 0 \in Nat /\ \A g \in 1..MaxGeneration : g \in Nat
  BY BoundsAssumption, SMT
<1>2. \A e \in Entries : Generational(e)
  <2>1. Absent.generation = 0
    BY DEF Absent, Entry
  <2> QED
    BY <1>1, <2>1, EntryIs DEF Generational
<1> QED
  BY <1>1, <1>2, BundleFields DEF Generational

\* Every entry is as new as itself.
LEMMA AsNew ==
  ASSUME NEW e, NEW f, Generational(e), e.generation = f.generation, e.sample = f.sample
  PROVE  NotNewer(e, f)
<1>1. e.generation <= f.generation
  <2>1. \A x \in Nat : x <= x
    BY SMT
  <2> QED
    BY <2>1 DEF Generational
<1> QED
  BY <1>1 DEF NotNewer, Same

\* A registry changes contents only under a new generation.
LEMMA RewrittenIsNewer ==
  ASSUME SavedInv, Rewrites, kind \in Registered, entry # Absent
  PROVE  NotNewer(entry, entry')
<1>1. entry \in LiveEntries /\ Generational(entry)
  BY EntryIs, GenerationsAre DEF SavedInv
<1>2. ASSUME NEW x PROVE NotNewer(entry, Entry(entry.generation + 1, x))
  <2>1. \A g \in Nat : g <= g + 1 /\ g # g + 1
    BY SMT
  <2>2. Entry(entry.generation + 1, x).generation = entry.generation + 1
    BY DEF Entry
  <2> QED
    BY <1>1, <2>1, <2>2 DEF NotNewer, Generational
<1>3. NotNewer(entry, entry)
  BY <1>1, AsNew
<1>4. ~Register /\ ~Update
  BY DEF Register, Update, Registered, Owned
<1>5. CASE Revise
  <2>1. PICK sample \in Contents : entry' = revise(entry, sample)
    BY <1>5 DEF Revise
  <2>2. entry' = entry \/ entry' = Entry(entry.generation + 1, sample)
    BY <2>1 DEF revise
  <2> QED
    BY <1>2, <1>3, <2>2
<1>6. CASE Refresh
  <2>1. CASE \E sample \in Contents : entry' = refresh(entry, sample, Differ(entry.sample, sample))
    <3>1. PICK sample \in Contents : entry' = entry \/ entry' = Entry(entry.generation + 1, sample)
      BY <2>1 DEF refresh
    <3> QED
      BY <1>2, <1>3, <3>1
  <2>2. CASE entry' = invalidate(entry)
    <3>1. entry' = Entry(entry.generation + 1, entry.sample)
      BY <1>1, <2>2, InvalidatedIs
    <3> QED
      BY <1>2, <3>1
  <2> QED
    BY <1>6, <2>1, <2>2 DEF Refresh
<1> QED
  BY <1>4, <1>5, <1>6 DEF Rewrites

\* Newer, as it reads in the next state.
LEMMA OrderNext ==
  ASSUME UNCHANGED <<kind, fate>>
  PROVE  /\ InOrder(bound, journal)' <=> InOrder(bound', journal')
         /\ Newest(bound, entry)' <=> Newest(bound', entry')
<1>1. Absent' = Absent
  BY DEF Absent, Entry
<1> QED
  BY <1>1 DEF InOrder, Newest, NotNewer, Same

\* The fields of a bundle that is as new as an entry are what counts.
LEMMA AsNewAs ==
  ASSUME NEW a, NEW b, NEW c, NotNewer(a, b), b.generation = c.generation, b.sample = c.sample
  PROVE  NotNewer(a, c)
  BY DEF NotNewer

\* Storing a session keeps the order.
LEMMA StoresInOrder ==
  ASSUME SavedInv, NEW s \in Sessions, Stores(s), InOrder(bound, journal), Newest(bound, entry)
  PROVE  InOrder(bound', journal') /\ Newest(bound', entry)
<1> DEFINE b == Bundle(s, entry)
           n == Len(journal)
<1>1. /\ entry \in LiveEntries /\ journal' = Append(journal, b)
      /\ bound \in [Sessions -> Entries] /\ journal \in Seq(Bundles)
  BY DEF Stores, SavedInv
<1>2. /\ b \in Bundles /\ b.session = s /\ b.generation = entry.generation /\ b.sample = entry.sample
  BY <1>1, BundleIs
<1> HIDE DEF b
<1>3. Appended(journal', journal, b, Bundles)
  BY <1>1, <1>2, JournalIs
<1>4. /\ DOMAIN journal = 1..n /\ DOMAIN journal' = 1..n + 1
      /\ \A i \in 1..n : i \in 1..n + 1 /\ journal'[i] = journal[i] /\ journal[i].session \in Sessions
      /\ journal'[n + 1] = b /\ n + 1 \in 1..n + 1 /\ \A i \in 1..n + 1 : i \in 1..n \/ i = n + 1
  BY <1>3, BundleFields DEF Appended
<1> HIDE DEF n
<1>5. entry # Absent /\ NotNewer(entry, entry) /\ NotNewer(entry, b)
  <2>1. Generational(entry) /\ entry # Absent
    BY <1>1, GenerationsAre, LiveFields DEF Entries
  <2> QED
    BY <1>2, <2>1, AsNew
<1>6. /\ \A u, t \in Sessions : u < t /\ bound[t] # Absent => bound[u] # Absent /\ NotNewer(bound[u], bound[t])
      /\ \A i \in 1..n : bound[journal[i].session] # Absent /\ NotNewer(bound[journal[i].session], journal[i])
      /\ \A u \in Sessions : bound[u] # Absent => \E i \in 1..n : journal[i].session = u
      /\ \A u \in Sessions : bound[u] # Absent => NotNewer(bound[u], entry)
  BY <1>4 DEF InOrder, Newest
<1>7. CASE bound[s] # Absent /\ bound' = bound
  <2>1. NotNewer(bound[s], b)
    BY <1>2, <1>6, <1>7, AsNewAs
  <2>2. \A i \in 1..n + 1 : bound[journal'[i].session] # Absent /\ NotNewer(bound[journal'[i].session], journal'[i])
    BY <1>2, <1>4, <1>6, <1>7, <2>1
  <2>3. \A u \in Sessions : bound[u] # Absent => \E i \in 1..n + 1 : journal'[i].session = u
    BY <1>4, <1>6
  <2> QED
    BY <1>4, <1>6, <1>7, <2>2, <2>3 DEF InOrder, Newest
<1>8. CASE /\ bound[s] = Absent /\ \A t \in Sessions : t < s => bound[t] # Absent
           /\ bound' = [bound EXCEPT ![s] = entry]
  <2>1. bound'[s] = entry /\ \A t \in Sessions : t # s => bound'[t] = bound[t]
    BY <1>1, <1>8
  <2>2. ASSUME NEW u \in Sessions, NEW t \in Sessions, u < t, bound'[t] # Absent
        PROVE  bound'[u] # Absent /\ NotNewer(bound'[u], bound'[t])
    <3>1. CASE t = s
      <4>1. u # s
        <5>1. \A x \in Sessions : ~(x < x)
          BY BoundsAssumption, SMT DEF Sessions
        <5> QED
          BY <2>2, <3>1, <5>1
      <4>2. bound[u] # Absent
        BY <1>8, <2>2, <3>1
      <4> QED
        BY <1>6, <2>1, <3>1, <4>1, <4>2
    <3>2. CASE t # s
      <4>1. bound'[t] = bound[t] /\ bound[u] # Absent /\ NotNewer(bound[u], bound[t])
        BY <1>6, <2>1, <2>2, <3>2
      <4>2. u # s
        BY <1>8, <4>1
      <4> QED
        BY <2>1, <4>1, <4>2
    <3> QED
      BY <3>1, <3>2
  <2>3. ASSUME NEW i \in 1..n + 1
        PROVE  bound'[journal'[i].session] # Absent /\ NotNewer(bound'[journal'[i].session], journal'[i])
    <3>1. CASE i \in 1..n
      <4>1. /\ journal'[i] = journal[i] /\ bound[journal[i].session] # Absent /\ journal[i].session \in Sessions
            /\ NotNewer(bound[journal[i].session], journal[i])
        BY <1>4, <1>6, <3>1
      <4>2. journal[i].session # s
        BY <1>8, <4>1
      <4> QED
        BY <2>1, <4>1, <4>2
    <3>2. CASE i = n + 1
      BY <1>2, <1>4, <1>5, <2>1, <3>2
    <3> QED
      BY <1>4, <3>1, <3>2
  <2>4. ASSUME NEW u \in Sessions, bound'[u] # Absent
        PROVE  \E i \in 1..n + 1 : journal'[i].session = u
    <3>1. CASE u = s
      BY <1>2, <1>4, <3>1
    <3>2. CASE u # s
      <4>1. PICK i \in 1..n : journal[i].session = u
        BY <1>6, <2>1, <2>4, <3>2
      <4> QED
        BY <1>4, <4>1
    <3> QED
      BY <3>1, <3>2
  <2>5. \A u \in Sessions : bound'[u] # Absent => NotNewer(bound'[u], entry)
    BY <1>5, <1>6, <2>1
  <2> QED
    BY <1>4, <2>2, <2>3, <2>4, <2>5 DEF InOrder, Newest
<1> QED
  BY <1>7, <1>8 DEF Stores

\* Reading the journal back keeps the order, and the last session's bundle is the newest.
LEMMA RestartInOrder ==
  ASSUME SavedInv, Restart, kind \in {"toolchain", "source"}, InOrder(bound, journal)
  PROVE  /\ bound' = bound /\ InOrder(bound, journal')
         /\ running' = "up" => Newest(bound, entry')
<1>1. /\ bound \in [Sessions -> Entries] /\ journal \in Seq(Bundles) /\ Sessions = 1..NSessions
  BY DEF SavedInv, Sessions
<1>2. /\ \A u, t \in Sessions : u < t /\ bound[t] # Absent => bound[u] # Absent /\ NotNewer(bound[u], bound[t])
      /\ \A i \in DOMAIN journal : bound[journal[i].session] # Absent /\ NotNewer(bound[journal[i].session], journal[i])
      /\ \A u \in Sessions : bound[u] # Absent => \E i \in DOMAIN journal : journal[i].session = u
  BY DEF InOrder
<1>3. \A u \in Sessions : bound[u] # Absent => BundlesOf(u) # {}
  BY <1>2 DEF BundlesOf, PassedOver
<1>4. bound' = bound
  <2>1. bound' \in [Sessions -> Entries]
    BY BoundAfterRestart
  <2>2. \A u \in Sessions : bound'[u] = bound[u]
    <3>1. bound' = [s \in Sessions |-> IF BundlesOf(s) = {} THEN Absent ELSE bound[s]]
      BY DEF Restart
    <3> QED
      BY <1>3, <3>1
  <2>3. \A f, g \in [Sessions -> Entries] : (\A u \in Sessions : f[u] = g[u]) => f = g
    BY SMT
  <2> QED
    BY <1>1, <2>1, <2>2, <2>3
<1>5. ASSUME NEW t \in Sessions, Returns(t)
      PROVE  /\ bound[t] # Absent /\ Reinstated(Latest(t)) \in LiveEntries
             /\ NotNewer(bound[t], Reinstated(Latest(t)))
  <2>1. PICK k \in BundlesOf(t) : Latest(t) = journal[k] /\ Latest(t) \in Bundles /\ Latest(t).session = t
    BY <1>5, LatestIs DEF Returns
  <2>2. bound[t] # Absent /\ NotNewer(bound[t], Latest(t))
    BY <1>2, <2>1 DEF BundlesOf
  <2>3. /\ Reinstated(Latest(t)) \in LiveEntries /\ Reinstated(Latest(t)).sample = Latest(t).sample
        /\ Reinstated(Latest(t)).generation = Latest(t).generation
    BY <1>5, <2>1, ReinstatedIs DEF Returns
  <2> QED
    BY <2>2, <2>3, AsNewAs
<1>6. /\ JournalRestored(journal', NSessions)
      /\ running' = "up" => Restores(entry', NSessions)
  BY RestartIs
<1>7. /\ journal' \in Seq(Bundles) /\ \A i \in 1..Len(journal) : journal'[i] = journal[i]
      /\ \A i \in 1..Len(journal') : Len(journal) < i =>
           \E s \in 1..NSessions : Returns(s) /\ journal'[i] = Bundle(s, Reinstated(Latest(s)))
      /\ Len(journal) <= Len(journal')
  BY <1>6 DEF JournalRestored
<1>8. /\ DOMAIN journal = 1..Len(journal) /\ DOMAIN journal' = 1..Len(journal')
      /\ \A i \in 1..Len(journal) : i \in 1..Len(journal')
      /\ \A i \in 1..Len(journal') : i \in 1..Len(journal) \/ Len(journal) < i
  <2>1. \A X : \A j, k \in Seq(X) : Len(j) <= Len(k) =>
          /\ DOMAIN j = 1..Len(j) /\ DOMAIN k = 1..Len(k) /\ \A i \in 1..Len(j) : i \in 1..Len(k)
          /\ \A i \in 1..Len(k) : i \in 1..Len(j) \/ Len(j) < i
    BY SMT
  <2> QED
    BY <1>1, <1>7, <2>1
<1>9. ASSUME NEW i \in 1..Len(journal')
      PROVE  bound[journal'[i].session] # Absent /\ NotNewer(bound[journal'[i].session], journal'[i])
  <2>1. CASE i \in 1..Len(journal)
    BY <1>2, <1>7, <1>8, <2>1
  <2>2. CASE Len(journal) < i
    <3>1. PICK t \in Sessions : Returns(t) /\ journal'[i] = Bundle(t, Reinstated(Latest(t)))
      BY <1>1, <1>7, <2>2
    <3> DEFINE e == Reinstated(Latest(t))
    <3>2. e \in LiveEntries /\ bound[t] # Absent /\ NotNewer(bound[t], e) /\ journal'[i] = Bundle(t, e)
      BY <1>5, <3>1
    <3> HIDE DEF e
    <3>3. /\ Bundle(t, e).session = t /\ Bundle(t, e).generation = e.generation
          /\ Bundle(t, e).sample = e.sample
      BY <3>2, BundleIs
    <3>4. NotNewer(bound[t], Bundle(t, e))
      BY <3>2, <3>3, AsNewAs
    <3> QED
      BY <3>2, <3>3, <3>4
  <2> QED
    BY <1>8, <2>1, <2>2
<1>10. ASSUME NEW u \in Sessions, bound[u] # Absent
       PROVE  \E i \in 1..Len(journal') : journal'[i].session = u
  <2>1. PICK i \in 1..Len(journal) : journal[i].session = u
    BY <1>2, <1>8, <1>10
  <2> QED
    BY <1>7, <1>8, <2>1
<1>11. ASSUME running' = "up", NEW u \in Sessions, bound[u] # Absent
       PROVE  NotNewer(bound[u], entry')
  <2>1. BundlesOf(u) # {} /\ Restores(entry', NSessions)
    BY <1>3, <1>6, <1>11
  <2>2. PICK h \in Sessions : /\ Returns(h) /\ entry' = Reinstated(Latest(h))
                              /\ \A t \in Sessions : h < t => BundlesOf(t) = {}
    BY <1>1, <2>1 DEF Restores
  <2>3. /\ bound[h] # Absent /\ entry' \in LiveEntries /\ NotNewer(bound[h], entry')
    BY <1>5, <2>2
  <2>4. u = h \/ u < h
    <3>1. \A x, y \in Sessions : ~(x < y) => y = x \/ y < x
      BY BoundsAssumption, SMT DEF Sessions
    <3> QED
      BY <2>1, <2>2, <3>1
  <2>5. CASE u < h
    <3>1. NotNewer(bound[u], bound[h])
      BY <1>2, <2>3, <2>5
    <3>2. Generational(bound[u]) /\ Generational(bound[h]) /\ Generational(entry')
      BY <1>1, <2>3, GenerationsAre DEF Entries
    <3> QED
      BY <2>3, <3>1, <3>2, NotNewerThan
  <2> QED
    BY <2>3, <2>4, <2>5
<1> QED
  BY <1>2, <1>4, <1>8, <1>9, <1>10, <1>11 DEF InOrder, Newest

\* Every step keeps the order.
LEMMA OrderStep ==
  ASSUME SavedInv, OrderInv, [Next]_vars
  PROVE  OrderInv'
<1>1. UNCHANGED <<kind, unusual, fate>>
  BY KindKept
<1> SUFFICES ASSUME Continuous'
             PROVE  InOrder(bound', journal') /\ (running' = "up" => Newest(bound', entry'))
  BY <1>1, OrderNext DEF OrderInv
<1>2. kind \in {"toolchain", "source"} \/ (kind \in Registered /\ restarts' = 0)
  BY <1>1 DEF Continuous
<1>3. kind \in Registered
  BY <1>2 DEF Registered
<1>4. CASE Restart
  <2>1. kind \in {"toolchain", "source"}
    <3>1. \A m \in Nat : \A r \in 0..m : r + 1 # 0
      BY SMT
    <3>2. restarts' # 0
      BY <1>4, <3>1, BoundsAssumption DEF Restart, SavedInv
    <3> QED
      BY <1>2, <3>2
  <2>2. InOrder(bound, journal)
    BY <2>1 DEF OrderInv, Continuous
  <2> QED
    BY <1>4, <2>1, <2>2, RestartInOrder
<1>5. ASSUME ~Restart
      PROVE  restarts' = restarts
  BY <1>5 DEF Next, vars, Register, Revise, Refresh, Update, CreateSession, Persist, Crash,
              Send, Receive, Propose
<1>6. ASSUME ~Restart
      PROVE  InOrder(bound, journal) /\ (running = "up" => Newest(bound, entry))
  BY <1>2, <1>5, <1>6 DEF OrderInv, Continuous
<1>7. CASE Rewrites /\ ~Restart
  <2>1. /\ entry' \in LiveEntries /\ running = "up" /\ UNCHANGED <<bound, journal, running>>
    BY <1>7, RewrittenIs
  <2>2. /\ bound \in [Sessions -> Entries] /\ entry \in Entries
        /\ \A s \in Sessions : bound[s] # Absent => entry # Absent
    BY <2>1 DEF SavedInv
  <2>3. ASSUME NEW s \in Sessions, bound[s] # Absent
        PROVE  NotNewer(bound[s], entry')
    <3>1. entry # Absent /\ NotNewer(bound[s], entry)
      BY <1>6, <1>7, <2>1, <2>2, <2>3 DEF Newest
    <3>2. NotNewer(entry, entry')
      BY <1>3, <1>7, <3>1, RewrittenIsNewer
    <3>3. Generational(bound[s]) /\ Generational(entry) /\ Generational(entry')
      BY <2>1, <2>2, GenerationsAre DEF Entries
    <3> QED
      BY <3>1, <3>2, <3>3, NotNewerThan
  <2> QED
    BY <1>6, <1>7, <2>1, <2>3 DEF Newest
<1>8. CASE (CreateSession \/ Persist) /\ ~Restart
  <2>1. PICK s \in Sessions : Stores(s)
    BY <1>8, StoredIs
  <2>2. running = "up" /\ entry' = entry
    BY <2>1 DEF Stores
  <2> QED
    BY <1>6, <1>8, <2>1, <2>2, StoresInOrder
<1>9. CASE Crash /\ ~Restart
  BY <1>6, <1>9 DEF Crash
<1>10. CASE (Send \/ Receive \/ Propose \/ UNCHANGED vars) /\ ~Restart
  <2>1. UNCHANGED <<entry, bound, journal, running>>
    BY <1>10 DEF Send, Receive, Propose, vars
  <2> QED
    BY <1>6, <1>10, <2>1
<1> QED
  BY <1>4, <1>7, <1>8, <1>9, <1>10 DEF Next, Rewrites

\* A session whose binding is current is bound to what the registry holds: contents change
\* only under a new generation, and for toolchains and sources a restart, which reads
\* the bundles of the sessions in ascending order, puts back the newest generation.
THEOREM GenerationsNameContents == Spec => []GenerationNamesContent
<1>1. Init => OrderInv
  <2> SUFFICES ASSUME Init
               PROVE  OrderInv
    OBVIOUS
  <2>1. \A s \in Sessions : bound[s] = Absent
    BY DEF Init
  <2>2. DOMAIN journal = {}
    <3>1. DOMAIN <<>> = {}
      BY SMT
    <3> QED
      BY <3>1 DEF Init
  <2> QED
    BY <2>1, <2>2 DEF OrderInv, InOrder, Newest
<1>2. SavedInv /\ OrderInv /\ [Next]_vars => OrderInv'
  BY OrderStep
<1>3. OrderInv => GenerationNamesContent
  <2> SUFFICES ASSUME OrderInv, running = "up", Continuous, NEW s \in Sessions,
                      bound[s] # Absent, bound[s].generation = entry.generation
               PROVE  \/ bound[s].sample = entry.sample
                      \/ kind = "toolchain" /\ ~Differ(bound[s].sample, entry.sample)
    BY DEF GenerationNamesContent, Continuous
  <2>1. Same(bound[s].sample, entry.sample)
    BY DEF OrderInv, Newest, NotNewer
  <2> QED
    BY <2>1 DEF Same, Differ
<1> QED
  BY <1>1, <1>2, <1>3, SavedInvariant, PTL DEF Spec

=============================================================================
