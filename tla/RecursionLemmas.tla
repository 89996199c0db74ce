--------------------------- MODULE RecursionLemmas ---------------------------
(***************************************************************************)
(* Lemmas about recursion, for the proofs about operators that fold over a *)
(* sequence or a set.  Where the theorems of the library take an operator, *)
(* these take a set or a function: induction is over a set that holds 0    *)
(* and the successor of each of its members, and a recursion is given by   *)
(* the function that is applied at each step.                              *)
(***************************************************************************)
EXTENDS SequencesExt, FiniteSets, Integers, TLAPS, SequenceTheorems,
        FiniteSetTheorems, WellFoundedInduction

LEMMA Least ==
    ASSUME NEW T \in SUBSET Nat, T # {}
    PROVE  \E i \in T : \A j \in T : i <= j
<1>1. \E i \in T : \A j \in T : <<j, i>> \notin OpToRel(<, Nat)
  BY NatLessThanWellFounded, WFMin, Zenon
<1>2. \A i, j \in Nat : <<j, i>> \notin OpToRel(<, Nat) => i <= j
  BY DEF OpToRel
<1> DEFINE Less == OpToRel(<, Nat)
<1> HIDE DEF Less
<1>3. QED
  BY <1>1, <1>2, Zenon

LEMMA Induction ==
    ASSUME NEW T, 0 \in T, \A n \in Nat : n \in T => n + 1 \in T
    PROVE  \A n \in Nat : n \in T
<1> SUFFICES ASSUME NEW m \in Nat, m \notin T
             PROVE  FALSE
  OBVIOUS
<1> DEFINE Out == {n \in Nat : n \notin T}
<1>1. PICK i \in Out : \A j \in Out : i <= j
  BY Least
<1>2. i # 0 /\ i - 1 \in Nat /\ i - 1 \notin Out
  BY <1>1
<1>3. QED
  BY <1>1, <1>2

-----------------------------------------------------------------------------
(***************************************************************************)
(* Iteration: h applied n times to b, both numbers.                        *)
(***************************************************************************)
LEMMA IterationExists ==
    ASSUME NEW b \in Nat, NEW h \in [Nat -> Nat]
    PROVE  \E f \in [Nat -> Nat] : f[0] = b /\ \A n \in Nat : f[n + 1] = h[f[n]]
<1> DEFINE Upto(n, g) == /\ g \in [0..n -> Nat] /\ g[0] = b
                         /\ \A i \in 0..n : i < n => g[i + 1] = h[g[i]]
           T == {n \in Nat : \E g : Upto(n, g)}
<1>1. 0 \in T
  <2>1. Upto(0, [i \in 0..0 |-> b])
    OBVIOUS
  <2>2. QED
    BY <2>1
<1>2. ASSUME NEW n \in Nat, n \in T
      PROVE  n + 1 \in T
  <2>1. PICK g : Upto(n, g)
    BY <1>2
  <2> DEFINE g2 == [i \in 0..(n + 1) |-> IF i = n + 1 THEN h[g[n]] ELSE g[i]]
  <2>2. g2 \in [0..(n + 1) -> Nat] /\ \A i \in 0..n : g2[i] = g[i]
    <3>1. g[n] \in Nat /\ h[g[n]] \in Nat
      BY <2>1
    <3>2. ASSUME NEW i \in 0..(n + 1)
          PROVE  i = n + 1 \/ i \in 0..n
      OBVIOUS
    <3>3. QED
      BY <2>1, <3>1, <3>2
  <2>3. g2[0] = b
    BY <2>1
  <2>4. ASSUME NEW i \in 0..(n + 1), i < n + 1
        PROVE  g2[i + 1] = h[g2[i]]
    <3>1. i \in 0..n /\ g2[i] = g[i] /\ i + 1 \in 0..(n + 1)
      BY <2>4
    <3>2. CASE i = n
      BY <3>1, <3>2
    <3>3. CASE i < n
      <4>1. g[i + 1] = h[g[i]]
        BY <2>1, <3>1, <3>3, Zenon
      <4>2. g2[i + 1] = g[i + 1]
        BY <3>1, <3>3
      <4>3. QED
        BY <3>1, <4>1, <4>2
    <3>4. QED
      BY <3>1, <3>2, <3>3
  <2> HIDE DEF g2
  <2>5. Upto(n + 1, g2)
    BY <2>2, <2>3, <2>4
  <2> HIDE DEF Upto
  <2>6. QED
    BY <2>5
<1>3. ASSUME NEW m \in Nat, NEW n \in Nat, m <= n,
             NEW g, Upto(m, g), NEW g2, Upto(n, g2)
      PROVE  g[m] = g2[m]
  <2> DEFINE S == {i \in Nat : i <= m => g[i] = g2[i]}
  <2>1. 0 \in S
    BY <1>3
  <2>2. ASSUME NEW i \in Nat, i \in S
        PROVE  i + 1 \in S
    <3>1. CASE i + 1 <= m
      <4>1. /\ i \in 0..m /\ i < m /\ i \in 0..n /\ i < n
            /\ g[i] = g2[i]
        BY <1>3, <2>2, <3>1
      <4>2. g[i + 1] = h[g[i]] /\ g2[i + 1] = h[g2[i]]
        BY <1>3, <4>1
      <4>3. QED
        BY <4>1, <4>2
    <3>2. QED
      BY <3>1
  <2> HIDE DEF S
  <2>3. m \in S
    BY <2>1, <2>2, Induction
  <2>4. QED
    BY <2>3 DEF S
<1> HIDE DEF Upto
<1> DEFINE G(n) == CHOOSE g : Upto(n, g)
           f == [n \in Nat |-> G(n)[n]]
<1>4. ASSUME NEW n \in Nat
      PROVE  Upto(n, G(n))
  <2>1. n \in T
    <3> HIDE DEF T
    <3>1. QED
      BY <1>1, <1>2, Induction
  <2>2. QED
    BY <2>1
<1> HIDE DEF G
<1>5. f \in [Nat -> Nat]
  BY <1>4 DEF Upto
<1>6. f[0] = b
  BY <1>4 DEF Upto
<1>7. ASSUME NEW n \in Nat
      PROVE  f[n + 1] = h[f[n]]
  <2>1. Upto(n, G(n)) /\ Upto(n + 1, G(n + 1))
    BY <1>4
  <2>2. G(n)[n] = G(n + 1)[n]
    BY <1>3, <2>1
  <2>3. G(n + 1)[n + 1] = h[G(n + 1)[n]]
    BY <2>1 DEF Upto
  <2>4. QED
    BY <2>2, <2>3
<1> HIDE DEF f
<1>8. QED
  BY <1>5, <1>6, <1>7

-----------------------------------------------------------------------------
(***************************************************************************)
(* Folds over a sequence go by the set of the indices still to do, of      *)
(* which only the prefixes 1..k occur.                                     *)
(***************************************************************************)
LEMMA MaxOf ==
    ASSUME NEW n \in Nat, NEW s \in SUBSET (1..n), s # {}
    PROVE  Max(s) \in s /\ \A y \in s : y <= Max(s)
<1> DEFINE T == {n - y : y \in s}
<1>0. \A y \in s : y \in Int /\ n - y \in Nat
  OBVIOUS
<1>1. T \in SUBSET Nat /\ T # {}
  BY <1>0
<1>2. PICK i \in T : \A j \in T : i <= j
  <2> HIDE DEF T
  <2>1. QED
    BY <1>1, Least
<1>3. PICK x \in s : i = n - x
  BY <1>2
<1>4. ASSUME NEW y \in s
      PROVE  y <= x
  <2>1. n - y \in T
    OBVIOUS
  <2>2. n - x <= n - y
    BY <1>2, <1>3, <2>1
  <2>3. QED
    BY <1>0, <2>2
<1>5. QED
  BY <1>4, <1>3 DEF Max

LEMMA MaxOfPrefix ==
    ASSUME NEW k \in Nat
    PROVE  /\ Max(1..(k + 1)) = k + 1
           /\ (1..(k + 1)) \ {k + 1} = 1..k
           /\ 1..(k + 1) # {}
<1>1. 1..(k + 1) # {} /\ k + 1 \in 1..(k + 1)
  OBVIOUS
<1>0. k + 1 \in Nat
  OBVIOUS
<1>2. Max(1..(k + 1)) \in 1..(k + 1) /\ \A y \in 1..(k + 1) : y <= Max(1..(k + 1))
  BY <1>0, <1>1, MaxOf
<1>3. Max(1..(k + 1)) = k + 1
  BY <1>1, <1>2
<1>4. QED
  BY <1>1, <1>3

(***************************************************************************)
(* The recursion that a fold is defined by has a solution: h[i] is what is *)
(* done at index i.                                                        *)
(***************************************************************************)
FoldsTo(g, L, X, b, h) ==
    /\ g \in [SUBSET (1..L) -> X]
    /\ \A s \in SUBSET (1..L) :
          g[s] = IF s = {} THEN b ELSE h[Max(s)][g[s \ {Max(s)}]]

LEMMA FoldExists ==
    ASSUME NEW L \in Nat, NEW X, NEW b \in X, NEW h \in [1..L -> [X -> X]]
    PROVE  \E g : FoldsTo(g, L, X, b, h)
<1> DEFINE Sol(n) == \E g \in [SUBSET (1..n) -> X] :
                       \A s \in SUBSET (1..n) :
                          g[s] = IF s = {} THEN b ELSE h[Max(s)][g[s \ {Max(s)}]]
           T == {n \in Nat : n <= L => Sol(n)}
<1>1. Sol(0)
  <2> DEFINE g == [s \in SUBSET (1..0) |-> b]
  <2>1. g \in [SUBSET (1..0) -> X] /\ \A s \in SUBSET (1..0) : s = {} /\ g[s] = b
    OBVIOUS
  <2>2. QED
    BY <2>1
<1>2. ASSUME NEW n \in Nat, n + 1 <= L, Sol(n)
      PROVE  Sol(n + 1)
  <2>1. PICK g \in [SUBSET (1..n) -> X] :
               \A s \in SUBSET (1..n) :
                  g[s] = IF s = {} THEN b ELSE h[Max(s)][g[s \ {Max(s)}]]
    BY <1>2
  <2> DEFINE g2 == [s \in SUBSET (1..(n + 1)) |->
                      IF n + 1 \in s THEN h[n + 1][g[s \ {n + 1}]] ELSE g[s]]
  <2>2. \A s \in SUBSET (1..(n + 1)) :
           /\ s \ {n + 1} \in SUBSET (1..n)
           /\ n + 1 \notin s => s \in SUBSET (1..n)
    OBVIOUS
  <2>3. h[n + 1] \in [X -> X]
    BY <1>2
  <2>4. \A s \in SUBSET (1..(n + 1)) : g2[s] \in X
    BY <2>1, <2>2, <2>3
  <2>5. g2 \in [SUBSET (1..(n + 1)) -> X]
    BY <2>4
  <2>6. ASSUME NEW s \in SUBSET (1..(n + 1))
        PROVE  g2[s] = IF s = {} THEN b ELSE h[Max(s)][g2[s \ {Max(s)}]]
    <3>1. CASE n + 1 \in s
      <4>0. n + 1 \in Nat /\ s # {}
        BY <3>1
      <4>1. Max(s) \in s /\ \A y \in s : y <= Max(s)
        BY <4>0, MaxOf
      <4>2. Max(s) = n + 1
        <5>1. Max(s) \in 1..(n + 1) /\ n + 1 <= Max(s)
          BY <3>1, <4>1, Zenon
        <5>2. QED
          BY <5>1
      <4>3. n + 1 \notin s \ {n + 1} /\ s \ {n + 1} \in SUBSET (1..(n + 1))
        OBVIOUS
      <4>4. g2[s \ {n + 1}] = g[s \ {n + 1}]
        BY <4>3
      <4>5. g2[s] = h[n + 1][g[s \ {n + 1}]]
        BY <3>1
      <4>6. QED
        BY <4>0, <4>2, <4>4, <4>5, Zenon
    <3>2. CASE n + 1 \notin s
      <4>1. s \in SUBSET (1..n) /\ s \ {Max(s)} \in SUBSET (1..n)
        BY <2>2, <3>2
      <4>2. s \ {Max(s)} \in SUBSET (1..(n + 1)) /\ n + 1 \notin s \ {Max(s)}
        BY <3>2
      <4>3. g2[s] = g[s]
        BY <3>2
      <4>4. g2[s \ {Max(s)}] = g[s \ {Max(s)}]
        BY <4>2
      <4>5. g[s] = IF s = {} THEN b ELSE h[Max(s)][g[s \ {Max(s)}]]
        BY <2>1, <4>1, Zenon
      <4> HIDE DEF g2
      <4>6. QED
        BY <4>3, <4>4, <4>5, Zenon
    <3>3. QED
      BY <3>1, <3>2
  <2> HIDE DEF g2
  <2>7. QED
    BY <2>5, <2>6
<1> HIDE DEF Sol
<1>3. 0 \in T
  BY <1>1
<1>4. ASSUME NEW n \in Nat, n \in T
      PROVE  n + 1 \in T
  BY <1>2, <1>4
<1> HIDE DEF T
<1>5. L \in T
  BY <1>3, <1>4, Induction
<1>6. Sol(L)
  BY <1>5 DEF T
<1>7. QED
  BY <1>6 DEF Sol, FoldsTo

-----------------------------------------------------------------------------
(***************************************************************************)
(* Finite sets: images, and the sum of numbers over one, of which the      *)
(* proofs ask only whether it is 0.                                        *)
(***************************************************************************)
LEMMA ImageFinite ==
    ASSUME NEW S, IsFiniteSet(S), NEW T, NEW f \in [S -> T],
           \A t \in T : \E x \in S : t = f[x]
    PROVE  IsFiniteSet(T)
<1>1. f \in Surjection(S, T)
  BY DEF Surjection
<1>2. QED
  BY <1>1, FS_Surjection

\* The recursion that a sum over a set is defined by; v has the summands.
SumsTo(g, S, v) ==
    g = [s \in SUBSET S |->
            IF s = {} THEN 0
            ELSE v[CHOOSE x \in s : TRUE] + g[s \ {CHOOSE x \in s : TRUE}]]

LEMMA SumExists ==
    ASSUME NEW S, IsFiniteSet(S), NEW v \in [S -> Nat]
    PROVE  \E g : SumsTo(g, S, v)
<1> DEFINE one(s) == CHOOSE x \in s : TRUE
           Upto(n) == {s \in SUBSET S : Cardinality(s) <= n}
           Partial(g, n) == /\ g \in [Upto(n) -> Nat]
                            /\ \A s \in Upto(n) :
                                  g[s] = IF s = {} THEN 0 ELSE v[one(s)] + g[s \ {one(s)}]
           T == {n \in Nat : \E g : Partial(g, n)}
<1>1. \A s \in SUBSET S : /\ IsFiniteSet(s) /\ Cardinality(s) \in Nat
                          /\ Cardinality(s) = 0 <=> s = {}
  BY FS_Subset, FS_CardinalityType, FS_EmptySet
<1>2. \A s \in SUBSET S : s # {} =>
          /\ one(s) \in s
          /\ s \ {one(s)} \in SUBSET S
          /\ Cardinality(s \ {one(s)}) = Cardinality(s) - 1
  BY <1>1, FS_RemoveElement
<1> HIDE DEF one
<1>3. 0 \in T
  <2>1. \A s \in Upto(0) : s = {}
    BY <1>1
  <2>2. Partial([s \in Upto(0) |-> 0], 0)
    BY <2>1
  <2>3. QED
    BY <2>2
<1>4. ASSUME NEW n \in Nat, n \in T
      PROVE  n + 1 \in T
  <2>1. PICK g : Partial(g, n)
    BY <1>4
  <2> DEFINE next(s) == IF s = {} THEN 0 ELSE v[one(s)] + g[s \ {one(s)}]
             g2 == [s \in Upto(n + 1) |-> next(s)]
  <2>2. \A s \in Upto(n + 1) : s # {} => s \ {one(s)} \in Upto(n) /\ one(s) \in S
    BY <1>1, <1>2
  <2>3. \A s \in Upto(n) : s \in Upto(n + 1) /\ g[s] = next(s)
    BY <1>1, <2>1
  <2>4. ASSUME NEW s \in Upto(n + 1)
        PROVE  next(s) \in Nat
    <3>1. CASE s = {}
      BY <3>1
    <3>2. CASE s # {}
      <4>1. v[one(s)] \in Nat /\ g[s \ {one(s)}] \in Nat
        BY <2>1, <2>2, <3>2
      <4>2. QED
        BY <3>2, <4>1
    <3>3. QED
      BY <3>1, <3>2
  <2>5. \A s \in Upto(n) : g2[s] = g[s]
    BY <2>3
  <2>6. g2 \in [Upto(n + 1) -> Nat]
    BY <2>4
  <2>7. \A s \in Upto(n + 1) :
           g2[s] = IF s = {} THEN 0 ELSE v[one(s)] + g2[s \ {one(s)}]
    BY <2>2, <2>5
  <2> HIDE DEF g2
  <2>8. Partial(g2, n + 1)
    BY <2>6, <2>7
  <2> HIDE DEF Partial
  <2>9. QED
    BY <2>8
<1> HIDE DEF T
<1>5. Cardinality(S) \in T
  BY <1>1, <1>3, <1>4, Induction
<1>6. Upto(Cardinality(S)) = SUBSET S
  BY FS_Subset
<1>7. PICK g : Partial(g, Cardinality(S))
  BY <1>5 DEF T
<1>8. g = [s \in SUBSET S |-> IF s = {} THEN 0 ELSE v[one(s)] + g[s \ {one(s)}]]
  BY <1>6, <1>7
<1>9. SumsTo(g, S, v)
  BY <1>8 DEF SumsTo, one
<1>10. QED
  BY <1>9

LEMMA SumIsZero ==
    ASSUME NEW S, IsFiniteSet(S), NEW v \in [S -> Nat], NEW g, SumsTo(g, S, v)
    PROVE  g[S] \in Nat /\ (g[S] = 0 <=> \A x \in S : v[x] = 0)
<1> DEFINE one(s) == CHOOSE x \in s : TRUE
           Zero(s) == g[s] \in Nat /\ (g[s] = 0 <=> \A x \in s : v[x] = 0)
           T == {n \in Nat : \A s \in SUBSET S : Cardinality(s) <= n => Zero(s)}
<1>1. \A s \in SUBSET S : /\ IsFiniteSet(s) /\ Cardinality(s) \in Nat
                          /\ Cardinality(s) = 0 <=> s = {}
  BY FS_Subset, FS_CardinalityType, FS_EmptySet
<1>2. \A s \in SUBSET S : s # {} =>
          /\ one(s) \in s
          /\ s \ {one(s)} \in SUBSET S
          /\ Cardinality(s \ {one(s)}) = Cardinality(s) - 1
  BY <1>1, FS_RemoveElement
<1>3. \A s \in SUBSET S :
          g[s] = IF s = {} THEN 0 ELSE v[one(s)] + g[s \ {one(s)}]
  BY DEF SumsTo
<1> HIDE DEF one
<1>4. 0 \in T
  <2>1. \A s \in SUBSET S : Cardinality(s) <= 0 => s = {}
    BY <1>1
  <2>2. ASSUME NEW s \in SUBSET S, s = {}
        PROVE  Zero(s)
    <3>1. g[s] = 0
      BY <1>3, <2>2, Zenon
    <3>2. QED
      BY <2>2, <3>1
  <2> HIDE DEF Zero
  <2>3. QED
    BY <2>1, <2>2
<1>5. ASSUME NEW n \in Nat, n \in T
      PROVE  n + 1 \in T
  <2>1. ASSUME NEW s \in SUBSET S, Cardinality(s) <= n + 1
        PROVE  Zero(s)
    <3>1. CASE s = {}
      BY <1>3, <3>1
    <3>2. CASE s # {}
      <4> DEFINE rest == s \ {one(s)}
      <4>1. /\ one(s) \in s /\ one(s) \in S /\ rest \in SUBSET S
            /\ Cardinality(rest) <= n
        BY <1>1, <1>2, <2>1, <3>2
      <4>2. Zero(rest)
        BY <1>5, <4>1
      <4>3. v[one(s)] \in Nat /\ g[rest] \in Nat /\ g[s] = v[one(s)] + g[rest]
        BY <1>3, <3>2, <4>1, <4>2
      <4>4. g[s] = 0 <=> v[one(s)] = 0 /\ g[rest] = 0
        BY <4>3
      <4>5. QED
        BY <4>1, <4>2, <4>3, <4>4
    <3>3. QED
      BY <3>1, <3>2
  <2>2. QED
    BY <2>1
<1> HIDE DEF T
<1>6. Cardinality(S) \in T
  BY <1>1, <1>4, <1>5, Induction
<1>7. S \in SUBSET S /\ Cardinality(S) <= Cardinality(S)
  BY <1>1
<1>8. QED
  BY <1>3, <1>6, <1>7 DEF T

-----------------------------------------------------------------------------
\* InsertAt, index by index.
LEMMA Inserted ==
    ASSUME NEW S, NEW s \in Seq(S), NEW e \in S, NEW p \in 1..(Len(s) + 1)
    PROVE  /\ InsertAt(s, p, e) \in Seq(S)
           /\ Len(InsertAt(s, p, e)) = Len(s) + 1
           /\ \A k \in 1..(Len(s) + 1) :
                InsertAt(s, p, e)[k] = IF k < p THEN s[k]
                                       ELSE IF k = p THEN e ELSE s[k - 1]
<1> DEFINE a == SubSeq(s, 1, p - 1)
           b == SubSeq(s, p, Len(s))
<1>1. Len(s) \in Nat /\ p \in Nat /\ 1 <= p /\ p <= Len(s) + 1
  OBVIOUS
<1>2. /\ a \in Seq(S) /\ Len(a) = p - 1
      /\ \A k \in 1..(p - 1) : a[k] = s[k]
  BY <1>1, SubSeqProperties
<1>3. /\ b \in Seq(S) /\ Len(b) = Len(s) - p + 1
      /\ \A k \in 1..(Len(s) - p + 1) : b[k] = s[p + k - 1]
  BY <1>1, SubSeqProperties
<1> HIDE DEF a, b
<1> DEFINE c == a \o <<e>>
<1>4. /\ c \in Seq(S) /\ Len(c) = p
      /\ \A k \in 1..p : c[k] = IF k < p THEN s[k] ELSE e
  BY <1>1, <1>2
<1> HIDE DEF c
<1>5. /\ c \o b \in Seq(S) /\ Len(c \o b) = Len(s) + 1
      /\ \A k \in 1..(Len(s) + 1) : (c \o b)[k] = IF k <= p THEN c[k] ELSE b[k - p]
  <2>1. /\ c \o b \in Seq(S) /\ Len(c \o b) = Len(c) + Len(b)
        /\ \A k \in 1..(Len(c) + Len(b)) :
             (c \o b)[k] = IF k <= Len(c) THEN c[k] ELSE b[k - Len(c)]
    BY <1>3, <1>4, ConcatProperties, Zenon
  <2>2. Len(c) = p /\ Len(c) + Len(b) = Len(s) + 1
    BY <1>1, <1>3, <1>4
  <2>3. QED
    BY <2>1, <2>2, Zenon
<1>6. InsertAt(s, p, e) = c \o b
  BY DEF InsertAt, a, b, c
<1>7. ASSUME NEW k \in 1..(Len(s) + 1)
      PROVE  (c \o b)[k] = IF k < p THEN s[k] ELSE IF k = p THEN e ELSE s[k - 1]
  <2>1. CASE k <= p
    BY <1>1, <1>4, <1>5, <2>1
  <2>2. CASE k > p
    <3>1. k - p \in 1..(Len(s) - p + 1) /\ p + (k - p) - 1 = k - 1
      BY <1>1, <2>2
    <3>2. b[k - p] = s[k - 1]
      BY <1>3, <3>1
    <3>3. (c \o b)[k] = IF k <= p THEN c[k] ELSE b[k - p]
      BY <1>5, Zenon
    <3>4. QED
      BY <1>1, <2>2, <3>2, <3>3
  <2>3. k <= p \/ k > p
    BY <1>1
  <2>4. QED
    BY <2>1, <2>2, <2>3, Zenon
<1>8. QED
  BY <1>5, <1>6, <1>7

-----------------------------------------------------------------------------
\* A set of indices with everything below them is a prefix.
LEMMA PrefixCount ==
    ASSUME NEW n \in Nat, NEW T \in SUBSET (1..n),
           \A i, j \in 1..n : i < j /\ j \in T => i \in T
    PROVE  /\ Cardinality(T) \in 0..n
           /\ T = 1..Cardinality(T)
<1>1. CASE T = {}
  <2>1. Cardinality(T) = 0 /\ 1..0 = {}
    BY <1>1, FS_EmptySet
  <2>2. QED
    BY <1>1, <2>1
<1>2. CASE T # {}
  <2>1. PICK m \in T : \A i \in T : i <= m
    BY <1>2, MaxOf
  <2>2. m \in 1..n
    OBVIOUS
  <2>3. T = 1..m
    <3>1. ASSUME NEW i \in 1..m
          PROVE  i \in T
      <4>1. i \in 1..n /\ (i < m \/ i = m)
        BY <2>2
      <4>2. QED
        BY <2>1, <2>2, <4>1
    <3>2. ASSUME NEW i \in T
          PROVE  i \in 1..m
      BY <2>1, <2>2
    <3>3. QED
      BY <3>1, <3>2
  <2>4. Cardinality(1..m) = m
    BY <2>2, FS_Interval
  <2>5. QED
    BY <2>2, <2>3, <2>4
<1>3. QED
  BY <1>1, <1>2
=============================================================================
