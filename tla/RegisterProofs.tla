--------------------------- MODULE RegisterProofs ---------------------------
(***************************************************************************)
(* Proofs about Register, for any accounts, desks, institutions, opening   *)
(* balances and allocation rows that meet RegisterAssumption.              *)
(***************************************************************************)
EXTENDS Register, FiniteSetTheorems, SequenceTheorems, WellFoundedInduction, TLAPS

(***************************************************************************)
(* Sums over finite sets.  Held is a fold of the community modules, which  *)
(* takes the elements out one by one in the order CHOOSE gives; what       *)
(* follows shows that it is the sum however they are taken.  The library's *)
(* induction theorems cannot be instantiated here, so the induction over   *)
(* the number of elements is derived from the well-foundedness of < for    *)
(* the sets of numbers it is needed for.                                   *)
(***************************************************************************)

LEMMA Least ==
    ASSUME NEW I \in SUBSET Nat, I # {}
    PROVE  \E m \in I : \A k \in I : ~(k < m)
<1>1. PICK m \in I : \A k \in I : <<k, m>> \notin OpToRel(<, Nat)
  BY WFMin, NatLessThanWellFounded, Zenon
<1>2. \A k \in Nat : k < m => <<k, m>> \in OpToRel(<, Nat)
  <2> SUFFICES ASSUME NEW k \in Nat, k < m PROVE <<k, m>> \in OpToRel(<, Nat)
    OBVIOUS
  <2>1. <<k, m>> \in Nat \X Nat /\ <<k, m>>[1] = k /\ <<k, m>>[2] = m
    OBVIOUS
  <2> QED BY <2>1, Zenon DEF OpToRel
<1> QED BY <1>1, <1>2, Zenon

LEMMA Induction ==
    ASSUME NEW S, 0 \in S, \A n \in Nat : n \in S => n + 1 \in S
    PROVE  \A n \in Nat : n \in S
<1> DEFINE I == Nat \ S
<1> SUFFICES ASSUME I # {} PROVE FALSE
  OBVIOUS
<1>1. PICK m \in I : \A k \in I : ~(k < m)
  <2> I \in SUBSET Nat
    OBVIOUS
  <2> HIDE DEF I
  <2> QED BY Least, Zenon
<1>2. m # 0 /\ m \in Nat
  OBVIOUS
<1>3. m - 1 \in Nat /\ m - 1 < m /\ (m - 1) + 1 = m
  BY <1>2
<1>4. m - 1 \in S
  BY <1>1, <1>3
<1> QED BY <1>3, <1>4

Pick(s) == CHOOSE x \in s : TRUE
Below(S, n) == {T \in SUBSET S : Cardinality(T) <= n}
Counts(g, f, D) ==
    \A s \in D : g[s] = IF s = {} THEN 0 ELSE f[Pick(s)] + g[s \ {Pick(s)}]

LEMMA PickIn == \A s : s # {} => Pick(s) \in s
BY DEF Pick

LEMMA Smaller ==
    ASSUME NEW S, IsFiniteSet(S), NEW s \in SUBSET S, NEW x \in s
    PROVE  /\ IsFiniteSet(s) /\ IsFiniteSet(s \ {x}) /\ s \ {x} \in SUBSET S
           /\ Cardinality(s) \in Nat /\ Cardinality(s \ {x}) = Cardinality(s) - 1
           /\ Cardinality(s) > 0
<1>1. IsFiniteSet(s)
  BY FS_Subset
<1>2. /\ IsFiniteSet(s \ {x}) /\ Cardinality(s \ {x}) = Cardinality(s) - 1
      /\ Cardinality(s) \in Nat /\ Cardinality(s \ {x}) \in Nat
  BY <1>1, FS_RemoveElement, FS_CardinalityType
<1> QED BY <1>1, <1>2

LEMMA OneLess ==
    ASSUME NEW S, IsFiniteSet(S), NEW n \in Nat, NEW s \in SUBSET S, Cardinality(s) = n + 1,
           NEW x \in s
    PROVE  s \ {x} \in SUBSET S /\ Cardinality(s \ {x}) = n
BY Smaller

LEMMA SomeLeft ==
    ASSUME NEW n \in Nat, NEW s, Cardinality(s) = n + 1
    PROVE  s # {}
<1>1. Cardinality({}) = 0
  BY FS_EmptySet
<1> QED BY <1>1, n + 1 # 0

LEMMA CountExists ==
    ASSUME NEW S, IsFiniteSet(S), NEW f
    PROVE  \A n \in Nat : \E g : g = [s \in Below(S, n) |-> g[s]] /\ Counts(g, f, Below(S, n))
<1> DEFINE N == {n \in Nat : \E g : g = [s \in Below(S, n) |-> g[s]] /\ Counts(g, f, Below(S, n))}
<1>1. \A s \in SUBSET S : IsFiniteSet(s) /\ Cardinality(s) \in Nat
  BY FS_Subset, FS_CardinalityType
<1>2. 0 \in N
  <2> DEFINE g == [s \in Below(S, 0) |-> 0]
  <2>1. \A s \in Below(S, 0) : s = {}
    BY <1>1, FS_EmptySet DEF Below
  <2>2. Counts(g, f, Below(S, 0))
    BY <2>1 DEF Counts
  <2>3. g = [s \in Below(S, 0) |-> g[s]]
    OBVIOUS
  <2> HIDE DEF g
  <2> QED BY <2>2, <2>3
<1>3. ASSUME NEW n \in Nat, n \in N PROVE n + 1 \in N
  <2>1. PICK g : g = [s \in Below(S, n) |-> g[s]] /\ Counts(g, f, Below(S, n))
    BY <1>3
  <2> DEFINE D == Below(S, n + 1)
             h == [s \in D |-> IF s \in Below(S, n) THEN g[s]
                               ELSE f[Pick(s)] + g[s \ {Pick(s)}]]
  <2>2. ASSUME NEW s \in D PROVE h[s] = IF s = {} THEN 0 ELSE f[Pick(s)] + h[s \ {Pick(s)}]
    <3>1. CASE s = {}
      <4>1. s \in Below(S, n)
        BY <3>1, FS_EmptySet DEF Below
      <4> QED BY <2>1, <3>1, <4>1 DEF Counts
    <3>2. CASE s # {}
      <4>1. Pick(s) \in s /\ s \in SUBSET S /\ Cardinality(s) <= n + 1
        BY <3>2, PickIn DEF Below
      <4>2. s \ {Pick(s)} \in Below(S, n)
        BY <4>1, Smaller DEF Below
      <4>3. s \ {Pick(s)} \in D
        BY <4>2, <1>1 DEF Below
      <4>4. h[s \ {Pick(s)}] = g[s \ {Pick(s)}]
        BY <4>2, <4>3
      <4>5. CASE s \in Below(S, n)
        BY <2>1, <3>2, <4>4, <4>5 DEF Counts
      <4>6. CASE s \notin Below(S, n)
        BY <3>2, <4>4, <4>6
      <4> QED BY <4>5, <4>6
    <3> QED BY <3>1, <3>2
  <2>3. Counts(h, f, D)
    BY <2>2 DEF Counts
  <2>4. h = [s \in D |-> h[s]]
    OBVIOUS
  <2> HIDE DEF h
  <2> QED BY <2>3, <2>4
<1> HIDE DEF N
<1>4. \A n \in Nat : n \in N
  BY <1>2, <1>3, Induction
<1> QED BY <1>4 DEF N

Iter(f, S) == CHOOSE iter : iter = [s \in SUBSET S |->
                 IF s = {} THEN 0 ELSE f[Pick(s)] + iter[s \ {Pick(s)}]]

LEMMA SumIsIter == \A f, S : Held(f, S) = Iter(f, S)[S]
BY DEF Held, MapThenSumSet, MapThenFoldSet, Iter, Pick

LEMMA IterCounts ==
    ASSUME NEW S, IsFiniteSet(S), NEW f
    PROVE  Counts(Iter(f, S), f, SUBSET S)
<1> DEFINE n == Cardinality(S)
<1>1. n \in Nat /\ Below(S, n) = SUBSET S
  BY FS_Subset, FS_CardinalityType DEF Below
<1> HIDE DEF n
<1>2. PICK g : g = [s \in SUBSET S |-> g[s]] /\ Counts(g, f, SUBSET S)
  <2> \A k \in Nat : \E g : g = [s \in Below(S, k) |-> g[s]] /\ Counts(g, f, Below(S, k))
    BY CountExists
  <2>1. \E g : g = [s \in Below(S, n) |-> g[s]] /\ Counts(g, f, Below(S, n))
    BY <1>1
  <2> QED BY <1>1, <2>1, Zenon
<1>3. g = [s \in SUBSET S |-> IF s = {} THEN 0 ELSE f[Pick(s)] + g[s \ {Pick(s)}]]
  BY <1>2, Zenon DEF Counts
<1>4. Iter(f, S) = [s \in SUBSET S |-> IF s = {} THEN 0 ELSE f[Pick(s)] + Iter(f, S)[s \ {Pick(s)}]]
  BY <1>3, Zenon DEF Iter
<1> QED BY <1>4, Zenon DEF Counts

LEMMA CountUnique ==
    ASSUME NEW S, IsFiniteSet(S), NEW f, NEW g, NEW i, NEW j,
           Counts(i, f, SUBSET S), Counts(j, g, SUBSET S), \A x \in S : f[x] = g[x]
    PROVE  \A s \in SUBSET S : i[s] = j[s]
<1> DEFINE P == {s \in SUBSET S : i[s] = j[s]}
<1>1. ASSUME NEW s \in SUBSET S, s \ {Pick(s)} \in P, s # {} PROVE s \in P
  <2>1. Pick(s) \in S
    BY <1>1, PickIn
  <2> QED BY <1>1, <2>1 DEF Counts
<1>2. {} \in P
  BY DEF Counts
<1> DEFINE N == {n \in Nat : \A s \in SUBSET S : Cardinality(s) = n => s \in P}
<1>3. \A s \in SUBSET S : IsFiniteSet(s) /\ Cardinality(s) \in Nat
  BY FS_Subset, FS_CardinalityType
<1> HIDE DEF P
<1>4. 0 \in N
  BY <1>2, <1>3, FS_EmptySet
<1>5. ASSUME NEW n \in Nat, n \in N PROVE n + 1 \in N
  <2> SUFFICES ASSUME NEW s \in SUBSET S, Cardinality(s) = n + 1 PROVE s \in P
    OBVIOUS
  <2>1. s # {} /\ Pick(s) \in s
    <3>1. Cardinality({}) = 0
      BY FS_EmptySet
    <3>2. s # {}
      BY <3>1, n + 1 # 0
    <3> QED BY <3>2, PickIn
  <2>2. s \ {Pick(s)} \in SUBSET S /\ Cardinality(s \ {Pick(s)}) = n
    BY <2>1, Smaller
  <2> QED BY <1>1, <1>5, <2>1, <2>2
<1> HIDE DEF N
<1>6. \A n \in Nat : n \in N
  BY <1>4, <1>5, Induction
<1> QED BY <1>3, <1>6 DEF N, P

LEMMA SumOfSubset ==
    ASSUME NEW S, IsFiniteSet(S), NEW f, NEW T \in SUBSET S
    PROVE  Held(f, T) = Iter(f, S)[T]
<1>1. IsFiniteSet(T)
  BY FS_Subset
<1>2. Counts(Iter(f, T), f, SUBSET T) /\ Counts(Iter(f, S), f, SUBSET T)
  BY <1>1, IterCounts DEF Counts
<1>3. \A s \in SUBSET T : Iter(f, T)[s] = Iter(f, S)[s]
  <2> DEFINE i == Iter(f, T)
             j == Iter(f, S)
  <2> HIDE DEF i, j
  <2>1. Counts(i, f, SUBSET T) /\ Counts(j, f, SUBSET T)
    BY <1>2 DEF i, j
  <2>2. \A s \in SUBSET T : i[s] = j[s]
    BY <1>1, <2>1, CountUnique
  <2> QED BY <2>2 DEF i, j
<1> QED BY <1>3, SumIsIter

LEMMA SumEqual ==
    ASSUME NEW S, IsFiniteSet(S), NEW f, NEW g, \A x \in S : f[x] = g[x]
    PROVE  Held(f, S) = Held(g, S)
<1>1. Counts(Iter(f, S), f, SUBSET S) /\ Counts(Iter(g, S), g, SUBSET S)
  BY IterCounts
<1>2. \A s \in SUBSET S : Iter(f, S)[s] = Iter(g, S)[s]
  <2> DEFINE i == Iter(f, S)
             j == Iter(g, S)
  <2> HIDE DEF i, j
  <2>1. Counts(i, f, SUBSET S) /\ Counts(j, g, SUBSET S)
    BY <1>1 DEF i, j
  <2>2. \A s \in SUBSET S : i[s] = j[s]
    BY <2>1, CountUnique
  <2> QED BY <2>2 DEF i, j
<1> QED BY <1>2, SumIsIter

LEMMA SumStep ==
    ASSUME NEW S, IsFiniteSet(S), NEW f
    PROVE  /\ Held(f, {}) = 0
           /\ S # {} => /\ Pick(S) \in S
                        /\ Held(f, S) = f[Pick(S)] + Held(f, S \ {Pick(S)})
<1>1. Counts(Iter(f, S), f, SUBSET S)
  BY IterCounts
<1>2. Iter(f, S)[{}] = 0
  BY <1>1 DEF Counts
<1>3. \A T \in SUBSET S : Held(f, T) = Iter(f, S)[T]
  BY SumOfSubset
<1>4. S # {} => Iter(f, S)[S] = f[Pick(S)] + Iter(f, S)[S \ {Pick(S)}]
  BY <1>1 DEF Counts
<1> QED BY <1>2, <1>3, <1>4, PickIn

LEMMA SumType ==
    ASSUME NEW S, IsFiniteSet(S), NEW f, \A x \in S : f[x] \in Int
    PROVE  \A s \in SUBSET S : Held(f, s) \in Int
<1> DEFINE N == {n \in Nat : \A s \in SUBSET S : Cardinality(s) = n => Held(f, s) \in Int}
<1>1. \A s \in SUBSET S : IsFiniteSet(s) /\ Cardinality(s) \in Nat
  BY FS_Subset, FS_CardinalityType
<1>2. 0 \in N
  <2>1. Held(f, {}) = 0
    BY SumStep
  <2>2. \A s \in SUBSET S : Cardinality(s) = 0 => s = {}
    BY <1>1, FS_EmptySet
  <2> QED BY <2>1, <2>2
<1>3. ASSUME NEW n \in Nat, n \in N PROVE n + 1 \in N
  <2> SUFFICES ASSUME NEW s \in SUBSET S, Cardinality(s) = n + 1 PROVE Held(f, s) \in Int
    OBVIOUS
  <2>1. s # {} /\ IsFiniteSet(s)
    <3>1. Cardinality({}) = 0
      BY FS_EmptySet
    <3> QED BY <3>1, <1>1, n + 1 # 0
  <2>2. Pick(s) \in s /\ Held(f, s) = f[Pick(s)] + Held(f, s \ {Pick(s)})
    BY <2>1, SumStep
  <2>3. s \ {Pick(s)} \in SUBSET S /\ Cardinality(s \ {Pick(s)}) = n
    BY <2>2, OneLess
  <2> QED BY <1>3, <2>2, <2>3
<1> HIDE DEF N
<1>4. \A n \in Nat : n \in N
  BY <1>2, <1>3, Induction
<1> QED BY <1>1, <1>4 DEF N

LEMMA SumTakeOut ==
    ASSUME NEW S, IsFiniteSet(S), NEW f, \A x \in S : f[x] \in Int
    PROVE  \A s \in SUBSET S : \A x \in s : Held(f, s) = f[x] + Held(f, s \ {x})
<1> DEFINE N == {n \in Nat : \A s \in SUBSET S : Cardinality(s) = n =>
                                \A x \in s : Held(f, s) = f[x] + Held(f, s \ {x})}
<1>1. \A s \in SUBSET S : IsFiniteSet(s) /\ Cardinality(s) \in Nat /\ Held(f, s) \in Int
  BY FS_Subset, FS_CardinalityType, SumType
<1>2. 0 \in N
  BY <1>1, FS_EmptySet
<1>3. ASSUME NEW n \in Nat, n \in N PROVE n + 1 \in N
  <2> SUFFICES ASSUME NEW s \in SUBSET S, Cardinality(s) = n + 1, NEW x \in s
               PROVE  Held(f, s) = f[x] + Held(f, s \ {x})
    OBVIOUS
  <2> DEFINE y == Pick(s)
  <2>1. y \in s /\ Held(f, s) = f[y] + Held(f, s \ {y})
    BY <1>1, SumStep
  <2> HIDE DEF y
  <2>2. CASE x = y
    BY <2>1, <2>2
  <2>3. CASE x # y
    <3>1. /\ Cardinality(s \ {y}) = n /\ s \ {y} \in SUBSET S /\ x \in s \ {y}
          /\ Cardinality(s \ {x}) = n /\ s \ {x} \in SUBSET S /\ y \in s \ {x}
      BY <2>1, <2>3, OneLess
    <3> DEFINE rest == Held(f, s \ {x, y})
    <3>2. (s \ {y}) \ {x} = s \ {x, y} /\ (s \ {x}) \ {y} = s \ {x, y} /\ s \ {x, y} \in SUBSET S
      OBVIOUS
    <3>3. Held(f, s \ {y}) = f[x] + rest /\ Held(f, s \ {x}) = f[y] + rest
      BY <1>3, <3>1, <3>2
    <3>4. rest \in Int /\ f[x] \in Int /\ f[y] \in Int
      BY <1>1, <2>1, <3>2
    <3> HIDE DEF rest
    <3> QED BY <2>1, <3>3, <3>4
  <2> QED BY <2>2, <2>3
<1> HIDE DEF N
<1>4. \A n \in Nat : n \in N
  BY <1>2, <1>3, Induction
<1> QED BY <1>1, <1>4 DEF N

LEMMA SumDisjoint ==
    ASSUME NEW S, IsFiniteSet(S), NEW f, \A x \in S : f[x] \in Int,
           NEW A \in SUBSET S
    PROVE  \A B \in SUBSET S : A \cap B = {} => Held(f, A \cup B) = Held(f, A) + Held(f, B)
<1> DEFINE N == {n \in Nat : \A B \in SUBSET S : Cardinality(B) = n /\ A \cap B = {} =>
                                Held(f, A \cup B) = Held(f, A) + Held(f, B)}
<1>1. \A s \in SUBSET S : IsFiniteSet(s) /\ Cardinality(s) \in Nat /\ Held(f, s) \in Int
  BY FS_Subset, FS_CardinalityType, SumType
<1>2. 0 \in N
  <2>1. Held(f, {}) = 0
    BY SumStep
  <2>2. \A s \in SUBSET S : Cardinality(s) = 0 => s = {}
    BY <1>1, FS_EmptySet
  <2> SUFFICES ASSUME NEW B \in SUBSET S, Cardinality(B) = 0
               PROVE  Held(f, A \cup B) = Held(f, A) + Held(f, B)
    OBVIOUS
  <2>3. B = {} /\ A \cup B = A
    BY <2>2
  <2>4. Held(f, A) \in Int
    BY <1>1
  <2> QED BY <2>1, <2>3, <2>4
<1>3. ASSUME NEW n \in Nat, n \in N PROVE n + 1 \in N
  <2> SUFFICES ASSUME NEW B \in SUBSET S, Cardinality(B) = n + 1, A \cap B = {}
               PROVE  Held(f, A \cup B) = Held(f, A) + Held(f, B)
    OBVIOUS
  <2>1. B # {}
    <3>1. Cardinality({}) = 0
      BY FS_EmptySet
    <3> QED BY <3>1, n + 1 # 0
  <2>2. PICK y \in B : TRUE
    BY <2>1
  <2>3. Cardinality(B \ {y}) = n /\ B \ {y} \in SUBSET S /\ A \cap (B \ {y}) = {}
    BY <2>2, OneLess
  <2>4. Held(f, A \cup (B \ {y})) = Held(f, A) + Held(f, B \ {y})
    BY <1>3, <2>3
  <2>5. (A \cup B) \ {y} = A \cup (B \ {y})
    OBVIOUS
  <2>6. /\ Held(f, A \cup B) = f[y] + Held(f, (A \cup B) \ {y})
        /\ Held(f, B) = f[y] + Held(f, B \ {y})
    BY <2>2, SumTakeOut
  <2>7. Held(f, A) \in Int /\ Held(f, B \ {y}) \in Int /\ f[y] \in Int
    BY <1>1, <2>3
  <2>8. Held(f, A \cup B) = f[y] + (Held(f, A) + Held(f, B \ {y}))
    BY <2>4, <2>5, <2>6
  <2> DEFINE a == Held(f, A)
             b == Held(f, B \ {y})
  <2> HIDE DEF a, b
  <2>9. a \in Int /\ b \in Int /\ Held(f, A \cup B) = f[y] + (a + b) /\ Held(f, B) = f[y] + b
    BY <2>6, <2>7, <2>8 DEF a, b
  <2>10. f[y] + (a + b) = a + (f[y] + b)
    BY <2>7, <2>9
  <2> QED BY <2>9, <2>10 DEF a, b
<1> HIDE DEF N
<1>4. \A n \in Nat : n \in N
  BY <1>2, <1>3, Induction
<1> QED BY <1>1, <1>4 DEF N

(* One value changes by d. *)
LEMMA SumChange ==
    ASSUME NEW S, IsFiniteSet(S), NEW f, \A x \in S : f[x] \in Int,
           NEW g, NEW x \in S, g[x] \in Int, \A y \in S \ {x} : g[y] = f[y]
    PROVE  Held(g, S) = Held(f, S) + (g[x] - f[x])
<1>1. IsFiniteSet(S \ {x})
  BY FS_Subset
<1>2. Held(g, S \ {x}) = Held(f, S \ {x})
  BY <1>1, SumEqual
<1>3. \A y \in S : g[y] \in Int
  OBVIOUS
<1>4. Held(g, S) = g[x] + Held(g, S \ {x}) /\ Held(f, S) = f[x] + Held(f, S \ {x})
  BY <1>3, SumTakeOut
<1>5. Held(f, S \ {x}) \in Int
  BY SumType
<1> QED BY <1>2, <1>4, <1>5

(* What holds of the empty set and of a set that holds without one of its  *)
(* elements holds of a finite set.                                         *)
LEMMA SetInduction ==
    ASSUME NEW S, IsFiniteSet(S), NEW P,
           {} \in P,
           \A s \in SUBSET S : \A x \in s : s \ {x} \in P => s \in P
    PROVE  S \in P
<1> DEFINE N == {n \in Nat : \A s \in SUBSET S : Cardinality(s) = n => s \in P}
<1>1. \A s \in SUBSET S : IsFiniteSet(s) /\ Cardinality(s) \in Nat
  BY FS_Subset, FS_CardinalityType
<1>2. 0 \in N
  BY <1>1, FS_EmptySet
<1>3. ASSUME NEW n \in Nat, n \in N PROVE n + 1 \in N
  <2> SUFFICES ASSUME NEW s \in SUBSET S, Cardinality(s) = n + 1 PROVE s \in P
    OBVIOUS
  <2>1. PICK x \in s : TRUE
    BY SomeLeft
  <2>2. s \ {x} \in SUBSET S /\ Cardinality(s \ {x}) = n
    BY <2>1, OneLess
  <2> QED BY <1>3, <2>1, <2>2
<1> HIDE DEF N
<1>4. \A n \in Nat : n \in N
  BY <1>2, <1>3, Induction
<1> QED BY <1>1, <1>4 DEF N

(* Values that are nowhere larger have no larger sum. *)
LEMMA SumAtMost ==
    ASSUME NEW S, IsFiniteSet(S), NEW f, NEW g,
           \A x \in S : f[x] \in Int /\ g[x] \in Int /\ f[x] <= g[x]
    PROVE  Held(f, S) <= Held(g, S)
<1> DEFINE P == {s \in SUBSET S : Held(f, s) <= Held(g, s)}
<1>1. {} \in P
  <2>1. Held(f, {}) = 0 /\ Held(g, {}) = 0
    BY FS_EmptySet, SumStep
  <2> QED BY <2>1
<1>2. ASSUME NEW s \in SUBSET S, NEW x \in s, s \ {x} \in P PROVE s \in P
  <2>1. Held(f, s) = f[x] + Held(f, s \ {x}) /\ Held(g, s) = g[x] + Held(g, s \ {x})
    BY SumTakeOut
  <2>2. Held(f, s \ {x}) \in Int /\ Held(g, s \ {x}) \in Int
    BY SumType
  <2>3. f[x] \in Int /\ g[x] \in Int /\ f[x] <= g[x]
    OBVIOUS
  <2> QED BY <1>2, <2>1, <2>2, <2>3
<1> HIDE DEF P
<1>3. S \in P
  BY <1>1, <1>2, SetInduction
<1> QED BY <1>3 DEF P

LEMMA SumOfZeros ==
    ASSUME NEW S, IsFiniteSet(S), NEW f, \A x \in S : f[x] = 0
    PROVE  Held(f, S) = 0
<1> DEFINE P == {s \in SUBSET S : Held(f, s) = 0}
<1>1. {} \in P
  <2>1. Held(f, {}) = 0
    BY FS_EmptySet, SumStep
  <2> QED BY <2>1
<1>2. ASSUME NEW s \in SUBSET S, NEW x \in s, s \ {x} \in P PROVE s \in P
  BY <1>2, SumTakeOut
<1> HIDE DEF P
<1>3. S \in P
  BY <1>1, <1>2, SetInduction
<1> QED BY <1>3 DEF P

(* A sum of natural numbers is one, and is at least each of them. *)
LEMMA SumOfNats ==
    ASSUME NEW S, IsFiniteSet(S), NEW f, \A x \in S : f[x] \in Nat
    PROVE  /\ Held(f, S) \in Nat
           /\ \A x \in S : f[x] <= Held(f, S)
<1> DEFINE P == {s \in SUBSET S : Held(f, s) \in Nat}
<1>1. {} \in P
  <2>1. Held(f, {}) = 0
    BY FS_EmptySet, SumStep
  <2> QED BY <2>1
<1>2. ASSUME NEW s \in SUBSET S, NEW x \in s, s \ {x} \in P PROVE s \in P
  <2>1. Held(f, s) = f[x] + Held(f, s \ {x})
    BY SumTakeOut
  <2> QED BY <1>2, <2>1
<1>3. ASSUME NEW s \in SUBSET S PROVE s \in P
  <2>1. ASSUME NEW t \in SUBSET s, NEW x \in t, t \ {x} \in P PROVE t \in P
    BY <1>2, <2>1
  <2> HIDE DEF P
  <2> QED BY <1>1, <2>1, SetInduction, FS_Subset
<1>4. ASSUME NEW x \in S PROVE f[x] <= Held(f, S)
  <2>1. Held(f, S) = f[x] + Held(f, S \ {x})
    BY SumTakeOut
  <2>2. Held(f, S \ {x}) \in Nat
    BY <1>3
  <2> QED BY <2>1, <2>2
<1> QED BY <1>3, <1>4

(* The sum over disjoint groups of the sums of the groups is the sum over  *)
(* all their elements.                                                     *)
LEMMA SumOfGroups ==
    ASSUME NEW S, IsFiniteSet(S), NEW f, \A x \in S : f[x] \in Int,
           NEW L, IsFiniteSet(L), NEW W, \A l \in L : W[l] \in SUBSET S,
           \A l, m \in L : l = m \/ W[l] \cap W[m] = {},
           NEW g, \A l \in L : g[l] = Held(f, W[l])
    PROVE  Held(g, L) = Held(f, UNION {W[l] : l \in L})
<1> DEFINE P == {s \in SUBSET L : Held(g, s) = Held(f, UNION {W[l] : l \in s})}
<1>1. {} \in P
  <2>1. Held(g, {}) = 0 /\ Held(f, {}) = 0
    BY FS_EmptySet, SumStep
  <2>2. UNION {W[l] : l \in {}} = {}
    OBVIOUS
  <2> QED BY <2>1, <2>2
<1>2. ASSUME NEW s \in SUBSET L, NEW x \in s, s \ {x} \in P PROVE s \in P
  <2> DEFINE rest == UNION {W[l] : l \in s \ {x}}
  <2>1. \A l \in L : g[l] \in Int
    BY SumType
  <2>2. Held(g, s) = g[x] + Held(g, s \ {x})
    BY <2>1, SumTakeOut
  <2>3. Held(g, s \ {x}) = Held(f, rest)
    BY <1>2
  <2>4. rest \in SUBSET S /\ rest \cap W[x] = {} /\ W[x] \in SUBSET S
        /\ W[x] \cup rest = UNION {W[l] : l \in s}
    OBVIOUS
  <2>5. Held(f, W[x] \cup rest) = Held(f, W[x]) + Held(f, rest)
    <3> HIDE DEF rest
    <3> QED BY <2>4, SumDisjoint
  <2> QED BY <2>2, <2>3, <2>4, <2>5
<1> HIDE DEF P
<1>3. S \in SUBSET S /\ L \in P
  BY <1>1, <1>2, SetInduction
<1> QED BY <1>3 DEF P

-----------------------------------------------------------------------------
(***************************************************************************)
(* Who is on the register: an account is one desk's or in one record of    *)
(* deployment.institutions or one retail holder's, and the wallets of      *)
(* desks that were reset belong to nobody any more.                        *)
(***************************************************************************)
WalletsOfDesks(set) == {d.wallet : d \in set}
ScriptWallets == Wallets \ (Apart \cup WalletsOfDesks(NewDesks))
IsInstitution(i) ==
    i = [name |-> i.name, wallet |-> i.wallet, role |-> i.role, eligible |-> i.eligible]

DirectoryInv ==
    /\ NamedDesks \subseteq org /\ org \subseteq Desks
    /\ left \subseteq WalletsOfDesks(NewDesks) \ WalletsOfDesks(org)
    /\ IsFiniteSet(institutions)
    /\ \A i \in institutions : IsInstitution(i) /\ i.wallet \in ScriptWallets
    /\ \A i, j \in institutions : i.wallet = j.wallet => i = j
    /\ holders \subseteq FeederKeys
    /\ feeder = NoRun
       \/ feeder \in [account : FeederKeys, pc : {"eligible", "transfer", "record"}]

LEMMA DirectoryInit == RegisterAssumption /\ Init => DirectoryInv
<1> SUFFICES ASSUME RegisterAssumption, Init PROVE DirectoryInv
  OBVIOUS
<1>1. \A i \in institutions : IsInstitution(i) /\ i.wallet \in ScriptWallets
  BY DEF RegisterAssumption, Init, IsInstitution, ScriptWallets, WalletsOfDesks
<1> QED BY <1>1 DEF RegisterAssumption, Init, DirectoryInv, Desks

(* The steps that change the directory. *)
LEMMA DirectoryActions ==
    ASSUME [Next]_vars
    PROVE  \/ UNCHANGED <<org, left, institutions, holders, feeder>>
           \/ \E d \in NewDesks : Join(d) \/ ResetDesk(d)
           \/ \E i \in Onboardable : Onboard(i)
           \/ \E i \in Anchors : SetEligibility(i, TRUE) \/ SetEligibility(i, FALSE)
           \/ \E k \in FeederKeys : FeederBegins(k)
           \/ FeederLists \/ FeederTransfers \/ FeederHasPar \/ FeederRecords \/ FeederStops
<1>1. CASE UNCHANGED vars
  BY <1>1 DEF vars, deskVars, scriptVars
<1>2. ASSUME NEW d \in NewDesks, Allocate(d)
      PROVE  UNCHANGED <<org, left, institutions, holders, feeder>>
  BY <1>2 DEF Allocate, deskVars, scriptVars
<1>3. ASSUME NEW s, NEW b, Settle(s, b)
      PROVE  UNCHANGED <<org, left, institutions, holders, feeder>>
  BY <1>3 DEF Settle, deskVars, scriptVars
<1>4. ASSUME NEW i, AllocateOpening(i) \/ Distribute(i)
      PROVE  UNCHANGED <<org, left, institutions, holders, feeder>>
  BY <1>4 DEF AllocateOpening, Distribute, deskVars, scriptVars
<1>5. ASSUME NEW x, Export(x) \/ Process(x)
      PROVE  UNCHANGED <<org, left, institutions, holders, feeder>>
  BY <1>5 DEF Export, Process, deskVars, scriptVars
<1>6. ASSUME NEW p, NEW rows, Begin(p, rows)
      PROVE  UNCHANGED <<org, left, institutions, holders, feeder>>
  BY <1>6 DEF Begin, deskVars, scriptVars
<1>7. ASSUME IssueStep \/ Complete \/ Reconcile \/ ReadRow \/ ReadSupply \/ Report
      PROVE  UNCHANGED <<org, left, institutions, holders, feeder>>
  BY <1>7 DEF IssueStep, Complete, Reconcile, ReadRow, ReadSupply, Report, deskVars, scriptVars
<1>8. CASE Next
  BY <1>8, <1>2, <1>3, <1>4, <1>5, <1>6, <1>7 DEF Next
<1> QED BY <1>1, <1>8

LEMMA DirectoryStep ==
    ASSUME RegisterAssumption, DirectoryInv, [Next]_vars
    PROVE  DirectoryInv'
<1>1. CASE UNCHANGED <<org, left, institutions, holders, feeder>>
  BY <1>1 DEF DirectoryInv, NoRun
<1>2. ASSUME NEW d \in NewDesks, Join(d)
      PROVE  DirectoryInv'
  <2>1. org' = org \cup {d} /\ d.wallet \notin left
        /\ UNCHANGED <<left, institutions, holders, feeder>>
    BY <1>2 DEF Join, scriptVars
  <2> QED BY <2>1 DEF DirectoryInv, WalletsOfDesks, Desks, NoRun
<1>3. ASSUME NEW d \in NewDesks, ResetDesk(d)
      PROVE  DirectoryInv'
  <2>1. /\ d \in org \ NamedDesks /\ org' = org \ {d} /\ left' = left \cup {d.wallet}
        /\ UNCHANGED <<institutions, holders, feeder>>
    BY <1>3 DEF ResetDesk, scriptVars
  <2>2. \A e \in org' : e.wallet # d.wallet
    BY <2>1 DEF DirectoryInv, RegisterAssumption
  <2> QED BY <2>1, <2>2 DEF DirectoryInv, WalletsOfDesks, Desks, NoRun
<1>4. ASSUME NEW i \in Onboardable, Onboard(i)
      PROVE  DirectoryInv'
  <2> DEFINE kept == {x \in institutions : x.wallet # i.wallet}
             new == [name |-> i.name, wallet |-> i.wallet, role |-> i.role, eligible |-> FALSE]
  <2>1. institutions' = kept \cup {new} /\ UNCHANGED <<org, left, holders, feeder>>
    BY <1>4 DEF Onboard, deskVars
  <2>2. IsFiniteSet(institutions')
    BY <2>1, FS_Subset, FS_AddElement DEF DirectoryInv
  <2>3. i.wallet \in ScriptWallets
    BY DEF RegisterAssumption, ScriptWallets, WalletsOfDesks
  <2>4. IsInstitution(new) /\ new.wallet = i.wallet
    BY DEF IsInstitution
  <2> HIDE DEF new
  <2>5. \A x \in institutions' : IsInstitution(x) /\ x.wallet \in ScriptWallets
    BY <2>1, <2>3, <2>4 DEF DirectoryInv
  <2>6. \A x, y \in institutions' : x.wallet = y.wallet => x = y
    BY <2>1, <2>4 DEF DirectoryInv
  <2> QED BY <2>1, <2>2, <2>5, <2>6 DEF DirectoryInv, NoRun
<1>5. ASSUME NEW i \in Anchors, NEW grant, SetEligibility(i, grant)
      PROVE  DirectoryInv'
  <2> DEFINE new == [i EXCEPT !.eligible = grant]
  <2>1. institutions' = (institutions \ {i}) \cup {new} /\ i \in institutions
        /\ UNCHANGED <<org, left, holders, feeder>>
    BY <1>5 DEF SetEligibility, deskVars, Anchors
  <2>2. IsFiniteSet(institutions')
    BY <2>1, FS_Subset, FS_AddElement DEF DirectoryInv
  <2>3. IsInstitution(new) /\ new.wallet = i.wallet
    <3>1. IsInstitution(i)
      BY <2>1 DEF DirectoryInv
    <3> QED BY <3>1 DEF IsInstitution
  <2> HIDE DEF new
  <2>4. \A x \in institutions' : IsInstitution(x) /\ x.wallet \in ScriptWallets
    BY <2>1, <2>3 DEF DirectoryInv
  <2>5. \A x, y \in institutions' : x.wallet = y.wallet => x = y
    BY <2>1, <2>3 DEF DirectoryInv
  <2> QED BY <2>1, <2>2, <2>4, <2>5 DEF DirectoryInv, NoRun
<1>6. ASSUME NEW k \in FeederKeys, FeederBegins(k)
      PROVE  DirectoryInv'
  <2>1. feeder' = [account |-> k, pc |-> "eligible"] /\ UNCHANGED <<org, left, institutions, holders>>
    BY <1>6 DEF FeederBegins, deskVars
  <2> QED BY <2>1 DEF DirectoryInv
<1>7. ASSUME FeederLists \/ FeederTransfers \/ FeederHasPar
      PROVE  DirectoryInv'
  <2>1. /\ feeder.pc # "idle"
        /\ \E pc \in {"transfer", "record"} : feeder' = [feeder EXCEPT !.pc = pc]
        /\ UNCHANGED <<org, left, institutions, holders>>
    BY <1>7 DEF FeederLists, FeederTransfers, FeederHasPar, deskVars
  <2> QED BY <2>1 DEF DirectoryInv, NoRun
<1>8. ASSUME FeederRecords \/ FeederStops
      PROVE  DirectoryInv'
  <2>1. /\ feeder' = NoRun /\ UNCHANGED <<org, left, institutions>>
        /\ feeder # NoRun
        /\ holders' \subseteq holders \cup {feeder.account}
    BY <1>8 DEF FeederRecords, FeederStops, deskVars, NoRun
  <2> QED BY <2>1 DEF DirectoryInv, NoRun
<1> QED BY <1>1, <1>2, <1>3, <1>4, <1>5, <1>6, <1>7, <1>8, DirectoryActions

(* Whose the wallets of a line are. *)
LEMMA AccountsOf ==
    ASSUME RegisterAssumption, DirectoryInv, NEW n, NEW w
    PROVE  /\ w \in Accounts(Unlisted, n) <=>
                \E i \in Anchors : i.name = n /\ i.wallet = w /\ w \notin WalletsOfDesks(org)
           /\ w \in Accounts(Unlisted, n) => w \in ScriptWallets \ WalletsOfDesks(org)
BY DEF Accounts, Unlisted, WalletsOfDesks, Anchors, DirectoryInv

LEMMA AccountHasOneName ==
    ASSUME RegisterAssumption, DirectoryInv, NEW m, NEW n,
           Accounts(Unlisted, m) \cap Accounts(Unlisted, n) # {}
    PROVE  m = n
<1>1. PICK w : w \in Accounts(Unlisted, m) /\ w \in Accounts(Unlisted, n)
  OBVIOUS
<1>2. PICK i \in Anchors : i.name = m /\ i.wallet = w
  BY <1>1, AccountsOf
<1>3. PICK j \in Anchors : j.name = n /\ j.wallet = w
  BY <1>1, AccountsOf
<1> QED BY <1>2, <1>3 DEF DirectoryInv, Anchors

LEMMA FoldedOf ==
    ASSUME RegisterAssumption, DirectoryInv, NEW d \in org
    PROVE  /\ Folded(d) \subseteq Accounts(Unlisted, d.name)
           /\ Folded(d) # {} => d = FirstDesk(d.name)
BY DEF Folded

DeskLine(d) == [name |-> d.name, kind |-> "desk", wallets |-> {d.wallet} \cup Folded(d)]
AnchorLine(n) == [name |-> n, kind |-> "anchor", wallets |-> Accounts(Unlisted, n)]
AnchorNames == {i.name : i \in Unlisted} \ {d.name : d \in org}
AgentLine == [name |-> "agent", kind |-> "agent", wallets |-> {Agent}]
FeederLine == [name |-> "feeder", kind |-> "feeder", wallets |-> holders]

LEMMA LinesOf ==
    /\ DeskLines = {DeskLine(d) : d \in org}
    /\ AnchorLines = {AnchorLine(n) : n \in AnchorNames}
    /\ Directory = DeskLines \cup AnchorLines \cup {AgentLine, FeederLine}
BY DEF DeskLines, DeskLine, AnchorLines, AnchorLine, AnchorNames, Directory, AgentLine, FeederLine

LEMMA ImageFinite ==
    ASSUME NEW S, IsFiniteSet(S), NEW f
    PROVE  IsFiniteSet({f[x] : x \in S})
<1> DEFINE T == {f[x] : x \in S}
           F == [x \in S |-> f[x]]
<1>1. F \in Surjection(S, T)
  BY DEF Surjection
<1> HIDE DEF F, T
<1>2. IsFiniteSet(T)
  BY <1>1, FS_Surjection
<1> QED BY <1>2 DEF T

LEMMA DirectoryFinite ==
    ASSUME RegisterAssumption, DirectoryInv
    PROVE  IsFiniteSet(Directory)
<1>1. IsFiniteSet(org) /\ IsFiniteSet(Unlisted)
  <2>1. org \subseteq Desks /\ Unlisted \subseteq institutions
    BY DEF DirectoryInv, Unlisted, Anchors
  <2> QED BY <2>1, FS_Subset DEF DirectoryInv, RegisterAssumption
<1>2. IsFiniteSet(DeskLines)
  <2> DEFINE f == [d \in org |-> DeskLine(d)]
  <2>1. DeskLines = {f[d] : d \in org}
    BY LinesOf
  <2> HIDE DEF f
  <2> QED BY <1>1, <2>1, ImageFinite
<1>3. IsFiniteSet(AnchorLines)
  <2> DEFINE f == [i \in Unlisted |-> i.name]
             g == [n \in AnchorNames |-> AnchorLine(n)]
  <2>1. {i.name : i \in Unlisted} = {f[i] : i \in Unlisted} /\ AnchorLines = {g[n] : n \in AnchorNames}
    BY LinesOf
  <2> HIDE DEF f, g
  <2>2. IsFiniteSet(AnchorNames)
    <3>1. IsFiniteSet({i.name : i \in Unlisted})
      BY <1>1, <2>1, ImageFinite
    <3>2. AnchorNames \subseteq {i.name : i \in Unlisted}
      BY DEF AnchorNames
    <3> QED BY <3>1, <3>2, FS_Subset
  <2> QED BY <2>1, <2>2, ImageFinite
<1>4. IsFiniteSet({AgentLine, FeederLine})
  <2>1. IsFiniteSet({AgentLine}) /\ {AgentLine, FeederLine} = {AgentLine} \cup {FeederLine}
    BY FS_Singleton
  <2> QED BY <2>1, FS_AddElement
<1>5. IsFiniteSet(DeskLines \cup AnchorLines)
  BY <1>2, <1>3, FS_Union
<1>6. Directory = (DeskLines \cup AnchorLines) \cup {AgentLine, FeederLine}
  BY LinesOf
<1> QED BY <1>4, <1>5, <1>6, FS_Union

LEMMA LineKinds ==
    ASSUME RegisterAssumption, DirectoryInv
    PROVE  /\ \A d \in org : d.wallet \in Wallets \ Apart
           /\ \A d \in org : Folded(d) \subseteq ScriptWallets \ WalletsOfDesks(org)
           /\ \A n \in AnchorNames : Accounts(Unlisted, n) \subseteq ScriptWallets \ WalletsOfDesks(org)
           /\ Agent \in Wallets \ FeederKeys /\ holders \subseteq FeederKeys
           /\ FeederKeys \subseteq Wallets /\ Apart = {Agent} \cup FeederKeys
           /\ ScriptWallets \subseteq Wallets \ Apart
<1>1. \A d \in org : d.wallet \in Wallets \ Apart
  BY DEF DirectoryInv, RegisterAssumption
<1> QED BY <1>1, AccountsOf, FoldedOf DEF DirectoryInv, RegisterAssumption, Apart, ScriptWallets

LEMMA LinesApart ==
    ASSUME RegisterAssumption, DirectoryInv, NEW l \in Directory, NEW m \in Directory
    PROVE  l.wallets \in SUBSET Wallets /\ (l = m \/ l.wallets \cap m.wallets = {})
<1>1. ASSUME NEW d \in org, NEW e \in org, d # e
      PROVE  DeskLine(d).wallets \cap DeskLine(e).wallets = {}
  <2>1. d.wallet # e.wallet
    BY <1>1 DEF DirectoryInv, RegisterAssumption
  <2>2. d.wallet \notin Folded(e) /\ e.wallet \notin Folded(d)
    BY LineKinds DEF WalletsOfDesks
  <2>3. Folded(d) \cap Folded(e) = {}
    <3> SUFFICES ASSUME Folded(d) \cap Folded(e) # {} PROVE FALSE
      OBVIOUS
    <3>1. Accounts(Unlisted, d.name) \cap Accounts(Unlisted, e.name) # {}
      BY FoldedOf
    <3>2. d.name = e.name
      BY <3>1, AccountHasOneName
    <3> QED BY <1>1, <3>2, FoldedOf
  <2> QED BY <2>1, <2>2, <2>3 DEF DeskLine
<1>2. ASSUME NEW d \in org, NEW n \in AnchorNames
      PROVE  DeskLine(d).wallets \cap AnchorLine(n).wallets = {}
  <2>1. d.wallet \notin Accounts(Unlisted, n)
    BY LineKinds DEF WalletsOfDesks
  <2>2. d.name # n
    BY DEF AnchorNames
  <2>3. Folded(d) \cap Accounts(Unlisted, n) = {}
    BY <2>2, FoldedOf, AccountHasOneName
  <2> QED BY <2>1, <2>3 DEF DeskLine, AnchorLine
<1>3. ASSUME NEW n \in AnchorNames, NEW k \in AnchorNames, n # k
      PROVE  AnchorLine(n).wallets \cap AnchorLine(k).wallets = {}
  BY <1>3, AccountHasOneName DEF AnchorLine
<1>4. \A d \in org : DeskLine(d).wallets \subseteq Wallets \ Apart
  BY LineKinds DEF DeskLine
<1>5. \A n \in AnchorNames : AnchorLine(n).wallets \subseteq Wallets \ Apart
  BY LineKinds DEF AnchorLine
<1>6. AgentLine.wallets = {Agent} /\ FeederLine.wallets = holders
  BY DEF AgentLine, FeederLine
<1>7. /\ \/ \E d \in org : l = DeskLine(d)
         \/ \E n \in AnchorNames : l = AnchorLine(n)
         \/ l \in {AgentLine, FeederLine}
      /\ \/ \E d \in org : m = DeskLine(d)
         \/ \E n \in AnchorNames : m = AnchorLine(n)
         \/ m \in {AgentLine, FeederLine}
  BY LinesOf
<1> QED BY <1>1, <1>2, <1>3, <1>4, <1>5, <1>6, <1>7, LineKinds

(* The lines list the desks' wallets, the lenders' accounts, the agent's   *)
(* and the recorded retail holders', and nothing else.                     *)
LEMMA LinesCover ==
    ASSUME RegisterAssumption, DirectoryInv
    PROVE  UNION {l.wallets : l \in Directory} =
              WalletsOfDesks(org) \cup WalletsOfDesks(Anchors) \cup {Agent} \cup holders
<1> DEFINE all == UNION {l.wallets : l \in Directory}
           named == WalletsOfDesks(org) \cup WalletsOfDesks(Anchors) \cup {Agent} \cup holders
<1>1. \A d \in org : DeskLine(d) \in Directory /\ DeskLine(d).wallets = {d.wallet} \cup Folded(d)
  BY LinesOf DEF DeskLine
<1>2. \A n \in AnchorNames : AnchorLine(n) \in Directory
                             /\ AnchorLine(n).wallets = Accounts(Unlisted, n)
  BY LinesOf DEF AnchorLine
<1>3. /\ AgentLine \in Directory /\ AgentLine.wallets = {Agent}
      /\ FeederLine \in Directory /\ FeederLine.wallets = holders
  BY LinesOf DEF AgentLine, FeederLine
<1>4. WalletsOfDesks(org) \subseteq all
  BY <1>1 DEF WalletsOfDesks
<1>5. ASSUME NEW i \in Anchors, i.wallet \notin WalletsOfDesks(org) PROVE i.wallet \in all
  <2>1. i.wallet \in Accounts(Unlisted, i.name)
    BY <1>5, AccountsOf
  <2>2. CASE \E d \in org : d.name = i.name
    <3>1. FirstDesk(i.name) \in org /\ FirstDesk(i.name).name = i.name
      BY <2>2 DEF FirstDesk
    <3>2. Folded(FirstDesk(i.name)) = Accounts(Unlisted, i.name)
      BY <3>1 DEF Folded
    <3> QED BY <1>1, <2>1, <3>1, <3>2
  <2>3. CASE ~\E d \in org : d.name = i.name
    <3>1. i \in Unlisted
      BY <1>5 DEF Unlisted, WalletsOfDesks
    <3>2. i.name \in AnchorNames
      BY <2>3, <3>1 DEF AnchorNames
    <3> QED BY <1>2, <2>1, <3>2
  <2> QED BY <2>2, <2>3
<1>6. named \subseteq all
  BY <1>3, <1>4, <1>5 DEF WalletsOfDesks
<1>7. \A n, w : w \in Accounts(Unlisted, n) => w \in WalletsOfDesks(Anchors)
  BY AccountsOf DEF WalletsOfDesks
<1>8. ASSUME NEW l \in Directory PROVE l.wallets \subseteq named
  <2>1. CASE \E d \in org : l = DeskLine(d)
    BY <1>1, <1>7, <2>1, FoldedOf DEF WalletsOfDesks
  <2>2. CASE \E n \in AnchorNames : l = AnchorLine(n)
    BY <1>2, <1>7, <2>2
  <2>3. CASE l \in {AgentLine, FeederLine}
    BY <1>3, <2>3
  <2> QED BY <2>1, <2>2, <2>3, LinesOf
<1> QED BY <1>6, <1>8

-----------------------------------------------------------------------------
(***************************************************************************)
(* Balances: whoever holds par is listed, a retail holder, or a desk that  *)
(* was reset.                                                              *)
(***************************************************************************)
Lending == WalletsOfDesks(org) \cup WalletsOfDesks(Anchors)
Accounted == Lending \cup Apart \cup left
BalancesType == par \in [Securities -> [Wallets -> Nat]]
BalancesAccounted == \A s \in Securities : \A w \in Wallets : par[s][w] > 0 => w \in Accounted

LEMMA Accounts1 ==
    ASSUME RegisterAssumption, DirectoryInv
    PROVE  /\ Lending \subseteq Wallets \ Apart
           /\ Apart = {Agent} \cup FeederKeys /\ Agent \notin FeederKeys
           /\ Source \in Wallets \ FeederKeys
           /\ left \subseteq Wallets \ (Apart \cup Lending)
           /\ Accounted \subseteq Wallets
<1>1. WalletsOfDesks(org) \subseteq Wallets \ Apart
  BY DEF DirectoryInv, RegisterAssumption, WalletsOfDesks
<1>2. WalletsOfDesks(Anchors) \subseteq ScriptWallets
  BY DEF DirectoryInv, Anchors, WalletsOfDesks
<1>3. WalletsOfDesks(NewDesks) \subseteq Wallets \ Apart
  BY DEF RegisterAssumption, WalletsOfDesks, Desks
<1>4. Apart = {Agent} \cup FeederKeys /\ Agent \in Wallets \ FeederKeys
      /\ FeederKeys \subseteq Wallets /\ Source \in Wallets \ FeederKeys
  BY DEF Apart, RegisterAssumption
<1> QED BY <1>1, <1>2, <1>3, <1>4 DEF Lending, Accounted, DirectoryInv, ScriptWallets

(* Nobody drops out: what is accounted for stays so. *)
LEMMA AccountedStays ==
    ASSUME RegisterAssumption, DirectoryInv, [Next]_vars
    PROVE  Accounted \subseteq Accounted'
<1>1. CASE UNCHANGED <<org, left, institutions>>
  BY <1>1 DEF Accounted, Lending, Anchors
<1>2. ASSUME NEW d \in NewDesks, Join(d) PROVE Accounted \subseteq Accounted'
  BY <1>2 DEF Join, scriptVars, Accounted, Lending, Anchors, WalletsOfDesks
<1>3. ASSUME NEW d \in NewDesks, ResetDesk(d) PROVE Accounted \subseteq Accounted'
  <2>1. org' = org \ {d} /\ left' = left \cup {d.wallet} /\ Anchors' = Anchors
    BY <1>3 DEF ResetDesk, scriptVars, Anchors
  <2>2. WalletsOfDesks(org) \subseteq WalletsOfDesks(org') \cup {d.wallet}
    BY <2>1 DEF WalletsOfDesks
  <2> QED BY <2>1, <2>2 DEF Accounted, Lending, WalletsOfDesks
<1>4. ASSUME UNCHANGED <<org, left>>,
             \A i \in Anchors : \E j \in Anchors' : j.wallet = i.wallet
      PROVE  Accounted \subseteq Accounted'
  BY <1>4 DEF Accounted, Lending, WalletsOfDesks
<1>5. ASSUME NEW i \in Onboardable, Onboard(i) PROVE Accounted \subseteq Accounted'
  <2> DEFINE new == [name |-> i.name, wallet |-> i.wallet, role |-> i.role, eligible |-> FALSE]
  <2>1. institutions' = {x \in institutions : x.wallet # i.wallet} \cup {new}
        /\ UNCHANGED <<org, left>>
    BY <1>5 DEF Onboard, deskVars
  <2>2. new.wallet = i.wallet /\ new.role # "outsider"
    BY DEF RegisterAssumption
  <2> HIDE DEF new
  <2>3. \A x \in Anchors : \E j \in Anchors' : j.wallet = x.wallet
    BY <2>1, <2>2 DEF Anchors
  <2> QED BY <1>4, <2>1, <2>3
<1>6. ASSUME NEW i \in Anchors, NEW grant, SetEligibility(i, grant)
      PROVE  Accounted \subseteq Accounted'
  <2> DEFINE new == [i EXCEPT !.eligible = grant]
  <2>1. institutions' = (institutions \ {i}) \cup {new} /\ UNCHANGED <<org, left>>
    BY <1>6 DEF SetEligibility, deskVars
  <2>2. new.wallet = i.wallet /\ new.role # "outsider"
    <3>1. IsInstitution(i) /\ i.role # "outsider"
      BY DEF DirectoryInv, Anchors
    <3> QED BY <3>1 DEF IsInstitution
  <2> HIDE DEF new
  <2>3. \A x \in Anchors : \E j \in Anchors' : j.wallet = x.wallet
    BY <2>1, <2>2 DEF Anchors
  <2> QED BY <1>4, <2>1, <2>3
<1>7. ASSUME \/ \E k \in FeederKeys : FeederBegins(k)
             \/ FeederLists \/ FeederTransfers \/ FeederHasPar \/ FeederRecords \/ FeederStops
      PROVE  Accounted \subseteq Accounted'
  BY <1>1, <1>7 DEF FeederBegins, FeederLists, FeederTransfers, FeederHasPar, FeederRecords,
                    FeederStops, deskVars
<1> QED BY <1>1, <1>2, <1>3, <1>5, <1>6, <1>7, DirectoryActions

(* The steps that move par. *)
LEMMA Movements ==
    ASSUME RegisterAssumption, DirectoryInv, [Next]_vars
    PROVE  \/ UNCHANGED <<par, audit>>
           \/ UNCHANGED par /\ (Reconcile \/ ReadRow \/ ReadSupply \/ Report)
           \/ \E a, b \in Lending : a # b /\ Transfer(a, b)
           \/ \E b \in Lending : Issue(b)
           \/ FeederTransfers
           \/ \E i \in Anchors : Distribute(i)
           \/ IssueStep
<1> DEFINE still == UNCHANGED <<par, audit>>
<1>1. CASE UNCHANGED vars
  BY <1>1 DEF vars
<1>2. ASSUME NEW d \in NewDesks, Join(d) \/ ResetDesk(d) PROVE still
  BY <1>2 DEF Join, ResetDesk
<1>3. ASSUME NEW d \in NewDesks, Allocate(d) PROVE \E b \in Lending : Issue(b)
  <2>1. d.wallet \in Lending /\ Issue(d.wallet)
    BY <1>3 DEF Allocate, Lending, WalletsOfDesks
  <2> QED BY <2>1
<1>4. ASSUME NEW s \in org \cup Anchors, NEW b \in org \cup Anchors, Settle(s, b)
      PROVE  \E x, y \in Lending : x # y /\ Transfer(x, y)
  <2>1. s.wallet \in Lending /\ b.wallet \in Lending
    BY DEF Lending, WalletsOfDesks
  <2>2. s.wallet # b.wallet /\ Transfer(s.wallet, b.wallet)
    BY <1>4 DEF Settle
  <2> QED BY <2>1, <2>2
<1>5. ASSUME NEW i, Onboard(i) PROVE still
  BY <1>5 DEF Onboard
<1>6. ASSUME NEW i, NEW grant, SetEligibility(i, grant) PROVE still
  BY <1>6 DEF SetEligibility
<1>7. ASSUME NEW i \in Anchors, AllocateOpening(i) PROVE \E b \in Lending : Issue(b)
  <2>1. i.wallet \in Lending /\ Issue(i.wallet)
    BY <1>7 DEF AllocateOpening, Lending, WalletsOfDesks
  <2> QED BY <2>1
<1>8. ASSUME NEW k, FeederBegins(k) \/ FeederLists \/ FeederHasPar \/ FeederRecords \/ FeederStops
      PROVE  still
  BY <1>8 DEF FeederBegins, FeederLists, FeederHasPar, FeederRecords, FeederStops
<1>9. ASSUME NEW x, Export(x) \/ Process(x) PROVE still
  BY <1>9 DEF Export, Process
<1>10. ASSUME NEW p, NEW rows, Begin(p, rows) PROVE still
  BY <1>10 DEF Begin
<1>11. ASSUME Complete PROVE still
  BY <1>11 DEF Complete
<1>12. ASSUME Reconcile \/ ReadRow \/ ReadSupply \/ Report PROVE UNCHANGED par
  BY <1>12 DEF Reconcile, ReadRow, ReadSupply, Report
<1> HIDE DEF still
<1>13. CASE Next
  BY <1>2, <1>3, <1>4, <1>5, <1>6, <1>7, <1>8, <1>9, <1>10, <1>11, <1>12, <1>13 DEF Next, still
<1> QED BY <1>1, <1>13 DEF still

(* What a movement does to the balances. *)
LEMMA TransferMoves ==
    ASSUME BalancesType, NEW a \in Wallets, NEW b \in Wallets, a # b, Transfer(a, b)
    PROVE  /\ BalancesType'
           /\ par'[Issued] = par[Issued]
           /\ par[Prepared][a] > 0
           /\ par'[Prepared][a] = par[Prepared][a] - 1
           /\ par'[Prepared][b] = par[Prepared][b] + 1
           /\ \A w \in Wallets \ {a, b} : par'[Prepared][w] = par[Prepared][w]
<1> USE DEF BalancesType, Securities, Prepared, Issued
<1>1. par' = [par EXCEPT ![Prepared][a] = @ - 1, ![Prepared][b] = @ + 1] /\ par[Prepared][a] > 0
  BY DEF Transfer
<1> QED BY <1>1

LEMMA IssueMoves ==
    ASSUME BalancesType, NEW b \in Wallets, Issue(b)
    PROVE  /\ BalancesType'
           /\ par'[Issued] = par[Issued]
           /\ par'[Prepared][b] = par[Prepared][b] + 1
           /\ \A w \in Wallets \ {b} : par'[Prepared][w] = par[Prepared][w]
BY DEF BalancesType, Issue, Securities, Prepared, Issued

-----------------------------------------------------------------------------
(***************************************************************************)
(* Composing an issuance: the rows that are kept, and the steps.           *)
(***************************************************************************)
Row == [wallet : Wallets, par : Nat]

LEMMA CountingEntered ==
    ASSUME NEW rows \in Seq(Row), NEW i \in 0..Len(rows)
    PROVE  /\ EnteredUpTo(rows, i) \in Nat
           /\ EnteredUpTo(rows, 0) = 0
           /\ i > 0 => EnteredUpTo(rows, i) =
                          EnteredUpTo(rows, i - 1) + (IF rows[i].par > 0 THEN 1 ELSE 0)
<1> DEFINE kept(n) == {j \in 1..n : rows[j].par > 0}
<1>1. \A n \in Nat : IsFiniteSet(kept(n)) /\ Cardinality(kept(n)) \in Nat
  <2> SUFFICES ASSUME NEW n \in Nat PROVE IsFiniteSet(kept(n)) /\ Cardinality(kept(n)) \in Nat
    OBVIOUS
  <2>1. IsFiniteSet(1..n) /\ kept(n) \in SUBSET (1..n)
    BY FS_Interval
  <2> QED BY <2>1, FS_Subset, FS_CardinalityType
<1>2. kept(0) = {}
  OBVIOUS
<1>3. ASSUME i > 0 PROVE kept(i) = IF rows[i].par > 0 THEN kept(i - 1) \cup {i} ELSE kept(i - 1)
  BY <1>3
<1>4. i > 0 => i \notin kept(i - 1) /\ i - 1 \in Nat
  OBVIOUS
<1>5. i \in Nat /\ \A n : EnteredUpTo(rows, n) = Cardinality(kept(n))
  BY DEF EnteredUpTo
<1> HIDE DEF kept
<1>6. ASSUME i > 0
      PROVE  Cardinality(kept(i)) =
                Cardinality(kept(i - 1)) + (IF rows[i].par > 0 THEN 1 ELSE 0)
  <2>1. IsFiniteSet(kept(i - 1)) /\ i \notin kept(i - 1) /\ Cardinality(kept(i - 1)) \in Nat
    BY <1>1, <1>4, <1>6
  <2>2. Cardinality(kept(i - 1) \cup {i}) = Cardinality(kept(i - 1)) + 1
    BY <2>1, FS_AddElement
  <2>3. CASE rows[i].par > 0
    BY <1>3, <1>6, <2>2, <2>3
  <2>4. CASE ~(rows[i].par > 0)
    <3>1. kept(i) = kept(i - 1)
      BY <1>3, <1>6, <2>4
    <3> QED BY <2>1, <2>4, <3>1
  <2> QED BY <2>3, <2>4
<1> QED BY <1>1, <1>2, <1>5, <1>6, FS_EmptySet

(* The rows that are kept are rows with an amount. *)
LEMMA EnteredRows ==
    ASSUME NEW rows \in Seq(Row)
    PROVE  Entered(rows) \in Seq({r \in Row : r.par > 0})
<1> DEFINE N == EnteredUpTo(rows, Len(rows))
           last(n, i) == rows[i].par > 0 /\ EnteredUpTo(rows, i) = n
<1>1. N \in Nat /\ Len(rows) \in Nat
  BY CountingEntered
<1>2. ASSUME NEW n \in 1..N PROVE \E i \in 1..Len(rows) : last(n, i)
  <2> DEFINE I == {i \in 0..Len(rows) : EnteredUpTo(rows, i) >= n}
  <2>1. Len(rows) \in I /\ I \in SUBSET Nat
    BY <1>1
  <2> HIDE DEF I
  <2>2. PICK i \in I : \A k \in I : ~(k < i)
    BY <2>1, Least
  <2>3. i \in 0..Len(rows) /\ EnteredUpTo(rows, i) >= n /\ EnteredUpTo(rows, i) \in Nat
    BY <2>2, CountingEntered DEF I
  <2>4. i > 0
    BY <2>3, CountingEntered
  <2>5. i - 1 \in 0..Len(rows) /\ i - 1 < i
    BY <2>3, <2>4
  <2>6. i - 1 \notin I
    BY <2>2, <2>5
  <2>7. EnteredUpTo(rows, i - 1) \in Nat /\ EnteredUpTo(rows, i - 1) < n
    BY <2>5, <2>6, CountingEntered DEF I
  <2>8. EnteredUpTo(rows, i) = EnteredUpTo(rows, i - 1) + (IF rows[i].par > 0 THEN 1 ELSE 0)
    BY <2>3, <2>4, CountingEntered
  <2>9. i \in 1..Len(rows) /\ last(n, i)
    BY <2>3, <2>4, <2>7, <2>8
  <2> QED BY <2>9
<1>3. ASSUME NEW n \in 1..N PROVE Entered(rows)[n] \in {r \in Row : r.par > 0}
  <2> DEFINE i == CHOOSE k \in 1..Len(rows) : last(n, k)
  <2>1. i \in 1..Len(rows) /\ last(n, i)
    BY <1>2
  <2>2. Entered(rows)[n] = rows[i]
    BY DEF Entered
  <2> HIDE DEF i
  <2> QED BY <2>1, <2>2
<1>4. Entered(rows) = [n \in 1..N |-> Entered(rows)[n]]
  BY DEF Entered
<1> HIDE DEF N
<1> QED BY <1>1, <1>3, <1>4, IsASeq

Ops == {"create", "issuer", "whitelist", "kyc", "issue"}
StepType == [op : Ops, wallet : Wallets, amount : Nat]

(* The rows beginIssuance accepted. *)
ValidTerms(principal, rows) ==
    /\ principal \in Nat
    /\ rows \in Seq(Row)
    /\ NoDuplicate(rows)
    /\ RowsPar(rows) <= principal
    /\ \A i \in DOMAIN rows : rows[i].wallet # Agent

LEMMA RowsParType ==
    ASSUME NEW rows \in Seq(Row)
    PROVE  RowsPar(rows) \in Nat
<1> DEFINE f == [i \in DOMAIN rows |-> rows[i].par]
<1>1. IsFiniteSet(DOMAIN rows)
  BY FS_Interval
<1>2. \A i \in DOMAIN rows : f[i] \in Nat
  <2>1. \A i \in DOMAIN rows : rows[i] \in Row /\ f[i] = rows[i].par
    OBVIOUS
  <2> HIDE DEF f
  <2> QED BY <2>1 DEF Row
<1> HIDE DEF f
<1>3. Held(f, DOMAIN rows) \in Nat
  BY <1>1, <1>2, SumOfNats
<1> QED BY <1>3 DEF RowsPar, f

(* The steps of the agent, of each lender and of the remainder. *)
AgentSteps(principal) ==
    <<Step("create", Agent, principal), Step("issuer", Agent, 0),
      Step("whitelist", Agent, 0), Step("kyc", Agent, 0)>>
AllLenderSteps(rows) ==
    [i \in 1..3 * Len(rows) |-> LenderSteps(rows[(i + 2) \div 3])[((i - 1) % 3) + 1]]
LastSteps(principal, rows) ==
    IF Unallocated(principal, rows) > 0
    THEN <<Step("issue", Agent, Unallocated(principal, rows))>> ELSE <<>>

LEMMA StepsOf ==
    ASSUME NEW principal, NEW rows
    PROVE  issuanceSteps(principal, rows) =
              AgentSteps(principal) \o AllLenderSteps(rows) \o LastSteps(principal, rows)
BY DEF issuanceSteps, AgentSteps, AllLenderSteps, LastSteps

LEMMA Thirds ==
    ASSUME NEW i \in Nat, NEW n \in Nat, i \in 1..3 * n
    PROVE  /\ (i + 2) \div 3 \in 1..n
           /\ (i - 1) % 3 \in 0..2
           /\ i = 3 * ((i + 2) \div 3 - 1) + ((i - 1) % 3) + 1
OBVIOUS

LEMMA LenderStepsType ==
    ASSUME NEW rows \in Seq(Row)
    PROVE  /\ AllLenderSteps(rows) \in Seq(StepType)
           /\ Len(AllLenderSteps(rows)) = 3 * Len(rows)
           /\ \A i \in 1..Len(rows) :
                 /\ 3 * i \in 1..3 * Len(rows)
                 /\ AllLenderSteps(rows)[3 * i - 2] = Step("whitelist", rows[i].wallet, 0)
                 /\ AllLenderSteps(rows)[3 * i - 1] = Step("kyc", rows[i].wallet, 0)
                 /\ AllLenderSteps(rows)[3 * i] = Step("issue", rows[i].wallet, rows[i].par)
           /\ \A k \in 1..3 * Len(rows) : \E i \in 1..Len(rows) : k \in {3 * i - 2, 3 * i - 1, 3 * i}
<1> DEFINE n == Len(rows)
           s == AllLenderSteps(rows)
<1>1. n \in Nat /\ 3 * n \in Nat
  OBVIOUS
<1>2. \A k \in 1..3 * n : \E i \in 1..n : k \in {3 * i - 2, 3 * i - 1, 3 * i}
  <2> SUFFICES ASSUME NEW k \in 1..3 * n
               PROVE  \E i \in 1..n : k \in {3 * i - 2, 3 * i - 1, 3 * i}
    OBVIOUS
  <2>1. (k + 2) \div 3 \in 1..n /\ (k - 1) % 3 \in 0..2
        /\ k = 3 * ((k + 2) \div 3 - 1) + ((k - 1) % 3) + 1
    BY <1>1, Thirds
  <2> HIDE DEF n
  <2> DEFINE i == (k + 2) \div 3
             r == (k - 1) % 3
  <2> HIDE DEF i, r
  <2>2. i \in 1..n /\ r \in 0..2 /\ k = 3 * (i - 1) + r + 1
    BY <2>1 DEF i, r
  <2>3. k \in {3 * i - 2, 3 * i - 1, 3 * i}
    BY <1>1, <2>2
  <2> QED BY <2>2, <2>3
<1>3. ASSUME NEW i \in 1..n, NEW r \in 0..2
      PROVE  /\ 3 * i - 2 + r \in 1..3 * n
             /\ (3 * i - 2 + r + 2) \div 3 = i
             /\ ((3 * i - 2 + r - 1) % 3) + 1 = r + 1
  OBVIOUS
<1>4. ASSUME NEW i \in 1..n
      PROVE  /\ 3 * i - 2 \in 1..3 * n /\ 3 * i - 1 \in 1..3 * n /\ 3 * i \in 1..3 * n
             /\ s[3 * i - 2] = Step("whitelist", rows[i].wallet, 0)
             /\ s[3 * i - 1] = Step("kyc", rows[i].wallet, 0)
             /\ s[3 * i] = Step("issue", rows[i].wallet, rows[i].par)
  <2>1. ASSUME NEW r \in 0..2 PROVE s[3 * i - 2 + r] = LenderSteps(rows[i])[r + 1]
    <3> DEFINE k == 3 * i - 2 + r
    <3>1. k \in 1..3 * n /\ (k + 2) \div 3 = i /\ ((k - 1) % 3) + 1 = r + 1
      BY <1>3
    <3> HIDE DEF k
    <3>2. s[k] = LenderSteps(rows[(k + 2) \div 3])[((k - 1) % 3) + 1]
      BY <3>1 DEF AllLenderSteps
    <3> QED BY <3>1, <3>2 DEF k
  <2>2. 3 * i - 2 + 0 = 3 * i - 2 /\ 3 * i - 2 + 1 = 3 * i - 1 /\ 3 * i - 2 + 2 = 3 * i
    OBVIOUS
  <2>3. s[3 * i - 2] = LenderSteps(rows[i])[0 + 1] /\ s[3 * i - 1] = LenderSteps(rows[i])[1 + 1]
        /\ s[3 * i] = LenderSteps(rows[i])[2 + 1]
    BY <2>1, <2>2
  <2> QED BY <1>3, <2>2, <2>3 DEF LenderSteps
<1>5. \A i \in 1..n : rows[i] \in Row
  OBVIOUS
<1>6. ASSUME NEW k \in 1..3 * n PROVE s[k] \in StepType
  <2>1. PICK i \in 1..n : k \in {3 * i - 2, 3 * i - 1, 3 * i}
    BY <1>2
  <2>2. rows[i].wallet \in Wallets /\ rows[i].par \in Nat
    BY <1>5 DEF Row
  <2>3. s[k] \in {Step("whitelist", rows[i].wallet, 0), Step("kyc", rows[i].wallet, 0),
                 Step("issue", rows[i].wallet, rows[i].par)}
    BY <1>4, <2>1
  <2> HIDE DEF s
  <2> QED BY <2>2, <2>3 DEF Step, StepType, Ops
<1>7. s = [k \in 1..3 * n |-> s[k]]
  BY DEF AllLenderSteps
<1>8. s \in Seq(StepType) /\ Len(s) = 3 * n
  <2> HIDE DEF s
  <2>1. s \in Seq(StepType)
    BY <1>1, <1>6, <1>7, IsASeq
  <2>2. DOMAIN s = 1..3 * n
    BY <1>7
  <2> QED BY <1>1, <2>1, <2>2, LenProperties
<1> QED BY <1>2, <1>4, <1>8

LEMMA Joined ==
    ASSUME NEW S, NEW s \in Seq(S), NEW t \in Seq(S)
    PROVE  /\ s \o t \in Seq(S)
           /\ Len(s) \in Nat /\ Len(t) \in Nat /\ Len(s \o t) = Len(s) + Len(t)
           /\ \A i \in Nat : i \in 1..Len(s) => (s \o t)[i] = s[i]
           /\ \A i \in Nat : i \in Len(s) + 1..Len(s) + Len(t) => (s \o t)[i] = t[i - Len(s)]
OBVIOUS

LEMMA JoinedSteps ==
    \A s, t \in Seq(StepType) :
        /\ s \o t \in Seq(StepType) /\ Len(s \o t) = Len(s) + Len(t)
        /\ \A i \in Nat : i \in 1..Len(s) => (s \o t)[i] = s[i]
        /\ \A i \in Nat : i \in Len(s) + 1..Len(s) + Len(t) => (s \o t)[i] = t[i - Len(s)]
<1> SUFFICES ASSUME NEW s \in Seq(StepType), NEW t \in Seq(StepType)
             PROVE  /\ s \o t \in Seq(StepType) /\ Len(s \o t) = Len(s) + Len(t)
                    /\ \A i \in Nat : i \in 1..Len(s) => (s \o t)[i] = s[i]
                    /\ \A i \in Nat : i \in Len(s) + 1..Len(s) + Len(t)
                                          => (s \o t)[i] = t[i - Len(s)]
  OBVIOUS
<1> DEFINE S == StepType
<1> HIDE DEF S
<1>1. s \in Seq(S) /\ t \in Seq(S)
  BY DEF S
<1>2. /\ s \o t \in Seq(S) /\ Len(s \o t) = Len(s) + Len(t)
      /\ \A i \in Nat : i \in 1..Len(s) => (s \o t)[i] = s[i]
      /\ \A i \in Nat : i \in Len(s) + 1..Len(s) + Len(t) => (s \o t)[i] = t[i - Len(s)]
  BY <1>1, Joined
<1> QED BY <1>2 DEF S

(* The steps by their places: the agent's, three for each row, the rest. *)
LEMMA StepPlaces ==
    ASSUME RegisterAssumption, NEW principal, NEW rows, ValidTerms(principal, rows)
    PROVE  LET full == issuanceSteps(principal, rows)
               n == Len(rows)
               rest == Unallocated(principal, rows)
           IN  /\ full \in Seq(StepType)
               /\ rest \in Nat /\ n \in Nat
               /\ Len(full) = 4 + 3 * n + (IF rest > 0 THEN 1 ELSE 0)
               /\ full[1] = Step("create", Agent, principal) /\ full[2] = Step("issuer", Agent, 0)
               /\ full[3] = Step("whitelist", Agent, 0) /\ full[4] = Step("kyc", Agent, 0)
               /\ \A i \in 1..n :
                     /\ full[2 + 3 * i] = Step("whitelist", rows[i].wallet, 0)
                     /\ full[3 + 3 * i] = Step("kyc", rows[i].wallet, 0)
                     /\ full[4 + 3 * i] = Step("issue", rows[i].wallet, rows[i].par)
               /\ rest > 0 => full[5 + 3 * n] = Step("issue", Agent, rest)
               /\ \A j \in 5..4 + 3 * n :
                     \E i \in 1..n : j \in {2 + 3 * i, 3 + 3 * i, 4 + 3 * i}
<1> DEFINE a == AgentSteps(principal)
           b == AllLenderSteps(rows)
           c == LastSteps(principal, rows)
           full == issuanceSteps(principal, rows)
           n == Len(rows)
           rest == Unallocated(principal, rows)
<1>1. /\ principal \in Nat /\ rows \in Seq(Row) /\ n \in Nat
      /\ RowsPar(rows) \in Nat /\ RowsPar(rows) <= principal
  BY RowsParType DEF ValidTerms
<1>2. rest \in Nat
  BY <1>1 DEF Unallocated
<1>3. Agent \in Wallets
  BY DEF RegisterAssumption
<1>4. /\ a \in Seq(StepType) /\ Len(a) = 4
      /\ a[1] = Step("create", Agent, principal) /\ a[2] = Step("issuer", Agent, 0)
      /\ a[3] = Step("whitelist", Agent, 0) /\ a[4] = Step("kyc", Agent, 0)
  <2>1. \A op \in Ops, m \in Nat : Step(op, Agent, m) \in StepType
    BY <1>3 DEF Step, StepType
  <2> QED BY <1>1, <2>1 DEF AgentSteps, Ops
<1>5. c \in Seq(StepType) /\ Len(c) = (IF rest > 0 THEN 1 ELSE 0)
      /\ (rest > 0 => c[1] = Step("issue", Agent, rest))
  <2>1. Step("issue", Agent, rest) \in StepType
    BY <1>2, <1>3 DEF Step, StepType, Ops
  <2> QED BY <1>2, <2>1 DEF LastSteps
<1>6. /\ b \in Seq(StepType) /\ Len(b) = 3 * n
      /\ \A i \in 1..n :
            /\ 3 * i \in 1..3 * n
            /\ b[3 * i - 2] = Step("whitelist", rows[i].wallet, 0)
            /\ b[3 * i - 1] = Step("kyc", rows[i].wallet, 0)
            /\ b[3 * i] = Step("issue", rows[i].wallet, rows[i].par)
      /\ \A k \in 1..3 * n : \E i \in 1..n : k \in {3 * i - 2, 3 * i - 1, 3 * i}
  BY <1>1, LenderStepsType
<1>7. full = (a \o b) \o c
  BY StepsOf
<1> HIDE DEF a, b, c, full, rest, n
<1> DEFINE ab == a \o b
           m == 3 * n
<1>m. m \in Nat
  BY <1>1
<1>8. /\ ab \in Seq(StepType) /\ Len(ab) = 4 + m
      /\ \A j \in Nat : j \in 1..4 => ab[j] = a[j]
      /\ \A j \in Nat : j \in 5..4 + m => ab[j] = b[j - 4]
  <2>1. a \in Seq(StepType) /\ b \in Seq(StepType) /\ Len(a) = 4 /\ Len(b) = m
    BY <1>4, <1>6
  <2>2. /\ ab \in Seq(StepType) /\ Len(ab) = Len(a) + Len(b)
        /\ \A j \in Nat : j \in 1..Len(a) => ab[j] = a[j]
        /\ \A j \in Nat : j \in Len(a) + 1..Len(a) + Len(b) => ab[j] = b[j - Len(a)]
    BY <2>1, JoinedSteps, Zenon DEF ab
  <2> HIDE DEF m, ab
  <2> QED BY <2>1, <2>2
<1>9. /\ full \in Seq(StepType) /\ Len(full) = 4 + m + (IF rest > 0 THEN 1 ELSE 0)
      /\ \A j \in Nat : j \in 1..4 + m => full[j] = ab[j]
      /\ rest > 0 => full[5 + m] = c[1]
  <2> HIDE DEF m, ab
  <2>1. full = ab \o c
    BY <1>7 DEF ab
  <2>2. /\ full \in Seq(StepType) /\ Len(full) = 4 + m + Len(c)
        /\ \A j \in Nat : j \in 1..4 + m => full[j] = ab[j]
        /\ \A j \in Nat : j \in 4 + m + 1..4 + m + Len(c) => full[j] = c[j - (4 + m)]
    <3>1. ab \in Seq(StepType) /\ c \in Seq(StepType) /\ Len(ab) = 4 + m
      BY <1>5, <1>8
    <3>2. /\ full \in Seq(StepType) /\ Len(full) = Len(ab) + Len(c)
          /\ \A j \in Nat : j \in 1..Len(ab) => full[j] = ab[j]
          /\ \A j \in Nat : j \in Len(ab) + 1..Len(ab) + Len(c) => full[j] = c[j - Len(ab)]
      BY <2>1, <3>1, JoinedSteps, Zenon
    <3> QED BY <3>1, <3>2
  <2>3. ASSUME rest > 0 PROVE full[5 + m] = c[1]
    <3> DEFINE k == 5 + m
    <3>1. /\ Len(c) = 1 /\ k \in Nat /\ k \in 4 + m + 1..4 + m + Len(c)
          /\ k - (4 + m) = 1
      BY <1>5, <1>m, <2>3
    <3> HIDE DEF k
    <3>2. full[k] = c[k - (4 + m)]
      BY <2>2, <3>1
    <3> QED BY <3>1, <3>2 DEF k
  <2> QED BY <1>5, <2>2, <2>3
<1> HIDE DEF ab
<1>10. full[1] = a[1] /\ full[2] = a[2] /\ full[3] = a[3] /\ full[4] = a[4]
  <2> HIDE DEF m
  <2>1. 1 \in 1..4 + m /\ 2 \in 1..4 + m /\ 3 \in 1..4 + m /\ 4 \in 1..4 + m
    BY <1>m
  <2> QED BY <1>8, <1>9, <2>1
<1>11. ASSUME NEW i \in 1..n
       PROVE  /\ full[2 + 3 * i] = b[3 * i - 2] /\ full[3 + 3 * i] = b[3 * i - 1]
              /\ full[4 + 3 * i] = b[3 * i]
  <2>1. ASSUME NEW j \in 5..4 + 3 * n PROVE full[j] = b[j - 4]
    <3>1. j \in Nat /\ j \in 5..4 + m /\ j \in 1..4 + m
      BY <1>m
    <3> HIDE DEF m
    <3> QED BY <3>1, <1>8, <1>9
  <2>2. i \in Nat /\ i >= 1 /\ 3 * i <= 3 * n
    BY <1>1
  <2>3. /\ 2 + 3 * i \in 5..4 + 3 * n /\ 3 + 3 * i \in 5..4 + 3 * n /\ 4 + 3 * i \in 5..4 + 3 * n
        /\ 2 + 3 * i - 4 = 3 * i - 2 /\ 3 + 3 * i - 4 = 3 * i - 1 /\ 4 + 3 * i - 4 = 3 * i
    BY <1>1, <2>2
  <2>4. full[2 + 3 * i] = b[2 + 3 * i - 4] /\ full[3 + 3 * i] = b[3 + 3 * i - 4]
        /\ full[4 + 3 * i] = b[4 + 3 * i - 4]
    BY <2>1, <2>3
  <2> QED BY <2>3, <2>4
<1>12. ASSUME NEW j \in 5..4 + 3 * n
       PROVE  \E i \in 1..n : j \in {2 + 3 * i, 3 + 3 * i, 4 + 3 * i}
  <2>1. j - 4 \in 1..3 * n /\ j = (j - 4) + 4
    BY <1>1
  <2>2. PICK i \in 1..n : j - 4 \in {3 * i - 2, 3 * i - 1, 3 * i}
    BY <1>6, <2>1
  <2>3. j \in {2 + 3 * i, 3 + 3 * i, 4 + 3 * i}
    BY <1>1, <2>1, <2>2
  <2> QED BY <2>3
<1>13. \A i \in 1..n :
          /\ full[2 + 3 * i] = Step("whitelist", rows[i].wallet, 0)
          /\ full[3 + 3 * i] = Step("kyc", rows[i].wallet, 0)
          /\ full[4 + 3 * i] = Step("issue", rows[i].wallet, rows[i].par)
  BY <1>6, <1>11
<1> QED BY <1>1, <1>2, <1>4, <1>5, <1>9, <1>10, <1>12, <1>13 DEF full, rest, n

(* What each account is to hold of the security when every step is done. *)
Target(principal, rows) ==
    [w \in Wallets |->
        IF w = Agent THEN Unallocated(principal, rows)
        ELSE IF \E i \in DOMAIN rows : rows[i].wallet = w
             THEN rows[CHOOSE i \in DOMAIN rows : rows[i].wallet = w].par ELSE 0]

LEMMA TargetOf ==
    ASSUME RegisterAssumption, NEW principal, NEW rows, ValidTerms(principal, rows)
    PROVE  LET t == Target(principal, rows)
           IN  /\ t \in [Wallets -> Nat]
               /\ t[Agent] = Unallocated(principal, rows)
               /\ \A i \in DOMAIN rows : /\ rows[i].wallet \in Wallets \ {Agent}
                                         /\ t[rows[i].wallet] = rows[i].par
               /\ \A w \in Wallets : \/ t[w] = 0 \/ w = Agent
                                     \/ \E i \in DOMAIN rows : rows[i].wallet = w
<1> DEFINE t == Target(principal, rows)
<1>1. Unallocated(principal, rows) \in Nat
  BY StepPlaces
<1>2. \A i \in DOMAIN rows : rows[i] \in Row /\ rows[i].wallet # Agent
  BY DEF ValidTerms
<1>3. \A i \in DOMAIN rows : rows[i].wallet \in Wallets \ {Agent} /\ rows[i].par \in Nat
  BY <1>2 DEF Row
<1>4. ASSUME NEW i \in DOMAIN rows PROVE t[rows[i].wallet] = rows[i].par
  <2> DEFINE j == CHOOSE k \in DOMAIN rows : rows[k].wallet = rows[i].wallet
  <2>1. j \in DOMAIN rows /\ rows[j].wallet = rows[i].wallet
    OBVIOUS
  <2>2. t[rows[i].wallet] = rows[j].par
    BY <1>3 DEF Target
  <2> HIDE DEF j
  <2>3. j = i
    BY <2>1 DEF ValidTerms, NoDuplicate
  <2> QED BY <2>2, <2>3
<1>5. ASSUME NEW w \in Wallets PROVE t[w] \in Nat
  <2>1. CASE \E i \in DOMAIN rows : rows[i].wallet = w
    BY <1>3, <1>4, <2>1
  <2>2. CASE ~\E i \in DOMAIN rows : rows[i].wallet = w
    BY <1>1, <2>2 DEF Target
  <2> QED BY <2>1, <2>2
<1>6. Agent \in Wallets
  BY DEF RegisterAssumption
<1>7. t = [w \in Wallets |-> t[w]] /\ t[Agent] = Unallocated(principal, rows)
  BY <1>6 DEF Target
<1>8. \A w \in Wallets : \/ t[w] = 0 \/ w = Agent \/ \E i \in DOMAIN rows : rows[i].wallet = w
  BY DEF Target
<1> HIDE DEF t
<1>9. t \in [Wallets -> Nat]
  BY <1>5, <1>7
<1> QED BY <1>3, <1>4, <1>7, <1>8, <1>9 DEF t

(* The targets add up to the principal. *)
LEMMA TargetSum ==
    ASSUME RegisterAssumption, NEW principal, NEW rows, ValidTerms(principal, rows)
    PROVE  Held(Target(principal, rows), Wallets) = principal
<1> DEFINE t == Target(principal, rows)
           g == [i \in DOMAIN rows |-> rows[i].par]
           W == [i \in DOMAIN rows |-> {rows[i].wallet}]
           named == {rows[i].wallet : i \in DOMAIN rows}
           rest == Wallets \ ({Agent} \cup named)
<1>a. /\ t \in [Wallets -> Nat] /\ t[Agent] = Unallocated(principal, rows)
      /\ \A i \in DOMAIN rows : rows[i].wallet \in Wallets \ {Agent} /\ t[rows[i].wallet] = rows[i].par
      /\ \A w \in Wallets : t[w] = 0 \/ w = Agent \/ \E i \in DOMAIN rows : rows[i].wallet = w
  BY TargetOf
<1> HIDE DEF t
<1>1. /\ IsFiniteSet(Wallets) /\ Agent \in Wallets
      /\ \A w \in Wallets : t[w] \in Int
      /\ t[Agent] = Unallocated(principal, rows)
      /\ \A i \in DOMAIN rows : rows[i].wallet \in Wallets \ {Agent} /\ t[rows[i].wallet] = rows[i].par
      /\ \A w \in rest : t[w] = 0
  BY <1>a DEF RegisterAssumption
<1>2. IsFiniteSet(DOMAIN rows)
  <2>1. DOMAIN rows = 1..Len(rows) /\ Len(rows) \in Nat
    BY DEF ValidTerms
  <2> QED BY <2>1, FS_Interval
<1>3. UNION {W[i] : i \in DOMAIN rows} = named
  OBVIOUS
<1>4. /\ \A i \in DOMAIN rows : W[i] \in SUBSET Wallets
      /\ \A i, j \in DOMAIN rows : i = j \/ W[i] \cap W[j] = {}
  BY <1>1 DEF ValidTerms, NoDuplicate
<1>5. \A w \in Wallets : Held(t, {w}) = t[w]
  <2> SUFFICES ASSUME NEW w \in Wallets PROVE Held(t, {w}) = t[w]
    OBVIOUS
  <2>1. Held(t, {w}) = t[w] + Held(t, {w} \ {w})
    BY <1>1, SumTakeOut
  <2>2. Held(t, {}) = 0
    BY FS_EmptySet, SumStep
  <2>3. t[w] \in Int /\ {w} \ {w} = {}
    BY <1>1
  <2> QED BY <2>1, <2>2, <2>3
<1>6. \A i \in DOMAIN rows : g[i] = Held(t, W[i])
  BY <1>1, <1>5
<1>7. Held(g, DOMAIN rows) = Held(t, named)
  <2> DEFINE D == DOMAIN rows
  <2> HIDE DEF g, W, named
  <2>1. /\ IsFiniteSet(D) /\ IsFiniteSet(Wallets) /\ \A w \in Wallets : t[w] \in Int
        /\ \A i \in D : W[i] \in SUBSET Wallets
        /\ \A i, j \in D : i = j \/ W[i] \cap W[j] = {}
        /\ \A i \in D : g[i] = Held(t, W[i])
    BY <1>1, <1>2, <1>4, <1>6
  <2> HIDE DEF D
  <2>2. Held(g, D) = Held(t, UNION {W[i] : i \in D})
    BY <2>1, SumOfGroups
  <2> QED BY <1>3, <2>2 DEF D
<1>8. Held(t, named) = RowsPar(rows)
  BY <1>7 DEF RowsPar
<1>9. Held(t, rest) = 0
  <2>1. IsFiniteSet(rest) /\ \A w \in rest : t[w] = 0
    BY <1>1, FS_Subset
  <2> HIDE DEF rest
  <2> QED BY <2>1, SumOfZeros
<1>10. /\ {Agent} \in SUBSET Wallets /\ named \in SUBSET Wallets /\ rest \in SUBSET Wallets
       /\ {Agent} \cap named = {} /\ ({Agent} \cup named) \cap rest = {}
       /\ Wallets = ({Agent} \cup named) \cup rest
  BY <1>1
<1>11. Held(t, {Agent} \cup named) = Held(t, {Agent}) + Held(t, named)
  <2> HIDE DEF named, rest
  <2> QED BY <1>1, <1>10, SumDisjoint
<1>12. Held(t, Wallets) = Held(t, {Agent} \cup named) + Held(t, rest)
  <2> DEFINE A == {Agent} \cup named
  <2>1. A \in SUBSET Wallets /\ A \cap rest = {} /\ Wallets = A \cup rest /\ rest \in SUBSET Wallets
    BY <1>10
  <2> HIDE DEF A, rest
  <2>2. Held(t, A \cup rest) = Held(t, A) + Held(t, rest)
    BY <1>1, <2>1, SumDisjoint
  <2>3. Held(t, Wallets) = Held(t, A) + Held(t, rest)
    BY <2>1, <2>2
  <2> QED BY <2>3 DEF A
<1>13. Held(t, Wallets) = (Unallocated(principal, rows) + RowsPar(rows)) + 0
  BY <1>1, <1>5, <1>8, <1>9, <1>11, <1>12
<1>14. principal \in Nat /\ RowsPar(rows) \in Nat
  BY RowsParType DEF ValidTerms
<1> QED BY <1>13, <1>14 DEF Unallocated, t

-----------------------------------------------------------------------------
(***************************************************************************)
(* The steps that are left will pass: par is issued once to an account,    *)
(* in its target amount, after the account was listed and got KYC, and an  *)
(* account without its target amount has a step to come.                   *)
(***************************************************************************)
Before(steps, j, op) ==
    \E i \in DOMAIN steps : i < j /\ steps[i].op = op /\ steps[i].wallet = steps[j].wallet
IssueAt(steps, target, balances, onList, hasKyc, j) ==
    /\ steps[j].amount = target[steps[j].wallet] /\ balances[steps[j].wallet] = 0
    /\ steps[j].wallet \in onList \/ Before(steps, j, "whitelist")
    /\ steps[j].wallet \in hasKyc \/ Before(steps, j, "kyc")
WillPass(steps, target, balances, onList, hasKyc) ==
    /\ steps \in Seq(StepType)
    /\ \A j \in DOMAIN steps : steps[j].op = "issue" =>
          IssueAt(steps, target, balances, onList, hasKyc, j)
    /\ \A i, j \in DOMAIN steps :
          steps[i].op = "issue" /\ steps[j].op = "issue" /\ steps[i].wallet = steps[j].wallet
             => i = j
    /\ \A w \in Wallets :
          \/ balances[w] = target[w]
          \/ balances[w] = 0 /\ \E j \in DOMAIN steps : steps[j].op = "issue" /\ steps[j].wallet = w

(* The steps as they were composed will pass. *)
LEMMA ComposedPass ==
    ASSUME RegisterAssumption, NEW principal, NEW rows, ValidTerms(principal, rows),
           NEW balances, \A w \in Wallets : balances[w] = 0, NEW onList, NEW hasKyc
    PROVE  /\ WillPass(issuanceSteps(principal, rows), Target(principal, rows), balances, onList, hasKyc)
           /\ \A j \in DOMAIN issuanceSteps(principal, rows) :
                 \/ issuanceSteps(principal, rows)[j].wallet = Agent
                 \/ \E i \in DOMAIN rows : issuanceSteps(principal, rows)[j].wallet = rows[i].wallet
<1> DEFINE full == issuanceSteps(principal, rows)
           n == Len(rows)
           m == 3 * n
           rest == Unallocated(principal, rows)
           t == Target(principal, rows)
<1>1. /\ full \in Seq(StepType)
      /\ rest \in Nat /\ n \in Nat
      /\ Len(full) = 4 + 3 * n + (IF rest > 0 THEN 1 ELSE 0)
      /\ full[1] = Step("create", Agent, principal) /\ full[2] = Step("issuer", Agent, 0)
      /\ full[3] = Step("whitelist", Agent, 0) /\ full[4] = Step("kyc", Agent, 0)
      /\ \A i \in 1..n :
            /\ full[2 + 3 * i] = Step("whitelist", rows[i].wallet, 0)
            /\ full[3 + 3 * i] = Step("kyc", rows[i].wallet, 0)
            /\ full[4 + 3 * i] = Step("issue", rows[i].wallet, rows[i].par)
      /\ rest > 0 => full[5 + 3 * n] = Step("issue", Agent, rest)
      /\ \A j \in 5..4 + 3 * n :
            \E i \in 1..n : j \in {2 + 3 * i, 3 + 3 * i, 4 + 3 * i}
  BY StepPlaces
<1>2. /\ t \in [Wallets -> Nat] /\ t[Agent] = rest
      /\ \A i \in DOMAIN rows : rows[i].wallet \in Wallets \ {Agent} /\ t[rows[i].wallet] = rows[i].par
      /\ \A w \in Wallets : t[w] = 0 \/ w = Agent \/ \E i \in DOMAIN rows : rows[i].wallet = w
  BY TargetOf
<1>3. DOMAIN rows = 1..n /\ \A i, j \in 1..n : rows[i].wallet = rows[j].wallet => i = j
  BY DEF ValidTerms, NoDuplicate
<1>4. Agent \in Wallets
  BY DEF RegisterAssumption
<1> HIDE DEF full, t, rest
<1>5. /\ Len(full) \in Nat /\ DOMAIN full = 1..Len(full) /\ m \in Nat
      /\ \A j \in 1..4 + m : j \in DOMAIN full
      /\ rest > 0 => 5 + m \in DOMAIN full
      /\ \A j \in DOMAIN full : j \in 1..4 \/ j \in 5..4 + m \/ (j = 5 + m /\ rest > 0)
  <2>1. m \in Nat /\ Len(full) \in Nat /\ DOMAIN full = 1..Len(full)
    BY <1>1
  <2>2. Len(full) = 4 + m + (IF rest > 0 THEN 1 ELSE 0) /\ rest \in Nat
    BY <1>1
  <2> HIDE DEF m
  <2>3. CASE rest > 0
    BY <2>1, <2>2, <2>3
  <2>4. CASE ~(rest > 0)
    BY <2>1, <2>2, <2>4
  <2> QED BY <2>3, <2>4
<1> DEFINE Is(j, op, w) == j \in DOMAIN full /\ full[j].op = op /\ full[j].wallet = w
<1>6. /\ Is(1, "create", Agent) /\ Is(2, "issuer", Agent)
      /\ Is(3, "whitelist", Agent) /\ Is(4, "kyc", Agent)
  <2>1. 1 \in 1..4 + m /\ 2 \in 1..4 + m /\ 3 \in 1..4 + m /\ 4 \in 1..4 + m
    BY <1>1
  <2> QED BY <1>1, <1>5, <2>1 DEF Step
<1>7. ASSUME NEW i \in 1..n
      PROVE  /\ Is(2 + 3 * i, "whitelist", rows[i].wallet) /\ Is(3 + 3 * i, "kyc", rows[i].wallet)
             /\ Is(4 + 3 * i, "issue", rows[i].wallet) /\ full[4 + 3 * i].amount = rows[i].par
  <2>0. n \in Nat /\ i \in Nat /\ 1 <= i /\ i <= n
    BY <1>1
  <2>1. 2 + 3 * i \in 1..4 + m /\ 3 + 3 * i \in 1..4 + m /\ 4 + 3 * i \in 1..4 + m
    <3> HIDE DEF n
    <3> QED BY <2>0
  <2>2. 2 + 3 * i \in DOMAIN full /\ 3 + 3 * i \in DOMAIN full /\ 4 + 3 * i \in DOMAIN full
    <3> HIDE DEF m
    <3> QED BY <1>5, <2>1
  <2>3. /\ full[2 + 3 * i] = Step("whitelist", rows[i].wallet, 0)
        /\ full[3 + 3 * i] = Step("kyc", rows[i].wallet, 0)
        /\ full[4 + 3 * i] = Step("issue", rows[i].wallet, rows[i].par)
    BY <1>1
  <2> QED BY <2>2, <2>3 DEF Step
<1>8. rest > 0 => Is(5 + m, "issue", Agent) /\ full[5 + m].amount = rest
  BY <1>1, <1>5 DEF Step
<1>9. ASSUME NEW j \in DOMAIN full
      PROVE  \/ full[j].op # "issue" /\ full[j].wallet = Agent
             \/ \E i \in 1..n : full[j].op # "issue" /\ full[j].wallet = rows[i].wallet
             \/ \E i \in 1..n : j = 4 + 3 * i
             \/ j = 5 + m /\ rest > 0
  <2>1. CASE j \in 1..4
    <3>1. j = 1 \/ j = 2 \/ j = 3 \/ j = 4
      BY <2>1
    <3> QED BY <1>6, <3>1
  <2>2. CASE j \in 5..4 + m
    <3>1. PICK i \in 1..n : j \in {2 + 3 * i, 3 + 3 * i, 4 + 3 * i}
      BY <1>1, <2>2
    <3>2. CASE j = 2 + 3 * i
      BY <1>7, <3>2
    <3>3. CASE j = 3 + 3 * i
      BY <1>7, <3>3
    <3> QED BY <3>1, <3>2, <3>3
  <2> QED BY <1>5, <2>1, <2>2
<1>10. ASSUME NEW j \in DOMAIN full, full[j].op = "issue"
       PROVE  IssueAt(full, t, balances, onList, hasKyc, j)
  <2>1. ASSUME NEW a \in DOMAIN full, NEW b \in DOMAIN full, NEW w \in Wallets, a < j, b < j,
               Is(a, "whitelist", w), Is(b, "kyc", w), full[j].wallet = w, full[j].amount = t[w]
        PROVE  IssueAt(full, t, balances, onList, hasKyc, j)
    BY <2>1 DEF IssueAt, Before
  <2>2. ASSUME NEW i \in 1..n, j = 4 + 3 * i
        PROVE  IssueAt(full, t, balances, onList, hasKyc, j)
    <3>1. 2 + 3 * i < j /\ 3 + 3 * i < j
      BY <2>2
    <3>2. rows[i].wallet \in Wallets /\ t[rows[i].wallet] = rows[i].par
      BY <1>2, <1>3
    <3>3. /\ Is(2 + 3 * i, "whitelist", rows[i].wallet) /\ Is(3 + 3 * i, "kyc", rows[i].wallet)
          /\ full[j].wallet = rows[i].wallet /\ full[j].amount = rows[i].par
      BY <1>7, <2>2
    <3> QED BY <2>1, <3>1, <3>2, <3>3
  <2>3. CASE j = 5 + m /\ rest > 0
    <3>1. 3 < j /\ 4 < j
      BY <1>5, <2>3
    <3> QED BY <1>2, <1>4, <1>6, <1>8, <2>1, <2>3, <3>1
  <2> QED BY <1>9, <1>10, <2>2, <2>3
<1>11. ASSUME NEW j \in DOMAIN full, NEW k \in DOMAIN full,
              full[j].op = "issue", full[k].op = "issue", full[j].wallet = full[k].wallet
       PROVE  j = k
  <2>1. ASSUME NEW x \in DOMAIN full, full[x].op = "issue"
        PROVE  \/ \E i \in 1..n : x = 4 + 3 * i /\ full[x].wallet = rows[i].wallet
               \/ x = 5 + m /\ full[x].wallet = Agent
    BY <1>7, <1>8, <1>9, <2>1
  <2>2. \A i \in 1..n : rows[i].wallet # Agent
    BY <1>2, <1>3
  <2>3. CASE full[j].wallet = Agent
    BY <1>11, <2>1, <2>2, <2>3
  <2>4. CASE full[j].wallet # Agent
    <3>1. PICK i \in 1..n : j = 4 + 3 * i /\ full[j].wallet = rows[i].wallet
      BY <1>11, <2>1, <2>4
    <3>2. PICK l \in 1..n : k = 4 + 3 * l /\ full[k].wallet = rows[l].wallet
      BY <1>11, <2>1, <2>4
    <3>3. i = l
      BY <1>3, <1>11, <3>1, <3>2
    <3> QED BY <3>1, <3>2, <3>3
  <2> QED BY <2>3, <2>4
<1>12. ASSUME NEW w \in Wallets, t[w] # 0
       PROVE  \E j \in DOMAIN full : full[j].op = "issue" /\ full[j].wallet = w
  <2>1. CASE w = Agent
    <3>1. rest > 0
      BY <1>1, <1>2, <1>12, <2>1
    <3> QED BY <1>8, <2>1, <3>1
  <2>2. CASE w # Agent
    <3>1. PICK i \in 1..n : rows[i].wallet = w
      BY <1>2, <1>3, <1>12, <2>2
    <3> QED BY <1>7, <3>1
  <2> QED BY <2>1, <2>2
<1>13. WillPass(full, t, balances, onList, hasKyc)
  <2>1. \A w \in Wallets : \/ balances[w] = t[w]
                           \/ balances[w] = 0 /\ \E j \in DOMAIN full : full[j].op = "issue" /\ full[j].wallet = w
    BY <1>12
  <2> QED BY <1>1, <1>10, <1>11, <2>1 DEF WillPass
<1>14. ASSUME NEW j \in DOMAIN full
       PROVE  full[j].wallet = Agent \/ \E i \in DOMAIN rows : full[j].wallet = rows[i].wallet
  <2>1. ASSUME NEW i \in 1..n, j = 4 + 3 * i
        PROVE  full[j].wallet = rows[i].wallet
    BY <1>7, <2>1
  <2>2. CASE j = 5 + m /\ rest > 0
    BY <1>8, <2>2
  <2> HIDE DEF m, n
  <2> QED BY <1>3, <1>9, <2>1, <2>2
<1> QED BY <1>13, <1>14 DEF full, t

LEMMA TailPlaces ==
    ASSUME NEW s \in Seq(StepType), s # <<>>
    PROVE  /\ Head(s) = s[1] /\ 1 \in DOMAIN s /\ Head(s) \in StepType
           /\ Tail(s) \in Seq(StepType)
           /\ \A j \in DOMAIN Tail(s) : j + 1 \in DOMAIN s /\ Tail(s)[j] = s[j + 1]
           /\ \A j \in DOMAIN s : j # 1 => j - 1 \in DOMAIN Tail(s) /\ s[j] = Tail(s)[j - 1]
           /\ \A j \in DOMAIN s : j \in Nat /\ j >= 1
           /\ \A j \in DOMAIN Tail(s) : j \in Nat
OBVIOUS

(* A step that issues nothing leaves what will pass so; it lists an        *)
(* account or gives it KYC.                                                *)
LEMMA PassOther ==
    ASSUME NEW steps, steps # <<>>, NEW target, NEW balances, NEW onList, NEW hasKyc,
           WillPass(steps, target, balances, onList, hasKyc), Head(steps).op # "issue",
           NEW onList2, onList \subseteq onList2, NEW hasKyc2, hasKyc \subseteq hasKyc2,
           Head(steps).op = "whitelist" => Head(steps).wallet \in onList2,
           Head(steps).op = "kyc" => Head(steps).wallet \in hasKyc2
    PROVE  WillPass(Tail(steps), target, balances, onList2, hasKyc2)
<1> DEFINE rest == Tail(steps)
<1>1. /\ Head(steps) = steps[1] /\ rest \in Seq(StepType)
      /\ \A j \in DOMAIN rest : j + 1 \in DOMAIN steps /\ rest[j] = steps[j + 1]
      /\ \A j \in DOMAIN steps : j # 1 => j - 1 \in DOMAIN rest /\ steps[j] = rest[j - 1]
      /\ \A j \in DOMAIN steps : j \in Nat /\ j >= 1
      /\ \A j \in DOMAIN rest : j \in Nat
  BY TailPlaces DEF WillPass
<1> HIDE DEF rest
<1>2. ASSUME NEW j \in DOMAIN rest, NEW op, Before(steps, j + 1, op)
      PROVE  Before(rest, j, op) \/ (steps[1].op = op /\ steps[1].wallet = rest[j].wallet)
  <2>1. PICK i \in DOMAIN steps : i < j + 1 /\ steps[i].op = op /\ steps[i].wallet = steps[j + 1].wallet
    BY <1>2 DEF Before
  <2>2. CASE i = 1
    BY <1>1, <2>1, <2>2
  <2>3. CASE i # 1
    <3>1. i - 1 \in DOMAIN rest /\ i - 1 < j /\ steps[i] = rest[i - 1]
      BY <1>1, <2>1, <2>3
    <3> QED BY <1>1, <2>1, <3>1 DEF Before
  <2> QED BY <2>2, <2>3
<1>3. ASSUME NEW j \in DOMAIN rest, rest[j].op = "issue"
      PROVE  IssueAt(rest, target, balances, onList2, hasKyc2, j)
  <2>1. IssueAt(steps, target, balances, onList, hasKyc, j + 1) /\ rest[j] = steps[j + 1]
    BY <1>1, <1>3 DEF WillPass
  <2> QED BY <1>1, <1>2, <2>1 DEF IssueAt
<1>4. ASSUME NEW i \in DOMAIN rest, NEW j \in DOMAIN rest, rest[i].op = "issue",
             rest[j].op = "issue", rest[i].wallet = rest[j].wallet
      PROVE  i = j
  <2>1. i + 1 = j + 1
    BY <1>1, <1>4 DEF WillPass
  <2> QED BY <1>1, <2>1
<1>5. ASSUME NEW w \in Wallets, NEW j \in DOMAIN steps, steps[j].op = "issue", steps[j].wallet = w
      PROVE  \E i \in DOMAIN rest : rest[i].op = "issue" /\ rest[i].wallet = w
  BY <1>1, <1>5
<1> QED BY <1>1, <1>3, <1>4, <1>5 DEF WillPass, rest

(* A step that issues par does so to a listed account with KYC, within the *)
(* target amounts, and the rest will pass.                                 *)
LEMMA PassIssue ==
    ASSUME NEW steps, steps # <<>>, NEW target, NEW balances \in [Wallets -> Nat],
           NEW onList, NEW hasKyc,
           WillPass(steps, target, balances, onList, hasKyc), Head(steps).op = "issue",
           NEW after, after = [balances EXCEPT ![Head(steps).wallet] = @ + Head(steps).amount]
    PROVE  /\ Head(steps).wallet \in onList \cap hasKyc
           /\ after \in [Wallets -> Nat]
           /\ WillPass(Tail(steps), target, after, onList, hasKyc)
<1> DEFINE rest == Tail(steps)
           v == steps[1].wallet
<1>1. /\ Head(steps) = steps[1] /\ rest \in Seq(StepType)
      /\ 1 \in DOMAIN steps
      /\ \A j \in DOMAIN rest : j + 1 \in DOMAIN steps /\ rest[j] = steps[j + 1]
      /\ \A j \in DOMAIN steps : j # 1 => j - 1 \in DOMAIN rest /\ steps[j] = rest[j - 1]
      /\ \A j \in DOMAIN steps : j \in Nat /\ j >= 1
      /\ \A j \in DOMAIN rest : j \in Nat
  BY TailPlaces DEF WillPass
<1>2. v \in Wallets /\ steps[1].amount \in Nat
  <2>1. steps[1] \in StepType
    BY TailPlaces DEF WillPass
  <2> QED BY <2>1 DEF StepType
<1>3. IssueAt(steps, target, balances, onList, hasKyc, 1)
  BY <1>1 DEF WillPass
<1>4. ~Before(steps, 1, "whitelist") /\ ~Before(steps, 1, "kyc")
  BY <1>1 DEF Before
<1> HIDE DEF rest
<1>5. v \in onList \cap hasKyc /\ steps[1].amount = target[v] /\ balances[v] = 0
  BY <1>3, <1>4 DEF IssueAt
<1>6. /\ after \in [Wallets -> Nat] /\ after[v] = target[v]
      /\ \A w \in Wallets \ {v} : after[w] = balances[w]
  BY <1>1, <1>2, <1>5
<1>7. \A j \in DOMAIN rest : rest[j].op = "issue" => rest[j].wallet # v
  <2> SUFFICES ASSUME NEW j \in DOMAIN rest, rest[j].op = "issue", rest[j].wallet = v PROVE FALSE
    OBVIOUS
  <2>0. /\ 1 \in DOMAIN steps /\ j + 1 \in DOMAIN steps
        /\ steps[1].op = "issue" /\ steps[j + 1].op = "issue"
        /\ steps[1].wallet = steps[j + 1].wallet
    BY <1>1
  <2>1. j + 1 = 1
    <3>1. \A i, k \in DOMAIN steps :
            steps[i].op = "issue" /\ steps[k].op = "issue" /\ steps[i].wallet = steps[k].wallet
               => i = k
      BY Zenon DEF WillPass
    <3> QED BY <2>0, <3>1, Zenon
  <2>2. j + 1 \in DOMAIN steps /\ j \in Nat /\ j \in DOMAIN rest
    BY <1>1
  <2>3. j >= 1
    BY <1>1
  <2> QED BY <2>1, <2>2, <2>3
<1>8. ASSUME NEW j \in DOMAIN rest, NEW op, Before(steps, j + 1, op), op # "issue"
      PROVE  Before(rest, j, op)
  <2>1. PICK i \in DOMAIN steps : i < j + 1 /\ steps[i].op = op /\ steps[i].wallet = steps[j + 1].wallet
    BY <1>8 DEF Before
  <2>2. i # 1
    BY <1>1, <1>8, <2>1
  <2>3. i - 1 \in DOMAIN rest /\ i - 1 < j /\ steps[i] = rest[i - 1]
    BY <1>1, <2>1, <2>2
  <2> QED BY <1>1, <2>1, <2>3 DEF Before
<1>9. ASSUME NEW j \in DOMAIN rest, rest[j].op = "issue"
      PROVE  IssueAt(rest, target, after, onList, hasKyc, j)
  <2>1. IssueAt(steps, target, balances, onList, hasKyc, j + 1) /\ rest[j] = steps[j + 1]
    BY <1>1, <1>9 DEF WillPass
  <2>2. rest[j].wallet \in Wallets
    <3>1. rest[j] \in StepType
      BY <1>1
    <3> QED BY <3>1 DEF StepType
  <2>3. after[rest[j].wallet] = 0
    BY <1>6, <1>7, <1>9, <2>1, <2>2 DEF IssueAt
  <2> QED BY <1>8, <2>1, <2>3 DEF IssueAt
<1>10. ASSUME NEW i \in DOMAIN rest, NEW j \in DOMAIN rest, rest[i].op = "issue",
              rest[j].op = "issue", rest[i].wallet = rest[j].wallet
       PROVE  i = j
  <2>1. \A k, l \in DOMAIN steps :
          steps[k].op = "issue" /\ steps[l].op = "issue" /\ steps[k].wallet = steps[l].wallet
             => k = l
    BY Zenon DEF WillPass
  <2>2. /\ i + 1 \in DOMAIN steps /\ j + 1 \in DOMAIN steps
        /\ rest[i] = steps[i + 1] /\ rest[j] = steps[j + 1]
    BY <1>1
  <2>3. i + 1 = j + 1
    BY <1>10, <2>1, <2>2, Zenon
  <2> QED BY <1>1, <2>3
<1>11. ASSUME NEW w \in Wallets, after[w] # target[w]
       PROVE  after[w] = 0 /\ \E j \in DOMAIN rest : rest[j].op = "issue" /\ rest[j].wallet = w
  <2>1. w # v /\ after[w] = balances[w]
    BY <1>6, <1>11
  <2>2. /\ balances[w] = 0
        /\ \E j \in DOMAIN steps : steps[j].op = "issue" /\ steps[j].wallet = w
    BY <1>11, <2>1 DEF WillPass
  <2> QED BY <1>1, <2>1, <2>2
<1>12. WillPass(rest, target, after, onList, hasKyc)
  BY <1>1, <1>9, <1>10, <1>11 DEF WillPass
<1> QED BY <1>1, <1>5, <1>6, <1>12 DEF rest

(* What was issued stays within the targets, and is the targets in the end. *)
LEMMA PassWithin ==
    ASSUME RegisterAssumption, NEW steps, NEW target \in [Wallets -> Nat],
           NEW balances \in [Wallets -> Nat],
           NEW onList, NEW hasKyc, WillPass(steps, target, balances, onList, hasKyc)
    PROVE  /\ Supply(balances) <= Held(target, Wallets)
           /\ Supply(balances) \in Nat /\ Held(target, Wallets) \in Nat
           /\ steps = <<>> => \A w \in Wallets : balances[w] = target[w]
           /\ steps = <<>> => Supply(balances) = Held(target, Wallets)
<1>1. IsFiniteSet(Wallets)
  BY DEF RegisterAssumption
<1>2. \A w \in Wallets : balances[w] \in Nat /\ target[w] \in Nat /\ balances[w] <= target[w]
  <2>1. \A w \in Wallets : balances[w] = target[w] \/ balances[w] = 0
    BY DEF WillPass
  <2> QED BY <2>1
<1>3. Held(balances, Wallets) <= Held(target, Wallets)
  BY <1>1, <1>2, SumAtMost
<1>4. Held(balances, Wallets) \in Nat /\ Held(target, Wallets) \in Nat
  BY <1>1, <1>2, SumOfNats
<1>5. ASSUME steps = <<>> PROVE \A w \in Wallets : balances[w] = target[w]
  <2>1. DOMAIN steps = {}
    BY <1>5
  <2> QED BY <2>1 DEF WillPass
<1>6. ASSUME steps = <<>> PROVE Held(balances, Wallets) = Held(target, Wallets)
  BY <1>1, <1>5, <1>6, SumEqual
<1> QED BY <1>3, <1>4, <1>5, <1>6 DEF Supply

-----------------------------------------------------------------------------
(***************************************************************************)
(* The issuance, the control lists and the balances step by step.          *)
(***************************************************************************)
EligibilityType ==
    listed \in [Securities -> SUBSET Wallets] /\ kyc \in [Securities -> SUBSET Wallets]
IssueShape ==
    issue = [state |-> issue.state, principal |-> issue.principal, rows |-> issue.rows,
             steps |-> issue.steps]
IssueTarget == Target(issue.principal, issue.rows)
ActiveInv ==
    /\ ValidTerms(issue.principal, issue.rows)
    /\ WillPass(issue.steps, IssueTarget, par[Issued], listed[Issued], kyc[Issued])
    /\ \A j \in DOMAIN issue.steps : issue.steps[j].wallet \in Accounted
IssueInv ==
    /\ IssueShape
    /\ issue.state \in {"none", "active", "completed"}
    /\ issue.state = "none" => \A w \in Wallets : par[Issued][w] = 0
    /\ issue.state = "active" => ActiveInv
BalanceInv == BalancesType /\ BalancesAccounted /\ EligibilityType

LEMMA SecuritiesAre == Prepared \in Securities /\ Issued \in Securities /\ Prepared # Issued
BY DEF Securities, Prepared, Issued

LEMMA BalanceInit == RegisterAssumption /\ Init => BalanceInv /\ IssueInv
<1> SUFFICES ASSUME RegisterAssumption, Init PROVE BalanceInv /\ IssueInv
  OBVIOUS
<1> USE SecuritiesAre
<1>1. par = [s \in Securities |-> [w \in Wallets |-> IF s = Prepared THEN OpeningPar[w] ELSE 0]]
  BY DEF Init
<1>2. \A w \in Wallets : OpeningPar[w] \in Nat
  BY DEF RegisterAssumption
<1>3. BalancesType
  BY <1>1, <1>2 DEF BalancesType
<1>4. ASSUME NEW w \in Wallets, OpeningPar[w] > 0 PROVE w \in Accounted
  <2>1. CASE w \in Apart
    BY <2>1 DEF Accounted
  <2>2. CASE w \notin Apart
    <3>1. \/ \E d \in NamedDesks : d.wallet = w
          \/ \E i \in Scripted : i.wallet = w /\ i.role # "outsider"
      BY <1>4, <2>2 DEF RegisterAssumption
    <3>2. org = NamedDesks /\ Anchors = {i \in Scripted : i.role # "outsider"}
      BY DEF Init, Anchors
    <3> QED BY <3>1, <3>2 DEF Accounted, Lending, WalletsOfDesks
  <2> QED BY <2>1, <2>2
<1>5. BalancesAccounted
  <2>1. \A s \in Securities : \A w \in Wallets : par[s][w] > 0 => OpeningPar[w] > 0
    BY <1>1, <1>2
  <2> QED BY <1>4, <2>1 DEF BalancesAccounted
<1>6. EligibilityType
  <2>1. /\ {w \in Wallets : OpeningPar[w] > 0} \subseteq Wallets
        /\ {d.wallet : d \in NamedDesks} \subseteq Wallets
        /\ {i.wallet : i \in {x \in Scripted : x.eligible}} \subseteq Wallets
    BY DEF RegisterAssumption, Desks
  <2> QED BY <2>1 DEF Init, EligibilityType
<1>7. IssueInv
  <2>1. issue = NoIssue /\ \A w \in Wallets : par[Issued][w] = 0
    BY <1>1 DEF Init
  <2> QED BY <2>1 DEF NoIssue, IssueInv, IssueShape
<1> QED BY <1>3, <1>5, <1>6, <1>7 DEF BalanceInv

(* Every step of an accepted issuance is accepted by the security. *)
LEMMA StepAccepted ==
    ASSUME RegisterAssumption, BalanceInv, IssueInv, issue.state = "active", issue.steps # <<>>
    PROVE  /\ Accepts(Head(issue.steps))
           /\ Head(issue.steps) \in StepType /\ Head(issue.steps).wallet \in Accounted
<1> DEFINE step == Head(issue.steps)
           before == par[Issued]
           after == [before EXCEPT ![step.wallet] = @ + step.amount]
<1>1. /\ ValidTerms(issue.principal, issue.rows)
      /\ WillPass(issue.steps, IssueTarget, before, listed[Issued], kyc[Issued])
      /\ \A j \in DOMAIN issue.steps : issue.steps[j].wallet \in Accounted
  BY DEF IssueInv, ActiveInv
<1>2. step \in StepType /\ step = issue.steps[1] /\ 1 \in DOMAIN issue.steps
  BY <1>1, TailPlaces DEF WillPass
<1>3. before \in [Wallets -> Nat] /\ IssueTarget \in [Wallets -> Nat]
      /\ Held(IssueTarget, Wallets) = issue.principal
  BY <1>1, SecuritiesAre, TargetOf, TargetSum DEF BalanceInv, BalancesType, IssueTarget
<1>4. ASSUME step.op = "issue" PROVE Accepts(step)
  <2>1. step.wallet \in listed[Issued] \cap kyc[Issued]
        /\ after \in [Wallets -> Nat]
        /\ WillPass(Tail(issue.steps), IssueTarget, after, listed[Issued], kyc[Issued])
    <3> HIDE DEF before
    <3> QED BY <1>1, <1>3, <1>4, PassIssue
  <2>2. Supply(after) <= issue.principal
    <3> HIDE DEF after
    <3> QED BY <1>3, <2>1, PassWithin
  <2>3. step.wallet \in Wallets /\ step.amount \in Nat
    BY <1>2 DEF StepType
  <2>4. /\ after[step.wallet] = before[step.wallet] + step.amount
        /\ \A w \in Wallets \ {step.wallet} : after[w] = before[w]
        /\ \A w \in Wallets : before[w] \in Int /\ after[w] \in Int
    BY <1>3, <2>1, <2>3
  <2>5. Held(after, Wallets) = Held(before, Wallets) + (after[step.wallet] - before[step.wallet])
    <3> DEFINE v == step.wallet
    <3>1. /\ IsFiniteSet(Wallets) /\ v \in Wallets
          /\ \A w \in Wallets : before[w] \in Int
          /\ after[v] \in Int /\ \A w \in Wallets \ {v} : after[w] = before[w]
      BY <2>3, <2>4 DEF RegisterAssumption
    <3> HIDE DEF after, before, v
    <3>2. Held(after, Wallets) = Held(before, Wallets) + (after[v] - before[v])
      BY <3>1, SumChange
    <3> QED BY <3>2 DEF v
  <2>6. after[step.wallet] - before[step.wallet] = step.amount
    <3>1. before[step.wallet] \in Int
      BY <2>3, <2>4
    <3> QED BY <2>3, <2>4, <3>1
  <2>7. Supply(before) + step.amount <= issue.principal
    BY <2>2, <2>5, <2>6 DEF Supply
  <2> QED BY <2>1, <2>7 DEF Accepts, Eligible
<1>5. Accepts(step)
  BY <1>4 DEF Accepts
<1> QED BY <1>1, <1>2, <1>5

LEMMA IssueStepSafe ==
    ASSUME RegisterAssumption, DirectoryInv, BalanceInv, IssueInv, IssueStep
    PROVE  /\ BalancesType' /\ EligibilityType' /\ IssueInv'
           /\ par'[Prepared] = par[Prepared]
           /\ listed'[Prepared] = listed[Prepared] /\ kyc'[Prepared] = kyc[Prepared]
           /\ \A w \in Wallets : par'[Issued][w] > 0 => par[Issued][w] > 0 \/ w \in Accounted
           /\ UNCHANGED <<org, left, institutions, holders, feeder, audit>>
<1> USE SecuritiesAre
<1> DEFINE step == Head(issue.steps)
           rest == Tail(issue.steps)
           before == par[Issued]
           added(op) == IF step.op = op THEN {step.wallet} ELSE {}
<1>1. issue.state = "active" /\ issue.steps # <<>>
  BY DEF IssueStep
<1>2. Accepts(step) /\ step \in StepType /\ step.wallet \in Accounted
  BY <1>1, StepAccepted
<1>3. /\ issue' = [issue EXCEPT !.steps = rest]
      /\ listed' = [listed EXCEPT ![Issued] = @ \cup added("whitelist")]
      /\ kyc' = [kyc EXCEPT ![Issued] = @ \cup added("kyc")]
      /\ par' = IF step.op = "issue"
                THEN [par EXCEPT ![Issued][step.wallet] = @ + step.amount] ELSE par
      /\ UNCHANGED <<org, left, institutions, holders, feeder, audit>>
  BY <1>2 DEF IssueStep, deskVars, scriptVars
<1>4. step.wallet \in Wallets /\ step.amount \in Nat
  BY <1>2 DEF StepType
<1>5. /\ EligibilityType'
      /\ listed'[Prepared] = listed[Prepared] /\ kyc'[Prepared] = kyc[Prepared]
      /\ listed'[Issued] = listed[Issued] \cup added("whitelist")
      /\ kyc'[Issued] = kyc[Issued] \cup added("kyc")
  <2>1. added("whitelist") \subseteq Wallets /\ added("kyc") \subseteq Wallets
    BY <1>4
  <2>2. listed \in [Securities -> SUBSET Wallets] /\ kyc \in [Securities -> SUBSET Wallets]
    BY DEF BalanceInv, EligibilityType
  <2> HIDE DEF added
  <2> QED BY <1>3, <2>1, <2>2 DEF EligibilityType
<1>6. /\ IssueShape' /\ issue'.state = "active" /\ issue'.steps = rest
      /\ issue'.principal = issue.principal /\ issue'.rows = issue.rows
  <2>1. IssueShape
    BY DEF IssueInv
  <2> QED BY <1>1, <1>3, <2>1 DEF IssueShape
<1>7. /\ ValidTerms(issue.principal, issue.rows)
      /\ WillPass(issue.steps, IssueTarget, before, listed[Issued], kyc[Issued])
      /\ \A j \in DOMAIN issue.steps : issue.steps[j].wallet \in Accounted
  BY <1>1 DEF IssueInv, ActiveInv
<1>8. before \in [Wallets -> Nat]
  BY DEF BalanceInv, BalancesType
<1>9. /\ BalancesType' /\ par'[Prepared] = par[Prepared]
      /\ par'[Issued] = IF step.op = "issue"
                        THEN [before EXCEPT ![step.wallet] = @ + step.amount] ELSE before
  BY <1>3, <1>4 DEF BalanceInv, BalancesType
<1>10. WillPass(rest, IssueTarget, par'[Issued], listed'[Issued], kyc'[Issued])
  <2>1. CASE step.op = "issue"
    <3>1. listed'[Issued] = listed[Issued] /\ kyc'[Issued] = kyc[Issued]
      BY <1>5, <2>1
    <3>2. par'[Issued] = [before EXCEPT ![step.wallet] = @ + step.amount]
      BY <1>9, <2>1
    <3> DEFINE after == [before EXCEPT ![step.wallet] = @ + step.amount]
    <3>3. WillPass(rest, IssueTarget, after, listed[Issued], kyc[Issued])
      <4> HIDE DEF before
      <4> QED BY <1>1, <1>7, <1>8, <2>1, PassIssue
    <3> QED BY <3>1, <3>2, <3>3
  <2>2. CASE step.op # "issue"
    <3>1. par'[Issued] = before
      BY <1>9, <2>2
    <3>2. /\ listed[Issued] \subseteq listed'[Issued] /\ kyc[Issued] \subseteq kyc'[Issued]
          /\ step.op = "whitelist" => step.wallet \in listed'[Issued]
          /\ step.op = "kyc" => step.wallet \in kyc'[Issued]
      BY <1>5
    <3> HIDE DEF before, added
    <3> QED BY <1>1, <1>7, <2>2, <3>1, <3>2, PassOther
  <2> QED BY <2>1, <2>2
<1>11. \A j \in DOMAIN rest : rest[j].wallet \in Accounted
  <2>1. issue.steps \in Seq(StepType)
    BY <1>7 DEF WillPass
  <2> QED BY <1>1, <1>7, <2>1, TailPlaces
<1>12. Accounted' = Accounted /\ IssueTarget' = IssueTarget
  BY <1>3, <1>6 DEF Accounted, Lending, Anchors, IssueTarget
<1>13. ActiveInv'
  BY <1>6, <1>7, <1>10, <1>11, <1>12 DEF ActiveInv
<1>14. IssueInv'
  BY <1>6, <1>13 DEF IssueInv
<1>15. \A w \in Wallets : par'[Issued][w] > 0 => par[Issued][w] > 0 \/ w \in Accounted
  BY <1>2, <1>4, <1>8, <1>9
<1> QED BY <1>3, <1>5, <1>9, <1>14, <1>15

(* A lender that par may be allocated to is a desk or an institution. *)
LEMMA LendersAre ==
    ASSUME RegisterAssumption, DirectoryInv
    PROVE  Lenders \subseteq Lending
<1> SUFFICES ASSUME NEW line \in Directory, line.kind \notin {"agent", "feeder"}
             PROVE  FirstWallet(line) \in Lending
  BY DEF Lenders
<1>1. CASE \E d \in org : line = DeskLine(d)
  <2>1. PICK d \in org : line = DeskLine(d)
    BY <1>1
  <2>2. line.kind = "desk" /\ d.wallet \in line.wallets
    BY <2>1 DEF DeskLine
  <2>3. FirstWallet(line) = CHOOSE w \in line.wallets : \E e \in org : e.wallet = w
    BY <2>2 DEF FirstWallet
  <2>4. \E e \in org : e.wallet = FirstWallet(line)
    BY <2>2, <2>3
  <2> QED BY <2>4 DEF Lending, WalletsOfDesks
<1>2. CASE \E n \in AnchorNames : line = AnchorLine(n)
  <2>1. PICK n \in AnchorNames : line = AnchorLine(n)
    BY <1>2
  <2>2. line.kind = "anchor" /\ line.wallets = Accounts(Unlisted, n)
    BY <2>1 DEF AnchorLine
  <2>3. PICK i \in Unlisted : i.name = n
    BY DEF AnchorNames
  <2>4. i.wallet \in Accounts(Unlisted, n)
    BY <2>3 DEF Accounts
  <2>5. FirstWallet(line) \in Accounts(Unlisted, n)
    BY <2>2, <2>4 DEF FirstWallet
  <2>6. \E j \in Anchors : j.wallet = FirstWallet(line)
    BY <2>5, AccountsOf
  <2> QED BY <2>6 DEF Lending, WalletsOfDesks
<1>3. CASE line \in {AgentLine, FeederLine}
  BY <1>3 DEF AgentLine, FeederLine
<1> QED BY <1>1, <1>2, <1>3, LinesOf

LEMMA BeginSafe ==
    ASSUME RegisterAssumption, DirectoryInv, BalanceInv, IssueInv,
           NEW principal \in Principals, NEW rows \in Inputs, Begin(principal, rows)
    PROVE  IssueInv'
<1> DEFINE kept == Entered(rows)
<1>1. /\ issue.state = "none"
      /\ Valid(principal, kept)
      /\ \A i \in DOMAIN kept : kept[i].wallet \in Lenders
      /\ issue' = [state |-> "active", principal |-> principal, rows |-> kept,
                   steps |-> issuanceSteps(principal, kept)]
      /\ UNCHANGED <<org, left, institutions, par, listed, kyc>>
  BY DEF Begin, deskVars, scriptVars, eligibility
<1>2. kept \in Seq(Row)
  <2>1. rows \in Seq(Row)
    BY DEF RegisterAssumption, Row
  <2>2. kept \in Seq({r \in Row : r.par > 0})
    BY <2>1, EnteredRows
  <2> HIDE DEF kept
  <2> QED BY <2>2
<1> HIDE DEF kept
<1>3. \A i \in DOMAIN kept : kept[i].wallet \in Lending /\ kept[i].wallet # Agent
  <2>1. Agent \notin Lending
    BY Accounts1
  <2> QED BY <1>1, <2>1, LendersAre
<1>4. ValidTerms(principal, kept)
  BY <1>1, <1>2, <1>3 DEF ValidTerms, Valid, RegisterAssumption
<1>5. \A w \in Wallets : par[Issued][w] = 0
  BY <1>1 DEF IssueInv
<1>6. /\ WillPass(issuanceSteps(principal, kept), Target(principal, kept), par[Issued],
                  listed[Issued], kyc[Issued])
      /\ \A j \in DOMAIN issuanceSteps(principal, kept) :
            \/ issuanceSteps(principal, kept)[j].wallet = Agent
            \/ \E i \in DOMAIN kept : issuanceSteps(principal, kept)[j].wallet = kept[i].wallet
  BY <1>4, <1>5, ComposedPass
<1>7. \A j \in DOMAIN issuanceSteps(principal, kept) :
         issuanceSteps(principal, kept)[j].wallet \in Accounted
  BY <1>3, <1>6, Accounts1 DEF Accounted
<1>8. Accounted' = Accounted
  BY <1>1 DEF Accounted, Lending, Anchors
<1>9. /\ issue'.state = "active" /\ issue'.principal = principal /\ issue'.rows = kept
      /\ issue'.steps = issuanceSteps(principal, kept) /\ IssueShape'
  BY <1>1 DEF IssueShape
<1>10. ActiveInv'
  BY <1>1, <1>4, <1>6, <1>7, <1>8, <1>9 DEF ActiveInv, IssueTarget
<1> QED BY <1>9, <1>10 DEF IssueInv

(* verifyPrincipal finds what it expects, and each lender has its par. *)
LEMMA CompleteSafe ==
    ASSUME RegisterAssumption, DirectoryInv, BalanceInv, IssueInv, Complete
    PROVE  /\ IssueInv' /\ issue'.state = "completed"
           /\ \A i \in DOMAIN issue.rows :
                 par'[Issued][issue.rows[i].wallet] = issue.rows[i].par
           /\ UNCHANGED <<org, left, institutions, par, listed, kyc>>
<1>1. /\ issue.state = "active" /\ issue.steps = <<>>
      /\ issue' = [issue EXCEPT !.state = IF Verified THEN "completed" ELSE "mismatch"]
      /\ UNCHANGED <<org, left, institutions, par, listed, kyc>>
  BY DEF Complete, deskVars, scriptVars, eligibility
<1>2. /\ ValidTerms(issue.principal, issue.rows)
      /\ WillPass(issue.steps, IssueTarget, par[Issued], listed[Issued], kyc[Issued])
  BY <1>1 DEF IssueInv, ActiveInv
<1>3. /\ IssueTarget \in [Wallets -> Nat] /\ IssueTarget[Agent] = Unallocated(issue.principal, issue.rows)
      /\ \A i \in DOMAIN issue.rows : /\ issue.rows[i].wallet \in Wallets
                                      /\ IssueTarget[issue.rows[i].wallet] = issue.rows[i].par
      /\ Held(IssueTarget, Wallets) = issue.principal
  <2>1. Held(IssueTarget, Wallets) = issue.principal
    BY <1>2, TargetSum DEF IssueTarget
  <2> QED BY <1>2, <2>1, TargetOf DEF IssueTarget
<1>4. /\ \A w \in Wallets : par[Issued][w] = IssueTarget[w]
      /\ Supply(par[Issued]) = Held(IssueTarget, Wallets)
  <2>1. par[Issued] \in [Wallets -> Nat]
    BY SecuritiesAre DEF BalanceInv, BalancesType
  <2> DEFINE b == par[Issued]
  <2> HIDE DEF b
  <2>2. /\ b \in [Wallets -> Nat]
        /\ WillPass(issue.steps, IssueTarget, b, listed[Issued], kyc[Issued])
    BY <1>2, <2>1 DEF b
  <2>3. (\A w \in Wallets : b[w] = IssueTarget[w]) /\ Supply(b) = Held(IssueTarget, Wallets)
    BY <1>1, <1>3, <2>2, PassWithin
  <2> QED BY <2>3 DEF b
<1>5. Agent \in Wallets
  BY DEF RegisterAssumption
<1>6. Verified
  BY <1>3, <1>4, <1>5 DEF Verified
<1>7. IssueShape' /\ issue'.state = "completed"
  <2>1. IssueShape
    BY DEF IssueInv
  <2> QED BY <1>1, <1>6, <2>1 DEF IssueShape
<1>8. IssueInv'
  BY <1>7 DEF IssueInv
<1> QED BY <1>1, <1>3, <1>4, <1>7, <1>8

(* The control lists and KYC of the issued security only grow, and so they *)
(* do for the retail holders' prepared one.                                *)
LEMMA EligibilityStep ==
    ASSUME RegisterAssumption, DirectoryInv, BalanceInv, IssueInv, [Next]_vars
    PROVE  /\ EligibilityType'
           /\ listed[Issued] \subseteq listed'[Issued] /\ kyc[Issued] \subseteq kyc'[Issued]
           /\ \A k \in FeederKeys : Eligible(Prepared, k) => k \in listed'[Prepared] \cap kyc'[Prepared]
<1> USE SecuritiesAre
<1> DEFINE Goal == /\ EligibilityType'
                   /\ listed[Issued] \subseteq listed'[Issued] /\ kyc[Issued] \subseteq kyc'[Issued]
                   /\ \A k \in FeederKeys : Eligible(Prepared, k) =>
                         k \in listed'[Prepared] \cap kyc'[Prepared]
<1>1. EligibilityType
  BY DEF BalanceInv
<1>2. ASSUME UNCHANGED eligibility PROVE Goal
  BY <1>1, <1>2 DEF eligibility, EligibilityType, Eligible
<1>3. ASSUME NEW s \in Securities, NEW w \in Wallets,
             listed' = [listed EXCEPT ![s] = @ \cup {w}], kyc' = [kyc EXCEPT ![s] = @ \cup {w}]
      PROVE  Goal
  BY <1>1, <1>3 DEF EligibilityType, Eligible
<1>4. ASSUME NEW d \in NewDesks, Allocate(d) PROVE Goal
  <2>1. d.wallet \in Wallets
    BY DEF RegisterAssumption, Desks
  <2> QED BY <1>3, <1>4, <2>1 DEF Allocate
<1>5. \A i \in Anchors : i.wallet \in Wallets \ FeederKeys
  BY DEF DirectoryInv, Anchors, ScriptWallets, Apart
<1>6. ASSUME NEW i \in Anchors, NEW grant, SetEligibility(i, grant) PROVE Goal
  <2>1. \E change \in {listed[Prepared] \cup {i.wallet}, listed[Prepared] \ {i.wallet}} :
           listed' = [listed EXCEPT ![Prepared] = change]
    BY <1>6 DEF SetEligibility
  <2>2. \E change \in {kyc[Prepared] \cup {i.wallet}, kyc[Prepared] \ {i.wallet}} :
           kyc' = [kyc EXCEPT ![Prepared] = change]
    BY <1>6 DEF SetEligibility
  <2> QED BY <1>1, <1>5, <2>1, <2>2 DEF EligibilityType, Eligible
<1>7. ASSUME NEW i \in Anchors, Distribute(i) PROVE Goal
  BY <1>3, <1>5, <1>7 DEF Distribute
<1>8. ASSUME FeederLists PROVE Goal
  <2>1. feeder.account \in FeederKeys
    BY <1>8 DEF FeederLists, DirectoryInv, NoRun
  <2>2. feeder.account \in Wallets
    BY <2>1 DEF RegisterAssumption
  <2> QED BY <1>3, <1>8, <2>2 DEF FeederLists
<1>9. ASSUME IssueStep PROVE Goal
  <2>1. /\ EligibilityType' /\ listed'[Prepared] = listed[Prepared] /\ kyc'[Prepared] = kyc[Prepared]
    BY <1>9, IssueStepSafe
  <2>2. listed[Issued] \subseteq listed'[Issued] /\ kyc[Issued] \subseteq kyc'[Issued]
    BY <1>1, <1>9 DEF IssueStep, EligibilityType, eligibility
  <2> QED BY <2>1, <2>2 DEF Eligible
<1>10. ASSUME NEW d, Join(d) \/ ResetDesk(d) PROVE UNCHANGED eligibility
  BY <1>10 DEF Join, ResetDesk
<1>11. ASSUME NEW s, NEW b, Settle(s, b) PROVE UNCHANGED eligibility
  BY <1>11 DEF Settle
<1>12. ASSUME NEW i, Onboard(i) \/ AllocateOpening(i) PROVE UNCHANGED eligibility
  BY <1>12 DEF Onboard, AllocateOpening
<1>13. ASSUME NEW k, \/ FeederBegins(k) \/ FeederTransfers \/ FeederHasPar \/ FeederRecords
                     \/ FeederStops
       PROVE  UNCHANGED eligibility
  BY <1>13 DEF FeederBegins, FeederTransfers, FeederHasPar, FeederRecords, FeederStops
<1>14. ASSUME NEW x, Export(x) \/ Process(x) PROVE UNCHANGED eligibility
  BY <1>14 DEF Export, Process
<1>15. ASSUME NEW p, NEW rows, Begin(p, rows) PROVE UNCHANGED eligibility
  BY <1>15 DEF Begin
<1>16. ASSUME Complete \/ Reconcile \/ ReadRow \/ ReadSupply \/ Report PROVE UNCHANGED eligibility
  BY <1>16 DEF Complete, Reconcile, ReadRow, ReadSupply, Report
<1>17. ASSUME UNCHANGED vars PROVE Goal
  BY <1>2, <1>17 DEF vars
<1> HIDE DEF Goal
<1>18. ASSUME Next PROVE Goal
  BY <1>2, <1>4, <1>6, <1>7, <1>8, <1>9, <1>10, <1>11, <1>12, <1>13, <1>14, <1>15, <1>16, <1>18
     DEF Next
<1> QED BY <1>17, <1>18 DEF Goal

LEMMA IssueActions ==
    ASSUME [Next]_vars
    PROVE  \/ UNCHANGED issue
           \/ \E p \in Principals, rows \in Inputs : Begin(p, rows)
           \/ IssueStep \/ Complete
<1>1. CASE UNCHANGED vars
  BY <1>1 DEF vars
<1>2. ASSUME NEW d, Join(d) \/ ResetDesk(d) \/ Allocate(d) PROVE UNCHANGED issue
  BY <1>2 DEF Join, ResetDesk, Allocate
<1>3. ASSUME NEW s, NEW b, Settle(s, b) PROVE UNCHANGED issue
  BY <1>3 DEF Settle
<1>4. ASSUME NEW i, NEW grant,
             Onboard(i) \/ AllocateOpening(i) \/ Distribute(i) \/ SetEligibility(i, grant)
      PROVE  UNCHANGED issue
  BY <1>4 DEF Onboard, AllocateOpening, Distribute, SetEligibility
<1>5. ASSUME NEW k, \/ FeederBegins(k) \/ FeederLists \/ FeederTransfers \/ FeederHasPar
                    \/ FeederRecords \/ FeederStops
      PROVE  UNCHANGED issue
  BY <1>5 DEF FeederBegins, FeederLists, FeederTransfers, FeederHasPar, FeederRecords, FeederStops
<1>6. ASSUME NEW x, Export(x) \/ Process(x) PROVE UNCHANGED issue
  BY <1>6 DEF Export, Process
<1>7. ASSUME Reconcile \/ ReadRow \/ ReadSupply \/ Report PROVE UNCHANGED issue
  BY <1>7 DEF Reconcile, ReadRow, ReadSupply, Report
<1>8. ASSUME Next
      PROVE  \/ UNCHANGED issue
             \/ \E p \in Principals, rows \in Inputs : Begin(p, rows)
             \/ IssueStep \/ Complete
  BY <1>2, <1>3, <1>4, <1>5, <1>6, <1>7, <1>8 DEF Next
<1> QED BY <1>1, <1>8

LEMMA PassMore ==
    ASSUME NEW steps, NEW target, NEW balances, NEW onList, NEW hasKyc,
           WillPass(steps, target, balances, onList, hasKyc),
           NEW onList2, onList \subseteq onList2, NEW hasKyc2, hasKyc \subseteq hasKyc2
    PROVE  WillPass(steps, target, balances, onList2, hasKyc2)
<1>1. ASSUME NEW j, IssueAt(steps, target, balances, onList, hasKyc, j)
      PROVE  IssueAt(steps, target, balances, onList2, hasKyc2, j)
  BY <1>1 DEF IssueAt
<1> QED BY <1>1 DEF WillPass

LEMMA DistributeMoves ==
    ASSUME BalancesType, NEW w \in Wallets \ {Agent}, Agent \in Wallets, par[Issued][Agent] > 0,
           par' = [par EXCEPT ![Issued][Agent] = @ - 1, ![Issued][w] = @ + 1]
    PROVE  /\ BalancesType' /\ par'[Prepared] = par[Prepared]
           /\ \A x \in Wallets : par'[Issued][x] > 0 => par[Issued][x] > 0 \/ x = w
BY DEF BalancesType, Securities, Prepared, Issued

LEMMA IssueInvStep ==
    ASSUME RegisterAssumption, DirectoryInv, BalanceInv, IssueInv, [Next]_vars
    PROVE  IssueInv'
<1>1. ASSUME UNCHANGED issue, par'[Issued] = par[Issued] \/ issue.state = "completed"
      PROVE  IssueInv'
  <2>1. Accounted \subseteq Accounted'
    BY AccountedStays
  <2>2. listed[Issued] \subseteq listed'[Issued] /\ kyc[Issued] \subseteq kyc'[Issued]
    BY EligibilityStep
  <2>3. ASSUME issue.state = "active" PROVE ActiveInv'
    <3>1. /\ ValidTerms(issue.principal, issue.rows)
          /\ WillPass(issue.steps, IssueTarget, par[Issued], listed[Issued], kyc[Issued])
          /\ \A j \in DOMAIN issue.steps : issue.steps[j].wallet \in Accounted
      BY <2>3 DEF IssueInv, ActiveInv
    <3>2. WillPass(issue.steps, IssueTarget, par[Issued], listed'[Issued], kyc'[Issued])
      BY <2>2, <3>1, PassMore
    <3>3. issue' = issue /\ IssueTarget' = IssueTarget /\ par'[Issued] = par[Issued]
      BY <1>1, <2>3 DEF IssueTarget
    <3> QED BY <2>1, <3>1, <3>2, <3>3 DEF ActiveInv
  <2> QED BY <1>1, <2>3 DEF IssueInv, IssueShape
<1>2. ASSUME NEW p \in Principals, NEW rows \in Inputs, Begin(p, rows) PROVE IssueInv'
  BY <1>2, BeginSafe
<1>3. ASSUME IssueStep PROVE IssueInv'
  BY <1>3, IssueStepSafe
<1>4. ASSUME Complete PROVE IssueInv'
  BY <1>4, CompleteSafe
<1>5. ASSUME UNCHANGED issue PROVE IssueInv'
  <2>1. BalancesType /\ Lending \subseteq Wallets /\ Source \in Wallets
    BY Accounts1 DEF BalanceInv
  <2>2. ASSUME NEW a \in Lending, NEW b \in Lending, a # b, Transfer(a, b)
        PROVE  par'[Issued] = par[Issued]
    BY <2>1, <2>2, TransferMoves
  <2>3. ASSUME NEW b \in Lending, Issue(b) PROVE par'[Issued] = par[Issued]
    BY <2>1, <2>3, IssueMoves
  <2>4. ASSUME FeederTransfers PROVE par'[Issued] = par[Issued]
    <3>1. Transfer(Source, feeder.account) /\ feeder.account \in FeederKeys
      BY <2>4 DEF FeederTransfers, DirectoryInv, NoRun
    <3>2. feeder.account \in Wallets /\ Source # feeder.account
      BY <3>1, Accounts1 DEF RegisterAssumption
    <3> QED BY <2>1, <3>1, <3>2, TransferMoves
  <2>5. ASSUME NEW i \in Anchors, Distribute(i) PROVE issue.state = "completed"
    BY <2>5 DEF Distribute
  <2>6. CASE UNCHANGED par
    BY <1>1, <1>5, <2>6
  <2> QED BY <1>1, <1>3, <1>5, <2>2, <2>3, <2>4, <2>5, <2>6, Movements
<1> QED BY <1>2, <1>3, <1>4, <1>5, IssueActions

LEMMA BalanceStep ==
    ASSUME RegisterAssumption, DirectoryInv, BalanceInv, IssueInv, [Next]_vars
    PROVE  BalanceInv'
<1> USE SecuritiesAre
<1>1. EligibilityType'
  BY EligibilityStep
<1>2. Accounted \subseteq Accounted' /\ BalancesType /\ Lending \subseteq Accounted
  BY AccountedStays DEF BalanceInv, Accounted
<1>3. ASSUME BalancesType',
             \A s \in Securities : \A w \in Wallets :
                par'[s][w] > 0 => par[s][w] > 0 \/ w \in Accounted
      PROVE  BalanceInv'
  BY <1>1, <1>2, <1>3 DEF BalanceInv, BalancesAccounted
<1>4. Securities = {Prepared, Issued}
  BY DEF Securities
<1>5. ASSUME NEW a \in Wallets, NEW b \in Wallets, a # b, b \in Accounted, Transfer(a, b)
      PROVE  BalanceInv'
  <2>1. /\ BalancesType' /\ par'[Issued] = par[Issued]
        /\ par[Prepared][a] > 0
        /\ \A w \in Wallets \ {a, b} : par'[Prepared][w] = par[Prepared][w]
    BY <1>2, <1>5, TransferMoves
  <2> QED BY <1>3, <1>4, <1>5, <2>1
<1>6. ASSUME NEW b \in Wallets, b \in Accounted, Issue(b) PROVE BalanceInv'
  <2>1. /\ BalancesType' /\ par'[Issued] = par[Issued]
        /\ \A w \in Wallets \ {b} : par'[Prepared][w] = par[Prepared][w]
    BY <1>2, <1>6, IssueMoves
  <2> QED BY <1>3, <1>4, <1>6, <2>1
<1>7. ASSUME FeederTransfers PROVE BalanceInv'
  <2>1. Transfer(Source, feeder.account) /\ feeder.account \in FeederKeys
    BY <1>7 DEF FeederTransfers, DirectoryInv, NoRun
  <2>2. feeder.account \in Wallets /\ Source # feeder.account /\ Source \in Wallets
        /\ feeder.account \in Accounted
    BY <2>1, Accounts1 DEF RegisterAssumption, Accounted
  <2> QED BY <1>5, <2>1, <2>2
<1>8. ASSUME NEW i \in Anchors, Distribute(i) PROVE BalanceInv'
  <2>0. i.wallet \in Lending
    BY DEF Lending, WalletsOfDesks
  <2>1. i.wallet \in Lending /\ i.wallet \in Wallets \ {Agent} /\ Agent \in Wallets
    BY <2>0, Accounts1 DEF RegisterAssumption, Apart
  <2>2. /\ BalancesType' /\ par'[Prepared] = par[Prepared]
        /\ \A x \in Wallets : par'[Issued][x] > 0 => par[Issued][x] > 0 \/ x = i.wallet
    BY <1>2, <1>8, <2>1, DistributeMoves DEF Distribute
  <2> QED BY <1>2, <1>3, <1>4, <2>1, <2>2
<1>9. ASSUME IssueStep PROVE BalanceInv'
  BY <1>3, <1>4, <1>9, IssueStepSafe
<1>10. ASSUME UNCHANGED par PROVE BalanceInv'
  <2>1. BalancesType'
    BY <1>2, <1>10 DEF BalancesType
  <2> QED BY <1>3, <1>10, <2>1
<1>11. Lending \subseteq Wallets
  BY Accounts1
<1> QED BY <1>2, <1>5, <1>6, <1>7, <1>8, <1>9, <1>10, <1>11, Movements

-----------------------------------------------------------------------------
(***************************************************************************)
(* The retail holders: a run that is to transfer works on an account that  *)
(* is listed and has KYC, and one that is to record it finds its par.      *)
(***************************************************************************)
RetailInv ==
    /\ HeldOnce
    /\ feeder.pc \in {"transfer", "record"} => Eligible(Prepared, feeder.account)
    /\ feeder.pc = "record" => par[Prepared][feeder.account] = 1

LEMMA RetailInit == RegisterAssumption /\ Init => RetailInv
<1> SUFFICES ASSUME RegisterAssumption, Init PROVE RetailInv
  OBVIOUS
<1>1. feeder.pc = "idle"
  BY DEF Init, NoRun
<1>2. ASSUME NEW k \in FeederKeys
      PROVE  par[Prepared][k] = IF k \in Recorded THEN 1 ELSE 0
  BY SecuritiesAre DEF Init, RegisterAssumption
<1>3. ASSUME NEW k \in Recorded PROVE Eligible(Prepared, k)
  <2>1. k \in Wallets /\ OpeningPar[k] > 0
    BY DEF RegisterAssumption
  <2>2. k \in listed[Prepared] /\ kyc = listed
    BY <2>1, SecuritiesAre DEF Init
  <2> QED BY <2>2 DEF Eligible
<1>4. holders = Recorded
  BY DEF Init
<1> QED BY <1>1, <1>2, <1>3, <1>4 DEF RetailInv, HeldOnce

(* Only the feeder's own transfer moves the par of a retail holder. *)
LEMMA RetailPar ==
    ASSUME RegisterAssumption, DirectoryInv, BalanceInv, IssueInv, [Next]_vars, ~FeederTransfers,
           NEW k \in FeederKeys
    PROVE  par'[Prepared][k] = par[Prepared][k]
<1>1. k \in Wallets /\ k \notin Lending /\ Lending \subseteq Wallets
  BY Accounts1 DEF RegisterAssumption
<1>2. BalancesType
  BY DEF BalanceInv
<1>3. ASSUME NEW a \in Lending, NEW b \in Lending, a # b, Transfer(a, b)
      PROVE  par'[Prepared][k] = par[Prepared][k]
  BY <1>1, <1>2, <1>3, TransferMoves
<1>4. ASSUME NEW b \in Lending, Issue(b) PROVE par'[Prepared][k] = par[Prepared][k]
  BY <1>1, <1>2, <1>4, IssueMoves
<1>5. ASSUME NEW i \in Anchors, Distribute(i) PROVE par'[Prepared] = par[Prepared]
  <2>0. i.wallet \in Lending
    BY DEF Lending, WalletsOfDesks
  <2>1. i.wallet \in Wallets \ {Agent} /\ Agent \in Wallets
    BY <2>0, Accounts1 DEF RegisterAssumption, Apart
  <2> QED BY <1>2, <1>5, <2>1, DistributeMoves DEF Distribute
<1>6. ASSUME IssueStep PROVE par'[Prepared] = par[Prepared]
  BY <1>6, IssueStepSafe
<1> QED BY <1>3, <1>4, <1>5, <1>6, Movements

LEMMA RetailStep ==
    ASSUME RegisterAssumption, DirectoryInv, BalanceInv, IssueInv, RetailInv, [Next]_vars
    PROVE  RetailInv'
<1>1. \A k \in FeederKeys : Eligible(Prepared, k) => k \in listed'[Prepared] \cap kyc'[Prepared]
  BY EligibilityStep
<1>2. ASSUME NEW k \in FeederKeys, ~FeederTransfers PROVE par'[Prepared][k] = par[Prepared][k]
  BY <1>2, RetailPar
<1>3. feeder = NoRun
      \/ feeder \in [account : FeederKeys, pc : {"eligible", "transfer", "record"}]
  BY DEF DirectoryInv
<1>4. ASSUME UNCHANGED <<holders, feeder>>, ~FeederTransfers PROVE RetailInv'
  BY <1>1, <1>2, <1>3, <1>4 DEF RetailInv, HeldOnce, Eligible, NoRun
<1>5. ASSUME FeederTransfers PROVE RetailInv'
  <2> DEFINE k == feeder.account
  <2>1. /\ feeder.pc = "transfer" /\ NeedsPar(k) /\ Transfer(Source, k)
        /\ feeder' = [feeder EXCEPT !.pc = "record"] /\ holders' = holders
    BY <1>5 DEF FeederTransfers
  <2>2. k \in FeederKeys /\ feeder' = [account |-> k, pc |-> "record"]
    BY <1>3, <2>1 DEF NoRun
  <2>3. k \in Wallets /\ Source \in Wallets /\ Source \notin FeederKeys /\ FeederKeys \subseteq Wallets
    BY <2>2 DEF RegisterAssumption
  <2>4. /\ par'[Prepared][k] = par[Prepared][k] + 1
        /\ \A w \in Wallets \ {Source, k} : par'[Prepared][w] = par[Prepared][w]
    BY <2>1, <2>2, <2>3, TransferMoves DEF BalanceInv
  <2>5. par[Prepared][k] = 0
    <3>1. par[Prepared][k] \in Nat
      BY <2>3, SecuritiesAre DEF BalanceInv, BalancesType
    <3> QED BY <2>1, <3>1 DEF NeedsPar
  <2>6. k \notin holders /\ Eligible(Prepared, k)
    BY <2>1, <2>2, <2>5 DEF RetailInv, HeldOnce
  <2> HIDE DEF k
  <2>7. feeder'.account = k /\ feeder'.pc = "record"
    BY <2>2
  <2>8. \A j \in FeederKeys \ {k} : par'[Prepared][j] = par[Prepared][j]
    BY <2>3, <2>4
  <2> QED BY <1>1, <2>1, <2>2, <2>4, <2>5, <2>6, <2>7, <2>8 DEF RetailInv, HeldOnce, Eligible
<1>6. ASSUME NEW k, FeederBegins(k) PROVE RetailInv'
  <2>1. feeder' = [account |-> k, pc |-> "eligible"] /\ holders' = holders /\ par' = par
    BY <1>6 DEF FeederBegins
  <2> QED BY <1>1, <2>1 DEF RetailInv, HeldOnce, Eligible
<1>7. ASSUME FeederLists PROVE RetailInv'
  <2> DEFINE k == feeder.account
  <2>1. /\ listed' = [listed EXCEPT ![Prepared] = @ \cup {k}]
        /\ kyc' = [kyc EXCEPT ![Prepared] = @ \cup {k}]
        /\ feeder' = [account |-> k, pc |-> "transfer"] /\ holders' = holders /\ par' = par
    BY <1>3, <1>7 DEF FeederLists, NoRun
  <2>2. k \in listed'[Prepared] \cap kyc'[Prepared]
    BY <2>1, SecuritiesAre DEF BalanceInv, EligibilityType
  <2> HIDE DEF k
  <2> QED BY <1>1, <2>1, <2>2 DEF RetailInv, HeldOnce, Eligible
<1>8. ASSUME FeederHasPar PROVE RetailInv'
  <2> DEFINE k == feeder.account
  <2>1. /\ feeder.pc = "transfer" /\ ~NeedsPar(k)
        /\ feeder' = [account |-> k, pc |-> "record"] /\ holders' = holders /\ par' = par
        /\ k \in FeederKeys
    BY <1>3, <1>8 DEF FeederHasPar, NoRun
  <2>2. par[Prepared][k] = 1
    <3>1. k \in Wallets
      BY <2>1 DEF RegisterAssumption
    <3>2. par[Prepared][k] \in Nat /\ par[Prepared][k] <= 1
      BY <2>1, <3>1, SecuritiesAre DEF BalanceInv, BalancesType, RetailInv, HeldOnce
    <3> QED BY <2>1, <3>2 DEF NeedsPar
  <2> HIDE DEF k
  <2>3. feeder.pc = "transfer" => Eligible(Prepared, k)
    BY DEF RetailInv, k
  <2> QED BY <1>1, <2>1, <2>2, <2>3 DEF RetailInv, HeldOnce, Eligible
<1>9. ASSUME FeederRecords \/ FeederStops PROVE RetailInv'
  <2>1. /\ feeder' = NoRun /\ par' = par
        /\ holders' = holders \/ (holders' = holders \cup {feeder.account} /\ feeder.pc = "record")
    BY <1>9 DEF FeederRecords, FeederStops
  <2>2. feeder.pc = "record" => par[Prepared][feeder.account] = 1 /\ Eligible(Prepared, feeder.account)
    BY DEF RetailInv
  <2> QED BY <1>1, <2>1, <2>2 DEF RetailInv, HeldOnce, Eligible, NoRun
<1>10. \/ UNCHANGED <<holders, feeder>>
       \/ \E k \in FeederKeys : FeederBegins(k)
       \/ FeederLists \/ FeederTransfers \/ FeederHasPar \/ FeederRecords \/ FeederStops
  <2>1. ASSUME NEW d, Join(d) \/ ResetDesk(d) PROVE UNCHANGED <<holders, feeder>>
    BY <2>1 DEF Join, ResetDesk, scriptVars
  <2>2. ASSUME NEW i, NEW grant, Onboard(i) \/ SetEligibility(i, grant)
        PROVE  UNCHANGED <<holders, feeder>>
    BY <2>2 DEF Onboard, SetEligibility
  <2> QED BY <2>1, <2>2, DirectoryActions
<1> QED BY <1>4, <1>5, <1>6, <1>7, <1>8, <1>9, <1>10


-----------------------------------------------------------------------------
(* What is on no line of the page, and in no account that is known to be   *)
(* missing, is empty: the lines and the missing accounts make the supply.  *)
LEMMA LinesAddUp ==
    ASSUME RegisterAssumption, DirectoryInv, BalanceInv, NEW s \in Securities
    PROVE  Held(PagePar(s), Page(s)) + Held(par[s], left \cup (FeederKeys \ holders))
              = Supply(par[s])
<1> DEFINE f == par[s]
           W == [l \in Page(s) |-> l.wallets]
           on == UNION {W[l] : l \in Page(s)}
           off == left \cup (FeederKeys \ holders)
           rest == Wallets \ (on \cup off)
<1>1. IsFiniteSet(Wallets) /\ \A w \in Wallets : f[w] \in Nat /\ f[w] \in Int
  BY DEF RegisterAssumption, BalanceInv, BalancesType
<1>2. IsFiniteSet(Page(s)) /\ Page(s) \subseteq Directory
  BY DirectoryFinite, FS_Subset DEF Page
<1>3. \A l \in Page(s) : W[l] = l.wallets /\ W[l] \in SUBSET Wallets
  BY <1>2, LinesApart
<1>4. \A l, m \in Page(s) : l = m \/ W[l] \cap W[m] = {}
  BY <1>2, <1>3, LinesApart
<1>5. \A l \in Page(s) : PagePar(s)[l] = Held(f, W[l])
  BY DEF PagePar, HolderPar
<1>6. Held(PagePar(s), Page(s)) = Held(f, on)
  <2> DEFINE g == PagePar(s)
             L == Page(s)
  <2>1. \A l \in L : g[l] = Held(f, W[l])
    BY <1>5
  <2>2. /\ IsFiniteSet(Wallets) /\ \A w \in Wallets : f[w] \in Int
        /\ IsFiniteSet(L) /\ \A l \in L : W[l] \in SUBSET Wallets
        /\ \A l, m \in L : l = m \/ W[l] \cap W[m] = {}
    BY <1>1, <1>2, <1>3, <1>4
  <2> HIDE DEF f, W, g, L
  <2>3. Held(g, L) = Held(f, UNION {W[l] : l \in L})
    BY <2>1, <2>2, SumOfGroups
  <2> QED BY <2>3 DEF g, L
<1>7. on \subseteq Lending \cup {Agent} \cup holders
  <2>1. UNION {l.wallets : l \in Directory} = Lending \cup {Agent} \cup holders
    BY LinesCover DEF Lending
  <2> QED BY <1>2, <1>3, <2>1
<1>8. on \subseteq Wallets /\ off \subseteq Wallets /\ on \cap off = {}
  <2>1. holders \subseteq FeederKeys /\ FeederKeys \subseteq Wallets
    BY DEF DirectoryInv, RegisterAssumption
  <2> QED BY <1>3, <1>7, <2>1, Accounts1
<1>9. ASSUME NEW w \in rest PROVE f[w] = 0
  <2> SUFFICES ASSUME f[w] > 0 PROVE FALSE
    BY <1>1, <1>9
  <2>1. w \in Accounted /\ w \in Wallets
    BY <1>9 DEF BalanceInv, BalancesAccounted
  <2>2. w \in Lending \cup {Agent} \cup holders
    BY <1>9, <2>1, Accounts1 DEF Accounted
  <2>3. PICK l \in Directory : w \in l.wallets
    BY <2>2, LinesCover DEF Lending
  <2>4. l.wallets \in SUBSET Wallets /\ IsFiniteSet(l.wallets)
    BY <1>1, <2>3, LinesApart, FS_Subset
  <2>5. Held(f, l.wallets) \in Nat /\ f[w] <= Held(f, l.wallets)
    <3> HIDE DEF f
    <3> QED BY <1>1, <2>3, <2>4, SumOfNats
  <2>6. l \in Page(s)
    BY <1>1, <2>1, <2>3, <2>5 DEF Page, HolderPar
  <2> QED BY <1>3, <1>9, <2>3, <2>6
<1>10. Held(f, rest) = 0
  <2>1. IsFiniteSet(rest)
    BY <1>1, FS_Subset
  <2> HIDE DEF f, rest
  <2> QED BY <1>9, <2>1, SumOfZeros
<1>11. Held(f, on \cup off) = Held(f, on) + Held(f, off)
       /\ Held(f, (on \cup off) \cup rest) = Held(f, on \cup off) + Held(f, rest)
       /\ Held(f, on) \in Int /\ Held(f, off) \in Int
  <2>1. (on \cup off) \in SUBSET Wallets /\ rest \in SUBSET Wallets /\ (on \cup off) \cap rest = {}
        /\ on \in SUBSET Wallets /\ off \in SUBSET Wallets
    BY <1>8
  <2> HIDE DEF f, on, off, rest
  <2>2. \A x \in Wallets : f[x] \in Int
    BY <1>1
  <2>3. Held(f, on) \in Int /\ Held(f, off) \in Int
    BY <1>1, <2>1, <2>2, SumType
  <2>4. Held(f, on \cup off) = Held(f, on) + Held(f, off)
    BY <1>1, <1>8, <2>1, <2>2, SumDisjoint
  <2>5. Held(f, (on \cup off) \cup rest) = Held(f, on \cup off) + Held(f, rest)
    BY <1>1, <2>1, <2>2, SumDisjoint
  <2> QED BY <2>3, <2>4, <2>5
<1>12. (on \cup off) \cup rest = Wallets
  BY <1>8
<1>13. Held(f, Wallets) = Held(f, on) + Held(f, off)
  <2>1. Held(f, Wallets) = Held(f, on \cup off) + Held(f, rest)
    BY <1>11, <1>12
  <2> HIDE DEF f, on, off, rest
  <2>2. Held(f, rest) = 0 /\ Held(f, on \cup off) = Held(f, on) + Held(f, off)
        /\ Held(f, on) \in Int /\ Held(f, off) \in Int
    BY <1>10, <1>11
  <2> QED BY <2>1, <2>2
<1> QED BY <1>6, <1>13 DEF Supply

-----------------------------------------------------------------------------
(***************************************************************************)
(* The reconciliation.  A report reads each account at a moment of its     *)
(* own.  If one unit moved in the meantime, what was read of an account is *)
(* what it held before the movement or after it; the total supply, read    *)
(* last, tells whether the accounts were read on the same side of it.      *)
(***************************************************************************)

TransferOf(a, b, old, new) ==
    /\ a # b /\ old[a] > 0 /\ new[a] = old[a] - 1 /\ new[b] = old[b] + 1
    /\ \A w \in Wallets \ {a, b} : new[w] = old[w]
IssueTo(b, old, new) == new[b] = old[b] + 1 /\ \A w \in Wallets \ {b} : new[w] = old[w]
OneUnit(old, new) ==
    \/ \E a, b \in Wallets : TransferOf(a, b, old, new)
    \/ \E b \in Wallets : IssueTo(b, old, new)

LEMMA TransferKeeps ==
    ASSUME IsFiniteSet(Wallets), NEW f \in [Wallets -> Nat], NEW g \in [Wallets -> Nat],
           NEW a \in Wallets, NEW b \in Wallets, TransferOf(a, b, f, g)
    PROVE  Held(g, Wallets) = Held(f, Wallets)
<1> DEFINE h == [f EXCEPT ![a] = @ - 1]
<1>1. /\ f[a] \in Nat /\ f[b] \in Nat /\ g[a] = f[a] - 1 /\ g[b] = f[b] + 1 /\ a # b
      /\ \A w \in Wallets \ {a, b} : g[w] = f[w]
  BY DEF TransferOf
<1>2. /\ \A w \in Wallets : f[w] \in Int /\ h[w] \in Int /\ g[w] \in Int
      /\ h[a] = f[a] - 1 /\ \A w \in Wallets \ {a} : h[w] = f[w]
      /\ h[b] = f[b] /\ \A w \in Wallets \ {b} : g[w] = h[w]
  BY <1>1
<1> HIDE DEF h
<1>3. Held(h, Wallets) = Held(f, Wallets) + (h[a] - f[a])
  BY <1>2, SumChange
<1>4. Held(g, Wallets) = Held(h, Wallets) + (g[b] - h[b])
  BY <1>2, SumChange
<1>5. Held(f, Wallets) \in Int
  BY <1>2, SumType
<1> QED BY <1>1, <1>2, <1>3, <1>4, <1>5

LEMMA SamePart ==
    ASSUME NEW A, IsFiniteSet(A), NEW f, \A w \in A : f[w] \in Int,
           NEW R \in SUBSET A, Held(f, A \ R) = 0
    PROVE  Held(f, R) = Held(f, A)
<1> DEFINE rest == A \ R
<1>1. rest \in SUBSET A /\ R \cap rest = {} /\ R \cup rest = A /\ Held(f, rest) = 0
  OBVIOUS
<1> HIDE DEF rest
<1>2. Held(f, R \cup rest) = Held(f, R) + Held(f, rest)
  BY <1>1, SumDisjoint
<1>3. Held(f, R) \in Int
  BY SumType
<1>4. Held(f, R \cup rest) = Held(f, A)
  BY <1>1
<1> QED BY <1>1, <1>2, <1>3, <1>4

(* Old and new balances are not mixed when the total is that of the new    *)
(* ones and no par was in accounts that are not read.                      *)
LEMMA NotTorn ==
    ASSUME IsFiniteSet(Wallets), NEW f \in [Wallets -> Nat], NEW g \in [Wallets -> Nat],
           OneUnit(f, g), NEW R \in SUBSET Wallets, Held(f, Wallets \ R) = 0,
           NEW r, \A w \in R : r[w] = f[w] \/ r[w] = g[w],
           Held(r, R) = Held(g, Wallets)
    PROVE  \/ \A w \in R : r[w] = f[w]
           \/ \A w \in R : r[w] = g[w]
<1> SUFFICES ASSUME NEW x \in R, r[x] # f[x], NEW y \in R, r[y] # g[y]
             PROVE  FALSE
  OBVIOUS
<1>1. r[x] = g[x] /\ r[y] = f[y] /\ f[x] # g[x] /\ f[y] # g[y] /\ x # y
      /\ x \in Wallets /\ y \in Wallets
  OBVIOUS
<1>2. PICK a \in Wallets, b \in Wallets : TransferOf(a, b, f, g)
  <2>1. ASSUME NEW b \in Wallets, IssueTo(b, f, g) PROVE FALSE
    BY <1>1, <2>1 DEF IssueTo
  <2> QED BY <2>1 DEF OneUnit
<1>3. {x, y} = {a, b}
  BY <1>1, <1>2 DEF TransferOf
<1>4. \A w \in R \ {x} : r[w] = f[w]
  BY <1>1, <1>2, <1>3 DEF TransferOf
<1>5. IsFiniteSet(R) /\ (\A w \in R : f[w] \in Int) /\ r[x] \in Int /\ f[x] \in Int /\ g[x] \in Int
  BY <1>1, FS_Subset
<1>6. Held(r, R) = Held(f, R) + (r[x] - f[x])
  BY <1>4, <1>5, SumChange
<1>7. Held(f, R) = Held(f, Wallets)
  BY SamePart
<1>8. Held(g, Wallets) = Held(f, Wallets)
  BY <1>2, TransferKeeps
<1>9. Held(f, R) \in Int
  BY <1>5, SumType
<1>10. Held(f, R) = Held(f, R) + (r[x] - f[x])
  BY <1>6, <1>7, <1>8
<1>11. r[x] # f[x] /\ r[x] \in Int /\ f[x] \in Int
  BY <1>5
<1> DEFINE total == Held(f, R)
           after == r[x]
           before == f[x]
<1> HIDE DEF total, after, before
<1>12. total = total + (after - before) /\ after # before
       /\ total \in Int /\ after \in Int /\ before \in Int
  BY <1>9, <1>10, <1>11 DEF total, after, before
<1> QED BY <1>12

(* What the agent's book lists: the pool, and accounts that are not the    *)
(* feeder's holders; and what it has to follow.                            *)
BookRows == {Pool} \cup (Wallets \ FeederKeys)
BookInv ==
    /\ DOMAIN book \subseteq BookRows
    /\ log \in Seq([seller : Wallets, buyer : BookRows])

(* What the report covers, and what was read of it.  As long as one unit   *)
(* moved, a balance that was read is the old one or the new one.           *)
AuditShape ==
    audit = [state |-> audit.state, todo |-> audit.todo, rows |-> audit.rows,
             known |-> audit.known, pool |-> audit.pool, extra |-> audit.extra,
             read |-> audit.read, from |-> audit.from, moved |-> audit.moved,
             supply |-> audit.supply]
RowWallets == UNION {WalletsOf(r, audit.pool) : r \in DOMAIN audit.rows \cap audit.known}
ReadOnce(w) == audit.read[w] = audit.from[w] \/ audit.read[w] = par[Prepared][w]
ReadingInv ==
    /\ DOMAIN audit.rows \subseteq BookRows /\ audit.pool \subseteq FeederKeys
    /\ audit.extra \subseteq Wallets \ RowWallets
    /\ audit.todo \cup DOMAIN audit.read = RowWallets \cup audit.extra
    /\ audit.from \in [Wallets -> Nat] /\ audit.moved \in Nat
    /\ audit.moved = 0 => audit.from = par[Prepared]
    /\ audit.moved = 1 => OneUnit(audit.from, par[Prepared])
    /\ audit.moved <= 1 => \A w \in DOMAIN audit.read : ReadOnce(w)
AuditInv == AuditShape /\ (audit.state = "reading" => ReadingInv)

LEMMA BookInit == RegisterAssumption /\ Init => BookInv /\ AuditInv
<1> SUFFICES ASSUME RegisterAssumption, Init PROVE BookInv /\ AuditInv
  OBVIOUS
<1>1. \A w \in Wallets \ Recorded : OpeningPar[w] > 0 => w \notin FeederKeys
  BY DEF RegisterAssumption
<1>2. DOMAIN book \subseteq BookRows /\ log = <<>>
  BY <1>1 DEF Init, BookRows
<1>3. audit = NoAudit
  BY DEF Init
<1> QED BY <1>2, <1>3 DEF BookInv, AuditInv, AuditShape, NoAudit

LEMMA BookStep ==
    ASSUME RegisterAssumption, DirectoryInv, BookInv, [Next]_vars
    PROVE  BookInv'
<1> DEFINE Entries == [seller : Wallets, buyer : BookRows]
<1>1. ASSUME UNCHANGED <<log, book>> PROVE BookInv'
  BY <1>1 DEF BookInv, BookRows
<1>2. ASSUME NEW s \in org \cup Anchors, NEW b \in org \cup Anchors, Settle(s, b)
      PROVE  BookInv'
  <2>1. s.wallet \in Lending /\ b.wallet \in Lending
    BY DEF Lending, WalletsOfDesks
  <2>2. s.wallet \in Wallets /\ b.wallet \in Wallets \ FeederKeys
    BY <2>1, Accounts1
  <2>3. [seller |-> s.wallet, buyer |-> b.wallet] \in Entries
    BY <2>2 DEF BookRows
  <2>4. log' = Append(log, [seller |-> s.wallet, buyer |-> b.wallet]) /\ book' = book
    BY <1>2 DEF Settle
  <2>5. log' \in Seq(Entries)
    <3> HIDE DEF Entries
    <3> QED BY <2>3, <2>4 DEF BookInv, Entries
  <2> QED BY <2>4, <2>5 DEF BookInv, BookRows
<1>3. ASSUME FeederTransfers PROVE BookInv'
  <2>1. [seller |-> Source, buyer |-> Pool] \in Entries
    BY DEF RegisterAssumption, BookRows
  <2>2. log' = Append(log, [seller |-> Source, buyer |-> Pool]) /\ book' = book
    BY <1>3 DEF FeederTransfers
  <2>3. log' \in Seq(Entries)
    <3> HIDE DEF Entries
    <3> QED BY <2>1, <2>2 DEF BookInv, Entries
  <2> QED BY <2>2, <2>3 DEF BookInv, BookRows
<1>4. ASSUME NEW n \in DOMAIN log, Process(n) PROVE BookInv'
  <2>1. log[n] \in Entries
    <3>1. log \in Seq(Entries)
      BY DEF BookInv
    <3>2. n \in 1..Len(log)
      <4> HIDE DEF Entries
      <4> QED BY <3>1
    <3> HIDE DEF Entries
    <3> QED BY <3>1, <3>2, ElementOfSeq
  <2>2. log' = log /\ DOMAIN book' = DOMAIN book \cup {log[n].buyer}
    BY <1>4 DEF Process
  <2> QED BY <2>1, <2>2 DEF BookInv, BookRows
<1>5. \/ UNCHANGED <<log, book>>
      \/ \E s, b \in org \cup Anchors : Settle(s, b)
      \/ FeederTransfers
      \/ \E n \in DOMAIN log : Process(n)
  <2> DEFINE still == UNCHANGED <<log, book>>
  <2>1. CASE UNCHANGED vars
    BY <2>1 DEF vars, bookVars
  <2>2. ASSUME NEW d, Join(d) \/ ResetDesk(d) \/ Allocate(d) PROVE still
    BY <2>2 DEF Join, ResetDesk, Allocate, bookVars
  <2>3. ASSUME NEW i, NEW grant, Onboard(i) \/ SetEligibility(i, grant) PROVE still
    BY <2>3 DEF Onboard, SetEligibility, bookVars
  <2>4. ASSUME NEW i, AllocateOpening(i) \/ Distribute(i) PROVE still
    BY <2>4 DEF AllocateOpening, Distribute, bookVars
  <2>5. ASSUME NEW k, FeederBegins(k) \/ FeederLists \/ FeederHasPar \/ FeederRecords \/ FeederStops
        PROVE  still
    BY <2>5 DEF FeederBegins, FeederLists, FeederHasPar, FeederRecords, FeederStops, bookVars
  <2>6. ASSUME NEW some, Export(some) PROVE still
    BY <2>6 DEF Export
  <2>7. ASSUME NEW p, NEW rows, Begin(p, rows) \/ IssueStep \/ Complete PROVE still
    BY <2>7 DEF Begin, IssueStep, Complete, bookVars
  <2>8. ASSUME Reconcile \/ ReadRow \/ ReadSupply \/ Report PROVE still
    BY <2>8 DEF Reconcile, ReadRow, ReadSupply, Report, bookVars
  <2> HIDE DEF still
  <2>9. CASE Next
    BY <2>2, <2>3, <2>4, <2>5, <2>6, <2>7, <2>8, <2>9 DEF Next, still
  <2> QED BY <2>1, <2>9 DEF still
<1> QED BY <1>1, <1>2, <1>3, <1>4, <1>5

(* A unit moves while the report is being read. *)
LEMMA AuditMoves ==
    ASSUME BalancesType, BalancesType', AuditInv, OneUnit(par[Prepared], par'[Prepared]),
           audit' = IF audit.state = "reading" THEN [audit EXCEPT !.moved = @ + 1] ELSE audit
    PROVE  AuditInv'
<1>1. CASE audit.state # "reading"
  <2>1. audit' = audit
    BY <1>1
  <2> QED BY <1>1, <2>1 DEF AuditInv, AuditShape
<1>2. CASE audit.state = "reading"
  <2>1. ReadingInv /\ AuditShape
    BY <1>2 DEF AuditInv
  <2>2. audit.moved \in Nat
    BY <2>1 DEF ReadingInv
  <2>3. /\ audit' = [audit EXCEPT !.moved = audit.moved + 1]
        /\ audit'.state = audit.state /\ audit'.moved = audit.moved + 1
        /\ audit'.todo = audit.todo /\ audit'.rows = audit.rows /\ audit'.known = audit.known
        /\ audit'.pool = audit.pool /\ audit'.extra = audit.extra
        /\ audit'.read = audit.read /\ audit'.from = audit.from
    BY <1>2, <2>1 DEF AuditShape
  <2>4. AuditShape'
    BY <2>1, <2>3 DEF AuditShape
  <2>5. RowWallets' = RowWallets
    BY <2>3 DEF RowWallets
  <2>6. audit'.moved \in Nat /\ audit'.moved # 0
    BY <2>2, <2>3
  <2>7. ASSUME audit'.moved <= 1
        PROVE  audit.moved = 0 /\ audit.from = par[Prepared] /\ OneUnit(audit'.from, par'[Prepared])
               /\ \A w \in DOMAIN audit.read : audit.read[w] = audit.from[w]
    <3>1. audit.moved = 0
      BY <2>2, <2>3, <2>7
    <3>2. audit.from = par[Prepared]
      BY <2>1, <3>1 DEF ReadingInv
    <3>3. \A w \in DOMAIN audit.read : ReadOnce(w)
      BY <2>1, <3>1 DEF ReadingInv
    <3> QED BY <2>3, <3>1, <3>2, <3>3 DEF ReadOnce
  <2>8. ReadingInv'
    <3>1. audit'.moved = 1 => OneUnit(audit'.from, par'[Prepared])
      BY <2>7
    <3>2. audit'.moved <= 1 => \A w \in DOMAIN audit'.read : ReadOnce(w)'
      BY <2>3, <2>7 DEF ReadOnce
    <3>3. /\ DOMAIN audit.rows \subseteq BookRows /\ audit.pool \subseteq FeederKeys
          /\ audit.extra \subseteq Wallets \ RowWallets
          /\ audit.todo \cup DOMAIN audit.read = RowWallets \cup audit.extra
          /\ audit.from \in [Wallets -> Nat]
      BY <2>1 DEF ReadingInv
    <3> QED BY <2>3, <2>5, <2>6, <3>1, <3>2, <3>3 DEF ReadingInv, BookRows
  <2> QED BY <2>4, <2>8 DEF AuditInv
<1> QED BY <1>1, <1>2

LEMMA AuditReads ==
    ASSUME AuditInv, UNCHANGED par, ReadRow
    PROVE  AuditInv'
<1>1. ReadingInv /\ AuditShape /\ audit.state = "reading"
  BY DEF AuditInv, ReadRow
<1>2. PICK w \in Due : audit' = [audit EXCEPT !.todo = @ \ {w},
                         !.read = [x \in DOMAIN @ \cup {w} |->
                                     IF x = w THEN par[Prepared][w] ELSE @[x]]]
  BY DEF ReadRow
<1> DEFINE read == [x \in DOMAIN audit.read \cup {w} |->
                       IF x = w THEN par[Prepared][w] ELSE audit.read[x]]
<1>3. /\ audit' = [audit EXCEPT !.todo = audit.todo \ {w}, !.read = read]
      /\ audit'.state = audit.state /\ audit'.moved = audit.moved
      /\ audit'.todo = audit.todo \ {w} /\ audit'.rows = audit.rows
      /\ audit'.known = audit.known /\ audit'.pool = audit.pool /\ audit'.extra = audit.extra
      /\ audit'.read = read /\ audit'.from = audit.from
  BY <1>1, <1>2 DEF AuditShape
<1>4. AuditShape'
  BY <1>1, <1>3 DEF AuditShape
<1>5. RowWallets' = RowWallets
  BY <1>3 DEF RowWallets
<1>6. w \in audit.todo
  BY DEF Due
<1>7. DOMAIN read = DOMAIN audit.read \cup {w}
      /\ \A x \in DOMAIN read : read[x] = IF x = w THEN par[Prepared][w] ELSE audit.read[x]
  OBVIOUS
<1>8. audit'.todo \cup DOMAIN audit'.read = RowWallets \cup audit.extra
  BY <1>1, <1>3, <1>6, <1>7 DEF ReadingInv
<1>9. ASSUME audit.moved <= 1, NEW x \in DOMAIN audit'.read PROVE ReadOnce(x)'
  <2>1. x = w \/ ReadOnce(x)
    BY <1>1, <1>3, <1>7, <1>9 DEF ReadingInv
  <2> QED BY <1>3, <1>7, <1>9, <2>1 DEF ReadOnce
<1> HIDE DEF read
<1>10. ReadingInv'
  BY <1>1, <1>3, <1>5, <1>8, <1>9 DEF ReadingInv, BookRows
<1> QED BY <1>4, <1>10 DEF AuditInv

LEMMA AuditBegins ==
    ASSUME RegisterAssumption, DirectoryInv, BalanceInv, BookInv, UNCHANGED par, Reconcile
    PROVE  AuditInv'
<1> DEFINE read == UNION {WalletsOf(r, holders) : r \in DOMAIN book \cap mapped}
           extra == {i.wallet : i \in {x \in institutions : x.eligible}} \ read
<1>1. /\ audit' = [NoAudit EXCEPT !.state = "reading", !.rows = book, !.known = mapped,
                         !.pool = holders, !.extra = extra, !.from = par[Prepared],
                         !.todo = read \cup extra]
  BY DEF Reconcile
<1>2. extra \subseteq Wallets \ read
  BY DEF DirectoryInv, ScriptWallets
<1> HIDE DEF read, extra
<1>3. /\ AuditShape' /\ audit'.state = "reading" /\ audit'.rows = book /\ audit'.known = mapped
      /\ audit'.pool = holders /\ audit'.extra = extra /\ audit'.from = par[Prepared]
      /\ audit'.todo = read \cup extra /\ audit'.read = <<>> /\ audit'.moved = 0
  BY <1>1 DEF NoAudit, AuditShape
<1>4. RowWallets' = read
  BY <1>3 DEF RowWallets, read
<1>5. DOMAIN audit'.read = {}
  BY <1>3
<1>6. par'[Prepared] = par[Prepared] /\ par[Prepared] \in [Wallets -> Nat]
  BY SecuritiesAre DEF BalanceInv, BalancesType
<1>7. DOMAIN book \subseteq BookRows /\ holders \subseteq FeederKeys
  BY DEF BookInv, DirectoryInv
<1>8. ReadingInv'
  BY <1>2, <1>3, <1>4, <1>5, <1>6, <1>7 DEF ReadingInv, BookRows
<1> QED BY <1>3, <1>8 DEF AuditInv

LEMMA AuditStep ==
    ASSUME RegisterAssumption, DirectoryInv, BalanceInv, IssueInv, BookInv, AuditInv, [Next]_vars
    PROVE  AuditInv'
<1>1. BalancesType /\ BalancesType' /\ BalanceInv'
  BY BalanceStep DEF BalanceInv
<1>2. ASSUME audit' = audit, par'[Prepared] = par[Prepared] PROVE AuditInv'
  BY <1>2 DEF AuditInv, AuditShape, ReadingInv, RowWallets, ReadOnce, BookRows
<1>3. ASSUME NEW a \in Wallets, NEW b \in Wallets, a # b, Transfer(a, b) PROVE AuditInv'
  <2>1. TransferOf(a, b, par[Prepared], par'[Prepared])
    BY <1>1, <1>3, TransferMoves DEF TransferOf
  <2>2. OneUnit(par[Prepared], par'[Prepared])
    BY <2>1 DEF OneUnit
  <2> QED BY <1>1, <1>3, <2>2, AuditMoves DEF Transfer
<1>4. ASSUME NEW b \in Lending, Issue(b) PROVE AuditInv'
  <2>1. b \in Wallets
    BY Accounts1
  <2>2. IssueTo(b, par[Prepared], par'[Prepared])
    BY <1>1, <1>4, <2>1, IssueMoves DEF IssueTo
  <2>3. OneUnit(par[Prepared], par'[Prepared])
    BY <2>1, <2>2 DEF OneUnit
  <2> QED BY <1>1, <1>4, <2>3, AuditMoves DEF Issue
<1>5. ASSUME NEW a \in Lending, NEW b \in Lending, a # b, Transfer(a, b) PROVE AuditInv'
  BY <1>3, <1>5, Accounts1
<1>6. ASSUME FeederTransfers PROVE AuditInv'
  <2>1. Transfer(Source, feeder.account) /\ feeder.account \in FeederKeys
    BY <1>6 DEF FeederTransfers, DirectoryInv, NoRun
  <2>2. feeder.account \in Wallets /\ Source \in Wallets /\ Source # feeder.account
    BY <2>1, Accounts1 DEF RegisterAssumption
  <2> QED BY <1>3, <2>1, <2>2
<1>7. ASSUME NEW i \in Anchors, Distribute(i) PROVE AuditInv'
  <2>0. i.wallet \in Lending
    BY DEF Lending, WalletsOfDesks
  <2>1. i.wallet \in Wallets \ {Agent} /\ Agent \in Wallets
    BY <2>0, Accounts1 DEF RegisterAssumption, Apart
  <2>2. par'[Prepared] = par[Prepared] /\ audit' = audit
    BY <1>1, <1>7, <2>1, DistributeMoves DEF Distribute
  <2> QED BY <1>2, <2>2
<1>8. ASSUME IssueStep PROVE AuditInv'
  <2>1. par'[Prepared] = par[Prepared]
    BY <1>8, IssueStepSafe
  <2>2. audit' = audit
    BY <1>8 DEF IssueStep
  <2> QED BY <1>2, <2>1, <2>2
<1>9. ASSUME UNCHANGED par, Reconcile \/ ReadRow \/ ReadSupply \/ Report PROVE AuditInv'
  <2>1. ASSUME ReadSupply PROVE AuditInv'
    <3>1. audit' = [audit EXCEPT !.state = "done", !.supply = Supply(par[Prepared])]
          /\ AuditShape
      BY <2>1 DEF ReadSupply, AuditInv
    <3> DEFINE total == Supply(par[Prepared])
    <3> HIDE DEF total
    <3>2. audit' = [audit EXCEPT !.state = "done", !.supply = total]
      BY <3>1 DEF total
    <3>3. AuditShape' /\ audit'.state = "done"
      BY <3>1, <3>2 DEF AuditShape
    <3> QED BY <3>3 DEF AuditInv
  <2>2. ASSUME Report PROVE AuditInv'
    BY <2>2 DEF Report, AuditInv, AuditShape, NoAudit
  <2> QED BY <1>9, <2>1, <2>2, AuditBegins, AuditReads
<1>10. ASSUME UNCHANGED <<par, audit>> PROVE AuditInv'
  BY <1>2, <1>10
<1> QED BY <1>4, <1>5, <1>6, <1>7, <1>8, <1>9, <1>10, Movements

(* What the report found when it ended with nothing to report. *)
LEMMA Agreement ==
    ASSUME AuditInv, ReadSupply, FullAgreement', FewMoves'
    PROVE  /\ ReadingInv /\ audit.todo = {} /\ FewMoves
           /\ \A r \in DOMAIN audit.rows :
                 /\ r \in audit.known
                 /\ Held(audit.read, WalletsOf(r, audit.pool)) = audit.rows[r]
           /\ \A w \in audit.extra : audit.read[w] = 0
           /\ Supply(par[Prepared]) = BookTotal
<1> DEFINE total == Supply(par[Prepared])
<1>1. /\ ReadingInv /\ AuditShape /\ audit.todo = {}
      /\ audit' = [audit EXCEPT !.state = "done", !.supply = total]
  BY DEF AuditInv, ReadSupply
<1> HIDE DEF total
<1>2. /\ audit'.rows = audit.rows /\ audit'.known = audit.known /\ audit'.pool = audit.pool
      /\ audit'.extra = audit.extra /\ audit'.read = audit.read /\ audit'.from = audit.from
      /\ audit'.moved = audit.moved /\ audit'.supply = total
  BY <1>1 DEF AuditShape
<1>3. BookTotal' = BookTotal
  BY <1>2 DEF BookTotal
<1>4. ASSUME NEW r \in DOMAIN audit.rows
      PROVE  /\ r \in audit.known
             /\ Held(audit.read, WalletsOf(r, audit.pool)) = audit.rows[r]
  <2>1. StatusOf(r)' = "AGREES"
    BY <1>2 DEF FullAgreement
  <2>2. StatusOf(r)' = StatusOf(r)
    BY <1>2 DEF StatusOf
  <2> QED BY <2>1, <2>2 DEF StatusOf
<1>5. (\A w \in audit.extra : audit.read[w] = 0) /\ total = BookTotal
  BY <1>2, <1>3 DEF FullAgreement
<1>6. FewMoves
  BY <1>2 DEF FewMoves, Unread
<1> QED BY <1>1, <1>4, <1>5, <1>6 DEF total

(* The rows are the accounts that were read, apart from the eligible       *)
(* institutions, which hold nothing: what was read adds up to the book.    *)
LEMMA BookIsRead ==
    ASSUME RegisterAssumption, ReadingInv, audit.todo = {},
           \A w \in DOMAIN audit.read : audit.read[w] \in Int,
           \A r \in DOMAIN audit.rows :
              /\ r \in audit.known
              /\ Held(audit.read, WalletsOf(r, audit.pool)) = audit.rows[r],
           \A w \in audit.extra : audit.read[w] = 0
    PROVE  /\ DOMAIN audit.read \in SUBSET Wallets
           /\ \A r \in DOMAIN audit.rows : WalletsOf(r, audit.pool) \in SUBSET DOMAIN audit.read
           /\ Held(audit.read, DOMAIN audit.read) = BookTotal
<1> DEFINE S == DOMAIN audit.read
           f == audit.read
           L == DOMAIN audit.rows
           g == audit.rows
           W == [r \in L |-> WalletsOf(r, audit.pool)]
           U == UNION {W[r] : r \in L}
           extra == audit.extra
<1>1. /\ L \subseteq BookRows /\ audit.pool \subseteq FeederKeys /\ extra \subseteq Wallets \ RowWallets
      /\ S = RowWallets \cup extra
  BY DEF ReadingInv
<1>2. Pool \notin Wallets /\ FeederKeys \subseteq Wallets /\ IsFiniteSet(Wallets)
  BY DEF RegisterAssumption
<1>3. \A r \in L : W[r] \in SUBSET Wallets
  BY <1>1, <1>2 DEF WalletsOf, BookRows
<1>4. \A r, m \in L : r = m \/ W[r] \cap W[m] = {}
  BY <1>1, <1>2 DEF WalletsOf, BookRows
<1>5. RowWallets = U
  BY DEF RowWallets
<1>6. U \in SUBSET S /\ extra \in SUBSET S /\ U \cap extra = {} /\ U \cup extra = S
      /\ S \in SUBSET Wallets
  <2>1. U \subseteq Wallets
    BY <1>3
  <2> HIDE DEF U, S, extra
  <2> QED BY <1>1, <1>5, <2>1
<1>7. \A r \in L : W[r] \in SUBSET S
  BY <1>6
<1>8. IsFiniteSet(S) /\ IsFiniteSet(extra) /\ IsFiniteSet(L)
  <2>1. IsFiniteSet(BookRows)
    BY <1>2, FS_Subset, FS_Union, FS_Singleton DEF BookRows
  <2> QED BY <1>1, <1>2, <1>6, <2>1, FS_Subset
<1>9. (\A r \in L : g[r] = Held(f, W[r])) /\ (\A x \in S : f[x] \in Int)
      /\ (\A x \in extra : f[x] = 0)
  OBVIOUS
<1> HIDE DEF S, f, L, g, W, extra
<1>10. Held(g, L) = Held(f, U)
  BY <1>4, <1>7, <1>8, <1>9, SumOfGroups
<1> HIDE DEF U
<1>11. Held(f, extra) = 0
  BY <1>8, <1>9, SumOfZeros
<1>12. Held(f, U \cup extra) = Held(f, U) + Held(f, extra) /\ Held(f, U) \in Int
  BY <1>6, <1>8, <1>9, SumDisjoint, SumType
<1>13. Held(f, S) = Held(g, L)
  <2>1. Held(f, S) = Held(f, U \cup extra)
    BY <1>6
  <2>2. Held(f, S) = Held(f, U) + 0
    BY <1>11, <1>12, <2>1
  <2>3. Held(f, U) + 0 = Held(f, U)
    BY <1>12
  <2> QED BY <1>10, <2>2, <2>3
<1> QED BY <1>6, <1>7, <1>13 DEF BookTotal, S, f, L, g, W

(* A report in which every line agrees, over which at most one unit moved  *)
(* and that read every account with par, is true of the balances it began  *)
(* with or of those it ended with, never of a mixture.                     *)
LEMMA AgreementHolds ==
    ASSUME RegisterAssumption, BalanceInv, AuditInv, ReadSupply, FullAgreement', FewMoves'
    PROVE  Describes(audit.from) \/ Describes(par[Prepared])
<1> DEFINE R == DOMAIN audit.read
           r == audit.read
           f == audit.from
           g == par[Prepared]
<1>1. /\ ReadingInv /\ audit.todo = {} /\ FewMoves
      /\ \A row \in DOMAIN audit.rows :
            /\ row \in audit.known
            /\ Held(r, WalletsOf(row, audit.pool)) = audit.rows[row]
      /\ \A w \in audit.extra : r[w] = 0
      /\ Supply(g) = BookTotal
  BY Agreement
<1>2. f \in [Wallets -> Nat] /\ g \in [Wallets -> Nat] /\ IsFiniteSet(Wallets)
  BY <1>1, SecuritiesAre DEF ReadingInv, BalanceInv, BalancesType, RegisterAssumption
<1>3. \/ audit.moved = 0 /\ f = g
      \/ audit.moved = 1 /\ Held(f, Wallets \ R) = 0 /\ OneUnit(f, g)
  BY <1>1 DEF FewMoves, Unread, ReadingInv
<1>4. \A w \in R : r[w] = f[w] \/ r[w] = g[w]
  BY <1>1, <1>3 DEF ReadingInv, ReadOnce
<1>5. R \subseteq Wallets
  <2>1. RowWallets \subseteq Wallets
    BY <1>1 DEF RowWallets, WalletsOf, ReadingInv, BookRows, RegisterAssumption
  <2> QED BY <1>1, <2>1 DEF ReadingInv
<1>6. \A w \in R : r[w] \in Int
  BY <1>2, <1>4, <1>5
<1>7. /\ R \in SUBSET Wallets /\ Held(r, R) = BookTotal
      /\ \A row \in DOMAIN audit.rows : WalletsOf(row, audit.pool) \in SUBSET R
  BY <1>1, <1>6, BookIsRead
<1>8. ASSUME NEW h, \A w \in R : r[w] = h[w], Held(h, Wallets) = BookTotal
      PROVE  Describes(h)
  <2>1. ASSUME NEW row \in DOMAIN audit.rows
        PROVE  Held(h, WalletsOf(row, audit.pool)) = audit.rows[row]
    <3> DEFINE T == WalletsOf(row, audit.pool)
    <3>1. IsFiniteSet(T) /\ \A w \in T : r[w] = h[w]
      BY <1>2, <1>7, <1>8, FS_Subset
    <3>2. Held(r, T) = audit.rows[row]
      BY <1>1
    <3> HIDE DEF T, r
    <3>3. Held(r, T) = Held(h, T)
      BY <3>1, SumEqual
    <3> QED BY <3>2, <3>3 DEF T
  <2> QED BY <1>8, <2>1 DEF Describes
<1>9. ASSUME \A w \in R : r[w] = g[w] PROVE Describes(g)
  BY <1>1, <1>8, <1>9 DEF Supply
<1>10. ASSUME audit.moved = 1, \A w \in R : r[w] = f[w] PROVE Describes(f)
  <2>1. IsFiniteSet(R) /\ (\A w \in Wallets : f[w] \in Int) /\ Held(f, Wallets \ R) = 0
    BY <1>2, <1>3, <1>7, <1>10, FS_Subset
  <2> HIDE DEF R, r, f
  <2>2. Held(r, R) = Held(f, R)
    BY <1>10, <2>1, SumEqual
  <2>3. Held(f, R) = Held(f, Wallets)
    BY <1>2, <1>7, <2>1, SamePart
  <2> QED BY <1>7, <1>8, <1>10, <2>2, <2>3
<1>11. CASE audit.moved = 0 /\ f = g
  BY <1>4, <1>9, <1>11
<1>12. CASE audit.moved = 1 /\ Held(f, Wallets \ R) = 0 /\ OneUnit(f, g)
  <2>1. Held(r, R) = Held(g, Wallets)
    BY <1>1, <1>7 DEF Supply
  <2> HIDE DEF R, r, f, g
  <2>2. (\A w \in R : r[w] = f[w]) \/ (\A w \in R : r[w] = g[w])
    BY <1>2, <1>4, <1>7, <1>12, <2>1, NotTorn
  <2>3. Describes(f) \/ Describes(g)
    BY <1>9, <1>10, <1>12, <2>2
  <2> QED BY <2>3 DEF f, g
<1> QED BY <1>3, <1>11, <1>12

-----------------------------------------------------------------------------
(***************************************************************************)
(* The invariant of the register, and what follows from it.                *)
(***************************************************************************)

RegisterInv ==
    DirectoryInv /\ BalanceInv /\ IssueInv /\ RetailInv /\ BookInv /\ AuditInv

LEMMA Invariance == Spec => []RegisterInv
<1> USE RegisterAssumption
<1>1. Init => RegisterInv
  BY DirectoryInit, BalanceInit, RetailInit, BookInit DEF RegisterInv
<1>2. RegisterInv /\ [Next]_vars => RegisterInv'
  BY DirectoryStep, BalanceStep, IssueInvStep, RetailStep, BookStep, AuditStep
     DEF RegisterInv
<1> QED BY <1>1, <1>2, PTL DEF Spec

(* Wherever runs of the feeder script stop, no retail holder gets par      *)
(* twice, and one that is recorded has its unit and is eligible for it.    *)
(* The run's place is part of the invariant: an account under transfer is  *)
(* already eligible, and one that is about to be recorded holds one unit.  *)
THEOREM RetailSafety == Spec => []HeldOnce
<1>1. RegisterInv => HeldOnce
  BY DEF RegisterInv, RetailInv
<1> QED BY <1>1, Invariance, PTL

(* The security refuses none of the steps of an accepted issuance,         *)
(* verifyPrincipal finds the principal and the agent's remainder, and each *)
(* lender ends with what it was allocated.                                 *)
THEOREM IssuanceSafety == Spec => IssuedAsComposed
<1> USE RegisterAssumption
<1>1. ASSUME RegisterInv, [Next]_vars
      PROVE  /\ issue'.state \notin {"failed", "mismatch"}
             /\ Complete => \A i \in DOMAIN issue.rows :
                               par'[Issued][issue.rows[i].wallet] = issue.rows[i].par
  <2>1. IssueInv'
    BY <1>1, IssueInvStep DEF RegisterInv
  <2>2. issue'.state \notin {"failed", "mismatch"}
    BY <2>1 DEF IssueInv
  <2>3. ASSUME Complete
        PROVE  \A i \in DOMAIN issue.rows :
                  par'[Issued][issue.rows[i].wallet] = issue.rows[i].par
    BY <1>1, <2>3, CompleteSafe DEF RegisterInv
  <2> QED BY <2>2, <2>3
<1>2. RegisterInv /\ [Next]_vars =>
         [/\ issue'.state \notin {"failed", "mismatch"}
          /\ Complete => \A i \in DOMAIN issue.rows :
                            par'[Issued][issue.rows[i].wallet] = issue.rows[i].par]_vars
  BY <1>1
<1> QED BY <1>2, Invariance, PTL DEF Spec, IssuedAsComposed

(* The lines of the register, with the wallets of reset desks and the      *)
(* retail holders that are not recorded, add up to the supply.             *)
THEOREM AddsUpSafety == Spec => []RegisterAddsUp
<1> USE RegisterAssumption
<1>1. Shown \subseteq Securities
  BY DEF Shown, Securities
<1>2. RegisterInv => RegisterAddsUp
  BY <1>1, LinesAddUp DEF RegisterInv, RegisterAddsUp
<1> QED BY <1>2, Invariance, PTL

(* A reconciliation with nothing to report is true of the register as it   *)
(* was when the report began or when it ended, if at most one unit moved   *)
(* while it was read and it read every account that had par.               *)
THEOREM AgreementSafety == Spec => AgreementWasTrue
<1> USE RegisterAssumption
<1>1. RegisterInv =>
         [ReadSupply /\ FullAgreement' /\ FewMoves' =>
             Describes(audit.from) \/ Describes(par[Prepared])]_vars
  BY AgreementHolds DEF RegisterInv
<1> QED BY <1>1, Invariance, PTL DEF AgreementWasTrue
=============================================================================
