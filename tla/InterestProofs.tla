--------------------------- MODULE InterestProofs ---------------------------
(***************************************************************************)
(* The safety properties of Interest, for every value of the constants.    *)
(*                                                                         *)
(* Notices are only ever added, and the private endpoint serves the first  *)
(* one of a period: so of all the commitments of a period on the topic     *)
(* only the first notice's can ever be released, paid and recorded         *)
(* (SealInv, RecordInv).  Hence what the record has of a holder's period   *)
(* it has under the commitment being paid, where a payout looks for it;    *)
(* and the transfers that credited a holder, with the one it is still      *)
(* owed, are one in the record or under way and the forced and the         *)
(* interrupted ones (CountInv).                                            *)
(*                                                                         *)
(* For the receipt that is linked: each place of a list of paid holders    *)
(* falls in a batch whose transfer credited its holder (LinkInv), and so   *)
(* it does in lists that are joined, as their batches are (BackedJoined).  *)
(* No list names a holder twice (TypeInv).                                 *)
(***************************************************************************)
EXTENDS Interest, SequenceTheorems, FiniteSetTheorems, WellFoundedInduction, TLAPS

-----------------------------------------------------------------------------
(* Least numbers, induction, and sequences that are joined.                *)

Seals == [period : Nat, rate : Nat, salt : Nat]
Entries == [holder : Holders, units : Nat]
BatchRecords == [tx : Nat, holders : Nat]

LEMMA Least ==
    ASSUME NEW I \in SUBSET Nat, I # {}
    PROVE  \E m \in I : \A k \in I : ~(k < m)
<1>1. PICK m \in I : \A k \in I : <<k, m>> \notin OpToRel(<, Nat)
  BY WFMin, NatLessThanWellFounded, Zenon
<1>2. \A k \in Nat : k < m => <<k, m>> \in OpToRel(<, Nat)
  <2> SUFFICES ASSUME NEW k \in Nat, k < m PROVE <<k, m>> \in OpToRel(<, Nat)
    OBVIOUS
  <2>1. <<k, m>> \in Nat \X Nat /\ <<k, m>>[1] = k /\ <<k, m>>[2] = m
    OBVIOUS
  <2> QED BY <2>1, Zenon DEF OpToRel
<1> QED BY <1>1, <1>2, Zenon

LEMMA Induction ==
    ASSUME NEW S, 0 \in S, \A n \in Nat : n \in S => n + 1 \in S
    PROVE  \A n \in Nat : n \in S
<1> DEFINE I == Nat \ S
<1> SUFFICES ASSUME I # {} PROVE FALSE
  OBVIOUS
<1>1. PICK m \in I : \A k \in I : ~(k < m)
  <2> I \in SUBSET Nat
    OBVIOUS
  <2> HIDE DEF I
  <2> QED BY Least, Zenon
<1>2. m # 0 /\ m \in Nat
  OBVIOUS
<1>3. m - 1 \in Nat /\ m - 1 < m /\ (m - 1) + 1 = m
  BY <1>2
<1>4. m - 1 \in S
  BY <1>1, <1>3
<1> QED BY <1>3, <1>4

LEMMA Two ==
    ASSUME NEW S, NEW s \in Seq(S), NEW t \in Seq(S)
    PROVE  /\ s \o t \in Seq(S)
           /\ Len(s) \in Nat /\ Len(t) \in Nat /\ Len(s \o t) = Len(s) + Len(t)
           /\ \A i \in Nat : i \in 1..Len(s) => (s \o t)[i] = s[i]
           /\ \A i \in Nat : i \in Len(s) + 1..Len(s) + Len(t) => (s \o t)[i] = t[i - Len(s)]
OBVIOUS

(* f joins more and more of the sequences ss. *)
Joins(f, ss, S) ==
    /\ f \in [0..Len(ss) -> Seq(S)] /\ f[0] = <<>>
    /\ \A i \in 1..Len(ss) : f[i] = f[i - 1] \o ss[i]

Flattens(f, ss, n) == f = [i \in 1..n |-> IF i = 1 THEN ss[i] ELSE f[i - 1] \o ss[i]]
Flatten(ss) == CHOOSE flatten : Flattens(flatten, ss, Len(ss))

LEMMA FlattenIs == \A ss : FlattenSeq(ss) = IF Len(ss) = 0 THEN ss ELSE Flatten(ss)[Len(ss)]
BY DEF FlattenSeq, Flatten, Flattens

LEMMA FlattenExists ==
    ASSUME NEW S, NEW ss \in Seq(Seq(S))
    PROVE  Flattens(Flatten(ss), ss, Len(ss))
<1> DEFINE n == Len(ss)
           N == {m \in Nat : \E g : Flattens(g, ss, m)}
<1>1. n \in Nat
  BY LenProperties
<1>2. 0 \in N
  <2> DEFINE g == [i \in 1..0 |-> ss[i]]
  <2>1. g = [i \in 1..0 |-> IF i = 1 THEN ss[i] ELSE g[i - 1] \o ss[i]]
    OBVIOUS
  <2> HIDE DEF g
  <2> QED BY <2>1 DEF Flattens
<1>3. ASSUME NEW m \in Nat, m \in N PROVE m + 1 \in N
  <2>1. PICK g : Flattens(g, ss, m)
    BY <1>3
  <2> DEFINE h == [i \in 1..m + 1 |-> IF i \in 1..m THEN g[i]
                                     ELSE IF i = 1 THEN ss[i] ELSE g[i - 1] \o ss[i]]
  <2>2. ASSUME NEW i \in 1..m + 1
        PROVE  h[i] = IF i = 1 THEN ss[i] ELSE h[i - 1] \o ss[i]
    <3>1. CASE i \in 1..m
      <4>1. g[i] = IF i = 1 THEN ss[i] ELSE g[i - 1] \o ss[i]
        BY <2>1, <3>1 DEF Flattens
      <4>2. h[i] = g[i] /\ (i # 1 => h[i - 1] = g[i - 1])
        BY <3>1
      <4> HIDE DEF h
      <4> QED BY <4>1, <4>2
    <3>2. CASE i \notin 1..m
      <4>1. i # 1 => i - 1 \in 1..m
        BY <3>2
      <4>2. i # 1 => h[i - 1] = g[i - 1]
        BY <4>1
      <4> QED BY <3>2, <4>2
    <3> QED BY <3>1, <3>2
  <2>3. h = [i \in 1..m + 1 |-> h[i]]
    OBVIOUS
  <2> HIDE DEF h
  <2>4. Flattens(h, ss, m + 1)
    BY <2>2, <2>3, Zenon DEF Flattens
  <2> QED BY <2>4
<1> HIDE DEF N
<1>4. n \in N
  <2>1. \A m \in Nat : m \in N
    BY <1>2, <1>3, Induction
  <2> QED BY <1>1, <2>1
<1>5. \E g : Flattens(g, ss, n)
  BY <1>4 DEF N
<1> QED BY <1>5, Zenon DEF Flatten

LEMMA FlattenJoins ==
    ASSUME NEW S, NEW ss \in Seq(Seq(S))
    PROVE  \E f : Joins(f, ss, S) /\ FlattenSeq(ss) = f[Len(ss)]
<1> DEFINE n == Len(ss)
           F == Flatten(ss)
           f == [i \in 0..n |-> IF i = 0 THEN <<>> ELSE F[i]]
<1>1. n \in Nat /\ DOMAIN ss = 1..n /\ \A i \in 1..n : ss[i] \in Seq(S)
  BY LenProperties, ElementOfSeq
<1>2. F = [i \in 1..n |-> IF i = 1 THEN ss[i] ELSE F[i - 1] \o ss[i]]
  BY FlattenExists DEF Flattens
<1>3. <<>> \in Seq(S) /\ \A s \in Seq(S) : <<>> \o s = s
  BY EmptySeq, ConcatEmptySeq
<1> HIDE DEF F
<1>4. ASSUME NEW i \in 1..n PROVE F[i] = f[i - 1] \o ss[i] /\ f[i] = F[i]
  <2>1. F[i] = IF i = 1 THEN ss[i] ELSE F[i - 1] \o ss[i]
    BY <1>2
  <2>2. CASE i = 1
    BY <1>1, <1>3, <2>1, <2>2
  <2>3. CASE i # 1
    <3>1. i - 1 \in 0..n /\ i - 1 # 0
      BY <1>1, <2>3
    <3>2. f[i - 1] = F[i - 1]
      BY <3>1
    <3>3. f[i] = F[i]
      BY <1>1, <2>3
    <3> QED BY <2>1, <2>3, <3>2, <3>3
  <2> QED BY <2>2, <2>3
<1>5. \A m \in Nat : m \in 0..n => f[m] \in Seq(S)
  <2> DEFINE N == {m \in Nat : m \in 0..n => f[m] \in Seq(S)}
  <2>1. 0 \in N
    BY <1>3
  <2>2. ASSUME NEW m \in Nat, m \in N PROVE m + 1 \in N
    <3> SUFFICES ASSUME m + 1 \in 0..n PROVE f[m + 1] \in Seq(S)
      OBVIOUS
    <3>1. m + 1 \in 1..n /\ m \in 0..n /\ (m + 1) - 1 = m
      BY <1>1
    <3>2. f[m] \in Seq(S)
      BY <2>2, <3>1
    <3>3. f[m + 1] = f[m] \o ss[m + 1] /\ ss[m + 1] \in Seq(S)
      BY <1>1, <1>4, <3>1
    <3> HIDE DEF f
    <3>4. f[m] \o ss[m + 1] \in Seq(S)
      BY <3>2, <3>3, Two
    <3> QED BY <3>3, <3>4
  <2> HIDE DEF N
  <2>3. \A m \in Nat : m \in N
    BY <2>1, <2>2, Induction
  <2> QED BY <2>3 DEF N
<1>6. f[0] = <<>> /\ f = [i \in 0..n |-> f[i]]
  BY <1>1
<1>7. FlattenSeq(ss) = f[n]
  <2>1. CASE n = 0
    <3>1. ss = <<>>
      BY <2>1, EmptySeq
    <3> QED BY <1>6, <2>1, <3>1, FlattenIs
  <2>2. CASE n # 0
    <3>1. n \in 1..n
      BY <1>1, <2>2
    <3> QED BY <1>4, <2>2, <3>1, FlattenIs DEF F
  <2> QED BY <2>1, <2>2
<1> HIDE DEF f
<1>8. f \in [0..n -> Seq(S)]
  <2>1. \A i \in 0..n : f[i] \in Seq(S)
    BY <1>1, <1>5
  <2> QED BY <1>6, <2>1
<1>9. Joins(f, ss, S)
  BY <1>4, <1>6, <1>8 DEF Joins
<1> QED BY <1>7, <1>9

LEMMA FunctionIsSeq ==
    ASSUME NEW T, NEW n \in Nat, NEW f \in [1..n -> T]
    PROVE  f \in Seq(T) /\ Len(f) = n
OBVIOUS

Parts(seqs, K) == [k \in DOMAIN seqs |-> IF k \in K THEN seqs[k] ELSE <<>>]

LEMMA JoinedType ==
    ASSUME NEW S, NEW seqs \in Seq(Seq(S)), NEW K
    PROVE  /\ Parts(seqs, K) \in Seq(Seq(S)) /\ Len(Parts(seqs, K)) = Len(seqs)
           /\ \A k \in 1..Len(seqs) : Parts(seqs, K)[k] = IF k \in K THEN seqs[k] ELSE <<>>
           /\ Joined(seqs, K) = FlattenSeq(Parts(seqs, K)) /\ Joined(seqs, K) \in Seq(S)
<1> DEFINE ss == [k \in DOMAIN seqs |-> IF k \in K THEN seqs[k] ELSE <<>>]
<1>1. Len(seqs) \in Nat /\ DOMAIN seqs = 1..Len(seqs) /\ \A k \in 1..Len(seqs) : seqs[k] \in Seq(S)
  BY LenProperties, ElementOfSeq
<1>2. <<>> \in Seq(S)
  BY EmptySeq
<1>3. ss \in Seq(Seq(S)) /\ Len(ss) = Len(seqs)
  <2>1. \A k \in 1..Len(seqs) : ss[k] \in Seq(S)
    BY <1>1, <1>2
  <2>2. ss = [k \in 1..Len(seqs) |-> ss[k]]
    BY <1>1
  <2> HIDE DEF ss
  <2>3. ss \in [1..Len(seqs) -> Seq(S)]
    BY <2>1, <2>2
  <2> QED BY <1>1, <2>3, FunctionIsSeq
<1>4. Joined(seqs, K) = FlattenSeq(ss)
  BY DEF Joined
<1>6. ss = Parts(seqs, K) /\ \A k \in 1..Len(seqs) : ss[k] = IF k \in K THEN seqs[k] ELSE <<>>
  BY <1>1 DEF Parts
<1> HIDE DEF ss
<1>5. FlattenSeq(ss) \in Seq(S)
  <2>1. PICK f : Joins(f, ss, S) /\ FlattenSeq(ss) = f[Len(ss)]
    BY <1>3, FlattenJoins
  <2>2. Len(ss) \in 0..Len(ss)
    BY <1>1, <1>3
  <2> QED BY <2>1, <2>2 DEF Joins
<1> QED BY <1>3, <1>4, <1>5, <1>6

(* The places at which the batches b end. *)
Adds(e, b, n) == e = [k \in 0..n |-> IF k = 0 THEN 0 ELSE e[k - 1] + b[k].holders]
Ends(e, b) ==
    /\ e \in [0..Len(b) -> Nat] /\ e[0] = 0
    /\ \A k \in 1..Len(b) : e[k] = e[k - 1] + b[k].holders

LEMMA EndIs == \A b : End(b) = CHOOSE e : Adds(e, b, Len(b))
BY DEF End, Adds

LEMMA AddsExists == ASSUME NEW b PROVE \A n \in Nat : \E e : Adds(e, b, n)
<1> DEFINE N == {n \in Nat : \E e : Adds(e, b, n)}
<1>1. 0 \in N
  <2> DEFINE e == [k \in 0..0 |-> 0]
  <2>1. e = [k \in 0..0 |-> IF k = 0 THEN 0 ELSE e[k - 1] + b[k].holders]
    OBVIOUS
  <2> HIDE DEF e
  <2> QED BY <2>1 DEF Adds
<1>2. ASSUME NEW n \in Nat, n \in N PROVE n + 1 \in N
  <2>1. PICK e : Adds(e, b, n)
    BY <1>2
  <2> DEFINE h == [k \in 0..n + 1 |-> IF k \in 0..n THEN e[k] ELSE e[k - 1] + b[k].holders]
  <2>2. ASSUME NEW k \in 0..n + 1
        PROVE  h[k] = IF k = 0 THEN 0 ELSE h[k - 1] + b[k].holders
    <3>1. k # 0 => h[k - 1] = e[k - 1]
      OBVIOUS
    <3>2. CASE k \in 0..n
      <4>1. e[k] = IF k = 0 THEN 0 ELSE e[k - 1] + b[k].holders
        BY <2>1, <3>2 DEF Adds
      <4>2. h[k] = e[k]
        BY <3>2
      <4> HIDE DEF h
      <4> QED BY <3>1, <4>1, <4>2
    <3>3. CASE k \notin 0..n
      <4>1. h[k] = e[k - 1] + b[k].holders /\ k # 0
        BY <3>3
      <4> HIDE DEF h
      <4> QED BY <3>1, <4>1
    <3> QED BY <3>2, <3>3
  <2>3. h = [k \in 0..n + 1 |-> h[k]]
    OBVIOUS
  <2> HIDE DEF h
  <2>4. Adds(h, b, n + 1)
    BY <2>2, <2>3, Zenon DEF Adds
  <2> QED BY <2>4
<1> HIDE DEF N
<1>3. \A n \in Nat : n \in N
  BY <1>1, <1>2, Induction
<1> QED BY <1>3 DEF N

LEMMA EndEnds ==
    ASSUME NEW b \in Seq(BatchRecords)
    PROVE  Ends(End(b), b)
<1> DEFINE n == Len(b)
           e == End(b)
<1>1. n \in Nat /\ \A k \in 1..n : b[k].holders \in Nat
  <2>1. \A k \in 1..n : b[k] \in BatchRecords
    BY ElementOfSeq
  <2> QED BY <2>1, LenProperties DEF BatchRecords
<1>2. Adds(e, b, n)
  <2>1. \E x : Adds(x, b, n)
    BY <1>1, AddsExists
  <2> QED BY <2>1, EndIs, Zenon
<1> HIDE DEF e
<1>3. e[0] = 0 /\ \A k \in 1..n : e[k] = e[k - 1] + b[k].holders
  <2>1. \A k \in 0..n : e[k] = IF k = 0 THEN 0 ELSE e[k - 1] + b[k].holders
    BY <1>2 DEF Adds
  <2> QED BY <1>1, <2>1
<1>4. \A m \in Nat : m \in 0..n => e[m] \in Nat
  <2> DEFINE N == {m \in Nat : m \in 0..n => e[m] \in Nat}
  <2>1. 0 \in N
    BY <1>3
  <2>2. ASSUME NEW m \in Nat, m \in N PROVE m + 1 \in N
    <3> SUFFICES ASSUME m + 1 \in 0..n PROVE e[m + 1] \in Nat
      OBVIOUS
    <3>1. m + 1 \in 1..n /\ m \in 0..n /\ (m + 1) - 1 = m
      BY <1>1
    <3> QED BY <1>1, <1>3, <2>2, <3>1
  <2> HIDE DEF N
  <2>3. \A m \in Nat : m \in N
    BY <2>1, <2>2, Induction
  <2> QED BY <2>3 DEF N
<1>5. e = [k \in 0..n |-> e[k]]
  BY <1>2 DEF Adds
<1>6. e \in [0..n -> Nat]
  <2>1. \A k \in 0..n : e[k] \in Nat
    BY <1>1, <1>4
  <2> QED BY <1>5, <2>1
<1> QED BY <1>3, <1>6 DEF Ends, e

LEMMA EndUnique ==
    ASSUME NEW b \in Seq(BatchRecords), NEW e, Ends(e, b)
    PROVE  e = End(b)
<1> DEFINE n == Len(b)
           d == End(b)
           N == {m \in Nat : m \in 0..n => e[m] = d[m]}
<1>1. Ends(d, b) /\ n \in Nat
  BY EndEnds, LenProperties
<1> HIDE DEF d
<1>2. 0 \in N
  BY <1>1 DEF Ends
<1>3. ASSUME NEW m \in Nat, m \in N PROVE m + 1 \in N
  <2> SUFFICES ASSUME m + 1 \in 0..n PROVE e[m + 1] = d[m + 1]
    OBVIOUS
  <2>1. m + 1 \in 1..n /\ m \in 0..n /\ (m + 1) - 1 = m
    BY <1>1
  <2> QED BY <1>1, <1>3, <2>1 DEF Ends
<1> HIDE DEF N
<1>4. \A m \in Nat : m \in N
  BY <1>2, <1>3, Induction
<1>5. \A m \in 0..n : e[m] = d[m]
  BY <1>1, <1>4 DEF N
<1>6. e \in [0..n -> Nat] /\ d \in [0..n -> Nat]
  BY <1>1 DEF Ends
<1> QED BY <1>5, <1>6 DEF d

(* No batch ends after the last one. *)
LEMMA EndGrows ==
    ASSUME NEW b \in Seq(BatchRecords)
    PROVE  \A k \in 0..Len(b) : End(b)[k] <= End(b)[Len(b)]
<1> DEFINE n == Len(b)
           e == End(b)
           N == {m \in Nat : m \in 0..n => e[n - m] <= e[n]}
<1>1. Ends(e, b) /\ n \in Nat /\ \A k \in 1..n : b[k].holders \in Nat
  <2>1. \A k \in 1..n : b[k] \in BatchRecords
    BY ElementOfSeq
  <2> QED BY <2>1, EndEnds, LenProperties DEF BatchRecords
<1> HIDE DEF e
<1>2. \A k \in 0..n : e[k] \in Nat
  BY <1>1 DEF Ends
<1>3. 0 \in N
  BY <1>1, <1>2
<1>4. ASSUME NEW m \in Nat, m \in N PROVE m + 1 \in N
  <2> SUFFICES ASSUME m + 1 \in 0..n PROVE e[n - (m + 1)] <= e[n]
    OBVIOUS
  <2>1. n - m \in 1..n /\ m \in 0..n /\ (n - m) - 1 = n - (m + 1) /\ n - (m + 1) \in 0..n
        /\ n - m \in 0..n /\ n \in 0..n
    BY <1>1
  <2>2. e[n - m] = e[n - (m + 1)] + b[n - m].holders
    BY <1>1, <2>1 DEF Ends
  <2>3. b[n - m].holders \in Nat /\ e[n - (m + 1)] \in Nat /\ e[n - m] \in Nat /\ e[n] \in Nat
    BY <1>1, <1>2, <2>1
  <2>4. e[n - m] <= e[n]
    BY <1>4, <2>1
  <2> QED BY <2>2, <2>3, <2>4
<1> HIDE DEF N
<1>5. \A m \in Nat : m \in N
  BY <1>3, <1>4, Induction
<1> SUFFICES ASSUME NEW k \in 0..n PROVE e[k] <= e[n]
  BY DEF e
<1>6. n - k \in Nat /\ n - k \in 0..n /\ n - (n - k) = k
  BY <1>1
<1> QED BY <1>5, <1>6 DEF N

(* The batches c after the batches b. *)
LEMMA EndJoined ==
    ASSUME NEW b \in Seq(BatchRecords), NEW c \in Seq(BatchRecords)
    PROVE  /\ \A k \in 0..Len(b) : End(b \o c)[k] = End(b)[k]
           /\ \A k \in 0..Len(c) : End(b \o c)[Len(b) + k] = End(b)[Len(b)] + End(c)[k]
<1> DEFINE n == Len(b)
           m == Len(c)
           x == End(b)
           y == End(c)
           bc == b \o c
           e == [k \in 0..n + m |-> IF k <= n THEN x[k] ELSE x[n] + y[k - n]]
<1>1. /\ n \in Nat /\ m \in Nat /\ bc \in Seq(BatchRecords) /\ Len(bc) = n + m
      /\ \A i \in Nat : i \in 1..n => bc[i] = b[i]
      /\ \A i \in Nat : i \in n + 1..n + m => bc[i] = c[i - n]
  BY Two
<1>2. Ends(x, b) /\ Ends(y, c)
  BY EndEnds
<1> HIDE DEF x, y, n, m, bc
<1>3. (\A k \in 0..n : x[k] \in Nat) /\ (\A k \in 0..m : y[k] \in Nat)
  BY <1>2 DEF Ends, n, m
<1>4. ASSUME NEW k \in 0..n + m PROVE e[k] \in Nat
  <2>1. CASE k <= n
    BY <1>1, <1>3, <2>1
  <2>2. CASE ~(k <= n)
    <3>1. k - n \in 0..m /\ n \in 0..n
      BY <1>1, <2>2
    <3>2. x[n] \in Nat /\ y[k - n] \in Nat
      BY <1>3, <3>1
    <3> QED BY <2>2, <3>2
  <2> QED BY <2>1, <2>2
<1>5. ASSUME NEW k \in 1..n + m PROVE e[k] = e[k - 1] + bc[k].holders
  <2>1. k \in Nat /\ k - 1 \in 0..n + m /\ k \in 0..n + m
    BY <1>1
  <2>2. CASE k <= n
    <3>1. k \in 1..n /\ k - 1 <= n
      BY <1>1, <2>2
    <3>2. x[k] = x[k - 1] + b[k].holders /\ bc[k] = b[k]
      BY <1>1, <1>2, <2>1, <3>1 DEF Ends, n
    <3>3. e[k] = x[k] /\ e[k - 1] = x[k - 1]
      BY <2>1, <2>2, <3>1
    <3> HIDE DEF e
    <3> QED BY <3>2, <3>3
  <2>3. CASE k = n + 1
    <3>1. k - n \in 1..m /\ k - n = 1 /\ k - 1 = n /\ (k - n) - 1 = 0 /\ k \in n + 1..n + m
      BY <1>1, <2>3
    <3>2. y[1] = y[0] + c[1].holders /\ y[0] = 0 /\ bc[k] = c[1]
      BY <1>1, <1>2, <2>1, <3>1 DEF Ends, m
    <3>3. e[k] = x[n] + y[1] /\ e[k - 1] = x[n]
      <4>1. ~(k <= n) /\ k - 1 <= n
        BY <1>1, <2>3
      <4>2. e[k] = x[n] + y[k - n] /\ e[k - 1] = x[k - 1]
        BY <2>1, <4>1
      <4> QED BY <3>1, <4>2
    <3>4. y[1] \in Nat /\ y[1] = bc[k].holders
      <4>1. 1 \in 0..m
        BY <1>1, <3>1
      <4>2. y[1] \in Nat
        BY <1>3, <4>1
      <4>3. c[1] \in BatchRecords
        BY <3>1, ElementOfSeq DEF m
      <4> QED BY <3>2, <4>2, <4>3 DEF BatchRecords
    <3> HIDE DEF e
    <3> QED BY <3>3, <3>4
  <2>4. CASE k > n + 1
    <3>1. k - n \in 1..m /\ (k - n) - 1 = (k - 1) - n /\ k \in n + 1..n + m /\ k - n \in 0..m
          /\ (k - 1) - n \in 0..m /\ n \in 0..n
      BY <1>1, <2>4
    <3>2. y[k - n] = y[(k - 1) - n] + c[k - n].holders /\ bc[k] = c[k - n]
      BY <1>1, <1>2, <2>1, <3>1 DEF Ends, m
    <3>3. e[k] = x[n] + y[k - n] /\ e[k - 1] = x[n] + y[(k - 1) - n]
      BY <1>1, <2>1, <2>4
    <3>4. x[n] \in Nat /\ y[k - n] \in Nat /\ y[(k - 1) - n] \in Nat /\ c[k - n].holders \in Nat
      <4>1. c[k - n] \in BatchRecords
        BY <3>1, ElementOfSeq DEF m
      <4> QED BY <1>3, <3>1, <4>1 DEF BatchRecords
    <3> HIDE DEF e
    <3> QED BY <3>2, <3>3, <3>4
  <2> QED BY <1>1, <2>2, <2>3, <2>4
<1>6. Ends(e, bc)
  <2>1. e[0] = 0
    BY <1>1, <1>2 DEF Ends, n
  <2>2. e \in [0..n + m -> Nat]
    BY <1>4
  <2> HIDE DEF e
  <2> QED BY <1>1, <1>5, <2>1, <2>2 DEF Ends
<1>7. e = End(bc)
  BY <1>1, <1>6, EndUnique
<1>8. \A k \in 0..n : e[k] = x[k]
  BY <1>1
<1>9. ASSUME NEW k \in 0..m PROVE e[n + k] = x[n] + y[k]
  <2>1. n + k \in 0..n + m /\ (n + k) - n = k
    BY <1>1
  <2>2. CASE k = 0
    <3>1. y[k] = 0 /\ x[n] \in Nat /\ n \in 0..n
      BY <1>1, <1>2, <1>3, <2>2 DEF Ends
    <3> QED BY <1>1, <2>2, <3>1
  <2>3. CASE k # 0
    BY <1>1, <2>1, <2>3
  <2> QED BY <2>2, <2>3
<1> HIDE DEF e
<1> QED BY <1>7, <1>8, <1>9 DEF x, y, n, m, bc

-----------------------------------------------------------------------------
(* Lists of paid holders, batch by batch.                                  *)

Credits == [seal : Seals, paid : Seq(Entries)]
CreditedBy(ch, tx, seal, h) ==
    tx \in DOMAIN ch /\ ch[tx].seal = seal /\ h \in PaidHolders(ch[tx].paid)
Backed(ch, paid, n, batches, seal) ==
    /\ End(batches)[Len(batches)] = n
    /\ \A k \in 1..Len(batches) : \A i \in 1..Len(paid) :
           End(batches)[k - 1] < i /\ i <= End(batches)[k] =>
               CreditedBy(ch, batches[k].tx, seal, paid[i].holder)

LEMMA NothingBacked == \A ch, seal : Backed(ch, <<>>, Len(<<>>), <<>>, seal)
<1>1. <<>> \in Seq(BatchRecords) /\ Len(<<>>) = 0
  BY EmptySeq
<1>2. End(<<>>)[0] = 0
  BY <1>1, EndEnds DEF Ends
<1> QED BY <1>1, <1>2 DEF Backed

(* What was credited stays credited. *)
LEMMA BackedStays ==
    ASSUME NEW ch \in Seq(Credits), NEW c \in Credits
    PROVE  \A paid, n, batches, seal :
               Backed(ch, paid, n, batches, seal) => Backed(Append(ch, c), paid, n, batches, seal)
<1>1. /\ DOMAIN ch = 1..Len(ch) /\ DOMAIN Append(ch, c) = 1..Len(ch) + 1 /\ Len(ch) \in Nat
      /\ \A i \in 1..Len(ch) : Append(ch, c)[i] = ch[i]
  BY AppendProperties, LenProperties
<1> DEFINE d == Append(ch, c)
<1> HIDE DEF d
<1>2. \A tx, seal, h : CreditedBy(ch, tx, seal, h) => CreditedBy(d, tx, seal, h)
  <2> SUFFICES ASSUME NEW tx, NEW seal, NEW h, CreditedBy(ch, tx, seal, h)
               PROVE  CreditedBy(d, tx, seal, h)
    OBVIOUS
  <2>1. tx \in 1..Len(ch) /\ tx \in 1..Len(ch) + 1
    BY <1>1 DEF CreditedBy
  <2>2. d[tx] = ch[tx] /\ tx \in DOMAIN d
    BY <1>1, <2>1 DEF d
  <2> QED BY <2>2 DEF CreditedBy
<1> SUFFICES ASSUME NEW p, NEW n, NEW b, NEW seal, Backed(ch, p, n, b, seal)
             PROVE  Backed(d, p, n, b, seal)
  BY DEF d
<1>3. ASSUME NEW k \in 1..Len(b), NEW i \in 1..Len(p), End(b)[k - 1] < i, i <= End(b)[k]
      PROVE  CreditedBy(d, b[k].tx, seal, p[i].holder)
  <2>1. CreditedBy(ch, b[k].tx, seal, p[i].holder)
    BY <1>3 DEF Backed
  <2> QED BY <1>2, <2>1
<1> QED BY <1>3 DEF Backed

LEMMA BackedJoined ==
    ASSUME NEW ch, NEW seal, NEW p \in Seq(Entries), NEW q \in Seq(Entries),
           NEW b \in Seq(BatchRecords), NEW c \in Seq(BatchRecords), NEW n \in Nat,
           Backed(ch, p, Len(p), b, seal), Backed(ch, q, n, c, seal)
    PROVE  Backed(ch, p \o q, Len(p) + n, b \o c, seal)
<1> DEFINE L == Len(p)
           N == Len(b)
           M == Len(c)
           x == End(b)
           y == End(c)
           z == End(b \o c)
           pq == p \o q
           bc == b \o c
<1>1. /\ Len(bc) = N + M /\ N \in Nat /\ M \in Nat
      /\ \A i \in Nat : i \in 1..N => bc[i] = b[i]
      /\ \A i \in Nat : i \in N + 1..N + M => bc[i] = c[i - N]
  BY Two
<1>2. /\ Len(pq) = L + Len(q) /\ L \in Nat /\ Len(q) \in Nat
      /\ \A i \in Nat : i \in 1..L => pq[i] = p[i]
      /\ \A i \in Nat : i \in L + 1..L + Len(q) => pq[i] = q[i - L]
  BY Two
<1>3. x[N] = L /\ y[M] = n
  BY DEF Backed
<1>4. /\ \A k \in 0..N : z[k] = x[k] /\ x[k] \in Nat /\ x[k] <= L
      /\ \A k \in 0..M : z[N + k] = L + y[k] /\ y[k] \in Nat
  <2>1. /\ \A k \in 0..N : z[k] = x[k]
        /\ \A k \in 0..M : z[N + k] = x[N] + y[k]
    BY EndJoined
  <2>2. /\ \A k \in 0..N : x[k] \in Nat /\ x[k] <= x[N]
        /\ \A k \in 0..M : y[k] \in Nat
    BY EndEnds, EndGrows DEF Ends
  <2> HIDE DEF x, y, z, N, M, L
  <2> QED BY <1>3, <2>1, <2>2
<1> HIDE DEF x, y, z, N, M, L, pq, bc
<1>5. z[Len(bc)] = L + n
  <2>1. M \in 0..M
    BY <1>1
  <2> QED BY <1>1, <1>3, <1>4, <2>1
<1>6. ASSUME NEW k \in 1..Len(bc), NEW i \in 1..Len(pq), z[k - 1] < i, i <= z[k]
      PROVE  CreditedBy(ch, bc[k].tx, seal, pq[i].holder)
  <2>1. CASE k <= N
    <3>1. k \in 1..N /\ k - 1 \in 0..N /\ k \in 0..N /\ k \in Nat
      BY <1>1, <2>1
    <3>2. x[k - 1] < i /\ i <= x[k] /\ x[k] <= L
      BY <1>4, <1>6, <3>1
    <3>3. i \in 1..L /\ i \in Nat
      <4>1. x[k] \in Nat /\ i \in Nat /\ i >= 1
        BY <1>4, <3>1
      <4> QED BY <1>2, <3>2, <4>1
    <3>4. CreditedBy(ch, b[k].tx, seal, p[i].holder)
      BY <3>1, <3>2, <3>3 DEF Backed, x, N, L
    <3>5. bc[k] = b[k] /\ pq[i] = p[i]
      BY <1>1, <1>2, <3>1, <3>3
    <3> QED BY <3>4, <3>5
  <2>2. CASE k > N
    <3>1. /\ k \in Nat /\ k \in N + 1..N + M /\ k - N \in 1..M /\ k - N \in 0..M
          /\ (k - N) - 1 \in 0..M /\ N + (k - N) = k /\ N + ((k - N) - 1) = k - 1
      BY <1>1, <2>2
    <3>2. z[k] = L + y[k - N] /\ z[k - 1] = L + y[(k - N) - 1]
          /\ y[k - N] \in Nat /\ y[(k - N) - 1] \in Nat
      BY <1>4, <3>1
    <3>3. /\ i \in Nat /\ i \in L + 1..L + Len(q) /\ i - L \in 1..Len(q)
          /\ y[(k - N) - 1] < i - L /\ i - L <= y[k - N]
      <4> DEFINE u == y[(k - N) - 1]
                 v == y[k - N]
      <4> HIDE DEF u, v
      <4>1. u \in Nat /\ v \in Nat /\ L + u < i /\ i <= L + v
        BY <1>6, <3>2 DEF u, v
      <4>2. i \in Nat /\ i <= L + Len(q)
        BY <1>2
      <4>3. i \in L + 1..L + Len(q) /\ i - L \in 1..Len(q) /\ u < i - L /\ i - L <= v
        BY <1>2, <4>1, <4>2
      <4> QED BY <4>2, <4>3 DEF u, v
    <3>4. CreditedBy(ch, c[k - N].tx, seal, q[i - L].holder)
      BY <3>1, <3>3 DEF Backed, y, M
    <3>5. bc[k] = c[k - N] /\ pq[i] = q[i - L]
      BY <1>1, <1>2, <3>1, <3>3
    <3> QED BY <3>4, <3>5
  <2> QED BY <1>1, <2>1, <2>2
<1> QED BY <1>5, <1>6 DEF Backed, z, pq, bc, L

LEMMA BackedFlattened ==
    ASSUME NEW ch, NEW seal, NEW pp \in Seq(Seq(Entries)), NEW bb \in Seq(Seq(BatchRecords)),
           Len(bb) = Len(pp),
           \A k \in 1..Len(pp) : Backed(ch, pp[k], Len(pp[k]), bb[k], seal)
    PROVE  Backed(ch, FlattenSeq(pp), Len(FlattenSeq(pp)), FlattenSeq(bb), seal)
<1> DEFINE L == Len(pp)
<1>1. L \in Nat /\ \A k \in 1..L : pp[k] \in Seq(Entries) /\ bb[k] \in Seq(BatchRecords)
  BY LenProperties, ElementOfSeq
<1>2. PICK f : Joins(f, pp, Entries) /\ FlattenSeq(pp) = f[L]
  BY FlattenJoins
<1>3. PICK g : Joins(g, bb, BatchRecords) /\ FlattenSeq(bb) = g[L]
  BY FlattenJoins
<1> DEFINE N == {m \in Nat : m \in 0..L => Backed(ch, f[m], Len(f[m]), g[m], seal)}
<1>4. 0 \in N
  BY <1>2, <1>3, NothingBacked DEF Joins
<1>5. ASSUME NEW m \in Nat, m \in N PROVE m + 1 \in N
  <2> SUFFICES ASSUME m + 1 \in 0..L
               PROVE  Backed(ch, f[m + 1], Len(f[m + 1]), g[m + 1], seal)
    OBVIOUS
  <2>1. m \in 0..L /\ m + 1 \in 1..L /\ (m + 1) - 1 = m
    BY <1>1
  <2>2. /\ f[m] \in Seq(Entries) /\ f[m + 1] = f[m] \o pp[m + 1] /\ pp[m + 1] \in Seq(Entries)
        /\ g[m] \in Seq(BatchRecords) /\ g[m + 1] = g[m] \o bb[m + 1]
        /\ bb[m + 1] \in Seq(BatchRecords)
    BY <1>1, <1>2, <1>3, <2>1 DEF Joins
  <2>3. /\ Backed(ch, f[m], Len(f[m]), g[m], seal)
        /\ Backed(ch, pp[m + 1], Len(pp[m + 1]), bb[m + 1], seal)
    BY <1>5, <2>1
  <2>4. Len(pp[m + 1]) \in Nat /\ Len(f[m] \o pp[m + 1]) = Len(f[m]) + Len(pp[m + 1])
    BY <2>2, Two
  <2>5. Backed(ch, f[m] \o pp[m + 1], Len(f[m]) + Len(pp[m + 1]), g[m] \o bb[m + 1], seal)
    BY <2>2, <2>3, <2>4, BackedJoined
  <2> QED BY <2>2, <2>4, <2>5
<1> HIDE DEF N
<1>6. \A m \in Nat : m \in N
  BY <1>4, <1>5, Induction
<1>7. Backed(ch, f[L], Len(f[L]), g[L], seal)
  BY <1>1, <1>6 DEF N
<1> QED BY <1>2, <1>3, <1>7

(* One more batch. *)
LEMMA BackedMore ==
    ASSUME NEW ch \in Seq(Credits), NEW seal \in Seals, NEW p \in Seq(Entries),
           NEW b \in Seq(BatchRecords), NEW n \in Nat, NEW end \in Nat, n <= end, end <= Len(p),
           Backed(ch, p, n, b, seal)
    PROVE  LET slice == SubSeq(p, n + 1, end)
               ch2 == Append(ch, [seal |-> seal, paid |-> slice])
               b2 == Append(b, [tx |-> Len(ch2), holders |-> Len(slice)])
           IN  /\ slice \in Seq(Entries) /\ ch2 \in Seq(Credits) /\ b2 \in Seq(BatchRecords)
               /\ PaidHolders(slice) = {p[i].holder : i \in n + 1..end}
               /\ Backed(ch2, p, end, b2, seal)
<1> DEFINE slice == SubSeq(p, n + 1, end)
           c == [seal |-> seal, paid |-> slice]
           ch2 == Append(ch, c)
           e == [tx |-> Len(ch2), holders |-> Len(slice)]
           b2 == Append(b, e)
           N == Len(b)
           x == End(b)
           z == End(b2)
<1>1. /\ slice \in Seq(Entries) /\ Len(slice) = end - n
      /\ \A i \in 1..end - n : slice[i] = p[n + i]
  <2>1. \A i \in n + 1..end : p[i] \in Entries
    <3>1. n + 1..end \subseteq 1..Len(p)
      BY LenProperties
    <3> QED BY <3>1, ElementOfSeq
  <2>2. /\ slice \in Seq(Entries) /\ Len(slice) = IF n + 1 <= end THEN end - (n + 1) + 1 ELSE 0
        /\ \A i \in 1..end - (n + 1) + 1 : slice[i] = p[(n + 1) + i - 1]
    BY <2>1, SubSeqProperties
  <2>3. Len(slice) = end - n
    BY <2>2
  <2>4. \A i \in 1..end - n : (n + 1) + i - 1 = n + i /\ i \in 1..end - (n + 1) + 1
    OBVIOUS
  <2> HIDE DEF slice
  <2> QED BY <2>2, <2>3, <2>4
<1> HIDE DEF slice
<1>2. PaidHolders(slice) = {p[i].holder : i \in n + 1..end}
  <2>1. DOMAIN slice = 1..end - n
    BY <1>1, LenProperties
  <2>2. ASSUME NEW i \in n + 1..end PROVE i - n \in 1..end - n /\ slice[i - n] = p[i]
    BY <1>1
  <2>3. ASSUME NEW i \in 1..end - n PROVE n + i \in n + 1..end /\ slice[i] = p[n + i]
    BY <1>1
  <2>4. ASSUME NEW h \in PaidHolders(slice) PROVE h \in {p[i].holder : i \in n + 1..end}
    <3>1. PICK i \in 1..end - n : h = slice[i].holder
      BY <2>1 DEF PaidHolders
    <3> QED BY <2>3, <3>1
  <2>5. ASSUME NEW h \in {p[i].holder : i \in n + 1..end} PROVE h \in PaidHolders(slice)
    <3>1. PICK i \in n + 1..end : h = p[i].holder
      OBVIOUS
    <3>2. i - n \in DOMAIN slice /\ h = slice[i - n].holder
      BY <2>1, <2>2, <3>1
    <3> QED BY <3>2 DEF PaidHolders
  <2> QED BY <2>4, <2>5
<1>3. c \in Credits /\ c.seal = seal /\ c.paid = slice
  BY <1>1 DEF Credits
<1> HIDE DEF c
<1>4. /\ ch2 \in Seq(Credits) /\ DOMAIN ch2 = 1..Len(ch2) /\ Len(ch2) \in Nat /\ Len(ch2) # 0
      /\ ch2[Len(ch2)] = c
  <2>1. ch2 \in Seq(Credits) /\ Len(ch2) = Len(ch) + 1 /\ ch2[Len(ch) + 1] = c /\ Len(ch) \in Nat
    BY <1>3, AppendProperties, LenProperties
  <2>2. DOMAIN ch2 = 1..Len(ch2)
    BY <2>1, LenProperties
  <2> HIDE DEF ch2
  <2> QED BY <2>1, <2>2
<1>5. Backed(ch2, p, n, b, seal)
  BY <1>3, BackedStays
<1> HIDE DEF ch2
<1>6. e \in BatchRecords /\ e.tx = Len(ch2) /\ e.holders = end - n
  BY <1>1, <1>4 DEF BatchRecords
<1> HIDE DEF e
<1>7. b2 \in Seq(BatchRecords) /\ Len(b2) = N + 1 /\ N \in Nat /\ b2[N + 1] = e
      /\ \A k \in 1..N : b2[k] = b[k]
  BY <1>6, AppendProperties, LenProperties
<1>8. /\ \A k \in 0..N : z[k] = x[k] /\ x[k] \in Nat
      /\ z[N + 1] = end /\ x[N] = n
  <2>1. Ends(x, b) /\ Ends(z, b2) /\ x[N] = n
    BY <1>7, EndEnds DEF Backed
  <2> DEFINE y == [k \in 0..N |-> z[k]]
  <2> HIDE DEF x, z, N, b2
  <2>2. /\ Len(b) = N /\ Len(b2) = N + 1
        /\ x \in [0..N -> Nat] /\ x[0] = 0 /\ \A k \in 1..N : x[k] = x[k - 1] + b[k].holders
        /\ z \in [0..N + 1 -> Nat] /\ z[0] = 0
        /\ \A k \in 1..N + 1 : z[k] = z[k - 1] + b2[k].holders
    BY <1>7, <2>1 DEF Ends, N
  <2>3. Ends(y, b)
    <3>1. \A k \in 1..N : k \in 1..N + 1 /\ k - 1 \in 0..N /\ k \in 0..N /\ b2[k] = b[k]
      BY <1>7
    <3>2. \A k \in 1..N : y[k] = z[k] /\ y[k - 1] = z[k - 1] /\ z[k] = z[k - 1] + b[k].holders
      BY <2>2, <3>1
    <3>3. y \in [0..N -> Nat] /\ y[0] = 0
      BY <1>7, <2>2
    <3> HIDE DEF y
    <3> QED BY <2>2, <3>2, <3>3 DEF Ends
  <2>4. y = x
    BY <2>3, EndUnique DEF x
  <2>5. \A k \in 0..N : z[k] = x[k]
    BY <2>4
  <2>6. N \in 0..N /\ N + 1 \in 1..N + 1 /\ (N + 1) - 1 = N
    BY <1>7
  <2>7. z[N + 1] = z[N] + (end - n)
    BY <1>6, <1>7, <2>2, <2>6
  <2>8. z[N] = n /\ n + (end - n) = end
    BY <2>1, <2>5, <2>6
  <2>9. \A k \in 0..N : x[k] \in Nat
    BY <2>2
  <2>10. z[N + 1] = end
    BY <2>7, <2>8
  <2> QED BY <2>1, <2>5, <2>9, <2>10
<1> HIDE DEF x, z, b2, N
<1>9. ASSUME NEW k \in 1..N + 1, NEW i \in 1..Len(p), z[k - 1] < i, i <= z[k]
      PROVE  CreditedBy(ch2, b2[k].tx, seal, p[i].holder)
  <2>1. CASE k \in 1..N
    <3>1. k - 1 \in 0..N /\ k \in 0..N
      BY <1>7, <2>1
    <3>2. x[k - 1] < i /\ i <= x[k] /\ b2[k] = b[k]
      BY <1>7, <1>8, <1>9, <2>1, <3>1
    <3> QED BY <1>5, <2>1, <3>2 DEF Backed, x, N
  <2>2. CASE k = N + 1
    <3>1. k - 1 = N /\ N \in 0..N
      BY <1>7, <2>2
    <3>2. n < i /\ i <= end
      BY <1>8, <1>9, <2>2, <3>1
    <3>3. i \in n + 1..end
      BY <3>2
    <3>4. p[i].holder \in PaidHolders(ch2[Len(ch2)].paid) /\ ch2[Len(ch2)].seal = seal
      BY <1>2, <1>3, <1>4, <3>3
    <3>5. Len(ch2) \in DOMAIN ch2
      BY <1>4
    <3> QED BY <1>6, <1>7, <2>2, <3>4, <3>5 DEF CreditedBy
  <2> QED BY <1>7, <2>1, <2>2
<1>10. Backed(ch2, p, end, b2, seal)
  <2>1. Len(b2) = N + 1 /\ z[N + 1] = end
    BY <1>7, <1>8
  <2> QED BY <1>9, <2>1 DEF Backed, z
<1> QED BY <1>1, <1>2, <1>4, <1>7, <1>10 DEF slice, c, ch2, e, b2

-----------------------------------------------------------------------------
(* Types.  No list of wallets names one twice, hence no distribution and   *)
(* no list of those to be paid.                                            *)
OncePerHolder(s) == \A i, j \in DOMAIN s : s[i].holder = s[j].holder => i = j
Distributions == {s \in Seq(Entries) : OncePerHolder(s)}
Lists == {s \in Seq(Holders) : IsInjective(s)}
Messages == [seal : Seals, holders : Lists]
Payouts == [seal : Seals, paid : Seq(Entries), batches : Seq(BatchRecords)]
AgentStates == {AtRest} \cup [pc : {"publish", "save"}, period : Nat, rate : Nat, salt : Nat,
                              holders : Lists]
EnclaveStates == {AtRest} \cup [pc : {"notice"}, on : Messages]
                          \cup [pc : {"release"}, on : Messages, rate : Nat]
PayerStates == {AtRest} \cup [pc : {"pay", "file", "record"}, mode : {"plain", "catchUp", "force"},
                              seal : Seals, paid : Distributions, sent : Nat,
                              batches : Seq(BatchRecords)]
TypeInv ==
    /\ known \in Int /\ known <= Len(Wallets) /\ par \in [Holders -> Nat] /\ payable \subseteq Holders
    /\ topic \in Seq(Messages) /\ notices \in Seq(Seals) /\ agent \in [Agents -> AgentStates]
    /\ enclave \in EnclaveStates /\ payer \in PayerStates
    /\ released \in {NoRelease} \cup [seal : Seals, distribution : Distributions]
    /\ chain \in Seq(Credits) /\ payoutFile \in {NoPayout} \cup Payouts /\ record \in Seq(Payouts)
    /\ {salts, runs, forces, moves, faults} \subseteq Nat

(* What is taken of a list without doubles is in it, and has no doubles. *)
LEMMA TakenFrom ==
    ASSUME NEW s \in Distributions, NEW K \in SUBSET DOMAIN s
    PROVE  LET J == Joined([k \in DOMAIN s |-> <<s[k]>>], K)
           IN  J \in Distributions /\ \A i \in DOMAIN J : \E k \in K : J[i] = s[k]
<1> DEFINE L == Len(s)
           seqs == [k \in DOMAIN s |-> <<s[k]>>]
           ss == Parts(seqs, K)
           J == Joined(seqs, K)
<1>1. /\ s \in Seq(Entries) /\ L \in Nat /\ DOMAIN s = 1..L /\ \A k \in 1..L : s[k] \in Entries
      /\ \A i, j \in 1..L : s[i].holder = s[j].holder => i = j
  <2>1. s \in Seq(Entries) /\ OncePerHolder(s)
    BY DEF Distributions
  <2> QED BY <2>1, LenProperties, ElementOfSeq DEF OncePerHolder
<1>2. seqs \in Seq(Seq(Entries)) /\ Len(seqs) = L /\ DOMAIN seqs = 1..L
  <2>1. \A k \in 1..L : <<s[k]>> \in Seq(Entries)
    BY <1>1
  <2>2. seqs \in [1..L -> Seq(Entries)]
    BY <1>1, <2>1
  <2> HIDE DEF seqs
  <2> QED BY <1>1, <2>2, FunctionIsSeq
<1>3. \A k \in 1..L : seqs[k] = <<s[k]>>
  BY <1>1
<1>4. /\ ss \in Seq(Seq(Entries)) /\ Len(ss) = L /\ J = FlattenSeq(ss) /\ J \in Seq(Entries)
      /\ \A k \in 1..L : ss[k] = IF k \in K THEN <<s[k]>> ELSE <<>>
  <2> HIDE DEF seqs
  <2>1. /\ ss \in Seq(Seq(Entries)) /\ Len(ss) = Len(seqs) /\ J = FlattenSeq(ss)
        /\ J \in Seq(Entries)
        /\ \A k \in 1..Len(seqs) : ss[k] = IF k \in K THEN seqs[k] ELSE <<>>
    BY <1>2, JoinedType
  <2> HIDE DEF ss, J
  <2> QED BY <1>2, <1>3, <2>1
<1> HIDE DEF seqs, ss, J
<1>5. PICK f : Joins(f, ss, Entries) /\ J = f[L]
  BY <1>4, FlattenJoins
<1> DEFINE From(m) == \A i \in DOMAIN f[m] : \E k \in K : k <= m /\ f[m][i] = s[k]
           N == {m \in Nat : m \in 0..L => From(m) /\ OncePerHolder(f[m])}
<1>6. 0 \in N
  <2>1. f[0] = <<>>
    BY <1>5 DEF Joins
  <2>2. DOMAIN <<>> = {}
    OBVIOUS
  <2> QED BY <2>1, <2>2 DEF OncePerHolder
<1>7. ASSUME NEW m \in Nat, m \in N PROVE m + 1 \in N
  <2> SUFFICES ASSUME m + 1 \in 0..L PROVE From(m + 1) /\ OncePerHolder(f[m + 1])
    OBVIOUS
  <2> DEFINE a == f[m]
             t == ss[m + 1]
             at == f[m + 1]
             n == Len(a)
  <2>1. m \in 0..L /\ m + 1 \in 1..L /\ (m + 1) - 1 = m
    BY <1>1
  <2>2. a \in Seq(Entries) /\ at = a \o t /\ t \in Seq(Entries)
        /\ t = IF m + 1 \in K THEN <<s[m + 1]>> ELSE <<>>
    <3>1. ss[m + 1] \in Seq(Entries)
      BY <1>4, <2>1, ElementOfSeq
    <3> QED BY <1>4, <1>5, <2>1, <3>1 DEF Joins
  <2>3. From(m) /\ OncePerHolder(a)
    BY <1>7, <2>1
  <2>4. CASE m + 1 \notin K
    <3>1. at = a
      BY <2>2, <2>4, ConcatEmptySeq
    <3>2. \A k \in K : k <= m => k <= m + 1
      BY <1>1
    <3> QED BY <2>3, <3>1, <3>2
  <2>5. CASE m + 1 \in K
    <3>1. /\ n \in Nat /\ DOMAIN a = 1..n /\ DOMAIN at = 1..n + 1
          /\ (\A i \in 1..n : at[i] = a[i]) /\ at[n + 1] = s[m + 1]
      <4>1. at = Append(a, s[m + 1]) /\ s[m + 1] \in Entries
        <5>1. s[m + 1] \in Entries
          BY <1>1, <2>1
        <5> QED BY <2>2, <2>5, <5>1, AppendIsConcat
      <4> HIDE DEF a, at
      <4>2. /\ at \in Seq(Entries) /\ Len(at) = n + 1
            /\ (\A i \in 1..n : at[i] = a[i]) /\ at[n + 1] = s[m + 1]
        BY <2>2, <4>1, AppendProperties
      <4> QED BY <2>2, <4>2, LenProperties
    <3>2. \A i \in 1..n : \E k \in K : k <= m /\ a[i] = s[k]
      BY <2>3, <3>1
    <3>3. K \subseteq 1..L
      BY <1>1
    <3> HIDE DEF a, at, t, n
    <3>4. From(m + 1)
      <4> SUFFICES ASSUME NEW i \in 1..n + 1 PROVE \E k \in K : k <= m + 1 /\ at[i] = s[k]
        BY <3>1 DEF at
      <4>1. CASE i \in 1..n
        <5>1. PICK k \in K : k <= m /\ a[i] = s[k]
          BY <3>2, <4>1
        <5> QED BY <3>1, <3>3, <4>1, <5>1
      <4>2. CASE i = n + 1
        BY <2>5, <3>1, <4>2
      <4> QED BY <3>1, <4>1, <4>2
    <3>5. \A i \in 1..n : at[i].holder # at[n + 1].holder
      <4> SUFFICES ASSUME NEW i \in 1..n PROVE at[i].holder # at[n + 1].holder
        OBVIOUS
      <4>1. PICK k \in K : k <= m /\ a[i] = s[k]
        BY <3>2
      <4>2. k \in 1..L /\ k # m + 1
        BY <3>3, <4>1
      <4> QED BY <1>1, <2>1, <3>1, <4>1, <4>2
    <3>6. ASSUME NEW i \in 1..n + 1, NEW j \in 1..n + 1, at[i].holder = at[j].holder PROVE i = j
      <4>1. CASE i \in 1..n /\ j \in 1..n
        BY <2>3, <3>1, <3>6, <4>1 DEF OncePerHolder
      <4>2. CASE i = n + 1 \/ j = n + 1
        <5>1. i \notin 1..n => i = n + 1
          BY <3>1
        <5>2. j \notin 1..n => j = n + 1
          BY <3>1
        <5> QED BY <3>5, <3>6, <4>2, <5>1, <5>2
      <4> QED BY <3>1, <4>1, <4>2
    <3> QED BY <3>1, <3>4, <3>6 DEF OncePerHolder, at
  <2> QED BY <2>4, <2>5
<1> HIDE DEF N
<1>8. \A m \in Nat : m \in N
  BY <1>6, <1>7, Induction
<1>9. From(L) /\ OncePerHolder(f[L])
  BY <1>1, <1>8 DEF N
<1>10. J \in Distributions /\ \A i \in DOMAIN J : \E k \in K : J[i] = s[k]
  BY <1>4, <1>5, <1>9 DEF Distributions
<1> QED BY <1>10 DEF J, seqs

LEMMA UnpaidAre ==
    ASSUME NEW s \in Distributions, NEW already
    PROVE  /\ Unpaid(s, already) \in Distributions
           /\ \A i \in DOMAIN Unpaid(s, already) : Unpaid(s, already)[i].holder \notin already
<1> DEFINE K == {k \in DOMAIN s : s[k].holder \in payable \ already /\ s[k].units > 0}
           J == Joined([k \in DOMAIN s |-> <<s[k]>>], K)
<1>1. J \in Distributions /\ \A i \in DOMAIN J : \E k \in K : J[i] = s[k]
  <2> K \in SUBSET DOMAIN s
    OBVIOUS
  <2> HIDE DEF K
  <2> QED BY TakenFrom
<1>2. Unpaid(s, already) = J
  BY DEF Unpaid
<1> HIDE DEF J
<1>3. \A i \in DOMAIN J : J[i].holder \notin already
  BY <1>1
<1> QED BY <1>1, <1>2, <1>3

(* The greatest period so far exists. *)
LEMMA NextPeriodType == ASSUME notices \in Seq(Seals) PROVE NextPeriod \in Nat
<1> DEFINE L == Len(notices)
           S(n) == {notices[i].period : i \in 1..n} \cup {0}
           N == {n \in Nat : n \in 0..L => \E x \in S(n) : \A y \in S(n) : x >= y}
<1>1. L \in Nat /\ DOMAIN notices = 1..L /\ \A i \in 1..L : notices[i].period \in Nat
  <2>1. \A i \in 1..L : notices[i] \in Seals
    BY ElementOfSeq
  <2> QED BY <2>1, LenProperties DEF Seals
<1>2. 0 \in N
  OBVIOUS
<1>3. ASSUME NEW n \in Nat, n \in N PROVE n + 1 \in N
  <2> SUFFICES ASSUME n + 1 \in 0..L PROVE \E x \in S(n + 1) : \A y \in S(n + 1) : x >= y
    OBVIOUS
  <2>1. n \in 0..L /\ n + 1 \in 1..L
    BY <1>1
  <2>2. PICK x \in S(n) : \A y \in S(n) : x >= y
    BY <1>3, <2>1
  <2> DEFINE p == notices[n + 1].period
  <2>3. S(n + 1) = S(n) \cup {p}
    <3>1. 1..n + 1 = 1..n \cup {n + 1}
      OBVIOUS
    <3> QED BY <3>1
  <2>4. S(n) \subseteq Nat /\ p \in Nat
    BY <1>1, <2>1
  <2> HIDE DEF S, p
  <2>5. CASE x >= p
    BY <2>2, <2>3, <2>4, <2>5
  <2>6. CASE ~(x >= p)
    BY <2>2, <2>3, <2>4, <2>6
  <2> QED BY <2>5, <2>6
<1> HIDE DEF N
<1>4. \A n \in Nat : n \in N
  BY <1>2, <1>3, Induction
<1>5. \E x \in S(L) : \A y \in S(L) : x >= y
  <2>1. L \in N /\ L \in 0..L
    BY <1>1, <1>4
  <2> HIDE DEF S
  <2> QED BY <2>1 DEF N
<1>6. {n.period : n \in ToSet(notices)} \cup {0} = S(L)
  BY <1>1 DEF ToSet
<1>7. S(L) \subseteq Nat
  BY <1>1
<1> HIDE DEF S
<1>8. Max(S(L)) \in S(L)
  BY <1>5 DEF Max
<1>9. NextPeriod = Max(S(L)) + 1
  BY <1>6, Zenon DEF NextPeriod
<1> QED BY <1>7, <1>8, <1>9

LEMMA SnapshotIs == ASSUME TypeInv PROVE registerSnapshot \in Lists
<1>1. /\ Wallets \in Seq(Holders) /\ IsInjective(Wallets) /\ DOMAIN Wallets = 1..Len(Wallets)
      /\ Len(Wallets) \in Nat
  BY InterestAssumption, LenProperties
<1>2. known \in Int /\ known <= Len(Wallets)
  BY DEF TypeInv
<1>3. \A i \in 1..known : i \in 1..Len(Wallets) /\ Wallets[i] \in Holders
  BY <1>1, <1>2, ElementOfSeq
<1>4. /\ registerSnapshot \in Seq(Holders)
      /\ \A i \in 1..known - 1 + 1 : registerSnapshot[i] = Wallets[1 + i - 1]
      /\ Len(registerSnapshot) = IF 1 <= known THEN known - 1 + 1 ELSE 0
  BY <1>2, <1>3, SubSeqProperties DEF registerSnapshot
<1>5. DOMAIN registerSnapshot = 1..Len(registerSnapshot)
  BY <1>4, LenProperties
<1>6. \A i \in DOMAIN registerSnapshot :
        i \in DOMAIN Wallets /\ registerSnapshot[i] = Wallets[i]
  <2> SUFFICES ASSUME NEW i \in DOMAIN registerSnapshot
               PROVE  i \in DOMAIN Wallets /\ registerSnapshot[i] = Wallets[i]
    OBVIOUS
  <2>1. i \in 1..known /\ known - 1 + 1 = known /\ 1 + i - 1 = i
    BY <1>2, <1>4, <1>5
  <2> QED BY <1>1, <1>3, <1>4, <2>1
<1>7. IsInjective(registerSnapshot)
  BY <1>1, <1>6 DEF IsInjective
<1> QED BY <1>4, <1>7 DEF Lists

LEMMA AccrualType ==
    ASSUME NEW p \in Nat, NEW r \in Nat
    PROVE  accrual(p, r) \in Nat
<1>1. Days \in Nat /\ UNIT \in Nat /\ Basis \in Nat /\ Basis # 0
  BY InterestAssumption
<1>2. p * r \in Nat
  OBVIOUS
<1>3. p * r * Days \in Nat
  BY <1>1, <1>2
<1>4. p * r * Days * UNIT \in Nat
  BY <1>1, <1>3
<1>5. 10000 * Basis \in Nat /\ 10000 * Basis # 0
  BY <1>1
<1>6. \A a \in Nat, b \in Nat : b # 0 => a \div b \in Nat
  OBVIOUS
<1> QED BY <1>4, <1>5, <1>6 DEF accrual

LEMMA DistributionIs ==
    ASSUME TypeInv, NEW holders \in Lists, NEW rate \in Nat
    PROVE  Distribution(holders, rate) \in Distributions
<1> DEFINE D == Distribution(holders, rate)
<1>1. /\ holders \in Seq(Holders) /\ Len(holders) \in Nat /\ DOMAIN holders = 1..Len(holders)
      /\ \A k \in 1..Len(holders) : holders[k] \in Holders
      /\ \A i, j \in 1..Len(holders) : holders[i] = holders[j] => i = j
  <2>1. holders \in Seq(Holders) /\ IsInjective(holders)
    BY DEF Lists
  <2> QED BY <2>1, LenProperties, ElementOfSeq DEF IsInjective
<1>2. ASSUME NEW k \in 1..Len(holders) PROVE D[k] \in Entries /\ D[k].holder = holders[k]
  <2>1. D[k] = [holder |-> holders[k], units |-> accrual(par[holders[k]], rate)]
    BY <1>1 DEF Distribution
  <2>2. par[holders[k]] \in Nat
    BY <1>1 DEF TypeInv
  <2>3. accrual(par[holders[k]], rate) \in Nat /\ holders[k] \in Holders
    BY <1>1, <2>2, AccrualType
  <2> HIDE DEF D
  <2> QED BY <2>1, <2>3 DEF Entries
<1>3. D = [k \in 1..Len(holders) |-> D[k]]
  BY <1>1 DEF Distribution
<1> HIDE DEF D
<1>4. D \in [1..Len(holders) -> Entries]
  BY <1>2, <1>3
<1>5. D \in Seq(Entries)
  BY <1>1, <1>4, FunctionIsSeq
<1>6. OncePerHolder(D)
  <2>1. DOMAIN D = 1..Len(holders)
    BY <1>4
  <2> QED BY <1>1, <1>2, <2>1 DEF OncePerHolder
<1> QED BY <1>5, <1>6 DEF Distributions, D

LEMMA TypeInit == Init => TypeInv
<1> SUFFICES ASSUME Init PROVE TypeInv
  OBVIOUS
<1>1. Len(Wallets) \in Nat /\ InitialPar \in [Holders -> Nat] /\ Payable \subseteq Holders
  BY InterestAssumption, LenProperties
<1>2. known \in Int /\ known <= Len(Wallets) /\ par \in [Holders -> Nat] /\ payable \subseteq Holders
  BY <1>1 DEF Init
<1>3. \A S : <<>> \in Seq(S)
  BY EmptySeq
<1>4. /\ topic \in Seq(Messages) /\ notices \in Seq(Seals) /\ chain \in Seq(Credits)
      /\ record \in Seq(Payouts) /\ payoutFile \in {NoPayout} /\ released \in {NoRelease}
  BY <1>3, Zenon DEF Init
<1>5. agent \in [Agents -> AgentStates] /\ enclave \in EnclaveStates /\ payer \in PayerStates
  BY DEF Init, AgentStates, EnclaveStates, PayerStates
<1>6. {salts, runs, forces, moves, faults} \subseteq Nat
  BY DEF Init
<1> QED BY <1>2, <1>4, <1>5, <1>6 DEF TypeInv

LEMMA TypeCreates == ASSUME TypeInv, NEW a \in Agents, CreatesNotice(a) PROVE TypeInv'
<1>1. NextPeriod \in Nat /\ Rate[a] \in Nat /\ salts \in Nat /\ salts' = salts + 1
  BY NextPeriodType, InterestAssumption DEF TypeInv, CreatesNotice
<1> DEFINE s == [pc |-> "publish", period |-> NextPeriod, rate |-> Rate[a],
                 salt |-> salts', holders |-> registerSnapshot]
<1>2. s \in AgentStates
  BY <1>1, SnapshotIs DEF AgentStates
<1>3. agent' = [agent EXCEPT ![a] = s]
  BY DEF CreatesNotice
<1> HIDE DEF s
<1>4. agent' \in [Agents -> AgentStates]
  BY <1>2, <1>3 DEF TypeInv
<1> QED BY <1>1, <1>4 DEF TypeInv, CreatesNotice, register, evidence

LEMMA AgentAt ==
    ASSUME TypeInv, NEW a \in Agents, agent[a].pc # "idle"
    PROVE  /\ agent[a] \in [pc : {"publish", "save"}, period : Nat, rate : Nat, salt : Nat,
                            holders : Lists]
           /\ commitmentOf(agent[a]) \in Seals
<1>1. agent[a] \in [pc : {"publish", "save"}, period : Nat, rate : Nat, salt : Nat,
                    holders : Lists]
  BY DEF TypeInv, AgentStates, AtRest
<1> QED BY <1>1 DEF commitmentOf, Seals

LEMMA TypePublishes == ASSUME TypeInv, NEW a \in Agents, PublishesCommitment(a) PROVE TypeInv'
<1> DEFINE m == [seal |-> commitmentOf(agent[a]), holders |-> agent[a].holders]
<1>1. agent[a].pc = "publish" /\ topic' = Append(topic, m) /\ agent' = [agent EXCEPT ![a].pc = "save"]
  BY DEF PublishesCommitment
<1>2. m \in Messages
  BY <1>1, AgentAt DEF Messages
<1> HIDE DEF m
<1>3. topic' \in Seq(Messages)
  BY <1>1, <1>2, AppendProperties DEF TypeInv
<1>4. agent' \in [Agents -> AgentStates]
  <2>1. [agent[a] EXCEPT !.pc = "save"] \in AgentStates
    BY <1>1, AgentAt DEF AgentStates
  <2> QED BY <1>1, <2>1 DEF TypeInv
<1> QED BY <1>3, <1>4 DEF TypeInv, PublishesCommitment, register, evidence

LEMMA TypeSaves == ASSUME TypeInv, NEW a \in Agents, SavesNotice(a) PROVE TypeInv'
<1> DEFINE n == commitmentOf(agent[a])
<1>1. agent[a].pc = "save" /\ notices' = Append(notices, n) /\ agent' = [agent EXCEPT ![a] = AtRest]
  BY DEF SavesNotice
<1>2. n \in Seals
  BY <1>1, AgentAt
<1> HIDE DEF n
<1>3. notices' \in Seq(Seals)
  BY <1>1, <1>2, AppendProperties DEF TypeInv
<1>4. agent' \in [Agents -> AgentStates]
  BY <1>1 DEF TypeInv, AgentStates
<1> QED BY <1>3, <1>4 DEF TypeInv, SavesNotice, register, evidence

LEMMA EnclaveAt ==
    ASSUME TypeInv
    PROVE  /\ enclave.pc = "notice" => enclave \in [pc : {"notice"}, on : Messages]
           /\ enclave.pc = "release" => enclave \in [pc : {"release"}, on : Messages, rate : Nat]
BY DEF TypeInv, EnclaveStates, AtRest

LEMMA TypeEnclave == ASSUME TypeInv, Enclave PROVE TypeInv'
<1>1. CASE ReadsCommitment
  <2>1. PICK n \in Mirrored : enclave' = [pc |-> "notice", on |-> topic[n]]
    BY <1>1 DEF ReadsCommitment
  <2>2. topic[n] \in Messages
    <3>1. Len(topic) \in Nat /\ n \in 1..Len(topic)
      BY <2>1, LenProperties DEF Mirrored, TypeInv
    <3> QED BY <3>1, ElementOfSeq DEF TypeInv
  <2>3. enclave' \in EnclaveStates /\ runs' \in Nat
    BY <1>1, <2>1, <2>2 DEF EnclaveStates, ReadsCommitment, TypeInv
  <2> QED BY <1>1, <2>3 DEF TypeInv, ReadsCommitment, register, notes, evidence
<1>2. CASE FetchesNotice
  <2> DEFINE i == findNotice(enclave.on.seal.period)
             ok == i # 0 /\ Verified(notices[i], enclave.on.seal)
  <2>1. enclave' = IF ok THEN [pc |-> "release", on |-> enclave.on, rate |-> notices[i].rate]
                   ELSE AtRest
    BY <1>2 DEF FetchesNotice
  <2>2. enclave.on \in Messages /\ enclave.on.seal \in Seals
    BY <1>2, EnclaveAt DEF FetchesNotice, Messages
  <2>3. ASSUME ok PROVE notices[i].rate \in Nat
    <3>1. notices[i].rate = enclave.on.seal.rate
      <4> DEFINE n == notices[i]
      <4>1. commitmentOf(n) = enclave.on.seal
        BY <2>3 DEF Verified
      <4> HIDE DEF n
      <4>2. commitmentOf(n).rate = n.rate
        BY DEF commitmentOf
      <4> QED BY <4>1, <4>2 DEF n
    <3> QED BY <2>2, <3>1 DEF Seals
  <2> HIDE DEF ok
  <2>4. enclave' \in EnclaveStates
    BY <2>1, <2>2, <2>3 DEF EnclaveStates
  <2> QED BY <1>2, <2>4 DEF TypeInv, FetchesNotice, register, notes, evidence
<1>3. CASE Releases
  <2>1. enclave \in [pc : {"release"}, on : Messages, rate : Nat]
    BY <1>3, EnclaveAt DEF Releases
  <2>2. enclave.on.seal \in Seals /\ enclave.on.holders \in Lists /\ enclave.rate \in Nat
    BY <2>1 DEF Messages
  <2>3. Distribution(enclave.on.holders, enclave.rate) \in Distributions
    BY <2>2, DistributionIs
  <2>4. released' \in [seal : Seals, distribution : Distributions]
    BY <1>3, <2>2, <2>3 DEF Releases
  <2>5. enclave' \in EnclaveStates
    BY <1>3 DEF Releases, EnclaveStates
  <2> QED BY <1>3, <2>4, <2>5 DEF TypeInv, Releases, register, notes, evidence
<1> QED BY <1>1, <1>2, <1>3 DEF Enclave

LEMMA PayerAt ==
    ASSUME TypeInv, payer # AtRest
    PROVE  /\ payer \in [pc : {"pay", "file", "record"}, mode : {"plain", "catchUp", "force"},
                         seal : Seals, paid : Distributions, sent : Nat,
                         batches : Seq(BatchRecords)]
           /\ payer.seal \in Seals /\ payer.sent \in Nat /\ payer.batches \in Seq(BatchRecords)
           /\ payer.paid \in Distributions /\ payer.paid \in Seq(Entries) /\ OncePerHolder(payer.paid)
           /\ Len(payer.paid) \in Nat /\ DOMAIN payer.paid = 1..Len(payer.paid)
<1>1. payer \in [pc : {"pay", "file", "record"}, mode : {"plain", "catchUp", "force"},
                 seal : Seals, paid : Distributions, sent : Nat, batches : Seq(BatchRecords)]
  BY DEF TypeInv, PayerStates
<1>2. payer.paid \in Seq(Entries) /\ OncePerHolder(payer.paid)
  BY <1>1 DEF Distributions
<1> QED BY <1>1, <1>2, LenProperties

LEMMA AtRestIs == AtRest.pc = "idle"
BY DEF AtRest

LEMMA RecordAt ==
    ASSUME TypeInv, NEW k \in DOMAIN record
    PROVE  /\ record[k] \in Payouts /\ record[k].seal \in Seals /\ record[k].paid \in Seq(Entries)
           /\ record[k].batches \in Seq(BatchRecords)
<1>1. record \in Seq(Payouts) /\ k \in 1..Len(record)
  BY LenProperties DEF TypeInv
<1>2. record[k] \in Payouts
  BY <1>1, ElementOfSeq
<1> QED BY <1>2 DEF Payouts

(* The transfer's part of the list: what PaysBatch sends. *)
LEMMA BatchEnd ==
    ASSUME NEW n \in Nat, NEW l \in Nat, n <= l
    PROVE  LET end == Min({n + BATCH, l}) IN end \in Nat /\ n <= end /\ end <= l
<1> DEFINE S == {n + BATCH, l}
<1>1. n + BATCH \in Nat /\ n <= n + BATCH
  BY InterestAssumption
<1>2. \E x \in S : \A y \in S : x <= y
  <2>1. CASE n + BATCH <= l
    BY <1>1, <2>1
  <2>2. CASE ~(n + BATCH <= l)
    BY <1>1, <2>2
  <2> QED BY <2>1, <2>2
<1>3. Min(S) \in S /\ \A y \in S : Min(S) <= y
  <2> HIDE DEF S
  <2> QED BY <1>2 DEF Min
<1> QED BY <1>1, <1>3

(* A payout with the earlier ones it merges. *)
LEMMA MergedIs ==
    ASSUME TypeInv, payer # AtRest
    PROVE  /\ Merged \in Payouts /\ Merged.seal = payer.seal
           /\ PaidHolders(payer.paid) \subseteq PaidHolders(Merged.paid)
           /\ \A ch : /\ Backed(ch, payer.paid, Len(payer.paid), payer.batches, payer.seal)
                      /\ \A k \in DOMAIN record :
                            Backed(ch, record[k].paid, Len(record[k].paid), record[k].batches,
                                   record[k].seal)
                      => Backed(ch, Merged.paid, Len(Merged.paid), Merged.batches, payer.seal)
<1> DEFINE L == Len(record)
           pp == [k \in DOMAIN record |-> record[k].paid]
           bb == [k \in DOMAIN record |-> record[k].batches]
           P == Parts(pp, MergedPriors)
           B == Parts(bb, MergedPriors)
           p == Joined(pp, MergedPriors)
           b == Joined(bb, MergedPriors)
<1>1. L \in Nat /\ DOMAIN record = 1..L
  BY LenProperties DEF TypeInv
<1>2. /\ pp \in Seq(Seq(Entries)) /\ Len(pp) = L /\ \A k \in 1..L : pp[k] = record[k].paid
      /\ bb \in Seq(Seq(BatchRecords)) /\ Len(bb) = L /\ \A k \in 1..L : bb[k] = record[k].batches
  <2>1. \A k \in 1..L : pp[k] = record[k].paid /\ bb[k] = record[k].batches
    BY <1>1
  <2>2. pp = [k \in 1..L |-> record[k].paid] /\ bb = [k \in 1..L |-> record[k].batches]
    BY <1>1
  <2>3. \A k \in 1..L : record[k].paid \in Seq(Entries) /\ record[k].batches \in Seq(BatchRecords)
    BY <1>1, RecordAt
  <2> HIDE DEF pp, bb
  <2>4. pp \in [1..L -> Seq(Entries)] /\ bb \in [1..L -> Seq(BatchRecords)]
    BY <2>2, <2>3
  <2>5. pp \in Seq(Seq(Entries)) /\ Len(pp) = L
    BY <1>1, <2>4, FunctionIsSeq
  <2>6. bb \in Seq(Seq(BatchRecords)) /\ Len(bb) = L
    BY <1>1, <2>4, FunctionIsSeq
  <2> QED BY <2>1, <2>5, <2>6
<1> HIDE DEF pp, bb
<1>3. /\ P \in Seq(Seq(Entries)) /\ Len(P) = Len(pp) /\ p = FlattenSeq(P) /\ p \in Seq(Entries)
      /\ \A k \in 1..Len(pp) : P[k] = IF k \in MergedPriors THEN pp[k] ELSE <<>>
  BY <1>2, JoinedType
<1>4. /\ B \in Seq(Seq(BatchRecords)) /\ Len(B) = Len(bb) /\ b = FlattenSeq(B)
      /\ b \in Seq(BatchRecords)
      /\ \A k \in 1..Len(bb) : B[k] = IF k \in MergedPriors THEN bb[k] ELSE <<>>
  BY <1>2, JoinedType
<1> HIDE DEF P, B
<1>5. /\ Merged = [seal |-> payer.seal, paid |-> p \o payer.paid, batches |-> b \o payer.batches]
      /\ Merged.seal = payer.seal /\ Merged.paid = p \o payer.paid
      /\ Merged.batches = b \o payer.batches
  BY DEF Merged, pp, bb
<1> HIDE DEF p, b
<1>6. /\ payer.paid \in Seq(Entries) /\ payer.batches \in Seq(BatchRecords) /\ payer.seal \in Seals
      /\ Len(payer.paid) \in Nat /\ DOMAIN payer.paid = 1..Len(payer.paid)
  BY PayerAt
<1>7. /\ p \o payer.paid \in Seq(Entries) /\ b \o payer.batches \in Seq(BatchRecords)
      /\ Len(p) \in Nat /\ Len(p \o payer.paid) = Len(p) + Len(payer.paid)
      /\ \A i \in Nat : i \in Len(p) + 1..Len(p) + Len(payer.paid) =>
             (p \o payer.paid)[i] = payer.paid[i - Len(p)]
  BY <1>3, <1>4, <1>6, Two
<1>8. Merged \in Payouts
  BY <1>5, <1>6, <1>7 DEF Payouts
<1>9. PaidHolders(payer.paid) \subseteq PaidHolders(Merged.paid)
  <2> SUFFICES ASSUME NEW k \in 1..Len(payer.paid)
               PROVE  payer.paid[k].holder \in PaidHolders(Merged.paid)
    BY <1>6 DEF PaidHolders
  <2> DEFINE q == p \o payer.paid
             i == Len(p) + k
  <2>1. i \in Nat /\ i \in Len(p) + 1..Len(p) + Len(payer.paid) /\ i - Len(p) = k
        /\ i \in 1..Len(q)
    BY <1>6, <1>7
  <2>2. q[i] = payer.paid[k]
    BY <1>7, <2>1
  <2>3. i \in DOMAIN q
    BY <1>7, <2>1, LenProperties
  <2> HIDE DEF q, i
  <2>4. payer.paid[k].holder \in PaidHolders(q)
    BY <2>2, <2>3 DEF PaidHolders
  <2> QED BY <1>5, <2>4 DEF q
<1>10. ASSUME NEW ch, Backed(ch, payer.paid, Len(payer.paid), payer.batches, payer.seal),
              \A k \in DOMAIN record :
                  Backed(ch, record[k].paid, Len(record[k].paid), record[k].batches, record[k].seal)
       PROVE  Backed(ch, Merged.paid, Len(Merged.paid), Merged.batches, payer.seal)
  <2>1. ASSUME NEW k \in 1..Len(P) PROVE Backed(ch, P[k], Len(P[k]), B[k], payer.seal)
    <3>1. k \in 1..L /\ k \in DOMAIN record
      BY <1>1, <1>2, <1>3
    <3>2. CASE k \in MergedPriors
      <4>1. record[k].seal = payer.seal
        BY <3>2 DEF MergedPriors, Priors
      <4>2. P[k] = record[k].paid /\ B[k] = record[k].batches
        BY <1>2, <1>3, <1>4, <3>1, <3>2
      <4> QED BY <1>10, <3>1, <4>1, <4>2
    <3>3. CASE k \notin MergedPriors
      <4>1. P[k] = <<>> /\ B[k] = <<>>
        BY <1>2, <1>3, <1>4, <3>1, <3>3
      <4> QED BY <4>1, NothingBacked
    <3> QED BY <3>2, <3>3
  <2>2. Backed(ch, p, Len(p), b, payer.seal)
    <3>1. Len(B) = Len(P)
      BY <1>2, <1>3, <1>4
    <3>2. Backed(ch, FlattenSeq(P), Len(FlattenSeq(P)), FlattenSeq(B), payer.seal)
      BY <1>3, <1>4, <2>1, <3>1, BackedFlattened
    <3> QED BY <1>3, <1>4, <3>2
  <2>3. Backed(ch, p \o payer.paid, Len(p) + Len(payer.paid), b \o payer.batches, payer.seal)
    BY <1>3, <1>4, <1>6, <1>10, <2>2, BackedJoined
  <2> QED BY <1>5, <1>7, <2>3
<1> QED BY <1>5, <1>8, <1>9, <1>10

LEMMA TypeStarts ==
    ASSUME TypeInv, NEW mode \in {"plain", "catchUp", "force"}, StartsPayout(mode) PROVE TypeInv'
<1> DEFINE already == IF mode = "catchUp" THEN alreadyPaid(released.seal) ELSE {}
           todo == Unpaid(released.distribution, already)
<1>1. released.seal \in Seals /\ released.distribution \in Distributions
  BY DEF TypeInv, StartsPayout
<1>2. payer' = [pc |-> "pay", mode |-> mode, seal |-> released.seal, paid |-> todo,
                sent |-> 0, batches |-> <<>>]
  BY DEF StartsPayout
<1>3. todo \in Distributions
  BY <1>1, UnpaidAre
<1>4. <<>> \in Seq(BatchRecords)
  BY EmptySeq
<1> HIDE DEF todo
<1>5. payer' \in PayerStates
  BY <1>1, <1>2, <1>3, <1>4 DEF PayerStates
<1>6. forces' \in Nat
  BY DEF StartsPayout, TypeInv
<1> QED BY <1>5, <1>6 DEF TypeInv, StartsPayout, register, notes, evidence

LinkInv ==
    /\ payer # AtRest =>
         /\ payer.sent <= Len(payer.paid) /\ (payer.pc # "pay" => payer.sent = Len(payer.paid))
         /\ Backed(chain, payer.paid, payer.sent, payer.batches, payer.seal)
    /\ Backed(chain, payoutFile.paid, Len(payoutFile.paid), payoutFile.batches, payoutFile.seal)
    /\ \A k \in DOMAIN record : Backed(chain, record[k].paid, Len(record[k].paid),
                                       record[k].batches, record[k].seal)

(* A transfer: what is sent, and what the payout knows of it. *)
LEMMA PaysIs ==
    ASSUME TypeInv, LinkInv, PaysBatch
    PROVE  /\ payer # AtRest /\ payer' # AtRest
           /\ payer'.seal = payer.seal /\ payer'.paid = payer.paid /\ payer'.mode = payer.mode
           /\ payer' \in PayerStates
           /\ payer'.sent \in Nat /\ payer.sent <= payer'.sent /\ payer'.sent <= Len(payer.paid)
           /\ payer'.pc # "pay" => payer'.sent = Len(payer.paid)
           /\ \E c \in Credits :
                /\ chain' = Append(chain, c) /\ chain' \in Seq(Credits) /\ c.seal = payer.seal
                /\ PaidHolders(c.paid) = {payer.paid[i].holder : i \in payer.sent + 1..payer'.sent}
           /\ Backed(chain', payer.paid, payer'.sent, payer'.batches, payer.seal)
<1> DEFINE p == payer.paid
           n == payer.sent
           end == Min({payer.sent + BATCH, Len(payer.paid)})
           slice == SubSeq(p, n + 1, end)
           c == [seal |-> payer.seal, paid |-> slice]
           b2 == Append(payer.batches, [tx |-> Len(chain'), holders |-> Len(slice)])
<1>1. payer # AtRest
  BY AtRestIs DEF PaysBatch
<1>2. /\ payer.seal \in Seals /\ n \in Nat /\ payer.batches \in Seq(BatchRecords)
      /\ p \in Seq(Entries) /\ Len(p) \in Nat
      /\ payer \in [pc : {"pay", "file", "record"}, mode : {"plain", "catchUp", "force"},
                    seal : Seals, paid : Distributions, sent : Nat, batches : Seq(BatchRecords)]
  BY <1>1, PayerAt
<1>3. n <= Len(p) /\ Backed(chain, p, n, payer.batches, payer.seal)
  BY <1>1 DEF LinkInv
<1>4. end \in Nat /\ n <= end /\ end <= Len(p)
  BY <1>2, <1>3, BatchEnd
<1>5. /\ chain' = Append(chain, c)
      /\ payer' = [payer EXCEPT !.pc = IF end = Len(p) THEN "file" ELSE "pay", !.sent = end,
                                !.batches = b2]
  BY DEF PaysBatch
<1> HIDE DEF end
<1>6. /\ slice \in Seq(Entries) /\ chain' \in Seq(Credits) /\ b2 \in Seq(BatchRecords)
      /\ PaidHolders(slice) = {p[i].holder : i \in n + 1..end}
      /\ Backed(chain', p, end, b2, payer.seal)
  <2>1. chain \in Seq(Credits)
    BY DEF TypeInv
  <2> DEFINE ch2 == Append(chain, c)
             b == Append(payer.batches, [tx |-> Len(ch2), holders |-> Len(slice)])
  <2>2. /\ slice \in Seq(Entries) /\ ch2 \in Seq(Credits) /\ b \in Seq(BatchRecords)
        /\ PaidHolders(slice) = {p[i].holder : i \in n + 1..end}
        /\ Backed(ch2, p, end, b, payer.seal)
    BY <1>2, <1>3, <1>4, <2>1, BackedMore
  <2> HIDE DEF c, slice
  <2> QED BY <1>5, <2>2
<1> HIDE DEF slice, b2
<1>7. c \in Credits /\ c.seal = payer.seal /\ c.paid = slice
  BY <1>2, <1>6 DEF Credits
<1> HIDE DEF c
<1>8. /\ payer' \in [pc : {"pay", "file", "record"}, mode : {"plain", "catchUp", "force"},
                     seal : Seals, paid : Distributions, sent : Nat, batches : Seq(BatchRecords)]
      /\ payer'.sent = end /\ payer'.batches = b2 /\ payer'.seal = payer.seal /\ payer'.paid = p
      /\ payer'.mode = payer.mode /\ payer'.pc = IF end = Len(p) THEN "file" ELSE "pay"
  BY <1>2, <1>4, <1>5, <1>6
<1>9. payer' \in PayerStates /\ payer' # AtRest
  <2>1. payer'.pc # "idle"
    BY <1>8
  <2> QED BY <1>8, <2>1, AtRestIs DEF PayerStates
<1> QED BY <1>1, <1>4, <1>5, <1>6, <1>7, <1>8, <1>9

LEMMA TypePays == ASSUME TypeInv, LinkInv, PaysBatch PROVE TypeInv'
<1>1. payer' \in PayerStates /\ chain' \in Seq(Credits)
  BY PaysIs
<1> QED BY <1>1 DEF TypeInv, PaysBatch, register, notes, evidence

LEMMA WritesFileIs ==
    ASSUME TypeInv, WritesFile
    PROVE  /\ payer # AtRest /\ payer' # AtRest /\ payer' \in PayerStates /\ payer'.pc = "record"
           /\ payer'.seal = payer.seal /\ payer'.paid = payer.paid /\ payer'.sent = payer.sent
           /\ payer'.batches = payer.batches
<1>1. payer # AtRest /\ payer' = [payer EXCEPT !.pc = "record"]
  BY AtRestIs DEF WritesFile
<1>2. payer \in [pc : {"pay", "file", "record"}, mode : {"plain", "catchUp", "force"},
                 seal : Seals, paid : Distributions, sent : Nat, batches : Seq(BatchRecords)]
  BY <1>1, PayerAt
<1>3. /\ payer' \in [pc : {"pay", "file", "record"}, mode : {"plain", "catchUp", "force"},
                     seal : Seals, paid : Distributions, sent : Nat, batches : Seq(BatchRecords)]
      /\ payer'.pc = "record" /\ payer'.seal = payer.seal /\ payer'.paid = payer.paid
      /\ payer'.sent = payer.sent /\ payer'.batches = payer.batches
  BY <1>1, <1>2
<1> QED BY <1>1, <1>3, AtRestIs DEF PayerStates

LEMMA TypeWrites == ASSUME TypeInv, WritesFile \/ WritesRecord PROVE TypeInv'
<1>1. CASE WritesFile
  <2>1. payer' \in PayerStates /\ payoutFile' \in Payouts
    BY <1>1, WritesFileIs, MergedIs DEF WritesFile
  <2> QED BY <1>1, <2>1 DEF TypeInv, WritesFile, register, notes
<1>2. CASE WritesRecord
  <2>1. payer # AtRest
    BY <1>2, AtRestIs DEF WritesRecord
  <2>2. record' \in Seq(Payouts)
    <3>1. record \in Seq(Payouts) /\ Merged \in Payouts /\ record' = Append(record, Merged)
      BY <1>2, <2>1, MergedIs DEF WritesRecord, TypeInv
    <3> QED BY <3>1, AppendProperties
  <2>3. payer' \in PayerStates
    BY <1>2 DEF WritesRecord, PayerStates
  <2> QED BY <1>2, <2>2, <2>3 DEF TypeInv, WritesRecord, register, notes
<1> QED BY <1>1, <1>2

(* What happens around the payout. *)
LEMMA TypeMoves ==
    ASSUME TypeInv, \/ \E from, to \in Holders : Settles(from, to)
                    \/ JoinsDirectory \/ \E h \in Holders : BecomesPayable(h)
    PROVE  TypeInv'
<1>1. CASE \E from, to \in Holders : Settles(from, to)
  <2>1. PICK from \in Holders, to \in Holders : Settles(from, to)
    BY <1>1
  <2>2. par' = [par EXCEPT ![from] = 0, ![to] = @ + par[from]] /\ moves' = moves + 1 /\ from # to
    BY <2>1 DEF Settles
  <2>3. par' \in [Holders -> Nat] /\ moves' \in Nat
    <3>1. par \in [Holders -> Nat] /\ moves \in Nat
      BY DEF TypeInv
    <3>2. par[to] \in Nat /\ par[from] \in Nat
      BY <3>1
    <3>3. par[to] + par[from] \in Nat /\ moves + 1 \in Nat
      BY <3>1, <3>2
    <3> QED BY <2>2, <3>1, <3>3
  <2>4. UNCHANGED <<known, payable, notes, enclave, released, payer, chain, evidence, runs, forces, faults>>
    BY <2>1 DEF Settles
  <2> QED BY <2>3, <2>4 DEF TypeInv, notes, evidence
<1>2. CASE JoinsDirectory
  <2>1. known' = known + 1 /\ known < Len(Wallets) /\ Len(Wallets) \in Nat
    BY <1>2, InterestAssumption, LenProperties DEF JoinsDirectory
  <2>2. known' \in Int /\ known' <= Len(Wallets)
    BY <2>1 DEF TypeInv
  <2> QED BY <1>2, <2>2 DEF TypeInv, JoinsDirectory, notes, evidence
<1>3. CASE \E h \in Holders : BecomesPayable(h)
  <2>1. PICK h \in Holders : BecomesPayable(h)
    BY <1>3
  <2> QED BY <2>1 DEF TypeInv, BecomesPayable, notes, evidence
<1> QED BY <1>1, <1>2, <1>3

LEMMA StopsIs ==
    ASSUME Stops
    PROVE  /\ UNCHANGED <<register, topic, notices, salts, released, chain, evidence, runs, forces,
                          moves>>
           /\ faults' = faults + 1
           /\ enclave' = enclave \/ enclave' = AtRest
           /\ payer' = payer \/ payer' = AtRest
           /\ agent' = agent \/ \E a \in Agents : agent' = [agent EXCEPT ![a] = AtRest]
BY DEF Stops

LEMMA TypeStops == ASSUME TypeInv, Stops PROVE TypeInv'
<1>1. /\ enclave' \in EnclaveStates /\ payer' \in PayerStates /\ faults' \in Nat
      /\ agent' \in [Agents -> AgentStates]
  <2>1. AtRest \in EnclaveStates /\ AtRest \in PayerStates /\ AtRest \in AgentStates
    BY DEF EnclaveStates, PayerStates, AgentStates
  <2>2. enclave \in EnclaveStates /\ payer \in PayerStates /\ faults \in Nat
        /\ agent \in [Agents -> AgentStates]
    BY DEF TypeInv
  <2> HIDE DEF AtRest
  <2>3. faults' \in Nat
    BY <2>2, StopsIs
  <2>4. enclave' \in EnclaveStates /\ payer' \in PayerStates
    BY <2>1, <2>2, StopsIs, Zenon
  <2>5. agent' \in [Agents -> AgentStates]
    <3>1. \A a \in Agents : [agent EXCEPT ![a] = AtRest] \in [Agents -> AgentStates]
      BY <2>1, <2>2
    <3> QED BY <2>2, <3>1, StopsIs, Zenon
  <2> QED BY <2>3, <2>4, <2>5
<1> QED BY <1>1, StopsIs DEF TypeInv, register, evidence

LEMMA TypeNext == TypeInv /\ LinkInv /\ [Next]_vars => TypeInv'
<1> SUFFICES ASSUME TypeInv, LinkInv, [Next]_vars PROVE TypeInv'
  OBVIOUS
<1>1. CASE \E a \in Agents : Agent(a)
  BY <1>1, TypeCreates, TypePublishes, TypeSaves DEF Agent
<1>2. CASE Enclave
  BY <1>2, TypeEnclave
<1>3. CASE \E mode \in {"plain", "catchUp", "force"} : StartsPayout(mode)
  BY <1>3, TypeStarts
<1>4. CASE Payer
  BY <1>4, TypePays, TypeWrites DEF Payer
<1>5. CASE (\E from, to \in Holders : Settles(from, to)) \/ JoinsDirectory
           \/ \E h \in Holders : BecomesPayable(h)
  BY <1>5, TypeMoves
<1>6. CASE Stops
  BY <1>6, TypeStops
<1>7. CASE UNCHANGED vars
  BY <1>7 DEF TypeInv, vars, register, notes, evidence
<1> QED BY <1>1, <1>2, <1>3, <1>4, <1>5, <1>6, <1>7 DEF Next

-----------------------------------------------------------------------------
(* The receipt that is linked.                                             *)

LEMMA LinkInit == Init => LinkInv
<1> SUFFICES ASSUME Init PROVE LinkInv
  OBVIOUS
<1>1. payer = AtRest /\ payoutFile = NoPayout /\ record = <<>>
  BY DEF Init
<1>2. DOMAIN <<>> = {}
  OBVIOUS
<1>3. NoPayout.paid = <<>> /\ NoPayout.batches = <<>>
  BY DEF NoPayout
<1> QED BY <1>1, <1>2, <1>3, NothingBacked, Zenon DEF LinkInv

(* The parts of LinkInv that a step leaves as they were. *)
LEMMA LinkSame == ASSUME LinkInv, UNCHANGED <<payer, payoutFile, record, chain>> PROVE LinkInv'
BY DEF LinkInv

LEMMA LinkStarts ==
    ASSUME TypeInv, LinkInv, NEW mode \in {"plain", "catchUp", "force"}, StartsPayout(mode)
    PROVE  LinkInv'
<1> DEFINE already == IF mode = "catchUp" THEN alreadyPaid(released.seal) ELSE {}
           todo == Unpaid(released.distribution, already)
<1>1. payer' = [pc |-> "pay", mode |-> mode, seal |-> released.seal, paid |-> todo,
                sent |-> 0, batches |-> <<>>]
  BY DEF StartsPayout
<1>2. todo \in Seq(Entries)
  <2>1. released.distribution \in Distributions
    BY DEF TypeInv, StartsPayout
  <2> QED BY <2>1, UnpaidAre DEF Distributions
<1> HIDE DEF todo
<1>3. Len(todo) \in Nat /\ Len(<<>>) = 0
  BY <1>2, LenProperties
<1>4. <<>> \in Seq(BatchRecords)
  BY EmptySeq
<1>5. Backed(chain, todo, 0, <<>>, released.seal)
  <2>1. End(<<>>)[0] = 0
    BY <1>4, EndEnds DEF Ends
  <2> QED BY <1>3, <2>1 DEF Backed
<1>6. /\ payer'.sent = 0 /\ payer'.paid = todo /\ payer'.batches = <<>> /\ payer'.pc = "pay"
      /\ payer'.seal = released.seal
  BY <1>1
<1>7. UNCHANGED <<payoutFile, record, chain>>
  BY DEF StartsPayout, evidence
<1> QED BY <1>3, <1>5, <1>6, <1>7 DEF LinkInv

LEMMA LinkPays == ASSUME TypeInv, LinkInv, PaysBatch PROVE LinkInv'
<1>1. /\ payer'.sent <= Len(payer'.paid) /\ (payer'.pc # "pay" => payer'.sent = Len(payer'.paid))
      /\ Backed(chain', payer'.paid, payer'.sent, payer'.batches, payer'.seal)
  BY PaysIs
<1>2. UNCHANGED <<payoutFile, record>>
  BY DEF PaysBatch, evidence
<1>3. \A paid, n, batches, seal :
        Backed(chain, paid, n, batches, seal) => Backed(chain', paid, n, batches, seal)
  <2>1. PICK c \in Credits : chain' = Append(chain, c)
    BY PaysIs
  <2>2. chain \in Seq(Credits)
    BY DEF TypeInv
  <2> QED BY <2>1, <2>2, BackedStays
<1> QED BY <1>1, <1>2, <1>3 DEF LinkInv

LEMMA LinkWrites == ASSUME TypeInv, LinkInv, WritesFile \/ WritesRecord PROVE LinkInv'
<1>1. payer # AtRest /\ payer.pc # "pay" /\ chain' = chain
  BY AtRestIs DEF WritesFile, WritesRecord
<1>2. Backed(chain, Merged.paid, Len(Merged.paid), Merged.batches, Merged.seal)
  <2>1. /\ Backed(chain, payer.paid, Len(payer.paid), payer.batches, payer.seal)
        /\ \A k \in DOMAIN record : Backed(chain, record[k].paid, Len(record[k].paid),
                                           record[k].batches, record[k].seal)
    BY <1>1 DEF LinkInv
  <2> QED BY <1>1, <2>1, MergedIs
<1>3. CASE WritesFile
  <2>1. payoutFile' = Merged /\ record' = record
    BY <1>3 DEF WritesFile
  <2> QED BY <1>1, <1>2, <1>3, <2>1, WritesFileIs DEF LinkInv
<1>4. CASE WritesRecord
  <2>1. payoutFile' = payoutFile /\ record' = Append(record, Merged) /\ payer' = AtRest
    BY <1>4 DEF WritesRecord
  <2>2. record \in Seq(Payouts) /\ Merged \in Payouts
    BY <1>1, MergedIs DEF TypeInv
  <2>3. ASSUME NEW k \in DOMAIN record'
        PROVE  \/ k \in DOMAIN record /\ record'[k] = record[k]
               \/ record'[k] = Merged
    BY <2>1, <2>2, <2>3, AppendProperties, LenProperties
  <2> QED BY <1>1, <1>2, <2>1, <2>3 DEF LinkInv
<1> QED BY <1>3, <1>4

LEMMA LinkStops == ASSUME LinkInv, Stops PROVE LinkInv'
<1>1. UNCHANGED <<chain, payoutFile, record>> /\ (payer' = payer \/ payer' = AtRest)
  BY StopsIs DEF evidence
<1> QED BY <1>1 DEF LinkInv

LEMMA LinkNext == TypeInv /\ LinkInv /\ [Next]_vars => LinkInv'
<1> SUFFICES ASSUME TypeInv, LinkInv, [Next]_vars PROVE LinkInv'
  OBVIOUS
<1>1. CASE \E a \in Agents : Agent(a)
  BY <1>1, LinkSame DEF Agent, CreatesNotice, PublishesCommitment, SavesNotice, evidence
<1>2. CASE Enclave
  BY <1>2, LinkSame DEF Enclave, ReadsCommitment, FetchesNotice, Releases, evidence
<1>3. CASE \E mode \in {"plain", "catchUp", "force"} : StartsPayout(mode)
  BY <1>3, LinkStarts
<1>4. CASE Payer
  BY <1>4, LinkPays, LinkWrites DEF Payer
<1>5. CASE (\E from, to \in Holders : Settles(from, to)) \/ JoinsDirectory
           \/ \E h \in Holders : BecomesPayable(h)
  BY <1>5, LinkSame DEF Settles, JoinsDirectory, BecomesPayable, evidence
<1>6. CASE Stops
  BY <1>6, LinkStops
<1>7. CASE UNCHANGED vars
  BY <1>7, LinkSame DEF vars, evidence
<1> QED BY <1>1, <1>2, <1>3, <1>4, <1>5, <1>6, <1>7 DEF Next

(* The receipt of the batch in which the holder's place falls. *)
LEMMA ReceiptIs ==
    ASSUME NEW ch, NEW seal, NEW p \in Seq(Entries), NEW b \in Seq(BatchRecords), NEW h,
           Backed(ch, p, Len(p), b, seal), SelectInSeq(p, LAMBDA q : q.holder = h) # 0
    PROVE  LET i == SelectInSeq(p, LAMBDA q : q.holder = h)
               k == Min({l \in DOMAIN b : i <= End(b)[l]})
           IN  CreditedBy(ch, b[k].tx, seal, h)
<1> DEFINE i == SelectInSeq(p, LAMBDA q : q.holder = h)
           I == {l \in 1..Len(p) : p[l].holder = h}
           K == {l \in DOMAIN b : i <= End(b)[l]}
           e == End(b)
<1>1. /\ Len(p) \in Nat /\ Len(b) \in Nat /\ DOMAIN b = 1..Len(b)
      /\ e[0] = 0 /\ e[Len(b)] = Len(p) /\ \A l \in 0..Len(b) : e[l] \in Nat
  BY LenProperties, EndEnds DEF Ends, Backed
<1>2. i \in 1..Len(p) /\ p[i].holder = h
  <2>1. i = IF I # {} THEN Min(I) ELSE 0
    BY DEF SelectInSeq
  <2>2. I # {} /\ i = Min(I)
    BY <2>1
  <2>3. I \in SUBSET Nat
    BY <1>1
  <2> HIDE DEF I
  <2>4. PICK m \in I : \A l \in I : ~(l < m)
    BY <2>2, <2>3, Least
  <2>5. \A l \in I : m <= l
    BY <2>3, <2>4
  <2>6. Min(I) \in I
    BY <2>4, <2>5 DEF Min
  <2> QED BY <2>2, <2>6 DEF I
<1> HIDE DEF i, e
<1>3. K # {} /\ K \in SUBSET Nat
  <2>1. Len(b) # 0
    BY <1>1, <1>2
  <2>2. Len(b) \in K
    BY <1>1, <1>2, <2>1 DEF e
  <2> QED BY <1>1, <2>2
<1>4. Min(K) \in K /\ \A l \in K : Min(K) <= l
  <2> HIDE DEF K
  <2>1. PICK m \in K : \A l \in K : ~(l < m)
    BY <1>3, Least
  <2>2. \A l \in K : m <= l
    BY <1>3, <2>1
  <2> QED BY <2>1, <2>2 DEF Min
<1> DEFINE k == Min(K)
<1>5. k \in 1..Len(b) /\ i <= e[k] /\ \A l \in 1..Len(b) : i <= e[l] => k <= l
  BY <1>1, <1>4 DEF e
<1> HIDE DEF k, K
<1>6. e[k - 1] < i
  <2>1. CASE k = 1
    BY <1>1, <1>2, <2>1
  <2>2. CASE k # 1
    <3>1. k - 1 \in 1..Len(b) /\ k - 1 \in 0..Len(b) /\ ~(k <= k - 1)
      BY <1>1, <1>5, <2>2
    <3>2. ~(i <= e[k - 1]) /\ e[k - 1] \in Nat
      BY <1>1, <1>5, <3>1
    <3> QED BY <1>2, <3>2
  <2> QED BY <2>1, <2>2
<1>7. CreditedBy(ch, b[k].tx, seal, h)
  BY <1>2, <1>5, <1>6 DEF Backed, e
<1> QED BY <1>7 DEF k, K, i

LEMMA LinkImplies == ASSUME TypeInv, LinkInv PROVE LinkCreditsHolder
<1> DEFINE p == readPayout.paid
           b == readPayout.batches
<1> SUFFICES ASSUME NEW h \in Holders, holderPayoutLink(h) # 0
             PROVE  CreditedBy(chain, holderPayoutLink(h), released.seal, h)
  BY DEF LinkCreditsHolder, CreditedBy
<1> DEFINE i == SelectInSeq(p, LAMBDA q : q.holder = h)
           k == Min({l \in DOMAIN b : i <= End(b)[l]})
<1>1. holderPayoutLink(h) = IF i = 0 THEN 0 ELSE b[k].tx
  BY DEF holderPayoutLink
<1> HIDE DEF k
<1>2. i # 0 /\ holderPayoutLink(h) = b[k].tx
  BY <1>1
<1>3. readPayout = payoutFile /\ payoutFile.seal = released.seal /\ payoutFile \in Payouts
  <2>1. readPayout # NoPayout
    <3> SUFFICES ASSUME readPayout = NoPayout PROVE FALSE
      OBVIOUS
    <3>1. p = <<>>
      BY DEF NoPayout
    <3>2. i = LET I == {l \in 1..Len(p) : p[l].holder = h} IN IF I # {} THEN Min(I) ELSE 0
      BY DEF SelectInSeq
    <3>3. 1..Len(p) = {}
      BY <3>1
    <3> QED BY <1>2, <3>2, <3>3
  <2> QED BY <2>1 DEF readPayout, TypeInv
<1>4. p \in Seq(Entries) /\ b \in Seq(BatchRecords)
  BY <1>3 DEF Payouts
<1>5. Backed(chain, p, Len(p), b, released.seal)
  BY <1>3 DEF LinkInv
<1>6. CreditedBy(chain, b[k].tx, released.seal, h)
  BY <1>2, <1>4, <1>5, ReceiptIs DEF k
<1> QED BY <1>2, <1>6

-----------------------------------------------------------------------------
(* One commitment of a period.                                             *)

(* The seal is the commitment of the first notice of its period. *)
IsFirst(seal, ns) ==
    \E i \in 1..Len(ns) : /\ commitmentOf(ns[i]) = seal
                          /\ \A j \in 1..Len(ns) : j < i => ns[j].period # seal.period
IsSeq(s) == \E S : s \in Seq(S)

EnclaveFirst ==
    enclave.pc = "release" => /\ IsFirst(enclave.on.seal, notices)
                              /\ enclave.rate = enclave.on.seal.rate
ReleasedFirst == released # NoRelease => IsFirst(released.seal, notices)
PayerFirst == payer # AtRest => IsFirst(payer.seal, notices)
ChainFirst == \A i \in DOMAIN chain : IsFirst(chain[i].seal, notices)
SealInv ==
    /\ IsSeq(notices) /\ IsSeq(chain)
    /\ EnclaveFirst /\ ReleasedFirst /\ PayerFirst /\ ChainFirst

LEMMA Appended ==
    ASSUME NEW s, NEW e, IsSeq(s)
    PROVE  /\ IsSeq(Append(s, e)) /\ Len(s) \in Nat /\ Len(Append(s, e)) = Len(s) + 1
           /\ \A i \in 1..Len(s) : Append(s, e)[i] = s[i]
           /\ Append(s, e)[Len(s) + 1] = e
           /\ DOMAIN s = 1..Len(s) /\ DOMAIN Append(s, e) = 1..Len(s) + 1
<1>1. PICK S : s \in Seq(S)
  BY DEF IsSeq
<1> DEFINE R == S \cup {e}
<1>2. s \in Seq(R) /\ e \in R
  BY <1>1, SeqMonotonic
<1> HIDE DEF R
<1>3. Append(s, e) \in Seq(R)
  BY <1>2, AppendProperties
<1>4. /\ Len(Append(s, e)) = Len(s) + 1 /\ \A i \in 1..Len(s) : Append(s, e)[i] = s[i]
      /\ Append(s, e)[Len(s) + 1] = e
  BY <1>2, AppendProperties
<1>5. Len(s) \in Nat /\ DOMAIN s = 1..Len(s)
      /\ DOMAIN Append(s, e) = 1..Len(Append(s, e))
  BY <1>2, <1>3, LenProperties
<1> QED BY <1>3, <1>4, <1>5 DEF IsSeq

LEMMA FirstStays ==
    ASSUME NEW s, NEW e, IsSeq(s), NEW seal, IsFirst(seal, s) PROVE IsFirst(seal, Append(s, e))
<1>1. PICK i \in 1..Len(s) : /\ commitmentOf(s[i]) = seal
                             /\ \A j \in 1..Len(s) : j < i => s[j].period # seal.period
  BY DEF IsFirst
<1>2. Append(s, e)[i] = s[i] /\ i \in 1..Len(Append(s, e)) /\ Len(s) \in Nat
  BY Appended
<1>3. ASSUME NEW j \in 1..Len(Append(s, e)), j < i
      PROVE  Append(s, e)[j].period # seal.period
  <2>1. j \in 1..Len(s)
    BY <1>2, <1>3, Appended
  <2>2. Append(s, e)[j] = s[j]
    BY <2>1, Appended
  <2> QED BY <1>1, <1>3, <2>1, <2>2
<1> QED BY <1>1, <1>2, <1>3 DEF IsFirst

(* A period has one first notice. *)
LEMMA FirstIsOne ==
    ASSUME NEW s, IsSeq(s), NEW a, NEW b, IsFirst(a, s), IsFirst(b, s), a.period = b.period
    PROVE  a = b
<1>1. PICK i \in 1..Len(s) : /\ commitmentOf(s[i]) = a
                             /\ \A j \in 1..Len(s) : j < i => s[j].period # a.period
  BY DEF IsFirst
<1>2. PICK k \in 1..Len(s) : /\ commitmentOf(s[k]) = b
                             /\ \A j \in 1..Len(s) : j < k => s[j].period # b.period
  BY DEF IsFirst
<1>3. s[i].period = a.period /\ s[k].period = b.period
  BY <1>1, <1>2 DEF commitmentOf
<1>4. ~(i < k) /\ ~(k < i)
  BY <1>1, <1>2, <1>3
<1>5. i = k
  BY <1>4
<1> QED BY <1>1, <1>2, <1>5

(* The notice that is served. *)
LEMMA ServedIsFirst ==
    ASSUME IsSeq(notices), NEW seal, NEW i, i = findNotice(seal.period), i # 0,
           Verified(notices[i], seal)
    PROVE  IsFirst(seal, notices) /\ notices[i].rate = seal.rate
<1> DEFINE I == {k \in 1..Len(notices) : notices[k].period = seal.period}
<1>1. Len(notices) \in Nat
  BY Appended
<1>2. i = (IF I # {} THEN Min(I) ELSE 0)
  BY DEF findNotice, SelectInSeq
<1>3. I # {} /\ i = Min(I)
  BY <1>2
<1>4. i \in I /\ \A k \in I : i <= k
  <2>1. \E m \in I : \A k \in I : m <= k
    <3>1. I \in SUBSET Nat
      BY <1>1
    <3> HIDE DEF I
    <3>2. PICK m \in I : \A k \in I : ~(k < m)
      BY <1>3, <3>1, Least
    <3> QED BY <3>1, <3>2
  <2> QED BY <1>3, <2>1 DEF Min
<1>5. commitmentOf(notices[i]) = seal
  BY DEF Verified
<1>6. IsFirst(seal, notices)
  BY <1>1, <1>4, <1>5 DEF IsFirst
<1> QED BY <1>5, <1>6 DEF commitmentOf

-----------------------------------------------------------------------------
(* The steps *)

LEMMA SealInit == Init => SealInv
<1> SUFFICES ASSUME Init PROVE SealInv
  OBVIOUS
<1>1. notices = <<>> /\ chain = <<>> /\ released = NoRelease /\ enclave = AtRest /\ payer = AtRest
  BY DEF Init
<1>2. IsSeq(<<>>) /\ DOMAIN <<>> = {}
  <2>1. <<>> \in Seq({})
    BY EmptySeq
  <2>2. Len(<<>>) = 0 /\ DOMAIN <<>> = 1..Len(<<>>)
    BY <2>1, EmptySeq, LenProperties
  <2> QED BY <2>1, <2>2 DEF IsSeq
<1>3. AtRest.pc # "release"
  BY DEF AtRest
<1> QED BY <1>1, <1>2, <1>3 DEF SealInv, EnclaveFirst, ReleasedFirst, PayerFirst, ChainFirst

(* Steps that touch none of it. *)
LEMMA SealSame ==
    ASSUME SealInv, UNCHANGED <<notices, enclave, released, payer, chain>> PROVE SealInv'
<1>1. IsSeq(notices)' /\ IsSeq(chain)'
  BY Zenon DEF SealInv
<1>2. EnclaveFirst' /\ ReleasedFirst' /\ PayerFirst' /\ ChainFirst'
  BY DEF SealInv, EnclaveFirst, ReleasedFirst, PayerFirst, ChainFirst
<1> QED BY <1>1, <1>2 DEF SealInv

LEMMA SavesSeal == ASSUME SealInv, NEW a \in Agents, SavesNotice(a) PROVE SealInv'
<1> DEFINE e == commitmentOf(agent[a])
<1>1. notices' = Append(notices, e) /\ UNCHANGED <<enclave, released, payer, chain>>
  BY DEF SavesNotice
<1> HIDE DEF e
<1>2. IsSeq(notices) /\ IsSeq(notices') /\ IsSeq(chain')
  BY <1>1, Appended DEF SealInv
<1>3. \A seal : IsFirst(seal, notices) => IsFirst(seal, notices')
  BY <1>1, <1>2, FirstStays
<1> QED BY <1>1, <1>2, <1>3 DEF SealInv, EnclaveFirst, ReleasedFirst, PayerFirst, ChainFirst

LEMMA EnclaveSeal == ASSUME SealInv, Enclave PROVE SealInv'
<1>1. CASE ReadsCommitment
  <2>1. /\ UNCHANGED <<notices, released, payer, chain>> /\ enclave'.pc = "notice"
    BY <1>1 DEF ReadsCommitment, notes
  <2>2. EnclaveFirst'
    BY <2>1 DEF EnclaveFirst
  <2> QED BY <2>1, <2>2 DEF SealInv, ReleasedFirst, PayerFirst, ChainFirst
<1>2. CASE FetchesNotice
  <2> DEFINE seal == enclave.on.seal
             i == findNotice(seal.period)
             ok == i # 0 /\ Verified(notices[i], seal)
  <2>1. /\ UNCHANGED <<notices, released, payer, chain>>
        /\ enclave' = IF ok THEN [pc |-> "release", on |-> enclave.on, rate |-> notices[i].rate]
                      ELSE AtRest
    BY <1>2 DEF FetchesNotice, notes
  <2>2. ASSUME ok PROVE IsFirst(seal, notices) /\ notices[i].rate = seal.rate
    BY <2>2, ServedIsFirst DEF SealInv
  <2>3. AtRest.pc = "idle"
    BY DEF AtRest
  <2>4. EnclaveFirst'
    <3>1. CASE ok
      <4>1. enclave'.on = enclave.on /\ enclave'.rate = notices[i].rate
        BY <2>1, <3>1
      <4> QED BY <2>1, <2>2, <3>1, <4>1 DEF EnclaveFirst
    <3>2. CASE ~ok
      BY <2>1, <2>3, <3>2 DEF EnclaveFirst
    <3> QED BY <3>1, <3>2
  <2> QED BY <2>1, <2>4 DEF SealInv, ReleasedFirst, PayerFirst, ChainFirst
<1>3. CASE Releases
  <2>1. /\ UNCHANGED <<notices, payer, chain>> /\ enclave.pc = "release" /\ enclave' = AtRest
        /\ released'.seal = enclave.on.seal
    BY <1>3 DEF Releases, notes
  <2>2. EnclaveFirst'
    BY <2>1 DEF EnclaveFirst, AtRest
  <2>3. ReleasedFirst'
    BY <2>1 DEF SealInv, EnclaveFirst, ReleasedFirst
  <2> QED BY <2>1, <2>2, <2>3 DEF SealInv, PayerFirst, ChainFirst
<1> QED BY <1>1, <1>2, <1>3 DEF Enclave

LEMMA StartsSeal == ASSUME SealInv, NEW mode, StartsPayout(mode) PROVE SealInv'
<1>1. /\ UNCHANGED <<notices, enclave, released, chain>> /\ released # NoRelease
      /\ payer'.seal = released.seal
  BY DEF StartsPayout, notes
<1>2. PayerFirst'
  BY <1>1 DEF SealInv, ReleasedFirst, PayerFirst
<1> QED BY <1>1, <1>2 DEF SealInv, EnclaveFirst, ReleasedFirst, ChainFirst

LEMMA PaysSeal == ASSUME SealInv, PaysBatch PROVE SealInv'
<1> DEFINE end == Min({payer.sent + BATCH, Len(payer.paid)})
           slice == SubSeq(payer.paid, payer.sent + 1, end)
           new == [seal |-> payer.seal, paid |-> slice]
<1>1. /\ UNCHANGED <<notices, enclave, released>> /\ payer # AtRest
      /\ chain' = Append(chain, new) /\ payer'.seal = payer.seal
  <2>1. payer.pc = "pay" /\ AtRest.pc = "idle"
    BY DEF PaysBatch, AtRest
  <2> QED BY <2>1 DEF PaysBatch, notes
<1>2. IsFirst(payer.seal, notices) /\ new.seal = payer.seal
  BY <1>1 DEF SealInv, PayerFirst
<1> HIDE DEF new
<1>3. PayerFirst'
  BY <1>1, <1>2 DEF PayerFirst
<1>4. IsSeq(chain') /\ ChainFirst'
  <2>1. IsSeq(chain)
    BY DEF SealInv
  <2>2. /\ IsSeq(chain') /\ DOMAIN chain = 1..Len(chain) /\ DOMAIN chain' = 1..Len(chain) + 1
        /\ Len(chain) \in Nat /\ \A i \in 1..Len(chain) : chain'[i] = chain[i]
        /\ chain'[Len(chain) + 1] = new
    BY <1>1, <2>1, Appended
  <2>3. ASSUME NEW i \in DOMAIN chain' PROVE IsFirst(chain'[i].seal, notices)
    <3>1. CASE i = Len(chain) + 1
      BY <1>2, <2>2, <3>1
    <3>2. CASE i \in DOMAIN chain
      BY <2>2, <3>2 DEF SealInv, ChainFirst
    <3> QED BY <2>2, <2>3, <3>1, <3>2
  <2> QED BY <1>1, <2>2, <2>3 DEF ChainFirst
<1> QED BY <1>1, <1>3, <1>4 DEF SealInv, EnclaveFirst, ReleasedFirst

LEMMA WritesSeal == ASSUME SealInv, WritesFile \/ WritesRecord PROVE SealInv'
<1>1. UNCHANGED <<notices, enclave, released, chain>>
  BY DEF WritesFile, WritesRecord, notes
<1>2. PayerFirst'
  <2>1. CASE WritesFile
    <3>1. payer # AtRest /\ payer'.seal = payer.seal
      <4>1. payer.pc = "file" /\ AtRest.pc = "idle"
        BY <2>1 DEF WritesFile, AtRest
      <4> QED BY <2>1, <4>1 DEF WritesFile
    <3> QED BY <1>1, <3>1 DEF SealInv, PayerFirst
  <2>2. CASE WritesRecord
    BY <2>2 DEF WritesRecord, PayerFirst
  <2> QED BY <2>1, <2>2
<1> QED BY <1>1, <1>2 DEF SealInv, EnclaveFirst, ReleasedFirst, ChainFirst

LEMMA StopsSeal == ASSUME SealInv, Stops PROVE SealInv'
<1>1. /\ UNCHANGED <<notices, released, chain>>
      /\ enclave' = enclave \/ enclave' = AtRest
      /\ payer' = payer \/ payer' = AtRest
  BY DEF Stops
<1>2. AtRest.pc = "idle"
  BY DEF AtRest
<1>3. EnclaveFirst'
  BY <1>1, <1>2 DEF SealInv, EnclaveFirst
<1>4. PayerFirst'
  BY <1>1 DEF SealInv, PayerFirst
<1> QED BY <1>1, <1>3, <1>4 DEF SealInv, ReleasedFirst, ChainFirst

LEMMA SealNext == SealInv /\ [Next]_vars => SealInv'
<1> SUFFICES ASSUME SealInv, [Next]_vars PROVE SealInv'
  OBVIOUS
<1>1. CASE \E a \in Agents : Agent(a)
  <2>1. PICK a \in Agents : Agent(a)
    BY <1>1
  <2>2. CASE CreatesNotice(a) \/ PublishesCommitment(a)
    BY <2>2, SealSame DEF CreatesNotice, PublishesCommitment
  <2>3. CASE SavesNotice(a)
    BY <2>3, SavesSeal
  <2> QED BY <2>1, <2>2, <2>3 DEF Agent
<1>2. CASE Enclave
  BY <1>2, EnclaveSeal
<1>3. CASE \E mode \in {"plain", "catchUp", "force"} : StartsPayout(mode)
  BY <1>3, StartsSeal
<1>4. CASE Payer
  BY <1>4, PaysSeal, WritesSeal DEF Payer
<1>5. CASE \E from, to \in Holders : Settles(from, to)
  BY <1>5, SealSame DEF Settles, notes
<1>6. CASE JoinsDirectory \/ \E h \in Holders : BecomesPayable(h)
  BY <1>6, SealSame DEF JoinsDirectory, BecomesPayable, notes
<1>7. CASE Stops
  BY <1>7, StopsSeal
<1>8. CASE UNCHANGED vars
  BY <1>8, SealSame DEF vars, notes
<1> QED BY <1>1, <1>2, <1>3, <1>4, <1>5, <1>6, <1>7, <1>8 DEF Next

LEMMA SealImplies == ASSUME SealInv PROVE OneSealPerPeriod
BY FirstIsOne DEF OneSealPerPeriod, SealInv, ChainFirst

(* ReleasedIsCommitted, of one step. *)
ReleaseOK ==
    released' # released =>
        \A d \in ToSet(released'.distribution) :
            d.units = accrual(par[d.holder], released'.seal.rate)

LEMMA ReleaseNext == ASSUME SealInv, [Next]_vars PROVE ReleaseOK
<1>1. CASE Releases
  <2> DEFINE holders == enclave.on.holders
  <2>1. /\ released'.seal = enclave.on.seal /\ enclave.pc = "release"
        /\ released'.distribution = Distribution(holders, enclave.rate)
    BY <1>1 DEF Releases
  <2>2. enclave.rate = enclave.on.seal.rate
    BY <2>1 DEF SealInv, EnclaveFirst
  <2>3. ASSUME NEW d \in ToSet(released'.distribution)
        PROVE  d.units = accrual(par[d.holder], enclave.rate)
    <3>1. PICK k \in DOMAIN holders :
            d = [holder |-> holders[k], units |-> accrual(par[holders[k]], enclave.rate)]
      BY <2>1, <2>3 DEF ToSet, Distribution
    <3> QED BY <3>1
  <2> QED BY <2>1, <2>2, <2>3 DEF ReleaseOK
<1>2. CASE ~Releases
  <2>1. released' = released
    BY <1>2 DEF Next, vars, Agent, CreatesNotice, PublishesCommitment, SavesNotice, Enclave,
       ReadsCommitment, FetchesNotice, StartsPayout, Payer, PaysBatch, WritesFile, WritesRecord,
       Settles, JoinsDirectory, BecomesPayable, Stops
  <2> QED BY <2>1 DEF ReleaseOK
<1> QED BY <1>1, <1>2

-----------------------------------------------------------------------------
(* A holder is credited once.                                              *)

(* What the record says was paid was paid under a first notice too. *)
RecordInv == \A k \in DOMAIN record : IsFirst(record[k].seal, notices)

LEMMA RecordInit == Init => RecordInv
<1> SUFFICES ASSUME Init PROVE RecordInv
  OBVIOUS
<1>1. record = <<>> /\ DOMAIN <<>> = {}
  BY DEF Init
<1> QED BY <1>1 DEF RecordInv

LEMMA RecordSame == ASSUME RecordInv, UNCHANGED <<notices, record>> PROVE RecordInv'
BY DEF RecordInv, IsFirst

LEMMA RecordNext == TypeInv /\ SealInv /\ RecordInv /\ [Next]_vars => RecordInv'
<1> SUFFICES ASSUME TypeInv, SealInv, RecordInv, [Next]_vars PROVE RecordInv'
  OBVIOUS
<1>1. CASE \E a \in Agents : Agent(a)
  <2>1. PICK a \in Agents : Agent(a)
    BY <1>1
  <2>2. CASE CreatesNotice(a) \/ PublishesCommitment(a)
    BY <2>2, RecordSame DEF CreatesNotice, PublishesCommitment, evidence
  <2>3. CASE SavesNotice(a)
    <3>1. record' = record /\ notices' = Append(notices, commitmentOf(agent[a]))
      BY <2>3 DEF SavesNotice, evidence
    <3>2. \A seal : IsFirst(seal, notices) => IsFirst(seal, notices')
      BY <3>1, FirstStays DEF SealInv
    <3> QED BY <3>1, <3>2 DEF RecordInv
  <2> QED BY <2>1, <2>2, <2>3 DEF Agent
<1>2. CASE Enclave
  BY <1>2, RecordSame DEF Enclave, ReadsCommitment, FetchesNotice, Releases, notes, evidence
<1>3. CASE \E mode \in {"plain", "catchUp", "force"} : StartsPayout(mode)
  BY <1>3, RecordSame DEF StartsPayout, notes, evidence
<1>4. CASE PaysBatch \/ WritesFile
  BY <1>4, RecordSame DEF PaysBatch, WritesFile, notes, evidence
<1>5. CASE WritesRecord
  <2>1. /\ payer # AtRest /\ record' = Append(record, Merged) /\ notices' = notices
    BY <1>5, AtRestIs DEF WritesRecord, notes
  <2>2. record \in Seq(Payouts) /\ Merged \in Payouts /\ Merged.seal = payer.seal
    BY <2>1, MergedIs DEF TypeInv
  <2>3. IsFirst(payer.seal, notices)
    BY <2>1 DEF SealInv, PayerFirst
  <2>4. ASSUME NEW k \in DOMAIN record'
        PROVE  (k \in DOMAIN record /\ record'[k] = record[k]) \/ record'[k] = Merged
    BY <2>1, <2>2, <2>4, AppendProperties, LenProperties
  <2> QED BY <2>1, <2>2, <2>3, <2>4 DEF RecordInv
<1>6. CASE (\E from, to \in Holders : Settles(from, to)) \/ JoinsDirectory
           \/ \E h \in Holders : BecomesPayable(h)
  BY <1>6, RecordSame DEF Settles, JoinsDirectory, BecomesPayable, notes, evidence
<1>7. CASE Stops
  BY <1>7, RecordSame DEF Stops, evidence
<1>8. CASE UNCHANGED vars
  BY <1>8, RecordSame DEF vars, notes, evidence
<1> QED BY <1>1, <1>2, <1>3, <1>4, <1>5, <1>6, <1>7, <1>8 DEF Next, Payer

(* The transfers that credited h for a period, counted with the one that   *)
(* is still owed: all but one of them were forced, or follow a stop.  The  *)
(* one is in the record, or in the payout under way.                       *)
CreditsOf(h, period) ==
    {i \in DOMAIN chain : chain[i].seal.period = period /\ h \in PaidHolders(chain[i].paid)}
Paying(h, period) ==
    payer # AtRest /\ payer.seal.period = period /\ h \in PaidHolders(payer.paid)
Owed(h, period) ==
    /\ payer # AtRest /\ payer.seal.period = period
    /\ \E k \in DOMAIN payer.paid : k > payer.sent /\ payer.paid[k].holder = h
Recorded(h, period) ==
    \E k \in DOMAIN record : record[k].seal.period = period /\ h \in PaidHolders(record[k].paid)
One(b) == IF b THEN 1 ELSE 0
Counted(h, period) ==
    Cardinality(CreditsOf(h, period)) + One(Owed(h, period))
        <= forces + faults + One(Recorded(h, period) \/ Paying(h, period))
CountInv == \A h \in Holders, period \in Nat : Counted(h, period)

LEMMA CreditsFinite ==
    ASSUME TypeInv, NEW h, NEW period
    PROVE  /\ IsFiniteSet(CreditsOf(h, period)) /\ Cardinality(CreditsOf(h, period)) \in Nat
           /\ forces \in Nat /\ faults \in Nat
<1>1. Len(chain) \in Nat /\ DOMAIN chain = 1..Len(chain)
  BY LenProperties DEF TypeInv
<1>2. IsFiniteSet(1..Len(chain))
  BY <1>1, FS_Interval
<1>3. CreditsOf(h, period) \subseteq 1..Len(chain)
  BY <1>1 DEF CreditsOf
<1> QED BY <1>2, <1>3, FS_Subset, FS_CardinalityType DEF TypeInv

LEMMA CountInit == Init => CountInv
<1> SUFFICES ASSUME Init, NEW h \in Holders, NEW period \in Nat PROVE Counted(h, period)
  BY DEF CountInv
<1>1. chain = <<>> /\ payer = AtRest /\ forces = 0 /\ faults = 0 /\ DOMAIN <<>> = {}
  BY DEF Init
<1>2. CreditsOf(h, period) = {}
  BY <1>1 DEF CreditsOf
<1>3. Cardinality(CreditsOf(h, period)) = 0
  BY <1>2, FS_EmptySet
<1>4. ~Owed(h, period)
  BY <1>1 DEF Owed
<1> QED BY <1>1, <1>3, <1>4 DEF Counted, One

LEMMA CountSame == ASSUME CountInv, UNCHANGED <<payer, record, chain, forces, faults>> PROVE CountInv'
<1> SUFFICES ASSUME NEW h \in Holders, NEW period \in Nat PROVE Counted(h, period)'
  BY DEF CountInv
<1>1. /\ CreditsOf(h, period)' = CreditsOf(h, period) /\ Owed(h, period)' = Owed(h, period)
      /\ Recorded(h, period)' = Recorded(h, period) /\ Paying(h, period)' = Paying(h, period)
  BY DEF CreditsOf, Paying, Owed, Recorded
<1>2. Counted(h, period)
  BY DEF CountInv
<1> QED BY <1>1, <1>2 DEF Counted, One

(* A payout begins for a holder the record does not have, or is forced. *)
LEMMA CountStarts ==
    ASSUME TypeInv, SealInv, RecordInv, CountInv, NEW mode \in {"plain", "catchUp", "force"},
           StartsPayout(mode)
    PROVE  CountInv'
<1> DEFINE seal == released.seal
           already == IF mode = "catchUp" THEN alreadyPaid(seal) ELSE {}
           todo == Unpaid(released.distribution, already)
<1>1. /\ payer' = [pc |-> "pay", mode |-> mode, seal |-> seal, paid |-> todo,
                   sent |-> 0, batches |-> <<>>]
      /\ payer = AtRest /\ released # NoRelease /\ UNCHANGED <<notices, record, chain, faults>>
      /\ mode = "plain" => Priors(seal) = {}
      /\ forces' = forces + (IF mode = "force" THEN 1 ELSE 0)
  BY DEF StartsPayout, notes, evidence
<1>2. /\ todo \in Distributions
      /\ \A i \in DOMAIN todo : todo[i].holder \notin already
  <2>1. released.distribution \in Distributions
    BY DEF TypeInv, StartsPayout
  <2> QED BY <2>1, UnpaidAre
<1> HIDE DEF todo
<1> SUFFICES ASSUME NEW h \in Holders, NEW period \in Nat PROVE Counted(h, period)'
  BY DEF CountInv
<1>3. /\ payer'.seal = seal /\ payer'.paid = todo /\ payer' # AtRest
  <2>1. payer'.pc = "pay"
    BY <1>1
  <2> QED BY <1>1, <2>1, AtRestIs
<1>4. CreditsOf(h, period)' = CreditsOf(h, period) /\ Recorded(h, period)' = Recorded(h, period)
  BY <1>1 DEF CreditsOf, Recorded
<1>5. ~Owed(h, period) /\ ~Paying(h, period)
  BY <1>1 DEF Owed, Paying
<1>6. Owed(h, period)' => Paying(h, period)'
  BY DEF Owed, Paying, PaidHolders
<1>7. Paying(h, period)' /\ mode # "force" => ~Recorded(h, period)
  <2> SUFFICES ASSUME Paying(h, period)', mode # "force", Recorded(h, period) PROVE FALSE
    OBVIOUS
  <2>1. PICK k \in DOMAIN record : record[k].seal.period = period /\ h \in PaidHolders(record[k].paid)
    BY DEF Recorded
  <2>2. seal.period = period /\ h \in PaidHolders(todo)
    BY <1>3 DEF Paying
  <2>3. record[k].seal = seal
    <3>1. IsFirst(record[k].seal, notices) /\ IsFirst(seal, notices) /\ IsSeq(notices)
      BY <1>1 DEF RecordInv, SealInv, ReleasedFirst
    <3> QED BY <2>1, <2>2, <3>1, FirstIsOne
  <2>4. k \in Priors(seal)
    BY <2>3 DEF Priors
  <2>5. mode = "catchUp"
    BY <1>1, <2>4
  <2>6. h \in already
    BY <2>1, <2>4, <2>5 DEF alreadyPaid
  <2>7. PICK i \in DOMAIN todo : h = todo[i].holder
    BY <2>2 DEF PaidHolders
  <2> QED BY <1>2, <2>6, <2>7
<1>8. Counted(h, period) /\ Cardinality(CreditsOf(h, period)) \in Nat /\ forces \in Nat /\ faults \in Nat
  BY CreditsFinite DEF CountInv
<1> QED BY <1>1, <1>4, <1>5, <1>6, <1>7, <1>8 DEF Counted, One

(* A transfer credits those it leaves owed no more. *)
LEMMA CountPays == ASSUME TypeInv, LinkInv, CountInv, PaysBatch PROVE CountInv'
<1> SUFFICES ASSUME NEW h \in Holders, NEW period \in Nat PROVE Counted(h, period)'
  BY DEF CountInv
<1>1. UNCHANGED <<record, forces, faults>>
  BY DEF PaysBatch, evidence
<1>2. /\ payer # AtRest /\ payer' # AtRest /\ payer'.seal = payer.seal /\ payer'.paid = payer.paid
      /\ payer'.sent \in Nat /\ payer.sent <= payer'.sent /\ payer'.sent <= Len(payer.paid)
  BY PaysIs
<1>3. PICK c \in Credits :
         /\ chain' = Append(chain, c) /\ c.seal = payer.seal
         /\ PaidHolders(c.paid) = {payer.paid[i].holder : i \in payer.sent + 1..payer'.sent}
  BY PaysIs
<1>4. payer.sent \in Nat /\ OncePerHolder(payer.paid) /\ DOMAIN payer.paid = 1..Len(payer.paid)
      /\ Len(payer.paid) \in Nat
  BY <1>2, PayerAt
<1> DEFINE new == Len(chain) + 1
<1>5. /\ DOMAIN chain = 1..Len(chain) /\ DOMAIN chain' = 1..Len(chain) + 1 /\ Len(chain) \in Nat
      /\ \A i \in 1..Len(chain) : chain'[i] = chain[i]
      /\ chain'[new] = c
  BY <1>3, AppendProperties, LenProperties DEF TypeInv
<1>6. Paying(h, period)' = Paying(h, period) /\ Recorded(h, period)' = Recorded(h, period)
  BY <1>1, <1>2 DEF Paying, Recorded
<1>7. Counted(h, period) /\ IsFiniteSet(CreditsOf(h, period))
      /\ Cardinality(CreditsOf(h, period)) \in Nat /\ forces \in Nat /\ faults \in Nat
  BY CreditsFinite DEF CountInv
<1>8. CASE payer.seal.period = period /\ h \in PaidHolders(c.paid)
  <2>1. CreditsOf(h, period)' = CreditsOf(h, period) \cup {new} /\ new \notin CreditsOf(h, period)
    BY <1>3, <1>5, <1>8 DEF CreditsOf
  <2> HIDE DEF new
  <2>2. Cardinality(CreditsOf(h, period)') = Cardinality(CreditsOf(h, period)) + 1
    BY <1>7, <2>1, FS_AddElement
  <2>3. PICK i \in payer.sent + 1..payer'.sent : payer.paid[i].holder = h
    BY <1>3, <1>8
  <2>4. i \in DOMAIN payer.paid /\ i > payer.sent /\ i <= payer'.sent
    BY <1>2, <1>4, <2>3
  <2>5. Owed(h, period)
    BY <1>2, <1>8, <2>3, <2>4 DEF Owed
  <2>6. ~Owed(h, period)'
    <3> SUFFICES ASSUME NEW k \in DOMAIN payer.paid, k > payer'.sent, payer.paid[k].holder = h
                 PROVE  FALSE
      BY <1>2 DEF Owed
    <3>1. k = i
      BY <1>4, <2>3, <2>4 DEF OncePerHolder
    <3> QED BY <1>2, <1>4, <2>4, <3>1
  <2> QED BY <1>1, <1>6, <1>7, <2>2, <2>5, <2>6 DEF Counted, One
<1>9. CASE ~(payer.seal.period = period /\ h \in PaidHolders(c.paid))
  <2>1. CreditsOf(h, period)' = CreditsOf(h, period)
    BY <1>3, <1>5, <1>9 DEF CreditsOf
  <2>2. Owed(h, period)' => Owed(h, period)
    <3>1. \A k \in DOMAIN payer.paid : k > payer'.sent => k > payer.sent
      BY <1>2, <1>4
    <3> QED BY <1>2, <3>1 DEF Owed
  <2> QED BY <1>1, <1>6, <1>7, <2>1, <2>2 DEF Counted, One
<1> QED BY <1>8, <1>9

(* The payout under way becomes one of the record. *)
LEMMA CountWrites == ASSUME TypeInv, CountInv, WritesFile \/ WritesRecord PROVE CountInv'
<1> SUFFICES ASSUME NEW h \in Holders, NEW period \in Nat PROVE Counted(h, period)'
  BY DEF CountInv
<1>1. UNCHANGED <<chain, forces, faults>>
  BY DEF WritesFile, WritesRecord
<1>2. CreditsOf(h, period)' = CreditsOf(h, period)
  BY <1>1 DEF CreditsOf
<1>3. Counted(h, period) /\ Cardinality(CreditsOf(h, period)) \in Nat /\ forces \in Nat /\ faults \in Nat
  BY CreditsFinite DEF CountInv
<1>4. (Owed(h, period)' => Owed(h, period))
      /\ (Recorded(h, period) \/ Paying(h, period) => Recorded(h, period)' \/ Paying(h, period)')
  <2>1. CASE WritesFile
    <3>1. record' = record
      BY <2>1 DEF WritesFile
    <3> QED BY <2>1, <3>1, WritesFileIs DEF Owed, Recorded, Paying
  <2>2. CASE WritesRecord
    <3>1. payer # AtRest /\ payer' = AtRest /\ record' = Append(record, Merged)
      BY <2>2, AtRestIs DEF WritesRecord
    <3>2. /\ record \in Seq(Payouts) /\ Merged \in Payouts /\ Merged.seal = payer.seal
          /\ PaidHolders(payer.paid) \subseteq PaidHolders(Merged.paid)
      BY <3>1, MergedIs DEF TypeInv
    <3>3. /\ DOMAIN record = 1..Len(record) /\ DOMAIN record' = 1..Len(record) + 1
          /\ Len(record) \in Nat
          /\ \A k \in 1..Len(record) : record'[k] = record[k]
          /\ record'[Len(record) + 1] = Merged
      BY <3>1, <3>2, AppendProperties, LenProperties
    <3>4. Recorded(h, period) => Recorded(h, period)'
      BY <3>3 DEF Recorded
    <3>5. Paying(h, period) => Recorded(h, period)'
      <4> SUFFICES ASSUME Paying(h, period) PROVE Recorded(h, period)'
        OBVIOUS
      <4>1. record'[Len(record) + 1].seal.period = period
            /\ h \in PaidHolders(record'[Len(record) + 1].paid)
        BY <3>2, <3>3 DEF Paying
      <4>2. Len(record) + 1 \in DOMAIN record'
        BY <3>3
      <4> QED BY <4>1, <4>2 DEF Recorded
    <3>6. ~Owed(h, period)'
      BY <3>1 DEF Owed
    <3> QED BY <3>4, <3>5, <3>6
  <2> QED BY <2>1, <2>2
<1> QED BY <1>1, <1>2, <1>3, <1>4 DEF Counted, One

LEMMA CountStops == ASSUME TypeInv, CountInv, Stops PROVE CountInv'
<1> SUFFICES ASSUME NEW h \in Holders, NEW period \in Nat PROVE Counted(h, period)'
  BY DEF CountInv
<1>1. /\ UNCHANGED <<chain, record, forces>> /\ faults' = faults + 1
      /\ payer' = payer \/ payer' = AtRest
  BY StopsIs DEF evidence
<1>2. CreditsOf(h, period)' = CreditsOf(h, period) /\ Recorded(h, period)' = Recorded(h, period)
  BY <1>1 DEF CreditsOf, Recorded
<1>3. Owed(h, period)' => Owed(h, period)
  BY <1>1 DEF Owed
<1>4. Counted(h, period) /\ Cardinality(CreditsOf(h, period)) \in Nat /\ forces \in Nat /\ faults \in Nat
  BY CreditsFinite DEF CountInv
<1> QED BY <1>1, <1>2, <1>3, <1>4 DEF Counted, One

LEMMA CountNext ==
    TypeInv /\ LinkInv /\ SealInv /\ RecordInv /\ CountInv /\ [Next]_vars => CountInv'
<1> SUFFICES ASSUME TypeInv, LinkInv, SealInv, RecordInv, CountInv, [Next]_vars PROVE CountInv'
  OBVIOUS
<1>1. CASE \E a \in Agents : Agent(a)
  BY <1>1, CountSame DEF Agent, CreatesNotice, PublishesCommitment, SavesNotice, evidence
<1>2. CASE Enclave
  BY <1>2, CountSame DEF Enclave, ReadsCommitment, FetchesNotice, Releases, evidence
<1>3. CASE \E mode \in {"plain", "catchUp", "force"} : StartsPayout(mode)
  BY <1>3, CountStarts
<1>4. CASE Payer
  BY <1>4, CountPays, CountWrites DEF Payer
<1>5. CASE (\E from, to \in Holders : Settles(from, to)) \/ JoinsDirectory
           \/ \E h \in Holders : BecomesPayable(h)
  BY <1>5, CountSame DEF Settles, JoinsDirectory, BecomesPayable, evidence
<1>6. CASE Stops
  BY <1>6, CountStops
<1>7. CASE UNCHANGED vars
  BY <1>7, CountSame DEF vars, evidence
<1> QED BY <1>1, <1>2, <1>3, <1>4, <1>5, <1>6, <1>7 DEF Next

LEMMA CountImplies == ASSUME TypeInv, CountInv PROVE PaidOnce
<1> SUFFICES ASSUME NEW h \in Holders, NEW period \in 1..MaxNotices
             PROVE  Cardinality(CreditsOf(h, period)) <= 1 + forces + faults
  BY DEF PaidOnce, CreditsOf
<1>1. period \in Nat
  BY InterestAssumption
<1> QED BY <1>1, CreditsFinite DEF CountInv, Counted, One

-----------------------------------------------------------------------------
(* A period is paid under one commitment only, whatever requests commit to *)
(* the same period, whichever message the mirror shows and whoever stops   *)
(* (notices.ts, run-demo.mjs, pay-interest.ts).                            *)
THEOREM InterestSealSafety == Spec => []OneSealPerPeriod
<1>1. SealInv => OneSealPerPeriod
  BY SealImplies
<1> QED BY SealInit, SealNext, <1>1, PTL DEF Spec

(* What is released was computed with the committed rate, from the         *)
(* register as it is when it is released (workflow.ts).                    *)
THEOREM InterestReleaseSafety == Spec => ReleasedIsCommitted
<1>1. SealInv /\ [Next]_vars => [ReleaseOK]_vars
  BY ReleaseNext
<1>2. Spec => [][ReleaseOK]_vars
  BY SealInit, SealNext, <1>1, PTL DEF Spec
<1> QED BY <1>2 DEF ReleasedIsCommitted, ReleaseOK

(* The types, with no list of wallets, distribution or payout under way    *)
(* that names a holder twice (the register of notices.ts, the listing of   *)
(* pay-interest.ts), and the batches of every payout in agreement with the *)
(* transfers.                                                              *)
THEOREM InterestTypeCorrect == Spec => [](TypeInv /\ LinkInv)
<1>1. Init => TypeInv /\ LinkInv
  BY TypeInit, LinkInit
<1>2. TypeInv /\ LinkInv /\ [Next]_vars => TypeInv' /\ LinkInv'
  BY TypeNext, LinkNext
<1> QED BY <1>1, <1>2, PTL DEF Spec

(* The receipt the venue links for a holder is a transfer that credited    *)
(* this holder for the released period, through all the merging of catch-  *)
(* ups (pay-interest.ts, register-interest.ts).                            *)
THEOREM InterestLinkSafety == Spec => []LinkCreditsHolder
<1>1. TypeInv /\ LinkInv => LinkCreditsHolder
  BY LinkImplies
<1> QED BY InterestTypeCorrect, <1>1, PTL

(* A holder is credited once for a period, however often the payout is run *)
(* and its distribution computed again, but for payouts that are forced    *)
(* and runs that stop between a transfer and the record (pay-interest.ts). *)
THEOREM InterestPaidOnceSafety == Spec => []PaidOnce
<1> DEFINE Inv == TypeInv /\ LinkInv /\ SealInv /\ RecordInv /\ CountInv
<1>1. Init => Inv
  BY TypeInit, LinkInit, SealInit, RecordInit, CountInit
<1>2. Inv /\ [Next]_vars => Inv'
  BY TypeNext, LinkNext, SealNext, RecordNext, CountNext
<1>3. Inv => PaidOnce
  BY CountImplies
<1> QED BY <1>1, <1>2, <1>3, PTL DEF Spec
=============================================================================
