--------------------------- MODULE SequenceLemmas ---------------------------
(***************************************************************************)
(* Lemmas that several proofs share: least numbers, which stand in for     *)
(* induction, the flattening of sequences of sequences, and the places     *)
(* where one sequence occurs in another.                                   *)
(***************************************************************************)
EXTENDS Integers, Sequences, FiniteSetsExt, SequencesExt, FiniteSetTheorems, SequenceTheorems, TLAPS

-----------------------------------------------------------------------------
(* Least numbers *)

\* A set of naturals that is not empty has a least member.
LEMMA LeastNumber ==
  ASSUME NEW T \in SUBSET Nat, T # {}
  PROVE  \E m \in T : \A n \in T : m <= n
<1>1. PICK m \in T : \A n \in T : ~(<<n, m>> \in OpToRel(<, Nat))
  BY NatLessThanWellFounded, WFMin
<1>2. \A n \in T : <<n, m>> \in Nat \X Nat
  OBVIOUS
<1>3. \A n \in T : ~(n < m)
  BY <1>1, <1>2 DEF OpToRel
<1> QED
  BY <1>3

\* The smallest of some indices is one of them.
LEMMA MinIndex ==
  ASSUME NEW R \in SUBSET Nat, R # {}
  PROVE  Min(R) \in R /\ \A n \in R : Min(R) <= n
<1>1. \E m \in R : \A n \in R : m <= n
  BY LeastNumber
<1> QED
  BY <1>1 DEF Min

-----------------------------------------------------------------------------
(* Flattening *)

\* F is the flattening of s, piece by piece.
Flattens(F, s) ==
  /\ F[0] = <<>>
  /\ \A i \in 1..Len(s) : F[i] = F[i - 1] \o s[i]

\* Every sequence of sequences has one.
LEMMA FlatteningExists ==
  ASSUME NEW C, NEW s \in Seq(Seq(C))
  PROVE  \E F \in [0..Len(s) -> Seq(C)] : Flattens(F, s)
<1> DEFINE Upto(F, k) == F[0] = <<>> /\ \A i \in 1..k : F[i] = F[i - 1] \o s[i]
           Failing == {k \in 0..Len(s) : ~ \E F \in [0..k -> Seq(C)] : Upto(F, k)}
<1>0. Len(s) \in Nat /\ \A i \in 1..Len(s) : s[i] \in Seq(C)
  OBVIOUS
<1>1. Failing = {}
  <2>1. SUFFICES ASSUME Failing # {} PROVE FALSE
    OBVIOUS
  <2>2. PICK m \in Failing : \A k \in Failing : m <= k
    <3> HIDE DEF Upto
    <3>1. Failing \in SUBSET Nat
      BY <1>0
    <3> HIDE DEF Failing
    <3> QED
      BY <2>1, <3>1, LeastNumber
  <2>3. CASE m = 0
    <3>1. [i \in 0..0 |-> <<>>] \in [0..0 -> Seq(C)] /\ Upto([i \in 0..0 |-> <<>>], 0)
      OBVIOUS
    <3> QED
      BY <2>2, <2>3, <3>1
  <2>4. CASE m > 0
    <3>1. m \in 1..Len(s) /\ m - 1 \in 0..Len(s) /\ ~(m <= m - 1)
      BY <1>0, <2>2, <2>4
    <3>2. m - 1 \notin Failing
      BY <2>2, <3>1
    <3>3. PICK F \in [0..(m - 1) -> Seq(C)] : Upto(F, m - 1)
      BY <3>1, <3>2
    <3> DEFINE end == F[m - 1] \o s[m]
               G == [i \in 0..m |-> IF i = m THEN end ELSE F[i]]
    <3>4. end \in Seq(C)
      <4>1. F[m - 1] \in Seq(C)
        BY <3>1
      <4> QED
        BY <1>0, <3>1, <4>1, ConcatProperties
    <3> HIDE DEF end
    <3>5. \A i \in 0..m : i = m \/ i \in 0..(m - 1)
      BY <3>1
    <3>6. G \in [0..m -> Seq(C)]
      BY <3>4, <3>5
    <3>7. \A i \in 0..(m - 1) : G[i] = F[i]
      BY <1>0, <3>1
    <3>8. G[m] = end /\ 0 \in 0..(m - 1) /\ m - 1 \in 0..(m - 1)
      BY <1>0, <3>1
    <3> HIDE DEF G
    <3>9. ASSUME NEW i \in 1..m
          PROVE  G[i] = G[i - 1] \o s[i]
      <4>1. CASE i = m
        BY <3>7, <3>8, <4>1 DEF end
      <4>2. CASE i # m
        <5>1. i \in 1..(m - 1) /\ i \in 0..(m - 1) /\ i - 1 \in 0..(m - 1)
          BY <3>1, <4>2
        <5> QED
          BY <3>3, <3>7, <5>1
      <4> QED
        BY <4>1, <4>2
    <3>10. Upto(G, m)
      BY <3>3, <3>7, <3>8, <3>9
    <3> QED
      BY <2>2, <3>6, <3>10
  <2> QED
    BY <1>0, <2>2, <2>3, <2>4
<1>2. Len(s) \in 0..Len(s)
  BY <1>0
<1> QED
  BY <1>1, <1>2 DEF Flattens

\* So a sequence has one flattening.
LEMMA FlatteningUnique ==
  ASSUME NEW s, NEW F, NEW G, Len(s) \in Nat, Flattens(F, s), Flattens(G, s)
  PROVE  F[Len(s)] = G[Len(s)]
<1> DEFINE Failing == {k \in 0..Len(s) : F[k] # G[k]}
<1>1. SUFFICES ASSUME Failing # {} PROVE FALSE
  OBVIOUS
<1>2. PICK m \in Failing : \A k \in Failing : m <= k
  <2>1. Failing \in SUBSET Nat
    OBVIOUS
  <2> HIDE DEF Failing
  <2> QED
    BY <1>1, <2>1, LeastNumber
<1>3. m # 0
  BY <1>2 DEF Flattens
<1>4. m \in 1..Len(s) /\ m - 1 \in 0..Len(s) /\ ~(m <= m - 1)
  BY <1>2, <1>3
<1>5. F[m - 1] = G[m - 1]
  BY <1>2, <1>4
<1>6. F[m] = F[m - 1] \o s[m] /\ G[m] = G[m - 1] \o s[m]
  BY <1>4 DEF Flattens
<1> QED
  BY <1>2, <1>5, <1>6

\* FlattenSeq() is where the flattening ends.
LEMMA FlattenSeqIs ==
  ASSUME NEW C, NEW s \in Seq(Seq(C)), NEW F, Flattens(F, s)
  PROVE  FlattenSeq(s) = F[Len(s)]
<1>1. CASE Len(s) = 0
  <2>1. s = <<>>
    BY <1>1
  <2> QED
    BY <1>1, <2>1 DEF FlattenSeq, Flattens
<1>2. CASE Len(s) # 0
  <2> DEFINE Is(f) == f = [i \in 1..Len(s) |-> IF i = 1 THEN s[i] ELSE f[i - 1] \o s[i]]
             flatten == CHOOSE f : Is(f)
  <2>1. PICK G \in [0..Len(s) -> Seq(C)] : Flattens(G, s)
    BY FlatteningExists
  <2> DEFINE g == [i \in 1..Len(s) |-> G[i]]
  <2>2. \A i \in 1..Len(s) : g[i] = IF i = 1 THEN s[i] ELSE g[i - 1] \o s[i]
    <3>1. SUFFICES ASSUME NEW i \in 1..Len(s)
                   PROVE  g[i] = IF i = 1 THEN s[i] ELSE g[i - 1] \o s[i]
      OBVIOUS
    <3>2. g[i] = G[i - 1] \o s[i]
      BY <2>1 DEF Flattens
    <3>3. CASE i = 1
      <4>1. G[i - 1] = <<>> /\ s[i] \in Seq(C)
        BY <2>1, <3>3 DEF Flattens
      <4> QED
        BY <3>2, <3>3, <4>1
    <3>4. CASE i # 1
      <4>1. i - 1 \in 1..Len(s)
        BY <3>4
      <4> QED
        BY <3>2, <3>4, <4>1
    <3> QED
      BY <3>3, <3>4
  <2>3. Is(g)
    BY <2>2
  <2>4. Is(flatten)
    BY <2>3
  <2> DEFINE H == [i \in 0..Len(s) |-> IF i = 0 THEN <<>> ELSE flatten[i]]
  <2>5. FlattenSeq(s) = flatten[Len(s)]
    BY <1>2 DEF FlattenSeq
  <2> HIDE DEF flatten
  <2>6. \A i \in 1..Len(s) : flatten[i] = IF i = 1 THEN s[i] ELSE flatten[i - 1] \o s[i]
    BY <2>4
  <2>7. Flattens(H, s)
    <3>1. Len(s) \in Nat /\ H[0] = <<>> /\ \A i \in 1..Len(s) : H[i] = flatten[i]
      OBVIOUS
    <3> HIDE DEF H
    <3>2. ASSUME NEW i \in 1..Len(s)
          PROVE  H[i] = H[i - 1] \o s[i]
      <4>1. CASE i = 1
        <5>1. i - 1 = 0 /\ s[i] \in Seq(C) /\ <<>> \o s[i] = s[i]
          BY <4>1
        <5> QED
          BY <2>6, <3>1, <4>1, <5>1
      <4>2. CASE i # 1
        <5>1. i - 1 \in 1..Len(s)
          BY <4>2
        <5> QED
          BY <2>6, <3>1, <4>2, <5>1
      <4> QED
        BY <4>1, <4>2
    <3> QED
      BY <3>1, <3>2 DEF Flattens
  <2>8. Len(s) \in Nat /\ H[Len(s)] = flatten[Len(s)] /\ H[0] = F[0]
    BY <1>2, <2>7 DEF Flattens
  <2> HIDE DEF H
  <2>10. F[Len(s)] = H[Len(s)]
    BY <2>7, <2>8, FlatteningUnique
  <2> QED
    BY <2>5, <2>8, <2>10
<1> QED
  BY <1>1, <1>2

\* Concatenation under a name of its own, which the provers match more easily.
Cat(s, t) == s \o t

LEMMA CatAssociative ==
  ASSUME NEW C, NEW a \in Seq(C), NEW b \in Seq(C), NEW c \in Seq(C)
  PROVE  Cat(Cat(a, b), c) = Cat(a, Cat(b, c))
BY DEF Cat

\* Flattening nothing.
LEMMA FlattenNone == FlattenSeq(<<>>) = <<>>
BY DEF FlattenSeq

\* Flattening one sequence after the other.
LEMMA FlattenCat ==
  ASSUME NEW C, NEW s \in Seq(Seq(C)), NEW t \in Seq(Seq(C))
  PROVE  FlattenSeq(s \o t) = FlattenSeq(s) \o FlattenSeq(t) /\ FlattenSeq(s) \in Seq(C)
<1> DEFINE m == Len(s)
           n == Len(t)
           u == s \o t
<1>1. m \in Nat /\ n \in Nat
  OBVIOUS
<1>2. /\ u \in Seq(Seq(C)) /\ Len(u) = m + n
      /\ \A i \in 1..m : u[i] = s[i]
      /\ \A i \in 1..n : u[m + i] = t[i] /\ t[i] \in Seq(C)
  BY ConcatProperties
<1>3. PICK F \in [0..m -> Seq(C)] : Flattens(F, s)
  BY FlatteningExists
<1>4. PICK G \in [0..n -> Seq(C)] : Flattens(G, t)
  BY FlatteningExists
<1>5. FlattenSeq(s) = F[m] /\ FlattenSeq(t) = G[n] /\ F[m] \in Seq(C)
  BY <1>1, <1>3, <1>4, FlattenSeqIs
<1> DEFINE H == [i \in 0..(m + n) |-> IF i <= m THEN F[i] ELSE F[m] \o G[i - m]]
<1> HIDE DEF m, n, u
<1>6. /\ \A i \in 0..m : H[i] = F[i]
      /\ \A i \in 1..n : H[m + i] = F[m] \o G[i]
  <2>1. \A i \in 0..m : i \in 0..(m + n) /\ i <= m
    BY <1>1
  <2>3. \A i \in 0..(m + n) : H[i] = IF i <= m THEN F[i] ELSE F[m] \o G[i - m]
    OBVIOUS
  <2> HIDE DEF H
  <2>4. ASSUME NEW i \in 1..n
        PROVE  H[m + i] = F[m] \o G[i]
    <3>1. PICK k : k = m + i
      OBVIOUS
    <3>2. k \in 0..(m + n) /\ ~(k <= m) /\ k - m = i
      BY <1>1, <3>1
    <3>3. H[k] = F[m] \o G[k - m]
      BY <2>3, <3>2
    <3> QED
      BY <3>1, <3>2, <3>3
  <2> QED
    BY <2>1, <2>3, <2>4
<1> HIDE DEF H
<1>7. G[0] = <<>> /\ F[0] = <<>>
  BY <1>3, <1>4 DEF Flattens
<1>8. \A i \in 0..n : H[m + i] = F[m] \o G[i]
  <2>1. H[m + 0] = F[m] \o G[0]
    <3>1. m + 0 = m /\ m \in 0..m /\ F[m] \o <<>> = F[m]
      BY <1>1, <1>5
    <3> QED
      BY <1>6, <1>7, <3>1
  <2>2. \A i \in 0..n : i = 0 \/ i \in 1..n
    BY <1>1
  <2> QED
    BY <1>6, <2>1, <2>2
<1>9. ASSUME NEW i \in 1..(m + n)
      PROVE  H[i] = H[i - 1] \o u[i]
  <2>1. CASE i <= m
    <3>1. i \in 1..m /\ i \in 0..m /\ i - 1 \in 0..m
      BY <1>1, <2>1
    <3>2. F[i] = F[i - 1] \o s[i]
      BY <1>3, <3>1 DEF Flattens, m
    <3> QED
      BY <1>2, <1>6, <3>1, <3>2
  <2>2. CASE ~(i <= m)
    <3>1. PICK j \in 1..n : i = m + j
      <4>1. i - m \in 1..n /\ i = m + (i - m)
        BY <1>1, <2>2
      <4> QED
        BY <4>1
    <3>2. PICK k \in 0..n : k = j - 1 /\ i - 1 = m + k
      <4>1. j - 1 \in 0..n /\ i - 1 = m + (j - 1)
        BY <1>1, <3>1
      <4> QED
        BY <4>1
    <3>3. PICK a, b, c : a = F[m] /\ b = G[k] /\ c = t[j]
      OBVIOUS
    <3>4. a \in Seq(C) /\ b \in Seq(C) /\ c \in Seq(C)
      BY <1>2, <1>4, <1>5, <3>1, <3>2, <3>3
    <3>5. G[j] = b \o c
      BY <1>4, <3>1, <3>2, <3>3 DEF Flattens, n
    <3>6. H[i] = a \o (b \o c)
      <4>1. j \in 0..n
        BY <1>1
      <4> QED
        BY <1>8, <3>1, <3>3, <3>5, <4>1
    <3>7. H[i - 1] = a \o b
      BY <1>8, <3>2, <3>3
    <3>8. u[i] = c
      BY <1>2, <3>1, <3>3
    <3>9. (a \o b) \o c = a \o (b \o c)
      <4>1. Cat(Cat(a, b), c) = Cat(a, Cat(b, c))
        BY <3>4, CatAssociative, SMT
      <4> QED
        BY <4>1, Zenon DEF Cat
    <3> QED
      BY <3>6, <3>7, <3>8, <3>9, Zenon
  <2> QED
    BY <2>1, <2>2
<1>10. Flattens(H, u)
  <2>1. H[0] = <<>>
    BY <1>1, <1>6, <1>7
  <2> QED
    BY <1>2, <1>9, <2>1 DEF Flattens
<1>11. FlattenSeq(u) = H[Len(u)]
  BY <1>2, <1>10, FlattenSeqIs
<1>12. H[m + n] = F[m] \o G[n]
  <2>1. n \in 0..n
    BY <1>1
  <2> QED
    BY <1>8, <2>1
<1> QED
  BY <1>2, <1>5, <1>11, <1>12 DEF u

\* And one more piece.
LEMMA FlattenAppend ==
  ASSUME NEW C, NEW s \in Seq(Seq(C)), NEW x \in Seq(C)
  PROVE  FlattenSeq(Append(s, x)) = FlattenSeq(s) \o x
<1>1. <<x>> \in Seq(Seq(C)) /\ Append(s, x) = s \o <<x>>
  OBVIOUS
<1>2. FlattenSeq(<<x>>) = x
  <2> DEFINE F == [i \in 0..1 |-> IF i = 0 THEN <<>> ELSE x]
  <2>1. Len(<<x>>) = 1 /\ <<x>>[1] = x /\ F[0] = <<>> /\ F[1] = x /\ <<>> \o x = x
    OBVIOUS
  <2> HIDE DEF F
  <2>2. Flattens(F, <<x>>)
    <3>1. \A i \in 1..1 : i = 1 /\ i - 1 = 0
      OBVIOUS
    <3> QED
      BY <2>1, <3>1 DEF Flattens
  <2>3. FlattenSeq(<<x>>) = F[Len(<<x>>)]
    BY <1>1, <2>2, FlattenSeqIs
  <2> QED
    BY <2>1, <2>3
<1>3. FlattenSeq(s \o <<x>>) = FlattenSeq(s) \o FlattenSeq(<<x>>)
  BY <1>1, FlattenCat
<1> QED
  BY <1>1, <1>2, <1>3

\* The first elements of a sequence.
LEMMA FrontIs ==
  ASSUME NEW C, NEW s \in Seq(C), NEW m \in 0..Len(s)
  PROVE  SubSeq(s, 1, m) \in Seq(C) /\ Len(SubSeq(s, 1, m)) = m /\ \A i \in 1..m : SubSeq(s, 1, m)[i] = s[i]
OBVIOUS

-----------------------------------------------------------------------------
(* Occurrences *)

\* s occurs in t behind a place.
OccursAt(t, from, s) ==
  from + Len(s) <= Len(t) /\ \A j \in 1..Len(s) : t[from + j] = s[j]

\* A sequence is itself from its beginning.
LEMMA OccursInItself ==
  ASSUME NEW C, NEW s \in Seq(C)
  PROVE  OccursAt(s, 0, s)
BY DEF OccursAt

\* Both parts of a concatenation occur where it does.
LEMMA OccursCat ==
  ASSUME NEW C, NEW t \in Seq(C), NEW r \in Seq(C), NEW s \in Seq(C), NEW from \in Nat,
         OccursAt(t, from, r \o s)
  PROVE  OccursAt(t, from, r) /\ OccursAt(t, from + Len(r), s) /\ Len(r \o s) = Len(r) + Len(s)
<1>1. /\ Len(r) \in Nat /\ Len(s) \in Nat /\ Len(t) \in Nat /\ Len(r \o s) = Len(r) + Len(s)
      /\ \A j \in 1..Len(r) : (r \o s)[j] = r[j]
  OBVIOUS
<1>2. \A j \in 1..Len(s) : (r \o s)[Len(r) + j] = s[j]
  OBVIOUS
<1>3. from + Len(r \o s) <= Len(t) /\ \A j \in 1..Len(r \o s) : t[from + j] = (r \o s)[j]
  BY DEF OccursAt
<1>4. ASSUME NEW j \in 1..Len(r)
      PROVE  t[from + j] = r[j]
  <2>1. j \in 1..Len(r \o s)
    BY <1>1
  <2> QED
    BY <1>1, <1>3, <2>1
<1>5. ASSUME NEW j \in 1..Len(s)
      PROVE  t[from + Len(r) + j] = s[j]
  <2>1. PICK k \in 1..Len(r \o s) : k = Len(r) + j
    BY <1>1
  <2>2. t[from + k] = s[j]
    BY <1>2, <1>3, <2>1
  <2>3. from + k = from + Len(r) + j
    BY <1>1, <2>1
  <2> QED
    BY <2>2, <2>3
<1>6. from + Len(r) <= Len(t) /\ from + Len(r) + Len(s) <= Len(t)
  BY <1>1, <1>3
<1> QED
  BY <1>1, <1>4, <1>5, <1>6 DEF OccursAt

\* The second part may be a single element.
LEMMA OccursCatOne ==
  ASSUME NEW C, NEW t \in Seq(C), NEW r \in Seq(C), NEW c \in C, NEW from \in Nat,
         OccursAt(t, from, r \o <<c>>)
  PROVE  OccursAt(t, from, r) /\ OccursAt(t, from + Len(r), <<c>>) /\ Len(r \o <<c>>) = Len(r) + 1
<1>1. PICK s \in Seq(C) : s = <<c>>
  <2>1. <<c>> \in Seq(C)
    OBVIOUS
  <2> QED
    BY <2>1, Zenon
<1>2. OccursAt(t, from, r \o s)
  BY <1>1
<1>3. OccursAt(t, from, r) /\ OccursAt(t, from + Len(r), s) /\ Len(r \o s) = Len(r) + Len(s)
  BY <1>2, OccursCat
<1>4. Len(s) = 1
  BY <1>1
<1> QED
  BY <1>1, <1>3, <1>4

\* And it occurs where they do.
LEMMA CatOccurs ==
  ASSUME NEW C, NEW t \in Seq(C), NEW r \in Seq(C), NEW s \in Seq(C), NEW from \in Nat,
         OccursAt(t, from, r), OccursAt(t, from + Len(r), s)
  PROVE  OccursAt(t, from, r \o s) /\ Len(r \o s) = Len(r) + Len(s)
<1>1. /\ Len(r) \in Nat /\ Len(s) \in Nat /\ Len(t) \in Nat /\ Len(r \o s) = Len(r) + Len(s)
      /\ \A j \in 1..Len(r) : (r \o s)[j] = r[j]
  OBVIOUS
<1>2. \A j \in 1..Len(s) : (r \o s)[Len(r) + j] = s[j]
  OBVIOUS
<1>3. from + Len(r) + Len(s) <= Len(t)
  BY DEF OccursAt
<1>4. ASSUME NEW j \in 1..Len(r \o s)
      PROVE  t[from + j] = (r \o s)[j]
  <2>1. CASE j <= Len(r)
    BY <1>1, <2>1 DEF OccursAt
  <2>2. CASE j > Len(r)
    <3>1. PICK i \in 1..Len(s) : j = Len(r) + i
      <4>1. j - Len(r) \in 1..Len(s) /\ j = Len(r) + (j - Len(r))
        BY <1>1, <2>2
      <4> QED
        BY <4>1
    <3>2. t[from + Len(r) + i] = s[i] /\ from + Len(r) + i = from + j
      BY <1>1, <3>1 DEF OccursAt
    <3> QED
      BY <1>2, <3>1, <3>2
  <2> QED
    BY <1>1, <2>1, <2>2
<1> QED
  BY <1>1, <1>3, <1>4 DEF OccursAt

\* What is not in a sequence is not where it occurs.
LEMMA OccursWithout ==
  ASSUME NEW C, NEW t \in Seq(C), NEW s \in Seq(C), NEW from \in Nat, OccursAt(t, from, s),
         NEW c, c \notin ToSet(s), NEW j \in Nat, from < j, j <= from + Len(s)
  PROVE  t[j] # c
<1>1. PICK i \in 1..Len(s) : j = from + i
  <2>1. j - from \in 1..Len(s) /\ j = from + (j - from)
    OBVIOUS
  <2> QED
    BY <2>1
<1>2. t[j] = s[i]
  BY <1>1 DEF OccursAt
<1> QED
  BY <1>2 DEF ToSet

\* A single element occurs where it is.
LEMMA OccursOne ==
  ASSUME NEW C, NEW t \in Seq(C), NEW c \in C, NEW from \in Nat, OccursAt(t, from, <<c>>)
  PROVE  from + 1 <= Len(t) /\ t[from + 1] = c
<1>1. Len(<<c>>) = 1 /\ <<c>>[1] = c /\ 1 \in 1..1
  OBVIOUS
<1> QED
  BY <1>1 DEF OccursAt

\* What occurs can be cut out.
LEMMA SubSeqOfOccurrence ==
  ASSUME NEW C, NEW t \in Seq(C), NEW s \in Seq(C), NEW from \in Nat, OccursAt(t, from, s)
  PROVE  SubSeq(t, from + 1, from + Len(s)) = s
<1>1. Len(s) \in Nat /\ Len(t) \in Nat /\ from + Len(s) <= Len(t)
  BY DEF OccursAt
<1>2. \A j \in 1..Len(s) : t[from + j] = s[j]
  BY DEF OccursAt
<1> DEFINE u == SubSeq(t, from + 1, from + Len(s))
<1>3. u \in Seq(C) /\ Len(u) = Len(s)
  BY <1>1
<1>4. ASSUME NEW j \in 1..Len(s)
      PROVE  u[j] = s[j]
  <2>1. u[j] = t[from + 1 + j - 1]
    BY <1>1
  <2>2. from + 1 + j - 1 = from + j
    BY <1>1
  <2> QED
    BY <1>2, <2>1, <2>2
<1> HIDE DEF u
<1>5. u = s
  BY <1>3, <1>4
<1> QED
  BY <1>5 DEF u

\* All parts of a flattening occur one behind the other.
LEMMA OccursFlattened ==
  ASSUME NEW C, NEW t \in Seq(C), NEW s \in Seq(Seq(C)), NEW from \in Nat,
         NEW F \in [0..Len(s) -> Seq(C)], Flattens(F, s), NEW whole, whole = F[Len(s)], OccursAt(t, from, whole),
         NEW m \in 1..Len(s), NEW before, before = F[m - 1], NEW piece, piece = s[m]
  PROVE  OccursAt(t, from + Len(before), piece)
<1> DEFINE n == Len(s)
           Failing == {k \in 0..n : ~OccursAt(t, from, F[n - k])}
<1>1. n \in Nat /\ \A i \in 1..n : s[i] \in Seq(C) /\ F[i] = F[i - 1] \o s[i]
  <2>1. \A i \in 1..n : F[i] = F[i - 1] \o s[i]
    BY DEF Flattens
  <2>2. n \in Nat /\ \A i \in 1..n : s[i] \in Seq(C)
    OBVIOUS
  <2> HIDE DEF n
  <2> QED
    BY <2>1, <2>2
<1>2. \A i \in 0..n : F[i] \in Seq(C)
  OBVIOUS
<1>3. ASSUME NEW i \in 1..n, OccursAt(t, from, F[i])
      PROVE  /\ OccursAt(t, from, F[i - 1]) /\ OccursAt(t, from + Len(F[i - 1]), s[i])
             /\ Len(F[i]) = Len(F[i - 1]) + Len(s[i])
  <2>1. F[i - 1] \in Seq(C) /\ s[i] \in Seq(C) /\ F[i] = F[i - 1] \o s[i]
    <3>1. i - 1 \in 0..n
      BY <1>1
    <3> QED
      BY <1>1, <1>2, <3>1
  <2>2. PICK r, e : r = F[i - 1] /\ e = s[i] /\ r \in Seq(C) /\ e \in Seq(C)
    BY <2>1
  <2>3. F[i] = r \o e
    BY <2>1, <2>2, Zenon
  <2>4. OccursAt(t, from, r \o e)
    BY <1>3, <2>3
  <2>5. OccursAt(t, from, r) /\ OccursAt(t, from + Len(r), e) /\ Len(r \o e) = Len(r) + Len(e)
    BY <2>2, <2>4, OccursCat
  <2> QED
    BY <2>2, <2>3, <2>5
<1>4. Failing = {}
  <2>1. SUFFICES ASSUME Failing # {} PROVE FALSE
    OBVIOUS
  <2>2. PICK k \in Failing : \A i \in Failing : k <= i
    <3>1. Failing \in SUBSET Nat
      OBVIOUS
    <3> HIDE DEF Failing
    <3> QED
      BY <2>1, <3>1, LeastNumber
  <2>3. k \in 0..n /\ ~OccursAt(t, from, F[n - k])
    OBVIOUS
  <2>4. k # 0
    <3>1. n - 0 = n
      BY <1>1
    <3> QED
      BY <2>3, <3>1
  <2>5. k - 1 \in 0..n /\ ~(k <= k - 1) /\ n - (k - 1) \in 1..n /\ n - (k - 1) - 1 = n - k
    BY <1>1, <2>3, <2>4
  <2>6. OccursAt(t, from, F[n - (k - 1)])
    BY <2>2, <2>5
  <2>7. OccursAt(t, from, F[n - (k - 1) - 1])
    BY <1>3, <2>5, <2>6
  <2> QED
    BY <2>3, <2>5, <2>7
<1>5. OccursAt(t, from, F[m])
  <2>1. n - m \in 0..n /\ n - (n - m) = m
    BY <1>1
  <2>2. n - m \notin Failing
    BY <1>4
  <2> QED
    BY <2>1, <2>2
<1> QED
  BY <1>3, <1>5

=============================================================================
