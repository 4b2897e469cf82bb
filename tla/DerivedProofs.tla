----------------------------- MODULE DerivedProofs -----------------------------
(***************************************************************************)
(* Proofs about what is derived from the content and read of it.           *)
(* ContentPaging: keys made of times and positions of any length are a     *)
(* total order, and a client that reads on gets every row of any bucket    *)
(* once, by time.  SortScheduler: for any waitDuration and any number of   *)
(* transactions and restarts.  ContentSearch: for any number of ids,       *)
(* versions and restarts.  And the three together.                         *)
(***************************************************************************)
EXTENDS MCSortScheduler, SequenceTheorems, FiniteSetTheorems, TLAPS

------------------------------------------------------------------------------
(* Induction over numbers: the least counterexample of what is claimed.    *)

\* The least element of a set of numbers.
LEMMA LeastNumber ==
    ASSUME NEW T \in SUBSET Nat, T # {}
    PROVE  \E m \in T : \A k \in T : m <= k
<1>1. PICK m \in T : \A k \in T : <<k, m>> \notin OpToRel(<, Nat)
  BY NatLessThanWellFounded, WFMin
<1>2. ASSUME NEW k \in T
      PROVE  m <= k
  <2>1. <<k, m>> \notin OpToRel(<, Nat)
    BY <1>1
  <2>2. k \in Nat /\ m \in Nat
    OBVIOUS
  <2>3. ~(k < m)
    BY <2>1, <2>2 DEF OpToRel
  <2> QED BY <2>2, <2>3
<1> QED BY <1>2

\* A definition by course of values has a solution: G[n][h] is the value at n when
\* h has the values before n.
StaysIn(S, G) == \A n \in Nat : \A h \in [0 .. n - 1 -> S] : G[n][h] \in S

Follows(f, G) == \A n \in Nat : f[n] = G[n][[m \in 0 .. n - 1 |-> f[m]]]

LEMMA CourseOfValues ==
    ASSUME NEW S, NEW G, StaysIn(S, G)
    PROVE  \E f \in [Nat -> S] : Follows(f, G)
<1> USE DEF StaysIn, Follows
<1> DEFINE Solves(g, n) == \A i \in 0 .. n : g[i] = G[i][[m \in 0 .. i - 1 |-> g[m]]]
           Upto(n) == {g \in [0 .. n -> S] : Solves(g, n)}
<1>1. ASSUME NEW n \in Nat, NEW k \in n .. n + 1, NEW g \in Upto(n), NEW h \in Upto(k)
      PROVE  \A i \in 0 .. n : g[i] = h[i]
  <2> DEFINE Bad == {i \in 0 .. n : g[i] # h[i]}
  <2> SUFFICES ASSUME Bad # {} PROVE FALSE
    OBVIOUS
  <2>1. PICK i \in Bad : \A j \in Bad : i <= j
    <3>1. Bad \in SUBSET Nat
      OBVIOUS
    <3> HIDE DEF Bad
    <3> QED BY <3>1, LeastNumber
  <2>2. \A j \in 0 .. i - 1 : g[j] = h[j]
    BY <2>1
  <2>3. [m \in 0 .. i - 1 |-> g[m]] = [m \in 0 .. i - 1 |-> h[m]]
    BY <2>2
  <2>4. g[i] = G[i][[m \in 0 .. i - 1 |-> g[m]]] /\ h[i] = G[i][[m \in 0 .. i - 1 |-> h[m]]]
    BY <2>1
  <2> QED BY <2>1, <2>3, <2>4
<1>2. ASSUME NEW n \in Nat, NEW g \in [0 .. n - 1 -> S], \A i \in 0 .. n - 1 : Solves(g, i)
      PROVE  \E h \in Upto(n) : \A i \in 0 .. n - 1 : h[i] = g[i]
  <2> DEFINE h == [i \in 0 .. n |-> IF i = n THEN G[n][g] ELSE g[i]]
  <2>1. G[n][g] \in S
    OBVIOUS
  <2>2. h \in [0 .. n -> S]
    BY <2>1
  <2>3. \A i \in 0 .. n - 1 : h[i] = g[i]
    OBVIOUS
  <2>4. ASSUME NEW i \in 0 .. n
        PROVE  h[i] = G[i][[m \in 0 .. i - 1 |-> h[m]]]
    <3>1. [m \in 0 .. i - 1 |-> h[m]] = [m \in 0 .. i - 1 |-> g[m]]
      BY <2>3
    <3>2. CASE i = n
      <4>1. [m \in 0 .. n - 1 |-> g[m]] = g
        OBVIOUS
      <4> QED BY <3>1, <3>2, <4>1
    <3>3. CASE i \in 0 .. n - 1
      <4>1. g[i] = G[i][[m \in 0 .. i - 1 |-> g[m]]]
        <5>1. Solves(g, i)
          <6> HIDE DEF Solves
          <6> QED BY <1>2, <3>3
        <5>2. i \in 0 .. i
          OBVIOUS
        <5> QED BY <5>1, <5>2
      <4>2. h[i] = g[i]
        BY <2>3, <3>3
      <4> QED BY <3>1, <4>1, <4>2
    <3> QED BY <3>2, <3>3
  <2> HIDE DEF h
  <2> QED BY <2>2, <2>3, <2>4
<1>3. ASSUME NEW n \in Nat
      PROVE  Upto(n) # {}
  <2> SUFFICES ASSUME {k \in Nat : Upto(k) = {}} # {}
               PROVE  FALSE
    OBVIOUS
  <2> HIDE DEF Upto
  <2>1. PICK k \in {j \in Nat : Upto(j) = {}} : \A j \in {j \in Nat : Upto(j) = {}} : k <= j
    BY LeastNumber
  <2> USE DEF Upto
  <2>2. CASE k = 0
    <3>1. 0 .. k - 1 = {}
      BY <2>2
    <3>2. [i \in 0 .. k - 1 |-> {}] \in [0 .. k - 1 -> S]
      BY <3>1
    <3> HIDE DEF Upto, Solves
    <3> QED BY <1>2, <2>1, <3>1, <3>2
  <2>3. CASE k > 0
    <3>1. k - 1 \in Nat /\ Upto(k - 1) # {}
      BY <2>1, <2>3
    <3>2. PICK g \in Upto(k - 1) : TRUE
      BY <3>1
    <3>3. g \in [0 .. k - 1 -> S] /\ \A i \in 0 .. k - 1 : Solves(g, i)
      BY <2>1, <2>3, <3>2
    <3> HIDE DEF Upto, Solves
    <3> QED BY <1>2, <2>1, <3>3
  <2> QED BY <2>1, <2>2, <2>3
<1> DEFINE Last(n) == CHOOSE g \in Upto(n) : TRUE
           f == [n \in Nat |-> Last(n)[n]]
<1>4. ASSUME NEW n \in Nat
      PROVE  Last(n) \in Upto(n)
  <2> HIDE DEF Upto
  <2> QED BY <1>3
<1>5. ASSUME NEW n \in Nat
      PROVE  \A i \in 0 .. n : Last(n)[i] = f[i]
  <2> DEFINE Bad == {k \in Nat : \E i \in 0 .. k : Last(k)[i] # f[i]}
  <2> HIDE DEF Last, f
  <2> SUFFICES ASSUME Bad # {} PROVE FALSE
    OBVIOUS
  <2>1. PICK k \in Bad : \A j \in Bad : k <= j
    <3> HIDE DEF Bad
    <3>1. Bad \in SUBSET Nat
      BY DEF Bad
    <3> QED BY <3>1, LeastNumber
  <2>2. k \in Nat /\ f[k] = Last(k)[k]
    BY DEF f
  <2>3. PICK i \in 0 .. k : Last(k)[i] # f[i]
    OBVIOUS
  <2>4. i <= k - 1 /\ k - 1 \in Nat
    BY <2>2, <2>3
  <2>5. Last(k - 1)[i] = f[i]
    BY <2>1, <2>2, <2>4
  <2>6. Last(k - 1)[i] = Last(k)[i]
    <3>1. k \in k - 1 .. (k - 1) + 1 /\ i \in 0 .. k - 1
      BY <2>2, <2>3, <2>4
    <3>2. Last(k - 1) \in Upto(k - 1) /\ Last(k) \in Upto(k)
      BY <1>4, <2>2, <2>4
    <3> HIDE DEF Upto
    <3> QED BY <1>1, <2>4, <3>1, <3>2
  <2> QED BY <2>3, <2>5, <2>6
<1>6. ASSUME NEW n \in Nat
      PROVE  f[n] \in S /\ f[n] = G[n][[m \in 0 .. n - 1 |-> f[m]]]
  <2> HIDE DEF Last
  <2>1. /\ Last(n) \in [0 .. n -> S]
        /\ Last(n)[n] = G[n][[m \in 0 .. n - 1 |-> Last(n)[m]]]
    BY <1>4
  <2>2. f[n] = Last(n)[n]
    OBVIOUS
  <2> HIDE DEF f
  <2>3. [m \in 0 .. n - 1 |-> Last(n)[m]] = [m \in 0 .. n - 1 |-> f[m]]
    BY <1>5
  <2>4. f[n] \in S
    BY <2>1, <2>2
  <2> QED BY <2>1, <2>2, <2>3, <2>4
<1>7. f \in [Nat -> S]
  <2> HIDE DEF Last
  <2>1. \A n \in Nat : Last(n)[n] \in S
    BY <1>6
  <2> QED BY <2>1
<1> HIDE DEF f
<1> QED BY <1>6, <1>7
------------------------------------------------------------------------------
(* The order of the keys in a bucket.                                      *)

\* k comes before l where they differ first.
LEMMA BeforeAt ==
    ASSUME NEW k \in Seq(Nat), NEW l \in Seq(Nat)
    PROVE  Before(k, l) <=> \E n \in 1 .. Len(l) :
              /\ n <= Len(k) + 1
              /\ \A m \in 1 .. n - 1 : k[m] = l[m]
              /\ n > Len(k) \/ k[n] < l[n]
<1>1. ASSUME NEW n \in 0 .. Len(k), n <= Len(l)
      PROVE  SubSeq(k, 1, n) = SubSeq(l, 1, n) <=> \A m \in 1 .. n : k[m] = l[m]
  <2> DEFINE a == SubSeq(k, 1, n)
             b == SubSeq(l, 1, n)
  <2>1. /\ a \in Seq(Nat) /\ Len(a) = n
        /\ \A m \in 1 .. n : a[m] = k[m]
    <3>1. \A i \in 1 .. n : k[i] \in Nat
      BY <1>1
    <3> QED BY <3>1, SubSeqProperties
  <2>2. /\ b \in Seq(Nat) /\ Len(b) = n
        /\ \A m \in 1 .. n : b[m] = l[m]
    <3>1. \A i \in 1 .. n : l[i] \in Nat
      BY <1>1
    <3> QED BY <3>1, SubSeqProperties
  <2> HIDE DEF a, b
  <2>3. a = b <=> \A m \in 1 .. n : a[m] = b[m]
    BY <2>1, <2>2, SeqEqual
  <2>4. a = b <=> \A m \in 1 .. n : k[m] = l[m]
    BY <2>1, <2>2, <2>3
  <2> QED BY <2>4 DEF a, b
<1>2. SubSeq(k, 1, Len(k)) = k
  BY SubSeqFull
<1>3. Len(k) \in Nat /\ Len(l) \in Nat /\ DOMAIN k = 1 .. Len(k) /\ DOMAIN l = 1 .. Len(l)
  OBVIOUS
<1>4. ASSUME Before(k, l)
      PROVE  \E n \in 1 .. Len(l) :
                /\ n <= Len(k) + 1
                /\ \A m \in 1 .. n - 1 : k[m] = l[m]
                /\ n > Len(k) \/ k[n] < l[n]
  <2>1. CASE Len(k) < Len(l) /\ SubSeq(l, 1, Len(k)) = k
    <3>1. \A m \in 1 .. Len(k) : k[m] = l[m]
      BY <1>1, <1>2, <1>3, <2>1
    <3> DEFINE n == Len(k) + 1
    <3>2. n \in 1 .. Len(l) /\ n <= Len(k) + 1 /\ n > Len(k) /\ n - 1 = Len(k)
      BY <1>3, <2>1
    <3> HIDE DEF n
    <3>3. \A m \in 1 .. n - 1 : k[m] = l[m]
      BY <3>1, <3>2
    <3> QED BY <3>2, <3>3
  <2>2. CASE \E n \in DOMAIN k \cap DOMAIN l :
               k[n] < l[n] /\ SubSeq(k, 1, n - 1) = SubSeq(l, 1, n - 1)
    <3>1. PICK n \in DOMAIN k \cap DOMAIN l :
                 k[n] < l[n] /\ SubSeq(k, 1, n - 1) = SubSeq(l, 1, n - 1)
      BY <2>2
    <3>2. \A m \in 1 .. n - 1 : k[m] = l[m]
      BY <1>1, <1>3, <3>1
    <3>3. n \in 1 .. Len(l) /\ n <= Len(k) + 1 /\ k[n] < l[n]
      BY <1>3, <3>1
    <3> QED BY <3>2, <3>3
  <2> QED BY <1>4, <2>1, <2>2 DEF Before
<1>5. ASSUME NEW n \in 1 .. Len(l), n <= Len(k) + 1,
             \A m \in 1 .. n - 1 : k[m] = l[m],
             n > Len(k) \/ k[n] < l[n]
      PROVE  Before(k, l)
  <2>1. SubSeq(k, 1, n - 1) = SubSeq(l, 1, n - 1)
    BY <1>1, <1>3, <1>5
  <2>2. CASE n > Len(k)
    <3>1. n - 1 = Len(k)
      BY <1>3, <1>5, <2>2
    <3> QED BY <1>2, <1>3, <1>5, <2>1, <3>1 DEF Before
  <2>3. CASE n <= Len(k)
    <3>1. n \in DOMAIN k \cap DOMAIN l /\ k[n] < l[n]
      BY <1>3, <1>5, <2>3
    <3> QED BY <2>1, <3>1 DEF Before
  <2> QED BY <1>3, <2>2, <2>3
<1> QED BY <1>4, <1>5

LEMMA BeforeIrreflexive ==
    ASSUME NEW k \in Seq(Nat)
    PROVE  ~Before(k, k)
  BY BeforeAt

LEMMA BeforeTransitive ==
    ASSUME NEW k \in Seq(Nat), NEW l \in Seq(Nat), NEW h \in Seq(Nat),
           Before(k, l), Before(l, h)
    PROVE  Before(k, h)
<1>1. PICK n \in 1 .. Len(l) : /\ n <= Len(k) + 1
                               /\ \A i \in 1 .. n - 1 : k[i] = l[i]
                               /\ n > Len(k) \/ k[n] < l[n]
  BY BeforeAt
<1>2. PICK m \in 1 .. Len(h) : /\ m <= Len(l) + 1
                               /\ \A i \in 1 .. m - 1 : l[i] = h[i]
                               /\ m > Len(l) \/ l[m] < h[m]
  BY BeforeAt
<1>3. Len(k) \in Nat /\ Len(l) \in Nat /\ Len(h) \in Nat
  OBVIOUS
<1>4. CASE n <= m
  <2>1. n \in 1 .. Len(h) /\ \A i \in 1 .. n - 1 : k[i] = h[i]
    <3>1. n \in 1 .. Len(h)
      BY ONLY <1>3, <1>4, n \in 1 .. Len(l), m \in 1 .. Len(h)
    <3>2. ASSUME NEW i \in 1 .. n - 1 PROVE k[i] = h[i]
      <4>1. i \in 1 .. m - 1
        BY ONLY <1>4, <3>2, n \in 1 .. Len(l), m \in 1 .. Len(h)
      <4> QED BY <1>1, <1>2, <4>1
    <3> QED BY <3>1, <3>2
  <2>2. CASE n > Len(k)
    BY <1>1, <1>3, <2>1, <2>2, BeforeAt
  <2>3. CASE n <= Len(k)
    <3>1. k[n] \in Nat /\ l[n] \in Nat /\ h[n] \in Nat
      <4>1. n \in 1 .. Len(k) /\ n \in 1 .. Len(l) /\ n \in 1 .. Len(h)
        BY <1>3, <2>1, <2>3
      <4> QED BY <4>1, ElementOfSeq
    <3>2. k[n] < l[n]
      BY <1>1, <1>3, <2>3
    <3>3. CASE n < m
      <4>1. l[n] = h[n]
        BY <1>2, <3>3
      <4> QED BY <1>1, <1>3, <2>1, <3>2, <4>1, BeforeAt
    <3>4. CASE n = m
      <4>1. l[n] < h[n]
        BY <1>2, <1>3, <3>4
      <4>2. k[n] < h[n]
        BY <3>1, <3>2, <4>1
      <4> QED BY <1>1, <1>3, <2>1, <4>2, BeforeAt
    <3> QED BY <1>4, <3>3, <3>4
  <2> QED BY <1>3, <2>2, <2>3
<1>5. CASE m < n
  <2>1. m <= Len(k) /\ m <= Len(l)
    <3>1. n <= Len(k) + 1
      BY <1>1
    <3> QED BY ONLY <1>3, <1>5, <3>1, n \in 1 .. Len(l), m \in 1 .. Len(h)
  <2>2. \A i \in 1 .. m - 1 : k[i] = h[i]
    <3> SUFFICES ASSUME NEW i \in 1 .. m - 1 PROVE k[i] = h[i]
      OBVIOUS
    <3>1. i \in 1 .. n - 1
      BY <1>5
    <3> QED BY <1>1, <1>2, <3>1
  <2>3. k[m] = l[m] /\ l[m] < h[m]
    BY <1>1, <1>2, <1>3, <1>5, <2>1
  <2>4. k[m] < h[m] /\ m <= Len(k) + 1
    BY <1>3, <2>1, <2>3
  <2> QED BY <2>2, <2>4, BeforeAt
<1> QED BY <1>4, <1>5

LEMMA BeforeTotal ==
    ASSUME NEW k \in Seq(Nat), NEW l \in Seq(Nat), k # l
    PROVE  Before(k, l) \/ Before(l, k)
<1> DEFINE T == {n \in Nat \ {0} : n > Len(k) \/ n > Len(l) \/ k[n] # l[n]}
<1>1. Len(k) \in Nat /\ Len(l) \in Nat
  OBVIOUS
<1>2. T # {}
  <2>1. Len(k) + Len(l) + 1 \in T
    BY <1>1
  <2> QED BY <2>1
<1>3. PICK n \in T : \A i \in T : n <= i
  BY <1>2, LeastNumber
<1>4. \A i \in 1 .. n - 1 : i <= Len(k) /\ i <= Len(l) /\ k[i] = l[i]
  BY <1>1, <1>3
<1>5. n <= Len(k) + 1 /\ n <= Len(l) + 1
  <2>1. CASE n = 1
    BY <1>1, <2>1
  <2>2. CASE n > 1
    BY <1>1, <1>3, <1>4, <2>2
  <2> QED BY <1>3, <2>1, <2>2
<1>6. n <= Len(k) \/ n <= Len(l)
  <2> SUFFICES ASSUME n > Len(k), n > Len(l)
               PROVE FALSE
    BY <1>1, <1>3
  <2>1. Len(k) = n - 1 /\ Len(l) = n - 1
    BY <1>1, <1>3, <1>5
  <2> QED BY <1>4, <2>1, SeqEqual
<1>7. CASE n > Len(k)
  BY <1>1, <1>3, <1>4, <1>5, <1>6, <1>7, BeforeAt
<1>8. CASE n > Len(l)
  BY <1>1, <1>3, <1>4, <1>5, <1>6, <1>8, BeforeAt
<1>9. CASE n <= Len(k) /\ n <= Len(l)
  <2>1. k[n] \in Nat /\ l[n] \in Nat /\ k[n] # l[n] /\ n \in 1 .. Len(k) /\ n \in 1 .. Len(l)
    BY <1>1, <1>3, <1>9
  <2>2. k[n] < l[n] \/ l[n] < k[n]
    BY <2>1
  <2> QED BY <1>4, <1>5, <2>1, <2>2, BeforeAt
<1> QED BY <1>1, <1>3, <1>7, <1>8, <1>9
------------------------------------------------------------------------------
(* Keys.                                                                   *)

\* Division by ten, as the digits of a number need it.
LEMMA ByTen ==
    ASSUME NEW n \in Nat
    PROVE  /\ n \div 10 \in Nat /\ n % 10 \in 0 .. 9
           /\ n = 10 * (n \div 10) + (n % 10)
           /\ n >= 10 => n \div 10 \in 0 .. n - 1
  OBVIOUS

\* %d of any number is what its definition says: the recursion has a solution.
LEMMA DigitsStep ==
    \A n \in Nat : /\ n < 10 => Digits[n] = <<n>>
                   /\ n >= 10 => Digits[n] = Append(Digits[n \div 10], n % 10)
<1> DEFINE S == Seq(Nat)
           G == [n \in Nat |-> [h \in [0 .. n - 1 -> S] |->
                    IF n < 10 THEN <<n>> ELSE Append(h[n \div 10], n % 10)]]
           Is(f) == f = [n \in Nat |-> IF n < 10 THEN <<n>> ELSE Append(f[n \div 10], n % 10)]
<1>1. ASSUME NEW n \in Nat, NEW h \in [0 .. n - 1 -> S]
      PROVE  G[n][h] \in S
  <2>1. CASE n < 10
    BY <2>1
  <2>2. CASE n >= 10
    <3>1. n \div 10 \in 0 .. n - 1 /\ n % 10 \in Nat
      BY <2>2, ByTen
    <3>2. h[n \div 10] \in S
      BY <3>1
    <3>3. Append(h[n \div 10], n % 10) \in S
      BY <3>1, <3>2
    <3> QED BY <2>2, <3>3
  <2> QED BY <2>1, <2>2
<1>2. PICK f \in [Nat -> S] : Follows(f, G)
  <2> HIDE DEF G, S
  <2>1. StaysIn(S, G)
    BY <1>1 DEF StaysIn
  <2> QED BY <2>1, CourseOfValues
<1>3. Is(f)
  <2>1. ASSUME NEW n \in Nat
        PROVE  f[n] = IF n < 10 THEN <<n>> ELSE Append(f[n \div 10], n % 10)
    <3>1. [m \in 0 .. n - 1 |-> f[m]] \in [0 .. n - 1 -> S]
      <4> HIDE DEF S
      <4> QED OBVIOUS
    <3>2. n >= 10 => [m \in 0 .. n - 1 |-> f[m]][n \div 10] = f[n \div 10]
      BY ByTen
    <3>3. G[n][[m \in 0 .. n - 1 |-> f[m]]]
             = IF n < 10 THEN <<n>> ELSE Append([m \in 0 .. n - 1 |-> f[m]][n \div 10], n % 10)
      <4> HIDE DEF S
      <4> QED BY <3>1
    <3>4. f[n] = G[n][[m \in 0 .. n - 1 |-> f[m]]]
      <4> HIDE DEF G, S
      <4> QED BY <1>2 DEF Follows
    <3>5. CASE n < 10
      <4> HIDE DEF G, S, Is
      <4> QED BY <3>3, <3>4, <3>5
    <3>6. CASE n >= 10
      <4> HIDE DEF G, S, Is
      <4> QED BY <3>2, <3>3, <3>4, <3>6
    <3> QED BY <3>5, <3>6
  <2>2. f = [n \in Nat |-> f[n]]
    OBVIOUS
  <2> QED BY <2>1, <2>2
<1>4. Is(Digits)
  <2>1. Digits = CHOOSE g : Is(g)
    BY DEF Digits
  <2> HIDE DEF Is
  <2> QED BY <1>3, <2>1
<1>5. ASSUME NEW n \in Nat
      PROVE  Digits[n] = IF n < 10 THEN <<n>> ELSE Append(Digits[n \div 10], n % 10)
  BY <1>4
<1> HIDE DEF Is
<1>6. ASSUME NEW n \in Nat, n < 10
      PROVE  Digits[n] = <<n>>
  BY <1>5, <1>6
<1>7. ASSUME NEW n \in Nat, n >= 10
      PROVE  Digits[n] = Append(Digits[n \div 10], n % 10)
  <2>1. ~(n < 10)
    BY <1>7
  <2> QED BY <1>5, <2>1, Zenon
<1> QED BY <1>6, <1>7

LEMMA DigitsType ==
    \A n \in Nat : Digits[n] \in Seq(Nat) /\ Len(Digits[n]) >= 1
<1> DEFINE Bad == {n \in Nat : ~(Digits[n] \in Seq(Nat) /\ Len(Digits[n]) >= 1)}
<1> SUFFICES ASSUME Bad # {} PROVE FALSE
  OBVIOUS
<1>1. PICK n \in Bad : \A m \in Bad : n <= m
  <2>1. Bad \in SUBSET Nat
    OBVIOUS
  <2> HIDE DEF Bad
  <2> QED BY <2>1, LeastNumber
<1>2. CASE n < 10
  <2>1. n \in Nat
    OBVIOUS
  <2> HIDE DEF Bad
  <2>2. Digits[n] = <<n>>
    BY <1>2, <2>1, DigitsStep
  <2>3. Digits[n] \in Seq(Nat) /\ Len(Digits[n]) >= 1
    BY <2>1, <2>2
  <2> QED BY <2>3 DEF Bad
<1>3. CASE n >= 10
  <2>1. n \div 10 \in 0 .. n - 1 /\ n % 10 \in Nat
    BY <1>3, ByTen
  <2>2. n \div 10 \notin Bad
    BY <1>1, <2>1
  <2>3. Digits[n \div 10] \in Seq(Nat)
    BY <2>1, <2>2
  <2>4. Digits[n] = Append(Digits[n \div 10], n % 10)
    <3>1. n \in Nat
      OBVIOUS
    <3> HIDE DEF Bad
    <3> QED BY <1>3, <3>1, DigitsStep
  <2> HIDE DEF Bad
  <2>5. Digits[n] \in Seq(Nat) /\ Len(Digits[n]) >= 1
    BY <2>1, <2>3, <2>4, AppendProperties, LenProperties
  <2> QED BY <2>5 DEF Bad
<1> QED BY <1>2, <1>3

\* Two numbers are never written alike.
LEMMA DigitsDiffer ==
    \A n, m \in Nat : Digits[n] = Digits[m] => n = m
<1> DEFINE Bad == {n \in Nat : \E m \in Nat : Digits[n] = Digits[m] /\ n # m}
<1> SUFFICES ASSUME Bad # {} PROVE FALSE
  OBVIOUS
<1>1. PICK n \in Bad : \A m \in Bad : n <= m
  <2>1. Bad \in SUBSET Nat
    OBVIOUS
  <2> HIDE DEF Bad
  <2> QED BY <2>1, LeastNumber
<1>2. PICK m \in Nat : Digits[n] = Digits[m] /\ n # m
  OBVIOUS
<1>3. ASSUME NEW k \in Nat, k >= 10
      PROVE  /\ k \div 10 \in 0 .. k - 1 /\ k % 10 \in Nat
             /\ Digits[k] = Append(Digits[k \div 10], k % 10)
             /\ Digits[k \div 10] \in Seq(Nat) /\ Len(Digits[k]) >= 2
  <2>1. k \div 10 \in 0 .. k - 1 /\ k % 10 \in Nat
    BY <1>3, ByTen
  <2>2. Digits[k] = Append(Digits[k \div 10], k % 10)
    BY <1>3, DigitsStep
  <2>3. Digits[k \div 10] \in Seq(Nat) /\ Len(Digits[k \div 10]) >= 1
    BY <2>1, DigitsType
  <2>4. Len(Digits[k]) = Len(Digits[k \div 10]) + 1
    BY <2>1, <2>2, <2>3, AppendProperties
  <2> QED BY <2>1, <2>2, <2>3, <2>4, LenProperties
<1>4. ASSUME NEW k \in Nat, k < 10
      PROVE  Digits[k] = <<k>>
  BY <1>4, DigitsStep
<1> HIDE DEF Bad
<1>5. n \in Nat
  BY DEF Bad
<1>6. CASE n < 10 /\ m < 10
  BY <1>2, <1>4, <1>5, <1>6
<1>7. CASE n >= 10 /\ m >= 10
  <2>1. Digits[n \div 10] = Digits[m \div 10] /\ n % 10 = m % 10
    <3> DEFINE a == Digits[n \div 10]
               b == Digits[m \div 10]
               c == n % 10
               d == m % 10
    <3>1. a \in Seq(Nat) /\ b \in Seq(Nat) /\ c \in Nat /\ d \in Nat
      BY <1>3, <1>5, <1>7
    <3>2. Digits[n] = Append(a, c) /\ Digits[m] = Append(b, d)
      BY <1>3, <1>5, <1>7, Zenon
    <3>3. Append(a, c) = Append(b, d)
      BY <1>2, <3>2, Zenon
    <3> HIDE DEF a, b, c, d
    <3>4. a = b /\ c = d
      BY <3>1, <3>3, AppendInjective
    <3> QED BY <3>4 DEF a, b, c, d
  <2>2. n \div 10 \notin Bad
    BY <1>1, <1>3, <1>5, <1>7
  <2>3. n \div 10 = m \div 10
    <3>1. n \div 10 \in Nat /\ m \div 10 \in Nat
      BY <1>5, ByTen
    <3> QED BY <2>1, <2>2, <3>1 DEF Bad
  <2> QED BY <1>2, <1>5, <2>1, <2>3, ByTen
<1>8. CASE (n < 10 /\ m >= 10) \/ (n >= 10 /\ m < 10)
  <2>1. \A k \in Nat : k >= 10 => Len(Digits[k]) >= 2
    BY <1>3, Zenon
  <2>2. \A k \in Nat : k < 10 => Len(Digits[k]) = 1
    BY <1>4
  <2>3. Len(Digits[n]) # Len(Digits[m])
    BY <1>5, <1>8, <2>1, <2>2
  <2> QED BY <1>2, <2>3
<1> QED BY <1>5, <1>6, <1>7, <1>8

\* A key is the time, then the colon, then the digits of the position.
LEMMA KeyParts ==
    ASSUME NEW ts \in Seq(Seq(0 .. 9)), NEW i \in DOMAIN ts
    PROVE  /\ ts[i] \in Seq(0 .. 9) /\ ts[i] \in Seq(Nat)
           /\ Key(ts, i) \in Seq(Nat)
           /\ Len(Key(ts, i)) = Len(ts[i]) + 1 + Len(Digits[i - 1])
           /\ \A n \in 1 .. Len(ts[i]) : Key(ts, i)[n] = ts[i][n]
           /\ Key(ts, i)[Len(ts[i]) + 1] = Colon
           /\ \A n \in 1 .. Len(Digits[i - 1]) :
                 Key(ts, i)[Len(ts[i]) + 1 + n] = Digits[i - 1][n]
<1> DEFINE t == ts[i]
           d == Digits[i - 1]
<1>1. t \in Seq(0 .. 9)
  BY ElementOfSeq
<1>2. i - 1 \in Nat
  OBVIOUS
<1>3. d \in Seq(Nat)
  BY <1>2, DigitsType
<1> HIDE DEF t, d
<1>4. t \in Seq(Nat)
  <2>1. 0 .. 9 \subseteq Nat
    OBVIOUS
  <2> QED BY <1>1, <2>1, SeqMonotonic
<1>5. <<Colon>> \in Seq(Nat) /\ Len(<<Colon>>) = 1 /\ <<Colon>>[1] = Colon
  BY DEF Colon
<1>6. /\ t \o <<Colon>> \in Seq(Nat)
      /\ Len(t \o <<Colon>>) = Len(t) + 1
      /\ \A n \in 1 .. Len(t) : (t \o <<Colon>>)[n] = t[n]
      /\ (t \o <<Colon>>)[Len(t) + 1] = Colon
  <2>1. Len(t) \in Nat
    BY <1>4
  <2> QED BY <1>4, <1>5, <2>1, ConcatProperties
<1> DEFINE h == t \o <<Colon>>
<1>7. h \in Seq(Nat) /\ Len(h) \in Nat /\ Len(d) \in Nat /\ Len(t) \in Nat
  BY <1>3, <1>4, <1>6
<1>8. Len(h) = Len(t) + 1 /\ h[Len(t) + 1] = Colon /\ \A n \in 1 .. Len(t) : h[n] = t[n]
  BY <1>6
<1> HIDE DEF h
<1>9. /\ h \o d \in Seq(Nat)
      /\ Len(h \o d) = Len(h) + Len(d)
      /\ \A n \in 1 .. Len(h) : (h \o d)[n] = h[n]
      /\ \A n \in 1 .. Len(d) : (h \o d)[Len(h) + n] = d[n]
  BY <1>3, <1>7, ConcatProperties
<1>10. Key(ts, i) = h \o d
  BY DEF Key, h, t, d
<1>11. /\ Key(ts, i) \in Seq(Nat)
       /\ Len(Key(ts, i)) = Len(t) + 1 + Len(d)
       /\ \A n \in 1 .. Len(t) : Key(ts, i)[n] = t[n]
       /\ Key(ts, i)[Len(t) + 1] = Colon
       /\ \A n \in 1 .. Len(d) : Key(ts, i)[Len(t) + 1 + n] = d[n]
  <2> DEFINE k == Key(ts, i)
  <2>1. Len(t) + 1 \in 1 .. Len(h) /\ \A n \in 1 .. Len(t) : n \in 1 .. Len(h)
    BY <1>7, <1>8
  <2>2. k = h \o d
    BY <1>10
  <2> HIDE DEF k
  <2>3. k \in Seq(Nat) /\ Len(k) = Len(t) + 1 + Len(d)
    BY <1>8, <1>9, <2>2
  <2>4. \A n \in 1 .. Len(t) : k[n] = t[n]
    BY <1>8, <1>9, <2>1, <2>2
  <2>5. k[Len(t) + 1] = Colon
    BY <1>8, <1>9, <2>1, <2>2
  <2>6. \A n \in 1 .. Len(d) : k[Len(t) + 1 + n] = d[n]
    BY <1>8, <1>9, <2>2
  <2> QED BY <2>3, <2>4, <2>5, <2>6 DEF k
<1> QED BY <1>1, <1>4, <1>11 DEF t, d

\* No two rows have one key: the colon says where the time ends, and the position
\* that follows is the row's own.
LEMMA KeysDiffer ==
    ASSUME NEW ts \in Seq(Seq(0 .. 9)), NEW i \in DOMAIN ts, NEW j \in DOMAIN ts,
           Key(ts, i) = Key(ts, j)
    PROVE  i = j
<1>1. /\ ts[i] \in Seq(0 .. 9) /\ Len(ts[i]) \in Nat
      /\ ts[j] \in Seq(0 .. 9) /\ Len(ts[j]) \in Nat
  BY KeyParts
<1>2. ASSUME NEW a \in DOMAIN ts, NEW b \in DOMAIN ts, Key(ts, a) = Key(ts, b),
             Len(ts[a]) < Len(ts[b])
      PROVE  FALSE
  <2>1. ts[a] \in Seq(0 .. 9) /\ ts[b] \in Seq(0 .. 9)
    BY KeyParts
  <2>2. Len(ts[a]) + 1 \in 1 .. Len(ts[b])
    BY <1>2, <2>1
  <2>3. ts[b][Len(ts[a]) + 1] \in 0 .. 9
    BY <2>1, <2>2, ElementOfSeq
  <2>4. Key(ts, a)[Len(ts[a]) + 1] = Colon
    BY KeyParts
  <2>5. Key(ts, b)[Len(ts[a]) + 1] = ts[b][Len(ts[a]) + 1]
    BY <2>2, KeyParts
  <2>6. ts[b][Len(ts[a]) + 1] = 10
    BY <1>2, <2>4, <2>5, Zenon DEF Colon
  <2> QED BY <2>3, <2>6
<1>3. Len(ts[i]) = Len(ts[j])
  BY <1>1, <1>2
<1>4. i - 1 \in Nat /\ j - 1 \in Nat
  OBVIOUS
<1> DEFINE d == Digits[i - 1]
           e == Digits[j - 1]
<1>5. d \in Seq(Nat) /\ e \in Seq(Nat) /\ Len(d) \in Nat /\ Len(e) \in Nat
  <2>1. d \in Seq(Nat)
    BY <1>4, DigitsType, Zenon
  <2>2. e \in Seq(Nat)
    BY <1>4, DigitsType, Zenon
  <2> HIDE DEF d, e
  <2> QED BY <2>1, <2>2, LenProperties
<1>6. Len(d) = Len(e)
  <2>1. /\ Len(Key(ts, i)) = Len(ts[i]) + 1 + Len(d)
        /\ Len(Key(ts, j)) = Len(ts[j]) + 1 + Len(e)
    BY KeyParts
  <2> HIDE DEF d, e
  <2> QED BY <1>1, <1>3, <1>5, <2>1
<1>7. \A n \in 1 .. Len(d) : d[n] = e[n]
  <2>1. \A n \in 1 .. Len(d) : Key(ts, i)[Len(ts[i]) + 1 + n] = d[n]
    BY KeyParts
  <2>2. \A n \in 1 .. Len(e) : Key(ts, j)[Len(ts[j]) + 1 + n] = e[n]
    BY KeyParts
  <2> HIDE DEF d, e
  <2> QED BY <1>3, <1>6, <2>1, <2>2
<1>8. d = e
  <2> HIDE DEF d, e
  <2> QED BY <1>5, <1>6, <1>7, SeqEqual
<1> QED BY <1>4, <1>8, DigitsDiffer

\* Of two times of one length the earlier one has the key that comes first.
LEMMA KeysByTime ==
    ASSUME NEW ts \in Seq(Seq(0 .. 9)), NEW i \in DOMAIN ts, NEW j \in DOMAIN ts,
           Len(ts[i]) = Len(ts[j]), Before(ts[i], ts[j])
    PROVE  Before(Key(ts, i), Key(ts, j))
<1>1. /\ ts[i] \in Seq(Nat) /\ ts[j] \in Seq(Nat)
      /\ Key(ts, i) \in Seq(Nat) /\ Key(ts, j) \in Seq(Nat)
  BY KeyParts
<1>2. PICK n \in 1 .. Len(ts[j]) : /\ n <= Len(ts[i]) + 1
                                   /\ \A m \in 1 .. n - 1 : ts[i][m] = ts[j][m]
                                   /\ n > Len(ts[i]) \/ ts[i][n] < ts[j][n]
  BY <1>1, BeforeAt
<1>3. /\ Len(Key(ts, i)) \in Nat /\ n <= Len(Key(ts, i)) + 1 /\ n <= Len(Key(ts, j))
      /\ n <= Len(ts[i]) /\ n <= Len(ts[j])
  <2>1. /\ Len(Digits[i - 1]) \in Nat /\ Len(Digits[j - 1]) \in Nat
    BY DigitsType
  <2>2. /\ Len(Key(ts, i)) = Len(ts[i]) + 1 + Len(Digits[i - 1])
        /\ Len(Key(ts, j)) = Len(ts[j]) + 1 + Len(Digits[j - 1])
    BY KeyParts
  <2>3. Len(ts[i]) \in Nat /\ Len(ts[j]) \in Nat /\ n \in Nat /\ n <= Len(ts[j])
    BY <1>1
  <2> DEFINE p == Len(Key(ts, i))
             q == Len(Key(ts, j))
             d == Len(Digits[i - 1])
             e == Len(Digits[j - 1])
             a == Len(ts[i])
             b == Len(ts[j])
  <2>4. /\ d \in Nat /\ e \in Nat /\ a \in Nat /\ b \in Nat /\ a = b
        /\ p = a + 1 + d /\ q = b + 1 + e /\ n \in Nat /\ n <= b
    BY <2>1, <2>2, <2>3
  <2> HIDE DEF p, q, d, e, a, b
  <2>5. p \in Nat /\ n <= p + 1 /\ n <= q /\ n <= a /\ n <= b
    BY <2>4
  <2> QED BY <2>5 DEF p, q, d, e, a, b
<1>4. /\ \A m \in 1 .. Len(ts[i]) : Key(ts, i)[m] = ts[i][m]
      /\ \A m \in 1 .. Len(ts[j]) : Key(ts, j)[m] = ts[j][m]
  BY KeyParts
<1>5. n \in 1 .. Len(Key(ts, j)) /\ n \in 1 .. Len(ts[i]) /\ n \in 1 .. Len(ts[j])
  BY <1>3
<1>6. \A m \in 1 .. n - 1 : Key(ts, i)[m] = Key(ts, j)[m]
  <2> SUFFICES ASSUME NEW m \in 1 .. n - 1 PROVE Key(ts, i)[m] = Key(ts, j)[m]
    OBVIOUS
  <2>1. m \in 1 .. Len(ts[i]) /\ m \in 1 .. Len(ts[j])
    BY <1>5
  <2> QED BY <1>2, <1>4, <2>1
<1>7. Key(ts, i)[n] < Key(ts, j)[n]
  <2>1. ts[i][n] < ts[j][n]
    BY <1>1, <1>2, <1>5
  <2> QED BY <1>4, <1>5, <2>1
<1> QED BY <1>1, <1>3, <1>5, <1>6, <1>7, BeforeAt

------------------------------------------------------------------------------
(* The cursor.                                                             *)

\* Two keys are always in order, so the rows have the ranks 1 to Len(ts), each once.
LEMMA RankOrder ==
    ASSUME NEW ts \in Seq(Seq(0 .. 9))
    PROVE  /\ \A i \in DOMAIN ts : Rank(ts, i) \in 1 .. Len(ts)
           /\ \A i, j \in DOMAIN ts :
                 Before(Key(ts, i), Key(ts, j)) <=> Rank(ts, i) < Rank(ts, j)
<1> DEFINE D == DOMAIN ts
           Lower(i) == {j \in D : Before(Key(ts, j), Key(ts, i))}
<1>1. D = 1 .. Len(ts) /\ Len(ts) \in Nat /\ IsFiniteSet(D) /\ Cardinality(D) = Len(ts)
  <2>1. D = 1 .. Len(ts) /\ Len(ts) \in Nat
    OBVIOUS
  <2> HIDE DEF D
  <2>2. /\ IsFiniteSet(1 .. Len(ts))
        /\ Cardinality(1 .. Len(ts)) = IF 1 > Len(ts) THEN 0 ELSE Len(ts) - 1 + 1
    BY <2>1, FS_Interval
  <2> QED BY <2>1, <2>2
<1>2. ASSUME NEW i \in D
      PROVE  /\ IsFiniteSet(Lower(i)) /\ Cardinality(Lower(i)) \in Nat
             /\ Cardinality(Lower(i)) < Len(ts) /\ i \notin Lower(i)
  <2>1. Lower(i) \subseteq D
    OBVIOUS
  <2>2. i \notin Lower(i)
    <3>1. ~Before(Key(ts, i), Key(ts, i))
      BY KeyParts, BeforeIrreflexive
    <3> QED BY <3>1
  <2> HIDE DEF Lower, D
  <2>3. IsFiniteSet(Lower(i)) /\ Cardinality(Lower(i)) <= Len(ts)
    BY <1>1, <2>1, FS_Subset
  <2>4. Cardinality(Lower(i)) # Len(ts)
    BY <1>1, <2>1, <2>2, FS_Subset
  <2>5. Cardinality(Lower(i)) \in Nat
    BY <2>3, FS_CardinalityType
  <2> QED BY <1>1, <2>2, <2>3, <2>4, <2>5
<1>3. ASSUME NEW i \in D, NEW j \in D, Before(Key(ts, i), Key(ts, j))
      PROVE  Cardinality(Lower(i)) < Cardinality(Lower(j))
  <2>1. Lower(i) \subseteq Lower(j)
    <3> SUFFICES ASSUME NEW h \in D, Before(Key(ts, h), Key(ts, i))
                 PROVE  Before(Key(ts, h), Key(ts, j))
      OBVIOUS
    <3>1. Key(ts, h) \in Seq(Nat) /\ Key(ts, i) \in Seq(Nat) /\ Key(ts, j) \in Seq(Nat)
      BY KeyParts
    <3> QED BY <1>3, <3>1, BeforeTransitive
  <2>2. i \in Lower(j)
    BY <1>3
  <2>3. i \notin Lower(i)
    BY <1>2
  <2>4. IsFiniteSet(Lower(j)) /\ Cardinality(Lower(j)) \in Nat /\ Cardinality(Lower(i)) \in Nat
    BY <1>2
  <2> HIDE DEF Lower
  <2>5. Cardinality(Lower(i)) <= Cardinality(Lower(j))
    BY <2>1, <2>4, FS_Subset
  <2>6. Cardinality(Lower(i)) # Cardinality(Lower(j))
    BY <2>1, <2>2, <2>3, <2>4, FS_Subset
  <2> QED BY <2>4, <2>5, <2>6
<1>4. \A i \in D : Rank(ts, i) = Cardinality(Lower(i)) + 1
  BY DEF Rank
<1>5. \A i \in D : Cardinality(Lower(i)) \in Nat /\ Cardinality(Lower(i)) < Len(ts)
  BY <1>2
<1>6. \A i, j \in D : Before(Key(ts, i), Key(ts, j))
                          => Cardinality(Lower(i)) < Cardinality(Lower(j))
  BY <1>3
<1> HIDE DEF Lower
<1>7. ASSUME NEW i \in D, NEW j \in D, Rank(ts, i) < Rank(ts, j)
      PROVE  Before(Key(ts, i), Key(ts, j))
  <2>1. ~Before(Key(ts, j), Key(ts, i))
    BY <1>4, <1>5, <1>6, <1>7
  <2>2. Key(ts, i) # Key(ts, j)
    <3>1. i # j
      BY <1>4, <1>5, <1>7
    <3> QED BY <3>1, KeysDiffer
  <2> QED BY <2>1, <2>2, KeyParts, BeforeTotal
<1>8. \A i \in D : Rank(ts, i) \in 1 .. Len(ts)
  BY <1>1, <1>4, <1>5
<1>9. \A i, j \in D : Before(Key(ts, i), Key(ts, j)) => Rank(ts, i) < Rank(ts, j)
  BY <1>4, <1>5, <1>6
<1> QED BY <1>7, <1>8, <1>9

LEMMA RankFound ==
    ASSUME NEW ts \in Seq(Seq(0 .. 9)), NEW r \in DOMAIN ts
    PROVE  \E i \in DOMAIN ts : Rank(ts, i) = r
<1> DEFINE D == DOMAIN ts
           f == [i \in D |-> Rank(ts, i)]
<1>1. D = 1 .. Len(ts) /\ Len(ts) \in Nat /\ IsFiniteSet(D)
  BY FS_Interval
<1>2. \A i \in D : Rank(ts, i) \in D
  BY <1>1, RankOrder
<1>3. ASSUME NEW i \in D, NEW j \in D, Rank(ts, i) = Rank(ts, j)
      PROVE  i = j
  <2>1. ~(Rank(ts, i) < Rank(ts, j)) /\ ~(Rank(ts, j) < Rank(ts, i))
    BY <1>1, <1>2, <1>3
  <2>2. ~Before(Key(ts, i), Key(ts, j)) /\ ~Before(Key(ts, j), Key(ts, i))
    BY <2>1, RankOrder
  <2>3. Key(ts, i) = Key(ts, j)
    BY <2>2, KeyParts, BeforeTotal
  <2> QED BY <2>3, KeysDiffer
<1>4. f \in Injection(D, D)
  <2>1. f \in [D -> D]
    BY <1>2
  <2>2. \A i, j \in D : f[i] = f[j] => i = j
    BY <1>3
  <2> QED BY <2>1, <2>2 DEF Injection, IsInjective
<1>5. f \in Surjection(D, D)
  <2> HIDE DEF f, D
  <2> QED BY <1>1, <1>4, FS_Injection
<1>6. PICK i \in D : f[i] = r
  <2> HIDE DEF f
  <2> QED BY <1>5 DEF Surjection
<1> QED BY <1>6

\* The cursor meets every row once, in the order of the keys or in the opposite one.
LEMMA CursorMeetsAll ==
    ASSUME NEW ts \in Seq(Seq(0 .. 9)), NEW up \in BOOLEAN
    PROVE  LET rows == CursorOrder(ts, up)
           IN /\ rows \in Seq(DOMAIN ts) /\ Len(rows) = Len(ts)
              /\ \A r, s \in 1 .. Len(ts) : r < s =>
                    IF up THEN Before(Key(ts, rows[r]), Key(ts, rows[s]))
                    ELSE Before(Key(ts, rows[s]), Key(ts, rows[r]))
<1> DEFINE rows == CursorOrder(ts, up)
           Place(r) == IF up THEN r ELSE Len(ts) - r + 1
<1>1. DOMAIN ts = 1 .. Len(ts) /\ Len(ts) \in Nat
  OBVIOUS
<1>2. ASSUME NEW r \in 1 .. Len(ts)
      PROVE  rows[r] \in DOMAIN ts /\ Rank(ts, rows[r]) = Place(r)
  <2>1. Place(r) \in DOMAIN ts
    BY <1>1
  <2>2. rows[r] = CHOOSE i \in DOMAIN ts : Rank(ts, i) = Place(r)
    BY <1>1 DEF CursorOrder
  <2> HIDE DEF Place
  <2>3. \E i \in DOMAIN ts : Rank(ts, i) = Place(r)
    BY <2>1, RankFound
  <2> QED BY <2>2, <2>3
<1>3. rows \in [1 .. Len(ts) -> DOMAIN ts]
  <2>1. rows = [r \in 1 .. Len(ts) |-> rows[r]]
    BY <1>1 DEF CursorOrder
  <2> HIDE DEF rows
  <2> QED BY <1>2, <2>1
<1>4. rows \in Seq(DOMAIN ts) /\ Len(rows) = Len(ts)
  <2> HIDE DEF rows
  <2>1. rows \in Seq(DOMAIN ts)
    <3>1. [r \in 1 .. Len(ts) |-> rows[r]] \in Seq(DOMAIN ts)
      BY <1>1, <1>2
    <3>2. rows = [r \in 1 .. Len(ts) |-> rows[r]]
      BY <1>3
    <3> QED BY <3>1, <3>2
  <2>2. Len(rows) = Len(ts)
    BY <1>1, <1>3, <2>1, LenProperties
  <2> QED BY <2>1, <2>2
<1>5. ASSUME NEW r \in 1 .. Len(ts), NEW s \in 1 .. Len(ts), r < s
      PROVE  IF up THEN Before(Key(ts, rows[r]), Key(ts, rows[s]))
             ELSE Before(Key(ts, rows[s]), Key(ts, rows[r]))
  <2>1. CASE up
    <3>1. Rank(ts, rows[r]) < Rank(ts, rows[s])
      BY <1>2, <1>5, <2>1
    <3> QED BY <1>2, <2>1, <3>1, RankOrder
  <2>2. CASE ~up
    <3>1. Rank(ts, rows[s]) < Rank(ts, rows[r])
      BY <1>1, <1>2, <1>5, <2>2
    <3> QED BY <1>2, <2>2, <3>1, RankOrder
  <2> QED BY <2>1, <2>2
<1> QED BY <1>4, <1>5

------------------------------------------------------------------------------
(* Pages.                                                                  *)

\* The rows that Query returns, in each case of its bounds checks.
LEMMA QueryBounds ==
    ASSUME NEW ts \in Seq(Seq(0 .. 9)), NEW count \in Int, NEW off \in Int, NEW up \in BOOLEAN
    PROVE  LET rows == CursorOrder(ts, up)
               n == Len(ts)
               first == IF off < 0 THEN 0 ELSE count * off
               read == Query(ts, count, off, up)
           IN /\ count < 0 => read = SubSeq(rows, 1, n)
              /\ count >= 0 /\ first <= n =>
                    read = SubSeq(rows, first + 1, IF first + count < n THEN first + count ELSE n)
              /\ count >= 0 /\ first > n =>
                    read = SubSeq(rows, IF n > count THEN n - count + 1 ELSE 1, n)
<1> DEFINE rows == CursorOrder(ts, up)
           n == Len(ts)
           first == IF off < 0 THEN 0 ELSE count * off
           read == Query(ts, count, off, up)
<1>1. n \in Nat /\ first \in Int /\ (count >= 0 => first >= 0)
  OBVIOUS
<1>2. read =
        LET f == IF count < 0 THEN 0 ELSE count * (IF off < 0 THEN 0 ELSE off)
            e == IF count < 0 THEN n ELSE f + count
            start == IF f > n THEN n - count ELSE f
            stop == IF e > n THEN n ELSE e
        IN SubSeq(rows, IF start < 0 THEN 1 ELSE start + 1, stop)
  BY DEF Query
<1>3. (IF count < 0 THEN 0 ELSE count * (IF off < 0 THEN 0 ELSE off))
          = IF count < 0 THEN 0 ELSE first
  <2>1. count * 0 = 0
    OBVIOUS
  <2> QED BY <2>1
<1> HIDE DEF first, read, rows, n
<1>4. read =
        LET f == IF count < 0 THEN 0 ELSE first
            e == IF count < 0 THEN n ELSE f + count
            start == IF f > n THEN n - count ELSE f
            stop == IF e > n THEN n ELSE e
        IN SubSeq(rows, IF start < 0 THEN 1 ELSE start + 1, stop)
  BY <1>2, <1>3
<1>5. ASSUME count < 0 PROVE read = SubSeq(rows, 1, n)
  <2>1. ~(0 > n) /\ ~(n > n)
    BY <1>1
  <2> QED BY <1>1, <1>4, <1>5, <2>1
<1>6. ASSUME count >= 0, first <= n
      PROVE  read = SubSeq(rows, first + 1, IF first + count < n THEN first + count ELSE n)
  <2>1. (IF first + count > n THEN n ELSE first + count)
            = IF first + count < n THEN first + count ELSE n
    BY <1>1, <1>6
  <2>2. read = SubSeq(rows, first + 1, IF first + count > n THEN n ELSE first + count)
    BY <1>1, <1>4, <1>6
  <2> QED BY <2>1, <2>2
<1>7. ASSUME count >= 0, first > n
      PROVE  read = SubSeq(rows, IF n > count THEN n - count + 1 ELSE 1, n)
  <2>1. (IF n - count < 0 THEN 1 ELSE n - count + 1) = IF n > count THEN n - count + 1 ELSE 1
    BY <1>1, <1>7
  <2>2. read = SubSeq(rows, IF n - count < 0 THEN 1 ELSE n - count + 1, n)
    BY <1>1, <1>4, <1>7
  <2> QED BY <2>1, <2>2
<1> QED BY <1>5, <1>6, <1>7, Zenon DEF first, read, rows, n

\* A page is a stretch of the rows, whatever the client asks for.
IsStretch(read, rows) ==
    \E a \in Nat \ {0}, b \in 0 .. Len(rows) : read = SubSeq(rows, a, b)

LEMMA QueryStretch ==
    ASSUME NEW ts \in Seq(Seq(0 .. 9)), NEW count \in Int, NEW off \in Int, NEW up \in BOOLEAN
    PROVE  IsStretch(Query(ts, count, off, up), CursorOrder(ts, up))
<1> DEFINE rows == CursorOrder(ts, up)
           n == Len(ts)
           first == IF off < 0 THEN 0 ELSE count * off
           read == Query(ts, count, off, up)
<1>1. n \in Nat /\ first \in Int /\ (count >= 0 => first >= 0)
  OBVIOUS
<1>2. Len(rows) = n
  BY CursorMeetsAll
<1>3. /\ count < 0 => read = SubSeq(rows, 1, n)
      /\ count >= 0 /\ first <= n =>
            read = SubSeq(rows, first + 1, IF first + count < n THEN first + count ELSE n)
      /\ count >= 0 /\ first > n =>
            read = SubSeq(rows, IF n > count THEN n - count + 1 ELSE 1, n)
  BY QueryBounds
<1> HIDE DEF first, read, rows, n
<1>4. CASE count < 0
  <2>1. n \in 0 .. Len(rows) /\ 1 \in Nat \ {0}
    BY <1>1, <1>2
  <2>2. read = SubSeq(rows, 1, n)
    BY <1>3, <1>4
  <2> QED BY <2>1, <2>2 DEF IsStretch, read, rows
<1>5. CASE count >= 0 /\ first <= n
  <2>1. /\ first + 1 \in Nat \ {0}
        /\ (IF first + count < n THEN first + count ELSE n) \in 0 .. n
    BY <1>1, <1>5
  <2> QED BY <1>2, <1>3, <1>5, <2>1 DEF IsStretch, read, rows
<1>6. CASE count >= 0 /\ first > n
  <2>1. (IF n > count THEN n - count + 1 ELSE 1) \in Nat \ {0} /\ n \in 0 .. n
    BY <1>1, <1>6
  <2> QED BY <1>2, <1>3, <1>6, <2>1 DEF IsStretch, read, rows
<1> QED BY <1>1, <1>4, <1>5, <1>6

\* What is inductive: where the client stands, that its pages follow on, and that
\* the last one is a stretch of the rows.
PagingInv ==
    /\ PagingTypeOK
    /\ offset <= 0 => page = <<>> /\ seen = <<>>
    /\ IsStretch(page, CursorOrder(times, asc))
    /\ PagesFollowOn

LEMMA TimesType == PagingTypeOK => times \in Seq(Seq(0 .. 9))
  BY PagingAssumption DEF PagingTypeOK

\* Joining a stretch to the one before it.
LEMMA StretchesJoin ==
    ASSUME NEW S, NEW s \in Seq(S), NEW a \in 0 .. Len(s), NEW b \in a .. Len(s)
    PROVE  SubSeq(s, 1, a) \o SubSeq(s, a + 1, b) = SubSeq(s, 1, b)
<1> DEFINE x == SubSeq(s, 1, a)
           y == SubSeq(s, a + 1, b)
           z == SubSeq(s, 1, b)
<1>1. Len(s) \in Nat /\ a \in Nat /\ b \in Nat /\ b <= Len(s) /\ a <= b
  OBVIOUS
<1>2. \A i \in 1 .. Len(s) : s[i] \in S
  BY ElementOfSeq
<1>3. x \in Seq(S) /\ Len(x) = a /\ \A i \in 1 .. a : x[i] = s[i]
  <2>1. \A i \in 1 .. a : s[i] \in S
    BY <1>1, <1>2
  <2> QED BY <1>1, <2>1, SubSeqProperties
<1>4. y \in Seq(S) /\ Len(y) = b - a /\ \A i \in 1 .. b - a : y[i] = s[a + i]
  <2>1. \A i \in a + 1 .. b : s[i] \in S
    BY <1>1, <1>2
  <2> QED BY <1>1, <2>1, SubSeqProperties
<1>5. z \in Seq(S) /\ Len(z) = b /\ \A i \in 1 .. b : z[i] = s[i]
  <2>1. \A i \in 1 .. b : s[i] \in S
    BY <1>1, <1>2
  <2> QED BY <1>1, <2>1, SubSeqProperties
<1> HIDE DEF x, y, z
<1>6. /\ x \o y \in Seq(S) /\ Len(x \o y) = b
      /\ \A i \in 1 .. b : (x \o y)[i] = IF i <= a THEN x[i] ELSE y[i - a]
  <2>1. a + (b - a) = b
    BY <1>1
  <2>2. Len(x) + Len(y) = b
    BY <1>3, <1>4, <2>1
  <2>3. /\ x \o y \in Seq(S) /\ Len(x \o y) = Len(x) + Len(y)
        /\ \A i \in 1 .. Len(x) + Len(y) : (x \o y)[i] =
              IF i <= Len(x) THEN x[i] ELSE y[i - Len(x)]
    BY <1>3, <1>4, ConcatProperties
  <2> QED BY <1>3, <2>2, <2>3
<1>7. ASSUME NEW i \in 1 .. b PROVE (x \o y)[i] = z[i]
  <2>1. CASE i <= a
    <3>1. i \in 1 .. a
      BY <1>1, <2>1
    <3> QED BY <1>3, <1>5, <1>6, <2>1, <3>1
  <2>2. CASE ~(i <= a)
    <3>1. i - a \in 1 .. b - a /\ a + (i - a) = i
      BY <1>1, <2>2
    <3> QED BY <1>4, <1>5, <1>6, <2>2, <3>1
  <2> QED BY <2>1, <2>2
<1>8. x \o y = z
  BY <1>5, <1>6, <1>7, SeqEqual
<1> QED BY <1>8 DEF x, y, z

\* The first page, and every page, has a type.
LEMMA StretchType ==
    ASSUME NEW S, NEW rows \in Seq(S), NEW read, IsStretch(read, rows)
    PROVE  read \in Seq(S)
<1>1. PICK a \in Nat \ {0}, b \in 0 .. Len(rows) : read = SubSeq(rows, a, b)
  BY DEF IsStretch
<1>2. \A i \in a .. b : rows[i] \in S
  <2> SUFFICES ASSUME NEW i \in a .. b PROVE rows[i] \in S
    OBVIOUS
  <2>1. i \in 1 .. Len(rows)
    BY LenProperties
  <2> QED BY <2>1, ElementOfSeq
<1> QED BY <1>1, <1>2, SubSeqProperties

LEMMA PagingStart == PagingInit => PagingInv
<1> SUFFICES ASSUME PagingInit PROVE PagingInv
  OBVIOUS
<1>1. times \in Seq(Seq(0 .. 9)) /\ size \in Int
  BY PagingAssumption DEF PagingInit
<1>2. PagingTypeOK
  BY PagingAssumption DEF PagingInit, PagingTypeOK
<1>3. IsStretch(page, CursorOrder(times, asc))
  <2> DEFINE rows == CursorOrder(times, asc)
  <2>1. rows \in Seq(DOMAIN times)
    BY <1>1, CursorMeetsAll DEF PagingInit
  <2> HIDE DEF rows
  <2>2. SubSeq(rows, 1, 0) = <<>> /\ 0 \in 0 .. Len(rows)
    BY <2>1, SubSeqEmpty
  <2> QED BY <2>2 DEF PagingInit, IsStretch, rows
<1>4. PagesFollowOn
  BY DEF PagingInit, PagesFollowOn
<1> QED BY <1>2, <1>3, <1>4 DEF PagingInit, PagingInv

\* Reading a page keeps the invariant: the page follows on where the last one ended.
LEMMA ReadPageStep ==
    ASSUME PagingInv, ReadPage
    PROVE  PagingInv'
<1> DEFINE rows == CursorOrder(times, asc)
           n == Len(times)
           first == IF offset < 0 THEN 0 ELSE size * offset
           from == size * (offset - 1)
           stop == IF first + size < n THEN first + size ELSE n
<1>1. /\ times \in Seq(Seq(0 .. 9)) /\ size \in Int /\ offset \in Int /\ asc \in BOOLEAN
      /\ page \in Seq(DOMAIN times) /\ seen \in Seq(DOMAIN times)
  BY TimesType DEF PagingInv, PagingTypeOK
<1>2. rows \in Seq(DOMAIN times) /\ Len(rows) = n /\ n \in Nat
  BY <1>1, CursorMeetsAll
<1>3. page' = Query(times, size, offset, asc) /\ IsStretch(page', rows)
  BY <1>1, QueryStretch DEF ReadPage
<1>4. /\ size < 0 => page' = SubSeq(rows, 1, n)
      /\ size >= 0 /\ first <= n => page' = SubSeq(rows, first + 1, stop)
      /\ size >= 0 /\ first > n =>
            page' = SubSeq(rows, IF n > size THEN n - size + 1 ELSE 1, n)
  BY <1>1, <1>3, QueryBounds
<1>5. /\ offset' \in Nat \ {0} /\ size * (offset' - 1) = first
      /\ first \in Int /\ (size >= 0 => first >= 0)
      /\ UNCHANGED <<times, size, asc>> /\ seen' = seen \o page
  <2>1. size * 0 = 0
    BY <1>1
  <2> QED BY <1>1, <2>1 DEF ReadPage
<1>6. PagingTypeOK'
  <2>1. seen' \in Seq(DOMAIN times)
    BY <1>1, <1>5, ConcatProperties
  <2>2. page' \in Seq(DOMAIN times)
    <3> HIDE DEF rows
    <3> QED BY <1>2, <1>3, StretchType
  <2>3. times \in TimeLists
    BY DEF PagingInv, PagingTypeOK
  <2> QED BY <1>1, <1>5, <2>1, <2>2, <2>3 DEF PagingTypeOK
<1>7. ASSUME size >= 0, first <= n
      PROVE  seen \o page = SubSeq(rows, 1, first)
  <2>1. CASE offset <= 0
    <3>1. seen = <<>> /\ page = <<>>
      BY <2>1 DEF PagingInv
    <3>2. first = 0
      BY <1>1, <2>1
    <3> HIDE DEF first, rows
    <3>3. SubSeq(rows, 1, first) = <<>>
      BY <3>2, SubSeqEmpty
    <3>4. <<>> \o <<>> = <<>>
      BY <1>1, EmptySeq, ConcatEmptySeq
    <3> QED BY <3>1, <3>3, <3>4
  <2>2. CASE offset > 0
    <3>1. size > 0 /\ from <= n
      BY <1>1, <2>2 DEF ReadPage
    <3>2. seen \o page = SubSeq(rows, 1, IF from + size < n THEN from + size ELSE n)
      BY <1>7, <2>2, <3>1 DEF PagingInv, PagesFollowOn
    <3>3. from + size = first /\ from \in Int
      BY <1>1, <2>2
    <3> HIDE DEF first, rows, from, n
    <3>4. (IF from + size < n THEN from + size ELSE n) = first
      BY <1>2, <1>5, <1>7, <3>3
    <3> QED BY <3>2, <3>4
  <2> QED BY <1>1, <2>1, <2>2
<1>8. ASSUME size >= 0, first <= n
      PROVE  seen' \o page' = SubSeq(rows, 1, stop)
  <2>1. first \in 0 .. Len(rows) /\ stop \in first .. Len(rows)
    BY <1>1, <1>2, <1>5, <1>8
  <2>2. page' = SubSeq(rows, first + 1, stop)
    BY <1>4, <1>8
  <2> HIDE DEF rows, first, stop
  <2>3. SubSeq(rows, 1, first) \o SubSeq(rows, first + 1, stop) = SubSeq(rows, 1, stop)
    BY <1>2, <2>1, StretchesJoin
  <2> QED BY <1>5, <1>7, <1>8, <2>2, <2>3
<1>9. PagesFollowOn'
  <2>1. rows' = rows /\ Len(times') = n
    BY <1>5
  <2>2. SubSeq(rows, 1, n) = rows
    BY <1>2, SubSeqFull
  <2>3. size' < 0 /\ offset' > 0 => page' = rows
    BY <1>4, <1>5, <2>2
  <2>4. size' >= 0 /\ offset' > 0 /\ size' * (offset' - 1) <= n =>
           seen' \o page' = SubSeq(rows, 1, IF size' * (offset' - 1) + size' < n
                                            THEN size' * (offset' - 1) + size' ELSE n)
    BY <1>5, <1>8
  <2>5. size' > 0 /\ offset' > 0 /\ size' * (offset' - 1) > n =>
           page' = SubSeq(rows, IF n > size' THEN n - size' + 1 ELSE 1, n)
    <3>1. size' = size /\ size' * (offset' - 1) = first
      BY <1>5
    <3>2. size > 0 => size >= 0
      BY <1>1
    <3> HIDE DEF rows, n, first
    <3> QED BY <1>1, <1>4, <3>1, <3>2
  <2> HIDE DEF rows, n, first, stop, from
  <2> QED BY <2>1, <2>3, <2>4, <2>5, Zenon DEF PagesFollowOn, rows, n
<1>10. IsStretch(page, CursorOrder(times, asc))'
  BY <1>3, <1>5
<1> QED BY <1>1, <1>5, <1>6, <1>9, <1>10 DEF PagingInv

LEMMA PagingStutters ==
    ASSUME PagingInv, UNCHANGED pagingVars
    PROVE  PagingInv'
  BY DEF PagingInv, PagingTypeOK, PagesFollowOn, pagingVars

\* A stretch of the rows has the newest first, or last.
LEMMA StretchByTime ==
    ASSUME NEW ts \in Seq(Seq(0 .. 9)), NEW up \in BOOLEAN, NEW read,
           IsStretch(read, CursorOrder(ts, up)),
           \A i, j \in DOMAIN ts : Len(ts[i]) = Len(ts[j])
    PROVE  \A i, j \in DOMAIN read : i < j =>
              IF up THEN ~Before(ts[read[j]], ts[read[i]])
              ELSE ~Before(ts[read[i]], ts[read[j]])
<1> DEFINE rows == CursorOrder(ts, up)
<1>1. rows \in Seq(DOMAIN ts) /\ Len(rows) = Len(ts) /\ Len(ts) \in Nat
  BY CursorMeetsAll
<1>2. \A r, s \in 1 .. Len(ts) : r < s =>
         IF up THEN Before(Key(ts, rows[r]), Key(ts, rows[s]))
         ELSE Before(Key(ts, rows[s]), Key(ts, rows[r]))
  BY CursorMeetsAll
<1>3. PICK a \in Nat \ {0}, b \in 0 .. Len(rows) : read = SubSeq(rows, a, b)
  BY DEF IsStretch
<1> HIDE DEF rows
<1>4. \A i \in a .. b : i \in 1 .. Len(ts) /\ rows[i] \in DOMAIN ts
  <2> SUFFICES ASSUME NEW i \in a .. b
               PROVE  i \in 1 .. Len(ts) /\ rows[i] \in DOMAIN ts
    OBVIOUS
  <2>1. i \in 1 .. Len(rows)
    BY <1>1
  <2> QED BY <1>1, <2>1, ElementOfSeq
<1>5. /\ read \in Seq(DOMAIN ts)
      /\ Len(read) = IF a <= b THEN b - a + 1 ELSE 0
      /\ \A i \in 1 .. b - a + 1 : read[i] = rows[a + i - 1]
  BY <1>3, <1>4, SubSeqProperties
<1>6. DOMAIN read = 1 .. Len(read)
  BY <1>5, LenProperties
<1> SUFFICES ASSUME NEW i \in DOMAIN read, NEW j \in DOMAIN read, i < j
             PROVE  IF up THEN ~Before(ts[read[j]], ts[read[i]])
                    ELSE ~Before(ts[read[i]], ts[read[j]])
  OBVIOUS
<1> DEFINE r == a + i - 1
           s == a + j - 1
<1>7. r \in a .. b /\ s \in a .. b /\ r < s /\ read[i] = rows[r] /\ read[j] = rows[s]
  <2>1. i \in 1 .. b - a + 1 /\ j \in 1 .. b - a + 1
    BY <1>1, <1>3, <1>5, <1>6
  <2>2. r \in a .. b /\ s \in a .. b /\ r < s
    <3>1. a \in Int /\ b \in Int /\ i \in Int /\ j \in Int
      BY <1>1, <2>1
    <3> QED BY <2>1, <3>1
  <2> QED BY <1>5, <2>1, <2>2
<1> HIDE DEF r, s
<1> DEFINE x == rows[r]
           y == rows[s]
<1>8. x \in DOMAIN ts /\ y \in DOMAIN ts /\ r \in 1 .. Len(ts) /\ s \in 1 .. Len(ts)
  BY <1>4, <1>7
<1>9. IF up THEN Before(Key(ts, x), Key(ts, y)) ELSE Before(Key(ts, y), Key(ts, x))
  BY <1>2, <1>7, <1>8
<1> HIDE DEF x, y
<1>10. ASSUME NEW v \in DOMAIN ts, NEW w \in DOMAIN ts, Before(Key(ts, v), Key(ts, w)),
              Before(ts[w], ts[v])
       PROVE  FALSE
  <2>1. Before(Key(ts, w), Key(ts, v))
    BY <1>10, KeysByTime
  <2>2. Key(ts, v) \in Seq(Nat) /\ Key(ts, w) \in Seq(Nat)
    BY KeyParts
  <2> QED BY <1>10, <2>1, <2>2, BeforeTransitive, BeforeIrreflexive
<1>11. IF up THEN ~Before(ts[y], ts[x]) ELSE ~Before(ts[x], ts[y])
  BY <1>8, <1>9, <1>10
<1>12. read[i] = x /\ read[j] = y
  BY <1>7 DEF x, y
<1> QED BY <1>11, <1>12

\* What the client has is always of its type (Query, its bounds).
THEOREM PagingTypeCorrect == PagingSpec => []PagingTypeOK
<1>1. PagingInv => PagingTypeOK
  BY DEF PagingInv
<1>2. PagingInv /\ [ReadPage]_pagingVars => PagingInv'
  BY ReadPageStep, PagingStutters
<1> QED BY <1>1, <1>2, PagingStart, PTL DEF PagingSpec

\* A client that reads on gets every row of any bucket once, in the order of the
\* keys, and with times of one length by time, whatever count it asks for (Query,
\* SortContent).
THEOREM ReadingOnGetsAll == PagingSpec => []PagesInOrder
<1>1. PagingInv => PagesInOrder
  <2> SUFFICES ASSUME PagingInv PROVE PagesInOrder
    OBVIOUS
  <2>1. times \in Seq(Seq(0 .. 9)) /\ asc \in BOOLEAN
    BY TimesType DEF PagingInv, PagingTypeOK
  <2>2. IsStretch(page, CursorOrder(times, asc))
    BY DEF PagingInv
  <2>3. NewestFirst
    BY <2>1, <2>2, StretchByTime DEF NewestFirst
  <2> QED BY <2>3 DEF PagesInOrder, PagingInv
<1>2. PagingInv /\ [ReadPage]_pagingVars => PagingInv'
  BY ReadPageStep, PagingStutters
<1> QED BY <1>1, <1>2, PagingStart, PTL DEF PagingSpec

------------------------------------------------------------------------------
(* SortScheduler.  NoWriteForgotten is inductive relative to TypeOK: every *)
(* step that takes the last call that would cover the content away (a      *)
(* superseded timer, a sort that stores an older snapshot) leaves another  *)
(* one that will.                                                          *)

USE ConstantsAssumption DEF ConstantsAssumption

(* A call is of one of three kinds, each with its own fields. *)
LEMMA CallKinds ==
    ASSUME NEW x \in CallStates
    PROVE  \/ x \in {At(p) : p \in {"none", "called", "passed", "running", "waiting"}}
           \/ \E v \in 0 .. MaxWrites : x = Sorting(v)
           \/ \E d \in 0 .. Wait, b \in BOOLEAN : x = Timer(d, b)
  BY DEF CallStates

(* A call that is sorting holds a snapshot of the bucket. *)
LEMMA SnapType ==
    ASSUME NEW x \in CallStates, x.at = "sorting"
    PROVE  x.snap \in 0 .. MaxWrites
  BY CallKinds DEF At, Sorting, Timer

(* A delayed goroutine has some time left and knows whether to go on. *)
LEMMA TimerType ==
    ASSUME NEW x \in CallStates, x.at = "timer"
    PROVE  x.left \in 0 .. Wait /\ x.superseded \in BOOLEAN
  BY CallKinds DEF At, Sorting, Timer

(* Every step of a call leads to a call. *)
LEMMA StatesOK ==
    /\ \A p \in {"none", "called", "passed", "running", "waiting"} :
            At(p) \in CallStates
    /\ \A v \in 0 .. MaxWrites : Sorting(v) \in CallStates
    /\ \A d \in 0 .. Wait, b \in BOOLEAN : Timer(d, b) \in CallStates
  BY DEF CallStates

(* The initial state is well typed, and its one call covers the content. *)
LEMMA InitInv == Init => TypeOK /\ NoWriteForgotten
<1> SUFFICES ASSUME Init PROVE TypeOK /\ NoWriteForgotten
  OBVIOUS
<1>1. TypeOK
  <2>1. call \in [Calls -> CallStates]
    BY StatesOK DEF Init, Calls
  <2> QED
    BY <2>1 DEF Init, TypeOK
<1>2. NoWriteForgotten
  BY DEF Init, NoWriteForgotten, Larger
<1> QED
  BY <1>1, <1>2

(* Every step keeps the types. *)
LEMMA NextType ==
    ASSUME TypeOK, [Next]_vars
    PROVE  TypeOK'
<1> USE DEF TypeOK, Larger
<1>1. CASE WriteContent \/ DeleteContent
  <2>1. /\ content' = content + 1 /\ content' \in Calls /\ content' \in 0 .. MaxWrites
        /\ UNCHANGED <<sorted, covered, failed, age, crashes>>
    BY <1>1 DEF WriteContent, DeleteContent, Commit, Calls
  <2>2. CallSort \/ UNCHANGED <<owed, call>>
    BY <1>1 DEF WriteContent, DeleteContent
  <2>3. call' \in [Calls -> CallStates]
    BY <2>1, <2>2, StatesOK DEF CallSort, Goto
  <2>4. owed' \in 0 .. content'
    BY <2>1, <2>2 DEF CallSort
  <2> QED
    BY <2>1, <2>3, <2>4
<1>2. CASE Tick
  <2>1. ASSUME NEW j \in Calls, call[j].at = "timer"
        PROVE  Timer(TimeLeft(call[j].left), call[j].superseded) \in CallStates
    <3>1. call[j].left \in 0 .. Wait /\ call[j].superseded \in BOOLEAN
      BY <2>1, TimerType
    <3>2. TimeLeft(call[j].left) \in 0 .. Wait
      BY <3>1 DEF TimeLeft
    <3> QED
      BY <3>1, <3>2, StatesOK
  <2>2. call' \in [Calls -> CallStates]
    BY <1>2, <2>1 DEF Tick
  <2> QED
    BY <1>2, <2>2 DEF Tick
<1>3. CASE Crash
  <2>1. call' \in [Calls -> CallStates]
    BY <1>3, StatesOK DEF Crash
  <2> QED
    BY <1>3, <2>1 DEF Crash
<1>4. ASSUME NEW i \in Calls, Check(i) \/ Arm(i) \/ Fire(i) \/ ReadAll(i)
      PROVE  TypeOK'
  <2>1. ASSUME NEW x, call' = [call EXCEPT ![i] = x], x \in CallStates
        PROVE  call' \in [Calls -> CallStates]
    BY <2>1
  <2>2. CASE Check(i)
    BY <2>1, <2>2, StatesOK DEF Check, Goto
  <2>3. CASE Arm(i)
    <3>1. Wait \in 0 .. Wait
      OBVIOUS
    <3>2. Timer(Wait, FALSE) \in CallStates
      BY <3>1, StatesOK
    <3> QED
      BY <2>1, <2>3, <3>2 DEF Arm, Goto
  <2>4. CASE Fire(i)
    BY <2>1, <2>4, StatesOK DEF Fire, Goto
  <2>5. CASE ReadAll(i)
    BY <2>1, <2>5, StatesOK DEF ReadAll, Goto
  <2> QED
    BY <1>4, <2>2, <2>3, <2>4, <2>5
<1>5. ASSUME NEW i \in Calls, StoreSorted(i) \/ DecodeFails(i)
      PROVE  TypeOK'
  <2>1. call[i].snap \in 0 .. MaxWrites
    BY <1>5, SnapType DEF StoreSorted, DecodeFails
  <2>2. call' \in [Calls -> CallStates]
    BY <1>5, StatesOK DEF StoreSorted, DecodeFails, Goto
  <2> QED
    BY <1>5, <2>1, <2>2 DEF StoreSorted, DecodeFails
<1>6. ASSUME NEW i \in Calls, SetLastInvocation(i)
      PROVE  TypeOK'
  <2>1. ASSUME NEW j \in Calls, call[j].at = "timer"
        PROVE  Timer(call[j].left, TRUE) \in CallStates
    BY <2>1, TimerType, StatesOK
  <2>2. call' \in [Calls -> CallStates]
    BY <1>6, <2>1, StatesOK DEF SetLastInvocation
  <2>3. 0 \in 0 .. Wait + 1
    OBVIOUS
  <2> QED
    BY <1>6, <2>2, <2>3 DEF SetLastInvocation
<1>7. CASE UNCHANGED vars
  BY <1>7 DEF vars
<1> QED
  BY <1>1, <1>2, <1>3, <1>4, <1>5, <1>6, <1>7 DEF Next, Step

(* Every step keeps some call on its way that will cover what SortContent  *)
(* was called for. *)
LEMMA NextCovered ==
    ASSUME TypeOK, NoWriteForgotten, [Next]_vars
    PROVE  NoWriteForgotten'
<1> USE DEF TypeOK, Larger
<1>1. CASE WriteContent \/ DeleteContent
  <2>1. content' \in Calls /\ UNCHANGED <<covered, failed>>
    BY <1>1 DEF WriteContent, DeleteContent, Commit, Calls
  <2>2. CASE CallSort
    <3>1. call'[content'] = At("called")
      BY <2>1, <2>2 DEF CallSort, Goto
    <3> QED
      BY <2>1, <3>1 DEF NoWriteForgotten, WillCover, At
  <2>3. CASE UNCHANGED <<owed, call>>
    BY <2>1, <2>3 DEF NoWriteForgotten, WillCover
  <2> QED
    BY <1>1, <2>2, <2>3 DEF WriteContent, DeleteContent
<1>2. CASE Tick
  <2>1. ASSUME NEW j \in Calls, WillCover(j)
        PROVE  WillCover(j)'
    BY <1>2, <2>1 DEF Tick, WillCover, Timer
  <2> QED
    BY <1>2, <2>1 DEF Tick, NoWriteForgotten
<1>3. CASE Crash
  <2>1. 0 \in Calls /\ call'[0] = At("called")
    BY <1>3 DEF Crash, Calls
  <2> QED
    BY <2>1 DEF NoWriteForgotten, WillCover, At
<1>4. ASSUME NEW i \in Calls, Check(i) \/ Arm(i) \/ ReadAll(i)
      PROVE  NoWriteForgotten'
  <2>1. WillCover(i)'
    BY <1>4 DEF Check, Arm, ReadAll, Goto, WillCover, At, Timer, Sorting
  <2> QED
    BY <2>1 DEF NoWriteForgotten
<1>5. ASSUME NEW i \in Calls, Fire(i)
      PROVE  NoWriteForgotten'
  <2>1. ASSUME NEW j \in Calls, WillCover(j)
        PROVE  WillCover(j)'
    BY <1>5, <2>1 DEF Fire, Goto, WillCover, At
  <2> QED
    BY <1>5, <2>1 DEF Fire, NoWriteForgotten
<1>6. ASSUME NEW i \in Calls, StoreSorted(i) \/ DecodeFails(i)
      PROVE  NoWriteForgotten'
  <2>1. call[i].snap \in 0 .. MaxWrites
    BY <1>6, SnapType DEF StoreSorted, DecodeFails
  <2>2. owed' = owed
    BY <1>6 DEF StoreSorted, DecodeFails
  <2>3. CASE call[i].snap >= owed
    BY <1>6, <2>1, <2>2, <2>3 DEF StoreSorted, DecodeFails, NoWriteForgotten
  <2>4. CASE ~(call[i].snap >= owed)
    <3>1. ~WillCover(i)
      BY <1>6, <2>4 DEF StoreSorted, DecodeFails, WillCover
    <3>2. ASSUME NEW j \in Calls, WillCover(j)
          PROVE  WillCover(j)'
      BY <1>6, <2>2, <3>1, <3>2 DEF StoreSorted, DecodeFails, Goto, WillCover
    <3>3. Larger(covered', failed') < owed' => Larger(covered, failed) < owed
      BY <1>6, <2>1, <2>2 DEF StoreSorted, DecodeFails
    <3> QED
      BY <3>2, <3>3 DEF NoWriteForgotten
  <2> QED
    BY <2>3, <2>4
<1>7. ASSUME NEW i \in Calls, SetLastInvocation(i)
      PROVE  NoWriteForgotten'
  <2>1. WillCover(i)'
    BY <1>7 DEF SetLastInvocation, WillCover, At
  <2> QED
    BY <2>1 DEF NoWriteForgotten
<1>8. CASE UNCHANGED vars
  BY <1>8 DEF vars, NoWriteForgotten, WillCover
<1> QED
  BY <1>1, <1>2, <1>3, <1>4, <1>5, <1>6, <1>7, <1>8 DEF Next, Step

(* Type correctness of SortScheduler. *)
THEOREM TypeCorrect == Spec => []TypeOK
<1>1. Init => TypeOK
  BY InitInv
<1>2. TypeOK /\ [Next]_vars => TypeOK'
  BY NextType
<1> QED
  BY <1>1, <1>2, PTL DEF Spec

(* The debounce forgets no transaction that SortContent was called for,    *)
(* whatever the wait, the number of racing calls, of restarts and of       *)
(* deletions that end before their call (SortContent, enoughTime).         *)
THEOREM NothingForgotten == Spec => []NoWriteForgotten
<1>1. Init => NoWriteForgotten
  BY InitInv
<1>2. TypeOK /\ NoWriteForgotten /\ [Next]_vars => NoWriteForgotten'
  BY NextCovered
<1> QED
  BY <1>1, <1>2, TypeCorrect, PTL DEF Spec

------------------------------------------------------------------------------
(* ContentSearch.  OneTaskIfQuiet is what makes IndexFollowsQuietWrites    *)
(* inductive: the goroutine that runs for an undisturbed id is the only    *)
(* one, and brings what the public bucket has.                             *)

USE SearchAssumption DEF SearchAssumption

SearchInv == SearchTypeOK /\ OneTaskIfQuiet /\ IndexFollowsQuietWrites

LEMMA SearchInitInv == SearchInit => SearchInv
<1> SUFFICES ASSUME SearchInit PROVE SearchInv
  OBVIOUS
<1>1. SearchTypeOK
  <2>1. MaxIds \in Nat /\ MaxVersions \in Nat /\ MaxStops \in Nat
    OBVIOUS
  <2>2. 0 \in 0 .. MaxIds /\ Absent \in 0 .. MaxVersions /\ 0 \in 0 .. MaxStops
    BY <2>1 DEF Absent
  <2>3. stored \in [Buckets -> [Ids -> 0 .. MaxVersions]]
    BY <2>2 DEF SearchInit
  <2>4. issued \in [Buckets -> 0 .. MaxIds] /\ index \in [Ids -> 0 .. MaxVersions]
    BY <2>2 DEF SearchInit
  <2> QED BY <2>2, <2>3, <2>4 DEF SearchInit, SearchTypeOK, Absent
<1>2. OneTaskIfQuiet
  BY DEF SearchInit, OneTaskIfQuiet
<1>3. ASSUME NEW i \in Ids PROVE index[i] = stored["public"][i]
  BY DEF SearchInit, Buckets
<1>4. IndexFollowsQuietWrites
  BY <1>3 DEF IndexFollowsQuietWrites
<1> QED BY <1>1, <1>2, <1>4 DEF SearchInv

\* The goroutine of a write, or none, keeps the invariant, if only the entry of
\* the written item changes in the store.
LEMMA GoInv ==
    ASSUME SearchInv, NEW b \in Buckets, NEW i \in Ids, NEW v \in 0 .. MaxVersions,
           stored' = [stored EXCEPT ![b][i] = v], index' = index,
           Go(b, i, v) \/ NotIndexed(b, i)
    PROVE  /\ tasks' \in SUBSET [id : Ids, version : 0 .. MaxVersions]
           /\ disturbed' \in SUBSET Ids /\ missed' \in SUBSET Ids
           /\ OneTaskIfQuiet' /\ IndexFollowsQuietWrites'
<1> USE DEF SearchInv, SearchTypeOK, OneTaskIfQuiet, IndexFollowsQuietWrites, Buckets
<1>1. \A c \in Buckets, j \in Ids :
        stored'[c][j] = IF c = b /\ j = i THEN v ELSE stored[c][j]
  OBVIOUS
<1>2. CASE Go(b, i, v)
  <2>1. tasks' = tasks \cup {[id |-> i, version |-> v]}
    BY <1>2 DEF Go
  <2>2. CASE Quiet(b, i)
    <3>1. disturbed' = disturbed \ {i} /\ missed' = missed \ {i}
      BY <1>2, <2>2 DEF Go
    <3>2. OneTaskIfQuiet'
      <4> SUFFICES ASSUME NEW t \in tasks', t.id \notin disturbed'
                   PROVE  /\ t.version = stored'["public"][t.id]
                          /\ \A u \in tasks' : u.id = t.id => u = t
        OBVIOUS
      <4>1. CASE t \in tasks
        BY <4>1, <1>1, <2>1, <2>2, <3>1 DEF Quiet
      <4>2. CASE t = [id |-> i, version |-> v]
        BY <4>2, <1>1, <2>1, <2>2 DEF Quiet
      <4> QED BY <4>1, <4>2, <2>1
    <3>3. IndexFollowsQuietWrites'
      <4> SUFFICES ASSUME NEW j \in Ids, j \notin disturbed', j \notin missed',
                          \A t \in tasks' : t.id # j
                   PROVE  index'[j] = stored'["public"][j]
        OBVIOUS
      <4>1. j # i
        <5>1. [id |-> i, version |-> v] \in tasks'
          BY <2>1
        <5>2. [id |-> i, version |-> v].id = i
          OBVIOUS
        <5> QED BY <5>1, <5>2
      <4> QED BY <4>1, <1>1, <2>1, <3>1
    <3> QED BY <2>1, <3>1, <3>2, <3>3
  <2>3. CASE ~Quiet(b, i)
    <3>1. disturbed' = disturbed \cup {i} /\ missed' = missed
      BY <1>2, <2>3 DEF Go
    <3> QED BY <1>1, <2>1, <3>1
  <2> QED BY <2>2, <2>3
<1>3. CASE NotIndexed(b, i)
  BY <1>1, <1>3 DEF NotIndexed
<1> QED BY <1>2, <1>3

\* A version is stored, in an order of its own.
LEMMA StoreInv ==
    ASSUME SearchInv, NEW b \in Buckets, NEW i \in Ids, Store(b, i),
           issued' \in [Buckets -> 0 .. MaxIds]
    PROVE  SearchInv'
<1>1. versions' \in 0 .. MaxVersions
  BY DEF Store, SearchInv, SearchTypeOK
<1>2. stored' = [stored EXCEPT ![b][i] = versions']
  BY DEF Store
<1>3. Go(b, i, versions') \/ NotIndexed(b, i)
  BY DEF Store
<1>4. index' = index /\ open' = open /\ stops' = stops
  BY DEF Store
<1>5. /\ tasks' \in SUBSET [id : Ids, version : 0 .. MaxVersions]
      /\ disturbed' \in SUBSET Ids /\ missed' \in SUBSET Ids
      /\ OneTaskIfQuiet' /\ IndexFollowsQuietWrites'
  BY <1>1, <1>2, <1>3, <1>4, GoInv
<1>6. stored' \in [Buckets -> [Ids -> 0 .. MaxVersions]]
  BY <1>1, <1>2 DEF SearchInv, SearchTypeOK
<1> QED BY <1>1, <1>4, <1>5, <1>6 DEF SearchInv, SearchTypeOK

LEMMA SearchStepInv == SearchInv /\ [SearchNext]_searchVars => SearchInv'
<1> SUFFICES ASSUME SearchInv, [SearchNext]_searchVars PROVE SearchInv'
  OBVIOUS
<1>1. ASSUME NEW b \in Buckets, Insert(b) PROVE SearchInv'
  <2>1. /\ issued'[b] \in Ids /\ Store(b, issued'[b])
        /\ issued' \in [Buckets -> 0 .. MaxIds]
    BY <1>1 DEF Insert, SearchInv, SearchTypeOK, Ids
  <2> QED BY <2>1, StoreInv
<1>2. ASSUME NEW b \in Buckets, NEW i \in Ids, Update(b, i) PROVE SearchInv'
  <2>1. Store(b, i) /\ issued' \in [Buckets -> 0 .. MaxIds]
    BY <1>2 DEF Update, SearchInv, SearchTypeOK
  <2> QED BY <2>1, StoreInv
<1>3. ASSUME NEW b \in Buckets, NEW i \in Ids, Delete(b, i) PROVE SearchInv'
  <2>1. Absent \in 0 .. MaxVersions
    BY DEF Absent
  <2>2. /\ stored' = [stored EXCEPT ![b][i] = Absent] /\ index' = index
        /\ Go(b, i, Absent) \/ NotIndexed(b, i)
    BY <1>3 DEF Delete
  <2>3. /\ tasks' \in SUBSET [id : Ids, version : 0 .. MaxVersions]
        /\ disturbed' \in SUBSET Ids /\ missed' \in SUBSET Ids
        /\ OneTaskIfQuiet' /\ IndexFollowsQuietWrites'
    BY <2>1, <2>2, GoInv
  <2>4. stored' \in [Buckets -> [Ids -> 0 .. MaxVersions]]
    BY <2>1, <2>2 DEF SearchInv, SearchTypeOK
  <2> QED BY <1>3, <2>3, <2>4 DEF Delete, SearchInv, SearchTypeOK
<1>4. ASSUME NEW t \in tasks, RunTask(t) PROVE SearchInv'
  <2> USE DEF SearchInv, SearchTypeOK
  <2>1. /\ tasks' = tasks \ {t} /\ index' = [index EXCEPT ![t.id] = t.version]
        /\ UNCHANGED <<stored, issued, open, versions, disturbed, missed, stops>>
    BY <1>4 DEF RunTask, Finish
  <2>2. t.id \in Ids /\ t.version \in 0 .. MaxVersions
    OBVIOUS
  <2>3. SearchTypeOK'
    BY <2>1, <2>2
  <2>4. OneTaskIfQuiet'
    BY <2>1 DEF OneTaskIfQuiet
  <2>5. IndexFollowsQuietWrites'
    <3> SUFFICES ASSUME NEW j \in Ids, j \notin disturbed, j \notin missed,
                        \A u \in tasks' : u.id # j
                 PROVE  index'[j] = stored["public"][j]
      BY <2>1 DEF IndexFollowsQuietWrites
    <3>1. CASE j = t.id
      BY <2>1, <2>2, <3>1 DEF OneTaskIfQuiet
    <3>2. CASE j # t.id
      BY <2>1, <2>2, <3>2 DEF IndexFollowsQuietWrites
    <3> QED BY <3>1, <3>2
  <2> QED BY <2>3, <2>4, <2>5
<1>5. ASSUME NEW t \in tasks, FailTask(t) \/ MissIndex(t) PROVE SearchInv'
  <2> USE DEF SearchInv, SearchTypeOK
  <2>1. /\ tasks' = tasks \ {t}
        /\ UNCHANGED <<stored, issued, index, open, versions, stops>>
        /\ \/ disturbed' = disturbed \cup {t.id} /\ missed' = missed
           \/ disturbed' = disturbed /\ missed' = missed \cup {t.id}
    BY <1>5 DEF FailTask, MissIndex, Finish
  <2>2. t.id \in Ids
    OBVIOUS
  <2>3. SearchTypeOK'
    BY <2>1, <2>2
  <2>4. OneTaskIfQuiet'
    BY <2>1 DEF OneTaskIfQuiet
  <2>5. IndexFollowsQuietWrites'
    <3> SUFFICES ASSUME NEW j \in Ids, j \notin disturbed', j \notin missed',
                        \A u \in tasks' : u.id # j
                 PROVE  index'[j] = stored'["public"][j]
      BY DEF IndexFollowsQuietWrites
    <3>1. j # t.id /\ j \notin disturbed /\ j \notin missed
      BY <2>1
    <3>2. \A u \in tasks : u.id # j
      BY <2>1, <3>1
    <3>3. index[j] = stored["public"][j]
      BY <3>1, <3>2 DEF IndexFollowsQuietWrites
    <3> QED BY <2>1, <3>3
  <2> QED BY <2>3, <2>4, <2>5
<1>6. CASE Stop
  <2>1. /\ tasks' = {} /\ open' = FALSE /\ stops' \in 0 .. MaxStops
        /\ disturbed' = disturbed \cup {t.id : t \in tasks}
        /\ UNCHANGED <<stored, issued, index, versions, missed>>
    BY <1>6 DEF Stop, SearchInv, SearchTypeOK
  <2>2. SearchTypeOK'
    <3>1. {t.id : t \in tasks} \subseteq Ids
      BY DEF SearchInv, SearchTypeOK
    <3> QED BY <2>1, <3>1 DEF SearchInv, SearchTypeOK
  <2>3. OneTaskIfQuiet'
    BY <2>1 DEF OneTaskIfQuiet
  <2>4. IndexFollowsQuietWrites'
    <3> SUFFICES ASSUME NEW j \in Ids, j \notin disturbed', j \notin missed'
                 PROVE  index'[j] = stored'["public"][j]
      BY DEF IndexFollowsQuietWrites
    <3>1. j \notin disturbed /\ j \notin missed /\ \A t \in tasks : t.id # j
      BY <2>1
    <3>2. index[j] = stored["public"][j]
      BY <3>1 DEF SearchInv, IndexFollowsQuietWrites
    <3> QED BY <2>1, <3>2
  <2> QED BY <2>2, <2>3, <2>4 DEF SearchInv
<1>7. CASE MapIndex
  <2>1. open' = TRUE /\ UNCHANGED <<stored, issued, index, tasks, versions, disturbed, missed, stops>>
    BY <1>7 DEF MapIndex
  <2> QED BY <2>1 DEF SearchInv, SearchTypeOK, OneTaskIfQuiet, IndexFollowsQuietWrites
<1>8. CASE UNCHANGED searchVars
  BY <1>8 DEF searchVars, SearchInv, SearchTypeOK, OneTaskIfQuiet, IndexFollowsQuietWrites
<1> QED BY <1>1, <1>2, <1>3, <1>4, <1>5, <1>6, <1>7, <1>8 DEF SearchNext

LEMMA SearchInvHolds == SearchSpec => []SearchInv
  BY SearchInitInv, SearchStepInv, PTL DEF SearchSpec

\* Every variable has its type.
THEOREM SearchTypeCorrect == SearchSpec => []SearchTypeOK
  BY SearchInvHolds, PTL DEF SearchInv

\* The goroutine of a quiet write is alone, and brings what is stored (the go
\* statements at the ends of insert, update and DeleteContent).
THEOREM QuietWritesAreAlone == SearchSpec => []OneTaskIfQuiet
  BY SearchInvHolds, PTL DEF SearchInv

\* A quiet write whose goroutine finds the index open, and gets no error from it,
\* repairs what races, failures, stops, a late MapIndex and pending items of the same
\* id did to the index before (UpdateIndex and DeleteIndex).
THEOREM IndexFollows == SearchSpec => []IndexFollowsQuietWrites
  BY SearchInvHolds, PTL DEF SearchInv

------------------------------------------------------------------------------
(* The three parts together: they share no state, and each keeps its own   *)
(* invariant while another one is followed.                                *)

DerivedInv == TypeOK /\ NoWriteForgotten /\ PagingInv /\ SearchInv

LEMMA DerivedSteps ==
    ASSUME [DerivedNext]_derivedVars
    PROVE  [Next]_vars /\ [ReadPage]_pagingVars /\ [SearchNext]_searchVars
  BY Zenon DEF DerivedNext, derivedVars

LEMMA DerivedInvHolds == DerivedSpec => []DerivedInv
<1>1. DerivedInit => DerivedInv
  BY InitInv, PagingStart, SearchInitInv DEF DerivedInit, DerivedInv
<1>2. DerivedInv /\ [DerivedNext]_derivedVars => DerivedInv'
  <2> SUFFICES ASSUME DerivedInv, [DerivedNext]_derivedVars PROVE DerivedInv'
    OBVIOUS
  <2>1. TypeOK' /\ NoWriteForgotten'
    BY DerivedSteps, NextType, NextCovered DEF DerivedInv
  <2>2. PagingInv'
    BY DerivedSteps, ReadPageStep, PagingStutters DEF DerivedInv
  <2>3. SearchInv'
    BY DerivedSteps, SearchStepInv DEF DerivedInv
  <2> QED BY <2>1, <2>2, <2>3 DEF DerivedInv
<1> QED BY <1>1, <1>2, PTL DEF DerivedSpec

\* Whatever part is followed, every variable has its type (SortContent, Query,
\* UpdateIndex and DeleteIndex).
THEOREM DerivedTypeCorrect == DerivedSpec => []DerivedTypeOK
<1>1. DerivedInv => DerivedTypeOK
  BY DEF DerivedInv, PagingInv, SearchInv, DerivedTypeOK
<1> QED BY <1>1, DerivedInvHolds, PTL
==============================================================================
