------------------------------ MODULE EditorProofs ------------------------------
(***************************************************************************)
(* Proofs about NoteEditing, for documents of any size and any commands:   *)
(* where a selection is found again, where a word begins, that writing a   *)
(* document out and parsing it settles at once, that the snapshot undo     *)
(* starts from is what the editor shows, and that undo keeps its promise.  *)
(* Then the page the editor is on: what is proved of each of its parts     *)
(* holds where they stand side by side.                                    *)
(***************************************************************************)
EXTENDS MCAdminPage, PageProofs, SequenceTheorems, FiniteSetTheorems, TLAPS

------------------------------------------------------------------------------
(* Recursion.                                                              *)

\* The least element of a set of numbers.
LEMMA LeastOf ==
    ASSUME NEW T \in SUBSET Nat, T # {}
    PROVE  \E m \in T : \A k \in T : m <= k
<1>1. PICK m \in T : \A k \in T : <<k, m>> \notin OpToRel(<, Nat)
  BY NatLessThanWellFounded, WFMin
<1>2. ASSUME NEW k \in T
      PROVE  m <= k
  <2>1. <<k, m>> \notin OpToRel(<, Nat)
    BY <1>1
  <2>2. k \in Nat /\ m \in Nat
    OBVIOUS
  <2>3. ~(k < m)
    BY <2>1, <2>2 DEF OpToRel
  <2> QED BY <2>2, <2>3
<1> QED BY <1>2

\* An element of the least rank.
LEMMA LeastRanked ==
    ASSUME NEW T, NEW rank \in [T -> Nat], NEW B \in SUBSET T, B # {}
    PROVE  \E x \in B : \A y \in T : rank[y] < rank[x] => y \notin B
<1> DEFINE R == {rank[x] : x \in B}
<1>1. R \in SUBSET Nat /\ R # {}
  OBVIOUS
<1> HIDE DEF R
<1>2. PICK r \in R : \A k \in R : r <= k
  BY <1>1, LeastOf
<1>3. PICK x \in B : r = rank[x]
  BY DEF R
<1>4. ASSUME NEW y \in T, rank[y] < rank[x], y \in B
      PROVE  FALSE
  <2>1. rank[y] \in R
    BY <1>4 DEF R
  <2>2. rank[y] \in Nat /\ rank[x] \in Nat /\ rank[x] <= rank[y]
    BY <1>2, <1>3, <2>1
  <2> QED BY <1>4, <2>2
<1> QED BY <1>4

\* A definition by recursion has a solution when the value at x, G[x][f], depends
\* on the values of f at elements of lower rank alone.
IsRanked(T, S, rank, G) ==
    /\ rank \in [T -> Nat]
    /\ S # {}
    /\ \A x \in T : \A f \in [T -> S] : G[x][f] \in S
    /\ \A x \in T : \A f, g \in [T -> S] :
          (\A y \in T : rank[y] < rank[x] => f[y] = g[y]) => G[x][f] = G[x][g]
Solvable(T, S, G) == \E f \in [T -> S] : \A x \in T : f[x] = G[x][f]

LEMMA RankedRecursion ==
    ASSUME NEW T, NEW S, NEW rank, NEW G, IsRanked(T, S, rank, G)
    PROVE  Solvable(T, S, G)
<1>0. PICK s \in S : TRUE
  BY DEF IsRanked
<1>a. rank \in [T -> Nat]
  BY DEF IsRanked
<1> USE <1>a
<1> DEFINE Solves(f, n) == \A x \in T : rank[x] < n => f[x] = G[x][f]
<1>1. ASSUME NEW m \in Nat, NEW n \in Nat, m <= n, NEW f \in [T -> S], NEW g \in [T -> S],
             Solves(f, m), Solves(g, n), NEW x \in T, rank[x] < m
      PROVE  f[x] = g[x]
  <2> DEFINE B == {y \in T : rank[y] < m /\ f[y] # g[y]}
  <2> SUFFICES ASSUME B # {} PROVE FALSE
    BY <1>1
  <2>1. PICK y \in B : \A z \in T : rank[z] < rank[y] => z \notin B
    <3>1. B \in SUBSET T
      OBVIOUS
    <3> HIDE DEF B
    <3> QED BY <3>1, LeastRanked
  <2>2. \A z \in T : rank[z] \in Nat
    OBVIOUS
  <2>3. \A z \in T : rank[z] < rank[y] => f[z] = g[z]
    BY <2>1, <2>2
  <2>4. G[y][f] = G[y][g]
    BY <2>3 DEF IsRanked
  <2>5. f[y] = G[y][f] /\ g[y] = G[y][g]
    BY <1>1, <2>1, <2>2
  <2> QED BY <2>1, <2>4, <2>5
<1>2. ASSUME NEW n \in Nat
      PROVE  \E f \in [T -> S] : Solves(f, n)
  <2> DEFINE B == {k \in Nat : ~\E f \in [T -> S] : Solves(f, k)}
  <2> HIDE DEF Solves
  <2> SUFFICES ASSUME B # {} PROVE FALSE
    OBVIOUS
  <2>1. PICK k \in B : \A j \in B : k <= j
    <3>1. B \in SUBSET Nat
      OBVIOUS
    <3> HIDE DEF B
    <3> QED BY <3>1, LeastOf
  <2>2. CASE k = 0
    <3>1. [x \in T |-> s] \in [T -> S] /\ \A x \in T : ~(rank[x] < 0)
      OBVIOUS
    <3>2. Solves([x \in T |-> s], 0)
      BY <3>1 DEF Solves
    <3> QED BY <2>1, <2>2, <3>1, <3>2
  <2>3. CASE k > 0
    <3>1. k - 1 \in Nat /\ k - 1 \notin B
      BY <2>1, <2>3
    <3>2. PICK f \in [T -> S] : Solves(f, k - 1)
      BY <3>1
    <3> DEFINE g == [x \in T |-> G[x][f]]
    <3>3. g \in [T -> S]
      BY DEF IsRanked
    <3>4. ASSUME NEW x \in T, rank[x] < k
          PROVE  g[x] = G[x][g]
      <4>1. ASSUME NEW y \in T, rank[y] < rank[x]
            PROVE  f[y] = g[y]
        <5>1. rank[y] \in Nat /\ rank[x] \in Nat /\ k \in Nat
          OBVIOUS
        <5>2. rank[y] < k - 1
          BY <3>4, <4>1, <5>1
        <5> QED BY <3>2, <5>2 DEF Solves
      <4> HIDE DEF g
      <4>2. G[x][f] = G[x][g]
        BY <3>3, <4>1 DEF IsRanked
      <4> QED BY <4>2 DEF g
    <3> HIDE DEF g
    <3>5. Solves(g, k)
      BY <3>4 DEF Solves
    <3> QED BY <2>1, <3>3, <3>5
  <2> QED BY <2>1, <2>2, <2>3
<1> DEFINE SolvedTo(n) == CHOOSE f \in [T -> S] : Solves(f, n)
           h == [x \in T |-> SolvedTo(rank[x] + 1)[x]]
<1>3. ASSUME NEW n \in Nat
      PROVE  SolvedTo(n) \in [T -> S] /\ Solves(SolvedTo(n), n)
  <2> HIDE DEF Solves
  <2> QED BY <1>2
<1> HIDE DEF SolvedTo
<1>4. h \in [T -> S]
  <2>1. \A x \in T : SolvedTo(rank[x] + 1)[x] \in S
    BY <1>3
  <2> QED BY <2>1
<1>5. ASSUME NEW x \in T
      PROVE  h[x] = G[x][h]
  <2> DEFINE n == rank[x] + 1
  <2>1. n \in Nat /\ rank[x] < n /\ rank[x] \in Nat
    OBVIOUS
  <2>2. h[x] = SolvedTo(n)[x]
    OBVIOUS
  <2> HIDE DEF n, h
  <2>3. SolvedTo(n)[x] = G[x][SolvedTo(n)]
    BY <1>3, <2>1
  <2>4. ASSUME NEW y \in T, rank[y] < rank[x]
        PROVE  h[y] = SolvedTo(n)[y]
    <3>1. rank[y] + 1 \in Nat /\ rank[y] + 1 <= n /\ rank[y] < rank[y] + 1
      BY <2>1, <2>4 DEF n
    <3> HIDE DEF Solves
    <3>2. /\ SolvedTo(rank[y] + 1) \in [T -> S] /\ Solves(SolvedTo(rank[y] + 1), rank[y] + 1)
          /\ SolvedTo(n) \in [T -> S] /\ Solves(SolvedTo(n), n)
      BY <1>3, <2>1, <3>1
    <3> DEFINE k == rank[y] + 1
               f == SolvedTo(k)
               g == SolvedTo(n)
    <3> HIDE DEF k, f, g
    <3>3. f[y] = g[y]
      <4>1. k \in Nat /\ n \in Nat /\ k <= n /\ rank[y] < k
        BY <2>1, <3>1 DEF k
      <4>2. f \in [T -> S] /\ Solves(f, k) /\ g \in [T -> S] /\ Solves(g, n)
        BY <3>2 DEF f, g, k
      <4> QED BY <1>1, <4>1, <4>2
    <3> QED BY <3>3 DEF h, f, g, k
  <2>5. G[x][h] = G[x][SolvedTo(n)]
    BY <1>3, <1>4, <2>1, <2>4 DEF IsRanked
  <2> QED BY <2>2, <2>3, <2>5
<1> HIDE DEF h
<1> QED BY <1>4, <1>5 DEF Solvable

------------------------------------------------------------------------------
(* Trees.                                                                  *)

\* A child has its parent and its place, and no other node has it; numbers grow
\* downwards.
LEMMA TreeFacts ==
    ASSUME NEW d, IsTree(d)
    PROVE  /\ Nodes(d) \subseteq Nat
           /\ \A n \in Nodes(d) : d.kids[n] \in Seq(Nodes(d)) /\ Len(d.kids[n]) \in Nat
           /\ \A n \in Nodes(d) : \A i \in 1 .. Len(d.kids[n]) :
                 /\ d.kids[n][i] \in Nodes(d) /\ d.kids[n][i] > n
                 /\ d.up[d.kids[n][i]] = n
           /\ \A n \in Nodes(d) : n # Editable =>
                 /\ d.up[n] \in Nodes(d) /\ d.up[n] < n
                 /\ position(d, n) + 1 \in 1 .. Len(d.kids[d.up[n]])
                 /\ position(d, n) \in Nat
                 /\ d.kids[d.up[n]][position(d, n) + 1] = n
<1> DEFINE N == Nodes(d)
<1>1. N = 0 .. Cardinality(N) - 1
  BY DEF IsTree
<1>2. N \subseteq Nat
  <2> DEFINE c == Cardinality(N) - 1
  <2>1. N = 0 .. c
    BY <1>1
  <2> HIDE DEF N, c
  <2> QED BY <2>1
<1>3. d.up \in [N -> N \cup {Null}] /\ d.kids \in [N -> Seq(N)]
  BY DEF IsTree
<1>4. \A n \in N : d.kids[n] \in Seq(N) /\ Len(d.kids[n]) \in Nat
  BY <1>3
<1>5. ASSUME NEW n \in N, NEW i \in 1 .. Len(d.kids[n])
      PROVE  d.kids[n][i] \in N /\ d.kids[n][i] > n /\ d.up[d.kids[n][i]] = n
  <2> DEFINE k == d.kids[n][i]
  <2>1. i \in DOMAIN d.kids[n] /\ k \in N
    BY <1>4
  <2>2. d.up[k] = n
    BY <2>1 DEF IsTree
  <2>3. k # Editable
    <3>1. d.up[Editable] = Null /\ n # Null
      BY <1>2 DEF IsTree, Null
    <3> QED BY <2>2, <3>1
  <2>4. d.up[k] \in 0 .. k - 1
    BY <2>1, <2>3 DEF IsTree
  <2>5. k \in Nat /\ n \in Nat
    BY <1>2, <2>1
  <2> HIDE DEF k
  <2>6. n < k
    BY <2>2, <2>4, <2>5
  <2> QED BY <2>1, <2>2, <2>5, <2>6 DEF k
<1>6. ASSUME NEW n \in N, n # Editable
      PROVE  /\ d.up[n] \in N /\ d.up[n] < n
             /\ position(d, n) + 1 \in 1 .. Len(d.kids[d.up[n]])
             /\ position(d, n) \in Nat
             /\ d.kids[d.up[n]][position(d, n) + 1] = n
  <2> DEFINE p == d.up[n]
             i == position(d, n) + 1
  <2>1. p \in 0 .. n - 1 /\ ChildAt(d, p, position(d, n)) = n
    BY <1>6 DEF IsTree
  <2>2. n \in Nat /\ n # Null
    BY <1>2 DEF Null
  <2>3. p < n /\ p \in Nat
    BY <2>1, <2>2
  <2>4. p \in N
    BY <1>3, <2>3 DEF Null
  <2>5. i \in DOMAIN d.kids[p] /\ d.kids[p][i] = n
    BY <2>1, <2>2 DEF ChildAt, ItemAt
  <2>6. DOMAIN d.kids[p] = 1 .. Len(d.kids[p])
    BY <1>4, <2>4
  <2>7. position(d, n) = PlaceIn(d.kids[p], n) - 1
    <3>1. p # Null
      BY <2>3 DEF Null
    <3> QED BY <3>1 DEF position, Parent
  <2>8. PlaceIn(d.kids[p], n) \in DOMAIN d.kids[p]
    BY <2>5 DEF PlaceIn
  <2>9. PlaceIn(d.kids[p], n) \in 1 .. Len(d.kids[p])
    BY <2>6, <2>8
  <2>10. position(d, n) \in Nat
    BY <2>7, <2>9
  <2> QED BY <2>3, <2>4, <2>5, <2>6, <2>10
<1> QED BY <1>2, <1>4, <1>5, <1>6

\* listAncestor follows the parents.
LEMMA AncestorList ==
    ASSUME NEW d, IsTree(d), NEW pred
    PROVE  /\ listAncestor(d, Editable, pred) = <<>>
           /\ \A n \in Nodes(d) :
                 /\ listAncestor(d, n, pred) \in Seq(Nodes(d))
                 /\ n # Editable /\ n \notin pred
                    => listAncestor(d, n, pred) = <<n>> \o listAncestor(d, d.up[n], pred)
<1> DEFINE N == Nodes(d)
           T == N \cup {Null}
           S == Seq(N)
           Value(f, m) == IF m \in {Null, Editable} THEN <<>>
                          ELSE IF m \in pred THEN <<m>> ELSE <<m>> \o f[Parent(d, m)]
           Up == CHOOSE f : f = [m \in T |-> Value(f, m)]
           rank == [m \in T |-> m + 1]
           G == [m \in T |-> [f \in [T -> S] |-> Value(f, m)]]
<1>0. \A m \in T : m \notin {Null, Editable} => m \in N /\ d.up[m] \in N /\ d.up[m] < m
  BY TreeFacts
<1>1. rank \in [T -> Nat] /\ \A m \in T : rank[m] = m + 1
  BY TreeFacts DEF Null
<1>2. \A m \in T : m \in Int
  BY TreeFacts DEF Null
<1>3. <<>> \in S
  OBVIOUS
<1> HIDE DEF N
<1>4. ASSUME NEW m \in T, NEW f \in [T -> S]
      PROVE  Value(f, m) \in S
  <2>1. CASE m \in {Null, Editable}
    BY <1>3, <2>1
  <2>2. CASE m \notin {Null, Editable}
    <3>1. m \in N /\ Parent(d, m) \in T
      BY <1>0, <2>2 DEF Parent
    <3>2. f[Parent(d, m)] \in S /\ <<m>> \in S
      BY <3>1
    <3>3. <<m>> \o f[Parent(d, m)] \in S
      BY <3>2
    <3> QED BY <2>2, <3>2, <3>3
  <2> QED BY <2>1, <2>2
<1>5. ASSUME NEW m \in T, NEW f, NEW g,
             \A k \in T : rank[k] < rank[m] => f[k] = g[k]
      PROVE  Value(f, m) = Value(g, m)
  <2>1. CASE m \in {Null, Editable}
    BY <2>1
  <2>2. CASE m \notin {Null, Editable}
    <3>1. Parent(d, m) \in T /\ Parent(d, m) < m
      BY <1>0, <2>2 DEF Parent
    <3>2. rank[Parent(d, m)] < rank[m]
      BY <1>1, <1>2, <3>1
    <3>3. f[Parent(d, m)] = g[Parent(d, m)]
      BY <1>5, <3>1, <3>2
    <3> QED BY <3>3
  <2> QED BY <2>1, <2>2
<1>6. \A m \in T : \A f \in [T -> S] : G[m][f] = Value(f, m)
  OBVIOUS
<1>7. \E f \in [T -> S] : \A m \in T : f[m] = Value(f, m)
  <2> HIDE DEF T, S, Value, rank, G, Up
  <2>1. S # {}
    BY <1>3
  <2>2. IsRanked(T, S, rank, G)
    BY <1>1, <1>4, <1>5, <1>6, <2>1 DEF IsRanked
  <2>3. Solvable(T, S, G)
    BY <2>2, RankedRecursion
  <2> QED BY <1>6, <2>3 DEF Solvable
<1>8. Up = [m \in T |-> Value(Up, m)]
  <2>1. PICK f \in [T -> S] : \A m \in T : f[m] = Value(f, m)
    BY <1>7
  <2>2. f = [m \in T |-> Value(f, m)]
    <3> HIDE DEF Value
    <3> QED BY <2>1
  <2> QED BY <2>2
<1>9. \A n : listAncestor(d, n, pred) = Up[n]
  BY DEF listAncestor, N
<1> HIDE DEF Up
<1>10. \A m \in T : Up[m] \in S
  <2> DEFINE B == {m \in T : Up[m] \notin S}
  <2> SUFFICES ASSUME B # {} PROVE FALSE
    OBVIOUS
  <2>1. PICK m \in B : \A k \in T : rank[k] < rank[m] => k \notin B
    <3>1. B \in SUBSET T
      OBVIOUS
    <3> HIDE DEF B, T, rank
    <3> QED BY <1>1, <3>1, LeastRanked
  <2> DEFINE f == [k \in T |-> IF Up[k] \in S THEN Up[k] ELSE <<>>]
  <2>2. f \in [T -> S] /\ \A k \in T : rank[k] < rank[m] => f[k] = Up[k]
    <3> HIDE DEF S, T, rank
    <3> QED BY <1>3, <2>1
  <2> HIDE DEF f
  <2>3. Value(f, m) = Value(Up, m)
    <3> HIDE DEF Value, T, rank
    <3> QED BY <1>5, <2>2
  <2>4. Value(f, m) \in S
    <3> HIDE DEF Value, T, S
    <3> QED BY <1>4, <2>2
  <2>5. Up[m] = Value(Up, m)
    <3> HIDE DEF Value
    <3> QED BY <1>8
  <2> QED BY <2>3, <2>4, <2>5
<1>11. Editable \in T
  <2>1. Editable \in N
    BY DEF IsTree, N
  <2> QED BY <2>1
<1>12. Up[Editable] = <<>>
  BY <1>8, <1>11
<1>13. ASSUME NEW n \in N, n # Editable, n \notin pred
       PROVE  Up[n] = <<n>> \o Up[d.up[n]]
  <2>1. n # Null
    BY <1>2, TreeFacts DEF N, Null
  <2>2. Up[n] = Value(Up, n)
    BY <1>8
  <2> QED BY <1>13, <2>1, <2>2 DEF Parent
<1> QED BY <1>9, <1>10, <1>12, <1>13 DEF N

\* The list ends with a child of the editable.
Ancestry(d, n, u) ==
    /\ u \in Seq(Nodes(d)) /\ Len(u) \in Nat
    /\ \A i \in 1 .. Len(u) :
          /\ u[i] \in Nodes(d) /\ u[i] # Editable
          /\ d.up[u[i]] = IF i = Len(u) THEN Editable ELSE u[i + 1]
    /\ n = IF Len(u) = 0 THEN Editable ELSE u[1]

LEMMA AncestorsEnd ==
    ASSUME NEW d, IsTree(d), NEW n \in Nodes(d)
    PROVE  Ancestry(d, n, listAncestor(d, n, {Editable}))
<1> DEFINE Above(m) == listAncestor(d, m, {Editable})
           B == {m \in Nodes(d) : ~Ancestry(d, m, Above(m))}
<1> SUFFICES ASSUME B # {} PROVE FALSE
  OBVIOUS
<1>0. Nodes(d) \subseteq Nat /\ Editable = 0
  BY TreeFacts DEF Editable
<1>1. PICK m \in B : \A k \in B : m <= k
  <2>1. B \in SUBSET Nat
    BY <1>0
  <2> HIDE DEF B
  <2> QED BY <2>1, LeastOf
<1>2. m \in Nodes(d) /\ ~Ancestry(d, m, Above(m))
  BY <1>1
<1> HIDE DEF B
<1>3. CASE m = Editable
  <2>1. Above(m) = <<>>
    BY <1>3, AncestorList
  <2>2. Len(<<>>) = 0 /\ <<>> \in Seq(Nodes(d))
    OBVIOUS
  <2> HIDE DEF Above
  <2>3. Ancestry(d, m, <<>>)
    BY <1>3, <2>2 DEF Ancestry
  <2> QED BY <1>2, <2>1, <2>3
<1>4. CASE m # Editable
  <2> DEFINE p == d.up[m]
             v == Above(p)
             u == Above(m)
  <2>1. p \in Nodes(d) /\ p < m /\ m \in Nat /\ p \in Nat
    BY <1>0, <1>2, <1>4, TreeFacts
  <2>2. Ancestry(d, p, v)
    <3>1. p \notin B
      BY <1>0, <1>1, <2>1
    <3> HIDE DEF p, Above
    <3> QED BY <2>1, <3>1 DEF B
  <2>3. u = <<m>> \o v
    BY <1>2, <1>4, AncestorList
  <2> HIDE DEF Above, p, v, u
  <2>4. v \in Seq(Nodes(d)) /\ Len(v) \in Nat
    BY <2>2 DEF Ancestry
  <2>5. u \in Seq(Nodes(d)) /\ Len(u) = Len(v) + 1 /\ u[1] = m
        /\ \A i \in 2 .. Len(u) : u[i] = v[i - 1]
    BY <1>2, <2>3, <2>4
  <2>6. ASSUME NEW i \in 1 .. Len(u)
        PROVE  /\ u[i] \in Nodes(d) /\ u[i] # Editable
               /\ d.up[u[i]] = IF i = Len(u) THEN Editable ELSE u[i + 1]
    <3>1. CASE i = 1
      <4>1. CASE Len(v) = 0
        BY <1>2, <1>4, <2>2, <2>5, <3>1, <4>1 DEF Ancestry, p
      <4>2. CASE Len(v) # 0
        <5>1. u[2] = v[1] /\ p = v[1] /\ i # Len(u) /\ i + 1 = 2
          BY <2>2, <2>4, <2>5, <3>1, <4>2 DEF Ancestry
        <5> QED BY <1>2, <1>4, <2>5, <3>1, <5>1 DEF p
      <4> QED BY <4>1, <4>2
    <3>2. CASE i > 1
      <4> DEFINE j == i - 1
      <4>1. j \in 1 .. Len(v) /\ u[i] = v[j]
        BY <2>4, <2>5, <3>2
      <4>2. /\ v[j] \in Nodes(d) /\ v[j] # Editable
            /\ d.up[v[j]] = IF j = Len(v) THEN Editable ELSE v[j + 1]
        BY <2>2, <4>1 DEF Ancestry
      <4>3. i = Len(u) <=> j = Len(v)
        BY <2>4, <2>5
      <4>4. i # Len(u) => u[i + 1] = v[j + 1]
        <5> SUFFICES ASSUME i # Len(u) PROVE u[i + 1] = v[j + 1]
          OBVIOUS
        <5>1. i + 1 \in 2 .. Len(u) /\ (i + 1) - 1 = j + 1
          BY <2>4, <2>5, <3>2
        <5> HIDE DEF j
        <5> QED BY <2>5, <5>1
      <4> HIDE DEF j
      <4> QED BY <4>1, <4>2, <4>3, <4>4
    <3> QED BY <2>4, <2>5, <3>1, <3>2
  <2>7. Ancestry(d, m, u)
    BY <2>4, <2>5, <2>6 DEF Ancestry
  <2> QED BY <1>2, <2>7 DEF u
<1> QED BY <1>3, <1>4

\* The way of offsets from the editable down to a node leads to that node.
LEMMA PathLeadsBack ==
    ASSUME NEW d, IsTree(d), NEW n \in Nodes(d)
    PROVE  fromOffsetPath(d, Editable, makeOffsetPath(d, Editable, n)) = n
<1> DEFINE u == listAncestor(d, n, {Editable})
           L == Len(u)
           path == makeOffsetPath(d, Editable, n)
           Below(m, i) == IF m = Null \/ d.kids[m] = <<>> THEN Null
                          ELSE IF Len(d.kids[m]) <= i THEN Last(d.kids[m])
                          ELSE d.kids[m][i + 1]
           W == [j \in 0 .. L |-> IF j = 0 THEN Editable ELSE u[L - j + 1]]
           R == CHOOSE f : f = [j \in 0 .. Len(path) |->
                                   IF j = 0 THEN Editable ELSE Below(f[j - 1], path[j])]
<1>1. Ancestry(d, n, u)
  BY AncestorsEnd
<1>2. fromOffsetPath(d, Editable, path) = R[Len(path)]
  BY DEF fromOffsetPath
<1>3. L \in Nat /\ DOMAIN u = 1 .. L
  BY <1>1 DEF Ancestry
<1>4. Len(path) = L /\ \A j \in 1 .. L : path[j] = position(d, u[L - j + 1])
  <2> DEFINE q == [i \in DOMAIN u |-> position(d, u[i])]
  <2>1. path = Reverse(q)
    BY DEF makeOffsetPath
  <2> HIDE DEF path, u
  <2>2. Len(q) = L
    BY <1>3
  <2>3. Reverse(q) = [i \in 1 .. L |-> q[(L - i) + 1]]
    BY <2>2 DEF Reverse
  <2>4. \A i \in 1 .. L : q[(L - i) + 1] = position(d, u[L - i + 1])
    BY <1>3
  <2> HIDE DEF q
  <2> QED BY <1>3, <2>1, <2>3, <2>4
<1> HIDE DEF u, L, path
<1>5. ASSUME NEW j \in 1 .. L
      PROVE  Below(W[j - 1], path[j]) = W[j]
  <2> DEFINE i == L - j + 1
             m == u[i]
             p == d.up[m]
  <2>1. i \in 1 .. L /\ j \in 0 .. L /\ j - 1 \in 0 .. L /\ j # 0
    BY <1>3
  <2>2. m \in Nodes(d) /\ m # Editable /\ p = IF i = L THEN Editable ELSE u[i + 1]
    BY <1>1, <2>1 DEF Ancestry, L
  <2>3. W[j] = m
    BY <2>1
  <2>4. W[j - 1] = p
    <3>1. CASE j = 1
      BY <1>3, <2>1, <2>2, <3>1
    <3>2. CASE j # 1
      <4>1. i # L /\ i + 1 = L - (j - 1) + 1 /\ j - 1 # 0
        BY <1>3, <2>1, <3>2
      <4> QED BY <2>1, <2>2, <4>1
    <3> QED BY <3>1, <3>2
  <2>5. path[j] = position(d, m)
    BY <1>4
  <2> HIDE DEF W, i, p
  <2>6. /\ p \in Nodes(d) /\ Nodes(d) \subseteq Nat
        /\ d.kids[p] \in Seq(Nodes(d))
        /\ position(d, m) + 1 \in 1 .. Len(d.kids[p])
        /\ position(d, m) \in Nat
        /\ d.kids[p][position(d, m) + 1] = m
    <3> HIDE DEF m
    <3> QED BY <2>2, TreeFacts DEF p
  <2>7. p # Null /\ d.kids[p] # <<>> /\ ~(Len(d.kids[p]) <= position(d, m))
    BY <2>6 DEF Null
  <2> HIDE DEF m
  <2> QED BY <2>3, <2>4, <2>5, <2>6, <2>7
<1>6. W = [j \in 0 .. Len(path) |-> IF j = 0 THEN Editable ELSE Below(W[j - 1], path[j])]
  <2>1. W = [j \in 0 .. L |-> W[j]] /\ W[0] = Editable
    BY <1>3
  <2>2. \A j \in 0 .. L : W[j] = IF j = 0 THEN Editable ELSE Below(W[j - 1], path[j])
    <3> SUFFICES ASSUME NEW j \in 0 .. L
                 PROVE  W[j] = IF j = 0 THEN Editable ELSE Below(W[j - 1], path[j])
      OBVIOUS
    <3>1. j = 0 \/ j \in 1 .. L
      BY <1>3
    <3> HIDE DEF W, Below
    <3> QED BY <1>3, <1>5, <2>1, <3>1
  <2> HIDE DEF W, Below
  <2> QED BY <1>4, <2>1, <2>2
<1>7. R = [j \in 0 .. Len(path) |-> IF j = 0 THEN Editable ELSE Below(R[j - 1], path[j])]
  <2> HIDE DEF W, Below
  <2> QED BY <1>6
<1> HIDE DEF R
<1>8. \A j \in 0 .. L : R[j] = W[j]
  <2> DEFINE B == {j \in 0 .. L : R[j] # W[j]}
  <2> SUFFICES ASSUME B # {} PROVE FALSE
    OBVIOUS
  <2>1. PICK j \in B : \A k \in B : j <= k
    <3>1. B \in SUBSET Nat
      OBVIOUS
    <3> HIDE DEF B
    <3> QED BY <3>1, LeastOf
  <2>2. j \in 0 .. L /\ R[j] # W[j]
    OBVIOUS
  <2>3. j # 0
    <3> HIDE DEF Below
    <3> QED BY <1>3, <1>4, <1>6, <1>7, <2>2
  <2>4. j - 1 \in 0 .. L /\ R[j - 1] = W[j - 1]
    BY <1>3, <2>1, <2>2, <2>3
  <2>5. R[j] = Below(R[j - 1], path[j])
    <3> HIDE DEF Below
    <3> QED BY <1>4, <1>7, <2>2, <2>3
  <2>6. W[j] = Below(W[j - 1], path[j])
    <3>1. j \in 1 .. L
      BY <1>3, <2>2, <2>3
    <3> HIDE DEF Below, W
    <3> QED BY <1>5, <3>1
  <2> HIDE DEF Below, W, B
  <2> QED BY <2>2, <2>4, <2>5, <2>6
<1>9. W[L] = n
  <2>1. L \in 0 .. L
    BY <1>3
  <2>2. W[L] = IF L = 0 THEN Editable ELSE u[1]
    <3>1. L - L + 1 = 1
      BY <1>3
    <3> QED BY <2>1, <3>1
  <2> QED BY <1>1, <2>2 DEF Ancestry, L
<1>10. R[L] = n
  <2> HIDE DEF W
  <2> QED BY <1>3, <1>8, <1>9
<1> QED BY <1>2, <1>4, <1>10 DEF path

\* A selection saved as paths is found again, in a tree of any size.
LEMMA SelectionFound == NoteTypeOK => BookmarkFindsSelection
<1> SUFFICES ASSUME NoteTypeOK, sel # NoRange
             PROVE  createFromBookmark(doc, bookmark(doc, sel)) = sel
  BY DEF BookmarkFindsSelection
<1>1. IsTree(doc) /\ sel \in [s : Points(doc), e : Points(doc)]
  BY DEF NoteTypeOK
<1>2. sel.s.node \in Nodes(doc) /\ sel.e.node \in Nodes(doc)
  BY DEF NoteTypeOK, IsRange
<1>3. /\ fromOffsetPath(doc, Editable, makeOffsetPath(doc, Editable, sel.s.node)) = sel.s.node
      /\ fromOffsetPath(doc, Editable, makeOffsetPath(doc, Editable, sel.e.node)) = sel.e.node
  BY <1>1, <1>2, PathLeadsBack
<1>4. /\ sel = [s |-> sel.s, e |-> sel.e]
      /\ sel.s = [node |-> sel.s.node, offset |-> sel.s.offset]
      /\ sel.e = [node |-> sel.e.node, offset |-> sel.e.offset]
  BY <1>1 DEF Points, BoundaryPoints, NoPoint, Point
<1> QED BY <1>3, <1>4 DEF createFromBookmark, bookmark, RangeOf, Point

------------------------------------------------------------------------------
(* Words.                                                                  *)

\* Within a text the search goes back character by character.
LEMMA SearchBack ==
    ASSUME NEW d, IsTree(d), NEW n \in Texts(d)
    PROVE  \A i \in 0 .. Len(d.text[n]) :
              UntilNoChar(d, Point(n, i)) =
                 IF isCharPoint(d, Point(n, i)) THEN UntilNoChar(d, Point(n, i - 1))
                                                ELSE Point(n, i)
<1> DEFINE T == Points(d)
           Back(p) == prevPoint(d, p, FALSE)
           Stops(p) == p = NoPoint \/ ~isCharPoint(d, p)
           Value(f, p) == IF Stops(p) THEN p ELSE f[Back(p)]
           Onward == CHOOSE f : f = [p \in T |-> Value(f, p)]
           rank == [p \in T |-> p.offset]
           G == [p \in T |-> [f \in [T -> T] |-> Value(f, p)]]
<1>1. rank \in [T -> Nat] /\ \A p \in T : rank[p] = p.offset /\ p.offset \in Nat
  BY DEF Points, BoundaryPoints, NoPoint, Point
<1>2. ASSUME NEW p \in T, ~Stops(p)
      PROVE  /\ Back(p) = Point(p.node, p.offset - 1)
             /\ Back(p) \in T /\ rank[Back(p)] < rank[p]
  <2>1. isCharPoint(d, p) /\ p.node \in Nodes(d) /\ p.offset \in Nat
    BY <1>2 DEF Points, BoundaryPoints
  <2>2. p.node \in Texts(d) /\ p.offset \in DOMAIN d.text[p.node]
    BY <2>1 DEF isCharPoint, IsText, Texts, Named
  <2>3. d.kids[p.node] = <<>> /\ DOMAIN d.text[p.node] = 1 .. Len(d.text[p.node])
        /\ Len(d.text[p.node]) \in Nat
    BY <2>1, <2>2 DEF IsTree
  <2>4. p.offset # 0 /\ p.offset - 1 \in Nat
    BY <2>1, <2>2, <2>3
  <2>5. Back(p) = Point(p.node, p.offset - 1)
    BY <2>3, <2>4 DEF prevPoint
  <2> HIDE DEF Back
  <2>6. Back(p) \in T /\ Back(p).offset = p.offset - 1
    BY <2>1, <2>4, <2>5 DEF Points, BoundaryPoints, Point
  <2> HIDE DEF rank, T
  <2> QED BY <1>1, <2>1, <2>5, <2>6
<1> HIDE DEF Back, Stops
<1>3. ASSUME NEW p \in T, NEW f \in [T -> T]
      PROVE  Value(f, p) \in T
  BY <1>2
<1>4. ASSUME NEW p \in T, NEW f, NEW g,
             \A q \in T : rank[q] < rank[p] => f[q] = g[q]
      PROVE  Value(f, p) = Value(g, p)
  <2> HIDE DEF rank
  <2> QED BY <1>2, <1>4
<1>5. \A p \in T : \A f \in [T -> T] : G[p][f] = Value(f, p)
  OBVIOUS
<1>6. T # {}
  BY DEF Points, BoundaryPoints
<1>7. \E f \in [T -> T] : \A p \in T : f[p] = Value(f, p)
  <2> HIDE DEF T, Value, rank, G, Onward
  <2>1. IsRanked(T, T, rank, G)
    <3>1. \A p \in T : \A f \in [T -> T] : G[p][f] \in T
      BY <1>3, <1>5
    <3>2. \A p \in T : \A f, g \in [T -> T] :
             (\A q \in T : rank[q] < rank[p] => f[q] = g[q]) => G[p][f] = G[p][g]
      BY <1>4, <1>5
    <3>3. rank \in [T -> Nat]
      BY <1>1
    <3> QED BY <1>6, <3>1, <3>2, <3>3 DEF IsRanked
  <2>2. Solvable(T, T, G)
    BY <2>1, RankedRecursion
  <2> QED BY <1>5, <2>2 DEF Solvable
<1>8. Onward = [p \in T |-> Value(Onward, p)]
  <2>1. PICK f \in [T -> T] : \A p \in T : f[p] = Value(f, p)
    BY <1>7
  <2>2. f = [p \in T |-> Value(f, p)]
    <3> HIDE DEF Value
    <3> QED BY <2>1
  <2> QED BY <2>2
<1>9. \A p : UntilNoChar(d, p) = Onward[p]
  BY DEF UntilNoChar, Back, Stops
<1> HIDE DEF Onward
<1>10. ASSUME NEW i \in 0 .. Len(d.text[n])
       PROVE  Onward[Point(n, i)] = IF isCharPoint(d, Point(n, i)) THEN Onward[Point(n, i - 1)]
                                                                ELSE Point(n, i)
  <2> DEFINE p == Point(n, i)
  <2>1. n \in Nodes(d) /\ p.node = n /\ p.offset = i /\ n # Null
    BY TreeFacts DEF Texts, Named, Point, Null
  <2>2. p \in T /\ p # NoPoint
    BY <2>1 DEF Points, BoundaryPoints, Point, NoPoint
  <2>3. Stops(p) <=> ~isCharPoint(d, p)
    BY <2>2 DEF Stops
  <2> HIDE DEF p, T
  <2>4. Onward[p] = Value(Onward, p)
    BY <1>8, <2>2
  <2>5. ~Stops(p) => Back(p) = Point(n, i - 1)
    BY <1>2, <2>1, <2>2
  <2> QED BY <2>3, <2>4, <2>5 DEF p
<1> QED BY <1>9, <1>10

\* It ends at the nearest point that is behind no character of a word.
EndsAt(d, n, i, j) ==
    /\ UntilNoChar(d, Point(n, i)) = Point(n, j)
    /\ ~isCharPoint(d, Point(n, j))
    /\ \A k \in j + 1 .. i : isCharPoint(d, Point(n, k))

LEMMA SearchEnds ==
    ASSUME NEW d, IsTree(d), NEW n \in Texts(d), NEW i \in 0 .. Len(d.text[n])
    PROVE  \E j \in 0 .. i : EndsAt(d, n, i, j)
<1> DEFINE L == Len(d.text[n])
           B == {k \in 0 .. L : ~\E j \in 0 .. k : EndsAt(d, n, k, j)}
<1> SUFFICES ASSUME B # {} PROVE FALSE
  OBVIOUS
<1>0. n \in Nodes(d) /\ L \in Nat /\ DOMAIN d.text[n] = 1 .. L
  BY DEF IsTree, Texts, Named
<1>1. PICK k \in B : \A m \in B : k <= m
  <2>1. B \in SUBSET Nat
    OBVIOUS
  <2> HIDE DEF B
  <2> QED BY <2>1, LeastOf
<1>2. k \in 0 .. L /\ ~\E j \in 0 .. k : EndsAt(d, n, k, j)
  BY <1>1
<1>3. CASE ~isCharPoint(d, Point(n, k))
  <2>1. UntilNoChar(d, Point(n, k)) = Point(n, k)
    BY <1>2, <1>3, SearchBack
  <2>2. EndsAt(d, n, k, k)
    BY <1>2, <1>3, <2>1 DEF EndsAt
  <2> QED BY <1>2, <2>2
<1>4. CASE isCharPoint(d, Point(n, k))
  <2>1. k # 0
    <3>1. k \in 1 .. L
      BY <1>0, <1>4 DEF isCharPoint, Point
    <3> QED BY <3>1
  <2>2. k - 1 \in 0 .. L /\ k - 1 \notin B
    BY <1>0, <1>1, <1>2, <2>1
  <2>3. PICK j \in 0 .. k - 1 : EndsAt(d, n, k - 1, j)
    BY <2>2
  <2>4. UntilNoChar(d, Point(n, k)) = Point(n, j)
    BY <1>2, <1>4, <2>3, SearchBack DEF EndsAt
  <2>5. ASSUME NEW m \in j + 1 .. k
        PROVE  isCharPoint(d, Point(n, m))
    <3>1. m = k \/ m \in j + 1 .. k - 1
      BY <1>2, <2>3
    <3> QED BY <1>4, <2>3, <3>1 DEF EndsAt
  <2>6. EndsAt(d, n, k, j)
    BY <2>3, <2>4, <2>5 DEF EndsAt
  <2>7. j \in 0 .. k
    BY <1>2, <2>3
  <2> QED BY <1>2, <2>6, <2>7
<1> QED BY <1>3, <1>4

\* In a tree of any size the word before any place in a text has no blank and
\* reaches back to one or to the start of the text.
LEMMA WordFound == IsTree(doc) => WordBeforeCaret
<1> SUFFICES ASSUME IsTree(doc), NEW n \in Texts(doc), NEW i \in 0 .. nodeLength(doc, n)
             PROVE  LET word == getWordRange(doc, Caret(Point(n, i))) IN
                    /\ word.s.node = n
                    /\ " " \notin Range(Between(doc, word))
                    /\ word.s.offset > 0 => doc.text[n][word.s.offset] = " "
  BY DEF WordBeforeCaret
<1> DEFINE word == getWordRange(doc, Caret(Point(n, i)))
           chars == doc.text[n]
           pt == Point(n, i)
<1>1. n \in Nodes(doc) /\ IsText(doc, n)
  BY DEF Texts, Named, IsText
<1>2. chars \in Seq(STRING) /\ Len(chars) \in Nat /\ DOMAIN chars = 1 .. Len(chars)
  BY <1>1 DEF IsTree
<1>3. i \in 0 .. Len(chars)
  BY <1>1 DEF nodeLength
<1>4. PICK j \in 0 .. i : EndsAt(doc, n, i, j)
  BY <1>3, SearchEnds
<1>5. word = [s |-> Point(n, j), e |-> pt]
  <2>1. CASE isCharPoint(doc, pt)
    BY <1>4, <2>1 DEF EndsAt, getWordRange, Caret, RangeOf
  <2>2. CASE ~isCharPoint(doc, pt)
    <3>1. UntilNoChar(doc, pt) = pt
      BY <1>3, <2>2, SearchBack
    <3> QED BY <1>4, <2>2, <3>1 DEF EndsAt, getWordRange, Caret, RangeOf
  <2> QED BY <2>1, <2>2
<1> HIDE DEF word
<1>6. word.s.node = n /\ word.s.offset = j /\ word.e.offset = i
  BY <1>5 DEF Point
<1>7. " " \notin Range(Between(doc, word))
  <2> DEFINE w == SubSeq(chars, j + 1, i)
  <2>1. Between(doc, word) = w
    BY <1>6 DEF Between
  <2>2. ASSUME NEW k \in DOMAIN w
        PROVE  w[k] # " "
    <3>1. k \in 1 .. i - j /\ w[k] = chars[k + j]
      BY <1>2, <1>3
    <3>2. k + j \in j + 1 .. i
      BY <1>3, <3>1
    <3>3. isCharPoint(doc, Point(n, k + j))
      BY <1>4, <3>2 DEF EndsAt
    <3> QED BY <3>1, <3>3 DEF isCharPoint, Point
  <2> HIDE DEF w
  <2> QED BY <2>1, <2>2 DEF Range
<1>8. ASSUME j > 0
      PROVE  chars[j] = " "
  <2>1. j \in DOMAIN chars
    BY <1>2, <1>3, <1>8
  <2>2. ~isCharPoint(doc, Point(n, j))
    BY <1>4 DEF EndsAt
  <2> QED BY <1>1, <2>1, <2>2 DEF isCharPoint, Point
<1> QED BY <1>6, <1>7, <1>8 DEF word

------------------------------------------------------------------------------
(* Writing the document out.                                              *)

\* Below every node the rank falls, and a node has at most b children.
Descends(d, r, b) ==
    /\ b \in Nat
    /\ r \in [Nodes(d) -> Nat]
    /\ \A n \in Nodes(d) :
          /\ d.kids[n] \in Seq(Nodes(d)) /\ Len(d.kids[n]) <= b
          /\ \A i \in 1 .. Len(d.kids[n]) : r[d.kids[n][i]] < r[n]

WalkValue(d, f, p) ==
    IF p.offset \notin DOMAIN d.kids[p.node] THEN <<p.node>>
    ELSE f[Point(p.node, p.offset - 1)] \o f[EndOf(d, d.kids[p.node][p.offset])]
IsWalk(d, f) ==
    /\ f \in [BoundaryPoints(d) -> Seq(Nodes(d))]
    /\ \A p \in BoundaryPoints(d) : f[p] = WalkValue(d, f, p)

LEMMA Product ==
    ASSUME NEW x \in Nat, NEW y \in Nat, NEW b \in Nat, x < y
    PROVE  x * (b + 1) + b < y * (b + 1) /\ x * (b + 1) \in Nat
<1>1. PICK z \in Nat : y = x + 1 + z
  <2>1. y - x - 1 \in Nat /\ y = x + 1 + (y - x - 1)
    OBVIOUS
  <2> QED BY <2>1
<1>2. z * (b + 1) \in Nat /\ x * (b + 1) \in Nat
  OBVIOUS
<1>3. y * (b + 1) = x * (b + 1) + (b + 1) + z * (b + 1)
  BY <1>1
<1> QED BY <1>2, <1>3

\* What a walk needs: the points it goes on from, and their rank.
PointRank(d, r, b) ==
    [p \in BoundaryPoints(d) |->
        IF p.offset \in DOMAIN d.kids[p.node] THEN r[p.node] * (b + 1) + p.offset ELSE 0]

LEMMA PointRanks ==
    ASSUME NEW d, NEW r, NEW b, Descends(d, r, b)
    PROVE  /\ PointRank(d, r, b) \in [BoundaryPoints(d) -> Nat]
           /\ \A p \in BoundaryPoints(d) : p.offset \in DOMAIN d.kids[p.node] =>
                 LET q == Point(p.node, p.offset - 1)
                     e == EndOf(d, d.kids[p.node][p.offset]) IN
                 /\ p.node \in Nodes(d) /\ p.offset \in 1 .. Len(d.kids[p.node])
                 /\ d.kids[p.node][p.offset] \in Nodes(d)
                 /\ q \in BoundaryPoints(d) /\ e \in BoundaryPoints(d)
                 /\ PointRank(d, r, b)[q] < PointRank(d, r, b)[p]
                 /\ PointRank(d, r, b)[e] < PointRank(d, r, b)[p]
<1> DEFINE R == PointRank(d, r, b)
           T == BoundaryPoints(d)
<1>0. \A p \in T : p.node \in Nodes(d) /\ p.offset \in Nat
  BY DEF BoundaryPoints
<1>1. \A n \in Nodes(d) :
         /\ d.kids[n] \in Seq(Nodes(d)) /\ Len(d.kids[n]) \in Nat /\ Len(d.kids[n]) <= b
         /\ DOMAIN d.kids[n] = 1 .. Len(d.kids[n]) /\ r[n] \in Nat
         /\ r[n] * (b + 1) \in Nat /\ b \in Nat
  BY DEF Descends
<1>2. ASSUME NEW n \in Nodes(d), NEW i \in Nat
      PROVE  /\ Point(n, i) \in T
             /\ i \in 1 .. Len(d.kids[n]) => R[Point(n, i)] = r[n] * (b + 1) + i
             /\ i \notin 1 .. Len(d.kids[n]) => R[Point(n, i)] = 0
             /\ R[Point(n, i)] \in Nat
  <2>1. Point(n, i) \in T /\ Point(n, i).node = n /\ Point(n, i).offset = i
    BY DEF BoundaryPoints, Point
  <2>2. R[Point(n, i)] = IF i \in DOMAIN d.kids[n] THEN r[n] * (b + 1) + i ELSE 0
    BY <2>1 DEF PointRank
  <2> QED BY <1>1, <2>1, <2>2
<1>3. R \in [T -> Nat]
  <2>1. ASSUME NEW p \in T
        PROVE  (IF p.offset \in DOMAIN d.kids[p.node] THEN r[p.node] * (b + 1) + p.offset
                ELSE 0) \in Nat
    BY <1>0, <1>1
  <2> QED BY <2>1 DEF PointRank
<1>4. ASSUME NEW p \in T, p.offset \in DOMAIN d.kids[p.node]
      PROVE  LET q == Point(p.node, p.offset - 1)
                 e == EndOf(d, d.kids[p.node][p.offset]) IN
             /\ p.node \in Nodes(d) /\ p.offset \in 1 .. Len(d.kids[p.node])
             /\ d.kids[p.node][p.offset] \in Nodes(d)
             /\ q \in T /\ e \in T
             /\ R[q] < R[p]
             /\ R[e] < R[p]
  <2> DEFINE n == p.node
             i == p.offset
             k == d.kids[n][i]
  <2>1. n \in Nodes(d) /\ i \in Nat /\ p = Point(n, i)
    BY DEF BoundaryPoints, Point
  <2>2. i \in 1 .. Len(d.kids[n]) /\ k \in Nodes(d) /\ r[k] < r[n]
    <3>1. i \in 1 .. Len(d.kids[n])
      BY <1>1, <1>4, <2>1
    <3> HIDE DEF n, i
    <3> QED BY <1>1, <2>1, <3>1 DEF Descends
  <2>3. R[p] = r[n] * (b + 1) + i
    BY <1>2, <2>1, <2>2
  <2> HIDE DEF R, T, n, i, k
  <2>4. i - 1 \in Nat /\ (i - 1 \in 1 .. Len(d.kids[n]) \/ i - 1 \notin 1 .. Len(d.kids[n]))
    BY <2>2
  <2>5. Point(n, i - 1) \in T /\ R[Point(n, i - 1)] < R[p]
    <3>1. Point(n, i - 1) \in T
      BY <1>2, <2>1, <2>4
    <3>2. R[Point(n, i - 1)] = r[n] * (b + 1) + (i - 1) \/ R[Point(n, i - 1)] = 0
      BY <1>2, <2>1, <2>4
    <3>3. r[n] * (b + 1) \in Nat /\ i \in Nat /\ i > 0
      BY <1>1, <2>1, <2>2
    <3> QED BY <2>3, <3>1, <3>2, <3>3
  <2>6. EndOf(d, k) \in T /\ R[EndOf(d, k)] < R[p]
    <3> DEFINE c == Len(d.kids[k])
    <3>1. c \in Nat /\ c <= b /\ b \in Nat /\ r[k] \in Nat /\ r[n] \in Nat
      BY <1>1, <2>1, <2>2
    <3>2. EndOf(d, k) = Point(k, c)
      BY DEF EndOf
    <3>3. Point(k, c) \in T /\ (R[Point(k, c)] = r[k] * (b + 1) + c \/ R[Point(k, c)] = 0)
      BY <1>2, <2>2, <3>1
    <3>4. r[k] * (b + 1) + b < r[n] * (b + 1) /\ r[k] * (b + 1) \in Nat
      BY <2>2, <3>1, Product
    <3>5. r[n] * (b + 1) \in Nat /\ i \in Nat /\ i > 0
      BY <1>1, <2>1, <2>2
    <3> HIDE DEF c
    <3> QED BY <2>3, <3>1, <3>2, <3>3, <3>4, <3>5
  <2> QED BY <2>1, <2>2, <2>5, <2>6 DEF n, i, k
<1> QED BY <1>3, <1>4

\* Two functions that satisfy the equations agree.
LEMMA OneWalk ==
    ASSUME NEW d, NEW r, NEW b, Descends(d, r, b), NEW f, NEW g,
           \A p \in BoundaryPoints(d) : f[p] = WalkValue(d, f, p),
           \A p \in BoundaryPoints(d) : g[p] = WalkValue(d, g, p)
    PROVE  \A p \in BoundaryPoints(d) : f[p] = g[p]
<1> DEFINE T == BoundaryPoints(d)
           R == PointRank(d, r, b)
           B == {p \in T : f[p] # g[p]}
<1> SUFFICES ASSUME B # {} PROVE FALSE
  OBVIOUS
<1>1. PICK p \in B : \A q \in T : R[q] < R[p] => q \notin B
  <2>1. R \in [T -> Nat]
    BY PointRanks
  <2>2. B \in SUBSET T
    OBVIOUS
  <2> HIDE DEF B, T, R
  <2> QED BY <2>1, <2>2, LeastRanked
<1>2. p \in T /\ f[p] # g[p] /\ \A q \in T : R[q] < R[p] => f[q] = g[q]
  BY <1>1
<1>3. WalkValue(d, f, p) = WalkValue(d, g, p)
  BY <1>2, PointRanks DEF WalkValue
<1> QED BY <1>2, <1>3

\* A walk there is, it is the only one, and it is what DepthFirst computes.
LEMMA Walks ==
    ASSUME NEW d, NEW r, NEW b, Descends(d, r, b)
    PROVE  \E f : /\ IsWalk(d, f)
                  /\ \A n : DepthFirst(d, n) = f[EndOf(d, n)]
<1> DEFINE T == BoundaryPoints(d)
           S == Seq(Nodes(d))
           R == PointRank(d, r, b)
           F == CHOOSE f : f = [p \in T |-> WalkValue(d, f, p)]
           G == [p \in T |-> [f \in [T -> S] |-> WalkValue(d, f, p)]]
<1>1. R \in [T -> Nat]
  BY PointRanks
<1>2. ASSUME NEW p \in T, p.offset \in DOMAIN d.kids[p.node]
      PROVE  /\ Point(p.node, p.offset - 1) \in T
             /\ R[Point(p.node, p.offset - 1)] < R[p]
             /\ EndOf(d, d.kids[p.node][p.offset]) \in T
             /\ R[EndOf(d, d.kids[p.node][p.offset])] < R[p]
  BY <1>2, PointRanks
<1>3. \A p \in T : p.node \in Nodes(d)
  BY DEF BoundaryPoints
<1> HIDE DEF T, R
<1>4. ASSUME NEW p \in T, NEW f \in [T -> S]
      PROVE  WalkValue(d, f, p) \in S
  <2>1. CASE p.offset \notin DOMAIN d.kids[p.node]
    BY <1>3, <2>1 DEF WalkValue
  <2>2. CASE p.offset \in DOMAIN d.kids[p.node]
    <3>1. f[Point(p.node, p.offset - 1)] \in S /\ f[EndOf(d, d.kids[p.node][p.offset])] \in S
      BY <1>2, <2>2
    <3> QED BY <2>2, <3>1 DEF WalkValue
  <2> QED BY <2>1, <2>2
<1>5. ASSUME NEW p \in T, NEW f, NEW g, \A q \in T : R[q] < R[p] => f[q] = g[q]
      PROVE  WalkValue(d, f, p) = WalkValue(d, g, p)
  BY <1>2, <1>5 DEF WalkValue
<1>6. \A p \in T : \A f \in [T -> S] : G[p][f] = WalkValue(d, f, p)
  OBVIOUS
<1>7. S # {}
  <2>1. <<>> \in S
    OBVIOUS
  <2> QED BY <2>1
<1> HIDE DEF S, G
<1>8. IsRanked(T, S, R, G)
  <2>1. \A p \in T : \A f \in [T -> S] : G[p][f] \in S
    BY <1>4, <1>6
  <2>2. \A p \in T : \A f, g \in [T -> S] :
           (\A q \in T : R[q] < R[p] => f[q] = g[q]) => G[p][f] = G[p][g]
    BY <1>5, <1>6
  <2> QED BY <1>1, <1>7, <2>1, <2>2 DEF IsRanked
<1>9. Solvable(T, S, G)
  BY <1>8, RankedRecursion
<1>10. PICK h \in [T -> S] : \A p \in T : h[p] = WalkValue(d, h, p)
  BY <1>6, <1>9 DEF Solvable
<1>11. F = [p \in T |-> WalkValue(d, F, p)]
  <2>1. h = [p \in T |-> WalkValue(d, h, p)]
    BY <1>10
  <2> QED BY <2>1
<1>12. \A n : DepthFirst(d, n) = F[EndOf(d, n)]
  BY DEF DepthFirst, WalkValue, T, Kids
<1> HIDE DEF F
<1>13. \A p \in T : F[p] = WalkValue(d, F, p)
  BY <1>11
<1>14. F = h
  <2>1. \A p \in T : F[p] = h[p]
    BY <1>10, <1>13, OneWalk DEF T
  <2> QED BY <1>10, <1>11, <2>1
<1> QED BY <1>10, <1>12, <1>14 DEF IsWalk, T, S

\* What is written out: nodes and their children, each child once.
IsForest(d) ==
    /\ Editable \in Nodes(d)
    /\ \E c \in Nat : Nodes(d) = 0 .. c - 1
    /\ \A n \in Nodes(d) :
          /\ d.kids[n] \in Seq(Nodes(d))
          /\ IsInjective(d.kids[n])
          /\ \A i \in 1 .. Len(d.kids[n]) : d.kids[n][i] > n /\ d.up[d.kids[n][i]] = n

LEMMA ForestDescends ==
    ASSUME NEW d, IsForest(d)
    PROVE  \E r, b : Descends(d, r, b)
<1>1. PICK c \in Nat : Nodes(d) = 0 .. c - 1
  BY DEF IsForest
<1> DEFINE r == [n \in Nodes(d) |-> c - n]
<1>2. r \in [Nodes(d) -> Nat]
  BY <1>1
<1>3. ASSUME NEW n \in Nodes(d)
      PROVE  /\ d.kids[n] \in Seq(Nodes(d)) /\ Len(d.kids[n]) <= c
             /\ \A i \in 1 .. Len(d.kids[n]) : r[d.kids[n][i]] < r[n]
  <2> DEFINE s == d.kids[n]
             L == Len(s)
  <2>1. s \in Seq(Nodes(d)) /\ IsInjective(s) /\ \A i \in 1 .. L : s[i] > n
    BY DEF IsForest
  <2>2. L \in Nat /\ DOMAIN s = 1 .. L /\ s \in [1 .. L -> 0 .. c - 1]
    BY <1>1, <2>1
  <2> HIDE DEF s, L
  <2>3. L <= c
    <3> SUFFICES ASSUME L > c PROVE FALSE
      BY <1>1, <2>2
    <3>1. IsFiniteSet(1 .. L) /\ Cardinality(1 .. L) = L
      BY <2>2, FS_Interval
    <3>2. IsFiniteSet(0 .. c - 1) /\ Cardinality(0 .. c - 1) = c
      BY <1>1, FS_Interval
    <3>3. \E x, y \in 1 .. L : x # y /\ s[x] = s[y]
      BY <1>1, <2>2, <3>1, <3>2, FS_PigeonHole
    <3> QED BY <2>1, <2>2, <3>3 DEF IsInjective
  <2>4. ASSUME NEW i \in 1 .. L
        PROVE  r[s[i]] < r[n]
    <3>1. s[i] \in Nodes(d) /\ s[i] > n
      BY <2>1, <2>2
    <3>2. s[i] \in Int /\ n \in Int
      BY <1>1, <3>1
    <3> QED BY <1>1, <3>1, <3>2
  <2> HIDE DEF r
  <2> QED BY <2>1, <2>3, <2>4 DEF s, L
<1> HIDE DEF r
<1> QED BY <1>1, <1>2, <1>3 DEF Descends

\* What is met on the way to a point (n, i) of a document: n, and the first i children
\* of n with all that is below them, each node once.
Spans(d, s, n, i) ==
    /\ s \in Seq(Nodes(d)) /\ IsInjective(s)
    /\ n \in Range(s) /\ s[1] = n
    /\ \A x \in Range(s) : x # n =>
          /\ x > n
          /\ d.up[x] \in Range(s)
          /\ x \in Range(d.kids[d.up[x]])
          /\ Range(d.kids[x]) \subseteq Range(s)
          /\ d.up[x] = n => \E j \in 1 .. i : x = d.kids[n][j]
    /\ \A j \in 1 .. i : d.kids[n][j] \in Range(s)

LEMMA SpansStart ==
    ASSUME NEW d, NEW n \in Nodes(d)
    PROVE  Spans(d, <<n>>, n, 0)
<1>1. <<n>> \in Seq(Nodes(d)) /\ Range(<<n>>) = {n} /\ IsInjective(<<n>>) /\ <<n>>[1] = n
  BY DEF Range, IsInjective
<1> QED BY <1>1 DEF Spans

LEMMA SpansJoin ==
    ASSUME NEW d, IsForest(d), NEW n \in Nodes(d), NEW i \in 1 .. Len(d.kids[n]),
           NEW s, Spans(d, s, n, i - 1),
           NEW t, Spans(d, t, d.kids[n][i], Len(d.kids[d.kids[n][i]]))
    PROVE  Spans(d, s \o t, n, i)
<1> DEFINE k == d.kids[n][i]
           A == Range(s)
           C == Range(t)
<1>1. k \in Nodes(d) /\ k > n /\ d.up[k] = n /\ k \in Range(d.kids[n])
      /\ n \in Nat /\ i \in Nat /\ Nodes(d) \subseteq Nat
  <2>1. d.kids[n] \in Seq(Nodes(d)) /\ k > n /\ d.up[k] = n
    BY DEF IsForest
  <2>2. k \in Nodes(d) /\ k \in Range(d.kids[n])
    BY <2>1 DEF Range
  <2>3. Nodes(d) \subseteq Nat
    <3>1. PICK c \in Nat : Nodes(d) = 0 .. c - 1
      BY DEF IsForest
    <3> QED BY <3>1
  <2>4. i \in Nat
    BY <2>1
  <2> HIDE DEF k
  <2> QED BY <2>1, <2>2, <2>3, <2>4
<1>2. s \in Seq(Nodes(d)) /\ t \in Seq(Nodes(d)) /\ IsInjective(s) /\ IsInjective(t)
      /\ n \in A /\ k \in C /\ A \subseteq Nodes(d) /\ C \subseteq Nodes(d)
  BY DEF Spans, Range
<1>3. \A x \in A : x # n =>
         /\ x > n /\ d.up[x] \in A /\ x \in Range(d.kids[d.up[x]])
         /\ Range(d.kids[x]) \subseteq A
         /\ d.up[x] = n => \E j \in 1 .. i - 1 : x = d.kids[n][j]
  BY DEF Spans
<1>4. \A x \in C : x # k =>
         /\ x > k /\ d.up[x] \in C /\ x \in Range(d.kids[d.up[x]])
         /\ Range(d.kids[x]) \subseteq C
  BY DEF Spans
<1>5. Range(d.kids[k]) \subseteq C
  <2>1. \A j \in 1 .. Len(d.kids[k]) : d.kids[k][j] \in C
    BY DEF Spans
  <2> HIDE DEF k
  <2>2. DOMAIN d.kids[k] = 1 .. Len(d.kids[k])
    <3>1. d.kids[k] \in Seq(Nodes(d))
      BY <1>1, Zenon DEF IsForest
    <3> QED BY ONLY <3>1, LenProperties
  <2> QED BY <2>1, <2>2 DEF Range
<1>6. \A j \in 1 .. i - 1 : d.kids[n][j] \in A /\ d.kids[n][j] # k
  <2>1. IsInjective(d.kids[n]) /\ DOMAIN d.kids[n] = 1 .. Len(d.kids[n]) /\ Len(d.kids[n]) \in Nat
    BY DEF IsForest
  <2>2. \A j \in 1 .. i - 1 : j \in DOMAIN d.kids[n] /\ i \in DOMAIN d.kids[n] /\ j # i
    BY <2>1
  <2>3. \A j \in 1 .. i - 1 : d.kids[n][j] \in A
    BY DEF Spans
  <2> QED BY <2>1, <2>2, <2>3 DEF IsInjective
<1> HIDE DEF k, A, C
<1>7. A \cap C = {}
  <2> SUFFICES ASSUME A \cap C # {} PROVE FALSE
    OBVIOUS
  <2>1. PICK x \in A \cap C : \A y \in A \cap C : x <= y
    <3>1. A \cap C \in SUBSET Nat
      BY <1>1, <1>2
    <3> QED BY <3>1, LeastOf
  <2>2. x \in Nat /\ k \in Nat /\ x # n
    <3>1. x \in Nat /\ k \in Nat /\ n \in Nat /\ k > n
      BY <1>1, <1>2, <2>1
    <3>2. x = k \/ x > k
      BY <1>4, <2>1
    <3> QED BY <3>1, <3>2
  <2>3. x # k
    BY <1>1, <1>3, <1>6, <2>1, <2>2
  <2>4. d.up[x] \in A \cap C /\ x \in Range(d.kids[d.up[x]])
    BY <1>3, <1>4, <2>1, <2>2, <2>3
  <2>5. d.up[x] < x
    <3> DEFINE p == d.up[x]
    <3>1. p \in Nodes(d)
      BY <1>2, <2>4
    <3>2. \A j \in 1 .. Len(d.kids[p]) : d.kids[p][j] > p
      BY <3>1 DEF IsForest
    <3>3. DOMAIN d.kids[p] = 1 .. Len(d.kids[p])
      <4>1. d.kids[p] \in Seq(Nodes(d))
        BY <3>1, Zenon DEF IsForest
      <4> QED BY ONLY <4>1, LenProperties
    <3>4. p \in Nat
      BY <1>1, <3>1
    <3> HIDE DEF p
    <3>5. x > p
      BY <2>4, <3>2, <3>3 DEF Range, p
    <3> QED BY <2>2, <3>4, <3>5 DEF p
  <2>6. d.up[x] \in Nat
    BY <1>1, <1>2, <2>4
  <2> QED BY <2>1, <2>2, <2>4, <2>5, <2>6
<1>8. s \o t \in Seq(Nodes(d)) /\ Range(s \o t) = A \cup C
  <2>1. Range(s \o t) = Range(s) \cup Range(t)
    BY <1>2, RangeConcatenation
  <2> QED BY <1>2, <2>1 DEF A, C
<1>9. IsInjective(s \o t)
  <2> DEFINE u == s \o t
  <2>1. Len(s) \in Nat /\ Len(t) \in Nat /\ DOMAIN s = 1 .. Len(s) /\ DOMAIN t = 1 .. Len(t)
        /\ DOMAIN u = 1 .. Len(s) + Len(t)
        /\ \A a \in 1 .. Len(s) + Len(t) :
              u[a] = IF a <= Len(s) THEN s[a] ELSE t[a - Len(s)]
    BY <1>2
  <2> HIDE DEF u
  <2>2. ASSUME NEW a \in DOMAIN u, NEW b \in DOMAIN u, u[a] = u[b]
        PROVE  a = b
    <3>1. a \in Nat /\ b \in Nat
      BY <2>1
    <3>2. \A j \in DOMAIN u : j <= Len(s) => j \in DOMAIN s /\ u[j] = s[j] /\ u[j] \in A
      BY <2>1 DEF A, Range
    <3>3. \A j \in DOMAIN u : ~(j <= Len(s)) =>
             j - Len(s) \in DOMAIN t /\ u[j] = t[j - Len(s)] /\ u[j] \in C
      BY <2>1 DEF C, Range
    <3>4. CASE a <= Len(s) /\ b <= Len(s)
      BY <1>2, <2>2, <3>2, <3>4 DEF IsInjective
    <3>5. CASE ~(a <= Len(s)) /\ ~(b <= Len(s))
      <4>1. a - Len(s) = b - Len(s)
        BY <1>2, <2>2, <3>3, <3>5 DEF IsInjective
      <4> QED BY <2>1, <3>1, <4>1
    <3>6. ~(a <= Len(s) /\ ~(b <= Len(s))) /\ ~(b <= Len(s) /\ ~(a <= Len(s)))
      BY <1>7, <2>2, <3>2, <3>3
    <3> QED BY <3>4, <3>5, <3>6
  <2>3. IsInjective(u)
    BY <2>2 DEF IsInjective
  <2> QED BY <2>3 DEF u
<1>12. (s \o t)[1] = n
  <2>1. s[1] = n /\ n \in Range(s)
    BY DEF Spans
  <2>2. 1 \in DOMAIN s
    BY <1>2, <2>1 DEF Range
  <2>3. (s \o t)[1] = s[1]
    BY <1>2, <2>2
  <2> QED BY <2>1, <2>3
<1>10. ASSUME NEW x \in A \cup C, x # n
       PROVE  /\ x > n
              /\ d.up[x] \in A \cup C
              /\ x \in Range(d.kids[d.up[x]])
              /\ Range(d.kids[x]) \subseteq A \cup C
              /\ d.up[x] = n => \E j \in 1 .. i : x = d.kids[n][j]
  <2>1. CASE x \in A
    <3>1. \A j \in 1 .. i - 1 : j \in 1 .. i
      BY <1>1
    <3> QED BY <1>3, <1>10, <2>1, <3>1
  <2>2. CASE x = k
    <3>1. i \in 1 .. i
      BY <1>1
    <3> QED BY <1>1, <1>2, <1>5, <2>2, <3>1 DEF k
  <2>3. CASE x \in C /\ x # k
    <3>1. x > k /\ d.up[x] \in C /\ x \in Range(d.kids[d.up[x]]) /\ Range(d.kids[x]) \subseteq C
      BY <1>4, <2>3
    <3>2. x \in Nat /\ d.up[x] \in Nat /\ k \in Nat
      BY <1>1, <1>2, <2>3, <3>1
    <3>3. d.up[x] = k \/ d.up[x] > k
      BY <1>4, <3>1
    <3> QED BY <1>1, <3>1, <3>2, <3>3
  <2> QED BY <2>1, <2>2, <2>3
<1>11. ASSUME NEW j \in 1 .. i
       PROVE  d.kids[n][j] \in A \cup C
  <2>1. j = i \/ j \in 1 .. i - 1
    BY <1>1
  <2> QED BY <1>2, <1>6, <2>1 DEF k
<1> QED BY <1>2, <1>8, <1>9, <1>10, <1>11, <1>12 DEF Spans

LEMMA WalkSpans ==
    ASSUME NEW d, IsForest(d), NEW f, IsWalk(d, f)
    PROVE  \A n \in Nodes(d) : \A i \in 0 .. Len(d.kids[n]) : Spans(d, f[Point(n, i)], n, i)
<1> DEFINE T == BoundaryPoints(d)
           B == {p \in T : p.offset <= Len(d.kids[p.node]) /\ ~Spans(d, f[p], p.node, p.offset)}
<1>0. \A n \in Nodes(d) :
         /\ d.kids[n] \in Seq(Nodes(d)) /\ Len(d.kids[n]) \in Nat
         /\ DOMAIN d.kids[n] = 1 .. Len(d.kids[n])
  BY DEF IsForest
<1>1. ASSUME B # {} PROVE FALSE
  <2>1. PICK r, b : Descends(d, r, b)
    BY ForestDescends
  <2> DEFINE R == PointRank(d, r, b)
  <2>2. PICK p \in B : \A q \in T : R[q] < R[p] => q \notin B
    <3>1. R \in [T -> Nat]
      BY <2>1, PointRanks
    <3>2. B \in SUBSET T
      OBVIOUS
    <3> HIDE DEF B, T, R
    <3> QED BY <1>1, <3>1, <3>2, LeastRanked
  <2> DEFINE n == p.node
             i == p.offset
  <2>3. p \in T /\ n \in Nodes(d) /\ i \in Nat /\ i <= Len(d.kids[n]) /\ ~Spans(d, f[p], n, i)
    BY <2>2 DEF BoundaryPoints
  <2>4. f[p] = WalkValue(d, f, p)
    BY <2>3 DEF IsWalk
  <2>5. CASE i = 0
    <3>1. f[p] = <<n>>
      <4>1. i \notin DOMAIN d.kids[n]
        BY <1>0, <2>3, <2>5
      <4> QED BY <2>4, <4>1 DEF WalkValue
    <3> QED BY <2>3, <2>5, <3>1, SpansStart
  <2>6. CASE i # 0
    <3> DEFINE k == d.kids[n][i]
               q == Point(n, i - 1)
               e == EndOf(d, k)
    <3>1. i \in 1 .. Len(d.kids[n]) /\ i \in DOMAIN d.kids[n]
      BY <1>0, <2>3, <2>6
    <3>2. /\ k \in Nodes(d) /\ q \in T /\ e \in T /\ R[q] < R[p] /\ R[e] < R[p]
      BY <2>1, <2>3, <3>1, PointRanks
    <3>3. q \notin B /\ e \notin B
      BY <2>2, <3>2
    <3>4. q.node = n /\ q.offset = i - 1 /\ e.node = k /\ e.offset = Len(d.kids[k])
      BY DEF Point, EndOf
    <3>5. f[p] = f[q] \o f[e]
      BY <2>4, <3>1 DEF WalkValue
    <3> HIDE DEF k, n, i, q, e, T, R
    <3>6. Spans(d, f[q], n, i - 1)
      <4>1. i - 1 <= Len(d.kids[n])
        BY <1>0, <2>3, <3>1
      <4> QED BY <3>2, <3>3, <3>4, <4>1
    <3>7. Spans(d, f[e], k, Len(d.kids[k]))
      <4>1. Len(d.kids[k]) <= Len(d.kids[k])
        BY <1>0, <3>2
      <4> QED BY <3>2, <3>3, <3>4, <4>1
    <3>8. Spans(d, f[q] \o f[e], n, i)
      BY <2>3, <3>1, <3>6, <3>7, SpansJoin DEF k
    <3> QED BY <2>3, <3>5, <3>8
  <2> QED BY <2>5, <2>6
<1>2. ASSUME NEW n \in Nodes(d), NEW i \in 0 .. Len(d.kids[n])
      PROVE  Spans(d, f[Point(n, i)], n, i)
  <2> DEFINE p == Point(n, i)
  <2>1. p \in T /\ p.node = n /\ p.offset = i
    BY <1>0 DEF BoundaryPoints, Point
  <2>2. p \notin B
    BY <1>1
  <2>3. i <= Len(d.kids[n])
    BY <1>0
  <2> HIDE DEF p
  <2> QED BY <2>1, <2>2, <2>3 DEF p
<1> QED BY <1>2

\* The order of the nodes that are written out.
LEMMA OrderSpans ==
    ASSUME NEW d, IsForest(d)
    PROVE  Spans(d, DepthFirst(d, Editable), Editable, Len(d.kids[Editable]))
<1>1. PICK r, b : Descends(d, r, b)
  BY ForestDescends
<1>2. PICK f : IsWalk(d, f) /\ \A n : DepthFirst(d, n) = f[EndOf(d, n)]
  BY <1>1, Walks
<1> DEFINE i == Len(d.kids[Editable])
<1>3. Editable \in Nodes(d) /\ i \in 0 .. i
  BY DEF IsForest
<1>4. Spans(d, f[Point(Editable, i)], Editable, i)
  <2> HIDE DEF i
  <2> QED BY <1>2, <1>3, WalkSpans DEF i
<1> QED BY <1>2, <1>4 DEF EndOf

\* The new number of a node.
Number(order, x) == PlaceIn(order, x) - 1

LEMMA Numbers ==
    ASSUME NEW S, NEW order \in Seq(S), IsInjective(order)
    PROVE  /\ \A i \in 0 .. Len(order) - 1 :
                 order[i + 1] \in Range(order) /\ Number(order, order[i + 1]) = i
           /\ \A x \in Range(order) :
                 Number(order, x) \in 0 .. Len(order) - 1 /\ order[Number(order, x) + 1] = x
<1>1. DOMAIN order = 1 .. Len(order) /\ Len(order) \in Nat
  OBVIOUS
<1>2. \A x \in Range(order) : PlaceIn(order, x) \in DOMAIN order /\ order[PlaceIn(order, x)] = x
  BY DEF Range, PlaceIn
<1>3. ASSUME NEW i \in 0 .. Len(order) - 1
      PROVE  order[i + 1] \in Range(order) /\ Number(order, order[i + 1]) = i
  <2>1. i + 1 \in DOMAIN order /\ i \in Nat
    BY <1>1
  <2>2. order[i + 1] \in Range(order)
    BY <2>1 DEF Range
  <2>3. PlaceIn(order, order[i + 1]) = i + 1
    BY <1>2, <2>1, <2>2 DEF IsInjective
  <2> QED BY <2>1, <2>2, <2>3 DEF Number
<1>4. ASSUME NEW x \in Range(order)
      PROVE  Number(order, x) \in 0 .. Len(order) - 1 /\ order[Number(order, x) + 1] = x
  <2> DEFINE j == PlaceIn(order, x)
  <2>1. j \in 1 .. Len(order) /\ order[j] = x
    BY <1>1, <1>2
  <2> HIDE DEF j
  <2>2. j - 1 \in 0 .. Len(order) - 1 /\ j - 1 + 1 = j
    BY <1>1, <2>1
  <2> QED BY <2>1, <2>2 DEF Number, j
<1> QED BY <1>3, <1>4

\* What Renumber makes of a document.
IsRenumbered(h, d, order) ==
    /\ Nodes(h) = 0 .. Len(order) - 1
    /\ h = [tag |-> [i \in Nodes(h) |-> d.tag[order[i + 1]]],
            up |-> [i \in Nodes(h) |->
                      IF i = Editable THEN Null ELSE Number(order, d.up[order[i + 1]])],
            kids |-> [i \in Nodes(h) |->
                        [j \in DOMAIN d.kids[order[i + 1]] |->
                            Number(order, d.kids[order[i + 1]][j])]],
            text |-> [i \in Nodes(h) |-> d.text[order[i + 1]]],
            margin |-> [i \in Nodes(h) |-> d.margin[order[i + 1]]]]

LEMMA RenumberForm ==
    ASSUME NEW d
    PROVE  IsRenumbered(Renumber(d), d, DepthFirst(d, Editable))
<1> DEFINE order == DepthFirst(d, Editable)
           h == Renumber(d)
           All == 0 .. Len(order) - 1
<1> HIDE DEF order, All
<1>1. h = [tag |-> [i \in All |-> d.tag[order[i + 1]]],
           up |-> [i \in All |->
                      IF i = Editable THEN Null ELSE Number(order, d.up[order[i + 1]])],
           kids |-> [i \in All |->
                        [j \in DOMAIN d.kids[order[i + 1]] |->
                            Number(order, d.kids[order[i + 1]][j])]],
           text |-> [i \in All |-> d.text[order[i + 1]]],
           margin |-> [i \in All |-> d.margin[order[i + 1]]]]
  BY DEF Renumber, Number, order, All
<1> HIDE DEF h
<1>2. Nodes(h) = All
  BY <1>1 DEF Nodes
<1>3. IsRenumbered(h, d, order)
  BY <1>1, <1>2 DEF IsRenumbered, All
<1> QED BY <1>3 DEF h, order

\* Nodes i of the one and order[i + 1] of the other correspond.
Corresponds(h, d, order) ==
    /\ order \in Seq(Nodes(d)) /\ Len(order) \in Nat \ {0}
    /\ order[1] = Editable
    /\ \A i \in 0 .. Len(order) - 1 :
          /\ i \in Nodes(h) /\ order[i + 1] \in Nodes(d)
          /\ h.tag[i] = d.tag[order[i + 1]]
          /\ h.text[i] = d.text[order[i + 1]]
          /\ Len(h.kids[i]) = Len(d.kids[order[i + 1]])
          /\ h.kids[i] \in Seq(Nodes(h))
          /\ \A j \in 1 .. Len(d.kids[order[i + 1]]) :
                /\ h.kids[i][j] \in 0 .. Len(order) - 1
                /\ order[h.kids[i][j] + 1] = d.kids[order[i + 1]][j]
    /\ h.up[Editable] = Null
    /\ \A i \in 1 .. Len(order) - 1 :
          h.up[i] \in Nodes(h) /\ i \in Range(h.kids[h.up[i]])

LEMMA RenumberedNodes ==
    ASSUME NEW d, IsForest(d), NEW h, IsRenumbered(h, d, DepthFirst(d, Editable))
    PROVE  Corresponds(h, d, DepthFirst(d, Editable))
<1> DEFINE order == DepthFirst(d, Editable)
           All == 0 .. Len(order) - 1
           New(x) == Number(order, x)
           ed == Editable
<1>1. Spans(d, order, ed, Len(d.kids[ed]))
  BY OrderSpans
<1> HIDE DEF order, ed
<1>2. /\ order \in Seq(Nodes(d)) /\ IsInjective(order) /\ ed \in Range(order) /\ order[1] = ed
      /\ \A x \in Range(order) : x # ed =>
            d.up[x] \in Range(order) /\ x \in Range(d.kids[d.up[x]])
            /\ Range(d.kids[x]) \subseteq Range(order)
      /\ \A j \in 1 .. Len(d.kids[ed]) : d.kids[ed][j] \in Range(order)
  BY <1>1 DEF Spans
<1>3. Len(order) \in Nat /\ DOMAIN order = 1 .. Len(order) /\ Len(order) # 0
      /\ Range(order) \subseteq Nodes(d)
  BY <1>2 DEF Range
<1>4. /\ \A i \in All : order[i + 1] \in Range(order) /\ New(order[i + 1]) = i
      /\ \A x \in Range(order) : New(x) \in All /\ order[New(x) + 1] = x
  BY <1>2, Numbers
<1>5. \A n \in Nodes(d) :
         /\ d.kids[n] \in Seq(Nodes(d)) /\ Len(d.kids[n]) \in Nat
         /\ DOMAIN d.kids[n] = 1 .. Len(d.kids[n])
  BY DEF IsForest
<1>6. \A x \in Range(order) : Range(d.kids[x]) \subseteq Range(order)
  <2>1. Range(d.kids[ed]) \subseteq Range(order)
    <3>1. DOMAIN d.kids[ed] = 1 .. Len(d.kids[ed])
      BY <1>2, <1>3, <1>5
    <3>2. \A j \in 1 .. Len(d.kids[ed]) : d.kids[ed][j] \in Range(order)
      BY <1>2
    <3> QED BY ONLY <3>1, <3>2 DEF Range
  <2> QED BY <1>2, <2>1
<1>7. /\ Nodes(h) = All
      /\ h.tag = [i \in All |-> d.tag[order[i + 1]]]
      /\ h.up = [i \in All |-> IF i = ed THEN Null ELSE New(d.up[order[i + 1]])]
      /\ h.kids = [i \in All |-> [j \in DOMAIN d.kids[order[i + 1]] |->
                                     New(d.kids[order[i + 1]][j])]]
      /\ h.text = [i \in All |-> d.text[order[i + 1]]]
  <2> DEFINE N == Nodes(h)
  <2>1. IsRenumbered(h, d, order)
    BY DEF order
  <2>2. N = All
    BY <2>1 DEF IsRenumbered
  <2>3. h = [tag |-> [i \in N |-> d.tag[order[i + 1]]],
             up |-> [i \in N |-> IF i = ed THEN Null ELSE New(d.up[order[i + 1]])],
             kids |-> [i \in N |-> [j \in DOMAIN d.kids[order[i + 1]] |->
                                       New(d.kids[order[i + 1]][j])]],
             text |-> [i \in N |-> d.text[order[i + 1]]],
             margin |-> [i \in N |-> d.margin[order[i + 1]]]]
    BY <2>1 DEF IsRenumbered, ed
  <2> HIDE DEF N, All, New
  <2>4. /\ h.tag = [i \in N |-> d.tag[order[i + 1]]]
        /\ h.up = [i \in N |-> IF i = ed THEN Null ELSE New(d.up[order[i + 1]])]
        /\ h.kids = [i \in N |-> [j \in DOMAIN d.kids[order[i + 1]] |->
                                     New(d.kids[order[i + 1]][j])]]
        /\ h.text = [i \in N |-> d.text[order[i + 1]]]
    BY <2>3
  <2> QED BY <2>2, <2>4 DEF N
<1>8. ASSUME NEW i \in All
      PROVE  /\ i \in Nodes(h) /\ order[i + 1] \in Nodes(d)
             /\ h.tag[i] = d.tag[order[i + 1]]
             /\ h.text[i] = d.text[order[i + 1]]
             /\ Len(h.kids[i]) = Len(d.kids[order[i + 1]])
             /\ h.kids[i] \in Seq(Nodes(h))
             /\ \A j \in 1 .. Len(d.kids[order[i + 1]]) :
                   /\ h.kids[i][j] \in All /\ h.kids[i][j] = New(d.kids[order[i + 1]][j])
                   /\ order[h.kids[i][j] + 1] = d.kids[order[i + 1]][j]
  <2> DEFINE x == order[i + 1]
             ks == d.kids[x]
  <2>1. x \in Range(order) /\ x \in Nodes(d)
    BY <1>3, <1>4
  <2>2. Len(ks) \in Nat /\ DOMAIN ks = 1 .. Len(ks)
    BY <1>5, <2>1
  <2>3. \A j \in 1 .. Len(ks) : ks[j] \in Range(order)
    BY <1>6, <2>1, <2>2 DEF Range
  <2>4. h.kids[i] = [j \in 1 .. Len(ks) |-> New(ks[j])]
    BY <1>7, <2>2
  <2>5. h.tag[i] = d.tag[x] /\ h.text[i] = d.text[x] /\ i \in Nodes(h)
    BY <1>7
  <2> HIDE DEF ks, x, All, New
  <2>6. \A j \in 1 .. Len(ks) : New(ks[j]) \in All /\ order[New(ks[j]) + 1] = ks[j]
    BY <1>4, <2>3
  <2>7. Len(h.kids[i]) = Len(ks) /\ h.kids[i] \in Seq(All)
        /\ \A j \in 1 .. Len(ks) : h.kids[i][j] = New(ks[j])
    BY <2>2, <2>4, <2>6
  <2> QED BY <1>7, <2>1, <2>5, <2>6, <2>7 DEF ks, x
<1>9. h.up[ed] = Null
  <2>1. ed \in All
    BY <1>3 DEF ed, Editable
  <2> QED BY <1>7, <2>1
<1>10. ASSUME NEW i \in 1 .. Len(order) - 1
       PROVE  h.up[i] \in Nodes(h) /\ i \in Range(h.kids[h.up[i]])
  <2> DEFINE x == order[i + 1]
             p == d.up[x]
             u == New(p)
  <2>1. i \in All /\ i # ed /\ i + 1 \in DOMAIN order /\ 1 \in DOMAIN order /\ i + 1 # 1
    BY <1>3 DEF ed, Editable
  <2>2. x # ed /\ x \in Range(order) /\ New(x) = i
    BY <1>2, <1>4, <2>1 DEF IsInjective
  <2>3. p \in Range(order) /\ x \in Range(d.kids[p])
    BY <1>2, <2>2
  <2>4. u \in All /\ order[u + 1] = p
    BY <1>4, <2>3
  <2>5. h.up[i] = u
    BY <1>7, <2>1
  <2>6. PICK j \in DOMAIN d.kids[p] : x = d.kids[p][j]
    BY <2>3 DEF Range
  <2>7. DOMAIN d.kids[p] = 1 .. Len(d.kids[p])
    BY <1>3, <1>5, <2>3
  <2> HIDE DEF x, p, u, New, All
  <2>8. Len(h.kids[u]) = Len(d.kids[p]) /\ h.kids[u] \in Seq(Nodes(h)) /\ h.kids[u][j] = i
    BY <1>8, <2>2, <2>4, <2>6, <2>7
  <2>9. j \in DOMAIN h.kids[u]
    BY <2>6, <2>7, <2>8
  <2>10. i \in Range(h.kids[u])
    BY <2>8, <2>9 DEF Range
  <2> QED BY <1>7, <2>4, <2>5, <2>10
<1> HIDE DEF All, New
<1>11. \A i \in All :
          /\ i \in Nodes(h) /\ order[i + 1] \in Nodes(d)
          /\ h.tag[i] = d.tag[order[i + 1]]
          /\ h.text[i] = d.text[order[i + 1]]
          /\ Len(h.kids[i]) = Len(d.kids[order[i + 1]])
          /\ h.kids[i] \in Seq(Nodes(h))
          /\ \A j \in 1 .. Len(d.kids[order[i + 1]]) :
                h.kids[i][j] \in All /\ order[h.kids[i][j] + 1] = d.kids[order[i + 1]][j]
  BY <1>8
<1>12. Corresponds(h, d, order)
  BY <1>2, <1>3, <1>9, <1>10, <1>11 DEF Corresponds, ed, All
<1> QED BY <1>12 DEF order

\* Renaming the elements of two sequences and joining them.
Moved(new, s) == [j \in DOMAIN s |-> new[s[j]]]
IsRenaming(new, N, V) == new \in [N -> V]

LEMMA MovedJoin ==
    ASSUME NEW N, NEW V, NEW new, IsRenaming(new, N, V), NEW s \in Seq(N), NEW t \in Seq(N)
    PROVE  Moved(new, s \o t) = Moved(new, s) \o Moved(new, t)
<1> DEFINE m == [j \in DOMAIN s |-> new[s[j]]]
           u == [j \in DOMAIN t |-> new[t[j]]]
           v == [j \in DOMAIN (s \o t) |-> new[(s \o t)[j]]]
           L == Len(s) + Len(t)
<1> USE DEF IsRenaming
<1>1. Len(s) \in Nat /\ Len(t) \in Nat
  OBVIOUS
<1>2. m \in Seq(V) /\ Len(m) = Len(s) /\ \A j \in 1 .. Len(s) : m[j] = new[s[j]]
  OBVIOUS
<1>3. u \in Seq(V) /\ Len(u) = Len(t) /\ \A j \in 1 .. Len(t) : u[j] = new[t[j]]
  OBVIOUS
<1>4. s \o t \in Seq(N) /\ Len(s \o t) = L
      /\ \A j \in 1 .. L : (s \o t)[j] = IF j <= Len(s) THEN s[j] ELSE t[j - Len(s)]
  BY ConcatProperties
<1>5. v \in Seq(V) /\ Len(v) = L /\ \A j \in 1 .. L : v[j] = new[(s \o t)[j]]
  <2> DEFINE c == s \o t
  <2> HIDE DEF c
  <2>1. c \in Seq(N) /\ Len(c) = L
    BY <1>4 DEF c
  <2>2. [j \in DOMAIN c |-> new[c[j]]] \in Seq(V) /\ Len([j \in DOMAIN c |-> new[c[j]]]) = L
        /\ \A j \in 1 .. L : [j_1 \in DOMAIN c |-> new[c[j_1]]][j] = new[c[j]]
    BY <2>1
  <2> QED BY <2>2 DEF c
<1> HIDE DEF m, u, v
<1>6. m \o u \in Seq(V) /\ Len(m \o u) = L
      /\ \A j \in 1 .. L : (m \o u)[j] = IF j <= Len(s) THEN m[j] ELSE u[j - Len(s)]
  <2>1. m \o u \in Seq(V) /\ Len(m \o u) = Len(m) + Len(u)
        /\ \A j \in 1 .. Len(m) + Len(u) :
              (m \o u)[j] = IF j <= Len(m) THEN m[j] ELSE u[j - Len(m)]
    <3>1. m \in Seq(V) /\ u \in Seq(V)
      BY <1>2, <1>3
    <3> QED BY <3>1, ConcatProperties
  <2>2. Len(m) = Len(s) /\ Len(u) = Len(t)
    BY <1>2, <1>3
  <2> QED BY <2>1, <2>2
<1>7. ASSUME NEW j \in 1 .. L
      PROVE  v[j] = (m \o u)[j]
  <2>1. CASE j <= Len(s)
    <3>1. j \in 1 .. Len(s)
      BY <1>1, <2>1
    <3>2. v[j] = new[s[j]] /\ (m \o u)[j] = m[j]
      BY <1>4, <1>5, <1>6, <2>1
    <3> QED BY <1>2, <3>1, <3>2
  <2>2. CASE ~(j <= Len(s))
    <3>1. j - Len(s) \in 1 .. Len(t)
      BY <1>1, <2>2
    <3>2. v[j] = new[t[j - Len(s)]] /\ (m \o u)[j] = u[j - Len(s)]
      BY <1>4, <1>5, <1>6, <2>2
    <3> QED BY <1>3, <3>1, <3>2
  <2> QED BY <2>1, <2>2
<1>8. v = m \o u
  BY <1>5, <1>6, <1>7, SeqEqual
<1> QED BY <1>8 DEF m, u, v, Moved

\* A document with its numbers in the order of writing keeps them.
LEMMA RenumberedOrder ==
    ASSUME NEW d, IsForest(d), NEW h, IsRenumbered(h, d, DepthFirst(d, Editable))
    PROVE  DepthFirst(h, Editable) = [j \in 1 .. Len(DepthFirst(d, Editable)) |-> j - 1]
<1> DEFINE order == DepthFirst(d, Editable)
           L == Len(order)
           New == [x \in Nodes(d) |-> Number(order, x)]
           V == {Number(order, x) : x \in Nodes(d)}
<1>1. PICK r, b : Descends(d, r, b)
  BY ForestDescends
<1>2. PICK f : IsWalk(d, f) /\ \A n : DepthFirst(d, n) = f[EndOf(d, n)]
  BY <1>1, Walks
<1>3. /\ order \in Seq(Nodes(d)) /\ L \in Nat \ {0}
      /\ order[1] = Editable
      /\ \A i \in 0 .. L - 1 :
            /\ i \in Nodes(h) /\ order[i + 1] \in Nodes(d)
            /\ Len(h.kids[i]) = Len(d.kids[order[i + 1]])
            /\ h.kids[i] \in Seq(Nodes(h))
            /\ \A j \in 1 .. Len(d.kids[order[i + 1]]) :
                  /\ h.kids[i][j] \in 0 .. L - 1
                  /\ order[h.kids[i][j] + 1] = d.kids[order[i + 1]][j]
  <2>1. Corresponds(h, d, order)
    BY RenumberedNodes
  <2> HIDE DEF order
  <2> QED BY <2>1 DEF Corresponds
<1>4. Nodes(h) = 0 .. L - 1
  BY DEF IsRenumbered
<1>5. IsInjective(order) /\ Editable \in Nodes(d)
  BY OrderSpans DEF Spans, IsForest
<1>6. \A i \in 0 .. L - 1 : New[order[i + 1]] = i
  BY <1>3, <1>5, Numbers
<1>15. IsRenaming(New, Nodes(d), V)
  BY DEF IsRenaming
<1> HIDE DEF order, L, New, V
<1>7. \A n \in Nodes(d) : DOMAIN d.kids[n] = 1 .. Len(d.kids[n]) /\ Len(d.kids[n]) \in Nat
  BY DEF IsForest
<1>8. \A i \in 0 .. L - 1 : DOMAIN h.kids[i] = 1 .. Len(d.kids[order[i + 1]])
  BY <1>3, <1>7
\* The walk of d, with the new numbers, is a walk of h.
<1> DEFINE Old(p) == Point(order[p.node + 1], p.offset)
           g == [p \in BoundaryPoints(h) |-> Moved(New, f[Old(p)])]
           q == [i \in Nodes(h) |-> r[order[i + 1]]]
<1>9. Descends(h, q, b)
  <2>1. q \in [Nodes(h) -> Nat] /\ b \in Nat
    BY <1>1, <1>3, <1>4 DEF Descends
  <2>2. ASSUME NEW n \in Nodes(h)
        PROVE  /\ h.kids[n] \in Seq(Nodes(h)) /\ Len(h.kids[n]) <= b
               /\ \A i \in 1 .. Len(h.kids[n]) : q[h.kids[n][i]] < q[n]
    <3> DEFINE m == order[n + 1]
    <3>1. m \in Nodes(d) /\ Len(h.kids[n]) = Len(d.kids[m]) /\ h.kids[n] \in Seq(Nodes(h))
      BY <1>3, <1>4
    <3>2. Len(d.kids[m]) <= b /\ \A i \in 1 .. Len(d.kids[m]) : r[d.kids[m][i]] < r[m]
      BY <1>1, <3>1 DEF Descends
    <3>3. \A i \in 1 .. Len(d.kids[m]) :
             h.kids[n][i] \in Nodes(h) /\ order[h.kids[n][i] + 1] = d.kids[m][i]
      BY <1>3, <1>4
    <3> HIDE DEF m
    <3>4. \A i \in 1 .. Len(d.kids[m]) : q[h.kids[n][i]] = r[d.kids[m][i]] /\ q[n] = r[m]
      BY <3>3 DEF m
    <3> HIDE DEF q
    <3> QED BY <3>1, <3>2, <3>4
  <2> HIDE DEF q
  <2> QED BY <2>1, <2>2 DEF Descends
<1>10. ASSUME NEW p \in BoundaryPoints(h)
       PROVE  g[p] = WalkValue(h, g, p)
  <2> DEFINE y == p.node
             i == p.offset
             n == order[y + 1]
  <2>1. y \in 0 .. L - 1 /\ i \in Nat /\ n \in Nodes(d)
    BY <1>3, <1>4 DEF BoundaryPoints
  <2>2. Old(p) \in BoundaryPoints(d) /\ Old(p).node = n /\ Old(p).offset = i
    BY <2>1 DEF BoundaryPoints, Point
  <2>3. f[Old(p)] = WalkValue(d, f, Old(p))
    BY <1>2, <2>2 DEF IsWalk
  <2>4. DOMAIN h.kids[y] = 1 .. Len(d.kids[n]) /\ DOMAIN d.kids[n] = 1 .. Len(d.kids[n])
    BY <1>7, <1>8, <2>1
  <2>5. g[p] = Moved(New, f[Old(p)])
    OBVIOUS
  <2>6. New[n] = y
    BY <1>6, <2>1
  <2>7. CASE i \notin 1 .. Len(d.kids[n])
    <3>1. f[Old(p)] = <<n>>
      BY <2>2, <2>3, <2>4, <2>7 DEF WalkValue
    <3>2. Moved(New, <<n>>) = <<y>>
      <4> HIDE DEF n, y
      <4> QED BY <2>6 DEF Moved
    <3>3. WalkValue(h, g, p) = <<y>>
      <4> HIDE DEF g
      <4> QED BY <2>4, <2>7 DEF WalkValue
    <3> HIDE DEF g, n, y, Old
    <3> QED BY <2>5, <3>1, <3>2, <3>3
  <2>8. CASE i \in 1 .. Len(d.kids[n])
    <3> DEFINE k == d.kids[n][i]
               z == h.kids[y][i]
               s == f[Point(n, i - 1)]
               t == f[EndOf(d, k)]
    <3>1. z \in 0 .. L - 1 /\ order[z + 1] = k /\ k \in Nodes(d)
      <4>1. \A j \in 1 .. Len(d.kids[n]) :
               h.kids[y][j] \in 0 .. L - 1 /\ order[h.kids[y][j] + 1] = d.kids[n][j]
        BY <1>3, <2>1
      <4>2. k \in Nodes(d)
        BY <1>3, <1>4, <2>1, <2>8, <4>1
      <4> QED BY <2>8, <4>1, <4>2
    <3>2. f[Old(p)] = s \o t
      BY <2>2, <2>3, <2>4, <2>8 DEF WalkValue
    <3>3. WalkValue(h, g, p) = g[Point(y, i - 1)] \o g[EndOf(h, z)]
      <4> HIDE DEF g
      <4> QED BY <2>4, <2>8 DEF WalkValue
    <3>4. g[Point(y, i - 1)] = Moved(New, s)
      <4> DEFINE a == Point(y, i - 1)
      <4>1. a \in BoundaryPoints(h) /\ Old(a) = Point(n, i - 1)
        BY <1>4, <2>1, <2>8 DEF BoundaryPoints, Point
      <4>2. g[a] = Moved(New, f[Old(a)])
        <5> HIDE DEF a, Old
        <5> QED BY <4>1
      <4> HIDE DEF a, g, Old
      <4> QED BY <4>1, <4>2 DEF a
    <3>5. g[EndOf(h, z)] = Moved(New, t)
      <4> DEFINE a == EndOf(h, z)
      <4>1. a \in BoundaryPoints(h) /\ Old(a) = EndOf(d, k)
        <5>1. Len(h.kids[z]) = Len(d.kids[k]) /\ z \in Nodes(h) /\ Len(h.kids[z]) \in Nat
          BY <1>3, <1>7, <3>1
        <5> HIDE DEF z, k
        <5>2. a = Point(z, Len(h.kids[z]))
          BY DEF EndOf
        <5>3. a \in BoundaryPoints(h) /\ a.node = z /\ a.offset = Len(h.kids[z])
          BY <5>1, <5>2 DEF BoundaryPoints, Point
        <5> QED BY <3>1, <5>1, <5>3 DEF EndOf
      <4>2. g[a] = Moved(New, f[Old(a)])
        <5> HIDE DEF a, Old
        <5> QED BY <4>1
      <4> HIDE DEF a, g, Old
      <4> QED BY <4>1, <4>2 DEF a
    <3>6. s \in Seq(Nodes(d)) /\ t \in Seq(Nodes(d))
      <4>1. f \in [BoundaryPoints(d) -> Seq(Nodes(d))]
        BY <1>2 DEF IsWalk
      <4>2. Point(n, i - 1) \in BoundaryPoints(d) /\ EndOf(d, k) \in BoundaryPoints(d)
        <5>1. i - 1 \in Nat /\ Len(d.kids[k]) \in Nat
          BY <1>7, <2>1, <2>8, <3>1
        <5> HIDE DEF k, n, i
        <5> QED BY <2>1, <3>1, <5>1 DEF BoundaryPoints, Point, EndOf
      <4> QED BY <4>1, <4>2
    <3> HIDE DEF s, t, g, k, z, y, i, n, Old
    <3>7. Moved(New, s \o t) = Moved(New, s) \o Moved(New, t)
      BY <1>15, <3>6, MovedJoin
    <3> QED BY <2>5, <3>2, <3>3, <3>4, <3>5, <3>7
  <2> HIDE DEF g, y, i, n, Old
  <2> QED BY <2>7, <2>8
<1>11. PICK w : IsWalk(h, w) /\ \A n : DepthFirst(h, n) = w[EndOf(h, n)]
  <2> HIDE DEF q, g
  <2> QED BY <1>9, Walks
<1>12. w[EndOf(h, Editable)] = g[EndOf(h, Editable)] /\ EndOf(h, Editable) \in BoundaryPoints(h)
  <2> HIDE DEF q, g
  <2>1. EndOf(h, Editable) \in BoundaryPoints(h)
    <3>1. Editable \in 0 .. L - 1
      BY <1>3 DEF Editable
    <3>2. h.kids[Editable] \in Seq(Nodes(h)) /\ Editable \in Nodes(h)
      BY <1>3, <3>1
    <3> QED BY <3>2 DEF EndOf, BoundaryPoints, Point
  <2>2. \A p \in BoundaryPoints(h) : w[p] = WalkValue(h, w, p)
    BY <1>11 DEF IsWalk
  <2> QED BY <1>9, <1>10, <2>1, <2>2, OneWalk
<1>13. g[EndOf(h, Editable)] = Moved(New, order)
  <2> DEFINE a == EndOf(h, Editable)
  <2>1. a.node = Editable /\ a.offset = Len(h.kids[Editable])
    BY DEF EndOf, Point
  <2>2. Editable \in 0 .. L - 1 /\ order[Editable + 1] = Editable
    BY <1>3 DEF Editable
  <2>3. Len(h.kids[Editable]) = Len(d.kids[Editable])
    BY <1>3, <2>2
  <2>4. Old(a) = EndOf(d, Editable)
    BY <2>1, <2>2, <2>3 DEF EndOf
  <2>5. g[a] = Moved(New, f[Old(a)])
    <3> HIDE DEF a, Old
    <3> QED BY <1>12 DEF a
  <2> HIDE DEF g, a, Old
  <2> QED BY <1>2, <2>4, <2>5 DEF a, order
<1>14. Moved(New, order) = [j \in 1 .. L |-> j - 1]
  <2>1. DOMAIN order = 1 .. L
    BY <1>3 DEF L
  <2>2. \A j \in 1 .. L : New[order[j]] = j - 1
    <3> SUFFICES ASSUME NEW j \in 1 .. L PROVE New[order[j]] = j - 1
      OBVIOUS
    <3>1. j - 1 \in 0 .. L - 1 /\ (j - 1) + 1 = j
      BY <1>3
    <3>2. New[order[(j - 1) + 1]] = j - 1
      BY <1>6, <3>1
    <3> QED BY <3>1, <3>2
  <2> QED BY <2>1, <2>2 DEF Moved
<1> HIDE DEF g
<1> QED BY <1>11, <1>12, <1>13, <1>14 DEF order, L

------------------------------------------------------------------------------
(* Neighbouring texts.                                                     *)

\* A run of texts is the first and the run behind it.
LEMMA RunStep ==
    ASSUME NEW d, d.text \in [Nodes(d) -> Seq(STRING)], NEW ks \in Seq(Nodes(d)), NEW j \in Nat
    PROVE  /\ RunFrom(d, ks, j) \in Seq(STRING)
           /\ j \notin DOMAIN ks \/ ~IsText(d, ks[j]) => RunFrom(d, ks, j) = <<>>
           /\ j \in DOMAIN ks /\ IsText(d, ks[j])
              => RunFrom(d, ks, j) = d.text[ks[j]] \o RunFrom(d, ks, j + 1)
<1> DEFINE L == Len(ks)
           S == Seq(STRING)
           Ends(i) == i \notin DOMAIN ks \/ ~IsText(d, ks[i])
           Value(f, i) == IF Ends(i) THEN <<>> ELSE d.text[ks[i]] \o f[i + 1]
           Run == CHOOSE f : f = [i \in Nat |-> Value(f, i)]
           R == [i \in Nat |-> IF i <= L THEN L + 1 - i ELSE 0]
           G == [i \in Nat |-> [f \in [Nat -> S] |-> Value(f, i)]]
<1>1. L \in Nat /\ DOMAIN ks = 1 .. L
  OBVIOUS
<1>2. R \in [Nat -> Nat]
  BY <1>1
<1>3. ASSUME NEW i \in Nat, ~Ends(i)
      PROVE  d.text[ks[i]] \in S /\ i + 1 \in Nat /\ R[i + 1] < R[i]
  <2>1. i \in 1 .. L /\ ks[i] \in Nodes(d)
    BY <1>1, <1>3
  <2>2. R[i] = L + 1 - i /\ R[i + 1] = IF i + 1 <= L THEN L + 1 - (i + 1) ELSE 0
    BY <1>1, <2>1
  <2> QED BY <1>1, <2>1, <2>2
<1>4. <<>> \in S
  OBVIOUS
<1> HIDE DEF L, R, Ends
<1>5. ASSUME NEW i \in Nat, NEW f \in [Nat -> S]
      PROVE  Value(f, i) \in S
  <2>1. CASE Ends(i)
    BY <1>4, <2>1
  <2>2. CASE ~Ends(i)
    <3>1. d.text[ks[i]] \in S /\ f[i + 1] \in S
      BY <1>3, <2>2
    <3>2. d.text[ks[i]] \o f[i + 1] \in S
      BY <3>1
    <3> QED BY <2>2, <3>2
  <2> QED BY <2>1, <2>2
<1>6. ASSUME NEW i \in Nat, NEW f, NEW g, \A k \in Nat : R[k] < R[i] => f[k] = g[k]
      PROVE  Value(f, i) = Value(g, i)
  BY <1>3, <1>6
<1>7. \A i \in Nat : \A f \in [Nat -> S] : G[i][f] = Value(f, i)
  OBVIOUS
<1>8. \E f \in [Nat -> S] : \A i \in Nat : f[i] = Value(f, i)
  <2> HIDE DEF S, Value, G, Run
  <2>1. IsRanked(Nat, S, R, G)
    <3>1. \A i \in Nat : \A f \in [Nat -> S] : G[i][f] \in S
      BY <1>5, <1>7
    <3>2. ASSUME NEW i \in Nat, NEW f \in [Nat -> S], NEW g \in [Nat -> S],
                 \A k \in Nat : R[k] < R[i] => f[k] = g[k]
          PROVE  G[i][f] = G[i][g]
      <4>1. Value(f, i) = Value(g, i)
        BY <1>6, <3>2
      <4> QED BY <1>7, <4>1
    <3>3. S # {}
      BY <1>4
    <3> QED BY <1>2, <3>1, <3>2, <3>3 DEF IsRanked
  <2>2. Solvable(Nat, S, G)
    BY <2>1, RankedRecursion
  <2> QED BY <1>7, <2>2 DEF Solvable
<1>9. Run = [i \in Nat |-> Value(Run, i)]
  <2>1. PICK f \in [Nat -> S] : \A i \in Nat : f[i] = Value(f, i)
    BY <1>8
  <2>2. f = [i \in Nat |-> Value(f, i)]
    <3> HIDE DEF Value
    <3> QED BY <2>1
  <2> QED BY <2>2
<1>10. \A i : RunFrom(d, ks, i) = Run[i]
  BY DEF RunFrom, Ends
<1> HIDE DEF Run
<1>11. \A i \in Nat : Run[i] = Value(Run, i)
  <2> HIDE DEF Value
  <2> QED BY <1>9
<1>12. \A i \in Nat : Run[i] \in S
  <2> DEFINE B == {i \in Nat : Run[i] \notin S}
  <2> SUFFICES ASSUME B # {} PROVE FALSE
    OBVIOUS
  <2>1. PICK i \in B : \A k \in Nat : R[k] < R[i] => k \notin B
    <3>1. B \in SUBSET Nat
      OBVIOUS
    <3> HIDE DEF B
    <3> QED BY <1>2, <3>1, LeastRanked
  <2> DEFINE f == [k \in Nat |-> IF Run[k] \in S THEN Run[k] ELSE <<>>]
  <2>2. f \in [Nat -> S] /\ \A k \in Nat : R[k] < R[i] => f[k] = Run[k]
    <3> HIDE DEF S
    <3> QED BY <1>4, <2>1
  <2> HIDE DEF f
  <2>3. i \in Nat /\ Run[i] \notin S
    OBVIOUS
  <2>4. Value(f, i) = Value(Run, i) /\ Value(f, i) \in S
    <3> HIDE DEF Value, S
    <3> QED BY <1>5, <1>6, <2>2, <2>3
  <2> HIDE DEF Value, B
  <2> QED BY <1>11, <2>3, <2>4
<1> QED BY <1>10, <1>11, <1>12 DEF Ends

\* The children that are kept: every first text of a run and every other node.
LEMMA KeptStep ==
    ASSUME NEW d, NEW ks \in Seq(Nodes(d))
    PROVE  \E f : /\ KeptKids(d, ks) = f[Len(ks)]
                  /\ f[0] = <<>>
                  /\ \A i \in 0 .. Len(ks) : f[i] \in Seq(Nodes(d))
                  /\ \A i \in 1 .. Len(ks) :
                        f[i] = IF StartsRun(d, ks, i) THEN Append(f[i - 1], ks[i]) ELSE f[i - 1]
<1> DEFINE L == Len(ks)
           T == 0 .. L
           S == Seq(Nodes(d))
           Value(f, i) == IF i = 0 THEN <<>>
                          ELSE IF StartsRun(d, ks, i) THEN Append(f[i - 1], ks[i]) ELSE f[i - 1]
           Kept == CHOOSE f : f = [i \in T |-> Value(f, i)]
           R == [i \in T |-> i]
           G == [i \in T |-> [f \in [T -> S] |-> Value(f, i)]]
<1>1. L \in Nat /\ DOMAIN ks = 1 .. L
  OBVIOUS
<1> HIDE DEF L
<1>2. R \in [T -> Nat] /\ \A i \in T : R[i] = i
  BY <1>1
<1>3. \A i \in T : i # 0 => i - 1 \in T /\ R[i - 1] < R[i] /\ ks[i] \in Nodes(d)
  BY <1>1, <1>2
<1>4. <<>> \in S
  OBVIOUS
<1> HIDE DEF T, R
<1>5. ASSUME NEW i \in T, NEW f \in [T -> S]
      PROVE  Value(f, i) \in S
  <2>1. CASE i = 0
    BY <1>4, <2>1
  <2>2. CASE i # 0
    <3>1. f[i - 1] \in S /\ ks[i] \in Nodes(d)
      BY <1>3, <2>2
    <3>2. Append(f[i - 1], ks[i]) \in S
      BY <3>1
    <3> QED BY <2>2, <3>1, <3>2
  <2> QED BY <2>1, <2>2
<1>6. ASSUME NEW i \in T, NEW f, NEW g, \A k \in T : R[k] < R[i] => f[k] = g[k]
      PROVE  Value(f, i) = Value(g, i)
  BY <1>3, <1>6
<1>7. \A i \in T : \A f \in [T -> S] : G[i][f] = Value(f, i)
  OBVIOUS
<1>8. \E f \in [T -> S] : \A i \in T : f[i] = Value(f, i)
  <2> HIDE DEF S, Value, G, Kept
  <2>1. IsRanked(T, S, R, G)
    <3>1. \A i \in T : \A f \in [T -> S] : G[i][f] \in S
      BY <1>5, <1>7
    <3>2. \A i \in T : \A f, g \in [T -> S] :
             (\A k \in T : R[k] < R[i] => f[k] = g[k]) => G[i][f] = G[i][g]
      BY <1>6, <1>7
    <3>3. S # {}
      BY <1>4
    <3> QED BY <1>2, <3>1, <3>2, <3>3 DEF IsRanked
  <2>2. Solvable(T, S, G)
    BY <2>1, RankedRecursion
  <2> QED BY <1>7, <2>2 DEF Solvable
<1>9. Kept = [i \in T |-> Value(Kept, i)]
  <2>1. PICK f \in [T -> S] : \A i \in T : f[i] = Value(f, i)
    BY <1>8
  <2>2. f = [i \in T |-> Value(f, i)]
    <3> HIDE DEF Value
    <3> QED BY <2>1
  <2> QED BY <2>2
<1>10. KeptKids(d, ks) = Kept[L]
  BY DEF KeptKids, L, T
<1> HIDE DEF Kept
<1>11. \A i \in T : Kept[i] = Value(Kept, i)
  <2> HIDE DEF Value
  <2> QED BY <1>9
<1>12. \A i \in T : Kept[i] \in S
  <2> DEFINE B == {i \in T : Kept[i] \notin S}
  <2> SUFFICES ASSUME B # {} PROVE FALSE
    OBVIOUS
  <2>1. PICK i \in B : \A k \in T : R[k] < R[i] => k \notin B
    <3>1. B \in SUBSET T
      OBVIOUS
    <3> HIDE DEF B
    <3> QED BY <1>2, <3>1, LeastRanked
  <2> DEFINE f == [k \in T |-> IF Kept[k] \in S THEN Kept[k] ELSE <<>>]
  <2>2. f \in [T -> S] /\ \A k \in T : R[k] < R[i] => f[k] = Kept[k]
    <3> HIDE DEF S
    <3> QED BY <1>4, <2>1
  <2> HIDE DEF f
  <2>3. i \in T /\ Kept[i] \notin S
    OBVIOUS
  <2>4. Value(f, i) = Value(Kept, i) /\ Value(f, i) \in S
    <3> HIDE DEF Value, S
    <3> QED BY <1>5, <1>6, <2>2, <2>3
  <2> HIDE DEF Value, B
  <2> QED BY <1>11, <2>3, <2>4
<1>13. 0 \in T /\ \A i \in 1 .. L : i \in T /\ i # 0
  BY <1>1 DEF T
<1>14. Kept[0] = <<>> /\ \A i \in 1 .. L :
          Kept[i] = IF StartsRun(d, ks, i) THEN Append(Kept[i - 1], ks[i]) ELSE Kept[i - 1]
  BY <1>11, <1>13
<1> HIDE DEF Value
<1> QED BY <1>10, <1>12, <1>14 DEF L, T

\* Of the kept children no two are neighbouring texts.
LEMMA KeptApart ==
    ASSUME NEW d, NEW ks \in Seq(Nodes(d)), IsInjective(ks)
    PROVE  /\ KeptKids(d, ks) \in Seq(Nodes(d))
           /\ IsInjective(KeptKids(d, ks))
           /\ \A m \in 1 .. Len(KeptKids(d, ks)) :
                 /\ \E j \in 1 .. Len(ks) :
                       KeptKids(d, ks)[m] = ks[j] /\ StartsRun(d, ks, j)
                 /\ m > 1 /\ IsText(d, KeptKids(d, ks)[m]) => ~IsText(d, KeptKids(d, ks)[m - 1])
<1> DEFINE L == Len(ks)
<1>1. PICK f : /\ KeptKids(d, ks) = f[L]
               /\ f[0] = <<>>
               /\ \A i \in 0 .. L : f[i] \in Seq(Nodes(d))
               /\ \A i \in 1 .. L :
                     f[i] = IF StartsRun(d, ks, i) THEN Append(f[i - 1], ks[i]) ELSE f[i - 1]
  BY KeptStep
<1>2. L \in Nat /\ DOMAIN ks = 1 .. L
  OBVIOUS
<1> HIDE DEF L
\* The same of the children kept among the first i.
<1> DEFINE Apart(v, i) ==
              /\ \A m \in 1 .. Len(v) :
                    /\ \E j \in 1 .. i : v[m] = ks[j] /\ StartsRun(d, ks, j)
                    /\ m > 1 /\ IsText(d, v[m]) => ~IsText(d, v[m - 1])
              /\ \A m, n \in 1 .. Len(v) : v[m] = v[n] => m = n
              /\ i > 0 /\ ~IsText(d, ks[i]) => Len(v) > 0 /\ v[Len(v)] = ks[i]
           B == {i \in 0 .. L : ~Apart(f[i], i)}
<1>3. ASSUME B # {} PROVE FALSE
  <2>1. PICK i \in B : \A k \in B : i <= k
    <3>1. B \in SUBSET Nat
      BY <1>2
    <3> HIDE DEF B
    <3> QED BY <1>3, <3>1, LeastOf
  <2>2. i \in 0 .. L /\ ~Apart(f[i], i)
    BY <2>1
  <2>3. i # 0
    <3> SUFFICES ASSUME i = 0 PROVE FALSE
      OBVIOUS
    <3>1. f[i] = <<>> /\ Len(<<>>) = 0
      BY <1>1
    <3>2. Apart(<<>>, 0)
      BY <3>1
    <3> HIDE DEF Apart
    <3> QED BY <2>2, <3>1, <3>2
  <2> DEFINE v == f[i - 1]
             w == f[i]
             x == ks[i]
  <2>4. i - 1 \in 0 .. L /\ i \in 1 .. L /\ i - 1 \notin B /\ x \in Nodes(d)
    BY <1>2, <2>1, <2>2, <2>3
  <2>5. Apart(v, i - 1)
    BY <2>4
  <2>6. v \in Seq(Nodes(d)) /\ Len(v) \in Nat
    BY <1>1, <2>4
  <2>7. w = IF StartsRun(d, ks, i) THEN Append(v, x) ELSE v
    BY <1>1, <2>4
  <2>8. \A j \in 1 .. i - 1 : j \in 1 .. i /\ ks[j] # x
    <3>1. \A j \in 1 .. i - 1 : j \in 1 .. i /\ j \in DOMAIN ks /\ i \in DOMAIN ks /\ j # i
      BY <1>2, <2>4
    <3> QED BY <3>1 DEF IsInjective
  <2> HIDE DEF v, w, x, B
  <2>9. CASE ~StartsRun(d, ks, i)
    <3>1. w = v /\ IsText(d, ks[i])
      BY <2>7, <2>9 DEF StartsRun
    <3>2. Apart(v, i)
      BY <2>5, <2>8, <3>1
    <3> HIDE DEF Apart
    <3> QED BY <2>2, <3>1, <3>2 DEF w
  <2>10. CASE StartsRun(d, ks, i)
    <3>1. Len(w) = Len(v) + 1 /\ w[Len(w)] = x /\ \A m \in 1 .. Len(v) : w[m] = v[m]
      BY <2>4, <2>6, <2>7, <2>10
    <3>2. \A m \in 1 .. Len(w) : m \in 1 .. Len(v) \/ m = Len(w)
      BY <2>6, <3>1
    <3>3. ASSUME NEW m \in 1 .. Len(w)
          PROVE  \E j \in 1 .. i : w[m] = ks[j] /\ StartsRun(d, ks, j)
      <4>1. CASE m \in 1 .. Len(v)
        BY <2>5, <2>8, <3>1, <4>1
      <4>2. CASE m = Len(w)
        <5>1. i \in 1 .. i
          BY <2>4
        <5> QED BY <2>10, <3>1, <4>2, <5>1 DEF x
      <4> QED BY <3>2, <4>1, <4>2
    <3>4. ASSUME NEW m \in 1 .. Len(w), m > 1, IsText(d, w[m])
          PROVE  ~IsText(d, w[m - 1])
      <4>1. m - 1 \in 1 .. Len(v) /\ w[m - 1] = v[m - 1]
        BY <2>6, <3>1, <3>4
      <4>2. CASE m \in 1 .. Len(v)
        BY <2>5, <3>1, <3>4, <4>1, <4>2
      <4>3. CASE m = Len(w)
        <5>1. IsText(d, ks[i]) /\ m - 1 = Len(v)
          BY <2>6, <3>1, <3>4, <4>3 DEF x
        <5>2. \E j \in 1 .. i - 1 : v[m - 1] = ks[j]
          BY <2>5, <4>1
        <5>3. i > 1 /\ i - 1 > 0
          BY <2>4, <5>2
        <5>4. ~IsText(d, ks[i - 1])
          BY <2>10, <5>1, <5>3 DEF StartsRun
        <5>5. v[Len(v)] = ks[i - 1]
          BY <2>5, <5>3, <5>4
        <5> QED BY <4>1, <5>1, <5>4, <5>5
      <4> QED BY <3>2, <4>2, <4>3
    <3>5. ASSUME NEW m \in 1 .. Len(w), NEW n \in 1 .. Len(w), w[m] = w[n]
          PROVE  m = n
      <4>1. \A k \in 1 .. Len(v) : w[k] # x
        BY <2>5, <2>8, <3>1
      <4> QED BY <2>5, <3>1, <3>2, <3>5, <4>1
    <3>6. Len(w) > 0 /\ w[Len(w)] = ks[i]
      BY <2>6, <3>1 DEF x
    <3>7. Apart(w, i)
      BY <3>3, <3>4, <3>5, <3>6
    <3> HIDE DEF Apart
    <3> QED BY <2>2, <3>7 DEF w
  <2> QED BY <2>9, <2>10
<1> DEFINE v == f[L]
<1>4. Apart(v, L) /\ v \in Seq(Nodes(d))
  <2>1. L \in 0 .. L
    BY <1>2
  <2> QED BY <1>1, <1>3, <2>1
<1> HIDE DEF v
<1>5. IsInjective(v)
  <2>1. DOMAIN v = 1 .. Len(v)
    BY <1>4
  <2> QED BY <1>4, <2>1 DEF IsInjective
<1>6. \A m \in 1 .. Len(v) :
         /\ \E j \in 1 .. Len(ks) : v[m] = ks[j] /\ StartsRun(d, ks, j)
         /\ m > 1 /\ IsText(d, v[m]) => ~IsText(d, v[m - 1])
  BY <1>4 DEF L
<1>7. KeptKids(d, ks) = v
  BY <1>1 DEF v
<1> QED BY <1>4, <1>5, <1>6, <1>7

\* Where every child starts a run, all are kept.
LEMMA AllKept ==
    ASSUME NEW d, NEW ks \in Seq(Nodes(d)), \A i \in 1 .. Len(ks) : StartsRun(d, ks, i)
    PROVE  KeptKids(d, ks) = ks
<1> DEFINE L == Len(ks)
<1>1. PICK f : /\ KeptKids(d, ks) = f[L]
               /\ f[0] = <<>>
               /\ \A i \in 0 .. L : f[i] \in Seq(Nodes(d))
               /\ \A i \in 1 .. L :
                     f[i] = IF StartsRun(d, ks, i) THEN Append(f[i - 1], ks[i]) ELSE f[i - 1]
  BY KeptStep
<1>2. L \in Nat /\ DOMAIN ks = 1 .. L
  OBVIOUS
<1> HIDE DEF L
<1> DEFINE Same(v, i) == Len(v) = i /\ \A m \in 1 .. i : v[m] = ks[m]
           B == {i \in 0 .. L : ~Same(f[i], i)}
<1>3. ASSUME B # {} PROVE FALSE
  <2>1. PICK i \in B : \A k \in B : i <= k
    <3>1. B \in SUBSET Nat
      BY <1>2
    <3> HIDE DEF B
    <3> QED BY <1>3, <3>1, LeastOf
  <2>2. i \in 0 .. L /\ ~Same(f[i], i)
    BY <2>1
  <2>3. i # 0
    <3>1. f[0] = <<>> /\ Len(<<>>) = 0
      BY <1>1
    <3> QED BY <2>2, <3>1
  <2> DEFINE v == f[i - 1]
             w == f[i]
  <2>4. i - 1 \in 0 .. L /\ i \in 1 .. L /\ i - 1 \notin B /\ ks[i] \in Nodes(d)
    BY <1>2, <2>1, <2>2, <2>3
  <2>5. Same(v, i - 1) /\ v \in Seq(Nodes(d))
    BY <1>1, <2>4
  <2>6. w = Append(v, ks[i])
    BY <1>1, <2>4 DEF L
  <2> HIDE DEF v, w, B
  <2>7. Len(w) = i /\ w[i] = ks[i] /\ \A m \in 1 .. i - 1 : w[m] = v[m]
    BY <2>4, <2>5, <2>6
  <2>8. Same(w, i)
    <3>1. \A m \in 1 .. i : m = i \/ m \in 1 .. i - 1
      BY <2>4
    <3> QED BY <2>5, <2>7, <3>1
  <2> HIDE DEF Same
  <2> QED BY <2>2, <2>8 DEF w
<1>4. Same(f[L], L) /\ f[L] \in Seq(Nodes(d))
  <2>1. L \in 0 .. L
    BY <1>2
  <2> QED BY <1>1, <1>3, <2>1
<1> DEFINE v == f[L]
<1> HIDE DEF v
<1>5. v \in Seq(Nodes(d)) /\ Len(v) = Len(ks) /\ \A m \in 1 .. Len(v) : v[m] = ks[m]
  BY <1>4 DEF v, L
<1>6. v = ks
  BY <1>5, SeqEqual
<1> QED BY <1>1, <1>6 DEF v

\* A document as it is written out, before it is numbered anew.
Joined(d) == [d EXCEPT !.text = [n \in Nodes(d) |-> JoinedText(d, n)],
                       !.kids = [n \in Nodes(d) |-> KeptKids(d, d.kids[n])]]

\* Texts that neighbour no text, none of them empty.
TextsApart(d) ==
    /\ d.text \in [Nodes(d) -> Seq(STRING)]
    /\ \A n \in Nodes(d) : \A i \in 1 .. Len(d.kids[n]) :
          IsText(d, d.kids[n][i]) =>
             /\ d.text[d.kids[n][i]] # <<>>
             /\ i > 1 => ~IsText(d, d.kids[n][i - 1])

LEMMA JoinedFacts ==
    ASSUME NEW d, IsTree(d)
    PROVE  IsForest(Joined(d)) /\ TextsApart(Joined(d))
<1> DEFINE e == Joined(d)
           N == Nodes(d)
<1>1. /\ d.kids \in [N -> Seq(N)] /\ d.text \in [N -> Seq(STRING)]
      /\ d = [tag |-> d.tag, up |-> d.up, kids |-> d.kids, text |-> d.text, margin |-> d.margin]
      /\ N = 0 .. Cardinality(N) - 1 /\ Editable \in N
  BY DEF IsTree
<1>2. /\ e.tag = d.tag /\ e.up = d.up
      /\ e.kids = [n \in N |-> KeptKids(d, d.kids[n])]
      /\ e.text = [n \in N |-> JoinedText(d, n)]
  BY <1>1 DEF Joined
<1>3. Nodes(e) = N
  BY <1>2 DEF Nodes
<1>4. \A n \in N : IsText(e, n) <=> IsText(d, n)
  BY <1>2 DEF IsText
<1> HIDE DEF e, N
<1>5. ASSUME NEW n \in N
      PROVE  /\ d.kids[n] \in Seq(N) /\ IsInjective(d.kids[n])
             /\ DOMAIN d.kids[n] = 1 .. Len(d.kids[n])
             /\ \A j \in 1 .. Len(d.kids[n]) :
                   /\ d.kids[n][j] \in N /\ d.kids[n][j] > n /\ d.up[d.kids[n][j]] = n
                   /\ position(d, d.kids[n][j]) = j - 1
                   /\ Parent(d, d.kids[n][j]) # Null
  <2>1. d.kids[n] \in Seq(N) /\ DOMAIN d.kids[n] = 1 .. Len(d.kids[n])
    BY <1>1
  <2>2. \A j \in 1 .. Len(d.kids[n]) :
           d.kids[n][j] \in N /\ d.kids[n][j] > n /\ d.up[d.kids[n][j]] = n
    BY TreeFacts DEF N
  <2>3. \A j \in 1 .. Len(d.kids[n]) : position(d, d.kids[n][j]) = j - 1
    BY <2>1 DEF IsTree, N
  <2>4. IsInjective(d.kids[n])
    <3>1. ASSUME NEW a \in DOMAIN d.kids[n], NEW b \in DOMAIN d.kids[n],
                 d.kids[n][a] = d.kids[n][b]
          PROVE  a = b
      <4>1. a - 1 = b - 1 /\ a \in Int /\ b \in Int
        BY <2>1, <2>3, <3>1
      <4> QED BY <4>1
    <3> QED BY <3>1 DEF IsInjective
  <2>5. n # Null
    BY TreeFacts DEF N, Null
  <2> QED BY <2>1, <2>2, <2>3, <2>4, <2>5 DEF Parent
<1>6. ASSUME NEW n \in N
      PROVE  /\ e.kids[n] \in Seq(N) /\ IsInjective(e.kids[n]) /\ Len(e.kids[n]) \in Nat
             /\ \A m \in 1 .. Len(e.kids[n]) :
                   /\ \E j \in 1 .. Len(d.kids[n]) :
                         e.kids[n][m] = d.kids[n][j] /\ StartsRun(d, d.kids[n], j)
                   /\ m > 1 /\ IsText(d, e.kids[n][m]) => ~IsText(d, e.kids[n][m - 1])
  <2> DEFINE ks == d.kids[n]
  <2>1. e.kids[n] = KeptKids(d, ks)
    BY <1>2
  <2>2. ks \in Seq(N) /\ IsInjective(ks)
    BY <1>5
  <2> HIDE DEF ks
  <2>3. /\ KeptKids(d, ks) \in Seq(N)
        /\ IsInjective(KeptKids(d, ks))
        /\ \A m \in 1 .. Len(KeptKids(d, ks)) :
              /\ \E j \in 1 .. Len(ks) :
                    KeptKids(d, ks)[m] = ks[j] /\ StartsRun(d, ks, j)
              /\ m > 1 /\ IsText(d, KeptKids(d, ks)[m]) => ~IsText(d, KeptKids(d, ks)[m - 1])
    BY <2>2, KeptApart DEF N
  <2>4. Len(KeptKids(d, ks)) \in Nat
    BY <2>3
  <2> QED BY <2>1, <2>3, <2>4 DEF ks
<1>7. ASSUME NEW n \in N, NEW m \in 1 .. Len(e.kids[n])
      PROVE  /\ e.kids[n][m] > n /\ d.up[e.kids[n][m]] = n /\ e.kids[n][m] \in N
             /\ IsText(e, e.kids[n][m]) =>
                   /\ e.text[e.kids[n][m]] # <<>>
                   /\ m > 1 => ~IsText(e, e.kids[n][m - 1])
  <2>1. PICK j \in 1 .. Len(d.kids[n]) :
           e.kids[n][m] = d.kids[n][j] /\ StartsRun(d, d.kids[n], j)
    BY <1>6
  <2> DEFINE k == d.kids[n][j]
  <2>2. k \in N /\ k > n /\ d.up[k] = n /\ position(d, k) = j - 1 /\ Parent(d, k) = n
        /\ Parent(d, k) # Null
    BY <1>5 DEF Parent
  <2>3. ASSUME IsText(e, k)
        PROVE  e.text[k] # <<>> /\ (m > 1 => ~IsText(e, e.kids[n][m - 1]))
    <3>1. IsText(d, k)
      BY <1>4, <2>2, <2>3
    <3>2. RunFrom(d, d.kids[n], j) # <<>>
      BY <2>1, <3>1 DEF StartsRun
    <3>3. e.text[k] = JoinedText(d, k)
      BY <1>2, <2>2
    <3>4. JoinedText(d, k) = RunFrom(d, d.kids[n], position(d, k) + 1)
      BY <2>2, <3>1 DEF JoinedText
    <3>5. position(d, k) + 1 = j
      BY <2>2
    <3>6. m > 1 => e.kids[n][m - 1] \in N
      <4> SUFFICES ASSUME m > 1 PROVE e.kids[n][m - 1] \in N
        OBVIOUS
      <4>1. m - 1 \in 1 .. Len(e.kids[n])
        BY <1>6
      <4> QED BY <1>6, <4>1
    <3>7. m > 1 => ~IsText(d, e.kids[n][m - 1])
      BY <1>6, <2>1, <3>1
    <3> HIDE DEF k
    <3> QED BY <1>4, <3>2, <3>3, <3>4, <3>5, <3>6, <3>7
  <2> HIDE DEF k
  <2> QED BY <2>1, <2>2, <2>3 DEF k
<1>8. ASSUME NEW n \in N
      PROVE  e.text[n] \in Seq(STRING)
  <2>1. e.text[n] = JoinedText(d, n)
    BY <1>2
  <2>2. CASE ~IsText(d, n) \/ Parent(d, n) = Null
    BY <1>1, <2>1, <2>2 DEF JoinedText
  <2>3. CASE ~(~IsText(d, n) \/ Parent(d, n) = Null)
    <3>1. n # Editable
      BY <2>3 DEF Parent, IsTree
    <3>2. d.up[n] \in N /\ position(d, n) \in Nat
      BY <3>1, TreeFacts DEF N
    <3>3. RunFrom(d, d.kids[Parent(d, n)], position(d, n) + 1) \in Seq(STRING)
      <4>1. d.kids[Parent(d, n)] \in Seq(Nodes(d)) /\ position(d, n) + 1 \in Nat
        BY <1>5, <3>2 DEF Parent, N
      <4> QED BY <1>1, <4>1, RunStep DEF N
    <3> QED BY <2>1, <2>3, <3>3 DEF JoinedText
  <2> QED BY <2>2, <2>3
<1>9. IsForest(e)
  <2>1. Cardinality(N) \in Nat
    <3>1. IsFiniteSet(N)
      BY DEF IsTree, N
    <3> QED BY <3>1, FS_CardinalityType
  <2>2. Editable \in Nodes(e) /\ \E c \in Nat : Nodes(e) = 0 .. c - 1
    BY <1>1, <1>3, <2>1
  <2>3. ASSUME NEW n \in Nodes(e)
        PROVE  /\ e.kids[n] \in Seq(Nodes(e)) /\ IsInjective(e.kids[n])
               /\ \A i \in 1 .. Len(e.kids[n]) :
                     e.kids[n][i] > n /\ e.up[e.kids[n][i]] = n
    <3>1. n \in N
      BY <1>3, <2>3
    <3>2. e.kids[n] \in Seq(N) /\ IsInjective(e.kids[n])
      BY <1>6, <3>1
    <3>3. \A i \in 1 .. Len(e.kids[n]) : e.kids[n][i] > n /\ d.up[e.kids[n][i]] = n
      BY <1>7, <3>1
    <3> QED BY <1>2, <1>3, <3>2, <3>3
  <2> QED BY <2>2, <2>3, Zenon DEF IsForest
<1>10. TextsApart(e)
  <2>1. e.text \in [N -> Seq(STRING)]
    BY <1>2, <1>8
  <2> QED BY <1>3, <1>7, <2>1 DEF TextsApart
<1> QED BY <1>9, <1>10 DEF e

\* What html returns: numbered in the order of writing, no two texts side by side.
Canonical(h) ==
    /\ h = [tag |-> h.tag, up |-> h.up, kids |-> h.kids, text |-> h.text, margin |-> h.margin]
    /\ h.tag = [n \in Nodes(h) |-> h.tag[n]]
    /\ h.up = [n \in Nodes(h) |-> h.up[n]]
    /\ h.kids \in [Nodes(h) -> Seq(Nodes(h))]
    /\ h.margin = [n \in Nodes(h) |-> h.margin[n]]
    /\ TextsApart(h)
    /\ \E L \in Nat \ {0} :
          /\ Nodes(h) = 0 .. L - 1
          /\ DepthFirst(h, Editable) = [j \in 1 .. L |-> j - 1]
    /\ h.up[Editable] = Null
    /\ \A n \in Nodes(h) : n # Editable => h.up[n] \in Nodes(h) /\ n \in Range(h.kids[h.up[n]])

\* Such a document has nothing to join.
LEMMA CanonicalJoined ==
    ASSUME NEW h, Canonical(h)
    PROVE  Joined(h) = h
<1> DEFINE N == Nodes(h)
<1>1. /\ h = [tag |-> h.tag, up |-> h.up, kids |-> h.kids, text |-> h.text, margin |-> h.margin]
      /\ h.kids \in [N -> Seq(N)] /\ h.text \in [N -> Seq(STRING)]
      /\ \A n \in N : \A i \in 1 .. Len(h.kids[n]) :
            IsText(h, h.kids[n][i]) =>
               /\ h.text[h.kids[n][i]] # <<>>
               /\ i > 1 => ~IsText(h, h.kids[n][i - 1])
      /\ h.up[Editable] = Null
      /\ \A n \in N : n # Editable => h.up[n] \in N /\ n \in Range(h.kids[h.up[n]])
  BY DEF Canonical, TextsApart
<1> HIDE DEF N
<1>2. ASSUME NEW n \in N, NEW i \in 1 .. Len(h.kids[n]), IsText(h, h.kids[n][i])
      PROVE  RunFrom(h, h.kids[n], i) = h.text[h.kids[n][i]]
  <2> DEFINE ks == h.kids[n]
  <2>1. ks \in Seq(N) /\ DOMAIN ks = 1 .. Len(ks) /\ Len(ks) \in Nat
    BY <1>1
  <2>2. i \in Nat /\ i + 1 \in Nat /\ i \in DOMAIN ks /\ ks[i] \in N
    BY <2>1
  <2>3. i + 1 \notin DOMAIN ks \/ ~IsText(h, ks[i + 1])
    <3> SUFFICES ASSUME i + 1 \in DOMAIN ks, IsText(h, ks[i + 1]) PROVE FALSE
      OBVIOUS
    <3>1. i + 1 \in 1 .. Len(h.kids[n]) /\ i + 1 > 1 /\ (i + 1) - 1 = i
      BY <2>1, <2>2
    <3>2. ~IsText(h, h.kids[n][(i + 1) - 1])
      BY <1>1, <3>1
    <3> QED BY <1>2, <3>1, <3>2
  <2> HIDE DEF ks
  <2>4. RunFrom(h, ks, i + 1) = <<>>
    BY <1>1, <2>1, <2>2, <2>3, RunStep DEF N
  <2>5. RunFrom(h, ks, i) = h.text[ks[i]] \o RunFrom(h, ks, i + 1)
    BY <1>1, <1>2, <2>1, <2>2, RunStep DEF N, ks
  <2>6. h.text[ks[i]] \in Seq(STRING)
    BY <1>1, <2>2
  <2>7. h.text[ks[i]] \o <<>> = h.text[ks[i]]
    BY <2>6, ConcatEmptySeq
  <2> QED BY <2>4, <2>5, <2>7 DEF ks
<1>3. ASSUME NEW n \in N
      PROVE  KeptKids(h, h.kids[n]) = h.kids[n]
  <2> DEFINE ks == h.kids[n]
  <2>1. ks \in Seq(N)
    BY <1>1
  <2>2. ASSUME NEW i \in 1 .. Len(ks)
        PROVE  StartsRun(h, ks, i)
    <3> SUFFICES ASSUME IsText(h, ks[i])
                 PROVE  (i > 1 => ~IsText(h, ks[i - 1])) /\ RunFrom(h, ks, i) # <<>>
      BY DEF StartsRun
    <3>1. h.text[ks[i]] # <<>> /\ (i > 1 => ~IsText(h, ks[i - 1]))
      BY <1>1
    <3>2. RunFrom(h, ks, i) = h.text[ks[i]]
      BY <1>2
    <3> QED BY <3>1, <3>2
  <2> HIDE DEF ks
  <2>3. KeptKids(h, ks) = ks
    BY <2>1, <2>2, AllKept DEF N
  <2> QED BY <2>3 DEF ks
<1>4. ASSUME NEW n \in N
      PROVE  JoinedText(h, n) = h.text[n]
  <2>1. CASE ~IsText(h, n) \/ Parent(h, n) = Null
    BY <2>1 DEF JoinedText
  <2>2. CASE IsText(h, n) /\ Parent(h, n) # Null
    <3> DEFINE p == Parent(h, n)
               ks == h.kids[p]
               j == PlaceIn(ks, n)
    <3>1. n # Editable /\ p \in N /\ n \in Range(ks)
      BY <1>1, <2>2 DEF Parent
    <3>2. j \in DOMAIN ks /\ ks[j] = n
      BY <3>1 DEF PlaceIn, Range
    <3>3. DOMAIN ks = 1 .. Len(ks) /\ Len(ks) \in Nat
      BY <1>1, <3>1
    <3>4. j \in 1 .. Len(ks) /\ j \in Int
      BY <3>2, <3>3
    <3>5. position(h, n) = j - 1
      BY <2>2 DEF position, Parent
    <3> HIDE DEF j
    <3>6. position(h, n) + 1 = j
      BY <3>4, <3>5
    <3>7. JoinedText(h, n) = RunFrom(h, ks, j)
      BY <2>2, <3>6 DEF JoinedText
    <3>8. RunFrom(h, ks, j) = h.text[n]
      <4> HIDE DEF p
      <4> QED BY <1>2, <2>2, <3>1, <3>2, <3>4
    <3> QED BY <3>7, <3>8
  <2> QED BY <2>1, <2>2
<1>5. [n \in N |-> JoinedText(h, n)] = h.text
  <2>1. h.text = [n \in N |-> h.text[n]]
    BY <1>1
  <2> QED BY <1>4, <2>1
<1>6. [n \in N |-> KeptKids(h, h.kids[n])] = h.kids
  <2>1. h.kids = [n \in N |-> h.kids[n]]
    BY <1>1
  <2> QED BY <1>3, <2>1
<1>7. Joined(h) = [h EXCEPT !.text = h.text, !.kids = h.kids]
  BY <1>5, <1>6 DEF Joined, N
<1> QED BY <1>1, <1>7

\* html leaves it as it is.
LEMMA CanonicalHtml ==
    ASSUME NEW h, Canonical(h)
    PROVE  html(h) = h
<1> DEFINE N == Nodes(h)
           order == DepthFirst(h, Editable)
           g == Renumber(h)
<1>1. html(h) = g
  <2>1. html(h) = Renumber(Joined(h))
    BY DEF html, Joined
  <2> QED BY <2>1, CanonicalJoined
<1>2. PICK L \in Nat \ {0} : N = 0 .. L - 1 /\ order = [j \in 1 .. L |-> j - 1]
  BY DEF Canonical
<1>3. /\ Nodes(g) = 0 .. Len(order) - 1
      /\ g = [tag |-> [i \in Nodes(g) |-> h.tag[order[i + 1]]],
              up |-> [i \in Nodes(g) |->
                        IF i = Editable THEN Null ELSE Number(order, h.up[order[i + 1]])],
              kids |-> [i \in Nodes(g) |->
                          [j \in DOMAIN h.kids[order[i + 1]] |->
                              Number(order, h.kids[order[i + 1]][j])]],
              text |-> [i \in Nodes(g) |-> h.text[order[i + 1]]],
              margin |-> [i \in Nodes(g) |-> h.margin[order[i + 1]]]]
  BY RenumberForm DEF IsRenumbered
<1> HIDE DEF order, g, N
<1>4. Len(order) = L /\ Nodes(g) = N
  <2>1. Len(order) = L
    BY <1>2
  <2> QED BY <1>2, <1>3, <2>1
<1>5. \A i \in N : order[i + 1] = i
  <2> SUFFICES ASSUME NEW i \in N PROVE order[i + 1] = i
    OBVIOUS
  <2>1. i + 1 \in 1 .. L /\ (i + 1) - 1 = i
    BY <1>2
  <2> QED BY <1>2, <2>1
<1>6. \A i \in N : Number(order, i) = i
  <2>1. order \in Seq(N) /\ IsInjective(order)
    <3>1. \A j \in 1 .. L : j - 1 \in N
      BY <1>2
    <3>2. order \in Seq(N)
      BY <1>2, <3>1
    <3>3. IsInjective(order)
      <4>1. ASSUME NEW a \in 1 .. L, NEW b \in 1 .. L, order[a] = order[b]
            PROVE  a = b
        BY <1>2, <4>1
      <4>2. DOMAIN order = 1 .. L
        BY <1>2
      <4> QED BY <4>1, <4>2 DEF IsInjective
    <3> QED BY <3>2, <3>3
  <2>2. \A i \in 0 .. Len(order) - 1 : Number(order, order[i + 1]) = i
    BY <2>1, Numbers
  <2> QED BY <1>2, <1>4, <1>5, <2>2
<1>7. /\ h = [tag |-> h.tag, up |-> h.up, kids |-> h.kids, text |-> h.text, margin |-> h.margin]
      /\ h.tag = [n \in N |-> h.tag[n]] /\ h.up = [n \in N |-> h.up[n]]
      /\ h.kids \in [N -> Seq(N)] /\ h.margin = [n \in N |-> h.margin[n]]
      /\ h.text \in [N -> Seq(STRING)]
      /\ h.up[Editable] = Null /\ \A n \in N : n # Editable => h.up[n] \in N
  BY DEF Canonical, TextsApart, N
<1>8. [i \in N |-> h.tag[order[i + 1]]] = h.tag
  BY <1>5, <1>7
<1>9. [i \in N |-> h.margin[order[i + 1]]] = h.margin
  BY <1>5, <1>7
<1>10. [i \in N |-> h.text[order[i + 1]]] = h.text
  BY <1>5, <1>7
<1>11. [i \in N |-> IF i = Editable THEN Null ELSE Number(order, h.up[order[i + 1]])] = h.up
  <2>1. \A i \in N : (IF i = Editable THEN Null ELSE Number(order, h.up[order[i + 1]])) = h.up[i]
    BY <1>5, <1>6, <1>7
  <2> QED BY <1>7, <2>1
<1>12. [i \in N |-> [j \in DOMAIN h.kids[order[i + 1]] |-> Number(order, h.kids[order[i + 1]][j])]]
          = h.kids
  <2>1. ASSUME NEW i \in N
        PROVE  [j \in DOMAIN h.kids[order[i + 1]] |-> Number(order, h.kids[order[i + 1]][j])]
                  = h.kids[i]
    <3> DEFINE ks == h.kids[i]
    <3>1. ks \in Seq(N) /\ order[i + 1] = i
      BY <1>5, <1>7
    <3> HIDE DEF ks
    <3>2. \A j \in DOMAIN ks : Number(order, ks[j]) = ks[j]
      BY <1>6, <3>1
    <3>3. [j \in DOMAIN ks |-> Number(order, ks[j])] = ks
      BY <3>1, <3>2
    <3> QED BY <3>1, <3>3 DEF ks
  <2>2. h.kids = [i \in N |-> h.kids[i]]
    BY <1>7
  <2> QED BY <2>1, <2>2
<1>13. g = h
  BY <1>3, <1>4, <1>7, <1>8, <1>9, <1>10, <1>11, <1>12
<1> QED BY <1>1, <1>13

\* What html returns is of that kind.
LEMMA HtmlCanonical ==
    ASSUME NEW d, IsTree(d)
    PROVE  Canonical(html(d))
<1> DEFINE e == Joined(d)
           order == DepthFirst(e, Editable)
           h == html(d)
           L == Len(order)
<1>1. IsForest(e) /\ TextsApart(e)
  BY JoinedFacts
<1>2. IsRenumbered(h, e, order)
  <2>1. h = Renumber(e)
    BY DEF html, Joined
  <2> HIDE DEF h, e
  <2> QED BY <2>1, RenumberForm
<1> HIDE DEF h, e
<1>3. Corresponds(h, e, order)
  BY <1>1, <1>2, RenumberedNodes
<1>4. DepthFirst(h, Editable) = [j \in 1 .. L |-> j - 1]
  BY <1>1, <1>2, RenumberedOrder
<1> HIDE DEF order
<1>5. Nodes(h) = 0 .. L - 1 /\ L \in Nat \ {0}
  BY <1>2, <1>3 DEF IsRenumbered, Corresponds
<1> DEFINE N == Nodes(h)
<1>6. \A i \in N :
         /\ order[i + 1] \in Nodes(e)
         /\ h.tag[i] = e.tag[order[i + 1]]
         /\ h.text[i] = e.text[order[i + 1]]
         /\ Len(h.kids[i]) = Len(e.kids[order[i + 1]])
         /\ h.kids[i] \in Seq(N)
         /\ \A j \in 1 .. Len(e.kids[order[i + 1]]) :
               h.kids[i][j] \in N /\ order[h.kids[i][j] + 1] = e.kids[order[i + 1]][j]
  BY <1>3, <1>5 DEF Corresponds
<1>7. /\ h = [tag |-> h.tag, up |-> h.up, kids |-> h.kids, text |-> h.text, margin |-> h.margin]
      /\ h.tag = [n \in N |-> h.tag[n]] /\ h.up = [n \in N |-> h.up[n]]
      /\ h.kids = [n \in N |-> h.kids[n]] /\ h.margin = [n \in N |-> h.margin[n]]
      /\ h.text = [n \in N |-> h.text[n]]
  <2> HIDE DEF L, N
  <2>1. h = [tag |-> [i \in N |-> e.tag[order[i + 1]]],
             up |-> [i \in N |->
                       IF i = Editable THEN Null ELSE Number(order, e.up[order[i + 1]])],
             kids |-> [i \in N |->
                         [j \in DOMAIN e.kids[order[i + 1]] |->
                             Number(order, e.kids[order[i + 1]][j])]],
             text |-> [i \in N |-> e.text[order[i + 1]]],
             margin |-> [i \in N |-> e.margin[order[i + 1]]]]
    BY <1>2 DEF IsRenumbered, N
  <2> QED BY <2>1
<1>8. h.kids \in [N -> Seq(N)]
  <2> HIDE DEF N
  <2> QED BY <1>6, <1>7
<1>9. h.text \in [N -> Seq(STRING)]
  <2>1. \A x \in Nodes(e) : e.text[x] \in Seq(STRING)
    BY <1>1 DEF TextsApart
  <2> HIDE DEF N
  <2> QED BY <1>6, <1>7, <2>1
<1>10. ASSUME NEW n \in N, NEW i \in 1 .. Len(h.kids[n]), IsText(h, h.kids[n][i])
       PROVE  /\ h.text[h.kids[n][i]] # <<>>
              /\ i > 1 => ~IsText(h, h.kids[n][i - 1])
  <2> DEFINE x == order[n + 1]
             ks == e.kids[x]
  <2> HIDE DEF N
  <2>1. x \in Nodes(e) /\ i \in 1 .. Len(ks) /\ Len(ks) \in Nat
    <3>1. Len(h.kids[n]) = Len(ks) /\ h.kids[n] \in Seq(N) /\ x \in Nodes(e)
      BY <1>6
    <3> QED BY <1>10, <3>1
  <2>2. \A j \in 1 .. Len(ks) :
           /\ IsText(h, h.kids[n][j]) <=> IsText(e, ks[j])
           /\ h.text[h.kids[n][j]] = e.text[ks[j]]
    <3> SUFFICES ASSUME NEW j \in 1 .. Len(ks)
                 PROVE  /\ IsText(h, h.kids[n][j]) <=> IsText(e, ks[j])
                        /\ h.text[h.kids[n][j]] = e.text[ks[j]]
      OBVIOUS
    <3>1. h.kids[n][j] \in N /\ order[h.kids[n][j] + 1] = ks[j]
      BY <1>6
    <3> DEFINE m == h.kids[n][j]
    <3>2. h.tag[m] = e.tag[ks[j]] /\ h.text[m] = e.text[ks[j]]
      BY <1>6, <3>1
    <3> HIDE DEF ks, m
    <3> QED BY <3>2 DEF IsText, m
  <2>3. e.text[ks[i]] # <<>> /\ (i > 1 => ~IsText(e, ks[i - 1]))
    <3>1. IsText(e, ks[i])
      BY <1>10, <2>1, <2>2
    <3> QED BY <1>1, <2>1, <3>1 DEF TextsApart
  <2>4. i > 1 => i - 1 \in 1 .. Len(ks)
    BY <2>1
  <2> HIDE DEF ks
  <2> QED BY <2>1, <2>2, <2>3, <2>4
<1>11. TextsApart(h)
  BY <1>9, <1>10 DEF TextsApart
<1>12. \A n \in N : n # Editable => h.up[n] \in N /\ n \in Range(h.kids[h.up[n]])
  <2>1. \A n \in N : n # Editable => n \in 1 .. L - 1
    BY <1>5 DEF Editable
  <2> QED BY <1>3, <2>1 DEF Corresponds
<1>13. h.up[Editable] = Null
  BY <1>3 DEF Corresponds
<1> HIDE DEF L
<1>14. Canonical(h)
  BY <1>4, <1>5, <1>7, <1>8, <1>11, <1>12, <1>13 DEF Canonical
<1> QED BY <1>14 DEF h

\* So what is read back is written out as it was.
LEMMA HtmlAgain ==
    ASSUME NEW d, IsTree(d)
    PROVE  html(html(d)) = html(d)
BY HtmlCanonical, CanonicalHtml

\* So is a document without content.
LEMMA NoContentHtml == html(NoContent) = NoContent
<1> DEFINE e == NoContent
           one(x) == [n \in {0} |-> x]
<1>1. e = [tag |-> one("EDITABLE"), up |-> one(Null), kids |-> one(<<>>), text |-> one(<<>>),
           margin |-> one(0)]
  BY DEF NoContent, Editable
<1> HIDE DEF e
<1>2. Nodes(e) = {0} /\ e.kids[0] = <<>> /\ e.text[0] = <<>> /\ e.up[0] = Null
      /\ e.tag[0] = "EDITABLE"
  BY <1>1 DEF Nodes
<1>3. Len(<<>>) = 0 /\ <<>> \in Seq(Nodes(e)) /\ <<>> \in Seq(STRING) /\ DOMAIN <<>> = {}
  OBVIOUS
<1>4. IsForest(e)
  <2>1. {0} = 0 .. 1 - 1 /\ 1 \in Nat
    OBVIOUS
  <2>2. IsInjective(<<>>)
    BY <1>3 DEF IsInjective
  <2>3. Editable \in Nodes(e) /\ \E c \in Nat : Nodes(e) = 0 .. c - 1
    BY <1>2, <2>1 DEF Editable
  <2>4. \A n \in Nodes(e) : e.kids[n] = <<>>
    BY <1>2
  <2>5. \A i \in 1 .. Len(<<>>) : FALSE
    BY <1>3
  <2> QED BY <1>3, <2>2, <2>3, <2>4, <2>5 DEF IsForest
<1>5. DepthFirst(e, Editable) = <<0>>
  <2>1. PICK r, b : Descends(e, r, b)
    BY <1>4, ForestDescends
  <2>2. PICK f : IsWalk(e, f) /\ \A n : DepthFirst(e, n) = f[EndOf(e, n)]
    BY <2>1, Walks
  <2>3. EndOf(e, Editable) = Point(0, 0) /\ Point(0, 0) \in BoundaryPoints(e)
    BY <1>2, <1>3 DEF EndOf, Editable, Point, BoundaryPoints
  <2>4. WalkValue(e, f, Point(0, 0)) = <<0>>
    BY <1>2, <1>3 DEF WalkValue, Point
  <2>5. f[Point(0, 0)] = <<0>>
    BY <2>2, <2>3, <2>4 DEF IsWalk
  <2> QED BY <2>2, <2>3, <2>5
<1>6. Canonical(e)
  <2>1. TextsApart(e)
    <3>1. e.text \in [Nodes(e) -> Seq(STRING)]
      BY <1>1, <1>2, <1>3
    <3> QED BY <1>2, <1>3, <3>1 DEF TextsApart
  <2>2. 1 \in Nat \ {0} /\ Nodes(e) = 0 .. 1 - 1
    BY <1>2
  <2>3. <<0>> = [j \in 1 .. 1 |-> j - 1]
    OBVIOUS
  <2>4. e.kids \in [Nodes(e) -> Seq(Nodes(e))]
    BY <1>1, <1>2, <1>3
  <2>5. /\ e = [tag |-> e.tag, up |-> e.up, kids |-> e.kids, text |-> e.text, margin |-> e.margin]
        /\ e.tag = [n \in Nodes(e) |-> e.tag[n]]
        /\ e.up = [n \in Nodes(e) |-> e.up[n]]
        /\ e.margin = [n \in Nodes(e) |-> e.margin[n]]
    BY <1>1, <1>2
  <2>6. e.up[Editable] = Null /\ \A n \in Nodes(e) : n = Editable
    BY <1>2 DEF Editable
  <2> QED BY <1>5, <2>1, <2>2, <2>3, <2>4, <2>5, <2>6 DEF Canonical
<1>7. html(e) = e
  BY <1>6, CanonicalHtml
<1> QED BY <1>7 DEF e

------------------------------------------------------------------------------
(* The undo stack.  HistoryKept is inductive as long as the commands leave *)
(* a tree: a snapshot is what html returns of one, and html gives back     *)
(* what it returned.                                                       *)

HistoryKept ==
    /\ \E S : stack \in Seq(S)
    /\ \A i \in 1 .. Len(stack) : html(stack[i].contents) = stack[i].contents
    /\ HistoryIsCurrent

\* What a command does to the history: a snapshot of what it leaves, or nothing.
Records == \E s : s.contents = html(doc') /\ History!recordUndo(s)
Skips == unrecorded' = TRUE /\ UNCHANGED <<stack, stackOffset>>
Rests == UNCHANGED <<doc, stack, stackOffset, unrecorded>>
Steps == \E i \in {stackOffset, stackOffset + 2} :
            /\ i \in 1 .. Len(stack)
            /\ doc' = stack[i].contents
            /\ stackOffset' = i - 1
            /\ UNCHANGED stack

Line == INSTANCE NoteHistoryProofs WITH Snapshots <- {}

LEMMA CommitRecords ==
    ASSUME NEW results, Commit(results)
    PROVE  Records
<1>1. PICK r \in results : \E t \in {Renumbered(r)} :
         doc' = t.doc /\ History!recordUndo(makeSnapshot(t.doc, t.rng))
  BY Zenon DEF Commit
<1>2. PICK t \in {Renumbered(r)} :
         doc' = t.doc /\ History!recordUndo(makeSnapshot(t.doc, t.rng))
  BY <1>1
<1>3. makeSnapshot(t.doc, t.rng).contents = html(doc')
  BY <1>2 DEF makeSnapshot
<1> QED BY <1>2, <1>3, Zenon DEF Records

LEMMA UncommittedSkips ==
    /\ \A results : Uncommitted(results) => Skips
    /\ \A results, node : UncommittedWith(results, node) => Skips
BY Zenon DEF Uncommitted, UncommittedWith, Skips

LEMMA SelectedRecords ==
    ASSUME NEW results, SelectAndCommit(results)
    PROVE  Records \/ Skips
<1>1. PICK r \in results :
        IF CanSelect(r) THEN Commit({r}) ELSE Uncommitted(AnySelection(r.doc))
  BY Zenon DEF SelectAndCommit
<1>2. CASE Commit({r})
  BY <1>2, CommitRecords
<1>3. CASE Uncommitted(AnySelection(r.doc))
  BY <1>3, UncommittedSkips
<1> QED BY <1>1, <1>2, <1>3

LEMMA CommandKinds ==
    ASSUME Line!OffsetInside, [NoteNext]_noteVars
    PROVE  Records \/ Skips \/ Rests \/ Steps
<1> USE CommitRecords, UncommittedSkips, SelectedRecords
<1>1. CASE UNCHANGED noteVars
  BY <1>1, Zenon DEF noteVars, Rests
<1>2. CASE Select
  BY <1>2, Zenon DEF Select, Rests
<1>3. CASE InsertParagraph
  BY <1>3, Zenon DEF InsertParagraph
<1>4. CASE ListCommand
  BY <1>4, Zenon DEF ListCommand, InsertList, Indent, Outdent
<1>5. CASE TabKey
  BY <1>5, Zenon DEF TabKey, Rests
<1>6. CASE UntabKey
  BY <1>6, Zenon DEF UntabKey, Rests
<1>7. CASE InsertCommand
  <2>1. CASE InsertImage
    BY <2>1, Zenon DEF InsertImage
  <2>2. CASE InsertText
    BY <2>2, Zenon DEF InsertText
  <2>3. CASE \E block \in BOOLEAN : PasteHTML(block)
    BY <2>3, Zenon DEF PasteHTML
  <2>4. CASE InsertTable
    BY <2>4, Zenon DEF InsertTable
  <2>5. CASE InsertHorizontalRule
    BY <2>5, Zenon DEF InsertHorizontalRule
  <2> QED BY <1>7, <2>1, <2>2, <2>3, <2>4, <2>5 DEF InsertCommand
<1>8. CASE FontSize
  BY <1>8, Zenon DEF FontSize
<1>9. CASE KeyUp
  BY <1>9, Zenon DEF KeyUp
<1>10. CASE Restyle
  BY <1>10, Zenon DEF Restyle
<1>11. CASE \E changed \in BOOLEAN : CreateLink(changed)
  BY <1>11, Zenon DEF CreateLink
<1>12. CASE Unlink
  BY <1>12, Zenon DEF Unlink
<1>13. CASE RemoveMedia
  BY <1>13, Zenon DEF RemoveMedia
<1>14. stackOffset \in 0 .. Len(stack) - 1 /\ Len(stack) \in Nat
  BY DEF Line!OffsetInside
<1>15. CASE Undo
  <2>1. /\ 0 < stackOffset /\ stackOffset' = stackOffset - 1 /\ UNCHANGED stack
        /\ doc' = stack[stackOffset].contents
    BY <1>15, Zenon DEF Undo, applySnapshot, History!undo
  <2>2. stackOffset \in 1 .. Len(stack)
    BY <1>14, <2>1
  <2> QED BY <2>1, <2>2 DEF Steps
<1>16. CASE Redo
  <2>1. /\ Len(stack) - 1 > stackOffset /\ stackOffset' = stackOffset + 1 /\ UNCHANGED stack
        /\ doc' = stack[stackOffset + 2].contents
    BY <1>16, Zenon DEF Redo, applySnapshot, History!redo
  <2>2. stackOffset + 2 \in 1 .. Len(stack) /\ stackOffset' = (stackOffset + 2) - 1
    BY <1>14, <2>1
  <2> QED BY <2>1, <2>2 DEF Steps
<1> QED BY <1>1, <1>2, <1>3, <1>4, <1>5, <1>6, <1>7, <1>8, <1>9, <1>10, <1>11, <1>12, <1>13,
           <1>15, <1>16, Zenon DEF NoteNext

LEMMA HistoryStart == NoteInit => HistoryKept
<1> SUFFICES ASSUME NoteInit PROVE HistoryKept
  OBVIOUS
<1> DEFINE s == [contents |-> NoContent, bookmark |-> emptyBookmark]
<1>1. stack = <<s>> /\ stackOffset = 0 /\ unrecorded = (doc # NoContent)
  BY Zenon DEF NoteInit, History!HistoryInit
<1>2. s.contents = NoContent
  OBVIOUS
<1> HIDE DEF s
<1>3. stack \in Seq({s}) /\ Len(stack) = 1 /\ stack[1] = s /\ stackOffset + 1 = 1
  BY <1>1
<1>4. \A i \in 1 .. Len(stack) : stack[i] = s
  BY <1>3
<1>5. HistoryIsCurrent
  BY <1>1, <1>2, <1>3, NoContentHtml DEF HistoryIsCurrent
<1> QED BY <1>2, <1>3, <1>4, <1>5, NoContentHtml DEF HistoryKept

LEMMA HistoryStep ==
    ASSUME NoteTypeOK, NoteTypeOK', HistoryKept, [NoteNext]_noteVars
    PROVE  HistoryKept'
<1>1. PICK S : stack \in Seq(S)
  BY DEF HistoryKept
<1> DEFINE L == Len(stack)
           o == stackOffset
           Fixed(s) == html(s.contents) = s.contents
<1>2. L \in Nat /\ o \in 0 .. L - 1 /\ \A i \in 1 .. L : Fixed(stack[i])
  BY <1>1 DEF NoteTypeOK, HistoryKept
<1>3. CASE Records
  <2>1. PICK s : s.contents = html(doc') /\ History!recordUndo(s)
    BY <1>3 DEF Records
  <2> DEFINE cut == SubSeq(stack, 1, o + 1)
  <2>2. stack' = Append(cut, s) /\ stackOffset' = o + 1
    BY <2>1 DEF History!recordUndo
  <2>3. Fixed(s)
    <3>1. IsTree(doc')
      BY DEF NoteTypeOK
    <3> QED BY <2>1, <3>1, HtmlAgain
  <2> HIDE DEF Fixed
  <2>4. cut \in Seq(S) /\ Len(cut) = o + 1 /\ \A i \in 1 .. o + 1 : cut[i] = stack[i]
    BY <1>1, <1>2
  <2> HIDE DEF cut
  <2> DEFINE V == S \cup {s}
  <2>5. cut \in Seq(V) /\ s \in V
    BY <2>4, SeqMonotonic
  <2> HIDE DEF V
  <2>6. stack' \in Seq(V) /\ Len(stack') = o + 2 /\ stack'[o + 2] = s
        /\ \A i \in 1 .. o + 1 : stack'[i] = stack[i]
    BY <1>2, <2>2, <2>4, <2>5, AppendProperties
  <2>7. \A i \in 1 .. Len(stack') : Fixed(stack'[i])
    <3>1. \A i \in 1 .. Len(stack') : i = o + 2 \/ (i \in 1 .. o + 1 /\ i \in 1 .. L)
      BY <1>2, <2>6
    <3> QED BY <1>2, <2>3, <2>6, <3>1
  <2>8. HistoryIsCurrent'
    <3>1. stackOffset' + 1 = o + 2
      BY <1>2, <2>2
    <3>2. stack'[stackOffset' + 1].contents = html(doc')
      BY <2>1, <2>6, <3>1
    <3> QED BY <3>2 DEF HistoryIsCurrent
  <2> QED BY <2>6, <2>7, <2>8 DEF HistoryKept, Fixed
<1>4. CASE Skips
  BY <1>1, <1>2, <1>4 DEF Skips, HistoryKept, HistoryIsCurrent
<1>5. CASE Rests
  BY <1>1, <1>2, <1>5 DEF Rests, HistoryKept, HistoryIsCurrent
<1>6. CASE Steps
  <2>1. PICK i \in {o, o + 2} :
           /\ i \in 1 .. L /\ doc' = stack[i].contents /\ stackOffset' = i - 1 /\ UNCHANGED stack
    BY <1>6 DEF Steps
  <2>2. stackOffset' + 1 = i /\ html(doc') = stack[i].contents
    BY <1>2, <2>1
  <2>3. HistoryIsCurrent'
    BY <2>1, <2>2 DEF HistoryIsCurrent
  <2> QED BY <1>1, <1>2, <2>1, <2>3 DEF HistoryKept
<1> QED
  <2>1. Line!OffsetInside
    BY DEF Line!OffsetInside, NoteTypeOK, HistoryKept
  <2> QED BY <1>3, <1>4, <1>5, <1>6, <2>1, CommandKinds

\* While the commands leave a tree and a selection in it (NoteTypeOK), what the
\* editor shows is the snapshot undo starts from unless a command without a record
\* ran since, and a selection survives the way into a snapshot and back: for any
\* documents to start from and any number of commands (History, bookmark, html).
THEOREM SnapshotStaysCurrent == NoteSpec /\ []NoteTypeOK => []SnapshotIsCurrent
<1>1. NoteInit => HistoryKept
  BY HistoryStart
<1>2. NoteTypeOK /\ NoteTypeOK' /\ HistoryKept /\ [NoteNext]_noteVars => HistoryKept'
  BY HistoryStep
<1>3. NoteTypeOK /\ HistoryKept => SnapshotIsCurrent
  BY SelectionFound DEF SnapshotIsCurrent, HistoryKept
<1> QED BY <1>1, <1>2, <1>3, PTL DEF NoteSpec

\* In any document, the word before any place in a text has no blank and reaches
\* back to one or to the start of the text (getWordRange, prevPointUntil).
THEOREM WordsAreWhole == NoteSpec /\ []NoteTypeOK => []WordBeforeCaret
<1>1. NoteTypeOK => WordBeforeCaret
  BY WordFound DEF NoteTypeOK
<1> QED BY <1>1, PTL

LEMMA CommandsMoveAlong ==
    ASSUME Line!OffsetInside, [NoteNext]_noteVars
    PROVE  Line!HistoryMoves
<1>1. CASE Records
  BY <1>1, Zenon DEF Records, History!recordUndo, Line!HistoryMoves, Line!recordUndo
<1>2. CASE Skips \/ Rests
  BY <1>2, Zenon DEF Skips, Rests, Line!HistoryMoves, Line!historyVars
<1>3. CASE Steps
  <2>1. PICK i \in {stackOffset, stackOffset + 2} :
           i \in 1 .. Len(stack) /\ stackOffset' = i - 1 /\ UNCHANGED stack
    BY <1>3 DEF Steps
  <2>2. Len(stack) \in Nat /\ stackOffset \in Nat
    BY DEF Line!OffsetInside
  <2>3. Line!undo \/ Line!redo
    BY <2>1, <2>2 DEF Line!undo, Line!redo
  <2> QED BY <2>3 DEF Line!HistoryMoves
<1> QED BY <1>1, <1>2, <1>3, CommandKinds

\* Whatever the commands make of the document, the snapshots move along one line
\* of past and future contents: each undo takes back one record, each redo gives
\* one back, and a new record forgets what was undone (History in Editor).
THEOREM EditorKeepsPromise == NoteSpec => History!KeepsUndoPromise
<1>1. NoteInit => Line!OffsetInside /\ Line!Promise!UndoRedoInit
  <2> SUFFICES ASSUME NoteInit PROVE Line!OffsetInside /\ Line!Promise!UndoRedoInit
    OBVIOUS
  <2>1. PICK s : stack = <<s>> /\ stackOffset = 0
    BY Zenon DEF NoteInit, History!HistoryInit
  <2>2. stack \in Seq({s}) /\ Len(stack) = 1
    BY <2>1
  <2>3. Line!OffsetInside
    <3>1. \E S : stack \in Seq(S)
      BY ONLY <2>2
    <3>2. stackOffset \in 0 .. Len(stack) - 1
      BY ONLY <2>1, <2>2
    <3> QED BY ONLY <3>1, <3>2, Zenon DEF Line!OffsetInside
  <2>4. Line!Promise!UndoRedoInit
    BY <2>1 DEF Line!Promise!UndoRedoInit
  <2> QED BY <2>3, <2>4
<1>2. Line!OffsetInside /\ [NoteNext]_noteVars => Line!OffsetInside'
  BY CommandsMoveAlong, Line!OffsetStep
<1>3. Line!OffsetInside /\ [NoteNext]_noteVars
      => [Line!Promise!Record \/ Line!Promise!TakeBack \/ Line!Promise!PutBack]_
             <<SubSeq(stack, 1, stackOffset + 1), SubSeq(stack, stackOffset + 2, Len(stack))>>
  BY CommandsMoveAlong, Line!PromiseStep
<1>4. NoteSpec => Line!KeepsUndoPromise
  BY <1>1, <1>2, <1>3, PTL DEF NoteSpec, Line!KeepsUndoPromise, Line!Promise!UndoRedoSpec
<1>5. Line!KeepsUndoPromise => History!KeepsUndoPromise
  BY PTL DEF History!KeepsUndoPromise, Line!KeepsUndoPromise,
             History!Promise!UndoRedoSpec, History!Promise!UndoRedoInit,
             History!Promise!Record, History!Promise!TakeBack, History!Promise!PutBack,
             Line!Promise!UndoRedoSpec, Line!Promise!UndoRedoInit,
             Line!Promise!Record, Line!Promise!TakeBack, Line!Promise!PutBack
<1> QED BY <1>4, <1>5, PTL
------------------------------------------------------------------------------
(* The page: its parts share no state, so each behaves as it does alone,   *)
(* and what is proved of a part holds of the page.                         *)

PageParts ==
    /\ NoteSpec /\ SessionSpec /\ DialogSpec /\ GestureSpec /\ PostFormSpec
    /\ TooltipInit /\ [][TooltipNext]_tooltipVars
    /\ MarkupInit /\ [][MarkupNext]_markupVars

LEMMA PartsStart ==
    PageInit => /\ NoteInit /\ SessionInit /\ DialogInit /\ GestureInit /\ PostFormInit
                /\ TooltipInit /\ MarkupInit
  BY Zenon DEF PageInit

LEMMA PartsStep ==
    ASSUME [PageNext]_pageVars
    PROVE  /\ [NoteNext]_noteVars /\ [SessionNext]_sessionVars /\ [DialogNext]_dialogVars
           /\ [GestureNext]_gestureVars /\ [PostFormNext]_formVars
           /\ [TooltipNext]_tooltipVars /\ [MarkupNext]_markupVars
<1>1. /\ NoteNext \/ UNCHANGED noteVars
      /\ SessionNext \/ UNCHANGED sessionVars
      /\ DialogNext \/ UNCHANGED dialogVars
      /\ GestureNext \/ UNCHANGED gestureVars
      /\ PostFormNext \/ UNCHANGED formVars
      /\ TooltipNext \/ UNCHANGED tooltipVars
      /\ MarkupNext \/ UNCHANGED markupVars
  BY DEF PageNext, pageVars
<1> QED BY <1>1

LEMMA PartsRun == PageSpec => PageParts
  BY PartsStart, PartsStep, PTL
     DEF PageSpec, PageParts, NoteSpec, SessionSpec, DialogSpec, GestureSpec, PostFormSpec

LEMMA PartsInvariant ==
    PageSpec => []/\ SessionInv /\ LinkInv /\ GestureInv /\ PostInv
                  /\ TooltipInv /\ MarkupTypeOK
<1>1. PageInit => /\ SessionInv /\ LinkInv /\ GestureInv /\ PostInv
                  /\ TooltipInv /\ MarkupTypeOK
  BY PartsStart, SessionStart, LinkStart, GestureStart, PostStart, TooltipStart, MarkupStart
<1>2. LinkInv /\ [DialogNext]_dialogVars => LinkInv'
  BY LinkStep
<1>3. /\ SessionInv /\ LinkInv /\ GestureInv /\ PostInv /\ TooltipInv /\ MarkupTypeOK
      /\ [PageNext]_pageVars
      => /\ SessionInv' /\ LinkInv' /\ GestureInv' /\ PostInv' /\ TooltipInv' /\ MarkupTypeOK'
  BY <1>2, PartsStep, SessionStep, GestureStep, PostStep, TooltipStep, MarkupStep
<1> QED BY <1>1, <1>3, PTL DEF PageSpec

\* Whatever the commands of the editor do to its document, every variable of the
\* page's other parts has its type, for any bounds.
THEOREM PageTypeCorrect ==
    PageSpec => []/\ SessionTypeOK /\ DialogTypeOK /\ GestureTypeOK /\ MarkupTypeOK
                  /\ TooltipTypeOK /\ PostFormTypeOK
<1>1. /\ SessionInv /\ LinkInv /\ GestureInv /\ PostInv /\ TooltipInv /\ MarkupTypeOK
      => /\ SessionTypeOK /\ DialogTypeOK /\ GestureTypeOK /\ MarkupTypeOK
         /\ TooltipTypeOK /\ PostFormTypeOK
  BY PostType DEF SessionInv, LinkInv, GestureInv, TooltipInv
<1> QED BY <1>1, PartsInvariant, PTL

\* What is proved of the parts, of the page: copies of the content agree, a click
\* on the link button reaches one spot, drags end as they should, no tooltip stays
\* behind, and until a confirmation was declined posts are what the buttons ask for.
THEOREM PageKeepsAll ==
    PageSpec => []/\ CopiesAgree /\ FieldsReachOneSpot /\ ResizingGetsRecorded
                  /\ DropzoneFollowsDrag /\ NoTooltipIsLeftBehind
                  /\ PostedAsAsked
<1>1. /\ SessionInv /\ LinkInv /\ GestureInv /\ PostInv /\ TooltipInv /\ MarkupTypeOK
      => /\ CopiesAgree /\ ResizingGetsRecorded /\ DropzoneFollowsDrag
         /\ NoTooltipIsLeftBehind /\ PostedAsAsked
  <2>1. SessionInv => CopiesAgree
    BY DEF SessionInv, CopiesAgree
  <2>2. GestureInv => ResizingGetsRecorded /\ DropzoneFollowsDrag
    BY DEF GestureInv
  <2>3. PostInv => PostedAsAsked
    BY DEF PostInv, FormInv, ActionInv, PostedAsAsked
  <2>4. TooltipInv => NoTooltipIsLeftBehind
    BY DEF TooltipInv
  <2> QED BY <2>1, <2>2, <2>3, <2>4
<1> QED BY <1>1, PartsInvariant, PartsRun, OneSpotPerClick, PTL DEF PageParts

\* The same for what a step of a part may do: undo in a session and in the editor
\* keeps its promise, and the first use of a dialog does what its fields say.
THEOREM PageKeepsPromises ==
    PageSpec => /\ SessionKeepsUndoPromise
                /\ History!KeepsUndoPromise
                /\ FirstUseAsAsked
  BY PartsRun, SessionKeepsPromise, EditorKeepsPromise, FirstUse, PTL DEF PageParts

\* And for the editor: on a page whose commands leave a tree, the snapshot undo
\* starts from is current, and the word before a caret is whole.
THEOREM PageEditorKeeps ==
    PageSpec /\ []NoteTypeOK => [](SnapshotIsCurrent /\ WordBeforeCaret)
  BY PartsRun, SnapshotStaysCurrent, WordsAreWhole, PTL DEF PageParts
=============================================================================
