------------------------ MODULE ClientPacketsProofs ------------------------
(***************************************************************************)
(* The response of the daemon shows the table it is about, whatever the     *)
(* table: the numbers that tie the packets together are different for       *)
(* different chassis and neighbours, and the client's maps grow by one      *)
(* chassis or neighbour with the packets about it.                          *)
(***************************************************************************)
EXTENDS ClientPackets, FiniteSetTheorems, SequenceTheorems, WellFoundedInduction, TLAPS

\* The counters of DumpData do not wrap.
Countable(table) ==
    /\ Cardinality(DOMAIN table) <= 65536
    /\ Cardinality(Neighbours(table)) <= 65536

----------------------------------------------------------------------------
(* Numbers.                                                                 *)

\* A set of numbers has a least one.
LEMMA Least ==
    ASSUME NEW S \in SUBSET Nat, S # {}
    PROVE  Min(S) \in S /\ \A y \in S : Min(S) <= y
<1> DEFINE R == OpToRel(<, Nat)
<1>1. IsWellFoundedOn(R, Nat)
  BY NatLessThanWellFounded
<1>2. \A x \in Nat, y \in Nat : x < y => <<x, y>> \in R
  BY DEF OpToRel
<1> HIDE DEF R
<1>3. PICK x \in S : \A y \in S : ~ (<<y, x>> \in R)
  BY <1>1, WFMin
<1>4. ASSUME NEW y \in S PROVE x <= y
  <2>1. x \in Nat /\ y \in Nat
    OBVIOUS
  <2>2. ~ (y < x)
    BY <1>2, <1>3, <2>1
  <2> QED
    BY <2>1, <2>2
<1> QED
  BY <1>4 DEF Min

\* Each element of S with those that come before it.
Orders(below, S) ==
    /\ below \in [S -> SUBSET S]
    /\ \A x \in S : x \notin below[x]
    /\ \A x, y \in S : x \in below[y] => below[x] \subseteq below[y]
    /\ \A x, y \in S : x # y => x \in below[y] \/ y \in below[x]

\* The number of those that come before takes each element of a finite set to a
\* place of its own, and there are as many places as elements.
LEMMA Places ==
    ASSUME NEW S, IsFiniteSet(S), NEW below, Orders(below, S)
    PROVE  /\ Cardinality(S) \in Nat
           /\ \A x \in S : Cardinality(below[x]) \in 0..(Cardinality(S) - 1)
           /\ \A x, y \in S : Cardinality(below[x]) = Cardinality(below[y]) => x = y
           /\ \A k \in 0..(Cardinality(S) - 1) : \E x \in S : Cardinality(below[x]) = k
<1> DEFINE n == Cardinality(S)
           rank == [x \in S |-> Cardinality(below[x])]
<1>1. n \in Nat
  BY FS_CardinalityType
<1>2. \A x \in S : IsFiniteSet(below[x]) /\ Cardinality(below[x]) \in Nat
  BY FS_Subset, FS_CardinalityType DEF Orders
<1>3. \A x \in S : rank[x] \in 0..(n - 1)
  <2> SUFFICES ASSUME NEW x \in S PROVE rank[x] \in 0..(n - 1)
    OBVIOUS
  <2>1. below[x] \in SUBSET S /\ below[x] # S
    BY DEF Orders
  <2>2. Cardinality(below[x]) <= n /\ Cardinality(below[x]) # n
    BY <2>1, FS_Subset
  <2> QED
    BY <1>1, <1>2, <2>2
<1>4. ASSUME NEW x \in S, NEW y \in S, x \in below[y] PROVE rank[x] # rank[y]
  <2>1. below[x] \in SUBSET below[y] /\ below[x] # below[y]
    BY <1>4 DEF Orders
  <2> QED
    BY <1>2, <2>1, FS_Subset
<1>5. \A x, y \in S : rank[x] = rank[y] => x = y
  BY <1>4 DEF Orders
<1> HIDE DEF rank, n
<1>6. rank \in Injection(S, 0..(n - 1))
  BY <1>3, <1>5 DEF Injection, IsInjective, rank
<1>7. IsFiniteSet(0..(n - 1)) /\ Cardinality(0..(n - 1)) = n
  <2>1. 0 \in Int /\ n - 1 \in Int /\ (n - 1) - 0 + 1 = n /\ (0 > n - 1 => n = 0)
    BY <1>1
  <2>2. /\ IsFiniteSet(0..(n - 1))
        /\ Cardinality(0..(n - 1)) = IF 0 > n - 1 THEN 0 ELSE (n - 1) - 0 + 1
    BY <2>1, FS_Interval
  <2> QED
    BY <2>1, <2>2
<1>8. rank \in Surjection(S, 0..(n - 1))
  BY <1>6, <1>7, FS_Injection DEF n
<1>9. \A k \in 0..(n - 1) : \E x \in S : rank[x] = k
  BY <1>8 DEF Surjection
<1> QED
  BY <1>1, <1>3, <1>5, <1>9 DEF rank, n

Below(S) == [x \in S |-> {m \in S : m < x}]

LEMMA NumbersOrdered ==
    ASSUME NEW S \in SUBSET Nat
    PROVE  Orders(Below(S), S)
<1>1. \A x, y, z \in Nat : ~ (x < x) /\ (x < y /\ y < z => x < z) /\ (x # y => x < y \/ y < x)
  OBVIOUS
<1>2. \A x, y \in S : x \in Below(S)[y] => Below(S)[x] \subseteq Below(S)[y]
  BY <1>1 DEF Below
<1>3. \A x, y \in S : x # y => x \in Below(S)[y] \/ y \in Below(S)[x]
  BY <1>1 DEF Below
<1> QED
  BY <1>1, <1>2, <1>3 DEF Orders, Below

\* Sorted lists each element of a set, at the place the number of those before it
\* says.
LEMMA SortedType ==
    ASSUME NEW S \in SUBSET Nat, IsFiniteSet(S)
    PROVE  /\ Cardinality(S) \in Nat /\ Sorted(S) \in [1..Cardinality(S) -> S]
           /\ \A k \in 1..Cardinality(S) : Cardinality({m \in S : m < Sorted(S)[k]}) = k - 1
           /\ \A x \in S : \E k \in 1..Cardinality(S) : Sorted(S)[k] = x
<1> DEFINE n == Cardinality(S)
<1>1. /\ n \in Nat
      /\ \A x \in S : Cardinality(Below(S)[x]) \in 0..(n - 1)
      /\ \A x, y \in S : Cardinality(Below(S)[x]) = Cardinality(Below(S)[y]) => x = y
      /\ \A k \in 0..(n - 1) : \E x \in S : Cardinality(Below(S)[x]) = k
  BY NumbersOrdered, Places
<1>2. \A x \in S : Below(S)[x] = {m \in S : m < x}
  BY DEF Below
<1>3. \A k \in 1..n : \E x \in S : Cardinality({m \in S : m < x}) = k - 1
  <2> SUFFICES ASSUME NEW k \in 1..n
               PROVE  \E x \in S : Cardinality({m \in S : m < x}) = k - 1
    OBVIOUS
  <2>1. k - 1 \in 0..(n - 1)
    BY <1>1
  <2> QED
    BY <1>1, <1>2, <2>1
<1>4. \A k \in 1..n : Sorted(S)[k] \in S /\ Cardinality({m \in S : m < Sorted(S)[k]}) = k - 1
  BY <1>3 DEF Sorted
<1>5. \A x \in S : \E k \in 1..n : Sorted(S)[k] = x
  <2> SUFFICES ASSUME NEW x \in S PROVE \E k \in 1..n : Sorted(S)[k] = x
    OBVIOUS
  <2>1. Cardinality(Below(S)[x]) \in 0..(n - 1)
    BY <1>1
  <2>2. PICK k \in 1..n : k - 1 = Cardinality(Below(S)[x])
    <3> DEFINE r == Cardinality(Below(S)[x])
    <3>1. r + 1 \in 1..n /\ (r + 1) - 1 = r
      <4> HIDE DEF r, n
      <4> QED  BY <1>1, <2>1 DEF r, n
    <3> QED
      BY <3>1
  <2>3. Sorted(S)[k] = x
    BY <1>1, <1>2, <1>4, <2>2
  <2> QED
    BY <2>3
<1>6. Sorted(S) \in [1..n -> S]
  BY <1>3 DEF Sorted
<1> QED
  BY <1>1, <1>4, <1>5, <1>6

\* The number of a chassis, and what stands for its number in the proof.
Place(table, c) == Cardinality({d \in DOMAIN table : d < c})
ChassisAt(table, n) == CHOOSE c \in DOMAIN table : Place(table, c) = n
NeighbourAt(table, n) == CHOOSE x \in Neighbours(table) : Number(table, x[1], x[2]) = n

\* The neighbours before x.
Earlier(table) ==
    [x \in Neighbours(table) |->
        {y \in Neighbours(table) : y[1] < x[1] \/ (y[1] = x[1] /\ y[2] < x[2])}]

LEMMA NeighbourPairs ==
    ASSUME NEW t, IsTable(t)
    PROVE  /\ IsFiniteSet(Neighbours(t))
           /\ \A x \in Neighbours(t) :
                 /\ x = <<x[1], x[2]>>
                 /\ x[1] \in DOMAIN t /\ x[2] \in DOMAIN t[x[1]]
                 /\ x[1] \in Nat /\ x[2] \in Nat
           /\ \A c \in DOMAIN t : \A p \in DOMAIN t[c] : <<c, p>> \in Neighbours(t)
<1> DEFINE of == [c \in DOMAIN t |-> {c} \X DOMAIN t[c]]
           parts == {of[c] : c \in DOMAIN t}
<1>1. of \in Surjection(DOMAIN t, parts)
  BY DEF Surjection
<1>2. IsFiniteSet(parts)
  <2>1. IsFiniteSet(DOMAIN t)
    BY DEF IsTable
  <2> HIDE DEF of, parts
  <2> QED  BY <1>1, <2>1, FS_Surjection
<1>3. \A T \in parts : IsFiniteSet(T)
  <2> SUFFICES ASSUME NEW c \in DOMAIN t PROVE IsFiniteSet({c} \X DOMAIN t[c])
    OBVIOUS
  <2>1. IsFiniteSet({c}) /\ IsFiniteSet(DOMAIN t[c])
    BY FS_Singleton DEF IsTable
  <2> QED
    BY <2>1, FS_Product
<1>4. Neighbours(t) = UNION parts
  BY DEF Neighbours
<1>5. IsFiniteSet(Neighbours(t))
  <2> HIDE DEF parts
  <2> QED  BY <1>2, <1>3, <1>4, FS_UNION
<1>6. ASSUME NEW x \in Neighbours(t)
      PROVE  /\ x = <<x[1], x[2]>>
             /\ x[1] \in DOMAIN t /\ x[2] \in DOMAIN t[x[1]]
             /\ x[1] \in Nat /\ x[2] \in Nat
  <2>1. PICK c \in DOMAIN t : x \in {c} \X DOMAIN t[c]
    BY DEF Neighbours
  <2>2. x = <<x[1], x[2]>> /\ x[1] = c /\ x[2] \in DOMAIN t[c]
    BY <2>1
  <2> QED
    BY <2>2 DEF IsTable
<1>7. \A c \in DOMAIN t : \A p \in DOMAIN t[c] : <<c, p>> \in Neighbours(t)
  BY DEF Neighbours
<1> QED
  BY <1>5, <1>6, <1>7

LEMMA NeighboursOrdered ==
    ASSUME NEW t, IsTable(t)
    PROVE  Orders(Earlier(t), Neighbours(t))
<1> DEFINE N == Neighbours(t)
           Less(y, x) == y[1] < x[1] \/ (y[1] = x[1] /\ y[2] < x[2])
<1>1. \A x \in N : x = <<x[1], x[2]>> /\ x[1] \in Nat /\ x[2] \in Nat
  BY NeighbourPairs
<1>2. \A x \in N : ~ Less(x, x)
  BY <1>1
<1>3. \A x, y, z \in N : Less(x, y) /\ Less(y, z) => Less(x, z)
  BY <1>1
<1>4. \A x, y \in N : x # y => Less(x, y) \/ Less(y, x)
  <2> SUFFICES ASSUME NEW x \in N, NEW y \in N, ~ Less(x, y), ~ Less(y, x) PROVE x = y
    OBVIOUS
  <2>1. x[1] = y[1] /\ x[2] = y[2]
    BY <1>1
  <2> QED
    BY <1>1, <2>1
<1>5. Earlier(t) = [x \in N |-> {y \in N : Less(y, x)}]
  BY DEF Earlier
<1> HIDE DEF N, Less
<1> QED
  BY <1>2, <1>3, <1>4, <1>5 DEF Orders, N

\* No two chassis and no two neighbours get the same number.
LEMMA Numbers ==
    ASSUME NEW t, IsTable(t), Countable(t)
    PROVE  /\ \A c \in DOMAIN t :
                 /\ Place(t, c) \in Nat /\ Id(Place(t, c)) = Place(t, c)
                 /\ ChassisAt(t, Place(t, c)) = c
           /\ \A x \in Neighbours(t) :
                 /\ Number(t, x[1], x[2]) \in Nat
                 /\ Id(Number(t, x[1], x[2])) = Number(t, x[1], x[2])
                 /\ NeighbourAt(t, Number(t, x[1], x[2])) = x
<1>1. ASSUME NEW n \in Nat, n <= 65536, NEW k \in 0..(n - 1) PROVE k \in Nat /\ Id(k) = k
  BY <1>1 DEF Id
<1>2. ASSUME NEW c \in DOMAIN t
      PROVE  /\ Place(t, c) \in 0..(Cardinality(DOMAIN t) - 1)
             /\ Cardinality(DOMAIN t) \in Nat
             /\ ChassisAt(t, Place(t, c)) = c
  <2>1. DOMAIN t \in SUBSET Nat /\ IsFiniteSet(DOMAIN t)
    BY DEF IsTable
  <2>2. \A d \in DOMAIN t : Place(t, d) = Cardinality(Below(DOMAIN t)[d])
    BY DEF Below, Place
  <2>3. /\ Cardinality(DOMAIN t) \in Nat
        /\ \A d \in DOMAIN t : Place(t, d) \in 0..(Cardinality(DOMAIN t) - 1)
        /\ \A d, e \in DOMAIN t : Place(t, d) = Place(t, e) => d = e
    BY <2>1, <2>2, NumbersOrdered, Places
  <2> QED
    BY <2>3 DEF ChassisAt
<1>3. ASSUME NEW x \in Neighbours(t)
      PROVE  /\ Number(t, x[1], x[2]) \in 0..(Cardinality(Neighbours(t)) - 1)
             /\ Cardinality(Neighbours(t)) \in Nat
             /\ NeighbourAt(t, Number(t, x[1], x[2])) = x
  <2>1. \A y \in Neighbours(t) : Cardinality(Earlier(t)[y]) = Number(t, y[1], y[2])
    BY DEF Earlier, Number
  <2>2. /\ Cardinality(Neighbours(t)) \in Nat
        /\ \A y \in Neighbours(t) :
              Cardinality(Earlier(t)[y]) \in 0..(Cardinality(Neighbours(t)) - 1)
        /\ \A y, z \in Neighbours(t) :
              Cardinality(Earlier(t)[y]) = Cardinality(Earlier(t)[z]) => y = z
    BY NeighbourPairs, NeighboursOrdered, Places
  <2>3. /\ \A y \in Neighbours(t) :
              Number(t, y[1], y[2]) \in 0..(Cardinality(Neighbours(t)) - 1)
        /\ \A y, z \in Neighbours(t) :
              Number(t, y[1], y[2]) = Number(t, z[1], z[2]) => y = z
    BY <2>1, <2>2
  <2> QED
    BY <2>2, <2>3 DEF NeighbourAt
<1> QED
  BY <1>1, <1>2, <1>3 DEF Countable

----------------------------------------------------------------------------
(* Sequences of packets.                                                    *)

\* A sequence of packets none of which is the last of a response.
Plain(s) == s \in Seq(Range(s)) /\ End \notin Range(s)

LEMMA PlainIn ==
    ASSUME NEW X, End \notin X, NEW s \in Seq(X)
    PROVE  Plain(s)
<1>1. DOMAIN s = 1..Len(s) /\ Len(s) \in Nat /\ s = [i \in 1..Len(s) |-> s[i]]
  OBVIOUS
<1>2. \A i \in 1..Len(s) : s[i] \in Range(s) /\ s[i] \in X
  BY <1>1 DEF Range
<1>3. s \in Seq(Range(s))
  BY <1>1, <1>2
<1> QED
  BY <1>1, <1>2, <1>3 DEF Plain, Range

LEMMA PlainConcat ==
    ASSUME NEW s, NEW u, Plain(s), Plain(u)
    PROVE  Plain(s \o u)
<1> DEFINE X == Range(s) \cup Range(u)
<1>1. s \in Seq(X) /\ u \in Seq(X)
  BY DEF Plain
<1>2. s \o u \in Seq(X)
  <2> HIDE DEF X
  <2> QED  BY <1>1
<1> QED
  BY <1>2, PlainIn DEF Plain

\* FlattenSeq is defined by recursion along the sequence, which exists for one
\* that is longer by a part if it does without that part.
Flattens(N, seqs, g) ==
    g = [i \in 1..N |-> IF i = 1 THEN seqs[i] ELSE g[i - 1] \o seqs[i]]

LEMMA FlattenExists ==
    ASSUME NEW X, NEW N \in Nat, NEW seqs, seqs \in [1..N -> Seq(X)]
    PROVE  \E g : Flattens(N, seqs, g)
<1> DEFINE Flat(n, g) ==
              /\ g \in [1..n -> Seq(X)]
              /\ \A i \in 1..n : g[i] = IF i = 1 THEN seqs[i] ELSE g[i - 1] \o seqs[i]
           Bad == {n \in 0..N : \A g \in [1..n -> Seq(X)] : ~Flat(n, g)}
<1>1. Bad = {}
  <2>1. SUFFICES ASSUME Bad # {} PROVE FALSE
    OBVIOUS
  <2> DEFINE n == Min(Bad)
  <2>2. n \in Bad /\ \A m \in Bad : n <= m
    <3>1. Bad \in SUBSET Nat
      OBVIOUS
    <3> HIDE DEF Bad
    <3> QED  BY <2>1, <3>1, Least
  <2> HIDE DEF n
  <2>3. n \in 0..N /\ \A g \in [1..n -> Seq(X)] : ~Flat(n, g)
    BY <2>2
  <2>4. n # 0
    <3>1. Flat(0, <<>>) /\ <<>> \in [1..0 -> Seq(X)]
      OBVIOUS
    <3> HIDE DEF Flat
    <3> QED  BY <2>3, <3>1
  <2>5. n - 1 \in 0..N /\ n - 1 \notin Bad
    <3>1. n - 1 \in 0..N /\ ~(n <= n - 1)
      BY <2>3, <2>4
    <3> HIDE DEF Bad
    <3> QED  BY <2>2, <3>1
  <2>6. PICK g \in [1..(n - 1) -> Seq(X)] : Flat(n - 1, g)
    BY <2>5
  <2> DEFINE h == [i \in 1..n |-> IF i = n THEN (IF n = 1 THEN seqs[n] ELSE g[n - 1] \o seqs[n])
                                  ELSE g[i]]
  <2>7. \A i \in 1..n : h[i] \in Seq(X)
    <3>1. seqs[n] \in Seq(X)
      BY <2>3, <2>4
    <3>2. CASE n = 1
      BY <3>1, <3>2
    <3>3. CASE n # 1
      <4>1. g[n - 1] \in Seq(X)
        BY <2>3, <2>4, <3>3
      <4>2. g[n - 1] \o seqs[n] \in Seq(X)
        BY <3>1, <4>1
      <4>3. \A i \in 1..n : i # n => g[i] \in Seq(X)
        BY <2>3
      <4> QED
        BY <3>3, <4>2, <4>3
    <3> QED
      BY <3>2, <3>3
  <2>8. h \in [1..n -> Seq(X)]
    BY <2>7
  <2>9. \A i \in 1..n : h[i] = IF i = 1 THEN seqs[i] ELSE h[i - 1] \o seqs[i]
    <3> SUFFICES ASSUME NEW i \in 1..n
                 PROVE  h[i] = IF i = 1 THEN seqs[i] ELSE h[i - 1] \o seqs[i]
      OBVIOUS
    <3>1. CASE i = n
      <4>1. n # 1 => h[n - 1] = g[n - 1]
        BY <2>3, <2>4
      <4> QED  BY <3>1, <4>1
    <3>2. CASE i # n
      <4>1. i \in 1..(n - 1) /\ h[i] = g[i]
        BY <2>3, <3>2
      <4>2. g[i] = IF i = 1 THEN seqs[i] ELSE g[i - 1] \o seqs[i]
        BY <2>6, <4>1
      <4>3. i # 1 => h[i - 1] = g[i - 1]
        BY <2>3, <4>1
      <4> QED  BY <4>1, <4>2, <4>3
    <3> QED
      BY <3>1, <3>2
  <2>10. Flat(n, h)
    BY <2>8, <2>9
  <2> QED
    BY <2>3, <2>8, <2>10
<1>2. PICK g \in [1..N -> Seq(X)] : Flat(N, g)
  <2>1. N \in 0..N
    OBVIOUS
  <2>2. N \notin Bad
    <3> HIDE DEF Bad
    <3> QED  BY <1>1
  <2> QED
    BY <2>1, <2>2
<1>3. Flattens(N, seqs, g)
  BY <1>2 DEF Flattens
<1> QED
  BY <1>3

\* What FlattenSeq has put together after each part.
IsFlattened(X, N, seqs, f) ==
    /\ FlattenSeq(seqs) = f[N]
    /\ \A i \in 1..N :
          /\ f[i] \in Seq(X)
          /\ f[i] = IF i = 1 THEN seqs[i] ELSE f[i - 1] \o seqs[i]

LEMMA FlattenSteps ==
    ASSUME NEW X, NEW N \in Nat, N # 0, NEW seqs, seqs \in [1..N -> Seq(X)]
    PROVE  \E f : IsFlattened(X, N, seqs, f)
<1> DEFINE flatten == CHOOSE g : Flattens(N, seqs, g)
<1>1. seqs \in Seq(Seq(X)) /\ Len(seqs) = N /\ \A k \in 1..N : seqs[k] \in Seq(X)
  OBVIOUS
<1>2. FlattenSeq(seqs) = flatten[N]
  BY <1>1 DEF FlattenSeq, Flattens
<1>3. \E g : Flattens(N, seqs, g)
  BY FlattenExists
<1>4. Flattens(N, seqs, flatten)
  BY <1>3
<1> HIDE DEF flatten
<1>5. \A i \in 1..N : flatten[i] = IF i = 1 THEN seqs[i] ELSE flatten[i - 1] \o seqs[i]
  BY <1>4 DEF Flattens
<1> DEFINE Bad == {i \in 1..N : flatten[i] \notin Seq(X)}
<1>6. Bad = {}
  <2>1. SUFFICES ASSUME Bad # {} PROVE FALSE
    OBVIOUS
  <2> DEFINE i == Min(Bad)
  <2>2. i \in Bad /\ \A j \in Bad : i <= j
    <3>1. Bad \in SUBSET Nat
      OBVIOUS
    <3> HIDE DEF Bad
    <3> QED  BY <2>1, <3>1, Least
  <2> HIDE DEF i
  <2>3. i \in 1..N /\ flatten[i] \notin Seq(X)
    BY <2>2
  <2>4. i # 1
    BY <1>1, <1>5, <2>3
  <2>5. i - 1 \in 1..N /\ flatten[i - 1] \in Seq(X)
    <3>1. i - 1 \in 1..N /\ ~(i <= i - 1)
      BY <2>3, <2>4
    <3>2. i - 1 \notin Bad
      <4> HIDE DEF Bad
      <4> QED  BY <2>2, <3>1
    <3> QED
      BY <3>1, <3>2
  <2>6. seqs[i] \in Seq(X)
    BY <1>1, <2>3
  <2>7. flatten[i - 1] \o seqs[i] \in Seq(X)
    BY <2>5, <2>6
  <2> QED
    BY <1>5, <2>3, <2>4, <2>7
<1>7. \A i \in 1..N : flatten[i] \in Seq(X)
  BY <1>6
<1>8. IsFlattened(X, N, seqs, flatten)
  BY <1>2, <1>5, <1>7 DEF IsFlattened
<1> QED
  BY <1>8

LEMMA FlattenNone ==
    ASSUME NEW X, NEW seqs, seqs \in [1..0 -> Seq(X)]
    PROVE  FlattenSeq(seqs) = <<>>
<1>1. seqs = <<>> /\ Len(seqs) = 0
  OBVIOUS
<1> QED
  BY <1>1 DEF FlattenSeq

LEMMA FlattenType ==
    ASSUME NEW X, NEW N \in Nat, NEW seqs, seqs \in [1..N -> Seq(X)]
    PROVE  FlattenSeq(seqs) \in Seq(X)
<1>1. CASE N = 0
  <2>1. FlattenSeq(seqs) = <<>>
    BY <1>1, FlattenNone
  <2> QED
    BY <2>1
<1>2. CASE N # 0
  <2>1. PICK f : IsFlattened(X, N, seqs, f)
    BY <1>2, FlattenSteps
  <2> QED
    BY <1>2, <2>1 DEF IsFlattened
<1> QED
  BY <1>1, <1>2

----------------------------------------------------------------------------
(* Reading.                                                                 *)

\* The client's maps from m on, as it reads the packets s.
IsReading(r, m, s) ==
    /\ r = [i \in 0..Len(s) |-> r[i]]
    /\ r[0] = m
    /\ \A i \in 1..Len(s) : r[i] = processDataPacket(r[i - 1], s[i])

\* Reading the packets s takes the client from m to n.
Leads(m, s, n) == \E r : IsReading(r, m, s) /\ r[Len(s)] = n

LEMMA LeadsNowhere ==
    ASSUME NEW m
    PROVE  Leads(m, <<>>, m)
<1> DEFINE r == [i \in 0..0 |-> m]
<1>1. Len(<<>>) = 0
  OBVIOUS
<1>2. r[0] = m /\ r = [i \in 0..0 |-> r[i]]
  OBVIOUS
<1> HIDE DEF r
<1>3. IsReading(r, m, <<>>) /\ r[Len(<<>>)] = m
  BY <1>1, <1>2 DEF IsReading
<1> QED
  BY <1>3 DEF Leads

LEMMA LeadsOne ==
    ASSUME NEW m, NEW x
    PROVE  Leads(m, <<x>>, processDataPacket(m, x))
<1> DEFINE n == processDataPacket(m, x)
           s == <<x>>
           r == [i \in 0..1 |-> IF i = 0 THEN m ELSE n]
<1>1. Len(s) = 1 /\ s[1] = x
  OBVIOUS
<1>2. r[0] = m /\ r[1] = n /\ r = [i \in 0..1 |-> r[i]]
  OBVIOUS
<1>3. n = processDataPacket(m, x)
  OBVIOUS
<1> HIDE DEF r, s, n
<1>4. \A i \in 1..1 : i = 1 /\ i - 1 = 0
  OBVIOUS
<1>5. \A i \in 1..Len(s) : r[i] = processDataPacket(r[i - 1], s[i])
  BY <1>1, <1>2, <1>3, <1>4
<1>6. IsReading(r, m, s) /\ r[Len(s)] = n
  BY <1>1, <1>2, <1>5 DEF IsReading
<1> QED
  BY <1>6 DEF Leads, s, n

LEMMA LeadsOn ==
    ASSUME NEW X, NEW a, a \in Seq(X), NEW b, b \in Seq(X), NEW m, NEW n, NEW o,
           Leads(m, a, n), Leads(n, b, o)
    PROVE  Leads(m, a \o b, o)
<1>1. PICK f : IsReading(f, m, a) /\ f[Len(a)] = n
  BY DEF Leads
<1>2. PICK g : IsReading(g, n, b) /\ g[Len(b)] = o
  BY DEF Leads
<1> DEFINE s == a \o b
           r == [i \in 0..Len(s) |-> IF i <= Len(a) THEN f[i] ELSE g[i - Len(a)]]
<1>3. /\ Len(a) \in Nat /\ Len(b) \in Nat /\ Len(s) = Len(a) + Len(b)
      /\ \A i \in 1..Len(a) : s[i] = a[i]
      /\ \A i \in 1..Len(b) : s[Len(a) + i] = b[i]
  OBVIOUS
<1> HIDE DEF s
<1>4. \A i \in 0..Len(a) : r[i] = f[i]
  BY <1>3
<1>5. \A i \in 0..Len(b) : r[Len(a) + i] = g[i]
  <2> SUFFICES ASSUME NEW i \in 0..Len(b) PROVE r[Len(a) + i] = g[i]
    OBVIOUS
  <2>1. CASE i = 0
    <3>1. r[Len(a)] = f[Len(a)] /\ Len(a) + i = Len(a)
      BY <1>3, <1>4, <2>1
    <3> QED
      BY <1>1, <1>2, <2>1, <3>1 DEF IsReading
  <2>2. CASE i # 0
    <3>1. Len(a) + i \in 0..Len(s) /\ ~(Len(a) + i <= Len(a)) /\ (Len(a) + i) - Len(a) = i
      BY <1>3, <2>2
    <3> QED
      BY <3>1
  <2> QED
    BY <2>1, <2>2
<1>6. r[0] = m /\ r[Len(s)] = o /\ r = [i \in 0..Len(s) |-> r[i]]
  <2>1. r[0] = f[0]
    BY <1>3, <1>4
  <2>2. r[Len(s)] = g[Len(b)]
    <3>1. Len(b) \in 0..Len(b) /\ Len(s) = Len(a) + Len(b)
      BY <1>3
    <3> HIDE DEF r
    <3> QED  BY <1>5, <3>1
  <2> QED
    BY <1>1, <1>2, <2>1, <2>2 DEF IsReading
<1> HIDE DEF r
<1>7. ASSUME NEW i \in 1..Len(s) PROVE r[i] = processDataPacket(r[i - 1], s[i])
  <2>1. CASE i <= Len(a)
    <3>1. i \in 1..Len(a) /\ i \in 0..Len(a) /\ i - 1 \in 0..Len(a)
      BY <1>3, <2>1
    <3> QED
      BY <1>1, <1>3, <1>4, <3>1 DEF IsReading
  <2>2. CASE ~(i <= Len(a))
    <3> DEFINE j == i - Len(a)
    <3>1. /\ j \in 1..Len(b) /\ j \in 0..Len(b) /\ j - 1 \in 0..Len(b)
          /\ i = Len(a) + j /\ i - 1 = Len(a) + (j - 1)
      BY <1>3, <2>2
    <3> HIDE DEF j
    <3>2. r[i] = g[j] /\ r[i - 1] = g[j - 1] /\ s[i] = b[j]
      BY <1>3, <1>5, <3>1
    <3> QED
      BY <1>2, <3>1, <3>2 DEF IsReading
  <2> QED
    BY <2>1, <2>2
<1>8. IsReading(r, m, s)
  BY <1>6, <1>7 DEF IsReading
<1> QED
  BY <1>6, <1>8 DEF Leads, s

\* What leads through each part leads through all of them.
LEMMA FlattenLeads ==
    ASSUME NEW X, NEW N \in Nat, NEW seqs, seqs \in [1..N -> Seq(X)], NEW m,
           \A k \in 1..N : Leads(m[k - 1], seqs[k], m[k])
    PROVE  Leads(m[0], FlattenSeq(seqs), m[N])
<1>1. CASE N = 0
  <2>1. FlattenSeq(seqs) = <<>>
    BY <1>1, FlattenNone
  <2> QED
    BY <1>1, <2>1, LeadsNowhere
<1>2. CASE N # 0
  <2>1. PICK f : IsFlattened(X, N, seqs, f)
    BY <1>2, FlattenSteps
  <2>2. /\ FlattenSeq(seqs) = f[N]
        /\ \A i \in 1..N : f[i] \in Seq(X) /\ f[i] = IF i = 1 THEN seqs[i] ELSE f[i - 1] \o seqs[i]
    BY <2>1 DEF IsFlattened
  <2>3. \A i \in 1..N : seqs[i] \in Seq(X)
    OBVIOUS
  <2> DEFINE Bad == {i \in 1..N : ~ Leads(m[0], f[i], m[i])}
  <2>4. Bad = {}
    <3>1. SUFFICES ASSUME Bad # {} PROVE FALSE
      OBVIOUS
    <3> DEFINE i == Min(Bad)
    <3>2. i \in Bad /\ \A j \in Bad : i <= j
      <4>1. Bad \in SUBSET Nat
        OBVIOUS
      <4> HIDE DEF Bad
      <4> QED  BY <3>1, <4>1, Least
    <3> HIDE DEF i
    <3>3. i \in 1..N /\ ~ Leads(m[0], f[i], m[i])
      BY <3>2
    <3>4. i # 1
      <4>1. SUFFICES ASSUME i = 1 PROVE FALSE
        OBVIOUS
      <4>2. f[1] = seqs[1] /\ 1 - 1 = 0 /\ Leads(m[1 - 1], seqs[1], m[1])
        BY <2>2, <3>3, <4>1
      <4> QED
        BY <3>3, <4>1, <4>2
    <3>5. i - 1 \in 1..N /\ i - 1 \notin Bad
      <4>1. i - 1 \in 1..N /\ ~(i <= i - 1)
        BY <3>3, <3>4
      <4> HIDE DEF Bad
      <4> QED  BY <3>2, <4>1
    <3>6. Leads(m[0], f[i - 1], m[i - 1]) /\ Leads(m[i - 1], seqs[i], m[i])
      BY <3>3, <3>5
    <3>7. f[i - 1] \in Seq(X) /\ seqs[i] \in Seq(X) /\ f[i] = f[i - 1] \o seqs[i]
      BY <2>2, <2>3, <3>3, <3>4, <3>5
    <3>8. Leads(m[0], f[i - 1] \o seqs[i], m[i])
      BY ONLY <3>6, <3>7, LeadsOn
    <3> QED
      BY <3>3, <3>7, <3>8
  <2>5. N \in 1..N
    BY <1>2
  <2> QED
    BY <2>2, <2>4, <2>5
<1> QED
  BY <1>1, <1>2

\* There is one way to read, and it is the one of GetData.
LEMMA FetchedIs ==
    ASSUME NEW X, NEW s, s \in Seq(X), NEW n, Leads(Nothing, s, n)
    PROVE  Fetched(s) = n.neighbour_device_map
<1>1. PICK r : IsReading(r, Nothing, s) /\ r[Len(s)] = n
  BY DEF Leads
<1> DEFINE L == Len(s)
           Maps(g) == g = [i \in 0..L |-> IF i = 0 THEN Nothing ELSE processDataPacket(g[i - 1], s[i])]
           maps == CHOOSE g : Maps(g)
<1>2. L \in Nat
  OBVIOUS
<1>3. Fetched(s) = maps[L].neighbour_device_map
  BY DEF Fetched
<1> HIDE DEF L
<1>4. Maps(r)
  <2> DEFINE h == [i \in 0..L |-> IF i = 0 THEN Nothing ELSE processDataPacket(r[i - 1], s[i])]
  <2>1. /\ r = [i \in 0..L |-> r[i]] /\ r[0] = Nothing
        /\ \A i \in 1..L : r[i] = processDataPacket(r[i - 1], s[i])
    BY <1>1 DEF IsReading, L
  <2>2. \A i \in 0..L : r[i] = h[i]
    <3> SUFFICES ASSUME NEW i \in 0..L PROVE r[i] = h[i]
      OBVIOUS
    <3>1. i = 0 \/ i \in 1..L
      BY <1>2
    <3> QED
      BY <2>1, <3>1
  <2>3. h = [i \in 0..L |-> h[i]]
    OBVIOUS
  <2> HIDE DEF h
  <2>4. r = h
    BY <2>1, <2>2, <2>3
  <2> QED
    BY <2>4 DEF h
<1>5. Maps(maps)
  <2> HIDE DEF Maps
  <2> QED  BY <1>4
<1> HIDE DEF maps
<1>6. /\ maps[0] = Nothing /\ r[0] = Nothing
      /\ \A i \in 1..L : maps[i] = processDataPacket(maps[i - 1], s[i])
      /\ \A i \in 1..L : r[i] = processDataPacket(r[i - 1], s[i])
  <2>1. 0 \in 0..L /\ \A i \in 1..L : i \in 0..L /\ i # 0
    BY <1>2
  <2>2. maps[0] = Nothing /\ \A i \in 1..L : maps[i] = processDataPacket(maps[i - 1], s[i])
    BY <1>5, <2>1
  <2>3. r[0] = Nothing /\ \A i \in 1..L : r[i] = processDataPacket(r[i - 1], s[i])
    BY <1>1 DEF IsReading, L
  <2> QED
    BY <2>2, <2>3
<1> HIDE DEF Maps
<1> DEFINE Bad == {i \in 0..L : maps[i] # r[i]}
<1>7. Bad = {}
  <2>1. SUFFICES ASSUME Bad # {} PROVE FALSE
    OBVIOUS
  <2> DEFINE i == Min(Bad)
  <2>2. i \in Bad /\ \A j \in Bad : i <= j
    <3>1. Bad \in SUBSET Nat
      OBVIOUS
    <3> HIDE DEF Bad
    <3> QED  BY <2>1, <3>1, Least
  <2> HIDE DEF i
  <2>3. i \in 0..L /\ maps[i] # r[i]
    BY <2>2
  <2>4. i # 0
    BY <1>6, <2>3
  <2>5. i \in 1..L /\ i - 1 \in 0..L /\ ~(i <= i - 1)
    BY <1>2, <2>3, <2>4
  <2>6. i - 1 \notin Bad
    <3> HIDE DEF Bad
    <3> QED  BY <2>2, <2>5
  <2>7. maps[i - 1] = r[i - 1]
    BY <2>5, <2>6
  <2> QED
    BY <1>6, <2>3, <2>5, <2>7
<1>8. maps[L] = r[L]
  BY <1>2, <1>7
<1> QED
  BY <1>1, <1>3, <1>8 DEF L
----------------------------------------------------------------------------
(* The client's maps.                                                       *)

Maps(f, g) == [chassis_map |-> f, neighbour_device_map |-> g]

LEMMA PutAgain ==
    ASSUME NEW f, NEW i, NEW v, NEW w
    PROVE  Put(Put(f, i, v), i, w) = Put(f, i, w) /\ Put(f, i, v)[i] = v /\ i \in DOMAIN Put(f, i, v)
BY DEF Put

LEMMA ReadChassis ==
    ASSUME NEW f, NEW g, NEW i, NEW c
    PROVE  processDataPacket(Maps(f, g), [type |-> "CHASSIS_ENTRY", chassis_id |-> i, name |-> c])
              = Maps(Put(f, i, c), g)
<1> DEFINE packet == [type |-> "CHASSIS_ENTRY", chassis_id |-> i, name |-> c]
           m == Maps(f, g)
<1>1. packet.type = "CHASSIS_ENTRY" /\ packet.chassis_id = i /\ packet.name = c
  OBVIOUS
<1>2. m.chassis_map = f /\ [m EXCEPT !.chassis_map = Put(f, i, c)] = Maps(Put(f, i, c), g)
  BY DEF Maps
<1> HIDE DEF packet, m
<1>3. processDataPacket(m, packet) = [m EXCEPT !.chassis_map = Put(m.chassis_map, i, c)]
  BY <1>1 DEF processDataPacket
<1>4. processDataPacket(m, packet) = Maps(Put(f, i, c), g)
  BY <1>2, <1>3
<1> QED
  BY <1>4 DEF packet, m

LEMMA ReadNeighbour ==
    ASSUME NEW f, NEW g, NEW i, NEW n, NEW p
    PROVE  processDataPacket(Maps(f, g), [type |-> "NEIGHBOUR_ENTRY", chassis_id |-> i,
                                          neighbour_id |-> n, port |-> p])
              = Maps(f, Put(g, n, [chassis |-> At(f, i, NoValue), port |-> p,
                                   interface |-> NoValue, ip |-> NoValue]))
<1> DEFINE packet == [type |-> "NEIGHBOUR_ENTRY", chassis_id |-> i, neighbour_id |-> n, port |-> p]
           m == Maps(f, g)
           named == At(f, i, NoValue)
           device == [NoNeighbour EXCEPT !.chassis = named, !.port = p]
<1>1. /\ packet.type = "NEIGHBOUR_ENTRY" /\ packet.chassis_id = i
      /\ packet.neighbour_id = n /\ packet.port = p
  OBVIOUS
<1>2. /\ m.chassis_map = f /\ m.neighbour_device_map = g
      /\ \A h : [m EXCEPT !.neighbour_device_map = h] = Maps(f, h)
  BY DEF Maps
<1> HIDE DEF packet, m
<1>3. processDataPacket(m, packet) =
         [m EXCEPT !.neighbour_device_map = Put(m.neighbour_device_map, n, device)]
  BY <1>1, <1>2 DEF processDataPacket
<1>4. device = [chassis |-> named, port |-> p, interface |-> NoValue, ip |-> NoValue]
  <2> DEFINE half == [NoNeighbour EXCEPT !.chassis = named]
  <2>1. device = [half EXCEPT !.port = p]
    OBVIOUS
  <2> HIDE DEF named
  <2>2. half = [chassis |-> named, port |-> NoValue, interface |-> NoValue, ip |-> NoValue]
    BY DEF NoNeighbour
  <2> HIDE DEF half, device
  <2> QED  BY <2>1, <2>2
<1> HIDE DEF device
<1>5. processDataPacket(m, packet) = Maps(f, Put(g, n, device))
  BY <1>2, <1>3
<1> QED
  BY <1>4, <1>5 DEF packet, m

LEMMA ReadInterface ==
    ASSUME NEW f, NEW g, NEW n, n \in DOMAIN g, NEW name
    PROVE  processDataPacket(Maps(f, g), [type |-> "LOCAL_INTERFACE_ENTRY", neighbour_id |-> n,
                                          name |-> name])
              = Maps(f, Put(g, n, [g[n] EXCEPT !.interface = name]))
<1> DEFINE packet == [type |-> "LOCAL_INTERFACE_ENTRY", neighbour_id |-> n, name |-> name]
           m == Maps(f, g)
           device == [g[n] EXCEPT !.interface = name]
<1>1. packet.type = "LOCAL_INTERFACE_ENTRY" /\ packet.neighbour_id = n /\ packet.name = name
  OBVIOUS
<1>2. /\ m.neighbour_device_map = g
      /\ \A h : [m EXCEPT !.neighbour_device_map = h] = Maps(f, h)
  BY DEF Maps
<1> HIDE DEF packet, m
<1>3. processDataPacket(m, packet) =
         [m EXCEPT !.neighbour_device_map = Put(m.neighbour_device_map, n, device)]
  BY <1>1, <1>2 DEF processDataPacket, At
<1> HIDE DEF device
<1>4. processDataPacket(m, packet) = Maps(f, Put(g, n, device))
  BY <1>2, <1>3
<1> QED
  BY <1>4 DEF packet, m, device

LEMMA ReadAddress ==
    ASSUME NEW f, NEW g, NEW n, n \in DOMAIN g, NEW ip
    PROVE  processDataPacket(Maps(f, g), [type |-> "IP_ENTRY", neighbour_id |-> n, address |-> ip])
              = Maps(f, Put(g, n, [g[n] EXCEPT !.ip = ip]))
<1> DEFINE packet == [type |-> "IP_ENTRY", neighbour_id |-> n, address |-> ip]
           m == Maps(f, g)
           device == [g[n] EXCEPT !.ip = ip]
<1>1. packet.type = "IP_ENTRY" /\ packet.neighbour_id = n /\ packet.address = ip
  OBVIOUS
<1>2. /\ m.neighbour_device_map = g
      /\ \A h : [m EXCEPT !.neighbour_device_map = h] = Maps(f, h)
  BY DEF Maps
<1> HIDE DEF packet, m
<1>3. processDataPacket(m, packet) =
         [m EXCEPT !.neighbour_device_map = Put(m.neighbour_device_map, n, device)]
  BY <1>1, <1>2 DEF processDataPacket, At
<1> HIDE DEF device
<1>4. processDataPacket(m, packet) = Maps(f, Put(g, n, device))
  BY <1>2, <1>3
<1> QED
  BY <1>4 DEF packet, m, device

LEMMA ReadEnd ==
    ASSUME NEW m
    PROVE  processDataPacket(m, End) = m
<1>1. End.type = "END_OF_DATA"
  BY DEF End
<1> HIDE DEF End
<1> QED
  BY <1>1 DEF processDataPacket
\* A sequence of plain parts.
Parts(N, seqs) ==
    /\ N \in Nat /\ DOMAIN seqs = 1..N /\ seqs = [k \in 1..N |-> seqs[k]]
    /\ \A k \in 1..N : Plain(seqs[k])

LEMMA PlainParts ==
    ASSUME NEW N, NEW seqs, Parts(N, seqs)
    PROVE  \E X : End \notin X /\ seqs \in [1..N -> Seq(X)]
<1> DEFINE X == UNION {Range(seqs[k]) : k \in 1..N}
<1>1. End \notin X
  BY DEF Parts, Plain
<1>2. \A k \in 1..N : seqs[k] \in Seq(X)
  <2> SUFFICES ASSUME NEW k \in 1..N PROVE seqs[k] \in Seq(X)
    OBVIOUS
  <2>1. Range(seqs[k]) \subseteq X /\ seqs[k] \in Seq(Range(seqs[k]))
    BY DEF Parts, Plain
  <2> HIDE DEF X
  <2> QED  BY <2>1
<1> HIDE DEF X
<1>3. seqs \in [1..N -> Seq(X)]
  BY <1>2 DEF Parts
<1> QED
  BY <1>1, <1>3

LEMMA FlattenPlain ==
    ASSUME NEW N, NEW seqs, Parts(N, seqs)
    PROVE  Plain(FlattenSeq(seqs))
<1>1. PICK X : End \notin X /\ seqs \in [1..N -> Seq(X)]
  BY PlainParts
<1>2. N \in Nat
  BY DEF Parts
<1>3. FlattenSeq(seqs) \in Seq(X)
  BY <1>1, <1>2, FlattenType
<1> QED
  BY <1>1, <1>3, PlainIn

LEMMA PartsLead ==
    ASSUME NEW N, NEW seqs, Parts(N, seqs), NEW m,
           \A k \in 1..N : Leads(m[k - 1], seqs[k], m[k])
    PROVE  Leads(m[0], FlattenSeq(seqs), m[N])
<1>1. PICK X : End \notin X /\ seqs \in [1..N -> Seq(X)]
  BY PlainParts
<1>2. N \in Nat
  BY DEF Parts
<1> QED
  BY <1>1, <1>2, FlattenLeads

LEMMA PlainLeads ==
    ASSUME NEW a, Plain(a), NEW b, Plain(b), NEW m, NEW n, NEW o, Leads(m, a, n), Leads(n, b, o)
    PROVE  Leads(m, a \o b, o)
<1> DEFINE X == Range(a) \cup Range(b)
<1>1. a \in Seq(X) /\ b \in Seq(X)
  BY DEF Plain
<1> HIDE DEF X
<1> QED
  BY <1>1, LeadsOn

----------------------------------------------------------------------------
(* The response.                                                            *)

\* The packets about a neighbour, and those about a chassis with its neighbours.
PortPackets(t, k, p) ==
    LET c == Sorted(DOMAIN t)[k]
    IN  NeighbourPackets(Id(k - 1), Id(Number(t, c, p)), p, t[c][p])

PortParts(t, k) ==
    LET ports == Sorted(DOMAIN t[Sorted(DOMAIN t)[k]])
    IN  [l \in DOMAIN ports |-> PortPackets(t, k, ports[l])]

ChassisPart(t, k) == ChassisPackets(Id(k - 1), Sorted(DOMAIN t)[k]) \o FlattenSeq(PortParts(t, k))

ChassisParts(t) == [k \in DOMAIN Sorted(DOMAIN t) |-> ChassisPart(t, k)]

LEMMA DumpIs ==
    ASSUME NEW t
    PROVE  DumpData(t) = FlattenSeq(ChassisParts(t)) \o <<End>>
BY DEF DumpData, ChassisParts, ChassisPart, PortParts, PortPackets

LEMMA NeighbourPlain ==
    ASSUME NEW i, NEW n, NEW p, NEW e
    PROVE  Plain(NeighbourPackets(i, n, p, e))
<1> DEFINE port == IF p \in Overlong THEN Garbled ELSE p
           first == [type |-> "NEIGHBOUR_ENTRY", chassis_id |-> i, neighbour_id |-> n, port |-> port]
           second == [type |-> "LOCAL_INTERFACE_ENTRY", neighbour_id |-> n, name |-> e.interface]
           third == [type |-> "IP_ENTRY", neighbour_id |-> n, address |-> e.ip]
           X == {first, second, third}
           s == NeighbourPackets(i, n, p, e)
<1>1. /\ first.type = "NEIGHBOUR_ENTRY" /\ second.type = "LOCAL_INTERFACE_ENTRY"
      /\ third.type = "IP_ENTRY" /\ End.type = "END_OF_DATA"
  BY DEF End
<1>2. s = <<first>> \o (IF e.interface = NoValue THEN <<>> ELSE <<second>>)
                    \o (IF e.ip = NoValue THEN <<>> ELSE <<third>>)
  BY DEF NeighbourPackets
<1>3. first \in X /\ second \in X /\ third \in X /\ \A x \in X : x \in {first, second, third}
  OBVIOUS
<1> HIDE DEF first, second, third, s, X
<1>4. End \notin X
  BY <1>1, <1>3
<1>5. <<first>> \in Seq(X) /\ <<>> \in Seq(X) /\ <<second>> \in Seq(X) /\ <<third>> \in Seq(X)
  BY <1>3
<1>6. \A a \in Seq(X), b \in Seq(X), c \in Seq(X) : a \o b \o c \in Seq(X)
  OBVIOUS
<1>7. s \in Seq(X)
  BY <1>2, <1>5, <1>6
<1>8. Plain(s)
  BY <1>4, <1>7, PlainIn
<1> QED
  BY <1>8 DEF s

LEMMA ChassisPlain ==
    ASSUME NEW i, NEW name
    PROVE  Plain(ChassisPackets(i, name))
<1> DEFINE packet == [type |-> "CHASSIS_ENTRY", chassis_id |-> i, name |-> name]
<1>1. packet.type = "CHASSIS_ENTRY" /\ End.type = "END_OF_DATA"
  BY DEF End
<1>2. ChassisPackets(i, name) = IF name \in Oversized THEN <<>> ELSE <<packet>>
  BY DEF ChassisPackets
<1> HIDE DEF packet
<1>3. End \notin {packet} /\ <<>> \in Seq({packet}) /\ <<packet>> \in Seq({packet})
  BY <1>1
<1>4. ChassisPackets(i, name) \in Seq({packet})
  BY <1>2, <1>3
<1> QED
  BY <1>3, <1>4, PlainIn

\* The chassis, their ports, and the parts of the response about them.
LEMMA ResponseParts ==
    ASSUME NEW t, IsTable(t)
    PROVE  /\ Parts(Cardinality(DOMAIN t), ChassisParts(t))
           /\ \A k \in 1..Cardinality(DOMAIN t) :
                 /\ Sorted(DOMAIN t)[k] \in DOMAIN t
                 /\ Parts(Cardinality(DOMAIN t[Sorted(DOMAIN t)[k]]), PortParts(t, k))
<1> DEFINE N == Cardinality(DOMAIN t)
           C(k) == Sorted(DOMAIN t)[k]
<1>1. N \in Nat /\ DOMAIN Sorted(DOMAIN t) = 1..N /\ \A k \in 1..N : C(k) \in DOMAIN t
  BY SortedType DEF IsTable
<1>2. ASSUME NEW k \in 1..N PROVE Parts(Cardinality(DOMAIN t[C(k)]), PortParts(t, k))
  <2> DEFINE M == Cardinality(DOMAIN t[C(k)])
             ports == Sorted(DOMAIN t[C(k)])
             seqs == PortParts(t, k)
  <2>1. M \in Nat /\ DOMAIN ports = 1..M
    <3>1. C(k) \in DOMAIN t
      BY <1>1
    <3> HIDE DEF C
    <3> QED
      BY <3>1, SortedType DEF IsTable
  <2>2. seqs = [l \in DOMAIN ports |-> PortPackets(t, k, ports[l])]
    BY DEF PortParts
  <2> HIDE DEF ports, seqs, M
  <2>3. \A l \in 1..M : Plain(seqs[l])
    BY <2>1, <2>2, NeighbourPlain DEF PortPackets
  <2>4. Parts(M, seqs)
    BY <2>1, <2>2, <2>3 DEF Parts
  <2> QED
    BY <2>4 DEF seqs, M
<1>3. ASSUME NEW k \in 1..N PROVE Plain(ChassisParts(t)[k])
  <2>1. ChassisParts(t)[k] = ChassisPackets(Id(k - 1), C(k)) \o FlattenSeq(PortParts(t, k))
    BY <1>1 DEF ChassisParts, ChassisPart
  <2>2. Plain(FlattenSeq(PortParts(t, k)))
    BY <1>2, FlattenPlain
  <2> QED
    BY <2>1, <2>2, ChassisPlain, PlainConcat
<1>4. DOMAIN ChassisParts(t) = 1..N /\ ChassisParts(t) = [k \in 1..N |-> ChassisParts(t)[k]]
  BY <1>1 DEF ChassisParts
<1>5. Parts(N, ChassisParts(t))
  <2> HIDE DEF N
  <2> QED  BY <1>1, <1>3, <1>4 DEF Parts
<1> QED
  BY <1>1, <1>2, <1>5

\* A response has one last packet, and it comes last.
LEMMA DumpShape ==
    ASSUME NEW t, IsTable(t)
    PROVE  \E s : Plain(s) /\ DumpData(t) = s \o <<End>>
BY ResponseParts, FlattenPlain, DumpIs
----------------------------------------------------------------------------
(* What the client has learnt.                                              *)

\* Its maps when it has read of the chassis C and the neighbours D.
NamesOf(t, C) == [n \in {Place(t, c) : c \in C \ Oversized} |-> ChassisAt(t, n)]

DevicesOf(t, D) ==
    [n \in {Number(t, x[1], x[2]) : x \in D} |->
        Seen(t, NeighbourAt(t, n)[1], NeighbourAt(t, n)[2])]

Learnt(t, C, D) == Maps(NamesOf(t, C), DevicesOf(t, D))

LEMMA ChassisLearnt ==
    ASSUME NEW t, IsTable(t), Countable(t), NEW C, NEW c \in DOMAIN t, NEW D
    PROVE  Leads(Learnt(t, C, D), ChassisPackets(Place(t, c), c), Learnt(t, C \cup {c}, D))
<1> DEFINE g == DevicesOf(t, D)
           i == Place(t, c)
<1>1. CASE c \in Oversized
  <2>1. ChassisPackets(i, c) = <<>>
    BY <1>1 DEF ChassisPackets
  <2>2. NamesOf(t, C \cup {c}) = NamesOf(t, C)
    <3>1. (C \cup {c}) \ Oversized = C \ Oversized
      BY <1>1
    <3> QED
      BY <3>1 DEF NamesOf
  <2> QED
    BY <2>1, <2>2, LeadsNowhere DEF Learnt
<1>2. CASE c \notin Oversized
  <2>1. ChassisPackets(i, c) = <<[type |-> "CHASSIS_ENTRY", chassis_id |-> i, name |-> c]>>
    BY <1>2 DEF ChassisPackets
  <2>2. NamesOf(t, C \cup {c}) = Put(NamesOf(t, C), i, c)
    <3> DEFINE A == {Place(t, d) : d \in C \ Oversized}
               B == {Place(t, d) : d \in (C \cup {c}) \ Oversized}
    <3>1. B = A \cup {i}
      BY <1>2
    <3>2. ChassisAt(t, i) = c
      BY Numbers
    <3>3. NamesOf(t, C) = [n \in A |-> ChassisAt(t, n)]
          /\ NamesOf(t, C \cup {c}) = [n \in B |-> ChassisAt(t, n)]
      BY DEF NamesOf
    <3> HIDE DEF A, B, i
    <3> QED
      BY <3>1, <3>2, <3>3 DEF Put
  <2> HIDE DEF g, i
  <2>3. processDataPacket(Maps(NamesOf(t, C), g), [type |-> "CHASSIS_ENTRY", chassis_id |-> i, name |-> c])
           = Maps(NamesOf(t, C \cup {c}), g)
    BY <2>2, ReadChassis
  <2>4. Leads(Maps(NamesOf(t, C), g), ChassisPackets(i, c), Maps(NamesOf(t, C \cup {c}), g))
    BY <2>1, <2>3, LeadsOne
  <2> QED
    BY <2>4 DEF Learnt, g, i
<1> QED
  BY <1>1, <1>2

\* What the packets about a neighbour whose port fits put into a map.
LEMMA NeighbourRead ==
    ASSUME NEW f, NEW g, NEW i, NEW n, NEW p, p \notin Overlong, NEW e, NEW device,
           device = [chassis |-> At(f, i, NoValue), port |-> p,
                     interface |-> e.interface, ip |-> e.ip]
    PROVE  Leads(Maps(f, g), NeighbourPackets(i, n, p, e), Maps(f, Put(g, n, device)))
<1> DEFINE first == [type |-> "NEIGHBOUR_ENTRY", chassis_id |-> i, neighbour_id |-> n, port |-> p]
           second == [type |-> "LOCAL_INTERFACE_ENTRY", neighbour_id |-> n, name |-> e.interface]
           third == [type |-> "IP_ENTRY", neighbour_id |-> n, address |-> e.ip]
           named == At(f, i, NoValue)
           one == [chassis |-> named, port |-> p, interface |-> NoValue, ip |-> NoValue]
           two == [one EXCEPT !.interface = e.interface]
           three == [two EXCEPT !.ip = e.ip]
           a == IF e.interface = NoValue THEN <<>> ELSE <<second>>
           b == IF e.ip = NoValue THEN <<>> ELSE <<third>>
           G(d) == Maps(f, Put(g, n, d))
<1>1. /\ two = [chassis |-> named, port |-> p, interface |-> e.interface, ip |-> NoValue]
      /\ three = device
  <2> HIDE DEF named
  <2>1. two = [chassis |-> named, port |-> p, interface |-> e.interface, ip |-> NoValue]
    OBVIOUS
  <2>2. device = [chassis |-> named, port |-> p, interface |-> e.interface, ip |-> e.ip]
    BY DEF named
  <2>3. three = [two EXCEPT !.ip = e.ip]
    OBVIOUS
  <2> HIDE DEF two, three
  <2> QED
    BY <2>1, <2>2, <2>3
<1>2. (e.interface = NoValue => two = one) /\ (e.ip = NoValue => three = two)
  BY <1>1
<1>3. NeighbourPackets(i, n, p, e) = <<first>> \o a \o b
  BY DEF NeighbourPackets
<1>4. Leads(Maps(f, g), <<first>>, G(one))
  <2>1. processDataPacket(Maps(f, g), first) = G(one)
    BY ReadNeighbour
  <2> HIDE DEF first, G
  <2> QED  BY <2>1, LeadsOne
<1>5. Leads(G(one), a, G(two))
  <2>1. CASE e.interface = NoValue
    <3> HIDE DEF G, one, two
    <3> QED  BY <1>2, <2>1, LeadsNowhere
  <2>2. CASE e.interface # NoValue
    <3> DEFINE h == Put(g, n, one)
    <3>1. n \in DOMAIN h /\ h[n] = one /\ \A d : Put(h, n, d) = Put(g, n, d)
      <4> HIDE DEF one
      <4> QED  BY PutAgain
    <3> HIDE DEF h, one
    <3>2. processDataPacket(Maps(f, h), second) = Maps(f, Put(h, n, [h[n] EXCEPT !.interface = e.interface]))
      BY <3>1, ReadInterface
    <3>3. processDataPacket(G(one), second) = G(two)
      BY <3>1, <3>2 DEF h
    <3> HIDE DEF second, two, G
    <3>4. Leads(G(one), <<second>>, G(two))
      BY <3>3, LeadsOne
    <3> QED
      BY <2>2, <3>4
  <2> QED
    BY <2>1, <2>2
<1>6. Leads(G(two), b, G(three))
  <2>1. CASE e.ip = NoValue
    <3> HIDE DEF G, two, three
    <3> QED  BY <1>2, <2>1, LeadsNowhere
  <2>2. CASE e.ip # NoValue
    <3> DEFINE h == Put(g, n, two)
    <3>1. n \in DOMAIN h /\ h[n] = two /\ \A d : Put(h, n, d) = Put(g, n, d)
      <4> HIDE DEF two
      <4> QED  BY PutAgain
    <3> HIDE DEF h, two
    <3>2. processDataPacket(Maps(f, h), third) = Maps(f, Put(h, n, [h[n] EXCEPT !.ip = e.ip]))
      BY <3>1, ReadAddress
    <3>3. processDataPacket(G(two), third) = G(three)
      BY <3>1, <3>2 DEF h
    <3> HIDE DEF third, three, G
    <3>4. Leads(G(two), <<third>>, G(three))
      BY <3>3, LeadsOne
    <3> QED
      BY <2>2, <3>4
  <2> QED
    BY <2>1, <2>2
<1> DEFINE X == {first, second, third}
<1>7. <<first>> \in Seq(X) /\ a \in Seq(X) /\ b \in Seq(X)
  <2>1. first \in X /\ second \in X /\ third \in X
    OBVIOUS
  <2> HIDE DEF X, first, second, third
  <2> QED  BY <2>1
<1>8. G(three) = Maps(f, Put(g, n, device))
  BY <1>1
<1> HIDE DEF X, first, a, b, one, two, three, G
<1>9. <<first>> \o a \in Seq(X)
  BY <1>7
<1>10. Leads(Maps(f, g), <<first>> \o a, G(two))
  BY ONLY <1>4, <1>5, <1>7, LeadsOn
<1>11. Leads(Maps(f, g), <<first>> \o a \o b, G(three))
  BY ONLY <1>6, <1>7, <1>9, <1>10, LeadsOn
<1> QED
  BY <1>3, <1>8, <1>11

LEMMA NeighbourLearnt ==
    ASSUME NEW t, IsTable(t), Fits(t), Countable(t), NEW C \in SUBSET DOMAIN t, NEW D,
           NEW c \in C, NEW p \in DOMAIN t[c]
    PROVE  Leads(Learnt(t, C, D),
                 NeighbourPackets(Place(t, c), Number(t, c, p), p, t[c][p]),
                 Learnt(t, C, D \cup {<<c, p>>}))
<1> DEFINE f == NamesOf(t, C)
           n == Number(t, c, p)
           device == Seen(t, c, p)
<1>1. At(f, Place(t, c), NoValue) = IF c \in Oversized THEN NoValue ELSE c
  <2>1. \A d \in DOMAIN t : ChassisAt(t, Place(t, d)) = d
    BY Numbers
  <2>2. CASE c \in Oversized
    <3>1. Place(t, c) \notin DOMAIN f
      BY <2>1, <2>2 DEF NamesOf
    <3> QED
      BY <2>2, <3>1 DEF At
  <2>3. CASE c \notin Oversized
    <3>1. Place(t, c) \in DOMAIN f /\ f[Place(t, c)] = c
      BY <2>1, <2>3 DEF NamesOf
    <3> QED
      BY <2>3, <3>1 DEF At
  <2> QED
    BY <2>2, <2>3
<1>2. device = [chassis |-> At(f, Place(t, c), NoValue), port |-> p,
                interface |-> t[c][p].interface, ip |-> t[c][p].ip]
  BY <1>1 DEF Seen
<1>0. p \notin Overlong
  BY DEF Fits
<1>3. DevicesOf(t, D \cup {<<c, p>>}) = Put(DevicesOf(t, D), n, device)
  <2> DEFINE x == <<c, p>>
             A == {Number(t, y[1], y[2]) : y \in D}
             B == {Number(t, y[1], y[2]) : y \in D \cup {x}}
             S(m) == Seen(t, NeighbourAt(t, m)[1], NeighbourAt(t, m)[2])
  <2>1. x \in Neighbours(t) /\ x[1] = c /\ x[2] = p
    BY NeighbourPairs
  <2>2. NeighbourAt(t, n) = x
    BY <2>1, Numbers
  <2>3. S(n) = device
    BY <2>1, <2>2
  <2>4. B = A \cup {n}
    BY <2>1
  <2>5. /\ DevicesOf(t, D) = [m \in A |-> S(m)]
        /\ DevicesOf(t, D \cup {x}) = [m \in B |-> S(m)]
    BY DEF DevicesOf
  <2> HIDE DEF A, B, S, n, device, x
  <2>6. DevicesOf(t, D \cup {x}) = Put(DevicesOf(t, D), n, device)
    BY <2>3, <2>4, <2>5 DEF Put
  <2> QED
    BY <2>6 DEF x
<1> HIDE DEF f, n, device
<1>4. Leads(Maps(f, DevicesOf(t, D)), NeighbourPackets(Place(t, c), n, p, t[c][p]),
            Maps(f, Put(DevicesOf(t, D), n, device)))
  BY <1>0, <1>2, NeighbourRead
<1> QED
  BY <1>3, <1>4 DEF Learnt, f, n

\* The neighbours of a chassis are learnt one after the other.
LEMMA PortsLearnt ==
    ASSUME NEW t, IsTable(t), Fits(t), Countable(t), NEW k \in 1..Cardinality(DOMAIN t),
           NEW C \in SUBSET DOMAIN t, NEW D, NEW c \in C, c = Sorted(DOMAIN t)[k]
    PROVE  Leads(Learnt(t, C, D), FlattenSeq(PortParts(t, k)),
                 Learnt(t, C, D \cup ({c} \X DOMAIN t[c])))
<1> DEFINE M == Cardinality(DOMAIN t[c])
           ports == Sorted(DOMAIN t[c])
           seqs == PortParts(t, k)
           E(l) == D \cup {<<c, ports[j]>> : j \in 1..l}
           m == [l \in 0..M |-> Learnt(t, C, E(l))]
<1>1. /\ M \in Nat /\ DOMAIN ports = 1..M
      /\ \A l \in 1..M : ports[l] \in DOMAIN t[c]
      /\ \A p \in DOMAIN t[c] : \E l \in 1..M : ports[l] = p
  BY SortedType DEF IsTable
<1>2. Parts(M, seqs)
  BY ResponseParts
<1>3. Id(k - 1) = Place(t, c)
  <2>1. Place(t, c) = k - 1
    BY SortedType DEF Place, IsTable
  <2> QED
    BY <2>1, Numbers
<1>4. ASSUME NEW l \in 1..M
      PROVE  seqs[l] = NeighbourPackets(Place(t, c), Number(t, c, ports[l]), ports[l], t[c][ports[l]])
  <2>1. seqs[l] = NeighbourPackets(Id(k - 1), Id(Number(t, c, ports[l])), ports[l], t[c][ports[l]])
    BY <1>1 DEF PortParts, PortPackets
  <2>2. Id(Number(t, c, ports[l])) = Number(t, c, ports[l])
    <3> DEFINE x == <<c, ports[l]>>
    <3>1. x \in Neighbours(t) /\ x[1] = c /\ x[2] = ports[l]
      BY <1>1, NeighbourPairs
    <3> HIDE DEF x, ports
    <3> QED
      BY <3>1, Numbers
  <2> QED
    BY <1>3, <2>1, <2>2
<1> HIDE DEF ports, seqs, M
<1>5. ASSUME NEW l \in 1..M PROVE Leads(m[l - 1], seqs[l], m[l])
  <2>1. l - 1 \in 0..M /\ l \in 0..M /\ 1..l = (1..(l - 1)) \cup {l}
    BY <1>1
  <2>2. E(l) = E(l - 1) \cup {<<c, ports[l]>>}
    BY <2>1
  <2>3. m[l] = Learnt(t, C, E(l - 1) \cup {<<c, ports[l]>>}) /\ m[l - 1] = Learnt(t, C, E(l - 1))
    BY <2>1, <2>2
  <2> HIDE DEF m, E
  <2> QED
    BY <1>1, <1>4, <2>3, NeighbourLearnt
<1>6. m[0] = Learnt(t, C, D) /\ m[M] = Learnt(t, C, D \cup ({c} \X DOMAIN t[c]))
  <2>1. E(0) = D
    OBVIOUS
  <2>2. {<<c, ports[j]>> : j \in 1..M} = {c} \X DOMAIN t[c]
    BY <1>1
  <2>3. 0 \in 0..M /\ M \in 0..M
    BY <1>1
  <2>4. m[0] = Learnt(t, C, E(0)) /\ m[M] = Learnt(t, C, E(M))
    BY <2>3
  <2>5. E(M) = D \cup ({c} \X DOMAIN t[c])
    BY <2>2
  <2> HIDE DEF m, E
  <2> QED
    BY <2>1, <2>4, <2>5
<1> HIDE DEF m
<1>7. Leads(m[0], FlattenSeq(seqs), m[M])
  BY <1>2, <1>5, PartsLead
<1> QED
  BY <1>6, <1>7 DEF seqs

\* So is the whole table, chassis by chassis.
LEMMA TableLearnt ==
    ASSUME NEW t, IsTable(t), Fits(t), Countable(t)
    PROVE  Leads(Nothing, FlattenSeq(ChassisParts(t)), Learnt(t, DOMAIN t, Neighbours(t)))
<1> DEFINE N == Cardinality(DOMAIN t)
           S(k) == Sorted(DOMAIN t)[k]
           seqs == ChassisParts(t)
           C(k) == {S(j) : j \in 1..k}
           D(k) == UNION {{S(j)} \X DOMAIN t[S(j)] : j \in 1..k}
           m == [k \in 0..N |-> Learnt(t, C(k), D(k))]
<1>1. /\ N \in Nat /\ DOMAIN Sorted(DOMAIN t) = 1..N
      /\ \A k \in 1..N : S(k) \in DOMAIN t /\ Place(t, S(k)) = k - 1
      /\ \A c \in DOMAIN t : \E k \in 1..N : S(k) = c
  BY SortedType DEF IsTable, Place
<1>2. Parts(N, seqs)
  BY ResponseParts
<1>3. ASSUME NEW k \in 1..N
      PROVE  /\ seqs[k] = ChassisPackets(Place(t, S(k)), S(k)) \o FlattenSeq(PortParts(t, k))
             /\ Plain(FlattenSeq(PortParts(t, k)))
             /\ Plain(ChassisPackets(Place(t, S(k)), S(k)))
  <2>1. seqs[k] = ChassisPackets(Id(k - 1), S(k)) \o FlattenSeq(PortParts(t, k))
    BY <1>1 DEF ChassisParts, ChassisPart
  <2>2. Id(k - 1) = Place(t, S(k))
    BY <1>1, Numbers
  <2> QED
    BY <2>1, <2>2, ResponseParts, FlattenPlain, ChassisPlain
<1>4. \A k \in 0..N : C(k) \in SUBSET DOMAIN t
  BY <1>1
<1> HIDE DEF S, seqs, N
<1>5. ASSUME NEW k \in 1..N PROVE Leads(m[k - 1], seqs[k], m[k])
  <2>1. k - 1 \in 0..N /\ k \in 0..N /\ 1..k = (1..(k - 1)) \cup {k}
    BY <1>1
  <2>2. C(k) = C(k - 1) \cup {S(k)} /\ D(k) = D(k - 1) \cup ({S(k)} \X DOMAIN t[S(k)])
    BY <2>1
  <2>3. m[k - 1] = Learnt(t, C(k - 1), D(k - 1)) /\ m[k] = Learnt(t, C(k), D(k))
    BY <2>1
  <2>4. S(k) \in DOMAIN t /\ S(k) \in C(k) /\ C(k) \in SUBSET DOMAIN t
    BY <1>1, <1>4, <2>1, <2>2
  <2> HIDE DEF m, C, D
  <2>5. Leads(m[k - 1], ChassisPackets(Place(t, S(k)), S(k)), Learnt(t, C(k), D(k - 1)))
    BY <2>2, <2>3, <2>4, ChassisLearnt
  <2>6. Leads(Learnt(t, C(k), D(k - 1)), FlattenSeq(PortParts(t, k)), m[k])
    <3>1. S(k) = Sorted(DOMAIN t)[k] /\ k \in 1..Cardinality(DOMAIN t)
      BY DEF S, N
    <3> DEFINE A == C(k)
               B == D(k - 1)
               c == S(k)
    <3>2. /\ IsTable(t) /\ Fits(t) /\ Countable(t) /\ k \in 1..Cardinality(DOMAIN t)
          /\ A \in SUBSET DOMAIN t /\ c \in A /\ c = Sorted(DOMAIN t)[k]
      BY <2>4, <3>1
    <3>3. m[k] = Learnt(t, A, B \cup ({c} \X DOMAIN t[c]))
      BY <2>2, <2>3
    <3> HIDE DEF A, B, c
    <3>4. Leads(Learnt(t, A, B), FlattenSeq(PortParts(t, k)), Learnt(t, A, B \cup ({c} \X DOMAIN t[c])))
      BY ONLY <3>2, PortsLearnt
    <3> QED
      BY <3>3, <3>4 DEF A, B
  <2> QED
    BY <1>3, <2>5, <2>6, PlainLeads
<1>6. m[0] = Nothing
  <2>1. C(0) = {} /\ D(0) = {} /\ 0 \in 0..N
    BY <1>1
  <2>2. m[0] = Learnt(t, {}, {})
    BY <2>1
  <2>3. NamesOf(t, {}) = <<>> /\ DevicesOf(t, {}) = <<>>
    BY DEF NamesOf, DevicesOf
  <2> HIDE DEF m
  <2> QED
    BY <2>2, <2>3 DEF Learnt, Maps, Nothing
<1>7. m[N] = Learnt(t, DOMAIN t, Neighbours(t))
  <2>1. C(N) = DOMAIN t
    BY <1>1
  <2>2. D(N) = Neighbours(t)
    BY <1>1 DEF Neighbours
  <2>3. m[N] = Learnt(t, C(N), D(N))
    BY <1>1
  <2> HIDE DEF m, C, D
  <2> QED
    BY <2>1, <2>2, <2>3
<1> HIDE DEF m
<1>8. Leads(m[0], FlattenSeq(seqs), m[N])
  BY <1>2, <1>5, PartsLead
<1> QED
  BY <1>6, <1>7, <1>8 DEF seqs

\* DumpData and processDataPacket: for any table with no more chassis and
\* neighbours than 16 bits can number, and no port of more than 506 octets, the
\* packets show the table: the client has each neighbour once, with its own port,
\* interface and address, and its own chassis, unless that is too long for a packet.
THEOREM PacketsShowTable ==
    ASSUME NEW t, IsTable(t), Fits(t), Countable(t)
    PROVE  Shows(DumpData(t), t)
<1> DEFINE s == FlattenSeq(ChassisParts(t))
           N == Neighbours(t)
           Num(x) == Number(t, x[1], x[2])
           n == Learnt(t, DOMAIN t, N)
           devices == n.neighbour_device_map
<1>1. Plain(s)
  BY ResponseParts, FlattenPlain
<1>2. Leads(Nothing, s, n)
  BY TableLearnt
<1>3. devices = [i \in {Num(x) : x \in N} |-> Seen(t, NeighbourAt(t, i)[1], NeighbourAt(t, i)[2])]
  BY DEF Learnt, Maps, DevicesOf
<1>4. \A x \in N : NeighbourAt(t, Num(x)) = x
  BY Numbers
<1> HIDE DEF s, n, N, Num
<1>5. Fetched(DumpData(t)) = devices
  <2>1. DumpData(t) = s \o <<End>>
    BY DumpIs DEF s
  <2>2. Leads(n, <<End>>, n)
    BY ReadEnd, LeadsOne
  <2> DEFINE X == Range(s) \cup {End}
  <2>3. s \in Seq(X) /\ <<End>> \in Seq(X)
    BY <1>1 DEF Plain
  <2> HIDE DEF X
  <2> DEFINE last == <<End>>
  <2>4. last \in Seq(X) /\ Leads(n, last, n)
    BY <2>2, <2>3
  <2> HIDE DEF last
  <2>5. Leads(Nothing, s \o last, n)
    BY <1>2, <2>3, <2>4, LeadsOn
  <2>6. s \o last \in Seq(X)
    BY <2>3, <2>4
  <2> QED
    BY <2>1, <2>5, <2>6, FetchedIs DEF last
<1> HIDE DEF devices
<1>6. {devices[i] : i \in DOMAIN devices} = {Seen(t, x[1], x[2]) : x \in N}
  BY <1>3, <1>4
<1>7. Cardinality(DOMAIN devices) = Cardinality(N)
  <2> DEFINE f == [x \in N |-> Num(x)]
  <2>1. f \in Bijection(N, DOMAIN devices)
    BY <1>3, <1>4 DEF Bijection, Injection, IsInjective, Surjection
  <2>2. ExistsBijection(N, DOMAIN devices)
    BY <2>1 DEF ExistsBijection
  <2> QED
    BY <2>2, NeighbourPairs, FS_Bijection DEF N
<1> QED
  BY <1>5, <1>6, <1>7 DEF Shows, N
=============================================================================
