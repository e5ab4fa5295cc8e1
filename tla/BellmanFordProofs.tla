--------------------------- MODULE BellmanFordProofs ---------------------------
(***************************************************************************)
(* Theorems about BellmanFord, for any number of vertices, any weights and *)
(* any number of edges.                                                    *)
(***************************************************************************)
EXTENDS BellmanFord, NatSets, SequenceTheorems, FiniteSetTheorems, TLAPS

AnyEdge == [src : Vertex, dest : Vertex, weight : Int]

(* A set of edges whose weights have a bound, as those of a list have.     *)
Graph(es) == es \in SUBSET AnyEdge /\ \E b \in Int : \A e \in es : b <= e.weight

LEMMA LeastAbove ==
  ASSUME NEW S \in SUBSET Int, S # {}, NEW b \in Int, \A x \in S : b <= x
  PROVE  Min(S) \in S /\ \A x \in S : Min(S) <= x
  <1> DEFINE T == {x - b : x \in S}
  <1>1. T \in SUBSET Nat /\ T # {}
    <2>1. \A x \in S : x - b \in Nat
      OBVIOUS
    <2> QED
      BY <2>1
  <1>2. PICK t \in T : \A u \in T : t <= u
    BY <1>1, HasLeast
  <1>3. PICK x \in S : t = x - b
    BY <1>2
  <1>4. ASSUME NEW y \in S PROVE x <= y
    <2>1. t <= y - b
      BY <1>2
    <2> QED
      BY <1>3, <2>1
  <1> QED
    BY <1>4 DEF Min

LEMMA GraphOf ==
  ASSUME NEW es \in Seq(AnyEdge)
  PROVE  Graph(ToSet(es))
  <1> DEFINE n == Len(es)
             Low == {i \in 0 .. n : \E b \in Int : \A j \in 1 .. i : b <= es[j].weight}
  <1>1. n \in Nat /\ DOMAIN es = 1 .. n /\ \A j \in 1 .. n : es[j] \in AnyEdge
    BY LenProperties, ElementOfSeq
  <1> HIDE DEF n
  <1>2. 0 \in Low
    BY <1>1
  <1>3. ASSUME NEW i \in 0 .. n - 1, i \in Low PROVE i + 1 \in Low
    <2>1. PICK b \in Int : \A j \in 1 .. i : b <= es[j].weight
      BY <1>3
    <2>2. i + 1 \in 1 .. n /\ i + 1 \in 0 .. n
      BY <1>1
    <2>3. es[i + 1].weight \in Int
      BY <1>1, <2>2 DEF AnyEdge
    <2> DEFINE c == IF b <= es[i + 1].weight THEN b ELSE es[i + 1].weight
    <2>4. c \in Int /\ c <= b /\ c <= es[i + 1].weight
      BY <2>3
    <2> HIDE DEF c
    <2>5. ASSUME NEW j \in 1 .. i + 1 PROVE c <= es[j].weight
      <3>1. CASE j = i + 1
        BY <2>4, <3>1
      <3>2. CASE j # i + 1
        <4>1. j \in 1 .. i /\ j \in 1 .. n
          BY <1>1, <3>2
        <4>2. b <= es[j].weight /\ es[j].weight \in Int
          BY <1>1, <2>1, <4>1 DEF AnyEdge
        <4> QED
          BY <2>4, <4>2
      <3> QED
        BY <3>1, <3>2
    <2> QED
      BY <2>2, <2>4, <2>5
  <1>4. n \in Low
    <2> HIDE DEF Low
    <2>1. \A i \in 0 .. n : i \in Low
      BY <1>1, <1>2, <1>3, Induction
    <2> QED
      BY <1>1, <2>1
  <1>5. PICK b \in Int : \A j \in 1 .. n : b <= es[j].weight
    BY <1>4
  <1> QED
    BY <1>1, <1>5 DEF Graph, ToSet

LEMMA CheapestIs ==
  ASSUME NEW es, Graph(es), NEW u, NEW v, Joined(es, u, v) # {}
  PROVE  /\ Cheapest(es, u, v) \in Int
         /\ \E e \in Joined(es, u, v) : e.weight = Cheapest(es, u, v)
         /\ \A e \in Joined(es, u, v) : Cheapest(es, u, v) <= e.weight
  <1> DEFINE W == {e.weight : e \in Joined(es, u, v)}
  <1>1. PICK b \in Int : \A e \in es : b <= e.weight
    BY DEF Graph
  <1>2. W \in SUBSET Int /\ W # {} /\ \A x \in W : b <= x
    BY <1>1 DEF Graph, Joined, AnyEdge
  <1>3. Min(W) \in W /\ \A x \in W : Min(W) <= x
    <2> HIDE DEF W
    <2> QED
      BY <1>2, LeastAbove
  <1>4. Cheapest(es, u, v) = Min(W)
    BY DEF Cheapest
  <1> QED
    BY <1>2, <1>3, <1>4

(* More names than there are numbers do not differ.                        *)
LEMMA Pigeons ==
  ASSUME NEW m \in Nat, NEW n \in Nat, NEW p \in [1 .. n -> 0 .. m - 1],
         \A i, j \in 1 .. n : p[i] = p[j] => i = j
  PROVE  n <= m
  <1>1. IsFiniteSet(0 .. m - 1) /\ Cardinality(0 .. m - 1) = m
    <2>1. /\ IsFiniteSet(0 .. m - 1)
          /\ Cardinality(0 .. m - 1) = IF 0 > m - 1 THEN 0 ELSE (m - 1) - 0 + 1
      BY FS_Interval
    <2> QED
      BY <2>1
  <1>2. Cardinality(1 .. n) = n
    <2>1. Cardinality(1 .. n) = IF 1 > n THEN 0 ELSE n - 1 + 1
      BY FS_Interval
    <2> QED
      BY <2>1
  <1>3. p \in Injection(1 .. n, 0 .. m - 1)
    BY DEF Injection, IsInjective
  <1>4. Cardinality(1 .. n) <= Cardinality(0 .. m - 1)
    BY <1>1, <1>3, FS_Injection
  <1> QED
    BY <1>1, <1>2, <1>4

(* A simple path, of whatever length.                                      *)
Route(es, p) == p \in Seq(Vertex) /\ p # <<>> /\ IsSimplePath(es, p)

LEMMA RouteIs ==
  ASSUME NEW es, NEW p
  PROVE  /\ Route(es, p) <=> p \in SimplePaths(es)
         /\ Route(es, p) =>
              /\ Len(p) \in 1 .. N /\ p \in [1 .. Len(p) -> Vertex] /\ DOMAIN p = 1 .. Len(p)
              /\ Head(p) = p[1] /\ Last(p) = p[Len(p)] /\ p[1] \in Vertex /\ p[Len(p)] \in Vertex
              /\ \A i, j \in 1 .. Len(p) : p[i] = p[j] => i = j
              /\ \A i \in 1 .. Len(p) - 1 :
                   Joined(es, p[i], p[i + 1]) # {} /\ p[i] \in Vertex /\ p[i + 1] \in Vertex
  <1>1. ASSUME Route(es, p)
        PROVE  /\ Len(p) \in 1 .. N /\ p \in [1 .. Len(p) -> Vertex] /\ DOMAIN p = 1 .. Len(p)
               /\ Head(p) = p[1] /\ Last(p) = p[Len(p)] /\ p[1] \in Vertex /\ p[Len(p)] \in Vertex
               /\ \A i, j \in 1 .. Len(p) : p[i] = p[j] => i = j
               /\ \A i \in 1 .. Len(p) - 1 :
                    Joined(es, p[i], p[i + 1]) # {} /\ p[i] \in Vertex /\ p[i + 1] \in Vertex
    <2> DEFINE n == Len(p)
    <2>1. n \in Nat \ {0} /\ p \in [1 .. n -> Vertex] /\ DOMAIN p = 1 .. n
      BY <1>1, LenProperties, EmptySeq DEF Route
    <2>2. \A i, j \in 1 .. n : p[i] = p[j] => i = j
      BY <1>1, <2>1 DEF Route, IsSimplePath
    <2>3. \A i \in 1 .. n - 1 : Joined(es, p[i], p[i + 1]) # {}
      BY <1>1 DEF Route, IsSimplePath
    <2>4. Head(p) = p[1] /\ Last(p) = p[n]
      BY <1>1, <2>1 DEF Last, Route
    <2> HIDE DEF n
    <2>5. n <= N
      BY <2>1, <2>2, Pigeons, SizeAssumption DEF Vertex
    <2>6. p[1] \in Vertex /\ p[n] \in Vertex /\ \A i \in 1 .. n - 1 : p[i] \in Vertex /\ p[i + 1] \in Vertex
      BY <2>1
    <2>7. n \in 1 .. N
      BY <2>1, <2>5, SizeAssumption
    <2> QED
      BY <2>1, <2>2, <2>3, <2>4, <2>6, <2>7 DEF n
  <1>2. ASSUME p \in SimplePaths(es) PROVE Route(es, p)
    <2>1. PICK n \in 1 .. N : p \in [1 .. n -> Vertex]
      BY <1>2 DEF SimplePaths
    <2>2. n \in Nat \ {0}
      BY SizeAssumption
    <2>3. p \in Seq(Vertex)
      BY <2>1, <2>2, SeqDef
    <2>4. p # <<>>
      <3>1. Len(p) \in Nat /\ 1 .. Len(p) = 1 .. n
        BY <2>1, <2>3, LenProperties
      <3>2. 1 \in 1 .. n
        BY <2>2
      <3> QED
        BY <3>1, <3>2
    <2> QED
      BY <1>2, <2>3, <2>4 DEF Route, SimplePaths
  <1>3. ASSUME Route(es, p) PROVE p \in SimplePaths(es)
    BY <1>1, <1>3 DEF Route, SimplePaths
  <1> QED
    BY <1>1, <1>2, <1>3

(* The sums of the cheapest edges along a path, up to each vertex.         *)
Adds(es, p, f) ==
  /\ f \in [0 .. Len(p) - 1 -> Int] /\ f[0] = 0
  /\ \A i \in 1 .. Len(p) - 1 : f[i] = f[i - 1] + Cheapest(es, p[i], p[i + 1])

LEMMA CostIs ==
  ASSUME NEW es, Graph(es), NEW p, Route(es, p)
  PROVE  \E f : Adds(es, p, f) /\ Cost(es, p) = f[Len(p) - 1]
  <1> DEFINE n == Len(p) - 1
             S == Int
             step == [i \in 1 .. n |-> [x \in S |-> x + Cheapest(es, p[i], p[i + 1])]]
             To(g, i) == IF i = 0 THEN 0 ELSE g[i - 1] + Cheapest(es, p[i], p[i + 1])
             f == CHOOSE g : g = [i \in 0 .. n |-> To(g, i)]
  <1>1. n \in Nat
    BY RouteIs
  <1>2. \A i \in 1 .. n : Cheapest(es, p[i], p[i + 1]) \in Int
    BY RouteIs, CheapestIs
  <1> HIDE DEF n
  <1>3. step \in Steps(n, S)
    BY <1>2 DEF Steps
  <1>4. 0 \in S
    OBVIOUS
  <1>5. \A i \in 1 .. n, x \in S : step[i][x] = x + Cheapest(es, p[i], p[i + 1])
    OBVIOUS
  <1> HIDE DEF step, S
  <1>6. PICK h \in [0 .. n -> S] : h[0] = 0 /\ \A i \in 1 .. n : h[i] = step[i][h[i - 1]]
    BY <1>1, <1>3, <1>4, Recursion DEF Runs
  <1>7. \A i \in 1 .. n : h[i] = h[i - 1] + Cheapest(es, p[i], p[i + 1])
    <2> TAKE i \in 1 .. n
    <2>1. i - 1 \in 0 .. n
      BY <1>1
    <2>2. h[i - 1] \in S
      BY <1>6, <2>1
    <2> QED
      BY <1>5, <1>6, <2>2
  <1>8. h = [i \in 0 .. n |-> To(h, i)]
    <2>1. ASSUME NEW i \in 0 .. n PROVE h[i] = To(h, i)
      <3>1. CASE i = 0
        BY <1>6, <3>1
      <3>2. CASE i # 0
        <4>1. i \in 1 .. n
          BY <1>1, <3>2
        <4> QED
          BY <1>7, <3>2, <4>1
      <3> QED
        BY <3>1, <3>2
    <2> HIDE DEF To
    <2> QED
      BY <1>6, <2>1
  <1>9. f = [i \in 0 .. n |-> To(f, i)]
    <2> HIDE DEF To
    <2> QED
      BY <1>8
  <1>10. Cost(es, p) = f[n]
    BY DEF Cost, n
  <1> HIDE DEF f
  <1>11. Adds(es, p, f)
    <2> DEFINE Good == {i \in 0 .. n : f[i] \in Int}
    <2>1. \A i \in 0 .. n : f[i] = To(f, i)
      <3> HIDE DEF To
      <3> QED
        BY <1>9
    <2>2. 0 \in Good /\ f[0] = 0
      BY <1>1, <2>1
    <2>3. ASSUME NEW i \in 1 .. n PROVE f[i] = f[i - 1] + Cheapest(es, p[i], p[i + 1])
      <3>1. i \in 0 .. n /\ i # 0
        BY <1>1
      <3> QED
        BY <2>1, <3>1
    <2>4. ASSUME NEW i \in 0 .. n - 1, i \in Good PROVE i + 1 \in Good
      <3>1. i + 1 \in 1 .. n /\ i + 1 \in 0 .. n /\ (i + 1) - 1 = i
        BY <1>1
      <3>2. f[i + 1] = f[i] + Cheapest(es, p[i + 1], p[(i + 1) + 1])
        BY <2>3, <3>1
      <3> QED
        BY <1>2, <2>4, <3>1, <3>2
    <2> HIDE DEF Good
    <2>5. \A i \in 0 .. n : i \in Good
      BY <1>1, <2>2, <2>4, Induction
    <2>6. \A i \in 0 .. n : f[i] \in Int
      BY <2>5 DEF Good
    <2>7. f \in [0 .. n -> Int]
      <3> HIDE DEF To
      <3> QED
        BY <1>9, <2>6
    <2> QED
      BY <2>2, <2>3, <2>7 DEF Adds, n
  <1> QED
    BY <1>10, <1>11 DEF n

(* There is one way to add them up.                                        *)
LEMMA AddsOnce ==
  ASSUME NEW es, NEW p, Len(p) \in Nat, NEW f, Adds(es, p, f), NEW g, Adds(es, p, g),
         NEW i \in 0 .. Len(p) - 1
  PROVE  f[i] = g[i]
  <1> DEFINE n == Len(p) - 1
             Same == {k \in 0 .. n : f[k] = g[k]}
  <1>1. n \in Nat
    OBVIOUS
  <1>2. 0 \in Same
    BY <1>1 DEF Adds
  <1>3. ASSUME NEW k \in 0 .. n - 1, k \in Same PROVE k + 1 \in Same
    <2>1. k + 1 \in 1 .. n /\ k + 1 \in 0 .. n /\ (k + 1) - 1 = k
      BY <1>1
    <2>2. f[k + 1] = f[k] + Cheapest(es, p[k + 1], p[(k + 1) + 1])
      BY <2>1 DEF Adds
    <2>3. g[k + 1] = g[k] + Cheapest(es, p[k + 1], p[(k + 1) + 1])
      BY <2>1 DEF Adds
    <2> QED
      BY <1>3, <2>1, <2>2, <2>3
  <1> HIDE DEF Same
  <1>4. \A k \in 0 .. n : k \in Same
    <2> HIDE DEF n
    <2> QED
      BY <1>1, <1>2, <1>3, Induction
  <1> QED
    BY <1>4 DEF Same

LEMMA CostBy ==
  ASSUME NEW es, Graph(es), NEW p, Route(es, p), NEW f, Adds(es, p, f)
  PROVE  Cost(es, p) = f[Len(p) - 1] /\ Cost(es, p) \in Int
  <1>1. PICK g : Adds(es, p, g) /\ Cost(es, p) = g[Len(p) - 1]
    BY CostIs
  <1>2. Len(p) \in Nat /\ Len(p) - 1 \in 0 .. Len(p) - 1
    BY RouteIs
  <1>3. f[Len(p) - 1] = g[Len(p) - 1]
    BY <1>1, <1>2, AddsOnce
  <1>4. g[Len(p) - 1] \in Int
    BY <1>1, <1>2 DEF Adds
  <1> QED
    BY <1>1, <1>3, <1>4

(* A part of a path, and what it costs.                                    *)
LEMMA PartIs ==
  ASSUME NEW es, Graph(es), NEW p, Route(es, p), NEW f, Adds(es, p, f),
         NEW j \in 1 .. Len(p), NEW k \in j .. Len(p)
  PROVE  LET q == SubSeq(p, j, k) IN
         /\ Route(es, q) /\ Len(q) = k - j + 1 /\ \A i \in 1 .. k - j + 1 : q[i] = p[j + i - 1]
         /\ Cost(es, q) = f[k - 1] - f[j - 1] /\ Head(q) = p[j] /\ Last(q) = p[k]
  <1> DEFINE q == SubSeq(p, j, k)
             n == Len(p)
             g == [i \in 0 .. k - j |-> f[i + j - 1] - f[j - 1]]
  <1>1. /\ p \in Seq(Vertex) /\ n \in Nat \ {0} /\ p \in [1 .. n -> Vertex]
        /\ \A a, b \in 1 .. n : p[a] = p[b] => a = b
        /\ \A i \in 1 .. n - 1 : Joined(es, p[i], p[i + 1]) # {}
    BY RouteIs, SizeAssumption DEF Route
  <1>2. f \in [0 .. n - 1 -> Int] /\ \A i \in 1 .. n - 1 : f[i] = f[i - 1] + Cheapest(es, p[i], p[i + 1])
    BY DEF Adds
  <1>3. j \in Nat /\ k \in Nat /\ n \in Nat /\ 1 <= j /\ j <= k /\ k <= n
    BY <1>1
  <1> HIDE DEF n
  <1>4. q \in Seq(Vertex) /\ Len(q) = k - j + 1 /\ \A i \in 1 .. k - j + 1 : q[i] = p[j + i - 1]
    <2>1. \A i \in j .. k : p[i] \in Vertex
      BY <1>1, <1>3
    <2> QED
      BY <1>3, <2>1, SubSeqProperties
  <1> HIDE DEF q
  <1>5. DOMAIN q = 1 .. k - j + 1 /\ q # <<>>
    <2>1. DOMAIN q = 1 .. Len(q)
      BY <1>4, LenProperties
    <2>2. Len(q) # 0
      BY <1>3, <1>4
    <2> QED
      BY <1>4, <2>1, <2>2
  <1>6. Route(es, q)
    <2>1. ASSUME NEW a \in 1 .. k - j + 1, NEW b \in 1 .. k - j + 1, q[a] = q[b] PROVE a = b
      <3>1. j + a - 1 \in 1 .. n /\ j + b - 1 \in 1 .. n
        BY <1>3
      <3>2. p[j + a - 1] = p[j + b - 1]
        BY <1>4, <2>1
      <3>3. j + a - 1 = j + b - 1
        BY <1>1, <3>1, <3>2
      <3> QED
        BY <1>3, <3>3
    <2>2. ASSUME NEW i \in 1 .. Len(q) - 1 PROVE Joined(es, q[i], q[i + 1]) # {}
      <3>1. i \in 1 .. k - j + 1 /\ i + 1 \in 1 .. k - j + 1 /\ j + i - 1 \in 1 .. n - 1 /\ j + (i + 1) - 1 = (j + i - 1) + 1
        BY <1>3, <1>4
      <3>2. q[i] = p[j + i - 1] /\ q[i + 1] = p[j + (i + 1) - 1]
        BY <1>4, <3>1
      <3>3. Joined(es, p[j + i - 1], p[(j + i - 1) + 1]) # {}
        BY <1>1, <3>1
      <3> QED
        BY <3>1, <3>2, <3>3
    <2> QED
      BY <1>4, <1>5, <2>1, <2>2 DEF Route, IsSimplePath
  <1>7. Adds(es, q, g)
    <2>1. Len(q) - 1 = k - j /\ k - j \in Nat
      BY <1>3, <1>4
    <2>2. \A i \in 0 .. k - j : i + j - 1 \in 0 .. n - 1
      BY <1>3
    <2>3. j - 1 \in 0 .. n - 1
      BY <1>3
    <2>4. g \in [0 .. k - j -> Int]
      <3>1. ASSUME NEW i \in 0 .. k - j PROVE f[i + j - 1] - f[j - 1] \in Int
        BY <1>2, <2>2, <2>3
      <3> QED
        BY <3>1
    <2>5. g[0] = 0
      <3>1. g[0] = f[0 + j - 1] - f[j - 1] /\ 0 + j - 1 = j - 1
        BY <2>1, <1>3
      <3>2. f[j - 1] \in Int
        BY <1>2, <2>3
      <3> HIDE DEF g
      <3> QED
        BY <3>1, <3>2
    <2>6. ASSUME NEW i \in 1 .. k - j PROVE g[i] = g[i - 1] + Cheapest(es, q[i], q[i + 1])
      <3>1. /\ i \in 0 .. k - j /\ i - 1 \in 0 .. k - j /\ i + j - 1 \in 1 .. n - 1
            /\ (i + j - 1) - 1 = (i - 1) + j - 1 /\ (i + j - 1) - 1 \in 0 .. n - 1 /\ i + j - 1 \in 0 .. n - 1
        BY <1>3
      <3>2. i \in 1 .. k - j + 1 /\ i + 1 \in 1 .. k - j + 1 /\ j + i - 1 = i + j - 1 /\ j + (i + 1) - 1 = (i + j - 1) + 1
        BY <1>3
      <3>3. q[i] = p[i + j - 1] /\ q[i + 1] = p[(i + j - 1) + 1]
        BY <1>4, <3>2
      <3>4. g[i] = f[i + j - 1] - f[j - 1] /\ g[i - 1] = f[(i + j - 1) - 1] - f[j - 1]
        BY <3>1
      <3>5. f[i + j - 1] = f[(i + j - 1) - 1] + Cheapest(es, p[i + j - 1], p[(i + j - 1) + 1])
        BY <1>2, <3>1
      <3>6. Cheapest(es, p[i + j - 1], p[(i + j - 1) + 1]) \in Int
        BY <1>1, <3>1, CheapestIs
      <3>7. f[(i + j - 1) - 1] \in Int /\ f[i + j - 1] \in Int /\ f[j - 1] \in Int
        BY <1>2, <2>3, <3>1
      <3> HIDE DEF g
      <3> QED
        BY <3>3, <3>4, <3>5, <3>6, <3>7
    <2> HIDE DEF g
    <2> QED
      BY <2>1, <2>4, <2>5, <2>6 DEF Adds
  <1>8. Cost(es, q) = f[k - 1] - f[j - 1]
    <2>1. Cost(es, q) = g[Len(q) - 1]
      <3> HIDE DEF g
      <3> QED
        BY <1>6, <1>7, CostBy
    <2>2. Len(q) - 1 = k - j /\ k - j \in 0 .. k - j /\ (k - j) + j - 1 = k - 1
      BY <1>3, <1>4
    <2> QED
      BY <2>1, <2>2
  <1>9. Head(q) = p[j] /\ Last(q) = p[k]
    <2>1. Head(q) = q[1] /\ Last(q) = q[k - j + 1]
      BY <1>4, <1>6, RouteIs
    <2>2. 1 \in 1 .. k - j + 1 /\ k - j + 1 \in 1 .. k - j + 1 /\ j + 1 - 1 = j /\ j + (k - j + 1) - 1 = k
      BY <1>3
    <2> QED
      BY <1>4, <2>1, <2>2
  <1> QED
    BY <1>4, <1>6, <1>8, <1>9 DEF q

LEMMA Extended ==
  ASSUME NEW es, Graph(es), NEW p, Route(es, p), NEW v \in Vertex, \A i \in 1 .. Len(p) : p[i] # v,
         Joined(es, Last(p), v) # {}
  PROVE  LET q == Append(p, v) IN
         /\ Route(es, q) /\ Len(q) = Len(p) + 1 /\ Head(q) = Head(p) /\ Last(q) = v
         /\ Cost(es, q) = Cost(es, p) + Cheapest(es, Last(p), v)
  <1> DEFINE q == Append(p, v)
             n == Len(p)
  <1>1. /\ p \in Seq(Vertex) /\ n \in Nat \ {0} /\ p \in [1 .. n -> Vertex]
        /\ \A a, b \in 1 .. n : p[a] = p[b] => a = b
        /\ \A i \in 1 .. n - 1 : Joined(es, p[i], p[i + 1]) # {}
        /\ Last(p) = p[n] /\ Head(p) = p[1]
    <2>1. p \in Seq(Vertex) /\ n \in Nat \ {0} /\ p \in [1 .. n -> Vertex]
      BY RouteIs, SizeAssumption DEF Route
    <2> QED
      BY <2>1, RouteIs
  <1>2. q \in Seq(Vertex) /\ Len(q) = n + 1 /\ q[n + 1] = v /\ \A i \in 1 .. n : q[i] = p[i]
    BY <1>1, AppendProperties
  <1> HIDE DEF q, n
  <1>3. \A i \in 1 .. n : p[i] # v
    BY DEF n
  <1>4. DOMAIN q = 1 .. n + 1 /\ q # <<>>
    <2>1. DOMAIN q = 1 .. Len(q)
      BY <1>2, LenProperties
    <2>2. Len(q) # 0
      BY <1>1, <1>2
    <2> QED
      BY <1>2, <2>1, <2>2
  <1>5. \A a, b \in 1 .. n + 1 : q[a] = q[b] => a = b
    <2> SUFFICES ASSUME NEW a \in 1 .. n + 1, NEW b \in 1 .. n + 1, q[a] = q[b] PROVE a = b
      OBVIOUS
    <2>1. (a \in 1 .. n \/ a = n + 1) /\ (b \in 1 .. n \/ b = n + 1)
      BY <1>1
    <2> QED
      BY <1>1, <1>2, <1>3, <2>1
  <1>6. \A i \in 1 .. n : Joined(es, q[i], q[i + 1]) # {}
    <2> TAKE i \in 1 .. n
    <2>1. CASE i = n
      BY <1>1, <1>2, <2>1
    <2>2. CASE i # n
      <3>1. i \in 1 .. n - 1 /\ i + 1 \in 1 .. n
        BY <1>1, <2>2
      <3> QED
        BY <1>1, <1>2, <3>1
    <2> QED
      BY <2>1, <2>2
  <1>7. Route(es, q)
    <2>1. Len(q) - 1 = n
      BY <1>1, <1>2
    <2> QED
      BY <1>2, <1>4, <1>5, <1>6, <2>1 DEF Route, IsSimplePath
  <1>8. PICK f : Adds(es, p, f) /\ Cost(es, p) = f[n - 1]
    BY CostIs DEF n
  <1> DEFINE more == Cheapest(es, p[n], v)
             g == [i \in 0 .. n |-> IF i = n THEN f[n - 1] + more ELSE f[i]]
  <1>9. more \in Int
    BY <1>1, CheapestIs
  <1>10. /\ f \in [0 .. n - 1 -> Int] /\ f[0] = 0
         /\ \A i \in 1 .. n - 1 : f[i] = f[i - 1] + Cheapest(es, p[i], p[i + 1])
    BY <1>8 DEF Adds, n
  <1>11. Adds(es, q, g)
    <2>1. Len(q) - 1 = n
      BY <1>1, <1>2
    <2>2. g \in [0 .. n -> Int]
      <3>1. n - 1 \in 0 .. n - 1
        BY <1>1
      <3>2. f[n - 1] + more \in Int
        <4> HIDE DEF more
        <4> QED
          BY <1>9, <1>10, <3>1
      <3>3. \A i \in 0 .. n : i # n => f[i] \in Int
        <4> TAKE i \in 0 .. n
        <4>1. i # n => i \in 0 .. n - 1
          BY <1>1
        <4> QED
          BY <1>10, <4>1
      <3> HIDE DEF more
      <3> QED
        BY <3>2, <3>3
    <2>3. g[0] = 0
      <3>1. 0 \in 0 .. n /\ 0 # n
        BY <1>1
      <3> QED
        BY <1>10, <3>1
    <2>4. ASSUME NEW i \in 1 .. n PROVE g[i] = g[i - 1] + Cheapest(es, q[i], q[i + 1])
      <3>1. i \in 0 .. n /\ i - 1 \in 0 .. n /\ i - 1 # n
        BY <1>1
      <3>2. g[i - 1] = f[i - 1]
        BY <3>1
      <3>3. CASE i = n
        <4>1. g[n] = f[n - 1] + more
          BY <1>1
        <4> HIDE DEF g
        <4> QED
          BY <1>1, <1>2, <3>2, <3>3, <4>1
      <3>4. CASE i # n
        <4>1. i \in 1 .. n - 1 /\ i + 1 \in 1 .. n
          BY <1>1, <3>4
        <4>2. g[i] = f[i]
          BY <3>1, <3>4
        <4>3. q[i] = p[i] /\ q[i + 1] = p[i + 1]
          BY <1>2, <4>1
        <4> HIDE DEF g
        <4> QED
          BY <1>10, <3>2, <4>1, <4>2, <4>3
      <3> QED
        BY <3>3, <3>4
    <2> HIDE DEF g
    <2> QED
      BY <2>1, <2>2, <2>3, <2>4 DEF Adds
  <1>12. Cost(es, q) = Cost(es, p) + more
    <2>1. Cost(es, q) = g[Len(q) - 1]
      <3> HIDE DEF g
      <3> QED
        BY <1>7, <1>11, CostBy
    <2>2. Len(q) - 1 = n /\ n \in 0 .. n
      BY <1>1, <1>2
    <2>3. g[n] = f[n - 1] + more
      BY <2>2
    <2> HIDE DEF g, more
    <2> QED
      BY <1>8, <2>1, <2>2, <2>3
  <1>13. Head(q) = Head(p) /\ Last(q) = v
    <2>1. Head(q) = q[1] /\ Last(q) = q[n + 1]
      BY <1>2, <1>7, RouteIs
    <2>2. 1 \in 1 .. n
      BY <1>1
    <2> QED
      BY <1>1, <1>2, <2>1, <2>2
  <1> QED
    BY <1>1, <1>2, <1>7, <1>12, <1>13 DEF q, n

(* Distances that every edge of a path respects, or none undercuts.        *)
LEMMA Along ==
  ASSUME NEW es, Graph(es), NEW p, Route(es, p), NEW dist, \A i \in 1 .. Len(p) : dist[p[i]] \in Int
  PROVE  /\ (\A i \in 1 .. Len(p) - 1 : dist[p[i + 1]] <= dist[p[i]] + Cheapest(es, p[i], p[i + 1]))
              => dist[Last(p)] <= dist[Head(p)] + Cost(es, p)
         /\ (\A i \in 1 .. Len(p) - 1 : dist[p[i + 1]] >= dist[p[i]] + Cheapest(es, p[i], p[i + 1]))
              => dist[Last(p)] >= dist[Head(p)] + Cost(es, p)
  <1> DEFINE n == Len(p) - 1
  <1>1. PICK f : Adds(es, p, f) /\ Cost(es, p) = f[n]
    BY CostIs
  <1>2. n \in Nat /\ Last(p) = p[n + 1] /\ Head(p) = p[1] /\ \A i \in 0 .. n : i + 1 \in 1 .. Len(p)
    BY RouteIs
  <1>3. \A i \in 0 .. n : dist[p[i + 1]] \in Int
    BY <1>2
  <1>4. /\ f \in [0 .. n -> Int] /\ f[0] = 0
        /\ \A i \in 1 .. n : f[i] = f[i - 1] + Cheapest(es, p[i], p[i + 1])
    BY <1>1 DEF Adds
  <1>5. \A i \in 1 .. n : Cheapest(es, p[i], p[i + 1]) \in Int
    BY RouteIs, CheapestIs
  <1> HIDE DEF n
  <1>6. ASSUME \A i \in 1 .. n : dist[p[i + 1]] <= dist[p[i]] + Cheapest(es, p[i], p[i + 1])
        PROVE  dist[p[n + 1]] <= dist[p[1]] + f[n]
    <2> DEFINE Good == {i \in 0 .. n : dist[p[i + 1]] <= dist[p[1]] + f[i]}
    <2>1. 0 \in Good
      <3>1. 0 \in 0 .. n /\ 0 + 1 = 1
        BY <1>2
      <3> QED
        BY <1>3, <1>4, <3>1
    <2>2. ASSUME NEW i \in 0 .. n - 1, i \in Good PROVE i + 1 \in Good
      <3>1. i \in 0 .. n /\ i + 1 \in 0 .. n /\ i + 1 \in 1 .. n /\ (i + 1) - 1 = i /\ 0 \in 0 .. n /\ 0 + 1 = 1
        BY <1>2
      <3>2. dist[p[(i + 1) + 1]] <= dist[p[i + 1]] + Cheapest(es, p[i + 1], p[(i + 1) + 1])
        BY <1>6, <3>1
      <3>3. f[i + 1] = f[i] + Cheapest(es, p[i + 1], p[(i + 1) + 1])
        BY <1>4, <3>1
      <3>4. /\ dist[p[(i + 1) + 1]] \in Int /\ dist[p[i + 1]] \in Int /\ dist[p[1]] \in Int
            /\ f[i] \in Int /\ Cheapest(es, p[i + 1], p[(i + 1) + 1]) \in Int
        BY <1>3, <1>4, <1>5, <3>1
      <3>5. dist[p[i + 1]] <= dist[p[1]] + f[i]
        BY <2>2
      <3>6. dist[p[(i + 1) + 1]] <= dist[p[1]] + f[i + 1]
        BY <3>2, <3>3, <3>4, <3>5
      <3> QED
        BY <3>1, <3>6
    <2> HIDE DEF Good
    <2>3. \A i \in 0 .. n : i \in Good
      BY <1>2, <2>1, <2>2, Induction
    <2> QED
      BY <1>2, <2>3 DEF Good
  <1>7. ASSUME \A i \in 1 .. n : dist[p[i + 1]] >= dist[p[i]] + Cheapest(es, p[i], p[i + 1])
        PROVE  dist[p[n + 1]] >= dist[p[1]] + f[n]
    <2> DEFINE Good == {i \in 0 .. n : dist[p[i + 1]] >= dist[p[1]] + f[i]}
    <2>1. 0 \in Good
      <3>1. 0 \in 0 .. n /\ 0 + 1 = 1
        BY <1>2
      <3> QED
        BY <1>3, <1>4, <3>1
    <2>2. ASSUME NEW i \in 0 .. n - 1, i \in Good PROVE i + 1 \in Good
      <3>1. i \in 0 .. n /\ i + 1 \in 0 .. n /\ i + 1 \in 1 .. n /\ (i + 1) - 1 = i /\ 0 \in 0 .. n /\ 0 + 1 = 1
        BY <1>2
      <3>2. dist[p[(i + 1) + 1]] >= dist[p[i + 1]] + Cheapest(es, p[i + 1], p[(i + 1) + 1])
        BY <1>7, <3>1
      <3>3. f[i + 1] = f[i] + Cheapest(es, p[i + 1], p[(i + 1) + 1])
        BY <1>4, <3>1
      <3>4. /\ dist[p[(i + 1) + 1]] \in Int /\ dist[p[i + 1]] \in Int /\ dist[p[1]] \in Int
            /\ f[i] \in Int /\ Cheapest(es, p[i + 1], p[(i + 1) + 1]) \in Int
        BY <1>3, <1>4, <1>5, <3>1
      <3>5. dist[p[i + 1]] >= dist[p[1]] + f[i]
        BY <2>2
      <3>6. dist[p[(i + 1) + 1]] >= dist[p[1]] + f[i + 1]
        BY <3>2, <3>3, <3>4, <3>5
      <3> QED
        BY <3>1, <3>6
    <2> HIDE DEF Good
    <2>3. \A i \in 0 .. n : i \in Good
      BY <1>2, <2>1, <2>2, Induction
    <2> QED
      BY <1>2, <2>3 DEF Good
  <1> QED
    BY <1>1, <1>2, <1>6, <1>7 DEF n

(* Simple paths do not get arbitrarily cheap.                              *)
LEMMA CostBound ==
  ASSUME NEW es, Graph(es)
  PROVE  \E c \in Int : \A p : Route(es, p) => Cost(es, p) >= c
  <1>1. PICK b \in Int : \A e \in es : b <= e.weight
    BY DEF Graph
  <1> DEFINE low == IF b <= 0 THEN b ELSE 0
  <1>2. low \in Int /\ low <= 0 /\ \A e \in es : low <= e.weight
    BY <1>1 DEF Graph, AnyEdge
  <1> HIDE DEF low
  <1>3. ASSUME NEW p, Route(es, p) PROVE Cost(es, p) >= low * N
    <2> DEFINE n == Len(p) - 1
    <2>1. PICK f : Adds(es, p, f) /\ Cost(es, p) = f[n]
      BY <1>3, CostIs
    <2>2. n \in Nat /\ n <= N
      BY <1>3, RouteIs, SizeAssumption
    <2>3. ASSUME NEW i \in 1 .. n
          PROVE  Cheapest(es, p[i], p[i + 1]) \in Int /\ Cheapest(es, p[i], p[i + 1]) >= low
      <3>1. Joined(es, p[i], p[i + 1]) # {}
        BY <1>3, RouteIs, SMTT(30)
      <3> DEFINE c == Cheapest(es, p[i], p[i + 1])
      <3>2. c \in Int /\ \E e \in Joined(es, p[i], p[i + 1]) : e.weight = c
        BY <3>1, CheapestIs
      <3> HIDE DEF c
      <3>3. c >= low
        BY <1>2, <3>2 DEF Joined
      <3> QED
        BY <3>2, <3>3 DEF c
    <2>4. /\ f \in [0 .. n -> Int] /\ f[0] = 0
          /\ \A i \in 1 .. n : f[i] = f[i - 1] + Cheapest(es, p[i], p[i + 1])
      BY <2>1 DEF Adds
    <2> HIDE DEF n
    <2> DEFINE Good == {i \in 0 .. n : f[i] >= low * i}
    <2>5. 0 \in Good
      BY <1>2, <2>2, <2>4
    <2>6. ASSUME NEW i \in 0 .. n - 1, i \in Good PROVE i + 1 \in Good
      <3>1. i \in Int /\ i \in 0 .. n /\ i + 1 \in 0 .. n /\ i + 1 \in 1 .. n /\ (i + 1) - 1 = i
        BY <2>2
      <3> DEFINE c == Cheapest(es, p[i + 1], p[(i + 1) + 1])
      <3>2. f[i + 1] = f[i] + c /\ c \in Int /\ c >= low /\ f[i] \in Int /\ f[i] >= low * i
        BY <2>3, <2>4, <2>6, <3>1
      <3> HIDE DEF c
      <3>3. low * (i + 1) = low * i + low /\ low * i \in Int
        BY <1>2, <3>1
      <3>4. f[i + 1] >= low * (i + 1)
        BY <1>2, <3>2, <3>3
      <3> QED
        BY <3>1, <3>4
    <2> HIDE DEF Good
    <2>7. \A i \in 0 .. n : i \in Good
      BY <2>2, <2>5, <2>6, Induction
    <2>8. f[n] >= low * n /\ f[n] \in Int
      BY <2>2, <2>4, <2>7 DEF Good
    <2>9. low * n >= low * N /\ low * n \in Int /\ low * N \in Int
      BY <1>2, <2>2, SizeAssumption
    <2> QED
      BY <2>1, <2>8, <2>9
  <1>4. low * N \in Int
    BY <1>2, SizeAssumption
  <1> QED
    BY <1>3, <1>4

LEMMA ShortestIs ==
  ASSUME NEW es, Graph(es), NEW s, NEW v
  PROVE  /\ Paths(es, s, v) = {} => Shortest(es, s, v) = Inf
         /\ Paths(es, s, v) # {} =>
              /\ Shortest(es, s, v) \in Int
              /\ \E p \in Paths(es, s, v) : Cost(es, p) = Shortest(es, s, v)
              /\ \A p \in Paths(es, s, v) : Shortest(es, s, v) <= Cost(es, p)
  <1> SUFFICES ASSUME Paths(es, s, v) # {}
               PROVE  /\ Shortest(es, s, v) \in Int
                      /\ \E p \in Paths(es, s, v) : Cost(es, p) = Shortest(es, s, v)
                      /\ \A p \in Paths(es, s, v) : Shortest(es, s, v) <= Cost(es, p)
    BY DEF Shortest
  <1> DEFINE C == {Cost(es, p) : p \in Paths(es, s, v)}
  <1>1. PICK c \in Int : \A p : Route(es, p) => Cost(es, p) >= c
    BY CostBound
  <1>2. \A p \in Paths(es, s, v) : Cost(es, p) \in Int /\ c <= Cost(es, p)
    <2> TAKE p \in Paths(es, s, v)
    <2>1. Route(es, p)
      BY RouteIs DEF Paths
    <2>2. Cost(es, p) \in Int
      BY <2>1, CostIs, CostBy
    <2> QED
      BY <1>1, <2>1, <2>2
  <1>3. C \in SUBSET Int /\ C # {} /\ \A x \in C : c <= x
    BY <1>2
  <1>4. Shortest(es, s, v) = Min(C)
    BY DEF Shortest
  <1>5. Min(C) \in C /\ \A x \in C : Min(C) <= x
    <2> HIDE DEF C
    <2> QED
      BY <1>3, LeastAbove
  <1> QED
    BY <1>3, <1>4, <1>5

(* The path that goes nowhere.                                             *)
LEMMA Nowhere ==
  ASSUME NEW es, Graph(es), NEW s \in Vertex
  PROVE  <<s>> \in Paths(es, s, s) /\ Cost(es, <<s>>) = 0 /\ Shortest(es, s, s) = 0
  <1> DEFINE p == <<s>>
             f == [i \in 0 .. 0 |-> 0]
  <1>1. p \in Seq(Vertex) /\ Len(p) = 1 /\ p # <<>> /\ DOMAIN p = 1 .. 1 /\ p[1] = s
    OBVIOUS
  <1>2. Route(es, p)
    BY <1>1 DEF Route, IsSimplePath
  <1> HIDE DEF p
  <1>3. Adds(es, p, f)
    <2>1. Len(p) - 1 = 0
      BY <1>1
    <2>2. f \in [0 .. 0 -> Int] /\ f[0] = 0 /\ 1 .. 0 = {}
      OBVIOUS
    <2> HIDE DEF f
    <2> QED
      BY <2>1, <2>2 DEF Adds
  <1>4. Cost(es, p) = 0
    <2>1. Cost(es, p) = f[Len(p) - 1]
      <3> HIDE DEF f
      <3> QED
        BY <1>2, <1>3, CostBy
    <2> QED
      BY <1>1, <2>1
  <1>5. p \in Paths(es, s, s)
    BY <1>1, <1>2, RouteIs DEF Paths
  <1>6. ASSUME NEW q \in Paths(es, s, s) PROVE Cost(es, q) = 0
    <2>1. Route(es, q) /\ Head(q) = s /\ Last(q) = s
      BY <1>6, RouteIs DEF Paths
    <2>2. Len(q) \in 1 .. N /\ q[1] = q[Len(q)] /\ \A i, j \in 1 .. Len(q) : q[i] = q[j] => i = j
      BY <2>1, RouteIs
    <2>3. Len(q) = 1
      <3>1. Len(q) \in Nat /\ 1 \in 1 .. Len(q) /\ Len(q) \in 1 .. Len(q)
        BY <2>2, SizeAssumption
      <3> QED
        BY <2>2, <3>1
    <2>4. PICK g : Adds(es, q, g) /\ Cost(es, q) = g[Len(q) - 1]
      BY <2>1, CostIs
    <2> QED
      BY <2>3, <2>4 DEF Adds
  <1>7. Shortest(es, s, s) = 0
    BY <1>5, <1>6, ShortestIs
  <1> QED
    BY <1>4, <1>5, <1>7 DEF p

(* An edge leads on from a path: to a vertex behind it, or to one before,  *)
(* and closes a circle.                                                    *)
LEMMA Across ==
  ASSUME NEW es, Graph(es), NEW s \in Vertex, NEW e \in es, NEW p \in Paths(es, s, e.src)
  PROVE  \E q \in Paths(es, s, e.dest) : Trapped(es, s) \/ Cost(es, q) <= Cost(es, p) + e.weight
  <1> DEFINE v == e.dest
             n == Len(p)
  <1>1. Route(es, p) /\ Head(p) = s /\ Last(p) = e.src
    BY RouteIs DEF Paths
  <1>2. v \in Vertex /\ e \in Joined(es, Last(p), v) /\ e.weight \in Int
    BY <1>1 DEF Graph, AnyEdge, Joined
  <1>3. n \in 1 .. N /\ n \in Nat /\ p[1] = s /\ p[n] = e.src
    BY <1>1, RouteIs, SizeAssumption
  <1>4. Cost(es, p) \in Int
    BY <1>1, CostIs, CostBy
  <1> HIDE DEF v
  <1>5. CASE \A i \in 1 .. n : p[i] # v
    <2> DEFINE q == Append(p, v)
    <2>1. Route(es, q) /\ Head(q) = s /\ Last(q) = v /\ Cost(es, q) = Cost(es, p) + Cheapest(es, Last(p), v)
      BY <1>1, <1>2, <1>5, Extended
    <2>2. Cheapest(es, Last(p), v) \in Int /\ Cheapest(es, Last(p), v) <= e.weight
      BY <1>2, CheapestIs
    <2> HIDE DEF q
    <2>3. Cost(es, q) <= Cost(es, p) + e.weight
      BY <1>2, <1>4, <2>1, <2>2
    <2>4. q \in Paths(es, s, v)
      BY <2>1, RouteIs DEF Paths
    <2> QED
      BY <2>3, <2>4 DEF v
  <1>6. CASE \E i \in 1 .. n : p[i] = v
    <2>1. PICK j \in 1 .. n : p[j] = v
      BY <1>6
    <2>2. PICK f : Adds(es, p, f) /\ Cost(es, p) = f[n - 1]
      BY <1>1, CostIs
    <2> DEFINE q == SubSeq(p, 1, j)
               c == SubSeq(p, j, n)
    <2>3. 1 \in 1 .. n /\ j \in 1 .. n /\ n \in j .. n /\ 1 - 1 = 0
      BY <1>3
    <2>4. Route(es, q) /\ Cost(es, q) = f[j - 1] - f[0] /\ Head(q) = s /\ Last(q) = v
      BY <1>1, <1>3, <2>1, <2>2, <2>3, PartIs
    <2>5. Route(es, c) /\ Cost(es, c) = f[n - 1] - f[j - 1] /\ Head(c) = v /\ Last(c) = e.src
      BY <1>1, <1>3, <2>1, <2>2, <2>3, PartIs
    <2> HIDE DEF q, c
    <2>6. f[0] = 0 /\ f[j - 1] \in Int /\ f[n - 1] \in Int
      <3>1. j - 1 \in 0 .. n - 1 /\ n - 1 \in 0 .. n - 1
        BY <1>3
      <3> QED
        BY <2>2, <3>1 DEF Adds
    <2>7. q \in Paths(es, s, v)
      BY <2>4, RouteIs DEF Paths
    <2>8. CASE Cost(es, c) + e.weight < 0
      <3>1. c \in SimplePaths(es) /\ e \in Joined(es, Last(c), Head(c))
        BY <1>1, <1>2, <2>5, RouteIs
      <3>2. IsNegativeCircle(es, c)
        BY <2>8, <3>1 DEF IsNegativeCircle
      <3>3. Trapped(es, s)
        BY <2>5, <2>7, <3>1, <3>2 DEF Trapped
      <3> QED
        BY <2>7, <3>3 DEF v
    <2>9. CASE ~(Cost(es, c) + e.weight < 0)
      <3>1. Cost(es, q) <= Cost(es, p) + e.weight
        BY <1>2, <2>2, <2>4, <2>5, <2>6, <2>9
      <3> QED
        BY <2>7, <3>1 DEF v
    <2> QED
      BY <2>8, <2>9
  <1> QED
    BY <1>5, <1>6

(* Without a circle to be trapped in, no edge undercuts the shortest path. *)
LEMMA Triangle ==
  ASSUME NEW es, Graph(es), NEW s \in Vertex, NEW e \in es, Paths(es, s, e.src) # {}
  PROVE  /\ Paths(es, s, e.dest) # {}
         /\ ~Trapped(es, s) => Shortest(es, s, e.dest) <= Shortest(es, s, e.src) + e.weight
  <1>1. PICK p \in Paths(es, s, e.src) : Cost(es, p) = Shortest(es, s, e.src)
    BY ShortestIs
  <1>2. PICK q \in Paths(es, s, e.dest) : Trapped(es, s) \/ Cost(es, q) <= Cost(es, p) + e.weight
    BY <1>1, Across
  <1>3. Shortest(es, s, e.dest) <= Cost(es, q) /\ Shortest(es, s, e.dest) \in Int
    BY <1>2, ShortestIs
  <1>4. Cost(es, q) \in Int /\ Cost(es, p) \in Int /\ e.weight \in Int
    <2>1. Route(es, p) /\ Route(es, q)
      BY RouteIs DEF Paths
    <2> QED
      BY <2>1, CostIs, CostBy DEF Graph, AnyEdge
  <1>5. ~Trapped(es, s) => Shortest(es, s, e.dest) <= Shortest(es, s, e.src) + e.weight
    BY <1>1, <1>2, <1>3, <1>4
  <1> QED
    BY <1>2, <1>5

-----------------------------------------------------------------------------
(***************************************************************************)
(* Relaxation.                                                             *)
(***************************************************************************)
LEMMA RelaxIs ==
  ASSUME NEW x \in Result, NEW e \in AnyEdge
  PROVE  LET y == Relax(x, e) IN
         /\ y \in Result
         /\ Shorter(x, e) <=> /\ x.dist[e.src] \in Int
                              /\ x.dist[e.dest] \in Int => x.dist[e.src] + e.weight < x.dist[e.dest]
         /\ Shorter(x, e) => /\ y.dist[e.dest] = x.dist[e.src] + e.weight /\ y.dist[e.dest] \in Int
                             /\ y.prev[e.dest] = e.src
         /\ \A v \in Vertex : v # e.dest \/ ~Shorter(x, e) => y.dist[v] = x.dist[v] /\ y.prev[v] = x.prev[v]
         /\ \A v \in Vertex : x.dist[v] \in Int => y.dist[v] \in Int /\ y.dist[v] <= x.dist[v]
         /\ x.dist[e.src] \in Int =>
              y.dist[e.dest] \in Int /\ y.dist[e.dest] <= x.dist[e.src] + e.weight
  <1> DEFINE y == Relax(x, e)
             u == e.src
             v == e.dest
             d == x.dist[u] + e.weight
  <1>1. u \in Vertex /\ v \in Vertex /\ e.weight \in Int
    BY DEF AnyEdge
  <1>2. /\ x.dist \in [Vertex -> Int \cup {Inf}] /\ x.prev \in [Vertex -> Vertex \cup {None}]
        /\ x = [dist |-> x.dist, prev |-> x.prev]
    BY DEF Result
  <1>3. \A z \in Vertex : x.dist[z] \in Int <=> x.dist[z] # Inf
    BY <1>2, ValueAssumption
  <1>4. x.dist[u] \in Int => NewDist(x, e) = d /\ d \in Int /\ d # Inf
    BY <1>1, <1>3, ValueAssumption DEF NewDist, Plus
  <1>5. x.dist[u] \notin Int => NewDist(x, e) = Inf
    BY <1>1, <1>3 DEF NewDist, Plus
  <1> HIDE DEF d
  <1>6. Shorter(x, e) <=> x.dist[u] \in Int /\ (x.dist[v] \in Int => d < x.dist[v])
    BY <1>1, <1>3, <1>4, <1>5 DEF Shorter, Below
  <1>7. CASE Shorter(x, e)
    <2>1. y = [dist |-> [x.dist EXCEPT ![v] = d], prev |-> [x.prev EXCEPT ![v] = u]]
      BY <1>4, <1>6, <1>7 DEF Relax
    <2> HIDE DEF y, u, v
    <2>2. y \in Result
      BY <1>1, <1>2, <1>4, <1>6, <1>7, <2>1 DEF Result
    <2>3. y.dist[v] = d /\ y.prev[v] = u /\ \A z \in Vertex : z # v => y.dist[z] = x.dist[z] /\ y.prev[z] = x.prev[z]
      BY <1>1, <1>2, <2>1
    <2>4. d \in Int /\ x.dist[u] \in Int /\ (x.dist[v] \in Int => d < x.dist[v])
      BY <1>4, <1>6, <1>7
    <2>5. ASSUME NEW z \in Vertex, x.dist[z] \in Int PROVE y.dist[z] \in Int /\ y.dist[z] <= x.dist[z]
      <3>1. CASE z = v
        BY <2>3, <2>4, <2>5, <3>1
      <3>2. CASE z # v
        BY <2>3, <2>5, <3>2
      <3> QED
        BY <3>1, <3>2
    <2>6. d <= d
      BY <2>4
    <2> QED
      BY <1>6, <1>7, <2>2, <2>3, <2>4, <2>5, <2>6 DEF y, u, v, d
  <1>8. CASE ~Shorter(x, e)
    <2>1. y = x
      BY <1>8 DEF Relax
    <2> HIDE DEF y
    <2>2. ASSUME x.dist[u] \in Int PROVE x.dist[v] \in Int /\ x.dist[v] <= d
      BY <1>4, <1>6, <1>8, <2>2
    <2>3. \A z \in Vertex : x.dist[z] \in Int => x.dist[z] <= x.dist[z]
      OBVIOUS
    <2> QED
      BY <1>6, <1>8, <2>1, <2>2, <2>3 DEF y, u, v, d
  <1> QED
    BY <1>7, <1>8

(* From the first of these sets of results to the last, edge by edge.      *)
LEMMA PassLeads ==
  ASSUME NEW es \in Seq(AnyEdge), NEW K \in [0 .. Len(es) -> SUBSET Result], NEW r \in K[0],
         \A i \in 1 .. Len(es) : \A x \in K[i - 1] : Relax(x, es[i]) \in K[i]
  PROVE  Pass(r, es) \in K[Len(es)]
  <1> DEFINE n == Len(es)
             S == Result
             step == [i \in 1 .. n |-> [x \in S |-> Relax(x, es[i])]]
             To(g, i) == IF i = 0 THEN r ELSE Relax(g[i - 1], es[i])
             f == CHOOSE g : g = [i \in 0 .. n |-> To(g, i)]
  <1>1. n \in Nat /\ \A i \in 1 .. n : es[i] \in AnyEdge
    BY LenProperties, ElementOfSeq
  <1> HIDE DEF n
  <1>2. step \in Steps(n, S)
    BY <1>1, RelaxIs DEF Steps
  <1>3. r \in S
    BY <1>1 DEF n
  <1>4. \A i \in 1 .. n, x \in S : step[i][x] = Relax(x, es[i])
    OBVIOUS
  <1> HIDE DEF step, S
  <1>5. PICK h \in [0 .. n -> S] : h[0] = r /\ \A i \in 1 .. n : h[i] = step[i][h[i - 1]]
    BY <1>1, <1>2, <1>3, Recursion, SMTT(30) DEF Runs
  <1>6. h = [i \in 0 .. n |-> To(h, i)]
    <2>1. ASSUME NEW i \in 0 .. n PROVE h[i] = To(h, i)
      <3>1. CASE i = 0
        BY <1>5, <3>1
      <3>2. CASE i # 0
        <4>1. i \in 1 .. n /\ i - 1 \in 0 .. n
          BY <1>1, <3>2
        <4>2. h[i - 1] \in S
          BY <1>5, <4>1
        <4> QED
          BY <1>4, <1>5, <3>2, <4>1, <4>2
      <3> QED
        BY <3>1, <3>2
    <2> HIDE DEF To
    <2> QED
      BY <1>5, <2>1
  <1>7. f = [i \in 0 .. n |-> To(f, i)]
    <2> HIDE DEF To
    <2> QED
      BY <1>6
  <1>8. Pass(r, es) = f[n]
    BY DEF Pass, n
  <1> HIDE DEF f
  <1> DEFINE Good == {i \in 0 .. n : f[i] \in K[i]}
  <1>9. \A i \in 0 .. n : f[i] = To(f, i)
    <2> HIDE DEF To
    <2> QED
      BY <1>7
  <1>10. 0 \in Good
    BY <1>1, <1>9
  <1>11. ASSUME NEW i \in 0 .. n - 1, i \in Good PROVE i + 1 \in Good
    <2>1. i + 1 \in 0 .. n /\ i + 1 \in 1 .. n /\ (i + 1) - 1 = i /\ i + 1 # 0
      BY <1>1
    <2>2. f[i + 1] = Relax(f[i], es[i + 1])
      BY <1>9, <2>1
    <2>3. \A x \in K[i] : Relax(x, es[i + 1]) \in K[i + 1]
      BY <2>1 DEF n
    <2> QED
      BY <1>11, <2>1, <2>2, <2>3
  <1> HIDE DEF Good
  <1>12. \A i \in 0 .. n : i \in Good
    BY <1>1, <1>10, <1>11, Induction
  <1>13. f[n] \in K[n]
    BY <1>1, <1>12 DEF Good
  <1> QED
    BY <1>8, <1>13 DEF n

LEMMA PassIn ==
  ASSUME NEW es \in Seq(AnyEdge), NEW J \in SUBSET Result, NEW r \in J,
         \A e \in ToSet(es), x \in J : Relax(x, e) \in J
  PROVE  Pass(r, es) \in J
  <1> DEFINE K == [i \in 0 .. Len(es) |-> J]
  <1>1. Len(es) \in Nat /\ DOMAIN es = 1 .. Len(es)
    BY LenProperties
  <1>2. K \in [0 .. Len(es) -> SUBSET Result] /\ r \in K[0] /\ K[Len(es)] = J
    BY <1>1
  <1>3. ASSUME NEW i \in 1 .. Len(es), NEW x \in K[i - 1] PROVE Relax(x, es[i]) \in K[i]
    <2>1. i - 1 \in 0 .. Len(es) /\ i \in 0 .. Len(es)
      BY <1>1
    <2>2. x \in J /\ K[i] = J
      BY <2>1
    <2>3. es[i] \in ToSet(es)
      BY <1>1 DEF ToSet
    <2> QED
      BY <2>2, <2>3
  <1> HIDE DEF K
  <1>4. Pass(r, es) \in K[Len(es)]
    BY <1>2, <1>3, PassLeads
  <1> QED
    BY <1>2, <1>4

(* The results after each pass.                                            *)
Repeats(es, r, n, f) ==
  f \in [0 .. n -> Result] /\ f[0] = r /\ \A k \in 1 .. n : f[k] = Pass(f[k - 1], es)

LEMMA PassesAre ==
  ASSUME NEW es \in Seq(AnyEdge), NEW n \in Nat, NEW r \in Result
  PROVE  \E f : Repeats(es, r, n, f) /\ Passes(r, es, n) = f[n]
  <1> DEFINE S == Result
             step == [k \in 1 .. n |-> [x \in S |-> Pass(x, es)]]
             To(g, k) == IF k = 0 THEN r ELSE Pass(g[k - 1], es)
             f == CHOOSE g : g = [k \in 0 .. n |-> To(g, k)]
  <1>1. \A e \in ToSet(es) : e \in AnyEdge
    BY LenProperties, ElementOfSeq DEF ToSet
  <1>2. \A x \in S : Pass(x, es) \in S
    BY <1>1, RelaxIs, PassIn
  <1>3. step \in Steps(n, S)
    BY <1>2 DEF Steps
  <1>4. r \in S
    OBVIOUS
  <1>5. \A k \in 1 .. n, x \in S : step[k][x] = Pass(x, es)
    OBVIOUS
  <1>6. PICK h \in [0 .. n -> S] : h[0] = r /\ \A k \in 1 .. n : h[k] = step[k][h[k - 1]]
    <2> HIDE DEF step, S
    <2>1. \E g \in [0 .. n -> S] : g[0] = r /\ \A k \in 1 .. n : g[k] = step[k][g[k - 1]]
      BY <1>3, <1>4, Recursion, SMTT(30) DEF Runs
    <2> QED
      BY <2>1
  <1>7. \A k \in 1 .. n : h[k] = Pass(h[k - 1], es)
    <2> TAKE k \in 1 .. n
    <2>1. k - 1 \in 0 .. n
      OBVIOUS
    <2>2. h[k - 1] \in S
      BY <1>6, <2>1
    <2> HIDE DEF step, S
    <2> QED
      BY <1>5, <1>6, <2>2
  <1> HIDE DEF step
  <1>8. h = [k \in 0 .. n |-> To(h, k)]
    <2>1. ASSUME NEW k \in 0 .. n PROVE h[k] = To(h, k)
      <3>1. CASE k = 0
        BY <1>6, <3>1
      <3>2. CASE k # 0
        <4>1. k \in 1 .. n
          BY <3>2
        <4> QED
          BY <1>7, <3>2, <4>1
      <3> QED
        BY <3>1, <3>2
    <2> HIDE DEF To
    <2> QED
      BY <1>6, <2>1
  <1>9. f = [k \in 0 .. n |-> To(f, k)]
    <2> HIDE DEF To
    <2> QED
      BY <1>8
  <1>10. Passes(r, es, n) = f[n]
    BY DEF Passes
  <1> HIDE DEF f
  <1> DEFINE Good == {k \in 0 .. n : f[k] = h[k]}
  <1>11. \A k \in 0 .. n : f[k] = To(f, k)
    <2> HIDE DEF To
    <2> QED
      BY <1>9
  <1>12. 0 \in Good
    BY <1>6, <1>11
  <1>13. ASSUME NEW k \in 0 .. n - 1, k \in Good PROVE k + 1 \in Good
    <2>1. k + 1 \in 0 .. n /\ k + 1 \in 1 .. n /\ (k + 1) - 1 = k /\ k + 1 # 0
      OBVIOUS
    <2>2. f[k + 1] = Pass(f[k], es) /\ h[k + 1] = Pass(h[k], es)
      BY <1>7, <1>11, <2>1
    <2> QED
      BY <1>13, <2>1, <2>2
  <1> HIDE DEF Good
  <1>14. \A k \in 0 .. n : k \in Good
    BY <1>12, <1>13, Induction
  <1>15. f[n] = h[n]
    BY <1>14 DEF Good
  <1> QED
    <2>1. Repeats(es, r, n, h)
      BY <1>6, <1>7 DEF Repeats
    <2> QED
      BY <1>10, <1>15, <2>1

(* A pass leads from each of the sets to the next.                         *)
Leads(es, K, n) == \A k \in 1 .. n : \A x \in K[k - 1] : Pass(x, es) \in K[k]

LEMMA PassesLead ==
  ASSUME NEW es \in Seq(AnyEdge), NEW n \in Nat, NEW K \in [0 .. n -> SUBSET Result], NEW r \in K[0],
         Leads(es, K, n)
  PROVE  Passes(r, es, n) \in K[n]
  <1>1. r \in Result
    OBVIOUS
  <1>2. PICK g : Repeats(es, r, n, g) /\ Passes(r, es, n) = g[n]
    BY <1>1, PassesAre
  <1> DEFINE f == g
  <1>0. f \in [0 .. n -> Result] /\ f[0] = r /\ (\A k \in 1 .. n : f[k] = Pass(f[k - 1], es)) /\ Passes(r, es, n) = f[n]
    BY <1>2 DEF Repeats
  <1> HIDE DEF f
  <1> DEFINE Good == {k \in 0 .. n : f[k] \in K[k]}
  <1>3. 0 \in Good
    BY <1>0
  <1>4. ASSUME NEW k \in 0 .. n - 1, k \in Good PROVE k + 1 \in Good
    <2>1. k + 1 \in 0 .. n /\ k + 1 \in 1 .. n /\ (k + 1) - 1 = k
      OBVIOUS
    <2>2. f[k + 1] = Pass(f[k], es)
      BY <1>0, <2>1
    <2>3. \A x \in K[k] : Pass(x, es) \in K[k + 1]
      BY <2>1 DEF Leads
    <2> QED
      BY <1>4, <2>1, <2>2, <2>3
  <1> HIDE DEF Good
  <1>5. \A k \in 0 .. n : k \in Good
    BY <1>3, <1>4, Induction
  <1> QED
    BY <1>0, <1>5 DEF Good

LEMMA PassesIn ==
  ASSUME NEW es \in Seq(AnyEdge), NEW n \in Nat, NEW J \in SUBSET Result, NEW r \in J,
         \A e \in ToSet(es), x \in J : Relax(x, e) \in J
  PROVE  Passes(r, es, n) \in J
  <1> DEFINE K == [i \in 0 .. n |-> J]
  <1>1. K \in [0 .. n -> SUBSET Result] /\ r \in K[0] /\ K[n] = J
    OBVIOUS
  <1>2. ASSUME NEW k \in 1 .. n, NEW x \in K[k - 1] PROVE Pass(x, es) \in K[k]
    <2>1. x \in J /\ K[k] = J
      OBVIOUS
    <2>2. Pass(x, es) \in J
      BY <2>1, PassIn
    <2> QED
      BY <2>1, <2>2
  <1> HIDE DEF K
  <1>3. Passes(r, es, n) \in K[n]
    BY <1>1, <1>2, PassesLead DEF Leads
  <1> QED
    BY <1>1, <1>3

-----------------------------------------------------------------------------
(***************************************************************************)
(* The predecessors.                                                       *)
(***************************************************************************)
(* Round a circle whose edges no distance falls short of, one of them not  *)
(* even met, the weights add up to less than nothing.                      *)
Falls(es, dist, u, v, strictly) ==
  IF strictly THEN dist[v] > dist[u] + Cheapest(es, u, v) ELSE dist[v] >= dist[u] + Cheapest(es, u, v)

LEMMA Round ==
  ASSUME NEW es, Graph(es), NEW p, Route(es, p), NEW dist, \A i \in 1 .. Len(p) : dist[p[i]] \in Int,
         Joined(es, Last(p), Head(p)) # {},
         NEW k \in 1 .. Len(p),
         \A i \in 1 .. Len(p) - 1 : Falls(es, dist, p[i], p[i + 1], i = k),
         Falls(es, dist, Last(p), Head(p), k = Len(p))
  PROVE  IsNegativeCircle(es, p)
  <1> DEFINE n == Len(p)
             C(u, v) == Cheapest(es, u, v)
             d(i) == dist[p[i]]
  <1>1. /\ n \in Nat /\ n >= 1 /\ Head(p) = p[1] /\ Last(p) = p[n] /\ p \in SimplePaths(es)
        /\ \A i \in 1 .. n - 1 : Joined(es, p[i], p[i + 1]) # {}
    BY RouteIs
  <1>2. PICK f : Adds(es, p, f) /\ Cost(es, p) = f[n - 1]
    BY CostIs
  <1>3. C(p[n], p[1]) \in Int /\ \E e \in Joined(es, Last(p), Head(p)) : e.weight = C(p[n], p[1])
    BY <1>1, CheapestIs
  <1>4. f \in [0 .. n - 1 -> Int] /\ f[0] = 0 /\ \A i \in 1 .. n - 1 : f[i] = f[i - 1] + C(p[i], p[i + 1])
    BY <1>2 DEF Adds
  <1>5. \A i \in 1 .. n : d(i) \in Int
    OBVIOUS
  <1>6. ASSUME NEW a \in 1 .. n, NEW b \in a .. n, k \notin a .. b - 1 PROVE d(b) >= d(a) + f[b - 1] - f[a - 1]
    <2> DEFINE q == SubSeq(p, a, b)
    <2>1. /\ Route(es, q) /\ Len(q) = b - a + 1 /\ \A i \in 1 .. b - a + 1 : q[i] = p[a + i - 1]
          /\ Cost(es, q) = f[b - 1] - f[a - 1] /\ Head(q) = p[a] /\ Last(q) = p[b]
      BY <1>2, PartIs
    <2> HIDE DEF q
    <2>2. ASSUME NEW i \in 1 .. Len(q) PROVE dist[q[i]] \in Int
      <3>1. i \in 1 .. b - a + 1 /\ a + i - 1 \in 1 .. n
        BY <1>1, <2>1
      <3>2. q[i] = p[a + i - 1]
        BY <2>1, <3>1
      <3>3. d(a + i - 1) \in Int
        BY <1>5, <3>1
      <3> QED
        BY <3>2, <3>3
    <2>3. ASSUME NEW i \in 1 .. Len(q) - 1 PROVE dist[q[i + 1]] >= dist[q[i]] + Cheapest(es, q[i], q[i + 1])
      <3>0. i \in 1 .. b - a
        BY <1>1, <2>1
      <3>1. /\ i \in 1 .. b - a + 1 /\ i + 1 \in 1 .. b - a + 1 /\ a + i - 1 \in 1 .. n - 1
            /\ a + (i + 1) - 1 = (a + i - 1) + 1 /\ a + i - 1 \in a .. b - 1
        <4> HIDE DEF n
        <4> QED
          BY <1>1, <3>0
      <3>2. Falls(es, dist, p[a + i - 1], p[(a + i - 1) + 1], FALSE)
        <4>1. (a + i - 1 = k) = FALSE
          BY <1>6, <3>1
        <4> QED
          BY <3>1, <4>1
      <3>3. q[i] = p[a + i - 1] /\ q[i + 1] = p[a + (i + 1) - 1]
        BY <2>1, <3>1
      <3> QED
        BY <3>1, <3>2, <3>3 DEF Falls
    <2>4. dist[Last(q)] >= dist[Head(q)] + Cost(es, q)
      BY <2>1, <2>2, <2>3, Along
    <2>5. Cost(es, q) = f[b - 1] - f[a - 1] /\ dist[Last(q)] = d(b) /\ dist[Head(q)] = d(a)
      BY <2>1
    <2>6. d(a) \in Int /\ d(b) \in Int /\ f[b - 1] \in Int /\ f[a - 1] \in Int
      <3>1. a - 1 \in 0 .. n - 1 /\ b - 1 \in 0 .. n - 1 /\ b \in 1 .. n
        BY <1>1
      <3> QED
        BY <1>4, <1>5, <3>1
    <2> HIDE DEF d
    <2> QED
      BY <2>4, <2>5, <2>6
  <1> SUFFICES f[n - 1] + C(p[n], p[1]) < 0
    BY <1>1, <1>2, <1>3 DEF IsNegativeCircle
  <1>7. f[n - 1] \in Int /\ f[1 - 1] = 0 /\ d(1) \in Int /\ d(n) \in Int
    BY <1>1, <1>4, <1>5
  <1>8. CASE k = n
    <2>1. d(n) >= d(1) + f[n - 1] - f[1 - 1]
      BY <1>1, <1>6, <1>8
    <2>2. d(1) > d(n) + C(p[n], p[1])
      BY <1>1, <1>8 DEF Falls
    <2> HIDE DEF d, C
    <2> QED
      BY <1>3, <1>7, <2>1, <2>2
  <1>9. CASE k # n
    <2>1. k \in 1 .. n - 1 /\ k + 1 \in 1 .. n /\ (k + 1) - 1 = k /\ k \in 0 .. n - 1 /\ k - 1 \in 0 .. n - 1
      BY <1>1, <1>9
    <2>2. d(n) >= d(k + 1) + f[n - 1] - f[k]
      BY <1>6, <2>1
    <2>3. d(k) >= d(1) + f[k - 1] - f[1 - 1]
      BY <1>1, <1>6, <2>1
    <2>4. d(k + 1) > d(k) + C(p[k], p[k + 1])
      BY <2>1 DEF Falls
    <2>5. d(1) >= d(n) + C(p[n], p[1])
      BY <1>1, <1>9 DEF Falls
    <2>6. f[k] = f[k - 1] + C(p[k], p[k + 1]) /\ C(p[k], p[k + 1]) \in Int
      BY <1>1, <1>4, <2>1, CheapestIs
    <2>7. f[k] \in Int /\ f[k - 1] \in Int /\ d(k) \in Int /\ d(k + 1) \in Int
      BY <1>4, <1>5, <2>1
    <2> HIDE DEF d, C
    <2>8. d(k + 1) > d(1) + f[k]
      BY <1>7, <2>3, <2>4, <2>6, <2>7
    <2>9. d(n) > d(1) + f[n - 1]
      BY <1>7, <2>2, <2>7, <2>8
    <2> QED
      BY <1>3, <1>7, <2>5, <2>9
  <1> QED
    BY <1>8, <1>9

(* The circle that predecessors make.                                      *)
Ring(x, p) ==
  /\ p \in Seq(Vertex) /\ p # <<>>
  /\ \A i, j \in 1 .. Len(p) : p[i] = p[j] => i = j
  /\ \A i \in 1 .. Len(p) - 1 : x.prev[p[i + 1]] = p[i]
  /\ x.prev[p[1]] = p[Len(p)]

(* An edge leads from each predecessor, and no distance is below what it   *)
(* gives: it may have become shorter since.                                *)
Led(es, x, v) ==
  LET u == x.prev[v] IN
  /\ Joined(es, u, v) # {}
  /\ x.dist[u] \in Int /\ x.dist[v] \in Int
  /\ x.dist[v] >= x.dist[u] + Cheapest(es, u, v)

Grown(es, x) == \A v \in Vertex : x.prev[v] # None => Led(es, x, v)

(* What relaxation keeps, whether or not there is a negative circle.       *)
Tree(es, s) ==
  {x \in Result :
     /\ x.dist[s] \in Int
     /\ Grown(es, x)
     /\ \A v \in Vertex : x.dist[v] \in Int /\ x.prev[v] = None => v = s /\ x.dist[v] = 0
     /\ \A p : Ring(x, p) => IsNegativeCircle(es, p)}

LEMMA RingIs ==
  ASSUME NEW es, NEW x \in Result, Grown(es, x),
         NEW p, Ring(x, p)
  PROVE  /\ Route(es, p) /\ Joined(es, Last(p), Head(p)) # {}
         /\ Len(p) \in Nat /\ Len(p) >= 1 /\ Head(p) = p[1] /\ Last(p) = p[Len(p)]
         /\ \A i \in 1 .. Len(p) : p[i] \in Vertex /\ x.prev[p[i]] \in Vertex /\ x.prev[p[i]] # None
  <1> DEFINE n == Len(p)
  <1>1. /\ p \in Seq(Vertex) /\ p # <<>>
        /\ \A i, j \in 1 .. n : p[i] = p[j] => i = j
        /\ \A i \in 1 .. n - 1 : x.prev[p[i + 1]] = p[i]
        /\ x.prev[p[1]] = p[n]
    BY DEF Ring
  <1>2. n \in Nat /\ n >= 1 /\ DOMAIN p = 1 .. n /\ \A i \in 1 .. n : p[i] \in Vertex
    <2>1. p \in [1 .. n -> Vertex] /\ n \in Nat /\ n # 0
      BY <1>1, LenProperties, EmptySeq
    <2> QED
      BY <2>1
  <1>3. Head(p) = p[1] /\ Last(p) = p[n]
    BY <1>1 DEF Last
  <1>4. \A v \in Vertex : v # None
    BY SizeAssumption DEF Vertex, None
  <1> HIDE DEF n
  <1>5. ASSUME NEW i \in 1 .. n PROVE x.prev[p[i]] \in Vertex
    <2>1. CASE i = 1
      BY <1>1, <1>2, <2>1
    <2>2. CASE i # 1
      <3>1. i - 1 \in 1 .. n - 1 /\ i - 1 \in 1 .. n /\ (i - 1) + 1 = i
        BY <1>2, <2>2
      <3>2. x.prev[p[(i - 1) + 1]] = p[i - 1]
        BY <1>1, <3>1
      <3> QED
        BY <1>2, <3>1, <3>2
    <2> QED
      BY <2>1, <2>2
  <1>6. \A i \in 1 .. n : Led(es, x, p[i])
    BY <1>2, <1>4, <1>5 DEF Grown
  <1>7. ASSUME NEW i \in 1 .. n - 1 PROVE Joined(es, p[i], p[i + 1]) # {}
    <2>1. i + 1 \in 1 .. n
      BY <1>2
    <2> QED
      BY <1>1, <1>6, <1>7, <2>1 DEF Led
  <1>8. Joined(es, p[n], p[1]) # {}
    <2>1. 1 \in 1 .. n
      BY <1>2
    <2> QED
      BY <1>1, <1>6, <2>1 DEF Led
  <1>9. Route(es, p)
    BY <1>1, <1>2, <1>7 DEF Route, IsSimplePath, n
  <1> QED
    BY <1>2, <1>3, <1>4, <1>5, <1>8, <1>9 DEF n

LEMMA TreeStart ==
  ASSUME NEW es, NEW s \in Vertex
  PROVE  Reached(s) \in Tree(es, s)
  <1> DEFINE x == Reached(s)
  <1>1. \A v \in Vertex : x.prev[v] = None /\ x.dist[v] = IF v = s THEN 0 ELSE Inf
    BY DEF Reached
  <1>2. x \in Result
    BY DEF Reached, Result
  <1>3. \A v \in Vertex : v # None
    BY SizeAssumption DEF Vertex, None
  <1>4. ASSUME NEW p, Ring(x, p) PROVE FALSE
    <2>1. x.prev[p[1]] = p[Len(p)] /\ p[1] \in Vertex /\ p[Len(p)] \in Vertex
      <3>1. p \in [1 .. Len(p) -> Vertex] /\ Len(p) \in Nat /\ Len(p) # 0
        BY <1>4, LenProperties, EmptySeq DEF Ring
      <3> QED
        BY <1>4, <3>1 DEF Ring
    <2> QED
      BY <1>1, <1>3, <2>1
  <1> HIDE DEF x
  <1> QED
    BY <1>1, <1>2, <1>4, ValueAssumption DEF Tree, Grown, x

LEMMA TreeStep ==
  ASSUME NEW es, Graph(es), NEW s \in Vertex, NEW e \in es, NEW x \in Tree(es, s)
  PROVE  Relax(x, e) \in Tree(es, s)
  <1> DEFINE y == Relax(x, e)
             u == e.src
             w == e.dest
  <1>1. e \in AnyEdge /\ u \in Vertex /\ w \in Vertex /\ e.weight \in Int
    BY DEF Graph, AnyEdge
  <1>2. /\ x \in Result /\ x.dist[s] \in Int
        /\ \A v \in Vertex : x.prev[v] # None => Led(es, x, v)
        /\ \A v \in Vertex : x.dist[v] \in Int /\ x.prev[v] = None => v = s /\ x.dist[v] = 0
        /\ \A p : Ring(x, p) => IsNegativeCircle(es, p)
    BY DEF Tree, Grown
  <1>3. CASE ~Shorter(x, e)
    <2>1. y = x
      BY <1>3 DEF Relax
    <2> QED
      BY <2>1
  <1>4. CASE Shorter(x, e)
    <2>1. /\ y \in Result
          /\ x.dist[u] \in Int /\ (x.dist[w] \in Int => x.dist[u] + e.weight < x.dist[w])
          /\ y.dist[w] = x.dist[u] + e.weight /\ y.dist[w] \in Int /\ y.prev[w] = u
          /\ \A v \in Vertex : v # w => y.dist[v] = x.dist[v] /\ y.prev[v] = x.prev[v]
          /\ \A v \in Vertex : x.dist[v] \in Int => y.dist[v] \in Int /\ y.dist[v] <= x.dist[v]
      BY <1>1, <1>2, <1>4, RelaxIs
    <2> HIDE DEF y
    <2>2. e \in Joined(es, u, w)
      BY DEF Joined
    <2> HIDE DEF u, w
    <2>3. Cheapest(es, u, w) \in Int /\ Cheapest(es, u, w) <= e.weight
      BY <2>2, CheapestIs
    <2>4. \A v \in Vertex : v # None
      BY SizeAssumption DEF Vertex, None
    <2>5. ASSUME NEW v \in Vertex, y.prev[v] # None PROVE Led(es, y, v)
      <3>1. CASE v = w
        <4>1. y.dist[u] \in Int /\ y.dist[u] <= x.dist[u]
          BY <1>1, <2>1
        <4>2. y.dist[w] >= y.dist[u] + Cheapest(es, u, w)
          BY <1>1, <2>1, <2>3, <4>1
        <4> QED
          BY <2>1, <2>2, <3>1, <4>1, <4>2 DEF Led
      <3>2. CASE v # w
        <4> DEFINE z == x.prev[v]
        <4>1. y.prev[v] = z /\ y.dist[v] = x.dist[v] /\ z # None
          BY <2>1, <2>5, <3>2
        <4>2. z \in Vertex
          BY <1>2, <4>1 DEF Result
        <4>3. Joined(es, z, v) # {} /\ x.dist[z] \in Int /\ x.dist[v] \in Int /\ x.dist[v] >= x.dist[z] + Cheapest(es, z, v)
          BY <1>2, <4>1 DEF Led
        <4>4. y.dist[z] \in Int /\ y.dist[z] <= x.dist[z]
          BY <2>1, <4>2, <4>3
        <4>5. Cheapest(es, z, v) \in Int
          BY <4>3, CheapestIs
        <4> HIDE DEF z
        <4>6. x.dist[v] >= y.dist[z] + Cheapest(es, z, v)
          BY <4>3, <4>4, <4>5
        <4> QED
          BY <4>1, <4>3, <4>4, <4>6 DEF Led
      <3> QED
        BY <3>1, <3>2
    <2>6. \A v \in Vertex : y.dist[v] \in Int /\ y.prev[v] = None => v = s /\ y.dist[v] = 0
      BY <1>1, <1>2, <2>1, <2>4
    <2>7. ASSUME NEW p, Ring(y, p) PROVE IsNegativeCircle(es, p)
      <3> DEFINE n == Len(p)
      <3>1. /\ Route(es, p) /\ Joined(es, Last(p), Head(p)) # {}
            /\ n \in Nat /\ n >= 1 /\ Head(p) = p[1] /\ Last(p) = p[n]
            /\ \A i \in 1 .. n : p[i] \in Vertex /\ y.prev[p[i]] \in Vertex /\ y.prev[p[i]] # None
        <4>1. Grown(es, y)
          BY <2>5 DEF Grown
        <4> HIDE DEF n
        <4>2. /\ Route(es, p) /\ Joined(es, Last(p), Head(p)) # {}
              /\ Len(p) \in Nat /\ Len(p) >= 1 /\ Head(p) = p[1] /\ Last(p) = p[Len(p)]
              /\ \A i \in 1 .. Len(p) : p[i] \in Vertex /\ y.prev[p[i]] \in Vertex /\ y.prev[p[i]] # None
          BY <2>1, <2>7, <4>1, RingIs
        <4> QED
          BY <4>2 DEF n
      <3>2. /\ p \in Seq(Vertex) /\ p # <<>>
            /\ \A i, j \in 1 .. n : p[i] = p[j] => i = j
            /\ \A i \in 1 .. n - 1 : y.prev[p[i + 1]] = p[i]
            /\ y.prev[p[1]] = p[n]
        BY <2>7 DEF Ring
      <3> HIDE DEF n
      <3>3. CASE \A i \in 1 .. n : p[i] # w
        <4>1. \A i \in 1 .. n : x.prev[p[i]] = y.prev[p[i]]
          BY <2>1, <3>1, <3>3
        <4>2. ASSUME NEW i \in 1 .. n - 1 PROVE x.prev[p[i + 1]] = p[i]
          <5>1. i + 1 \in 1 .. n
            BY <3>1
          <5> QED
            BY <3>2, <4>1, <5>1
        <4>3. x.prev[p[1]] = p[n]
          BY <3>1, <3>2, <4>1
        <4>4. Ring(x, p)
          BY <3>2, <4>2, <4>3 DEF Ring, n
        <4> QED
          BY <1>2, <4>4
      <3>4. ASSUME NEW m \in 1 .. n, p[m] = w PROVE IsNegativeCircle(es, p)
        <4> DEFINE k == IF m = 1 THEN n ELSE m - 1
        <4>1. k \in 1 .. n
          BY <3>1
        <4>2. \A i \in 1 .. n : i # m => /\ x.prev[p[i]] = y.prev[p[i]] /\ Led(es, x, p[i])
          BY <1>2, <2>1, <3>1, <3>2, <3>4
        <4>3. x.dist[w] \in Int
          <5>1. PICK j \in 1 .. n : y.prev[p[j]] = w
            <6>1. CASE m = n
              BY <3>1, <3>2, <3>4, <6>1
            <6>2. CASE m # n
              <7>1. m \in 1 .. n - 1 /\ m + 1 \in 1 .. n
                BY <3>1, <6>2
              <7> QED
                BY <3>2, <3>4, <7>1
            <6> QED
              BY <6>1, <6>2
          <5>2. CASE j = m
            BY <2>1, <3>4, <5>1, <5>2
          <5>3. CASE j # m
            BY <4>2, <5>1, <5>3 DEF Led
          <5> QED
            BY <5>2, <5>3
        <4>4. \A i \in 1 .. n : x.dist[p[i]] \in Int
          BY <3>4, <4>2, <4>3 DEF Led
        <4>5. x.dist[w] > x.dist[u] + Cheapest(es, u, w)
          BY <1>1, <2>1, <2>3, <4>3
        <4>6. ASSUME NEW i \in 1 .. n - 1 PROVE Falls(es, x.dist, p[i], p[i + 1], i = k)
          <5>1. i + 1 \in 1 .. n /\ y.prev[p[i + 1]] = p[i]
            BY <3>1, <3>2
          <5>2. CASE i + 1 = m
            <6>1. (i = k) = TRUE /\ p[i] = u /\ p[i + 1] = w
              BY <2>1, <3>1, <3>4, <5>1, <5>2
            <6> QED
              BY <4>5, <6>1 DEF Falls
          <5>3. CASE i + 1 # m
            <6>1. (i = k) = FALSE
              BY <3>1, <5>3
            <6> QED
              BY <4>2, <5>1, <5>3, <6>1 DEF Falls, Led
          <5> QED
            BY <5>2, <5>3
        <4>7. Falls(es, x.dist, p[n], p[1], k = n)
          <5>1. CASE m = 1
            <6>1. (k = n) = TRUE /\ p[n] = u /\ p[1] = w
              BY <2>1, <3>1, <3>2, <3>4, <5>1
            <6> QED
              BY <4>5, <6>1 DEF Falls
          <5>2. CASE m # 1
            <6>1. (k = n) = FALSE /\ 1 \in 1 .. n
              BY <3>1, <5>2
            <6> QED
              BY <3>2, <4>2, <5>2, <6>1 DEF Falls, Led
          <5> QED
            BY <5>1, <5>2
        <4> HIDE DEF k
        <4> QED
          BY <3>1, <4>1, <4>4, <4>6, <4>7, Round DEF n
      <3> QED
        BY <3>3, <3>4
    <2>8. y.dist[s] \in Int
      BY <1>2, <2>1
    <2> QED
      BY <2>1, <2>5, <2>6, <2>7, <2>8 DEF Tree, Grown, y
  <1> QED
    BY <1>3, <1>4

LEMMA TreeKept ==
  ASSUME NEW es \in Seq(AnyEdge), NEW s \in Vertex, NEW n \in Nat
  PROVE  Passes(Reached(s), es, n) \in Tree(ToSet(es), s)
  <1>1. Graph(ToSet(es)) /\ Tree(ToSet(es), s) \in SUBSET Result
    BY GraphOf DEF Tree
  <1>2. Reached(s) \in Tree(ToSet(es), s)
    BY TreeStart
  <1>3. \A e \in ToSet(es), x \in Tree(ToSet(es), s) : Relax(x, e) \in Tree(ToSet(es), s)
    BY <1>1, TreeStep
  <1> QED
    BY <1>1, <1>2, <1>3, PassesIn

-----------------------------------------------------------------------------
(***************************************************************************)
(* The distances.                                                          *)
(***************************************************************************)
Still(es, x) == \A e \in es : ~Shorter(x, e)

(* Where nothing gets shorter, distances are known all along a path, and   *)
(* are at most what it costs.                                              *)
LEMMA Settled ==
  ASSUME NEW es, Graph(es), NEW x \in Result, Still(es, x), NEW p, Route(es, p), x.dist[Head(p)] \in Int
  PROVE  /\ x.dist[Last(p)] \in Int
         /\ x.dist[Last(p)] <= x.dist[Head(p)] + Cost(es, p)
  <1> DEFINE n == Len(p)
             Good == {i \in 0 .. n - 1 : x.dist[p[i + 1]] \in Int}
  <1>1. /\ n \in Nat /\ n >= 1 /\ Head(p) = p[1] /\ Last(p) = p[n]
        /\ \A i \in 1 .. n - 1 : Joined(es, p[i], p[i + 1]) # {}
    BY RouteIs
  <1> HIDE DEF n
  <1>2. ASSUME NEW i \in 1 .. n - 1, x.dist[p[i]] \in Int
        PROVE  x.dist[p[i + 1]] \in Int /\ x.dist[p[i + 1]] <= x.dist[p[i]] + Cheapest(es, p[i], p[i + 1])
    <2>1. Joined(es, p[i], p[i + 1]) # {}
      BY <1>1
    <2>2. PICK e \in Joined(es, p[i], p[i + 1]) : e.weight = Cheapest(es, p[i], p[i + 1])
      BY <2>1, CheapestIs
    <2>3. e \in es /\ e.src = p[i] /\ e.dest = p[i + 1]
      BY DEF Joined
    <2>4. e \in AnyEdge /\ ~Shorter(x, e)
      BY <2>3 DEF Graph, Still
    <2>5. Relax(x, e) = x
      BY <2>4 DEF Relax
    <2>6. x.dist[e.dest] \in Int /\ x.dist[e.dest] <= x.dist[e.src] + e.weight
      <3>1. x.dist[e.src] \in Int
        BY <1>2, <2>3
      <3> QED
        BY <2>4, <2>5, <3>1, RelaxIs
    <2> QED
      BY <2>2, <2>3, <2>6
  <1>3. 0 \in Good
    BY <1>1
  <1>4. ASSUME NEW i \in 0 .. (n - 1) - 1, i \in Good PROVE i + 1 \in Good
    <2>1. i + 1 \in 1 .. n - 1 /\ i + 1 \in 0 .. n - 1
      BY <1>1
    <2>2. x.dist[p[(i + 1) + 1]] \in Int
      BY <1>2, <1>4, <2>1
    <2> QED
      BY <2>1, <2>2
  <1>5. n - 1 \in Nat
    BY <1>1
  <1> HIDE DEF Good
  <1>6. \A i \in 0 .. n - 1 : i \in Good
    BY <1>3, <1>4, <1>5, Induction
  <1>7. \A i \in 1 .. n : x.dist[p[i]] \in Int
    <2> TAKE i \in 1 .. n
    <2>1. i - 1 \in 0 .. n - 1 /\ (i - 1) + 1 = i
      BY <1>1
    <2> QED
      BY <1>6, <2>1 DEF Good
  <1>8. \A i \in 1 .. n - 1 : x.dist[p[i + 1]] <= x.dist[p[i]] + Cheapest(es, p[i], p[i + 1])
    <2> TAKE i \in 1 .. n - 1
    <2>1. i \in 1 .. n
      BY <1>1
    <2> QED
      BY <1>2, <1>7, <2>1
  <1>9. x.dist[Last(p)] <= x.dist[Head(p)] + Cost(es, p)
    BY <1>7, <1>8, Along DEF n
  <1> QED
    BY <1>1, <1>7, <1>9

LEMMA StillFree ==
  ASSUME NEW es, Graph(es), NEW s \in Vertex, NEW x \in Result, x.dist[s] \in Int, Still(es, x)
  PROVE  ~Trapped(es, s)
  <1> SUFFICES ASSUME NEW p, p \in SimplePaths(es), IsNegativeCircle(es, p), Paths(es, s, Head(p)) # {}
               PROVE  FALSE
    BY DEF Trapped
  <1>1. PICK q \in Paths(es, s, Head(p)) : TRUE
    OBVIOUS
  <1>2. Route(es, q) /\ Head(q) = s /\ Last(q) = Head(p) /\ Route(es, p)
    BY RouteIs DEF Paths
  <1>3. x.dist[Head(p)] \in Int
    BY <1>2, Settled
  <1>4. x.dist[Last(p)] \in Int /\ x.dist[Last(p)] <= x.dist[Head(p)] + Cost(es, p)
    BY <1>2, <1>3, Settled
  <1>5. PICK e \in Joined(es, Last(p), Head(p)) : Cost(es, p) + e.weight < 0
    BY DEF IsNegativeCircle
  <1>6. e \in AnyEdge /\ e.src = Last(p) /\ e.dest = Head(p) /\ ~Shorter(x, e)
    BY DEF Joined, Graph, Still
  <1>7. e.weight \in Int
    BY <1>6 DEF AnyEdge
  <1>8. Cost(es, p) \in Int
    BY <1>2, CostIs, CostBy
  <1>9. ~(x.dist[Last(p)] + e.weight < x.dist[Head(p)])
    BY <1>3, <1>4, <1>6, RelaxIs
  <1> QED
    BY <1>3, <1>4, <1>5, <1>7, <1>8, <1>9

(* No distance is below the shortest.                                      *)
Above(es, s) ==
  {x \in Result : \A v \in Vertex :
     x.dist[v] \in Int => Paths(es, s, v) # {} /\ Shortest(es, s, v) <= x.dist[v]}

LEMMA AboveStep ==
  ASSUME NEW es, Graph(es), NEW s \in Vertex, ~Trapped(es, s), NEW e \in es, NEW x \in Above(es, s)
  PROVE  Relax(x, e) \in Above(es, s)
  <1> DEFINE y == Relax(x, e)
  <1>1. e \in AnyEdge /\ x \in Result /\ e.src \in Vertex /\ e.dest \in Vertex /\ e.weight \in Int
    BY DEF Graph, Above, AnyEdge
  <1>2. /\ y \in Result
        /\ Shorter(x, e) => x.dist[e.src] \in Int /\ y.dist[e.dest] = x.dist[e.src] + e.weight
        /\ \A v \in Vertex : v # e.dest \/ ~Shorter(x, e) => y.dist[v] = x.dist[v]
    BY <1>1, RelaxIs
  <1> HIDE DEF y
  <1>3. ASSUME NEW v \in Vertex, y.dist[v] \in Int
        PROVE  Paths(es, s, v) # {} /\ Shortest(es, s, v) <= y.dist[v]
    <2>1. CASE v # e.dest \/ ~Shorter(x, e)
      BY <1>2, <1>3, <2>1 DEF Above
    <2>2. CASE v = e.dest /\ Shorter(x, e)
      <3>1. Paths(es, s, e.src) # {} /\ Shortest(es, s, e.src) <= x.dist[e.src] /\ x.dist[e.src] \in Int
        BY <1>1, <1>2, <2>2 DEF Above
      <3>2. Paths(es, s, v) # {} /\ Shortest(es, s, v) <= Shortest(es, s, e.src) + e.weight
        BY <2>2, <3>1, Triangle
      <3>3. Shortest(es, s, v) \in Int /\ Shortest(es, s, e.src) \in Int
        BY <3>1, <3>2, ShortestIs
      <3> QED
        BY <1>1, <1>2, <2>2, <3>1, <3>2, <3>3
    <2> QED
      BY <2>1, <2>2
  <1> QED
    BY <1>2, <1>3 DEF Above, y

LEMMA AboveKept ==
  ASSUME NEW es \in Seq(AnyEdge), NEW s \in Vertex, NEW n \in Nat, ~Trapped(ToSet(es), s)
  PROVE  Passes(Reached(s), es, n) \in Above(ToSet(es), s)
  <1>1. Graph(ToSet(es)) /\ Above(ToSet(es), s) \in SUBSET Result
    BY GraphOf DEF Above
  <1>2. Reached(s) \in Above(ToSet(es), s)
    <2>1. Reached(s) \in Result
      BY DEF Reached, Result
    <2>2. \A v \in Vertex : Reached(s).dist[v] = IF v = s THEN 0 ELSE Inf
      BY DEF Reached
    <2>3. Paths(ToSet(es), s, s) # {} /\ Shortest(ToSet(es), s, s) = 0
      BY <1>1, Nowhere
    <2> QED
      BY <2>1, <2>2, <2>3, ValueAssumption DEF Above
  <1>3. \A e \in ToSet(es), x \in Above(ToSet(es), s) : Relax(x, e) \in Above(ToSet(es), s)
    BY <1>1, AboveStep
  <1> QED
    BY <1>1, <1>2, <1>3, PassesIn

(* Paths from s of at most that many edges.                                *)
Within(es, s, k, p) == Route(es, p) /\ Head(p) = s /\ Len(p) <= k + 1

(* So many passes see all of those paths; the edges of the next pass that  *)
(* are done also what they add to one.                                     *)
Near(es, s, k) ==
  {x \in Result : \A p : Within(es, s, k, p) => x.dist[Last(p)] \in Int /\ x.dist[Last(p)] <= Cost(es, p)}

Nearer(es, s, k, old) ==
  {x \in Near(es, s, k) : \A e \in old, p \in Seq(Vertex) :
     Within(es, s, k, p) /\ Last(p) = e.src =>
       x.dist[e.dest] \in Int /\ x.dist[e.dest] <= Cost(es, p) + e.weight}

LEMMA NearStart ==
  ASSUME NEW es, Graph(es), NEW s \in Vertex
  PROVE  Reached(s) \in Near(es, s, 0)
  <1> DEFINE x == Reached(s)
  <1>1. x \in Result /\ x.dist[s] = 0
    BY DEF Reached, Result
  <1> HIDE DEF x
  <1>2. ASSUME NEW p, Within(es, s, 0, p) PROVE Last(p) = s /\ Cost(es, p) = 0
    <2>1. Route(es, p) /\ Head(p) = s /\ Len(p) = 1 /\ Head(p) = p[1] /\ Last(p) = p[1]
      <3>1. Route(es, p) /\ Head(p) = s /\ Len(p) <= 0 + 1
        BY <1>2 DEF Within
      <3>2. Len(p) \in 1 .. N /\ Head(p) = p[1] /\ Last(p) = p[Len(p)]
        BY <3>1, RouteIs
      <3>3. Len(p) = 1
        BY <3>1, <3>2, SizeAssumption
      <3> QED
        BY <3>1, <3>2, <3>3
    <2>2. PICK f : Adds(es, p, f) /\ Cost(es, p) = f[Len(p) - 1]
      BY <2>1, CostIs
    <2>3. f[0] = 0 /\ Len(p) - 1 = 0
      BY <2>1, <2>2 DEF Adds
    <2> QED
      BY <2>1, <2>2, <2>3
  <1> QED
    BY <1>1, <1>2 DEF Near, x

LEMMA NearStep ==
  ASSUME NEW es, Graph(es), NEW s \in Vertex, NEW k \in Nat, NEW old \in SUBSET es, NEW e \in es,
         NEW x \in Nearer(es, s, k, old)
  PROVE  Relax(x, e) \in Nearer(es, s, k, old \cup {e})
  <1> DEFINE y == Relax(x, e)
  <1>1. x \in Result /\ x \in Near(es, s, k) /\ es \in SUBSET AnyEdge
    BY DEF Near, Nearer, Graph
  <1>2. /\ y \in Result
        /\ \A v \in Vertex : x.dist[v] \in Int => y.dist[v] \in Int /\ y.dist[v] <= x.dist[v]
        /\ x.dist[e.src] \in Int => y.dist[e.dest] \in Int /\ y.dist[e.dest] <= x.dist[e.src] + e.weight
    BY <1>1, RelaxIs
  <1> HIDE DEF y
  <1>3. ASSUME NEW p, Within(es, s, k, p)
        PROVE  /\ Last(p) \in Vertex /\ Cost(es, p) \in Int
               /\ x.dist[Last(p)] \in Int /\ x.dist[Last(p)] <= Cost(es, p)
    <2>1. Route(es, p)
      BY <1>3 DEF Within
    <2>2. Last(p) \in Vertex
      BY <2>1, RouteIs
    <2>3. Cost(es, p) \in Int
      BY <2>1, CostIs, CostBy
    <2> QED
      BY <1>1, <1>3, <2>2, <2>3 DEF Near
  <1>4. ASSUME NEW p, Within(es, s, k, p)
        PROVE  y.dist[Last(p)] \in Int /\ y.dist[Last(p)] <= Cost(es, p)
    BY <1>2, <1>3, <1>4
  <1>5. y \in Near(es, s, k)
    BY <1>2, <1>4 DEF Near
  <1>6. ASSUME NEW a \in old \cup {e}, NEW p \in Seq(Vertex), Within(es, s, k, p), Last(p) = a.src
        PROVE  y.dist[a.dest] \in Int /\ y.dist[a.dest] <= Cost(es, p) + a.weight
    <2>1. a \in AnyEdge /\ a.dest \in Vertex /\ a.weight \in Int
      BY <1>1 DEF AnyEdge
    <2>2. Cost(es, p) \in Int /\ x.dist[a.src] \in Int /\ x.dist[a.src] <= Cost(es, p)
      BY <1>3, <1>6
    <2>3. CASE a = e
      <3>1. y.dist[a.dest] \in Int /\ y.dist[a.dest] <= x.dist[a.src] + a.weight
        BY <1>2, <2>2, <2>3
      <3> QED
        BY <2>1, <2>2, <3>1
    <2>4. CASE a \in old
      <3>1. x.dist[a.dest] \in Int /\ x.dist[a.dest] <= Cost(es, p) + a.weight
        BY <1>6, <2>4 DEF Nearer
      <3>2. y.dist[a.dest] \in Int /\ y.dist[a.dest] <= x.dist[a.dest]
        BY <1>2, <2>1, <3>1
      <3> QED
        BY <2>1, <2>2, <3>1, <3>2
    <2> QED
      BY <2>3, <2>4
  <1> QED
    BY <1>5, <1>6 DEF Nearer, y

(* The last edge of a path, and what leads to it.                          *)
EndsWith(es, s, k, p, q, e) ==
  /\ q \in Seq(Vertex) /\ e \in es
  /\ Within(es, s, k, q) /\ Last(q) = e.src /\ Last(p) = e.dest
  /\ Cost(es, p) = Cost(es, q) + e.weight

LEMMA LastEdge ==
  ASSUME NEW es, Graph(es), NEW s \in Vertex, NEW k \in Nat, NEW p, Within(es, s, k + 1, p), Len(p) > k + 1
  PROVE  \E q, e : EndsWith(es, s, k, p, q, e)
  <1> DEFINE n == Len(p)
             q == SubSeq(p, 1, n - 1)
  <1>1. Route(es, p) /\ Head(p) = s
    BY DEF Within
  <1>2. /\ n \in Nat /\ Head(p) = p[1] /\ Last(p) = p[n]
        /\ \A i \in 1 .. n - 1 : Joined(es, p[i], p[i + 1]) # {}
    BY <1>1, RouteIs
  <1>3. n = k + 2
    BY <1>2 DEF Within
  <1>4. PICK f : Adds(es, p, f) /\ Cost(es, p) = f[n - 1]
    BY <1>1, CostIs
  <1>5. /\ Route(es, q) /\ Len(q) = (n - 1) - 1 + 1 /\ Cost(es, q) = f[(n - 1) - 1] - f[1 - 1]
        /\ Head(q) = p[1] /\ Last(q) = p[n - 1]
    <2>1. 1 \in 1 .. Len(p) /\ n - 1 \in 1 .. Len(p)
      BY <1>2, <1>3
    <2> QED
      BY <1>1, <1>4, <2>1, PartIs
  <1> HIDE DEF n, q
  <1>6. n - 1 \in 1 .. n - 1 /\ (n - 1) + 1 = n /\ (n - 1) - 1 \in 0 .. n - 1
    BY <1>2, <1>3
  <1>7. PICK e \in Joined(es, p[n - 1], p[n]) : e.weight = Cheapest(es, p[n - 1], p[n])
    <2>1. Joined(es, p[n - 1], p[n]) # {}
      BY <1>2, <1>6
    <2> QED
      BY <2>1, CheapestIs
  <1>8. f[0] = 0 /\ f[n - 1] = f[(n - 1) - 1] + Cheapest(es, p[n - 1], p[n]) /\ f[(n - 1) - 1] \in Int
    BY <1>4, <1>6 DEF Adds, n
  <1>9. Cost(es, q) = f[(n - 1) - 1]
    BY <1>5, <1>8
  <1>10. Within(es, s, k, q)
    BY <1>1, <1>2, <1>3, <1>5 DEF Within
  <1>11. q \in Seq(Vertex) /\ e \in es /\ e.src = p[n - 1] /\ e.dest = p[n]
    BY <1>5 DEF Route, Joined
  <1>12. Cost(es, p) = Cost(es, q) + e.weight
    BY <1>4, <1>7, <1>8, <1>9
  <1> QED
    BY <1>2, <1>5, <1>10, <1>11, <1>12 DEF EndsWith

LEMMA NearPass ==
  ASSUME NEW es \in Seq(AnyEdge), NEW s \in Vertex, NEW k \in Nat, NEW x \in Near(ToSet(es), s, k)
  PROVE  Pass(x, es) \in Near(ToSet(es), s, k + 1)
  <1> DEFINE G == ToSet(es)
             n == Len(es)
             old(i) == {es[j] : j \in 1 .. i}
             K == [i \in 0 .. n |-> Nearer(G, s, k, old(i))]
  <1>1. Graph(G) /\ n \in Nat /\ G = {es[j] : j \in 1 .. n}
    BY GraphOf, LenProperties DEF ToSet
  <1> HIDE DEF G, n
  <1>2. \A i \in 0 .. n : old(i) \in SUBSET G /\ K[i] = Nearer(G, s, k, old(i)) /\ K[i] \in SUBSET Result
    BY <1>1 DEF Nearer, Near
  <1>3. K \in [0 .. n -> SUBSET Result]
    BY <1>2
  <1>4. x \in K[0]
    <2>1. old(0) = {} /\ 0 \in 0 .. n
      BY <1>1
    <2>2. x \in Nearer(G, s, k, {})
      BY DEF Nearer, G
    <2> HIDE DEF K, old
    <2> QED
      BY <1>2, <2>1, <2>2
  <1>5. ASSUME NEW i \in 1 .. n, NEW z \in K[i - 1] PROVE Relax(z, es[i]) \in K[i]
    <2>1. i - 1 \in 0 .. n /\ i \in 0 .. n /\ es[i] \in G /\ old(i) = old(i - 1) \cup {es[i]}
      BY <1>1
    <2> HIDE DEF K, old
    <2>2. z \in Nearer(G, s, k, old(i - 1)) /\ old(i - 1) \in SUBSET G
      BY <1>2, <1>5, <2>1
    <2>3. Relax(z, es[i]) \in Nearer(G, s, k, old(i - 1) \cup {es[i]})
      BY <1>1, <2>1, <2>2, NearStep
    <2> QED
      BY <1>2, <2>1, <2>3
  <1> HIDE DEF K
  <1>6. Pass(x, es) \in K[n]
    BY <1>3, <1>4, <1>5, PassLeads DEF n
  <1> DEFINE y == Pass(x, es)
  <1>7. y \in Nearer(G, s, k, G)
    <2>1. n \in 0 .. n /\ old(n) = G
      BY <1>1
    <2> HIDE DEF old
    <2> QED
      BY <1>2, <1>6, <2>1
  <1> HIDE DEF y
  <1>8. ASSUME NEW p, Within(G, s, k + 1, p)
        PROVE  y.dist[Last(p)] \in Int /\ y.dist[Last(p)] <= Cost(G, p)
    <2>1. CASE Len(p) > k + 1
      <3>1. PICK q, e : EndsWith(G, s, k, p, q, e)
        BY <1>1, <1>8, <2>1, LastEdge
      <3> QED
        BY <1>7, <3>1 DEF Nearer, EndsWith
    <2>2. CASE ~(Len(p) > k + 1)
      <3>1. Len(p) \in Nat
        <4>1. Route(G, p)
          BY <1>8 DEF Within
        <4> QED
          BY <4>1, RouteIs
      <3>2. Within(G, s, k, p)
        BY <1>8, <2>2, <3>1 DEF Within
      <3> QED
        BY <1>7, <3>2 DEF Nearer, Near
    <2> QED
      BY <2>1, <2>2
  <1>9. y \in Result
    BY <1>7 DEF Nearer, Near
  <1> QED
    BY <1>8, <1>9 DEF Near, y, G

LEMMA NearKept ==
  ASSUME NEW es \in Seq(AnyEdge), NEW s \in Vertex, NEW n \in Nat
  PROVE  Passes(Reached(s), es, n) \in Near(ToSet(es), s, n)
  <1> DEFINE G == ToSet(es)
             K == [k \in 0 .. n |-> Near(G, s, k)]
  <1>1. Graph(G)
    BY GraphOf
  <1>2. ASSUME NEW k \in Nat, NEW x \in Near(G, s, k) PROVE Pass(x, es) \in Near(G, s, k + 1)
    BY <1>2, NearPass
  <1> HIDE DEF G
  <1>3. \A k \in 0 .. n : K[k] = Near(G, s, k) /\ K[k] \in SUBSET Result
    BY DEF Near
  <1>4. K \in [0 .. n -> SUBSET Result]
    BY <1>3
  <1> HIDE DEF K
  <1>5. Reached(s) \in K[0]
    BY <1>1, <1>3, NearStart
  <1>6. ASSUME NEW k \in 1 .. n, NEW x \in K[k - 1] PROVE Pass(x, es) \in K[k]
    <2>1. k - 1 \in 0 .. n /\ k - 1 \in Nat /\ (k - 1) + 1 = k /\ k \in 0 .. n
      OBVIOUS
    <2>2. x \in Near(G, s, k - 1)
      BY <1>3, <1>6, <2>1
    <2>3. Pass(x, es) \in Near(G, s, (k - 1) + 1)
      BY <1>2, <2>1, <2>2
    <2> QED
      BY <1>3, <2>1, <2>3
  <1>7. Passes(Reached(s), es, n) \in K[n]
    BY <1>4, <1>5, <1>6, PassesLead DEF Leads
  <1> QED
    BY <1>3, <1>7 DEF G

(* With as many passes as the longest path has edges, something still gets *)
(* shorter exactly where there is a circle to be trapped in; otherwise the *)
(* distances are the shortest.                                             *)
LEMMA Relaxed ==
  ASSUME NEW es \in Seq(AnyEdge), NEW s \in Vertex, NEW n \in Nat,
         \A p : Route(ToSet(es), p) => Len(p) <= n + 1
  PROVE  LET r == Passes(Reached(s), es, n) IN
         /\ r \in Tree(ToSet(es), s)
         /\ Shortens(r, es) <=> Trapped(ToSet(es), s)
         /\ ~Trapped(ToSet(es), s) =>
              r \in Above(ToSet(es), s) /\ \A v \in Vertex : r.dist[v] = Shortest(ToSet(es), s, v)
  <1> DEFINE G == ToSet(es)
             r == Passes(Reached(s), es, n)
  <1>1. Graph(G) /\ r \in Tree(G, s) /\ r \in Near(G, s, n)
    BY GraphOf, TreeKept, NearKept
  <1>2. r \in Result /\ r.dist[s] \in Int
    BY <1>1 DEF Tree
  <1>3. Shortens(r, es) <=> ~Still(G, r)
    BY DEF Shortens, Still, ToSet
  <1>4. ~Trapped(G, s) => r \in Above(G, s)
    BY AboveKept
  <1>5. \A p : Route(G, p) => Len(p) <= n + 1
    OBVIOUS
  <1> HIDE DEF G, r
  <1>6. ~Shortens(r, es) => ~Trapped(G, s)
    BY <1>1, <1>2, <1>3, StillFree
  <1>7. ASSUME ~Trapped(G, s), NEW v \in Vertex PROVE r.dist[v] = Shortest(G, s, v)
    <2>1. CASE Paths(G, s, v) = {}
      <3>1. r.dist[v] \notin Int
        BY <1>4, <1>7, <2>1 DEF Above
      <3>2. r.dist[v] = Inf
        BY <1>2, <3>1 DEF Result
      <3> QED
        BY <1>1, <2>1, <3>2, ShortestIs
    <2>2. CASE Paths(G, s, v) # {}
      <3>1. PICK p \in Paths(G, s, v) : Cost(G, p) = Shortest(G, s, v)
        BY <1>1, <2>2, ShortestIs
      <3>2. Route(G, p) /\ Head(p) = s /\ Last(p) = v
        BY RouteIs DEF Paths
      <3>3. Within(G, s, n, p)
        BY <1>5, <3>2 DEF Within
      <3>4. r.dist[v] \in Int /\ r.dist[v] <= Shortest(G, s, v)
        BY <1>1, <3>1, <3>2, <3>3 DEF Near
      <3>5. Shortest(G, s, v) <= r.dist[v] /\ Shortest(G, s, v) \in Int
        BY <1>1, <1>4, <1>7, <2>2, <3>4, ShortestIs DEF Above
      <3> QED
        BY <3>4, <3>5
    <2> QED
      BY <2>1, <2>2
  <1>8. ASSUME ~Trapped(G, s), NEW e \in G PROVE ~Shorter(r, e)
    <2>1. e \in AnyEdge /\ e.src \in Vertex /\ e.dest \in Vertex /\ e.weight \in Int
      BY <1>1 DEF Graph, AnyEdge
    <2> SUFFICES ASSUME r.dist[e.src] \in Int
                 PROVE  r.dist[e.dest] \in Int /\ ~(r.dist[e.src] + e.weight < r.dist[e.dest])
      BY <1>2, <2>1, RelaxIs
    <2>2. Paths(G, s, e.src) # {} /\ r.dist[e.src] = Shortest(G, s, e.src)
      BY <1>4, <1>7, <1>8, <2>1 DEF Above
    <2>3. Paths(G, s, e.dest) # {} /\ Shortest(G, s, e.dest) <= Shortest(G, s, e.src) + e.weight
      BY <1>1, <1>8, <2>2, Triangle
    <2>4. r.dist[e.dest] = Shortest(G, s, e.dest) /\ Shortest(G, s, e.dest) \in Int
      BY <1>1, <1>7, <1>8, <2>1, <2>3, ShortestIs
    <2> QED
      BY <2>1, <2>2, <2>3, <2>4
  <1>9. ~Trapped(G, s) => ~Shortens(r, es)
    BY <1>3, <1>8 DEF Still
  <1> QED
    BY <1>1, <1>4, <1>6, <1>7, <1>9 DEF G, r

(* N - 1 passes are enough.                                                *)
LEMMA Enough ==
  ASSUME NEW es \in Seq(AnyEdge), NEW s \in Vertex
  PROVE  LET r == Passes(Reached(s), es, N - 1) IN
         /\ r \in Tree(ToSet(es), s)
         /\ Shortens(r, es) <=> Trapped(ToSet(es), s)
         /\ ~Trapped(ToSet(es), s) =>
              r \in Above(ToSet(es), s) /\ \A v \in Vertex : r.dist[v] = Shortest(ToSet(es), s, v)
  <1>1. N - 1 \in Nat
    BY SizeAssumption
  <1>2. \A p : Route(ToSet(es), p) => Len(p) <= (N - 1) + 1
    BY RouteIs, SizeAssumption
  <1> QED
    BY <1>1, <1>2, Relaxed

-----------------------------------------------------------------------------
(***************************************************************************)
(* PrintShortestPaths.                                                     *)
(***************************************************************************)
(* A path to v that follows the predecessors.                              *)
Back(es, x, v) ==
  {p \in SimplePaths(es) : Last(p) = v /\ \A i \in 1 .. Len(p) - 1 : x.prev[p[i + 1]] = p[i]}

Longer(x, p) == IF x.prev[Head(p)] = None THEN p ELSE <<x.prev[Head(p)]>> \o p

LEMMA LongerIs ==
  ASSUME NEW es, Graph(es), NEW s \in Vertex, ~Trapped(es, s), NEW x \in Tree(es, s), x \in Above(es, s),
         NEW v \in Vertex, NEW p \in Back(es, x, v)
  PROVE  /\ Longer(x, p) \in Back(es, x, v)
         /\ x.prev[Head(p)] # None => Len(Longer(x, p)) = Len(p) + 1
  <1>1. CASE x.prev[Head(p)] = None
    BY <1>1 DEF Longer
  <1>2. CASE x.prev[Head(p)] # None
    <2> DEFINE n == Len(p)
               u == x.prev[Head(p)]
               q == <<u>> \o p
    <2>1. Route(es, p) /\ Last(p) = v /\ \A i \in 1 .. n - 1 : x.prev[p[i + 1]] = p[i]
      BY RouteIs DEF Back
    <2>2. /\ n \in Nat /\ n >= 1 /\ p \in Seq(Vertex) /\ p[1] \in Vertex /\ Head(p) = p[1] /\ Last(p) = p[n]
          /\ \A i, j \in 1 .. n : p[i] = p[j] => i = j
          /\ \A i \in 1 .. n - 1 : Joined(es, p[i], p[i + 1]) # {}
      <3>1. p \in Seq(Vertex)
        BY <2>1 DEF Route
      <3> HIDE DEF n
      <3>2. Len(p) \in 1 .. N /\ p[1] \in Vertex /\ Head(p) = p[1] /\ Last(p) = p[Len(p)]
        BY <2>1, RouteIs
      <3>3. \A i, j \in 1 .. Len(p) : p[i] = p[j] => i = j
        BY <2>1, RouteIs
      <3>4. \A i \in 1 .. Len(p) - 1 : Joined(es, p[i], p[i + 1]) # {}
        BY <2>1, RouteIs
      <3> QED
        BY <3>1, <3>2, <3>3, <3>4, SizeAssumption DEF n
    <2>3. x \in Result /\ Grown(es, x) /\ \A c : Ring(x, c) => IsNegativeCircle(es, c)
      BY DEF Tree
    <2>4. u \in Vertex /\ Joined(es, u, p[1]) # {} /\ x.dist[p[1]] \in Int
      BY <1>2, <2>2, <2>3 DEF Grown, Led, Result
    <2> HIDE DEF n, u
    <2>5. ASSUME NEW j \in 1 .. n, p[j] = u PROVE FALSE
      <3> DEFINE c == SubSeq(p, 1, j)
      <3>1. 1 \in 1 .. n /\ j \in 1 .. n
        BY <2>2
      <3>2. PICK f : Adds(es, p, f) /\ Cost(es, p) = f[n - 1]
        BY <2>1, CostIs DEF n
      <3>3. /\ Route(es, c) /\ Len(c) = j - 1 + 1 /\ \A i \in 1 .. j - 1 + 1 : c[i] = p[1 + i - 1]
            /\ Head(c) = p[1]
        BY <2>1, <3>1, <3>2, PartIs DEF n
      <3> HIDE DEF c
      <3>4. Len(c) = j /\ \A i \in 1 .. j : c[i] = p[i]
        <4>1. j - 1 + 1 = j
          BY <3>1
        <4>2. \A i \in 1 .. j : 1 + i - 1 = i
          OBVIOUS
        <4> QED
          BY <3>3, <4>1, <4>2
      <3>5. ASSUME NEW i \in 1 .. j - 1 PROVE x.prev[c[i + 1]] = c[i]
        <4>1. i \in 1 .. n - 1 /\ i \in 1 .. j /\ i + 1 \in 1 .. j
          BY <2>2
        <4> QED
          BY <2>1, <3>4, <4>1 DEF n
      <3>6. \A a, b \in 1 .. j : c[a] = c[b] => a = b
        BY <2>2, <3>4
      <3>7. x.prev[c[1]] = c[j]
        BY <2>2, <2>5, <3>4 DEF u
      <3>8. Ring(x, c)
        BY <3>3, <3>4, <3>5, <3>6, <3>7 DEF Ring, Route
      <3>9. IsNegativeCircle(es, c) /\ c \in SimplePaths(es)
        BY <2>3, <3>8 DEF IsNegativeCircle
      <3>10. Paths(es, s, p[1]) # {}
        BY <2>2, <2>4 DEF Above
      <3> QED
        BY <3>3, <3>9, <3>10 DEF Trapped
    <2>6. /\ q \in Seq(Vertex) /\ q # <<>> /\ Len(q) = n + 1 /\ q[1] = u
          /\ \A i \in 1 .. n : q[i + 1] = p[i]
      <3>1. <<u>> \in Seq(Vertex) /\ Len(<<u>>) = 1 /\ <<u>>[1] = u
        BY <2>4
      <3>2. q \in Seq(Vertex) /\ Len(q) = n + 1
        BY <2>2, <3>1 DEF n
      <3>3. q[1] = u
        BY <2>2, <3>1
      <3>4. ASSUME NEW i \in 1 .. n PROVE q[i + 1] = p[i]
        <4>1. i + 1 \in 1 .. 1 + n /\ i + 1 > 1 /\ (i + 1) - 1 = i
          BY <2>2
        <4> QED
          BY <2>2, <3>1, <4>1 DEF n
      <3>5. q # <<>>
        BY <2>2, <3>2
      <3> QED
        BY <3>2, <3>3, <3>4, <3>5
    <2> HIDE DEF q
    <2>7. \A i \in 2 .. n + 1 : i - 1 \in 1 .. n /\ q[i] = p[i - 1]
      <3> TAKE i \in 2 .. n + 1
      <3>1. i - 1 \in 1 .. n /\ (i - 1) + 1 = i
        BY <2>2
      <3> QED
        BY <2>6, <3>1
    <2>8. \A i \in 1 .. n + 1 : i = 1 \/ i \in 2 .. n + 1
      BY <2>2
    <2>9. ASSUME NEW a \in 1 .. n + 1, NEW b \in 1 .. n + 1, q[a] = q[b] PROVE a = b
      <3>1. CASE a = 1 /\ b = 1
        BY <3>1
      <3>2. CASE a = 1 /\ b \in 2 .. n + 1
        BY <2>5, <2>6, <2>7, <2>9, <3>2
      <3>3. CASE a \in 2 .. n + 1 /\ b = 1
        BY <2>5, <2>6, <2>7, <2>9, <3>3
      <3>4. CASE a \in 2 .. n + 1 /\ b \in 2 .. n + 1
        <4>1. a - 1 = b - 1
          BY <2>2, <2>7, <2>9, <3>4
        <4> QED
          BY <3>4, <4>1
      <3> QED
        BY <2>8, <3>1, <3>2, <3>3, <3>4
    <2>10. ASSUME NEW i \in 1 .. n PROVE Joined(es, q[i], q[i + 1]) # {} /\ x.prev[q[i + 1]] = q[i]
      <3>1. CASE i = 1
        <4>1. q[i] = u /\ q[i + 1] = p[1]
          BY <2>2, <2>6, <3>1
        <4> QED
          BY <2>2, <2>4, <4>1 DEF u
      <3>2. CASE i # 1
        <4>1. i \in 2 .. n + 1 /\ i - 1 \in 1 .. n - 1 /\ (i - 1) + 1 = i
          BY <2>2, <3>2
        <4>2. q[i] = p[i - 1] /\ q[i + 1] = p[(i - 1) + 1]
          BY <2>6, <2>7, <4>1
        <4> QED
          BY <2>1, <2>2, <4>1, <4>2 DEF n
      <3> QED
        BY <3>1, <3>2
    <2>11. DOMAIN q = 1 .. n + 1 /\ Last(q) = v /\ (n + 1) - 1 = n
      <3>1. Last(q) = q[n + 1]
        BY <2>6 DEF Last
      <3>2. q[n + 1] = p[n]
        BY <2>2, <2>6
      <3> QED
        BY <2>1, <2>2, <2>6, <3>1, <3>2
    <2>12. Route(es, q)
      BY <2>6, <2>9, <2>10, <2>11 DEF Route, IsSimplePath
    <2>13. q \in Back(es, x, v)
      BY <2>6, <2>10, <2>11, <2>12, RouteIs DEF Back
    <2> QED
      BY <1>2, <2>6, <2>13 DEF Longer, q, u, n
  <1> QED
    BY <1>1, <1>2

LEMMA PathIs ==
  ASSUME NEW es, Graph(es), NEW s \in Vertex, ~Trapped(es, s), NEW x \in Tree(es, s), x \in Above(es, s),
         NEW v \in Vertex, x.dist[v] \in Int, x.dist[v] = Shortest(es, s, v)
  PROVE  LET p == ShortestPath(x.prev, v) IN p \in Paths(es, s, v) /\ Cost(es, p) = x.dist[v]
  <1> DEFINE S == Back(es, x, v)
             step == [i \in 1 .. N - 1 |-> [p \in S |-> Longer(x, p)]]
             To(g, i) == IF i = 0 THEN <<v>>
                         ELSE IF x.prev[Head(g[i - 1])] = None THEN g[i - 1]
                         ELSE <<x.prev[Head(g[i - 1])]>> \o g[i - 1]
             f == CHOOSE g : g = [i \in Vertex |-> To(g, i)]
             Done(p, i) == x.prev[Head(p)] = None \/ Len(p) = i + 1
  <1>1. N - 1 \in Nat /\ Vertex = 0 .. N - 1
    BY SizeAssumption DEF Vertex
  <1>2. \A p \in S : Longer(x, p) \in S /\ (x.prev[Head(p)] # None => Len(Longer(x, p)) = Len(p) + 1)
    BY LongerIs
  <1>3. <<v>> \in S
    <2>1. <<v>> \in Paths(es, v, v) /\ Len(<<v>>) = 1
      BY Nowhere
    <2>2. <<v>> \in SimplePaths(es) /\ Last(<<v>>) = v
      BY <2>1 DEF Paths
    <2>3. 1 .. Len(<<v>>) - 1 = {}
      BY <2>1
    <2> QED
      BY <2>2, <2>3 DEF Back
  <1>4. step \in Steps(N - 1, S) /\ \A i \in 1 .. N - 1, p \in S : step[i][p] = Longer(x, p)
    BY <1>2 DEF Steps
  <1> HIDE DEF S, step
  <1>5. PICK h \in [0 .. N - 1 -> S] : h[0] = <<v>> /\ \A i \in 1 .. N - 1 : h[i] = step[i][h[i - 1]]
    <2> DEFINE m == N - 1
               start == <<v>>
    <2>1. m \in Nat /\ start \in S /\ step \in Steps(m, S)
      BY <1>1, <1>3, <1>4
    <2> HIDE DEF m, start
    <2>2. \E g \in [0 .. m -> S] : g[0] = start /\ \A i \in 1 .. m : g[i] = step[i][g[i - 1]]
      BY <2>1, Recursion DEF Runs
    <2> QED
      BY <2>2 DEF m, start
  <1>6. ASSUME NEW i \in 1 .. N - 1 PROVE h[i - 1] \in S /\ h[i] = Longer(x, h[i - 1])
    <2>1. i - 1 \in 0 .. N - 1
      BY <1>1
    <2>2. h[i - 1] \in S
      BY <1>5, <2>1
    <2> QED
      BY <1>4, <1>5, <2>2
  <1>7. h = [i \in Vertex |-> To(h, i)]
    <2>1. ASSUME NEW i \in 0 .. N - 1 PROVE h[i] = To(h, i)
      <3>1. CASE i = 0
        BY <1>5, <3>1
      <3>2. CASE i # 0
        <4>1. i \in 1 .. N - 1
          BY <1>1, <3>2
        <4> QED
          BY <1>6, <3>2, <4>1 DEF Longer
      <3> QED
        BY <3>1, <3>2
    <2> HIDE DEF To
    <2> QED
      BY <1>1, <1>5, <2>1
  <1>8. f = [i \in Vertex |-> To(f, i)]
    <2> HIDE DEF To
    <2> QED
      BY <1>7
  <1>9. ShortestPath(x.prev, v) = f[N - 1]
    BY DEF ShortestPath
  <1> HIDE DEF f
  <1> DEFINE Good == {i \in 0 .. N - 1 : f[i] = h[i] /\ f[i] \in S /\ Done(f[i], i)}
  <1>10. \A i \in 0 .. N - 1 : f[i] = To(f, i)
    <2> HIDE DEF To
    <2> QED
      BY <1>1, <1>8
  <1>11. 0 \in Good
    <2>1. 0 \in 0 .. N - 1 /\ Len(<<v>>) = 0 + 1
      BY <1>1
    <2> QED
      BY <1>3, <1>5, <1>10, <2>1
  <1>12. ASSUME NEW i \in 0 .. (N - 1) - 1, i \in Good PROVE i + 1 \in Good
    <2>1. i + 1 \in 0 .. N - 1 /\ i + 1 \in 1 .. N - 1 /\ (i + 1) - 1 = i /\ i + 1 # 0 /\ i \in 0 .. N - 1
      BY <1>1
    <2>2. f[i + 1] = Longer(x, f[i])
      BY <1>10, <2>1 DEF Longer
    <2>3. f[i] = h[i] /\ f[i] \in S /\ Done(f[i], i)
      BY <1>12
    <2>4. h[i + 1] = Longer(x, h[i])
      BY <1>6, <2>1
    <2>5. f[i + 1] \in S /\ (x.prev[Head(f[i])] # None => Len(f[i + 1]) = Len(f[i]) + 1)
      BY <1>2, <2>2, <2>3 DEF S
    <2>6. Done(f[i + 1], i + 1)
      <3>1. CASE x.prev[Head(f[i])] = None
        BY <2>2, <3>1 DEF Longer
      <3>2. CASE x.prev[Head(f[i])] # None
        BY <2>3, <2>5, <3>2
      <3> QED
        BY <3>1, <3>2
    <2> HIDE DEF Done
    <2> QED
      BY <2>1, <2>2, <2>3, <2>4, <2>5, <2>6
  <1> DEFINE p == f[N - 1]
             n == Len(p)
  <1>13. p \in S /\ Done(p, N - 1)
    <2> HIDE DEF Good
    <2>1. \A i \in 0 .. N - 1 : i \in Good
      BY <1>1, <1>11, <1>12, Induction
    <2>2. N - 1 \in Good
      BY <1>1, <2>1
    <2> QED
      BY <2>2 DEF Good
  <1> HIDE DEF p, Good
  <1>14. Route(es, p) /\ Last(p) = v /\ \A i \in 1 .. n - 1 : x.prev[p[i + 1]] = p[i]
    BY <1>13, RouteIs DEF S, Back
  <1>15. n \in 1 .. N /\ Head(p) = p[1] /\ Last(p) = p[n] /\ p[1] \in Vertex
    BY <1>14, RouteIs
  <1>16. x.prev[p[1]] = None
    <2> SUFFICES ASSUME x.prev[p[1]] # None PROVE FALSE
      OBVIOUS
    <2>1. n = N
      BY <1>13, <1>15, SizeAssumption
    <2>2. Longer(x, p) \in S /\ Len(Longer(x, p)) = N + 1
      BY <1>2, <1>13, <1>15, <2>1
    <2>3. Route(es, Longer(x, p))
      BY <2>2, RouteIs DEF S, Back
    <2>4. Len(Longer(x, p)) \in 1 .. N
      BY <2>3, RouteIs
    <2> QED
      BY <2>2, <2>4, SizeAssumption
  <1>17. Grown(es, x)
    BY DEF Tree
  <1> HIDE DEF n
  <1>18. \A i \in 1 .. n : p[i] \in Vertex /\ p[i] # None
    <2>1. \A i \in 1 .. n : p[i] \in Vertex
      BY <1>14, RouteIs DEF n
    <2> QED
      BY <2>1, SizeAssumption DEF Vertex, None
  <1>19. ASSUME NEW i \in 1 .. n - 1
         PROVE  /\ x.dist[p[i]] \in Int /\ x.dist[p[i + 1]] \in Int
                /\ x.dist[p[i + 1]] >= x.dist[p[i]] + Cheapest(es, p[i], p[i + 1])
    <2>1. i \in 1 .. n /\ i + 1 \in 1 .. n /\ x.prev[p[i + 1]] = p[i]
      BY <1>14, <1>15 DEF n
    <2>2. p[i] # None /\ p[i + 1] \in Vertex
      BY <1>18, <2>1
    <2> QED
      BY <1>17, <2>1, <2>2 DEF Grown, Led
  <1>20. \A i \in 1 .. n : x.dist[p[i]] \in Int
    <2> TAKE i \in 1 .. n
    <2>1. CASE i = n
      BY <1>14, <1>15, <2>1
    <2>2. CASE i # n
      BY <1>15, <1>19, <2>2
    <2> QED
      BY <2>1, <2>2
  <1>21. p[1] = s /\ x.dist[p[1]] = 0
    <2>1. 1 \in 1 .. n
      BY <1>15
    <2>2. x.dist[p[1]] \in Int
      BY <1>20, <2>1
    <2> QED
      BY <1>15, <1>16, <2>2 DEF Tree
  <1>22. p \in Paths(es, s, v)
    BY <1>14, <1>15, <1>21, RouteIs DEF Paths
  <1>23. x.dist[Last(p)] >= x.dist[Head(p)] + Cost(es, p)
    BY <1>14, <1>19, <1>20, Along DEF n
  <1>24. Cost(es, p) \in Int /\ Shortest(es, s, v) <= Cost(es, p)
    BY <1>14, <1>22, CostIs, CostBy, ShortestIs
  <1>25. Cost(es, p) = x.dist[v]
    BY <1>14, <1>15, <1>21, <1>23, <1>24
  <1> QED
    BY <1>9, <1>22, <1>25 DEF p

-----------------------------------------------------------------------------
LEMMA ListIs ==
  ASSUME edges \in Seq([src : Vertex, dest : Vertex, weight : Weight])
  PROVE  edges \in Seq(AnyEdge) /\ Graph(ToSet(edges))
  <1>1. \A i \in 1 .. Len(edges) : edges[i] \in AnyEdge
    <2> TAKE i \in 1 .. Len(edges)
    <2>1. edges[i] \in [src : Vertex, dest : Vertex, weight : Weight]
      BY ElementOfSeq
    <2> QED
      BY <2>1, SizeAssumption DEF AnyEdge
  <1>2. edges \in [1 .. Len(edges) -> AnyEdge] /\ Len(edges) \in Nat
    BY <1>1, LenProperties
  <1>3. edges \in Seq(AnyEdge)
    BY <1>2, SeqDef
  <1> QED
    BY <1>3, GraphOf

LEMMA ListExact ==
  ASSUME edges \in Seq([src : Vertex, dest : Vertex, weight : Weight])
  PROVE  BF1Exact
  <1> DEFINE G == ToSet(edges)
  <1>1. edges \in Seq(AnyEdge) /\ Graph(G)
    BY ListIs
  <1> SUFFICES ASSUME NEW s \in Vertex
               PROVE  IF Trapped(G, s) THEN BF1(s) = Nil
                      ELSE /\ BF1(s) # Nil
                           /\ \A v \in Vertex : LET p == ShortestPath(BF1(s).prev, v) IN
                                /\ BF1(s).dist[v] = Shortest(G, s, v)
                                /\ BF1(s).dist[v] # Inf => p \in Paths(G, s, v) /\ Cost(G, p) = BF1(s).dist[v]
    BY DEF BF1Exact
  <1> DEFINE r == Passes(Reached(s), edges, N - 1)
  <1>2. /\ r \in Tree(G, s)
        /\ Shortens(r, edges) <=> Trapped(G, s)
        /\ ~Trapped(G, s) => r \in Above(G, s) /\ \A v \in Vertex : r.dist[v] = Shortest(G, s, v)
    BY <1>1, Enough
  <1>3. BF1(s) = IF Shortens(r, edges) THEN Nil ELSE r
    BY DEF BF1
  <1> HIDE DEF G, r
  <1>4. CASE Trapped(G, s)
    BY <1>2, <1>3, <1>4
  <1>5. CASE ~Trapped(G, s)
    <2>1. BF1(s) = r /\ r \in Result
      BY <1>2, <1>3, <1>5 DEF Tree
    <2>2. r # Nil
      BY <2>1, ValueAssumption
    <2>3. ASSUME NEW v \in Vertex, r.dist[v] # Inf
          PROVE  LET p == ShortestPath(r.prev, v) IN p \in Paths(G, s, v) /\ Cost(G, p) = r.dist[v]
      <3>1. r.dist[v] \in Int /\ r.dist[v] = Shortest(G, s, v)
        BY <1>2, <1>5, <2>1, <2>3 DEF Result
      <3> QED
        BY <1>1, <1>2, <1>5, <3>1, PathIs
    <2> QED
      BY <1>2, <1>5, <2>1, <2>2, <2>3
  <1> QED
    BY <1>4, <1>5

-----------------------------------------------------------------------------
(***************************************************************************)
(* FindArbitrageLoop.                                                      *)
(***************************************************************************)
(* The walk back is a sequence of vertices, or leaves its array.           *)
LEMMA LoopIs ==
  ASSUME NEW pred \in [Vertex -> Vertex], NEW s \in Vertex
  PROVE  ArbitrageLoop(pred, s) \in Seq(Vertex) \cup {Panic}
  <1> DEFINE step == [i \in 1 .. N |-> pred]
             To(g, i) == IF i = 0 THEN s ELSE pred[g[i - 1]]
             back == CHOOSE g : g = [i \in 0 .. N |-> To(g, i)]
             Again == {i \in 1 .. N : \E j \in 0 .. i - 1 : back[j] = back[i]}
             index == Min(Again)
             first == CHOOSE j \in 0 .. index - 1 : back[j] = back[index]
             a == [i \in 1 .. index - first + 1 |-> back[first + i - 1]]
  <1>1. N \in Nat /\ Vertex = 0 .. N - 1
    BY SizeAssumption DEF Vertex
  <1>2. ArbitrageLoop(pred, s) = IF index = N THEN Panic ELSE a
    BY DEF ArbitrageLoop
  <1>3. PICK h \in [0 .. N -> Vertex] : h[0] = s /\ \A i \in 1 .. N : h[i] = pred[h[i - 1]]
    <2>1. step \in Steps(N, Vertex) /\ \A i \in 1 .. N : step[i] = pred
      BY DEF Steps
    <2> HIDE DEF step
    <2>2. N \in Nat
      BY <1>1
    <2>3. \E g \in [0 .. N -> Vertex] : g[0] = s /\ \A i \in 1 .. N : g[i] = step[i][g[i - 1]]
      BY <2>1, <2>2, Recursion DEF Runs
    <2> QED
      BY <2>1, <2>3
  <1>4. h = [i \in 0 .. N |-> To(h, i)]
    <2>1. ASSUME NEW i \in 0 .. N PROVE h[i] = To(h, i)
      <3>1. CASE i = 0
        BY <1>3, <3>1
      <3>2. CASE i # 0
        <4>1. i \in 1 .. N
          BY <1>1, <3>2
        <4> QED
          BY <1>3, <3>2, <4>1
      <3> QED
        BY <3>1, <3>2
    <2> HIDE DEF To
    <2> QED
      BY <1>3, <2>1
  <1>5. back = [i \in 0 .. N |-> To(back, i)]
    <2> HIDE DEF To
    <2> QED
      BY <1>4
  <1> HIDE DEF back
  <1>6. \A i \in 0 .. N : back[i] = To(back, i)
    <2> HIDE DEF To
    <2> QED
      BY <1>5
  <1>7. \A i \in 1 .. N : back[i] = pred[back[i - 1]]
    BY <1>1, <1>6
  <1>8. back \in [0 .. N -> Vertex]
    <2> DEFINE Good == {i \in 0 .. N : back[i] \in Vertex}
    <2>1. 0 \in Good
      <3>1. 0 \in 0 .. N /\ To(back, 0) = s
        BY <1>1
      <3> HIDE DEF To
      <3> QED
        BY <1>6, <3>1
    <2>2. ASSUME NEW i \in 0 .. N - 1, i \in Good PROVE i + 1 \in Good
      <3>1. i + 1 \in 1 .. N /\ i + 1 \in 0 .. N /\ (i + 1) - 1 = i
        BY <1>1
      <3>2. back[i + 1] = pred[back[i]]
        BY <1>7, <3>1
      <3> QED
        BY <2>2, <3>1, <3>2
    <2> HIDE DEF Good
    <2>3. \A i \in 0 .. N : i \in Good
      BY <1>1, <2>1, <2>2, Induction
    <2>4. \A i \in 0 .. N : back[i] \in Vertex
      BY <2>3 DEF Good
    <2> HIDE DEF To
    <2> QED
      BY <1>5, <2>4
  <1>9. Again # {}
    <2> SUFFICES ASSUME Again = {} PROVE FALSE
      OBVIOUS
    <2> DEFINE p == [i \in 1 .. N + 1 |-> back[i - 1]]
    <2>1. \A i \in 1 .. N + 1 : i - 1 \in 0 .. N
      BY <1>1
    <2>2. p \in [1 .. N + 1 -> 0 .. N - 1]
      BY <1>1, <1>8, <2>1
    <2>3. ASSUME NEW i \in 0 .. N, NEW j \in 0 .. N, j < i, back[j] = back[i] PROVE FALSE
      <3>1. i \in 1 .. N /\ j \in 0 .. i - 1
        BY <1>1, <2>3
      <3> QED
        BY <2>3, <3>1
    <2>4. \A i, j \in 1 .. N + 1 : p[i] = p[j] => i = j
      <3> TAKE i, j \in 1 .. N + 1
      <3>1. i - 1 \in 0 .. N /\ j - 1 \in 0 .. N
        BY <2>1
      <3>2. p[i] = back[i - 1] /\ p[j] = back[j - 1]
        OBVIOUS
      <3> HIDE DEF p
      <3>3. ASSUME p[i] = p[j] PROVE ~(j - 1 < i - 1) /\ ~(i - 1 < j - 1)
        BY <2>3, <3>1, <3>2, <3>3
      <3> QED
        BY <1>1, <3>3
    <2> HIDE DEF p
    <2>5. N + 1 <= N
      <3> DEFINE k == N + 1
      <3>1. k \in Nat /\ N \in Nat
        BY <1>1
      <3>0. p \in [1 .. k -> 0 .. N - 1]
        BY <2>2
      <3>3. \A i, j \in 1 .. k : p[i] = p[j] => i = j
        BY <2>4
      <3> HIDE DEF k
      <3>2. k <= N
        BY <3>0, <3>1, <3>3, Pigeons
      <3> QED
        BY <3>2 DEF k
    <2> QED
      BY <1>1, <2>5
  <1>10. index \in Again /\ \A i \in Again : index <= i
    <2>1. Again \in SUBSET Int /\ \A i \in Again : 0 <= i
      BY <1>1
    <2> HIDE DEF Again
    <2> QED
      BY <1>9, <2>1, LeastAbove
  <1> HIDE DEF index
  <1>11. index \in 1 .. N /\ \E j \in 0 .. index - 1 : back[j] = back[index]
    BY <1>10
  <1>12. first \in 0 .. index - 1 /\ back[first] = back[index]
    BY <1>11
  <1> HIDE DEF first
  <1> HIDE DEF Again
  <1> DEFINE n == index - first + 1
  <1>14. n \in Nat /\ n >= 2 /\ \A i \in 1 .. n : first + i - 1 \in 0 .. N /\ first + i - 1 \in 0 .. index
    BY <1>1, <1>11, <1>12
  <1>15. a \in [1 .. n -> Vertex] /\ \A i \in 1 .. n : a[i] = back[first + i - 1]
    BY <1>8, <1>14
  <1> HIDE DEF a
  <1>16. a \in Seq(Vertex) /\ Len(a) = n
    BY <1>14, <1>15, SeqDef
  <1> QED
    BY <1>2, <1>16

LEMMA NoticesExact ==
  ASSUME edges \in Seq([src : Vertex, dest : Vertex, weight : Weight])
  PROVE  BF2Notices
  <1> DEFINE G == ToSet(edges)
  <1>1. edges \in Seq(AnyEdge) /\ Graph(G)
    BY ListIs
  <1> SUFFICES ASSUME NEW s \in Vertex PROVE FindArbitrageLoop(s) = Nil <=> ~Trapped(G, s)
    BY DEF BF2Notices
  <1> DEFINE r == BF2(s)
             a == ArbitrageLoop(Predecessors(r), s)
  <1>2. r \in Tree(G, s) /\ (Shortens(r, edges) <=> Trapped(G, s))
    BY <1>1, Enough DEF BF2
  <1>3. FindArbitrageLoop(s) = IF Shortens(r, edges) THEN a ELSE Nil
    BY DEF FindArbitrageLoop
  <1> HIDE DEF G, r
  <1>4. Predecessors(r) \in [Vertex -> Vertex]
    BY <1>2, SizeAssumption DEF Tree, Predecessors, Result, Vertex, None
  <1>5. a \in Seq(Vertex) \cup {Panic}
    BY <1>4, LoopIs
  <1> HIDE DEF a
  <1>6. a # Nil
    BY <1>5, ValueAssumption
  <1> QED
    BY <1>2, <1>3, <1>6

-----------------------------------------------------------------------------
(***************************************************************************)
(* The matrices.                                                           *)
(***************************************************************************)
LEMMA Appended ==
  ASSUME NEW S, NEW c \in Seq(S), NEW e \in S
  PROVE  Append(c, e) \in Seq(S) /\ ToSet(Append(c, e)) = ToSet(c) \cup {e}
  <1> DEFINE n == Len(c)
             d == Append(c, e)
  <1>1. n \in Nat /\ DOMAIN c = 1 .. n
    BY LenProperties
  <1>2. /\ d \in Seq(S) /\ Len(d) = n + 1 /\ d[n + 1] = e /\ \A i \in 1 .. n : d[i] = c[i]
    BY AppendProperties
  <1>3. DOMAIN d = 1 .. n + 1
    BY <1>2, LenProperties
  <1> HIDE DEF n, d
  <1>4. \A i \in 1 .. n + 1 : i = n + 1 \/ i \in 1 .. n
    BY <1>1
  <1>5. \A i \in 1 .. n : i \in 1 .. n + 1
    BY <1>1
  <1>6. n + 1 \in 1 .. n + 1
    BY <1>1
  <1>7. {d[i] : i \in 1 .. n + 1} = {c[i] : i \in 1 .. n} \cup {e}
    BY <1>2, <1>4, <1>5, <1>6
  <1> QED
    BY <1>1, <1>2, <1>3, <1>7 DEF ToSet, d

LEMMA CellsAre ==
  ASSUME TypeOK
  PROVE  Cells \in Seq(Nmat) /\ ToSet(Cells) = Nmat
  <1> DEFINE m == V * V
             S == Seq(Nmat)
             With(c, i) == IF Cell(i) \in Nmat THEN Append(c, Cell(i)) ELSE c
             step == [i \in 1 .. m |-> [c \in S |-> With(c, i)]]
             To(g, i) == IF i = 0 THEN <<>>
                         ELSE IF Cell(i) \in Nmat THEN Append(g[i - 1], Cell(i))
                         ELSE g[i - 1]
             f == CHOOSE g : g = [i \in 0 .. V * V |-> To(g, i)]
             Good == {i \in 0 .. m : /\ f[i] \in S
                                     /\ \A j \in 1 .. i : Cell(j) \in Nmat => Cell(j) \in ToSet(f[i])}
  <1>1. V \in Nat /\ Nmat \subseteq (0 .. V - 1) \X (0 .. V - 1)
    BY DEF TypeOK
  <1>2. m \in Nat
    BY <1>1
  <1>3. ASSUME NEW c \in S, NEW i PROVE With(c, i) \in S
    BY Appended
  <1>4. step \in Steps(m, S) /\ \A i \in 1 .. m, c \in S : step[i][c] = With(c, i)
    BY <1>3 DEF Steps
  <1>5. <<>> \in S
    BY EmptySeq
  <1> HIDE DEF m, S, step
  <1>6. PICK h \in [0 .. m -> S] : h[0] = <<>> /\ \A i \in 1 .. m : h[i] = step[i][h[i - 1]]
    <2> DEFINE start == <<>>
    <2>1. start \in S
      BY <1>5
    <2> HIDE DEF start
    <2>2. \E g \in [0 .. m -> S] : g[0] = start /\ \A i \in 1 .. m : g[i] = step[i][g[i - 1]]
      BY <1>2, <1>4, <2>1, Recursion DEF Runs
    <2> QED
      BY <2>2 DEF start
  <1>7. ASSUME NEW i \in 1 .. m PROVE h[i] = With(h[i - 1], i)
    <2>1. i - 1 \in 0 .. m
      BY <1>2
    <2>2. h[i - 1] \in S
      BY <1>6, <2>1
    <2> HIDE DEF With
    <2> QED
      BY <1>4, <1>6, <2>2
  <1>8. h = [i \in 0 .. m |-> To(h, i)]
    <2>1. ASSUME NEW i \in 0 .. m PROVE h[i] = To(h, i)
      <3>1. CASE i = 0
        BY <1>6, <3>1
      <3>2. CASE i # 0
        <4>1. i \in 1 .. m
          BY <1>2, <3>2
        <4> QED
          BY <1>7, <3>2, <4>1
      <3> QED
        BY <3>1, <3>2
    <2> HIDE DEF To
    <2> QED
      BY <1>6, <2>1
  <1>9. f = [i \in 0 .. V * V |-> To(f, i)]
    <2> HIDE DEF To
    <2> QED
      BY <1>8 DEF m
  <1>10. Cells = f[m]
    BY DEF Cells, m
  <1> HIDE DEF f
  <1>11. \A i \in 0 .. m : f[i] = To(f, i)
    <2> HIDE DEF To
    <2> QED
      BY <1>9 DEF m
  <1>12. 0 \in Good
    <2>1. 0 \in 0 .. m /\ 1 .. 0 = {} /\ To(f, 0) = <<>>
      BY <1>2
    <2> HIDE DEF To
    <2>2. f[0] = <<>>
      BY <1>11, <2>1
    <2> QED
      BY <1>5, <2>1, <2>2
  <1>13. ASSUME NEW i \in 0 .. m - 1, i \in Good PROVE i + 1 \in Good
    <2>1. i + 1 \in 0 .. m /\ i + 1 \in 1 .. m /\ (i + 1) - 1 = i /\ i + 1 # 0
      BY <1>2
    <2>2. f[i + 1] = With(f[i], i + 1)
      BY <1>11, <2>1
    <2>3. f[i] \in S /\ \A j \in 1 .. i : Cell(j) \in Nmat => Cell(j) \in ToSet(f[i])
      BY <1>13
    <2>4. \A j \in 1 .. i + 1 : j = i + 1 \/ j \in 1 .. i
      BY <1>2
    <2>5. CASE Cell(i + 1) \in Nmat
      <3>1. f[i + 1] \in S /\ ToSet(f[i + 1]) = ToSet(f[i]) \cup {Cell(i + 1)}
        BY <2>2, <2>3, <2>5, Appended DEF S
      <3> QED
        BY <2>1, <2>3, <2>4, <3>1
    <2>6. CASE Cell(i + 1) \notin Nmat
      BY <2>1, <2>2, <2>3, <2>4, <2>6
    <2> QED
      BY <2>5, <2>6
  <1> HIDE DEF Good
  <1>14. \A i \in 0 .. m : i \in Good
    BY <1>2, <1>12, <1>13, Induction
  <1>15. f[m] \in S /\ \A j \in 1 .. m : Cell(j) \in Nmat => Cell(j) \in ToSet(f[m])
    BY <1>2, <1>14 DEF Good
  <1>16. ASSUME NEW e \in Nmat PROVE \E j \in 1 .. m : e = Cell(j)
    <2>1. PICK a \in 0 .. V - 1, b \in 0 .. V - 1 : e = <<a, b>>
      BY <1>1
    <2> DEFINE j == a * V + b + 1
    <2>2. j - 1 = a * V + b
      BY <1>1
    <2>3. (a * V + b) \div V = a /\ (a * V + b) % V = b /\ a * V + b \in 0 .. V * V - 1
      BY <1>1
    <2>4. j \in 1 .. V * V
      BY <1>1, <2>2, <2>3
    <2> HIDE DEF j
    <2> QED
      BY <2>1, <2>2, <2>3, <2>4 DEF Cell, m
  <1>17. Nmat \subseteq ToSet(f[m])
    BY <1>15, <1>16
  <1>18. ToSet(f[m]) \subseteq Nmat
    BY <1>15, ElementOfSeq, LenProperties DEF ToSet, S
  <1> QED
    BY <1>10, <1>15, <1>17, <1>18 DEF S

LEMMA MatrixIs ==
  ASSUME TypeOK
  PROVE  MatrixEdges \in Seq(AnyEdge) /\ ToSet(MatrixEdges) = {AsEdge(e) : e \in Nmat}
  <1> DEFINE c == Cells
             n == Len(c)
  <1>1. c \in Seq(Nmat) /\ ToSet(c) = Nmat
    BY CellsAre
  <1>2. n \in Nat /\ DOMAIN c = 1 .. n /\ Nmat = {c[i] : i \in 1 .. n}
    BY <1>1, LenProperties DEF ToSet
  <1>3. MatrixEdges = [i \in 1 .. n |-> AsEdge(c[i])]
    BY <1>2 DEF MatrixEdges
  <1> HIDE DEF c, n
  <1>4. ASSUME NEW e \in Nmat PROVE AsEdge(e) \in AnyEdge
    <2>1. e \in Vertex \X Vertex
      BY SizeAssumption DEF TypeOK, Vertex
    <2>2. Emat[e] \in Int
      <3> DEFINE D == Vertex \X Vertex
      <3>1. Emat \in [D -> Weight \cup {0}] /\ e \in D
        BY <2>1 DEF TypeOK
      <3> HIDE DEF D
      <3>2. Emat[e] \in Weight \cup {0}
        BY <3>1
      <3>3. \A w \in Weight \cup {0} : w \in Int
        BY SizeAssumption
      <3> QED
        BY <3>2, <3>3, Zenon
    <2> QED
      BY <2>1, <2>2 DEF AsEdge, AnyEdge
  <1>5. \A i \in 1 .. n : c[i] \in Nmat
    BY <1>2
  <1>6. MatrixEdges \in [1 .. n -> AnyEdge] /\ DOMAIN MatrixEdges = 1 .. n
    BY <1>3, <1>4, <1>5
  <1>7. MatrixEdges \in Seq(AnyEdge)
    BY <1>2, <1>6, SeqDef
  <1>8. {MatrixEdges[i] : i \in 1 .. n} = {AsEdge(e) : e \in Nmat}
    BY <1>2, <1>3
  <1> QED
    BY <1>6, <1>7, <1>8 DEF ToSet

LEMMA MatrixExact ==
  ASSUME TypeOK, Symmetric
  PROVE  BF3Exact
  <1> DEFINE G == {AsEdge(e) : e \in Nmat}
  <1> SUFFICES ASSUME NEW s \in Vertex, s < V
               PROVE  IF Trapped(G, s) THEN BF3(s).warns
                      ELSE ~BF3(s).warns /\ BF3(s).dist = [v \in Vertex |-> Shortest(G, s, v)]
    BY DEF BF3Exact
  <1> DEFINE es == MatrixEdges
             r == Passes(Reached(s), es, V - 1)
  <1>1. es \in Seq(AnyEdge) /\ G = ToSet(es)
    BY MatrixIs
  <1>2. V \in Nat /\ V >= 1 /\ V - 1 \in Nat /\ Nmat \subseteq (0 .. V - 1) \X (0 .. V - 1)
    BY SizeAssumption DEF TypeOK, Vertex
  <1>3. BF3(s).dist = r.dist /\ BF3(s).warns = Shortens(r, es)
    BY DEF BF3
  <1>4. \A e \in G : e.src \in 0 .. V - 1 /\ e.dest \in 0 .. V - 1
    BY <1>2 DEF AsEdge
  <1> HIDE DEF G, es, r
  <1>5. ASSUME NEW p, Route(G, p) PROVE Len(p) <= (V - 1) + 1
    <2> DEFINE n == Len(p)
    <2>1. /\ n \in Nat /\ n >= 1 /\ p \in [1 .. n -> Vertex]
      BY <1>5, RouteIs
    <2>2. \A i, j \in 1 .. n : p[i] = p[j] => i = j
      BY <1>5, RouteIs
    <2>3. \A i \in 1 .. n - 1 : Joined(G, p[i], p[i + 1]) # {}
      BY <1>5, RouteIs
    <2> HIDE DEF n
    <2>4. \A i \in 1 .. n - 1 : p[i] \in 0 .. V - 1 /\ p[i + 1] \in 0 .. V - 1
      BY <1>4, <2>3 DEF Joined
    <2>5. CASE n = 1
      BY <1>2, <2>5 DEF n
    <2>6. CASE n # 1
      <3>1. ASSUME NEW i \in 1 .. n PROVE p[i] \in 0 .. V - 1
        <4>1. CASE i = n
          <5>1. i - 1 \in 1 .. n - 1 /\ (i - 1) + 1 = i
            BY <2>1, <2>6, <4>1
          <5> QED
            BY <2>4, <5>1
        <4>2. CASE i # n
          BY <2>1, <2>4, <4>2
        <4> QED
          BY <4>1, <4>2
      <3>2. p \in [1 .. n -> 0 .. V - 1]
        BY <2>1, <3>1
      <3>3. n <= V
        BY <1>2, <2>1, <2>2, <3>2, Pigeons
      <3> QED
        BY <1>2, <2>1, <3>3 DEF n
    <2> QED
      BY <2>5, <2>6
  <1>6. /\ r \in Tree(G, s)
        /\ Shortens(r, es) <=> Trapped(G, s)
        /\ ~Trapped(G, s) => r \in Above(G, s) /\ \A v \in Vertex : r.dist[v] = Shortest(G, s, v)
    <2>1. \A p : Route(ToSet(es), p) => Len(p) <= (V - 1) + 1
      BY <1>1, <1>5
    <2> QED
      BY <1>1, <1>2, <2>1, Relaxed DEF r
  <1>7. r.dist \in [Vertex -> Int \cup {Inf}]
    BY <1>6 DEF Tree, Result
  <1>8. ~Trapped(G, s) => r.dist = [v \in Vertex |-> Shortest(G, s, v)]
    BY <1>6, <1>7
  <1> QED
    BY <1>3, <1>6, <1>8

(* Symmetric, vertex by vertex.                                            *)
Even(nmat, emat) ==
  \A a, b \in Vertex :
    /\ <<a, b>> \in nmat => <<b, a>> \in nmat /\ emat[<<a, b>>] = emat[<<b, a>>]
    /\ <<a, b>> \notin nmat => emat[<<a, b>>] = 0

LEMMA EvenIs ==
  ASSUME NEW nmat \in SUBSET (Vertex \X Vertex), NEW emat, DOMAIN emat = Vertex \X Vertex
  PROVE  Even(nmat, emat) <=>
           /\ \A e \in nmat : <<e[2], e[1]>> \in nmat /\ emat[e] = emat[<<e[2], e[1]>>]
           /\ \A e \in DOMAIN emat \ nmat : emat[e] = 0
  <1>1. \A e \in Vertex \X Vertex : e = <<e[1], e[2]>> /\ e[1] \in Vertex /\ e[2] \in Vertex
    OBVIOUS
  <1>2. ASSUME Even(nmat, emat), NEW e \in nmat
        PROVE  <<e[2], e[1]>> \in nmat /\ emat[e] = emat[<<e[2], e[1]>>]
    BY <1>1, <1>2 DEF Even
  <1>3. ASSUME Even(nmat, emat), NEW e \in DOMAIN emat \ nmat PROVE emat[e] = 0
    <2>1. PICK a \in Vertex, b \in Vertex : e = <<a, b>>
      BY <1>1, <1>3
    <2> QED
      BY <1>3, <2>1 DEF Even
  <1>4. ASSUME \A e \in nmat : <<e[2], e[1]>> \in nmat /\ emat[e] = emat[<<e[2], e[1]>>],
               \A e \in DOMAIN emat \ nmat : emat[e] = 0
        PROVE  Even(nmat, emat)
    <2> SUFFICES ASSUME NEW a \in Vertex, NEW b \in Vertex
                 PROVE  /\ <<a, b>> \in nmat => <<b, a>> \in nmat /\ emat[<<a, b>>] = emat[<<b, a>>]
                        /\ <<a, b>> \notin nmat => emat[<<a, b>>] = 0
      BY DEF Even
    <2>1. ASSUME <<a, b>> \in nmat PROVE <<b, a>> \in nmat /\ emat[<<a, b>>] = emat[<<b, a>>]
      <3>1. <<a, b>>[1] = a /\ <<a, b>>[2] = b
        OBVIOUS
      <3> QED
        BY <1>4, <2>1, <3>1
    <2>2. ASSUME <<a, b>> \notin nmat PROVE emat[<<a, b>>] = 0
      BY <1>4, <2>2
    <2> QED
      BY <2>1, <2>2
  <1> QED
    BY <1>2, <1>3, <1>4

Pairs(n) == (0 .. n - 1) \X (0 .. n - 1)

(* The matrices of an undirected graph of that order.                      *)
Undirected(v, nmat, emat) ==
  /\ v \in 0 .. N /\ nmat \subseteq Pairs(v)
  /\ emat \in [Vertex \X Vertex -> Weight \cup {0}]
  /\ Even(nmat, emat)

Kept ==
  /\ edges \in Seq([src : Vertex, dest : Vertex, weight : Weight])
  /\ E \in 0 .. MaxEdges
  /\ Undirected(V, Nmat, Emat)

LEMMA UndirectedIs ==
  ASSUME NEW v, NEW nmat, NEW emat, Undirected(v, nmat, emat)
  PROVE  nmat \in SUBSET (Vertex \X Vertex) /\ DOMAIN emat = Vertex \X Vertex
  <1>1. v \in 0 .. N /\ nmat \subseteq Pairs(v) /\ emat \in [Vertex \X Vertex -> Weight \cup {0}]
    BY DEF Undirected
  <1>2. \A i \in 0 .. v - 1 : i \in Vertex
    BY <1>1, SizeAssumption DEF Vertex
  <1>3. Pairs(v) \subseteq Vertex \X Vertex
    BY <1>2 DEF Pairs
  <1> QED
    BY <1>1, <1>3

LEMMA KeptIs ==
  ASSUME Kept
  PROVE  TypeOK /\ Symmetric
  <1>1. Nmat \in SUBSET (Vertex \X Vertex) /\ DOMAIN Emat = Vertex \X Vertex
    BY UndirectedIs DEF Kept
  <1>2. Even(Nmat, Emat)
    BY DEF Kept, Undirected
  <1>3. Symmetric
    BY <1>1, <1>2, EvenIs DEF Symmetric
  <1> QED
    BY <1>3 DEF Kept, Undirected, Pairs, TypeOK

Mirrored(gone) == \A a, b \in Vertex : <<a, b>> \in gone => <<b, a>> \in gone

Put(emat, gone, l) == [e \in DOMAIN emat |-> IF e \in gone THEN l ELSE emat[e]]

(* Both matrices change at the same pairs, and these are pairs both ways.  *)
LEMMA ChangedBothWays ==
  ASSUME NEW v, NEW nmat, NEW emat, Undirected(v, nmat, emat),
         NEW gone, Mirrored(gone),
         NEW l \in Weight \cup {0}
  PROVE  /\ Undirected(v, nmat \ gone, Put(emat, gone, 0))
         /\ gone \subseteq Pairs(v) => Undirected(v, nmat \cup gone, Put(emat, gone, l))
  <1> DEFINE less == Put(emat, gone, 0)
             more == Put(emat, gone, l)
             D == Vertex \X Vertex
  <1>1. /\ v \in 0 .. N /\ nmat \subseteq Pairs(v) /\ emat \in [D -> Weight \cup {0}]
        /\ Even(nmat, emat)
    BY DEF Undirected
  <1>2. \A a, b \in Vertex : <<a, b>> \in D
    OBVIOUS
  <1> HIDE DEF D
  <1>3. less \in [D -> Weight \cup {0}] /\ more \in [D -> Weight \cup {0}]
    BY <1>1 DEF Put
  <1>4. \A a, b \in Vertex : /\ less[<<a, b>>] = IF <<a, b>> \in gone THEN 0 ELSE emat[<<a, b>>]
                             /\ more[<<a, b>>] = IF <<a, b>> \in gone THEN l ELSE emat[<<a, b>>]
    BY <1>1, <1>2 DEF Put
  <1> HIDE DEF less, more
  <1>5. \A a, b \in Vertex : <<a, b>> \in gone <=> <<b, a>> \in gone
    BY DEF Mirrored
  <1>6. Even(nmat \ gone, less)
    BY <1>1, <1>4, <1>5 DEF Even
  <1>7. Even(nmat \cup gone, more)
    <2> SUFFICES ASSUME NEW a \in Vertex, NEW b \in Vertex
                 PROVE  /\ <<a, b>> \in nmat \cup gone =>
                             <<b, a>> \in nmat \cup gone /\ more[<<a, b>>] = more[<<b, a>>]
                        /\ <<a, b>> \notin nmat \cup gone => more[<<a, b>>] = 0
      BY DEF Even
    <2>1. CASE <<a, b>> \in gone
      BY <1>4, <1>5, <2>1
    <2>2. CASE <<a, b>> \notin gone
      BY <1>1, <1>4, <1>5, <2>2 DEF Even
    <2> QED
      BY <2>1, <2>2
  <1> QED
    BY <1>1, <1>3, <1>6, <1>7 DEF Undirected, less, more, D

LEMMA BothWaysIs ==
  ASSUME NEW u, NEW v
  PROVE  Mirrored(BothWays(u, v))
  BY DEF BothWays, Mirrored

LEMMA KeptStart == Init => Kept
  <1> SUFFICES ASSUME Init PROVE Kept
    OBVIOUS
  <1>1. edges = <<>> /\ V = 0 /\ E = 0 /\ Nmat = {} /\ Emat = NoWeights
    BY DEF Init
  <1>2. edges \in Seq([src : Vertex, dest : Vertex, weight : Weight])
    BY <1>1, EmptySeq
  <1>3. Undirected(0, {}, NoWeights)
    BY SizeAssumption DEF Undirected, Even, NoWeights
  <1> QED
    BY <1>1, <1>2, <1>3, SizeAssumption DEF Kept

LEMMA WithoutKeeps ==
  ASSUME Kept, NEW gone, Mirrored(gone), Without(gone)
  PROVE  Kept'
  <1>1. /\ Nmat' = Nmat \ gone
        /\ Emat' = Put(Emat, gone, 0)
        /\ UNCHANGED <<edges, V, E>>
    BY DEF Without, Put
  <1>2. Undirected(V, Nmat, Emat) /\ 0 \in Weight \cup {0}
    BY DEF Kept
  <1>3. Undirected(V, Nmat \ gone, Put(Emat, gone, 0))
    BY <1>2, ChangedBothWays
  <1> QED
    BY <1>1, <1>3 DEF Kept

LEMMA KeptStep == Kept /\ [Next]_vars => Kept'
  <1> SUFFICES ASSUME Kept, [Next]_vars PROVE Kept'
    OBVIOUS
  <1> DEFINE Edges == [src : Vertex, dest : Vertex, weight : Weight]
  <1>1. /\ edges \in Seq(Edges) /\ E \in 0 .. MaxEdges /\ Undirected(V, Nmat, Emat)
        /\ V \in 0 .. N
    BY DEF Kept, Undirected
  <1>2. CASE UNCHANGED vars
    BY <1>2 DEF vars, matrices, Kept
  <1>3. ASSUME NEW u \in Vertex, NEW v \in Vertex, NEW w \in Weight, BF1AddEdge(u, v, w) PROVE Kept'
    <2>1. edges' = Append(edges, [src |-> u, dest |-> v, weight |-> w]) /\ UNCHANGED <<V, E, Nmat, Emat>>
      BY <1>3 DEF BF1AddEdge, matrices
    <2>2. [src |-> u, dest |-> v, weight |-> w] \in Edges
      OBVIOUS
    <2> HIDE DEF Edges
    <2>3. edges' \in Seq(Edges)
      BY <1>1, <2>1, <2>2, AppendProperties
    <2> QED
      BY <1>1, <2>1, <2>3 DEF Kept, Edges
  <1>4. ASSUME NEW n \in 0 .. N, SetOrder(n) PROVE Kept'
    <2>1. V' = n /\ Nmat' = {} /\ Emat' = NoWeights /\ UNCHANGED <<edges, E>>
      BY <1>4 DEF SetOrder
    <2>2. Undirected(n, {}, NoWeights)
      BY SizeAssumption DEF Undirected, Even, NoWeights
    <2> QED
      BY <1>1, <2>1, <2>2 DEF Kept
  <1>5. ASSUME NEW u \in Vertex, NEW v \in Vertex, NEW w \in Weight, BF3AddEdge(u, v, w) PROVE Kept'
    <2> DEFINE more == Put(Emat, BothWays(u, v), w)
    <2>1. /\ u < V /\ v < V /\ E < MaxEdges /\ E' = E + 1
          /\ Nmat' = Nmat \cup BothWays(u, v) /\ Emat' = more
          /\ UNCHANGED <<edges, V>>
      BY <1>5 DEF BF3AddEdge, Put
    <2>2. BothWays(u, v) \subseteq Pairs(V)
      BY <1>1, <2>1, SizeAssumption DEF BothWays, Pairs, Vertex
    <2>3. Mirrored(BothWays(u, v))
      BY BothWaysIs
    <2>4. w \in Weight \cup {0}
      OBVIOUS
    <2>5. Undirected(V, Nmat \cup BothWays(u, v), more)
      BY <1>1, <2>2, <2>3, <2>4, ChangedBothWays
    <2>6. E' \in 0 .. MaxEdges
      BY <1>1, <2>1, SizeAssumption
    <2> HIDE DEF more
    <2> QED
      BY <1>1, <2>1, <2>5, <2>6 DEF Kept
  <1>6. ASSUME NEW u \in Vertex, NEW v \in Vertex, DelEdge(u, v) PROVE Kept'
    <2>1. Mirrored(BothWays(u, v))
      BY BothWaysIs
    <2> QED
      BY <1>6, <2>1, WithoutKeeps DEF DelEdge
  <1>7. ASSUME NEW v \in Vertex, DisconnectVert(v) PROVE Kept'
    <2> DEFINE gone == UNION {BothWays(v, k) : k \in Neighbours(v)}
    <2>1. Mirrored(gone)
      BY BothWaysIs DEF Mirrored
    <2>2. Without(gone)
      BY <1>7 DEF DisconnectVert
    <2> HIDE DEF gone
    <2> QED
      BY <2>1, <2>2, WithoutKeeps
  <1> QED
    BY <1>2, <1>3, <1>4, <1>5, <1>6, <1>7 DEF Next

LEMMA AlwaysKept == Spec => []Kept
  <1> QED
    BY KeptStart, KeptStep, PTL DEF Spec

-----------------------------------------------------------------------------
(* The lists are lists of weighted edges, and whatever edges are added,    *)
(* deleted or disconnected, the matrices are those of an undirected graph. *)
THEOREM TypeCorrect == Spec => [](TypeOK /\ Symmetric)
  <1> QED
    BY AlwaysKept, KeptIs, PTL

(* BF1Graph.BellmanFord, for any list of edges: nothing exactly where a    *)
(* negative circle can be reached, otherwise the shortest distances and,   *)
(* from PrintShortestPaths, paths that have them.                          *)
THEOREM ShortestDistances == Spec => []BF1Exact
  <1>1. Kept => BF1Exact
    BY ListExact DEF Kept
  <1> QED
    BY <1>1, AlwaysKept, PTL

(* BF2Graph.FindArbitrageLoop, for any list of edges: nil exactly where no *)
(* negative circle can be reached.  What it returns otherwise is not       *)
(* always one (LoopOrNil, which a run refutes).                            *)
THEOREM CirclesNoticed == Spec => []BF2Notices
  <1>1. Kept => BF2Notices
    BY NoticesExact DEF Kept
  <1> QED
    BY <1>1, AlwaysKept, PTL

(* BF3Graph, for any order and any edges: it warns exactly where a         *)
(* negative circle can be reached, otherwise its distances are the         *)
(* shortest.                                                               *)
THEOREM MatrixDistances == Spec => []BF3Exact
  <1>1. Kept => BF3Exact
    BY KeptIs, MatrixExact
  <1> QED
    BY <1>1, AlwaysKept, PTL
================================================================================
