------------------------------ MODULE BellmanFord ------------------------------
(***************************************************************************)
(* The three graphs of monitor/arbitrage that SwapGraph has replaced:      *)
(* BF1Graph and BF2Graph keep a list of directed edges (bellman_ford_1.go, *)
(* bellman_ford_2.go), BF3Graph the matrices of an undirected graph        *)
(* (bellman_ford_3.go).  Only the tests call them.                         *)
(*                                                                         *)
(* Weights are integers, Inf is math.Inf(1) and, in BF2Graph, MaxFloat64,  *)
(* from which a weight takes nothing away.  A list is what AddEdge of      *)
(* BF1Graph or the arguments of NewBF2Graph have made it.                  *)
(***************************************************************************)
EXTENDS Integers, Sequences, SequencesExt

CONSTANTS
  N,               \* vertices are 0 .. N - 1
  Weight,
  MaxEdges,        \* in a list, and added to the matrices
  Inf, Nil, Panic

ASSUME SizeAssumption == N \in Nat \ {0} /\ MaxEdges \in Nat /\ Weight \subseteq Int

Vertex == 0 .. N - 1

None == -1

Result == [dist : [Vertex -> Int \cup {Inf}], prev : [Vertex -> Vertex \cup {None}]]

ASSUME ValueAssumption == Inf \notin Int /\ Nil \notin Result \cup Seq(Vertex) \cup {Panic}

VARIABLES
  edges,     \* of BF1Graph and BF2Graph
  V, E,      \* of BF3Graph
  Nmat,      \* the pairs at which the neighbour matrix holds a 1
  Emat

matrices == <<V, E, Nmat, Emat>>
vars     == <<edges, matrices>>

-----------------------------------------------------------------------------
(***************************************************************************)
(* Relaxation, the same in all three.                                      *)
(***************************************************************************)
Plus(d, w)  == IF d = Inf THEN Inf ELSE d + w
Below(d, c) == d # Inf /\ (c = Inf \/ d < c)

Reached(s) == [dist |-> [v \in Vertex |-> IF v = s THEN 0 ELSE Inf],
               prev |-> [v \in Vertex |-> None]]

NewDist(r, e) == Plus(r.dist[e.src], e.weight)

Shorter(r, e) == Below(NewDist(r, e), r.dist[e.dest])

Relax(r, e) ==
  IF Shorter(r, e)
  THEN [dist |-> [r.dist EXCEPT ![e.dest] = NewDist(r, e)],
        prev |-> [r.prev EXCEPT ![e.dest] = e.src]]
  ELSE r

(* BF2Graph stops after a pass that changed nothing, as would the next one.*)
Pass(r, es) ==
  LET upTo[i \in 0 .. Len(es)] == IF i = 0 THEN r ELSE Relax(upTo[i - 1], es[i])
  IN upTo[Len(es)]

Passes(r, es, n) ==
  LET after[k \in 0 .. n] == IF k = 0 THEN r ELSE Pass(after[k - 1], es)
  IN after[n]

Shortens(r, es) == \E i \in DOMAIN es : Shorter(r, es[i])

-----------------------------------------------------------------------------
BF1AddEdge(src, dest, weight) ==
  /\ Len(edges) < MaxEdges
  /\ edges' = Append(edges, [src |-> src, dest |-> dest, weight |-> weight])
  /\ UNCHANGED matrices

BF1FewerPasses(s) ==  \* mutant: a pass too few
  LET r == Passes(Reached(s), edges, N - 2)
  IN IF Shortens(r, edges) THEN Nil ELSE r

BF1(s) ==
  LET r == Passes(Reached(s), edges, N - 1)
  IN IF Shortens(r, edges) THEN Nil ELSE r

(* The path PrintShortestPaths writes for v: as many vertices as there     *)
(* are, should it not end.                                                 *)
ShortestPath(prev, v) ==
  LET path[i \in Vertex] ==
        IF i = 0 THEN <<v>>
        ELSE IF prev[Head(path[i - 1])] = None THEN path[i - 1]
        ELSE <<prev[Head(path[i - 1])]>> \o path[i - 1]
  IN path[N - 1]

(* Before it is set, an item of `predecessors` is 0.                       *)
Predecessors(r) == [v \in Vertex |-> IF r.prev[v] = None THEN 0 ELSE r.prev[v]]

ArbitrageLoop(predecessors, s) ==
  LET back[i \in 0 .. N] == IF i = 0 THEN s ELSE predecessors[back[i - 1]]
      index == Min({i \in 1 .. N : \E j \in 0 .. i - 1 : back[j] = back[i]})
      first == CHOOSE j \in 0 .. index - 1 : back[j] = back[index]
  IN IF index = N THEN Panic  \* loop[size], out of range
     ELSE [i \in 1 .. index - first + 1 |-> back[first + i - 1]]

BF2FewerPasses(s) == Passes(Reached(s), edges, N - 2)  \* mutant: a pass too few

BF2(s) == Passes(Reached(s), edges, N - 1)

FindArbitrageLoop(s) ==
  IF Shortens(BF2(s), edges) THEN ArbitrageLoop(Predecessors(BF2(s)), s) ELSE Nil

-----------------------------------------------------------------------------
(***************************************************************************)
(* BF3Graph.                                                               *)
(***************************************************************************)
NoWeights == [e \in Vertex \X Vertex |-> 0]

SetOrder(n) ==
  /\ V' = n /\ Nmat' = {} /\ Emat' = NoWeights
  /\ UNCHANGED <<edges, E>>

Sorted(v1, v2) == IF v1 <= v2 THEN <<v1, v2>> ELSE <<v2, v1>>

BothWays(v1, v2) == {<<v1, v2>>, <<v2, v1>>}

BF3AddEdge(v1, v2, l) ==
  /\ v1 < V /\ v2 < V /\ Sorted(v1, v2) \notin Nmat
  /\ E < MaxEdges /\ E' = E + 1
  /\ Nmat' = Nmat \cup BothWays(v1, v2)
  /\ Emat' = [e \in DOMAIN Emat |-> IF e \in BothWays(v1, v2) THEN l ELSE Emat[e]]
  /\ UNCHANGED <<edges, V>>

Without(gone) ==
  /\ Nmat' = Nmat \ gone
  /\ Emat' = [e \in DOMAIN Emat |-> IF e \in gone THEN 0 ELSE Emat[e]]
  /\ UNCHANGED <<edges, V, E>>

DelEdgeOneWay(v1, v2) ==  \* mutant: the other direction is left
  v1 < V /\ v2 < V /\ Without({<<v1, v2>>})

DelEdge(v1, v2) == v1 < V /\ v2 < V /\ Without(BothWays(v1, v2))

Neighbours(v) == {k \in Vertex : <<v, k>> \in Nmat}

DisconnectVert(v) == v < V /\ Without(UNION {BothWays(v, k) : k \in Neighbours(v)})

(* The edges in the order of the matrix, row by row.                       *)
Cell(i) == <<(i - 1) \div V, (i - 1) % V>>

Cells ==
  LET upTo[i \in 0 .. V * V] ==
        IF i = 0 THEN <<>>
        ELSE IF Cell(i) \in Nmat THEN Append(upTo[i - 1], Cell(i))
        ELSE upTo[i - 1]
  IN upTo[V * V]

AsEdge(e) == [src |-> e[1], dest |-> e[2], weight |-> Emat[e]]

MatrixEdges == [i \in DOMAIN Cells |-> AsEdge(Cells[i])]

(* It returns what it has worked out even when it warns.                   *)
BF3(s) ==
  LET r == Passes(Reached(s), MatrixEdges, V - 1)
  IN [dist |-> r.dist, prev |-> [r.prev EXCEPT ![s] = IF @ = None THEN s ELSE @],
      warns |-> Shortens(r, MatrixEdges)]

-----------------------------------------------------------------------------
Init ==
  /\ edges = <<>>
  /\ V = 0 /\ E = 0 /\ Nmat = {} /\ Emat = NoWeights

Next ==
  \/ \E u, v \in Vertex, w \in Weight : BF1AddEdge(u, v, w)
  \/ \E n \in 0 .. N : SetOrder(n)
  \/ \E u, v \in Vertex, w \in Weight : BF3AddEdge(u, v, w)
  \/ \E u, v \in Vertex : DelEdge(u, v)
  \/ \E v \in Vertex : DisconnectVert(v)

Spec == Init /\ [][Next]_vars

-----------------------------------------------------------------------------
(***************************************************************************)
(* What shortest means, without relaxation: over all simple paths of a set *)
(* of edges, whose order the algorithms must not heed.                     *)
(***************************************************************************)
Joined(es, u, v) == {e \in es : e.src = u /\ e.dest = v}

IsSimplePath(es, p) ==
  /\ \A i, j \in DOMAIN p : p[i] = p[j] => i = j
  /\ \A i \in 1 .. Len(p) - 1 : Joined(es, p[i], p[i + 1]) # {}

SimplePaths(es) == {p \in UNION {[1 .. n -> Vertex] : n \in 1 .. N} : IsSimplePath(es, p)}

Cheapest(es, u, v) == Min({e.weight : e \in Joined(es, u, v)})

Cost(es, p) ==
  LET upTo[i \in 0 .. Len(p) - 1] == IF i = 0 THEN 0 ELSE upTo[i - 1] + Cheapest(es, p[i], p[i + 1])
  IN upTo[Len(p) - 1]

Paths(es, u, v) == {p \in SimplePaths(es) : Head(p) = u /\ Last(p) = v}

Shortest(es, u, v) == IF Paths(es, u, v) = {} THEN Inf ELSE Min({Cost(es, p) : p \in Paths(es, u, v)})

(* A simple path and the edge that closes it.                              *)
IsNegativeCircle(es, p) ==
  /\ p \in SimplePaths(es)
  /\ \E e \in Joined(es, Last(p), Head(p)) : Cost(es, p) + e.weight < 0

Trapped(es, s) == \E p \in SimplePaths(es) : IsNegativeCircle(es, p) /\ Paths(es, s, Head(p)) # {}

TypeOK ==
  /\ edges \in Seq([src : Vertex, dest : Vertex, weight : Weight])
  /\ V \in 0 .. N /\ E \in 0 .. MaxEdges
  /\ Nmat \subseteq (0 .. V - 1) \X (0 .. V - 1)
  /\ Emat \in [Vertex \X Vertex -> Weight \cup {0}]

(* BF1Graph.BellmanFord finds no result exactly where a negative circle    *)
(* can be reached; otherwise the shortest distances, and PrintShortestPaths *)
(* comes to an end with paths that have them.                              *)
BF1Exact ==
  LET es == ToSet(edges) IN
  \A s \in Vertex :
    IF Trapped(es, s) THEN BF1(s) = Nil
    ELSE /\ BF1(s) # Nil
         /\ \A v \in Vertex : LET p == ShortestPath(BF1(s).prev, v) IN
              /\ BF1(s).dist[v] = Shortest(es, s, v)
              /\ BF1(s).dist[v] # Inf => p \in Paths(es, s, v) /\ Cost(es, p) = BF1(s).dist[v]

(* FindArbitrageLoop returns nil exactly where no negative circle can be   *)
(* reached: N - 1 passes and the look after them tell the two apart.       *)
BF2Notices ==
  \A s \in Vertex : FindArbitrageLoop(s) = Nil <=> ~Trapped(ToSet(edges), s)

(* What it returns, read backwards, is a negative circle: "either an       *)
(* arbitrage loop or a nil map" (bellman_ford_2.go:29).  It is not: the    *)
(* walk back starts at the source and follows items of `predecessors` that *)
(* were never set, or leaves its array on a circle of all the vertices.    *)
IsLoop(p) == p[1] = Last(p) /\ IsNegativeCircle(ToSet(edges), Reverse(Tail(p)))

LoopOrNil ==
  \A s \in Vertex :
    LET found == FindArbitrageLoop(s) IN found # Nil => found # Panic /\ IsLoop(found)

Symmetric ==
  /\ \A e \in Nmat : <<e[2], e[1]>> \in Nmat /\ Emat[e] = Emat[<<e[2], e[1]>>]
  /\ \A e \in DOMAIN Emat \ Nmat : Emat[e] = 0

(* Whatever edges are added, deleted or disconnected, in whichever         *)
(* direction they are named, the matrices are those of an undirected graph *)
(* within the order; BF3Graph.BellmanFord warns exactly where a negative   *)
(* circle can be reached (here: a negative edge), and otherwise its        *)
(* distances are the shortest.                                             *)
BF3Exact ==
  /\ TypeOK /\ Symmetric
  /\ LET both == {AsEdge(e) : e \in Nmat} IN
     \A s \in Vertex : s < V =>
       IF Trapped(both, s) THEN BF3(s).warns
       ELSE ~BF3(s).warns /\ BF3(s).dist = [v \in Vertex |-> Shortest(both, s, v)]
=============================================================================
