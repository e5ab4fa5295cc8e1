------------------------------ MODULE SwapGraph ------------------------------
(***************************************************************************)
(* monitor/arbitrage: findArbitrage builds a graph of the stored pairs     *)
(* (arbitrage.go) and FindCircle looks for a profitable circle through the *)
(* base token in it (graph.go): at most Rounds passes of Bellman-Ford      *)
(* relaxation over a Go map, whose order is different each time, then a    *)
(* walk back along the predecessor edges, of at most Hops edges.           *)
(*                                                                         *)
(* An edge's Distance is -log10(price * (1 - fee)), so a circle with a     *)
(* negative sum returns more than it takes.  Distances are integers here;  *)
(* what float64 adds to them and the code can meet is kept:                *)
(*   NegInf  -Inf, the edge of a pair whose input reserve is 0 (Distance   *)
(*           of the edge INTO the token that is still there is -log(+Inf)) *)
(*   Never   +Inf or NaN, the edge no comparison ever takes                *)
(*   Far     1e18, the distance of a vertex not reached: adding a finite   *)
(*           Distance to it gives 1e18 again (its unit in the last place   *)
(*           is 128, a Distance is below 64), so it reaches nothing        *)
(***************************************************************************)
EXTENDS Integers, Sequences

CONSTANTS
  Token, Source,     \* vertices; Source is the WETH address
  Pool,              \* pair addresses
  Ends,              \* Pool -> <<Token0, Token1>>
  Weight,            \* finite Distances an edge may have
  Drainable,         \* pools one of whose reserves may be 0
  Rounds, Hops,      \* 5 and 10 in the code
  NegInf, Never, Far, NoEdge

ASSUME GraphAssumption ==
  /\ Source \in Token
  /\ Ends \in [Pool -> Token \X Token]
  /\ Weight \subseteq Int
  /\ Drainable \subseteq Pool
ASSUME LimitAssumption == Rounds \in Nat \ {0} /\ Hops \in Nat \ {0}
ASSUME FloatAssumption ==
  /\ {NegInf, Never, Far} \cap Int = {}
  /\ NegInf # Never /\ NegInf # Far /\ Never # Far

(* Every pair gives two edges, key address "+" and address "-".            *)
Edge == Pool \X {"+", "-"}
From(e) == IF e[2] = "+" THEN Ends[e[1]][1] ELSE Ends[e[1]][2]
To(e)   == IF e[2] = "+" THEN Ends[e[1]][2] ELSE Ends[e[1]][1]

ASSUME NoEdgeAssumption == NoEdge \notin Edge

VARIABLES
  weight,     \* Distance of every edge
  distances,  \* of every vertex
  preedges,   \* vertex -> edge that last shortened its distance, or NoEdge
  round,
  todo,       \* edges the range over g.edges has still to visit
  change,
  pc,
  minEdge,
  ret,        \* the walk so far, from Source backwards
  sum         \* history: sum of the Distances along ret

graph == <<weight, distances, preedges>>
vars  == <<graph, round, todo, change, pc, minEdge, ret, sum>>

(* newDist := d + w, and newDist < t, as float64 has them.                 *)
Plus(d, w) == IF w = NegInf \/ d = NegInf THEN NegInf ELSE d + w

Shortens(d, w, t) ==
  \/ w = NegInf /\ t # NegInf
  \/ w \in Int /\ d = NegInf /\ t # NegInf
  \/ w \in Int /\ d \in Int /\ (t = Far \/ (t \in Int /\ d + w < t))

Less(a, b) == a # b /\ (a = NegInf \/ (a \in Int /\ b \in Int /\ a < b))

(***************************************************************************)
(* findArbitrage: the graph of a LoadAll.  The two Distances of a pair are *)
(* -log(p(1-f)) and -log((1-f)/p): together -2log(1-f), not negative while *)
(* the fee is not (Fee < 0 is skipped, as is Error).  A pair with one      *)
(* reserve 0 gives -Inf one way and +Inf the other, with both 0 it gives   *)
(* NaN twice.                                                              *)
(***************************************************************************)
Balanced(a, b) == a + b >= 0

PoolWeights(p) ==
  {w \in Weight \X Weight : Balanced(w[1], w[2])}
    \cup IF p \in Drainable
           THEN {<<NegInf, Never>>, <<Never, NegInf>>, <<Never, Never>>} ELSE {}

NoWeights      == [e \in Edge |-> Never]
NoDistances    == [v \in Token |-> Far]
NoPredecessors == [v \in Token |-> NoEdge]

FindArbitrage ==
  /\ pc = "idle"
  /\ \E w \in [Pool -> UNION {PoolWeights(p) : p \in Pool}] :
       /\ \A p \in Pool : w[p] \in PoolWeights(p)
       /\ weight' = [e \in Edge |-> IF e[2] = "+" THEN w[e[1]][1] ELSE w[e[1]][2]]
  /\ distances' = [NoDistances EXCEPT ![Source] = 0]
  /\ preedges' = NoPredecessors
  /\ round' = 1 /\ todo' = Edge /\ change' = FALSE
  /\ pc' = "relax"
  /\ minEdge' = NoEdge /\ ret' = <<>> /\ sum' = 0

(***************************************************************************)
(* BellmanFord.                                                            *)
(***************************************************************************)
CanShorten(e) == Shortens(distances[From(e)], weight[e], distances[To(e)])
NewDist(e)    == Plus(distances[From(e)], weight[e])

RelaxLastCounts(e) ==  \* mutant: change tells of the last edge only
  /\ pc = "relax" /\ e \in todo
  /\ todo' = todo \ {e}
  /\ change' = CanShorten(e)
  /\ IF CanShorten(e)
       THEN /\ distances' = [distances EXCEPT ![To(e)] = NewDist(e)]
            /\ preedges' = [preedges EXCEPT ![To(e)] = e]
       ELSE UNCHANGED <<distances, preedges>>
  /\ UNCHANGED <<weight, round, pc, minEdge, ret, sum>>

RelaxFirstLost(e) ==  \* mutant: no predecessor is kept for a vertex next to Source
  /\ pc = "relax" /\ e \in todo
  /\ todo' = todo \ {e}
  /\ IF CanShorten(e)
       THEN /\ change' = TRUE
            /\ distances' = [distances EXCEPT ![To(e)] = NewDist(e)]
            /\ preedges' = [preedges EXCEPT ![To(e)] = IF From(e) = Source THEN @ ELSE e]
       ELSE UNCHANGED <<change, distances, preedges>>
  /\ UNCHANGED <<weight, round, pc, minEdge, ret, sum>>

Relax(e) ==
  /\ pc = "relax" /\ e \in todo
  /\ todo' = todo \ {e}
  /\ IF CanShorten(e)
       THEN /\ change' = TRUE
            /\ distances' = [distances EXCEPT ![To(e)] = NewDist(e)]
            /\ preedges' = [preedges EXCEPT ![To(e)] = e]
       ELSE UNCHANGED <<change, distances, preedges>>
  /\ UNCHANGED <<weight, round, pc, minEdge, ret, sum>>

NextRound ==
  /\ pc = "relax" /\ todo = {}
  /\ change /\ round < Rounds
  /\ round' = round + 1 /\ todo' = Edge /\ change' = FALSE
  /\ UNCHANGED <<graph, pc, minEdge, ret, sum>>

StopAtOnce ==  \* mutant: a single round
  /\ pc = "relax" /\ todo = {}
  /\ pc' = "select"
  /\ UNCHANGED <<graph, round, todo, change, minEdge, ret, sum>>

StopRelaxing ==
  /\ pc = "relax" /\ todo = {}
  /\ ~change \/ round = Rounds
  /\ pc' = "select"
  /\ UNCHANGED <<graph, round, todo, change, minEdge, ret, sum>>

(***************************************************************************)
(* FindCircle: the edge that closes the best circle, one of them if there  *)
(* are several, then back along the predecessors.                          *)
(***************************************************************************)
ClosingAny ==  \* mutant: any reached edge into Source closes a circle
  {e \in Edge : To(e) = Source /\ distances[From(e)] # Far /\ weight[e] # Never}

Closing == {e \in Edge : To(e) = Source /\ CanShorten(e)}

SelectEdge(e) ==
  /\ pc = "select" /\ e \in Closing
  /\ \A f \in Closing : ~Less(NewDist(f), NewDist(e))
  /\ minEdge' = e /\ pc' = "walk"
  /\ UNCHANGED <<graph, round, todo, change, ret, sum>>

SelectNone ==
  /\ pc = "select" /\ Closing = {}
  /\ pc' = "done"
  /\ UNCHANGED <<graph, round, todo, change, minEdge, ret, sum>>

WalkClose ==
  /\ pc = "walk" /\ From(minEdge) = Source
  /\ ret' = Append(ret, minEdge) /\ sum' = Plus(sum, weight[minEdge])
  /\ pc' = "done"
  /\ UNCHANGED <<graph, round, todo, change, minEdge>>

WalkBack ==
  /\ pc = "walk" /\ From(minEdge) # Source /\ Len(ret) + 1 < Hops
  /\ preedges[From(minEdge)] # NoEdge
  /\ ret' = Append(ret, minEdge) /\ sum' = Plus(sum, weight[minEdge])
  /\ minEdge' = preedges[From(minEdge)]
  /\ UNCHANGED <<graph, round, todo, change, pc>>

WalkGiveUpKeeps ==  \* mutant: the walk that reached the limit is returned
  /\ pc = "walk" /\ From(minEdge) # Source /\ Len(ret) + 1 = Hops
  /\ ret' = Append(ret, minEdge) /\ sum' = Plus(sum, weight[minEdge])
  /\ pc' = "done"
  /\ UNCHANGED <<graph, round, todo, change, minEdge>>

WalkGiveUp ==
  /\ pc = "walk" /\ From(minEdge) # Source /\ Len(ret) + 1 = Hops
  /\ ret' = <<>> /\ sum' = 0
  /\ pc' = "done"
  /\ UNCHANGED <<graph, round, todo, change, minEdge>>

(* g.edges[""] is nil, its Pair is read, nothing recovers: the process     *)
(* ends.                                                                   *)
WalkNil ==
  /\ pc = "walk" /\ From(minEdge) # Source /\ Len(ret) + 1 < Hops
  /\ preedges[From(minEdge)] = NoEdge
  /\ pc' = "panic"
  /\ UNCHANGED <<graph, round, todo, change, minEdge, ret, sum>>

(* The path, if any, is handed to tryTrade and the graph is dropped; 100ms *)
(* later the next search starts.                                           *)
Finish ==
  /\ pc = "done"
  /\ pc' = "idle"
  /\ weight' = NoWeights /\ distances' = NoDistances /\ preedges' = NoPredecessors
  /\ round' = 1 /\ todo' = {} /\ change' = FALSE
  /\ minEdge' = NoEdge /\ ret' = <<>> /\ sum' = 0

-----------------------------------------------------------------------------
Init ==
  /\ pc = "idle"
  /\ weight = NoWeights /\ distances = NoDistances /\ preedges = NoPredecessors
  /\ round = 1 /\ todo = {} /\ change = FALSE
  /\ minEdge = NoEdge /\ ret = <<>> /\ sum = 0

BellmanFord == (\E e \in Edge : Relax(e)) \/ NextRound \/ StopRelaxing

FindCircle ==
  (\E e \in Edge : SelectEdge(e)) \/ SelectNone \/ WalkClose \/ WalkBack \/ WalkGiveUp \/ WalkNil

Next == FindArbitrage \/ BellmanFord \/ FindCircle \/ Finish

Spec == Init /\ [][Next]_vars

-----------------------------------------------------------------------------
EdgeWeight == Int \cup {NegInf, Never}
Distance   == Int \cup {NegInf, Far}
Total      == Int \cup {NegInf}

TypeOK ==
  /\ weight \in [Edge -> EdgeWeight]
  /\ distances \in [Token -> Distance]
  /\ preedges \in [Token -> Edge \cup {NoEdge}]
  /\ round \in 1 .. Rounds
  /\ todo \subseteq Edge
  /\ change \in BOOLEAN
  /\ pc \in {"idle", "relax", "select", "walk", "done", "panic"}
  /\ minEdge \in Edge \cup {NoEdge}
  /\ ret \in Seq(Edge) /\ Len(ret) <= Hops
  /\ sum \in Total

(* Edges that some comparison took.                                        *)
Usable(e) == weight[e] \in Total

PricedAsPools ==
  pc # "idle" => \A p \in Pool : <<weight[<<p, "+">>], weight[<<p, "-">>]>> \in PoolWeights(p)

(* t is no less than d + w: a vertex is no closer than its predecessor and *)
(* the edge between.  It was not when the edge was taken, and since then   *)
(* the predecessor only came closer.                                       *)
Supported(d, w, t) ==
  \/ w = NegInf
  \/ w \in Int /\ d = NegInf
  \/ w \in Int /\ d \in Int /\ t \in Int /\ d + w <= t

Predecessors ==
  \A v \in Token : preedges[v] # NoEdge =>
    /\ To(preedges[v]) = v
    /\ Supported(distances[From(preedges[v])], weight[preedges[v]], distances[v])

Reached == \A v \in Token \ {Source} : distances[v] # Far => preedges[v] # NoEdge

SourceNear ==
  pc # "idle" => \/ distances[Source] = NegInf
                 \/ distances[Source] \in Int /\ distances[Source] <= 0

Scanned ==
  /\ pc = "relax" /\ ~change => \A e \in Edge \ todo : ~CanShorten(e)
  /\ pc \in {"select", "walk"} /\ ~change => \A e \in Edge : ~CanShorten(e)

(* The walk so far: a chain of edges, each but the first the predecessor   *)
(* of the vertex it leads to.                                              *)
Chain ==
  /\ \A i \in 1 .. Len(ret) : Usable(ret[i])
  /\ \A i \in 1 .. Len(ret) - 1 :
       /\ From(ret[i]) # Source
       /\ To(ret[i + 1]) = From(ret[i])
       /\ ret[i + 1] = preedges[From(ret[i])]
  /\ ret # <<>> => To(ret[1]) = Source
  /\ ret # <<>> /\ pc = "done" => From(ret[Len(ret)]) = Source
  /\ pc \in {"idle", "relax", "select"} => ret = <<>>

Ahead ==
  pc = "walk" =>
    /\ minEdge \in Edge /\ Usable(minEdge) /\ Len(ret) < Hops
    /\ ret = <<>> => To(minEdge) = Source
    /\ ret # <<>> => /\ From(ret[Len(ret)]) # Source
                     /\ To(minEdge) = From(ret[Len(ret)])
                     /\ minEdge = preedges[From(ret[Len(ret)])]

(* What is left to walk is cheaper than the walk so far is dear.           *)
Gain ==
  /\ pc = "walk" =>
       /\ distances[Source] \in Int
       /\ \/ sum = NegInf \/ weight[minEdge] = NegInf \/ distances[From(minEdge)] = NegInf
          \/ /\ distances[From(minEdge)] \in Int
             /\ sum + weight[minEdge] + distances[From(minEdge)] < distances[Source]
  /\ pc = "done" /\ ret # <<>> => sum = NegInf \/ sum < 0

ShortSums ==
  /\ Len(ret) = 0 => sum = 0
  /\ Len(ret) = 1 => sum = Plus(0, weight[ret[1]])
  /\ Len(ret) = 2 => sum = Plus(Plus(0, weight[ret[1]]), weight[ret[2]])

(* A walk that met a vertex twice goes round for ever, beside Source.      *)
Trapped ==
  \E S \in SUBSET (Token \ {Source}) :
    /\ From(minEdge) \in S
    /\ \A v \in S : preedges[v] # NoEdge /\ From(preedges[v]) \in S

NoVertexTwice == \A i, j \in 1 .. Len(ret) : From(ret[i]) = From(ret[j]) => i = j

Straight == NoVertexTwice \/ (pc = "walk" /\ Trapped)

(* If no pool is drained the walk is at a vertex that was reached.         *)
WalkReached ==
  pc = "walk" /\ (\A e \in Edge : weight[e] # NegInf) => distances[From(minEdge)] # Far

(* Sequences of edges that follow each other from Source, and their        *)
(* Distances added up.                                                     *)
Chained(c) == \A i \in 1 .. Len(c) - 1 : To(c[i]) = From(c[i + 1])

Chains(n) == {c \in [1 .. n -> Edge] : From(c[1]) = Source /\ Chained(c)}

Walks == UNION {Chains(n) : n \in 1 .. Rounds}

Priced(c) == \A i \in 1 .. Len(c) : weight[c[i]] \in Int

SumAlong(c) ==
  LET upTo[i \in 0 .. Len(c)] == IF i = 0 THEN 0 ELSE upTo[i - 1] + weight[c[i]]
  IN upTo[Len(c)]

NoFarther(d, s) == d = NegInf \/ (d \in Int /\ d <= s)

(* A round gets one edge further: after n of them a vertex is no farther   *)
(* than any walk of up to n edges to it, whatever the order of the map.    *)
InRounds ==
  /\ pc \in {"relax", "select"} =>
       \A c \in Walks :
         (Len(c) < round \/ (Len(c) = round /\ c[Len(c)] \notin todo)) /\ Priced(c) =>
           NoFarther(distances[To(c[Len(c)])], SumAlong(c))
  /\ pc = "select" => todo = {} /\ (change => round = Rounds)

Inv ==
  /\ PricedAsPools /\ Predecessors /\ Reached /\ SourceNear /\ Scanned /\ InRounds
  /\ Chain /\ Ahead /\ Gain /\ ShortSums /\ Straight /\ WalkReached

(* Why the walk back along the predecessors (graph.go:94-107) is a path    *)
(* worth trading, whatever the order of the scans: inductive.              *)
IInv == TypeOK /\ Inv

Found == pc = "done" /\ ret # <<>>

(* A path handed to the trader is profitable at the prices of the          *)
(* snapshot: its Distances add up to less than 0, in whatever order the    *)
(* map was scanned and although the relaxation may have stopped half way.  *)
Profitable == Found => sum = NegInf \/ sum < 0

(* It is a walk that starts and ends with WETH, so the amounts of the      *)
(* trader, which follow the tokens along the path, are never 0 for want of *)
(* a matching token.                                                       *)
ClosedWalk ==
  Found =>
    /\ To(ret[1]) = Source /\ From(ret[Len(ret)]) = Source
    /\ \A i \in 1 .. Len(ret) - 1 : To(ret[i + 1]) = From(ret[i])

(* It trades in no pair twice: the reserves of the snapshot would not be   *)
(* those the second trade meets.                                           *)
PoolsDistinct ==
  Found => \A i, j \in 1 .. Len(ret) : i # j => ret[i][1] # ret[j][1]

(* If relaxation stops before its last round nothing was missed: no edge   *)
(* can shorten anything, so the graph reached has no circle to be found.   *)
StopEarly ==
  pc \in {"select", "walk"} /\ ~change => \A e \in Edge : ~CanShorten(e)

(* The circles Rounds passes are enough for.                               *)
ShortCircles ==
  {c \in UNION {Chains(n) : n \in 2 .. Rounds + 1} :
     /\ To(c[Len(c)]) = Source
     /\ \A i \in 1 .. Len(c) - 1 : To(c[i]) # Source}

Pays(c) == Priced(c) /\ SumAlong(c) < 0

(* However the map is scanned, nothing is selected although a profitable   *)
(* circle of at most Rounds + 1 edges goes through WETH only if a circle   *)
(* has come back to WETH before, and made it look cheaper than it is.      *)
MissedByLap ==
  pc = "select" /\ Closing = {} /\ (\E c \in ShortCircles : Pays(c)) =>
    Less(distances[Source], 0)

(* The walk back finds a predecessor at every vertex (else the process     *)
(* ends with a nil dereference) unless a pair has an empty reserve.        *)
PanicNeedsDrained == pc = "panic" => \E e \in Edge : weight[e] = NegInf
=============================================================================
