--------------------------- MODULE SwapGraphProofs ---------------------------
(***************************************************************************)
(* Theorems about SwapGraph, for every graph, every order of the scans,    *)
(* any number of rounds and any limit on the walk.                         *)
(***************************************************************************)
EXTENDS SwapGraph, NatSets, SequenceTheorems, TLAPS

LEMMA EdgeEnds ==
  ASSUME NEW e \in Edge
  PROVE  /\ From(e) \in Token /\ To(e) \in Token
         /\ e[1] \in Pool /\ e[2] \in {"+", "-"}
         /\ e = <<e[1], e[2]>>
  BY GraphAssumption DEF Edge, From, To

(* What CanShorten means for the two distances and the edge.               *)
LEMMA ShortenCases ==
  ASSUME TypeOK, NEW e \in Edge, CanShorten(e)
  PROVE  /\ distances[To(e)] # NegInf
         /\ Usable(e)
         /\ \/ weight[e] = NegInf /\ NewDist(e) = NegInf
            \/ weight[e] \in Int /\ distances[From(e)] = NegInf /\ NewDist(e) = NegInf
            \/ /\ weight[e] \in Int /\ distances[From(e)] \in Int
               /\ NewDist(e) = distances[From(e)] + weight[e] /\ NewDist(e) \in Int
               /\ distances[To(e)] = Far \/
                  (distances[To(e)] \in Int /\ NewDist(e) < distances[To(e)])
  BY EdgeEnds, FloatAssumption
  DEF TypeOK, CanShorten, Shortens, NewDist, Plus, Usable, Distance, EdgeWeight, Total

LEMMA PlusType ==
  ASSUME NEW d \in Total, NEW w \in Total
  PROVE  Plus(d, w) \in Total
  BY DEF Plus, Total

LEMMA FindArbitrageWeights ==
  ASSUME FindArbitrage
  PROVE  /\ weight' \in [Edge -> EdgeWeight]
         /\ \A p \in Pool : <<weight'[<<p, "+">>], weight'[<<p, "-">>]>> \in PoolWeights(p)
  <1>1. PICK w \in [Pool -> UNION {PoolWeights(p) : p \in Pool}] :
          /\ \A p \in Pool : w[p] \in PoolWeights(p)
          /\ weight' = [e \in Edge |-> IF e[2] = "+" THEN w[e[1]][1] ELSE w[e[1]][2]]
    BY DEF FindArbitrage
  <1>2. ASSUME NEW p \in Pool
        PROVE  /\ w[p][1] \in EdgeWeight
               /\ w[p][2] \in EdgeWeight
               /\ w[p] = <<w[p][1], w[p][2]>>
    <2>1. w[p] \in PoolWeights(p)
      BY <1>1
    <2> QED
      BY <2>1, GraphAssumption DEF PoolWeights, EdgeWeight
  <1>3. weight' \in [Edge -> EdgeWeight]
    BY <1>1, <1>2, EdgeEnds
  <1>4. ASSUME NEW p \in Pool
        PROVE  <<weight'[<<p, "+">>], weight'[<<p, "-">>]>> = w[p]
    <2>1. <<p, "+">> \in Edge /\ <<p, "-">> \in Edge
      BY DEF Edge
    <2>2. weight'[<<p, "+">>] = w[p][1] /\ weight'[<<p, "-">>] = w[p][2]
      BY <1>1, <2>1
    <2> QED
      BY <1>2, <2>2
  <1> QED
    BY <1>1, <1>3, <1>4

-----------------------------------------------------------------------------
LEMMA NewGraphType ==
  /\ NoWeights \in [Edge -> EdgeWeight]
  /\ NoDistances \in [Token -> Distance]
  /\ [NoDistances EXCEPT ![Source] = 0] \in [Token -> Distance]
  /\ NoPredecessors \in [Token -> Edge \cup {NoEdge}]
  /\ <<>> \in Seq(Edge) /\ Len(<<>>) = 0 /\ 0 \in Total
  <1>1. Never \in EdgeWeight /\ Far \in Distance /\ 0 \in Distance /\ 0 \in Total
    BY DEF EdgeWeight, Distance, Total
  <1>2. NoWeights \in [Edge -> EdgeWeight]
    BY <1>1 DEF NoWeights
  <1>3. NoDistances \in [Token -> Distance]
    BY <1>1 DEF NoDistances
  <1>4. ASSUME NEW d \in Distance PROVE [NoDistances EXCEPT ![Source] = d] \in [Token -> Distance]
    BY <1>3
  <1>5. NoPredecessors \in [Token -> Edge \cup {NoEdge}]
    BY DEF NoPredecessors
  <1>6. <<>> \in Seq(Edge) /\ Len(<<>>) = 0
    OBVIOUS
  <1> QED
    BY <1>1, <1>2, <1>3, <1>4, <1>5, <1>6

LEMMA LimitsType == 1 \in 1 .. Rounds /\ 0 <= Hops
  BY LimitAssumption

LEMMA TypeInit == Init => TypeOK
  <1> SUFFICES ASSUME Init PROVE TypeOK
    OBVIOUS
  <1>1. /\ weight \in [Edge -> EdgeWeight] /\ distances \in [Token -> Distance]
        /\ preedges \in [Token -> Edge \cup {NoEdge}]
    BY NewGraphType DEF Init
  <1>2. round \in 1 .. Rounds /\ todo \subseteq Edge /\ change \in BOOLEAN
    BY LimitsType DEF Init
  <1>3. ret \in Seq(Edge) /\ Len(ret) <= Hops /\ sum \in Total
    BY NewGraphType, LimitsType DEF Init
  <1> QED
    BY <1>1, <1>2, <1>3 DEF Init, TypeOK

LEMMA TypeStep == TypeOK /\ Inv /\ [Next]_vars => TypeOK'
  <1> SUFFICES ASSUME TypeOK, Inv, [Next]_vars PROVE TypeOK'
    OBVIOUS
  <1> USE LimitAssumption DEF TypeOK, graph
  <1>1. CASE FindArbitrage
    <2>1. /\ distances' \in [Token -> Distance]
          /\ preedges' \in [Token -> Edge \cup {NoEdge}]
      BY <1>1, NewGraphType DEF FindArbitrage
    <2>2. round' \in 1 .. Rounds /\ todo' \subseteq Edge /\ change' \in BOOLEAN
      BY <1>1, LimitsType DEF FindArbitrage
    <2>3. ret' \in Seq(Edge) /\ Len(ret') <= Hops /\ sum' \in Total
      BY <1>1, NewGraphType, LimitsType DEF FindArbitrage
    <2> QED
      BY <1>1, <2>1, <2>2, <2>3, FindArbitrageWeights DEF FindArbitrage
  <1>2. ASSUME NEW e \in Edge, Relax(e) PROVE TypeOK'
    <2>1. CanShorten(e) => NewDist(e) \in Distance
      BY ShortenCases DEF Distance
    <2> QED
      BY <1>2, <2>1, EdgeEnds DEF Relax
  <1>3. CASE NextRound
    <2>1. round' \in 1 .. Rounds
      BY <1>3 DEF NextRound
    <2> QED
      BY <1>3, <2>1 DEF NextRound
  <1>4. CASE StopRelaxing
    BY <1>4 DEF StopRelaxing
  <1>5. ASSUME NEW e \in Edge, SelectEdge(e) PROVE TypeOK'
    BY <1>5 DEF SelectEdge
  <1>6. CASE SelectNone
    BY <1>6 DEF SelectNone
  <1>7. ASSUME pc = "walk"
        PROVE  /\ Plus(sum, weight[minEdge]) \in Total
               /\ minEdge \in Edge /\ Len(ret) < Hops
               /\ Append(ret, minEdge) \in Seq(Edge)
               /\ Len(Append(ret, minEdge)) = Len(ret) + 1
    BY <1>7, PlusType DEF Inv, Ahead, Usable
  <1>8. CASE WalkClose
    BY <1>7, <1>8 DEF WalkClose
  <1>9. CASE WalkBack
    BY <1>7, <1>9, EdgeEnds DEF WalkBack
  <1>10. CASE WalkGiveUp
    <2>1. ret' \in Seq(Edge) /\ Len(ret') <= Hops /\ sum' \in Total
      BY <1>10, NewGraphType, LimitsType DEF WalkGiveUp
    <2> QED
      BY <1>10, <2>1 DEF WalkGiveUp
  <1>11. CASE WalkNil
    BY <1>11 DEF WalkNil
  <1>12. CASE Finish
    <2>1. /\ weight' \in [Edge -> EdgeWeight] /\ distances' \in [Token -> Distance]
          /\ preedges' \in [Token -> Edge \cup {NoEdge}]
      BY <1>12, NewGraphType DEF Finish
    <2>2. round' \in 1 .. Rounds /\ todo' \subseteq Edge /\ change' \in BOOLEAN
      BY <1>12, LimitsType DEF Finish
    <2>3. ret' \in Seq(Edge) /\ Len(ret') <= Hops /\ sum' \in Total
      BY <1>12, NewGraphType, LimitsType DEF Finish
    <2> QED
      BY <1>12, <2>1, <2>2, <2>3 DEF Finish
  <1>13. CASE UNCHANGED vars
    BY <1>13 DEF vars
  <1> QED
    BY <1>1, <1>2, <1>3, <1>4, <1>5, <1>6, <1>8, <1>9, <1>10, <1>11, <1>12, <1>13
    DEF Next, BellmanFord, FindCircle

-----------------------------------------------------------------------------
(* Most steps leave the graph alone.                                       *)
LEMMA GraphChanges ==
  ASSUME [Next]_vars
  PROVE  \/ FindArbitrage \/ Finish \/ (\E e \in Edge : Relax(e))
         \/ UNCHANGED graph /\ (pc' # "idle" => pc # "idle")
  BY DEF Next, BellmanFord, FindCircle, NextRound, StopRelaxing, SelectEdge, SelectNone,
         WalkClose, WalkBack, WalkGiveUp, WalkNil, vars, graph

LEMMA PricedStep == TypeOK /\ Inv /\ [Next]_vars => PricedAsPools'
  <1> SUFFICES ASSUME TypeOK, PricedAsPools, [Next]_vars PROVE PricedAsPools'
    BY DEF Inv
  <1>1. CASE FindArbitrage
    BY <1>1, FindArbitrageWeights DEF PricedAsPools
  <1>2. CASE Finish
    BY <1>2 DEF Finish, PricedAsPools
  <1>3. CASE \E e \in Edge : Relax(e)
    BY <1>3 DEF Relax, PricedAsPools
  <1>4. CASE UNCHANGED graph /\ (pc' # "idle" => pc # "idle")
    BY <1>4 DEF graph, PricedAsPools
  <1> QED
    BY <1>1, <1>2, <1>3, <1>4, GraphChanges

(* Three facts about distances: what a relaxation sets is supported, stays *)
(* so if the predecessor comes closer, and also along a pair of a token    *)
(* with itself.                                                            *)
LEMMA ShortenSupports ==
  ASSUME NEW d \in Distance, NEW w \in EdgeWeight, NEW t \in Distance, Shortens(d, w, t)
  PROVE  Supported(d, w, Plus(d, w))
  BY FloatAssumption DEF Shortens, Supported, Plus, Distance, EdgeWeight

LEMMA CloserSupports ==
  ASSUME NEW d \in Distance, NEW w \in EdgeWeight, NEW t \in Distance, Supported(d, w, t),
         NEW b \in Distance, NEW u \in EdgeWeight, Shortens(b, u, d)
  PROVE  Supported(Plus(b, u), w, t)
  BY FloatAssumption DEF Shortens, Supported, Plus, Distance, EdgeWeight

LEMMA LoopSupports ==
  ASSUME NEW d \in Distance, NEW w \in EdgeWeight, Shortens(d, w, d)
  PROVE  Supported(Plus(d, w), w, Plus(d, w))
  BY FloatAssumption DEF Shortens, Supported, Plus, Distance, EdgeWeight

LEMMA PredecessorStep == TypeOK /\ Inv /\ [Next]_vars => Predecessors'
  <1> SUFFICES ASSUME TypeOK, Predecessors, [Next]_vars PROVE Predecessors'
    BY DEF Inv
  <1>1. CASE FindArbitrage
    BY <1>1 DEF FindArbitrage, Predecessors, NoPredecessors
  <1>2. CASE Finish
    BY <1>2 DEF Finish, Predecessors, NoPredecessors
  <1>3. ASSUME NEW e \in Edge, Relax(e) PROVE Predecessors'
    <2>1. CASE ~CanShorten(e)
      BY <1>3, <2>1 DEF Relax, Predecessors
    <2>2. CASE CanShorten(e)
      <3>1. /\ distances' = [distances EXCEPT ![To(e)] = NewDist(e)]
            /\ preedges' = [preedges EXCEPT ![To(e)] = e]
            /\ weight' = weight
        BY <1>3, <2>2 DEF Relax
      <3>2. From(e) \in Token /\ To(e) \in Token
        BY EdgeEnds
      <3>3. ASSUME NEW v \in Token, preedges'[v] # NoEdge
            PROVE  /\ To(preedges'[v]) = v
                   /\ Supported(distances'[From(preedges'[v])], weight[preedges'[v]], distances'[v])
        <4>1. CASE v = To(e)
          <5>1. preedges'[v] = e /\ distances'[v] = NewDist(e)
            BY <3>1, <3>2, <4>1 DEF TypeOK
          <5>2. CASE From(e) # v
            <6>1. distances'[From(e)] = distances[From(e)]
              BY <3>1, <3>2, <4>1, <5>2 DEF TypeOK
            <6>2. Supported(distances[From(e)], weight[e], NewDist(e))
              BY <2>2, <3>2, ShortenSupports DEF TypeOK, CanShorten, NewDist
            <6> QED
              BY <4>1, <5>1, <6>1, <6>2
          <5>3. CASE From(e) = v
            <6>1. Supported(NewDist(e), weight[e], NewDist(e))
              BY <2>2, <3>2, <4>1, <5>3, LoopSupports DEF TypeOK, CanShorten, NewDist
            <6> QED
              BY <4>1, <5>1, <5>3, <6>1
          <5> QED
            BY <5>2, <5>3
        <4>2. CASE v # To(e)
          <5>1. PICK f \in Edge : f = preedges[v]
            BY <3>1, <3>3, <4>2 DEF TypeOK
          <5>2. preedges'[v] = f /\ distances'[v] = distances[v] /\ From(f) \in Token
            BY <3>1, <4>2, <5>1, EdgeEnds DEF TypeOK
          <5>3. To(f) = v /\ Supported(distances[From(f)], weight[f], distances[v])
            BY <3>3, <5>1, <5>2 DEF Predecessors
          <5>4. CASE From(f) # To(e)
            <6>1. distances'[From(f)] = distances[From(f)]
              BY <3>1, <5>2, <5>4 DEF TypeOK
            <6> QED
              BY <5>2, <5>3, <6>1
          <5>5. CASE From(f) = To(e)
            <6>1. distances'[From(f)] = NewDist(e)
              BY <3>1, <5>2, <5>5 DEF TypeOK
            <6>2. Supported(NewDist(e), weight[f], distances[v])
              BY <2>2, <3>2, <5>3, <5>5, CloserSupports DEF TypeOK, CanShorten, NewDist
            <6> QED
              BY <5>2, <5>3, <6>1, <6>2
          <5> QED
            BY <5>4, <5>5
        <4> QED
          BY <4>1, <4>2
      <3> QED
        BY <3>1, <3>3 DEF Predecessors
    <2> QED
      BY <2>1, <2>2
  <1>4. CASE UNCHANGED graph /\ (pc' # "idle" => pc # "idle")
    BY <1>4 DEF graph, Predecessors
  <1> QED
    BY <1>1, <1>2, <1>3, <1>4, GraphChanges

LEMMA ReachedStep == TypeOK /\ Inv /\ [Next]_vars => Reached'
  <1> SUFFICES ASSUME TypeOK, Reached, [Next]_vars PROVE Reached'
    BY DEF Inv
  <1>1. CASE FindArbitrage
    BY <1>1 DEF FindArbitrage, Reached, NoDistances
  <1>2. CASE Finish
    BY <1>2 DEF Finish, Reached, NoDistances
  <1>3. ASSUME NEW e \in Edge, Relax(e) PROVE Reached'
    BY <1>3, EdgeEnds, NoEdgeAssumption DEF Relax, Reached, TypeOK
  <1>4. CASE UNCHANGED graph /\ (pc' # "idle" => pc # "idle")
    BY <1>4 DEF graph, Reached
  <1> QED
    BY <1>1, <1>2, <1>3, <1>4, GraphChanges

(* Source starts at 0 and only comes closer.                               *)
LEMMA SourceStep == TypeOK /\ Inv /\ [Next]_vars => SourceNear'
  <1> SUFFICES ASSUME TypeOK, SourceNear, [Next]_vars PROVE SourceNear'
    BY DEF Inv
  <1>1. CASE FindArbitrage
    <2>1. distances'[Source] = 0
      BY <1>1, GraphAssumption DEF FindArbitrage, NoDistances
    <2> QED
      BY <2>1 DEF SourceNear
  <1>2. CASE Finish
    BY <1>2 DEF Finish, SourceNear
  <1>3. ASSUME NEW e \in Edge, Relax(e) PROVE SourceNear'
    <2>1. CASE CanShorten(e) /\ To(e) = Source
      <3>1. distances'[Source] = NewDist(e)
        BY <1>3, <2>1, GraphAssumption DEF Relax, TypeOK
      <3>2. distances[Source] = NegInf \/ (distances[Source] \in Int /\ distances[Source] <= 0)
        BY <1>3 DEF SourceNear, Relax
      <3>3. NewDist(e) = NegInf \/ (NewDist(e) \in Int /\ NewDist(e) <= 0)
        BY <2>1, <3>2, ShortenCases, FloatAssumption
      <3> QED
        BY <3>1, <3>3 DEF SourceNear
    <2>2. CASE ~(CanShorten(e) /\ To(e) = Source)
      <3>1. distances'[Source] = distances[Source] /\ pc' = pc
        BY <1>3, <2>2, GraphAssumption DEF Relax, TypeOK
      <3> QED
        BY <3>1 DEF SourceNear
    <2> QED
      BY <2>1, <2>2
  <1>4. CASE UNCHANGED graph /\ (pc' # "idle" => pc # "idle")
    BY <1>4 DEF graph, SourceNear
  <1> QED
    BY <1>1, <1>2, <1>3, <1>4, GraphChanges

(* As long as a round changed nothing, the edges it has passed still       *)
(* cannot shorten anything.                                                *)
LEMMA ScannedStep == TypeOK /\ Inv /\ [Next]_vars => Scanned'
  <1> SUFFICES ASSUME TypeOK, Scanned, [Next]_vars PROVE Scanned'
    BY DEF Inv
  <1> USE DEF Scanned
  <1>1. CASE FindArbitrage
    BY <1>1 DEF FindArbitrage
  <1>2. ASSUME NEW e \in Edge, Relax(e) PROVE Scanned'
    <2>1. CASE CanShorten(e)
      BY <1>2, <2>1 DEF Relax
    <2>2. CASE ~CanShorten(e)
      <3>1. UNCHANGED graph /\ UNCHANGED <<change, pc>> /\ todo' = todo \ {e} /\ pc = "relax"
        BY <1>2, <2>2 DEF Relax, graph
      <3>2. \A f \in Edge : CanShorten(f)' <=> CanShorten(f)
        BY <3>1 DEF CanShorten, graph
      <3> QED
        BY <2>2, <3>1, <3>2
    <2> QED
      BY <2>1, <2>2
  <1>3. CASE NextRound
    BY <1>3 DEF NextRound
  <1>4. ASSUME UNCHANGED graph PROVE \A f \in Edge : CanShorten(f)' <=> CanShorten(f)
    BY <1>4 DEF CanShorten, graph
  <1>5. CASE StopRelaxing
    BY <1>4, <1>5 DEF StopRelaxing
  <1>6. ASSUME NEW e \in Edge, SelectEdge(e) PROVE Scanned'
    BY <1>4, <1>6 DEF SelectEdge
  <1>7. CASE WalkBack
    BY <1>4, <1>7 DEF WalkBack
  <1>8. CASE SelectNone \/ WalkClose \/ WalkGiveUp \/ WalkNil \/ Finish
    BY <1>8 DEF SelectNone, WalkClose, WalkGiveUp, WalkNil, Finish
  <1>9. CASE UNCHANGED vars
    BY <1>4, <1>9 DEF vars
  <1> QED
    BY <1>1, <1>2, <1>3, <1>5, <1>6, <1>7, <1>8, <1>9 DEF Next, BellmanFord, FindCircle

-----------------------------------------------------------------------------
(***************************************************************************)
(* Sums along sequences of edges, prefix by prefix.                        *)
(***************************************************************************)
LEMMA SumIs ==
  ASSUME NEW c, Len(c) \in Nat, Priced(c)
  PROVE  \E f : /\ f[0] = 0 /\ SumAlong(c) = f[Len(c)]
                /\ \A i \in 0 .. Len(c) : f[i] \in Int
                /\ \A i \in 1 .. Len(c) : f[i] = f[i - 1] + weight[c[i]]
  <1> DEFINE n == Len(c)
             UpTo(g, i) == IF i = 0 THEN 0 ELSE g[i - 1] + weight[c[i]]
             Made == {m \in Nat : \E g : g = [i \in 0 .. m |-> UpTo(g, i)]}
  <1>1. 0 \in Made
    <2> DEFINE e == [i \in 0 .. 0 |-> 0]
    <2>1. e = [i \in 0 .. 0 |-> UpTo(e, i)]
      OBVIOUS
    <2> QED
      BY <2>1
  <1>2. ASSUME NEW m \in 0 .. n - 1, m \in Made PROVE m + 1 \in Made
    <2>1. PICK g : g = [i \in 0 .. m |-> UpTo(g, i)]
      BY <1>2
    <2> DEFINE g2 == [i \in 0 .. m + 1 |-> IF i = m + 1 THEN UpTo(g, i) ELSE g[i]]
    <2>2. \A i \in 0 .. m : g[i] = UpTo(g, i)
      BY <2>1
    <2>3. ASSUME NEW i \in 0 .. m + 1 PROVE g2[i] = UpTo(g2, i)
      <3>1. i # 0 => i - 1 \in 0 .. m /\ i - 1 # m + 1
        OBVIOUS
      <3>2. i # 0 => g2[i - 1] = g[i - 1]
        BY <3>1
      <3>3. UpTo(g2, i) = UpTo(g, i)
        BY <3>2
      <3> QED
        BY <2>2, <3>3
    <2>4. g2 = [i \in 0 .. m + 1 |-> g2[i]]
      OBVIOUS
    <2> HIDE DEF g2
    <2>5. g2 = [i \in 0 .. m + 1 |-> UpTo(g2, i)]
      BY <2>3, <2>4
    <2>6. \E h : h = [i \in 0 .. m + 1 |-> UpTo(h, i)]
      BY <2>5
    <2> QED
      BY <2>6
  <1>3. n \in Made
    <2> HIDE DEF Made
    <2>1. \A i \in 0 .. n - 1 : i \in Made => i + 1 \in Made
      BY <1>2
    <2>2. \A i \in 0 .. n : i \in Made
      BY <1>1, <2>1, Induction
    <2> QED
      BY <2>2
  <1> DEFINE f == CHOOSE g : g = [i \in 0 .. n |-> UpTo(g, i)]
  <1>4. f = [i \in 0 .. n |-> UpTo(f, i)]
    BY <1>3
  <1>5. SumAlong(c) = f[n]
    BY DEF SumAlong
  <1> HIDE DEF f
  <1>6. \A i \in 0 .. n : f[i] = UpTo(f, i)
    BY <1>4
  <1>7. \A i \in 1 .. n : f[i] = f[i - 1] + weight[c[i]]
    <2>1. ASSUME NEW i \in 1 .. n PROVE f[i] = f[i - 1] + weight[c[i]]
      <3>1. i \in 0 .. n /\ i # 0
        OBVIOUS
      <3> QED
        BY <1>6, <3>1
    <2> QED
      BY <2>1
  <1>8. f[0] = 0
    BY <1>6
  <1>9. \A i \in 0 .. n : f[i] \in Int
    <2> DEFINE Good == {i \in 0 .. n : f[i] \in Int}
    <2>1. ASSUME NEW i \in 0 .. n - 1, i \in Good PROVE i + 1 \in Good
      <3>1. i + 1 \in 1 .. n /\ i + 1 \in 0 .. n /\ (i + 1) - 1 = i
        OBVIOUS
      <3>2. weight[c[i + 1]] \in Int
        BY <3>1 DEF Priced
      <3>3. f[i + 1] = f[i] + weight[c[i + 1]]
        BY <1>7, <3>1
      <3> QED
        BY <2>1, <3>1, <3>2, <3>3
    <2>2. 0 \in Good
      BY <1>8
    <2> HIDE DEF Good
    <2>3. \A i \in 0 .. n : i \in Good
      BY <2>1, <2>2, Induction
    <2> QED
      BY <2>3 DEF Good
  <1> QED
    BY <1>5, <1>7, <1>8, <1>9

LEMMA SumOfPrefix ==
  ASSUME NEW c, NEW d, Len(c) \in Nat \ {0}, Len(d) = Len(c) - 1,
         \A i \in 1 .. Len(d) : d[i] = c[i], Priced(c)
  PROVE  /\ Priced(d) /\ SumAlong(d) \in Int /\ SumAlong(c) \in Int
         /\ weight[c[Len(c)]] \in Int
         /\ SumAlong(c) = SumAlong(d) + weight[c[Len(c)]]
         /\ Len(d) = 0 => SumAlong(d) = 0
  <1> DEFINE n == Len(d)
  <1>1. n \in Nat /\ n + 1 = Len(c) /\ n + 1 \in 1 .. Len(c) /\ \A i \in 1 .. n : i \in 1 .. Len(c)
    OBVIOUS
  <1>2. Priced(d)
    BY <1>1 DEF Priced, n
  <1> HIDE DEF n
  <1>3. PICK f : /\ f[0] = 0 /\ SumAlong(c) = f[n + 1]
                 /\ \A i \in 0 .. n + 1 : f[i] \in Int
                 /\ \A i \in 1 .. n + 1 : f[i] = f[i - 1] + weight[c[i]]
    <2>1. Len(c) \in Nat
      OBVIOUS
    <2>2. \E f : /\ f[0] = 0 /\ SumAlong(c) = f[Len(c)]
                 /\ \A i \in 0 .. Len(c) : f[i] \in Int
                 /\ \A i \in 1 .. Len(c) : f[i] = f[i - 1] + weight[c[i]]
      BY <2>1, SumIs
    <2> QED
      BY <1>1, <2>2
  <1>4. PICK g : /\ g[0] = 0 /\ SumAlong(d) = g[n]
                 /\ \A i \in 0 .. n : g[i] \in Int
                 /\ \A i \in 1 .. n : g[i] = g[i - 1] + weight[d[i]]
    BY <1>1, <1>2, SumIs DEF n
  <1> DEFINE Same == {i \in 0 .. n : f[i] = g[i]}
  <1>5. ASSUME NEW i \in 0 .. n - 1, i \in Same PROVE i + 1 \in Same
    <2>1. i + 1 \in 1 .. n /\ i + 1 \in 1 .. n + 1 /\ i + 1 \in 0 .. n /\ (i + 1) - 1 = i
      BY <1>1
    <2>2. f[i + 1] = f[i] + weight[c[i + 1]] /\ g[i + 1] = g[i] + weight[d[i + 1]]
      BY <1>3, <1>4, <2>1
    <2>3. d[i + 1] = c[i + 1]
      BY <2>1 DEF n
    <2> QED
      BY <1>5, <2>1, <2>2, <2>3
  <1>6. 0 \in Same
    BY <1>1, <1>3, <1>4
  <1>7. \A i \in 0 .. n : i \in Same
    <2> HIDE DEF Same
    <2> QED
      BY <1>1, <1>5, <1>6, Induction
  <1>8. f[n] = g[n]
    BY <1>1, <1>7
  <1>9. f[n + 1] = f[n] + weight[c[n + 1]]
    <2>1. (n + 1) - 1 = n
      BY <1>1
    <2> QED
      BY <1>1, <1>3, <2>1
  <1>10. weight[c[n + 1]] \in Int
    BY <1>1 DEF Priced
  <1>11. g[n] \in Int /\ f[n + 1] \in Int
    BY <1>1, <1>3, <1>4
  <1> QED
    BY <1>1, <1>2, <1>3, <1>4, <1>8, <1>9, <1>10, <1>11 DEF n

-----------------------------------------------------------------------------
(***************************************************************************)
(* Rounds of relaxation.                                                   *)
(***************************************************************************)
Near(c) == NoFarther(distances[To(c[Len(c)])], SumAlong(c))

LEMMA ChainFacts ==
  ASSUME NEW n \in Nat \ {0}, NEW c \in Chains(n)
  PROVE  /\ Len(c) = n /\ c[n] \in Edge /\ From(c[n]) \in Token /\ To(c[n]) \in Token
         /\ \A i \in 1 .. n : c[i] \in Edge
  <1>1. c \in [1 .. n -> Edge]
    BY DEF Chains
  <1>2. Len(c) = n
    BY <1>1, IsASeq, LenProperties
  <1>3. c[n] \in Edge
    BY <1>1
  <1> QED
    BY <1>1, <1>2, <1>3, EdgeEnds

(* A chain of n edges, where all chains of one edge less are near.         *)
LEMMA OneMore ==
  ASSUME TypeOK, SourceNear, pc # "idle", NEW n \in Nat \ {0}, NEW c \in Chains(n), Priced(c),
         n # 1 => \A d \in Chains(n - 1) : Priced(d) => Near(d)
  PROVE  /\ SumAlong(c) \in Int /\ weight[c[n]] \in Int
         /\ NoFarther(distances[From(c[n])], SumAlong(c) - weight[c[n]])
  <1> DEFINE d == [i \in 1 .. n - 1 |-> c[i]]
  <1>1. Len(c) = n /\ \A i \in 1 .. n : c[i] \in Edge
    BY ChainFacts
  <1>2. n - 1 \in Nat /\ d \in [1 .. n - 1 -> Edge]
    BY <1>1
  <1>3. Len(d) = n - 1
    BY <1>2, IsASeq, LenProperties
  <1>4. \A i \in 1 .. n - 1 : d[i] = c[i]
    OBVIOUS
  <1> HIDE DEF d
  <1>5. /\ Priced(d) /\ SumAlong(d) \in Int /\ SumAlong(c) \in Int /\ weight[c[n]] \in Int
        /\ SumAlong(c) = SumAlong(d) + weight[c[n]] /\ (n - 1 = 0 => SumAlong(d) = 0)
    BY <1>1, <1>3, <1>4, SumOfPrefix
  <1>6. NoFarther(distances[From(c[n])], SumAlong(d))
    <2>1. CASE n = 1
      <3>1. From(c[n]) = Source
        BY <2>1 DEF Chains
      <3> QED
        BY <2>1, <1>5, <3>1 DEF SourceNear, NoFarther
    <2>2. CASE n # 1
      <3>1. /\ 1 \in 1 .. n - 1 /\ n - 1 \in 1 .. n - 1 /\ n - 1 \in 1 .. n /\ (n - 1) + 1 = n
            /\ \A i \in 1 .. Len(d) - 1 : i \in 1 .. n - 1 /\ i + 1 \in 1 .. n - 1 /\ i \in 1 .. Len(c) - 1
        BY <1>1, <1>3, <2>2
      <3>2. From(c[1]) = Source /\ \A i \in 1 .. n - 1 : To(c[i]) = From(c[i + 1])
        BY <1>1 DEF Chains, Chained
      <3>3. d \in Chains(n - 1)
        BY <1>1, <1>2, <1>4, <3>1, <3>2 DEF Chains, Chained
      <3>4. Near(d)
        BY <1>5, <2>2, <3>3
      <3>5. To(d[n - 1]) = From(c[n])
        BY <1>4, <3>1, <3>2
      <3> QED
        BY <1>3, <3>4, <3>5 DEF Near
    <2> QED
      BY <2>1, <2>2
  <1> QED
    BY <1>5, <1>6

LEMMA NearSettled ==
  ASSUME TypeOK, NEW e \in Edge, NEW s \in Int, weight[e] \in Int, ~CanShorten(e),
         NoFarther(distances[From(e)], s - weight[e])
  PROVE  NoFarther(distances[To(e)], s)
  BY EdgeEnds, FloatAssumption DEF TypeOK, Distance, NoFarther, CanShorten, Shortens

LEMMA NearShortened ==
  ASSUME TypeOK, NEW e \in Edge, NEW s \in Int, weight[e] \in Int, CanShorten(e),
         NoFarther(distances[From(e)], s - weight[e])
  PROVE  NoFarther(NewDist(e), s)
  BY EdgeEnds, FloatAssumption
     DEF TypeOK, Distance, NoFarther, CanShorten, Shortens, NewDist, Plus

LEMMA NearOnlyCloser ==
  ASSUME TypeOK, NEW e \in Edge, CanShorten(e), NEW s \in Int, NoFarther(distances[To(e)], s)
  PROVE  NoFarther(NewDist(e), s)
  BY ShortenCases, FloatAssumption DEF NoFarther

LEMMA InRoundsStep == TypeOK /\ Inv /\ [Next]_vars => InRounds'
  <1> SUFFICES ASSUME TypeOK, SourceNear, InRounds, [Next]_vars PROVE InRounds'
    BY DEF Inv
  <1>0. round \in 1 .. Rounds /\ Rounds \in Nat \ {0}
    BY LimitAssumption DEF TypeOK
  <1>1. CASE FindArbitrage
    <2>1. round' = 1 /\ todo' = Edge /\ pc' = "relax"
      BY <1>1 DEF FindArbitrage
    <2>2. ASSUME NEW c \in Walks
          PROVE  ~(Len(c) < 1) /\ ~(Len(c) = 1 /\ c[Len(c)] \notin Edge)
      <3>1. PICK n \in 1 .. Rounds : c \in Chains(n)
        BY DEF Walks
      <3>2. n \in Nat \ {0}
        BY <1>0
      <3> QED
        BY <3>1, <3>2, ChainFacts
    <2> QED
      BY <2>1, <2>2 DEF InRounds
  <1>2. ASSUME NEW e \in Edge, Relax(e) PROVE InRounds'
    <2>1. /\ pc = "relax" /\ pc' = "relax" /\ weight' = weight /\ round' = round
          /\ todo' = todo \ {e}
      BY <1>2 DEF Relax
    <2>2. ASSUME NEW c \in Walks, Priced(c),
                 Len(c) < round \/ (Len(c) = round /\ c[Len(c)] \notin todo \ {e})
          PROVE  NoFarther(distances'[To(c[Len(c)])], SumAlong(c))
      <3>1. PICK n \in 1 .. Rounds : c \in Chains(n)
        BY DEF Walks
      <3>2. n \in Nat \ {0}
        BY <1>0
      <3>3. Len(c) = n /\ c[n] \in Edge /\ To(c[n]) \in Token
        BY <3>1, <3>2, ChainFacts
      <3>4. SumAlong(c) \in Int
        BY <3>2, <3>3, <2>2, SumIs
      <3>5. ASSUME NoFarther(distances[To(c[n])], SumAlong(c))
            PROVE  NoFarther(distances'[To(c[n])], SumAlong(c))
        <4>1. CASE CanShorten(e) /\ To(c[n]) = To(e)
          <5>1. distances'[To(c[n])] = NewDist(e)
            BY <1>2, <3>3, <4>1 DEF Relax, TypeOK
          <5> QED
            BY <3>4, <3>5, <4>1, <5>1, NearOnlyCloser
        <4>2. CASE ~(CanShorten(e) /\ To(c[n]) = To(e))
          <5>1. distances'[To(c[n])] = distances[To(c[n])]
            BY <1>2, <3>3, <4>2 DEF Relax, TypeOK
          <5> QED
            BY <3>5, <5>1
        <4> QED
          BY <4>1, <4>2
      <3>6. CASE n < round \/ (n = round /\ c[n] \notin todo)
        <4>1. NoFarther(distances[To(c[n])], SumAlong(c))
          BY <2>1, <2>2, <3>3, <3>6 DEF InRounds
        <4> QED
          BY <3>3, <3>5, <4>1
      <3>7. CASE n = round /\ c[n] = e
        <4>1. n # 1 => \A d \in Chains(n - 1) : Priced(d) => Near(d)
          <5> SUFFICES ASSUME n # 1, NEW d \in Chains(n - 1), Priced(d) PROVE Near(d)
            OBVIOUS
          <5>1. n - 1 \in 1 .. Rounds /\ n - 1 \in Nat \ {0} /\ n - 1 < round
            BY <1>0, <3>7
          <5>2. d \in Walks
            BY <5>1 DEF Walks
          <5>3. Len(d) = n - 1
            BY <5>1, ChainFacts
          <5> QED
            BY <2>1, <5>1, <5>2, <5>3 DEF InRounds, Near
        <4>2. weight[e] \in Int /\ NoFarther(distances[From(e)], SumAlong(c) - weight[e])
          BY <2>1, <2>2, <3>1, <3>2, <3>7, <4>1, OneMore
        <4>3. CASE CanShorten(e)
          <5>1. distances'[To(e)] = NewDist(e)
            BY <1>2, <3>3, <3>7, <4>3 DEF Relax, TypeOK
          <5> QED
            BY <3>3, <3>4, <3>7, <4>2, <4>3, <5>1, NearShortened
        <4>4. CASE ~CanShorten(e)
          <5>1. distances' = distances
            BY <1>2, <4>4 DEF Relax
          <5> QED
            BY <3>3, <3>4, <3>7, <4>2, <4>4, <5>1, NearSettled
        <4> QED
          BY <4>3, <4>4
      <3> QED
        BY <2>2, <3>3, <3>6, <3>7
    <2>3. ASSUME NEW c \in Walks PROVE (Priced(c)' <=> Priced(c)) /\ SumAlong(c)' = SumAlong(c)
      BY <2>1 DEF Priced, SumAlong
    <2> QED
      BY <2>1, <2>2, <2>3 DEF InRounds
  <1>3. ASSUME UNCHANGED graph
        PROVE  \A c \in Walks :
                 (Priced(c)' <=> Priced(c)) /\ SumAlong(c)' = SumAlong(c) /\ distances' = distances
    BY <1>3 DEF Priced, SumAlong, graph
  <1>4. CASE NextRound
    <2>1. /\ pc = "relax" /\ pc' = "relax" /\ todo = {} /\ round' = round + 1 /\ todo' = Edge
          /\ UNCHANGED graph
      BY <1>4 DEF NextRound
    <2>2. ASSUME NEW c \in Walks,
                 Len(c) < round + 1 \/ (Len(c) = round + 1 /\ c[Len(c)] \notin Edge)
          PROVE  Len(c) < round \/ Len(c) = round
      <3>1. PICK n \in 1 .. Rounds : c \in Chains(n)
        BY DEF Walks
      <3>2. n \in Nat \ {0}
        BY <1>0
      <3>3. Len(c) = n /\ c[n] \in Edge
        BY <3>1, <3>2, ChainFacts
      <3> QED
        BY <1>0, <2>2, <3>2, <3>3
    <2> QED
      BY <1>3, <2>1, <2>2 DEF InRounds
  <1>5. CASE StopRelaxing
    BY <1>3, <1>5 DEF StopRelaxing, InRounds
  <1>6. CASE UNCHANGED vars
    <2>1. UNCHANGED graph /\ UNCHANGED <<pc, round, todo, change>>
      BY <1>6 DEF vars
    <2> QED
      BY <1>3, <2>1 DEF InRounds
  <1>7. CASE FindCircle \/ Finish
    BY <1>7 DEF FindCircle, SelectEdge, SelectNone, WalkClose, WalkBack, WalkGiveUp, WalkNil, Finish,
                InRounds
  <1> QED
    BY <1>1, <1>2, <1>4, <1>5, <1>6, <1>7 DEF Next, BellmanFord

-----------------------------------------------------------------------------
(* Three kinds of step for what concerns the walk: those that keep or make *)
(* it empty, those that add minEdge to it, and those that do not touch it. *)
LEMMA AppendFacts ==
  ASSUME NEW s \in Seq(Edge), NEW e \in Edge
  PROVE  /\ Append(s, e) \in Seq(Edge)
         /\ Len(Append(s, e)) = Len(s) + 1 /\ Len(s) \in Nat
         /\ \A i \in 1 .. Len(s) : Append(s, e)[i] = s[i]
         /\ Append(s, e)[Len(s) + 1] = e
         /\ Append(s, e) # <<>>
         /\ s = <<>> <=> Len(s) = 0
  OBVIOUS

LEMMA ChainStep == TypeOK /\ Inv /\ [Next]_vars => Chain'
  <1> SUFFICES ASSUME TypeOK, Chain, Ahead, [Next]_vars PROVE Chain'
    BY DEF Inv
  <1>1. ASSUME ret' = <<>> PROVE Chain'
    <2>1. Len(ret') = 0
      BY <1>1
    <2> QED
      BY <1>1, <2>1 DEF Chain
  <1>2. CASE FindArbitrage \/ WalkGiveUp \/ Finish
    BY <1>1, <1>2 DEF FindArbitrage, WalkGiveUp, Finish
  <1>3. CASE pc \in {"idle", "relax", "select"} /\ ret' = ret
    BY <1>1, <1>3 DEF Chain
  <1>4. ASSUME pc = "walk", UNCHANGED graph, ret' = Append(ret, minEdge),
               \/ pc' = "walk" /\ From(minEdge) # Source
               \/ pc' = "done" /\ From(minEdge) = Source
        PROVE  Chain'
    <2>1. /\ minEdge \in Edge /\ Usable(minEdge)
          /\ ret = <<>> => To(minEdge) = Source
          /\ ret # <<>> => /\ From(ret[Len(ret)]) # Source
                           /\ To(minEdge) = From(ret[Len(ret)])
                           /\ minEdge = preedges[From(ret[Len(ret)])]
      BY <1>4 DEF Ahead
    <2>2. /\ Len(ret') = Len(ret) + 1 /\ Len(ret) \in Nat
          /\ \A i \in 1 .. Len(ret) : ret'[i] = ret[i]
          /\ ret'[Len(ret) + 1] = minEdge
          /\ ret' # <<>>
          /\ ret = <<>> <=> Len(ret) = 0
      BY <1>4, <2>1, AppendFacts DEF TypeOK
    <2>3. \A i \in 1 .. Len(ret') : weight'[ret'[i]] \in Total
      BY <1>4, <2>1, <2>2 DEF Chain, Usable, graph
    <2>4. \A i \in 1 .. Len(ret') - 1 :
            /\ From(ret'[i]) # Source
            /\ To(ret'[i + 1]) = From(ret'[i])
            /\ ret'[i + 1] = preedges'[From(ret'[i])]
      <3>1. TAKE i \in 1 .. Len(ret') - 1
      <3>2. CASE i < Len(ret)
        <4>1. ret'[i] = ret[i] /\ ret'[i + 1] = ret[i + 1] /\ i \in 1 .. Len(ret) - 1
          BY <2>2, <3>2
        <4> QED
          BY <1>4, <4>1 DEF Chain, graph
      <3>3. CASE i = Len(ret)
        <4>1. ret'[i] = ret[Len(ret)] /\ ret'[i + 1] = minEdge /\ ret # <<>>
          BY <2>2, <3>3
        <4> QED
          BY <1>4, <2>1, <3>3, <4>1 DEF graph
      <3> QED
        BY <2>2, <3>2, <3>3
    <2>5. To(ret'[1]) = Source
      <3>1. CASE ret = <<>>
        BY <2>1, <2>2, <3>1
      <3>2. CASE ret # <<>>
        BY <2>2, <3>2 DEF Chain
      <3> QED
        BY <3>1, <3>2
    <2>6. pc' = "done" => From(ret'[Len(ret')]) = Source
      BY <1>4, <2>2
    <2> QED
      BY <1>4, <2>3, <2>4, <2>5, <2>6 DEF Chain, Usable
  <1>5. CASE WalkClose \/ WalkBack
    BY <1>4, <1>5 DEF WalkClose, WalkBack
  <1>6. CASE WalkNil
    BY <1>6 DEF WalkNil, Chain, Usable, graph
  <1>7. CASE (\E e \in Edge : Relax(e) \/ SelectEdge(e)) \/ NextRound \/ StopRelaxing \/ SelectNone
    BY <1>3, <1>7 DEF Relax, SelectEdge, NextRound, StopRelaxing, SelectNone
  <1>8. CASE UNCHANGED vars
    BY <1>8 DEF vars, Chain, Usable, graph
  <1> QED
    BY <1>2, <1>5, <1>6, <1>7, <1>8 DEF Next, BellmanFord, FindCircle

(* Where the walk goes from a vertex that has a predecessor.               *)
LEMMA PredecessorOf ==
  ASSUME TypeOK, Predecessors, NEW v \in Token, preedges[v] # NoEdge
  PROVE  /\ preedges[v] \in Edge /\ Usable(preedges[v])
         /\ To(preedges[v]) = v /\ From(preedges[v]) \in Token
         /\ Supported(distances[From(preedges[v])], weight[preedges[v]], distances[v])
  BY EdgeEnds DEF TypeOK, Predecessors, Supported, Usable, Total

(* A step either walks, or ends at a pc where Ahead and Gain say nothing,  *)
(* or changes nothing.                                                     *)
LEMMA WalkCases ==
  ASSUME TypeOK, Inv, [Next]_vars
  PROVE  \/ \E e \in Edge : SelectEdge(e)
         \/ WalkBack
         \/ WalkClose
         \/ pc' # "walk" /\ (pc' = "done" => ret' = <<>>)
         \/ UNCHANGED vars
  BY DEF Inv, Chain, Next, BellmanFord, FindCircle, FindArbitrage, Relax, NextRound, StopRelaxing,
         SelectNone, WalkGiveUp, WalkNil, Finish

LEMMA AheadStep == TypeOK /\ Inv /\ [Next]_vars => Ahead'
  <1> SUFFICES ASSUME TypeOK, Inv, [Next]_vars PROVE Ahead'
    OBVIOUS
  <1>1. ASSUME NEW e \in Edge, SelectEdge(e) PROVE Ahead'
    <2>1. ret = <<>> /\ Len(ret) = 0 /\ To(e) = Source /\ CanShorten(e)
      BY <1>1 DEF SelectEdge, Closing, Inv, Chain
    <2>2. Usable(e)' /\ Len(ret') < Hops
      BY <1>1, <2>1, ShortenCases, LimitAssumption DEF SelectEdge, Usable, graph
    <2> QED
      BY <1>1, <2>1, <2>2 DEF SelectEdge, Ahead, graph
  <1>2. CASE WalkBack
    <2>1. minEdge \in Edge /\ From(minEdge) \in Token
      BY <1>2, EdgeEnds DEF WalkBack, Inv, Ahead
    <2>2. /\ minEdge' \in Edge /\ Usable(minEdge)'
          /\ minEdge' = preedges'[From(minEdge)] /\ To(minEdge') = From(minEdge)
      BY <1>2, <2>1, PredecessorOf DEF WalkBack, Inv, Usable, graph
    <2>3. /\ ret' # <<>> /\ Len(ret') < Hops /\ ret'[Len(ret')] = minEdge
      BY <1>2, <2>1, AppendFacts DEF WalkBack, TypeOK
    <2> QED
      BY <1>2, <2>2, <2>3 DEF WalkBack, Ahead
  <1>3. CASE WalkClose \/ pc' # "walk"
    BY <1>3 DEF WalkClose, Ahead
  <1>4. CASE UNCHANGED vars
    BY <1>4 DEF vars, graph, Ahead, Inv, Usable
  <1> QED
    BY <1>1, <1>2, <1>3, <1>4, WalkCases

LEMMA SumsStep == TypeOK /\ Inv /\ [Next]_vars => ShortSums'
  <1> SUFFICES ASSUME TypeOK, Inv, [Next]_vars PROVE ShortSums'
    OBVIOUS
  <1>1. ASSUME ret' = <<>>, sum' = 0 PROVE ShortSums'
    <2>1. Len(ret') = 0
      BY <1>1
    <2> QED
      BY <1>1, <2>1 DEF ShortSums
  <1>2. CASE FindArbitrage \/ WalkGiveUp \/ Finish
    BY <1>1, <1>2 DEF FindArbitrage, WalkGiveUp, Finish
  <1>3. CASE WalkClose \/ WalkBack
    <2>1. /\ minEdge \in Edge /\ UNCHANGED graph
          /\ ret' = Append(ret, minEdge) /\ sum' = Plus(sum, weight[minEdge])
      BY <1>3 DEF WalkClose, WalkBack, Inv, Ahead
    <2>2. /\ Len(ret') = Len(ret) + 1 /\ Len(ret) \in Nat
          /\ \A i \in 1 .. Len(ret) : ret'[i] = ret[i]
          /\ ret'[Len(ret) + 1] = minEdge
      BY <2>1, AppendFacts DEF TypeOK
    <2>3. CASE Len(ret) = 0
      BY <2>1, <2>2, <2>3 DEF Inv, ShortSums, graph
    <2>4. CASE Len(ret) = 1
      BY <2>1, <2>2, <2>4 DEF Inv, ShortSums, graph
    <2>5. CASE Len(ret) > 1
      BY <2>2, <2>5 DEF ShortSums
    <2> QED
      BY <2>2, <2>3, <2>4, <2>5
  <1>4. CASE (\E e \in Edge : Relax(e) \/ SelectEdge(e)) \/ NextRound \/ StopRelaxing
             \/ SelectNone \/ WalkNil
    BY <1>4 DEF Relax, SelectEdge, NextRound, StopRelaxing, SelectNone, WalkNil, Inv, ShortSums, graph
  <1>5. CASE UNCHANGED vars
    BY <1>5 DEF vars, graph, ShortSums, Inv
  <1> QED
    BY <1>2, <1>3, <1>4, <1>5 DEF Next, BellmanFord, FindCircle

(* The heart of the matter: what the walk has spent so far, plus the       *)
(* distance still ahead, is below the distance of Source, which is at most *)
(* 0; when the walk is back at Source the two distances cancel.            *)
LEMMA GainStep == TypeOK /\ Inv /\ [Next]_vars => Gain'
  <1> SUFFICES ASSUME TypeOK, Inv, [Next]_vars PROVE Gain'
    OBVIOUS
  <1>1. ASSUME NEW e \in Edge, SelectEdge(e) PROVE Gain'
    <2>1. sum = 0 /\ To(e) = Source /\ CanShorten(e)
      BY <1>1 DEF SelectEdge, Closing, Inv, Chain, ShortSums
    <2>2. distances[Source] \in Int
      BY <1>1, <2>1, ShortenCases DEF SelectEdge, Inv, SourceNear
    <2>3. \/ weight[e] = NegInf \/ distances[From(e)] = NegInf
          \/ /\ distances[From(e)] \in Int /\ weight[e] \in Int
             /\ distances[From(e)] + weight[e] < distances[Source]
      BY <2>1, <2>2, ShortenCases, FloatAssumption
    <2>4. pc' = "walk" /\ minEdge' = e /\ UNCHANGED graph /\ sum' = 0
      BY <1>1, <2>1 DEF SelectEdge
    <2> QED
      BY <2>2, <2>3, <2>4 DEF Gain, graph
  <1>2. ASSUME pc = "walk"
        PROVE  /\ minEdge \in Edge /\ From(minEdge) \in Token /\ weight[minEdge] \in Total
               /\ sum \in Total /\ distances[Source] \in Int
               /\ \/ Plus(sum, weight[minEdge]) = NegInf
                  \/ /\ Plus(sum, weight[minEdge]) \in Int
                     /\ \/ distances[From(minEdge)] = NegInf
                        \/ /\ distances[From(minEdge)] \in Int
                           /\ Plus(sum, weight[minEdge]) + distances[From(minEdge)]
                                < distances[Source]
    <2>1. /\ minEdge \in Edge /\ weight[minEdge] \in Total /\ sum \in Total
          /\ distances[Source] \in Int
          /\ \/ sum = NegInf \/ weight[minEdge] = NegInf \/ distances[From(minEdge)] = NegInf
             \/ /\ distances[From(minEdge)] \in Int
                /\ sum + weight[minEdge] + distances[From(minEdge)] < distances[Source]
      BY <1>2 DEF Inv, Ahead, Gain, Usable, TypeOK
    <2> QED
      BY <2>1, EdgeEnds DEF Plus, Total
  <1>3. CASE WalkBack
    <2> DEFINE u == From(minEdge)
               e == preedges[u]
               t == Plus(sum, weight[minEdge])
    <2>1. pc = "walk" /\ u \in Token /\ e # NoEdge /\ UNCHANGED <<weight, distances>>
          /\ minEdge' = e /\ sum' = t
      BY <1>2, <1>3 DEF WalkBack, graph
    <2>2. Supported(distances[From(e)], weight[e], distances[u]) /\ weight[e] \in Total
      BY <2>1, PredecessorOf DEF Inv, Usable
    <2>3. /\ distances[Source] \in Int
          /\ \/ t = NegInf
             \/ /\ t \in Int
                /\ \/ distances[u] = NegInf
                   \/ distances[u] \in Int /\ t + distances[u] < distances[Source]
      BY <1>2, <2>1
    <2> HIDE DEF t, e, u
    <2>4. \/ t = NegInf \/ weight[e] = NegInf \/ distances[From(e)] = NegInf
          \/ /\ distances[From(e)] \in Int
             /\ t + weight[e] + distances[From(e)] < distances[Source]
      BY <2>2, <2>3, FloatAssumption DEF Supported, Total
    <2> QED
      BY <1>3, <2>1, <2>3, <2>4 DEF WalkBack, Gain
  <1>4. CASE WalkClose
    <2>1. /\ From(minEdge) = Source /\ sum' = Plus(sum, weight[minEdge]) /\ pc' = "done"
          /\ pc = "walk"
      BY <1>4 DEF WalkClose
    <2>2. distances[Source] # NegInf
      BY <1>2, <2>1, FloatAssumption
    <2>3. \/ sum' = NegInf
          \/ sum' \in Int /\ sum' + distances[Source] < distances[Source]
      BY <1>2, <2>1, <2>2
    <2>4. sum' = NegInf \/ sum' < 0
      BY <1>2, <2>1, <2>3
    <2> QED
      BY <2>1, <2>4 DEF Gain
  <1>5. CASE pc' # "walk" /\ (pc' = "done" => ret' = <<>>)
    BY <1>5 DEF Gain
  <1>6. CASE UNCHANGED vars
    BY <1>6 DEF vars, graph, Gain, Inv
  <1> QED
    BY <1>1, <1>3, <1>4, <1>5, <1>6, WalkCases

-----------------------------------------------------------------------------
(* The walk meets no vertex twice, or it has met one and then stays on the *)
(* cycle of predecessors it closed there, which has no Source on it.       *)
LEMMA TrappedStays ==
  ASSUME TypeOK, Trapped, WalkBack
  PROVE  Trapped'
  <1>1. PICK S \in SUBSET (Token \ {Source}) :
          /\ From(minEdge) \in S
          /\ \A v \in S : preedges[v] # NoEdge /\ From(preedges[v]) \in S
    BY DEF Trapped
  <1>2. preedges' = preedges /\ minEdge' = preedges[From(minEdge)]
    BY DEF WalkBack, graph
  <1>3. From(minEdge') \in S /\ \A v \in S : preedges'[v] # NoEdge /\ From(preedges'[v]) \in S
    BY <1>1, <1>2
  <1> QED
    BY <1>3 DEF Trapped

(* A walk that is back at a vertex it has met is trapped.                  *)
LEMMA MeetAgain ==
  ASSUME TypeOK, Inv, WalkBack,
         NEW i \in 1 .. Len(ret), From(ret[i]) = From(minEdge)
  PROVE  Trapped'
  <1> DEFINE n == Len(ret)
             u == From(minEdge)
             S == {From(ret[m]) : m \in i + 1 .. n} \cup {u}
  <1>1. n \in Nat /\ \A m \in 1 .. n : ret[m] \in Edge
    BY DEF TypeOK
  <1>2. /\ minEdge \in Edge /\ u # Source /\ preedges[u] # NoEdge /\ minEdge' = preedges[u]
        /\ preedges' = preedges
    BY DEF WalkBack, Inv, Ahead, graph
  <1>3. ret # <<>>
    BY <1>1
  <1>4. /\ minEdge = preedges[From(ret[n])]
        /\ From(ret[n]) # Source
    BY <1>2, <1>3 DEF Inv, Ahead, WalkBack
  <1>5. ASSUME NEW m \in 1 .. n - 1
        PROVE  From(ret[m]) # Source /\ ret[m + 1] = preedges[From(ret[m])]
    BY <1>5 DEF Inv, Chain
  <1>6. S \subseteq Token \ {Source}
    <2>1. u \in Token /\ u # Source
      BY <1>2, EdgeEnds
    <2>2. ASSUME NEW m \in i + 1 .. n PROVE From(ret[m]) \in Token \ {Source}
      <3>1. m \in 1 .. n /\ (m = n \/ m \in 1 .. n - 1)
        BY <1>1
      <3> QED
        BY <1>1, <1>4, <1>5, <3>1, EdgeEnds
    <2> QED
      BY <2>1, <2>2
  <1>7. ASSUME NEW k \in i .. n
        PROVE  preedges[From(ret[k])] # NoEdge /\ From(preedges[From(ret[k])]) \in S
    <2>1. k \in 1 .. n
      BY <1>1
    <2>2. CASE k = n
      BY <1>2, <1>4, <2>2, NoEdgeAssumption
    <2>3. CASE k # n
      <3>1. k \in 1 .. n - 1 /\ k + 1 \in i + 1 .. n /\ k + 1 \in 1 .. n
        BY <1>1, <2>1, <2>3
      <3>2. preedges[From(ret[k])] = ret[k + 1] /\ ret[k + 1] \in Edge
        BY <1>1, <1>5, <3>1
      <3> QED
        BY <3>1, <3>2, NoEdgeAssumption
    <2> QED
      BY <2>2, <2>3
  <1>8. \A v \in S : preedges[v] # NoEdge /\ From(preedges[v]) \in S
    <2>1. preedges[u] # NoEdge /\ From(preedges[u]) \in S
      BY <1>1, <1>7
    <2>2. ASSUME NEW m \in i + 1 .. n
          PROVE  preedges[From(ret[m])] # NoEdge /\ From(preedges[From(ret[m])]) \in S
      <3>1. m \in i .. n
        BY <1>1
      <3> QED
        BY <1>7, <3>1
    <2> QED
      BY <2>1, <2>2
  <1>9. From(minEdge') \in S
    BY <1>2, <1>8
  <1>10. /\ S \in SUBSET (Token \ {Source})
         /\ \A v \in S : preedges'[v] # NoEdge /\ From(preedges'[v]) \in S
    BY <1>2, <1>6, <1>8
  <1> HIDE DEF S
  <1> QED
    BY <1>9, <1>10 DEF Trapped

LEMMA StraightStep == TypeOK /\ Inv /\ [Next]_vars => Straight'
  <1> SUFFICES ASSUME TypeOK, Inv, [Next]_vars PROVE Straight'
    OBVIOUS
  <1>1. ASSUME ret' = <<>> PROVE Straight'
    <2>1. Len(ret') = 0
      BY <1>1
    <2> QED
      BY <2>1 DEF Straight, NoVertexTwice
  <1>2. CASE FindArbitrage \/ WalkGiveUp \/ Finish
    BY <1>1, <1>2 DEF FindArbitrage, WalkGiveUp, Finish
  <1>3. CASE (\E e \in Edge : Relax(e) \/ SelectEdge(e)) \/ NextRound \/ StopRelaxing \/ SelectNone
    BY <1>1, <1>3 DEF Relax, SelectEdge, NextRound, StopRelaxing, SelectNone, Inv, Chain
  (* A step to a vertex the walk has not met keeps the walk straight.      *)
  <1>4. ASSUME pc = "walk", NoVertexTwice, ret' = Append(ret, minEdge),
               \A i \in 1 .. Len(ret) : From(ret[i]) # From(minEdge)
        PROVE  NoVertexTwice'
    <2>1. minEdge \in Edge
      BY <1>4 DEF Inv, Ahead
    <2>2. /\ Len(ret') = Len(ret) + 1 /\ Len(ret) \in Nat
          /\ \A i \in 1 .. Len(ret) : ret'[i] = ret[i]
          /\ ret'[Len(ret) + 1] = minEdge
      BY <1>4, <2>1, AppendFacts DEF TypeOK
    <2>3. ASSUME NEW i \in 1 .. Len(ret'), NEW j \in 1 .. Len(ret'), From(ret'[i]) = From(ret'[j])
          PROVE  i = j
      <3>1. i \in 1 .. Len(ret) \/ i = Len(ret) + 1
        BY <2>2
      <3>2. j \in 1 .. Len(ret) \/ j = Len(ret) + 1
        BY <2>2
      <3>3. CASE i \in 1 .. Len(ret) /\ j \in 1 .. Len(ret)
        BY <1>4, <2>2, <2>3, <3>3 DEF NoVertexTwice
      <3> QED
        BY <1>4, <2>2, <2>3, <3>1, <3>2, <3>3
    <2> QED
      BY <2>3 DEF NoVertexTwice
  <1>5. CASE WalkBack
    <2>1. pc = "walk" /\ pc' = "walk" /\ ret' = Append(ret, minEdge)
      BY <1>5 DEF WalkBack
    <2>2. CASE Trapped
      BY <1>5, <2>1, <2>2, TrappedStays DEF Straight
    <2>3. CASE \E i \in 1 .. Len(ret) : From(ret[i]) = From(minEdge)
      BY <1>5, <2>1, <2>3, MeetAgain DEF Straight
    <2>4. CASE ~Trapped /\ \A i \in 1 .. Len(ret) : From(ret[i]) # From(minEdge)
      BY <1>4, <2>1, <2>4 DEF Inv, Straight
    <2> QED
      BY <2>2, <2>3, <2>4
  <1>6. CASE WalkClose
    <2>1. pc = "walk" /\ From(minEdge) = Source /\ ret' = Append(ret, minEdge)
      BY <1>6 DEF WalkClose
    <2>2. ~Trapped
      BY <2>1 DEF Trapped
    <2>3. ASSUME NEW i \in 1 .. Len(ret) PROVE From(ret[i]) # Source
      <3>1. Len(ret) \in Nat /\ ret # <<>>
        BY <2>3 DEF TypeOK
      <3>2. i = Len(ret) \/ i \in 1 .. Len(ret) - 1
        BY <3>1
      <3> QED
        BY <2>1, <3>1, <3>2 DEF Inv, Ahead, Chain
    <2> QED
      BY <1>4, <2>1, <2>2, <2>3 DEF Inv, Straight
  <1>7. CASE WalkNil
    <2>1. ~Trapped
      BY <1>7 DEF WalkNil, Trapped
    <2> QED
      BY <1>7, <2>1 DEF WalkNil, Inv, Straight, NoVertexTwice
  <1>8. CASE UNCHANGED vars
    BY <1>8 DEF vars, graph, Inv, Straight, NoVertexTwice, Trapped
  <1> QED
    BY <1>2, <1>3, <1>5, <1>6, <1>7, <1>8 DEF Next, BellmanFord, FindCircle

LEMMA WalkReachedStep == TypeOK /\ Inv /\ [Next]_vars => WalkReached'
  <1> SUFFICES ASSUME TypeOK, Inv, [Next]_vars PROVE WalkReached'
    OBVIOUS
  <1>1. ASSUME NEW e \in Edge, SelectEdge(e) PROVE WalkReached'
    <2>1. CanShorten(e) /\ minEdge' = e /\ UNCHANGED graph
      BY <1>1 DEF SelectEdge, Closing
    <2>2. weight[e] # NegInf => distances[From(e)] # Far
      BY <2>1, ShortenCases, FloatAssumption
    <2> QED
      BY <2>1, <2>2 DEF WalkReached, graph
  <1>2. CASE WalkBack
    <2> DEFINE u == From(minEdge)
               e == preedges[u]
    <2>1. u \in Token /\ e # NoEdge /\ minEdge' = e /\ UNCHANGED graph
      BY <1>2, EdgeEnds DEF WalkBack, Inv, Ahead
    <2>2. e \in Edge /\ Supported(distances[From(e)], weight[e], distances[u])
      BY <2>1, PredecessorOf DEF Inv
    <2>3. weight[e] # NegInf => distances[From(e)] # Far
      BY <2>2, FloatAssumption DEF Supported
    <2> QED
      BY <2>1, <2>2, <2>3 DEF WalkReached, graph
  <1>3. CASE WalkClose \/ pc' # "walk"
    BY <1>3 DEF WalkClose, WalkReached
  <1>4. CASE UNCHANGED vars
    BY <1>4 DEF vars, graph, WalkReached, Inv
  <1> QED
    BY <1>1, <1>2, <1>3, <1>4, WalkCases

LEMMA InvInit == Init => Inv
  <1> SUFFICES ASSUME Init PROVE Inv
    OBVIOUS
  <1>1. ret = <<>> /\ Len(ret) = 0 /\ sum = 0 /\ pc = "idle"
    BY DEF Init
  <1>2. PricedAsPools /\ SourceNear /\ Scanned /\ InRounds /\ Ahead /\ Gain /\ WalkReached
    BY <1>1 DEF PricedAsPools, SourceNear, Scanned, InRounds, Ahead, Gain, WalkReached
  <1>3. Chain /\ ShortSums /\ Straight
    BY <1>1 DEF Chain, ShortSums, Straight, NoVertexTwice
  <1>4. Predecessors /\ Reached
    BY DEF Init, Predecessors, Reached, NoPredecessors, NoDistances
  <1> QED
    BY <1>2, <1>3, <1>4 DEF Inv

-----------------------------------------------------------------------------
(* The inductive invariant.                                                *)
THEOREM Invariant == Spec => []IInv
  <1>1. Init => TypeOK /\ Inv
    BY TypeInit, InvInit
  <1>2. TypeOK /\ Inv /\ [Next]_vars => TypeOK' /\ Inv'
    <2> SUFFICES ASSUME TypeOK, Inv, [Next]_vars PROVE TypeOK' /\ Inv'
      OBVIOUS
    <2>1. PricedAsPools' /\ Predecessors' /\ Reached' /\ SourceNear' /\ Scanned'
          /\ InRounds'
      BY PricedStep, PredecessorStep, ReachedStep, SourceStep, ScannedStep, InRoundsStep
    <2>2. Chain' /\ Ahead' /\ Gain' /\ ShortSums' /\ Straight' /\ WalkReached'
      BY ChainStep, AheadStep, GainStep, SumsStep, StraightStep, WalkReachedStep
    <2> QED
      BY <2>1, <2>2, TypeStep DEF Inv
  <1> QED
    BY <1>1, <1>2, PTL DEF Spec, IInv

(* The type invariant alone.                                               *)
THEOREM TypeCorrect == Spec => []TypeOK
  BY Invariant, PTL DEF IInv

(* What FindCircle returns has a negative sum of Distances (graph.go:69),  *)
(* whatever the order of the scans and wherever the relaxation stopped.    *)
THEOREM PathProfitable == Spec => []Profitable
  <1>1. TypeOK /\ Inv => Profitable
    BY DEF Inv, Gain, Profitable, Found
  <1> QED
    BY <1>1, Invariant, PTL DEF IInv

(* It is a closed walk through Source.                                     *)
THEOREM PathClosed == Spec => []ClosedWalk
  <1>1. TypeOK /\ Inv => ClosedWalk
    BY DEF Inv, Chain, ClosedWalk, Found
  <1> QED
    BY <1>1, Invariant, PTL DEF IInv

(* Relaxation that stops early has nothing left to do (graph.go:63).       *)
THEOREM StopsRight == Spec => []StopEarly
  <1>1. TypeOK /\ Inv => StopEarly
    BY DEF Inv, Scanned, StopEarly
  <1> QED
    BY <1>1, Invariant, PTL DEF IInv

(* If nothing is selected all chains of up to Rounds edges are near.       *)
LEMMA AllNear ==
  ASSUME TypeOK, Inv, pc = "select", NEW n \in 1 .. Rounds, NEW c \in Chains(n), Priced(c)
  PROVE  Near(c)
  <1>0. Rounds \in Nat \ {0} /\ n \in Nat \ {0}
    BY LimitAssumption
  <1>1. CASE change
    <2>1. todo = {} /\ round = Rounds
      BY <1>1 DEF Inv, InRounds
    <2>2. Len(c) = n /\ c \in Walks
      BY <1>0, ChainFacts DEF Walks
    <2> QED
      BY <1>0, <2>1, <2>2 DEF Inv, InRounds, Near
  <1>2. CASE ~change
    <2> DEFINE Good == {m \in 0 .. Rounds : m # 0 => \A d \in Chains(m) : Priced(d) => Near(d)}
    <2>1. 0 \in Good
      BY <1>0
    <2>2. ASSUME NEW m \in 0 .. Rounds - 1, m \in Good PROVE m + 1 \in Good
      <3>1. m + 1 \in Nat \ {0} /\ m + 1 \in 0 .. Rounds /\ (m + 1) - 1 = m
        BY <1>0
      <3>2. ASSUME NEW d \in Chains(m + 1), Priced(d) PROVE Near(d)
        <4>1. m + 1 # 1 => \A b \in Chains((m + 1) - 1) : Priced(b) => Near(b)
          BY <2>2, <3>1
        <4>2. SourceNear
          BY DEF Inv
        <4>3. /\ SumAlong(d) \in Int /\ weight[d[m + 1]] \in Int
              /\ NoFarther(distances[From(d[m + 1])], SumAlong(d) - weight[d[m + 1]])
          BY <3>1, <3>2, <4>1, <4>2, OneMore
        <4>4. Len(d) = m + 1 /\ d[m + 1] \in Edge
          BY <3>1, <3>2, ChainFacts
        <4>5. ~CanShorten(d[m + 1])
          BY <1>2, <4>4 DEF Inv, Scanned
        <4> QED
          BY <4>3, <4>4, <4>5, NearSettled DEF Near
      <3> QED
        BY <3>1, <3>2
    <2>3. \A m \in 0 .. Rounds : m \in Good
      <3> HIDE DEF Good
      <3> QED
        BY <1>0, <2>1, <2>2, Induction
    <2>4. n \in Good
      BY <1>0, <2>3
    <2> QED
      BY <1>0, <2>4
  <1> QED
    BY <1>1, <1>2 DEF TypeOK

(* A profitable circle of at most Rounds + 1 edges is missed only if the   *)
(* distance of Source has been lowered (graph.go:45-67, 75-92), for every  *)
(* graph and every order of the map.                                       *)
THEOREM MissedCircles == Spec => []MissedByLap
  <1>1. ASSUME TypeOK, Inv PROVE MissedByLap
    <2> SUFFICES ASSUME pc = "select", Closing = {}, NEW c \in ShortCircles, Pays(c)
                 PROVE  Less(distances[Source], 0)
      BY DEF MissedByLap
    <2>1. PICK n \in 2 .. Rounds + 1 : c \in Chains(n)
      BY DEF ShortCircles
    <2>2. /\ n \in Nat \ {0} /\ n - 1 \in 1 .. Rounds /\ Rounds \in Nat
      BY <2>1, LimitAssumption
    <2>3. c \in Chains(n)
      BY <2>1
    <2>4. Len(c) = n /\ c[n] \in Edge
      BY <2>2, <2>3, ChainFacts
    <2>5. Priced(c) /\ SumAlong(c) < 0 /\ To(c[n]) = Source
      BY <2>4 DEF Pays, ShortCircles
    <2>6. SourceNear
      BY <1>1 DEF Inv
    <2>7. /\ SumAlong(c) \in Int /\ weight[c[n]] \in Int
          /\ NoFarther(distances[From(c[n])], SumAlong(c) - weight[c[n]])
      BY <1>1, <2>2, <2>3, <2>5, <2>6, AllNear, OneMore
    <2>8. ~CanShorten(c[n])
      BY <2>4, <2>5 DEF Closing
    <2>9. NoFarther(distances[Source], SumAlong(c))
      BY <1>1, <2>4, <2>5, <2>7, <2>8, NearSettled
    <2> QED
      BY <2>5, <2>7, <2>9, FloatAssumption DEF NoFarther, Less
  <1> QED
    BY <1>1, Invariant, PTL DEF IInv

(* Two edges of one pair on a path are the only two edges of that path:    *)
(* the walk goes out through the pair and comes back through it.           *)
LEMMA ThereAndBack ==
  ASSUME TypeOK, Inv, Found,
         NEW i \in 1 .. Len(ret), NEW j \in 1 .. Len(ret), i # j, ret[i][1] = ret[j][1]
  PROVE  Len(ret) = 2 /\ ret[1][1] = ret[2][1] /\ ret[1][2] # ret[2][2]
  <1> DEFINE n == Len(ret)
  <1>1. n \in Nat /\ \A k \in 1 .. n : ret[k] \in Edge
    BY DEF TypeOK
  <1>2. NoVertexTwice
    BY DEF Found, Inv, Straight
  <1>3. /\ \A k \in 1 .. n - 1 : To(ret[k + 1]) = From(ret[k])
        /\ To(ret[1]) = Source /\ From(ret[n]) = Source
    BY DEF Found, Inv, Chain
  <1>4. ret[i][2] # ret[j][2]
    <2>1. SUFFICES ASSUME ret[i][2] = ret[j][2] PROVE FALSE
      OBVIOUS
    <2>2. From(ret[i]) = From(ret[j])
      BY <2>1 DEF From
    <2> QED
      BY <1>2, <2>2 DEF NoVertexTwice
  <1>5. From(ret[i]) = To(ret[j]) /\ From(ret[j]) = To(ret[i])
    <2>1. ret[i][2] \in {"+", "-"} /\ ret[j][2] \in {"+", "-"}
      BY <1>1, EdgeEnds
    <2> QED
      BY <1>4, <2>1 DEF From, To
  (* To leads to the vertex before: the one after Source is before it.     *)
  <1>6. ASSUME NEW k \in 1 .. n, NEW m \in 1 .. n, From(ret[k]) = To(ret[m])
        PROVE  (m = 1 /\ k = n) \/ k = m - 1
    <2>1. CASE m = 1
      <3>1. From(ret[k]) = From(ret[n]) /\ n \in 1 .. n
        BY <1>1, <1>3, <1>6, <2>1
      <3> QED
        BY <1>2, <2>1, <3>1 DEF NoVertexTwice
    <2>2. CASE m # 1
      <3>1. m - 1 \in 1 .. n - 1 /\ m - 1 \in 1 .. n /\ (m - 1) + 1 = m
        BY <1>1, <2>2
      <3>2. From(ret[k]) = From(ret[m - 1])
        BY <1>3, <1>6, <3>1
      <3> QED
        BY <1>2, <3>1, <3>2 DEF NoVertexTwice
    <2> QED
      BY <2>1, <2>2
  <1>7. /\ (j = 1 /\ i = n) \/ i = j - 1
        /\ (i = 1 /\ j = n) \/ j = i - 1
    BY <1>5, <1>6
  <1>8. n = 2 /\ ((i = 1 /\ j = 2) \/ (i = 2 /\ j = 1))
    <2>1. n \in Nat /\ i \in Int /\ j \in Int
      BY <1>1
    <2> HIDE DEF n
    <2> QED
      BY <1>7, <2>1
  <1>9. ret[1][1] = ret[2][1] /\ ret[1][2] # ret[2][2]
    BY <1>4, <1>8
  <1> QED
    BY <1>8, <1>9

(* There and back through one pair does not gain: the fee is paid twice.   *)
LEMMA NoGainInOnePool ==
  ASSUME TypeOK, Inv, pc # "idle", NEW p \in Pool,
         Usable(<<p, "+">>), Usable(<<p, "-">>)
  PROVE  /\ weight[<<p, "+">>] \in Int /\ weight[<<p, "-">>] \in Int
         /\ weight[<<p, "+">>] + weight[<<p, "-">>] >= 0
  <1> DEFINE u == weight[<<p, "+">>]
             v == weight[<<p, "-">>]
  <1>1. <<u, v>> \in PoolWeights(p)
    BY DEF Inv, PricedAsPools
  <1>2. u # Never /\ v # Never
    BY FloatAssumption DEF Usable, Total
  <1>3. PICK w \in Weight \X Weight : <<u, v>> = w /\ Balanced(w[1], w[2])
    BY <1>1, <1>2 DEF PoolWeights
  <1>4. u = w[1] /\ v = w[2] /\ w[1] \in Int /\ w[2] \in Int /\ w[1] + w[2] >= 0
    BY <1>3, GraphAssumption DEF Balanced
  <1> QED
    BY <1>4

(* A path uses no pair twice: the gain of a path of two edges would be the *)
(* fee of their pair.                                                      *)
THEOREM PathPoolsDistinct == Spec => []PoolsDistinct
  <1>1. ASSUME TypeOK, Inv, Found,
               NEW i \in 1 .. Len(ret), NEW j \in 1 .. Len(ret), i # j, ret[i][1] = ret[j][1]
        PROVE  FALSE
    <2> DEFINE p == ret[1][1]
    <2>1. Len(ret) = 2 /\ ret[1][1] = ret[2][1] /\ ret[1][2] # ret[2][2]
      BY <1>1, ThereAndBack
    <2>2. ret[1] \in Edge /\ ret[2] \in Edge
      <3>1. 1 \in 1 .. Len(ret) /\ 2 \in 1 .. Len(ret)
        BY <2>1
      <3> QED
        BY <1>1, <3>1 DEF TypeOK
    <2>3. \/ ret[1] = <<p, "+">> /\ ret[2] = <<p, "-">>
          \/ ret[1] = <<p, "-">> /\ ret[2] = <<p, "+">>
      BY <2>1, <2>2, EdgeEnds
    <2>4. Usable(ret[1]) /\ Usable(ret[2])
      BY <1>1, <2>1 DEF Inv, Chain
    <2>5. /\ weight[ret[1]] \in Int /\ weight[ret[2]] \in Int
          /\ weight[ret[1]] + weight[ret[2]] >= 0
      <3>1. p \in Pool /\ pc # "idle"
        BY <1>1, <2>2, EdgeEnds DEF Found
      <3>2. Usable(<<p, "+">>) /\ Usable(<<p, "-">>)
        BY <2>3, <2>4
      <3>3. /\ weight[<<p, "+">>] \in Int /\ weight[<<p, "-">>] \in Int
            /\ weight[<<p, "+">>] + weight[<<p, "-">>] >= 0
        BY <1>1, <3>1, <3>2, NoGainInOnePool
      <3> QED
        BY <2>3, <3>3
    <2>6. sum = Plus(Plus(0, weight[ret[1]]), weight[ret[2]])
      BY <1>1, <2>1 DEF Inv, ShortSums
    <2>7. sum = weight[ret[1]] + weight[ret[2]] /\ sum \in Int
      <3>1. 0 # NegInf /\ weight[ret[1]] # NegInf /\ weight[ret[2]] # NegInf
        <4>1. NegInf \notin Int /\ 0 \in Int
          BY FloatAssumption
        <4> HIDE DEF p
        <4>2. ASSUME NEW x \in Int PROVE x # NegInf
          BY <4>1
        <4> QED
          BY <2>5, <4>1, <4>2
      <3>2. Plus(0, weight[ret[1]]) = weight[ret[1]]
        BY <2>5, <3>1 DEF Plus
      <3>3. Plus(weight[ret[1]], weight[ret[2]]) = weight[ret[1]] + weight[ret[2]]
        BY <3>1 DEF Plus
      <3> QED
        BY <2>5, <2>6, <3>2, <3>3
    <2>8. sum = NegInf \/ sum < 0
      BY <1>1 DEF Inv, Gain, Found
    <2> QED
      BY <2>5, <2>7, <2>8, FloatAssumption
  <1>2. TypeOK /\ Inv => PoolsDistinct
    BY <1>1 DEF PoolsDistinct
  <1> QED
    BY <1>2, Invariant, PTL DEF IInv

(* The nil dereference of graph.go:99 needs a pair with an empty reserve.  *)
THEOREM PanicCause == Spec => []PanicNeedsDrained
  <1>1. Init => PanicNeedsDrained
    BY DEF Init, PanicNeedsDrained
  <1>2. TypeOK /\ Inv /\ PanicNeedsDrained /\ [Next]_vars => PanicNeedsDrained'
    <2> SUFFICES ASSUME TypeOK, Inv, PanicNeedsDrained, [Next]_vars PROVE PanicNeedsDrained'
      OBVIOUS
    <2>1. CASE WalkNil
      <3>1. /\ pc = "walk" /\ From(minEdge) # Source /\ preedges[From(minEdge)] = NoEdge
            /\ weight' = weight
        BY <2>1 DEF WalkNil, graph
      <3>2. From(minEdge) \in Token
        BY <3>1, EdgeEnds DEF Inv, Ahead
      <3>3. distances[From(minEdge)] = Far
        BY <3>1, <3>2 DEF Inv, Reached
      <3> QED
        BY <3>1, <3>3 DEF Inv, WalkReached, PanicNeedsDrained
    <2>2. CASE UNCHANGED vars
      BY <2>2 DEF vars, graph, PanicNeedsDrained
    <2>3. CASE pc' # "panic"
      BY <2>3 DEF PanicNeedsDrained
    <2>4. WalkNil \/ UNCHANGED vars \/ pc' # "panic"
      BY DEF Next, BellmanFord, FindCircle, FindArbitrage, Relax, NextRound, StopRelaxing,
             SelectEdge, SelectNone, WalkClose, WalkBack, WalkGiveUp, Finish
    <2> QED
      BY <2>1, <2>2, <2>3, <2>4
  <1> QED
    BY <1>1, <1>2, Invariant, PTL DEF Spec, IInv
=============================================================================
