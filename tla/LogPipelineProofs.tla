-------------------------- MODULE LogPipelineProofs --------------------------
(***************************************************************************)
(* Theorems about LogPipeline, for any number of handlers and pairs, any   *)
(* transactions, and any number of blocks, of them replaced.               *)
(***************************************************************************)
EXTENDS LogPipeline, SequenceTheorems, NatSets, TLAPS

-----------------------------------------------------------------------------
(* Positions are in a strict total order.                                  *)
LEMMA LaterOrder ==
  ASSUME NEW a \in Position, NEW b \in Position, NEW c \in Position
  PROVE  /\ ~Later(a, a)
         /\ Later(a, b) /\ Later(b, c) => Later(a, c)
         /\ ~Later(a, b) /\ ~Later(b, c) => ~Later(a, c)
         /\ a # b => Later(a, b) \/ Later(b, a)
  BY PositionAssumption DEF Later

(* Sequences of logs.                                                      *)
LEMMA ElementsOf ==
  ASSUME NEW S, NEW s \in Seq(S)
  PROVE  /\ ToSet(s) \subseteq S
         /\ \A x : x \in ToSet(s) <=> \E i \in 1 .. Len(s) : x = s[i]
  BY DEF ToSet

LEMMA ElementsOfConcat ==
  ASSUME NEW S, NEW s \in Seq(S), NEW t \in Seq(S)
  PROVE  s \o t \in Seq(S) /\ ToSet(s \o t) = ToSet(s) \cup ToSet(t)
  <1> DEFINE u == s \o t
  <1>1. /\ u \in Seq(S) /\ Len(u) = Len(s) + Len(t)
        /\ \A i \in 1 .. Len(s) + Len(t) : u[i] = IF i <= Len(s) THEN s[i] ELSE t[i - Len(s)]
        /\ Len(s) \in Nat /\ Len(t) \in Nat
    BY ConcatProperties, LenProperties
  <1> HIDE DEF u
  <1>2. /\ \A x : x \in ToSet(u) <=> \E i \in 1 .. Len(u) : x = u[i]
        /\ \A x : x \in ToSet(s) <=> \E i \in 1 .. Len(s) : x = s[i]
        /\ \A x : x \in ToSet(t) <=> \E i \in 1 .. Len(t) : x = t[i]
    BY <1>1, ElementsOf
  <1>3. ASSUME NEW x \in ToSet(u), x \notin ToSet(s) PROVE x \in ToSet(t)
    <2>1. PICK i \in 1 .. Len(u) : x = u[i]
      BY <1>2
    <2>2. x = t[i - Len(s)] /\ i - Len(s) \in 1 .. Len(t)
      BY <1>1, <1>2, <1>3, <2>1
    <2> QED
      BY <1>2, <2>2
  <1>4. ASSUME NEW x \in ToSet(s) PROVE x \in ToSet(u)
    BY <1>1, <1>2, <1>4
  <1>5. ASSUME NEW x \in ToSet(t) PROVE x \in ToSet(u)
    <2>1. PICK i \in 1 .. Len(t) : x = t[i]
      BY <1>2, <1>5
    <2>2. x = u[i + Len(s)] /\ i + Len(s) \in 1 .. Len(u)
      BY <1>1, <2>1
    <2> QED
      BY <1>2, <2>2
  <1> QED
    BY <1>1, <1>3, <1>4, <1>5 DEF u

LEMMA Concat ==
  ASSUME NEW s \in Seq(Log), NEW t \in Seq(Log)
  PROVE  /\ s \o t \in Seq(Log) /\ ToSet(s \o t) = ToSet(s) \cup ToSet(t)
         /\ Len(s) \in Nat /\ Len(t) \in Nat /\ Len(s \o t) = Len(s) + Len(t)
         /\ \A i \in 1 .. Len(s) + Len(t) :
              (s \o t)[i] = IF i <= Len(s) THEN s[i] ELSE t[i - Len(s)]
  <1>1. s \o t \in Seq(Log) /\ ToSet(s \o t) = ToSet(s) \cup ToSet(t)
    BY ElementsOfConcat
  <1>2. Len(s) \in Nat /\ Len(t) \in Nat
    BY LenProperties
  <1> QED
    BY <1>1, <1>2, ConcatProperties

LEMMA ElementsOfHeadTail ==
  ASSUME NEW S, NEW s \in Seq(S), s # <<>>
  PROVE  /\ Head(s) = s[1] /\ Head(s) \in S /\ Tail(s) \in Seq(S)
         /\ ToSet(s) = {Head(s)} \cup ToSet(Tail(s))
  <1> DEFINE t == Tail(s)
  <1>1. /\ Head(s) \in S /\ Head(s) = s[1] /\ t \in Seq(S) /\ Len(t) = Len(s) - 1
        /\ \A i \in 1 .. Len(t) : t[i] = s[i + 1]
        /\ Len(s) \in Nat \ {0}
    BY HeadTailProperties, EmptySeq
  <1> HIDE DEF t
  <1>2. /\ \A x : x \in ToSet(t) <=> \E i \in 1 .. Len(t) : x = t[i]
        /\ \A x : x \in ToSet(s) <=> \E i \in 1 .. Len(s) : x = s[i]
    BY <1>1, ElementsOf
  <1>3. ASSUME NEW x \in ToSet(s), x # s[1] PROVE x \in ToSet(t)
    <2>1. PICK i \in 1 .. Len(s) : x = s[i]
      BY <1>2
    <2>2. x = t[i - 1] /\ i - 1 \in 1 .. Len(t)
      BY <1>1, <1>3, <2>1
    <2> QED
      BY <1>2, <2>2
  <1>4. ASSUME NEW x \in ToSet(t) PROVE x \in ToSet(s)
    <2>1. PICK i \in 1 .. Len(t) : x = t[i]
      BY <1>2
    <2>2. x = s[i + 1] /\ i + 1 \in 1 .. Len(s)
      BY <1>1, <2>1
    <2> QED
      BY <1>2, <2>2
  <1>5. s[1] \in ToSet(s)
    BY <1>1, <1>2
  <1> QED
    BY <1>1, <1>3, <1>4, <1>5 DEF t

LEMMA ElementsOfAppend ==
  ASSUME NEW S, NEW s \in Seq(S), NEW e \in S
  PROVE  /\ Append(s, e) \in Seq(S)
         /\ ToSet(Append(s, e)) = ToSet(s) \cup {e}
  <1> DEFINE t == Append(s, e)
  <1>1. /\ t \in Seq(S) /\ Len(t) = Len(s) + 1 /\ Len(s) \in Nat
        /\ \A i \in 1 .. Len(s) : t[i] = s[i]
        /\ t[Len(s) + 1] = e
    BY AppendProperties, LenProperties
  <1> HIDE DEF t
  <1>2. /\ \A x : x \in ToSet(t) <=> \E i \in 1 .. Len(t) : x = t[i]
        /\ \A x : x \in ToSet(s) <=> \E i \in 1 .. Len(s) : x = s[i]
    BY <1>1, ElementsOf
  <1>3. \A x : x \in ToSet(t) <=> x \in ToSet(s) \cup {e}
    BY <1>1, <1>2
  <1> QED
    BY <1>1, <1>3 DEF t

LEMMA NoElements == ToSet(<<>>) = {}
  BY DEF ToSet

(* The beginning and the end of a sequence.                                *)
LEMMA Parts ==
  ASSUME NEW S, NEW s \in Seq(S), NEW n \in 0 .. Len(s)
  PROVE  /\ SubSeq(s, 1, n) \in Seq(S) /\ Len(SubSeq(s, 1, n)) = n
         /\ \A i \in 1 .. n : SubSeq(s, 1, n)[i] = s[i]
         /\ SubSeq(s, n + 1, Len(s)) \in Seq(S)
         /\ Len(SubSeq(s, n + 1, Len(s))) = Len(s) - n
         /\ \A i \in 1 .. Len(s) - n : SubSeq(s, n + 1, Len(s))[i] = s[n + i]
  <1>1. Len(s) \in Nat /\ \A i \in 1 .. Len(s) : s[i] \in S
    BY LenProperties, ElementOfSeq
  <1>2. \A i \in 1 .. n : s[i] \in S
    BY <1>1
  <1>3. \A i \in n + 1 .. Len(s) : s[i] \in S
    BY <1>1
  <1>4. /\ SubSeq(s, 1, n) \in Seq(S)
        /\ Len(SubSeq(s, 1, n)) = IF 1 <= n THEN n - 1 + 1 ELSE 0
        /\ \A i \in 1 .. n - 1 + 1 : SubSeq(s, 1, n)[i] = s[1 + i - 1]
    BY <1>1, <1>2, SubSeqProperties
  <1>5. /\ SubSeq(s, n + 1, Len(s)) \in Seq(S)
        /\ Len(SubSeq(s, n + 1, Len(s))) = IF n + 1 <= Len(s) THEN Len(s) - (n + 1) + 1 ELSE 0
        /\ \A i \in 1 .. Len(s) - (n + 1) + 1 : SubSeq(s, n + 1, Len(s))[i] = s[n + 1 + i - 1]
    BY <1>1, <1>3, SubSeqProperties
  <1>6. /\ \A i \in 1 .. n : SubSeq(s, 1, n)[i] = s[i]
        /\ \A i \in 1 .. Len(s) - n : SubSeq(s, n + 1, Len(s))[i] = s[n + i]
    BY <1>1, <1>4, <1>5
  <1> QED
    BY <1>1, <1>4, <1>5, <1>6

-----------------------------------------------------------------------------
(* What the operators of the model return.                                 *)
LEMMA BlockType ==
  ASSUME NEW tx \in Transaction, NEW b \in 1 .. MaxBlock, NEW f \in Fork
  PROVE  /\ Block(tx, b, f) \in Seq(Log)
         /\ Len(Block(tx, b, f)) = Len(tx) /\ Len(tx) \in Nat
         /\ \A i \in 1 .. Len(tx) :
              LET l == Block(tx, b, f)[i]
              IN  l.at = [block |-> b, tx |-> 0, log |-> i] /\ l.fork = f /\ ~l.removed
  <1>1. tx \in Seq(Kind \X Pair) /\ Len(tx) \in Nat
    BY TransactionAssumption, LenProperties
  <1>2. ASSUME NEW i \in 1 .. Len(tx)
        PROVE  [kind |-> tx[i][1], pair |-> tx[i][2], at |-> [block |-> b, tx |-> 0, log |-> i],
                fork |-> f, removed |-> FALSE] \in Log
    <2>1. tx[i] \in Kind \X Pair
      BY <1>1, ElementOfSeq
    <2> QED
      BY <2>1, ChainAssumption DEF Log
  <1>3. Block(tx, b, f) \in Seq(Log)
    BY <1>1, <1>2, IsASeq DEF Block
  <1> QED
    BY <1>1, <1>3 DEF Block

LEMMA LastOfIs ==
  ASSUME NEW n \in Nat, NEW I \in SUBSET (1 .. n), I # {}
  PROVE  LastOf(I) \in I /\ \A j \in I : j <= LastOf(I)
  <1>1. I \in SUBSET (0 .. n)
    OBVIOUS
  <1>2. \E i \in I : \A j \in I : j <= i
    BY <1>1, HasGreatest
  <1> QED
    BY <1>2 DEF LastOf

LEMMA LastSyncIs ==
  ASSUME NEW ls \in Seq(Log), NEW p \in Pair, SyncsOf(ls, p) # {}
  PROVE  \E i \in 1 .. Len(ls) :
           /\ LastSync(ls, p) = ls[i] /\ ls[i] \in Log
           /\ ls[i].kind = "Sync" /\ ls[i].pair = p
           /\ \A j \in SyncsOf(ls, p) : j <= i
  <1>1. Len(ls) \in Nat /\ SyncsOf(ls, p) \in SUBSET (1 .. Len(ls))
    BY LenProperties DEF SyncsOf
  <1>2. /\ LastOf(SyncsOf(ls, p)) \in SyncsOf(ls, p)
        /\ \A j \in SyncsOf(ls, p) : j <= LastOf(SyncsOf(ls, p))
    BY <1>1, LastOfIs
  <1>3. LastOf(SyncsOf(ls, p)) \in 1 .. Len(ls)
    BY <1>1, <1>2
  <1> QED
    BY <1>2, <1>3, ElementOfSeq DEF LastSync, SyncsOf

(* A fee that is found is that of a Swap right behind a Sync of the batch. *)
LEMMA FilterFeeIs ==
  ASSUME NEW ls \in Seq(Log), NEW p \in Pair, FilterFee(ls, p) # NoFee
  PROVE  \E i, j \in 1 .. Len(ls) :
           /\ ls[i].kind = "Sync" /\ ls[i].pair = p
           /\ ls[j].kind = "Swap" /\ ls[j].pair = p /\ Follows(ls[j], ls[i])
           /\ FilterFee(ls, p) = [at |-> ls[j].at, fork |-> ls[j].fork]
  <1> DEFINE matched == {i \in 1 .. Len(ls) : Matches(ls, p, i)}
             sync    == CHOOSE i \in matched : \A j \in matched : i <= j
  <1>1. Len(ls) \in Nat
    BY LenProperties
  <1>2. matched # {} /\ matched \in SUBSET Nat
    BY <1>1 DEF FilterFee
  <1>3. \E i \in matched : \A j \in matched : i <= j
    BY <1>2, HasLeast
  <1>4. sync \in matched
    BY <1>3
  <1>5. sync \in 1 .. Len(ls) /\ Matches(ls, p, sync)
    BY <1>4
  <1>6. FilterFee(ls, p) = [at |-> ls[LastOf(SwapsAfter(ls, sync))].at,
                            fork |-> ls[LastOf(SwapsAfter(ls, sync))].fork]
    BY <1>2 DEF FilterFee
  <1> HIDE DEF sync
  <1>7. SwapsAfter(ls, sync) \in SUBSET (1 .. Len(ls)) /\ SwapsAfter(ls, sync) # {}
    BY <1>5 DEF SwapsAfter, Matches
  <1>8. LastOf(SwapsAfter(ls, sync)) \in SwapsAfter(ls, sync)
    BY <1>1, <1>7, LastOfIs
  <1> QED
    BY <1>5, <1>6, <1>8 DEF Matches, SwapsAfter, SyncsOf

LEMMA FilterFeeType ==
  ASSUME NEW ls \in Seq(Log), NEW p \in Pair
  PROVE  FilterFee(ls, p) \in Fee \cup {NoFee}
  <1> SUFFICES ASSUME FilterFee(ls, p) # NoFee PROVE FilterFee(ls, p) \in Fee
    OBVIOUS
  <1>1. PICK j \in 1 .. Len(ls) : FilterFee(ls, p) = [at |-> ls[j].at, fork |-> ls[j].fork]
    BY FilterFeeIs
  <1>2. ls[j] \in Log
    BY ElementOfSeq
  <1> QED
    BY <1>1, <1>2 DEF Log, Fee

LEMMA FilterPairsIs ==
  ASSUME TypeOK, NEW ls \in Seq(Log), NEW p \in Pair
  PROVE  /\ SyncsOf(ls, p) = {} => FilterPairs(ls)[p] = NoEntry
         /\ SyncsOf(ls, p) # {} =>
              /\ FilterPairs(ls)[p] \in Info /\ FilterPairs(ls)[p] # NoEntry
              /\ FilterPairs(ls)[p].at = LastSync(ls, p).at
              /\ FilterPairs(ls)[p].fork = LastSync(ls, p).fork
              /\ FilterPairs(ls)[p].fee = NoFee
  <1>1. SyncsOf(ls, p) = {} => FilterPairs(ls)[p] = NoEntry
    BY DEF FilterPairs
  <1>2. ASSUME SyncsOf(ls, p) # {}
        PROVE  /\ FilterPairs(ls)[p] = [at |-> LastSync(ls, p).at, fork |-> LastSync(ls, p).fork,
                                        time |-> now, tokens |-> "none", error |-> FALSE, fee |-> NoFee]
               /\ LastSync(ls, p) \in Log
    BY <1>2, LastSyncIs DEF FilterPairs
  <1>3. ASSUME SyncsOf(ls, p) # {} PROVE FilterPairs(ls)[p] \in Info
    <2>1. LastSync(ls, p).at \in Position /\ LastSync(ls, p).fork \in Fork
      BY <1>2, <1>3 DEF Log
    <2>2. now \in 0 .. MaxTime
      BY DEF TypeOK
    <2>3. \A x \in Position, f \in Fork, t \in 0 .. MaxTime :
            [at |-> x, fork |-> f, time |-> t, tokens |-> "none", error |-> FALSE,
             fee |-> NoFee] \in Info
      BY DEF Info
    <2> QED
      BY <1>2, <1>3, <2>1, <2>2, <2>3
  <1> QED
    BY <1>1, <1>2, <1>3, NoInfoAssumption

LEMMA CopiedIs ==
  ASSUME NEW new \in Info, NEW old \in Info
  PROVE  /\ Copied(new, old) \in Info /\ Copied(new, old) # NoEntry
         /\ Copied(new, old).at = new.at /\ Copied(new, old).fork = new.fork
         /\ Copied(new, old).tokens = old.tokens /\ Copied(new, old).error = old.error
         /\ Copied(new, old).fee = old.fee
  BY NoInfoAssumption DEF Copied, Info

LEMMA AnsweredIs ==
  ASSUME NEW info \in Info, NEW p \in Pair, NEW outcome \in Answer[p]
  PROVE  /\ Answered(info, outcome) \in Info /\ Answered(info, outcome) # NoEntry
         /\ Answered(info, outcome).at = info.at /\ Answered(info, outcome).fork = info.fork
         /\ Answered(info, outcome).fee = info.fee
         /\ Known(p, Answered(info, outcome))
  <1>1. outcome \in {"tokens", "zero", "fail"}
    BY AnswerAssumption DEF Outcome
  <1> QED
    BY <1>1, NoInfoAssumption DEF Answered, Info, Known

LEMMA WithFeesIs ==
  ASSUME TypeOK, NEW h \in Handler, NEW p \in Pair
  PROVE  /\ WithFees(h)[p] \in Info \cup {NoEntry}
         /\ WithFees(h)[p] = NoEntry <=> pairs[h][p] = NoEntry
         /\ pairs[h][p] # NoEntry =>
              /\ WithFees(h)[p].at = pairs[h][p].at /\ WithFees(h)[p].fork = pairs[h][p].fork
              /\ WithFees(h)[p].time = pairs[h][p].time
              /\ WithFees(h)[p].tokens = pairs[h][p].tokens
              /\ WithFees(h)[p].error = pairs[h][p].error
              /\ \/ WithFees(h)[p].fee = pairs[h][p].fee
                 \/ WithFees(h)[p].fee = FilterFee(batch[h], p) /\ FilterFee(batch[h], p) # NoFee
  <1>1. FilterFee(batch[h], p) \in Fee \cup {NoFee} /\ pairs[h][p] \in Info \cup {NoEntry}
    BY FilterFeeType DEF TypeOK
  <1>2. CASE pairs[h][p] = NoEntry
    BY <1>2 DEF WithFees
  <1>3. CASE pairs[h][p] # NoEntry /\ FilterFee(batch[h], p) # NoFee
    <2>1. WithFees(h)[p] = [pairs[h][p] EXCEPT !.fee = FilterFee(batch[h], p)]
      BY <1>3 DEF WithFees
    <2> QED
      BY <1>1, <1>3, <2>1, NoInfoAssumption DEF Info
  <1>4. CASE pairs[h][p] # NoEntry /\ FilterFee(batch[h], p) = NoFee
    BY <1>1, <1>4 DEF WithFees
  <1> QED
    BY <1>2, <1>3, <1>4

-----------------------------------------------------------------------------
LEMMA TypeInit == Init => TypeOK
  <1> SUFFICES ASSUME Init PROVE TypeOK
    OBVIOUS
  <1>1. <<>> \in Seq(Log)
    BY EmptySeq
  <1> QED
    BY <1>1, TimeAssumption, BoundAssumption DEF Init, TypeOK, Fork, Empty

LEMMA HeightType ==
  ASSUME TypeOK, ChainInOrder
  PROVE  /\ Len(chain) \in Nat /\ Height \in 0 .. MaxBlock
         /\ chain # <<>> => Height \in 1 .. MaxBlock
         /\ \A i \in 1 .. Len(chain) : chain[i].at.block <= Height /\ chain[i] \in Log
  <1>1. Len(chain) \in Nat /\ (chain # <<>> => Len(chain) \in Nat \ {0})
    BY LenProperties, EmptySeq DEF TypeOK
  <1>2. \A i \in 1 .. Len(chain) : chain[i] \in Log /\ chain[i] \in ToSet(chain)
    BY ElementOfSeq, ElementsOf DEF TypeOK
  <1>3. \A i \in 1 .. Len(chain) : chain[i].at.block \in 1 .. MaxBlock
    BY <1>2 DEF ChainInOrder
  <1>4. CASE chain = <<>>
    BY <1>4, BoundAssumption, EmptySeq DEF Height
  <1>5. CASE chain # <<>>
    <2>1. Height = chain[Len(chain)].at.block /\ Len(chain) \in 1 .. Len(chain)
      BY <1>1, <1>5 DEF Height
    <2>2. ASSUME NEW i \in 1 .. Len(chain) PROVE chain[i].at.block <= Height
      <3>1. i = Len(chain) \/ Later(chain[Len(chain)].at, chain[i].at)
        BY <1>1 DEF ChainInOrder
      <3> QED
        BY <1>3, <2>1, <3>1 DEF Later
    <2> QED
      BY <1>1, <1>2, <1>3, <2>1, <2>2
  <1> QED
    BY <1>4, <1>5

LEMMA SendType ==
  ASSUME TypeOK, NEW ls \in Seq(Log), Send(ls)
  PROVE  logChan' \in Seq(Log) /\ lost' \subseteq Log
  <1>1. logChan \in Seq(Log) /\ lost \subseteq Log
    BY DEF TypeOK
  <1>2. logChan \o ls \in Seq(Log) /\ ToSet(ls) \subseteq Log
    BY <1>1, ElementsOfConcat, ElementsOf
  <1> QED
    BY <1>1, <1>2 DEF Send

LEMMA ReturnType ==
  ASSUME TypeOK, NEW h \in Handler, Return(h)
  PROVE  /\ pc' \in [Handler -> {"idle", "filter", "load", "call", "store"}]
         /\ batch' \in [Handler -> Seq(Log)]
         /\ pairs' \in [Handler -> [Pair -> Info \cup {NoEntry}]]
         /\ seen' \in [Handler -> [Pair -> Info \cup {NoEntry}]]
         /\ toLoad' \in [Handler -> SUBSET Pair]
  <1>1. <<>> \in Seq(Log) /\ Empty \in [Pair -> Info \cup {NoEntry}]
    BY EmptySeq DEF Empty
  <1> QED
    BY <1>1 DEF Return, TypeOK

LEMMA TypeStep == TypeOK /\ Inv /\ [Next]_vars => TypeOK'
  <1> SUFFICES ASSUME TypeOK, Inv, [Next]_vars PROVE TypeOK'
    OBVIOUS
  <1> USE DEF blocks, source, work, history
  <1>1. ASSUME NEW tx \in Transaction, Mine(tx) PROVE TypeOK'
    <2>1. Height + 1 \in 1 .. MaxBlock /\ fork \in Fork
      BY <1>1, HeightType, BoundAssumption DEF Mine, Inv, Places, TypeOK
    <2>2. Block(tx, Height + 1, fork) \in Seq(Log)
      BY <2>1, BlockType
    <2>3. chain' \in Seq(Log) /\ logChan' \in Seq(Log) /\ lost' \subseteq Log
      BY <1>1, <2>2, SendType, ElementsOfConcat DEF Mine, TypeOK
    <2> QED
      BY <1>1, <2>3 DEF Mine, TypeOK
  <1>2. ASSUME NEW tx \in Transaction, NEW n \in 0 .. Len(chain), Replace(tx, n) PROVE TypeOK'
    <2> DEFINE old  == SubSeq(chain, n + 1, Len(chain))
               gone == [i \in DOMAIN old |-> [old[i] EXCEPT !.removed = TRUE]]
               new  == Block(tx, Height, fork + 1)
    <2>1. Height \in 1 .. MaxBlock /\ fork + 1 \in Fork
      BY <1>2, HeightType, BoundAssumption DEF Replace, Inv, Places, TypeOK, Fork
    <2>2. new \in Seq(Log)
      BY <2>1, BlockType
    <2>3. old \in Seq(Log) /\ SubSeq(chain, 1, n) \in Seq(Log) /\ ToSet(old) \subseteq Log
      <3>1. chain \in Seq(Log)
        BY DEF TypeOK
      <3>2. old \in Seq(Log) /\ SubSeq(chain, 1, n) \in Seq(Log)
        BY <3>1, Parts
      <3> HIDE DEF old
      <3> QED
        BY <3>2, ElementsOf
    <2>4. gone \in Seq(Log)
      <3> HIDE DEF old
      <3>1. DOMAIN old = 1 .. Len(old) /\ Len(old) \in Nat
        BY <2>3, LenProperties
      <3>2. \A i \in 1 .. Len(old) : [old[i] EXCEPT !.removed = TRUE] \in Log
        <4> SUFFICES ASSUME NEW i \in 1 .. Len(old)
                     PROVE  [old[i] EXCEPT !.removed = TRUE] \in Log
          OBVIOUS
        <4>1. old[i] \in Log
          BY <2>3, ElementOfSeq
        <4> QED
          BY <4>1 DEF Log
      <3>3. [i \in 1 .. Len(old) |-> [old[i] EXCEPT !.removed = TRUE]] \in Seq(Log)
        BY <3>1, <3>2, IsASeq
      <3> QED
        BY <3>1, <3>3
    <2>5. gone \o new \in Seq(Log) /\ SubSeq(chain, 1, n) \o new \in Seq(Log)
      BY <2>2, <2>3, <2>4, ElementsOfConcat
    <2>6. /\ chain' = SubSeq(chain, 1, n) \o new /\ orphans' = orphans \cup ToSet(old)
          /\ Send(gone \o new) /\ fork' = fork + 1
          /\ UNCHANGED <<now, link, errors, logs, work, store, done>>
      BY <1>2 DEF Replace
    <2>7. logChan' \in Seq(Log) /\ lost' \subseteq Log
      BY <2>5, <2>6, SendType
    <2> HIDE DEF old, gone, new
    <2> QED
      BY <2>1, <2>3, <2>5, <2>6, <2>7 DEF TypeOK
  <1>3. ASSUME Disconnect \/ Subscribe PROVE TypeOK'
    BY <1>3, BoundAssumption DEF Disconnect, Subscribe, TypeOK
  <1>4. ASSUME Tick PROVE TypeOK'
    BY <1>4, TimeAssumption DEF Tick, TypeOK
  <1>5. ASSUME Forward PROVE TypeOK'
    <2>1. Append(logs, Head(logChan)) \in Seq(Log) /\ Tail(logChan) \in Seq(Log)
      BY <1>5, ElementsOfHeadTail, ElementsOfAppend DEF Forward, TypeOK
    <2> QED
      BY <1>5, <2>1 DEF Forward, TypeOK
  <1>6. ASSUME SubscribeError PROVE TypeOK'
    BY <1>6, EmptySeq, ElementsOf DEF SubscribeError, TypeOK
  <1>7. ASSUME NEW h \in Handler, Take(h) PROVE TypeOK'
    BY <1>7, EmptySeq DEF Take, TypeOK
  <1>8. ASSUME NEW h \in Handler, FilterFails(h) \/ FilterNothing(h) \/ CallFails(h) \/ FeesFail(h)
        PROVE  TypeOK'
    <2>1. ToSet(batch[h]) \subseteq Log
      BY ElementsOf DEF TypeOK
    <2>2. Return(h) /\ lost' \subseteq Log
      BY <1>8, <2>1 DEF FilterFails, FilterNothing, CallFails, FeesFail, TypeOK
    <2> QED
      <3>1. UNCHANGED <<now, source, logs, store, done>>
        BY <1>8 DEF FilterFails, FilterNothing, CallFails, FeesFail
      <3> QED
        BY <2>2, <3>1, ReturnType DEF TypeOK
  <1>9. ASSUME NEW h \in Handler, Filter(h) PROVE TypeOK'
    <2>1. FilterPairs(batch[h]) \in [Pair -> Info \cup {NoEntry}]
      <3>1. \A p \in Pair : FilterPairs(batch[h])[p] \in Info \cup {NoEntry}
        BY FilterPairsIs DEF TypeOK
      <3> QED
        BY <3>1 DEF FilterPairs
    <2> QED
      BY <1>9, <2>1 DEF Filter, TypeOK
  <1>10. ASSUME NEW h \in Handler, NEW p \in Pair, LoadPair(h, p) PROVE TypeOK'
    <2>1. pairs[h][p] \in Info
      BY <1>10 DEF LoadPair, Inv, AtWork, Working, Selected, TypeOK
    <2>2. store[p] # NoEntry => Copied(pairs[h][p], store[p]) \in Info
      BY <2>1, CopiedIs DEF TypeOK
    <2> QED
      BY <1>10, <2>1, <2>2 DEF LoadPair, TypeOK
  <1>11. ASSUME NEW h \in Handler, LoadDone(h) PROVE TypeOK'
    BY <1>11 DEF LoadDone, TypeOK
  <1>12. ASSUME NEW h \in Handler, CallAnswers(h) PROVE TypeOK'
    <2>1. PICK outcome \in [Missing(h) -> Outcome] :
            /\ \A p \in Missing(h) : outcome[p] \in Answer[p]
            /\ pairs' = [pairs EXCEPT ![h] =
                 [p \in Pair |-> IF p \in Missing(h) THEN Answered(@[p], outcome[p]) ELSE @[p]]]
      BY <1>12 DEF CallAnswers
    <2>2. \A p \in Missing(h) : pairs[h][p] \in Info /\ Answered(pairs[h][p], outcome[p]) \in Info
      <3> SUFFICES ASSUME NEW p \in Missing(h)
                   PROVE  pairs[h][p] \in Info /\ Answered(pairs[h][p], outcome[p]) \in Info
        OBVIOUS
      <3>1. p \in Pair /\ pairs[h][p] \in Info /\ outcome[p] \in Answer[p]
        BY <2>1 DEF Missing, TypeOK
      <3> QED
        BY <3>1, AnsweredIs
    <2>3. pairs' \in [Handler -> [Pair -> Info \cup {NoEntry}]]
      BY <2>1, <2>2 DEF TypeOK
    <2> QED
      BY <1>12, <2>3 DEF CallAnswers, TypeOK
  <1>13. ASSUME NEW h \in Handler, StoreAll(h) PROVE TypeOK'
    <2>1. \A p \in Pair : Newest(store[p], WithFees(h)[p]) \in Info \cup {NoEntry}
      BY WithFeesIs DEF Newest, TypeOK
    <2>2. store' \in [Pair -> Info \cup {NoEntry}]
      BY <1>13, <2>1 DEF StoreAll
    <2>3. done' \subseteq Log /\ Return(h) /\ UNCHANGED <<now, source, logs, lost>>
      BY <1>13, ElementsOf DEF StoreAll, TypeOK
    <2> QED
      BY <2>2, <2>3, ReturnType DEF TypeOK
  <1>14. ASSUME NEW p \in Pair, ExpirePair(p) PROVE TypeOK'
    BY <1>14 DEF ExpirePair, TypeOK
  <1>15. ASSUME UNCHANGED vars PROVE TypeOK'
    BY <1>15 DEF vars, TypeOK
  <1> QED
    BY <1>1, <1>2, <1>3, <1>4, <1>5, <1>6, <1>7, <1>8, <1>9, <1>10, <1>11, <1>12, <1>13, <1>14,
       <1>15 DEF Next, Node, SubscribeFilter, Handle

-----------------------------------------------------------------------------
(***************************************************************************)
(* Where logs are, and in which order.                                     *)
(***************************************************************************)
Everywhere == Travelling \cup Handled \cup lost \cup done

(* Logs are sent that are nowhere yet.                                     *)
LEMMA SendStep ==
  ASSUME TypeOK, HandledOnce, SentOnce,
         NEW ls \in Seq(Log), Send(ls), UNCHANGED <<logs, batch, done>>,
         \A i, j \in 1 .. Len(ls) : i < j => ls[i] # ls[j],
         ToSet(ls) \cap Everywhere = {}
  PROVE  HandledOnce' /\ SentOnce' /\ Everywhere' = Everywhere \cup ToSet(ls)
  <1>1. CASE link = "up"
    <2>1. logChan \in Seq(Log) /\ logChan' = logChan \o ls /\ lost' = lost
      BY <1>1 DEF Send, TypeOK
    <2>2. ToSet(logChan') = ToSet(logChan) \cup ToSet(ls)
      BY <2>1, ElementsOfConcat
    <2>3. HandledOnce' /\ Everywhere' = Everywhere \cup ToSet(ls)
      <3>1. Travelling' = Travelling \cup ToSet(ls) /\ Handled' = Handled
        BY <2>2 DEF Travelling, Handled
      <3>2. Everywhere' = Everywhere \cup ToSet(ls)
        BY <2>1, <3>1 DEF Everywhere
      <3>3. ToSet(logChan') \cap ToSet(logs') = {}
        BY <2>2 DEF HandledOnce, Everywhere, Travelling
      <3>4. Travelling' \cap Handled' = {} /\ (Travelling' \cup Handled') \cap (lost' \cup done') = {}
        BY <2>1, <3>1 DEF HandledOnce, Everywhere
      <3> QED
        BY <3>2, <3>3, <3>4 DEF HandledOnce
    <2>4. SentOnce'
      <3> SUFFICES ASSUME NEW i \in 1 .. Len(logChan'), NEW j \in 1 .. Len(logChan'), i < j
                   PROVE  logChan'[i] # logChan'[j]
        BY DEF SentOnce
      <3>1. /\ Len(logChan') = Len(logChan) + Len(ls) /\ Len(logChan) \in Nat /\ Len(ls) \in Nat
            /\ \A k \in 1 .. Len(logChan) + Len(ls) :
                 logChan'[k] = IF k <= Len(logChan) THEN logChan[k] ELSE ls[k - Len(logChan)]
        BY <2>1, ConcatProperties, LenProperties
      <3>2. CASE j <= Len(logChan)
        BY <3>1, <3>2 DEF SentOnce
      <3>3. CASE i <= Len(logChan) /\ j > Len(logChan)
        <4>1. j - Len(logChan) \in 1 .. Len(ls)
          BY <3>1, <3>3
        <4>2. logChan'[i] \in ToSet(logChan) /\ logChan'[j] \in ToSet(ls)
          BY <2>1, <3>1, <3>3, <4>1, ElementsOf
        <4> QED
          BY <4>2 DEF Everywhere, Travelling
      <3>4. CASE i > Len(logChan)
        <4>1. i - Len(logChan) \in 1 .. Len(ls) /\ j - Len(logChan) \in 1 .. Len(ls)
          BY <3>1, <3>4
        <4> QED
          BY <3>1, <3>4, <4>1
      <3> QED
        BY <3>1, <3>2, <3>3, <3>4
    <2> QED
      BY <2>3, <2>4
  <1>2. CASE link # "up"
    <2>1. logChan' = logChan /\ lost' = lost \cup ToSet(ls)
      BY <1>2 DEF Send
    <2> QED
      BY <2>1 DEF HandledOnce, SentOnce, Everywhere, Travelling, Handled
  <1> QED
    BY <1>1, <1>2

(* What is sent now is later than what still counts of what was sent.      *)
LEMMA SendOrder ==
  ASSUME TypeOK, SentInOrder,
         NEW ls \in Seq(Log), Send(ls), UNCHANGED <<logs, batch>>,
         ToSet(chain') \cap (Travelling \cup Handled) \subseteq ToSet(chain),
         \A l \in ToSet(chain') \cap Travelling, m \in ToSet(ls) : Later(m.at, l.at),
         \A i, j \in 1 .. Len(ls) :
           i < j /\ ls[i] \in ToSet(chain') => Later(ls[j].at, ls[i].at)
  PROVE  SentInOrder'
  <1>1. ASSUME NEW q \in Seq(Log), ToSet(q) \subseteq Travelling \cup Handled, InOrder(q),
               NEW i \in 1 .. Len(q), NEW j \in 1 .. Len(q), i < j, q[i] \in ToSet(chain')
        PROVE  Later(q[j].at, q[i].at)
    <2>1. q[i] \in ToSet(chain)
      BY <1>1, ElementsOf
    <2> QED
      BY <1>1, <2>1 DEF InOrder
  <1>2. InOrder(logs)' /\ \A h \in Handler : InOrder(batch[h])'
    BY <1>1 DEF TypeOK, Travelling, Handled, InOrder, SentInOrder
  <1>3. logChan \in Seq(Log)
    BY DEF TypeOK
  <1>4. CASE logChan' = logChan
    <2>1. InOrder(logChan)'
      BY <1>1, <1>3, <1>4 DEF Travelling, InOrder, SentInOrder
    <2> QED
      BY <1>2, <1>4, <2>1 DEF SentInOrder, Travelling
  <1>5. CASE logChan' = logChan \o ls
    <2>1. /\ Len(logChan') = Len(logChan) + Len(ls) /\ Len(logChan) \in Nat /\ Len(ls) \in Nat
          /\ \A k \in 1 .. Len(logChan) + Len(ls) :
               logChan'[k] = IF k <= Len(logChan) THEN logChan[k] ELSE ls[k - Len(logChan)]
      BY <1>3, <1>5, ConcatProperties, LenProperties
    <2>2. ToSet(logChan') = ToSet(logChan) \cup ToSet(ls)
      BY <1>3, <1>5, ElementsOfConcat
    <2>3. ASSUME NEW i \in 1 .. Len(logChan'), NEW j \in 1 .. Len(logChan'), i < j,
                 logChan'[i] \in ToSet(chain')
          PROVE  Later(logChan'[j].at, logChan'[i].at)
      <3>1. CASE j <= Len(logChan)
        BY <1>1, <1>3, <2>1, <2>3, <3>1 DEF Travelling, SentInOrder
      <3>2. CASE i <= Len(logChan) /\ j > Len(logChan)
        <4>1. j - Len(logChan) \in 1 .. Len(ls)
          BY <2>1, <3>2
        <4>2. logChan'[i] \in ToSet(logChan) /\ logChan'[j] \in ToSet(ls)
          BY <1>3, <2>1, <3>2, <4>1, ElementsOf
        <4> QED
          BY <2>3, <4>2 DEF Travelling
      <3>3. CASE i > Len(logChan)
        <4>1. i - Len(logChan) \in 1 .. Len(ls) /\ j - Len(logChan) \in 1 .. Len(ls)
          BY <2>1, <2>3, <3>3
        <4>2. /\ logChan'[i] = ls[i - Len(logChan)] /\ logChan'[j] = ls[j - Len(logChan)]
              /\ i - Len(logChan) < j - Len(logChan)
          BY <2>1, <2>3, <3>3
        <4> QED
          BY <2>3, <4>1, <4>2
      <3> QED
        BY <2>1, <3>1, <3>2, <3>3
    <2>4. ASSUME NEW l \in ToSet(logs) \cap ToSet(chain'), NEW m \in ToSet(logChan')
          PROVE  Later(m.at, l.at)
      <3>1. l \in Travelling /\ l \in ToSet(chain)
        BY DEF Travelling
      <3> QED
        BY <2>2, <3>1 DEF SentInOrder
    <2> QED
      BY <1>2, <2>3, <2>4 DEF SentInOrder, InOrder
  <1> QED
    BY <1>4, <1>5 DEF Send

(* The logs of a block that is not in the chain yet are nowhere.           *)
LEMMA BlockIsNew ==
  ASSUME TypeOK, ChainInOrder, FromChain,
         NEW tx \in Transaction, NEW b \in 1 .. MaxBlock, NEW f \in Fork,
         f > fork \/ (f = fork /\ b > Height)
  PROVE  /\ ToSet(Block(tx, b, f)) \cap (Mined \cup Everywhere) = {}
         /\ \A l \in ToSet(Block(tx, b, f)) : l.at.block = b /\ l.fork = f /\ ~l.removed
         /\ \A i, j \in 1 .. Len(Block(tx, b, f)) :
              i < j => /\ Later(Block(tx, b, f)[j].at, Block(tx, b, f)[i].at)
                       /\ Block(tx, b, f)[i] # Block(tx, b, f)[j]
  <1> DEFINE new == Block(tx, b, f)
  <1>1. /\ new \in Seq(Log) /\ Len(new) = Len(tx) /\ Len(tx) \in Nat
        /\ \A i \in 1 .. Len(tx) :
             new[i].at = [block |-> b, tx |-> 0, log |-> i] /\ new[i].fork = f /\ ~new[i].removed
    BY BlockType
  <1> HIDE DEF new
  <1>2. ASSUME NEW l \in ToSet(new) PROVE l.at.block = b /\ l.fork = f /\ ~l.removed
    <2>1. PICK i \in 1 .. Len(new) : l = new[i]
      BY <1>1, <1>2, ElementsOf
    <2>2. l.at = [block |-> b, tx |-> 0, log |-> i] /\ l.fork = f /\ ~l.removed
      BY <1>1, <2>1
    <2> QED
      BY <2>2
  <1>3. fork \in Int /\ f \in Int /\ b \in Int
    BY DEF TypeOK, Fork
  <1>4. ASSUME NEW l \in ToSet(new) PROVE l \notin Mined
    <2>1. l \notin orphans
      BY <1>2, <1>3, <1>4 DEF ChainInOrder
    <2>2. ASSUME l \in ToSet(chain) PROVE FALSE
      <3>1. l.fork <= fork
        BY <2>2 DEF ChainInOrder
      <3>2. l.at.block <= Height
        <4>1. PICK i \in 1 .. Len(chain) : l = chain[i]
          BY <2>2, ElementsOf DEF TypeOK
        <4> QED
          BY <4>1, HeightType
      <3> QED
        BY <1>2, <1>3, <1>4, <3>1, <3>2, HeightType
    <2> QED
      BY <2>1, <2>2 DEF Mined
  <1>5. \A l \in ToSet(new) : l \notin Everywhere
    BY <1>2, <1>4 DEF FromChain, Everywhere
  <1>6. ASSUME NEW i \in 1 .. Len(new), NEW j \in 1 .. Len(new), i < j
        PROVE  Later(new[j].at, new[i].at) /\ new[i] # new[j]
    <2>1. /\ new[i].at = [block |-> b, tx |-> 0, log |-> i]
          /\ new[j].at = [block |-> b, tx |-> 0, log |-> j]
      BY <1>1
    <2> QED
      BY <1>6, <2>1 DEF Later
  <1> QED
    BY <1>2, <1>4, <1>5, <1>6 DEF new

LEMMA MinePlaces ==
  ASSUME TypeOK, Places, NEW tx \in Transaction, Mine(tx)
  PROVE  Places' /\ Mined \subseteq Mined' /\ ToSet(chain') \cap Everywhere \subseteq ToSet(chain)
  <1> DEFINE new == Block(tx, Height + 1, fork)
  <1>1. Height \in 0 .. MaxBlock /\ Height + 1 \in 1 .. MaxBlock /\ fork \in Fork
    BY HeightType, BoundAssumption DEF Mine, Places, TypeOK
  <1>2. /\ new \in Seq(Log)
        /\ ToSet(new) \cap (Mined \cup Everywhere) = {}
        /\ \A l \in ToSet(new) : l.at.block = Height + 1 /\ l.fork = fork /\ ~l.removed
        /\ \A i, j \in 1 .. Len(new) : i < j => Later(new[j].at, new[i].at) /\ new[i] # new[j]
    BY <1>1, BlockType, BlockIsNew DEF Places
  <1>3. /\ chain' = chain \o new /\ Send(new)
        /\ UNCHANGED <<orphans, fork, logs, pc, batch, pairs, toLoad, seen, done>>
    BY DEF Mine, work
  <1> HIDE DEF new
  <1>4. chain \in Seq(Log) /\ ToSet(chain') = ToSet(chain) \cup ToSet(new)
    BY <1>2, <1>3, ElementsOfConcat DEF TypeOK
  <1>5. HandledOnce' /\ SentOnce' /\ Everywhere' = Everywhere \cup ToSet(new)
    BY <1>2, <1>3, SendStep DEF Places
  <1>6. ChainInOrder'
    <2>1. /\ Len(chain') = Len(chain) + Len(new) /\ Len(chain) \in Nat /\ Len(new) \in Nat
          /\ \A k \in 1 .. Len(chain) + Len(new) :
               chain'[k] = IF k <= Len(chain) THEN chain[k] ELSE new[k - Len(chain)]
      BY <1>2, <1>3, <1>4, ConcatProperties, LenProperties
    <2>2. ASSUME NEW i \in 1 .. Len(chain'), NEW j \in 1 .. Len(chain'), i < j
          PROVE  Later(chain'[j].at, chain'[i].at)
      <3>1. CASE j <= Len(chain)
        BY <2>1, <2>2, <3>1 DEF Places, ChainInOrder
      <3>2. CASE i <= Len(chain) /\ j > Len(chain)
        <4>1. j - Len(chain) \in 1 .. Len(new)
          BY <2>1, <3>2
        <4>2. chain'[i] = chain[i] /\ chain[i].at.block <= Height /\ chain[i] \in Log
          BY <2>1, <3>2, HeightType DEF Places
        <4>3. chain'[j] \in ToSet(new)
          BY <1>2, <2>1, <3>2, <4>1, ElementsOf
        <4>4. chain[i].at.block \in Nat
          BY <4>2, PositionAssumption DEF Log
        <4> QED
          BY <1>1, <1>2, <4>2, <4>3, <4>4 DEF Later
      <3>3. CASE i > Len(chain)
        <4>1. /\ i - Len(chain) \in 1 .. Len(new) /\ j - Len(chain) \in 1 .. Len(new)
              /\ chain'[i] = new[i - Len(chain)] /\ chain'[j] = new[j - Len(chain)]
              /\ i - Len(chain) < j - Len(chain)
          BY <2>1, <2>2, <3>3
        <4> QED
          BY <1>2, <4>1
      <3> QED
        BY <2>1, <3>1, <3>2, <3>3
    <2>3. fork \in Int
      BY <1>1 DEF Fork
    <2>4. \A l \in ToSet(chain') : l.at.block \in 1 .. MaxBlock /\ l.fork <= fork' /\ ~l.removed
      BY <1>1, <1>2, <1>3, <1>4, <2>3 DEF Places, ChainInOrder
    <2>5. ToSet(chain') \cap orphans' = {}
      BY <1>2, <1>3, <1>4 DEF Places, ChainInOrder, Mined
    <2> QED
      BY <1>3, <2>2, <2>4, <2>5 DEF ChainInOrder, Places
  <1>7. FromChain'
    <2>1. Mined' = Mined \cup ToSet(new)
      BY <1>3, <1>4 DEF Mined
    <2>2. \A l \in Everywhere' : IF l.removed THEN Original(l) \in orphans' ELSE l \in Mined'
      BY <1>2, <1>3, <1>5, <2>1 DEF Places, FromChain, Everywhere
    <2> QED
      BY <2>2 DEF FromChain, Everywhere
  <1>8. SentInOrder'
    <2>1. ToSet(chain') \cap (Travelling \cup Handled) \subseteq ToSet(chain)
      BY <1>2, <1>4 DEF Everywhere
    <2>2. ASSUME NEW l \in ToSet(chain') \cap Travelling, NEW m \in ToSet(new)
          PROVE  Later(m.at, l.at)
      <3>1. PICK i \in 1 .. Len(chain) : l = chain[i]
        BY <1>4, <2>1, ElementsOf
      <3>2. l.at.block <= Height /\ l.at.block \in Nat
        BY <3>1, HeightType, PositionAssumption DEF Places, Log
      <3> QED
        BY <1>1, <1>2, <3>2 DEF Later
    <2> QED
      BY <1>2, <1>3, <2>1, <2>2, SendOrder DEF Places
  <1>9. Mined \subseteq Mined' /\ ToSet(chain') \cap Everywhere \subseteq ToSet(chain)
    BY <1>2, <1>3, <1>4 DEF Mined
  <1> QED
    BY <1>5, <1>6, <1>7, <1>8, <1>9 DEF Places

LEMMA ReplacePlaces ==
  ASSUME TypeOK, Places, NEW tx \in Transaction, NEW n \in 0 .. Len(chain), Replace(tx, n)
  PROVE  Places' /\ Mined \subseteq Mined' /\ ToSet(chain') \cap Everywhere \subseteq ToSet(chain)
  <1> DEFINE kept == SubSeq(chain, 1, n)
             old  == SubSeq(chain, n + 1, Len(chain))
             gone == [i \in DOMAIN old |-> [old[i] EXCEPT !.removed = TRUE]]
             new  == Block(tx, Height, fork + 1)
  <1>1. /\ Len(chain) \in Nat /\ Height \in 1 .. MaxBlock /\ fork \in Nat /\ fork + 1 \in Fork
        /\ \A i \in 1 .. Len(chain) : chain[i].at.block <= Height /\ chain[i] \in Log
        /\ chain \in Seq(Log)
    BY HeightType, BoundAssumption DEF Replace, Places, TypeOK, Fork
  <1>2. /\ chain' = kept \o new /\ Send(gone \o new) /\ fork' = fork + 1
        /\ orphans' = orphans \cup ToSet(old)
        /\ UNCHANGED <<logs, pc, batch, pairs, toLoad, seen, done>>
        /\ \A i \in 1 .. Len(chain) : i > n <=> chain[i].at.block = Height
    BY DEF Replace, work
  <1>3. /\ new \in Seq(Log) /\ Len(new) \in Nat
        /\ ToSet(new) \cap (Mined \cup Everywhere) = {}
        /\ \A l \in ToSet(new) : l.at.block = Height /\ l.fork = fork + 1 /\ ~l.removed
        /\ \A i, j \in 1 .. Len(new) : i < j => Later(new[j].at, new[i].at) /\ new[i] # new[j]
    <2>1. new \in Seq(Log) /\ Len(new) \in Nat
      BY <1>1, BlockType
    <2>2. fork + 1 > fork
      BY <1>1
    <2> QED
      BY <1>1, <2>1, <2>2, BlockIsNew DEF Places
  <1>4. /\ kept \in Seq(Log) /\ Len(kept) = n /\ n \in Nat
        /\ \A i \in 1 .. n : kept[i] = chain[i]
        /\ old \in Seq(Log) /\ Len(old) = Len(chain) - n
        /\ \A i \in 1 .. Len(chain) - n : old[i] = chain[n + i] /\ n + i \in 1 .. Len(chain)
    <2>1. /\ kept \in Seq(Log) /\ Len(kept) = n /\ \A i \in 1 .. n : kept[i] = chain[i]
          /\ old \in Seq(Log) /\ Len(old) = Len(chain) - n
          /\ \A i \in 1 .. Len(chain) - n : old[i] = chain[n + i]
      BY <1>1, Parts
    <2> HIDE DEF kept, old
    <2>2. n \in Nat /\ \A i \in 1 .. Len(chain) - n : n + i \in 1 .. Len(chain)
      BY <1>1
    <2> QED
      BY <2>1, <2>2
  <1> HIDE DEF new, kept, old
  <1>5. \A i \in 1 .. Len(old) :
          /\ old[i] \in Log /\ old[i] \in ToSet(chain) /\ ~old[i].removed
          /\ old[i].at.block = Height
    <2> SUFFICES ASSUME NEW i \in 1 .. Len(old)
                 PROVE  /\ old[i] \in Log /\ old[i] \in ToSet(chain) /\ ~old[i].removed
                        /\ old[i].at.block = Height
      OBVIOUS
    <2>1. i \in 1 .. Len(chain) - n
      BY <1>1, <1>4
    <2>2. old[i] = chain[n + i] /\ n + i \in 1 .. Len(chain) /\ n + i > n
      BY <1>1, <1>4, <2>1
    <2>3. chain[n + i] \in ToSet(chain) /\ chain[n + i] \in Log
      BY <1>1, <2>2, ElementsOf
    <2> QED
      BY <1>2, <2>2, <2>3 DEF Places, ChainInOrder
  <1>6. /\ gone \in Seq(Log) /\ Len(gone) = Len(old) /\ Len(old) \in Nat
        /\ \A i \in 1 .. Len(old) :
             /\ gone[i].removed /\ gone[i].at = old[i].at /\ Original(gone[i]) = old[i]
    <2>1. Len(old) \in Nat /\ DOMAIN old = 1 .. Len(old)
      BY <1>4, LenProperties
    <2>2. \A i \in 1 .. Len(old) : [old[i] EXCEPT !.removed = TRUE] \in Log
      BY <1>5 DEF Log
    <2>3. gone \in Seq(Log)
      BY <2>1, <2>2, IsASeq
    <2>4. \A i \in 1 .. Len(old) : gone[i] = [old[i] EXCEPT !.removed = TRUE]
      BY <2>1
    <2>5. ASSUME NEW l \in Log, ~l.removed
          PROVE  LET g == [l EXCEPT !.removed = TRUE]
                 IN  g.removed /\ g.at = l.at /\ Original(g) = l
      BY <2>5 DEF Log, Original
    <2>6. Len(gone) = Len(old)
      BY <2>1, <2>3
    <2> HIDE DEF gone
    <2> QED
      BY <1>5, <2>1, <2>3, <2>4, <2>5, <2>6
  <1> HIDE DEF gone
  <1>7. /\ \A l \in ToSet(old) : l \in ToSet(chain) /\ l.at.block = Height /\ ~l.removed /\ l \in Log
        /\ \A g \in ToSet(gone) : g.removed /\ Original(g) \in ToSet(old) /\ g.at.block = Height
    <2>1. \A x : x \in ToSet(old) <=> \E i \in 1 .. Len(old) : x = old[i]
      BY <1>4, ElementsOf
    <2>2. \A x : x \in ToSet(gone) <=> \E i \in 1 .. Len(gone) : x = gone[i]
      BY <1>6, ElementsOf
    <2> QED
      BY <1>5, <1>6, <2>1, <2>2
  <1>8. \A l \in ToSet(kept) : l \in ToSet(chain) /\ l.at.block < Height /\ l \notin ToSet(old)
    <2> SUFFICES ASSUME NEW l \in ToSet(kept)
                 PROVE  l \in ToSet(chain) /\ l.at.block < Height
      BY <1>1, <1>7
    <2>1. PICK i \in 1 .. Len(kept) : l = kept[i]
      BY <1>4, ElementsOf
    <2>2. i \in 1 .. Len(chain) /\ l = chain[i] /\ ~(i > n)
      BY <1>1, <1>4, <2>1
    <2>3. l \in ToSet(chain) /\ l.at.block # Height /\ l.at.block <= Height /\ l \in Log
      BY <1>1, <1>2, <2>2, ElementsOf
    <2>4. l.at.block \in Nat
      BY <2>3, PositionAssumption DEF Log
    <2> QED
      BY <1>1, <2>3, <2>4
  <1>9. \A l \in ToSet(chain) : l \in ToSet(kept) \cup ToSet(old)
    <2> SUFFICES ASSUME NEW l \in ToSet(chain) PROVE l \in ToSet(kept) \cup ToSet(old)
      OBVIOUS
    <2>1. PICK i \in 1 .. Len(chain) : l = chain[i]
      BY <1>1, ElementsOf
    <2>2. CASE i <= n
      BY <1>1, <1>4, <2>1, <2>2, ElementsOf
    <2>3. CASE i > n
      <3>1. i - n \in 1 .. Len(old) /\ l = old[i - n]
        BY <1>1, <1>4, <2>1, <2>3
      <3> QED
        BY <1>4, <3>1, ElementsOf
    <2> QED
      BY <1>1, <1>4, <2>2, <2>3
  <1>10. /\ Mined' = Mined \cup ToSet(new)
         /\ ToSet(chain') = ToSet(kept) \cup ToSet(new)
    <2>1. ToSet(chain') = ToSet(kept) \cup ToSet(new)
      BY <1>2, <1>3, <1>4, ElementsOfConcat
    <2> QED
      BY <1>2, <1>7, <1>8, <1>9, <2>1 DEF Mined
  <1>11. /\ gone \o new \in Seq(Log)
         /\ ToSet(gone \o new) = ToSet(gone) \cup ToSet(new)
         /\ Len(gone \o new) = Len(gone) + Len(new)
         /\ \A k \in 1 .. Len(gone) + Len(new) :
              (gone \o new)[k] = IF k <= Len(gone) THEN gone[k] ELSE new[k - Len(gone)]
    BY <1>3, <1>6, Concat
  <1>12. \A g \in ToSet(gone) : g \notin Everywhere
    <2> SUFFICES ASSUME NEW g \in ToSet(gone), g \in Everywhere PROVE FALSE
      OBVIOUS
    <2>1. Original(g) \in orphans
      BY <1>7 DEF Places, FromChain, Everywhere
    <2>2. Original(g) \in ToSet(chain)
      BY <1>7
    <2> QED
      BY <2>1, <2>2 DEF Places, ChainInOrder
  <1>13. \A i, j \in 1 .. Len(gone) : i < j => gone[i] # gone[j]
    <2> SUFFICES ASSUME NEW i \in 1 .. Len(old), NEW j \in 1 .. Len(old), i < j
                 PROVE  gone[i] # gone[j]
      BY <1>6
    <2>1. /\ gone[i].at = chain[n + i].at /\ gone[j].at = chain[n + j].at
          /\ n + i \in 1 .. Len(chain) /\ n + j \in 1 .. Len(chain) /\ n + i < n + j
      BY <1>1, <1>4, <1>6
    <2>2. Later(chain[n + j].at, chain[n + i].at) /\ chain[n + i].at \in Position
      BY <1>1, <2>1 DEF Places, ChainInOrder, Log
    <2> QED
      BY <2>1, <2>2, LaterOrder
  <1>14. \A i, j \in 1 .. Len(gone \o new) : i < j => (gone \o new)[i] # (gone \o new)[j]
    <2> SUFFICES ASSUME NEW i \in 1 .. Len(gone) + Len(new), NEW j \in 1 .. Len(gone) + Len(new),
                        i < j
                 PROVE  (gone \o new)[i] # (gone \o new)[j]
      BY <1>11
    <2>1. CASE j <= Len(gone)
      BY <1>6, <1>11, <1>13, <2>1
    <2>2. CASE i <= Len(gone) /\ j > Len(gone)
      <3>1. i \in 1 .. Len(gone) /\ j - Len(gone) \in 1 .. Len(new)
        BY <1>3, <1>6, <2>2
      <3>2. (gone \o new)[i] = gone[i] /\ (gone \o new)[j] = new[j - Len(gone)]
        BY <1>3, <1>6, <1>11, <2>2
      <3>3. new[j - Len(gone)] \in ToSet(new)
        BY <1>3, <3>1, ElementsOf
      <3>4. gone[i].removed
        BY <1>6, <3>1
      <3> QED
        BY <1>3, <3>2, <3>3, <3>4
    <2>3. CASE i > Len(gone)
      <3>1. /\ i - Len(gone) \in 1 .. Len(new) /\ j - Len(gone) \in 1 .. Len(new)
            /\ i - Len(gone) < j - Len(gone)
        BY <1>3, <1>6, <2>3
      <3>2. (gone \o new)[i] = new[i - Len(gone)] /\ (gone \o new)[j] = new[j - Len(gone)]
        BY <1>3, <1>6, <1>11, <2>3
      <3> QED
        BY <1>3, <3>1, <3>2
    <2> QED
      BY <1>6, <2>1, <2>2, <2>3
  <1>15. HandledOnce' /\ SentOnce' /\ Everywhere' = Everywhere \cup ToSet(gone) \cup ToSet(new)
    <2>1. ToSet(gone \o new) \cap Everywhere = {}
      BY <1>3, <1>11, <1>12
    <2> HIDE DEF Everywhere
    <2>2. HandledOnce' /\ SentOnce' /\ Everywhere' = Everywhere \cup ToSet(gone \o new)
      BY <1>2, <1>11, <1>14, <2>1, SendStep DEF Places
    <2> QED
      BY <1>11, <2>2
  <1>16. ChainInOrder'
    <2>1. /\ Len(chain') = n + Len(new)
          /\ \A k \in 1 .. n + Len(new) :
               chain'[k] = IF k <= n THEN chain[k] ELSE new[k - n]
      <3>1. /\ Len(chain') = Len(kept) + Len(new)
            /\ \A k \in 1 .. Len(kept) + Len(new) :
                 chain'[k] = IF k <= Len(kept) THEN kept[k] ELSE new[k - Len(kept)]
        BY <1>2, <1>3, <1>4, Concat
      <3>2. \A k \in 1 .. n + Len(new) : k <= n => k \in 1 .. n
        BY <1>4
      <3> QED
        BY <1>4, <3>1, <3>2
    <2>2. ASSUME NEW i \in 1 .. Len(chain'), NEW j \in 1 .. Len(chain'), i < j
          PROVE  Later(chain'[j].at, chain'[i].at)
      <3>1. CASE j <= n
        <4>1. chain'[i] = chain[i] /\ chain'[j] = chain[j] /\ i \in 1 .. Len(chain)
              /\ j \in 1 .. Len(chain)
          BY <1>1, <1>3, <1>4, <2>1, <2>2, <3>1
        <4> QED
          BY <2>2, <4>1 DEF Places, ChainInOrder
      <3>2. CASE i <= n /\ j > n
        <4>1. j - n \in 1 .. Len(new) /\ i \in 1 .. n
          BY <1>3, <1>4, <2>1, <3>2
        <4>2. chain'[i] \in ToSet(kept) /\ chain'[i] \in Log
          <5>1. chain'[i] = kept[i] /\ i \in 1 .. Len(kept)
            BY <1>3, <1>4, <2>1, <3>2, <4>1
          <5> QED
            BY <1>4, <5>1, ElementsOf
        <4>3. chain'[j] \in ToSet(new)
          BY <1>3, <1>4, <2>1, <3>2, <4>1, ElementsOf
        <4>4. chain'[i].at.block \in Nat
          BY <4>2, PositionAssumption DEF Log
        <4> QED
          BY <1>1, <1>3, <1>8, <4>2, <4>3, <4>4 DEF Later
      <3>3. CASE i > n
        <4>1. /\ i - n \in 1 .. Len(new) /\ j - n \in 1 .. Len(new)
              /\ chain'[i] = new[i - n] /\ chain'[j] = new[j - n] /\ i - n < j - n
          BY <1>3, <1>4, <2>1, <2>2, <3>3
        <4> QED
          BY <1>3, <4>1
      <3> QED
        BY <1>3, <1>4, <2>1, <3>1, <3>2, <3>3
    <2>3. \A l \in ToSet(chain') : l.at.block \in 1 .. MaxBlock /\ l.fork <= fork' /\ ~l.removed
      <3>1. ASSUME NEW l \in ToSet(kept) PROVE l.fork <= fork'
        <4>1. l \in Log /\ l.fork <= fork
          BY <1>1, <1>8, ElementsOf DEF Places, ChainInOrder
        <4> QED
          BY <1>1, <1>2, <4>1, BoundAssumption DEF Log, Fork
      <3> QED
        BY <1>1, <1>2, <1>3, <1>8, <1>10, <3>1 DEF Places, ChainInOrder
    <2>4. \A l \in orphans' : l.fork < fork' /\ ~l.removed
      <3>1. ASSUME NEW l \in orphans PROVE l.fork < fork'
        <4>1. l \in Log /\ l.fork < fork
          BY DEF Places, ChainInOrder, TypeOK
        <4> QED
          BY <1>1, <1>2, <4>1, BoundAssumption DEF Log, Fork
      <3>2. ASSUME NEW l \in ToSet(old) PROVE l.fork < fork'
        <4>1. l \in Log /\ l.fork <= fork
          BY <1>7 DEF Places, ChainInOrder
        <4> QED
          BY <1>1, <1>2, <4>1, BoundAssumption DEF Log, Fork
      <3> QED
        BY <1>2, <1>7, <3>1, <3>2 DEF Places, ChainInOrder
    <2>5. ToSet(chain') \cap orphans' = {}
      BY <1>2, <1>3, <1>7, <1>8, <1>10 DEF Places, ChainInOrder, Mined
    <2> QED
      BY <2>2, <2>3, <2>4, <2>5 DEF ChainInOrder
  <1>17. FromChain'
    <2>1. \A l \in Everywhere' : IF l.removed THEN Original(l) \in orphans' ELSE l \in Mined'
      <3>1. \A l \in Everywhere : IF l.removed THEN Original(l) \in orphans' ELSE l \in Mined'
        BY <1>2, <1>10 DEF Places, FromChain, Everywhere
      <3>2. \A l \in ToSet(gone) : l.removed /\ Original(l) \in orphans'
        BY <1>2, <1>7
      <3>3. \A l \in ToSet(new) : ~l.removed /\ l \in Mined'
        BY <1>3, <1>10
      <3> QED
        BY <1>15, <3>1, <3>2, <3>3
    <2> QED
      BY <2>1 DEF FromChain, Everywhere
  <1>18. SentInOrder'
    <2>1. ToSet(chain') \cap (Travelling \cup Handled) \subseteq ToSet(kept)
      BY <1>3, <1>10 DEF Everywhere
    <2>2. ASSUME NEW l \in ToSet(chain') \cap Travelling, NEW m \in ToSet(gone \o new)
          PROVE  Later(m.at, l.at)
      <3>1. l \in ToSet(kept) /\ l \in Log
        BY <1>4, <2>1, ElementsOf
      <3>2. l.at.block < Height /\ l.at.block \in Nat /\ m.at.block = Height
        BY <1>3, <1>7, <1>8, <1>11, <3>1, PositionAssumption DEF Log
      <3> QED
        BY <1>1, <3>2 DEF Later
    <2>3. ASSUME NEW i \in 1 .. Len(gone \o new), NEW j \in 1 .. Len(gone \o new), i < j,
                 (gone \o new)[i] \in ToSet(chain')
          PROVE  Later((gone \o new)[j].at, (gone \o new)[i].at)
      <3>1. ~(gone \o new)[i].removed
        BY <1>16, <2>3 DEF ChainInOrder
      <3>2. i > Len(gone)
        BY <1>3, <1>6, <1>11, <3>1
      <3>3. /\ i - Len(gone) \in 1 .. Len(new) /\ j - Len(gone) \in 1 .. Len(new)
            /\ i - Len(gone) < j - Len(gone)
        BY <1>3, <1>6, <1>11, <2>3, <3>2
      <3>4. (gone \o new)[i] = new[i - Len(gone)] /\ (gone \o new)[j] = new[j - Len(gone)]
        BY <1>3, <1>6, <1>11, <2>3, <3>2
      <3> QED
        BY <1>3, <3>3, <3>4
    <2>4. ToSet(chain') \cap (Travelling \cup Handled) \subseteq ToSet(chain)
      BY <1>8, <2>1
    <2> QED
      BY <1>2, <1>11, <2>2, <2>3, <2>4, SendOrder DEF Places
  <1>19. Mined \subseteq Mined' /\ ToSet(chain') \cap Everywhere \subseteq ToSet(chain)
    BY <1>3, <1>8, <1>10
  <1> QED
    BY <1>15, <1>16, <1>17, <1>18, <1>19 DEF Places

(* What nothing but a new block changes.                                   *)
LEMMA ChainKept ==
  ASSUME Places, UNCHANGED blocks, Everywhere' \subseteq Everywhere
  PROVE  ChainInOrder' /\ FromChain' /\ ToSet(chain') = ToSet(chain)
  <1>1. chain' = chain /\ orphans' = orphans /\ fork' = fork
    BY DEF blocks
  <1>2. ChainInOrder' /\ Mined' = Mined
    BY <1>1 DEF Places, ChainInOrder, Mined
  <1>3. FromChain'
    BY <1>1, <1>2 DEF Places, FromChain, Everywhere
  <1> QED
    BY <1>1, <1>2, <1>3

LEMMA ForwardPlaces ==
  ASSUME TypeOK, Places, Forward
  PROVE  Places'
  <1>1. /\ logChan \in Seq(Log) /\ logs \in Seq(Log) /\ logChan # <<>>
        /\ logs' = Append(logs, Head(logChan)) /\ logChan' = Tail(logChan)
        /\ UNCHANGED blocks /\ UNCHANGED <<batch, lost, done>>
    BY DEF Forward, TypeOK, work, history
  <1>2. /\ Head(logChan) = logChan[1] /\ Head(logChan) \in Log /\ Tail(logChan) \in Seq(Log)
        /\ ToSet(logChan) = {Head(logChan)} \cup ToSet(Tail(logChan))
    BY <1>1, ElementsOfHeadTail
  <1>3. ToSet(logs') = ToSet(logs) \cup {Head(logChan)}
    BY <1>1, <1>2, ElementsOfAppend
  <1>4. /\ Len(logChan) \in Nat \ {0} /\ Len(logChan') = Len(logChan) - 1
        /\ \A i \in 1 .. Len(logChan) - 1 : logChan'[i] = logChan[i + 1]
    BY <1>1, HeadTailProperties, EmptySeq
  <1>5. \A x : x \in ToSet(logChan') <=> \E i \in 1 .. Len(logChan') : x = logChan'[i]
    <2>1. logChan' \in Seq(Log)
      BY <1>1, <1>2
    <2> QED
      BY <2>1, ElementsOf
  <1>6. Head(logChan) \notin ToSet(logChan')
    <2> SUFFICES ASSUME NEW i \in 1 .. Len(logChan') PROVE logChan'[i] # logChan[1]
      BY <1>2, <1>5
    <2>1. i + 1 \in 1 .. Len(logChan) /\ 1 \in 1 .. Len(logChan) /\ 1 < i + 1
          /\ logChan'[i] = logChan[i + 1]
      BY <1>4
    <2> QED
      BY <2>1 DEF Places, SentOnce
  <1>7. Travelling' = Travelling /\ Handled' = Handled /\ Everywhere' = Everywhere
    BY <1>1, <1>2, <1>3 DEF Travelling, Handled, Everywhere
  <1>8. HandledOnce'
    <2>1. ToSet(logChan') \cap ToSet(logs') = {}
      BY <1>1, <1>2, <1>3, <1>6 DEF Places, HandledOnce
    <2> QED
      BY <1>1, <1>7, <2>1 DEF Places, HandledOnce
  <1>9. SentOnce'
    <2> SUFFICES ASSUME NEW i \in 1 .. Len(logChan'), NEW j \in 1 .. Len(logChan'), i < j
                 PROVE  logChan'[i] # logChan'[j]
      BY DEF SentOnce
    <2>1. /\ i + 1 \in 1 .. Len(logChan) /\ j + 1 \in 1 .. Len(logChan) /\ i + 1 < j + 1
          /\ logChan'[i] = logChan[i + 1] /\ logChan'[j] = logChan[j + 1]
      BY <1>4
    <2> QED
      BY <2>1 DEF Places, SentOnce
  <1>10. SentInOrder'
    <2>1. ToSet(chain') = ToSet(chain)
      BY <1>1 DEF blocks
    <2>2. InOrder(logChan)'
      <3> SUFFICES ASSUME NEW i \in 1 .. Len(logChan'), NEW j \in 1 .. Len(logChan'), i < j,
                          logChan'[i] \in ToSet(chain)
                   PROVE  Later(logChan'[j].at, logChan'[i].at)
        BY <2>1 DEF InOrder
      <3>1. /\ i + 1 \in 1 .. Len(logChan) /\ j + 1 \in 1 .. Len(logChan) /\ i + 1 < j + 1
            /\ logChan'[i] = logChan[i + 1] /\ logChan'[j] = logChan[j + 1]
        BY <1>4
      <3> QED
        BY <3>1 DEF Places, SentInOrder, InOrder
    <2>3. InOrder(logs)'
      <3> SUFFICES ASSUME NEW i \in 1 .. Len(logs'), NEW j \in 1 .. Len(logs'), i < j,
                          logs'[i] \in ToSet(chain)
                   PROVE  Later(logs'[j].at, logs'[i].at)
        BY <2>1 DEF InOrder
      <3>1. /\ Len(logs) \in Nat /\ Len(logs') = Len(logs) + 1
            /\ \A k \in 1 .. Len(logs) : logs'[k] = logs[k]
            /\ logs'[Len(logs) + 1] = Head(logChan)
        BY <1>1, <1>2, AppendProperties, LenProperties
      <3>2. i \in 1 .. Len(logs) /\ logs'[i] = logs[i] /\ logs[i] \in ToSet(logs)
        BY <1>1, <3>1, ElementsOf
      <3>3. CASE j <= Len(logs)
        <4>1. j \in 1 .. Len(logs) /\ logs'[j] = logs[j]
          BY <3>1, <3>3
        <4> QED
          BY <3>2, <4>1 DEF Places, SentInOrder, InOrder
      <3>4. CASE j = Len(logs) + 1
        BY <1>2, <3>1, <3>2, <3>4 DEF Places, SentInOrder
      <3> QED
        BY <3>1, <3>3, <3>4
    <2>4. ASSUME NEW l \in ToSet(logs') \cap ToSet(chain'), NEW m \in ToSet(logChan')
          PROVE  Later(m.at, l.at)
      <3>1. CASE l \in ToSet(logs)
        BY <1>1, <1>2, <2>1, <3>1 DEF Places, SentInOrder
      <3>2. CASE l = Head(logChan)
        <4>1. PICK i \in 1 .. Len(logChan') : m = logChan'[i]
          BY <1>5
        <4>2. i + 1 \in 1 .. Len(logChan) /\ 1 \in 1 .. Len(logChan) /\ 1 < i + 1
              /\ m = logChan[i + 1]
          BY <1>4, <4>1
        <4> QED
          BY <1>2, <2>1, <3>2, <4>2 DEF Places, SentInOrder, InOrder
      <3> QED
        BY <1>3, <3>1, <3>2
    <2>5. \A h \in Handler : InOrder(batch[h])'
      BY <1>1, <2>1 DEF Places, SentInOrder, InOrder
    <2> QED
      BY <2>2, <2>3, <2>4, <2>5 DEF SentInOrder
  <1> QED
    BY <1>1, <1>7, <1>8, <1>9, <1>10, ChainKept DEF Places

LEMMA SubscribeErrorPlaces ==
  ASSUME TypeOK, Places, SubscribeError
  PROVE  Places'
  <1>1. /\ logChan' = <<>> /\ logs' = <<>> /\ lost' = lost \cup Travelling
        /\ UNCHANGED blocks /\ UNCHANGED <<batch, done>>
    BY DEF SubscribeError, work, Travelling
  <1>2. Travelling' = {} /\ Handled' = Handled /\ Everywhere' = Everywhere
    BY <1>1, NoElements DEF Travelling, Handled, Everywhere
  <1>3. ToSet(chain') = ToSet(chain) /\ ChainInOrder' /\ FromChain'
    BY <1>1, <1>2, ChainKept
  <1>4. HandledOnce'
    BY <1>1, <1>2, NoElements DEF Places, HandledOnce
  <1>5. SentOnce' /\ SentInOrder'
    <2>1. ToSet(logs') = {} /\ Len(logs') = 0 /\ Len(logChan') = 0
      BY <1>1, NoElements, EmptySeq
    <2> QED
      BY <1>1, <1>3, <2>1 DEF Places, SentOnce, SentInOrder, InOrder
  <1> QED
    BY <1>3, <1>4, <1>5 DEF Places

LEMMA TakePlaces ==
  ASSUME TypeOK, Places, NEW h \in Handler, Take(h)
  PROVE  Places'
  <1>1. /\ batch' = [batch EXCEPT ![h] = logs] /\ logs' = <<>>
        /\ UNCHANGED blocks /\ UNCHANGED <<logChan, lost, done>>
    BY DEF Take, source, history
  <1>2. \A g \in Handler : batch'[g] = IF g = h THEN logs ELSE batch[g]
    BY <1>1 DEF TypeOK
  <1>3. ToSet(logs') = {} /\ Len(logs') = 0
    BY <1>1, NoElements, EmptySeq
  <1>4. Travelling' = ToSet(logChan) /\ Handled' \subseteq Handled \cup ToSet(logs)
    BY <1>1, <1>2, <1>3 DEF Travelling, Handled
  <1>5. Everywhere' \subseteq Everywhere
    BY <1>1, <1>4 DEF Everywhere, Travelling
  <1>6. ToSet(chain') = ToSet(chain) /\ ChainInOrder' /\ FromChain'
    BY <1>1, <1>5, ChainKept
  <1>7. HandledOnce'
    <2>1. ToSet(logChan') \cap ToSet(logs') = {}
      BY <1>3
    <2>2. /\ Travelling' \cap Handled' = {}
          /\ (Travelling' \cup Handled') \cap (lost' \cup done') = {}
      BY <1>1, <1>4 DEF Places, HandledOnce, Travelling
    <2>3. \A f, g \in Handler : f # g => ToSet(batch'[f]) \cap ToSet(batch'[g]) = {}
      BY <1>2 DEF Places, HandledOnce, Travelling, Handled
    <2> QED
      BY <2>1, <2>2, <2>3 DEF HandledOnce
  <1>8. SentOnce' /\ SentInOrder'
    <2>1. SentOnce' /\ InOrder(logChan)' /\ InOrder(logs)'
      BY <1>1, <1>3, <1>6 DEF Places, SentOnce, SentInOrder, InOrder
    <2>2. \A g \in Handler : InOrder(batch[g])'
      BY <1>2, <1>6 DEF Places, SentInOrder, InOrder
    <2> QED
      BY <1>3, <2>1, <2>2 DEF SentInOrder
  <1> QED
    BY <1>6, <1>7, <1>8 DEF Places

(* A handler ends.                                                         *)
LEMMA ReturnPlaces ==
  ASSUME TypeOK, Places, NEW h \in Handler, Return(h),
         UNCHANGED blocks, UNCHANGED <<logChan, logs>>,
         lost' \cup done' = lost \cup done \cup ToSet(batch[h])
  PROVE  Places'
  <1>1. \A g \in Handler : batch'[g] = IF g = h THEN <<>> ELSE batch[g]
    BY DEF Return, TypeOK
  <1>2. Travelling' = Travelling /\ ToSet(batch'[h]) = {}
    BY <1>1, NoElements DEF Travelling
  <1>3. \A g \in Handler : ToSet(batch'[g]) \subseteq ToSet(batch[g])
    BY <1>1, <1>2
  <1>4. Handled' \subseteq Handled /\ Handled' \cap ToSet(batch[h]) = {}
    BY <1>1, <1>2, <1>3 DEF Handled, Places, HandledOnce
  <1>5. Everywhere' \subseteq Everywhere
    BY <1>2, <1>4 DEF Everywhere, Handled
  <1>6. ToSet(chain') = ToSet(chain) /\ ChainInOrder' /\ FromChain'
    BY <1>5, ChainKept
  <1>7. HandledOnce'
    <2>1. /\ ToSet(logChan') \cap ToSet(logs') = {} /\ Travelling' \cap Handled' = {}
          /\ (Travelling' \cup Handled') \cap (lost' \cup done') = {}
      BY <1>2, <1>4 DEF Places, HandledOnce, Handled
    <2>2. \A f, g \in Handler : f # g => ToSet(batch'[f]) \cap ToSet(batch'[g]) = {}
      BY <1>3 DEF Places, HandledOnce
    <2> QED
      BY <2>1, <2>2 DEF HandledOnce
  <1>8. SentOnce' /\ SentInOrder'
    <2>1. Len(batch'[h]) = 0
      BY <1>1, EmptySeq
    <2>2. \A g \in Handler : InOrder(batch[g])'
      BY <1>1, <1>6, <2>1 DEF Places, SentInOrder, InOrder
    <2> QED
      BY <1>6, <2>2 DEF Places, SentOnce, SentInOrder, InOrder
  <1> QED
    BY <1>6, <1>7, <1>8 DEF Places

(* Nothing is moved.                                                       *)
LEMMA OtherPlaces ==
  ASSUME Places, UNCHANGED blocks, UNCHANGED <<logChan, logs, batch, lost>>, done' \subseteq done
  PROVE  Places'
  <1>1. Travelling' = Travelling /\ Handled' = Handled /\ Everywhere' \subseteq Everywhere
    BY DEF Travelling, Handled, Everywhere
  <1>2. ToSet(chain') = ToSet(chain) /\ ChainInOrder' /\ FromChain'
    BY <1>1, ChainKept
  <1>3. HandledOnce'
    BY <1>1 DEF Places, HandledOnce
  <1>4. SentOnce' /\ SentInOrder'
    BY <1>2 DEF Places, SentOnce, SentInOrder, InOrder
  <1> QED
    BY <1>2, <1>3, <1>4 DEF Places

LEMMA PlacesStep ==
  ASSUME TypeOK, Inv, [Next]_vars
  PROVE  Places' /\ Mined \subseteq Mined' /\ ToSet(chain') \cap Everywhere \subseteq ToSet(chain)
  <1>1. Places
    BY DEF Inv
  <1>2. ASSUME UNCHANGED blocks
        PROVE  Mined \subseteq Mined' /\ ToSet(chain') \cap Everywhere \subseteq ToSet(chain)
    BY <1>2 DEF blocks, Mined
  <1>3. CASE \E tx \in Transaction : Mine(tx) \/ \E n \in 0 .. Len(chain) : Replace(tx, n)
    BY <1>1, <1>3, MinePlaces, ReplacePlaces
  <1>4. CASE Forward
    BY <1>1, <1>2, <1>4, ForwardPlaces DEF Forward
  <1>5. CASE SubscribeError
    BY <1>1, <1>2, <1>5, SubscribeErrorPlaces DEF SubscribeError
  <1>6. ASSUME NEW h \in Handler, Take(h)
        PROVE  Places' /\ UNCHANGED blocks
    BY <1>1, <1>6, TakePlaces DEF Take, source
  <1>7. ASSUME NEW h \in Handler, \/ FilterFails(h) \/ FilterNothing(h) \/ CallFails(h)
                               \/ FeesFail(h) \/ StoreAll(h)
        PROVE  Places' /\ UNCHANGED blocks
    <2>1. /\ Return(h) /\ UNCHANGED blocks /\ UNCHANGED <<logChan, logs>>
          /\ lost' \cup done' = lost \cup done \cup ToSet(batch[h])
      BY <1>7 DEF FilterFails, FilterNothing, CallFails, FeesFail, StoreAll, source
    <2> QED
      BY <1>1, <2>1, ReturnPlaces
  <1>8. CASE \/ Disconnect \/ Tick \/ Subscribe \/ UNCHANGED vars
             \/ \E h \in Handler : \/ Filter(h) \/ LoadDone(h) \/ CallAnswers(h)
                                   \/ \E p \in Pair : LoadPair(h, p)
             \/ \E p \in Pair : ExpirePair(p)
    <2>1. UNCHANGED blocks /\ UNCHANGED <<logChan, logs, batch, lost>> /\ done' \subseteq done
      BY <1>8 DEF Disconnect, Tick, Subscribe, vars, Filter, LoadDone, CallAnswers, LoadPair,
                  ExpirePair, source, work, history
    <2> QED
      BY <1>1, <1>2, <2>1, OtherPlaces
  <1> QED
    BY <1>2, <1>3, <1>4, <1>5, <1>6, <1>7, <1>8 DEF Next, Node, SubscribeFilter, Handle

-----------------------------------------------------------------------------
(***************************************************************************)
(* What a handler knows.                                                   *)
(***************************************************************************)
LEMMA KnownLike ==
  ASSUME NEW p, NEW a, NEW b, Known(p, a), b.tokens = a.tokens, b.error = a.error
  PROVE  Known(p, b)
  BY DEF Known

LEMMA OwnFeeKept ==
  ASSUME NEW p, NEW fee, OwnFee(p, fee), Mined \subseteq Mined'
  PROVE  OwnFee(p, fee)'
  <1> SUFFICES ASSUME fee # NoFee PROVE OwnFee(p, fee)'
    BY DEF OwnFee
  <1>1. PICK sync \in Mined, swap \in Mined :
          /\ sync.kind = "Sync" /\ swap.kind = "Swap" /\ sync.pair = p /\ swap.pair = p
          /\ Follows(swap, sync)
          /\ fee = [at |-> swap.at, fork |-> swap.fork]
    BY DEF OwnFee
  <1>2. sync \in Mined' /\ swap \in Mined'
    OBVIOUS
  <1> QED
    BY <1>1, <1>2 DEF OwnFee

(* What a log of a batch is without its mark as removed was mined.         *)
LEMMA BatchMined ==
  ASSUME TypeOK, FromChain, NEW h \in Handler, NEW i \in 1 .. Len(batch[h])
  PROVE  /\ batch[h][i] \in Log /\ Original(batch[h][i]) \in Mined
         /\ Original(batch[h][i]).kind = batch[h][i].kind
         /\ Original(batch[h][i]).pair = batch[h][i].pair
         /\ Original(batch[h][i]).at = batch[h][i].at
         /\ Original(batch[h][i]).fork = batch[h][i].fork
  <1> DEFINE l == batch[h][i]
  <1>1. l \in Log /\ l \in Handled
    BY ElementsOf, ElementOfSeq DEF TypeOK, Handled
  <1> HIDE DEF l
  <1>2. IF l.removed THEN Original(l) \in orphans ELSE l \in Mined
    BY <1>1 DEF FromChain
  <1>3. l.removed \in BOOLEAN /\ (~l.removed => Original(l) = l)
    BY <1>1 DEF Log, Original
  <1>4. /\ Original(l).kind = l.kind /\ Original(l).pair = l.pair
        /\ Original(l).at = l.at /\ Original(l).fork = l.fork
    BY <1>1 DEF Log, Original
  <1> QED
    BY <1>1, <1>2, <1>3, <1>4 DEF l, Mined

LEMMA FilterFeeOwn ==
  ASSUME TypeOK, FromChain, NEW h \in Handler, NEW p \in Pair
  PROVE  OwnFee(p, FilterFee(batch[h], p))
  <1> SUFFICES ASSUME FilterFee(batch[h], p) # NoFee PROVE OwnFee(p, FilterFee(batch[h], p))
    BY DEF OwnFee
  <1> DEFINE ls == batch[h]
  <1>1. PICK i \in 1 .. Len(ls), j \in 1 .. Len(ls) :
          /\ ls[i].kind = "Sync" /\ ls[i].pair = p
          /\ ls[j].kind = "Swap" /\ ls[j].pair = p /\ Follows(ls[j], ls[i])
          /\ FilterFee(ls, p) = [at |-> ls[j].at, fork |-> ls[j].fork]
    BY FilterFeeIs DEF TypeOK
  <1>2. Original(ls[i]) \in Mined /\ Original(ls[j]) \in Mined
    BY BatchMined
  <1>3. /\ Original(ls[i]).kind = "Sync" /\ Original(ls[i]).pair = p
        /\ Original(ls[j]).kind = "Swap" /\ Original(ls[j]).pair = p
        /\ Original(ls[i]).at = ls[i].at /\ Original(ls[j]).at = ls[j].at
        /\ Original(ls[j]).fork = ls[j].fork
    BY <1>1, BatchMined
  <1>4. Follows(Original(ls[j]), Original(ls[i]))
    BY <1>1, <1>3 DEF Follows
  <1> QED
    BY <1>1, <1>2, <1>3, <1>4 DEF OwnFee

(* A handler is not disturbed by what others do.                           *)
LEMMA WorkKept ==
  ASSUME NEW g \in Handler, Working(g),
         Mined \subseteq Mined',
         pc'[g] = pc[g] /\ batch'[g] = batch[g] /\ pairs'[g] = pairs[g]
         /\ seen'[g] = seen[g] /\ toLoad'[g] = toLoad[g]
  PROVE  Working(g)'
  <1>1. Selected(g)' /\ TakenOver(g)' /\ KnownOnTheWay(g)'
    BY DEF Working, Selected, TakenOver, KnownOnTheWay
  <1>2. ASSUME NEW p \in Pair, seen[g][p] # NoEntry PROVE OwnFee(p, seen[g][p].fee)'
    BY <1>2 DEF Working, FeesOnTheWay, OwnFee
  <1>3. ASSUME NEW p \in Pair, pairs[g][p] # NoEntry PROVE OwnFee(p, pairs[g][p].fee)'
    BY <1>3 DEF Working, FeesOnTheWay, OwnFee
  <1> QED
    BY <1>1, <1>2, <1>3 DEF Working, FeesOnTheWay

LEMMA TakeWork ==
  ASSUME TypeOK, NEW h \in Handler, Working(h), Mined \subseteq Mined', Take(h)
  PROVE  Working(h)'
  <1>1. /\ pc[h] = "idle" /\ pc'[h] = "filter"
        /\ pairs' = pairs /\ seen' = seen /\ toLoad' = toLoad
    BY DEF Take, TypeOK
  <1>2. seen[h] = Empty /\ toLoad[h] = {}
    BY <1>1 DEF Working, Selected
  <1>3. Selected(h)' /\ TakenOver(h)' /\ KnownOnTheWay(h)'
    BY <1>1, <1>2 DEF Selected, TakenOver, KnownOnTheWay, Empty
  <1>4. ASSUME NEW p \in Pair, pairs[h][p] # NoEntry PROVE OwnFee(p, pairs[h][p].fee)'
    BY <1>1, <1>4 DEF Working, FeesOnTheWay, OwnFee
  <1> QED
    BY <1>1, <1>2, <1>3, <1>4 DEF Working, FeesOnTheWay, Empty

LEMMA FilterWork ==
  ASSUME TypeOK, NEW h \in Handler, Working(h), Filter(h)
  PROVE  Working(h)'
  <1>1. /\ pc[h] = "filter" /\ pc'[h] = "load" /\ batch' = batch /\ seen' = seen
        /\ pairs'[h] = FilterPairs(batch[h])
        /\ toLoad'[h] = {p \in Pair : SyncsOf(batch[h], p) # {}}
    BY DEF Filter, TypeOK
  <1>2. seen'[h] = Empty
    BY <1>1 DEF Working, Selected
  <1>3. \A p \in Pair :
          /\ SyncsOf(batch[h], p) = {} => pairs'[h][p] = NoEntry
          /\ SyncsOf(batch[h], p) # {} =>
               /\ pairs'[h][p] # NoEntry
               /\ pairs'[h][p].at = LastSync(batch[h], p).at
               /\ pairs'[h][p].fork = LastSync(batch[h], p).fork
               /\ pairs'[h][p].fee = NoFee
    BY <1>1, FilterPairsIs DEF TypeOK
  <1>4. Selected(h)'
    BY <1>1, <1>3 DEF Selected
  <1>5. TakenOver(h)' /\ KnownOnTheWay(h)'
    BY <1>1, <1>2 DEF TakenOver, KnownOnTheWay, Empty
  <1>6. FeesOnTheWay(h)'
    BY <1>2, <1>3 DEF FeesOnTheWay, OwnFee, Empty
  <1> QED
    BY <1>4, <1>5, <1>6 DEF Working

LEMMA LoadPairWork ==
  ASSUME TypeOK, Stored, NEW h \in Handler, Working(h), Mined \subseteq Mined',
         NEW p \in Pair, LoadPair(h, p)
  PROVE  Working(h)'
  <1>1. /\ pc[h] = "load" /\ pc' = pc /\ batch' = batch
        /\ \A q \in Pair :
             pairs'[h][q] = IF q = p /\ store[p] # NoEntry THEN Copied(pairs[h][p], store[p])
                            ELSE pairs[h][q]
        /\ \A q \in Pair : seen'[h][q] = IF q = p THEN store[p] ELSE seen[h][q]
        /\ toLoad'[h] = toLoad[h] \ {p}
    BY DEF LoadPair, TypeOK
  <1>2. pairs[h][p] \in Info /\ pairs[h][p] # NoEntry
    BY DEF LoadPair, Working, Selected, TypeOK
  <1>3. ASSUME store[p] # NoEntry
        PROVE  /\ store[p] \in Info
               /\ pairs'[h][p] # NoEntry /\ seen'[h][p] = store[p]
               /\ pairs'[h][p].at = pairs[h][p].at /\ pairs'[h][p].fork = pairs[h][p].fork
               /\ pairs'[h][p].tokens = store[p].tokens /\ pairs'[h][p].error = store[p].error
               /\ pairs'[h][p].fee = store[p].fee
    <2>1. store[p] \in Info
      BY <1>3 DEF TypeOK
    <2>2. pairs'[h][p] = Copied(pairs[h][p], store[p]) /\ seen'[h][p] = store[p]
      BY <1>1, <1>3
    <2> QED
      BY <1>2, <2>1, <2>2, CopiedIs
  <1>4. \A q \in Pair :
          /\ pairs'[h][q] # NoEntry <=> pairs[h][q] # NoEntry
          /\ pairs'[h][q] # NoEntry =>
               pairs'[h][q].at = pairs[h][q].at /\ pairs'[h][q].fork = pairs[h][q].fork
    BY <1>1, <1>2, <1>3
  <1>5. Selected(h)'
    <2>1. \A q \in toLoad'[h] : pairs'[h][q] # NoEntry
      BY <1>1, <1>4 DEF Working, Selected, TypeOK
    <2>2. ASSUME NEW q \in Pair
          PROVE  /\ pairs'[h][q] # NoEntry <=> SyncsOf(batch[h], q) # {}
                 /\ pairs'[h][q] # NoEntry =>
                      /\ pairs'[h][q].at = LastSync(batch[h], q).at
                      /\ pairs'[h][q].fork = LastSync(batch[h], q).fork
      BY <1>1, <1>4 DEF Working, Selected
    <2> QED
      BY <1>1, <2>1, <2>2 DEF Selected
  <1>6. TakenOver(h)'
    <2> SUFFICES ASSUME NEW q \in Pair, seen'[h][q] # NoEntry
                 PROVE  /\ pairs'[h][q] # NoEntry
                        /\ pairs'[h][q].tokens = seen'[h][q].tokens
                        /\ pairs'[h][q].error = seen'[h][q].error
                        /\ pairs'[h][q].fee = seen'[h][q].fee
      BY DEF TakenOver
    <2>1. CASE q = p
      BY <1>1, <1>3, <2>1
    <2>2. CASE q # p
      BY <1>1, <2>2 DEF Working, TakenOver
    <2> QED
      BY <2>1, <2>2
  <1>7. KnownOnTheWay(h)'
    BY <1>1 DEF Working, KnownOnTheWay, Stored, KnownTokens
  <1>8. ASSUME NEW q \in Pair, seen'[h][q] # NoEntry PROVE OwnFee(q, seen[h][q].fee)'
    <2>1. CASE q = p
      BY <1>1, <1>8, <2>1 DEF Stored, FeeFromOwnSwap, OwnFee
    <2>2. CASE q # p
      BY <1>1, <1>8, <2>2 DEF Working, FeesOnTheWay, OwnFee
    <2> QED
      BY <2>1, <2>2
  <1>9. ASSUME NEW q \in Pair, pairs'[h][q] # NoEntry PROVE OwnFee(q, pairs[h][q].fee)'
    <2>1. CASE q = p /\ store[p] # NoEntry
      BY <1>3, <2>1 DEF Stored, FeeFromOwnSwap, OwnFee
    <2>2. CASE ~(q = p /\ store[p] # NoEntry)
      BY <1>1, <1>9, <2>2 DEF Working, FeesOnTheWay, OwnFee
    <2> QED
      BY <2>1, <2>2
  <1> QED
    BY <1>5, <1>6, <1>7, <1>8, <1>9 DEF Working, FeesOnTheWay

(* A pair that was found is known.                                         *)
LEMMA FoundKnown ==
  ASSUME NEW h \in Handler, Working(h), NEW p \in Pair,
         pairs[h][p] # NoEntry, p \notin Missing(h)
  PROVE  Known(p, pairs[h][p])
  <1>1. seen[h][p] # NoEntry
    BY DEF Missing
  <1> QED
    BY <1>1, KnownLike DEF Working, TakenOver, KnownOnTheWay

LEMMA LoadDoneWork ==
  ASSUME TypeOK, NEW h \in Handler, Working(h), Mined \subseteq Mined', LoadDone(h)
  PROVE  Working(h)'
  <1>1. /\ pc[h] = "load" /\ pc'[h] = (IF Missing(h) = {} THEN "store" ELSE "call")
        /\ batch' = batch /\ pairs' = pairs /\ seen' = seen /\ toLoad' = toLoad /\ toLoad[h] = {}
    BY DEF LoadDone, TypeOK
  <1>2. Selected(h)'
    BY <1>1 DEF Working, Selected
  <1>3. TakenOver(h)'
    BY <1>1 DEF Working, TakenOver
  <1>4. KnownOnTheWay(h)'
    <2>1. ASSUME pc'[h] = "store", NEW p \in Pair, pairs[h][p] # NoEntry
          PROVE  Known(p, pairs[h][p])
      BY <1>1, <2>1, FoundKnown
    <2> QED
      BY <1>1, <2>1 DEF Working, KnownOnTheWay
  <1>5. FeesOnTheWay(h)'
    BY <1>1 DEF Working, FeesOnTheWay, OwnFee
  <1> QED
    BY <1>2, <1>3, <1>4, <1>5 DEF Working

LEMMA CallAnswersWork ==
  ASSUME TypeOK, NEW h \in Handler, Working(h), Mined \subseteq Mined', CallAnswers(h)
  PROVE  Working(h)'
  <1>1. PICK outcome \in [Missing(h) -> Outcome] :
          /\ \A p \in Missing(h) : outcome[p] \in Answer[p]
          /\ pairs' = [pairs EXCEPT ![h] =
               [p \in Pair |-> IF p \in Missing(h) THEN Answered(@[p], outcome[p]) ELSE @[p]]]
    BY DEF CallAnswers
  <1>2. /\ pc[h] = "call" /\ pc'[h] = "store"
        /\ batch' = batch /\ seen' = seen /\ toLoad' = toLoad
        /\ \A p \in Pair :
             pairs'[h][p] = IF p \in Missing(h) THEN Answered(pairs[h][p], outcome[p])
                            ELSE pairs[h][p]
    BY <1>1 DEF CallAnswers, TypeOK
  <1>3. ASSUME NEW p \in Missing(h)
        PROVE  /\ p \in Pair /\ pairs[h][p] # NoEntry /\ seen[h][p] = NoEntry
               /\ pairs'[h][p] # NoEntry
               /\ pairs'[h][p].at = pairs[h][p].at /\ pairs'[h][p].fork = pairs[h][p].fork
               /\ pairs'[h][p].fee = pairs[h][p].fee /\ Known(p, pairs'[h][p])
    <2>1. p \in Pair /\ pairs[h][p] # NoEntry /\ seen[h][p] = NoEntry /\ pairs[h][p] \in Info
      BY DEF Missing, TypeOK
    <2>2. pairs'[h][p] = Answered(pairs[h][p], outcome[p]) /\ outcome[p] \in Answer[p]
      BY <1>1, <1>2, <2>1
    <2> QED
      BY <2>1, <2>2, AnsweredIs
  <1>4. \A p \in Pair :
          /\ pairs'[h][p] # NoEntry <=> pairs[h][p] # NoEntry
          /\ pairs'[h][p] # NoEntry =>
               /\ pairs'[h][p].at = pairs[h][p].at /\ pairs'[h][p].fork = pairs[h][p].fork
               /\ pairs'[h][p].fee = pairs[h][p].fee
          /\ seen[h][p] # NoEntry => pairs'[h][p] = pairs[h][p]
    BY <1>2, <1>3
  <1>5. Selected(h)'
    BY <1>2, <1>4 DEF Working, Selected
  <1>6. TakenOver(h)'
    BY <1>2, <1>4 DEF Working, TakenOver
  <1>7. KnownOnTheWay(h)'
    <2>1. ASSUME NEW p \in Pair, pairs'[h][p] # NoEntry PROVE Known(p, pairs'[h][p])
      <3>1. CASE p \in Missing(h)
        BY <1>3, <3>1
      <3>2. CASE p \notin Missing(h)
        BY <1>2, <2>1, <3>2, FoundKnown
      <3> QED
        BY <3>1, <3>2
    <2> QED
      BY <1>2, <2>1 DEF Working, KnownOnTheWay
  <1>8. FeesOnTheWay(h)'
    BY <1>2, <1>4 DEF Working, FeesOnTheWay, OwnFee
  <1> QED
    BY <1>5, <1>6, <1>7, <1>8 DEF Working

LEMMA ReturnWork ==
  ASSUME TypeOK, NEW h \in Handler, Return(h)
  PROVE  Working(h)'
  <1>1. pc'[h] = "idle" /\ pairs'[h] = Empty /\ seen'[h] = Empty /\ toLoad'[h] = {}
    BY DEF Return, TypeOK
  <1> QED
    BY <1>1 DEF Working, Selected, TakenOver, KnownOnTheWay, FeesOnTheWay, Empty

LEMMA WorkStep ==
  ASSUME TypeOK, Inv, [Next]_vars
  PROVE  AtWork'
  <1>1. Mined \subseteq Mined' /\ Stored /\ \A g \in Handler : Working(g)
    BY PlacesStep DEF Inv, AtWork
  <1>2. CASE UNCHANGED <<pc, batch, pairs, seen, toLoad>>
    BY <1>1, <1>2, WorkKept DEF AtWork
  <1>3. ASSUME NEW h \in Handler, Handle(h) \/ Take(h)
        PROVE  AtWork'
    <2>1. Working(h)'
      BY <1>1, <1>3, TakeWork, FilterWork, LoadPairWork, LoadDoneWork, CallAnswersWork, ReturnWork
         DEF Handle, FilterFails, FilterNothing, CallFails, FeesFail, StoreAll
    <2>2. ASSUME NEW g \in Handler, g # h
          PROVE  pc'[g] = pc[g] /\ batch'[g] = batch[g] /\ pairs'[g] = pairs[g]
                 /\ seen'[g] = seen[g] /\ toLoad'[g] = toLoad[g]
      BY <1>3, <2>2 DEF Handle, Take, Filter, LoadPair, LoadDone, CallAnswers,
           FilterFails, FilterNothing, CallFails, FeesFail, StoreAll, Return, TypeOK
    <2>3. ASSUME NEW g \in Handler, g # h PROVE Working(g)'
      BY <1>1, <2>2, <2>3, WorkKept
    <2> QED
      BY <2>1, <2>3 DEF AtWork
  <1>4. CASE Node \/ Subscribe \/ SubscribeError \/ Forward \/ Tick \/ UNCHANGED vars
             \/ \E p \in Pair : ExpirePair(p)
    <2>1. UNCHANGED work
      BY <1>4 DEF Node, Mine, Replace, Disconnect, Subscribe, SubscribeError, Forward, Tick, vars,
                  ExpirePair
    <2> QED
      BY <1>2, <2>1 DEF work
  <1> QED
    BY <1>3, <1>4 DEF Next, SubscribeFilter

-----------------------------------------------------------------------------
(***************************************************************************)
(* What is stored.                                                         *)
(***************************************************************************)

(* What StoreAll offers the storage.                                       *)
LEMMA Offered ==
  ASSUME TypeOK, FromChain, NEW h \in Handler, Working(h), pc[h] = "store",
         NEW p \in Pair, WithFees(h)[p] # NoEntry
  PROVE  /\ WithFees(h)[p] \in Info
         /\ SyncsOf(batch[h], p) # {}
         /\ WithFees(h)[p].at = LastSync(batch[h], p).at
         /\ WithFees(h)[p].fork = LastSync(batch[h], p).fork
         /\ Known(p, WithFees(h)[p]) /\ OwnFee(p, WithFees(h)[p].fee)
  <1>1. pairs[h][p] # NoEntry /\ WithFees(h)[p] \in Info
    BY WithFeesIs
  <1>2. /\ SyncsOf(batch[h], p) # {}
        /\ pairs[h][p].at = LastSync(batch[h], p).at
        /\ pairs[h][p].fork = LastSync(batch[h], p).fork
        /\ Known(p, pairs[h][p]) /\ OwnFee(p, pairs[h][p].fee)
    BY <1>1 DEF Working, Selected, KnownOnTheWay, FeesOnTheWay
  <1>3. Known(p, WithFees(h)[p])
    BY <1>1, <1>2, WithFeesIs, KnownLike
  <1>4. OwnFee(p, WithFees(h)[p].fee)
    BY <1>1, <1>2, WithFeesIs, FilterFeeOwn
  <1> QED
    BY <1>1, <1>2, <1>3, <1>4, WithFeesIs

LEMMA StoreAllIs ==
  ASSUME NEW h \in Handler, StoreAll(h), NEW p \in Pair
  PROVE  store'[p] = store[p] \/ (store'[p] = WithFees(h)[p] /\ WithFees(h)[p] # NoEntry)
  <1>1. store'[p] = Newest(store[p], WithFees(h)[p])
    BY DEF StoreAll
  <1> QED
    BY <1>1 DEF Newest

(* No Sync of a batch that still counts is later than the one offered.     *)
LEMMA OfferedLatest ==
  ASSUME TypeOK, Places, NEW h \in Handler, Working(h), pc[h] = "store",
         NEW l \in ToSet(batch[h]) \cap ToSet(chain), l.kind = "Sync"
  PROVE  WithFees(h)[l.pair] # NoEntry /\ ~Later(l.at, WithFees(h)[l.pair].at)
  <1> DEFINE ls == batch[h]
             p  == l.pair
  <1>1. ls \in Seq(Log) /\ l \in Log /\ p \in Pair
    <2>1. chain \in Seq(Log) /\ ls \in Seq(Log)
      BY DEF TypeOK
    <2>2. l \in Log
      BY <2>1, ElementsOf
    <2> QED
      BY <2>1, <2>2 DEF Log
  <1>2. PICK i \in 1 .. Len(ls) : l = ls[i]
    BY <1>1, ElementsOf
  <1>3. i \in SyncsOf(ls, p)
    BY <1>2 DEF SyncsOf
  <1>4. WithFees(h)[p] # NoEntry
    BY <1>1, <1>3, WithFeesIs DEF Working, Selected
  <1>5. WithFees(h)[p].at = LastSync(ls, p).at
    BY <1>1, <1>4, Offered DEF Places
  <1>6. PICK k \in 1 .. Len(ls) : LastSync(ls, p) = ls[k] /\ ls[k] \in Log /\ i <= k
    BY <1>1, <1>3, LastSyncIs
  <1>7. ls[k].at \in Position /\ l.at \in Position
    BY <1>1, <1>6 DEF Log
  <1>8. CASE i = k
    BY <1>2, <1>4, <1>5, <1>6, <1>7, <1>8, LaterOrder
  <1>9. CASE i < k
    <2>1. Later(ls[k].at, l.at)
      BY <1>2, <1>9 DEF Places, SentInOrder, InOrder
    <2> QED
      BY <1>4, <1>5, <1>6, <1>7, <2>1, LaterOrder
  <1> QED
    BY <1>6, <1>8, <1>9

LEMMA StoreAllStored ==
  ASSUME TypeOK, Inv, NEW h \in Handler, StoreAll(h)
  PROVE  Stored'
  <1>1. /\ pc[h] = "store" /\ UNCHANGED <<chain, orphans>> /\ Working(h) /\ FromChain
        /\ done' = done \cup ToSet(batch[h])
        /\ ToSet(chain') = ToSet(chain) /\ Mined' = Mined
    BY DEF StoreAll, source, blocks, Inv, AtWork, Places, Mined
  <1>2. KnownTokens'
    BY <1>1, StoreAllIs, Offered DEF Inv, Stored, KnownTokens
  <1>3. ASSUME NEW p \in Pair, store'[p] # NoEntry PROVE OwnFee(p, store[p].fee)'
    <2>1. OwnFee(p, store'[p].fee)
      <3>1. CASE store'[p] = store[p]
        BY <1>3, <3>1 DEF Inv, Stored, FeeFromOwnSwap
      <3>2. CASE store'[p] = WithFees(h)[p]
        BY <1>1, <1>3, <3>2, Offered
      <3> QED
        BY <3>1, <3>2, StoreAllIs
    <2> QED
      BY <1>1, <2>1 DEF OwnFee
  <1>4. ASSUME NEW p \in Pair, store'[p] # NoEntry
        PROVE  \E l \in Mined' :
                 l.kind = "Sync" /\ l.pair = p /\ store'[p].at = l.at /\ store'[p].fork = l.fork
    <2>1. CASE store'[p] = store[p]
      BY <1>1, <1>4, <2>1 DEF Inv, Stored, StoredSync
    <2>2. CASE store'[p] = WithFees(h)[p]
      <3>1. /\ SyncsOf(batch[h], p) # {}
            /\ store'[p].at = LastSync(batch[h], p).at
            /\ store'[p].fork = LastSync(batch[h], p).fork
        BY <1>1, <1>4, <2>2, Offered
      <3>2. PICK i \in 1 .. Len(batch[h]) :
              /\ LastSync(batch[h], p) = batch[h][i]
              /\ batch[h][i].kind = "Sync" /\ batch[h][i].pair = p
        <4>1. batch[h] \in Seq(Log)
          BY DEF TypeOK
        <4> QED
          BY <3>1, <4>1, LastSyncIs
      <3> DEFINE o == Original(batch[h][i])
      <3>3. o \in Mined' /\ o.kind = "Sync" /\ o.pair = p /\ store'[p].at = o.at /\ store'[p].fork = o.fork
        BY <1>1, <3>1, <3>2, BatchMined
      <3> QED
        BY <3>3
    <2> QED
      BY <2>1, <2>2, StoreAllIs
  <1>5. ASSUME NEW l \in done' \cap ToSet(chain'), l.kind = "Sync"
        PROVE  store'[l.pair] # NoEntry /\ ~Later(l.at, store'[l.pair].at)
    <2> DEFINE p == l.pair
               held == store[p]
               offered == WithFees(h)[p]
    <2>1. /\ l \in ToSet(chain) /\ p \in Pair /\ l.at \in Position
          /\ store'[p] = Newest(held, offered)
      <3>1. l \in Log
        BY <1>1, ElementsOf DEF TypeOK
      <3> QED
        BY <1>1, <3>1 DEF Log, StoreAll
    <2>2. /\ held # NoEntry => held.at \in Position
          /\ offered # NoEntry => offered.at \in Position
      BY <1>1, <2>1, Offered DEF TypeOK, Info
    <2>3. CASE l \in done
      <3>1. held # NoEntry /\ ~Later(l.at, held.at)
        BY <1>5, <2>1, <2>3 DEF Inv, Stored, StoredLatest
      <3> HIDE DEF p, held, offered
      <3>2. offered # NoEntry /\ Later(offered.at, held.at) => ~Later(l.at, offered.at)
        BY <2>1, <2>2, <3>1, LaterOrder
      <3> QED
        BY <2>1, <3>1, <3>2 DEF Newest, NeedUpdate, p
    <2>4. CASE l \in ToSet(batch[h])
      <3>1. offered # NoEntry /\ ~Later(l.at, offered.at)
        BY <1>1, <1>5, <2>1, <2>4, OfferedLatest DEF Inv
      <3> HIDE DEF p, held, offered
      <3>2. held # NoEntry /\ ~Later(offered.at, held.at) => ~Later(l.at, held.at)
        BY <2>1, <2>2, <3>1, LaterOrder
      <3> QED
        BY <2>1, <3>1, <3>2 DEF Newest, NeedUpdate, p
    <2> QED
      BY <1>1, <2>3, <2>4
  <1> QED
    BY <1>2, <1>3, <1>4, <1>5 DEF Stored, FeeFromOwnSwap, StoredSync, StoredLatest

LEMMA ExpireStored ==
  ASSUME TypeOK, Stored, NEW p \in Pair, ExpirePair(p)
  PROVE  Stored'
  <1>1. /\ \A q \in Pair : store'[q] = IF q = p THEN NoEntry ELSE store[q]
        /\ done' = {l \in done : l.pair # p}
        /\ UNCHANGED <<chain, orphans>> /\ Mined' = Mined
    BY DEF ExpirePair, source, blocks, TypeOK, Mined
  <1>2. \A q \in Pair : store'[q] # NoEntry => q # p /\ store'[q] = store[q]
    BY <1>1
  <1>3. KnownTokens'
    BY <1>2 DEF Stored, KnownTokens
  <1>4. ASSUME NEW q \in Pair, store'[q] # NoEntry PROVE OwnFee(q, store[q].fee)'
    BY <1>1, <1>2, <1>4 DEF Stored, FeeFromOwnSwap, OwnFee
  <1>5. StoredSync'
    BY <1>1, <1>2 DEF Stored, StoredSync
  <1>6. ASSUME NEW l \in done' \cap ToSet(chain'), l.kind = "Sync"
        PROVE  store'[l.pair] # NoEntry /\ ~Later(l.at, store'[l.pair].at)
    <2>1. l \in done /\ l.pair # p /\ l \in ToSet(chain)
      BY <1>1
    <2>2. l.pair \in Pair
      BY <2>1 DEF TypeOK, Log
    <2> QED
      BY <1>1, <1>6, <2>1, <2>2 DEF Stored, StoredLatest
  <1> QED
    BY <1>3, <1>4, <1>5, <1>6 DEF Stored, FeeFromOwnSwap, StoredLatest

LEMMA StoredStep ==
  ASSUME TypeOK, Inv, [Next]_vars
  PROVE  Stored'
  <1>1. Mined \subseteq Mined' /\ ToSet(chain') \cap Everywhere \subseteq ToSet(chain) /\ Stored
    BY PlacesStep DEF Inv
  <1>2. CASE UNCHANGED <<store, done>>
    <2>1. KnownTokens'
      BY <1>1, <1>2 DEF Stored, KnownTokens
    <2>2. ASSUME NEW p \in Pair, store[p] # NoEntry PROVE OwnFee(p, store[p].fee)'
      BY <1>1, <1>2, <2>2 DEF Stored, FeeFromOwnSwap, OwnFee
    <2>3. StoredSync'
      BY <1>1, <1>2 DEF Stored, StoredSync
    <2>4. done \cap ToSet(chain') \subseteq done \cap ToSet(chain)
      BY <1>1 DEF Everywhere
    <2>5. StoredLatest'
      BY <1>1, <1>2, <2>4 DEF Stored, StoredLatest
    <2> QED
      BY <1>2, <2>1, <2>2, <2>3, <2>5 DEF Stored, FeeFromOwnSwap
  <1>3. CASE (\E h \in Handler : StoreAll(h)) \/ \E p \in Pair : ExpirePair(p)
    BY <1>1, <1>3, StoreAllStored, ExpireStored
  <1>4. CASE \/ Node \/ SubscribeFilter \/ Forward \/ Tick \/ UNCHANGED vars
             \/ \E h \in Handler : Handle(h) /\ ~StoreAll(h)
    <2>1. UNCHANGED <<store, done>>
      BY <1>4 DEF Node, Mine, Replace, Disconnect, SubscribeFilter, Subscribe, SubscribeError, Take,
           Forward, Tick, vars, Handle, FilterFails, Filter, FilterNothing, LoadPair, LoadDone,
           CallFails, FeesFail, CallAnswers, history
    <2> QED
      BY <1>2, <2>1
  <1> QED
    BY <1>3, <1>4 DEF Next

-----------------------------------------------------------------------------
LEMMA InvInit == Init => IInv
  <1> SUFFICES ASSUME Init PROVE IInv
    OBVIOUS
  <1>1. TypeOK
    BY TypeInit
  <1>2. /\ Len(<<>>) = 0 /\ ToSet(<<>>) = {} /\ Mined = {} /\ Travelling = {} /\ Handled = {}
    BY NoElements, EmptySeq DEF Init, Mined, Travelling, Handled
  <1>3. Places
    BY <1>2 DEF Init, Places, HandledOnce, ChainInOrder, FromChain, SentOnce, SentInOrder, InOrder
  <1>4. AtWork
    BY DEF Init, AtWork, Working, Selected, TakenOver, KnownOnTheWay, FeesOnTheWay, Empty
  <1>5. Stored
    BY <1>2 DEF Init, Stored, KnownTokens, FeeFromOwnSwap, StoredSync, StoredLatest, Empty
  <1> QED
    BY <1>1, <1>3, <1>4, <1>5 DEF IInv, Inv

(* The state is well typed; no log is in two places at a time, for all     *)
(* hand-overs between forwarding goroutine, loop and handlers, and for all *)
(* blocks replaced meanwhile; what is stored was mined, in the order of    *)
(* the chain (evmmonitor.go:105-167, protocol_data.go:39-157).             *)
THEOREM Invariant == Spec => []IInv
  <1>1. IInv /\ [Next]_vars => IInv'
    BY TypeStep, PlacesStep, WorkStep, StoredStep DEF IInv, Inv
  <1> QED
    BY InvInit, <1>1, PTL DEF Spec

(* The type invariant alone.                                               *)
THEOREM TypeCorrect == Spec => []TypeOK
  <1>1. IInv => TypeOK
    BY DEF IInv
  <1> QED
    BY <1>1, Invariant, PTL

(* A stored pair can always be priced or is marked, whichever handlers     *)
(* overlapped and whichever view calls failed (protocol_data.go:67-140).   *)
THEOREM TokensKnown == Spec => []KnownTokens
  <1>1. IInv => KnownTokens
    BY DEF IInv, Inv, Stored
  <1> QED
    BY <1>1, Invariant, PTL

(* A fee that is not the default comes from a swap of the very pair, which *)
(* stood behind a Sync of it (FilterUniswapV2FeeFromLog), through all the  *)
(* copies from entry to entry.                                             *)
THEOREM FeesOwn == Spec => []FeeFromOwnSwap
  <1>1. IInv => FeeFromOwnSwap
    BY DEF IInv, Inv, Stored
  <1> QED
    BY <1>1, Invariant, PTL

(* Once the newest Sync of a pair was stored no slower handler takes its   *)
(* reserves back; only a Sync of a block since replaced that was as far    *)
(* along in the chain may stand in its place (NeedUpdate, storage.go).     *)
THEOREM Converges == Spec => []Converged
  <1>1. ASSUME IInv PROVE Converged
    <2> SUFFICES ASSUME NEW p \in Pair, SyncsOf(chain, p) # {}, LastSync(chain, p) \in done
                 PROVE  LET last == LastSync(chain, p)
                            gone == {l \in orphans : l.kind = "Sync" /\ l.pair = p /\ ~Later(last.at, l.at)}
                        IN  store[p] # NoEntry /\ \E l \in gone \cup {last} :
                              store[p].at = l.at /\ store[p].fork = l.fork
      BY DEF Converged
    <2> DEFINE last == LastSync(chain, p)
    <2>1. chain \in Seq(Log)
      BY <1>1 DEF IInv, TypeOK
    <2>2. PICK k \in 1 .. Len(chain) :
            /\ last = chain[k] /\ chain[k] \in Log /\ chain[k].kind = "Sync" /\ chain[k].pair = p
            /\ \A j \in SyncsOf(chain, p) : j <= k
      BY <2>1, LastSyncIs
    <2>3. last \in ToSet(chain) /\ last \in Log /\ last.kind = "Sync" /\ last.pair = p
      BY <2>1, <2>2, ElementsOf
    <2> HIDE DEF last
    <2>4. store[p] # NoEntry /\ ~Later(last.at, store[p].at)
      BY <1>1, <2>3 DEF IInv, Inv, Stored, StoredLatest, last
    <2>5. PICK l \in Mined :
            l.kind = "Sync" /\ l.pair = p /\ store[p].at = l.at /\ store[p].fork = l.fork
      BY <1>1, <2>4 DEF IInv, Inv, Stored, StoredSync
    <2>6. CASE l \in orphans
      BY <2>4, <2>5, <2>6 DEF last
    <2>7. CASE l \in ToSet(chain)
      <3>1. PICK i \in 1 .. Len(chain) : l = chain[i]
        BY <2>1, <2>7, ElementsOf
      <3>2. i <= k
        BY <2>2, <2>5, <3>1 DEF SyncsOf
      <3>3. i < k => Later(last.at, l.at)
        BY <1>1, <2>2, <3>1 DEF IInv, Inv, Places, ChainInOrder
      <3>4. i = k
        BY <2>4, <2>5, <3>2, <3>3
      <3>5. l = last
        BY <2>2, <3>1, <3>4
      <3> QED
        BY <2>4, <2>5, <3>5 DEF last
    <2> QED
      BY <2>5, <2>6, <2>7 DEF Mined
  <1> QED
    BY <1>1, Invariant, PTL

(* What is known of a pair is forgotten by a handler only if it was stored *)
(* after that handler had looked the pair up (protocol_data.go:67).        *)
THEOREM ForgetsByRace == Spec => ForgetsOnlyByRace
  <1> DEFINE Forgets == \A h \in Handler, p \in Pair :
                          Replaces(h, p) /\ seen[h][p] = store[p] => KeepsKnown(store[p], store'[p])
  <1>1. ASSUME IInv, [Next]_vars PROVE Forgets
    <2> SUFFICES ASSUME NEW h \in Handler, NEW p \in Pair, Replaces(h, p), seen[h][p] = store[p]
                 PROVE  KeepsKnown(store[p], store'[p])
      OBVIOUS
    <2>1. pc[h] = "store" /\ pc'[h] = "idle" /\ store[p] # NoEntry /\ store'[p] # store[p]
      BY DEF Replaces
    <2>2. StoreAll(h)
      <3>1. ASSUME NEW g \in Handler, Handle(g) PROVE g = h \/ pc'[h] = pc[h]
        BY <1>1, <3>1 DEF Handle, FilterFails, Filter, FilterNothing, LoadPair, LoadDone, CallFails, FeesFail,
             CallAnswers, StoreAll, Return, IInv, TypeOK
      <3>2. ASSUME NEW g \in Handler, Take(g) PROVE g = h \/ pc'[h] = pc[h]
        BY <1>1, <3>2 DEF Take, IInv, TypeOK
      <3>3. CASE Node \/ Subscribe \/ SubscribeError \/ Forward \/ Tick \/ UNCHANGED vars
                 \/ \E q \in Pair : ExpirePair(q)
        BY <2>1, <3>3 DEF Node, Mine, Replace, Disconnect, Subscribe, SubscribeError, Forward, Tick,
             ExpirePair, vars, work
      <3>4. ~Take(h)
        BY <2>1 DEF Take
      <3>5. Handle(h) => StoreAll(h)
        BY <2>1 DEF Handle, FilterFails, Filter, FilterNothing, LoadPair, LoadDone, CallFails, FeesFail,
             CallAnswers
      <3> QED
        BY <1>1, <2>1, <3>1, <3>2, <3>3, <3>4, <3>5 DEF Next, SubscribeFilter
    <2>3. store'[p] = WithFees(h)[p]
      BY <2>1, <2>2, StoreAllIs
    <2>4. /\ pairs[h][p] # NoEntry
          /\ pairs[h][p].tokens = store[p].tokens /\ pairs[h][p].error = store[p].error
          /\ pairs[h][p].fee = store[p].fee
      BY <1>1, <2>1 DEF IInv, Inv, AtWork, Working, TakenOver
    <2>5. /\ WithFees(h)[p].tokens = pairs[h][p].tokens
          /\ WithFees(h)[p].error = pairs[h][p].error
          /\ \/ WithFees(h)[p].fee = pairs[h][p].fee
             \/ WithFees(h)[p].fee = FilterFee(batch[h], p) /\ FilterFee(batch[h], p) # NoFee
      BY <1>1, <2>4, WithFeesIs DEF IInv
    <2> QED
      BY <2>3, <2>4, <2>5 DEF KeepsKnown
  <1>2. IInv /\ [Next]_vars => [Forgets]_vars
    BY <1>1
  <1> HIDE DEF Forgets
  <1>3. Spec => [][Forgets]_vars
    BY <1>2, Invariant, PTL DEF Spec
  <1> QED
    BY <1>3 DEF Forgets, ForgetsOnlyByRace

=============================================================================
