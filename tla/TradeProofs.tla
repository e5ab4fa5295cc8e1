----------------------------- MODULE TradeProofs -----------------------------
(***************************************************************************)
(* Theorems about Trade, for any number of goroutines and paths, any       *)
(* prices, gains and gas tables.                                           *)
(***************************************************************************)
EXTENDS Trade, TLAPS

(* What SetPrice signs is at most the share of the gas price.              *)
LEMMA ShareOf ==
  ASSUME NEW g \in Nat
  PROVE  g \div Share \in Nat /\ Share * (g \div Share) <= g
  BY PriceAssumption

(* A deal under way has a gain for every amount.                           *)
LEMMA GainType ==
  ASSUME NEW d \in Deal, d.amount \in Amount
  PROVE  Gain(d) \in Int
  BY PathAssumption DEF Gain, Deal

LEMMA SpareType ==
  ASSUME TypeOK, NEW d \in Deal, d.amount \in Amount
  PROVE  /\ Spare(d, ethGasPrice) \in Int
         /\ ethGasPrice * EthGas[d.path] \in Nat
  <1>1. ethGasPrice \in Nat /\ EthGas[d.path] \in Nat
    BY PathAssumption, PriceAssumption DEF TypeOK, Deal
  <1> QED
    BY <1>1, GainType DEF Spare

-----------------------------------------------------------------------------
LEMMA InitHolds == Init => TypeOK /\ Inv /\ OnePending
  <1> SUFFICES ASSUME Init PROVE TypeOK /\ Inv /\ OnePending
    OBVIOUS
  <1>1. LongAgo \in Int /\ LongAgo < 0
    BY BoundAssumption DEF LongAgo
  <1>2. TypeOK
    BY <1>1, BoundAssumption DEF Init, TypeOK
  <1>3. Inv
    BY <1>1 DEF Init, Inv, NoncesUsedUp, DealsFollow, Follows, Checking, CacheCovers, Covered
  <1>4. OnePending
    BY DEF Init, OnePending
  <1> QED
    BY <1>2, <1>3, <1>4

(* A step keeps the types.  What it writes to a deal is written to a       *)
(* record, since a goroutine that is not idle has a deal.                  *)
LEMMA TypeStep == TypeOK /\ Inv /\ [Next]_vars => TypeOK'
  <1> SUFFICES ASSUME TypeOK, NoncesUsedUp, DealsFollow, [Next]_vars PROVE TypeOK'
    BY DEF Inv
  <1> USE DEF TypeOK, Go, Return, prices, node, history
  <1>1. ASSUME NEW t \in Trader, NEW p \in Path, NEW o \in Offer, Find(t, p, o) PROVE TypeOK'
    <2>1. [path |-> p, offer |-> o, amount |-> 0, read |-> 0, price |-> 0,
           used |-> 0, nonce |-> 0, moved |-> FALSE] \in Deal
      BY BoundAssumption DEF Deal
    <2> QED
      BY <1>1, <2>1 DEF Find
  <1>2. ASSUME NEW t \in Trader, Get(t) PROVE TypeOK'
    BY <1>2 DEF Get
  <1>3. ASSUME NEW t \in Trader, SetDefault(t) PROVE TypeOK'
    <2>1. deal[t].path \in Path
      BY <1>3 DEF SetDefault, NoncesUsedUp, Deal
    <2> QED
      BY <1>3, <2>1, BoundAssumption DEF SetDefault
  <1>4. ASSUME NEW t \in Trader, Size(t) PROVE TypeOK'
    <2>1. CASE Return(t)
      BY <1>4, <2>1 DEF Size
    <2>2. ASSUME NEW a \in Sized(deal[t], ethGasPrice), pc' = [pc EXCEPT ![t] = "price"],
                 deal' = [deal EXCEPT ![t].amount = a, ![t].read = 0]
          PROVE  TypeOK'
      <3>1. a \in Amount
        BY DEF Sized
      <3>2. [deal[t] EXCEPT !.amount = a, !.read = 0] \in Deal
        BY <1>4, <3>1 DEF Size, NoncesUsedUp, Deal
      <3>3. deal' \in [Trader -> Deal \cup {NoDeal}]
        BY <2>2, <3>2
      <3> QED
        BY <1>4, <2>2, <3>3 DEF Size
    <2> QED
      BY <1>4, <2>1, <2>2 DEF Size
  <1>5. ASSUME NEW t \in Trader, Fail(t) PROVE TypeOK'
    <2>1. deal[t].path \in Path
      BY <1>5 DEF Fail, NoncesUsedUp, Deal
    <2> QED
      BY <1>5, <2>1, BoundAssumption DEF Fail
  <1>6. ASSUME NEW t \in Trader, SetPrice(t) PROVE TypeOK'
    <2>1. gasPrice \div Share \in Nat
      BY ShareOf, PriceAssumption
    <2>2. [deal[t] EXCEPT !.price = gasPrice \div Share] \in Deal
      BY <1>6, <2>1 DEF SetPrice, NoncesUsedUp, Deal
    <2>3. deal' \in [Trader -> Deal \cup {NoDeal}]
      BY <1>6, <2>2 DEF SetPrice
    <2> QED
      BY <1>6, <2>3 DEF SetPrice
  <1>7. ASSUME NEW t \in Trader, EstimateGas(t) PROVE TypeOK'
    <2> PICK u \in Used : deal' = [deal EXCEPT ![t].used = u]
      BY <1>7 DEF EstimateGas
    <2>1. [deal[t] EXCEPT !.used = u] \in Deal
      BY <1>7 DEF EstimateGas, NoncesUsedUp, Deal
    <2>2. deal' \in [Trader -> Deal \cup {NoDeal}]
      BY <2>1
    <2> QED
      BY <1>7, <2>2 DEF EstimateGas
  <1>8. ASSUME NEW t \in Trader, NonceAt(t) PROVE TypeOK'
    <2>1. [deal[t] EXCEPT !.nonce = mined] \in Deal
      BY <1>8 DEF NonceAt, NoncesUsedUp, Deal
    <2>2. deal' \in [Trader -> Deal \cup {NoDeal}]
      BY <1>8, <2>1 DEF NonceAt
    <2> QED
      BY <1>8, <2>2 DEF NonceAt
  <1>9. ASSUME NEW t \in Trader, NEW n \in Nat, pc[t] # "idle",
               deal' = [deal EXCEPT ![t].read = n]
        PROVE  deal' \in [Trader -> Deal \cup {NoDeal}]
    <2>1. [deal[t] EXCEPT !.read = n] \in Deal
      BY <1>9 DEF NoncesUsedUp, Deal
    <2> QED
      BY <1>9, <2>1
  <1>10. ASSUME NEW t \in Trader, ReadGasPrice(t) \/ ReadETHGasPrice(t) PROVE TypeOK'
    <2>1. gasPrice \in Nat /\ ethGasPrice \in Nat
      BY PriceAssumption
    <2> QED
      BY <1>9, <1>10, <2>1 DEF ReadGasPrice, ReadETHGasPrice
  <1>11. ASSUME NEW t \in Trader, CheckLow(t) PROVE TypeOK'
    BY <1>11 DEF CheckLow
  <1>12. ASSUME NEW t \in Trader, CheckFull(t) PROVE TypeOK'
    BY <1>9, <1>12 DEF CheckFull
  <1>13. ASSUME NEW t \in Trader, PriceFails(t) \/ FinalCheckFails(t) \/ RpcFails(t) PROVE TypeOK'
    BY <1>13 DEF PriceFails, FinalCheckFails, RpcFails, Fails
  <1>14. ASSUME NEW t \in Trader, Send(t) \/ SendUnanswered(t) PROVE TypeOK'
    <2>1. Accepts(t) /\ deal[t] \in Deal /\ deal[t].price > 0
      BY <1>14 DEF Send, SendUnanswered, NoncesUsedUp, DealsFollow, Follows, Checking
    <2>2. Tx(t) \in [nonce : 0 .. MaxNonce, price : Nat \ {0}, path : Path]
      BY <2>1 DEF Tx, Deal
    <2> QED
      BY <1>14, <2>1, <2>2 DEF Send, SendUnanswered, Accepts
  <1>15. ASSUME Moved PROVE deal' \in [Trader -> Deal \cup {NoDeal}]
    <2>1. ASSUME NEW t \in Trader, deal[t] # NoDeal PROVE [deal[t] EXCEPT !.moved = TRUE] \in Deal
      BY <2>1 DEF Deal
    <2> QED
      BY <1>15, <2>1 DEF Moved
  <1>16. ASSUME NEW g \in GasPrice, FetchGasPrice(g) PROVE TypeOK'
    BY <1>15, <1>16 DEF FetchGasPrice
  <1>17. ASSUME NEW e \in EthPrice, FetchETHGasPrice(e) PROVE TypeOK'
    BY <1>15, <1>17 DEF FetchETHGasPrice
  <1>18. ASSUME NEW x \in pool, Mine(x) PROVE TypeOK'
    BY <1>18, BoundAssumption DEF Mine
  <1>19. ASSUME Tick PROVE TypeOK'
    BY <1>19, BoundAssumption DEF Tick
  <1>20. ASSUME UNCHANGED vars PROVE TypeOK'
    BY <1>20 DEF vars
  <1> QED
    BY <1>1, <1>2, <1>3, <1>4, <1>5, <1>6, <1>7, <1>8, <1>13, <1>14, <1>16, <1>17,
       <1>18, <1>19, <1>20, <1>10, <1>11, <1>12 DEF Next, TryTrade, SwapV2

-----------------------------------------------------------------------------
LEMMA NoncesStep == TypeOK /\ NoncesUsedUp /\ TypeOK' /\ [Next]_vars => NoncesUsedUp'
  <1> SUFFICES ASSUME TypeOK, TypeOK', NoncesUsedUp, [Next]_vars,
                      NEW u \in Trader, pc'[u] # "idle"
               PROVE  (deal[u] \in Deal /\ deal[u].nonce <= mined)'
    BY DEF NoncesUsedUp
  <1> USE DEF TypeOK, Go, Return, prices, node, history
  <1>1. mined \in Nat /\ (pc[u] # "idle" => deal[u] \in Deal /\ deal[u].nonce <= mined)
    BY BoundAssumption DEF NoncesUsedUp
  <1>2. ASSUME NEW t \in Trader, NEW p \in Path, NEW o \in Offer, Find(t, p, o)
        PROVE  (deal[u] \in Deal /\ deal[u].nonce <= mined)'
    <2>1. [path |-> p, offer |-> o, amount |-> 0, read |-> 0, price |-> 0,
           used |-> 0, nonce |-> 0, moved |-> FALSE] \in Deal
      BY BoundAssumption DEF Deal
    <2> QED
      BY <1>1, <1>2, <2>1 DEF Find
  <1>3. ASSUME NEW t \in Trader,
               Get(t) \/ SetDefault(t) \/ Fail(t) \/ CheckLow(t) \/ Send(t) \/ SendUnanswered(t)
        PROVE  (deal[u] \in Deal /\ deal[u].nonce <= mined)'
    BY <1>1, <1>3 DEF Get, SetDefault, Fail, CheckLow, Send, SendUnanswered
  <1>4. ASSUME NEW t \in Trader, PriceFails(t) \/ FinalCheckFails(t) \/ RpcFails(t)
        PROVE  (deal[u] \in Deal /\ deal[u].nonce <= mined)'
    BY <1>1, <1>4 DEF PriceFails, FinalCheckFails, RpcFails, Fails
  <1>5. ASSUME NEW t \in Trader, Size(t)
        PROVE  (deal[u] \in Deal /\ deal[u].nonce <= mined)'
    <2>1. CASE Return(t)
      BY <1>1, <1>5, <2>1 DEF Size
    <2>2. ASSUME NEW a \in Sized(deal[t], ethGasPrice), pc' = [pc EXCEPT ![t] = "price"],
                 deal' = [deal EXCEPT ![t].amount = a, ![t].read = 0]
          PROVE  (deal[u] \in Deal /\ deal[u].nonce <= mined)'
      BY <1>1, <1>5, <2>2 DEF Size, Sized, Deal
    <2> QED
      BY <1>5, <2>1, <2>2 DEF Size
  <1>6. ASSUME NEW t \in Trader, SetPrice(t) PROVE (deal[u] \in Deal /\ deal[u].nonce <= mined)'
    <2>1. gasPrice \div Share \in Nat
      BY ShareOf, PriceAssumption
    <2> QED
      BY <1>1, <1>6, <2>1 DEF SetPrice, Deal
  <1>7. ASSUME NEW t \in Trader, EstimateGas(t) PROVE (deal[u] \in Deal /\ deal[u].nonce <= mined)'
    BY <1>1, <1>7 DEF EstimateGas, Deal
  <1>8. ASSUME NEW t \in Trader, NonceAt(t) PROVE (deal[u] \in Deal /\ deal[u].nonce <= mined)'
    BY <1>1, <1>8 DEF NonceAt, Deal
  <1>9. ASSUME Moved, UNCHANGED <<mined, pc>> PROVE (deal[u] \in Deal /\ deal[u].nonce <= mined)'
    BY <1>1, <1>9 DEF Moved, Deal
  <1>10. ASSUME NEW g \in GasPrice, FetchGasPrice(g)
         PROVE  (deal[u] \in Deal /\ deal[u].nonce <= mined)'
    BY <1>9, <1>10 DEF FetchGasPrice
  <1>11. ASSUME NEW e \in EthPrice, FetchETHGasPrice(e)
         PROVE  (deal[u] \in Deal /\ deal[u].nonce <= mined)'
    BY <1>9, <1>11 DEF FetchETHGasPrice
  <1>12. ASSUME NEW x \in pool, Mine(x) PROVE (deal[u] \in Deal /\ deal[u].nonce <= mined)'
    BY <1>1, <1>12 DEF Mine, Deal
  <1>13. ASSUME Tick \/ UNCHANGED vars PROVE (deal[u] \in Deal /\ deal[u].nonce <= mined)'
    BY <1>1, <1>13 DEF Tick, vars
  <1>14. ASSUME NEW t \in Trader, ReadGasPrice(t) \/ ReadETHGasPrice(t) \/ CheckFull(t)
         PROVE  (deal[u] \in Deal /\ deal[u].nonce <= mined)'
    <2>1. gasPrice \in Nat /\ ethGasPrice \in Nat
      BY PriceAssumption
    <2> QED
      BY <1>1, <1>14, <2>1 DEF ReadGasPrice, ReadETHGasPrice, CheckFull, Deal
  <1> QED
    BY <1>2, <1>3, <1>4, <1>5, <1>6, <1>7, <1>8, <1>10, <1>11, <1>12, <1>13, <1>14
       DEF Next, TryTrade, SwapV2

(* The node takes a nonce only when it is the next one, so all that wait   *)
(* hold the same one, and a new one replaces them.                         *)
LEMMA PoolStep == TypeOK /\ NoncesUsedUp /\ OnePending /\ [Next]_vars => OnePending'
  <1> SUFFICES ASSUME TypeOK, NoncesUsedUp, OnePending, [Next]_vars PROVE OnePending'
    OBVIOUS
  <1> USE DEF OnePending, node
  <1>1. ASSUME NEW t \in Trader, Accepts(t), mined' = mined, pc[t] # "idle" PROVE OnePending'
    <2>1. deal[t].nonce = mined
      BY <1>1, BoundAssumption DEF Accepts, NoncesUsedUp, TypeOK, Deal
    <2>2. Tx(t).nonce = mined
      BY <2>1 DEF Tx
    <2>3. {x \in pool : x.nonce # deal[t].nonce} = {}
      BY <2>1
    <2> QED
      BY <1>1, <2>2, <2>3 DEF Accepts
  <1>2. ASSUME NEW t \in Trader, Send(t) \/ SendUnanswered(t) PROVE OnePending'
    BY <1>1, <1>2 DEF Send, SendUnanswered, Go
  <1>3. ASSUME NEW x \in pool, Mine(x) PROVE OnePending'
    <2>1. pool' = {}
      BY <1>3, BoundAssumption DEF Mine, TypeOK
    <2> QED
      BY <2>1
  <1>4. ASSUME UNCHANGED node PROVE OnePending'
    BY <1>4
  <1> QED
    BY <1>2, <1>3, <1>4
       DEF Next, TryTrade, SwapV2, vars, Find, Get, SetDefault, Size, Fail, SetPrice, PriceFails,
           EstimateGas, NonceAt, ReadGasPrice, ReadETHGasPrice,
           CheckLow, CheckFull, FinalCheckFails, RpcFails, Fails,
           FetchGasPrice, FetchETHGasPrice, Tick

-----------------------------------------------------------------------------
LEMMA CacheStep == TypeOK /\ CacheCovers /\ [Next]_vars => CacheCovers'
  <1> SUFFICES ASSUME TypeOK, NEW p \in Path, Covered(p), [Next]_vars PROVE Covered(p)'
    BY DEF CacheCovers
  <1> USE BoundAssumption DEF TypeOK, history
  <1>1. ASSUME NEW t \in Trader, SetDefault(t) PROVE Covered(p)'
    <2>1. CASE p = deal[t].path
      <3>1. clash'[p] = (clash[p] \/ now <= failed[p] + Backoff)
        BY <1>1, <2>1, Zenon DEF SetDefault
      <3>2. CASE clash'[p]
        BY <1>1, <2>1, <3>2 DEF SetDefault, Covered
      <3>3. CASE ~clash'[p]
        <4>1. ~(now <= failed[p] + Backoff)
          BY <3>1, <3>3, Zenon
        <4> QED
          BY <1>1, <2>1, <4>1 DEF SetDefault, Covered
      <3> QED
        BY <3>2, <3>3
    <2>2. CASE p # deal[t].path
      BY <1>1, <2>2 DEF SetDefault, Covered
    <2> QED
      BY <2>1, <2>2
  <1>2. ASSUME NEW t \in Trader, Fail(t) PROVE Covered(p)'
    <2>1. CASE p = deal[t].path
      BY <1>2, <2>1 DEF Fail, Covered
    <2>2. CASE p # deal[t].path
      BY <1>2, <2>2 DEF Fail, Covered
    <2> QED
      BY <2>1, <2>2
  <1>3. ASSUME UNCHANGED <<cache, history>>, now' \in Int, now <= now' PROVE Covered(p)'
    BY <1>3 DEF Covered
  <1>4. CASE Tick
    BY <1>3, <1>4 DEF Tick
  <1>5. ASSUME UNCHANGED <<now, cache, history>> PROVE Covered(p)'
    BY <1>3, <1>5
  <1> QED
    BY <1>1, <1>2, <1>4, <1>5
       DEF Next, TryTrade, SwapV2, vars, Find, Get, Size, SetPrice, PriceFails,
           EstimateGas, NonceAt, ReadGasPrice, ReadETHGasPrice,
           CheckLow, CheckFull, FinalCheckFails, Send, SendUnanswered, RpcFails, Fails,
           FetchGasPrice, FetchETHGasPrice, Mine

-----------------------------------------------------------------------------
(* A deal follows the prices: its own steps work on the prices as they     *)
(* are, and when a price moves the deal is marked.                         *)
LEMMA FollowsStep == TypeOK /\ NoncesUsedUp /\ DealsFollow /\ [Next]_vars => DealsFollow'
  <1> SUFFICES ASSUME TypeOK, NoncesUsedUp, NEW u \in Trader, Follows(u), [Next]_vars
               PROVE  Follows(u)'
    BY DEF DealsFollow
  <1> USE DEF TypeOK, Go, Return, node, history
  <1>1. ASSUME UNCHANGED prices, deal'[u] = deal[u], pc'[u] = pc[u] PROVE Follows(u)'
    BY <1>1 DEF Follows, prices, AboveMin, EstimateFee, TooGood, CoversLow, CoversFull, Danger,
                Spare, Gain, Checking
  <1>2. ASSUME pc'[u] \in {"idle", "get", "set", "size", "fail"} PROVE Follows(u)'
    BY <1>2 DEF Follows, Checking
  <1>3. ASSUME NEW t \in Trader, u # t, TryTrade(t) \/ SwapV2(t)
        PROVE  UNCHANGED prices /\ deal'[u] = deal[u] /\ pc'[u] = pc[u]
    BY <1>3 DEF TryTrade, SwapV2, Find, Get, SetDefault, Size, Fail, SetPrice, PriceFails, EstimateGas,
                NonceAt, ReadGasPrice, ReadETHGasPrice,
                CheckLow, CheckFull, FinalCheckFails, Send, SendUnanswered, RpcFails, Fails
  <1>4. ASSUME NEW p \in Path, NEW o \in Offer, Find(u, p, o) PROVE Follows(u)'
    BY <1>2, <1>4 DEF Find
  <1>5. ASSUME Get(u) \/ SetDefault(u) \/ Fail(u) \/ Send(u) \/ SendUnanswered(u) PROVE Follows(u)'
    BY <1>2, <1>5 DEF Get, SetDefault, Fail, Send, SendUnanswered
  <1>6. ASSUME PriceFails(u) \/ FinalCheckFails(u) \/ RpcFails(u) PROVE Follows(u)'
    BY <1>2, <1>6 DEF PriceFails, FinalCheckFails, RpcFails, Fails
  <1>7. ASSUME Size(u) PROVE Follows(u)'
    <2>1. CASE Return(u)
      BY <1>2, <2>1
    <2>2. ASSUME NEW a \in Sized(deal[u], ethGasPrice), pc' = [pc EXCEPT ![u] = "price"],
                 deal' = [deal EXCEPT ![u].amount = a, ![u].read = 0]
          PROVE  Follows(u)'
      <3> DEFINE d == [deal[u] EXCEPT !.amount = a, !.read = 0]
      <3>1. /\ deal[u] \in Deal /\ UNCHANGED prices
            /\ deal[u].moved \/ deal[u].read = gasPrice
        BY <1>7 DEF Size, NoncesUsedUp, Follows
      <3>2. a \in Amount /\ AboveMin(deal[u].offer[a], deal[u].path, deal[u].read, ethGasPrice)
        BY DEF Sized
      <3>3. deal'[u] = d /\ pc'[u] = "price"
        BY <2>2
      <3>4. /\ d.amount = a /\ d.offer = deal[u].offer /\ d.path = deal[u].path
            /\ d.moved = deal[u].moved
        BY <3>1 DEF Deal
      <3>5. d.moved \/ AboveMin(Gain(d), d.path, gasPrice, ethGasPrice)
        BY <3>1, <3>2, <3>4 DEF Gain
      <3>6. (deal[u].moved \/ AboveMin(Gain(deal[u]), deal[u].path, gasPrice, ethGasPrice))'
        BY <3>1, <3>3, <3>5 DEF prices, Gain, AboveMin, EstimateFee
      <3> QED
        BY <3>2, <3>3, <3>4, <3>6 DEF Follows, Checking
    <2> QED
      BY <1>7, <2>1, <2>2 DEF Size
  <1>8. ASSUME SetPrice(u) PROVE Follows(u)'
    <2> DEFINE d == [deal[u] EXCEPT !.price = gasPrice \div Share]
    <2>1. deal[u] \in Deal /\ UNCHANGED prices /\ gasPrice \div Share > 0
      BY <1>8 DEF SetPrice, NoncesUsedUp
    <2>2. deal'[u] = d /\ pc[u] = "price" /\ pc'[u] = "estimate"
      BY <1>8 DEF SetPrice
    <2>3. /\ d.amount = deal[u].amount /\ d.offer = deal[u].offer /\ d.path = deal[u].path
          /\ d.moved = deal[u].moved /\ d.price = gasPrice \div Share
      BY <2>1 DEF Deal
    <2> QED
      BY <2>1, <2>2, <2>3 DEF Follows, Checking, Gain, AboveMin, EstimateFee, prices
  <1>9. ASSUME EstimateGas(u) PROVE Follows(u)'
    <2> PICK g \in Used : deal' = [deal EXCEPT ![u].used = g]
      BY <1>9 DEF EstimateGas
    <2> DEFINE d == [deal[u] EXCEPT !.used = g]
    <2>1. deal[u] \in Deal /\ UNCHANGED prices
      BY <1>9 DEF EstimateGas, NoncesUsedUp
    <2>2. deal'[u] = d /\ pc[u] = "estimate" /\ pc'[u] = "nonce"
      BY <1>9 DEF EstimateGas
    <2>3. /\ d.amount = deal[u].amount /\ d.offer = deal[u].offer /\ d.path = deal[u].path
          /\ d.moved = deal[u].moved /\ d.price = deal[u].price /\ d.used = g
      BY <2>1 DEF Deal
    <2> QED
      BY <2>1, <2>2, <2>3 DEF Follows, Checking, Gain, AboveMin, EstimateFee, prices
  <1>10. ASSUME NonceAt(u) PROVE Follows(u)'
    <2> DEFINE d == [deal[u] EXCEPT !.nonce = mined]
    <2>1. deal[u] \in Deal /\ UNCHANGED prices
      BY <1>10 DEF NonceAt, NoncesUsedUp
    <2>2. deal'[u] = d /\ pc[u] = "nonce" /\ pc'[u] = "check"
      BY <1>10 DEF NonceAt
    <2>3. /\ d.amount = deal[u].amount /\ d.offer = deal[u].offer /\ d.path = deal[u].path
          /\ d.moved = deal[u].moved /\ d.price = deal[u].price /\ d.used = deal[u].used
      BY <2>1 DEF Deal
    <2> QED
      BY <2>1, <2>2, <2>3 DEF Follows, Checking, Gain, AboveMin, EstimateFee, prices
  <1>11. ASSUME CheckLow(u) PROVE Follows(u)'
    <2>1. /\ UNCHANGED <<prices, deal>> /\ pc[u] = "low" /\ pc'[u] = "full"
          /\ CoversLow(deal[u], deal[u].read)
      BY <1>11 DEF CheckLow
    <2> QED
      BY <2>1 DEF Follows, Checking, prices, Gain, AboveMin, EstimateFee, CoversLow, Spare
  <1>12. ASSUME ReadGasPrice(u) PROVE Follows(u)'
    <2>1. deal[u] \in Deal /\ UNCHANGED prices /\ gasPrice \in Nat \ {0}
      BY <1>12, PriceAssumption DEF ReadGasPrice, NoncesUsedUp
    <2>2. deal'[u] = [deal[u] EXCEPT !.read = gasPrice] /\ pc'[u] = "loop"
      BY <1>12 DEF ReadGasPrice
    <2>3. deal'[u].read = gasPrice /\ gasPrice' = gasPrice
      BY <2>1, <2>2 DEF Deal, prices
    <2> QED
      BY <2>1, <2>2, <2>3 DEF Follows, Checking
  <1>13. ASSUME ReadETHGasPrice(u) PROVE Follows(u)'
    <2> DEFINE d == [deal[u] EXCEPT !.read = ethGasPrice]
    <2>1. deal[u] \in Deal /\ UNCHANGED prices
      BY <1>13 DEF ReadETHGasPrice, NoncesUsedUp
    <2>2. deal'[u] = d /\ pc[u] = "check" /\ pc'[u] = "low"
      BY <1>13 DEF ReadETHGasPrice
    <2>3. /\ d.amount = deal[u].amount /\ d.offer = deal[u].offer /\ d.path = deal[u].path
          /\ d.moved = deal[u].moved /\ d.price = deal[u].price /\ d.used = deal[u].used
          /\ d.read = ethGasPrice
      BY <2>1 DEF Deal
    <2> QED
      BY <2>1, <2>2, <2>3 DEF Follows, Checking, Gain, AboveMin, EstimateFee, prices
  <1>14. ASSUME CheckFull(u) PROVE Follows(u)'
    <2> DEFINE d == [deal[u] EXCEPT !.read = 0]
    <2>1. deal[u] \in Deal /\ UNCHANGED prices
      BY <1>14 DEF CheckFull, NoncesUsedUp
    <2>2. /\ deal'[u] = d /\ pc[u] = "full" /\ pc'[u] = "send"
          /\ ~TooGood(deal[u], deal[u].read)
      BY <1>14 DEF CheckFull
    <2>3. /\ d.amount = deal[u].amount /\ d.offer = deal[u].offer /\ d.path = deal[u].path
          /\ d.moved = deal[u].moved /\ d.price = deal[u].price /\ d.used = deal[u].used
      BY <2>1 DEF Deal
    <2>4. deal[u].moved \/ ~TooGood(deal[u], ethGasPrice)
      BY <2>2 DEF Follows
    <2> QED
      BY <2>1, <2>2, <2>3, <2>4 DEF Follows, Checking, Gain, AboveMin, EstimateFee, prices, TooGood,
         CoversLow, CoversFull, Danger, Spare
  <1>15. ASSUME Moved, UNCHANGED pc PROVE Follows(u)'
    <2>1. CASE pc[u] = "loop"
      <3>1. deal[u] \in Deal /\ deal[u].read > 0
        BY <2>1 DEF NoncesUsedUp, Follows
      <3>2. deal'[u] = [deal[u] EXCEPT !.moved = TRUE]
        BY <1>15, <3>1, NoDealAssumption DEF Moved
      <3>3. deal'[u].moved /\ deal'[u].read > 0
        BY <3>1, <3>2 DEF Deal
      <3> QED
        BY <1>15, <2>1, <3>3 DEF Follows, Checking
    <2>2. CASE pc[u] \in {"price", "estimate", "nonce", "check", "low", "full", "send"}
      <3> DEFINE d == [deal[u] EXCEPT !.moved = TRUE]
      <3>1. deal[u] \in Deal /\ deal[u].amount \in Amount
        BY <2>2 DEF NoncesUsedUp, Follows, Checking
      <3>2. deal'[u] = d
        BY <1>15, <3>1, NoDealAssumption, PathAssumption DEF Moved
      <3>3. d.moved /\ d.amount = deal[u].amount /\ d.price = deal[u].price /\ d.used = deal[u].used
        BY <3>1 DEF Deal
      <3> QED
        BY <1>15, <2>2, <3>1, <3>2, <3>3 DEF Follows, Checking
    <2>3. CASE pc[u] \in {"idle", "get", "set", "size", "fail"}
      BY <1>2, <1>15, <2>3
    <2> QED
      BY <2>2, <2>3, <2>1
  <1>16. ASSUME NEW g \in GasPrice, FetchGasPrice(g) PROVE Follows(u)'
    BY <1>15, <1>16 DEF FetchGasPrice
  <1>17. ASSUME NEW e \in EthPrice, FetchETHGasPrice(e) PROVE Follows(u)'
    BY <1>15, <1>17 DEF FetchETHGasPrice
  <1>18. ASSUME \/ \E x \in pool : Mine(x)
                \/ Tick \/ UNCHANGED vars
         PROVE  Follows(u)'
    BY <1>1, <1>18 DEF Mine, Tick, vars
  <1>19. ASSUME NEW t \in Trader, TryTrade(t) \/ SwapV2(t) PROVE Follows(u)'
    <2>1. CASE u = t
      BY <1>4, <1>5, <1>6, <1>7, <1>8, <1>9, <1>10, <1>11, <1>19, <1>12,
         <1>13, <1>14, <2>1 DEF TryTrade, SwapV2
    <2>2. CASE u # t
      BY <1>1, <1>3, <1>19, <2>2
    <2> QED
      BY <2>1, <2>2
  <1> QED
    BY <1>16, <1>17, <1>18, <1>19 DEF Next

-----------------------------------------------------------------------------
LEMMA InvStep == TypeOK /\ Inv /\ OnePending /\ [Next]_vars => (TypeOK /\ Inv /\ OnePending)'
  BY TypeStep, NoncesStep, FollowsStep, CacheStep, PoolStep DEF Inv

(* Every reachable state of the traders, the cache and the node's pool is  *)
(* well typed.                                                             *)
THEOREM TypeCorrect == Spec => []TypeOK
  BY InitHolds, InvStep, PTL DEF Spec

(* Held nonces, the figures of a deal and the waits of the cache keep to   *)
(* the prices and the clock they came from.                                *)
THEOREM Invariant == Spec => []IInv
  BY InitHolds, InvStep, PTL DEF Spec, IInv

(* However many trades overlap, at most one transaction of the account     *)
(* waits in the node, and it is the next to be mined.                      *)
THEOREM NoQueue == Spec => []OnePending
  BY InitHolds, InvStep, PTL DEF Spec

-----------------------------------------------------------------------------
(* Where a goroutine may pass the cache, fail the last check or send.      *)
LEMMA StepsOf ==
  ASSUME TypeOK, [Next]_vars, NEW t \in Trader
  PROVE  /\ pc[t] = "get" /\ pc'[t] = "set" => ~Cached(deal[t].path)
         /\ pc[t] \in {"check", "low", "full"} /\ pc'[t] = "fail" =>
              \/ pc[t] = "low" /\ ~CoversLow(deal[t], deal[t].read)
              \/ pc[t] = "full" /\ TooGood(deal[t], deal[t].read)
  <1> USE DEF TypeOK, Go, Return
  <1>1. ASSUME NEW u \in Trader, u # t, TryTrade(u) \/ SwapV2(u) PROVE pc'[t] = pc[t]
    BY <1>1 DEF TryTrade, SwapV2, Find, Get, SetDefault, Size, Fail, SetPrice, PriceFails, EstimateGas,
                NonceAt, ReadGasPrice, ReadETHGasPrice,
                CheckLow, CheckFull, FinalCheckFails, Send, SendUnanswered, RpcFails, Fails
  <1>2. ASSUME pc[t] = "get", pc'[t] = "set", TryTrade(t) \/ SwapV2(t) PROVE ~Cached(deal[t].path)
    BY <1>2 DEF TryTrade, SwapV2, Find, Get, SetDefault, Size, Fail, SetPrice, PriceFails, EstimateGas,
                NonceAt, ReadGasPrice, ReadETHGasPrice,
                CheckLow, CheckFull, FinalCheckFails, Send, SendUnanswered, RpcFails, Fails
  <1>3. ASSUME pc[t] \in {"check", "low", "full"}, pc'[t] = "fail", TryTrade(t) \/ SwapV2(t)
        PROVE  \/ pc[t] = "low" /\ ~CoversLow(deal[t], deal[t].read)
               \/ pc[t] = "full" /\ TooGood(deal[t], deal[t].read)
    BY <1>3 DEF TryTrade, SwapV2, Find, Get, SetDefault, Size, Fail, SetPrice, PriceFails, EstimateGas,
                NonceAt, ReadGasPrice, ReadETHGasPrice,
                CheckLow, CheckFull, FinalCheckFails, Send, SendUnanswered, RpcFails, Fails
  <1>4. ASSUME \/ \E g \in GasPrice : FetchGasPrice(g)
               \/ \E e \in EthPrice : FetchETHGasPrice(e)
               \/ \E x \in pool : Mine(x)
               \/ Tick \/ UNCHANGED vars
        PROVE  pc'[t] = pc[t]
    BY <1>4 DEF FetchGasPrice, FetchETHGasPrice, Mine, Tick, vars
  <1> QED
    BY <1>1, <1>2, <1>3, <1>4 DEF Next

LEMMA Spaced ==
  ASSUME TypeOK, Inv, [Next]_vars, NEW t \in Trader, pc[t] = "get", pc'[t] = "set"
  PROVE  LET p == deal[t].path IN
         /\ now > tried[p] + Minute
         /\ now > failed[p] + Backoff \/ clash[p]
  <1> DEFINE p == deal[t].path
  <1>1. p \in Path /\ Covered(p)
    BY DEF Inv, NoncesUsedUp, CacheCovers, Deal
  <1>2. now > cache[p]
    BY <1>1, StepsOf DEF Cached, TypeOK
  <1>3. now \in Nat /\ cache[p] \in Int /\ tried[p] \in Int /\ failed[p] \in Int
    BY <1>1, BoundAssumption DEF TypeOK
  <1>4. now > tried[p] + Minute
    BY <1>1, <1>2, <1>3, BoundAssumption DEF Covered, LongAgo
  <1>5. CASE failed[p] = LongAgo
    BY <1>3, <1>4, <1>5, BoundAssumption DEF LongAgo
  <1>6. CASE clash[p]
    BY <1>4, <1>6
  <1>7. CASE failed[p] + Backoff <= cache[p]
    BY <1>2, <1>3, <1>4, <1>7, BoundAssumption
  <1> QED
    BY <1>1, <1>5, <1>6, <1>7 DEF Covered

(* A path is tried again only after a minute, and after ten if it failed,  *)
(* unless a goroutine marked it in between.                                *)
THEOREM Spacing == Spec => RetriesSpaced
  <1>1. TypeOK /\ Inv /\ OnePending /\ [Next]_vars
        => [\A t \in Trader : pc[t] = "get" /\ pc'[t] = "set" =>
              LET p == deal[t].path IN
              /\ now > tried[p] + Minute
              /\ now > failed[p] + Backoff \/ clash[p]]_vars
    BY Spaced
  <1> QED
    BY <1>1, InitHolds, InvStep, PTL DEF Spec, RetriesSpaced

-----------------------------------------------------------------------------
(* The figures, one multiplication at a time.                              *)
LEMMA Margin ==
  ASSUME NEW g \in Int, NEW gas \in Int, NEW e \in Nat, NEW low \in Int,
         2 * g > 3 * (gas + e), 10 * g - 12 * e < 12 * low
  PROVE  5 * gas < 4 * low
  OBVIOUS

LEMMA CancelPrice ==
  ASSUME NEW x \in Nat, NEW y \in Nat, NEW g \in Nat \ {0}, 5 * (x * g) < 4 * (y * g)
  PROVE  5 * x < 4 * y
  <1>1. 5 * (x * g) = (5 * x) * g /\ 4 * (y * g) = (4 * y) * g
    OBVIOUS
  <1>2. ASSUME NEW m \in Nat, NEW n \in Nat, m * g < n * g PROVE m < n
    BY <1>2
  <1> QED
    BY <1>1, <1>2

LEMMA PaysShare ==
  ASSUME NEW s \in Nat \ {0}, NEW used \in Nat, NEW p \in Nat, NEW g \in Nat, NEW spare \in Int,
         s * p <= g, s * spare >= 12 * used * g
  PROVE  12 * used * p <= spare
  <1>1. 12 * used \in Nat
    OBVIOUS
  <1>2. ASSUME NEW m \in Nat PROVE m * (s * p) <= m * g
    BY <1>2
  <1>3. (12 * used) * (s * p) <= s * spare
    BY <1>1, <1>2
  <1>4. s * (12 * used * p) <= s * spare
    BY <1>3
  <1>5. ASSUME NEW a \in Int, NEW b \in Int, s * a <= s * b PROVE a <= b
    BY <1>5
  <1> QED
    BY <1>1, <1>4, <1>5

(* If no price moved since the amount was worked out, finalCheck refuses   *)
(* a trade only for a gas use above 5/4 of the table, or as too good.      *)
LEMMA Refused ==
  ASSUME TypeOK, Inv, NEW t \in Trader, ~deal[t].moved,
         \/ pc[t] = "low" /\ ~CoversLow(deal[t], deal[t].read)
         \/ pc[t] = "full" /\ TooGood(deal[t], deal[t].read)
  PROVE  CoversFull(deal[t], ethGasPrice) \/ 4 * deal[t].used > 5 * Gas[deal[t].path]
  <1> DEFINE d == deal[t]
             E == ethGasPrice * EthGas[d.path]
             G == Gain(d)
  <1>1. /\ d \in Deal /\ d.amount \in Amount /\ d.used \in Used /\ d.read = ethGasPrice
        /\ AboveMin(G, d.path, gasPrice, ethGasPrice)
    BY DEF Inv, NoncesUsedUp, DealsFollow, Follows, Checking
  <1>2. CASE TooGood(d, ethGasPrice)
    BY <1>2 DEF TooGood
  <1>3. CASE ~CoversLow(d, ethGasPrice)
    <2>1. /\ gasPrice \in Nat \ {0} /\ Share \in Nat \ {0} /\ E \in Nat /\ G \in Int
          /\ Gas[d.path] \in Nat /\ d.used \in Nat /\ ethGasPrice \in Nat /\ EthGas[d.path] \in Nat
      BY <1>1, PathAssumption, PriceAssumption, GainType, SpareType DEF TypeOK, Deal
    <2> HIDE DEF d, G
    <2>2. 2 * (Share * G) > 3 * (Gas[d.path] * gasPrice + Share * E)
      BY <1>1, <2>1 DEF AboveMin, EstimateFee
    <2>3. 10 * (Share * G) - 12 * (Share * E) < 12 * (d.used * gasPrice)
      BY <1>3, <2>1 DEF CoversLow, Spare, G
    <2>4. Share * G \in Int /\ Share * E \in Nat
      BY <2>1
    <2>5. Gas[d.path] * gasPrice \in Int /\ d.used * gasPrice \in Int
      BY <2>1
    <2>6. 5 * (Gas[d.path] * gasPrice) < 4 * (d.used * gasPrice)
      BY <2>2, <2>3, <2>4, <2>5, Margin
    <2>7. 5 * Gas[d.path] < 4 * d.used
      BY <2>1, <2>6, CancelPrice
    <2> QED
      BY <2>1, <2>7 DEF d
  <1> QED
    BY <1>1, <1>2, <1>3

(* finalCheck refuses a trade for these two causes only.                   *)
THEOREM Refusals == Spec => RefusedForCause
  <1>1. TypeOK /\ Inv /\ OnePending /\ [Next]_vars
        => [\A t \in Trader : pc[t] \in Checking \ {"send"} /\ pc'[t] = "fail" /\ ~deal[t].moved =>
              \/ CoversFull(deal[t], ethGasPrice)
              \/ 4 * deal[t].used > 5 * Gas[deal[t].path]]_vars
    <2> SUFFICES ASSUME TypeOK, Inv, Next, NEW t \in Trader,
                        pc[t] \in Checking \ {"send"}, pc'[t] = "fail", ~deal[t].moved
                 PROVE  \/ CoversFull(deal[t], ethGasPrice)
                        \/ 4 * deal[t].used > 5 * Gas[deal[t].path]
      BY DEF Checking
    <2>1. \/ pc[t] = "low" /\ ~CoversLow(deal[t], deal[t].read)
          \/ pc[t] = "full" /\ TooGood(deal[t], deal[t].read)
      BY StepsOf DEF Checking
    <2> QED
      BY <2>1, Refused
  <1> QED
    BY <1>1, InitHolds, InvStep, PTL DEF Spec, RefusedForCause

(* What is sent with no price moved pays for its gas, but not at the full  *)
(* gas price.                                                              *)
LEMMA Sent ==
  ASSUME TypeOK, Inv, NEW t \in Trader, pc[t] = "send", ~deal[t].moved
  PROVE  /\ 12 * deal[t].used * deal[t].price <= Spare(deal[t], ethGasPrice)
         /\ ~CoversFull(deal[t], ethGasPrice)
  <1> DEFINE d == deal[t]
  <1>1. /\ d \in Deal /\ d.amount \in Amount /\ d.used \in Used /\ d.price = gasPrice \div Share
        /\ CoversLow(d, ethGasPrice) /\ ~TooGood(d, ethGasPrice)
    BY DEF Inv, NoncesUsedUp, DealsFollow, Follows, Checking
  <1>2. /\ gasPrice \in Nat \ {0} /\ Share \in Nat \ {0} /\ d.used \in Nat \ {0}
        /\ Spare(d, ethGasPrice) \in Int
        /\ Gain(d) \in Int /\ ethGasPrice * EthGas[d.path] \in Nat
    BY <1>1, PriceAssumption, GainType, SpareType DEF TypeOK
  <1>3. d.price \in Nat /\ Share * d.price <= gasPrice
    BY <1>1, <1>2, ShareOf
  <1>4. 12 * d.used * d.price <= Spare(d, ethGasPrice)
    BY <1>1, <1>2, <1>3, PaysShare DEF CoversLow
  <1>5. ASSUME CoversFull(d, ethGasPrice) PROVE FALSE
    <2>1. d.used * gasPrice >= 1
      BY <1>2
    <2>2. Spare(d, ethGasPrice) >= 12
      BY <1>2, <1>5, <2>1 DEF CoversFull
    <2>3. ethGasPrice \in Nat /\ EthGas[d.path] \in Nat
      BY <1>1, PathAssumption, PriceAssumption DEF TypeOK, Deal
    <2>4. 12 * ethGasPrice * EthGas[d.path] >= 0
      BY <2>3
    <2>5. 10 * Gain(d) >= 12
      BY <1>2, <2>2, <2>3, <2>4 DEF Spare
    <2>6. Danger(d)
      BY <1>2, <2>5 DEF Danger
    <2> QED
      BY <1>1, <1>5, <2>6 DEF TooGood
  <1> QED
    BY <1>4, <1>5

(* What is sent with no price moved pays for its gas.                      *)
THEOREM Paying == Spec => SendsOnlyPaying
  <1>1. TypeOK /\ Inv /\ OnePending /\ [Next]_vars
        => [\A t \in Trader : pc[t] = "send" /\ Accepts(t) /\ ~deal[t].moved =>
              12 * deal[t].used * deal[t].price <= Spare(deal[t], ethGasPrice)]_vars
    BY Sent
  <1> QED
    BY <1>1, InitHolds, InvStep, PTL DEF Spec, SendsOnlyPaying

(* A trade that could pay the full gas price is never sent.                *)
THEOREM Modest == Spec => SendsOnlyModest
  <1>1. TypeOK /\ Inv /\ OnePending /\ [Next]_vars
        => [\A t \in Trader : pc[t] = "send" /\ Accepts(t) /\ ~deal[t].moved =>
              ~CoversFull(deal[t], ethGasPrice)]_vars
    BY Sent
  <1> QED
    BY <1>1, InitHolds, InvStep, PTL DEF Spec, SendsOnlyModest
=============================================================================
