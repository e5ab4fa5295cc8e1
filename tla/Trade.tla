-------------------------------- MODULE Trade --------------------------------
(***************************************************************************)
(* What becomes of a path the search has found: tryTrade of                *)
(* monitor/arbitrage/arbitrage.go, one goroutine per path found, and       *)
(* SwapV2, finalCheck and the gas price loop of monitor/trader/trader.go.  *)
(*                                                                         *)
(* Amounts are wei of WETH.  What a trade is good for, GetAmountsOut minus *)
(* the amount put in, is given by the snapshot the path was found in: an   *)
(* offer is that gain for every amount tryTrade tries.  The factors 1.5    *)
(* and 1.2 and the share 1/20 of the gas price are multiplied out, so that *)
(* everything is an integer.                                               *)
(*                                                                         *)
(* External: the node (gas prices, EstimateGas, nonces, its pool of        *)
(* pending transactions) and go-cache, as the code uses them.              *)
(***************************************************************************)
EXTENDS Integers, FiniteSets

CONSTANTS
  Trader,             \* goroutines running tryTrade
  Path,               \* paths, in the order of the cache key
  Gas, EthGas,        \* swapGas and swapBaseEthGas of a path's length
  Amount,             \* amounts tried, from the largest down
  Offer,              \* gains the snapshots may offer
  GasPrice, EthPrice, \* prices the two nodes may suggest, all > 0
  Used,               \* answers of EstimateGas
  Share,              \* 20: MinGasPrice is GasPrice / 20
  Ether,              \* 10^18
  Minute, Backoff,    \* 1 and 10 minutes
  MaxTime, MaxNonce,
  NoDeal

ASSUME PathAssumption ==
  /\ Gas \in [Path -> Nat \ {0}] /\ EthGas \in [Path -> Nat \ {0}]
  /\ Amount \subseteq Nat \ {0} /\ Offer \subseteq [Amount -> Int]
ASSUME PriceAssumption ==
  /\ GasPrice \subseteq Nat \ {0} /\ EthPrice \subseteq Nat \ {0}
  /\ Used \subseteq Nat \ {0} /\ Share \in Nat \ {0} /\ Ether \in Nat \ {0}
ASSUME BoundAssumption ==
  /\ Minute \in Nat /\ Backoff \in Nat /\ Minute <= Backoff
  /\ MaxTime \in Nat /\ MaxNonce \in Nat

VARIABLES
  now,
  cache,                  \* `duplicate`: path -> when its item expires
  gasPrice, ethGasPrice,  \* of the Trader
  mined,                  \* the account's nonce in the latest block
  pool,                   \* its transactions waiting in the node
  pc,
  deal,                   \* what a goroutine has worked out
  tried, failed,          \* history: when a path was last marked, last failed
  clash                   \* history: a mark has overwritten the wait after a failure

prices  == <<gasPrice, ethGasPrice>>
node    == <<mined, pool>>
history == <<tried, failed, clash>>
vars    == <<now, cache, prices, node, pc, deal, history>>

LongAgo == -Backoff - 1

(* `read`: the price a calculation has read first, 0 when none is under    *)
(* way; `moved`: history, a price changed since the amount was worked out.  *)
Deal == [path : Path, offer : Offer, amount : Amount \cup {0}, read : Nat, price : Nat,
         used : Used \cup {0}, nonce : 0 .. MaxNonce, moved : BOOLEAN]

ASSUME NoDealAssumption == NoDeal \notin Deal

Gain(d) == d.offer[d.amount]

Go(t, from, to) == pc[t] = from /\ pc' = [pc EXCEPT ![t] = to]

Return(t) ==
  /\ pc' = [pc EXCEPT ![t] = "idle"]
  /\ deal' = [deal EXCEPT ![t] = NoDeal]

(* Any error of SwapV2.                                                    *)
Fails(t, from) ==
  /\ Go(t, from, "fail")
  /\ UNCHANGED <<now, cache, prices, node, deal, history>>

-----------------------------------------------------------------------------
(***************************************************************************)
(* tryTrade.                                                               *)
(***************************************************************************)
Find(t, p, o) ==
  /\ Go(t, "idle", "get")
  /\ deal' = [deal EXCEPT ![t] = [path |-> p, offer |-> o, amount |-> 0, read |-> 0,
                                  price |-> 0, used |-> 0, nonce |-> 0, moved |-> FALSE]]
  /\ UNCHANGED <<now, cache, prices, node, history>>

Cached(p) == now <= cache[p]

Get(t) ==
  /\ pc[t] = "get"
  /\ IF Cached(deal[t].path) THEN Return(t)
     ELSE pc' = [pc EXCEPT ![t] = "set"] /\ UNCHANGED deal
  /\ UNCHANGED <<now, cache, prices, node, history>>

SetDefault(t) ==
  LET p == deal[t].path IN
  /\ Go(t, "set", "size")
  /\ cache' = [cache EXCEPT ![p] = now + Minute]
  /\ tried' = [tried EXCEPT ![p] = now]
  /\ clash' = [clash EXCEPT ![p] = @ \/ now <= failed[p] + Backoff]
  /\ UNCHANGED <<now, prices, node, deal, failed>>

(* EstimateFee, times Share; the least gain is one and a half of it.  The  *)
(* gas price g is read first (MinGasPrice), that of the base chain, e,     *)
(* after it; the loop itself reads nothing that others write.              *)
EstimateFee(p, g, e) == Gas[p] * g + Share * e * EthGas[p]

AboveFee(x, p, g, e) == Share * x > EstimateFee(p, g, e)  \* mutant: the factor 1.5 is missing

AboveMin(x, p, g, e) == 2 * Share * x > 3 * EstimateFee(p, g, e)

ReadGasPrice(t) ==
  /\ Go(t, "size", "loop")
  /\ deal' = [deal EXCEPT ![t].read = gasPrice]
  /\ UNCHANGED <<now, cache, prices, node, history>>

(* The loop takes the first amount that gains enough and gives up at the   *)
(* first that is itself below the least gain.                              *)
Sized(d, e) ==
  {a \in Amount :
     /\ AboveMin(d.offer[a], d.path, d.read, e)
     /\ \A b \in Amount : b > a =>
          /\ ~AboveMin(d.offer[b], d.path, d.read, e)
          /\ 2 * Share * b >= 3 * EstimateFee(d.path, d.read, e)}

Size(t) ==
  /\ pc[t] = "loop"
  /\ \/ Sized(deal[t], ethGasPrice) = {} /\ Return(t)
     \/ \E a \in Sized(deal[t], ethGasPrice) :
          /\ pc' = [pc EXCEPT ![t] = "price"]
          /\ deal' = [deal EXCEPT ![t].amount = a, ![t].read = 0]
  /\ UNCHANGED <<now, cache, prices, node, history>>

(* SwapV2 returned an error.  The count it is to wait for comes from the   *)
(* item of line 118, which is there only if tryTrade returned at once: it  *)
(* is always 1.                                                            *)
FailMinute(t) ==  \* mutant: the wait is the default one
  LET p == deal[t].path IN
  /\ pc[t] = "fail" /\ Return(t)
  /\ cache' = [cache EXCEPT ![p] = now + Minute]
  /\ failed' = [failed EXCEPT ![p] = now]
  /\ clash' = [clash EXCEPT ![p] = FALSE]
  /\ UNCHANGED <<now, prices, node, tried>>

Fail(t) ==
  LET p == deal[t].path IN
  /\ pc[t] = "fail" /\ Return(t)
  /\ cache' = [cache EXCEPT ![p] = now + Backoff]
  /\ failed' = [failed EXCEPT ![p] = now]
  /\ clash' = [clash EXCEPT ![p] = FALSE]
  /\ UNCHANGED <<now, prices, node, tried>>

-----------------------------------------------------------------------------
(***************************************************************************)
(* SwapV2.  The transaction is signed with the price of SetPrice and the   *)
(* nonce of NonceAt; what finalCheck answers is assigned to the call only. *)
(***************************************************************************)
SetPrice(t) ==
  /\ gasPrice \div Share > 0
  /\ Go(t, "price", "estimate")
  /\ deal' = [deal EXCEPT ![t].price = gasPrice \div Share]
  /\ UNCHANGED <<now, cache, prices, node, history>>

PriceFails(t) == gasPrice \div Share <= 0 /\ Fails(t, "price")

EstimateGas(t) ==
  /\ Go(t, "estimate", "nonce")
  /\ \E u \in Used : deal' = [deal EXCEPT ![t].used = u]
  /\ UNCHANGED <<now, cache, prices, node, history>>

NonceAtPending(t) ==  \* mutant: PendingNonceAt
  /\ Go(t, "nonce", "check")
  /\ mined + Cardinality(pool) <= MaxNonce
  /\ deal' = [deal EXCEPT ![t].nonce = mined + Cardinality(pool)]
  /\ UNCHANGED <<now, cache, prices, node, history>>

NonceAt(t) ==
  /\ Go(t, "nonce", "check")
  /\ deal' = [deal EXCEPT ![t].nonce = mined]
  /\ UNCHANGED <<now, cache, prices, node, history>>

(* finalCheck, times 12: fee is gain / 1.2, Spare what is left of it for   *)
(* gas after the charge of the base chain.  It reads the price e of the    *)
(* base chain, then the gas price for the lowest price and once more for   *)
(* the full one.                                                           *)
Spare(d, e) == 10 * Gain(d) - 12 * e * EthGas[d.path]

CoversOneGas(d, e) == Share * Spare(d, e) >= 12 * gasPrice  \* mutant: not divided by gasUsed

CoversLow(d, e) == Share * Spare(d, e) >= 12 * d.used * gasPrice
CoversFull(d, e) == Spare(d, e) >= 12 * d.used * gasPrice

DangerInEther(d) == 10000 * Gain(d) > 12 * Ether  \* mutant: 0.001 is meant in ether

Danger(d) == 10000 * Gain(d) > 12

TooGood(d, e) == CoversFull(d, e) /\ Danger(d)

ReadETHGasPrice(t) ==
  /\ Go(t, "check", "low")
  /\ deal' = [deal EXCEPT ![t].read = ethGasPrice]
  /\ UNCHANGED <<now, cache, prices, node, history>>

CheckLow(t) ==
  /\ Go(t, "low", "full")
  /\ CoversLow(deal[t], deal[t].read)
  /\ UNCHANGED <<now, cache, prices, node, deal, history>>

CheckFull(t) ==
  /\ Go(t, "full", "send")
  /\ ~TooGood(deal[t], deal[t].read)
  /\ deal' = [deal EXCEPT ![t].read = 0]
  /\ UNCHANGED <<now, cache, prices, node, history>>

FinalCheckFails(t) ==
  \/ Fails(t, "low") /\ ~CoversLow(deal[t], deal[t].read)
  \/ Fails(t, "full") /\ TooGood(deal[t], deal[t].read)

(* The node takes a transaction whose nonce is not used up; one with the   *)
(* same nonce that it holds is replaced, or stays (SendFails).             *)
Tx(t) == [nonce |-> deal[t].nonce, price |-> deal[t].price, path |-> deal[t].path]

Accepts(t) ==
  /\ deal[t].nonce >= mined
  /\ pool' = {x \in pool : x.nonce # deal[t].nonce} \cup {Tx(t)}

Send(t) ==
  /\ pc[t] = "send"
  /\ Accepts(t)
  /\ Return(t)
  /\ UNCHANGED <<now, cache, prices, mined, history>>

(* The transaction arrived, its answer did not.                            *)
SendUnanswered(t) ==
  /\ Go(t, "send", "fail")
  /\ Accepts(t)
  /\ UNCHANGED <<now, cache, prices, mined, deal, history>>

RpcFails(t) == \E at \in {"estimate", "nonce", "send"} : Fails(t, at)

-----------------------------------------------------------------------------
(***************************************************************************)
(* The gas price loop, the node and the clock.                             *)
(***************************************************************************)
Moved == deal' = [t \in Trader |->
                    IF deal[t] = NoDeal \/ (deal[t].amount = 0 /\ deal[t].read = 0)
                      THEN deal[t] ELSE [deal[t] EXCEPT !.moved = TRUE]]

FetchGasPrice(g) ==
  /\ g # gasPrice
  /\ gasPrice' = g /\ Moved
  /\ UNCHANGED <<now, cache, ethGasPrice, node, pc, history>>

FetchETHGasPrice(e) ==
  /\ e # ethGasPrice
  /\ ethGasPrice' = e /\ Moved
  /\ UNCHANGED <<now, cache, gasPrice, node, pc, history>>

Mine(x) ==
  /\ x.nonce = mined /\ mined < MaxNonce
  /\ mined' = mined + 1
  /\ pool' = {y \in pool : y.nonce > mined}
  /\ UNCHANGED <<now, cache, prices, pc, deal, history>>

Tick ==
  /\ now < MaxTime
  /\ now' = now + 1
  /\ UNCHANGED <<cache, prices, node, pc, deal, history>>

-----------------------------------------------------------------------------
Init ==
  /\ now = 0 /\ cache = [p \in Path |-> LongAgo]
  /\ gasPrice \in GasPrice /\ ethGasPrice \in EthPrice
  /\ mined = 0 /\ pool = {}
  /\ pc = [t \in Trader |-> "idle"] /\ deal = [t \in Trader |-> NoDeal]
  /\ tried = [p \in Path |-> LongAgo] /\ failed = [p \in Path |-> LongAgo]
  /\ clash = [p \in Path |-> FALSE]

TryTrade(t) ==
  \/ \E p \in Path, o \in Offer : Find(t, p, o)
  \/ Get(t) \/ SetDefault(t) \/ ReadGasPrice(t) \/ Size(t) \/ Fail(t)

SwapV2(t) ==
  \/ SetPrice(t) \/ PriceFails(t) \/ EstimateGas(t) \/ NonceAt(t)
  \/ ReadETHGasPrice(t) \/ CheckLow(t) \/ CheckFull(t) \/ FinalCheckFails(t)
  \/ Send(t) \/ SendUnanswered(t) \/ RpcFails(t)

Next ==
  \/ \E t \in Trader : TryTrade(t) \/ SwapV2(t)
  \/ \E g \in GasPrice : FetchGasPrice(g)
  \/ \E e \in EthPrice : FetchETHGasPrice(e)
  \/ \E x \in pool : Mine(x)
  \/ Tick

Spec == Init /\ [][Next]_vars

-----------------------------------------------------------------------------
TypeOK ==
  /\ now \in 0 .. MaxTime
  /\ cache \in [Path -> Int]
  /\ gasPrice \in GasPrice /\ ethGasPrice \in EthPrice
  /\ mined \in 0 .. MaxNonce
  /\ pool \subseteq [nonce : 0 .. MaxNonce, price : Nat \ {0}, path : Path]
  /\ pc \in [Trader -> {"idle", "get", "set", "size", "loop", "price", "estimate", "nonce",
                        "check", "low", "full", "send", "fail"}]
  /\ deal \in [Trader -> Deal \cup {NoDeal}]
  /\ tried \in [Path -> Int] /\ failed \in [Path -> Int] /\ clash \in [Path -> BOOLEAN]

(* However many trades overlap, the node holds at most one transaction of  *)
(* the account, and the next one to be mined: no trade waits in line with  *)
(* reserves that the one before it will have changed.                      *)
OnePending ==
  /\ \A x \in pool : x.nonce = mined
  /\ \A x, y \in pool : x = y

(* The strengthening that carries the rest: a nonce a goroutine still holds *)
(* is never ahead of the chain, ...                                        *)
NoncesUsedUp ==
  \A t \in Trader : pc[t] # "idle" => deal[t] \in Deal /\ deal[t].nonce <= mined

(* ... a deal holds what its steps so far have worked out, and while no    *)
(* price moves this agrees with the prices, ...                            *)
Checking == {"check", "low", "full", "send"}

Follows(t) ==
  LET d == deal[t] IN
  /\ pc[t] = "loop" => d.read > 0 /\ (d.moved \/ d.read = gasPrice)
  /\ pc[t] \in {"price", "estimate", "nonce"} \cup Checking =>
       d.amount \in Amount /\ (d.moved \/ AboveMin(Gain(d), d.path, gasPrice, ethGasPrice))
  /\ pc[t] \in {"estimate", "nonce"} \cup Checking =>
       d.price > 0 /\ (d.moved \/ d.price = gasPrice \div Share)
  /\ pc[t] \in {"nonce"} \cup Checking => d.used \in Used
  /\ pc[t] \in {"low", "full"} => d.moved \/ d.read = ethGasPrice
  /\ pc[t] \in {"full", "send"} => d.moved \/ CoversLow(d, ethGasPrice)
  /\ pc[t] = "send" => d.moved \/ ~TooGood(d, ethGasPrice)

DealsFollow == \A t \in Trader : Follows(t)

(* ... and an item of the cache covers the wait it was set for, except     *)
(* after a clash.                                                          *)
Covered(p) ==
  /\ tried[p] <= now /\ failed[p] <= now
  /\ tried[p] = LongAgo \/ tried[p] + Minute <= cache[p]
  /\ failed[p] = LongAgo \/ clash[p] \/ failed[p] + Backoff <= cache[p]

CacheCovers == \A p \in Path : Covered(p)

Inv == NoncesUsedUp /\ DealsFollow /\ CacheCovers

(* Held nonces, the figures of a deal and the waits of the cache keep to   *)
(* the prices and the clock they came from.                                *)
IInv == TypeOK /\ Inv

(* A path is tried again only after a minute, and after ten if it failed,  *)
(* unless a goroutine that had looked at the cache before (arbitrage.go    *)
(* 118) marked the path after the failure, and so cut the wait short.      *)
RetriesSpaced ==
  [][\A t \in Trader : pc[t] = "get" /\ pc'[t] = "set" =>
       LET p == deal[t].path IN
       /\ now > tried[p] + Minute
       /\ now > failed[p] + Backoff \/ clash[p]]_vars

(* If no price moved since tryTrade worked out the amount, finalCheck      *)
(* refuses a trade for two reasons only: the node wants over 5/4 of the    *)
(* gas in the table of swapGas, or the trade is too good.                  *)
RefusedForCause ==
  [][\A t \in Trader : pc[t] \in Checking \ {"send"} /\ pc'[t] = "fail" /\ ~deal[t].moved =>
       \/ CoversFull(deal[t], ethGasPrice)
       \/ 4 * deal[t].used > 5 * Gas[deal[t].path]]_vars

(* A trade that is sent pays for its gas at the price it was signed with,  *)
(* unless a price moved since its amount was worked out.                   *)
SendsOnlyPaying ==
  [][\A t \in Trader : pc[t] = "send" /\ Accepts(t) /\ ~deal[t].moved =>
       12 * deal[t].used * deal[t].price <= Spare(deal[t], ethGasPrice)]_vars

(* The danger branch of finalCheck compares a fee in wei with 0.001: a     *)
(* trade that could pay the full gas price is never sent.                  *)
SendsOnlyModest ==
  [][\A t \in Trader : pc[t] = "send" /\ Accepts(t) /\ ~deal[t].moved =>
       ~CoversFull(deal[t], ethGasPrice)]_vars
=============================================================================
