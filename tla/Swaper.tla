-------------------------------- MODULE Swaper --------------------------------
(***************************************************************************)
(* A trade from the goroutine that sends it to the pools: SwapV2 of        *)
(* monitor/trader/trader.go packs an amount and a path into bytes,         *)
(* swaper/contracts/Swaper.sol unpacks them, asks every pool of the path   *)
(* for its price and swaps through them, and the pools                     *)
(* (swaper/contracts/Pair.sol) check what they are paid.  The fees of the  *)
(* pools are those protocol/uniswapv2.go works out from the swaps it sees. *)
(* Several trades may be under way, and anyone may swap between the        *)
(* estimate of a trade and the block it is mined in.                       *)
(*                                                                         *)
(* Numbers keep their width: a byte holds Byte values, an amount           *)
(* AmountBytes of them (10 in the code), an int64 values up to MaxInt, and *)
(* fees are in parts of Base (10000).  Between transactions the reserves   *)
(* of a pool are its balances: nobody sends tokens to a pool but to swap.  *)
(***************************************************************************)
EXTENDS Integers, Sequences, SequencesExt

CONSTANTS
  Trader,              \* goroutines inside SwapV2
  Token, WETH,
  Pool, Ends,          \* Pool -> <<token0, token1>>
  Address,             \* Pool -> number
  Account,             \* holder of the WETH that is traded
  Path,                \* sequences of distinct pools that lead from WETH to WETH
  Fee,                 \* Pool -> fees its file may give the pool
  TrueFee,             \* Pool -> fee the pool really takes
  Base,
  DefaultFee, RoundFees, StableAbove, StableFee, StableGrowth,  \* of CalculatePairFee
  Precision,           \* of its floats
  Input,               \* inputAmount of SwapV2, cut to an integer
  MaxInt,
  Byte, AmountBytes, AddressBytes, FeeBytes,
  Start,               \* what every pool and the account hold at first
  Other, MaxMoves      \* amounts others pay a pool or the account, and how often

(* createPair of Pair.sol refuses a pair of a token and itself; its first  *)
(* mint leaves a pool with both tokens for ever.                           *)
ASSUME PoolAssumption ==
  /\ Ends \in [Pool -> Token \X Token] /\ WETH \in Token /\ Account \notin Pool
  /\ \A p \in Pool : Ends[p][1] # Ends[p][2]
  /\ Start \in [Pool \cup {Account} -> [Token -> Nat]]
  /\ \A p \in Pool : Start[p][Ends[p][1]] = 0 <=> Start[p][Ends[p][2]] = 0
  /\ Base \in Nat \ {0} /\ Fee \in [Pool -> SUBSET (0 .. Base - 1)] /\ TrueFee \in [Pool -> 0 .. Base - 1]
  /\ DefaultFee \in 0 .. Base - 1 /\ RoundFees \subseteq 1 .. Base - 1
  /\ StableAbove \in Nat /\ StableGrowth \in Nat /\ Precision \in Nat \ {0}
  /\ StableFee \in 1 .. Base - 1 /\ StableFee + 1 \notin RoundFees
  /\ Other \in [Pool \cup {Account} -> SUBSET (Nat \ {0})] /\ MaxMoves \in Nat
(* What findArbitrage returns (SwapGraph): a walk through distinct pools.  *)
ASSUME PathAssumption ==
  \A path \in Path :
    /\ path \in Seq(Pool) /\ path # <<>>
    /\ \A i, j \in 1 .. Len(path) : path[i] = path[j] => i = j
    /\ \E at \in [1 .. Len(path) + 1 -> Token] :
         /\ at[1] = WETH /\ at[Len(path) + 1] = WETH
         /\ \A i \in 1 .. Len(path) : <<at[i], at[i + 1]>> \in
              {Ends[path[i]], <<Ends[path[i]][2], Ends[path[i]][1]>>}

VARIABLES
  ledger,   \* holder -> token -> balance
  learned,  \* pool -> Fee of its UniswapV2Pair
  pc,
  chosen,   \* inputAmount, pair path and fees of a trade
  param,    \* the bytes in its transaction
  moves

vars == <<ledger, learned, pc, chosen, param, moves>>

Token0(p) == Ends[p][1]
Token1(p) == Ends[p][2]

Opposite(p, x) == IF Token0(p) = x THEN Token1(p) ELSE Token0(p)

-----------------------------------------------------------------------------
(***************************************************************************)
(* CalculatePairFee, for a swap that took the reserves of p from pr to r:  *)
(* what the smaller reserve has too much, as a share of what it has        *)
(* changed by.  The code works in float64 and subtracts numbers that are   *)
(* nearly equal: each of its differences is off by up to one part in       *)
(* Precision of what the pool held before, so it may come to several fees. *)
(***************************************************************************)
Gap(x, y) == IF x < y THEN y - x ELSE x - y

CeilDiv(n, d) == (n + d - 1) \div d

Capped(a, most) == IF a > most THEN most ELSE a

(* The tokens that may be taken for the one the pool held less of.         *)
Smaller(p, pr) ==
  {x \in {Token0(p), Token1(p)} : (pr[x] - pr[Opposite(p, x)]) * Precision <= pr[x]}

SharesDown(x, y, pr, r) ==  \* mutant: the share is rounded down
  LET grown   == Precision * Gap(r[x] * r[y], pr[x] * pr[y])
      changed == Precision * Gap(r[x], pr[x])
  IN IF changed <= pr[x] THEN 0 .. Base
     ELSE {share \in 0 .. Base :
             /\ share >= Capped((Base * (grown - pr[x] * pr[y])) \div (pr[y] * (changed + pr[x])), Base)
             /\ share <= (Base * (grown + pr[x] * pr[y])) \div (pr[y] * (changed - pr[x]))}

(* The shares, in parts of Base and rounded up; Base stands for more, too. *)
Shares(x, y, pr, r) ==
  LET grown   == Precision * Gap(r[x] * r[y], pr[x] * pr[y])
      changed == Precision * Gap(r[x], pr[x])
  IN IF changed <= pr[x] THEN 0 .. Base
     ELSE {share \in 0 .. Base :
             /\ share >= Capped(CeilDiv(Base * (grown - pr[x] * pr[y]), pr[y] * (changed + pr[x])), Base)
             /\ share <= CeilDiv(Base * (grown + pr[x] * pr[y]), pr[y] * (changed - pr[x]))}

Quartic(x, y) == x^3 * y + y^3 * x

(* The invariant of a stable pool has grown, but by little.  What the test *)
(* may say: the growths it lets through spread wider than the error.       *)
LooksStable(x, y, pr, r) ==
  LET before == Quartic(pr[x], pr[y])
      growth == Quartic(r[x], r[y]) - before
      error  == CeilDiv(before, Precision)
  IN {g > 0 /\ g * StableGrowth < before : g \in {growth - error, growth + error}}

FixFee(fee) == IF fee + 1 \in RoundFees THEN fee + 1 ELSE fee

FeeOf(share, stable) ==
  LET fee == IF share > StableAbove /\ stable THEN StableFee ELSE share
  IN IF fee \in 1 .. Base - 1 THEN FixFee(fee) ELSE DefaultFee

CalculatePairFee(p, pr, r) ==
  {FeeOf(share, stable) :
     share \in UNION {Shares(x, Opposite(p, x), pr, r) : x \in Smaller(p, pr)},
     stable \in LooksStable(Token0(p), Token1(p), pr, r)}

(* A transaction takes the balances to l.  Of each pool it swaps in, the   *)
(* fee is learned, or another swap or no Sync stands before it in a batch. *)
Learn(l) ==
  LET swapped == {p \in Pool : l[p] # ledger[p]}
      fees    == [p \in swapped |-> {learned[p]} \cup CalculatePairFee(p, ledger[p], l[p])]
  IN \E now \in [swapped -> UNION Range(fees)] :
       /\ \A p \in swapped : now[p] \in fees[p]
       /\ learned' = [p \in Pool |-> IF p \in swapped THEN now[p] ELSE learned[p]]

-----------------------------------------------------------------------------
(***************************************************************************)
(* SwapV2: the parameter of the contract.                                  *)
(***************************************************************************)
(* The number v without its last n digits, and its last n digits.          *)
Without(v, n) ==
  LET rest[i \in 0 .. n] == IF i = 0 THEN v ELSE rest[i - 1] \div Byte
  IN rest[n]

Digits(v, n) == [i \in 1 .. n |-> Without(v, n - i) % Byte]

Short(v, n) == v \in Nat /\ Without(v, n) = 0

ASSUME WidthAssumption ==
  /\ \A p, q \in Pool : Address[p] = Address[q] => p = q
  /\ Byte \in Nat /\ Byte > 1
  /\ {AmountBytes, AddressBytes, FeeBytes} \subseteq Nat \ {0}
  /\ Input \subseteq Nat /\ MaxInt \in Nat
  /\ \A v \in 0 .. MaxInt : Short(v, AmountBytes)
  /\ \A p \in Pool : Short(Address[p], AddressBytes)
  /\ \A fee \in 0 .. Base - 1 : Short(fee, FeeBytes)

(* int64() of a float64 that is too large: the smallest int64 on amd64,    *)
(* the largest on arm64.                                                   *)
Int64(v) == IF v <= MaxInt THEN {v} ELSE {MaxInt, -MaxInt - 1}

Sign == -1

AmountAsTwos(v) ==  \* mutant: a negative amount in two's complement
  Digits(IF v < 0 THEN Byte^AmountBytes + v ELSE v, AmountBytes)

AmountParam(v) == IF v < 0 THEN <<Sign>> \o Digits(-v, AmountBytes) ELSE Digits(v, AmountBytes)

(* FromHex keeps what it has read before a character that is no digit.     *)
FromHex(s) ==
  LET bad == {i \in DOMAIN s : s[i] = Sign}
  IN IF bad = {} THEN s ELSE SubSeq(s, 1, Min(bad) - 1)

(* inAddr, before the first pair, after the first, ...                     *)
InAddrStuck(path) ==  \* mutant: inAddr is not moved on
  [i \in 1 .. Len(path) + 1 |-> WETH]

InAddr(path) ==
  LET addr[i \in 1 .. Len(path) + 1] ==
        IF i = 1 THEN WETH ELSE Opposite(path[i - 1], addr[i - 1])
  IN addr

PairParamThirty(p, up, fee) ==  \* mutant: the least fee there is, not the pair's own
  Digits(Address[p], AddressBytes) \o <<IF up THEN 1 ELSE 0>> \o Digits(0, FeeBytes)

PairParam(p, up, fee) ==
  Digits(Address[p], AddressBytes) \o <<IF up THEN 1 ELSE 0>> \o Digits(fee, FeeBytes)

(* paramStr, pair by pair.                                                 *)
ParamStr(c, v) ==
  LET str[i \in 0 .. Len(c.path)] ==
        IF i = 0 THEN AmountParam(v)
        ELSE str[i - 1] \o PairParam(c.path[i], Token0(c.path[i]) = InAddr(c.path)[i], c.fees[i])
  IN str[Len(c.path)]

Params(c) == {FromHex(ParamStr(c, v)) : v \in Int64(c.input)}

-----------------------------------------------------------------------------
(***************************************************************************)
(* Swaper.swap: the parameter is taken apart again.                        *)
(***************************************************************************)
Number(s) ==
  LET read[i \in 0 .. Len(s)] == IF i = 0 THEN 0 ELSE read[i - 1] * Byte + s[i]
  IN read[Len(s)]

LegBytes == AddressBytes + 1 + FeeBytes

LegCount(s) == (Len(s) - AmountBytes) \div LegBytes

AmountIn(s) == Number(SubSeq(s, 1, AmountBytes))

Routes(s) ==
  [i \in 1 .. LegCount(s) |->
     LET at == AmountBytes + LegBytes * (i - 1) IN
     [pair |-> Number(SubSeq(s, at + 1, at + AddressBytes)),
      direction |-> s[at + AddressBytes + 1] # 0,
      fee |-> Number(SubSeq(s, at + AddressBytes + 2, at + LegBytes))]]

-----------------------------------------------------------------------------
(***************************************************************************)
(* Swaper._swap on a ledger.  A transaction in the middle is the balances, *)
(* the reserves the pools have on record, and the first error.             *)
(***************************************************************************)
At(n) == CHOOSE p \in Pool : Address[p] = n

In(g)  == IF g.direction THEN Token0(At(g.pair)) ELSE Token1(At(g.pair))
Out(g) == IF g.direction THEN Token1(At(g.pair)) ELSE Token0(At(g.pair))

GetAmountOutFree(a, in, out, fee) ==  \* mutant: the amount, without its fee, below the line
  (a * (Base - fee) * out) \div (in * Base + a * Base)

(* A division by 0 reverts; here the quote 0 makes the trade revert.       *)
GetAmountOut(a, in, out, fee) ==
  LET paid == a * (Base - fee)
      sum  == in * Base + paid
  IN IF sum = 0 THEN 0 ELSE (paid * out) \div sum

(* amountIn, followed by amounts.                                          *)
GetAmountsOut(l, a, routes) ==
  LET amounts[i \in 1 .. Len(routes) + 1] ==
        IF i = 1 THEN a
        ELSE LET g == routes[i - 1]
                 r == l[At(g.pair)]
             IN GetAmountOut(amounts[i - 1], r[In(g)], r[Out(g)], g.fee)
  IN amounts

Transfer(bal, from, to, x, a) == [bal EXCEPT ![from][x] = @ - a, ![to][x] = @ + a]

Excess(balance, kept) == IF balance > kept THEN balance - kept ELSE 0

Adjusted(balance, paid, fee) == balance * Base - paid * fee

(* Pair.swap(...) for `a` of token Out(g), sent to `to`.                   *)
PairSwap(s, g, a, to) ==
  LET p   == At(g.pair)
      in  == s.reserve[p][In(g)]
      out == s.reserve[p][Out(g)]
      bal == Transfer(s.bal, p, to, Out(g), a)
      paidIn  == Excess(bal[p][In(g)], in)
      paidOut == Excess(bal[p][Out(g)], out - a)
      k == Adjusted(bal[p][In(g)], paidIn, TrueFee[p]) * Adjusted(bal[p][Out(g)], paidOut, TrueFee[p])
  IN IF s.error # "none" THEN s
     ELSE IF a > 0 /\ a < out /\ (paidIn > 0 \/ paidOut > 0) /\ k >= in * out * Base * Base
     THEN [bal |-> bal, reserve |-> [s.reserve EXCEPT ![p] = bal[p]], error |-> "none"]
     ELSE [s EXCEPT !.error = "pair"]

Legs(s, routes, amounts) ==
  LET n == Len(routes)
      legs[i \in 0 .. n] ==
        IF i = 0 THEN s
        ELSE PairSwap(legs[i - 1], routes[i], amounts[i + 1],
                      IF i = n THEN Account ELSE At(routes[i + 1].pair))
  IN legs[n]

(* transferFrom, external, moves no more than there is.                     *)
Paid(l, a, routes) ==
  [bal |-> Transfer(l, Account, At(routes[1].pair), WETH, a), reserve |-> l,
   error |-> IF a > l[Account][WETH] THEN "transfer" ELSE "none"]

SwapTrusting(l, amountIn, routes) ==  \* mutant: both checks are left to the estimate
  LET a == Capped(amountIn, l[Account][WETH])
  IN Legs(Paid(l, a, routes), routes, GetAmountsOut(l, a, routes))

Swap(l, amountIn, routes) ==
  LET balance == l[Account][WETH]
      a       == Capped(amountIn, balance)
      amounts == GetAmountsOut(l, a, routes)
      last    == Legs(Paid(l, a, routes), routes, amounts)
  IN [last EXCEPT !.error =
        IF Last(amounts) <= a THEN "quote"
        ELSE IF @ = "none" /\ last.bal[Account][WETH] <= balance THEN "balance" ELSE @]

(* The transaction with parameter s.  What is not a whole leg is not read; *)
(* without a leg, or with a pair where there is none, a call reverts.      *)
Execute(l, s) ==
  IF /\ Len(s) >= AmountBytes + LegBytes
     /\ \A i \in 1 .. LegCount(s) : \E p \in Pool : Address[p] = Routes(s)[i].pair
  THEN Swap(l, AmountIn(s), Routes(s))
  ELSE [bal |-> l, reserve |-> l, error |-> "params"]

Reverts(l, s) == Execute(l, s).error # "none"

-----------------------------------------------------------------------------
Pack(t, v, path) ==
  LET c == [input |-> v, path |-> path, fees |-> [i \in DOMAIN path |-> learned[path[i]]]] IN
  /\ pc[t] = "idle" /\ pc' = [pc EXCEPT ![t] = "packed"]
  /\ chosen' = [chosen EXCEPT ![t] = c]
  /\ \E s \in Params(c) : param' = [param EXCEPT ![t] = s]
  /\ UNCHANGED <<ledger, learned, moves>>

Estimate(t) ==
  /\ pc[t] = "packed" /\ ~Reverts(ledger, param[t])
  /\ pc' = [pc EXCEPT ![t] = "sent"]
  /\ UNCHANGED <<ledger, learned, chosen, param, moves>>

Return(t) ==
  /\ pc' = [pc EXCEPT ![t] = "idle"]
  /\ chosen' = [chosen EXCEPT ![t] = <<>>] /\ param' = [param EXCEPT ![t] = <<>>]

(* The estimate or a later step of SwapV2 fails, or the transaction is     *)
(* replaced by another.                                                    *)
Dropped(t) ==
  /\ pc[t] \in {"packed", "sent"} /\ Return(t)
  /\ UNCHANGED <<ledger, learned, moves>>

Mine(t) ==
  /\ pc[t] = "sent" /\ Return(t)
  /\ ledger' = IF Reverts(ledger, param[t]) THEN ledger ELSE Execute(ledger, param[t]).bal
  /\ Learn(ledger')
  /\ UNCHANGED moves

(* Somebody else pays a of token x and takes what the pool gives for it.   *)
Someone(p, x, a) ==
  LET y == Opposite(p, x)
      b == GetAmountOut(a, ledger[p][x], ledger[p][y], TrueFee[p])
  IN /\ moves < MaxMoves /\ moves' = moves + 1
     /\ b > 0
     /\ ledger' = [ledger EXCEPT ![p][x] = @ + a, ![p][y] = @ - b]
     /\ Learn(ledger')
     /\ UNCHANGED <<pc, chosen, param>>

(* The account is topped up.                                               *)
TopUp(a) ==
  /\ moves < MaxMoves /\ moves' = moves + 1
  /\ ledger' = [ledger EXCEPT ![Account][WETH] = @ + a]
  /\ UNCHANGED <<learned, pc, chosen, param>>

Init ==
  /\ ledger = Start /\ moves = 0
  /\ learned \in {f \in [Pool -> UNION {Fee[p] : p \in Pool}] : \A p \in Pool : f[p] \in Fee[p]}
  /\ pc = [t \in Trader |-> "idle"]
  /\ chosen = [t \in Trader |-> <<>>] /\ param = [t \in Trader |-> <<>>]

Next ==
  \/ \E t \in Trader, v \in Input, path \in Path : Pack(t, v, path)
  \/ \E t \in Trader : Estimate(t) \/ Dropped(t) \/ Mine(t)
  \/ \E a \in Other[Account] : TopUp(a)
  \/ \E p \in Pool : \E a \in Other[p], x \in {Token0(p), Token1(p)} : Someone(p, x, a)

Spec == Init /\ [][Next]_vars

-----------------------------------------------------------------------------
Under(t) == pc[t] # "idle"

Fits(t) == chosen[t].input <= MaxInt

FeesCovered(t) == \A i \in DOMAIN chosen[t].path : chosen[t].fees[i] >= TrueFee[chosen[t].path[i]]
FeesExact(t) == \A i \in DOMAIN chosen[t].path : chosen[t].fees[i] = TrueFee[chosen[t].path[i]]

Trades ==
  {c \in [input : Input, path : Path, fees : Seq(0 .. Base - 1)] : Len(c.fees) = Len(c.path)}

TypeOK ==
  /\ ledger \in [Pool \cup {Account} -> [Token -> Nat]]
  /\ learned \in [Pool -> 0 .. Base - 1]
  /\ pc \in [Trader -> {"idle", "packed", "sent"}]
  /\ chosen \in [Trader -> {<<>>} \cup Trades] /\ param \in [Trader -> Seq(0 .. Byte - 1)]
  /\ \A t \in Trader : Under(t) => chosen[t] \in Trades
  /\ moves \in 0 .. MaxMoves

(* The contract reads the trade that SwapV2 was called with: its amount,   *)
(* its pools in their order, their fees, and directions in which each leg  *)
(* pays with the token the one before it has bought, from WETH to WETH.    *)
RouteKept ==
  \A t \in Trader : Under(t) /\ Fits(t) =>
    LET r == Routes(param[t])
        n == Len(chosen[t].path)
    IN /\ AmountIn(param[t]) = chosen[t].input
       /\ Len(r) = n
       /\ \A i \in 1 .. n : r[i].pair = Address[chosen[t].path[i]] /\ r[i].fee = chosen[t].fees[i]
       /\ In(r[1]) = WETH /\ Out(r[n]) = WETH
       /\ \A i \in 2 .. n : In(r[i]) = Out(r[i - 1])

(* A parameter stays what SwapV2 packed.                                   *)
Sealed == \A t \in Trader : Under(t) => param[t] \in Params(chosen[t])

(* No pool runs out of one of its tokens.                                  *)
Stocked == \A p \in Pool : ledger[p][Token0(p)] = 0 <=> ledger[p][Token1(p)] = 0

(* The state is well typed and Swaper.sol reads what SwapV2 wrote.         *)
IInv == TypeOK /\ Sealed /\ Stocked /\ RouteKept

(* Whenever it is estimated or mined, a trade whose learned fees are not   *)
(* below the true ones is turned down for its price only: the pools give   *)
(* what _swap has worked out beforehand, however the reserves, and what    *)
(* the account holds, have changed since.                                  *)
FailsOnlyOnPrice ==
  \A t \in Trader : Under(t) /\ Fits(t) /\ FeesCovered(t) =>
    Execute(ledger, param[t]).error \in {"none", "quote"}

(* A trade costs its pools' traders nothing, and the account never loses:  *)
(* a trade that is mined changes nothing, or leaves it with more WETH and  *)
(* with no other token.                                                    *)
NeverLoses ==
  [][\A t \in Trader : pc[t] = "sent" /\ pc'[t] = "idle" /\ ledger' # ledger =>
       /\ ledger'[Account][WETH] > ledger[Account][WETH]
       /\ \A x \in Token \ {WETH} : ledger'[Account][x] = ledger[Account][x]]_vars

(* No trade puts in more than SwapV2 was told to, an amount beyond int64   *)
(* included.                                                               *)
PutsInNoMore ==
  [][\A t \in Trader : pc[t] = "sent" /\ pc'[t] = "idle" =>
       LET p == chosen[t].path[1] IN ledger'[p][WETH] <= ledger[p][WETH] + chosen[t].input]_vars

(* A fee that is learned below the true one, so that the pool will turn    *)
(* every trade down, is the default, or taken for that of a stable pool,   *)
(* or comes from a swap that has put in much of the smaller reserve or has *)
(* changed it by next to nothing, so that the floats lose it.              *)
Deep(p, x) == 2 * TrueFee[p] * (ledger'[p][x] - ledger[p][x]) * (Base - TrueFee[p]) >= ledger[p][x] * Base

Dust(p, x) == Gap(ledger'[p][x], ledger[p][x]) * Precision < 4 * Base * ledger[p][x]

LearnedCovers ==
  [][\A p \in Pool : learned'[p] # learned[p] /\ learned'[p] < TrueFee[p] =>
       \/ learned'[p] \in {DefaultFee, StableFee}
       \/ \E x \in Smaller(p, ledger[p]) : Deep(p, x) \/ Dust(p, x)]_vars

(* The most a pool gives for a of token x: what its own K check allows.    *)
Most(l, p, x, a) ==
  LET y == Opposite(p, x) IN
  Max({b \in 0 .. l[p][y] - 1 :
         Adjusted(l[p][x] + a, a, TrueFee[p]) * (l[p][y] - b) * Base >= l[p][x] * l[p][y] * Base * Base})

(* What the pools of a path give for a of WETH, each the most it can.      *)
MostOf(l, path, a) ==
  LET gets[i \in 0 .. Len(path)] ==
        IF i = 0 THEN a ELSE Most(l, path[i], InAddr(path)[i], gets[i - 1])
  IN gets[Len(path)]

(* Where the learned fees are the true ones, a trade leaves nothing in the *)
(* pools that they would have given.                                       *)
TakesAll ==
  [][\A t \in Trader :
       pc[t] = "sent" /\ pc'[t] = "idle" /\ ledger' # ledger /\ FeesExact(t) =>
       LET path == chosen[t].path
           put  == ledger'[path[1]][WETH] - ledger[path[1]][WETH]
       IN ledger'[Account][WETH] = ledger[Account][WETH] - put + MostOf(ledger, path, put)]_vars
=============================================================================
