# A verification development for evm-arbitrage

The repository is a bot that watches Uniswap V2 pairs on an EVM chain, looks
for circular trades that return more WETH than they take, and sends them.
`src/monitor` is the bot (Go), `src/swaper` the contract that carries a trade
out (Solidity). This directory holds TLA+ modules translated from that source,
configurations that check small instances of them with TLC, and theorems about
them that TLAPS checks for every value of the constants.

## 1. The system

    node --logs--> OnchainMonitor --batch--> Action handlers --view calls--> node
                                                 |  ^
                                           Store |  | Load
                                                 v  |
          DataKeeper <--LoadAll (1 min)--  DatasStorage  --LoadAll (100 ms)--> Arbitrage
              |                                                                  |
          pairs file                                              path found --> tryTrade
                                                                                 |
    node <--EstimateGas, NonceAt, SendTransaction-------- Trader.SwapV2 <--------+
                                                            ^
    node --gas prices (2 s)---------------------------------+

`main.go` initialises the keepers in order, waits for a signal and calls their
`ShutDown`. Everything else runs in goroutines: one forwarding goroutine per
subscription, one handler per batch of logs, the search loop, one `tryTrade`
per path found, the gas price loop and the saving loop. They share memory.

| component | state | operations | what is hard | what makes it correct |
|---|---|---|---|---|
| Storage (`storage/storage.go`) | a map pair -> latest info, a read-write lock | `Store`, `Load`, `LoadAll` (which drops expired pairs) | the map is made lazily outside the lock; `LoadAll` deletes under the *read* lock; batches come in any order | never falls back to an older log, never loses a fresh pair, a snapshot is of one moment, calls return |
| Log order (`protocol/protocol.go`) | none | `NeedUpdate`, `Expired` | ties, boundaries | a strict order of log positions |
| Log subscription (`onchainmonitor/evmmonitor.go`) | channel, buffer, connection | `subscribeFilter`, `onNewLogs` | hand-over of the buffer, reconnection | each log to one handler, none stuck |
| Handlers (`action/protocol_data.go`) | the batch in hand | `doNewLogHandlerUniswapV2` | look-up, view call and store are three steps of overlapping handlers | newest reserves win; what is known is kept |
| Protocol (`protocol/uniswapv2.go`) | none | log filters, call results, file lines, amounts | which Swap belongs to which Sync; pairs that answer wrongly | a fee is of the pair's own swap; a line is read back |
| Circle search (`arbitrage/graph.go`, `findArbitrage`) | graph, distances, predecessors | `BellmanFord`, `FindCircle` | order of a Go map; negative circles beside the source; empty reserves | what is returned is a closed, profitable walk through distinct pools |
| Trading (`tryTrade`, `trader/trader.go`) | cache of paths, gas prices | `tryTrade`, `SwapV2`, `finalCheck`, gas loop | overlapping trades, one nonce, unanswered calls, moving prices, two margins | one transaction pending, retries spaced, only paying trades sent |
| File keeper (`datakeeper/datakeeper_file.go`, `main.go`) | the file, `closed`, a wait group | `Init`, `writtingData`, `writeData`, `ShutDown` | a save is two steps; two savers of one file; crash between | a finished save is what the next start finds; shutdown ends |
| Node client (`client/ethclient.go`) | an unlocked map of clients | `GetETHClient`, `MultiViewCall` | the map is shared | see section 8 |
| Utilities, configuration, logging | - | `Retry`, `SingleRoutine` | no caller outside the tests | see section 8 |
| Contract (`Swaper.sol`) | none of its own: balances of the account and the pools | `swap`, `_swap` | byte layout of the route, rounding against the pair's own check, reserves that moved since the estimate | reads what the bot packed, never loses, is turned down for its price only |
| Older graphs (`bellman_ford_1.go` to `_3.go`) | lists of edges, matrices | `AddEdge`, `DelEdge`, `DisconnectVert`, three `BellmanFord`s | predecessors never set, matrices kept symmetric | distances are the shortest, a negative circle is noticed exactly when there is one |

The hazards of this code, each at its line and with the properties that cover
it, are listed in `PROJECT.json`.

## 2. Modules

| module | what it is |
|---|---|
| `LogOrder` | positions of logs, `NeedUpdate`, `Expired`: the vocabulary of the rest |
| `VersionedMap` | abstract specification of the storage: batches are put at once, keys only move to later logs, only expired entries go |
| `PairStore`, `MCPairStore`, `PairStoreProofs` | the storage, lock operation by lock operation; implements `VersionedMap` |
| `LogPipeline`, `MCLogPipeline`, `LogPipelineProofs` | subscription, handlers, filters and view calls, over a storage that keeps the newest, as `VersionedMap` says |
| `SwapGraph`, `MCSwapGraph`, `SwapGraphProofs` | the search, edge by edge |
| `Trade`, `MCTrade`, `TradeProofs` | from a path found to a transaction sent |
| `Swaper`, `MCSwaper`, `SwaperProofs` | a trade as bytes: packed by `SwapV2`, unpacked and carried out by `Swaper.sol` through the pools of `Pair.sol`, at fees `CalculatePairFee` has learned in floating point |
| `FileKeeper`, `MCFileKeeper`, `FileKeeperProofs` | saves, crashes and restarts |
| `BellmanFord`, `MCBellmanFord`, `BellmanFordProofs` | the three graphs only the tests use, against shortest simple paths |
| `NatSets` | lemmas the proofs share: least and greatest members of a set of numbers, induction and recursion over `1 .. n` |

Composition follows the code's own boundaries. `PairStore` is shown to
implement `VersionedMap`; `LogPipeline` takes the storage as that specification
has it: `StoreAll` puts a batch by `VersionedMap`'s own rule (`Newest` of
`LogOrder`, which both use), and that the code of the storage keeps to the rule
is what `Implements` shows. `SwapGraph` starts from a snapshot, which `PairStore` shows to be
of one moment. `Trade` starts from a path and the gain its snapshot offers.
`Swaper` starts where `Trade` calls `SwapV2`, with a path of distinct pools
from WETH to WETH, which `SwapGraph` shows the search returns (`PoolsDistinct`,
`ClosedWalk`), and what it learns of a fee is what `LogPipeline` matches.
`FileKeeper` keeps of a pair only how late its log is.

How the definitions relate to the code, line by line, is the `map` of
`PROJECT.json`. The correspondence in words:

* **PairStore.** `made`/`datas` is `s.datas`, nil or not; `writer` and
  `readers` are the lock. `Lock` is two steps (shutting others out, then
  waiting for the readers), as `sync.RWMutex` does it. A map write is an
  interval between two steps, so that an overlapping access can be seen: it
  sets `fatal`, as the Go runtime does. `LoadAll` visits the keys one at a time
  in any order.
* **LogPipeline.** A transaction of the node leaves a short sequence of Sync,
  Swap and unreadable logs (`BadSync` ends a batch at the first filter, `BadSwap`
  after the view call: `FeesFail`). `Forward`, `Take`, `Filter`, `LoadPair`,
  `CallAnswers`/`CallFails` and `StoreAll` are the steps of the goroutines;
  between them anything else may happen. A pair is its position, the timestamp
  of its expiry, what is known of its tokens, its error mark and the swap its
  fee came from. `Replace` puts another block in the place of the last one: its
  logs are sent again with `removed` set, then those of the new block, at the
  same positions. `fork` tells the two apart in the properties; no guard reads
  it or `removed`, as no line of the code looks at `Removed`.
* **SwapGraph.** `FindArbitrage` picks the distances of a snapshot, `Relax`
  takes any edge the round has still to visit, `NextRound`/`StopRelaxing` end a
  round, `SelectEdge` is the loop of `FindCircle` over the edges into the
  source, and `WalkBack`, `WalkClose`, `WalkGiveUp` and `WalkNil` are its walk.
  Distances are integers with the float64 values that matter kept apart:
  `-Inf`, `+Inf`/NaN, and the 1e18 of a vertex not reached, to which adding a
  distance changes nothing.
* **Trade.** `cache` is the go-cache item of a path by its expiry time. `Get`
  and `SetDefault` are two steps, as in the code, and so are the reads of a
  price: `EstimateFee` reads two (`ReadGasPrice`, `Size`), `finalCheck` three
  (`ReadETHGasPrice`, `CheckLow`, `CheckFull`), and between any two of them the
  gas price loop may write. `read` is the price a calculation has in hand. A goroutine carries a `deal`:
  the path, its offer, the amount chosen, the price it will sign, the gas
  estimate and the nonce. Factors (1.5, 1.2, 1/20) are multiplied out.
* **Swaper.** `Pack` is lines 168-197 of `SwapV2`: `Params` gives the bytes
  (both outcomes of `int64()` of a number too large are possible, by
  processor). `Execute` is the contract on a ledger of balances: `Routes` and
  `AmountIn` decode, `GetAmountsOut` quotes, `Legs` swaps pool by pool, the
  first error undoes everything. `Estimate` asks what `Execute` would give now,
  `Mine` does it later; `Someone`, `TopUp` and the other trader act in between.
  `Learn` is `CalculatePairFee` on the reserves before and after a swap; whether
  a batch lets a swap be matched is left open. The code calculates in float64
  and subtracts numbers that nearly cancel (`r0*r1/pr1 - pr0`,
  `uniswapv2.go:241-256`), so each difference is taken to be off by up to
  1/`Precision` of the reserve held before, either way, and `CalculatePairFee`
  is the *set* of fees that may come out (`Smaller`, `Shares`, `LooksStable`).
* **BellmanFord.** The algorithms are operators on the list or matrix at hand
  (`BF1`, `FindArbitrageLoop`, `BF3`); the actions are the calls that build it.
  The graph of edge lists and that of matrices share a module but no step.
* **FileKeeper.** A line of the file is one or two chunks so that it can be
  cut. `Open` truncates (or fails and leaves the file alone: `OpenFails`),
  `Write` writes from the start of the file: two savers
  may be between the two. `Crash` may leave a part of a write.

History variables (named so in each module) record what properties talk about
and guard no action. Definitions with a comment `mutant:` are plausible
mistakes in the code; they are used nowhere in the specifications. Replacing
the original by the mutant makes TLC find the property violated that
`PROJECT.json` lists for it.

## 3. Runs

| run | question | instance | distinct states |
|---|---|---|---|
| `PairStoreRace` | does the storage keep its promises whatever interleaves? | 2 handlers, 2 scanners, 2 pairs, 2 positions, entries that expire after 1 of 2 ticks, filled at the start | 879 thousand (up to symmetry) |
| `PairStoreLive` | do `Store` and `LoadAll` return? | 2 handlers, 1 scanner, 1 pair, first start | 6 thousand |
| `PairStoreFirstStart` | finding: a fresh pair lost on a first start | 1 handler, 1 scanner | violation |
| `LogPipelineRace` | do overlapping handlers converge, also when a block is replaced? | 2 handlers, 1 pair, 2 blocks of which the last may be replaced by another once, failing calls, unreadable logs | 681 thousand (up to symmetry) |
| `LogPipelineCross` | fees, tokens and delivery with mixed pairs | 1 handler, 2 pairs that may expire, 2 blocks, every answer, swaps that do not unpack, one lost subscription, fairness | 90 thousand |
| `SwapGraphDiamond` | what does `FindCircle` return, and when does its walk dereference nil? | 4 tokens, 5 pools, a circle beside WETH, or one pool drained, 2 rounds, walks of 4, every order of relaxation | 846 thousand |
| `FileKeeperSaves` | what survives crashes, full disks, overlapping saves? | 2 pairs with lines of 2 and 1 chunks, 2 versions, one crash | 125 thousand |
| `FileKeeperReadBack` | finding: a saved file refused | 1 version | violation |
| `TradeRace` | which trades are sent, refused, retried? | 2 goroutines, 1 path, 3 amounts, 2 offers, 2+2 prices, 2 gas estimates, 4 ticks, 2 nonces | 2.2 million (up to symmetry) |
| `SwaperTrades` | does the contract do what the bot meant? | 2 trades, circles of 2 and 3 pools over 4, a fifth pool whose fee is learned, 3 amounts (one beyond `int64`), an account that holds less than the largest, 1 move of somebody else | 309 thousand (up to symmetry) |
| `BellmanFordSmall` | are the older algorithms right? | 3 vertices, every list of up to 4 edges of weight -3 or 2, from a vertex to itself too, every matrix within as many calls of `AddEdge` | 112 thousand |
| `BellmanFordLoop` | finding: a loop returned that is none | 3 vertices, up to 2 edges | violation |

What each property says is in the comment above it in its module. In short:

* `PairStoreRace`: the storage refines `VersionedMap` (`Implements`), fresh
  pairs neither vanish nor fall back (`NoFreshLoss`), `LoadAll` returns one
  moment (`SnapshotExact`), and the only way to the Go runtime's fatal map
  error is the delete of an expired pair under the read lock
  (`CrashNeedsExpiry`): the state is reached, so the error is real.
* `LogPipelineRace`: logs are handled once (`HandledOnce`, part of `IInv`), the
  newest stored Sync wins, and a handler forgets tokens, mark or fee only if
  they were stored after it looked (`ForgetsOnlyByRace` names the race of
  `protocol_data.go:67`). Where a block was replaced the storage may keep the
  reserves of the old one, if their position is not before that of the new
  one's last Sync: `NeedUpdate` compares positions only. `Converged` says it
  never keeps anything else.
* `LogPipelineCross`: a fee is from the pair's own swap right behind the Sync,
  a stored pair was looked up, every delivered log ends stored or dropped.
* `SwapGraphDiamond`: the returned path is profitable, closed at WETH, through
  no pool twice; stopping early misses nothing; if no edge into WETH was found
  to close a circle although a profitable one of at most `Rounds + 1` edges
  exists, a lap has lowered the distance of WETH itself (`MissedByLap`; circles
  that are missed because every walk back is given up are not its subject). This
  holds although relaxation stops in the middle and circles beside WETH trap the
  walk. The nil dereference needs an empty reserve, and with one it happens
  (`PanicNeedsDrained`).
* `FileKeeperSaves`: a save that ended is in the file, complete and with the
  latest versions (`SavedIsThere`, part of `IInv`), and is what the next start
  restores, until another save opens the file; a save that fails to open it
  changes nothing; a lone shutdown is the last to touch the file;
  shutdown ends even if the disk is full.
* `TradeRace`: at most one transaction pends (`OnePending`, because `NonceAt`
  asks for the mined nonce); a failed path waits ten minutes except after a
  race of two searches (`RetriesSpaced`); if no price moved since the first one
  was read to size it, a trade is refused only if the node wants more than 5/4
  of the table's gas or if it could pay the full gas price (`RefusedForCause`), what is sent pays its gas
  (`SendsOnlyPaying`), and no trade that could pay the full price is ever
  sent, since 0.001 is compared with wei (`SendsOnlyModest`).
* `SwaperTrades`: for any fees and reserves the contract decodes the amount,
  pools, fees and directions that were packed (`RouteKept`, part of `IInv`); a
  trade whose learned fees are not below the true ones is refused for its price
  only, so the quotes of `_swap` always pass the pools' own product check
  (`FailsOnlyOnPrice`), and leave nothing in the pools if the fees are the true
  ones (`TakesAll`); a mined trade gains WETH or changes nothing (`NeverLoses`)
  and never puts in more than it was told to, even when `int64` overflowed
  (`PutsInNoMore`). A fee learned below the true one comes from a swap that put
  in much of the smaller reserve (`Deep`) or changed it by so little that floats
  lose it (`Dust`), or is the default or that of a stable pool
  (`LearnedCovers`); all of these occur. With the figures of the code, dust is a
  swap of less than 4e-8 of a reserve: 1e10 wei in a pool of 1e22 teach a fee of
  noise. Of the two `require`s of `_swap` either alone would do for circles of distinct pools; the mutant drops both.
* `BellmanFordSmall`: `BF1Exact` and `BF3Exact` compare the algorithms with
  minima over simple paths, the matrices stay those of an undirected graph, and
  `FindArbitrageLoop` returns nil exactly where no negative circle can be
  reached (`BF2Notices`).
* `BellmanFordLoop`: what it returns otherwise need not be a loop (finding 3).

### Bounds, and why they are enough

Every bound is a constant of its module: `MaxTime`, `MaxBlock`, `MaxError`,
`MaxFork`, `MaxVersion`, `MaxStop`, `MaxNonce`, `MaxMoves`, `MaxEdges`,
`Rounds`, `Hops`, and the sizes of the sets. Two goroutines of a kind show
every race of the code, whose races are all between two (two handlers, a
handler and a scanner, two searches, the minute loop and `ShutDown`, two trades
through one pool). `PairStoreRace` lets a pair expire while two scanners are
inside; `LogPipelineRace` lets an older batch overtake a newer one, before and
after a block is replaced (with expiry besides, `MaxTime = 1`, the run has 7.3
million states and passes too, but takes too long to repeat); the graphs hold
circles through WETH and one beside it, in which the walk goes round until
`Hops` ends it; in `TradeRace` the prices and offers lie on both sides of every
comparison of `finalCheck` and move between any two of its reads, the wait of
two ticks ends within the four, and one of the two prices is below the share, so that the price error occurs. `Rounds`
and `Hops` are 5 and 10 in the code and smaller in the runs; `Share` is 20 and
`Backoff` ten times `Minute` in the code, 2 and twice in the run. In
`SwaperTrades` a byte has 16 values, an amount two bytes, an `int64` ends at 5
and a fee is in tenths: the amount 6 overflows, the directions and places of
three legs are all different, and reserves are small enough for every rounding
to happen (a quote that fails the product check when it is one too high, a fee
learned too low). `Precision` is 250 there, so that of the amounts paid into
the fifth pool one is dust (1), one is deep (19) and one is neither (4); for
float64, with its 53 bits, it stands for about 1e12, as long as a swap changes
no reserve by more than a factor of a thousand. The actual widths (10, 20 and 2 bytes, fees
in 1/10000) satisfy the same assumptions. Three vertices hold every shape `BellmanFord`
tells apart: a circle with the source, beside it, out of reach, of one vertex,
and parallel edges. The theorems hold for all values. `CHECK_DEADLOCK FALSE`
stands in the configurations where a bound on time or blocks ends the behaviour, or where the
process may die.

### Fairness

* `PairStore`: the Go scheduler runs what can run (weak fairness of each step
  inside a call); `sync.Mutex` hands over to a waiter after 1 ms and `Unlock`
  lets waiting readers in, so the acquisitions get strong fairness. Nothing
  obliges a goroutine to call.
* `LogPipeline`: weak fairness of the forwarding goroutine, the loop and each
  handler; a view call is assumed to return, with an answer or an error.
* `FileKeeper`: weak fairness of the savers and of the end of `ShutDown`; none
  of the signal, of learning, or of a restart.

`Trade`, `SwapGraph`, `Swaper` and `BellmanFord` state no liveness: nothing in
the code promises that a trade is ever found or mined.

## 4. Findings

1. `storage.go:36`, `:67`: on a first start `Load` and `LoadAll` test
   `s.datas == nil` before they lock and assign a new map without testing
   again; a map filled in between is lost (`PairStoreFirstStart`).
2. `uniswapv2.go:105-119`: `FromFileData` refuses lines that `ToFileData`
   writes (no tokens, empty reserve), so `main` panics at every start until the
   file is removed (`FileKeeperReadBack`).
3. `bellman_ford_2.go:72-83`: `FindArbitrageLoop`, whose comment (line 29)
   promises "either an arbitrage loop or a nil map", walks back from the source,
   whose predecessor may never have been set, and returns what is no loop
   (`BellmanFordLoop`: edges 0 -> 1 and 1 -> 1, source 0, result `[0 0]`). It
   may also leave its array (line 83), when the walk meets all the vertices
   before one comes again, as it does on a circle of all of them, the source
   included. Only tests call it.

Other behaviours the models show, that contradict no statement of the
repository: the fatal map error and the nil dereference above, the forgotten
fee of overlapping handlers, `failCount` that never exceeds 1
(`arbitrage.go:172`), a race of two searches that shortens the wait after a
failure, the price of `finalCheck` that is never signed (`trader.go:222`), and
the bound 0.001 in wei (`trader.go:239`). Further: reserves of a replaced block
that stay, and a fee that may mix the swap of one block with the reserves of
the other (`uniswapv2.go:137`); a profitable circle that is missed in some
orders of the map (`graph.go:45-67`); a fee learned too low from a large swap
or from rounding, after which the pool refuses every trade until another swap
teaches a better one (`uniswapv2.go:253-261`), and one of noise from a swap too
small for floats; `E` of `bellman_ford_3.go`, in code only tests call, is not
counted down by `DelEdge` nor reset by `SetOrder`.

## 5. Theorems

The modules below prove, for every value of the constants that satisfies the
named assumptions of the specifications, every safety property the runs check:

| module | theorem | statement |
|---|---|---|
| `PairStoreProofs` | `TypeCorrect`, `Invariant` | `Spec => []TypeOK`, `Spec => []IInv` |
| | `CrashCause` | `Spec => []CrashNeedsExpiry` |
| | `SnapshotCorrect` | `Spec => SnapshotExact` |
| | `FreshKept`, `Refinement` | with `MadeAtStart`: `Spec => NoFreshLoss`, `Spec => Implements` |
| `LogPipelineProofs` | `TypeCorrect`, `Invariant` | `Spec => []TypeOK`, `Spec => []IInv` |
| | `Converges`, `TokensKnown`, `FeesOwn` | `Spec => []Converged`, `[]KnownTokens`, `[]FeeFromOwnSwap` |
| | `ForgetsByRace` | `Spec => ForgetsOnlyByRace` |
| `SwapGraphProofs` | `TypeCorrect`, `Invariant` | `Spec => []TypeOK`, `Spec => []IInv` |
| | `PathProfitable`, `PathClosed`, `PathPoolsDistinct` | `Spec => []Profitable`, `[]ClosedWalk`, `[]PoolsDistinct` |
| | `StopsRight`, `MissedCircles`, `PanicCause` | `Spec => []StopEarly`, `[]MissedByLap`, `[]PanicNeedsDrained` |
| `TradeProofs` | `TypeCorrect`, `Invariant`, `NoQueue` | `Spec => []TypeOK`, `[]IInv`, `[]OnePending` |
| | `Spacing` | `Spec => RetriesSpaced` |
| | `Refusals`, `Paying`, `Modest` | `Spec => RefusedForCause`, `SendsOnlyPaying`, `SendsOnlyModest` |
| `SwaperProofs` | `TypeCorrect`, `Invariant` | `Spec => []TypeOK`, `Spec => []IInv` |
| | `PriceOnly` | `Spec => []FailsOnlyOnPrice` |
| | `AccountGainsOnly`, `PutsInAtMost` | `Spec => NeverLoses`, `Spec => PutsInNoMore` |
| | `FeesCover`, `NothingLeft` | `Spec => LearnedCovers`, `Spec => TakesAll` |
| `FileKeeperProofs` | `TypeCorrect`, `Invariant` | `Spec => []TypeOK`, `Spec => []IInv` |
| | `LastSave`, `Restores` | `Spec => []ShutDownLast`, `Spec => StartRestores` |
| `BellmanFordProofs` | `TypeCorrect` | `Spec => [](TypeOK /\ Symmetric)` |
| | `ShortestDistances`, `CirclesNoticed`, `MatrixDistances` | `Spec => []BF1Exact`, `[]BF2Notices`, `[]BF3Exact` |

The arguments:

* **PairStore.** A snapshot is exact because of `Copied`: what a scanner has
  copied is what the map holds, or has expired and been dropped. This survives
  the steps of others since a `Store` that writes has no reader beside it
  (`LockHeld`) and the deletes of other scanners only drop expired pairs
  (`DeletesExpired`), which stay expired (`StaysExpired`). `OneMapWriter` and
  `LockHeld` leave the delete as the only overlap. `MadeOnce` takes the lazy
  map out of play when the file held a pair; finding 1 is what is left. The
  refinement maps `content` to `datas` and the clock to the clock: `StoreWrite`
  is `Put`, `ScanDeleted` is `Expire`, all else stutters.
* **LogPipeline.** Every log is in one place (`Places`): on its way, in a batch,
  lost or done (`HandledOnce`); it was mined, or its block was replaced
  (`FromChain`); behind a log that still counts only later ones were sent
  (`SentInOrder`), although a replaced block is sent again at the same
  positions. So the last Sync of a batch is its latest that counts, which is
  what the map a handler builds keeps (`Selected`, part of `AtWork`). The
  storage compares positions only: no Sync that was stored and counts is later
  than what is there (`StoredLatest`), and what is there is some Sync of the
  pair (`StoredSync`); `Converged` follows, for if it is neither the newest nor
  of a replaced block it would be an earlier one. What a handler takes over
  from the entry it looked up (`TakenOver`) and what it was told since is known
  before it stores (`KnownOnTheWay`, `FeesOnTheWay`).
* **SwapGraph.** A vertex is at least as far as its predecessor plus the edge
  between (`Predecessors`): it was not when the edge was taken, and the
  predecessor only came closer since. The edge chosen closes with less than the
  distance of the source, so that the walk so far plus what is left to walk
  stays below it (`Gain`), and at the source, never farther than 0
  (`SourceNear`), the sum is negative. A walk that meets a vertex twice is
  trapped in a circle beside the source (`Trapped`) and is given up; hence the
  vertices of a returned walk are distinct, and so are its pools, except for
  there and back in one pool, which a fee not below 0 makes unprofitable
  (`ShortSums`, `NoGainInOnePool`). Without an empty reserve every vertex on
  the walk was reached (`WalkReached`) and has a predecessor (`Reached`).
  `InRounds` is the bound every proof of this algorithm needs, here with the
  edges in any order: in round n no vertex is farther than a walk of fewer than
  n edges, or of n edges whose last was taken in this round. With no more than
  `Rounds + 1` edges, a profitable circle through the source then closes below
  0 = the distance of the source, unless a lap has lowered it (`MissedByLap`).
* **Trade.** A held nonce is never ahead of the chain (`NoncesUsedUp`); the
  node only takes one that is not behind, so it is the next one, and a pending
  transaction with it is replaced. An item of the cache covers the wait it was
  set for (`CacheCovers`). While no price moves a deal agrees with the prices
  (`Follows`): from the margin of 1.5 at the sizing and 1/1.2 at the last check
  follows the factor 5/4 (`Margin`, `CancelPrice`); from the low bound at the
  last check and the rounding of the share, that the signed price is paid for
  (`PaysShare`).

* **Swaper.** Three layers. The digits of a number that fits give the number
  back, a parameter of n legs has `AmountBytes + n * LegBytes` bytes and its
  slices are the pieces it was put together from, so that the contract reads
  the trade that was packed, or stops at a sign it cannot read (`Decoded`;
  `Sealed` says that the bytes are what `SwapV2` wrote, `RouteKept` follows).
  A quote at a fee not below the pool's own passes the pool's product check,
  and is the most that does if the fee is the same (`QuoteIsMost`); the share
  that a swap which passed the product check leaves is not below the fee, if
  floats can tell that the reserve has changed: what the rounding of the two
  differences takes away is less than the unit that rounding up adds, unless the
  swap is deep or dust (`ShareAtLeast`, with `ShareOfPaid` and `ShareOfTaken` for
  the two directions of the swap; `FeeCovers`). Leg by leg, each pool of a path is still at the reserves it was
  quoted at, as the pools are distinct, and has been paid what the leg before
  gave (`LegsAre`); the balance after the last leg is what the last quote says
  (`ExecuteIs`). `Stocked`, which no step breaks since a pool never gives its
  whole reserve, is what keeps the divisions from 0.
* **FileKeeper.** `SavedIsThere` speaks of all the lines of a file at once: that
  writing pair after pair, each in its own number of chunks and in any order,
  gives a file that is not cut and whose lines are those pairs is shown chunk by
  chunk. A file open in a writer has no finished save that counts (`Quiet`), for
  `Open` truncates. `Closing` ties the flag, the process and the main writer
  together, and `LeftAlone` keeps the minute loop away from the last save once
  the shutdown met it asleep: it looks at `closed` before it loads.

* **BellmanFord.** Only what the steps build is an invariant of the
  specification (`Kept`: typed lists, matrices that agree both ways). The rest
  are invariants of the relaxations inside one call, sets of results which
  `Relax` does not leave (`PassesIn`) or in which each pass leads to the next
  (`PassesLead`). `Tree`: a vertex is at least as far as its predecessor plus
  the edge between, and a circle of predecessors is a negative circle, for the
  edge that closed it undercut a distance (`Round`). `Above`: without a negative
  circle within reach no distance is below the shortest; an edge leads on from
  a simple path to a simple path or closes a circle (`Across`, `Triangle`).
  `Near`: after k passes no distance is above the cost of a path of k edges. A
  simple path has at most N vertices (`Pigeons`), so N - 1 passes reach the
  shortest (`Relaxed`); with the matrices it is V - 1, since their edges stay
  within the order. If nothing gets shorter no circle within reach is negative
  (`StillFree`). Predecessors then make no circle and lead back to the source
  (`PathIs`). After the passes something still gets shorter exactly where
  a negative circle is within reach (`Enough`), and only there does
  `FindArbitrageLoop` call `arbitrageLoop`, which never returns nil (`LoopIs`;
  whether that is a loop is finding 3).

`IInv` of each module that has one is also checked by TLC, in the run of that module, and is
stronger than what is wanted because the wanted property is not inductive: a
single state says nothing of how a snapshot, a walk, a batch or a deal came
about.

Assumed besides the constants' ASSUMEs: nothing. The bounds on clocks, blocks,
nonces and moves are constants, and the theorems hold for any values of them.
The assumptions that say something about the world are those of `SwapGraph`
(`GraphAssumption`: a pool connects two tokens), of `LogPipeline` (a log has one
position, two logs of a block two) and of `Swaper`: the two tokens of a pool
differ and its first mint leaves both in it (`Pair.sol`), fees are shares of
`Base` below one, an amount and a fee fit their bytes (10 bytes hold an `int64`,
2 bytes hold 9999), 20 bytes tell addresses apart, and a path is a walk through
distinct pools from WETH to WETH, which `PathPoolsDistinct` and `PathClosed` of
`SwapGraphProofs` establish. Of `Precision` only that it is a positive number is
assumed. The fee 5 that `CalculatePairFee` gives to stable
pools is none that `fixFee` changes.

Functions defined by recursion over a sequence (`SumAlong`, `Digits`, `Legs`,
`GetAmountsOut`, `Cost`, `Passes`) are no RECURSIVE operators but functions on `0 .. n`. The
library's theorems on induction and on recursive definitions take an operator
as a parameter, which the provers cannot instantiate; `NatSets` states what is
needed of them with a set (`Induction`) and with a function (`Recursion`), which
they can.

## 6. Only model-checked

* Liveness under fairness (`StoreReturns`, `LoadAllReturns`, `LogsEnd`,
  `Terminates`): the proof system does not reason about fairness and ENABLED.

## 7. Plan

Modelled, checked and proved: storage, search, pipeline with replaced blocks,
file, trading, the contract, the older graphs. Liveness stays with TLC. What
could still be added is in section 8.

## 8. Not modelled, and why

* The rounding of float64 in prices, fees and amounts: TLC has integers. The
  special values of the search are kept apart; offers and distances are picked
  freely from small sets, so the results do not rest on the formulas. Where a
  property is about rounding it is modelled: in `CalculatePairFee` as an error
  of 1/`Precision` in each of its differences, which stands for every order in
  which float64 may round there, not for its bits.
* In `Swaper`: the width of `length` (a circle has at most 10 pools), the
  overflow checks of the pools (reserves fit 112 bits), tokens that take a fee
  on transfer, and tokens sent to a pool by mistake.
* A goroutine left behind by a lost subscription (`evmmonitor.go:135`): what it
  reads goes to a buffer nobody takes from. The client map
  (`ethclient.go:24`): two dials at the start may both write it; either client
  serves.
* `Retry` and `SingleRoutine`: no caller outside the tests.
* `loopWatcher`, `subscribeWatcher` and `onNewBlock` of the monitor: `Init`
  starts neither (`evmmonitor.go:46-47`) and their handler does nothing.
  `appendFile` and `EstimateGasLast` have no caller.
* A pending transaction that the node drops, or one sent from the account by
  someone else: `pool` only shrinks by mining or replacement.
* Logging, configuration, the bindings that abigen generated, the ABI files;
  `Multicall3.sol`, `Token.sol` and what of `Pair.sol` is not `swap`
  (third-party contracts for the tests) and the deployment script.
* The node: its chain, subscription, gas prices, pool and view calls are
  modelled from how the code uses them and marked external.
