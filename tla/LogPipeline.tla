----------------------------- MODULE LogPipeline -----------------------------
(***************************************************************************)
(* How a Sync log becomes a stored pair: subscribeFilter and onNewLogs of  *)
(* monitor/onchainmonitor/evmmonitor.go, doNewLogHandlerUniswapV2 of       *)
(* monitor/action/protocol_data.go, and the filters and call results of    *)
(* monitor/protocol/uniswapv2.go.                                          *)
(*                                                                         *)
(*   node --logChan--> forwarding goroutine --logs--> subscribeFilter loop *)
(*        --go onNewLogs--> one handler goroutine per batch --> storage    *)
(*                                                                         *)
(* Handlers overlap: a slow view call lets a later batch be stored first.  *)
(* The storage is used as VersionedMap describes it (and PairStore is).    *)
(*                                                                         *)
(* A block may be replaced by another: the node then sends its logs again, *)
(* with Removed set, and those of the block in its place.  No line of the  *)
(* code looks at Removed.                                                  *)
(*                                                                         *)
(* External: the node (its chain, subscription and view calls), modelled   *)
(* by what the code accepts from it.                                       *)
(***************************************************************************)
EXTENDS LogOrder, Sequences, SequencesExt

CONSTANTS
  Handler,      \* handler goroutines alive at a time
  Transaction,  \* log sequences a transaction may leave, of <<kind, pair>>
  Answer,       \* pair -> outcomes token0() and token1() may have on it
  NoFee,        \* Fee is the default 30
  MaxBlock, MaxError, MaxFork

(* The topic of a log, with Bad if its data does not unpack.               *)
Kind    == {"Sync", "Swap", "BadSync", "BadSwap"}
Outcome == {"tokens", "zero", "fail"}

ASSUME TransactionAssumption == Transaction \subseteq Seq(Kind \X Pair)
ASSUME AnswerAssumption      == Answer \in [Pair -> (SUBSET Outcome) \ {{}}]
(* A block may hold any of the transactions.                               *)
ASSUME ChainAssumption ==
  \A tx \in Transaction, b \in 1 .. MaxBlock :
    \A i \in 1 .. Len(tx) : [block |-> b, tx |-> 0, log |-> i] \in Position
ASSUME BoundAssumption       == MaxBlock \in Nat /\ MaxError \in Nat /\ MaxFork \in Nat

Fork == 0 .. MaxFork

Log == [kind : Kind, pair : Pair, at : Position, fork : Fork, removed : BOOLEAN]

(* UniswapV2Pair: `tokens` are Token0 and Token1, "none" until they are    *)
(* filled in; `fee` is the swap it was calculated from.  `fork` tells what *)
(* comes from a replaced block from what is in its place.                  *)
Fee == [at : Position, fork : Fork]

ASSUME NoFeeAssumption == NoFee \notin Fee

Info == [at : Position, fork : Fork, time : 0 .. MaxTime, tokens : {"none", "tokens", "zero"},
         error : BOOLEAN, fee : Fee \cup {NoFee}]

ASSUME NoInfoAssumption == NoEntry \notin Info

VARIABLES
  now,
  chain,    \* the logs of the blocks that count
  orphans,  \* those of blocks replaced
  fork,     \* how many were
  link,     \* subscription: "down", "up", or "error" while the loop has not seen it
  errors,
  logChan, logs,
  pc,       \* of a handler
  batch,    \* the logs a handler was given
  pairs,    \* the map it builds
  toLoad,   \* pairs it has still to look up
  seen,     \* history: what it found in the storage
  store,    \* pair -> Info or NoEntry
  lost,     \* history: logs dropped on the way
  done      \* history: logs whose batch was stored, until their pair expires

blocks  == <<chain, orphans, fork>>
source  == <<blocks, link, errors, logChan>>
work    == <<pc, batch, pairs, toLoad, seen>>
history == <<lost, done>>
vars    == <<now, source, logs, work, store, history>>

Empty == [p \in Pair |-> NoEntry]

-----------------------------------------------------------------------------
(***************************************************************************)
(* The node.  One transaction per block is enough: the order of positions  *)
(* is the order of the chain either way.                                   *)
(***************************************************************************)
Height == IF chain = <<>> THEN 0 ELSE chain[Len(chain)].at.block

Block(tx, number, f) ==
  [i \in 1 .. Len(tx) |-> [kind |-> tx[i][1], pair |-> tx[i][2],
                           at |-> [block |-> number, tx |-> 0, log |-> i],
                           fork |-> f, removed |-> FALSE]]

Send(ls) ==
  IF link = "up"
    THEN logChan' = logChan \o ls /\ UNCHANGED lost
    ELSE lost' = lost \cup ToSet(ls) /\ UNCHANGED logChan

Mine(tx) ==
  LET new == Block(tx, Height + 1, fork)
  IN  /\ Height < MaxBlock
      /\ chain' = chain \o new /\ Send(new)
      /\ UNCHANGED <<now, orphans, fork, link, errors, logs, work, store, done>>

(* The end of the chain, after n logs, is the last block.                  *)
Replace(tx, n) ==
  LET old == SubSeq(chain, n + 1, Len(chain))
      new == Block(tx, Height, fork + 1)
  IN  /\ chain # <<>> /\ fork < MaxFork
      /\ \A i \in 1 .. Len(chain) : i > n <=> chain[i].at.block = Height
      /\ fork' = fork + 1
      /\ chain' = SubSeq(chain, 1, n) \o new
      /\ orphans' = orphans \cup ToSet(old)
      /\ Send([i \in DOMAIN old |-> [old[i] EXCEPT !.removed = TRUE]] \o new)
      /\ UNCHANGED <<now, link, errors, logs, work, store, done>>

Disconnect ==
  /\ link = "up" /\ errors < MaxError
  /\ link' = "error" /\ errors' = errors + 1
  /\ UNCHANGED <<now, blocks, logChan, logs, work, store, history>>

Tick ==
  /\ now < MaxTime
  /\ now' = now + 1
  /\ UNCHANGED <<source, logs, work, store, history>>

(***************************************************************************)
(* subscribeFilter.                                                        *)
(***************************************************************************)
Subscribe ==
  /\ link = "down"
  /\ link' = "up"
  /\ UNCHANGED <<now, blocks, errors, logChan, logs, work, store, history>>

(* The forwarding goroutine, which goes on until the loop has seen the     *)
(* error.                                                                  *)
Forward ==
  /\ logChan # <<>>
  /\ logs' = Append(logs, Head(logChan))
  /\ logChan' = Tail(logChan)
  /\ UNCHANGED <<now, blocks, link, errors, work, store, history>>

(* select prefers the error to its default.                                *)
SubscribeError ==
  /\ link = "error"
  /\ link' = "down"
  /\ logChan' = <<>> /\ logs' = <<>>
  /\ lost' = lost \cup ToSet(logChan) \cup ToSet(logs)
  /\ UNCHANGED <<now, blocks, errors, work, store, done>>

TakeKeeps(h) ==  \* mutant: the batch stays in logs
  /\ link = "up" /\ logs # <<>> /\ pc[h] = "idle"
  /\ batch' = [batch EXCEPT ![h] = logs]
  /\ logs' = Tail(logs)
  /\ pc' = [pc EXCEPT ![h] = "filter"]
  /\ UNCHANGED <<now, source, pairs, toLoad, seen, store, history>>

TakeTwo(h) ==  \* mutant: a single log is not worth a batch
  /\ link = "up" /\ Len(logs) > 1 /\ pc[h] = "idle"
  /\ batch' = [batch EXCEPT ![h] = logs]
  /\ logs' = <<>>
  /\ pc' = [pc EXCEPT ![h] = "filter"]
  /\ UNCHANGED <<now, source, pairs, toLoad, seen, store, history>>

Take(h) ==
  /\ link = "up" /\ logs # <<>> /\ pc[h] = "idle"
  /\ batch' = [batch EXCEPT ![h] = logs]
  /\ logs' = <<>>
  /\ pc' = [pc EXCEPT ![h] = "filter"]
  /\ UNCHANGED <<now, source, pairs, toLoad, seen, store, history>>

-----------------------------------------------------------------------------
(***************************************************************************)
(* doNewLogHandlerUniswapV2.                                               *)
(***************************************************************************)
SyncsOf(ls, p) == {i \in 1 .. Len(ls) : ls[i].kind = "Sync" /\ ls[i].pair = p}

LastOf(I) == CHOOSE i \in I : \A j \in I : j <= i

LastSync(ls, p) == ls[LastOf(SyncsOf(ls, p))]

FilterPairsFirst(ls) ==  \* mutant: the first Sync of a batch is kept
  [p \in Pair |->
     IF SyncsOf(ls, p) = {} THEN NoEntry
     ELSE LET sync == ls[CHOOSE i \in SyncsOf(ls, p) : \A j \in SyncsOf(ls, p) : i <= j]
          IN [at |-> sync.at, fork |-> sync.fork, time |-> now, tokens |-> "none",
              error |-> FALSE, fee |-> NoFee]]

(* FilterUniswapV2PairFromLog, when every log unpacks.                     *)
FilterPairs(ls) ==
  [p \in Pair |->
     IF SyncsOf(ls, p) = {} THEN NoEntry
     ELSE [at |-> LastSync(ls, p).at, fork |-> LastSync(ls, p).fork, time |-> now, tokens |-> "none",
           error |-> FALSE, fee |-> NoFee]]

(* FilterUniswapV2FeeFromLog: for the first Sync of a pair that has one,   *)
(* the Swap that follows it in its transaction.  Where several logs have   *)
(* the position of that Swap the map has kept the last of them.            *)
Follows(swap, sync) ==
  /\ swap.at.block = sync.at.block /\ swap.at.tx = sync.at.tx
  /\ swap.at.log = sync.at.log + 1

SwapsAfter(ls, i) == {j \in 1 .. Len(ls) : ls[j].kind = "Swap" /\ Follows(ls[j], ls[i])}

MatchesAny(ls, p, i) ==  \* mutant: the addresses are not compared
  i \in SyncsOf(ls, p) /\ SwapsAfter(ls, i) # {}

Matches(ls, p, i) ==
  /\ i \in SyncsOf(ls, p) /\ SwapsAfter(ls, i) # {}
  /\ ls[LastOf(SwapsAfter(ls, i))].pair = p

FilterFee(ls, p) ==
  LET matched == {i \in 1 .. Len(ls) : Matches(ls, p, i)}
      sync    == CHOOSE i \in matched : \A j \in matched : i <= j
      swap    == ls[LastOf(SwapsAfter(ls, sync))]
  IN IF matched = {} THEN NoFee
     ELSE [at |-> swap.at, fork |-> swap.fork]

(* The handler ends; its logs are dropped, or were stored.                 *)
Return(h) ==
  /\ pc' = [pc EXCEPT ![h] = "idle"]
  /\ batch' = [batch EXCEPT ![h] = <<>>]
  /\ pairs' = [pairs EXCEPT ![h] = Empty]
  /\ seen' = [seen EXCEPT ![h] = Empty]
  /\ toLoad' = [toLoad EXCEPT ![h] = {}]

FilterFails(h) ==
  /\ pc[h] = "filter"
  /\ \E i \in 1 .. Len(batch[h]) : batch[h][i].kind = "BadSync"
  /\ lost' = lost \cup ToSet(batch[h])
  /\ Return(h)
  /\ UNCHANGED <<now, source, logs, store, done>>

Filter(h) ==
  /\ pc[h] = "filter"
  /\ \A i \in 1 .. Len(batch[h]) : batch[h][i].kind # "BadSync"
  /\ \E p \in Pair : SyncsOf(batch[h], p) # {}
  /\ pairs' = [pairs EXCEPT ![h] = FilterPairs(batch[h])]
  /\ toLoad' = [toLoad EXCEPT ![h] = {p \in Pair : SyncsOf(batch[h], p) # {}}]
  /\ pc' = [pc EXCEPT ![h] = "load"]
  /\ UNCHANGED <<now, source, logs, batch, seen, store, history>>

(* No Sync, no pair: Store returns at once, the swaps are dropped.         *)
FilterNothing(h) ==
  /\ pc[h] = "filter"
  /\ \A i \in 1 .. Len(batch[h]) : batch[h][i].kind \in {"Swap", "BadSwap"}
  /\ lost' = lost \cup ToSet(batch[h])
  /\ Return(h)
  /\ UNCHANGED <<now, source, logs, store, done>>

NoCopyOfFee(new, old) ==  \* mutant: the fee is not taken over
  [new EXCEPT !.tokens = old.tokens, !.error = old.error]

NoCopyOfTokens(new, old) == [new EXCEPT !.error = old.error, !.fee = old.fee]  \* mutant

Copied(new, old) == [new EXCEPT !.tokens = old.tokens, !.error = old.error, !.fee = old.fee]

LoadPair(h, p) ==
  /\ pc[h] = "load" /\ p \in toLoad[h]
  /\ pairs' = [pairs EXCEPT ![h][p] = IF store[p] = NoEntry THEN @ ELSE Copied(@, store[p])]
  /\ seen' = [seen EXCEPT ![h][p] = store[p]]
  /\ toLoad' = [toLoad EXCEPT ![h] = @ \ {p}]
  /\ UNCHANGED <<now, source, logs, pc, batch, store, history>>

(* Pairs whose tokens a view call has to find out.                         *)
Missing(h) == {p \in Pair : pairs[h][p] # NoEntry /\ seen[h][p] = NoEntry}

LoadDone(h) ==
  /\ pc[h] = "load" /\ toLoad[h] = {}
  /\ pc' = [pc EXCEPT ![h] = IF Missing(h) = {} THEN "store" ELSE "call"]
  /\ UNCHANGED <<now, source, logs, batch, pairs, toLoad, seen, store, history>>

(* GetETHClient or MultiViewCall returned an error: so does the handler.   *)
CallFails(h) ==
  /\ pc[h] = "call"
  /\ lost' = lost \cup ToSet(batch[h])
  /\ Return(h)
  /\ UNCHANGED <<now, source, logs, store, done>>

(* UniswapV2PairCallResult: a pair that reverts is marked; one that        *)
(* answers without data has the zero address as its tokens.                *)
Answered(info, outcome) ==
  IF outcome = "fail" THEN [info EXCEPT !.error = TRUE] ELSE [info EXCEPT !.tokens = outcome]

CallAnswers(h) ==
  /\ pc[h] = "call"
  /\ \E outcome \in [Missing(h) -> Outcome] :
       /\ \A p \in Missing(h) : outcome[p] \in Answer[p]
       /\ pairs' = [pairs EXCEPT ![h] =
            [p \in Pair |-> IF p \in Missing(h) THEN Answered(@[p], outcome[p]) ELSE @[p]]]
  /\ pc' = [pc EXCEPT ![h] = "store"]
  /\ UNCHANGED <<now, source, logs, batch, toLoad, seen, store, history>>

(* The fees found in the batch, for Store (storage.go).                    *)
WithFees(h) ==
  [p \in Pair |->
     IF pairs[h][p] # NoEntry /\ FilterFee(batch[h], p) # NoFee
       THEN [pairs[h][p] EXCEPT !.fee = FilterFee(batch[h], p)] ELSE pairs[h][p]]

(* FilterUniswapV2FeeFromLog comes after the view call and stops at a Swap *)
(* that does not unpack: what was looked up is dropped with the batch.     *)
Unpacks(h) == \A i \in 1 .. Len(batch[h]) : batch[h][i].kind # "BadSwap"

FeesFail(h) ==
  /\ pc[h] = "store" /\ ~Unpacks(h)
  /\ lost' = lost \cup ToSet(batch[h])
  /\ Return(h)
  /\ UNCHANGED <<now, source, logs, store, done>>

StoreAll(h) ==
  /\ pc[h] = "store" /\ Unpacks(h)
  /\ store' = [p \in Pair |-> Newest(store[p], WithFees(h)[p])]
  /\ done' = done \cup ToSet(batch[h])
  /\ Return(h)
  /\ UNCHANGED <<now, source, logs, lost>>

(* LoadAll of the search or of the file keeper drops an expired pair.      *)
ExpirePair(p) ==
  /\ store[p] # NoEntry /\ Expired(store[p], now)
  /\ store' = [store EXCEPT ![p] = NoEntry]
  /\ done' = {l \in done : l.pair # p}
  /\ UNCHANGED <<now, source, logs, work, lost>>

-----------------------------------------------------------------------------
Init ==
  /\ now = 0
  /\ chain = <<>> /\ orphans = {} /\ fork = 0
  /\ link = "down" /\ errors = 0
  /\ logChan = <<>> /\ logs = <<>>
  /\ pc = [h \in Handler |-> "idle"] /\ batch = [h \in Handler |-> <<>>]
  /\ pairs = [h \in Handler |-> Empty] /\ seen = [h \in Handler |-> Empty]
  /\ toLoad = [h \in Handler |-> {}]
  /\ store = Empty
  /\ lost = {} /\ done = {}

Node ==
  \/ \E tx \in Transaction : Mine(tx) \/ \E n \in 0 .. Len(chain) : Replace(tx, n)
  \/ Disconnect

SubscribeFilter == Subscribe \/ SubscribeError \/ \E h \in Handler : Take(h)

Handle(h) ==
  \/ FilterFails(h) \/ Filter(h) \/ FilterNothing(h)
  \/ (\E p \in Pair : LoadPair(h, p)) \/ LoadDone(h)
  \/ CallFails(h) \/ CallAnswers(h)
  \/ FeesFail(h) \/ StoreAll(h)

Next ==
  \/ Node \/ SubscribeFilter \/ Forward
  \/ \E h \in Handler : Handle(h)
  \/ \E p \in Pair : ExpirePair(p)
  \/ Tick

Spec == Init /\ [][Next]_vars

(* The goroutines run; a view call returns, if with an error.              *)
Fairness ==
  /\ WF_vars(SubscribeFilter)
  /\ WF_vars(Forward)
  /\ \A h \in Handler : WF_vars(Handle(h))

FairSpec == Spec /\ Fairness

-----------------------------------------------------------------------------
TypeOK ==
  /\ now \in 0 .. MaxTime
  /\ chain \in Seq(Log) /\ orphans \subseteq Log /\ fork \in Fork
  /\ logChan \in Seq(Log) /\ logs \in Seq(Log)
  /\ link \in {"down", "up", "error"} /\ errors \in 0 .. MaxError
  /\ pc \in [Handler -> {"idle", "filter", "load", "call", "store"}]
  /\ batch \in [Handler -> Seq(Log)]
  /\ pairs \in [Handler -> [Pair -> Info \cup {NoEntry}]]
  /\ seen \in [Handler -> [Pair -> Info \cup {NoEntry}]]
  /\ toLoad \in [Handler -> SUBSET Pair]
  /\ store \in [Pair -> Info \cup {NoEntry}]
  /\ lost \subseteq Log /\ done \subseteq Log

(* Where the logs are.                                                     *)
Travelling == ToSet(logChan) \cup ToSet(logs)
Handled    == UNION {ToSet(batch[h]) : h \in Handler}

(* No log is handled twice: what one goroutine holds no other does, and    *)
(* nothing that was stored or dropped is still on the way (the hand-over   *)
(* of `logs` under its lock, evmmonitor.go:154-161).                       *)
HandledOnce ==
  /\ ToSet(logChan) \cap ToSet(logs) = {}
  /\ Travelling \cap Handled = {}
  /\ (Travelling \cup Handled) \cap (lost \cup done) = {}
  /\ \A g, h \in Handler : g # h => ToSet(batch[g]) \cap ToSet(batch[h]) = {}

(* Whatever the order in which overlapping handlers come to Store, once    *)
(* the newest Sync of a pair was stored the storage has the reserves of    *)
(* that Sync, and not those of a slower handler's older batch.  After a    *)
(* block was replaced it may keep the reserves of a Sync that no longer    *)
(* counts, but only of one that was as far along in the chain or further.  *)
Converged ==
  \A p \in Pair : SyncsOf(chain, p) # {} =>
    LET last == LastSync(chain, p)
        gone == {l \in orphans : l.kind = "Sync" /\ l.pair = p /\ ~Later(last.at, l.at)}
    IN last \in done =>
         store[p] # NoEntry /\ \E l \in gone \cup {last} : store[p].at = l.at /\ store[p].fork = l.fork

(* A stored pair can be priced: its tokens are known, or it is marked, or  *)
(* it is a contract that answers token0() with nothing.                    *)
Known(p, info) ==
  info.tokens = "tokens" \/ info.error \/ (info.tokens = "zero" /\ "zero" \in Answer[p])

KnownTokens == \A p \in Pair : store[p] # NoEntry => Known(p, store[p])

(* A fee that is not the default comes from a swap in that very pair, the  *)
(* log right after a Sync of the pair.  (Where a block was replaced the    *)
(* Sync whose reserves it was calculated with may be that of the other.)   *)
Mined == ToSet(chain) \cup orphans

OwnFee(p, fee) ==
  fee # NoFee =>
    \E sync, swap \in Mined :
      /\ sync.kind = "Sync" /\ swap.kind = "Swap" /\ sync.pair = p /\ swap.pair = p
      /\ Follows(swap, sync)
      /\ fee = [at |-> swap.at, fork |-> swap.fork]

FeeFromOwnSwap == \A p \in Pair : store[p] # NoEntry => OwnFee(p, store[p].fee)

(* What is known of a pair (tokens, mark, fee) is only forgotten by a race:*)
(* a handler that replaces the entry it had looked up keeps it, so what is *)
(* forgotten was stored after the look-up of protocol_data.go:67.          *)
Replaces(h, p) ==
  pc[h] = "store" /\ pc'[h] = "idle" /\ store[p] # NoEntry /\ store'[p] # store[p]

KeepsKnown(old, new) ==
  /\ new.tokens = old.tokens /\ new.error = old.error
  /\ old.fee # NoFee => new.fee # NoFee

ForgetsOnlyByRace ==
  [][\A h \in Handler, p \in Pair :
       Replaces(h, p) /\ seen[h][p] = store[p] => KeepsKnown(store[p], store'[p])]_vars

-----------------------------------------------------------------------------
(***************************************************************************)
(* Why the above holds: what is on its way says where it came from.        *)
(***************************************************************************)

(* The chain grows at its end; a block replaced is told from the one in    *)
(* its place by `fork`.                                                    *)
ChainInOrder ==
  /\ \A i, j \in 1 .. Len(chain) : i < j => Later(chain[j].at, chain[i].at)
  /\ \A l \in ToSet(chain) : l.at.block \in 1 .. MaxBlock /\ l.fork <= fork /\ ~l.removed
  /\ \A l \in orphans : l.fork < fork /\ ~l.removed
  /\ ToSet(chain) \cap orphans = {}

(* Every log was mined; what is sent as removed no longer counts.          *)
Original(l) == [l EXCEPT !.removed = FALSE]

FromChain ==
  \A l \in Travelling \cup Handled \cup lost \cup done :
    IF l.removed THEN Original(l) \in orphans ELSE l \in Mined

SentOnce == \A i, j \in 1 .. Len(logChan) : i < j => logChan[i] # logChan[j]

(* After a log that counts to this day only later ones were sent: whatever *)
(* was replaced since stood behind it.                                     *)
InOrder(ls) ==
  \A i, j \in 1 .. Len(ls) : i < j /\ ls[i] \in ToSet(chain) => Later(ls[j].at, ls[i].at)

SentInOrder ==
  /\ InOrder(logChan) /\ InOrder(logs) /\ \A h \in Handler : InOrder(batch[h])
  /\ \A l \in ToSet(logs) \cap ToSet(chain) : \A m \in ToSet(logChan) : Later(m.at, l.at)

(* A handler has the last Sync of every pair of its batch, no more, and    *)
(* what it found of a pair in the storage is in its entry.                 *)
Selected(h) ==
  /\ pc[h] \in {"idle", "filter"} => seen[h] = Empty
  /\ pc[h] # "load" => toLoad[h] = {}
  /\ \A p \in toLoad[h] : pairs[h][p] # NoEntry
  /\ pc[h] \in {"load", "call", "store"} =>
       \A p \in Pair :
         /\ pairs[h][p] # NoEntry <=> SyncsOf(batch[h], p) # {}
         /\ pairs[h][p] # NoEntry =>
              /\ pairs[h][p].at = LastSync(batch[h], p).at
              /\ pairs[h][p].fork = LastSync(batch[h], p).fork

TakenOver(h) ==
  \A p \in Pair : seen[h][p] # NoEntry =>
    /\ pairs[h][p] # NoEntry
    /\ pairs[h][p].tokens = seen[h][p].tokens /\ pairs[h][p].error = seen[h][p].error
    /\ pairs[h][p].fee = seen[h][p].fee

KnownOnTheWay(h) ==
  \A p \in Pair :
    /\ seen[h][p] # NoEntry => Known(p, seen[h][p])
    /\ pc[h] = "store" /\ pairs[h][p] # NoEntry => Known(p, pairs[h][p])

FeesOnTheWay(h) ==
  \A p \in Pair :
    /\ seen[h][p] # NoEntry => OwnFee(p, seen[h][p].fee)
    /\ pairs[h][p] # NoEntry => OwnFee(p, pairs[h][p].fee)

Working(h) == Selected(h) /\ TakenOver(h) /\ KnownOnTheWay(h) /\ FeesOnTheWay(h)
AtWork == \A h \in Handler : Working(h)

(* The reserves of a stored pair are those of a Sync of the pair, and none *)
(* of its Syncs that was stored and still counts is later.                 *)
StoredSync ==
  \A p \in Pair : store[p] # NoEntry =>
    \E l \in Mined :
      l.kind = "Sync" /\ l.pair = p /\ store[p].at = l.at /\ store[p].fork = l.fork

StoredLatest ==
  \A l \in done \cap ToSet(chain) : l.kind = "Sync" =>
    store[l.pair] # NoEntry /\ ~Later(l.at, store[l.pair].at)

Places == HandledOnce /\ ChainInOrder /\ FromChain /\ SentOnce /\ SentInOrder
Stored == KnownTokens /\ FeeFromOwnSwap /\ StoredSync /\ StoredLatest

Inv == Places /\ AtWork /\ Stored

(* The state is well typed, no log is in two places at a time, and what is *)
(* on its way to the storage is what was mined, in the order of the chain. *)
IInv == TypeOK /\ Inv

-----------------------------------------------------------------------------
(* Every log of a subscription ends up stored or dropped; none waits in a  *)
(* buffer or in a handler for ever.                                        *)
LogsEnd ==
  \A x \in Position :
    (\E l \in Travelling : l.at = x) ~> \A l \in Travelling \cup Handled : l.at # x
=============================================================================
