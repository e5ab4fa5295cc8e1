--------------------------- MODULE MCLogPipeline ---------------------------
(* Chains for TLC.                                                          *)
EXTENDS LogPipeline, TLC

CONSTANTS p1, p2, h1, h2

Handlers == Permutations({h1, h2})

Positions2 == [block : 1 .. MaxBlock, tx : {0}, log : 1 .. 4]

(* A swap in one pair, a mint, and a path through both pairs whose logs    *)
(* come in either order (a Swap right after the other pair's Sync).        *)
SwapTx(p) == <<<<"Sync", p>>, <<"Swap", p>>>>
MintTx(p) == <<<<"Sync", p>>>>
BadTx     == <<<<"BadSync", p1>>>>
BadSwapTx(p) == <<<<"Sync", p>>, <<"BadSwap", p>>>>
CrossTx   == <<<<"Sync", p1>>, <<"Swap", p2>>>>

OnePairTxs == {SwapTx(p1), MintTx(p1), BadTx}
TwoPairTxs == {SwapTx(p1), MintTx(p1), MintTx(p2), BadSwapTx(p2), CrossTx}

AllAnswers  == [p \in Pair |-> Outcome]
GoodAnswers == [p \in Pair |-> {"tokens"}]
MixedAnswers == [p \in Pair |-> {"tokens", "fail"}]
=============================================================================
