------------------------------ MODULE LogOrder ------------------------------
(***************************************************************************)
(* The data of monitor/protocol/protocol.go: where in the chain the log    *)
(* was that a pair's reserves come from, when that position supersedes     *)
(* another one, and when a stored pair is too old to be used.              *)
(*                                                                         *)
(* A stored pair is an entry [at, time].  `at` is the position of its Sync *)
(* log (BlockNumber, TxIndex, LogIndex); on one chain a position has one   *)
(* log, so `at` also stands for the reserves that log carried.  `time` is  *)
(* Timestamp, the second the log was parsed at.                            *)
(***************************************************************************)
EXTENDS Integers

CONSTANTS
  Pair,      \* pair addresses, the keys of the storage
  Position,  \* the positions Sync logs may have
  NoEntry,   \* "no value under this key"
  Life,      \* seconds a stored pair stays valid (86400 in the code)
  MaxTime    \* the clock is followed up to here

ASSUME PositionAssumption == Position \subseteq [block : Nat, tx : Nat, log : Nat]
ASSUME TimeAssumption     == Life \in Nat /\ MaxTime \in Nat

(* One position is later than another: compared by block, then by          *)
(* transaction in the block, then by log in the block.                     *)
Later(new, old) ==
  \/ new.block > old.block
  \/ new.block = old.block /\ new.tx > old.tx
  \/ new.block = old.block /\ new.tx = old.tx /\ new.log > old.log

NeedUpdate(old, new) == Later(new.at, old.at)

(* What Store leaves under a key: the later of what it finds there and of  *)
(* what it is given.                                                       *)
Newest(held, offered) ==
  IF offered # NoEntry /\ (held = NoEntry \/ NeedUpdate(held, offered)) THEN offered ELSE held

Expired(entry, now) == now > entry.time + Life

(* An entry is a record of two fields; NoEntry is none of them.            *)
Entry == [at : Position, time : 0 .. MaxTime]
Slot  == Entry \cup {NoEntry}

ASSUME NoEntryAssumption == NoEntry \notin Entry
=============================================================================
