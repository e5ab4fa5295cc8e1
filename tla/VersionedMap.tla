---------------------------- MODULE VersionedMap ----------------------------
(***************************************************************************)
(* What the rest of the monitor relies on when it uses the storage: a map  *)
(* from pair to its latest known entry.  A batch of entries is put in one  *)
(* step, a key only ever moves to a later position, and an entry goes away *)
(* only once it has expired.                                               *)
(***************************************************************************)
EXTENDS LogOrder

VARIABLES
  content,  \* pair -> its entry, or NoEntry
  clock

vars == <<content, clock>>

Batch == [Pair -> Slot]

Init ==
  /\ content \in Batch
  /\ clock = 0

Put(batch) ==
  /\ content' = [k \in Pair |-> Newest(content[k], batch[k])]
  /\ UNCHANGED clock

Expire(k) ==
  /\ content[k] # NoEntry
  /\ Expired(content[k], clock)
  /\ content' = [content EXCEPT ![k] = NoEntry]
  /\ UNCHANGED clock

Tick ==
  /\ clock < MaxTime
  /\ clock' = clock + 1
  /\ UNCHANGED content

Next ==
  \/ \E batch \in Batch : Put(batch)
  \/ \E k \in Pair : Expire(k)
  \/ Tick

Spec == Init /\ [][Next]_vars
=============================================================================
