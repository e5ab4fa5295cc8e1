------------------------------ MODULE PairStore ------------------------------
(***************************************************************************)
(* monitor/storage/storage.go, DatasStorage, at the granularity of its     *)
(* lock operations, with the goroutines that use it: handlers run          *)
(* ProtocolData.doNewLogHandler (Load, then Store), scanners run LoadAll   *)
(* (the search loop of arbitrage and the file loop of datakeeper).         *)
(*                                                                         *)
(* Two things of the Go runtime are modelled from how the code uses them:  *)
(* sync.RWMutex (writer, readers) and the writing flag of a map: a map     *)
(* access made while another goroutine is inside a map write ends the      *)
(* process ("fatal error: concurrent map ...").                            *)
(***************************************************************************)
EXTENDS LogOrder

CONSTANTS
  Handler, Scanner,  \* goroutines
  Nobody,
  MadeAtStart        \* TRUE: datakeeper read at least one pair from its file

Goroutine == Handler \cup Scanner

ASSUME GoroutineAssumption ==
  /\ Handler \cap Scanner = {}
  /\ Nobody \notin Goroutine
ASSUME StartAssumption == MadeAtStart \in BOOLEAN

VARIABLES
  now,        \* time.Now().Unix()
  made,       \* s.datas # nil
  datas,      \* s.datas; all NoEntry while it is nil
  writer,     \* holder of s.lock.Lock()
  readers,    \* holders of s.lock.RLock()
  mapWriter,  \* goroutine inside a map write
  fatal,      \* the runtime has ended the process
  pc,         \* where each goroutine is
  batch,      \* keys and datas a handler passes to Store
  todo,       \* keys a scanner's range loop has still to visit
  cur,        \* key whose delete a scanner is in, NoEntry if in none
  all         \* result map of a scanner's LoadAll

store == <<made, datas>>
lock  == <<writer, readers>>
vars  == <<now, store, lock, mapWriter, fatal, pc, batch, todo, cur, all>>

Empty == [k \in Pair |-> NoEntry]

(***************************************************************************)
(* sync.RWMutex.  Lock first shuts out other Lock and all new RLock calls, *)
(* then waits for the readers inside to leave: `writer` is the goroutine   *)
(* that got through the first part.                                        *)
(***************************************************************************)
Go(p, from, to) == pc[p] = from /\ pc' = [pc EXCEPT ![p] = to]

(* A map access while another goroutine writes the map.  Go leaves a data  *)
(* race undefined: the check of the writing flag ends the process, and if  *)
(* it misses nothing holds of the map any more.  No step follows.          *)
Crash == fatal' = TRUE /\ UNCHANGED <<now, store, lock, mapWriter, pc, batch, todo, cur, all>>

(***************************************************************************)
(* Store(keys, datas).  An empty batch returns at once; under the lock the *)
(* map is made if need be and every key takes its new value unless the old *)
(* one says NeedUpdate is false.                                           *)
(***************************************************************************)
NewBatch == {b \in [Pair -> {[at |-> a, time |-> now] : a \in Position} \cup {NoEntry}] : b # Empty}

StoreCall(h, b) ==
  /\ Go(h, "idle", "lock")
  /\ batch' = [batch EXCEPT ![h] = b]
  /\ UNCHANGED <<now, store, lock, mapWriter, fatal, todo, cur, all>>

LockAnnounce(p) ==
  /\ writer = Nobody
  /\ Go(p, "lock", "drain") \/ Go(p, "make", "makedrain")
  /\ writer' = p
  /\ UNCHANGED <<now, store, readers, mapWriter, fatal, batch, todo, cur, all>>

StoreLockNoDrain(h) ==  \* mutant: the readers inside are not waited for
  /\ Go(h, "drain", "write")
  /\ mapWriter' = h
  /\ UNCHANGED <<now, store, lock, fatal, batch, todo, cur, all>>

StoreLock(h) ==
  /\ readers = {}
  /\ Go(h, "drain", "write")
  /\ mapWriter' = h
  /\ UNCHANGED <<now, store, lock, fatal, batch, todo, cur, all>>

KeptIfNone(k, b) == b[k] = NoEntry  \* mutant: NeedUpdate is not asked

Kept(k, b) == b[k] = NoEntry \/ (datas[k] # NoEntry /\ ~NeedUpdate(datas[k], b[k]))

StoreWriteNoUnlock(h) ==  \* mutant: the deferred Unlock is missing
  /\ Go(h, "write", "idle")
  /\ made' = TRUE
  /\ datas' = [k \in Pair |-> IF Kept(k, batch[h]) THEN datas[k] ELSE batch[h][k]]
  /\ mapWriter' = Nobody
  /\ batch' = [batch EXCEPT ![h] = Empty]
  /\ UNCHANGED <<now, lock, fatal, todo, cur, all>>

StoreWrite(h) ==
  /\ Go(h, "write", "idle")
  /\ made' = TRUE
  /\ datas' = [k \in Pair |-> IF Kept(k, batch[h]) THEN datas[k] ELSE batch[h][k]]
  /\ writer' = Nobody
  /\ mapWriter' = Nobody
  /\ batch' = [batch EXCEPT ![h] = Empty]
  /\ UNCHANGED <<now, readers, fatal, todo, cur, all>>

(***************************************************************************)
(* Load and LoadAll look at s.datas before they take the lock; if it was   *)
(* nil they take the lock and assign a new map.                            *)
(***************************************************************************)
Begin(p) ==
  /\ Go(p, "idle", IF made THEN "rlock" ELSE "make")
  /\ UNCHANGED <<now, store, lock, mapWriter, fatal, batch, todo, cur, all>>

MakeMap(p) ==
  /\ readers = {}
  /\ Go(p, "makedrain", "rlock")
  /\ made' = TRUE
  /\ datas' = Empty
  /\ writer' = Nobody
  /\ UNCHANGED <<now, readers, mapWriter, fatal, batch, todo, cur, all>>

LoadRLockFree(h) ==  \* mutant: Load reads the map without the lock
  /\ Go(h, "rlock", "read")
  /\ readers' = readers \cup {h}
  /\ UNCHANGED <<now, store, writer, mapWriter, fatal, batch, todo, cur, all>>

LoadReadNoUnlock(h) ==  \* mutant: the deferred RUnlock is missing
  /\ Go(h, "read", "idle")
  /\ UNCHANGED <<now, store, lock, mapWriter, fatal, batch, todo, cur, all>>

(* Load: return s.datas[key] under the read lock.                          *)
LoadRLock(h) ==
  /\ writer = Nobody
  /\ Go(h, "rlock", "read")
  /\ readers' = readers \cup {h}
  /\ UNCHANGED <<now, store, writer, mapWriter, fatal, batch, todo, cur, all>>

LoadRead(h) ==
  /\ pc[h] = "read"
  /\ \/ mapWriter # Nobody /\ Crash
     \/ /\ mapWriter = Nobody
        /\ Go(h, "read", "idle")
        /\ readers' = readers \ {h}
        /\ UNCHANGED <<now, store, writer, mapWriter, fatal, batch, todo, cur, all>>

(***************************************************************************)
(* LoadAll: range over the map under the read lock; an expired entry is    *)
(* deleted from the map, the others are copied to the result.  Go visits   *)
(* the keys in any order and skips those deleted meanwhile.                *)
(***************************************************************************)
ScanRLock(s) ==
  /\ writer = Nobody
  /\ Go(s, "rlock", "scan")
  /\ readers' = readers \cup {s}
  /\ todo' = [todo EXCEPT ![s] = Pair]
  /\ UNCHANGED <<now, store, writer, mapWriter, fatal, batch, cur, all>>

ScanCopy(s, k) ==
  /\ ~Expired(datas[k], now)
  /\ Go(s, "scan", "scan")
  /\ all' = [all EXCEPT ![s][k] = datas[k]]
  /\ UNCHANGED <<mapWriter, cur>>

ScanDeleteNoLife(s, k) ==  \* mutant: the day a pair stays valid is forgotten
  /\ now > datas[k].time
  /\ Go(s, "scan", "del")
  /\ mapWriter' = s
  /\ cur' = [cur EXCEPT ![s] = k]
  /\ UNCHANGED all

ScanDelete(s, k) ==
  /\ Expired(datas[k], now)
  /\ Go(s, "scan", "del")
  /\ mapWriter' = s
  /\ cur' = [cur EXCEPT ![s] = k]
  /\ UNCHANGED all

ScanNext(s, k) ==
  /\ pc[s] = "scan"
  /\ k \in todo[s]
  /\ datas[k] # NoEntry
  /\ \/ mapWriter # Nobody /\ Crash
     \/ /\ mapWriter = Nobody
        /\ ScanCopy(s, k) \/ ScanDelete(s, k)
        /\ todo' = [todo EXCEPT ![s] = @ \ {k}]
        /\ UNCHANGED <<now, store, lock, fatal, batch>>

ScanDeleted(s) ==
  /\ Go(s, "del", "scan")
  /\ datas' = [datas EXCEPT ![cur[s]] = NoEntry]
  /\ mapWriter' = Nobody
  /\ cur' = [cur EXCEPT ![s] = NoEntry]
  /\ UNCHANGED <<now, made, lock, fatal, batch, todo, all>>

(* The range is over: LoadAll returns all[s] to its caller.                *)
ScanDone(s) ==
  /\ \A k \in todo[s] : datas[k] = NoEntry
  /\ Go(s, "scan", "idle")
  /\ readers' = readers \ {s}
  /\ todo' = [todo EXCEPT ![s] = {}]
  /\ all' = [all EXCEPT ![s] = Empty]
  /\ UNCHANGED <<now, store, writer, mapWriter, fatal, batch, cur>>

Tick ==
  /\ now < MaxTime
  /\ now' = now + 1
  /\ UNCHANGED <<store, lock, mapWriter, fatal, pc, batch, todo, cur, all>>

-----------------------------------------------------------------------------
(* A file that held no pair leaves s.datas nil.                            *)
Init ==
  /\ now = 0
  /\ made = MadeAtStart
  /\ datas \in [Pair -> {[at |-> a, time |-> 0] : a \in Position} \cup {NoEntry}]
  /\ made <=> datas # Empty
  /\ writer = Nobody
  /\ readers = {}
  /\ mapWriter = Nobody
  /\ fatal = FALSE
  /\ pc = [p \in Goroutine |-> "idle"]
  /\ batch = [h \in Handler |-> Empty]
  /\ todo = [s \in Scanner |-> {}]
  /\ cur = [s \in Scanner |-> NoEntry]
  /\ all = [s \in Scanner |-> Empty]

HandlerStep(h) ==
  \/ \E b \in NewBatch : StoreCall(h, b)
  \/ LockAnnounce(h)
  \/ StoreLock(h)
  \/ StoreWrite(h)
  \/ Begin(h)
  \/ MakeMap(h)
  \/ LoadRLock(h)
  \/ LoadRead(h)

ScannerStep(s) ==
  \/ Begin(s)
  \/ LockAnnounce(s)
  \/ MakeMap(s)
  \/ ScanRLock(s)
  \/ \E k \in Pair : ScanNext(s, k)
  \/ ScanDeleted(s)
  \/ ScanDone(s)

Next ==
  /\ ~fatal
  /\ \/ \E h \in Handler : HandlerStep(h)
     \/ \E s \in Scanner : ScannerStep(s)
     \/ Tick

Spec == Init /\ [][Next]_vars

(* The Go scheduler runs every goroutine that can run; sync.Mutex hands    *)
(* over to a waiter after 1ms and Unlock lets the waiting readers in, so a *)
(* goroutine is not passed over for ever at either end of the lock (SF).   *)
(* Nothing obliges a goroutine to call Store, Load or LoadAll.             *)
Fairness ==
  /\ \A p \in Goroutine :
       /\ SF_vars(~fatal /\ LockAnnounce(p))
       /\ WF_vars(~fatal /\ MakeMap(p))
  /\ \A h \in Handler :
       /\ SF_vars(~fatal /\ LoadRLock(h))
       /\ WF_vars(~fatal /\ (StoreLock(h) \/ StoreWrite(h) \/ LoadRead(h)))
  /\ \A s \in Scanner :
       /\ SF_vars(~fatal /\ ScanRLock(s))
       /\ WF_vars(~fatal /\ ((\E k \in Pair : ScanNext(s, k)) \/ ScanDeleted(s) \/ ScanDone(s)))

FairSpec == Spec /\ Fairness

-----------------------------------------------------------------------------
(* Every variable keeps the shape its Go declaration gives it.             *)
TypeOK ==
  /\ now \in 0 .. MaxTime
  /\ made \in BOOLEAN
  /\ datas \in [Pair -> Slot]
  /\ writer \in Goroutine \cup {Nobody}
  /\ readers \subseteq Goroutine
  /\ mapWriter \in Goroutine \cup {Nobody}
  /\ fatal \in BOOLEAN
  /\ pc \in [Goroutine -> {"idle", "lock", "drain", "write", "make", "makedrain",
                            "rlock", "read", "scan", "del"}]
  /\ batch \in [Handler -> [Pair -> Slot]]
  /\ todo \in [Scanner -> SUBSET Pair]
  /\ cur \in [Scanner -> Pair \cup {NoEntry}]
  /\ all \in [Scanner -> [Pair -> Slot]]

(* The write half of the lock belongs to the goroutine that announced, the *)
(* read half to those inside Load or LoadAll, and a Store that writes has  *)
(* no reader beside it.                                                    *)
LockHeld ==
  /\ \A p \in Goroutine : writer = p <=> pc[p] \in {"drain", "write", "makedrain"}
  /\ readers = {p \in Goroutine : pc[p] \in {"read", "scan", "del"}}
  /\ (\E h \in Handler : pc[h] = "write") => readers = {}

(* Only a Store and the delete of one LoadAll write the map.               *)
OneMapWriter ==
  \A p \in Goroutine : mapWriter = p <=> pc[p] \in {"write", "del"}

(* Handlers run Store and Load, scanners LoadAll.                          *)
Programs ==
  /\ \A h \in Handler : pc[h] \notin {"scan", "del"}
  /\ \A s \in Scanner : pc[s] \notin {"lock", "drain", "write", "read"}

DeletesExpired ==
  \A s \in Scanner : pc[s] = "del" =>
    /\ cur[s] \in Pair /\ datas[cur[s]] # NoEntry /\ Expired(datas[cur[s]], now)
    /\ cur[s] \notin todo[s] /\ all[s][cur[s]] = NoEntry

(* What a LoadAll has copied so far is still what the storage holds, or    *)
(* has expired and been dropped.                                           *)
Copied ==
  \A s \in Scanner, k \in Pair :
    /\ pc[s] \notin {"scan", "del"} \/ k \in todo[s] => all[s][k] = NoEntry
    /\ pc[s] \in {"scan", "del"} =>
         \/ k \in todo[s] \/ (pc[s] = "del" /\ k = cur[s])
         \/ all[s][k] = datas[k]
         \/ datas[k] = NoEntry /\ Expired(all[s][k], now)

MadeOnce == MadeAtStart => made /\ \A p \in Goroutine : pc[p] \notin {"make", "makedrain"}

Inv == LockHeld /\ OneMapWriter /\ Programs /\ DeletesExpired /\ Copied /\ MadeOnce

(* The lock, the map writes and the snapshots under way fit together; this *)
(* is the inductive invariant behind every safety property below.         *)
IInv == TypeOK /\ Inv

(* However Store, Load and LoadAll interleave, what a reader could see in  *)
(* the storage is a VersionedMap: a batch appears at once, keys only move  *)
(* to later logs, and only expired entries go.                             *)
VM == INSTANCE VersionedMap WITH content <- datas, clock <- now
Implements == VM!Spec

(* No step makes a pair that has not expired vanish or fall back to an     *)
(* earlier log, whatever goroutine takes it.                               *)
NoFreshLossStep ==
  \A k \in Pair :
    datas[k] # NoEntry /\ datas'[k] # datas[k] =>
      \/ Expired(datas[k], now)
      \/ datas'[k] # NoEntry /\ NeedUpdate(datas[k], datas'[k])
NoFreshLoss == [][NoFreshLossStep]_vars

(* What LoadAll returns is the storage as it is at the moment it returns,  *)
(* every pair from the same moment (batches are not torn), save that pairs *)
(* another LoadAll has dropped meanwhile are still in it: those have       *)
(* expired.                                                                *)
SnapshotExactStep ==
  \A s \in Scanner : pc[s] = "scan" /\ pc'[s] = "idle" =>
    \A k \in Pair :
      \/ all[s][k] = datas[k]
      \/ datas[k] = NoEntry /\ Expired(all[s][k], now)
SnapshotExact == [][SnapshotExactStep]_vars

(* The only overlapping map access is with the delete LoadAll makes under  *)
(* the read lock: Store never overlaps with anything, and if no pair       *)
(* expires the process does not die of the map.                            *)
CrashNeedsExpiry ==
  fatal => \E s \in Scanner :
             /\ mapWriter = s /\ pc[s] = "del" /\ s \in readers
             /\ Expired(datas[cur[s]], now)

(* A handler that calls Store gets its batch in: it is not kept out for    *)
(* ever by the LoadAll of every 100ms, nor by a lock nobody releases.      *)
StoreReturns ==
  \A h \in Handler : pc[h] = "lock" ~> pc[h] = "idle" \/ fatal

(* Every LoadAll returns, so the search loop and the file loop go on.      *)
LoadAllReturns ==
  \A s \in Scanner : pc[s] \in {"make", "rlock"} ~> pc[s] = "idle" \/ fatal
=============================================================================
