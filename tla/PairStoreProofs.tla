--------------------------- MODULE PairStoreProofs ---------------------------
(***************************************************************************)
(* Theorems about PairStore, for any number of goroutines, pairs and       *)
(* positions and any life of an entry.                                     *)
(***************************************************************************)
EXTENDS PairStore, TLAPS

(* NewBatch only offers well-formed batches.                               *)
LEMMA BatchType ==
  ASSUME now \in 0 .. MaxTime, NEW b \in NewBatch
  PROVE  b \in [Pair -> Slot]
  BY DEF NewBatch, Slot, Entry, Empty

LEMMA EmptyType == Empty \in [Pair -> Slot]
  BY DEF Empty, Slot

-----------------------------------------------------------------------------
LEMMA TypeInit == Init => TypeOK
  <1> SUFFICES ASSUME Init PROVE TypeOK
    OBVIOUS
  <1>1. now \in 0 .. MaxTime /\ made \in BOOLEAN
    BY StartAssumption, TimeAssumption DEF Init
  <1>2. datas \in [Pair -> Slot]
    BY TimeAssumption DEF Init, Slot, Entry
  <1>3. /\ writer \in Goroutine \cup {Nobody}
        /\ readers \subseteq Goroutine
        /\ mapWriter \in Goroutine \cup {Nobody}
        /\ fatal \in BOOLEAN
    BY DEF Init
  <1>4. pc \in [Goroutine -> {"idle", "lock", "drain", "write", "make", "makedrain",
                              "rlock", "read", "scan", "del"}]
    BY DEF Init
  <1>5. /\ batch \in [Handler -> [Pair -> Slot]]
        /\ todo \in [Scanner -> SUBSET Pair]
        /\ cur \in [Scanner -> Pair \cup {NoEntry}]
        /\ all \in [Scanner -> [Pair -> Slot]]
    BY EmptyType DEF Init
  <1> QED
    BY <1>1, <1>2, <1>3, <1>4, <1>5 DEF TypeOK

LEMMA TypeStep == TypeOK /\ [Next]_vars => TypeOK'
  <1> SUFFICES ASSUME TypeOK, [Next]_vars PROVE TypeOK'
    OBVIOUS
  <1> USE DEF TypeOK, Goroutine, Go, Crash, store, lock
  <1>1. ASSUME NEW h \in Handler, NEW b \in NewBatch, StoreCall(h, b) PROVE TypeOK'
    BY <1>1, BatchType DEF StoreCall
  <1>2. ASSUME NEW p \in Goroutine, LockAnnounce(p) PROVE TypeOK'
    BY <1>2 DEF LockAnnounce
  <1>3. ASSUME NEW h \in Handler, StoreLock(h) PROVE TypeOK'
    BY <1>3 DEF StoreLock
  <1>4. ASSUME NEW h \in Handler, StoreWrite(h) PROVE TypeOK'
    BY <1>4, EmptyType DEF StoreWrite
  <1>5. ASSUME NEW p \in Goroutine, Begin(p) PROVE TypeOK'
    BY <1>5 DEF Begin
  <1>6. ASSUME NEW p \in Goroutine, MakeMap(p) PROVE TypeOK'
    BY <1>6, EmptyType DEF MakeMap
  <1>7. ASSUME NEW h \in Handler, LoadRLock(h) PROVE TypeOK'
    BY <1>7 DEF LoadRLock
  <1>8. ASSUME NEW h \in Handler, LoadRead(h) PROVE TypeOK'
    BY <1>8 DEF LoadRead
  <1>9. ASSUME NEW s \in Scanner, ScanRLock(s) PROVE TypeOK'
    BY <1>9 DEF ScanRLock
  <1>10. ASSUME NEW s \in Scanner, NEW k \in Pair, ScanNext(s, k) PROVE TypeOK'
    <2>1. CASE Crash
      BY <1>10, <2>1 DEF ScanNext
    <2>2. CASE ~Crash /\ ScanCopy(s, k)
      BY <1>10, <2>2 DEF ScanNext, ScanCopy
    <2>3. CASE ~Crash /\ ScanDelete(s, k)
      BY <1>10, <2>3 DEF ScanNext, ScanDelete
    <2> QED
      BY <1>10, <2>1, <2>2, <2>3 DEF ScanNext
  <1>11. ASSUME NEW s \in Scanner, ScanDeleted(s) PROVE TypeOK'
    BY <1>11 DEF ScanDeleted, Slot
  <1>12. ASSUME NEW s \in Scanner, ScanDone(s) PROVE TypeOK'
    BY <1>12, EmptyType DEF ScanDone
  <1>13. ASSUME Tick PROVE TypeOK'
    BY <1>13, TimeAssumption DEF Tick
  <1>14. ASSUME UNCHANGED vars PROVE TypeOK'
    BY <1>14 DEF vars
  <1> QED
    BY <1>1, <1>2, <1>3, <1>4, <1>5, <1>6, <1>7, <1>8, <1>9, <1>10, <1>11, <1>12, <1>13, <1>14
    DEF Next, HandlerStep, ScannerStep

(* The variables of the storage and of its callers keep their types.       *)
THEOREM TypeCorrect == Spec => []TypeOK
  <1> QED
    BY TypeInit, TypeStep, PTL DEF Spec

-----------------------------------------------------------------------------
(* Once expired, expired: the clock only goes forward.                     *)
LEMMA StaysExpired ==
  ASSUME NEW e \in Entry, NEW t \in 0 .. MaxTime, Expired(e, t)
  PROVE  Expired(e, t + 1)
  BY TimeAssumption DEF Expired, Entry

LEMMA SlotIsEntry ==
  ASSUME NEW e \in Slot, e # NoEntry
  PROVE  e \in Entry
  BY DEF Slot

LEMMA InvInit == Init => Inv
  <1> SUFFICES ASSUME Init PROVE Inv
    OBVIOUS
  <1>1. LockHeld /\ OneMapWriter /\ Programs
    BY GoroutineAssumption DEF Init, LockHeld, OneMapWriter, Programs, Goroutine
  <1>2. DeletesExpired /\ Copied /\ MadeOnce
    BY DEF Init, DeletesExpired, Copied, MadeOnce, Goroutine, Empty
  <1> QED
    BY <1>1, <1>2 DEF Inv

(* The lock discipline, which speaks only of the lock and of pc.           *)
LEMMA LockStep ==
  TypeOK /\ Inv /\ [Next]_vars => (LockHeld /\ OneMapWriter /\ Programs)'
  <1> SUFFICES ASSUME TypeOK, LockHeld, OneMapWriter, Programs, [Next]_vars
               PROVE  (LockHeld /\ OneMapWriter /\ Programs)'
    BY DEF Inv
  <1> DEFINE Goal == (LockHeld /\ OneMapWriter /\ Programs)'
  <1> USE GoroutineAssumption
      DEF TypeOK, LockHeld, OneMapWriter, Programs, Goroutine, Go, Crash, store, lock
  <1>1. ASSUME NEW h \in Handler, NEW b \in NewBatch, StoreCall(h, b) PROVE Goal
    BY <1>1 DEF StoreCall
  <1>2. ASSUME NEW p \in Goroutine, LockAnnounce(p) PROVE Goal
    BY <1>2 DEF LockAnnounce
  <1>3. ASSUME NEW h \in Handler, StoreLock(h) PROVE Goal
    BY <1>3 DEF StoreLock
  <1>4. ASSUME NEW h \in Handler, StoreWrite(h) PROVE Goal
    BY <1>4 DEF StoreWrite
  <1>5. ASSUME NEW p \in Goroutine, Begin(p) PROVE Goal
    BY <1>5 DEF Begin
  <1>6. ASSUME NEW p \in Goroutine, MakeMap(p) PROVE Goal
    BY <1>6 DEF MakeMap
  <1>7. ASSUME NEW h \in Handler, LoadRLock(h) PROVE Goal
    BY <1>7 DEF LoadRLock
  <1>8. ASSUME NEW h \in Handler, LoadRead(h) PROVE Goal
    BY <1>8 DEF LoadRead
  <1>9. ASSUME NEW s \in Scanner, ScanRLock(s) PROVE Goal
    BY <1>9 DEF ScanRLock
  <1>10. ASSUME NEW s \in Scanner, NEW k \in Pair, ScanNext(s, k) PROVE Goal
    BY <1>10 DEF ScanNext, ScanCopy, ScanDelete
  <1>11. ASSUME NEW s \in Scanner, ScanDeleted(s) PROVE Goal
    BY <1>11 DEF ScanDeleted
  <1>12. ASSUME NEW s \in Scanner, ScanDone(s) PROVE Goal
    BY <1>12 DEF ScanDone
  <1>13. ASSUME Tick PROVE Goal
    BY <1>13 DEF Tick
  <1>14. ASSUME UNCHANGED vars PROVE Goal
    BY <1>14 DEF vars
  <1> QED
    BY <1>1, <1>2, <1>3, <1>4, <1>5, <1>6, <1>7, <1>8, <1>9, <1>10, <1>11, <1>12, <1>13, <1>14
    DEF Next, HandlerStep, ScannerStep

LEMMA MadeStep == TypeOK /\ Inv /\ [Next]_vars => MadeOnce'
  <1> SUFFICES ASSUME TypeOK, MadeOnce, [Next]_vars PROVE MadeOnce'
    BY DEF Inv
  <1> USE DEF TypeOK, MadeOnce, Goroutine, Go, Crash, store, lock
  <1>1. ASSUME NEW p \in Goroutine, Begin(p) \/ LockAnnounce(p) \/ MakeMap(p) PROVE MadeOnce'
    BY <1>1 DEF Begin, LockAnnounce, MakeMap
  <1>2. ASSUME NEW h \in Handler,
               \/ \E b \in NewBatch : StoreCall(h, b)
               \/ StoreLock(h) \/ StoreWrite(h) \/ LoadRLock(h) \/ LoadRead(h)
        PROVE MadeOnce'
    BY <1>2 DEF StoreCall, StoreLock, StoreWrite, LoadRLock, LoadRead
  <1>3. ASSUME NEW s \in Scanner,
               \/ ScanRLock(s) \/ ScanDeleted(s) \/ ScanDone(s)
               \/ \E k \in Pair : ScanNext(s, k)
        PROVE MadeOnce'
    BY <1>3 DEF ScanRLock, ScanDeleted, ScanDone, ScanNext, ScanCopy, ScanDelete
  <1>4. ASSUME Tick \/ UNCHANGED vars PROVE MadeOnce'
    BY <1>4 DEF Tick, vars
  <1> QED
    BY <1>1, <1>2, <1>3, <1>4 DEF Next, HandlerStep, ScannerStep

(* While a LoadAll holds its read lock only another LoadAll's delete       *)
(* changes the map, and only to drop a pair that has expired.              *)
LEMMA DeleteStep == TypeOK /\ Inv /\ [Next]_vars => DeletesExpired'
  <1> SUFFICES ASSUME TypeOK, Inv, [Next]_vars PROVE DeletesExpired'
    OBVIOUS
  <1> USE GoroutineAssumption DEF TypeOK, Inv, DeletesExpired, Goroutine, Go, Crash, store, lock
  <1>1. ASSUME NEW h \in Handler, NEW b \in NewBatch, StoreCall(h, b) PROVE DeletesExpired'
    BY <1>1 DEF StoreCall
  <1>2. ASSUME NEW p \in Goroutine, LockAnnounce(p) \/ Begin(p) PROVE DeletesExpired'
    BY <1>2 DEF LockAnnounce, Begin
  <1>3. ASSUME NEW h \in Handler, StoreLock(h) \/ LoadRLock(h) PROVE DeletesExpired'
    BY <1>3 DEF StoreLock, LoadRLock
  <1>4. ASSUME NEW h \in Handler, StoreWrite(h) PROVE DeletesExpired'
    <2>1. \A s \in Scanner : pc'[s] # "del"
      BY <1>4 DEF StoreWrite, LockHeld, Programs
    <2> QED
      BY <2>1
  <1>5. ASSUME NEW p \in Goroutine, MakeMap(p) PROVE DeletesExpired'
    <2>1. \A s \in Scanner : pc'[s] # "del"
      BY <1>5 DEF MakeMap, LockHeld
    <2> QED
      BY <2>1
  <1>6. ASSUME NEW h \in Handler, LoadRead(h) PROVE DeletesExpired'
    BY <1>6 DEF LoadRead
  <1>7. ASSUME NEW s \in Scanner, ScanRLock(s) PROVE DeletesExpired'
    BY <1>7 DEF ScanRLock
  <1>8. ASSUME NEW s \in Scanner, NEW k \in Pair, ScanNext(s, k) PROVE DeletesExpired'
    <2>1. CASE Crash
      BY <1>8, <2>1 DEF ScanNext
    <2>2. CASE ~Crash /\ ScanCopy(s, k)
      BY <1>8, <2>2 DEF ScanNext, ScanCopy
    <2>3. CASE ~Crash /\ ScanDelete(s, k)
      <3>1. all[s][k] = NoEntry
        BY <1>8, <2>3 DEF ScanNext, Copied
      <3> QED
        BY <1>8, <2>3, <3>1 DEF ScanNext, ScanDelete
    <2> QED
      BY <1>8, <2>1, <2>2, <2>3 DEF ScanNext
  <1>9. ASSUME NEW s \in Scanner, ScanDeleted(s) PROVE DeletesExpired'
    <2>1. \A r \in Scanner : pc'[r] # "del"
      BY <1>9 DEF ScanDeleted, OneMapWriter
    <2> QED
      BY <2>1
  <1>10. ASSUME NEW s \in Scanner, ScanDone(s) PROVE DeletesExpired'
    BY <1>10 DEF ScanDone
  <1>11. ASSUME Tick PROVE DeletesExpired'
    <2>1. ASSUME NEW s \in Scanner, pc[s] = "del" PROVE Expired(datas[cur[s]], now + 1)
      BY <2>1, StaysExpired, SlotIsEntry
    <2> QED
      BY <1>11, <2>1 DEF Tick
  <1>12. ASSUME UNCHANGED vars PROVE DeletesExpired'
    BY <1>12 DEF vars
  <1> QED
    BY <1>1, <1>2, <1>3, <1>4, <1>5, <1>6, <1>7, <1>8, <1>9, <1>10, <1>11, <1>12
    DEF Next, HandlerStep, ScannerStep

LEMMA CopyStep == TypeOK /\ Inv /\ [Next]_vars => Copied'
  <1> SUFFICES ASSUME TypeOK, Inv, [Next]_vars PROVE Copied'
    OBVIOUS
  <1> USE GoroutineAssumption DEF TypeOK, Inv, Copied, Goroutine, Go, Crash, store, lock
  <1>1. ASSUME NEW h \in Handler, NEW b \in NewBatch, StoreCall(h, b) PROVE Copied'
    BY <1>1 DEF StoreCall
  <1>2. ASSUME NEW p \in Goroutine, LockAnnounce(p) \/ Begin(p) PROVE Copied'
    BY <1>2 DEF LockAnnounce, Begin
  <1>3. ASSUME NEW h \in Handler, StoreLock(h) \/ LoadRLock(h) PROVE Copied'
    BY <1>3 DEF StoreLock, LoadRLock
  <1>4. ASSUME NEW h \in Handler, StoreWrite(h) PROVE Copied'
    <2>1. \A s \in Scanner : pc'[s] \notin {"scan", "del"} /\ pc[s] \notin {"scan", "del"}
      BY <1>4 DEF StoreWrite, LockHeld, Programs
    <2> QED
      BY <1>4, <2>1 DEF StoreWrite
  <1>5. ASSUME NEW p \in Goroutine, MakeMap(p) PROVE Copied'
    <2>1. \A s \in Scanner : pc'[s] \notin {"scan", "del"} /\ pc[s] \notin {"scan", "del"}
      BY <1>5 DEF MakeMap, LockHeld
    <2> QED
      BY <1>5, <2>1 DEF MakeMap
  <1>6. ASSUME NEW h \in Handler, LoadRead(h) PROVE Copied'
    BY <1>6 DEF LoadRead
  <1>7. ASSUME NEW s \in Scanner, ScanRLock(s) PROVE Copied'
    BY <1>7 DEF ScanRLock
  <1>8. ASSUME NEW s \in Scanner, NEW k \in Pair, ScanNext(s, k) PROVE Copied'
    <2>1. CASE Crash
      BY <1>8, <2>1 DEF ScanNext
    <2>2. CASE ~Crash /\ ScanCopy(s, k)
      BY <1>8, <2>2 DEF ScanNext, ScanCopy
    <2>3. CASE ~Crash /\ ScanDelete(s, k)
      BY <1>8, <2>3 DEF ScanNext, ScanDelete
    <2> QED
      BY <1>8, <2>1, <2>2, <2>3 DEF ScanNext
  <1>9. ASSUME NEW s \in Scanner, ScanDeleted(s) PROVE Copied'
    <2>1. \A r \in Scanner : pc[r] = "del" => r = s
      BY <1>9 DEF ScanDeleted, OneMapWriter
    <2>2. /\ cur[s] \in Pair /\ Expired(datas[cur[s]], now)
          /\ cur[s] \notin todo[s] /\ all[s][cur[s]] = NoEntry
      BY <1>9 DEF ScanDeleted, DeletesExpired
    <2>3. ASSUME NEW r \in Scanner, NEW k \in Pair
          PROVE  /\ pc'[r] \notin {"scan", "del"} \/ k \in todo'[r] => all'[r][k] = NoEntry
                 /\ pc'[r] \in {"scan", "del"} =>
                      \/ k \in todo'[r] \/ (pc'[r] = "del" /\ k = cur'[r])
                      \/ all'[r][k] = datas'[k]
                      \/ datas'[k] = NoEntry /\ Expired(all'[r][k], now')
      BY <1>9, <2>1, <2>2 DEF ScanDeleted
    <2> QED
      BY <2>3
  <1>10. ASSUME NEW s \in Scanner, ScanDone(s) PROVE Copied'
    BY <1>10 DEF ScanDone, Empty
  <1>11. ASSUME Tick PROVE Copied'
    BY <1>11, StaysExpired, SlotIsEntry DEF Tick
  <1>12. ASSUME UNCHANGED vars PROVE Copied'
    BY <1>12 DEF vars
  <1> QED
    BY <1>1, <1>2, <1>3, <1>4, <1>5, <1>6, <1>7, <1>8, <1>9, <1>10, <1>11, <1>12
    DEF Next, HandlerStep, ScannerStep

(* The lock, the map writes and the snapshots under way fit together.      *)
THEOREM Invariant == Spec => []IInv
  <1>1. TypeOK /\ Inv /\ [Next]_vars => (TypeOK /\ Inv)'
    BY TypeStep, LockStep, MadeStep, DeleteStep, CopyStep DEF Inv
  <1> QED
    BY TypeInit, InvInit, <1>1, PTL DEF Spec, IInv

(* From there: the only overlap Go can find is with the delete that        *)
(* LoadAll makes of an expired pair under its read lock.                   *)
THEOREM CrashCause == Spec => []CrashNeedsExpiry
  <1>1. Init => CrashNeedsExpiry
    BY DEF Init, CrashNeedsExpiry
  <1>2. TypeOK /\ Inv /\ CrashNeedsExpiry /\ [Next]_vars => CrashNeedsExpiry'
    <2> SUFFICES ASSUME TypeOK, Inv, CrashNeedsExpiry, [Next]_vars PROVE CrashNeedsExpiry'
      OBVIOUS
    <2> USE DEF TypeOK, CrashNeedsExpiry, store, lock
    <2>1. ASSUME Crash, mapWriter # Nobody, NEW p \in Goroutine, p \in readers
          PROVE  CrashNeedsExpiry'
      <3>1. PICK w \in Goroutine : mapWriter = w
        BY <2>1
      <3>2. w \in Scanner /\ pc[w] = "del" /\ w \in readers
        BY <2>1, <3>1 DEF Inv, LockHeld, OneMapWriter, Programs, Goroutine
      <3>3. Expired(datas[cur[w]], now)
        BY <3>2 DEF Inv, DeletesExpired
      <3> QED
        BY <2>1, <3>1, <3>2, <3>3 DEF Crash
    <2>2. ASSUME fatal' = fatal PROVE CrashNeedsExpiry'
      BY <2>2 DEF Next, vars
    <2>3. ASSUME NEW h \in Handler, LoadRead(h) PROVE CrashNeedsExpiry'
      <3>1. h \in readers
        BY <2>3 DEF Inv, LockHeld, LoadRead, Goroutine
      <3>2. fatal' = fatal \/ (Crash /\ mapWriter # Nobody)
        BY <2>3 DEF LoadRead
      <3> QED
        BY <2>1, <2>2, <3>1, <3>2 DEF Goroutine
    <2>4. ASSUME NEW s \in Scanner, NEW k \in Pair, ScanNext(s, k) PROVE CrashNeedsExpiry'
      <3>1. s \in readers
        BY <2>4 DEF Inv, LockHeld, ScanNext, Goroutine
      <3>2. fatal' = fatal \/ (Crash /\ mapWriter # Nobody)
        BY <2>4 DEF ScanNext
      <3> QED
        BY <2>1, <2>2, <3>1, <3>2 DEF Goroutine
    <2>5. ASSUME NEW p \in Goroutine, LockAnnounce(p) \/ Begin(p) \/ MakeMap(p)
          PROVE  fatal' = fatal
      BY <2>5 DEF LockAnnounce, Begin, MakeMap
    <2>6. ASSUME NEW h \in Handler,
                 \/ \E b \in NewBatch : StoreCall(h, b)
                 \/ StoreLock(h) \/ StoreWrite(h) \/ LoadRLock(h)
          PROVE  fatal' = fatal
      BY <2>6 DEF StoreCall, StoreLock, StoreWrite, LoadRLock
    <2>7. ASSUME NEW s \in Scanner, ScanRLock(s) \/ ScanDeleted(s) \/ ScanDone(s)
          PROVE  fatal' = fatal
      BY <2>7 DEF ScanRLock, ScanDeleted, ScanDone
    <2>8. ASSUME Tick \/ UNCHANGED vars PROVE fatal' = fatal
      BY <2>8 DEF Tick, vars
    <2> QED
      BY <2>2, <2>3, <2>4, <2>5, <2>6, <2>7, <2>8 DEF Next, HandlerStep, ScannerStep, Goroutine
  <1> QED
    BY Invariant, <1>1, <1>2, PTL DEF Spec, IInv

(* What LoadAll returns is the storage at that moment, plus pairs that     *)
(* have expired.                                                           *)
THEOREM SnapshotCorrect == Spec => SnapshotExact
  <1>1. TypeOK /\ Inv /\ [Next]_vars => [SnapshotExactStep]_vars
    <2> SUFFICES ASSUME TypeOK, Inv, [Next]_vars,
                        NEW s \in Scanner, pc[s] = "scan", pc'[s] = "idle",
                        NEW k \in Pair
                 PROVE  \/ all[s][k] = datas[k]
                        \/ datas[k] = NoEntry /\ Expired(all[s][k], now)
      BY DEF SnapshotExactStep
    <2> USE GoroutineAssumption DEF TypeOK, Goroutine, Go, Crash, store, lock
    <2>1. ScanDone(s)
      <3>1. ASSUME NEW h \in Handler, HandlerStep(h) PROVE FALSE
        BY <3>1 DEF HandlerStep, StoreCall, LockAnnounce, StoreLock, StoreWrite, Begin,
                    MakeMap, LoadRLock, LoadRead
      <3>2. ASSUME NEW r \in Scanner, ScannerStep(r) PROVE ScanDone(s)
        BY <3>2 DEF ScannerStep, Begin, LockAnnounce, MakeMap, ScanRLock, ScanNext, ScanCopy,
                    ScanDelete, ScanDeleted, ScanDone
      <3>3. ASSUME Tick \/ UNCHANGED vars PROVE FALSE
        BY <3>3 DEF Tick, vars
      <3> QED
        BY <3>1, <3>2, <3>3 DEF Next
    <2>2. k \in todo[s] => datas[k] = NoEntry /\ all[s][k] = NoEntry
      BY <2>1 DEF ScanDone, Inv, Copied
    <2> QED
      BY <2>2 DEF Inv, Copied
  <1> QED
    BY Invariant, <1>1, PTL DEF Spec, IInv, SnapshotExact

(* A pair that has not expired never vanishes nor falls back to an earlier *)
(* log, provided the storage was filled from the file before the           *)
(* goroutines started: the unlocked nil check is then never true.          *)
THEOREM FreshKept ==
  ASSUME MadeAtStart
  PROVE  Spec => NoFreshLoss
  <1>1. TypeOK /\ Inv /\ [Next]_vars => [NoFreshLossStep]_vars
    <2> SUFFICES ASSUME TypeOK, Inv, [Next]_vars,
                        NEW k \in Pair, datas[k] # NoEntry, datas'[k] # datas[k]
                 PROVE  \/ Expired(datas[k], now)
                        \/ datas'[k] # NoEntry /\ NeedUpdate(datas[k], datas'[k])
      BY DEF NoFreshLossStep
    <2> USE DEF TypeOK, Go, Crash, store
    <2>1. ASSUME NEW h \in Handler, StoreWrite(h) PROVE datas'[k] # NoEntry /\ NeedUpdate(datas[k], datas'[k])
      BY <2>1 DEF StoreWrite, Kept
    <2>2. ASSUME NEW s \in Scanner, ScanDeleted(s) PROVE Expired(datas[k], now)
      BY <2>2 DEF ScanDeleted, Inv, DeletesExpired
    <2>3. ASSUME NEW p \in Goroutine, MakeMap(p) PROVE FALSE
      BY <2>3 DEF MakeMap, Inv, MadeOnce
    <2>4. ASSUME NEW p \in Goroutine, LockAnnounce(p) \/ Begin(p) PROVE FALSE
      BY <2>4 DEF LockAnnounce, Begin
    <2>5. ASSUME NEW h \in Handler,
                 \/ \E b \in NewBatch : StoreCall(h, b)
                 \/ StoreLock(h) \/ LoadRLock(h) \/ LoadRead(h)
          PROVE FALSE
      BY <2>5 DEF StoreCall, StoreLock, LoadRLock, LoadRead
    <2>6. ASSUME NEW s \in Scanner,
                 \/ ScanRLock(s) \/ ScanDone(s) \/ \E j \in Pair : ScanNext(s, j)
          PROVE FALSE
      BY <2>6 DEF ScanRLock, ScanDone, ScanNext
    <2>7. ASSUME Tick \/ UNCHANGED vars PROVE FALSE
      BY <2>7 DEF Tick, vars
    <2> QED
      BY <2>1, <2>2, <2>3, <2>4, <2>5, <2>6, <2>7 DEF Next, HandlerStep, ScannerStep, Goroutine
  <1> QED
    BY Invariant, <1>1, PTL DEF Spec, IInv, NoFreshLoss

(* Under the same proviso the storage implements the abstract map: its     *)
(* batches are atomic, its keys only move forward.                         *)
THEOREM Refinement ==
  ASSUME MadeAtStart
  PROVE  Spec => Implements
  <1>1. Init => VM!Init
    <2> SUFFICES ASSUME Init PROVE datas \in VM!Batch /\ now = 0
      BY DEF VM!Init
    <2> QED
      BY TypeInit DEF Init, TypeOK, VM!Batch, VM!Slot, VM!Entry, Slot, Entry
  <1>2. TypeOK /\ Inv /\ [Next]_vars => [VM!Next]_VM!vars
    <2> SUFFICES ASSUME TypeOK, Inv, [Next]_vars PROVE VM!Next \/ UNCHANGED VM!vars
      OBVIOUS
    <2> USE DEF TypeOK, Go, Crash, store
    <2>1. ASSUME NEW h \in Handler, StoreWrite(h) PROVE VM!Put(batch[h]) /\ batch[h] \in VM!Batch
      <3>1. batch[h] \in VM!Batch
        BY DEF VM!Batch, VM!Slot, VM!Entry, Slot, Entry
      <3>2. \A k \in Pair : (IF Kept(k, batch[h]) THEN datas[k] ELSE batch[h][k])
                              = VM!Newest(datas[k], batch[h][k])
        BY DEF Kept, VM!Newest, VM!NeedUpdate, NeedUpdate, VM!Later, Later
      <3> QED
        BY <2>1, <3>1, <3>2 DEF StoreWrite, VM!Put
    <2>2. ASSUME NEW s \in Scanner, ScanDeleted(s) PROVE cur[s] \in Pair /\ VM!Expire(cur[s])
      BY <2>2 DEF ScanDeleted, Inv, DeletesExpired, VM!Expire, Expired, VM!Expired
    <2>3. ASSUME NEW p \in Goroutine, MakeMap(p) PROVE FALSE
      BY <2>3 DEF MakeMap, Inv, MadeOnce
    <2>4. ASSUME Tick PROVE VM!Tick
      BY <2>4 DEF Tick, VM!Tick
    <2>5. ASSUME NEW p \in Goroutine, LockAnnounce(p) \/ Begin(p) PROVE UNCHANGED VM!vars
      BY <2>5 DEF LockAnnounce, Begin, VM!vars
    <2>6. ASSUME NEW h \in Handler,
                 \/ \E b \in NewBatch : StoreCall(h, b)
                 \/ StoreLock(h) \/ LoadRLock(h) \/ LoadRead(h)
          PROVE UNCHANGED VM!vars
      BY <2>6 DEF StoreCall, StoreLock, LoadRLock, LoadRead, VM!vars
    <2>7. ASSUME NEW s \in Scanner,
                 \/ ScanRLock(s) \/ ScanDone(s) \/ \E j \in Pair : ScanNext(s, j)
          PROVE UNCHANGED VM!vars
      BY <2>7 DEF ScanRLock, ScanDone, ScanNext, VM!vars
    <2>8. ASSUME UNCHANGED vars PROVE UNCHANGED VM!vars
      BY <2>8 DEF vars, VM!vars
    <2> QED
      BY <2>1, <2>2, <2>3, <2>4, <2>5, <2>6, <2>7, <2>8
      DEF Next, HandlerStep, ScannerStep, Goroutine, VM!Next
  <1> QED
    BY Invariant, <1>1, <1>2, PTL DEF Spec, IInv, Implements, VM!Spec
=============================================================================
