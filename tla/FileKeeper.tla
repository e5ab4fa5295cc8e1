----------------------------- MODULE FileKeeper -----------------------------
(***************************************************************************)
(* monitor/datakeeper/datakeeper_file.go and main.go: the storage is saved *)
(* to one file every minute and at shutdown, and read back at the start.   *)
(* os.WriteFile empties the file, then writes it; nothing keeps the minute *)
(* loop and ShutDown, or a crash, from meeting in between.                 *)
(*                                                                         *)
(* A stored pair is its version (how late its Sync log was), 0 if it is    *)
(* not stored.  Its line in the file is Size[p] chunks, so that a line can *)
(* be cut; a chunk is <<pair, version, number>>.  FromFileData refuses the *)
(* whole line of a pair of Refused: one without tokens (marked Error or    *)
(* answered with nothing) or with an empty reserve.                        *)
(*                                                                         *)
(* External: the file system and the signals.                              *)
(***************************************************************************)
EXTENDS Integers, SequencesExt

CONSTANTS
  Pair, Refused, Size,
  Minute, Main,         \* the two goroutines that save; Main runs ShutDown
  MaxVersion, MaxStop

Writer == {Minute, Main}

ASSUME LineAssumption ==
  /\ IsFiniteSet(Pair) /\ Refused \subseteq Pair
  /\ Size \in [Pair -> Nat \ {0}]
ASSUME WriterAssumption == Minute # Main
ASSUME BoundAssumption  == MaxVersion \in Nat /\ MaxStop \in Nat

VARIABLES
  proc,    \* the process: "down", "run", "shutdown", "exit" (ShutDown returned), "refused"
  stops,
  store,   \* Pair -> version
  garbage, \* a cut line was taken for a pair
  file,
  closed,
  pc,      \* of a writer: "sleep", "checked", "loaded", "open", "end"
  datas,   \* what a writer's LoadAll returned
  saved,   \* history: what the last save that ended well saved
  whole,   \* history: since then nobody cut the file, or mixed two saves in it
  alone    \* history: the shutdown met no other save, and none failed

vars == <<proc, stops, store, garbage, file, closed, pc, datas, saved, whole, alone>>

Running == proc \in {"run", "shutdown", "exit"}
Nothing == [p \in Pair |-> 0]

-----------------------------------------------------------------------------
(* The lines of a file.                                                    *)
Chunk == {c \in Pair \X (1 .. MaxVersion) \X Nat : c[3] \in 1 .. Size[c[1]]}

Line(p, v) == [i \in 1 .. Size[p] |-> <<p, v, i>>]

(* LoadAll gives the pairs in any order.                                   *)
BodiesLast(s) ==  \* mutant: dataBody is assigned, not appended to
  {<<>>} \cup {Line(p, s[p]) : p \in {q \in Pair : s[q] # 0}}

Bodies(s) ==
  {FlattenSeq([i \in 1 .. Len(order) |-> Line(order[i], s[order[i]])]) :
     order \in SetToSeqs({p \in Pair : s[p] # 0})}

NextChunk(c) == <<c[1], c[2], c[3] + 1>>

(* Every chunk has the chunks of its line around it.                       *)
Uncut(f) ==
  \A i \in 1 .. Len(f) :
    /\ f[i][3] = 1 \/ (i > 1 /\ NextChunk(f[i - 1]) = f[i])
    /\ f[i][3] = Size[f[i][1]] \/ (i < Len(f) /\ f[i + 1] = NextChunk(f[i]))

FullLinesButLast(f) ==  \* mutant: the last line is taken for what follows the last newline
  {c \in Pair \X (1 .. MaxVersion) :
     \E i \in 0 .. Len(f) - Size[c[1]] - 1 :
       \A k \in 1 .. Size[c[1]] : f[i + k] = Line(c[1], c[2])[k]}

FullLines(f) ==
  {c \in Pair \X (1 .. MaxVersion) :
     \E i \in 0 .. Len(f) - Size[c[1]] :
       \A k \in 1 .. Size[c[1]] : f[i + k] = Line(c[1], c[2])[k]}

(* Store (storage.go) keeps the latest of several lines of a pair.         *)
Contents(f) ==
  [p \in Pair |->
     IF \E c \in FullLines(f) : c[1] = p
       THEN CHOOSE v \in 1 .. MaxVersion :
              <<p, v>> \in FullLines(f) /\ \A c \in FullLines(f) : c[1] = p => c[2] <= v
       ELSE 0]

Readable(f) == \A c \in FullLines(f) : c[1] \notin Refused

-----------------------------------------------------------------------------
(* main: Init of the keeper.  A line that does not parse makes Init fail   *)
(* and main panic.  A cut line does not parse, or parses as something      *)
(* else: the end of an address is an address, the start of a timestamp is  *)
(* a timestamp.                                                            *)
Started(result, bad) ==
  /\ proc' = result
  /\ garbage' = bad
  /\ store' = IF result = "run" THEN Contents(file) ELSE Nothing
  /\ closed' = FALSE
  /\ pc' = [w \in Writer |-> "sleep"]
  /\ datas' = [w \in Writer |-> Nothing]
  /\ UNCHANGED <<stops, file, saved, whole, alone>>

Start ==
  /\ proc = "down"
  /\ Uncut(file) /\ Readable(file)
  /\ Started("run", FALSE)

StartFails ==
  /\ proc = "down"
  /\ ~Uncut(file) \/ ~Readable(file)
  /\ Started("refused", FALSE)

StartGarbled ==
  /\ proc = "down"
  /\ ~Uncut(file) /\ Readable(file)
  /\ Started("run", TRUE)

(* A handler stores a later version of a pair (storage.go).                *)
Learn(p) ==
  /\ Running /\ store[p] < MaxVersion
  /\ store' = [store EXCEPT ![p] = @ + 1]
  /\ UNCHANGED <<proc, stops, garbage, file, closed, pc, datas, saved, whole, alone>>

-----------------------------------------------------------------------------
(* writtingData, once a minute.                                            *)
WakeAnyway ==  \* mutant: closed is not looked at
  /\ Running /\ pc[Minute] = "sleep"
  /\ pc' = [pc EXCEPT ![Minute] = "checked"]
  /\ UNCHANGED <<proc, stops, store, garbage, file, closed, datas, saved, whole, alone>>

Wake ==
  /\ Running /\ pc[Minute] = "sleep"
  /\ pc' = [pc EXCEPT ![Minute] = IF closed THEN "end" ELSE "checked"]
  /\ UNCHANGED <<proc, stops, store, garbage, file, closed, datas, saved, whole, alone>>

(* ShutDown, after a signal.                                               *)
ShutDown ==
  /\ proc = "run"
  /\ proc' = "shutdown" /\ closed' = TRUE
  /\ pc' = [pc EXCEPT ![Main] = "checked"]
  /\ alone' = (pc[Minute] = "sleep")
  /\ UNCHANGED <<stops, store, garbage, file, datas, saved, whole>>

(* writeData: wait.Add, LoadAll, and WriteFile in two steps.               *)
Load(w) ==
  /\ Running /\ pc[w] = "checked"
  /\ datas' = [datas EXCEPT ![w] = store]
  /\ pc' = [pc EXCEPT ![w] = "loaded"]
  /\ UNCHANGED <<proc, stops, store, garbage, file, closed, saved, whole, alone>>

Open(w) ==
  /\ Running /\ pc[w] = "loaded"
  /\ file' = <<>>
  /\ whole' = FALSE
  /\ pc' = [pc EXCEPT ![w] = "open"]
  /\ UNCHANGED <<proc, stops, store, garbage, closed, datas, saved, alone>>

(* defer wait.Done().                                                      *)
Ends(w) == [pc EXCEPT ![w] = IF w = Main THEN "end" ELSE "sleep"]

(* It cannot be opened: it stays as it is, the error is logged.            *)
OpenFails(w) ==
  /\ Running /\ pc[w] = "loaded"
  /\ pc' = Ends(w) /\ datas' = [datas EXCEPT ![w] = Nothing]
  /\ alone' = FALSE
  /\ UNCHANGED <<proc, stops, store, garbage, file, closed, saved, whole>>

(* Written from the start of the file over what another writer has there.  *)
Over(b, f) == b \o SubSeq(f, Len(b) + 1, Len(f))

Overs(w) == {Over(b, file) : b \in Bodies(datas[w])}

OthersOpen(w) == \E v \in Writer \ {w} : pc[v] = "open"

Write(w) ==
  /\ Running /\ pc[w] = "open"
  /\ file' \in Overs(w)
  /\ saved' = datas[w]
  /\ whole' = (file = <<>> /\ ~OthersOpen(w))
  /\ pc' = Ends(w) /\ datas' = [datas EXCEPT ![w] = Nothing]
  /\ UNCHANGED <<proc, stops, store, garbage, closed, alone>>

(* What a write that is cut short makes of the file.                       *)
Cuts(w) == UNION {{Over(SubSeq(b, 1, n), file) : n \in 0 .. Len(b) - 1} : b \in Bodies(datas[w])}

(* The disk is full: part of it is written, the error is logged.           *)
WriteFailsNoDone(w) ==  \* mutant: Done is not deferred
  /\ Running /\ pc[w] = "open"
  /\ file' \in Cuts(w)
  /\ pc' = [pc EXCEPT ![w] = "stuck"] /\ datas' = [datas EXCEPT ![w] = Nothing]
  /\ alone' = FALSE
  /\ UNCHANGED <<proc, stops, store, garbage, closed, saved, whole>>

WriteFails(w) ==
  /\ Running /\ pc[w] = "open"
  /\ file' \in Cuts(w)
  /\ pc' = Ends(w) /\ datas' = [datas EXCEPT ![w] = Nothing]
  /\ alone' = FALSE
  /\ UNCHANGED <<proc, stops, store, garbage, closed, saved, whole>>

(* f.wait.Wait(): nobody is between Add and Done.                          *)
Wait ==
  /\ proc = "shutdown" /\ pc[Main] = "end"
  /\ \A w \in Writer : pc[w] \in {"sleep", "checked", "end"}
  /\ proc' = "exit"
  /\ UNCHANGED <<stops, store, garbage, file, closed, pc, datas, saved, whole, alone>>

Gone ==
  /\ proc' = "down" /\ stops' = stops + 1
  /\ store' = Nothing /\ garbage' = FALSE
  /\ pc' = [w \in Writer |-> "end"] /\ datas' = [w \in Writer |-> Nothing]
  /\ UNCHANGED <<closed, saved, whole, alone>>

(* main returns, and with it every goroutine ends where it is.             *)
Exit == proc = "exit" /\ Gone /\ UNCHANGED file

(* Killed, or a panic elsewhere (SwapGraph, PairStore): at any point, also *)
(* in the middle of a write.                                               *)
Crash ==
  /\ Running /\ stops < MaxStop
  /\ \/ UNCHANGED file
     \/ \E w \in Writer : pc[w] = "open" /\ file' \in Cuts(w) \cup Overs(w)
  /\ Gone

-----------------------------------------------------------------------------
Init ==
  /\ proc = "down" /\ stops = 0
  /\ store = Nothing /\ garbage = FALSE
  /\ file = <<>> /\ closed = FALSE
  /\ pc = [w \in Writer |-> "end"] /\ datas = [w \in Writer |-> Nothing]
  /\ saved = Nothing /\ whole = TRUE /\ alone = FALSE

(* writeData, from Add to Done.                                            *)
WriteData(w) == Load(w) \/ Open(w) \/ OpenFails(w) \/ Write(w) \/ WriteFails(w)

Next ==
  \/ stops <= MaxStop /\ (Start \/ StartFails \/ StartGarbled)
  \/ \E p \in Pair : Learn(p)
  \/ Wake \/ ShutDown
  \/ \E w \in Writer : WriteData(w)
  \/ Wait \/ Exit \/ Crash

Spec == Init /\ [][Next]_vars

(* The goroutines run until the process ends.                              *)
FairSpec ==
  /\ Spec
  /\ \A w \in Writer : WF_vars(WriteData(w))
  /\ WF_vars(Wake) /\ WF_vars(Wait) /\ WF_vars(Exit)

-----------------------------------------------------------------------------
TypeOK ==
  /\ proc \in {"down", "run", "shutdown", "exit", "refused"}
  /\ stops \in 0 .. MaxStop + 1
  /\ store \in [Pair -> 0 .. MaxVersion]
  /\ garbage \in BOOLEAN /\ closed \in BOOLEAN /\ whole \in BOOLEAN /\ alone \in BOOLEAN
  /\ file \in Seq(Chunk)
  /\ pc \in [Writer -> {"sleep", "checked", "loaded", "open", "end"}]
  /\ datas \in [Writer -> [Pair -> 0 .. MaxVersion]]
  /\ saved \in [Pair -> 0 .. MaxVersion]

(* Once a save ended well, its file is there and complete as long as no    *)
(* other save of the file began: a crash loses what was learnt since that  *)
(* save, and no more.                                                      *)
SavedIsThere == whole => Uncut(file) /\ Contents(file) = saved

(* Why: while a writer has the file open no save of it counts.             *)
Quiet == whole => \A w \in Writer : pc[w] # "open"

(* Main writes after closed is set and not before, and Wait returns after  *)
(* it has.                                                                 *)
Closing ==
  /\ Running => stops <= MaxStop
  /\ proc = "run" => pc[Main] = "sleep" /\ ~closed
  /\ proc = "shutdown" => pc[Main] # "sleep" /\ closed
  /\ proc = "exit" => pc[Main] = "end" /\ closed

(* Where the shutdown met the minute loop asleep that loop stays out of    *)
(* the way of the last save.                                               *)
LeftAlone ==
  alone /\ proc \in {"shutdown", "exit"} =>
    /\ pc[Minute] \in {"sleep", "end"}
    /\ pc[Main] = "open" => file = <<>>
    /\ pc[Main] = "end" => whole

(* The state is well typed, and a save that ended well is in the file      *)
(* until another opens it (datakeeper_file.go:67-87).                      *)
IInv == TypeOK /\ SavedIsThere /\ Quiet /\ Closing /\ LeftAlone

(* A start after such a save restores what it saved, unless a saved pair   *)
(* is one that FromFileData refuses (readData gives up, main panics).      *)
Starts == proc = "down" /\ proc' # "down"

StartRestores ==
  [][Starts /\ whole /\ (\A p \in Refused : saved[p] = 0)
       => proc' = "run" /\ store' = saved /\ ~garbage']_vars

(* After a shutdown that met the minute loop asleep, nobody touches the    *)
(* file any more, however long main takes to return.                       *)
ShutDownLast ==
  proc = "exit" /\ alone => whole /\ pc[Minute] \in {"sleep", "end"}

(* ShutDown ends, and the process with it, also if a save fails.           *)
Terminates == proc = "shutdown" ~> proc = "down"

(* What ToFileData wrote, FromFileData reads back (uniswapv2_test.go).     *)
ReadsBack == [][Starts /\ Uncut(file) => proc' # "refused"]_vars
=============================================================================
