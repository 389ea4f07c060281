------------------------ MODULE ShadowBatchingProofs ------------------------
(***************************************************************************)
(* ShadowBatching for any number and length of buffers and any builds: no  *)
(* buffer is lost or in two places, the entries are executed in order, the *)
(* two threads never wait for each other, a wait uses up the work it waits *)
(* for, and what is executed behind a batch was executed before.           *)
(***************************************************************************)
EXTENDS ShadowBatching, Integers, TLAPS

\* Where the program's thread is when it owns the buffer cur.
Holding == {"run", "handshake", "report"}

\* How the threads stand to each other.
ControlInv ==
    /\ spinning => job # NoJob /\ idx <= job.numEntries
    /\ mainPc \in {"waitPop", "serial"} => slotStart = 0
    /\ build.disableOptimizations =>
          /\ ~alive /\ workQueue = <<>>
          /\ mainPc \notin {"serial", "serialLast"} => job = NoJob
          /\ mainPc # "join"
    /\ ~build.disableOptimizations => mainPc \notin {"serial", "serialLast"}
    /\ ~build.disableOptimizations /\ ~alive =>
          mainPc \in {"join", "done"} /\ workQueue = <<>> /\ job = NoJob
    /\ \A i \in 1 .. Len(workQueue) : workQueue[i] = Kill =>
          i = Len(workQueue) /\ mainPc \in {"join", "done"}

\* There is a number left for the entry that waits for a buffer.
StampInv ==
    /\ todo \in {"WORK", "STATE_COMMIT"} => produced < MaxEntries
    /\ \/ mainPc = "run"
       \/ todo = "DETECT_CYCLE"
       \/ mainPc \in {"waitPop", "serial"} /\ todo = "NONE"
       => produced <= MaxEntries

-----------------------------------------------------------------------------
\* The constants in their numbers; Window is the length of a buffer or 1.
LEMMA WindowFacts ==
  /\ NUM_BATCHES \in Nat /\ NUM_BATCHES >= 2 /\ MaxEntries \in Nat
  /\ SHADOW_WINDOW \in Nat /\ SHADOW_WINDOW >= 1
  /\ Window \in 1 .. SHADOW_WINDOW
BY BatchingAssumption DEF Window

\* A batch is told from the kill batch and from no batch by its status.
LEMMA BatchFacts ==
  /\ \A b \in Buffers, n \in 0 .. SHADOW_WINDOW :
        /\ NewBatch(b, n) \in Batch
        /\ NewBatch(b, n).shadowEntries = b /\ NewBatch(b, n).numEntries = n
  /\ Kill \notin Batch /\ NoJob \notin Batch
  /\ \A x \in Batch : x # Kill /\ x # NoJob /\ x.shadowEntries \in Buffers
                      /\ x.numEntries \in 0 .. SHADOW_WINDOW
<1>1. \A x \in Batch : x.status = "NEW_BATCH"
  BY DEF Batch
<1>2. Kill.status = "KILL_BATCH" /\ NoJob.status = "NONE"
  BY DEF Kill, NoJob
<1>3. QED
  BY <1>1, <1>2 DEF Batch, NewBatch

\* Entries have numbers; a slot without one is free.
LEMMA EntryFacts ==
  /\ FreeSlot \in Entry /\ FreeSlot.op = "FREE_SLOT" /\ FreeSlot.n = 0
  /\ \A e \in Entry : e.n \in {0} \cup Stamps
  /\ \A e \in Entry : e # FreeSlot => e.n \in Stamps
  /\ \A op \in Ops, k \in Stamps : [op |-> op, n |-> k] \in Entry
BY DEF Entry, FreeSlot

\* batchFull keeps the types.
LEMMA BatchFullTypes ==
  ASSUME TypeOK, NEW b \in Buffers, NEW n \in 0 .. SHADOW_WINDOW, NEW next,
         next \in Ops \cup {"NONE", "HANDSHAKE"}, BatchFull(b, n, next)
  PROVE  /\ slotStart' = 0 /\ todo' = next
         /\ job' \in Batch \cup {NoJob} /\ idx' \in 0 .. SHADOW_WINDOW + 1
         /\ workQueue' \in Seq(Batch \cup {Kill})
         /\ mainPc' \in {"serial", "waitPop"}
<1>1. NewBatch(b, n) \in Batch
  BY BatchFacts
<1>2. CASE build.disableOptimizations
  BY <1>1, <1>2, WindowFacts DEF BatchFull, TypeOK
<1>3. CASE ~build.disableOptimizations
  <2>1. workQueue' = Append(workQueue, NewBatch(b, n))
    BY <1>3 DEF BatchFull
  <2>2. workQueue' \in Seq(Batch \cup {Kill})
    BY <1>1, <2>1 DEF TypeOK
  <2>3. QED
    BY <1>3, <2>2 DEF BatchFull, TypeOK
<1>4. QED
  BY <1>2, <1>3

\* A slot that is filled in keeps the types.
LEMMA PutTypes ==
  ASSUME TypeOK, StampInv, NEW b \in Buffers, NEW slot \in 0 .. Window - 1, NEW op \in Ops,
         produced <= MaxEntries, Put(b, slot, op)
  PROVE  /\ slotStart' \in 0 .. Window
         /\ todo' \in {"NONE", "HANDSHAKE"}
         /\ produced' = produced + 1 /\ produced' \in Stamps
         /\ buf' \in [Buffers -> [0 .. SHADOW_WINDOW - 1 -> Entry]]
         /\ job' \in Batch \cup {NoJob} /\ idx' \in 0 .. SHADOW_WINDOW + 1
         /\ workQueue' \in Seq(Batch \cup {Kill})
         /\ mainPc' \in {"run", "serial", "waitPop"}
<1>1. produced \in Nat /\ produced + 1 \in Stamps
  BY WindowFacts DEF TypeOK, Stamps
<1>2. [op |-> op, n |-> produced + 1] \in Entry
  BY <1>1, EntryFacts
<1>3. slot \in 0 .. SHADOW_WINDOW - 1 /\ slot + 1 \in 0 .. SHADOW_WINDOW
      /\ slot + 1 \in 0 .. Window
  BY WindowFacts
<1>4. buf' \in [Buffers -> [0 .. SHADOW_WINDOW - 1 -> Entry]]
  BY <1>2, <1>3 DEF Put, TypeOK
<1>5. CASE op = "WORK"
  BY <1>1, <1>3, <1>4, <1>5 DEF Put, TypeOK
<1>6. ASSUME NEW next \in {"NONE", "HANDSHAKE"}, BatchFull(b, slot + 1, next)
      PROVE  /\ slotStart' \in 0 .. Window /\ todo' \in {"NONE", "HANDSHAKE"}
             /\ job' \in Batch \cup {NoJob} /\ idx' \in 0 .. SHADOW_WINDOW + 1
             /\ workQueue' \in Seq(Batch \cup {Kill})
             /\ mainPc' \in {"run", "serial", "waitPop"}
  BY <1>3, <1>6, BatchFullTypes, WindowFacts
<1>7. QED
  BY <1>1, <1>4, <1>5, <1>6 DEF Put, Ops

BaseInv == TypeOK /\ ControlInv /\ StampInv

\* texas_init sets everything up.
LEMMA InitBase == Init => BaseInv
<1> SUFFICES ASSUME Init  PROVE BaseInv
  OBVIOUS
<1>1. buf \in [Buffers -> [0 .. SHADOW_WINDOW - 1 -> Entry]]
  BY EntryFacts DEF Init
<1>2. readyQueue \in Seq(Buffers)
  <2>1. readyQueue \in [1 .. NUM_BATCHES - 1 -> Buffers]
    BY WindowFacts DEF Init, Buffers
  <2>2. NUM_BATCHES - 1 \in Nat
    BY WindowFacts
  <2>3. QED
    BY <2>1, <2>2
<1>3. workQueue = <<>> /\ workQueue \in Seq(Batch \cup {Kill}) /\ Len(workQueue) = 0
  BY DEF Init
<1>4. build.disableOptimizations \in BOOLEAN
  BY BatchingAssumption DEF Init, Build
<1>5. alive \in BOOLEAN /\ spinning \in BOOLEAN /\ frameLive \in BOOLEAN
  BY <1>4 DEF Init
<1>6. TypeOK
  <2>1. /\ cur \in Buffers /\ slotStart \in 0 .. Window
        /\ idx \in 0 .. SHADOW_WINDOW + 1
    BY WindowFacts DEF Init, Buffers
  <2>2. /\ mainPc \in {"run", "waitPop", "handshake", "report", "serial",
                       "serialLast", "join", "done"}
        /\ todo \in Ops \cup {"NONE", "HANDSHAKE"}
        /\ produced \in {0} \cup Stamps /\ last \in {0} \cup Stamps
        /\ job \in Batch \cup {NoJob} /\ sync \in {0, 1} \cup Garbage
        /\ again \subseteq Stamps /\ build \in Builds
    BY DEF Init
  <2>3. QED
    BY <1>1, <1>2, <1>3, <1>5, <2>1, <2>2 DEF TypeOK
<1>7. ControlInv
  <2>1. ~spinning /\ mainPc = "run" /\ job = NoJob
    BY DEF Init
  <2>2. alive <=> ~build.disableOptimizations
    BY DEF Init
  <2>3. QED
    BY <1>3, <2>1, <2>2 DEF ControlInv
<1>8. StampInv
  BY WindowFacts DEF Init, StampInv
<1>9. QED
  BY <1>6, <1>7, <1>8 DEF BaseInv

-----------------------------------------------------------------------------
\* batchFull keeps the threads apart: the batch is queued, or executed by the
\* program's thread, which executes no other then.
LEMMA BatchFullControl ==
  ASSUME BaseInv, mainPc \in {"run", "waitPop"}, UNCHANGED <<build, alive, spinning>>,
         NEW b \in Buffers, NEW n \in 0 .. SHADOW_WINDOW, NEW next, BatchFull(b, n, next)
  PROVE  ControlInv'
<1>1. TypeOK /\ ControlInv
  BY DEF BaseInv
<1>2. NewBatch(b, n) \in Batch /\ NewBatch(b, n) # Kill
  BY BatchFacts
<1>3. CASE build.disableOptimizations
  <2>1. job = NoJob /\ ~spinning /\ ~alive /\ workQueue = <<>>
    BY <1>1, <1>3 DEF ControlInv
  <2>2. /\ workQueue' = workQueue /\ mainPc' = "serial" /\ slotStart' = 0
        /\ build' = build /\ ~spinning' /\ ~alive'
    BY <1>3, <2>1 DEF BatchFull
  <2>3. Len(workQueue) = 0
    BY <2>1
  <2>4. QED
    BY <1>3, <2>1, <2>2, <2>3 DEF ControlInv
<1>4. CASE ~build.disableOptimizations
  <2>1. /\ workQueue' = Append(workQueue, NewBatch(b, n)) /\ mainPc' = "waitPop"
        /\ slotStart' = 0 /\ build' = build /\ alive' = alive /\ spinning' = spinning
        /\ job' = job /\ idx' = idx
    BY <1>4 DEF BatchFull
  <2>2. alive
    BY <1>1, <1>4 DEF ControlInv
  <2>3. \A i \in 1 .. Len(workQueue) : workQueue[i] # Kill
    BY <1>1 DEF ControlInv
  <2>4. workQueue \in Seq(Batch \cup {Kill})
    BY <1>1 DEF TypeOK
  <2>5. \A i \in 1 .. Len(workQueue') : workQueue'[i] # Kill
    BY <1>2, <2>1, <2>3, <2>4
  <2>6. QED
    BY <1>1, <1>4, <2>1, <2>2, <2>5 DEF ControlInv
<1>5. QED
  BY <1>3, <1>4

\* So does a slot that is filled in.
LEMMA PutControl ==
  ASSUME BaseInv, mainPc \in {"run", "waitPop"}, UNCHANGED <<build, alive, spinning>>,
         NEW b \in Buffers, NEW slot \in 0 .. Window - 1, NEW op \in Ops,
         produced <= MaxEntries, op # "DETECT_CYCLE" => produced < MaxEntries,
         Put(b, slot, op)
  PROVE  ControlInv' /\ StampInv'
<1>1. slot + 1 \in 0 .. SHADOW_WINDOW /\ produced \in Nat
  BY WindowFacts DEF BaseInv, TypeOK, Stamps
<1>2. CASE op = "WORK"
  <2>1. /\ mainPc' = "run" /\ todo' = "NONE" /\ produced' = produced + 1
        /\ UNCHANGED <<workQueue, job, idx, build, alive, spinning>>
    BY <1>2 DEF Put
  <2>2. ControlInv'
    BY <2>1 DEF BaseInv, ControlInv
  <2>3. StampInv'
    BY <1>1, <1>2, <2>1, WindowFacts DEF StampInv
  <2>4. QED
    BY <2>2, <2>3
<1>3. CASE op = "STATE_COMMIT"
  <2>1. BatchFull(b, slot + 1, "NONE") /\ produced' = produced + 1 /\ todo' = "NONE"
    BY <1>3 DEF Put, BatchFull
  <2>2. StampInv'
    BY <1>1, <1>3, <2>1, WindowFacts DEF StampInv
  <2>3. QED
    BY <1>1, <2>1, <2>2, BatchFullControl
<1>4. CASE op = "DETECT_CYCLE"
  <2>1. BatchFull(b, slot + 1, "HANDSHAKE") /\ todo' = "HANDSHAKE"
    BY <1>4 DEF Put, BatchFull
  <2>2. mainPc' # "run"
    BY <2>1 DEF BatchFull
  <2>3. StampInv'
    BY <2>1, <2>2 DEF StampInv
  <2>4. QED
    BY <1>1, <2>1, <2>3, BatchFullControl
<1>5. QED
  BY <1>2, <1>3, <1>4 DEF Ops

\* getFreeSlot, for every entry that the program may ship.
LEMMA GetFreeSlotBase ==
  ASSUME BaseInv, NEW op \in Ops, op # "DETECT_CYCLE" => produced < MaxEntries,
         GetFreeSlot(op), sync' \in {0, 1} \cup Garbage, frameLive' \in BOOLEAN
  PROVE  BaseInv'
<1>1. /\ TypeOK /\ mainPc = "run" /\ produced <= MaxEntries
      /\ UNCHANGED <<build, alive, spinning>>
      /\ cur' = cur /\ readyQueue' = readyQueue /\ last' = last /\ again' = again
  BY DEF BaseInv, StampInv, GetFreeSlot, history
<1>2. cur \in Buffers /\ Window \in 0 .. SHADOW_WINDOW /\ Window' = Window
  BY <1>1, WindowFacts DEF TypeOK, Window
<1>3. CASE Put(cur, slotStart, op) /\ slotStart < Window
  <2>1. slotStart \in 0 .. Window - 1
    BY <1>1, <1>2, <1>3 DEF TypeOK
  <2>2. ControlInv' /\ StampInv'
    BY <1>1, <1>2, <1>3, <2>1, PutControl
  <2>3. TypeOK'
    BY <1>1, <1>2, <1>3, <2>1, PutTypes DEF TypeOK, BaseInv
  <2>4. QED
    BY <2>2, <2>3 DEF BaseInv
<1>4. CASE BatchFull(cur, Window, op) /\ UNCHANGED <<buf, produced>>
  <2>1. ControlInv'
    BY <1>1, <1>2, <1>4, BatchFullControl
  <2>2. TypeOK'
    <3>1. slotStart' \in 0 .. Window'
      BY <1>2, <1>4, WindowFacts DEF BatchFull
    <3>2. QED
      BY <1>1, <1>2, <1>4, <3>1, BatchFullTypes DEF TypeOK
  <2>3. StampInv'
    <3>1. todo' = op /\ produced' = produced /\ produced \in Nat
      BY <1>1, <1>4 DEF BatchFull, TypeOK, Stamps
    <3>2. QED
      BY <1>1, <3>1 DEF StampInv, Ops
  <2>4. QED
    BY <2>1, <2>2, <2>3 DEF BaseInv
<1>5. QED
  BY <1>3, <1>4 DEF GetFreeSlot

\* The calls of the program.
LEMMA ProgramBase ==
  ASSUME BaseInv, Program
  PROVE  BaseInv'
<1>1. ASSUME NEW op \in Ops, Ship(op)  PROVE BaseInv'
  <2>1. sync' \in {0, 1} \cup Garbage /\ frameLive' \in BOOLEAN
    BY <1>1 DEF Ship, BaseInv, TypeOK
  <2>2. QED
    BY <1>1, <2>1, GetFreeSlotBase DEF Ship
<1>2. CASE PrintJSON
  <2>1. CASE GetFreeSlot("DETECT_CYCLE") /\ sync' = 0 /\ frameLive' = TRUE
    <3>1. "DETECT_CYCLE" \in Ops /\ frameLive' \in BOOLEAN
      BY <2>1 DEF Ops
    <3>2. QED
      BY <2>1, <3>1, GetFreeSlotBase
  <2>2. CASE /\ mainPc = "run" /\ mainPc' = "report"
             /\ UNCHANGED <<build, todo, cur, slotStart, produced, buf, workQueue,
                            readyQueue, shadowVars, sync, frameLive, history>>
    <3>1. UNCHANGED <<build, todo, cur, slotStart, produced, buf, workQueue, readyQueue,
                      alive, job, idx, spinning, sync, frameLive, last, again>>
      BY <2>2 DEF shadowVars, history
    <3>2. TypeOK'
      BY <2>2, <3>1 DEF BaseInv, TypeOK, Window
    <3>3. ControlInv' /\ StampInv'
      BY <2>2, <3>1 DEF BaseInv, ControlInv, StampInv
    <3>4. QED
      BY <3>2, <3>3 DEF BaseInv
  <2>3. QED
    BY <1>2, <2>1, <2>2 DEF PrintJSON
<1>3. QED
  BY <1>1, <1>2 DEF Program

\* The end of batchFull.
LEMMA WaitPopBase ==
  ASSUME BaseInv, WaitPop
  PROVE  BaseInv'
<1>1. /\ TypeOK /\ mainPc = "waitPop" /\ UNCHANGED <<build, alive, spinning>>
      /\ UNCHANGED <<sync, frameLive, last, again>>
      /\ readyQueue # <<>> /\ readyQueue' = Tail(readyQueue) /\ cur' = Head(readyQueue)
  BY DEF BaseInv, WaitPop, history
<1>2. Head(readyQueue) \in Buffers /\ readyQueue' \in Seq(Buffers)
  BY <1>1 DEF TypeOK
<1>3. 0 \in 0 .. Window - 1 /\ Window' = Window
  BY <1>1, WindowFacts DEF Window
<1>4. CASE todo \in Ops
  <2>1. Put(Head(readyQueue), 0, todo)
    BY <1>4 DEF WaitPop, Ops
  <2>2. produced <= MaxEntries /\ (todo # "DETECT_CYCLE" => produced < MaxEntries)
    <3>1. produced \in Nat
      BY <1>1 DEF TypeOK, Stamps
    <3>2. QED
      BY <1>4, <3>1, WindowFacts DEF BaseInv, StampInv, Ops
  <2>3. ControlInv' /\ StampInv'
    BY <1>1, <1>2, <1>3, <1>4, <2>1, <2>2, PutControl
  <2>4. TypeOK'
    BY <1>1, <1>2, <1>3, <1>4, <2>1, <2>2, PutTypes DEF TypeOK, BaseInv
  <2>5. QED
    BY <2>3, <2>4 DEF BaseInv
<1>5. CASE todo \notin Ops
  <2>1. /\ mainPc' = IF todo = "HANDSHAKE" THEN "handshake" ELSE "run"
        /\ todo' = "NONE"
        /\ UNCHANGED <<slotStart, produced, buf, workQueue, job, idx>>
    BY <1>5 DEF WaitPop
  <2>2. TypeOK'
    BY <1>1, <1>2, <1>3, <2>1 DEF TypeOK
  <2>3. ControlInv'
    BY <1>1, <2>1 DEF BaseInv, ControlInv
  <2>4. StampInv'
    BY <1>1, <1>5, <2>1 DEF BaseInv, StampInv, TypeOK
  <2>5. QED
    BY <2>2, <2>3, <2>4 DEF BaseInv
<1>6. QED
  BY <1>4, <1>5

\* The last batch, with the kill batch behind it.
LEMMA ReportStatisticsBase ==
  ASSUME BaseInv, ReportStatistics
  PROVE  BaseInv'
<1>1. /\ TypeOK /\ ControlInv /\ StampInv /\ mainPc = "report"
      /\ UNCHANGED <<build, todo, cur, slotStart, produced, buf, readyQueue,
                     alive, spinning, sync, frameLive, last, again>>
      /\ Window' = Window
  BY DEF BaseInv, ReportStatistics, history, Window
<1>2. slotStart \in 0 .. SHADOW_WINDOW /\ cur \in Buffers
  BY <1>1, WindowFacts DEF TypeOK
<1>3. NewBatch(cur, slotStart) \in Batch /\ NewBatch(cur, slotStart) # Kill
  BY <1>2, BatchFacts
<1>4. StampInv'
  BY <1>1 DEF StampInv, ReportStatistics
<1>5. CASE build.disableOptimizations
  <2>1. /\ job' = NewBatch(cur, slotStart) /\ idx' = 0 /\ mainPc' = "serialLast"
        /\ workQueue' = workQueue
    BY <1>5 DEF ReportStatistics
  <2>2. job = NoJob /\ ~spinning /\ workQueue = <<>> /\ Len(workQueue) = 0
    BY <1>1, <1>5 DEF ControlInv
  <2>3. TypeOK'
    BY <1>1, <1>3, <2>1, WindowFacts DEF TypeOK
  <2>4. ControlInv'
    BY <1>1, <1>5, <2>1, <2>2 DEF ControlInv
  <2>5. QED
    BY <1>4, <2>3, <2>4 DEF BaseInv
<1>6. CASE ~build.disableOptimizations
  <2>1. /\ workQueue' = workQueue \o <<NewBatch(cur, slotStart), Kill>>
        /\ mainPc' = "join" /\ job' = job /\ idx' = idx
    BY <1>6 DEF ReportStatistics
  <2>2. \A i \in 1 .. Len(workQueue) : workQueue[i] # Kill
    BY <1>1 DEF ControlInv
  <2>3. workQueue \in Seq(Batch \cup {Kill}) /\ workQueue' \in Seq(Batch \cup {Kill})
    BY <1>1, <1>3, <2>1 DEF TypeOK
  <2>4. \A i \in 1 .. Len(workQueue') : workQueue'[i] = Kill => i = Len(workQueue')
    BY <1>3, <2>1, <2>2, <2>3
  <2>5. alive
    BY <1>1, <1>6 DEF ControlInv
  <2>6. TypeOK'
    BY <1>1, <2>1, <2>3 DEF TypeOK
  <2>7. ControlInv'
    BY <1>1, <1>6, <2>1, <2>4, <2>5 DEF ControlInv
  <2>8. QED
    BY <1>4, <2>6, <2>7 DEF BaseInv
<1>7. QED
  BY <1>5, <1>6

\* The waits of the program's thread: for the answer, and for the shadow thread.
LEMMA WaitsBase ==
  ASSUME BaseInv, Handshake \/ Join \/ \E v \in Garbage : ReuseStack(v)
  PROVE  BaseInv'
<1>1. /\ TypeOK /\ ControlInv /\ StampInv
      /\ UNCHANGED <<build, todo, cur, slotStart, produced, buf, workQueue, readyQueue,
                     alive, job, idx, spinning, last, again>>
      /\ \/ mainPc = "handshake" /\ mainPc' = "report"
         \/ mainPc = "join" /\ mainPc' = "done"
         \/ mainPc' = mainPc
      /\ sync' \in {0, 1} \cup Garbage
      /\ frameLive' \in BOOLEAN
  BY DEF BaseInv, Handshake, Join, ReuseStack, shadowVars, history, mainVars, TypeOK
<1>2. TypeOK'
  BY <1>1 DEF TypeOK, Window
<1>3. ControlInv' /\ StampInv'
  BY <1>1 DEF ControlInv, StampInv
<1>4. QED
  BY <1>2, <1>3 DEF BaseInv

\* The shadow thread takes a batch, or ends.
LEMMA TryPopBase ==
  ASSUME BaseInv, TryPop
  PROVE  BaseInv'
<1>1. /\ TypeOK /\ ControlInv /\ StampInv /\ alive /\ job = NoJob /\ ~spinning
      /\ workQueue # <<>> /\ workQueue' = Tail(workQueue)
      /\ UNCHANGED <<build, mainPc, todo, cur, slotStart, produced, buf, readyQueue,
                     spinning, sync, frameLive, last, again>>
      /\ Window' = Window
  BY DEF BaseInv, ControlInv, TryPop, mainVars, history, Window
<1>2. ~build.disableOptimizations
  BY <1>1 DEF ControlInv
<1>3. workQueue \in Seq(Batch \cup {Kill}) /\ workQueue' \in Seq(Batch \cup {Kill})
      /\ Head(workQueue) \in Batch \cup {Kill} /\ Head(workQueue) = workQueue[1]
      /\ Len(workQueue) \in Nat /\ 1 \in 1 .. Len(workQueue)
      /\ Len(workQueue') = Len(workQueue) - 1
  BY <1>1 DEF TypeOK
<1>4. \A i \in 1 .. Len(workQueue') :
         i + 1 \in 1 .. Len(workQueue) /\ workQueue'[i] = workQueue[i + 1]
  BY <1>1, <1>3
<1>5. StampInv'
  BY <1>1 DEF StampInv
<1>6. CASE Head(workQueue) = Kill
  <2>1. alive' = FALSE /\ job' = job /\ idx' = idx
    BY <1>6 DEF TryPop
  <2>2. Len(workQueue) = 1 /\ mainPc \in {"join", "done"}
    BY <1>1, <1>3, <1>6 DEF ControlInv
  <2>3. workQueue' = <<>> /\ Len(workQueue') = 0
    BY <1>1, <1>3, <2>2
  <2>4. TypeOK'
    BY <1>1, <1>3, <2>1 DEF TypeOK
  <2>5. ControlInv'
    BY <1>1, <1>2, <2>1, <2>2, <2>3 DEF ControlInv
  <2>6. QED
    BY <1>5, <2>4, <2>5 DEF BaseInv
<1>7. CASE Head(workQueue) # Kill
  <2>1. alive' = alive /\ job' = Head(workQueue) /\ idx' = 0
    BY <1>7 DEF TryPop
  <2>2. TypeOK'
    BY <1>1, <1>3, <1>7, <2>1, WindowFacts DEF TypeOK
  <2>3. \A i \in 1 .. Len(workQueue') : workQueue'[i] = Kill =>
           i = Len(workQueue') /\ mainPc \in {"join", "done"}
    <3> SUFFICES ASSUME NEW i \in 1 .. Len(workQueue'), workQueue'[i] = Kill
                 PROVE  i = Len(workQueue') /\ mainPc \in {"join", "done"}
      OBVIOUS
    <3>1. i + 1 \in 1 .. Len(workQueue) /\ workQueue[i + 1] = Kill
      BY <1>4
    <3>2. i + 1 = Len(workQueue) /\ mainPc \in {"join", "done"}
      BY <1>1, <3>1 DEF ControlInv
    <3>3. QED
      BY <1>3, <3>2
  <2>4. ControlInv'
    BY <1>1, <1>2, <2>1, <2>3 DEF ControlInv
  <2>5. QED
    BY <1>5, <2>2, <2>4 DEF BaseInv
<1>8. QED
  BY <1>6, <1>7

\* What processShadowBatch finds at the index it is at is an entry.
LEMMA CellType ==
  ASSUME TypeOK, NEW b \in Buffers, NEW i \in Nat
  PROVE  Cell(b, i) \in Entry
<1>1. CASE i < Window
  <2>1. i \in 0 .. SHADOW_WINDOW - 1
    BY <1>1, WindowFacts
  <2>2. buf[b][i] \in Entry
    BY <2>1 DEF TypeOK
  <2>3. QED
    BY <1>1, <2>2 DEF Cell
<1>2. CASE ~(i < Window)
  BY <1>2, EntryFacts DEF Cell
<1>3. QED
  BY <1>1, <1>2

\* One turn of the loop of processShadowBatch.
LEMMA ProcessEntryBase ==
  ASSUME BaseInv, ProcessEntry
  PROVE  BaseInv'
<1>1. /\ TypeOK /\ ControlInv /\ StampInv /\ job # NoJob /\ ~spinning
      /\ idx <= job.numEntries
      /\ UNCHANGED <<build, mainPc, todo, cur, slotStart, produced, buf, workQueue,
                     readyQueue, alive, job, frameLive>>
      /\ Window' = Window
  BY DEF BaseInv, ProcessEntry, mainVars, Window
<1>2. job \in Batch /\ job.numEntries \in 0 .. SHADOW_WINDOW
      /\ job.shadowEntries \in Buffers /\ idx \in Nat
  BY <1>1, BatchFacts DEF TypeOK
<1> DEFINE e == Cell(job.shadowEntries, idx)
<1>3. e \in Entry
  BY <1>1, <1>2, CellType
<1>4. last' \in {0} \cup Stamps
  <2>1. last' = IF idx < job.numEntries THEN e.n ELSE last
    BY DEF ProcessEntry
  <2>2. QED
    BY <1>1, <1>3, <2>1, EntryFacts DEF TypeOK
<1>5. again' \subseteq Stamps
  <2>1. again' = IF ~(idx < job.numEntries) /\ e # FreeSlot THEN again \cup {e.n} ELSE again
    BY DEF ProcessEntry
  <2> HIDE DEF e
  <2>2. QED
    BY <1>1, <1>3, <2>1, EntryFacts DEF TypeOK
<1>6. \/ sync' = 1 /\ spinning' = TRUE /\ idx' = idx
      \/ sync' = sync /\ spinning' = spinning /\ idx' = idx + 1
  BY DEF ProcessEntry
<1>7. /\ idx' \in 0 .. SHADOW_WINDOW + 1
      /\ spinning' => idx' <= job'.numEntries
  BY <1>1, <1>2, <1>6, WindowFacts
<1>8. sync' \in {0, 1} \cup Garbage /\ spinning' \in BOOLEAN
  BY <1>1, <1>6 DEF TypeOK
<1>9. TypeOK'
  BY <1>1, <1>4, <1>5, <1>7, <1>8 DEF TypeOK
<1>10. ControlInv' /\ StampInv'
  BY <1>1, <1>7 DEF ControlInv, StampInv
<1>11. QED
  BY <1>9, <1>10 DEF BaseInv

\* The answer has been taken.
LEMMA SpinEndsBase ==
  ASSUME BaseInv, SpinEnds
  PROVE  BaseInv'
<1>1. /\ TypeOK /\ ControlInv /\ StampInv /\ job # NoJob
      /\ idx <= job.numEntries /\ spinning' = FALSE /\ idx' = idx + 1
      /\ UNCHANGED <<build, mainPc, todo, cur, slotStart, produced, buf, workQueue,
                     readyQueue, alive, job, sync, frameLive, last, again>>
      /\ Window' = Window
  BY DEF BaseInv, ControlInv, SpinEnds, mainVars, history, Window
<1>2. job \in Batch /\ job.numEntries \in 0 .. SHADOW_WINDOW /\ idx \in Nat
  BY <1>1, BatchFacts DEF TypeOK
<1>3. idx' \in 0 .. SHADOW_WINDOW + 1
  BY <1>1, <1>2, WindowFacts
<1>4. TypeOK'
  BY <1>1, <1>3 DEF TypeOK
<1>5. ControlInv' /\ StampInv'
  BY <1>1 DEF ControlInv, StampInv
<1>6. QED
  BY <1>4, <1>5 DEF BaseInv

\* The buffer goes back.
LEMMA RetireBase ==
  ASSUME BaseInv, Retire
  PROVE  BaseInv'
<1>1. /\ TypeOK /\ ControlInv /\ StampInv /\ job # NoJob /\ ~spinning /\ job' = NoJob
      /\ readyQueue' = Append(readyQueue, job.shadowEntries)
      /\ UNCHANGED <<build, todo, cur, slotStart, produced, buf, workQueue,
                     alive, idx, spinning, sync, frameLive, last, again>>
      /\ Window' = Window
  BY DEF BaseInv, Retire, history, Window
<1>2. \/ mainPc = "serial" /\ mainPc' = "waitPop"
      \/ mainPc = "serialLast" /\ mainPc' = "done"
      \/ mainPc \notin {"serial", "serialLast"} /\ mainPc' = mainPc
  BY DEF Retire
<1>3. job.shadowEntries \in Buffers
  BY <1>1, BatchFacts DEF TypeOK
<1>4. TypeOK'
  BY <1>1, <1>2, <1>3 DEF TypeOK
<1>5. ControlInv' /\ StampInv'
  BY <1>1, <1>2 DEF ControlInv, StampInv
<1>6. QED
  BY <1>4, <1>5 DEF BaseInv

\* A step that changes nothing.
LEMMA StutterBase ==
  ASSUME BaseInv, UNCHANGED vars
  PROVE  BaseInv'
<1>1. UNCHANGED <<build, mainPc, todo, cur, slotStart, produced, buf, workQueue, readyQueue,
                  alive, job, idx, spinning, sync, frameLive, last, again>>
  BY DEF vars, mainVars, shadowVars, history
<1>2. QED
  BY <1>1 DEF BaseInv, TypeOK, Window, ControlInv, StampInv

\* Every step keeps types and control.
LEMMA NextBase == BaseInv /\ [Next]_vars => BaseInv'
<1> SUFFICES ASSUME BaseInv, [Next]_vars  PROVE BaseInv'
  OBVIOUS
<1>1. CASE Program
  BY <1>1, ProgramBase
<1>2. CASE Handshake \/ Join \/ \E v \in Garbage : ReuseStack(v)
  BY <1>2, WaitsBase
<1>3. CASE WaitPop
  BY <1>3, WaitPopBase
<1>4. CASE ReportStatistics
  BY <1>4, ReportStatisticsBase
<1>5. CASE TryPop
  BY <1>5, TryPopBase
<1>6. CASE ProcessEntry
  BY <1>6, ProcessEntryBase
<1>7. CASE SpinEnds
  BY <1>7, SpinEndsBase
<1>8. CASE Retire
  BY <1>8, RetireBase
<1>9. CASE UNCHANGED vars
  BY <1>9, StutterBase
<1>10. QED
  BY <1>1, <1>2, <1>3, <1>4, <1>5, <1>6, <1>7, <1>8, <1>9
     DEF Next, MainSteps, ShadowSteps, Terminated

\* Every variable keeps its type; slotStart stays inside the buffer and the
\* index of processShadowBatch at most one slot behind it.
THEOREM TypeCorrect == Spec => []TypeOK
<1>1. BaseInv => TypeOK
  BY DEF BaseInv
<1>2. QED
  BY <1>1, InitBase, NextBase, PTL DEF Spec

-----------------------------------------------------------------------------
(***************************************************************************)
(* One holder.                                                             *)
(***************************************************************************)
MainHas(b)     == cur = b /\ mainPc \in Holding
QueuedIn(q, b) == \E i \in 1 .. Len(q) : q[i] # Kill /\ q[i].shadowEntries = b
JobHas(b)      == job # NoJob /\ job.shadowEntries = b
ReadyIn(q, b)  == \E i \in 1 .. Len(q) : q[i] = b

\* No buffer is twice in a queue.
QueuedOnce(q) ==
    \A i, j \in 1 .. Len(q) :
        q[i] # Kill /\ q[j] # Kill /\ q[i].shadowEntries = q[j].shadowEntries => i = j
ReadyOnce(q) == \A i, j \in 1 .. Len(q) : q[i] = q[j] => i = j

\* Every buffer is in one of the four places and in no other.
PlaceOf(b) ==
    /\ MainHas(b) \/ QueuedIn(workQueue, b) \/ JobHas(b) \/ ReadyIn(readyQueue, b)
    /\ MainHas(b) => ~QueuedIn(workQueue, b) /\ ~JobHas(b) /\ ~ReadyIn(readyQueue, b)
    /\ QueuedIn(workQueue, b) => ~JobHas(b) /\ ~ReadyIn(readyQueue, b)
    /\ JobHas(b) => ~ReadyIn(readyQueue, b)

PlaceInv ==
    /\ \A b \in Buffers : PlaceOf(b)
    /\ QueuedOnce(workQueue) /\ ReadyOnce(readyQueue)

WorkQueues == Seq(Batch \cup {Kill})

\* A batch at the end of the queue.
LEMMA QueuedAppend ==
  ASSUME NEW q \in WorkQueues, QueuedOnce(q), NEW b \in Buffers,
         NEW n \in 0 .. SHADOW_WINDOW, ~QueuedIn(q, b)
  PROVE  /\ QueuedOnce(Append(q, NewBatch(b, n)))
         /\ \A c \in Buffers : QueuedIn(Append(q, NewBatch(b, n)), c)
                                  <=> QueuedIn(q, c) \/ c = b
<1> DEFINE x == NewBatch(b, n)
           r == Append(q, x)
<1>1. x \in Batch /\ x # Kill /\ x.shadowEntries = b
  BY BatchFacts
<1> HIDE DEF x
<1>2. Len(r) = Len(q) + 1 /\ r[Len(q) + 1] = x /\ Len(q) \in Nat
      /\ \A i \in 1 .. Len(q) : r[i] = q[i]
  BY <1>1 DEF WorkQueues
<1> HIDE DEF r
<1>3. QueuedOnce(r)
  BY <1>1, <1>2 DEF QueuedOnce, QueuedIn
<1>4. \A c \in Buffers : QueuedIn(r, c) <=> QueuedIn(q, c) \/ c = b
  BY <1>1, <1>2 DEF QueuedIn
<1>5. QED
  BY <1>3, <1>4 DEF r, x

\* The kill batch behind a queue holds no buffer.
LEMMA QueuedKill ==
  ASSUME NEW q \in WorkQueues, QueuedOnce(q)
  PROVE  /\ QueuedOnce(Append(q, Kill))
         /\ \A c \in Buffers : QueuedIn(Append(q, Kill), c) <=> QueuedIn(q, c)
<1> DEFINE r == Append(q, Kill)
<1>1. Len(r) = Len(q) + 1 /\ r[Len(q) + 1] = Kill /\ Len(q) \in Nat
      /\ \A i \in 1 .. Len(q) : r[i] = q[i]
  BY DEF WorkQueues
<1> HIDE DEF r
<1>2. QueuedOnce(r)
  BY <1>1 DEF QueuedOnce
<1>3. \A c \in Buffers : QueuedIn(r, c) <=> QueuedIn(q, c)
  BY <1>1 DEF QueuedIn
<1>4. QED
  BY <1>2, <1>3 DEF r

\* The first batch leaves the queue.
LEMMA QueuedTail ==
  ASSUME NEW q \in WorkQueues, QueuedOnce(q), q # <<>>
  PROVE  /\ QueuedOnce(Tail(q))
         /\ \A c \in Buffers : QueuedIn(q, c) <=>
               QueuedIn(Tail(q), c) \/ (Head(q) # Kill /\ Head(q).shadowEntries = c)
         /\ Head(q) # Kill => ~QueuedIn(Tail(q), Head(q).shadowEntries)
<1> DEFINE r == Tail(q)
<1>1. Len(q) \in Nat /\ Len(q) >= 1 /\ Len(r) = Len(q) - 1 /\ Head(q) = q[1]
      /\ \A i \in 1 .. Len(r) : r[i] = q[i + 1]
  BY DEF WorkQueues
<1> HIDE DEF r
<1>2. QueuedOnce(r)
  <2> SUFFICES ASSUME NEW i \in 1 .. Len(r), NEW j \in 1 .. Len(r), r[i] # Kill, r[j] # Kill,
                      r[i].shadowEntries = r[j].shadowEntries
               PROVE  i = j
    BY DEF QueuedOnce
  <2>1. i + 1 \in 1 .. Len(q) /\ j + 1 \in 1 .. Len(q)
    BY <1>1
  <2>2. i + 1 = j + 1
    BY <1>1, <2>1 DEF QueuedOnce
  <2>3. QED
    BY <2>2
<1>3. ASSUME NEW c, NEW i \in 1 .. Len(r), r[i] # Kill, r[i].shadowEntries = c
      PROVE  QueuedIn(q, c) /\ (Head(q) # Kill => Head(q).shadowEntries # c)
  <2>1. i + 1 \in 1 .. Len(q) /\ q[i + 1] = r[i] /\ 1 \in 1 .. Len(q) /\ i + 1 # 1
    BY <1>1
  <2>2. QED
    BY <1>1, <1>3, <2>1 DEF QueuedIn, QueuedOnce
<1>4. ASSUME NEW c, NEW i \in 1 .. Len(q), q[i] # Kill, q[i].shadowEntries = c, i # 1
      PROVE  QueuedIn(r, c)
  <2>1. i - 1 \in 1 .. Len(r) /\ r[i - 1] = q[i]
    BY <1>1, <1>4
  <2>2. QED
    BY <1>4, <2>1 DEF QueuedIn
<1>5. QED
  BY <1>1, <1>2, <1>3, <1>4 DEF QueuedIn, r

\* A buffer at the end of the ready queue.
LEMMA ReadyAppend ==
  ASSUME NEW q \in Seq(Buffers), ReadyOnce(q), NEW b \in Buffers, ~ReadyIn(q, b)
  PROVE  /\ ReadyOnce(Append(q, b))
         /\ \A c \in Buffers : ReadyIn(Append(q, b), c) <=> ReadyIn(q, c) \/ c = b
<1> DEFINE r == Append(q, b)
<1>1. Len(r) = Len(q) + 1 /\ r[Len(q) + 1] = b /\ Len(q) \in Nat
      /\ \A i \in 1 .. Len(q) : r[i] = q[i]
  OBVIOUS
<1> HIDE DEF r
<1>2. ReadyOnce(r)
  BY <1>1 DEF ReadyOnce, ReadyIn
<1>3. \A c \in Buffers : ReadyIn(r, c) <=> ReadyIn(q, c) \/ c = b
  BY <1>1 DEF ReadyIn
<1>4. QED
  BY <1>2, <1>3 DEF r

\* The first buffer leaves the ready queue.
LEMMA ReadyTail ==
  ASSUME NEW q \in Seq(Buffers), ReadyOnce(q), q # <<>>
  PROVE  /\ ReadyOnce(Tail(q)) /\ Head(q) \in Buffers
         /\ \A c \in Buffers : ReadyIn(q, c) <=> ReadyIn(Tail(q), c) \/ c = Head(q)
         /\ ~ReadyIn(Tail(q), Head(q))
<1> DEFINE r == Tail(q)
<1>1. Len(q) \in Nat /\ Len(q) >= 1 /\ Len(r) = Len(q) - 1 /\ Head(q) = q[1]
      /\ \A i \in 1 .. Len(r) : r[i] = q[i + 1]
  OBVIOUS
<1>2. Head(q) \in Buffers
  OBVIOUS
<1> HIDE DEF r
<1>3. ReadyOnce(r)
  <2> SUFFICES ASSUME NEW i \in 1 .. Len(r), NEW j \in 1 .. Len(r), r[i] = r[j]
               PROVE  i = j
    BY DEF ReadyOnce
  <2>1. i + 1 \in 1 .. Len(q) /\ j + 1 \in 1 .. Len(q)
    BY <1>1
  <2>2. i + 1 = j + 1
    BY <1>1, <2>1 DEF ReadyOnce
  <2>3. QED
    BY <2>2
<1>4. ASSUME NEW i \in 1 .. Len(r)  PROVE ReadyIn(q, r[i]) /\ r[i] # Head(q)
  <2>1. i + 1 \in 1 .. Len(q) /\ q[i + 1] = r[i] /\ 1 \in 1 .. Len(q) /\ i + 1 # 1
    BY <1>1
  <2>2. QED
    BY <1>1, <2>1 DEF ReadyIn, ReadyOnce
<1>5. ASSUME NEW i \in 1 .. Len(q), i # 1  PROVE ReadyIn(r, q[i])
  <2>1. i - 1 \in 1 .. Len(r) /\ r[i - 1] = q[i]
    BY <1>1, <1>5
  <2>2. QED
    BY <2>1 DEF ReadyIn
<1>6. QED
  BY <1>1, <1>2, <1>3, <1>4, <1>5 DEF ReadyIn, r

-----------------------------------------------------------------------------
(***************************************************************************)
(* What the steps of the program's thread have in common: it takes a       *)
(* buffer b, its own or the first that is ready, fills in at most one      *)
(* slot, so that b has m entries, and keeps b, queues it as a batch or     *)
(* executes it.                                                            *)
(***************************************************************************)
Takes(b) ==
    \/ MainHas(b) /\ readyQueue' = readyQueue
    \/ /\ mainPc = "waitPop" /\ readyQueue # <<>>
       /\ b = Head(readyQueue) /\ readyQueue' = Tail(readyQueue)

Fills(b, m) ==
    \/ m = slotStart /\ buf' = buf /\ produced' = produced
    \/ /\ m = slotStart + 1 /\ slotStart < Window
       /\ \E op \in Ops :
             buf' = [buf EXCEPT ![b][slotStart] = [op |-> op, n |-> produced + 1]]
       /\ produced' = produced + 1

Gives(b, m) ==
    \/ /\ mainPc' \in Holding /\ slotStart' = m
       /\ UNCHANGED <<workQueue, job, idx>>
    \/ /\ mainPc' \notin Holding
       /\ workQueue' \in {Append(workQueue, NewBatch(b, m)),
                          Append(Append(workQueue, NewBatch(b, m)), Kill)}
       /\ UNCHANGED <<job, idx>>
    \/ /\ mainPc' \notin Holding
       /\ job = NoJob /\ job' = NewBatch(b, m) /\ idx' = 0
       /\ workQueue = <<>> /\ UNCHANGED workQueue

Hand(b, m) ==
    /\ m \in 0 .. SHADOW_WINDOW
    /\ Takes(b) /\ Fills(b, m) /\ Gives(b, m)
    /\ cur' = b
    /\ mainPc' # "done"
    /\ UNCHANGED <<build, alive, spinning, last>>

\* batchFull gives the buffer away.
LEMMA BatchFullGives ==
  ASSUME BaseInv, mainPc \in {"run", "waitPop"}, NEW b, NEW m, NEW next,
         BatchFull(b, m, next)
  PROVE  Gives(b, m) /\ mainPc' # "done"
<1>1. CASE build.disableOptimizations
  <2>1. job = NoJob /\ workQueue = <<>>
    BY <1>1 DEF BaseInv, ControlInv
  <2>2. QED
    BY <1>1, <2>1 DEF BatchFull, Gives, Holding
<1>2. CASE ~build.disableOptimizations
  BY <1>2 DEF BatchFull, Gives, Holding
<1>3. QED
  BY <1>1, <1>2

\* A slot that is filled in.
LEMMA PutGives ==
  ASSUME BaseInv, mainPc \in {"run", "waitPop"}, NEW b, NEW op \in Ops,
         slotStart < Window, Put(b, slotStart, op)
  PROVE  Fills(b, slotStart + 1) /\ Gives(b, slotStart + 1) /\ mainPc' # "done"
<1>1. Fills(b, slotStart + 1)
  BY DEF Put, Fills
<1>2. CASE op = "WORK"
  BY <1>1, <1>2 DEF Put, Gives, Holding
<1>3. CASE op # "WORK"
  <2>1. \E next : BatchFull(b, slotStart + 1, next)
    BY <1>3 DEF Put
  <2>2. QED
    BY <1>1, <2>1, BatchFullGives
<1>4. QED
  BY <1>2, <1>3

\* getFreeSlot hands its buffer on.
LEMMA GetFreeSlotHands ==
  ASSUME BaseInv, NEW op \in Ops, GetFreeSlot(op)
  PROVE  \E m : Hand(cur, m)
<1>1. /\ mainPc = "run" /\ cur' = cur /\ readyQueue' = readyQueue
      /\ UNCHANGED <<build, alive, spinning, last>>
      /\ slotStart \in 0 .. Window
  BY DEF GetFreeSlot, history, BaseInv, TypeOK
<1>2. Takes(cur)
  BY <1>1 DEF Takes, MainHas, Holding
<1>3. CASE slotStart < Window /\ Put(cur, slotStart, op)
  <2>1. slotStart + 1 \in 0 .. SHADOW_WINDOW
    BY <1>1, <1>3, WindowFacts
  <2>2. QED
    BY <1>1, <1>2, <1>3, <2>1, PutGives DEF Hand
<1>4. CASE slotStart >= Window /\ BatchFull(cur, Window, op) /\ UNCHANGED <<buf, produced>>
  <2>1. slotStart = Window /\ Window \in 0 .. SHADOW_WINDOW
    BY <1>1, <1>4, WindowFacts
  <2>2. Fills(cur, Window)
    BY <1>4, <2>1 DEF Fills
  <2>3. QED
    BY <1>1, <1>2, <1>4, <2>1, <2>2, BatchFullGives DEF Hand
<1>5. QED
  BY <1>3, <1>4 DEF GetFreeSlot

\* Every step of the program's thread that is not a mere wait hands on a
\* buffer.
LEMMA MainHands ==
  ASSUME BaseInv, Program \/ Handshake \/ WaitPop \/ ReportStatistics
  PROVE  \E b \in Buffers : \E m : Hand(b, m)
<1>1. cur \in Buffers /\ slotStart \in 0 .. Window /\ slotStart \in 0 .. SHADOW_WINDOW
  BY WindowFacts DEF BaseInv, TypeOK
<1>2. ASSUME NEW op \in Ops, GetFreeSlot(op)
      PROVE  \E b \in Buffers : \E m : Hand(b, m)
  BY <1>1, <1>2, GetFreeSlotHands
<1>3. ASSUME mainPc \in Holding, mainPc' = "report",
             UNCHANGED <<build, cur, slotStart, produced, buf, workQueue, readyQueue,
                         alive, job, idx, spinning, last>>
      PROVE  \E b \in Buffers : \E m : Hand(b, m)
  <2>1. Takes(cur) /\ Fills(cur, slotStart) /\ Gives(cur, slotStart)
    BY <1>3 DEF Takes, MainHas, Fills, Gives, Holding
  <2>2. Hand(cur, slotStart)
    BY <1>1, <1>3, <2>1 DEF Hand
  <2>3. QED
    BY <1>1, <2>2
<1>4. CASE Program
  BY <1>2, <1>3, <1>4 DEF Program, Ship, PrintJSON, Ops, Holding, shadowVars, history
<1>5. CASE Handshake
  BY <1>3, <1>5 DEF Handshake, Holding, shadowVars, history
<1>6. CASE WaitPop
  <2> DEFINE b == Head(readyQueue)
  <2>1. /\ mainPc = "waitPop" /\ slotStart = 0 /\ cur' = b /\ Takes(b) /\ b \in Buffers
        /\ UNCHANGED <<build, alive, spinning, last>>
    BY <1>6 DEF WaitPop, Takes, BaseInv, ControlInv, TypeOK, history
  <2>2. CASE todo \in Ops
    <3>1. Put(b, slotStart, todo) /\ slotStart < Window /\ slotStart + 1 \in 0 .. SHADOW_WINDOW
      BY <1>6, <2>1, <2>2, WindowFacts DEF WaitPop
    <3>2. Hand(b, slotStart + 1)
      BY <2>1, <2>2, <3>1, PutGives DEF Hand
    <3>3. QED
      BY <2>1, <3>2
  <2>3. CASE todo \notin Ops
    <3>1. mainPc' \in {"handshake", "run"}
          /\ UNCHANGED <<slotStart, produced, buf, workQueue, job, idx>>
      BY <1>6, <2>3 DEF WaitPop
    <3>2. Fills(b, slotStart) /\ Gives(b, slotStart)
      BY <3>1 DEF Fills, Gives, Holding
    <3>3. Hand(b, slotStart)
      BY <1>1, <2>1, <3>1, <3>2 DEF Hand
    <3>4. QED
      BY <2>1, <3>3
  <2>4. QED
    BY <2>2, <2>3
<1>7. CASE ReportStatistics
  <2>1. /\ mainPc = "report" /\ mainPc' \in {"join", "serialLast"}
        /\ UNCHANGED <<build, cur, slotStart, produced, buf, readyQueue, alive, spinning, last>>
    BY <1>7 DEF ReportStatistics, history
  <2>2. Takes(cur) /\ Fills(cur, slotStart)
    BY <2>1 DEF Takes, MainHas, Fills, Holding
  <2>3. Gives(cur, slotStart)
    <3>1. CASE build.disableOptimizations
      <4>1. job = NoJob /\ workQueue = <<>>
        BY <2>1, <3>1 DEF BaseInv, ControlInv
      <4>2. QED
        BY <1>7, <2>1, <3>1, <4>1 DEF ReportStatistics, Gives, Holding
    <3>2. CASE ~build.disableOptimizations
      <4>1. NewBatch(cur, slotStart) \in Batch
        BY <1>1, BatchFacts
      <4>2. workQueue \in Seq(Batch \cup {Kill})
        BY DEF BaseInv, TypeOK
      <4>3. workQueue \o <<NewBatch(cur, slotStart), Kill>>
              = Append(Append(workQueue, NewBatch(cur, slotStart)), Kill)
        BY <4>1, <4>2
      <4>4. QED
        BY <1>7, <2>1, <3>2, <4>3 DEF ReportStatistics, Gives, Holding
    <3>3. QED
      BY <3>1, <3>2
  <2>4. Hand(cur, slotStart)
    BY <1>1, <2>1, <2>2, <2>3 DEF Hand
  <2>5. QED
    BY <1>1, <2>4
<1>8. QED
  BY <1>4, <1>5, <1>6, <1>7

\* The buffer that is taken was in no other place, and the ready queue has
\* lost it if it was there.
LEMMA TakesFacts ==
  ASSUME BaseInv, PlaceInv, NEW b \in Buffers, Takes(b)
  PROVE  /\ ~QueuedIn(workQueue, b) /\ ~JobHas(b)
         /\ ReadyOnce(readyQueue') /\ ~ReadyIn(readyQueue', b)
         /\ \A c \in Buffers : c # b =>
               ~MainHas(c) /\ (ReadyIn(readyQueue', c) <=> ReadyIn(readyQueue, c))
<1>1. CASE MainHas(b) /\ readyQueue' = readyQueue
  BY <1>1 DEF PlaceInv, PlaceOf, MainHas
<1>2. CASE /\ mainPc = "waitPop" /\ readyQueue # <<>>
           /\ b = Head(readyQueue) /\ readyQueue' = Tail(readyQueue)
  <2>1. readyQueue \in Seq(Buffers) /\ ReadyOnce(readyQueue)
    BY DEF BaseInv, TypeOK, PlaceInv
  <2>2. /\ ReadyOnce(readyQueue') /\ ~ReadyIn(readyQueue', b)
        /\ \A c \in Buffers : ReadyIn(readyQueue, c) <=> ReadyIn(readyQueue', c) \/ c = b
    BY <1>2, <2>1, ReadyTail
  <2>3. \A c : ~MainHas(c)
    BY <1>2 DEF MainHas, Holding
  <2>4. QED
    BY <2>2, <2>3 DEF PlaceInv, PlaceOf
<1>3. QED
  BY <1>1, <1>2 DEF Takes

\* Handing on a buffer keeps each in its place.
LEMMA HandPlaces ==
  ASSUME BaseInv, PlaceInv, NEW b \in Buffers, NEW m, Hand(b, m)
  PROVE  PlaceInv'
<1>1. /\ ~QueuedIn(workQueue, b) /\ ~JobHas(b)
      /\ ReadyOnce(readyQueue') /\ ~ReadyIn(readyQueue', b)
      /\ \A c \in Buffers : c # b =>
            ~MainHas(c) /\ (ReadyIn(readyQueue', c) <=> ReadyIn(readyQueue, c))
  BY TakesFacts DEF Hand
<1>2. cur' = b /\ m \in 0 .. SHADOW_WINDOW /\ Gives(b, m)
  BY DEF Hand
<1>3. workQueue \in WorkQueues /\ QueuedOnce(workQueue) /\ \A c \in Buffers : PlaceOf(c)
  BY DEF BaseInv, TypeOK, WorkQueues, PlaceInv
<1>4. CASE mainPc' \in Holding /\ UNCHANGED <<workQueue, job>>
  <2>1. \A c \in Buffers : /\ (MainHas(c)' <=> c = b)
                           /\ (JobHas(c)' <=> JobHas(c))
    BY <1>2, <1>4 DEF MainHas, JobHas
  <2>2. \A c \in Buffers : PlaceOf(c)'
    BY <1>1, <1>3, <1>4, <2>1 DEF PlaceOf
  <2>3. QED
    BY <1>1, <1>3, <1>4, <2>2 DEF PlaceInv
<1>5. CASE /\ mainPc' \notin Holding /\ job' = job
           /\ workQueue' \in {Append(workQueue, NewBatch(b, m)),
                              Append(Append(workQueue, NewBatch(b, m)), Kill)}
  <2> DEFINE q == Append(workQueue, NewBatch(b, m))
  <2>1. QueuedOnce(q) /\ \A c \in Buffers : QueuedIn(q, c) <=> QueuedIn(workQueue, c) \/ c = b
    BY <1>1, <1>2, <1>3, QueuedAppend
  <2>2. q \in WorkQueues
    <3>1. NewBatch(b, m) \in Batch
      BY <1>2, BatchFacts
    <3>2. QED
      BY <1>3, <3>1 DEF WorkQueues
  <2> HIDE DEF q
  <2>3. /\ QueuedOnce(workQueue')
        /\ \A c \in Buffers : QueuedIn(workQueue', c) <=> QueuedIn(workQueue, c) \/ c = b
    <3>1. CASE workQueue' = q
      BY <2>1, <3>1
    <3>2. CASE workQueue' = Append(q, Kill)
      BY <2>1, <2>2, <3>2, QueuedKill
    <3>3. QED
      BY <1>5, <3>1, <3>2 DEF q
  <2>4. \A c \in Buffers : ~MainHas(c)' /\ (JobHas(c)' <=> JobHas(c))
    BY <1>5 DEF MainHas, JobHas
  <2>5. \A c \in Buffers : PlaceOf(c)'
    BY <1>1, <1>3, <2>3, <2>4 DEF PlaceOf
  <2>6. QED
    BY <1>1, <2>3, <2>5 DEF PlaceInv
<1>6. CASE /\ mainPc' \notin Holding /\ workQueue' = workQueue
           /\ job = NoJob /\ job' = NewBatch(b, m)
  <2>1. job' # NoJob /\ job'.shadowEntries = b
    BY <1>2, <1>6, BatchFacts
  <2>2. \A c \in Buffers : ~MainHas(c)' /\ ~JobHas(c) /\ (JobHas(c)' <=> c = b)
    BY <1>6, <2>1 DEF MainHas, JobHas
  <2>3. \A c \in Buffers : PlaceOf(c)'
    BY <1>1, <1>3, <1>6, <2>2 DEF PlaceOf
  <2>4. QED
    BY <1>1, <1>3, <1>6, <2>3 DEF PlaceInv
<1>7. QED
  BY <1>2, <1>4, <1>5, <1>6 DEF Gives

\* Taking a batch from the queue.
LEMMA TryPopPlaces ==
  ASSUME BaseInv, PlaceInv, TryPop
  PROVE  PlaceInv'
<1>1. /\ job = NoJob /\ workQueue # <<>> /\ workQueue' = Tail(workQueue)
      /\ UNCHANGED <<mainPc, cur, readyQueue>>
      /\ job' = IF Head(workQueue) = Kill THEN job ELSE Head(workQueue)
  BY DEF TryPop, mainVars
<1>2. workQueue \in WorkQueues /\ Head(workQueue) \in Batch \cup {Kill}
      /\ QueuedOnce(workQueue) /\ ReadyOnce(readyQueue) /\ \A c \in Buffers : PlaceOf(c)
  BY <1>1 DEF BaseInv, TypeOK, WorkQueues, PlaceInv
<1>3. /\ QueuedOnce(workQueue')
      /\ \A c \in Buffers : QueuedIn(workQueue, c) <=>
            QueuedIn(workQueue', c)
              \/ (Head(workQueue) # Kill /\ Head(workQueue).shadowEntries = c)
      /\ Head(workQueue) # Kill => ~QueuedIn(workQueue', Head(workQueue).shadowEntries)
  BY <1>1, <1>2, QueuedTail
<1>4. Head(workQueue) # Kill => Head(workQueue) # NoJob
  BY <1>2, BatchFacts
<1>5. \A c \in Buffers : /\ (MainHas(c)' <=> MainHas(c)) /\ ~JobHas(c)
                         /\ (JobHas(c)' <=> Head(workQueue) # Kill
                                              /\ Head(workQueue).shadowEntries = c)
  BY <1>1, <1>4 DEF MainHas, JobHas
<1>6. \A c \in Buffers : PlaceOf(c)'
  BY <1>1, <1>2, <1>3, <1>5 DEF PlaceOf
<1>7. QED
  BY <1>1, <1>2, <1>3, <1>6 DEF PlaceInv

\* Handing a buffer back.
LEMMA RetirePlaces ==
  ASSUME BaseInv, PlaceInv, Retire
  PROVE  PlaceInv'
<1> DEFINE b == job.shadowEntries
<1>1. /\ job # NoJob /\ job' = NoJob /\ readyQueue' = Append(readyQueue, b)
      /\ UNCHANGED <<workQueue, cur>>
      /\ mainPc' \in Holding <=> mainPc \in Holding
  BY DEF Retire, Holding
<1>2. b \in Buffers /\ readyQueue \in Seq(Buffers)
  BY <1>1, BatchFacts DEF BaseInv, TypeOK
<1>3. \A c \in Buffers : /\ (MainHas(c)' <=> MainHas(c)) /\ ~JobHas(c)'
                         /\ (JobHas(c) <=> c = b)
  BY <1>1 DEF MainHas, JobHas
<1> HIDE DEF b
<1>4. ReadyOnce(readyQueue) /\ ~ReadyIn(readyQueue, b) /\ QueuedOnce(workQueue)
      /\ \A c \in Buffers : PlaceOf(c)
  BY <1>2, <1>3 DEF PlaceInv, PlaceOf
<1>5. /\ ReadyOnce(readyQueue')
      /\ \A c \in Buffers : ReadyIn(readyQueue', c) <=> ReadyIn(readyQueue, c) \/ c = b
  BY <1>1, <1>2, <1>4, ReadyAppend
<1>6. \A c \in Buffers : PlaceOf(c)'
  BY <1>1, <1>3, <1>4, <1>5 DEF PlaceOf
<1>7. QED
  BY <1>1, <1>4, <1>5, <1>6 DEF PlaceInv

\* Steps that move no buffer.
LEMMA FramePlaces ==
  ASSUME PlaceInv, UNCHANGED <<workQueue, readyQueue, cur, job>>,
         mainPc' \in Holding <=> mainPc \in Holding
  PROVE  PlaceInv'
<1>1. \A c \in Buffers : (MainHas(c)' <=> MainHas(c)) /\ (JobHas(c)' <=> JobHas(c))
  BY DEF MainHas, JobHas
<1>2. QED
  BY <1>1 DEF PlaceInv, PlaceOf

\* At the start all buffers but the first are ready.
LEMMA InitPlaces == Init => PlaceInv
<1> SUFFICES ASSUME Init  PROVE PlaceInv
  OBVIOUS
<1>1. workQueue = <<>> /\ Len(workQueue) = 0 /\ job = NoJob /\ cur = 1 /\ mainPc \in Holding
  BY DEF Init, Holding
<1>2. /\ Len(readyQueue) = NUM_BATCHES - 1
      /\ \A i \in 1 .. NUM_BATCHES - 1 : readyQueue[i] = i + 1
  BY WindowFacts DEF Init
<1>3. ReadyOnce(readyQueue)
  BY <1>2, WindowFacts DEF ReadyOnce
<1>4. QueuedOnce(workQueue) /\ \A c : ~QueuedIn(workQueue, c)
  BY <1>1 DEF QueuedOnce, QueuedIn
<1>5. ASSUME NEW c \in Buffers  PROVE ReadyIn(readyQueue, c) <=> c # 1
  <2>1. c # 1 => c - 1 \in 1 .. NUM_BATCHES - 1
    BY WindowFacts DEF Buffers
  <2>2. c # 1 => readyQueue[c - 1] = c
    BY <1>2, <2>1 DEF Buffers
  <2>3. \A i \in 1 .. NUM_BATCHES - 1 : readyQueue[i] # 1
    BY <1>2, WindowFacts
  <2>4. QED
    BY <1>2, <2>1, <2>2, <2>3 DEF ReadyIn
<1>6. \A c \in Buffers : PlaceOf(c)
  BY <1>1, <1>4, <1>5 DEF PlaceOf, MainHas, JobHas
<1>7. QED
  BY <1>3, <1>4, <1>6 DEF PlaceInv

\* Every step keeps each buffer in one place.
LEMMA NextPlaces == BaseInv /\ PlaceInv /\ [Next]_vars => PlaceInv'
<1> SUFFICES ASSUME BaseInv, PlaceInv, [Next]_vars  PROVE PlaceInv'
  OBVIOUS
<1>1. CASE Program \/ Handshake \/ WaitPop \/ ReportStatistics
  BY <1>1, MainHands, HandPlaces
<1>2. CASE Join \/ (\E v \in Garbage : ReuseStack(v)) \/ ProcessEntry \/ SpinEnds
           \/ UNCHANGED vars
  <2>1. UNCHANGED <<workQueue, readyQueue, cur, job>>
    BY <1>2 DEF Join, ReuseStack, ProcessEntry, SpinEnds, vars, mainVars, shadowVars
  <2>2. mainPc' \in Holding <=> mainPc \in Holding
    BY <1>2 DEF Join, ReuseStack, ProcessEntry, SpinEnds, vars, mainVars, Holding
  <2>3. QED
    BY <2>1, <2>2, FramePlaces
<1>3. CASE TryPop
  BY <1>3, TryPopPlaces
<1>4. CASE Retire
  BY <1>4, RetirePlaces
<1>5. QED
  BY <1>1, <1>2, <1>3, <1>4 DEF Next, MainSteps, ShadowSteps, Terminated

\* A buffer in one place has one holder.
LEMMA PlaceIsHolder == BaseInv /\ PlaceInv => OneHolder
<1> SUFFICES ASSUME BaseInv, PlaceInv, NEW b \in Buffers
             PROVE  \E h \in Holders(b) : Holders(b) = {h}
  BY DEF OneHolder
<1>1. \A h : h \in Holders(b) <=>
         \/ h = <<"main", 0>> /\ MainHas(b)
         \/ h = <<"job", 0>> /\ JobHas(b)
         \/ \E i \in 1 .. Len(workQueue) : /\ workQueue[i] # Kill
                                           /\ workQueue[i].shadowEntries = b
                                           /\ h = <<"work", i>>
         \/ \E i \in 1 .. Len(readyQueue) : readyQueue[i] = b /\ h = <<"ready", i>>
  BY DEF Holders, MainHas, JobHas, Holding
<1>2. PlaceOf(b) /\ QueuedOnce(workQueue) /\ ReadyOnce(readyQueue)
  BY DEF PlaceInv
<1>3. \E h : h \in Holders(b)
  BY <1>1, <1>2 DEF PlaceOf, QueuedIn, ReadyIn
<1>4. \A g, h \in Holders(b) : g = h
  BY <1>1, <1>2 DEF PlaceOf, QueuedIn, ReadyIn, QueuedOnce, ReadyOnce
<1>5. QED
  BY <1>3, <1>4

\* No buffer is lost and none is in two places, for any number of buffers: the
\* program's thread never writes into a batch that waits or is being executed.
THEOREM BuffersHeldOnce == Spec => []OneHolder
BY InitBase, NextBase, InitPlaces, NextPlaces, PlaceIsHolder, PTL DEF Spec

-----------------------------------------------------------------------------
(***************************************************************************)
(* The order of the entries.  f[i] is how many entries come before the     *)
(* i-th batch of the queue, and f of the last index how many are in        *)
(* batches at all.                                                         *)
(***************************************************************************)

\* The first m slots of buffer b hold the entries after the k-th.
Numbered(b, m, k) ==
    m <= Window /\ \A j \in 0 .. m - 1 : buf[b][j].n = k + j + 1

\* Entries of the batch that is being executed that are still to come.
ToCome == IF idx >= job.numEntries THEN 0
          ELSE IF spinning THEN job.numEntries - idx - 1 ELSE job.numEntries - idx

JobOrder(k) ==
    /\ job = NoJob => last = k
    /\ job # NoJob => /\ last + ToCome = k
                      /\ Numbered(job.shadowEntries, job.numEntries, k - job.numEntries)

\* Entries before and behind a batch x of the queue.
BatchOrder(x, k, l) ==
    /\ x = Kill => l = k
    /\ x # Kill => l = k + x.numEntries /\ Numbered(x.shadowEntries, x.numEntries, k)

MainOrder(k) ==
    /\ mainPc \notin Holding => produced = k
    /\ mainPc \in Holding => produced = k + slotStart /\ Numbered(cur, slotStart, k)

OrderBy(f) ==
    /\ JobOrder(f[1])
    /\ \A i \in 1 .. Len(workQueue) : BatchOrder(workQueue[i], f[i], f[i + 1])
    /\ MainOrder(f[Len(workQueue) + 1])
    /\ \A i \in 1 .. Len(workQueue) + 1 : f[i] <= produced

Counts(q) == [1 .. Len(q) + 1 -> Int]

OrderInv == \E f \in Counts(workQueue) : OrderBy(f)

\* The entries that a buffer holds after a slot was filled in.
LEMMA FillsOrder ==
  ASSUME BaseInv, NEW b \in Buffers, NEW m, Takes(b), Fills(b, m), m \in 0 .. SHADOW_WINDOW,
         build' = build, NEW k \in Int, MainOrder(k)
  PROVE  /\ produced' = k + m /\ produced <= produced'
         /\ Numbered(b, m, k)'
         /\ \A c \in Buffers : c # b => buf'[c] = buf[c]
<1>1. slotStart \in 0 .. Window /\ Window' = Window /\ produced \in Nat /\ Window \in Nat
      /\ Window <= SHADOW_WINDOW
  BY WindowFacts DEF BaseInv, TypeOK, Window, Stamps
<1>2. produced = k + slotStart /\ Numbered(b, slotStart, k)
  <2>1. CASE MainHas(b)
    BY <2>1 DEF MainHas, MainOrder
  <2>2. CASE mainPc = "waitPop"
    <3>1. slotStart = 0 /\ mainPc \notin Holding
      BY <2>2 DEF BaseInv, ControlInv, Holding
    <3>2. QED
      BY <1>1, <3>1 DEF MainOrder, Numbered
  <2>3. QED
    BY <2>1, <2>2 DEF Takes
<1>3. CASE m = slotStart /\ buf' = buf /\ produced' = produced
  BY <1>1, <1>2, <1>3 DEF Numbered
<1>4. ASSUME NEW op \in Ops, m = slotStart + 1, slotStart < Window,
             buf' = [buf EXCEPT ![b][slotStart] = [op |-> op, n |-> produced + 1]],
             produced' = produced + 1
      PROVE  /\ produced' = k + m /\ produced <= produced'
             /\ Numbered(b, m, k)'
             /\ \A c \in Buffers : c # b => buf'[c] = buf[c]
  <2>1. buf \in [Buffers -> [0 .. SHADOW_WINDOW - 1 -> Entry]]
    BY DEF BaseInv, TypeOK
  <2>2. slotStart \in 0 .. SHADOW_WINDOW - 1
    BY <1>1, <1>4, WindowFacts
  <2>3. /\ \A c \in Buffers : c # b => buf'[c] = buf[c]
        /\ buf'[b] = [buf[b] EXCEPT ![slotStart] = [op |-> op, n |-> produced + 1]]
    BY <1>4, <2>1
  <2>4. buf'[b][slotStart].n = produced + 1
    <3>1. PICK e : e = [op |-> op, n |-> produced + 1]
      OBVIOUS
    <3>2. buf[b] \in [0 .. SHADOW_WINDOW - 1 -> Entry]
      BY <2>1
    <3>3. buf'[b][slotStart] = e
      BY <2>2, <2>3, <3>1, <3>2
    <3>4. QED
      BY <3>1, <3>3
  <2>5. \A j \in 0 .. SHADOW_WINDOW - 1 : j # slotStart => buf'[b][j] = buf[b][j]
    BY <2>1, <2>3
  <2>6. ASSUME NEW j \in 0 .. m - 1  PROVE buf'[b][j].n = k + j + 1
    <3>1. CASE j = slotStart
      BY <1>2, <2>4, <3>1
    <3>2. CASE j # slotStart
      <4>1. j \in 0 .. slotStart - 1 /\ j \in 0 .. SHADOW_WINDOW - 1
        BY <1>1, <1>4, <3>2, WindowFacts
      <4>2. QED
        BY <1>2, <2>5, <3>2, <4>1 DEF Numbered
    <3>3. QED
      BY <3>1, <3>2
  <2>7. Numbered(b, m, k)'
    BY <1>1, <1>4, <2>6 DEF Numbered
  <2>8. QED
    BY <1>1, <1>2, <1>4, <2>3, <2>7
<1>5. QED
  BY <1>3, <1>4 DEF Fills

\* Handing on a buffer keeps the order.
LEMMA HandOrder ==
  ASSUME BaseInv, PlaceInv, OrderInv, NEW b \in Buffers, NEW m, Hand(b, m)
  PROVE  OrderInv'
<1> DEFINE L == Len(workQueue)
<1>1. PICK f \in Counts(workQueue) : OrderBy(f)
  BY DEF OrderInv
<1>2. workQueue \in Seq(Batch \cup {Kill}) /\ L \in Nat /\ job \in Batch \cup {NoJob}
      /\ produced \in Nat
  BY DEF BaseInv, TypeOK, Stamps
<1>0. PICK k : k = f[L + 1]
  OBVIOUS
<1>3. k \in Int /\ MainOrder(k) /\ f \in [1 .. L + 1 -> Int]
      /\ \A i \in 1 .. L + 1 : f[i] <= produced
  BY <1>1, <1>2, <1>0 DEF Counts, OrderBy
<1>4. /\ Takes(b) /\ Fills(b, m) /\ Gives(b, m) /\ cur' = b /\ m \in 0 .. SHADOW_WINDOW
      /\ UNCHANGED <<build, alive, spinning, last>> /\ Window' = Window
  BY DEF Hand, Window
<1>5. /\ produced' = k + m /\ produced <= produced'
      /\ Numbered(b, m, k)'
      /\ \A c \in Buffers : c # b => buf'[c] = buf[c]
  BY <1>3, <1>4, FillsOrder
<1>6. \A c \in Buffers : \A n, l : c # b /\ Numbered(c, n, l) => Numbered(c, n, l)'
  BY <1>4, <1>5 DEF Numbered
<1>7. ~QueuedIn(workQueue, b) /\ ~JobHas(b)
  BY <1>4, TakesFacts
<1>8. ASSUME NEW i \in 1 .. L, NEW p, NEW l, BatchOrder(workQueue[i], p, l),
             NEW x, x = workQueue[i]
      PROVE  BatchOrder(x, p, l)'
  <2>1. x = Kill \/ (x \in Batch /\ x # Kill /\ x.shadowEntries \in Buffers)
    BY <1>2, <1>8, BatchFacts
  <2>2. x # Kill => x.shadowEntries # b
    BY <1>7, <1>8 DEF QueuedIn
  <2>3. QED
    BY <1>6, <1>8, <2>1, <2>2 DEF BatchOrder
<1>9. ASSUME NEW l, JobOrder(l), job' = job, idx' = idx
      PROVE  JobOrder(l)'
  <2>1. job # NoJob => job.shadowEntries \in Buffers /\ job.shadowEntries # b
    BY <1>2, <1>7, BatchFacts DEF JobHas
  <2>2. ToCome' = ToCome
    BY <1>4, <1>9 DEF ToCome
  <2>3. job # NoJob /\ Numbered(job.shadowEntries, job.numEntries, l - job.numEntries)
          => Numbered(job.shadowEntries, job.numEntries, l - job.numEntries)'
    <3>1. PICK c, n : c = job.shadowEntries /\ n = job.numEntries
      OBVIOUS
    <3>2. job # NoJob /\ Numbered(c, n, l - n) => Numbered(c, n, l - n)'
      BY <1>6, <2>1, <3>1
    <3>3. QED
      BY <1>9, <3>1, <3>2
  <2>4. QED
    BY <1>4, <1>9, <2>2, <2>3 DEF JobOrder
<1>10. \A j \in 1 .. L + 1 : f[j] <= produced'
  BY <1>2, <1>3, <1>5
<1>11. CASE mainPc' \in Holding /\ slotStart' = m /\ UNCHANGED <<workQueue, job, idx>>
  <2>1. MainOrder(k)'
    BY <1>4, <1>5, <1>11 DEF MainOrder
  <2>2. JobOrder(f[1])'
    BY <1>1, <1>9, <1>11 DEF OrderBy
  <2>3. \A i \in 1 .. L : BatchOrder(workQueue[i], f[i], f[i + 1])'
    BY <1>1, <1>8, <1>11 DEF OrderBy
  <2>4. OrderBy(f)'
    BY <1>0, <1>10, <1>11, <2>1, <2>2, <2>3 DEF OrderBy
  <2>5. QED
    BY <1>11, <2>4 DEF OrderInv, Counts
<1>12. CASE /\ mainPc' \notin Holding
            /\ workQueue' \in {Append(workQueue, NewBatch(b, m)),
                               Append(Append(workQueue, NewBatch(b, m)), Kill)}
            /\ UNCHANGED <<job, idx>>
  <2>1. PICK x : x = NewBatch(b, m)
    OBVIOUS
  <2>2. x \in Batch /\ x # Kill /\ x.shadowEntries = b /\ x.numEntries = m
    BY <1>4, <2>1, BatchFacts
  <2>3. BatchOrder(x, k, k + m)'
    BY <1>5, <2>2 DEF BatchOrder
  <2>4. /\ Len(workQueue') \in {L + 1, L + 2}
        /\ \A i \in 1 .. L : workQueue'[i] = workQueue[i]
        /\ workQueue'[L + 1] = x
        /\ Len(workQueue') = L + 2 => workQueue'[L + 2] = Kill
    BY <1>2, <1>12, <2>1, <2>2
  <2>5. PICK g : g = [j \in 1 .. Len(workQueue') + 1 |-> IF j <= L + 1 THEN f[j] ELSE k + m]
    OBVIOUS
  <2>6. /\ g \in [1 .. Len(workQueue') + 1 -> Int]
        /\ \A j \in 1 .. L + 1 : g[j] = f[j]
        /\ \A j \in L + 2 .. Len(workQueue') + 1 : g[j] = k + m
    BY <1>2, <1>3, <1>4, <2>4, <2>5
  <2>7. MainOrder(g[Len(workQueue) + 1])'
    <3>1. g[Len(workQueue') + 1] = k + m
      BY <1>2, <2>4, <2>6
    <3>2. QED
      BY <1>5, <1>12, <3>1 DEF MainOrder
  <2>8. JobOrder(g[1])'
    <3>1. PICK l : l = f[1]
      OBVIOUS
    <3>2. g[1] = l
      BY <1>2, <2>6, <3>1
    <3>3. JobOrder(l)'
      BY <1>1, <1>9, <1>12, <3>1 DEF OrderBy
    <3>4. QED
      BY <3>2, <3>3
  <2>9. ASSUME NEW i \in 1 .. Len(workQueue')
        PROVE  BatchOrder(workQueue[i], g[i], g[i + 1])'
    <3>1. PICK y, p, l : y = workQueue'[i] /\ p = g[i] /\ l = g[i + 1]
      OBVIOUS
    <3>2. CASE i \in 1 .. L
      <4>1. y = workQueue[i] /\ p = f[i] /\ l = f[i + 1]
        BY <1>2, <2>4, <2>6, <3>1, <3>2
      <4>2. BatchOrder(y, p, l)'
        BY <1>1, <1>8, <3>2, <4>1 DEF OrderBy
      <4>3. QED
        BY <3>1, <4>2
    <3>3. CASE i = L + 1
      <4>1. y = x /\ p = k /\ l = k + m
        BY <1>2, <1>0, <2>4, <2>6, <3>1, <3>3
      <4>2. QED
        BY <2>3, <3>1, <4>1
    <3>4. CASE i = L + 2
      <4>1. y = Kill /\ p = k + m /\ l = k + m
        BY <1>2, <2>4, <2>6, <2>9, <3>1, <3>4
      <4>2. BatchOrder(y, p, l)'
        BY <4>1 DEF BatchOrder
      <4>3. QED
        BY <3>1, <4>2
    <3>5. QED
      BY <1>2, <2>4, <2>9, <3>2, <3>3, <3>4
  <2>10. \A i \in 1 .. Len(workQueue') + 1 : g[i] <= produced'
    <3> SUFFICES ASSUME NEW i \in 1 .. Len(workQueue') + 1  PROVE g[i] <= produced'
      OBVIOUS
    <3>1. CASE i \in 1 .. L + 1
      BY <1>10, <2>6, <3>1
    <3>2. CASE i \notin 1 .. L + 1
      <4>1. i \in L + 2 .. Len(workQueue') + 1
        BY <1>2, <2>4, <3>2
      <4>2. g[i] = produced'
        BY <1>5, <2>6, <4>1
      <4>3. QED
        BY <1>3, <1>4, <1>5, <4>2
    <3>3. QED
      BY <3>1, <3>2
  <2>11. OrderBy(g)'
    BY <2>7, <2>8, <2>9, <2>10 DEF OrderBy
  <2>12. QED
    BY <2>6, <2>11 DEF OrderInv, Counts
<1>13. CASE /\ mainPc' \notin Holding
            /\ job = NoJob /\ job' = NewBatch(b, m) /\ idx' = 0
            /\ workQueue = <<>> /\ UNCHANGED workQueue
  <2>1. L = 0 /\ Len(workQueue') = 0
    BY <1>13
  <2>2. last = k
    BY <1>1, <1>0, <1>13, <2>1 DEF OrderBy, JobOrder
  <2>3. job' # NoJob /\ job'.shadowEntries = b /\ job'.numEntries = m /\ ~spinning'
    BY <1>4, <1>13, BatchFacts DEF BaseInv, ControlInv
  <2>4. ToCome' = m
    BY <1>4, <1>13, <2>3 DEF ToCome
  <2>5. PICK g : g = [j \in 1 .. 1 |-> k + m]
    OBVIOUS
  <2>6. g \in [1 .. 1 -> Int] /\ g[1] = k + m
    BY <1>3, <1>4, <2>5
  <2>7. JobOrder(g[1])'
    <3>1. (k + m) - m = k
      BY <1>3, <1>4
    <3>2. last' + ToCome' = k + m
      BY <1>4, <2>2, <2>4
    <3>3. JobOrder(k + m)'
      BY <1>5, <2>3, <3>1, <3>2 DEF JobOrder
    <3>4. QED
      BY <2>6, <3>3
  <2>8. OrderBy(g)'
    BY <1>3, <1>4, <1>5, <1>13, <2>1, <2>6, <2>7 DEF OrderBy, MainOrder
  <2>9. QED
    BY <2>1, <2>6, <2>8 DEF OrderInv, Counts
<1>14. QED
  BY <1>4, <1>11, <1>12, <1>13 DEF Gives

\* Steps that change neither the queue nor the executed batch.
LEMMA FrameOrder ==
  ASSUME OrderInv,
         UNCHANGED <<build, cur, slotStart, produced, buf, workQueue, job, idx, spinning, last>>,
         mainPc' \in Holding <=> mainPc \in Holding
  PROVE  OrderInv'
<1>1. \A b, m, k : Numbered(b, m, k)' <=> Numbered(b, m, k)
  BY DEF Numbered, Window
<1>2. \A k : (JobOrder(k)' <=> JobOrder(k)) /\ (MainOrder(k)' <=> MainOrder(k))
  BY <1>1 DEF JobOrder, ToCome, MainOrder, Numbered, Window
<1>3. \A x, k, l : BatchOrder(x, k, l)' <=> BatchOrder(x, k, l)
  BY <1>1 DEF BatchOrder
<1>4. \A f : OrderBy(f)' <=> OrderBy(f)
  BY <1>2, <1>3 DEF OrderBy
<1>5. QED
  BY <1>4 DEF OrderInv, Counts

\* Taking a batch from the queue keeps the order.
LEMMA TryPopOrder ==
  ASSUME BaseInv, OrderInv, TryPop
  PROVE  OrderInv'
<1>1. PICK f \in Counts(workQueue) : OrderBy(f)
  BY DEF OrderInv
<1>2. /\ job = NoJob /\ ~spinning /\ workQueue # <<>> /\ workQueue' = Tail(workQueue)
      /\ UNCHANGED <<build, mainPc, cur, slotStart, produced, buf, spinning, last>>
  BY DEF TryPop, mainVars, history, BaseInv, ControlInv
<1>3. PICK n, q : n = Len(workQueue) /\ q = workQueue'
  OBVIOUS
<1>4. PICK h : h = Head(workQueue)
  OBVIOUS
<1>5. /\ n \in Nat /\ n >= 1 /\ Len(q) = n - 1 /\ h = workQueue[1]
      /\ h \in Batch \cup {Kill}
      /\ \A i \in 1 .. Len(q) : q[i] = workQueue[i + 1]
  BY <1>2, <1>3, <1>4 DEF BaseInv, TypeOK
<1>6. f \in [1 .. n + 1 -> Int] /\ JobOrder(f[1]) /\ BatchOrder(h, f[1], f[2])
      /\ MainOrder(f[n + 1]) /\ \A i \in 1 .. n + 1 : f[i] <= produced
  BY <1>1, <1>3, <1>5 DEF OrderBy, Counts
<1>7. \A b, m, k : Numbered(b, m, k)' <=> Numbered(b, m, k)
  BY <1>2 DEF Numbered, Window
<1>8. PICK g : g = [i \in 1 .. n |-> f[i + 1]]
  OBVIOUS
<1>9. g \in [1 .. n -> Int] /\ \A i \in 1 .. n : g[i] = f[i + 1]
  BY <1>5, <1>6, <1>8
<1>10. PICK k, l : k = f[1] /\ l = f[2]
  OBVIOUS
<1>11. k \in Int /\ last = k /\ g[1] = l
  BY <1>2, <1>5, <1>6, <1>9, <1>10 DEF JobOrder
<1>12. JobOrder(l)'
  <2>1. CASE h = Kill
    <3>1. job' = NoJob
      BY <1>2, <1>4, <2>1 DEF TryPop
    <3>2. l = k
      BY <1>6, <1>10, <2>1 DEF BatchOrder
    <3>3. QED
      BY <1>2, <1>11, <3>1, <3>2 DEF JobOrder
  <2>2. CASE h # Kill
    <3>1. job' = h /\ idx' = 0 /\ h # NoJob /\ h.numEntries \in Nat
      <4>1. h \in Batch /\ h # NoJob /\ h.numEntries \in 0 .. SHADOW_WINDOW
        BY <1>5, <2>2, BatchFacts
      <4>2. job' = h /\ idx' = 0
        BY <1>4, <2>2 DEF TryPop
      <4>3. QED
        BY <4>1, <4>2
    <3>2. l = k + h.numEntries /\ Numbered(h.shadowEntries, h.numEntries, k)
      BY <1>6, <1>10, <2>2 DEF BatchOrder
    <3>3. ToCome' = h.numEntries
      BY <1>2, <3>1 DEF ToCome
    <3>4. l - h.numEntries = k
      BY <1>11, <3>1, <3>2
    <3>5. Numbered(h.shadowEntries, h.numEntries, l - h.numEntries)'
      BY <1>7, <3>2, <3>4
    <3>6. QED
      BY <1>2, <1>11, <3>1, <3>2, <3>3, <3>5 DEF JobOrder
  <2>3. QED
    BY <2>1, <2>2
<1>13. ASSUME NEW i \in 1 .. Len(q)
       PROVE  BatchOrder(q[i], g[i], g[i + 1])'
  <2>1. i + 1 \in 1 .. n /\ q[i] = workQueue[i + 1] /\ g[i] = f[i + 1] /\ g[i + 1] = f[i + 1 + 1]
    BY <1>5, <1>9
  <2>2. BatchOrder(q[i], g[i], g[i + 1])
    BY <1>1, <1>3, <2>1 DEF OrderBy
  <2>3. QED
    BY <1>7, <2>2 DEF BatchOrder
<1>14. MainOrder(g[Len(q) + 1])'
  <2>1. g[Len(q) + 1] = f[n + 1]
    BY <1>5, <1>9
  <2>2. MainOrder(f[n + 1])'
    BY <1>2, <1>6, <1>7 DEF MainOrder
  <2>3. QED
    BY <2>1, <2>2
<1>15. \A i \in 1 .. Len(q) + 1 : g[i] <= produced'
  BY <1>2, <1>5, <1>6, <1>9
<1>16. OrderBy(g)'
  BY <1>3, <1>11, <1>12, <1>13, <1>14, <1>15 DEF OrderBy
<1>17. g \in Counts(workQueue)'
  BY <1>3, <1>5, <1>9 DEF Counts
<1>18. QED
  BY <1>16, <1>17 DEF OrderInv

\* Executing the batch: the numbers in the order, and no other.
LEMMA ExecuteOrder ==
  ASSUME BaseInv, OrderInv, ProcessEntry \/ SpinEnds
  PROVE  /\ OrderInv'
         /\ last' = last \/ (last' = last + 1 /\ last < produced)
<1>1. PICK f \in Counts(workQueue) : OrderBy(f)
  BY DEF OrderInv
<1>2. /\ job # NoJob /\ idx <= job.numEntries
      /\ UNCHANGED <<build, mainPc, cur, slotStart, produced, buf, workQueue, job>>
  BY DEF ProcessEntry, SpinEnds, mainVars, BaseInv, ControlInv
<1>3. PICK b, m : b = job.shadowEntries /\ m = job.numEntries
  OBVIOUS
<1>4. /\ b \in Buffers /\ m \in 0 .. SHADOW_WINDOW /\ idx \in Nat /\ produced \in Nat
      /\ last \in Nat
  BY <1>2, <1>3, BatchFacts DEF BaseInv, TypeOK, Stamps
<1>5. PICK k : k = f[1]
  OBVIOUS
<1>6. /\ k \in Int /\ k <= produced /\ last + ToCome = k /\ Numbered(b, m, k - m)
  <2>1. Len(workQueue) \in Nat /\ 1 \in 1 .. Len(workQueue) + 1
    BY DEF BaseInv, TypeOK
  <2>2. QED
    BY <1>1, <1>2, <1>3, <1>5, <2>1 DEF OrderBy, JobOrder, Counts
<1>7. \A c, n, l : Numbered(c, n, l)' <=> Numbered(c, n, l)
  BY <1>2 DEF Numbered, Window
<1>8. /\ last' + ToCome' = k
      /\ last' = last \/ (last' = last + 1 /\ last < produced)
  <2>1. CASE ProcessEntry
    <3>1. /\ ~spinning
          /\ last' = IF idx < m THEN Cell(b, idx).n ELSE last
          /\ \/ spinning' = TRUE /\ idx' = idx
             \/ spinning' = spinning /\ idx' = idx + 1
      BY <1>3, <2>1 DEF ProcessEntry
    <3>2. CASE idx < m
      <4>1. idx < Window /\ idx \in 0 .. m - 1
        BY <1>4, <1>6, <3>2, WindowFacts DEF Numbered
      <4>2. last' = (k - m) + idx + 1
        BY <1>6, <3>1, <3>2, <4>1 DEF Cell, Numbered
      <4>3. last = (k - m) + idx
        BY <1>3, <1>4, <1>6, <3>1, <3>2 DEF ToCome
      <4>4. ToCome' = m - idx - 1
        BY <1>2, <1>3, <1>4, <3>1, <3>2 DEF ToCome
      <4>5. QED
        BY <1>4, <1>6, <3>2, <4>2, <4>3, <4>4
    <3>3. CASE ~(idx < m)
      <4>1. ToCome = 0 /\ ToCome' = 0 /\ last' = last
        BY <1>2, <1>3, <1>4, <3>1, <3>3 DEF ToCome
      <4>2. QED
        BY <1>6, <4>1
    <3>4. QED
      BY <3>2, <3>3
  <2>2. CASE SpinEnds
    <3>1. spinning /\ ~spinning' /\ idx' = idx + 1 /\ last' = last
      BY <2>2 DEF SpinEnds, history
    <3>2. ToCome' = ToCome
      BY <1>2, <1>3, <1>4, <3>1 DEF ToCome
    <3>3. QED
      BY <1>6, <3>1, <3>2
  <2>3. QED
    BY <2>1, <2>2
<1>9. JobOrder(k)'
  BY <1>2, <1>3, <1>6, <1>7, <1>8 DEF JobOrder
<1>10. \A l : MainOrder(l)' <=> MainOrder(l)
  BY <1>2, <1>7 DEF MainOrder, Numbered, Window
<1>11. \A x, p, l : BatchOrder(x, p, l)' <=> BatchOrder(x, p, l)
  BY <1>7 DEF BatchOrder
<1>12. OrderBy(f)'
  BY <1>1, <1>2, <1>5, <1>9, <1>10, <1>11 DEF OrderBy
<1>13. QED
  BY <1>2, <1>8, <1>12 DEF OrderInv, Counts

\* Handing back the buffer: all its entries have been executed.
LEMMA RetireOrder ==
  ASSUME BaseInv, OrderInv, Retire
  PROVE  OrderInv'
<1>1. PICK f \in Counts(workQueue) : OrderBy(f)
  BY DEF OrderInv
<1>2. /\ job # NoJob /\ job' = NoJob /\ idx > job.numEntries
      /\ UNCHANGED <<build, cur, slotStart, produced, buf, workQueue, last>>
      /\ mainPc' \in Holding <=> mainPc \in Holding
  BY DEF Retire, history, Holding
<1>3. job.numEntries \in Nat /\ idx \in Nat /\ last \in Nat
  BY <1>2, BatchFacts DEF BaseInv, TypeOK, Stamps
<1>4. PICK k : k = f[1]
  OBVIOUS
<1>5. last = k
  BY <1>1, <1>2, <1>3, <1>4 DEF OrderBy, JobOrder, ToCome
<1>6. JobOrder(k)'
  BY <1>2, <1>5 DEF JobOrder
<1>7. \A c, n, l : Numbered(c, n, l)' <=> Numbered(c, n, l)
  BY <1>2 DEF Numbered, Window
<1>8. \A l : MainOrder(l)' <=> MainOrder(l)
  BY <1>2, <1>7 DEF MainOrder, Numbered, Window
<1>9. \A x, p, l : BatchOrder(x, p, l)' <=> BatchOrder(x, p, l)
  BY <1>7 DEF BatchOrder
<1>10. OrderBy(f)'
  BY <1>1, <1>2, <1>4, <1>6, <1>8, <1>9 DEF OrderBy
<1>11. QED
  BY <1>2, <1>10 DEF OrderInv, Counts

\* At the start nothing has been shipped.
LEMMA InitOrder == Init => OrderInv
<1> SUFFICES ASSUME Init  PROVE OrderInv
  OBVIOUS
<1>1. /\ workQueue = <<>> /\ Len(workQueue) = 0 /\ job = NoJob /\ last = 0 /\ produced = 0
      /\ slotStart = 0
  BY DEF Init
<1>2. PICK f : f = [i \in 1 .. 1 |-> 0]
  OBVIOUS
<1>3. f \in [1 .. 1 -> Int] /\ f[1] = 0
  BY <1>2
<1>4. MainOrder(0) /\ JobOrder(0)
  BY <1>1, WindowFacts DEF MainOrder, JobOrder, Numbered
<1>5. OrderBy(f)
  BY <1>1, <1>3, <1>4 DEF OrderBy
<1>6. QED
  BY <1>1, <1>3, <1>5 DEF OrderInv, Counts

\* Every step keeps the order.
LEMMA NextOrder == BaseInv /\ PlaceInv /\ OrderInv /\ [Next]_vars => OrderInv'
<1> SUFFICES ASSUME BaseInv, PlaceInv, OrderInv, [Next]_vars  PROVE OrderInv'
  OBVIOUS
<1>1. CASE Program \/ Handshake \/ WaitPop \/ ReportStatistics
  BY <1>1, MainHands, HandOrder
<1>2. CASE Join \/ (\E v \in Garbage : ReuseStack(v)) \/ UNCHANGED vars
  <2>1. UNCHANGED <<build, cur, slotStart, produced, buf, workQueue, job, idx, spinning, last>>
    BY <1>2 DEF Join, ReuseStack, vars, mainVars, shadowVars, history
  <2>2. mainPc' \in Holding <=> mainPc \in Holding
    BY <1>2 DEF Join, ReuseStack, vars, mainVars, Holding
  <2>3. QED
    BY <2>1, <2>2, FrameOrder
<1>3. CASE TryPop
  BY <1>3, TryPopOrder
<1>4. CASE ProcessEntry \/ SpinEnds
  BY <1>4, ExecuteOrder
<1>5. CASE Retire
  BY <1>5, RetireOrder
<1>6. QED
  BY <1>1, <1>2, <1>3, <1>4, <1>5 DEF Next, MainSteps, ShadowSteps, Terminated

\* With no batch queued or being executed, and the last one given away, all
\* that was shipped has been executed.
LEMMA AllExecuted ==
  ASSUME BaseInv, OrderInv, workQueue = <<>>, mainPc \notin Holding,
         job # NoJob => ToCome = 0
  PROVE  last = produced
<1>1. PICK f \in Counts(workQueue) : OrderBy(f)
  BY DEF OrderInv
<1>2. Len(workQueue) = 0 /\ last \in Nat
  BY DEF BaseInv, TypeOK, Stamps
<1>3. produced = f[1]
  BY <1>1, <1>2 DEF OrderBy, MainOrder
<1>4. last = f[1]
  BY <1>1, <1>2 DEF OrderBy, JobOrder
<1>5. QED
  BY <1>3, <1>4

\* A step of the batches is a step of the stream, or none.
LEMMA NextStream ==
  ASSUME BaseInv, PlaceInv, OrderInv, [Next]_vars
  PROVE  [Stream!Next]_(Stream!vars)
<1> DEFINE Quiet  == produced' = produced /\ last' = last
                       /\ (mainPc' = "done" <=> mainPc = "done")
           Sends  == produced' = produced + 1 /\ last' = last
                       /\ mainPc # "done" /\ mainPc' # "done"
           Does   == produced' = produced /\ last' = last + 1 /\ last < produced
                       /\ (mainPc' = "done" <=> mainPc = "done")
           Closes == produced' = produced /\ last' = last /\ last = produced
                       /\ mainPc # "done" /\ mainPc' = "done"
<1>1. Quiet \/ Sends \/ Does \/ Closes => [Stream!Next]_(Stream!vars)
  <2>1. Quiet => UNCHANGED Stream!vars
    BY DEF Stream!vars
  <2>2. Sends => Stream!Send
    BY DEF Stream!Send
  <2>3. Does => Stream!Handle
    BY DEF Stream!Handle
  <2>4. Closes => Stream!Close
    BY DEF Stream!Close
  <2> HIDE DEF Quiet, Sends, Does, Closes
  <2>5. QED
    BY <2>1, <2>2, <2>3, <2>4 DEF Stream!Next
<1>2. CASE Program \/ Handshake \/ WaitPop \/ ReportStatistics
  <2>0. PICK b \in Buffers : \E m : Hand(b, m)
    BY <1>2, MainHands
  <2>1. PICK m : Hand(b, m)
    BY <2>0
  <2>2. mainPc # "done" /\ mainPc' # "done" /\ last' = last
    BY <2>1 DEF Hand, Takes, MainHas, Holding
  <2>3. produced' = produced \/ produced' = produced + 1
    BY <2>1 DEF Hand, Fills
  <2>4. QED
    BY <1>1, <2>2, <2>3
<1>3. CASE (\E v \in Garbage : ReuseStack(v)) \/ UNCHANGED vars \/ TryPop
  <2>1. Quiet
    BY <1>3 DEF ReuseStack, TryPop, vars, mainVars, history
  <2>2. QED
    BY <1>1, <2>1
<1>4. CASE Join
  <2>1. mainPc = "join" /\ mainPc' = "done" /\ ~alive /\ produced' = produced /\ last' = last
    BY <1>4 DEF Join, history
  <2>2. workQueue = <<>> /\ job = NoJob
    BY <2>1 DEF BaseInv, ControlInv
  <2>3. last = produced
    BY <2>1, <2>2, AllExecuted DEF Holding
  <2>4. QED
    BY <1>1, <2>1, <2>3
<1>5. CASE ProcessEntry \/ SpinEnds
  <2>1. produced' = produced /\ mainPc' = mainPc
    BY <1>5 DEF ProcessEntry, SpinEnds, mainVars
  <2>2. QED
    BY <1>1, <1>5, <2>1, ExecuteOrder
<1>6. CASE Retire
  <2>1. produced' = produced /\ last' = last
    BY <1>6 DEF Retire, history
  <2>2. CASE mainPc = "serialLast"
    <3>1. mainPc' = "done" /\ job # NoJob /\ idx > job.numEntries
      BY <1>6, <2>2 DEF Retire
    <3>2. workQueue = <<>>
      BY <2>2 DEF BaseInv, ControlInv
    <3>3. ToCome = 0
      <4>1. job.numEntries \in Nat /\ idx \in Nat
        BY <3>1, BatchFacts DEF BaseInv, TypeOK
      <4>2. QED
        BY <3>1, <4>1 DEF ToCome
    <3>4. last = produced
      BY <2>2, <3>2, <3>3, AllExecuted DEF Holding
    <3>5. QED
      BY <1>1, <2>1, <2>2, <3>1, <3>4
  <2>3. CASE mainPc # "serialLast"
    <3>1. mainPc' = "done" <=> mainPc = "done"
      BY <1>6, <2>3 DEF Retire
    <3>2. QED
      BY <1>1, <2>1, <3>1
  <2>4. QED
    BY <2>2, <2>3
<1>7. QED
  BY <1>2, <1>3, <1>4, <1>5, <1>6 DEF Next, MainSteps, ShadowSteps, Terminated

\* The batches implement the stream, for any number and length of buffers and
\* any builds: entries are executed in the order in which they were shipped,
\* none is left out, and all of them are executed before the report.
THEOREM BatchesAreStream == Spec => InOrder
<1>1. Init => Stream!Init
  BY DEF Init, Stream!Init
<1>2. BaseInv /\ PlaceInv /\ OrderInv /\ [Next]_vars => [Stream!Next]_(Stream!vars)
  BY NextStream
<1>3. QED
  BY <1>1, <1>2, InitBase, NextBase, InitPlaces, NextPlaces, InitOrder, NextOrder, PTL
     DEF Spec, InOrder, Stream!Spec

-----------------------------------------------------------------------------
(***************************************************************************)
(* The wait for the answer to a cycle search.  The program sends one       *)
(* request, the last entry of its batch and of the last batch, and waits   *)
(* for sync; the executing thread spins on the request until the program   *)
(* answers.                                                                *)
(***************************************************************************)
Slots == 0 .. SHADOW_WINDOW - 1

Request(b, i) == buf[b][i].op = "DETECT_CYCLE"

\* The program is past the point where the request is sent.
Requested ==
    \/ todo = "HANDSHAKE"
    \/ mainPc \in {"handshake", "report", "serialLast", "join", "done"}

TodoInv ==
    /\ mainPc \notin {"waitPop", "serial"} => todo = "NONE"
    /\ frameLive <=> todo \in {"DETECT_CYCLE", "HANDSHAKE"} \/ mainPc = "handshake"

OneRequest ==
    /\ \A b \in Buffers, i \in Slots :
          Request(b, i) => Requested /\ ~MainHas(b) /\ i < Window
    /\ \A b, c \in Buffers, i, j \in Slots :
          Request(b, i) /\ Request(c, j) => b = c /\ i = j

\* The batch of a request ends with it.
EndsBatch ==
    \A b \in Buffers, i \in Slots : Request(b, i) =>
        /\ \A k \in 1 .. Len(workQueue) :
              workQueue[k] # Kill /\ workQueue[k].shadowEntries = b
                 => workQueue[k].numEntries = i + 1
        /\ JobHas(b) => job.numEntries = i + 1

\* The request is still to be executed, or being executed and not answered.
Unanswered(b, i) ==
    \/ workQueue # <<>> /\ workQueue[Len(workQueue)] = NewBatch(b, i + 1)
    \/ /\ workQueue = <<>> /\ job = NewBatch(b, i + 1)
       /\ idx <= i /\ (spinning => sync # 0)

RequestInv ==
    frameLive /\ Requested =>
        \E b \in Buffers : \E i \in Slots : Request(b, i) /\ Unanswered(b, i)

SpinInv == spinning => idx < Window /\ Request(job.shadowEntries, idx)

CycleInv == TodoInv /\ OneRequest /\ EndsBatch /\ RequestInv /\ SpinInv

\* Before the request there is none in the buffers, and nobody spins.
LEMMA NothingRequested ==
  ASSUME BaseInv, CycleInv, ~Requested
  PROVE  (\A b \in Buffers, i \in Slots : ~Request(b, i)) /\ ~spinning
<1>1. \A b \in Buffers, i \in Slots : ~Request(b, i)
  BY DEF CycleInv, OneRequest
<1>2. ~spinning
  <2> SUFFICES ASSUME spinning  PROVE FALSE
    OBVIOUS
  <2>1. job # NoJob /\ idx < Window /\ Request(job.shadowEntries, idx)
    BY DEF BaseInv, ControlInv, CycleInv, SpinInv
  <2>2. job.shadowEntries \in Buffers /\ idx \in Slots
    BY <2>1, BatchFacts, WindowFacts DEF BaseInv, TypeOK, Slots
  <2>3. QED
    BY <1>1, <2>1, <2>2
<1>3. QED
  BY <1>1, <1>2

\* A step after which there is no request and none is waited for.
LEMMA QuietCycle ==
  ASSUME \A b \in Buffers, i \in Slots : ~Request(b, i)', ~spinning', TodoInv',
         ~(frameLive' /\ Requested')
  PROVE  CycleInv'
BY DEF CycleInv, OneRequest, EndsBatch, RequestInv, SpinInv

\* A slot that is filled in holds what was put there, and the others what they
\* held.
LEMMA PutSlots ==
  ASSUME BaseInv, NEW b \in Buffers, slotStart < Window, NEW op, Put(b, slotStart, op),
         NEW s, s = slotStart
  PROVE  /\ s \in Slots
         /\ Request(b, s)' <=> op = "DETECT_CYCLE"
         /\ \A c \in Buffers, i \in Slots :
               c # b \/ i # s => (Request(c, i)' <=> Request(c, i))
<1>1. s \in Slots
  BY WindowFacts DEF BaseInv, TypeOK, Slots
<1>2. buf \in [Buffers -> [Slots -> Entry]]
  BY DEF BaseInv, TypeOK, Slots
<1>3. buf' = [buf EXCEPT ![b][s] = [op |-> op, n |-> produced + 1]]
  BY DEF Put
<1>4. buf'[b][s] = [op |-> op, n |-> produced + 1]
  BY <1>1, <1>2, <1>3
<1>5. \A c \in Buffers, i \in Slots : c # b \/ i # s => buf'[c][i] = buf[c][i]
  BY <1>1, <1>2, <1>3
<1>6. Request(b, s)' <=> op = "DETECT_CYCLE"
  BY <1>4 DEF Request
<1>7. QED
  BY <1>1, <1>5, <1>6 DEF Request

\* The request is put into a buffer and its batch is given away.
LEMMA AskCycle ==
  ASSUME BaseInv, NEW b \in Buffers, ~QueuedIn(workQueue, b), ~JobHas(b),
         mainPc \in {"run", "waitPop"}, slotStart < Window,
         Put(b, slotStart, "DETECT_CYCLE"),
         \A c \in Buffers, i \in Slots : ~Request(c, i), ~spinning,
         UNCHANGED <<build, spinning>>, frameLive'
  PROVE  CycleInv'
<1>1. slotStart \in Slots /\ slotStart \in Nat /\ slotStart + 1 \in 0 .. SHADOW_WINDOW
  BY PutSlots, WindowFacts DEF Slots
<1>2. \A c \in Buffers, i \in Slots : Request(c, i)' <=> c = b /\ i = slotStart
  BY PutSlots
<1>3. PICK s, x : s = slotStart /\ x = NewBatch(b, s + 1)
  OBVIOUS
<1>4. x \in Batch /\ x # Kill /\ x # NoJob /\ x.shadowEntries = b /\ x.numEntries = s + 1
  BY <1>1, <1>3, BatchFacts
<1>5. BatchFull(b, s + 1, "HANDSHAKE")
  BY <1>3 DEF Put
<1>6. todo' = "HANDSHAKE" /\ mainPc' \in {"waitPop", "serial"}
  BY <1>5 DEF BatchFull
<1>7. TodoInv' /\ Requested'
  BY <1>6 DEF TodoInv, Requested
<1>8. \A c : ~MainHas(c)'
  BY <1>6 DEF MainHas, Holding
<1>9. Window' = Window
  BY DEF Window
<1>10. OneRequest'
  BY <1>2, <1>3, <1>7, <1>8, <1>9 DEF OneRequest
<1>11. CASE build.disableOptimizations
  <2>1. job' = x /\ idx' = 0 /\ workQueue' = workQueue /\ workQueue = <<>> /\ Len(workQueue) = 0
    BY <1>3, <1>5, <1>11 DEF BatchFull, BaseInv, ControlInv
  <2>2. EndsBatch'
    BY <1>2, <1>3, <1>4, <2>1 DEF EndsBatch
  <2>3. Unanswered(b, s)'
    BY <1>1, <1>3, <2>1 DEF Unanswered
  <2>4. QED
    BY <1>1, <1>2, <1>3, <1>7, <1>10, <2>2, <2>3 DEF CycleInv, RequestInv, SpinInv
<1>12. CASE ~build.disableOptimizations
  <2>1. workQueue' = Append(workQueue, x) /\ job' = job
    BY <1>3, <1>5, <1>12 DEF BatchFull
  <2>2. PICK n : n = Len(workQueue)
    OBVIOUS
  <2>3. /\ n \in Nat /\ Len(workQueue') = n + 1 /\ workQueue'[n + 1] = x /\ workQueue' # <<>>
        /\ \A k \in 1 .. n : workQueue'[k] = workQueue[k]
    BY <1>4, <2>1, <2>2 DEF BaseInv, TypeOK
  <2>4. ASSUME NEW k \in 1 .. n + 1, workQueue'[k] # Kill, workQueue'[k].shadowEntries = b
        PROVE  workQueue'[k].numEntries = s + 1
    <3>1. k = n + 1 \/ k \in 1 .. n
      BY <2>3
    <3>2. CASE k = n + 1
      BY <1>4, <2>3, <3>2
    <3>3. CASE k \in 1 .. n
      BY <2>2, <2>3, <2>4, <3>3 DEF QueuedIn
    <3>4. QED
      BY <3>1, <3>2, <3>3
  <2>5. ~JobHas(b)'
    BY <2>1 DEF JobHas
  <2>6. EndsBatch'
    BY <1>2, <1>3, <2>3, <2>4, <2>5 DEF EndsBatch
  <2>7. Unanswered(b, s)'
    BY <1>3, <2>3 DEF Unanswered
  <2>8. QED
    BY <1>1, <1>2, <1>3, <1>7, <1>10, <2>6, <2>7 DEF CycleInv, RequestInv, SpinInv
<1>13. QED
  BY <1>11, <1>12

\* Another entry is put into a buffer before the request, or a full buffer is
\* given away.
LEMMA PlainCycle ==
  ASSUME BaseInv, CycleInv, ~Requested, NEW op \in Ops, NEW b \in Buffers,
         \/ slotStart < Window /\ op # "DETECT_CYCLE" /\ Put(b, slotStart, op) /\ ~frameLive'
         \/ /\ BatchFull(b, Window, op) /\ UNCHANGED buf
            /\ frameLive' <=> op = "DETECT_CYCLE",
         UNCHANGED spinning
  PROVE  CycleInv'
<1>1. (\A c \in Buffers, i \in Slots : ~Request(c, i)) /\ ~spinning
  BY NothingRequested
<1>2. CASE slotStart < Window /\ op # "DETECT_CYCLE" /\ Put(b, slotStart, op) /\ ~frameLive'
  <2>1. \A c \in Buffers, i \in Slots : ~Request(c, i)'
    BY <1>1, <1>2, PutSlots
  <2>2. /\ mainPc' \in {"run", "waitPop", "serial"} /\ todo' = "NONE"
    BY <1>2 DEF Put, BatchFull, Ops
  <2>3. TodoInv'
    BY <1>2, <2>2 DEF TodoInv
  <2>4. QED
    BY <1>1, <1>2, <2>1, <2>3, QuietCycle
<1>3. CASE /\ BatchFull(b, Window, op) /\ UNCHANGED buf
           /\ frameLive' <=> op = "DETECT_CYCLE"
  <2>1. \A c \in Buffers, i \in Slots : ~Request(c, i)'
    BY <1>1, <1>3 DEF Request
  <2>2. mainPc' \in {"waitPop", "serial"} /\ todo' = op /\ op # "HANDSHAKE"
    BY <1>3 DEF BatchFull, Ops
  <2>3. TodoInv' /\ ~Requested'
    BY <1>3, <2>2 DEF TodoInv, Requested, Ops
  <2>4. QED
    BY <1>1, <2>1, <2>3, QuietCycle
<1>4. QED
  BY <1>2, <1>3

\* The calls of the program.
LEMMA ProgramCycle ==
  ASSUME BaseInv, PlaceInv, CycleInv, Program
  PROVE  CycleInv'
<1>1. mainPc = "run"
  BY DEF Program, Ship, PrintJSON, GetFreeSlot
<1>2. ~Requested /\ ~frameLive /\ todo = "NONE" /\ MainHas(cur) /\ cur \in Buffers
  BY <1>1 DEF CycleInv, TodoInv, Requested, MainHas, Holding, BaseInv, TypeOK
<1>3. (\A c \in Buffers, i \in Slots : ~Request(c, i)) /\ ~spinning
  BY <1>2, NothingRequested
<1>4. ~QueuedIn(workQueue, cur) /\ ~JobHas(cur)
  BY <1>2 DEF PlaceInv, PlaceOf
<1>5. ASSUME NEW op \in Ops, Ship(op)  PROVE CycleInv'
  <2>1. op # "DETECT_CYCLE" /\ GetFreeSlot(op) /\ frameLive' = frameLive
    BY <1>5 DEF Ship
  <2>2. QED
    BY <1>2, <2>1, PlainCycle DEF GetFreeSlot
<1>6. CASE frameLive' = TRUE /\ GetFreeSlot("DETECT_CYCLE")
  <2>1. "DETECT_CYCLE" \in Ops /\ UNCHANGED <<build, spinning>>
    BY <1>6 DEF Ops, GetFreeSlot
  <2>2. CASE slotStart < Window /\ Put(cur, slotStart, "DETECT_CYCLE")
    BY <1>1, <1>2, <1>3, <1>4, <1>6, <2>1, <2>2, AskCycle
  <2>3. CASE BatchFull(cur, Window, "DETECT_CYCLE") /\ UNCHANGED <<buf, produced>>
    BY <1>2, <1>6, <2>1, <2>3, PlainCycle
  <2>4. QED
    BY <1>6, <2>2, <2>3 DEF GetFreeSlot
<1>7. CASE mainPc' = "report" /\ UNCHANGED <<todo, buf, shadowVars, frameLive>>
  <2>1. TodoInv'
    BY <1>2, <1>7 DEF TodoInv
  <2>2. QED
    BY <1>2, <1>3, <1>7, <2>1, QuietCycle DEF Request, shadowVars
<1>8. QED
  BY <1>5, <1>6, <1>7 DEF Program, PrintJSON

\* A step that leaves the buffers, the queue and the batch in execution alone,
\* and gives the program's thread no buffer with a request.
LEMMA FrameCycle ==
  ASSUME BaseInv, CycleInv, TodoInv', Requested => Requested',
         UNCHANGED <<build, buf, workQueue, job, idx, spinning>>,
         \A b \in Buffers, i \in Slots : Request(b, i) => ~MainHas(b)',
         frameLive' /\ Requested' => frameLive /\ Requested /\ sync' = sync
  PROVE  CycleInv'
<1>1. \A b, i : Request(b, i)' <=> Request(b, i)
  BY DEF Request
<1>2. Window' = Window
  BY DEF Window
<1>3. OneRequest'
  BY <1>1, <1>2 DEF CycleInv, OneRequest
<1>4. EndsBatch'
  BY <1>1 DEF CycleInv, EndsBatch, JobHas
<1>5. RequestInv'
  <2> SUFFICES ASSUME frameLive', Requested'
               PROVE  \E b \in Buffers : \E i \in Slots : Request(b, i)' /\ Unanswered(b, i)'
    BY DEF RequestInv
  <2>1. sync' = sync /\ \E b \in Buffers : \E i \in Slots : Request(b, i) /\ Unanswered(b, i)
    BY DEF CycleInv, RequestInv
  <2>2. \A b, i : Unanswered(b, i)' <=> Unanswered(b, i)
    BY <2>1 DEF Unanswered
  <2>3. QED
    BY <1>1, <2>1, <2>2
<1>6. SpinInv'
  BY <1>2 DEF CycleInv, SpinInv, Request
<1>7. QED
  BY <1>3, <1>4, <1>5, <1>6 DEF CycleInv

\* The end of a wait for a buffer.
LEMMA WaitPopCycle ==
  ASSUME BaseInv, PlaceInv, CycleInv, WaitPop
  PROVE  CycleInv'
<1>1. PICK b : b = Head(readyQueue)
  OBVIOUS
<1>2. /\ mainPc = "waitPop" /\ readyQueue # <<>> /\ cur' = b /\ slotStart = 0 /\ slotStart < Window
      /\ UNCHANGED <<build, spinning, frameLive, sync>> /\ readyQueue \in Seq(Buffers)
  BY <1>1, WindowFacts DEF WaitPop, BaseInv, ControlInv, TypeOK
<1>3. b \in Buffers /\ ReadyIn(readyQueue, b)
  <2>1. b = readyQueue[1] /\ 1 \in 1 .. Len(readyQueue)
    BY <1>1, <1>2
  <2>2. QED
    BY <1>2, <2>1 DEF ReadyIn
<1>4. ~QueuedIn(workQueue, b) /\ ~JobHas(b)
  BY <1>3 DEF PlaceInv, PlaceOf
<1>5. CASE todo \in Ops
  <2>1. Put(b, slotStart, todo)
    BY <1>1, <1>2, <1>5 DEF WaitPop
  <2>2. ~Requested /\ (frameLive <=> todo = "DETECT_CYCLE")
    BY <1>2, <1>5 DEF Requested, Ops, CycleInv, TodoInv
  <2>3. (\A c \in Buffers, i \in Slots : ~Request(c, i)) /\ ~spinning
    BY <2>2, NothingRequested
  <2>4. CASE todo = "DETECT_CYCLE"
    BY <1>2, <1>3, <1>4, <2>1, <2>2, <2>3, <2>4, AskCycle
  <2>5. CASE todo # "DETECT_CYCLE"
    <3>1. PICK op \in Ops : op = todo
      BY <1>5
    <3>2. slotStart < Window /\ op # "DETECT_CYCLE" /\ Put(b, slotStart, op) /\ ~frameLive'
      BY <1>2, <2>1, <2>2, <2>5, <3>1
    <3>3. QED
      BY <1>2, <1>3, <2>2, <3>2, PlainCycle
  <2>6. QED
    BY <2>4, <2>5
<1>6. CASE todo \notin Ops
  <2>1. /\ mainPc' = IF todo = "HANDSHAKE" THEN "handshake" ELSE "run"
        /\ todo' = "NONE" /\ UNCHANGED <<buf, workQueue, job, idx>>
    BY <1>6 DEF WaitPop
  <2>2. todo \in {"NONE", "HANDSHAKE"}
    BY <1>6 DEF BaseInv, TypeOK
  <2>3. frameLive <=> todo = "HANDSHAKE"
    BY <1>2, <2>2 DEF CycleInv, TodoInv
  <2>4. (Requested <=> todo = "HANDSHAKE") /\ (Requested' <=> todo = "HANDSHAKE")
    BY <1>2, <2>1 DEF Requested
  <2>5. TodoInv'
    BY <1>2, <2>1, <2>2, <2>3 DEF TodoInv
  <2>6. ASSUME NEW c \in Buffers, NEW i \in Slots, Request(c, i)
        PROVE  ~MainHas(c)'
    <3>1. Requested
      BY <2>6 DEF CycleInv, OneRequest
    <3>2. PICK d \in Buffers : \E j \in Slots : Request(d, j) /\ Unanswered(d, j)
      BY <2>3, <2>4, <3>1 DEF CycleInv, RequestInv
    <3>3. PICK j \in Slots : Request(d, j) /\ Unanswered(d, j)
      BY <3>2
    <3>4. c = d
      BY <2>6, <3>3 DEF CycleInv, OneRequest
    <3>5. NewBatch(d, j + 1) # Kill /\ NewBatch(d, j + 1) # NoJob
          /\ NewBatch(d, j + 1).shadowEntries = d
      <4>1. j + 1 \in 0 .. SHADOW_WINDOW
        BY WindowFacts DEF Slots
      <4>2. QED
        BY <4>1, BatchFacts
    <3>6. QueuedIn(workQueue, d) \/ JobHas(d)
      <4>1. CASE workQueue # <<>> /\ workQueue[Len(workQueue)] = NewBatch(d, j + 1)
        <5>1. Len(workQueue) \in 1 .. Len(workQueue)
          BY <4>1 DEF BaseInv, TypeOK
        <5>2. QED
          BY <3>5, <4>1, <5>1 DEF QueuedIn
      <4>2. CASE job = NewBatch(d, j + 1)
        BY <3>5, <4>2 DEF JobHas
      <4>3. QED
        BY <3>3, <4>1, <4>2 DEF Unanswered
    <3>7. c # b
      BY <1>4, <3>4, <3>6
    <3>8. QED
      BY <1>2, <3>7 DEF MainHas
  <2>7. QED
    BY <1>2, <2>1, <2>3, <2>4, <2>5, <2>6, FrameCycle
<1>7. QED
  BY <1>5, <1>6

\* The answer to the request, the end of the run, and what else leaves the
\* queue and the batch in execution alone.
LEMMA WaitsCycle ==
  ASSUME BaseInv, CycleInv,
         Handshake \/ Join \/ (\E v \in Garbage : ReuseStack(v)) \/ UNCHANGED vars
  PROVE  CycleInv'
<1>1. UNCHANGED <<build, buf, workQueue, job, idx, spinning, todo, cur>>
  BY DEF Handshake, Join, ReuseStack, vars, mainVars, shadowVars
<1>2. CASE UNCHANGED vars
  <2>1. UNCHANGED <<mainPc, frameLive, sync>>
    BY <1>2 DEF vars, mainVars
  <2>2. TodoInv' /\ (Requested' <=> Requested)
    BY <1>1, <2>1 DEF CycleInv, TodoInv, Requested
  <2>3. \A b \in Buffers, i \in Slots : Request(b, i) => ~MainHas(b)'
    BY <1>1, <2>1 DEF CycleInv, OneRequest, MainHas
  <2>4. QED
    BY <1>1, <2>1, <2>2, <2>3, FrameCycle
<1>3. CASE ~(UNCHANGED vars)
  <2>1. /\ mainPc \in {"handshake", "join", "report"} /\ mainPc' \in {"report", "done"}
        /\ mainPc' \in Holding => mainPc \in Holding
        /\ mainPc = "handshake" => frameLive' = FALSE
        /\ mainPc # "handshake" => frameLive' = frameLive
    BY <1>3 DEF Handshake, Join, ReuseStack, Holding, mainVars
  <2>2. todo = "NONE" /\ ~frameLive'
    BY <2>1 DEF CycleInv, TodoInv
  <2>3. TodoInv' /\ Requested'
    BY <1>1, <2>1, <2>2 DEF TodoInv, Requested
  <2>4. \A b \in Buffers, i \in Slots : Request(b, i) => ~MainHas(b)'
    BY <1>1, <2>1 DEF CycleInv, OneRequest, MainHas
  <2>5. QED
    BY <1>1, <2>2, <2>3, <2>4, FrameCycle
<1>4. QED
  BY <1>2, <1>3

\* The last batch, of a buffer without a request.
LEMMA ReportStatisticsCycle ==
  ASSUME BaseInv, PlaceInv, CycleInv, ReportStatistics
  PROVE  CycleInv'
<1>1. /\ mainPc = "report" /\ mainPc' \in {"join", "serialLast"}
      /\ UNCHANGED <<build, todo, cur, buf, spinning, frameLive>>
  BY DEF ReportStatistics
<1>2. todo = "NONE" /\ ~frameLive /\ MainHas(cur) /\ cur \in Buffers
      /\ slotStart \in 0 .. SHADOW_WINDOW
  BY <1>1, WindowFacts DEF CycleInv, TodoInv, MainHas, Holding, BaseInv, TypeOK
<1>3. TodoInv' /\ Requested' /\ \A c : ~MainHas(c)'
  BY <1>1, <1>2 DEF TodoInv, Requested, MainHas, Holding
<1>4. \A c, i : Request(c, i)' <=> Request(c, i)
  BY <1>1 DEF Request
<1>5. Window' = Window
  BY <1>1 DEF Window
<1>6. OneRequest'
  BY <1>3, <1>4, <1>5 DEF CycleInv, OneRequest
<1>7. RequestInv'
  BY <1>1, <1>2 DEF RequestInv
<1>8. PICK x : x = NewBatch(cur, slotStart)
  OBVIOUS
<1>9. x \in Batch /\ x # Kill /\ x # NoJob /\ x.shadowEntries = cur
  BY <1>2, <1>8, BatchFacts
<1>10. ASSUME NEW b \in Buffers, NEW i \in Slots, Request(b, i)  PROVE b # cur
  BY <1>2, <1>10 DEF CycleInv, OneRequest
<1>11. CASE build.disableOptimizations
  <2>1. job' = x /\ workQueue' = workQueue /\ job = NoJob
    BY <1>1, <1>8, <1>11 DEF ReportStatistics, BaseInv, ControlInv
  <2>2. EndsBatch'
    BY <1>4, <1>9, <1>10, <2>1 DEF CycleInv, EndsBatch, JobHas
  <2>3. ~spinning
    BY <2>1 DEF BaseInv, ControlInv
  <2>4. QED
    BY <1>1, <1>3, <1>6, <1>7, <2>2, <2>3 DEF CycleInv, SpinInv
<1>12. CASE ~build.disableOptimizations
  <2>1. workQueue' = workQueue \o <<x, Kill>> /\ UNCHANGED <<job, idx>>
    BY <1>8, <1>12 DEF ReportStatistics
  <2>2. PICK n : n = Len(workQueue)
    OBVIOUS
  <2>3. workQueue \in Seq(Batch \cup {Kill})
    BY DEF BaseInv, TypeOK
  <2>4. /\ n \in Nat /\ Len(workQueue') = n + 2
        /\ workQueue'[n + 1] = x /\ workQueue'[n + 2] = Kill
        /\ \A k \in 1 .. n : workQueue'[k] = workQueue[k]
    BY <1>9, <2>1, <2>2, <2>3
  <2>5. ASSUME NEW b \in Buffers, NEW i \in Slots, Request(b, i), NEW k \in 1 .. n + 2,
               workQueue'[k] # Kill, workQueue'[k].shadowEntries = b
        PROVE  workQueue'[k].numEntries = i + 1
    <3>1. k = n + 1 \/ k = n + 2 \/ k \in 1 .. n
      BY <2>4
    <3>2. k \in 1 .. n
      BY <1>9, <1>10, <2>4, <2>5, <3>1
    <3>3. QED
      BY <2>2, <2>4, <2>5, <3>2 DEF CycleInv, EndsBatch
  <2>6. EndsBatch'
    BY <1>4, <2>1, <2>4, <2>5 DEF CycleInv, EndsBatch, JobHas
  <2>7. SpinInv'
    BY <1>1, <1>5, <2>1 DEF CycleInv, SpinInv, Request
  <2>8. QED
    BY <1>3, <1>6, <1>7, <2>6, <2>7 DEF CycleInv
<1>13. QED
  BY <1>11, <1>12

\* The steps of the executing thread leave the program's thread where it is
\* and the slots as they are.
LEMMA ExecuteFrame ==
  ASSUME BaseInv, CycleInv, ShadowSteps
  PROVE  /\ TodoInv' /\ OneRequest' /\ (Requested' <=> Requested) /\ frameLive' = frameLive
         /\ Window' = Window /\ \A b, i : Request(b, i)' <=> Request(b, i)
<1>1. UNCHANGED <<build, todo, cur, buf, frameLive>>
  BY DEF ShadowSteps, TryPop, ProcessEntry, SpinEnds, Retire, mainVars
<1>2. \/ mainPc' = mainPc
      \/ mainPc = "serial" /\ mainPc' = "waitPop"
      \/ mainPc = "serialLast" /\ mainPc' = "done"
  BY DEF ShadowSteps, TryPop, ProcessEntry, SpinEnds, Retire, mainVars
<1>3. TodoInv' /\ (Requested' <=> Requested)
  BY <1>1, <1>2 DEF CycleInv, TodoInv, Requested
<1>4. Window' = Window /\ \A b, i : Request(b, i)' <=> Request(b, i)
  BY <1>1 DEF Window, Request
<1>5. \A b : MainHas(b)' <=> MainHas(b)
  BY <1>1, <1>2 DEF MainHas, Holding
<1>6. OneRequest'
  BY <1>3, <1>4, <1>5 DEF CycleInv, OneRequest
<1>7. QED
  BY <1>1, <1>3, <1>4, <1>6

\* The batch of the request leaves the queue when it is the last one there.
LEMMA TryPopCycle ==
  ASSUME BaseInv, CycleInv, TryPop
  PROVE  CycleInv'
<1>1. /\ TodoInv' /\ OneRequest' /\ (Requested' <=> Requested) /\ frameLive' = frameLive
      /\ \A b, i : Request(b, i)' <=> Request(b, i)
  BY ExecuteFrame DEF ShadowSteps
<1>2. /\ job = NoJob /\ ~spinning /\ ~spinning' /\ workQueue # <<>>
      /\ workQueue' = Tail(workQueue)
  BY DEF TryPop, BaseInv, ControlInv
<1>3. PICK n, h : n = Len(workQueue) /\ h = Head(workQueue)
  OBVIOUS
<1>4. /\ n \in Nat /\ n >= 1 /\ Len(workQueue') = n - 1 /\ h = workQueue[1]
      /\ h \in Batch \cup {Kill}
      /\ \A i \in 1 .. n - 1 : workQueue'[i] = workQueue[i + 1]
      /\ workQueue' \in Seq(Batch \cup {Kill})
  BY <1>2, <1>3 DEF BaseInv, TypeOK
<1>10. (n > 1 => workQueue' # <<>>) /\ (n = 1 => workQueue' = <<>>)
  BY <1>4
<1>5. h # Kill => job' = h /\ idx' = 0
  BY <1>3 DEF TryPop
<1>6. h = Kill => job' = NoJob
  BY <1>2, <1>3 DEF TryPop
<1>7. EndsBatch'
  <2> SUFFICES ASSUME NEW b \in Buffers, NEW i \in Slots, Request(b, i)
               PROVE  /\ \A k \in 1 .. n - 1 :
                            workQueue'[k] # Kill /\ workQueue'[k].shadowEntries = b
                               => workQueue'[k].numEntries = i + 1
                      /\ JobHas(b)' => job'.numEntries = i + 1
    BY <1>1, <1>4 DEF EndsBatch
  <2>1. \A k \in 1 .. n : workQueue[k] # Kill /\ workQueue[k].shadowEntries = b
                             => workQueue[k].numEntries = i + 1
    BY <1>3 DEF CycleInv, EndsBatch
  <2>2. \A k \in 1 .. n - 1 : k + 1 \in 1 .. n
    BY <1>4
  <2>3. 1 \in 1 .. n
    BY <1>4
  <2>4. JobHas(b)' => job'.numEntries = i + 1
    BY <1>4, <1>5, <1>6, <2>1, <2>3 DEF JobHas
  <2>5. QED
    BY <1>4, <2>1, <2>2, <2>4
<1>8. RequestInv'
  <2> SUFFICES ASSUME frameLive, Requested
               PROVE  \E b \in Buffers : \E i \in Slots : Request(b, i) /\ Unanswered(b, i)'
    BY <1>1 DEF RequestInv
  <2>1. PICK b \in Buffers : \E i \in Slots : Request(b, i) /\ Unanswered(b, i)
    BY DEF CycleInv, RequestInv
  <2>2. PICK i \in Slots : Request(b, i) /\ Unanswered(b, i)
    BY <2>1
  <2>3. PICK x : x = NewBatch(b, i + 1)
    OBVIOUS
  <2>4. workQueue[n] = x /\ x # Kill /\ i \in Nat
    <3>1. i + 1 \in 0 .. SHADOW_WINDOW /\ i \in Nat
      BY WindowFacts DEF Slots
    <3>2. x # Kill
      BY <2>3, <3>1, BatchFacts
    <3>3. QED
      BY <1>2, <1>3, <2>2, <2>3, <3>1, <3>2 DEF Unanswered
  <2>5. CASE n = 1
    <3>1. job' = x /\ idx' = 0 /\ workQueue' = <<>>
      BY <1>4, <1>5, <1>10, <2>4, <2>5
    <3>2. Unanswered(b, i)'
      BY <1>2, <2>3, <2>4, <3>1 DEF Unanswered
    <3>3. QED
      BY <2>2, <3>2
  <2>6. CASE n # 1
    <3>1. n - 1 \in 1 .. n - 1 /\ workQueue' # <<>>
      BY <1>4, <1>10, <2>6
    <3>2. workQueue'[n - 1] = workQueue[n]
      BY <1>4, <3>1
    <3>3. Unanswered(b, i)'
      BY <1>4, <2>3, <2>4, <3>1, <3>2 DEF Unanswered
    <3>4. QED
      BY <2>2, <3>3
  <2>7. QED
    BY <2>5, <2>6
<1>9. QED
  BY <1>1, <1>2, <1>7, <1>8 DEF CycleInv, SpinInv

\* One turn of the loop: it stops at the request and passes every other entry.
LEMMA ProcessEntryCycle ==
  ASSUME BaseInv, CycleInv, ProcessEntry
  PROVE  CycleInv'
<1>1. /\ TodoInv' /\ OneRequest' /\ (Requested' <=> Requested) /\ frameLive' = frameLive
      /\ Window' = Window /\ \A b, i : Request(b, i)' <=> Request(b, i)
  BY ExecuteFrame DEF ShadowSteps
<1>2. /\ job # NoJob /\ ~spinning /\ UNCHANGED <<workQueue, job>>
  BY DEF ProcessEntry
<1>3. PICK c : c = job.shadowEntries
  OBVIOUS
<1>4. c \in Buffers /\ idx \in Nat /\ Window \in 1 .. SHADOW_WINDOW
  BY <1>2, <1>3, BatchFacts, WindowFacts DEF BaseInv, TypeOK
<1>5. EndsBatch'
  BY <1>1, <1>2 DEF CycleInv, EndsBatch, JobHas
<1>6. CASE Cell(c, idx).op = "DETECT_CYCLE"
  <2>1. sync' = 1 /\ spinning' = TRUE /\ idx' = idx
    BY <1>3, <1>6 DEF ProcessEntry
  <2>2. idx < Window /\ Request(c, idx)
    BY <1>6, EntryFacts DEF Cell, Request
  <2>3. SpinInv'
    BY <1>1, <1>2, <1>3, <2>1, <2>2 DEF SpinInv, Request
  <2>4. \A b, i : Unanswered(b, i) => Unanswered(b, i)'
    BY <1>2, <2>1 DEF Unanswered
  <2>5. RequestInv'
    BY <1>1, <2>4 DEF CycleInv, RequestInv
  <2>6. QED
    BY <1>1, <1>5, <2>3, <2>5 DEF CycleInv
<1>7. CASE Cell(c, idx).op # "DETECT_CYCLE"
  <2>1. sync' = sync /\ ~spinning' /\ idx' = idx + 1
    BY <1>2, <1>3, <1>7 DEF ProcessEntry
  <2>2. ASSUME NEW b \in Buffers, NEW i \in Slots, Request(b, i), Unanswered(b, i)
        PROVE  Unanswered(b, i)'
    <3>1. CASE workQueue # <<>> /\ workQueue[Len(workQueue)] = NewBatch(b, i + 1)
      BY <1>2, <3>1 DEF Unanswered
    <3>2. CASE workQueue = <<>> /\ job = NewBatch(b, i + 1) /\ idx <= i
      <4>1. i \in Nat /\ i + 1 \in 0 .. SHADOW_WINDOW
        BY WindowFacts DEF Slots
      <4>2. c = b /\ i < Window
        BY <1>3, <2>2, <3>2, <4>1, BatchFacts DEF CycleInv, OneRequest
      <4>3. Cell(c, i).op = "DETECT_CYCLE"
        BY <2>2, <4>2 DEF Cell, Request
      <4>4. idx # i
        BY <1>7, <4>3
      <4>5. idx + 1 <= i
        BY <1>4, <3>2, <4>1, <4>4
      <4>6. QED
        BY <1>2, <2>1, <3>2, <4>5 DEF Unanswered
    <3>3. QED
      BY <2>2, <3>1, <3>2 DEF Unanswered
  <2>3. RequestInv'
    BY <1>1, <2>2 DEF CycleInv, RequestInv
  <2>4. QED
    BY <1>1, <1>5, <2>1, <2>3 DEF CycleInv, SpinInv
<1>8. QED
  BY <1>6, <1>7

\* The spin on the request ends only once the program has answered.
LEMMA SpinEndsCycle ==
  ASSUME BaseInv, CycleInv, SpinEnds
  PROVE  CycleInv'
<1>1. /\ TodoInv' /\ OneRequest' /\ (Requested' <=> Requested) /\ frameLive' = frameLive
      /\ \A b, i : Request(b, i)' <=> Request(b, i)
  BY ExecuteFrame DEF ShadowSteps
<1>2. spinning /\ sync = 0 /\ ~spinning' /\ UNCHANGED <<workQueue, job>>
  BY DEF SpinEnds
<1>3. EndsBatch'
  BY <1>1, <1>2 DEF CycleInv, EndsBatch, JobHas
<1>4. \A b, i : Unanswered(b, i) => Unanswered(b, i)'
  BY <1>2 DEF Unanswered
<1>5. RequestInv'
  BY <1>1, <1>4 DEF CycleInv, RequestInv
<1>6. QED
  BY <1>1, <1>2, <1>3, <1>5 DEF CycleInv, SpinInv

\* A batch that has been executed holds no request that is not answered.
LEMMA RetireCycle ==
  ASSUME BaseInv, CycleInv, Retire
  PROVE  CycleInv'
<1>1. /\ TodoInv' /\ OneRequest' /\ (Requested' <=> Requested) /\ frameLive' = frameLive
      /\ \A b, i : Request(b, i)' <=> Request(b, i)
  BY ExecuteFrame DEF ShadowSteps
<1>2. /\ job # NoJob /\ job' = NoJob /\ ~spinning' /\ workQueue' = workQueue
      /\ idx > job.numEntries
  BY DEF Retire
<1>3. EndsBatch'
  BY <1>1, <1>2 DEF CycleInv, EndsBatch, JobHas
<1>4. ASSUME NEW b \in Buffers, NEW i \in Slots, Unanswered(b, i)
      PROVE  Unanswered(b, i)'
  <2>1. i \in Nat /\ i + 1 \in 0 .. SHADOW_WINDOW /\ idx \in Nat
    BY WindowFacts DEF Slots, BaseInv, TypeOK
  <2>2. job = NewBatch(b, i + 1) => job.numEntries = i + 1
    BY <2>1, BatchFacts
  <2>3. ~(job = NewBatch(b, i + 1) /\ idx <= i)
    BY <1>2, <2>1, <2>2
  <2>4. QED
    BY <1>2, <1>4, <2>3 DEF Unanswered
<1>5. RequestInv'
  BY <1>1, <1>4 DEF CycleInv, RequestInv
<1>6. QED
  BY <1>1, <1>2, <1>3, <1>5 DEF CycleInv, SpinInv

\* At the start there is no request.
LEMMA InitCycle == Init => CycleInv
<1> SUFFICES ASSUME Init  PROVE CycleInv
  OBVIOUS
<1>1. \A b \in Buffers, i \in Slots : buf[b][i] = FreeSlot
  BY DEF Init, Slots
<1>2. \A b \in Buffers, i \in Slots : ~Request(b, i)
  BY <1>1, EntryFacts DEF Request
<1>3. mainPc = "run" /\ todo = "NONE" /\ ~frameLive /\ ~spinning
  BY DEF Init
<1>4. QED
  BY <1>2, <1>3 DEF CycleInv, TodoInv, OneRequest, EndsBatch, RequestInv, SpinInv

\* Every step keeps the request and its answer together.
LEMMA NextCycle == BaseInv /\ PlaceInv /\ CycleInv /\ [Next]_vars => CycleInv'
<1> SUFFICES ASSUME BaseInv, PlaceInv, CycleInv, [Next]_vars  PROVE CycleInv'
  OBVIOUS
<1>1. CASE Program
  BY <1>1, ProgramCycle
<1>2. CASE Handshake \/ Join \/ (\E v \in Garbage : ReuseStack(v)) \/ UNCHANGED vars
  BY <1>2, WaitsCycle
<1>3. CASE WaitPop
  BY <1>3, WaitPopCycle
<1>4. CASE ReportStatistics
  BY <1>4, ReportStatisticsCycle
<1>5. CASE TryPop
  BY <1>5, TryPopCycle
<1>6. CASE ProcessEntry
  BY <1>6, ProcessEntryCycle
<1>7. CASE SpinEnds
  BY <1>7, SpinEndsCycle
<1>8. CASE Retire
  BY <1>8, RetireCycle
<1>9. QED
  BY <1>1, <1>2, <1>3, <1>4, <1>5, <1>6, <1>7, <1>8
     DEF Next, MainSteps, ShadowSteps, Terminated

\* While the program's thread waits for the shadow thread to end, the batch
\* that ends it is the last one queued.
KillLast(q) == q # <<>> /\ q[Len(q)] = Kill

KillInv == mainPc = "join" /\ alive => KillLast(workQueue)

\* The kill batch is queued before the wait, and the shadow thread ends with it.
LEMMA NextKill == BaseInv /\ KillInv /\ [Next]_vars => KillInv'
<1> SUFFICES ASSUME BaseInv, KillInv, [Next]_vars, mainPc' = "join", alive'
             PROVE  KillLast(workQueue')
  BY DEF KillInv
<1>1. CASE ReportStatistics
  <2>1. ~build.disableOptimizations
    BY <1>1 DEF ReportStatistics, BaseInv, ControlInv
  <2>2. PICK x : x = NewBatch(cur, slotStart)
    OBVIOUS
  <2>3. workQueue' = workQueue \o <<x, Kill>> /\ workQueue \in Seq(Batch \cup {Kill})
    BY <1>1, <2>1, <2>2 DEF ReportStatistics, BaseInv, TypeOK
  <2>4. x \in Batch
    <3>1. cur \in Buffers /\ slotStart \in 0 .. SHADOW_WINDOW
      BY WindowFacts DEF BaseInv, TypeOK
    <3>2. QED
      BY <2>2, <3>1, BatchFacts
  <2>5. /\ Len(workQueue') = Len(workQueue) + 2 /\ Len(workQueue) \in Nat
        /\ workQueue'[Len(workQueue) + 2] = Kill
    BY <2>3, <2>4
  <2>6. QED
    BY <2>5 DEF KillLast
<1>2. CASE TryPop
  <2>1. alive /\ mainPc = "join" /\ workQueue # <<>> /\ workQueue' = Tail(workQueue)
        /\ Head(workQueue) # Kill
    BY <1>2 DEF TryPop, mainVars
  <2>2. PICK n : n = Len(workQueue)
    OBVIOUS
  <2>3. workQueue[n] = Kill
    BY <2>1, <2>2 DEF KillInv, KillLast
  <2>4. /\ n \in Nat /\ n >= 1 /\ Len(workQueue') = n - 1 /\ Head(workQueue) = workQueue[1]
        /\ \A i \in 1 .. n - 1 : workQueue'[i] = workQueue[i + 1]
    BY <2>1, <2>2 DEF BaseInv, TypeOK
  <2>5. n - 1 \in 1 .. n - 1
    BY <2>1, <2>3, <2>4
  <2>6. workQueue'[n - 1] = Kill
    BY <2>3, <2>4, <2>5
  <2>7. workQueue' # <<>>
    BY <2>4, <2>5
  <2>8. QED
    BY <2>4, <2>6, <2>7 DEF KillLast
<1>3. CASE Program \/ WaitPop
  <2>1. mainPc' # "join"
    BY <1>3 DEF Program, Ship, PrintJSON, GetFreeSlot, WaitPop, Put, BatchFull
  <2>2. QED
    BY <2>1
<1>4. CASE Handshake \/ Join \/ Retire \/ ProcessEntry \/ SpinEnds
           \/ (\E v \in Garbage : ReuseStack(v)) \/ UNCHANGED vars
  <2>1. mainPc = "join" /\ UNCHANGED <<alive, workQueue>>
    BY <1>4 DEF Handshake, Join, Retire, ProcessEntry, SpinEnds, ReuseStack, vars, mainVars,
                shadowVars
  <2>2. QED
    BY <2>1 DEF KillInv
<1>5. QED
  BY <1>1, <1>2, <1>3, <1>4 DEF Next, MainSteps, ShadowSteps, Terminated

\* A request that is not answered is in a batch that is queued or being
\* executed.
LEMMA AnswerDue ==
  ASSUME BaseInv, CycleInv, frameLive, Requested
  PROVE  workQueue # <<>> \/ job # NoJob
<1>1. PICK b \in Buffers : \E i \in Slots : Request(b, i) /\ Unanswered(b, i)
  BY DEF CycleInv, RequestInv
<1>2. PICK i \in Slots : Request(b, i) /\ Unanswered(b, i)
  BY <1>1
<1>3. i + 1 \in 0 .. SHADOW_WINDOW
  BY WindowFacts DEF Slots
<1>4. NewBatch(b, i + 1) # NoJob
  BY <1>3, BatchFacts
<1>5. QED
  BY <1>2, <1>4 DEF Unanswered

\* The executing thread spins on a request only; as long as it is not answered
\* nothing is queued behind it.
LEMMA SpinAtRequest ==
  ASSUME BaseInv, PlaceInv, CycleInv, spinning
  PROVE  /\ Requested
         /\ frameLive => workQueue = <<>> /\ sync # 0
<1>1. PICK c : c = job.shadowEntries
  OBVIOUS
<1>2. JobHas(c) /\ c \in Buffers /\ idx \in Slots /\ Request(c, idx)
  <2>1. job # NoJob /\ job \in Batch /\ idx < Window /\ idx \in Nat
    BY DEF BaseInv, ControlInv, TypeOK, CycleInv, SpinInv
  <2>2. QED
    BY <1>1, <2>1, BatchFacts, WindowFacts DEF JobHas, Slots, CycleInv, SpinInv
<1>3. Requested
  BY <1>2 DEF CycleInv, OneRequest
<1>4. ASSUME frameLive  PROVE workQueue = <<>> /\ sync # 0
  <2>1. PICK b \in Buffers : \E i \in Slots : Request(b, i) /\ Unanswered(b, i)
    BY <1>3, <1>4 DEF CycleInv, RequestInv
  <2>2. PICK i \in Slots : Request(b, i) /\ Unanswered(b, i)
    BY <2>1
  <2>3. b = c
    BY <1>2, <2>2 DEF CycleInv, OneRequest
  <2>4. ~QueuedIn(workQueue, b)
    BY <1>2, <2>3 DEF PlaceInv, PlaceOf
  <2>5. ~(workQueue # <<>> /\ workQueue[Len(workQueue)] = NewBatch(b, i + 1))
    <3> SUFFICES ASSUME workQueue # <<>>, workQueue[Len(workQueue)] = NewBatch(b, i + 1)
                 PROVE  FALSE
      OBVIOUS
    <3>1. i + 1 \in 0 .. SHADOW_WINDOW /\ Len(workQueue) \in 1 .. Len(workQueue)
      BY WindowFacts DEF Slots, BaseInv, TypeOK
    <3>2. QED
      BY <2>4, <3>1, BatchFacts DEF QueuedIn
  <2>6. QED
    BY <2>2, <2>5 DEF Unanswered
<1>5. QED
  BY <1>3, <1>4

\* In waitPop with nothing ready, a queue that is empty leaves one place for
\* the buffers, and there are two of them.
LEMMA QueuedWhileWaiting ==
  ASSUME BaseInv, PlaceInv, mainPc = "waitPop", readyQueue = <<>>
  PROVE  workQueue # <<>>
<1> SUFFICES ASSUME workQueue = <<>>  PROVE FALSE
  OBVIOUS
<1>1. 1 \in Buffers /\ 2 \in Buffers
  BY WindowFacts DEF Buffers
<1>2. \A b : ~MainHas(b) /\ ~QueuedIn(workQueue, b) /\ ~ReadyIn(readyQueue, b)
  BY DEF MainHas, Holding, QueuedIn, ReadyIn
<1>3. JobHas(1) /\ JobHas(2)
  BY <1>1, <1>2 DEF PlaceInv, PlaceOf
<1>4. QED
  BY <1>3 DEF JobHas

\* The three waits, each with something the executing thread can do.
LEMMA WorkIsLeft == BaseInv /\ PlaceInv /\ CycleInv /\ KillInv => NoCircularWait
<1> SUFFICES ASSUME BaseInv, PlaceInv, CycleInv, KillInv  PROVE NoCircularWait
  OBVIOUS
<1>1. ASSUME mainPc = "waitPop", readyQueue = <<>>  PROVE CanExecute
  <2>1. workQueue # <<>>
    BY <1>1, QueuedWhileWaiting
  <2>2. alive
    BY <1>1, <2>1 DEF BaseInv, ControlInv
  <2>3. ~spinning
    <3> SUFFICES ASSUME spinning  PROVE FALSE
      OBVIOUS
    <3>1. Requested
      BY SpinAtRequest
    <3>2. frameLive
      BY <1>1, <3>1 DEF Requested, CycleInv, TodoInv
    <3>3. QED
      BY <2>1, <3>2, SpinAtRequest
  <2>4. QED
    BY <2>1, <2>2, <2>3 DEF CanExecute
<1>2. ASSUME mainPc = "handshake", sync = 0  PROVE CanExecute
  <2>1. frameLive /\ Requested
    BY <1>2 DEF CycleInv, TodoInv, Requested
  <2>2. ~spinning /\ (workQueue # <<>> \/ job # NoJob)
    BY <1>2, <2>1, AnswerDue, SpinAtRequest
  <2>3. workQueue # <<>> => alive
    BY <1>2 DEF BaseInv, ControlInv
  <2>4. QED
    BY <2>2, <2>3 DEF CanExecute
<1>3. ASSUME mainPc = "join", alive  PROVE CanExecute \/ spinning
  <2>1. workQueue # <<>>
    BY <1>3 DEF KillInv, KillLast
  <2>2. QED
    BY <1>3, <2>1 DEF CanExecute
<1>4. QED
  BY <1>1, <1>2, <1>3 DEF NoCircularWait

\* The program's thread and the shadow thread never wait for each other, for any
\* number and length of buffers and in every build: whoever waits for a buffer,
\* for an answer or for the shadow thread leaves it something to do.
THEOREM WaitsAreServed == Spec => []NoCircularWait
<1>1. Init => KillInv
  BY DEF Init, KillInv
<1>2. QED
  BY <1>1, InitBase, NextBase, InitPlaces, NextPlaces, InitCycle, NextCycle, NextKill,
     WorkIsLeft, PTL DEF Spec

-----------------------------------------------------------------------------
(***************************************************************************)
(* What is left of the batch in execution.                                 *)
(***************************************************************************)
IndexInv == job # NoJob => idx <= job.numEntries + 1

\* The index passes the end of a batch by one at most.
LEMMA NextIndex == BaseInv /\ IndexInv /\ [Next]_vars => IndexInv'
<1> SUFFICES ASSUME BaseInv, IndexInv, [Next]_vars, job' # NoJob
             PROVE  idx' <= job'.numEntries + 1
  BY DEF IndexInv
<1>1. BaseInv'
  BY NextBase
<1>2. job' \in Batch /\ job'.numEntries \in Nat /\ idx \in Nat
  BY <1>1, BatchFacts DEF BaseInv, TypeOK
<1>3. idx' = 0 \/ (idx' = idx /\ job' = job)
      \/ (idx' = idx + 1 /\ job' = job /\ idx <= job.numEntries)
  <2>1. CASE Program \/ Handshake \/ WaitPop \/ ReportStatistics
    <3>1. \E b \in Buffers : \E m : Hand(b, m)
      BY <2>1, MainHands
    <3>2. QED
      BY <3>1 DEF Hand, Gives
  <2>2. CASE Join \/ (\E v \in Garbage : ReuseStack(v)) \/ UNCHANGED vars
    BY <2>2 DEF Join, ReuseStack, vars, shadowVars
  <2>3. CASE TryPop
    <3>1. job = NoJob
      BY <2>3 DEF TryPop
    <3>2. QED
      BY <2>3, <3>1 DEF TryPop
  <2>4. CASE ProcessEntry
    BY <2>4 DEF ProcessEntry
  <2>5. CASE SpinEnds
    BY <2>5 DEF SpinEnds, BaseInv, ControlInv
  <2>6. CASE Retire
    BY <2>6 DEF Retire
  <2>7. QED
    BY <2>1, <2>2, <2>3, <2>4, <2>5, <2>6 DEF Next, MainSteps, ShadowSteps, Terminated
<1>4. QED
  BY <1>2, <1>3 DEF IndexInv

\* A step of the executing thread takes a batch or shortens what is left.
LEMMA ExecutingShrinks ==
  ASSUME BaseInv, IndexInv, ShadowSteps
  PROVE  \/ Len(workQueue') < Len(workQueue)
         \/ workQueue' = workQueue /\ Left' < Left
<1>1. CASE TryPop
  <2>1. workQueue # <<>> /\ workQueue' = Tail(workQueue) /\ workQueue \in Seq(Batch \cup {Kill})
    BY <1>1 DEF TryPop, BaseInv, TypeOK
  <2>2. Len(workQueue) \in Nat /\ Len(workQueue') = Len(workQueue) - 1
    BY <2>1
  <2>3. QED
    BY <2>2
<1>2. ASSUME job # NoJob  PROVE job.numEntries \in Nat /\ idx \in Nat
  BY <1>2, BatchFacts DEF BaseInv, TypeOK
<1>3. CASE ProcessEntry
  <2>1. /\ job # NoJob /\ job' = job /\ ~spinning /\ workQueue' = workQueue
        /\ \/ spinning' = TRUE /\ idx' = idx
           \/ spinning' = spinning /\ idx' = idx + 1
    BY <1>3 DEF ProcessEntry
  <2>2. Left' < Left
    BY <1>2, <2>1 DEF Left
  <2>3. QED
    BY <2>1, <2>2
<1>4. CASE SpinEnds
  <2>1. job # NoJob /\ job' = job /\ spinning /\ ~spinning' /\ workQueue' = workQueue
        /\ idx' = idx + 1
    BY <1>4 DEF SpinEnds, BaseInv, ControlInv
  <2>2. Left' < Left
    BY <1>2, <2>1 DEF Left
  <2>3. QED
    BY <2>1, <2>2
<1>5. CASE Retire
  <2>1. job # NoJob /\ job' = NoJob /\ ~spinning /\ workQueue' = workQueue
    BY <1>5 DEF Retire
  <2>2. Left' = 0 /\ Left > 0
    BY <1>2, <2>1 DEF Left, IndexInv
  <2>3. QED
    BY <2>1, <2>2
<1>6. QED
  BY <1>1, <1>3, <1>4, <1>5 DEF ShadowSteps

\* A wait of the program's thread is not extended: each step that does not end
\* it uses up what is queued or in execution.  With WaitsAreServed this is all
\* of NeverStuck except that the threads are scheduled.
THEOREM WaitsShrink == Spec => WaitUsesUpWork
<1>1. Init => IndexInv
  BY DEF Init, IndexInv
<1>2. ASSUME BaseInv, IndexInv, [Next]_vars
      PROVE  [ /\ mainPc \in {"waitPop", "handshake", "join"}
               /\ UNCHANGED mainVars
               => \/ Len(workQueue') < Len(workQueue)
                  \/ workQueue' = workQueue /\ Left' < Left ]_vars
  <2> SUFFICES ASSUME ~(UNCHANGED vars), mainPc \in {"waitPop", "handshake", "join"},
                      UNCHANGED mainVars
               PROVE  \/ Len(workQueue') < Len(workQueue)
                      \/ workQueue' = workQueue /\ Left' < Left
    OBVIOUS
  <2>1. ~Program /\ ~Handshake /\ ~Join /\ ~ReportStatistics /\ ~Terminated
        /\ ~(\E v \in Garbage : ReuseStack(v))
    BY DEF Program, Ship, PrintJSON, GetFreeSlot, Handshake, Join, ReportStatistics, Terminated,
           ReuseStack, mainVars
  <2>2. ~WaitPop
    <3> SUFFICES ASSUME WaitPop  PROVE FALSE
      OBVIOUS
    <3>1. produced \in Nat /\ produced' = produced /\ mainPc' = mainPc /\ mainPc = "waitPop"
      BY <1>2 DEF BaseInv, TypeOK, Stamps, mainVars, WaitPop
    <3>2. CASE todo \in Ops
      BY <3>1, <3>2 DEF WaitPop, Put
    <3>3. CASE todo \notin Ops
      BY <3>1, <3>3 DEF WaitPop
    <3>4. QED
      BY <3>2, <3>3
  <2>3. ShadowSteps
    BY <1>2, <2>1, <2>2 DEF Next, MainSteps
  <2>4. QED
    BY <1>2, <2>3, ExecutingShrinks
<1>3. QED
  BY <1>1, <1>2, InitBase, NextBase, NextIndex, PTL DEF Spec, WaitUsesUpWork

-----------------------------------------------------------------------------
(***************************************************************************)
(* What lies behind the entries of a batch: entries of an earlier use of   *)
(* the buffer, which have been executed.                                   *)
(***************************************************************************)

\* Slots m and behind of buffer b hold no entry after the l-th, where f are the
\* buffers.
Past(f, l, b, m) == \A i \in Slots : i >= m => f[b][i].n <= l

QueuePast(f, l, q) ==
    \A k \in 1 .. Len(q) : q[k] # Kill => Past(f, l, q[k].shadowEntries, q[k].numEntries)

StaleInv ==
    /\ \A b \in Buffers : MainHas(b) => Past(buf, last, b, slotStart)
    /\ QueuePast(buf, last, workQueue)
    /\ job # NoJob => Past(buf, last, job.shadowEntries, job.numEntries)
    /\ \A b \in Buffers : ReadyIn(readyQueue, b) => Past(buf, last, b, 0)
    /\ again \subseteq 1 .. last

\* Past is about slots, whose numbers can be compared.
LEMMA SlotNumbers ==
  ASSUME TypeOK
  PROVE  last \in Nat /\ \A b \in Buffers, i \in Slots : buf[b][i] \in Entry /\ buf[b][i].n \in Nat
<1>1. \A b \in Buffers, i \in Slots : buf[b][i] \in Entry
  BY DEF TypeOK, Slots
<1>2. QED
  BY <1>1, EntryFacts DEF TypeOK, Stamps

\* What is in the past stays there as long as the slots are not written.
LEMMA PastStays ==
  ASSUME TypeOK, last' \in Nat, last' >= last, NEW b \in Buffers, NEW m, Past(buf, last, b, m),
         \A i \in Slots : i >= m => buf'[b][i] = buf[b][i]
  PROVE  Past(buf', last', b, m)
<1> SUFFICES ASSUME NEW i \in Slots, i >= m
             PROVE  buf'[b][i].n <= last'
  BY DEF Past
<1>1. buf'[b][i] = buf[b][i] /\ buf[b][i].n <= last /\ buf[b][i].n \in Nat /\ last \in Nat
  BY SlotNumbers DEF Past
<1>2. QED
  BY <1>1

\* Filling in a slot of a buffer: the slots behind it are left alone, and so are
\* the other buffers.
LEMMA FillsPast ==
  ASSUME BaseInv, NEW b \in Buffers, NEW m, Fills(b, m), Past(buf, last, b, slotStart), last' = last
  PROVE  /\ Past(buf', last', b, m)
         /\ \A c \in Buffers : \A n : c # b /\ Past(buf, last, c, n) => Past(buf', last', c, n)
<1>1. TypeOK /\ slotStart \in Nat /\ last' \in Nat /\ last' >= last
  BY SlotNumbers DEF BaseInv, TypeOK
<1>2. CASE m = slotStart /\ buf' = buf
  <2>1. Past(buf, last, b, m)
    BY <1>2
  <2>2. Past(buf', last', b, m)
    BY <1>1, <1>2, <2>1, PastStays
  <2>3. QED
    BY <1>1, <1>2, <2>2, PastStays
<1>3. CASE m = slotStart + 1 /\ slotStart < Window
           /\ \E op \in Ops : buf' = [buf EXCEPT ![b][slotStart] = [op |-> op, n |-> produced + 1]]
  <2>1. buf \in [Buffers -> [Slots -> Entry]]
    BY <1>1 DEF TypeOK, Slots
  <2>2. /\ \A i \in Slots : i >= m => buf'[b][i] = buf[b][i]
        /\ \A c \in Buffers : \A i \in Slots : c # b => buf'[c][i] = buf[c][i]
    <3>1. PICK op \in Ops : buf' = [buf EXCEPT ![b][slotStart] = [op |-> op, n |-> produced + 1]]
      BY <1>3
    <3>2. \A i \in Slots : i >= m => i # slotStart
      BY <1>1, <1>3, WindowFacts DEF Slots
    <3>3. QED
      BY <2>1, <3>1, <3>2
  <2>3. Past(buf, last, b, m)
    <3>1. \A i \in Slots : i >= m => i >= slotStart
      BY <1>1, <1>3, WindowFacts DEF Slots
    <3>2. QED
      BY <3>1 DEF Past
  <2>4. Past(buf', last', b, m)
    BY <1>1, <2>2, <2>3, PastStays
  <2>5. QED
    BY <1>1, <2>2, <2>4, PastStays
<1>4. QED
  BY <1>2, <1>3 DEF Fills

\* A batch at the end of the queue.
LEMMA QueuePastAppend ==
  ASSUME NEW q \in WorkQueues, NEW f, NEW l, QueuePast(f, l, q), NEW x \in Batch \cup {Kill},
         x # Kill => Past(f, l, x.shadowEntries, x.numEntries)
  PROVE  QueuePast(f, l, Append(q, x))
<1> DEFINE r == Append(q, x)
<1>1. Len(r) = Len(q) + 1 /\ r[Len(q) + 1] = x /\ Len(q) \in Nat
      /\ \A i \in 1 .. Len(q) : r[i] = q[i]
  BY DEF WorkQueues
<1> HIDE DEF r
<1>2. \A k \in 1 .. Len(r) : k = Len(q) + 1 \/ k \in 1 .. Len(q)
  BY <1>1
<1>3. QueuePast(f, l, r)
  BY <1>1, <1>2 DEF QueuePast
<1>4. QED
  BY <1>3 DEF r

\* Handing on a buffer.
LEMMA HandStale ==
  ASSUME BaseInv, PlaceInv, StaleInv, NEW b \in Buffers, NEW m, Hand(b, m), again' = again
  PROVE  StaleInv'
<1>1. /\ ~QueuedIn(workQueue, b) /\ ~JobHas(b) /\ ~ReadyIn(readyQueue', b)
      /\ \A c \in Buffers : c # b => (ReadyIn(readyQueue', c) <=> ReadyIn(readyQueue, c))
  BY TakesFacts DEF Hand
<1>2. cur' = b /\ last' = last /\ m \in 0 .. SHADOW_WINDOW /\ Gives(b, m) /\ Fills(b, m)
  BY DEF Hand
<1>3. Past(buf, last, b, slotStart)
  <2>1. CASE MainHas(b)
    BY <2>1 DEF StaleInv
  <2>2. CASE mainPc = "waitPop" /\ readyQueue # <<>> /\ b = Head(readyQueue)
    <3>1. slotStart = 0 /\ readyQueue \in Seq(Buffers)
      BY <2>2 DEF BaseInv, ControlInv, TypeOK
    <3>2. b = readyQueue[1] /\ 1 \in 1 .. Len(readyQueue)
      BY <2>2, <3>1
    <3>3. ReadyIn(readyQueue, b)
      BY <3>2 DEF ReadyIn
    <3>4. QED
      BY <3>1, <3>3 DEF StaleInv
  <2>3. QED
    BY <2>1, <2>2 DEF Hand, Takes
<1>4. /\ Past(buf', last', b, m)
      /\ \A c \in Buffers : \A n : c # b /\ Past(buf, last, c, n) => Past(buf', last', c, n)
  BY <1>2, <1>3, FillsPast
<1>5. \A c \in Buffers : ReadyIn(readyQueue', c) => Past(buf', last', c, 0)
  BY <1>1, <1>4 DEF StaleInv
<1>6. \A c \in Buffers : MainHas(c)' => Past(buf', last', c, slotStart')
  BY <1>2, <1>4 DEF MainHas, Gives
<1>7. job' # NoJob => Past(buf', last', job'.shadowEntries, job'.numEntries)
  <2>1. CASE job' = job
    <3>1. job # NoJob => job.shadowEntries \in Buffers /\ job.shadowEntries # b
      BY <1>1, BatchFacts DEF BaseInv, TypeOK, JobHas
    <3>2. QED
      BY <1>4, <2>1, <3>1 DEF StaleInv
  <2>2. CASE job' = NewBatch(b, m)
    BY <1>2, <1>4, <2>2, BatchFacts
  <2>3. QED
    BY <1>2, <2>1, <2>2 DEF Gives
<1>8. QueuePast(buf', last', workQueue')
  <2>1. workQueue \in WorkQueues
    BY DEF BaseInv, TypeOK, WorkQueues
  <2>2. \A k \in 1 .. Len(workQueue) : workQueue[k] # Kill =>
           workQueue[k].shadowEntries \in Buffers /\ workQueue[k].shadowEntries # b
    <3>1. \A k \in 1 .. Len(workQueue) : workQueue[k] \in Batch \cup {Kill}
      BY <2>1 DEF WorkQueues
    <3>2. QED
      BY <1>1, <3>1, BatchFacts DEF QueuedIn
  <2>3. QueuePast(buf', last', workQueue)
    BY <1>4, <2>2 DEF StaleInv, QueuePast
  <2>4. CASE workQueue' = workQueue
    BY <2>3, <2>4
  <2>5. CASE workQueue' \in {Append(workQueue, NewBatch(b, m)),
                             Append(Append(workQueue, NewBatch(b, m)), Kill)}
    <3>1. PICK x, q : x = NewBatch(b, m) /\ q = Append(workQueue, x)
      OBVIOUS
    <3>2. x \in Batch /\ x.shadowEntries = b /\ x.numEntries = m
      BY <1>2, <3>1, BatchFacts
    <3>3. q \in WorkQueues
      BY <2>1, <3>1, <3>2 DEF WorkQueues
    <3>4. QueuePast(buf', last', q)
      BY <1>4, <2>1, <2>3, <3>1, <3>2, QueuePastAppend
    <3>5. QueuePast(buf', last', Append(q, Kill))
      BY <3>3, <3>4, QueuePastAppend
    <3>6. QED
      BY <2>5, <3>1, <3>4, <3>5
  <2>6. QED
    BY <1>2, <2>4, <2>5 DEF Gives
<1>9. QED
  BY <1>2, <1>5, <1>6, <1>7, <1>8 DEF StaleInv

\* A step of the executing thread or none: the slots are as they were and the
\* entries executed only become more.
LEMMA ExecutedStale ==
  ASSUME TypeOK, StaleInv, buf' = buf, last' \in Nat, last' >= last
  PROVE  /\ \A b \in Buffers : \A m : Past(buf, last, b, m) => Past(buf', last', b, m)
         /\ QueuePast(buf', last', workQueue)
<1>1. \A b \in Buffers : \A m : Past(buf, last, b, m) => Past(buf', last', b, m)
  BY PastStays
<1>2. \A k \in 1 .. Len(workQueue) : workQueue[k] # Kill => workQueue[k].shadowEntries \in Buffers
  <2>1. \A k \in 1 .. Len(workQueue) : workQueue[k] \in Batch \cup {Kill}
    BY DEF TypeOK
  <2>2. QED
    BY <2>1, BatchFacts
<1>3. QueuePast(buf', last', workQueue)
  BY <1>1, <1>2 DEF StaleInv, QueuePast
<1>4. QED
  BY <1>1, <1>3

\* Steps that move no buffer and execute no entry behind a batch.
LEMMA FrameStale ==
  ASSUME BaseInv, StaleInv, UNCHANGED <<buf, workQueue, readyQueue, cur, slotStart, job>>,
         mainPc' \in Holding <=> mainPc \in Holding, last' \in Nat, last' >= last,
         again' \subseteq 1 .. last'
  PROVE  StaleInv'
<1>1. TypeOK
  BY DEF BaseInv
<1>2. /\ \A b \in Buffers : \A m : Past(buf, last, b, m) => Past(buf', last', b, m)
      /\ QueuePast(buf', last', workQueue')
  BY <1>1, ExecutedStale
<1>3. \A b : MainHas(b)' <=> MainHas(b)
  BY DEF MainHas
<1>4. job # NoJob => job.shadowEntries \in Buffers
  BY <1>1, BatchFacts DEF TypeOK
<1>5. job' # NoJob => Past(buf', last', job'.shadowEntries, job'.numEntries)
  BY <1>2, <1>4 DEF StaleInv
<1>6. \A b \in Buffers : MainHas(b)' => Past(buf', last', b, slotStart')
  BY <1>2, <1>3 DEF StaleInv
<1>7. \A b \in Buffers : ReadyIn(readyQueue', b) => Past(buf', last', b, 0)
  BY <1>2 DEF StaleInv
<1>8. QED
  BY <1>2, <1>5, <1>6, <1>7 DEF StaleInv

\* Taking a batch from the queue.
LEMMA TryPopStale ==
  ASSUME BaseInv, StaleInv, TryPop
  PROVE  StaleInv'
<1>1. /\ job = NoJob /\ workQueue # <<>> /\ workQueue' = Tail(workQueue)
      /\ UNCHANGED <<mainPc, cur, slotStart, buf, readyQueue, last, again>>
      /\ job' = IF Head(workQueue) = Kill THEN job ELSE Head(workQueue)
  BY DEF TryPop, mainVars, history
<1>2. PICK n, q : n = Len(workQueue) /\ q = workQueue'
  OBVIOUS
<1>3. /\ n \in Nat /\ n >= 1 /\ Len(q) = n - 1 /\ Head(workQueue) = workQueue[1]
      /\ \A i \in 1 .. Len(q) : q[i] = workQueue[i + 1]
  BY <1>1, <1>2 DEF BaseInv, TypeOK
<1>4. \A k \in 1 .. n : workQueue[k] # Kill =>
         Past(buf, last, workQueue[k].shadowEntries, workQueue[k].numEntries)
  BY <1>2 DEF StaleInv, QueuePast
<1>5. QueuePast(buf, last, q)
  <2>1. \A i \in 1 .. Len(q) : i + 1 \in 1 .. n
    BY <1>3
  <2>2. QED
    BY <1>3, <1>4, <2>1 DEF QueuePast
<1>6. job' # NoJob => Past(buf, last, job'.shadowEntries, job'.numEntries)
  <2>1. 1 \in 1 .. n
    BY <1>3
  <2>2. QED
    BY <1>1, <1>3, <1>4, <2>1
<1>7. \A b : MainHas(b)' <=> MainHas(b)
  BY <1>1 DEF MainHas
<1>8. QED
  BY <1>1, <1>2, <1>5, <1>6, <1>7 DEF StaleInv

\* One turn of the loop of processShadowBatch.  Behind the batch it meets an
\* entry that was executed before.
LEMMA ExecuteStale ==
  ASSUME BaseInv, OrderInv, StaleInv, ProcessEntry \/ SpinEnds
  PROVE  StaleInv'
<1>1. UNCHANGED <<buf, workQueue, readyQueue, cur, slotStart, job, mainPc>>
  BY DEF ProcessEntry, SpinEnds, mainVars
<1>2. last \in Nat /\ last' \in Nat /\ last' >= last
  <2>1. last \in Nat
    BY SlotNumbers DEF BaseInv
  <2>2. last' = last \/ last' = last + 1
    BY ExecuteOrder
  <2>3. QED
    BY <2>1, <2>2
<1>3. again' \subseteq 1 .. last'
  <2>1. again \subseteq 1 .. last'
    BY <1>2 DEF StaleInv
  <2>2. CASE SpinEnds
    BY <2>1, <2>2 DEF SpinEnds, history
  <2>3. CASE ProcessEntry
    <3>1. PICK c, e : c = job.shadowEntries /\ e = Cell(c, idx)
      OBVIOUS
    <3>2. /\ job # NoJob /\ idx <= job.numEntries
          /\ again' = IF ~(idx < job.numEntries) /\ e # FreeSlot THEN again \cup {e.n} ELSE again
          /\ last' = IF idx < job.numEntries THEN e.n ELSE last
      BY <2>3, <3>1 DEF ProcessEntry
    <3>3. c \in Buffers /\ job.numEntries \in Nat /\ idx \in Nat /\ TypeOK
      BY <3>1, <3>2, BatchFacts DEF BaseInv, TypeOK
    <3>4. CASE ~(idx < job.numEntries) /\ e # FreeSlot
      <4>1. idx = job.numEntries /\ last' = last /\ again' = again \cup {e.n}
        BY <3>2, <3>3, <3>4
      <4>2. idx < Window /\ e = buf[c][idx]
        BY <3>1, <3>4 DEF Cell
      <4>3. idx \in Slots
        BY <3>3, <4>2, WindowFacts DEF Slots
      <4>4. e.n <= last
        BY <3>1, <3>2, <4>1, <4>2, <4>3 DEF StaleInv, Past
      <4>5. e \in Entry
        BY <3>3, <4>2, <4>3, SlotNumbers
      <4>6. e.n \in Nat /\ e.n >= 1
        BY <3>4, <4>5, EntryFacts, WindowFacts DEF Stamps
      <4>7. QED
        <5>1. e.n \in 1 .. last'
          BY <1>2, <4>1, <4>4, <4>6
        <5>2. QED
          BY <2>1, <4>1, <5>1
    <3>5. CASE ~(~(idx < job.numEntries) /\ e # FreeSlot)
      BY <2>1, <3>2, <3>5
    <3>6. QED
      BY <3>4, <3>5
  <2>4. QED
    BY <2>2, <2>3
<1>4. QED
  BY <1>1, <1>2, <1>3, FrameStale

\* The buffer that goes back holds only entries that have been executed.
LEMMA RetireStale ==
  ASSUME BaseInv, PlaceInv, OrderInv, StaleInv, Retire
  PROVE  StaleInv'
<1>1. PICK f \in Counts(workQueue) : OrderBy(f)
  BY DEF OrderInv
<1>2. PICK b, m, k : b = job.shadowEntries /\ m = job.numEntries /\ k = f[1]
  OBVIOUS
<1>3. /\ job # NoJob /\ job' = NoJob /\ idx > m
      /\ readyQueue' = Append(readyQueue, b)
      /\ UNCHANGED <<buf, workQueue, cur, slotStart, last, again>>
      /\ mainPc' \in Holding <=> mainPc \in Holding
  BY <1>2 DEF Retire, Holding, history
<1>4. b \in Buffers /\ m \in Nat /\ idx \in Nat /\ last \in Nat /\ TypeOK
  BY <1>2, <1>3, BatchFacts DEF BaseInv, TypeOK, Stamps
<1>5. last = k /\ Numbered(b, m, k - m)
  BY <1>1, <1>2, <1>3, <1>4 DEF OrderBy, JobOrder, ToCome
<1>6. Past(buf, last, b, 0)
  <2> SUFFICES ASSUME NEW i \in Slots  PROVE buf[b][i].n <= last
    BY DEF Past
  <2>1. CASE i >= m
    BY <1>2, <1>3, <2>1 DEF StaleInv, Past
  <2>2. CASE ~(i >= m)
    <3>1. i \in 0 .. m - 1 /\ i \in Nat
      BY <1>4, <2>2, WindowFacts DEF Slots
    <3>2. buf[b][i].n = (k - m) + i + 1
      BY <1>5, <3>1 DEF Numbered
    <3>3. QED
      BY <1>4, <1>5, <3>1, <3>2
  <2>3. QED
    BY <2>1, <2>2
<1>7. \A c \in Buffers : ReadyIn(readyQueue', c) => ReadyIn(readyQueue, c) \/ c = b
  <2>1. JobHas(b)
    BY <1>2, <1>3 DEF JobHas
  <2>2. ReadyOnce(readyQueue) /\ ~ReadyIn(readyQueue, b) /\ readyQueue \in Seq(Buffers)
    BY <1>4, <2>1 DEF PlaceInv, PlaceOf, TypeOK
  <2>3. QED
    BY <1>3, <1>4, <2>2, ReadyAppend
<1>8. \A c : MainHas(c)' <=> MainHas(c)
  BY <1>3 DEF MainHas
<1>9. QED
  BY <1>3, <1>6, <1>7, <1>8 DEF StaleInv

\* At the start every slot is free.
LEMMA InitStale == Init => StaleInv
<1> SUFFICES ASSUME Init  PROVE StaleInv
  OBVIOUS
<1>1. \A b \in Buffers, i \in Slots : buf[b][i] = FreeSlot
  BY DEF Init, Slots
<1>2. last = 0 /\ workQueue = <<>> /\ Len(workQueue) = 0 /\ job = NoJob /\ again = {}
  BY DEF Init
<1>3. \A b \in Buffers : \A m : Past(buf, last, b, m)
  BY <1>1, <1>2, EntryFacts DEF Past
<1>4. QueuePast(buf, last, workQueue)
  BY <1>2 DEF QueuePast
<1>5. QED
  BY <1>2, <1>3, <1>4 DEF StaleInv

\* Every step keeps what lies behind a batch in the past.
LEMMA NextStale ==
  BaseInv /\ PlaceInv /\ OrderInv /\ StaleInv /\ [Next]_vars => StaleInv'
<1> SUFFICES ASSUME BaseInv, PlaceInv, OrderInv, StaleInv, [Next]_vars  PROVE StaleInv'
  OBVIOUS
<1>1. CASE Program \/ Handshake \/ WaitPop \/ ReportStatistics
  <2>1. again' = again
    BY <1>1 DEF Program, Ship, PrintJSON, GetFreeSlot, Handshake, WaitPop, ReportStatistics, history
  <2>2. QED
    BY <1>1, <2>1, MainHands, HandStale
<1>2. CASE Join \/ (\E v \in Garbage : ReuseStack(v)) \/ UNCHANGED vars
  <2>1. UNCHANGED <<buf, workQueue, readyQueue, cur, slotStart, job, last, again>>
    BY <1>2 DEF Join, ReuseStack, vars, mainVars, shadowVars, history
  <2>2. mainPc' \in Holding <=> mainPc \in Holding
    BY <1>2 DEF Join, ReuseStack, vars, mainVars, Holding
  <2>3. last \in Nat
    BY SlotNumbers DEF BaseInv
  <2>4. last' \in Nat /\ last' >= last /\ again' \subseteq 1 .. last'
    BY <2>1, <2>3 DEF StaleInv
  <2>5. QED
    BY <2>1, <2>2, <2>4, FrameStale
<1>3. CASE TryPop
  BY <1>3, TryPopStale
<1>4. CASE ProcessEntry \/ SpinEnds
  BY <1>4, ExecuteStale
<1>5. CASE Retire
  BY <1>5, RetireStale
<1>6. QED
  BY <1>1, <1>2, <1>3, <1>4, <1>5 DEF Next, MainSteps, ShadowSteps, Terminated

\* What processShadowBatch executes behind a batch that is not full was executed
\* before, for any number and length of buffers, and it never starts a second
\* cycle search, which nobody would answer.
THEOREM ReplaysExecutedBefore == Spec => []ReplaysArePast
<1>1. BaseInv /\ CycleInv /\ StaleInv => ReplaysArePast
  <2> SUFFICES ASSUME BaseInv, CycleInv, StaleInv, spinning
               PROVE  idx < job.numEntries
    BY DEF ReplaysArePast, StaleInv
  <2>1. job # NoJob /\ job \in Batch /\ idx < Window /\ idx \in Nat
    BY DEF BaseInv, ControlInv, TypeOK, CycleInv, SpinInv
  <2>2. PICK c : c = job.shadowEntries
    OBVIOUS
  <2>3. JobHas(c) /\ c \in Buffers /\ idx \in Slots /\ Request(c, idx)
    BY <2>1, <2>2, BatchFacts, WindowFacts DEF JobHas, Slots, CycleInv, SpinInv
  <2>4. job.numEntries = idx + 1
    BY <2>3 DEF CycleInv, EndsBatch
  <2>5. QED
    BY <2>1, <2>4
<1>2. QED
  BY <1>1, InitBase, NextBase, InitPlaces, NextPlaces, InitOrder, NextOrder, InitCycle, NextCycle,
     InitStale, NextStale, PTL DEF Spec

=============================================================================
