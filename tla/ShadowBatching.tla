--------------------------- MODULE ShadowBatching ---------------------------
(***************************************************************************)
(* How entries travel from the program's thread to the shadow thread       *)
(* (texas.cpp, Shadow.cpp).  The program's thread fills the slots of a     *)
(* buffer of SHADOW_WINDOW entries; a full one, or one cut short by an     *)
(* entry that must not wait, is pushed as a batch on texasWorkEntriesQueue *)
(* and replaced by one popped from texasReadyBatchEntriesQueue.  The       *)
(* shadow thread executes the batch and returns the buffer.  With          *)
(* disableOptimizations there is no shadow thread: batchFull executes the  *)
(* batch itself.                                                           *)
(*                                                                         *)
(* An entry is its kind and n, its number in the order of shipping.        *)
(* "WORK" stands for the entries that neither end a batch nor wait.        *)
(* last and again are history variables.                                   *)
(***************************************************************************)
EXTENDS Naturals, Sequences

CONSTANTS NUM_BATCHES,     \* buffers in circulation
          SHADOW_WINDOW,   \* slots of a buffer
          Builds,          \* the configurations of the runtime to consider
          Garbage,         \* what a later call leaves in a dead stack slot
          MaxEntries       \* bound: entries shipped before the epilogue

Build == [disableOptimizations : BOOLEAN, trackCycles : BOOLEAN]

ASSUME BatchingAssumption ==
    /\ NUM_BATCHES \in Nat /\ NUM_BATCHES >= 2
    /\ SHADOW_WINDOW \in Nat \ {0}
    /\ Builds \subseteq Build
    /\ Garbage \subseteq Nat
    /\ MaxEntries \in Nat

Buffers  == 1 .. NUM_BATCHES
FreeSlot == [op |-> "FREE_SLOT", n |-> 0]
Ops      == {"WORK", "STATE_COMMIT", "DETECT_CYCLE"}
Stamps   == 1 .. MaxEntries + 1     \* the epilogue ships one entry
Entry    == {FreeSlot} \cup [op : Ops, n : Stamps]
Kill     == [status |-> "KILL_BATCH"]
NoJob    == [status |-> "NONE"]

VARIABLES
    build,        \* the configuration, fixed at start-up
    mainPc,       \* where the program's thread is
    todo,         \* what it does once waitPop has returned
    cur,          \* texasWorkEntries
    slotStart,
    produced,     \* entries shipped
    buf,          \* the slots of each buffer
    workQueue,    \* texasWorkEntriesQueue
    readyQueue,   \* texasReadyBatchEntriesQueue
    alive,        \* the shadow thread runs
    job,          \* the batch being executed
    idx,          \* processShadowBatch's i
    spinning,     \* in the loop that waits for *syncVar to become 0
    sync,         \* syncValue, a local of FindCycleInAllocationMapWrapper
    frameLive,    \* that call has not returned
    last,         \* number of the entry of a batch executed last
    again         \* entries executed once more after their batch

mainVars   == <<mainPc, todo, cur, slotStart, produced>>
shadowVars == <<alive, job, idx, spinning>>
history    == <<last, again>>
vars == <<build, mainVars, buf, workQueue, readyQueue, shadowVars, sync,
          frameLive, history>>

\* disableOptimizations comes with a window of one entry.
Window == IF build.disableOptimizations THEN 1 ELSE SHADOW_WINDOW

NewBatch(b, n) == [status |-> "NEW_BATCH", shadowEntries |-> b, numEntries |-> n]

\* texas_init.  The buffers come from mmap, so every slot is zero.
Init ==
    /\ build \in Builds
    /\ mainPc = "run" /\ todo = "NONE"
    /\ cur = 1 /\ slotStart = 0
    /\ produced = 0
    /\ buf = [b \in Buffers |-> [i \in 0 .. SHADOW_WINDOW - 1 |-> FreeSlot]]
    /\ workQueue = <<>>
    /\ readyQueue = [i \in 1 .. NUM_BATCHES - 1 |-> i + 1]
    /\ alive = ~build.disableOptimizations
    /\ job = NoJob /\ idx = 0
    /\ spinning = FALSE
    /\ sync = 0 /\ frameLive = FALSE
    /\ last = 0 /\ again = {}

-----------------------------------------------------------------------------
(***************************************************************************)
(* The program's thread.                                                   *)
(***************************************************************************)

\* batchFull up to waitPop, for the first n slots of buffer b; next is what
\* the thread does after waitPop.
BatchFull(b, n, next) ==
    /\ slotStart' = 0
    /\ todo' = next
    /\ \/ /\ build.disableOptimizations
          /\ job' = NewBatch(b, n) /\ idx' = 0
          /\ mainPc' = "serial"
          /\ UNCHANGED workQueue
       \/ /\ ~build.disableOptimizations
          /\ workQueue' = Append(workQueue, NewBatch(b, n))
          /\ mainPc' = "waitPop"
          /\ UNCHANGED <<job, idx>>

\* A slot that is filled in, its batch pushed with the index of the last entry
\* for the number of entries.
PutOneShort(b, slot, op) ==
    /\ buf' = [buf EXCEPT ![b][slot] = [op |-> op, n |-> produced + 1]]
    /\ produced' = produced + 1
    /\ \/ /\ op = "WORK"
          /\ slotStart' = slot + 1
          /\ mainPc' = "run" /\ todo' = "NONE"
          /\ UNCHANGED <<workQueue, job, idx>>
       \/ /\ op = "STATE_COMMIT"
          /\ BatchFull(b, slot, "NONE")
       \/ /\ op = "DETECT_CYCLE"
          /\ BatchFull(b, slot, "HANDSHAKE")

\* getFreeSlot's slot is filled in.  An entry that must not wait
\* (EndStateInvocation, FindCycleInAllocationMap) ends the batch.
Put(b, slot, op) ==
    /\ buf' = [buf EXCEPT ![b][slot] = [op |-> op, n |-> produced + 1]]
    /\ produced' = produced + 1
    /\ \/ /\ op = "WORK"
          /\ slotStart' = slot + 1
          /\ mainPc' = "run" /\ todo' = "NONE"
          /\ UNCHANGED <<workQueue, job, idx>>
       \/ /\ op = "STATE_COMMIT"
          /\ BatchFull(b, slot + 1, "NONE")
       \/ /\ op = "DETECT_CYCLE"
          /\ BatchFull(b, slot + 1, "HANDSHAKE")

\* getFreeSlot with an off-by-one in its test for a full buffer.
GetFreeSlotOverruns(op) ==
    /\ mainPc = "run"
    /\ \/ /\ slotStart <= Window
          /\ Put(cur, slotStart, op)
       \/ /\ slotStart > Window
          /\ BatchFull(cur, Window, op)
          /\ UNCHANGED <<buf, produced>>
    /\ UNCHANGED <<build, cur, readyQueue, alive, spinning, history>>

\* getFreeSlot: a full buffer is only pushed when the next entry needs a slot.
GetFreeSlot(op) ==
    /\ mainPc = "run"
    /\ \/ /\ slotStart < Window
          /\ Put(cur, slotStart, op)
       \/ /\ slotStart >= Window
          /\ BatchFull(cur, Window, op)
          /\ UNCHANGED <<buf, produced>>
    /\ UNCHANGED <<build, cur, readyQueue, alive, spinning, history>>

\* AddToState, AddToAllocationTable, ..., and EndStateInvocation.
Ship(op) ==
    /\ op # "DETECT_CYCLE"
    /\ produced < MaxEntries
    /\ GetFreeSlot(op)
    /\ UNCHANGED <<sync, frameLive>>

\* PrintJSONWrapper, the program's epilogue, up to the loop of
\* FindCycleInAllocationMapWrapper that waits for syncValue.
PrintJSON ==
    \/ /\ build.trackCycles
       /\ sync' = 0 /\ frameLive' = TRUE
       /\ GetFreeSlot("DETECT_CYCLE")
    \/ /\ ~build.trackCycles
       /\ mainPc = "run"
       /\ mainPc' = "report"
       /\ UNCHANGED <<build, todo, cur, slotStart, produced, buf, workQueue,
                      readyQueue, shadowVars, sync, frameLive, history>>

\* The rest of that call: release the shadow thread and return.
Handshake ==
    /\ mainPc = "handshake"
    /\ sync # 0
    /\ sync' = 0 /\ frameLive' = FALSE
    /\ mainPc' = "report"
    /\ UNCHANGED <<build, todo, cur, slotStart, produced, buf, workQueue,
                   readyQueue, shadowVars, history>>

\* A call on the way to ReportStatistics uses the stack slot of syncValue.
ReuseStack(v) ==
    /\ mainPc = "report" /\ build.trackCycles
    /\ sync' = v
    /\ UNCHANGED <<build, mainVars, buf, workQueue, readyQueue, shadowVars,
                   frameLive, history>>

\* batchFull that goes on with the buffer it has just pushed.
WaitPopKeepsBuffer ==
    /\ mainPc = "waitPop"
    /\ readyQueue # <<>>
    /\ UNCHANGED <<readyQueue, cur>>
    /\ \/ /\ todo \in Ops
          /\ Put(cur, 0, todo)
       \/ /\ todo \notin Ops
          /\ mainPc' = IF todo = "HANDSHAKE" THEN "handshake" ELSE "run"
          /\ todo' = "NONE"
          /\ UNCHANGED <<slotStart, produced, buf, workQueue, job, idx>>
    /\ UNCHANGED <<build, alive, spinning, sync, frameLive, history>>

\* The end of batchFull, and what its caller goes on with.
WaitPop ==
    /\ mainPc = "waitPop"
    /\ readyQueue # <<>>
    /\ readyQueue' = Tail(readyQueue)
    /\ cur' = Head(readyQueue)
    /\ \/ /\ todo \in Ops
          /\ Put(Head(readyQueue), 0, todo)
       \/ /\ todo \notin Ops
          /\ mainPc' = IF todo = "HANDSHAKE" THEN "handshake" ELSE "run"
          /\ todo' = "NONE"
          /\ UNCHANGED <<slotStart, produced, buf, workQueue, job, idx>>
    /\ UNCHANGED <<build, alive, spinning, sync, frameLive, history>>

\* ReportStatistics up to join: the last batch and the kill batch.
ReportStatistics ==
    /\ mainPc = "report"
    /\ \/ /\ build.disableOptimizations
          /\ job' = NewBatch(cur, slotStart) /\ idx' = 0
          /\ mainPc' = "serialLast"
          /\ UNCHANGED workQueue
       \/ /\ ~build.disableOptimizations
          /\ workQueue' = workQueue \o <<NewBatch(cur, slotStart), Kill>>
          /\ mainPc' = "join"
          /\ UNCHANGED <<job, idx>>
    /\ UNCHANGED <<build, todo, cur, slotStart, produced, buf, readyQueue,
                   alive, spinning, sync, frameLive, history>>

\* shadowMasterThread->join()
Join ==
    /\ mainPc = "join"
    /\ ~alive
    /\ mainPc' = "done"
    /\ UNCHANGED <<build, todo, cur, slotStart, produced, buf, workQueue,
                   readyQueue, shadowVars, sync, frameLive, history>>

-----------------------------------------------------------------------------
(***************************************************************************)
(* Executing batches: the shadow thread, or the program's thread itself    *)
(* while mainPc is "serial" or "serialLast".                               *)
(***************************************************************************)

\* singleShadowProcessShadowBatches
TryPop ==
    /\ alive
    /\ job = NoJob
    /\ workQueue # <<>>
    /\ workQueue' = Tail(workQueue)
    /\ \/ /\ Head(workQueue) = Kill
          /\ alive' = FALSE
          /\ UNCHANGED <<job, idx>>
       \/ /\ Head(workQueue) # Kill
          /\ job' = Head(workQueue) /\ idx' = 0
          /\ UNCHANGED alive
    /\ UNCHANGED <<build, mainVars, buf, readyQueue, spinning, sync, frameLive, history>>

\* What lies behind the last slot is the zero padding of the last page.
Cell(b, i) == IF i < Window THEN buf[b][i] ELSE FreeSlot

\* processShadowBatch, one turn of the loop; rightBound is numEntries and the
\* loop includes it.
ProcessEntry ==
    /\ job # NoJob /\ ~spinning
    /\ idx <= job.numEntries
    /\ LET e == Cell(job.shadowEntries, idx)
           inBatch == idx < job.numEntries
       IN /\ last' = IF inBatch THEN e.n ELSE last
          /\ again' = IF ~inBatch /\ e # FreeSlot THEN again \cup {e.n} ELSE again
          /\ \/ /\ e.op = "DETECT_CYCLE"
                /\ sync' = 1 /\ spinning' = TRUE
                /\ UNCHANGED idx
             \/ /\ e.op # "DETECT_CYCLE"
                /\ idx' = idx + 1
                /\ UNCHANGED <<sync, spinning>>
    /\ UNCHANGED <<build, mainVars, buf, workQueue, readyQueue, alive, job, frameLive>>

\* while(*syncVar) ends, and the entry is looked at once more.
SpinEndsRepeats ==
    /\ spinning
    /\ sync = 0
    /\ spinning' = FALSE
    /\ UNCHANGED <<build, mainVars, buf, workQueue, readyQueue, alive, job, idx, sync,
                   frameLive, history>>

\* while(*syncVar) ends.
SpinEnds ==
    /\ spinning
    /\ sync = 0
    /\ spinning' = FALSE
    /\ idx' = idx + 1
    /\ UNCHANGED <<build, mainVars, buf, workQueue, readyQueue, alive, job, sync,
                   frameLive, history>>

\* The buffer is handed back before its last slot was executed.
RetireEarly ==
    /\ job # NoJob /\ ~spinning
    /\ idx + 1 >= job.numEntries
    /\ readyQueue' = Append(readyQueue, job.shadowEntries)
    /\ job' = NoJob
    /\ mainPc' = CASE mainPc = "serial"     -> "waitPop"
                   [] mainPc = "serialLast" -> "done"
                   [] OTHER                 -> mainPc
    /\ UNCHANGED <<build, todo, cur, slotStart, produced, buf, workQueue,
                   alive, idx, spinning, sync, frameLive, history>>

\* The buffer is freed and not handed back, as processShadowBatches does it.
RetireLeaks ==
    /\ job # NoJob /\ ~spinning
    /\ idx > job.numEntries
    /\ job' = NoJob
    /\ mainPc' = CASE mainPc = "serial"     -> "waitPop"
                   [] mainPc = "serialLast" -> "done"
                   [] OTHER                 -> mainPc
    /\ UNCHANGED <<build, todo, cur, slotStart, produced, buf, workQueue, readyQueue,
                   alive, idx, spinning, sync, frameLive, history>>

\* The end of serialProcessShadowBatch: the buffer is ready for reuse.
Retire ==
    /\ job # NoJob /\ ~spinning
    /\ idx > job.numEntries
    /\ readyQueue' = Append(readyQueue, job.shadowEntries)
    /\ job' = NoJob
    /\ mainPc' = CASE mainPc = "serial"     -> "waitPop"
                   [] mainPc = "serialLast" -> "done"
                   [] OTHER                 -> mainPc
    /\ UNCHANGED <<build, todo, cur, slotStart, produced, buf, workQueue,
                   alive, idx, spinning, sync, frameLive, history>>

-----------------------------------------------------------------------------
Program ==
    \/ \E op \in Ops : Ship(op)
    \/ PrintJSON

\* What the program's thread does inside a call of the runtime.
MainSteps   == Handshake \/ WaitPop \/ ReportStatistics \/ Join
ShadowSteps == TryPop \/ ProcessEntry \/ SpinEnds \/ Retire

Terminated == mainPc = "done" /\ UNCHANGED vars

Next ==
    \/ Program
    \/ \E v \in Garbage : ReuseStack(v)
    \/ MainSteps
    \/ ShadowSteps
    \/ Terminated

\* Both threads are scheduled again and again.  The program need not make
\* another call, and need not reuse its stack.
Fairness == WF_vars(MainSteps) /\ WF_vars(ShadowSteps)

Spec == Init /\ [][Next]_vars /\ Fairness

-----------------------------------------------------------------------------
Batch == [status : {"NEW_BATCH"}, shadowEntries : Buffers,
          numEntries : 0 .. SHADOW_WINDOW]

\* Types: in particular slotStart never leaves the buffer.
TypeOK ==
    /\ build \in Builds
    /\ mainPc \in {"run", "waitPop", "handshake", "report", "serial",
                  "serialLast", "join", "done"}
    /\ todo \in Ops \cup {"NONE", "HANDSHAKE"}
    /\ cur \in Buffers
    /\ slotStart \in 0 .. Window
    /\ produced \in {0} \cup Stamps
    /\ buf \in [Buffers -> [0 .. SHADOW_WINDOW - 1 -> Entry]]
    /\ workQueue \in Seq(Batch \cup {Kill})
    /\ readyQueue \in Seq(Buffers)
    /\ alive \in BOOLEAN
    /\ job \in Batch \cup {NoJob}
    /\ idx \in 0 .. SHADOW_WINDOW + 1
    /\ spinning \in BOOLEAN
    /\ sync \in {0, 1} \cup Garbage
    /\ frameLive \in BOOLEAN
    /\ last \in {0} \cup Stamps
    /\ again \subseteq Stamps

\* The places a buffer can be: with the program's thread, queued as a batch,
\* being executed, ready.
Holders(b) ==
    (IF cur = b /\ mainPc \in {"run", "handshake", "report"} THEN {<<"main", 0>>} ELSE {})
      \cup {<<"work", i>> : i \in {j \in 1 .. Len(workQueue) :
                 workQueue[j] # Kill /\ workQueue[j].shadowEntries = b}}
      \cup (IF job # NoJob /\ job.shadowEntries = b THEN {<<"job", 0>>} ELSE {})
      \cup {<<"ready", i>> : i \in {j \in 1 .. Len(readyQueue) : readyQueue[j] = b}}

\* No buffer is lost and none is in two places: the program's thread never
\* writes slots of a batch that waits or is being executed.
OneHolder == \A b \in Buffers : \E h \in Holders(b) : Holders(b) = {h}

\* Entries are executed in the order they were shipped, each of them before
\* the report starts, whatever batches they travelled in.
Stream == INSTANCE EntryStream WITH sent <- produced, handled <- last,
                                    closed <- mainPc = "done"
InOrder == Stream!Spec

\* The program's thread is never stuck: every wait for a buffer, for the
\* answer to a cycle search, for its own processing of a batch and for the
\* shadow thread to end comes to an end.
NeverStuck == mainPc # "run" ~> mainPc \in {"run", "done"}

\* The report at the end of the program run is completed once it was asked for.
ReportCompletes == mainPc = "report" ~> mainPc = "done"

\* The executing thread has a step to take and waits for nobody.
CanExecute ==
    \/ job # NoJob /\ ~spinning
    \/ job = NoJob /\ alive /\ workQueue # <<>>

\* The threads never wait for each other: while the program's thread waits for
\* a buffer in waitPop, for the answer to its cycle search or for the end of the
\* shadow thread, there is work that the shadow thread can do.  In particular
\* the shadow thread, which waits for the program's thread after a cycle search,
\* has left it a buffer by then.
NoCircularWait ==
    /\ mainPc = "waitPop" /\ readyQueue = <<>> => CanExecute
    /\ mainPc = "handshake" /\ sync = 0 => CanExecute
    /\ mainPc = "join" /\ alive => CanExecute \/ spinning

\* What is left of the batch in execution, in steps of processShadowBatch and
\* its caller.
Left ==
    IF job = NoJob THEN 0
    ELSE 2 * (job.numEntries + 2 - idx) - (IF spinning THEN 1 ELSE 0)

\* A wait uses up work: as long as the program's thread waits for the shadow
\* thread, every step takes a batch from the queue or brings the batch in
\* execution nearer to its end, and nothing is added behind it.
WaitUsesUpWork ==
    [][ /\ mainPc \in {"waitPop", "handshake", "join"}
        /\ UNCHANGED mainVars
        => \/ Len(workQueue') < Len(workQueue)
           \/ workQueue' = workQueue /\ Left' < Left ]_vars

\* The slot that processShadowBatch executes behind a batch that is not full
\* holds an entry that was executed before, never one that is still to come,
\* and never a cycle search, which nobody would answer a second time.
ReplaysArePast ==
    /\ again \subseteq 1 .. last
    /\ spinning => idx < job.numEntries

\* A batch is the entries up to the index where its processing stops: none is
\* executed a second time.
ExecutedOnce == again = {}

=============================================================================
