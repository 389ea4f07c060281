# A TLA+ verification project for CARMOT

CARMOT instruments a program with an LLVM pass and runs it with a runtime that
finds out, for each *region of interest* (ROI, a "State" in the code), which
memory the region reads, writes, privatises or carries from one iteration to the
next. This project models the runtime: how accesses are filtered, shipped,
classified and reported, how allocations come and go, and how call stacks become
IDs; and of the pass, the analysis that leaves accesses without instrumentation.

Paths below are relative to the repository.

## The system

| Component | State | Operations | Interacts with |
|---|---|---|---|
| Compiler pass (`src/CatPass.cpp`, analyses beside it) | none at run time | inserts calls of the wrapper, leaves out redundant ones | calls the wrapper |
| Wrapper (`include/wrapper.cpp`) | `loads`, `stores`, call-stack caches, results to save | one function per instrumented event, `prologue`, `PrintJSONWrapper` | calls the TEXAS runtime on the program's thread |
| ROIs (`texas.cpp`, `State.cpp`) | `stateMap`, `activeState`, `State::parent` | `GetState`, `EndState`, `EndStateInvocation` | ships `STATE_BEGIN`, `STATE_END`, `STATE_COMMIT` |
| Batching (`texas.cpp`) | buffers, `slotStart`, work and ready queue | `getFreeSlot`, `batchFull`, `ReportStatistics` | program's thread to shadow thread |
| Shadow thread (`texas.cpp`, `Shadow.cpp`) | `oldState`, the batch it executes | `singleShadowProcessShadowBatches`, `cleanBatch`, `processShadowBatch` | owns the automaton, the allocation table and the sets |
| Classification (`cleanBatch`) | `statePtrMap`, `statePtrIterMap`, `currentPtrIterUpgrades` | two passes over a batch | notes for `processAddToState` |
| Sets (`Allocation.cpp`, `State.cpp`) | `StateCommitInfoMap`, set pairs such as `TransferIO`/`FinalTransferIO` | `commitStateInfo`, `CommitState`, `ReportState` | read by `PrintJSONWrapper` |
| Allocation table (`AllocationTable.cpp`) | hash table by masks, sorted table, connection graph | find, insert, delete, cycles | shadow thread, and `GetMemFootprint` from the program's thread |
| PIN tool (`utils/MemTrace`) | touched addresses | fills a vector the wrapper reads | wrapper |
| Reporters, helper passes (`utils/`) | none | one-shot | read the JSON, rewrite IR |

`extra/pin` is vendored. Call stacks live in the wrapper (`uniqueTraces`,
`hashToTraceMap`, `traces`, `dynamicTraces`); the pass decides at the entry of each
function which way its stack is captured.

The hard behaviours are: two threads and a bounded pool of buffers; entries that
cut a batch short; a handshake through a stack variable at shutdown; a
per-iteration automaton fed in batches whose boundaries have nothing to do with
iterations; a shadow that lags behind and keeps its own idea of the active ROI;
objects that blocks of one origin share while notes about the earlier block are
still to be committed; call stacks compared by hash and by a prefix; calls of the
wrapper that the pass leaves out. `hazards` in `PROJECT.json` lists them line by
line.

What makes the components correct: an address gets the class its history
defines; an access is charged to the ROI it was made in; entries arrive in order,
once and completely; buffers have one holder and waits end; what was classified
is what is reported; an address is found in the allocation it lies in, and its
accesses survive the free of the block or end with it where both happened inside
the ROI; a call has one ID and an ID one instruction; an access without
instrumentation only repeats one that was reported.

## Modules

| Module | Models | Code |
|---|---|---|
| `SpoorClasses` | the classes and the transition functions | `cleanBatch`, first pass |
| `SpoorFSA` | filter and automaton for one ROI, with a history of all accesses | `texasAddToStateLoad`, `texasAddToStateWithInfoWrapper`, `cleanBatch`, `CommitState` |
| `SpoorFSAProofs` | its theorems | |
| `RegionTracking`, `MCRegionTracking` | nested ROIs, the program's and the shadow's active ROI, the shared filter | `GetState`, `EndState`, `EndStateInvocation`, `cleanBatch` |
| `RegionTrackingProofs` | its theorems | |
| `ShadowBatching`, `MCShadowBatching` | buffers, queues, both threads, epilogue | `batchFull`, `getFreeSlot`, `processShadowBatch`, `ReportStatistics`, `PrintJSONWrapper` |
| `ShadowBatchingProofs` | its theorems | |
| `EntryStream` | abstract: an in-order stream that is complete when closed | |
| `SpoorCommit`, `MCSpoorCommit` | extends `SpoorFSA` by batches, notes, commits and the report | `cleanBatch`, second pass, `processAddToState`, `commitStateInfo`, `CommitState` |
| `SpoorCommitProofs` | its theorems | |
| `AllocationLife`, `MCAllocationLife` | malloc, realloc and free, lookups, notes for nested ROIs, commits | `AllocationTable.cpp`, `processAddAlloc`, `processFreeAllocation`, `processAddToState`, `processStateRegionSet`, `commitStateInfo`, `CommitState` |
| `AllocationLifeProofs` | its theorems | |
| `CallStacks`, `MCCallStacks` | capture, interning and IDs of call stacks | `ClusterCallstackInstrumentation.cpp`, `backtrace_asm.S`, `getBacktrace`, `getBacktraceUnique`, `traceCompare`, `saveCallstack` |
| `CallStacksProofs` | its theorems | |
| `TouchSameObject`, `MCTouchSameObject` | the data-flow analysis over a control-flow graph, and the run of the function it leaves | `TouchSameObject.cpp`, `visitLoadInst`, `visitStoreInst` |
| `TouchSameObjectProofs` | its theorems | |

How they fit: `ShadowBatching` shows that batches deliver the entries in order and
that their processing is complete when the report starts (it implements
`EntryStream`), which is why the other modules may use a sequence
(`RegionTracking.stream`) or execute an entry when it is shipped (`SpoorFSA`,
`SpoorCommit`, `AllocationLife`). `AllocationLife` relies on `RegionTracking` for the
ROI an entry is charged to, and does for blocks and nested ROIs what `SpoorCommit`
does for the classes of one ROI. The IDs of `CallStacks` are the origins of
`AllocationLife`. `TouchSameObject` says which accesses reach the
wrapper at all. The batches do *not* hide two things: their boundaries fall inside
iterations, which is modelled in `SpoorCommit`, and one stale slot is executed behind
every batch that is not full (`batch_replay`). What the stale slot does is modelled where
it shows: an access noted again in `SpoorCommit` and `AllocationLife`, an allocation or a
free executed again in `AllocationLife`, the commit of a ROI that is running again in
`RegionTracking` and `AllocationLife`.

### State and actions

* `SpoorFSA`: variables carry the code's names. `GetState`, `Load`, `Store`,
  `EndState`, `EndStateInvocation` are the wrapper's calls together with what
  `cleanBatch` does with the entry. An access that the filter drops only changes
  `hist`, the reference history.
* `RegionTracking`: `GetState`, `EndState`, `Load`, `Store`,
  `EndStateInvocation` ship entries; `Clean` takes one. Entries carry the true ROI
  (`roi`), which no code reads. `Encloses` says which ROI the program may enter
  from which. `Commit` also executes the slot behind the batch that the commit ends: any
  commit executed before may happen a second time, and empties the maps of its ROI, which
  may be running. `forgotten` keeps what the ROI had heard of by then. Other entries in
  the slot do not touch these maps.
* `ShadowBatching`: `Ship`, `PrintJSON`, `Handshake`, `WaitPop`, `ReportStatistics`
  and `Join` are the program's thread, `TryPop`, `ProcessEntry`, `SpinEnds` and
  `Retire` the executing one (the same thread when `disableOptimizations` is set,
  `mainPc = "serial"`). Queue operations are atomic because the queues are
  spin-locked; the two pushes of `ReportStatistics` are one step because nobody but
  the popping thread sees the queue. `cleanBatch` is no step here: it changes no
  queue, no order and no length. The slot behind a full buffer holds 0: buffers of
  the default window are mapped, and the array ends sixteen bytes into its last
  page. `ReuseStack` is what later calls leave in the stack slot of `syncValue`.
* `SpoorCommit`: `CGetState` ... are `SpoorFSA`'s actions with their slot of the
  batch; `Flush` is a full batch, `CEndStateInvocation` a commit, which ends its
  batch, `ReportStatistics` the end. `Replay` lets any entry executed before be
  executed again behind a batch that is not full: more than the one slot the code
  looks at, so what is checked holds for every content of the buffers. That the slot
  holds nothing *but* an entry executed before is `ReplaysArePast` of `ShadowBatching`.
* `AllocationLife`: `Alloc`, `Free`, `Realloc`, `Access`, `SetStateRegion` and
  `EndStateInvocation` are calls of the program with what the shadow does for them;
  `LastBatch` and `ReportStatistics` end the run. `SlotBehind` follows a commit and the
  last batch, which are not full: it executes nothing of consequence, or one of the
  entries that `Leave` has put aside in `past` when they were executed first
  (`AgainAdd`, `AgainFree`, `AgainAccess`, `AgainCommit`). An access left in a slot has
  climbed to the outermost ROI, because `processAddToState` overwrites the entry's State
  on its way to the parents (`Climbed`). `trackCycles` is off. `table` is `sortedAllocationTable` (the hash table
  by masks stays empty: `texas_init` creates the table without masks), `object` is
  `originToAllocMap`: one object for all blocks of an origin. The seven sets of a State
  are treated alike by this code and one set of notes stands for them. `blocks`,
  `fresh`, `settled` and `owed` say what the program really did and what its ROIs
  therefore owe: an access counts once its ROI has committed, unless its block was
  allocated and freed inside the ROI before. Two things are exempt, and each property
  says so. Origins in `confused`: those that ever had two live blocks at once, which
  share one pointer and one length, and those that the slot behind a batch has
  disturbed, by a free of the block that is now at the address, or by an allocation that
  brings back a dead block and may hide another one. Notes in `echoed`: those an
  access executed again has made. Both are consequences of listed hazards, and the
  properties say that the damage goes no further.
* `CallStacks`: `calls` is any set of the call sites, and
  `uniqueCallstackFunctions` what the pass makes of it. A trace is the stack it was
  taken from; `buffer` gives its return addresses, cut at `TRACE_SIZE`. Words are
  functions from bytes to bits, so that the exclusive or of a hash and the comparison
  of the first `nptrs` *bytes* are what the code does. `getBacktrace` is the one of the
  default build, without a cache.
* `TouchSameObject`: a function is a control-flow graph, one instruction per node;
  dominance is stated by separating sets of nodes. `Solutions` are all results that the
  equations allow, the engine's fixed point among them. The caller may start and end
  ROIs of its own around the calls. The analysis is modelled as it works alone: builds
  also run `OnlyRead` and `DirectState`, which drop more.

Left out on purpose: use information (`useInfo`), debugging output, footprints,
`batchNumber`.

## Runs

| Run | Shows |
|---|---|
| `regions` | `ChargedToInnermost`, `OutermostComplete`, `OnlyOwnAccesses`, `ShadowFollows` |
| `batching` | `OneHolder`, `InOrder` (refinement of `EntryStream`), `NoCircularWait`, `WaitUsesUpWork`, `ReplaysArePast`, `NeverStuck` |
| `commit` | `ClassIsReference`: class = reference over the whole history; `ClassOnlyRises`, `WholeIterationsReported`, `NothingInvented` |
| `allocations` | `LookupFindsBlock`, `NothingLost`, `NothingExtra` |
| `callstacks` | `UniqueTraceIsPath`, `SameCallSameID`, `IDTellsInstruction` |
| `skips` | `NothingMissed` |
| `nested_filter` | violated `EveryRegionComplete`: the filter is shared by nested ROIs |
| `batch_replay` | violated `ExecutedOnce`: the loop bound is one too large |
| `shutdown_hang` | violated `ReportCompletes`: handshake through a dead stack frame |
| `split_iteration` | violated `EveryAddressReported`: accesses of an iteration that a batch boundary cuts are dropped |
| `erased_note` | violated `SavedAllocationsHaveEntries`: a free erases the entry that the saving of results dereferences |
| `two_call_sites` | violated `UniqueTraceIsCurrent`: a function that one caller calls in two places keeps the stack of the first call |

Bounds.

* `regions`: an outer ROI, one nested in it, one after it; ten calls and a lag of
  three entries, so that the shadow can be behind the end of an inner ROI while the
  program is in the next. Ten calls are enough for the outer ROI to be committed, to be
  entered again and to be committed a second time behind the batch of the inner one:
  without the exception for `forgotten`, `OutermostComplete` fails here. `CHECK_DEADLOCK FALSE` because the program stops after
  `MaxCalls` calls.
* `batching`: three buffers of two slots, eight entries before the epilogue's own:
  every buffer is reused, full and partial batches follow each other in all orders.
  Three configurations are checked: shadow thread with and without the cycle
  search, and the serial build. The serial build with the cycle search waits for
  itself (see the hazards). The theorems remove the bounds, except for `NeverStuck`.
* `commit`: batches of four entries, two addresses, three iterations, five accesses,
  everything tracked or transfers only. The longest paths of the automaton (INPUT, IO,
  CIO, TIO and OUTPUT, CO, TO) take three iterations, and four accesses on one address
  leave one for another. The theorems remove the bounds.
* `allocations`: two usable addresses, blocks of one or two cells, two origins, an
  inner ROI in an outer one, seven operations, one entry that may be executed again:
  enough to allocate, access and free a block across a commit, to place a second block
  beside or over it, and to repeat the allocation, the free, the access or the commit
  behind a later batch. The theorems remove the bounds. The origins are
  interchangeable (symmetry). The addresses are computed modulo `AddrSpace`; the
  sentinel is the top one.
* `callstacks`: all 128 programs over main and two functions in which main may call one
  function in two places, a stack of four frames
  with buffers of three pointers (so that stacks are cut), two-byte words chosen so that
  stacks collide in the hash, in the compared bytes and in the bucket, eight steps.
  `CHECK_DEADLOCK FALSE` because the program stops after `MaxSteps`.
* `skips`: all control-flow graphs over an entry, two accesses, the start and the stop
  of a ROI and an exit, where three of the nodes may branch; with and without a ROI in
  the function, through the same object, another object, or loads against stores.
  The theorem removes the bounds.

Fairness is weak fairness of each thread's steps inside the runtime
(`MainSteps`, `ShadowSteps`): the operating system schedules both threads, and each
waits by polling. Nothing forces the program to make another call, and nothing
forces or forbids the reuse of the stack. `NeverStuck` is checked with
`Garbage = {0}`, a dead slot that stays zero; with another value it fails, which is
`shutdown_hang`.

## Proofs

`SpoorFSAProofs` (TLAPS, any addresses and bounds):

* `TypeCorrect`, `ClassificationCorrect`, `ClassesRise`: `Spec` implies `[]TypeOK`,
  `[]ClassIsReference` and `ClassOnlyRises`.
* The invariant behind them adds to `ClassIsReference` what ties the automaton's
  memory to the history: `loads` and `stores` are exactly the addresses with a
  read, or a write, of the running iteration; `currentPtrIterUpgrades` holds a known
  address once its iteration's first access has had its say; times and iteration
  numbers in `hist` are below `clock` and at most `iter`. Without it a filtered
  access might have mattered.

`RegionTrackingProofs` (TLAPS, any ROIs, addresses and bounds):

* `TypeCorrect`: `Spec => []TypeOK`.
* `ChargeCorrect`: under `StaticNesting` (each ROI is always entered from the same
  place) `Spec => []ChargedToInnermost`. The invariant is a chain: every entry in the
  stream was shipped in the ROI where the one before it left off, the chain starts at
  the shadow's `batchState` and ends at `activeState`. That `EndState` returns to the
  ROI below on the stack needs `StaticNesting`: `GetState` keeps the parent of a ROI's
  first entry. `MCRegionTracking` has TLC evaluate the assumption on the instance.
* `OutermostHeard`: under the same assumption `Spec => []OutermostComplete`, which excepts
  what an old commit of the ROI, executed again, made it forget. While
  entries are on their way, each access of an outermost ROI is in one of three places
  (`Told`): known to the shadow, or made forgotten by a repeated commit (`Kept`); new in an iteration whose end is still to come; in the
  stream, with its iteration's end behind it. In none of them does a commit of the ROI
  follow. `FilterInv` adds why the filter keeps nothing back that the ROI has not
  reported: nested ROIs fill it, but their end empties it.
* `NothingForeign`: under the same assumption `Spec => []OnlyOwnAccesses`, for every ROI.
  `OwnInv` is the converse of `Told`: what the shadow has heard of a ROI, and each access
  of the ROI in the stream, was touched by the program, unless a commit of the ROI is
  still to come behind it.
* `ShadowAgrees`: `Spec => []ShadowFollows` for any nesting, recursion included.
  `FollowInv` walks the stream: a function gives the active ROI before each entry, starting
  at `batchState` and ending at `activeState`. It works because a State's parent, once set,
  never changes: the shadow reads it later than the wrapper did and finds the same ROI.
  `StaticNesting` is therefore needed for *which* ROI is active, not for the agreement
  of the threads.

`TouchSameObjectProofs` (TLAPS, any functions, ROIs and engine results):

* `TypeCorrect`, `SkippingIsSound`: `Spec => []TypeOK`, `Spec => []NothingMissed`.
* The invariant says what the data-flow results mean at run time: while control is at a
  node, every object in its IN set has been reported, by an access of that kind, to the
  current invocation of every running ROI (`AvailableReported`). A ROI that starts
  there would break it, so `FreshStarts` adds that nothing is available where a ROI
  starts: the dominance test admits an access only behind the starts of all ROIs of the
  function, so nothing is available on the way from the entry to a start, and the IN set
  of the start, met over all paths, is empty.

`CallStacksProofs` (TLAPS, any program, call sites and return addresses):

* `TypeCorrect`, `UniqueStacks`, `StableIDs`, `IDsTell`.
* `UniqueStacks` rests on a lemma about the traversal (a visited function has at most
  one caller, and that caller is visited), and on records: two stacks that end in the
  same visited function go through the same functions. That they are equal does not
  hold: the call graph has one edge however often a function calls another, and with two
  call sites the stack of the first stands for both (`two_call_sites`).
* `StableIDs` and `IDsTell` rest on interning: the trace of a frame has the depth, hash
  and compared bytes of its stack, or in a function with a unique stack those of the one
  captured first; these are an equivalence, and no two IDs agree in instruction and in
  them. That the stacks themselves agree does not follow, and does
  not hold.

`ShadowBatchingProofs` (TLAPS, any number and length of buffers, every build):

* `TypeCorrect`, `BuffersHeldOnce`, `BatchesAreStream`: `Spec` implies `[]TypeOK`,
  `[]OneHolder` and `InOrder`, the refinement of `EntryStream`.
* The invariant has three parts. `BaseInv` says which thread may be where: the kill
  batch is the last one in the work queue, a dead shadow thread leaves nothing behind, the
  serial build has no queue. `PlaceInv` puts each buffer in exactly one of four places (being filled,
  in the work queue, being executed, in the ready queue). `OrderInv` counts: there is a
  function giving the number of entries before each queued batch, the slots of each
  buffer are numbered from it on, and what was executed and what is left of the batch
  in execution add up to its first value. The steps of the program's thread that hand
  a batch over share one lemma (`Hand`).
* The theorem is about the entries *in* a batch. The slot behind it, which the loop bound
  adds, is `batch_replay`'s subject and has its own variable (`again`).
* `WaitsAreServed`: `Spec => []NoCircularWait`. `CycleInv` follows the one cycle search of
  a run: there is at most one request, it is the last entry of its batch, and from the
  time it is sent until the program answers, its batch is the last one queued, or it is
  being executed with nothing queued behind it. A shadow thread that waits for the answer
  thus holds one buffer and the queue none, so that another one is ready for `waitPop`:
  this is where two buffers (`NUM_BATCHES >= 2`) are needed. `KillInv` adds that the kill
  batch is queued while `join` waits. The third conjunct of `NoCircularWait` admits a shadow
  thread that still spins while `join` waits: its answer has been given, and whether it
  sees it is `shutdown_hang`'s subject.
* `WaitsShrink`: `Spec => WaitUsesUpWork`. `Left` counts the steps that are left of the
  batch in execution. Together with `WaitsAreServed` this is the argument of `NeverStuck`
  except for the scheduling: a waiting program leaves the executing thread something to
  do, and every step of it makes what is left smaller.
* `ReplaysExecutedBefore`: `Spec => []ReplaysArePast`. `StaleInv` says of every buffer,
  wherever it is, that the slots behind its entries hold numbers of executed entries. A
  buffer that goes back satisfies it because `OrderInv` puts its last number at `last`.
  That the slot is no cycle search follows from `CycleInv`: the batch of the request
  ends with it, and the buffer is never filled again.

`SpoorCommitProofs` (TLAPS, any batch length, addresses and tracked sets):

* `CommitTypeCorrect`, `UpgradesReported`, `ReportInventsNothing`: `CommitSpec` implies
  `[]CommitTypeOK`, `[]WholeIterationsReported`, `[]NothingInvented`.
* `CommitImplementsFSA`: `CommitSpec => Spec` of `SpoorFSA`, which carries its theorems
  over (`ClassesCorrect`, `ClassesStayUp`).
* On top of the invariant of `SpoorFSAProofs`: every note is justified by an earlier
  commit or by the class its address has now (`NotesInv`, which is where classes that
  only rise are needed); what the uncut iteration touched is in the batch (`CutInv`);
  an address of a whole iteration is noted with its class, untracked, or still to be
  noted from the batch (`WholeInv`).

`AllocationLifeProofs` (TLAPS, any origins, ROIs, addresses and bounds):

* `TypeCorrect`, `LookupCorrect`, `ReportComplete`, `ReportSound`: `Spec` implies
  `[]TypeOK`, `[]LookupFindsBlock`, `[]NothingLost`, `[]NothingExtra`.
* The table holds the sentinel, one entry per live block of an origin that is not
  confused, and other entries only of confused origins and only where they hide no
  block but a confused one; blocks are apart (`TableFor`). The object of an origin that
  is not confused describes its only live block (`ObjectInv`). Of such an origin, pending
  notes are the accesses since the last free or commit, temporary ones those settled,
  final ones those owed, in each case with at most notes in `echoed` besides
  (`NotesFor`). The slots hold addresses in use and allocations with an origin
  (`PastInv`). The proof has one lemma per action, one of them (`SlotIInv`) for the slot
  with a lemma for each kind of entry in it.

Every invariant and action property the passing runs check, and the refinement, is thus
proved without the bounds of the instances. Only model-checked: `NeverStuck`, because the
prover does not handle liveness (its safety part is `WaitsAreServed` and `WaitsShrink`), and
the six violations.

## Plan

1. Done: classification, regions, batching, commits, allocations, call stacks, and the
   data-flow analysis of the pass.
2. Left to model: classes and frees together (`SpoorCommit` over `AllocationLife`), for
   what a reused address inherits; stores of several elements and the vector of the PIN
   tool in the filter; lengths of direct state; `OnlyRead` and `DirectState` beside
   `TouchSameObject`.
3. Proved: every safety property of the passing runs. Left: theorems for what item 2
   would add.

## Not modelled

* The reporters and the helper passes: one-shot and stateless.
* The rewriting of LLVM IR: the model would be LLVM. Of the analyses, loop invariants
  and induction variables are off in the default build.
* The PIN tool's instrumentation and vendored code (`extra/pin`), which is most of the
  repository's lines.
* Escapes and the cycle search: they depend on the contents of the program's memory, and
  their results are never saved.
* Parts of TEXAS that CARMOT does not run (patching, its own compiler passes), and the
  parallel shadow design (`processShadowBatches`), which is compiled but never started.
* The caches of traces of other builds (`MEMORYTOOL_LRUCACHE`, `MEMORYTOOL_CACHE`).
* The JSON: `PrintJSONWrapper` walks over the Final sets; what it relies on is
  `SavedAllocationsHaveEntries`.
