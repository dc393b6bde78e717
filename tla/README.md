# JITCIRModeler in TLA+

JITCIRModeler is an Intel Pin tool.  It runs a JavaScript engine (V8, JavaScriptCore or
SpiderMonkey) under instrumentation, watches the instructions of the engine's optimising
compiler, and rebuilds from the trace the graph of IR nodes that the compiler works on:
which nodes are created, how their edges, values and opcodes change, which nodes are
read or destroyed, and by which instruction.  At the end it writes the graph to
`ir.json`.  This directory models the tool in TLA+, checks the models with TLC and
proves theorems about the core with TLAPS.

All source paths below are relative to `src/IRModeler/` unless they start with `src/`;
API stands for `IRModelerAPI.cpp`.

## 1. Inventory

| Component | Source | State | Operations |
|---|---|---|---|
| IR graph | `IR.h`, API 182-251, 285-560, 965-1107, 1534-1932 | `IRGraph` (nodes, addresses), `writes`, `reads`, `targetMWs`, `instruction.id` | `constructModeledIRNode`, `trackOptimization` and the six operations it dispatches to, `nodeEvaluation`, `updateLogInfo` |
| Node formation | API 262-274, 571-580, 768-905, 1396-1442 | `currentRaxVal`, `targetSrcRegs`, `targetDesRegs` | `analyzeRegWrites`, `get_node_address`, `get_size_*` |
| Tracer callbacks | API 69-97, 1157-1384, 2071-2250 | `tls[]`, `srcRegsHolder`, `desRegsHolder`, `populate_regs`, `eventId`, two mutexes | `checkMemRead`, `recordSrcRegs`, `recordDestRegs`, `recordMemWrite`, `analyzeRecords`, `threadStart`, `initThread`, `contextChange` |
| Instrumentation | `IRModeler.cpp` | `entryPointFound`, `is_jit`, `system_id`, `apiMap`, `fnCallRet` | `insInstrumentation`, `imgInstrumentation`, `recordFnCallRet` |
| Shadow memory | `ShadowMemory.cpp` | a four-level copy-on-write bit map | `setSeen`, `unsetSeen`, `loadSeen`, `reset` |
| String table | `StringTable.cpp` | character array, open-addressing hash map | `insert`, `get`, growth of both |
| Register vector | `RegVector.cpp` | an array, its size and capacity | `insert` (and `remove`, `insertAll`, `removeAll`, which nothing calls), `at` |
| Byte conversion | API 571-626, 917-954 | none | `uint8Toaddrint`, `checkRAXValue`, `checkCopiedValue`, `fixCopyValue` |
| Operand extraction | `Helpers.cpp` 66-426, `IRModeler.cpp` 143-309 | two register vectors per instruction, counts of memory operands | `getSrcDestInfo`, the scheduling of callbacks in `insInstrumentation` |
| Output | API 1941-2060, 2166-2220, 2258-2621 | file buffers | `getFileBuf`, `recordRegState`, `printDataReg`, `setupFile`, `write2Json`, `endFile` |
| Register tables | `PinLynxReg.cpp`, `src/shared` | none | enum lookups; `src/shared/genLynxReg` generates them |
| xed | `src/xed` | - | a vendored instruction decoder |

How they interact.  Pin calls `insInstrumentation` once per instruction of the traced
program; `getSrcDestInfo` tells it which registers and how much memory the instruction
reads and writes, and it decides which callbacks run whenever that instruction executes,
with the addresses of two register vectors as their arguments.  The
callbacks before the instruction record what it is about to read and write, in globals
and in the storage of its thread; `analyzeRecords`, after it, turns the records into
entries of the access maps and calls `analyzeMemWrites`, which calls
`trackOptimization` to find the node that was written and to change it.
`constructModeledIRNode` runs at the return of a creator function, before the return.
`recordMemWrite` also marks the shadow memory, and a thread's first instruction dumps its
registers into a file buffer; one mutex, `dataLock`, is meant to protect both.  Function names go through the string
table.  At the end of the program `endFile` writes the graph.

What is hard here: the callbacks of all threads share the record globals without a lock;
returns and system calls have callbacks before but none after, and an instruction that
faults loses the one after; nodes are found again by address although the compiler reuses
memory; the histories of a node are maps keyed by an instruction number that not every
callback advances; `checkMemRead` unlocks a mutex it never took; callbacks keep pointers to
what `insInstrumentation` allocated; and several arrays have fixed sizes guarded by asserts.

What makes each part correct.  The graph: a slot of a block has one entry, the histories
and the log account for every change of the arrays, nothing overflows, a write reaches the
node that is alive at its address.  Node formation: address, block and size are those the
compiler asked for.  The callbacks: what is recorded for an instruction is that
instruction's, numbers are given out once, no thread waits forever.  `dataLock`: no mark is
lost and no dump torn.  Operand extraction: the callbacks find the registers that the
instruction reads and writes.  Instrumentation: all
code of the compiler is analysed, once the compiler is known.  The string table: an id
means one string, searches end.  The shadow memory: it is a set of addresses, and its
pages are shared or owned, never both.

## 2. Modules

| Module | Models | Depends on |
|---|---|---|
| `SlotGraph` | abstract: nodes, life, at most one link per slot | - |
| `IRGraph` | the graph and every operation on it | - |
| `IRGraphRefinement` | `IRGraph` implements `SlotGraph` | both |
| `IRGraphProofs` | theorems: the arrays and types of `IRGraph` | `IRGraph`, `TLAPS` |
| `IRGraphHistoryProofs` | theorems: the histories, the log, the refinement | `IRGraphProofs`, `IRGraphRefinement` |
| `NodeFormation` | the registers of the formation range, `get_size`, `get_node_address` | - |
| `NodeFormationProofs` | the theorems about `NodeFormation` | `NodeFormation`, `TLAPS` |
| `Tracer` | the callbacks in the threads, their shared storage, two locks, signals | - |
| `TracerProofs` | the theorems about `Tracer` | `Tracer`, `TLAPS` |
| `StringTable` | the hash table of names | - |
| `Instrumentation` | what is instrumented and when; calls the table | `StringTable` |
| `InstrumentationProofs` | the theorems about `Instrumentation` and `StringTable` | `Instrumentation`, `TLAPS` |
| `SeenMap` | abstract: a set of addresses | - |
| `ShadowMemory` | the four-level tree of pages, implements `SeenMap` | `SeenMap` |
| `ShadowMemoryProofs` | the theorems about `ShadowMemory`, the refinement among them | `ShadowMemory`, `TLAPS` |
| `DataLock` | what `dataLock` protects, one machine step at a time | - |
| `DataLockProofs` | the theorems about `DataLock` | `DataLock`, `TLAPS` |
| `RegVector` | a register vector: construction and insertion, as operators | - |
| `Operands` | `getSrcDestInfo` and the callbacks scheduled from it | `RegVector` |
| `OperandsProofs` | the theorems about `Operands` and `RegVector` | `Operands`, `TLAPS` |
| `MC...` | the instances TLC checks | the module of that name |

### IRGraph

One step is one callback.  `nodes[n]` is the record of a `Node`: the two arrays `edges`
and `locs` are sequences (their lengths are `numberOfEdges` and `numberOfLocs`), the
`std::map`s of histories are functions from instruction numbers.  `ConstructNode`,
`ConstructIgnored` and `ConstructFails` are the three ways out of
`constructModeledIRNode`; `AnalyzeWrite` and `AnalyzePlain` are `analyzeRecords` for an
instruction with and without a memory write, with the whole of `trackOptimization` under
it (`edgeRemoval`, `edgeReplace`, `edgeAddition`, `nodeDestroy`, `opcodeUpdate`,
`directValueWrite`); `checkMemRead` includes `nodeEvaluation`.  The searches keep the
code's order: the first node whose block contains a location, the first entry at an
address.  The asserts lead to the status "aborted".  What RAX and `get_size` deliver is an
input here (`Allocs`) and the matter of `NodeFormation`.

### NodeFormation

One step is one instruction of the compiler with all its callbacks, or the return of a
creator.  The compiler is external: a bump allocator (`Bump`), the load of the result
(`LoadNode`), pointer arithmetic, comparisons, stores, and the release of its memory
(`Rewind`); it works on the node it asked for last or, before it has asked for one, on nodes
formed earlier (`Known`), whose addresses may be in RAX when a creator returns.  A creator may
return without having asked for memory.  What is assumed, because the tool relies on it: when a
creator that did ask returns, the last value its allocator put into RAX is the node's address
(`Handed`, `Returning`); JavaScriptCore's creator is a constructor that runs after its allocator; a
size is never as large as an address.  Bytes are real: a word is a sequence of bytes,
`uint8Toaddrint` puts them together, `checkRAXValue` looks at the third, and `fixCopyValue` rebuilds
a pointer that was read one byte off (`ShiftedPointersRestored`).  `FormedAsAllocated` and
`AbortsOnlyUnformable` name the cases in which the code does get it wrong or gives up: an address that
`checkRAXValue` rejects, a SpiderMonkey or JavaScriptCore node whose ADD was inlined
outside an allocator function (its result is not recorded), and memory that was released
and given out again within one formation range (the first match is the earlier block).
`AbortsOnlyUnformable` has three more: a creator that returns without having asked for memory
(no RAX value is kept, or the address of an earlier node), a V8 node that nothing was stored
into (`get_opcode_v8` asserts that a write to it was collected), and a size of `MAX_NODE_SIZE`
or more.  Which opcode is found, and whether one is, is an input (`CreatorIgnored`).

### Tracer

Every callback is cut where it touches shared state, and threads and signals interleave
between the pieces.  A recorded register is the number of the instruction it was read for;
so attribution is a property of the state.  `todo[t]` is what is left of the callbacks of
the instruction that thread `t` executes.  An instruction that faults loses its analysis;
returns and system calls never have one.  A thread that ends gives its number away.
The ghost variable `overlapped` collects the instructions during whose callbacks another
thread was inside callbacks of its own that can touch what is recorded (`AtWork`).  The
properties of attribution speak of the instructions that are not in it (`Alone`), in behaviours
in which others do overlap, before them and after them.

### StringTable and Instrumentation

The table keeps the code's order of events in `insert`: the index is computed, then the
table may grow, then the index is used.  `reallocMap` enters an entry for the empty string
for every entry that was never used, as the code does.  The FNV step is the parameter
`Mix`; `MCInstrumentation` takes FNV on six-bit words.  That a search ends at all depends on
it: the `for(;;)` of `insert` goes on until the probes meet a free entry.  `SpreadOver` says
how many entries they must meet for the theorems below.  The capacity the table begins with is
chosen from a set, which is {256} in the code, and kept in the ghost variable `firstCapacity`.  `Instrumentation` adds Pin's code
cache as external state: code is instrumented when first executed and then runs as it was
instrumented.

### ShadowMemory

Pages are numbered, 0 is the default page of its level, allocation takes the smallest free
number and `reset` removes what the code's loops delete.  `unsetSeen` and `reset` are operations
of the class that nothing in the repository calls; they are modelled as part of what it promises.  `Parts` splits a mark as the code
does and `setSeenVal` stores the parts one after another.

### DataLock

The same tree again, but for several threads and one machine step at a time: a step reads
a pointer, copies a page, links a copy, or loads or stores one byte of marks.  `pc[t]` is
where thread `t` is in `recordMemWrite` or `initThread`.  `checkMemRead` is one step that
frees the lock whoever holds it; `strays` counts how often that happened.  `PM`, `SM`,
`TM` and `QM` are the pages of the four levels, page 1 of each is the default page.  A
mark comes as the sequence of parts into which `ShadowMemory` shows it to be split.  The
dump of a new thread's registers takes its position from `getFileBuf` and stores it back
at the end, as `recordRegState` does.

### RegVector and Operands

`Instrument` begins with an instruction and constructs its two vectors; `TakeOperand`
looks at one operand and lists what it enters; `Insert` is one call of
`RegVector::insert`; `Correct` adds what `getSrcDestInfo` corrects for two instructions;
`Schedule` inserts the callbacks and returns.  `vectors` holds every vector constructed
and `life` where it lies, `cached` is Pin's code cache with the arguments of the
callbacks.  Capacity and size are bytes, so that the capacity wraps to 0 for an array of
`ByteSize`.  What a register name of Pin or xed means is part of an operand, which is an
input; the register tables are not modelled.  `Tracer` takes the
instructions with these callbacks as its inputs (`srcs`, `dest`, `reads`, `write`).

## 3. Runs

| Run | Question | Bounds |
|---|---|---|
| `edges` | Do arrays, histories and log stay consistent while edges come and go, and does no event of a node precede its creation? | two blocks of 3 slots, 8 writes, 6 analysed instructions, 4 nodes |
| `values` | Does the history of an offset chain up to the value it holds; are evaluations in the block? | a V8 node in a block of 4 or 5 slots, 2 operators, 7 writes, 2 reads, 6 instructions, 5 nodes |
| `attribution` | Is what is recorded for an instruction that no other overlaps its own, under its own number, whatever overlapped before or after it? | 2 threads, together or in turn, 3 kinds of instruction with one source register, 3 executed, 1 signal |
| `threads` | Are numbers exact, and does every callback return? | 3 threads for a table of 2, 3 kinds with one or two source registers, 2 executed, 1 signal |
| `formation` | Do address, block and size come out as allocated; is a shifted pointer restored? | 3 systems, 5 instructions, 2 nodes, words of 6 bytes of one bit |
| `names` | Do names keep ids; is the compiler always traced; is the sequence dense? | 8 instructions, 5 names and the empty one, a table of 4 that grows twice, one of 16 that grows at the fifth name |
| `shadow` | Is the tree of pages a set of addresses? | pages of 16, 5 marks across every level |
| `races` | What of the marks and dumps survives two threads and an unlock that nobody took? | 2 threads, 3 marks that part at each level, 1 stray unlock, 2 registers |
| `operands` | Do cached callbacks find the registers their instruction reads and writes? | bytes of 4 bits, 12 registers, about 60 instructions, 2 instrumented |
| `stored_opcode`, `reused_block`, `faulted_store` | the findings below | smallest that show them |

Why the bounds are enough.  The graph's operations relate at most two nodes and one slot;
two blocks and six writes reach removal, replacement, re-adding at the same slot,
destruction and re-creation at the same address, in every order.  The maps of histories
need two events under one number and two under different ones.  The callback model needs
two threads and one signal for each pair of racing accesses, and three instructions for what
two of them leave behind: a pair that overlaps, or a return or a fault in one thread, and
the instruction after it that is on its own.  The
formation needs five instructions for allocate, compute, store, load, and one more that
disturbs; two nodes for what one leaves to the next.  A race on a byte or a page needs two
threads, a third mark shows what it lost, and one stray unlock lets both in.  A vector grows
three times for FNSTENV, whose nine or ten registers pass the wrap of a four-bit capacity;
the second instruction shows whether the first one's vectors are left alone.  The table must grow twice, because
the damage of the first growth (an entry at an index of the old table) shows in the
second.  Before the first growth a table of 16 holds four names and the empty string; two
of the names have characters that differ by 16, so that all their probes meet the same
entries, in either order of arrival.  The marks cover one byte, two pages of every level, both splits at alignment, and
an overlap.  Counters that would run forever are capped: `MaxInst`, `MaxExec`,
`MaxSignals`, `MaxFormed`, `MaxMarks`, `MaxStrays`, `MaxInstrumented`, and `MaxProbe` cuts the endless loop of a search at the number
of hash values.

The runs with `CHECK_DEADLOCK FALSE` may stop: an assert ends the traced program, or the
bound of the model is reached.  `Tracer` and `ShadowMemory` are checked for deadlock.

Fairness.  Only `threads` needs it: `WF_vars(Callback(t))` for every thread.  The pieces
of a callback are ordinary code on an operating-system thread, which is scheduled whenever
it can run, and a mutex that is released is given to somebody; weak fairness is enough,
because each lock is held for a bounded number of steps and the number of executed
instructions is bounded.  Nothing is assumed of the traced program (`Program`): it may
stop at any time.

Every property of a passing run has a mutant: an operator whose name ends in what the
mutation forgets (`getEdgeIdx_SkipsFirst`, `ResetSrcRegs_Not`), defined before the
definition it stands for, with which the run must find the property violated.

## 4. Findings

1. `stored_opcode`: `trackOptimization` looks for opcode updates only when the node's own
   address is written (API 1588), while JavaScriptCore and SpiderMonkey keep the opcode
   elsewhere in the block.
2. `reused_block`: the scan for a node stops at the first block that contains the location,
   dead or alive (API 1543); after the compiler reuses memory, writes go to the dead node.
3. `faulted_store`: a store that faults leaves its address and size in the thread's storage
   (API 1352); the next instruction of the thread that is analysed records the write as its
   own, although it never happened.

Seen in the models and not runs of their own:
- `checkRAXValue` rejects a correct pointer whose third byte is 0 (API 575).
- Code first executed before the compiler is seen is never analysed (`IRModeler.cpp` 198).
- A load that faults leaves `populate_regs` set (API 1357): the next analysis gives the
  recorded read its own registers, which is why `ReadsCarryTheirRegisters` asks that the
  reading instruction was analysed.
- With two threads, `srcRegsHolder` mixes their registers (API 1162); `Tracer` with two
  threads violates `WritesCarryTheirRegisters` without its exception of instructions that
  overlap.
- `checkMemRead` unlocks `dataLock`, which it does not hold (API 1248).  Once that frees the
  lock under its holder, marks can be lost and dumps torn, which is why two properties of
  `races` are stated up to the first such unlock.
- Two analyses that overlap record their accesses under one number (API 1376).
- FNSTENV can have eleven source registers, one more than `recordSrcRegs` allows (API 1185).
- The log entry of a node's creation is overwritten by the next analysed instruction
  (API 1633).
- `opcodeUpdate` compares with the opcode of creation; a change back is lost (API 1862).
- After the first growth a name can be interned twice (`StringTable.cpp` 109).
- `recordFnCallRet` runs at instrumentation, so it records the order of first execution,
  not of calls and returns (`IRModeler.cpp` 228).
- `fixCopyValue` writes behind its buffer (API 952); `loadSeen`, which nothing calls, loses
  bits of long buffers (`ShadowMemory.cpp` 565).

## 5. Proofs

`IRGraphProofs` proves, for every set of instructions, allocations and reads, every system
and every limit that satisfies the assumptions of `IRGraph`:

- `TypeCorrect`: `Spec => []TypeOK`.  Edges name existing nodes, histories are keyed by
  instruction numbers that were given out, an edge array never names a NULL node that a
  removal would then follow.
- `OneEntryPerSlotHolds`: no two entries of the edge array have one address, no two of the
  value array one offset.
- `ArraysNeverOverflowHolds`: the arrays stay below their fixed sizes, so the asserts of
  `edgeAddition` and `directValueWrite` never fail.

The inductive invariant is `Slots`: the types, one entry per slot, and `BlocksFit` (a
block is not empty and is smaller than `MAX_NODE_SIZE`).  `ArraysNeverOverflow` is not
inductive: the arrays grow by one entry at a time, and what bounds them is that the
entries are for distinct slots of a block of bounded size, a pigeonhole argument
(`PigeonHoleSeq`).  `OneEntryPerSlot` in turn needs the types, for the searches
(`SearchEdges`, `SearchLocs`) to mean that an address that was not found is not there.
The proof has one lemma per operation on a node for types (`...Type`), one for the fields
(`...Fields`), and one step per action of `Next`.

`IRGraphHistoryProofs` proves what the nodes remember, from `Slots`:

- `LogMatchesHistoryHolds`, `EvaluationsInBlockHolds`, `ValueChangesChainHolds`,
  `EdgeBalanceHolds`.  Their invariant is `HistoryInv`, one predicate `NodeHistory` of every
  node.  None of the four is inductive alone: a map keyed by an instruction number loses an
  entry if the number comes twice, so the invariant says that the current number is not in
  the maps of edits yet and that the log has at most a creation or an evaluation under it
  (`FreshNow`).  It holds because an analysed write edits at most once and ends by
  taking the next number.
- `EventsAfterCreationHolds`, from `BirthInv`: the first entry of the log is the creation, and
  the current number, the largest there is, never displaces it (`FirstStays`).
- `HistoryOnlyGrowsHolds`, an action property: each operation on a node is shown to keep the
  fields it does not name (`Kept`) and the entries of earlier numbers.
- `Implementation`: `Spec => ImplementsSlotGraph`.  The initial states agree, and every step of
  `IRGraph` is, seen through `IRGraphRefinement`, a creation, a new, moved or dropped link, a
  death, or nothing (`GraphStep`); that arrays hold one entry per slot makes them the
  abstract function from slots to nodes.

The assumptions are the ASSUMEs of `IRGraph`: instructions and allocations are of their
types, a write to a node's address has a base register, a block has at least one byte and
is not at address 0, and `MAX_NODE_SIZE <= MAX_NODES`.

`NodeFormationProofs`, for words of any size, any sizes, offsets and number of instructions:

- `TypeOKHolds`, with what is known of the block asked for last (`AskedTypeOK`).
- `FormedAsAllocatedHolds` and `AbortsOnlyUnformableHolds`.  The code searches the registers of
  the formation range for the first ADD that has the block's address in it.  That this is
  the ADD which took the block is not a matter of that ADD but of all before it, hence
  the invariant: everything added or written so far is below the next free address
  (`Below`), so when a block is taken its ADD becomes the first with that address, its two
  source registers the only ones of that instruction and its result the only destination
  (`AddRecorded`), and all instructions after it leave that so (`AddedStays`).  `BaseRecorded`
  says it for V8's base register, and `RaxKept` that the RAX value kept is the node's address
  at every moment at which the creator could return.  `WriteKept` says
  that a node of V8 that was stored into has its write collected, since it is made within the
  formation range.  The release of memory breaks `Below`,
  which is why the properties except it.
- `ShiftedPointersRestoredHolds`: an unshifted pointer of user space passes
  `checkCopiedValue` because its two top bytes are 0; a shifted one whose sixth byte is not 0
  fails it, and `fixCopyValue` puts the bytes back.
- `ConversionsHold`, which the others rest on: `uint8Toaddrint` and the bytes of a register
  are each other's inverse, and the top two bytes of an address are 0.  Induction over the
  loop: after n steps it holds the value of the last n bytes, which is below the n-th power
  of `Base` and equal to the part of the word above the other bytes.  TLC evaluates the
  same formula on its instance (`ConversionsOfSixBits`).

`DataLockProofs`, for any threads, tree, marks and number of
stray unlocks:

- `TypeCorrect`: pointers and slots name pages that exist.
- `DefaultsNeverChangeHolds`: nobody writes a default page, strays or not.  The invariant is
  `Private`: by the time a thread holds a pointer past a test, the slot it came from has left
  the default page, and a slot never goes back to it.
- `ExclusiveUntilStrayedHolds`: until a memory read has freed the lock under its holder, at
  most one thread is inside (`Held`).  TLC does not check it on its own: it is the reason the
  next ones hold.
- `DumpInBoundsHolds`: a dump ends within its buffer (`Fitting`), strays or not, because every
  thread writes from a copy of a position that was tested with more than it will use.
- `DumpsWholeUntilStrayedHolds`: until then, the registers in the file and in the buffer follow
  each other, dump by dump.  The invariant `Dumping` is about `Log`, the file followed by the
  buffer up to where it counts: up to the position the printing thread has reached, if
  one is printing, else up to the stored one.  Its length modulo the number of registers is
  what that thread has printed, so flushing the buffer, starting and ending a dump leave
  whole dumps.
- `MarksKeptUntilStrayedHolds`: no returned mark is lost until then.  The invariant `Kept` says
  that a returned mark is found along the path from the root, and for a thread on its way
  that the copies it makes have at least the bits of the pages they will replace.
- `SeenOnlyIfMarkedHolds`: nothing is seen that nobody marked, strays or not.  Threads that
  are in at once may copy pages twice and drop each other's copies, but every page other
  than a default one has a home, the one place of the tree for which it was copied; a slot
  leads only to pages at home there, and a page's bits were asked for at its home
  (`Homes`, `AtHome`).  The homes exist without being state: the invariant `SeenInv` is an
  existential over three functions, and a copy extends one of them.

The assumptions are that a thread is not `None`, marks are sequences of parts, and the
registers, of which there is at least one, fit in what `recordRegState` asks for, which fits
in the buffer.

`OperandsProofs`, for any instructions and any registers that a byte can count:

- `TypeCorrect`: no vector holds a register twice or more registers than its array has room
  for.  `VectorOK` is inductive only with the wrap in it: a vector whose capacity is 0 is not
  empty and its array has `ByteSize` elements, which a set of fewer registers never fills
  (`GrownOK`, by a pigeonhole argument).
- `CallbacksCorrect`: the callbacks in the code cache have vectors of their own, on the heap,
  that hold what their instruction reads and writes.  The invariant is `Collecting`: the
  vector, the insertions that are due and the operands that are left together always make
  up that set; `EnteredType` and `InsertOK` say what an operand enters and what an insertion
  leaves, and `CacheOK` that vectors of earlier instructions are numbered below and so left
  alone.

The assumptions are that fewer registers than `ByteSize` exist, that the lengths of an array
double up to `ByteSize`, and that operands are of the kinds Pin has.

`TracerProofs`, for any threads, instructions, signals and bounds:

- `NumbersAreExactHolds`: event and instruction numbers are given out exactly once, in order.
  `NumbersAreExact` says nothing of the moments between the increments, so the invariant
  (`Control`) does: a thread is in one of five places of the numbering exactly if it holds
  `traceLock` (`Exclusive`), and at each place the counters stand to the numbers given out in
  a certain way (`Exact`, `Taken`, `Named`).  `Waiting` gives the form of what other threads
  have yet to do: any steps outside the numbering, then nothing or one whole numbering.
- `TypeCorrect`: what is recorded belongs to an instruction that has started, under a number
  that has come.  A callback finds an instruction of its thread (`CallbackHasInst`), because a
  thread that has started none can only be numbering a signal (`Scheduled`).
- `NewThreadStartsCleanHolds`: from the same invariant.
- `WritesCarryTheirRegistersHolds`, `ReadsCarryTheirRegistersHolds`, `FiledUnderOwnNumberHolds`:
  attribution, for every instruction that none of another thread overlaps, with no hypothesis on
  the threads.  For those that are overlapped it is false (section 4).  The invariant
  `Attributed` says for a thread in such an instruction and each
  place in the callbacks (`Placed`) what `srcRegsHolder` holds there: nothing of it matters
  before the source registers are read, the first k of this instruction while they are, all
  of them until the analysis takes them; that `populate_regs` never points to a read of such an
  instruction that was analysed; and that two threads which are both at work are both in
  overlapped instructions (`Apart`), so that no other thread changes what `Placed` speaks of.

The assumptions are that thread numbers are naturals and instructions of the kinds
`insInstrumentation` tells apart.

`InstrumentationProofs`, for any program and any names:

- `CompilerAlwaysTracedHolds`, with what the code cache may hold as the invariant
  (`CacheTraced`).
- `CallSequenceDenseHolds`.  The invariant `SequenceInv` says of the string table only that its
  first position holds the empty string and no other string is put there, so the
  theorem holds for a table whose searches fail as well.

The other four are about the string table and hold under `[]Spread`: from every string the
names hold, the first `MaxProbe` probes meet more than half of the entries, 2 * (capacity / 4) + 1, at every
capacity the table reaches.  It is a hypothesis about the hash function and the strings, and
needed: `insert` and `reallocMap` probe in a `for(;;)`, which ends only at a free entry or
the string.  TLC evaluates it for the hash of the instance at all the capacities it reaches
(`ProbesSpread` in `MCInstrumentation`).  FNV was not shown to have it for all strings.

- `SearchesEndHolds` and `ZeroIsTheEmptyStringHolds`.  The invariant is `TableInv`, whose
  heart is `Load`: at most `mapSize` plus a quarter of the entries are taken.  `mapSize` alone
  does not bound them: `reallocMap` enters an entry for every index of the old table, used
  or not, and counts none of them; but the old table is a quarter of the new one, and
  `insert` grows the table when `mapSize` exceeds another quarter.  So fewer are taken than
  the probes meet, and one they meet is free (`FreeMet`).  For `reallocMap` the same count
  goes through its loop (`EnteredRehashed`, `Reallocated`).
- `InternedOnceUntilGrowthHolds`.  The invariant `PlacedUntilGrowth`: every string lies where its
  own search, passing only entries that are taken, finds it.  It holds until the first
  growth, after which `insert` stores at an index computed for the old table.
- `TypeOKHolds`: with `IdsInv`, that every recorded id is the position of a string.

`ShadowMemoryProofs`, for pages of any size that is a multiple of 8, marks at any addresses
and of any sizes other than 3, 5, 6 and 7 (for these `setSeenVal` may loop 2^32 times,
`ShadowMemory.cpp` 488; no operand has such a size, and the model leaves them out):

- `TypeOKHolds` and `PagesOwnedOnceHolds`.  The invariant is `Tree`: slots name pages of the next
  level, the default pages lead to default pages and hold no bit, and every other page is
  in exactly one slot.  It is needed for each level at once, because what a store does to an
  address depends on the path below: a copy made by `getQMForWriting` leaves all other paths
  alone only if the page it links it into belongs to one path (`CopySMTree`, `CopyTMTree`,
  `CopyQMTree`, `ReadyForWriting`).
- `Implementation`: `Spec => ImplementsSeenMap`, and `ImplementationEverywhere`, the same for every
  address and not only those the run watches.  That different addresses have different paths
  is division (`PathUnique`); a store changes the bits of one part and no others
  (`StoreBitsTree`), the parts of a mark together are the bytes of the mark, whether it is
  split at the first aligned address or not (`PartsMark`), and induction over the parts gives
  the whole mark (`StoredMarks`).  `reset` leaves the default pages (`ResetTree`).
- `ReadsAgreeHolds`: at an aligned address the bytes of a read lie in one byte of a page.

How induction is done.  The theorems of the library that state it take an operator as their
parameter, which the provers cannot instantiate.  `NatLessThanWellFounded` and `WFMin` do
not: a set of naturals that is not empty has a smallest element (`Smallest`), hence a set
that contains 0 and with n also n + 1 contains all (`Induction`).  A loop is a recursive
function here, and a first induction shows that there is one (`PowersExist`, `ValuesExist`,
`ProbesExist`, `NewMapsExist`, `QuadrupledExist`, `StoredExist`); a second one says what it
computes.

Only model-checked: liveness under fairness (`EveryCallbackReturns`), which is out of the
prover's reach.  Every other property of a passing run is a theorem here; the only hypothesis
is `[]Spread`, where it is named above.

No module uses RECURSIVE operators.

## 6. Not modelled

- xed, a vendored decoder whose generated tables are more than nine tenths of the lines of
  the repository: not code of this program, which only asks it for operands.
- The register tables (`PinLynxReg.cpp`, `src/shared`) and the Ruby scripts that generate
  them: data.  Their results are inputs of `Operands`.
- `src/shared/XedDisassembler.c`, which the tool does not call.
- The JSON output and the print functions other than the register dump: formatting and file
  I/O of state that the other models cover.
- What nothing calls: `remove`, `removeAll`, `insertAll` of `RegVector`, `loadSeen`, the
  32-bit shadow memory, `addrintTouint8`.
- Image loading and the command line, except for the switches of `Operands`.

## 7. Plan

Done: the graph with its refinement, all its properties proved; node formation with the
repair of pointers, proved; the callbacks, their numbering and, for instructions that no
other overlaps, their attribution, proved; shadow memory with its refinement, alone and under two threads,
proved; register vectors and operands, proved; instrumentation with names, proved, the
string table for a hash that spreads.

Left:
1. A module that composes `Tracer` with `IRGraph`, for the numbers an analysis works under
   while another advances them, and with `Operands` for eleven source registers.
2. `Spread` for FNV itself, from the length of the names.
