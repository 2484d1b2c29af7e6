# Microvium in TLA+

Specifications, model-checking runs and proofs for the Microvium JavaScript
engine: the C engine in `src/native-vm/microvium.c` that runs on a device, and
the TypeScript tools in `src/lib` that compile a program, run it up to a
snapshot and encode the snapshot for the device.

## The system

### The engine (`src/native-vm`)

The engine is one C file. A VM has a heap of at most 64 kB made of buckets,
globals, handles that the host owns, and, only while the host is inside
`mvm_call`, a stack with registers. It is single-threaded. What makes it hard is
re-entry (a host function may call the engine again), collection (every
allocation may move every object), and that all control state (frames, catch
targets, arguments, saved registers) lies in one array of 16-bit words.

| Part | State | Operations | What makes it correct |
| --- | --- | --- | --- |
| Calls and exceptions | stack words, registers (frame base, stack pointer, pc, argument count and flags, closure, catch target, cps callback, job queue) | `mvm_call`, `mvm_callEx`, calls of bytecode and host functions, return, try, throw, the exits of `mvm_call` | every return resumes its caller, every exception its handler, no call touches the frames below it, a failed call is undone completely |
| Job queue | the `jobQueue` register and nodes on the heap | `vm_scheduleContinuation`, `vm_enqueueJob`, `vm_dequeueJob` | each job is delivered once, in order, whatever is collected when |
| Garbage collector | old and new buckets, tombstones | `mvm_runGC` and its helpers | exactly what is reachable survives, with its contents; it ends and fits |
| Allocator and pointers | bucket chain, offsets | `mvm_allocate`, `gc_createNextBucket`, `ShortPtr_encode`/`decode` | an encoded pointer decodes to the same object; limits hold |
| Async functions | closures whose first slots are the continuation and the callback, promises, the cps register | `ASYNC_START`, `AWAIT`, `AWAIT_CALL`, `ASYNC_RESUME`, `ASYNC_COMPLETE`, `mvm_asyncStart`, `mvm_subscribeToPromise` | a continuation is called exactly once, from the queue, with the result of what it waits for |
| Handles | a linked list through host memory | initialise, clone, release | a handle is a root exactly while it is initialised |
| Objects, arrays | property lists with extensions, array storage | `getProperty`, `setProperty`, `growArray`, `vm_arrayPush` | a store is seen by the next load, through any reallocation |
| Strings | intern table | `toInternedString`, `toPropertyName` | equal property names are one pointer |
| Numbers | none | `NUM_OP`, `BIT_OP`, conversions | the JS result, at every width |
| Snapshots | bytecode image | `mvm_restore`, `mvm_createSnapshot` | restoring what was taken gives the same VM |
| Debugger support | breakpoints | read-only inspection | not modelled: changes no program state |

### The tools (`src/lib`)

`src-to-il` compiles a module to IL; `virtual-machine.ts` executes IL at compile
time with the same calls, catch targets, async functions and job queue as the
engine, but on JS objects; `encode-snapshot*.ts` writes its state as bytecode
(through `binary-region.ts`, whose regions have forward references) and
`decode-snapshot.ts` reads it back; `node-style-importer.ts` finds modules;
`synchronous-ws-server` lets the synchronous machine talk to a debugger through
a worker thread and a shared buffer; `native-vm*.ts` and
`src/native-vm-bindings` wrap the C engine for Node.

### How the parts interact

The host calls `mvm_call`; JS code calls host functions, which may call
`mvm_call` again in the middle of the caller's frame. Completing an async
function, settling a promise or calling the callback of `mvm_asyncStart` puts a
job in the queue, and the outermost `mvm_call` runs the queue before it frees
the stack. Allocation is the one place where a collection starts; its roots are
the globals, the handles, three registers and every word of the stack, so a C
function that allocates must keep its values in one of these.

## Modules

| Module | Models |
| --- | --- |
| `JobFIFO` | what the job queue promises: a FIFO queue |
| `JobQueue` | `vm_scheduleContinuation`, `vm_enqueueJob`, `vm_dequeueJob` over a heap that `Collect` moves |
| `JobQueueProofs` | the proofs about `JobQueue` |
| `CallSpec` | structured control flow: functions, host functions, try blocks |
| `CallMachine` | `mvm_call` word by word: frame boundaries, catch targets, re-entry, exits, the job loop |
| `CallProofs` | the proofs about `CallMachine` |
| `GarbageCollector` | one `mvm_runGC`, with the second collection of a squeeze |
| `CollectorProofs` | the proofs about `GarbageCollector` |
| `AsyncOps` | operations that begin, complete once and wake up what waits for them |
| `Async` | async functions, await, promises, `mvm_asyncStart`, the `cpsCallback` register and the job loop |
| `AsyncProofs` | the proofs about `Async`, its invariants and that it implements `AsyncOps` |
| `Handles` | the list of handles in host memory |
| `Heap` | the chain of buckets, allocation up to the limit and 16-bit pointers, extends `Handles` |
| `HeapProofs` | the proofs about `Heap` and `Handles` |
| `IntervalLemmas` | induction on numbers and finite sets, and intervals, for `JobQueueProofs`, `HeapProofs` and `CollectorProofs` |
| `Objects` | property lists, arrays, property names and the intern tables over a moving heap |
| `Checkpoint` | what saving and restoring promise together |
| `Snapshot` | `mvm_createSnapshot` and `mvm_restore` with native or offset pointers |
| `SnapshotProofs` | the proofs about `Snapshot`, its pointers and that it implements `Checkpoint` |
| `Doubles`, `Numbers` | the operators on numbers in the engine and in the compile-time machine, side by side |
| `SyncSocket` | the two threads of the debug server and their shared buffer |
| `SyncSocketProofs` | the proofs about `SyncSocket` |
| `Scopes` | the scope analysis, the closures it lays out and the machine that runs them |
| `Language` | what statements and expressions mean in JavaScript |
| `Codegen` | the instructions that the compiler makes of a function |
| `Execution` | the virtual machine on these instructions, next to `Language` |
| `Bytecode` | a compiled function as bytes: the encoder, and the engine and the decoder that read them |
| `MC*` | the constants of the modules for TLC |

### JobQueue

The state is the `jobQueue` register, the heap as a function from addresses to
closures and nodes, and the words that an enqueue pushes so that they survive a
collection (`anchors`). An enqueue makes up to three allocations; each is an
action, and `Collect` may run before any of them. `Collect` copies what is
reachable to the other half of the address space and frees the rest, as the
queue sees it: how the collector does that is the subject of
`GarbageCollector`. A C local that holds an address across an allocation would
be a variable that `Collect` does not update; the code reads the register and
the pushed word again, and so does the model. `order` is a history variable, the
nodes of the cycle from first to last, from which the refinement mapping
`Pending` is read. The pushes of `vm_scheduleContinuation` are a part of the
action that allocates the job's closure: a job is opaque here.

### CallMachine

The stack is a sequence of tagged words; the stack pointer is its length. Each
`SUB_...` label of `mvm_call` is an operator of the same name that gives the next
state. `calls` are the C activations of `mvm_call`: the registers on entry, the
locals of a host call, and where the result goes. `mode` says whether JS code or
the host executes. The host may do anything it may do: call any function with
`mvm_call` or `mvm_callEx`, return, throw, or fail. JS code is any sequence of
instructions that the compiler can emit: it opens and closes try blocks within
its frame, keeps to the stack height in its header, and closes its try blocks
before it returns.

Left out: `SUB_NEW` (class construction) and the `cpsCallback` register (see
`Async`). Operands are pushed by the call that uses them,
and the words of a frame that hold plain values are one value.

`mvm_callEx` leaves a flag in the registers of its caller when it passes `this`
(`WithThis`; line 3240), and the saved registers keep it. Its early return for a full
stack (line 3227) and that of `mvm_call` for too many arguments (line 233) are
actions of their own, at any depth: the latter comes behind line 223, which clears the
catch target, and nothing puts it back. A host function that makes such a call has
lost the try blocks around it (`CatchIsLost`). When it is done, a safe build stops at
the assertion of line 2823 and any other build goes on until an `END_TRY` pops the
null pointer that the target has become, which is undefined; so no host function is
`HostIsDone` in that state, and until then it may make any other calls.
`CatchLostByEarlyReturn` says that there is no other way to lose a catch target, and
`CatchChainIsExact` what holds of the others.

The engine pushes words that no check covers: it anchors values on the stack while it
allocates. `WordsInUse` adds the most words that an instruction of the code at the pc
needs above the stack pointer, from the pushes of `SUB_NEW`, `vm_enqueueJob`,
`vm_newArray`, `vm_scheduleContinuation`, `mvm_subscribeToPromise` and
`mvm_asyncStart`, to what the checks have granted. `NoStackOverflowInJS` says that the
slack of `SUB_CALL_BYTECODE_FUNC` (`Temporaries`) covers them; with a slack of one
word, for the result slot of a host function only, it does not hold.

### GarbageCollector

The old heap is a sequence of allocations with a forwarding index (the
tombstone), the new heap the sequence of moved allocations in the order of their
addresses; a pointer names its space and an index. One step handles one value:
`Skip`, `Forward` (there is a tombstone), `OpenBucket` (no space, the move starts
over) or `Move` with compaction. The roots are one sequence; the walk over the
stack frames is not modelled. Sizes are counted in words as in the code, with the
check for the fields of a child list as it is written. Where that check lets a
list run past its bucket the memory behind it is overwritten, in a move that is
committed or in one that is abandoned at a later list and starts over (`Abandoned` is
what it has written by then). What the memory behind a bucket is, and so what the host
or the VM does after that, is not defined; the model stops there in the phase
`overrun`. A merged list that is too large for one allocation ends the VM
(`MergeTooLarge`, `MVM_E_ALLOCATION_TOO_LARGE`, line 4527) after all its lists were
copied. Leaves carry a word that looks like a pointer, so
that a scan that looked into them would be seen.

What a collection may assume of the heap is `WellFormed`, the assertions of
`gc_processShortPtrValue`: the storage of an array is referred to by that array only
and has room for its length, and a property list that extends an object is referred
to by the list before it only. A list is added to an object that exists, so the lists of
a chain lie in the heap in the order of the chain. The run
checks `WellFormed` of its heaps, and the proofs need no more than that.

### Async

A run of an async function is a closure, and so is a callback of
`mvm_asyncStart` and each of the two functions that settle a promise: all have
in slot 0 what a call executes (`cont`) and in slot 1 whom to tell (`callback`).
`closures` and `promises` grow as they are created and are numbered in that
order. A promise has its two internal slots, the status and `out`, which holds
nothing, one subscriber, a list of them or the result, exactly as in
`VM_OIS_PROMISE_OUT`. Frames are records: `CallMachine` is about their words, and
the queue is a sequence: `JobQueue` is about its form.

Each kind of call sets `cps` as the code does: to the closure of the caller
for an await-call, to `undefined` otherwise (`CpsFor`). The instructions `CALL_HOST`
and the short calls do not set the register at all; the compiler emits neither: nothing
gives a call operation the `staticInfo` that `il.ts:97` has room for
(`virtual-machine.ts:2312` asserts that there is none), and without it the encoder
writes `CALL_3` or the await-call
(`encode-snapshot-function-body.ts:495-527`). `ASYNC_START` is part of the call of an
async function because nothing comes between them. `SUB_AWAIT` of what an
await-call returned follows the return at once, so a frame that holds an
`operand` does nothing else. Completion, by a `return`, by the catch block at the
bottom of the function, by a callback of the host or by `resolve` and `reject`, is
the one operator `AsyncComplete`, as it is one label in the code. `RunJob` is the
job, the call of the continuation that `asyncContinue` makes, and its first
instruction, `ASYNC_RESUME`.

What a host may do is what `microvium.h` allows: it calls `mvm_asyncStart` before
anything else (lines 446-448; `fresh`), returns promptly after it (line 440), that is,
does not throw, calls `mvm_call` in a host function or outside,
and calls the callbacks whenever and as often as it likes.

A program may do what it likes, and that includes resolving and rejecting one promise:
its two functions are two closures and each disarms only itself. The second one
finds a promise that is not pending (the assertion of line 2385 fails in a safe build)
and takes the result of the first for the list of subscribers (line 2387), which has a
defined effect only if it is `undefined`: then the outcome of the promise is replaced
and nobody is woken up. The model goes on with that case, for whoever awaits the promise
later gets the other outcome. `OnlyTwinSettlesAgain` says that nothing else changes a
settled promise, `AsyncOps` has the second settlement as an operation of its own
(`SettleAgain`), and `PromiseSettledOnce` is what the comment at line 2381 says and
what does not hold (`MCAsyncCareless.cfg`).

A `Result` names the operation that produced it, so that `ImplementsAsyncOps` says
that what a function is woken up with is the outcome of the operation that it
awaited, not of another one. The history variable `outcome` records how each
operation completed.

`Collect` changes nothing but the C local `registerValuesAtEntry`, whose copy of
`cpsCallback` no collection updates; everything else that a collection could
lose is in `GarbageCollector` and `JobQueue`. Where the register has become
stale another collection would follow a pointer into freed memory; the model does
not go on from there with a collection.

Left out: the words that an await saves and restores, the scopes inside an async
function (a block with its own closure scope changes the closure register), an
exception or error that leaves `mvm_call` (`CallMachine`), errors that end the
VM (`MVM_FATAL_ERROR`), and awaiting what is not a promise. The executor of a
promise runs after `new Promise` returned, in its caller.

### Handles and Heap

`Handles` is the list that starts in `vm->gc_handles` and runs through records
of the host; `Heap` EXTENDS it, as the collector walks that list. The state of
`Heap` is the chain of buckets (start of data, `offsetStart`,
`pEndOfUsedSpace`, capacity), the header words by address, the size after the
last collection and the fatal error that ended the VM. Addresses are bytes and
an allocation picks its bucket's place in host memory as the lowest or the
highest that fits (`fromTop`), so the order of buckets in memory and in the
chain differ. `holds` is a history variable: where the object that was put in a
handle is now. `mvm_runGC` is seen as what it does to a chain: it visits the
listed handles in the order of the list and moves the allocation of each to the new
buckets, unless there is a tombstone (`Visit`, `Collected`).

A `malloc` of the host fails when nothing of the size is free, and may fail
whenever it is called, as other parts of the host take memory too. The VM then ends
with `MVM_E_MALLOC_FAIL` in the middle of what it did (`Fatal`). `Malloc` returns
`NoMemory` for an address, and what a collection would do after that
counts for nothing: no action goes on with such a heap (`MallocFailed`).

`vm_cloneHandle` asserts that its source is *not* initialised (line 4976), so in
a safe build it accepts no handle that may be cloned; the model clones
initialised handles, as the documentation of handles says. `microvium.h:234`
declares `mvm_cloneHandle`, and only `vm_cloneHandle` is defined.
`mvm_getMemoryStats` is not modelled; line 3885 takes the size of the import table
for that of the globals.

### Objects

Memory is a function from addresses to allocations (a property list, an array,
its storage, a cell of the intern table, a string); a collection moves all of
them to the other half, merges a chain of property lists and cuts the storage of
an array, as `GarbageCollector` has it in detail. Before each allocation of an
operation a collection may happen, and what the operation keeps on the stack
(`State`) is moved with the rest, whereas an address in a C local is not.
`shadow` says what each object is for JavaScript, with names as texts.

The names of a program are the texts in `Computed`, made at run time, beside what it has
from `Literal`. `InRom` is the binary search over `RomTable` in the order of `memcmp`
(`TextOrder`), and the table in RAM is a chain of cells. `toInternedString` has no
`return` after it recognised `length` and `__proto__` (lines 6482-6490): it goes on,
and when it does not find the text the string is interned, the cell gets the
well-known value and the string itself is a second identity of the name
(`MCObjectsLength.cfg`, `NamesAreUnique`). A walk through the table that comes to such
a cell takes the well-known value for an address; what it reads there is not defined,
and the model makes no such search (`WalkIsDefined`). `ObjectsAgree` and `ReadsAgree`
are claims about memory in which no well-known name has a second identity
(`KnownNamesAreUnique`); `OrdinaryNamesAreUnique`, of all other names, has no
such condition.

`setProperty` of `length` with the length that the array has falls through to the
error at line 6378 (`failed`; `MCObjectsLength.cfg`, `LengthIsAssignable`). Reading or
writing a property of a value that has none is an error that changes nothing and no
action here, and so is setting `__proto__`, a fatal error. `vm_arrayPush` goes beyond
the largest array length without a check (line 3141); the capacity bounds it here.
Left out: classes as receivers, `Uint8Array`, strings as receivers, the
comparison of bytes and the builtins written in JavaScript.

### Snapshot

A heap is a sequence of 16-bit words that only the header words explain. A VM
has native pointers or offsets, as its port decides; an image has offsets. The
actions are allocations of three kinds, a store to a slot (`Write`), `Drop`,
`CreateSnapshot` (which is a fatal error if globals and heap are more than the image may
hold, `ImageLimit`, and changes nothing if `malloc` returns NULL), `PowerOff`, `Spoil` (the image is cut off or gets a wrong word, which
the size and the checksum tell) and `Restore` on either port.
Both walks start at the first word of the heap and go from header to header by the sizes
in them (`Headers`). `Checkpoint` is the abstract specification; the mapping compares programs with
their pointers as offsets.

The walk of `loadPointers` rounds an odd size up (line 3635) and the walk of
`serializePointers` rounds it down (line 7119): the last word of an odd
allocation is taken for a value by one of them only. The content of that word is
garbage, and when it looks like a pointer a restore on a port that converts
pointers ends in a fatal error (`MCSnapshotPadding.cfg`, `RestoreSucceeds`).
Imports, versions and feature flags in the header are left out; the test at line
3432 rejects the image that lacks the flag rather than the one that needs it.

### Numbers

`acc` is a number that an operator of the engine gave, in the form that the
engine gave it (a 14-bit value, an allocated integer, an allocated double, a
well-known value); a step applies an operator to it and to another value, on the
engine and on the compile-time machine. `Doubles` has the exact rational
arithmetic behind both. `Differs` names where the two are known to disagree:

- the sign of a zero that `*` and `%` give, and `-0 === 0`;
- strings that overflow (the test `n2 < n` at line 6702 misses most) and strings
  with a decimal point, whose value is read as a double that was not allocated;
- a double out of the range of `int32_t` that is cast to it, `INT_MIN / -1` and
  `INT_MIN % -1`, and the subtraction of `INT_MIN` without the builtin: undefined
  in C;
- `mvm_toBool` of an allocated integer or double is false (lines 5307-5320), and
  the comment there says that it cannot be zero
  (`MCNumbersTruth.cfg`, `TruthAgrees`);
- with `overflowChecks` off, unary minus of the compile-time machine is `n | 0`
  (`virtual-machine.ts:2039`) and loses the minus; the runs have it on.

`**`, the concatenation of strings and the text of a number are left out.

### SyncSocket

A step is one access to shared memory by one thread: the flag, the length, the
bytes, `Atomics.wait` and `notify`, and a wait may time out. `postMessage` of
the worker calls itself after it waited, so `nested` counts the calls that have
not returned. A message with characters that are not ASCII is `wide`: its length in
UTF-16 units (line 90) is less than its bytes. An error of the socket that comes while
the main thread waits for the connection is passed over, as lines 96-101 of `index.ts`
do. Three things are as they are in the code and no property of the run is about them:

- the worker raises the flag before it stores the length
  (`worker-thread.ts:89`), and the receiver lowers it before it resets the
  length (`index.ts:164`): a message is read with the length of the one before,
  or cut to nothing, although `index.ts:17` says that the second integer is its
  length (`MCSyncMessages.cfg`, `MessagesAreIntact`);
- a wide message is cut when it is read (line 90; the same property);
- after the recursive call of `postMessage` there is no `return`
  (`worker-thread.ts:76`), so the first attempt goes on behind the second and
  overwrites a buffer that is not vacant (`MCSyncMessages.cfg`,
  `WritesVacantBuffer`).

### Scopes

`Shapes` are trees of scopes with the kinds of variables that they bind; the
initial states have every set of up to `MaxReferences` references that could be
written in a shape. The analysis is translated as operators (which scope a
variable lives in, which functions are closures, which are embedded in their
scope, where slots are) and the rest of the module runs the program: scopes are
entered, left and iterated, functions are made, called and returned from, an
exception goes to its handler, an await saves and restores the stack. Each slot
is marked with the variable and instance that it was filled for, which is what
a reference is compared with.

`OnlyWithinLimits` leaves out the programs for which the closure register and
the layout disagree. Each limit is an operator of the module, and each has a shape
in `MCScopes` that breaks `ReferencesFindBindings` without it
(`MCScopesLoop.cfg` shows the first):

1. a loop with a closure of its own in a function with captured variables: the
   closure of the loop does not refer to the function's closure if only the loop's
   own function needs it (`pass-1-find-scopes-and-bindings.ts:380`; the comment
   at 446-448 says that the chain is kept);
2. a `var` in a catch block inside such a loop;
3. a throw out of such a loop: the closure register stays that of the loop
   (`microvium.c:1110`);
4. an await inside such a loop: what is saved goes to the loop's closure
   (`microvium.c:2222`);
5. the body of a `while` or `do` loop has one instance for all iterations, so
   that functions made in different iterations share its variables.

### Language, Codegen and Execution

`Language` is the meaning of a function body as an interpreter over a list of
outcomes: what the world (calls, constructors, stores, comparisons, awaits)
answered so far. `Codegen` is the compiler: a cursor with a block, a depth, the
scopes and the break targets, and one operator for each `compile...` function of
`src-to-il.ts` that it models; `hardAssert` and the checks of `addOp` and
`createBlock` become the field `ok`. `Execution` runs the blocks in one frame as
`virtual-machine.ts` does, with catch targets as relative distances on the stack
and the closure of a suspended async function. The initial states are all
programs of `MCExecution` in a function, called inside or outside a try block; a run
branches on every outcome of every effect.

What the compiler does to other programs than those of the run, each with an
example in `LimitPrograms` (`MCExecutionLimits.cfg`) unless marked:

1. a `return` inside a try block first emits the epilogues and then the value
   (`src-to-il.ts:545-571`): an exception in the value is not caught, and a value
   that is a local of the try block fails the assertion on its slot;
2. a compound assignment to a member computes the object and the key twice
   (1906-1930), and `f().x = g()` calls `g` before `f`;
3. the value that a `switch` tests stays on the stack but is not counted by
   `pass-2-compute-slots.ts`: a block with a variable inside a case fails the
   assertion at line 530, a try block gets a wrong depth; a `let` directly in a
   case has no scope (not generated);
4. a variable that is assigned before its declaration is not noticed, and
   `x++` gives the old value without converting it (not generated);
5. a `let` with the name of a catch clause's parameter, and a `var` in the clause
   (not generated).

Left out: captured variables (`Scopes`), stores to globals, functions in
functions, classes, `this`, template literals, labels and `continue`, which the
compiler does not have.

### Bytecode

`Bytecode` EXTENDS `Execution`, so that what is encoded is what was compiled and
run. A function is a list of places, its instructions and the starts of its
blocks in the order in which they are written; a layout gives each place an
address and a size. `Layouts` are the three passes of
`encode-snapshot-function-body.ts`: the largest sizes, then twice the sizes that
the distances of the pass before call for, the last time with the padding in
front of handlers and resume points as it is. `Bytes` writes the instructions and the
headers, and `Asserted` has the assertions of the encoder. A literal or a global,
whose word the rest of the snapshot determines, is kept as the two halves of a word;
the function starts at address 4, and only the remainder by four matters.

Two readers work on the bytes: `SubDoNextInstruction` is the fetching part of
`mvm_call` with the engine's own tables of opcodes, and `decodeFunction` is the
decoder of the compile-time tools, which follows the jumps, keeps the depth of the stack
and cuts the instructions into blocks. `MCExecution` states what they must agree on:
`EngineReadsCode` and `DecoderReadsCode`, on the functions that it compiles, and
for the instructions that `Codegen` does not emit on `Samples` at the limits of
their operands.

What these definitions do otherwise than one would expect, and the runs leave out:

1. the consequent of a branch may only come nearer, in absolute value, than the
   estimate (line 440), but line 417 adds 3 to an offset that is negative: the branch
   at the end of a `do ... while` fails the assertion unless its body shrank by as
   much (`BranchesBack` excludes these loops from what must be encoded; what is
   encoded is read back all the same);
2. a `Nop` of two bytes is read back as one of three, and a `Nop` right before
   the start of a named block as a jump; `Pop(0)` is encoded as one pop;
3. `VM_OP2_LOAD_ARG_2` is not implemented in the engine (`microvium.c:1510`), and
   the encoder emits it for the arguments from the sixteenth on; `STORE_VAR_2`,
   `CALL_1`, `CALL_HOST` and `CALL_6` are not implemented in the decoder;
4. the jump that the decoder adds at the end of a block has the depths of the
   instruction before it (`decode-snapshot.ts:938`), so that only its target is
   compared;
5. a handler or resume point more than 8188 bytes into its function has no header
   that leads back.

Left out: calls bound at compile time, the objects, globals, exports and imports
of the file, and the source map.

## Runs

| Run | Shows |
| --- | --- |
| `job_queue` | no dangling reference, the shape of the cycle, no garbage kept alive, and that the queue implements `JobFIFO` |
| `call_machine` | the invariants of the stack, with the words that nobody checks and every early return, and that it implements `CallSpec` |
| `garbage_collector` | a collection that writes behind no bucket and merges no list that is too large preserves the graph; the heap limit is kept, a squeeze is exact, every collection ends |
| `async` | every suspended function has exactly one place that wakes it up, only resume points are called, a settled promise changes only when its program both resolves and rejects it, and all of it implements `AsyncOps` |
| `sync_socket` | no thread sleeps while it could go on, no message is skipped or overtaken, and a receive ends when the worker posts |
| `heap` | a handle keeps its object, every bucket can be walked, offsets stay below the limit, and memory is exhausted only when what is reachable is too much |
| `objects` | objects in memory are the objects of JavaScript and reads through names agree, as long as no well-known name has a second identity; and no other name ever gets one |
| `snapshot` | restoring implements `Checkpoint`, and no word is taken for a pointer that is none |
| `numbers` | the operators of the two machines agree |
| `scopes` | every reference reaches its variable, every function value runs its function |
| `codegen` | compiled functions do what they say, with the stack that the compiler worked out, leave the handlers of their caller, and are read back from their bytes by the engine and the decoder |
| `gc_buckets` | a disagreement, see below |

Bounds.

- `job_queue`: two kinds of job, three pending jobs and seven objects per
  half, which is enough for every form of the register, a cycle of two nodes
  (where the second node is the last) and one of three (where it is not), and
  garbage beside them; addresses are symmetric only within a half, so only jobs
  are declared symmetric.
- `call_machine`: two functions, one of them a closure, one landing pad, two
  nested activations of `mvm_call`, one job, a stack of 26 words: a nested call,
  an exception through two frames, an overflow of each check, a job after a
  call, too many arguments in the outer and in the inner `mvm_call` and the flag of
  `mvm_callEx` in the outer one all occur. The stack has just room for a frame in which
  each unchecked push meets its end.
- `garbage_collector`: four objects in three shapes (a chain of up to three
  property lists, an array of length 0 to 3 over storage for three, both
  together) with all combinations of pointers among them, first buckets of 3 to
  19 words and further ones of 6, so that heads, chains and arrays meet the end
  of a bucket, are retried and are chopped at the heap limit; and an object with lists that
  are together more than the 11 words of an allocation. Moves that write behind the
  bucket, committed and abandoned, occur (`gc_buckets`).
- `async`: four closures and two promises, three frames, at most five frames
  and closures when one is added: three functions await one promise (no
  subscriber, one, a list, a longer list), an await-call nests in an await-call, a
  host function that is awaited calls `mvm_call`, and each operation completes
  before and after its awaiter suspends.
- `sync_socket`: four messages from the worker (the server listens or fails, a client
  connects, two events of the client, which may not be ASCII) and one to it, with timeouts: each
  of the two places where a thread waits is met with the buffer full, vacant and
  changing, and a nested `postMessage` returns into an older one.
- `heap`: a limit of 14 bytes, buckets of 8, allocations of 2 and 5 bytes and
  their headers, three symmetric handles and 52 bytes of host memory: up to three
  buckets, one of them cut at the limit, in both orders in memory, pointers at the
  end of a bucket, odd sizes, an allocation that only fits after a collection, and one for which a
  new bucket fits the limit but not the memory beside the others.
- `objects`: two roots, two texts in ROM and one that is between them, which a program
  computes like `length` and `__proto__`, arrays with a capacity of one that grows to
  two and four live allocations: a chain of two lists, storage that
  grows, an intern table with a cell, every way through the binary search, and a
  collection before any allocation.
- `snapshot`: two globals and six words of heap in buckets of four: two
  allocations of every size in one bucket or two, each with a word that may look
  like a pointer; an image of seven words, one less than globals and a full heap.
- `numbers`: integers of 6 bits and small ones of 3 stand for 32 and 14. What
  matters is that a product of two small numbers may leave the small range and
  one of two integers the integer range; operators take what earlier operators
  gave, up to 4 in numerator and denominator, beside all integers at the limits.
- `scopes`: fifteen trees of up to seven scopes, two references, two activations,
  six instances of scopes and three function values: a closure that is called
  while its creator runs and after it returned, two iterations with a closure each,
  two closures over one scope.
- `codegen`: every nesting of one and two of the eight kinds of statement and of
  three of five kinds (the other three kinds differ in their tests only), around a
  return, a throw, a break, a call and an await, in plain and async functions; every
  expression in every expression context, used as a value, in a try and as a
  statement; five effects, which lets a loop run twice and a handler throw again.
  Encoded are all nestings of one and two, every expression in one context, and
  bodies that are 3, 102 to 126 and 300 bytes longer (106 to 112 if async) in each
  kind of statement and 95 to 105 in two nested ones, which is where one jump, a
  jump over another jump and a branch change their size.

`TypeOK` of `Heap`, `GarbageCollector`, `Async`, `CallMachine` and `JobQueue` is
stated in the modules and not among the runs: what it says is implied by what the
other invariants need. `QueueSafe` proves that of `JobQueue`, `TypesHold` that of
`Heap`, `TypeCorrect` that of `GarbageCollector`.

Fairness. `mvm_runGC` is one C call of a single-threaded engine that is not
suspended before it returns, so weak fairness of its next step is what a call
means; `garbage_collector` does not check for deadlock, as a collection really
ends. In `sync_socket` each of the two threads is scheduled by the operating system:
a thread that is not asleep in `Atomics.wait` takes its next step some day, which
is weak fairness of `WorkerStep`, `MainStep` and of the start of the server. No
fairness is assumed of clients, which may send nothing, of time, or of the
caller of the debug server. No fairness is assumed of the host or of JS code in
the other modules: a host function may run for ever.

`CHECK_DEADLOCK FALSE` is set where the system may really stop: a collection that
has ended, a heap after a fatal error, a program whose run has ended or whose bounds
are used up, a server that is closed, a device that is off with a spoilt image.

### Disagreements

Where a comment, the documentation or the language says one thing and the code
does another. `gc_buckets` is among the runs; the other configurations are for
the reader to run, and TLC finds each property violated (with `-continue`, where a
configuration has several).

- `MCGCBuckets.cfg` (`gc_buckets`, `BucketsHold`): the space check for merged
  property lists counts half of what is copied.
- `MCCallExits.cfg` (`HostLeavesRegisters`): a nested `mvm_call` that fails
  leaves the closure register of the function that failed to the caller of the host
  function (line 3071), which the assertion at line 2823 rejects in a safe build
  and which makes the caller read another function's scope otherwise. The comment at
  line 2806 says that the registers are left in the same state; the early return
  of line 233 and the flag of `mvm_callEx` break that, too.
- `MCCallExits.cfg` (`JobsNotLost`): an error in the outermost call frees the stack
  with the queue.
- `MCCallExits.cfg` (`UncaughtGivesException`): an exception in a job is
  reported without its value.
- `MCCallStack.cfg` (`NoStackOverflow`): calling a host function with `mvm_call`
  on a full stack writes the result slot behind the stack.
- `MCAsyncCareless.cfg` (`NoStaleCallback`): `SUB_EXIT` puts back the `cpsCallback`
  that `mvm_call` saved in a C variable on entry, although the register is a root
  that a collection moves and `SUB_POP_ARGS` has just poisoned it; line 3071 makes
  an exception for the closure register only.
- `MCAsyncCareless.cfg` (`PromiseSettledOnce`): the comment at line 2381 says that
  a promise that is settled was pending; it has two functions that settle it and each
  disarms only itself, so a program that resolves and then rejects settles it twice.
- `MCObjectsLength.cfg` (`NamesAreUnique`): the comment at line 6192 says that
  names can be compared directly because they are interned; a computed `length` or
  `__proto__` is recognised and then interned all the same.
- `MCObjectsLength.cfg` (`LengthIsAssignable`): the comment at line 6307 says to do
  nothing when an array is assigned the length it has; the branch has no
  return, as its three siblings do, and ends in an error.
- `MCObjectsOrder.cfg` (`OrdinaryNamesAreUnique`): the comment at line 6495 says that
  the table is stored alphabetically; the compiler sorts it by UTF-16 units
  (`encode-snapshot.ts:895`) and the engine searches it by bytes of UTF-8. With U+1F600
  and U+FF5E in the table the search misses U+FF5E.
- `MCSyncMessages.cfg` (`MessagesAreIntact`, `WritesVacantBuffer`): see `SyncSocket`.
- `MCSnapshotPadding.cfg` (`RestoreSucceeds`): see `Snapshot`; `microvium.h:461` says
  that a snapshot is suitable for a restore. The array that `vm_objectKeys` makes for an
  object without properties has a size of one byte.
- `MCNumbersTruth.cfg`, `MCScopesLoop.cfg`, `MCExecutionLimits.cfg`: see the sections of
  their modules.

## Proofs

Every theorem holds for all values of the constants that satisfy the named
assumptions of its module: any number of jobs, closures, promises, messages and
frames, any size of the stack and any depth of nested calls. Each module has one
lemma per action and a lemma `NextPreserves` that combines them.

### JobQueueProofs

- `QueueSafe`: `TypeOK`, `NoDanglingReference` and `QueueIsCycle` are invariants;
  `ReferencesSurvive` states the second alone;
- `QueueNeverLeaks`: `NoLeak`;
- `QueueImplementsFIFO`: `Spec => ImplementsFIFO`.

The assumptions: the halves partition the addresses and `Other` is an involution
between them. The inductive invariant is the conjunction of the three safety
invariants: `NoDanglingReference` alone is not inductive, since unlinking a node
needs to know that the neighbours of the first node are the last and the second
of the cycle, and a collection preserves the cycle only because its nodes are
reachable (`CycleIsReachable`, by induction along `order` with
`IntervalLemmas`). `NoLeak` follows from it without being inductive itself: the
reachable set is the least one that is closed under references, and the nodes,
their jobs and the pushed words are closed.

### CallProofs

- `HostFunctionsKeepFrames` (`HostKeepsFrame`), `ActivationsKeepOlderWords`
  (`OnlyOwnFrames`);
- `SlackIsEnough` (`NoStackOverflowInJS`);
- `CatchTargetsAreLinked` (`CatchChainIsExact`);
- `JobsWaitForIdle` (`JobsOnlyWhenIdle`), `SuccessDrainsQueue` (`DrainedOnSuccess`);
- `StackImplementsCalls` (`ImplementsCalls`): the words of the stack implement
  `CallSpec`; `FramesAreOrdered` is the invariant it adds.

They assume of the functions what the compiler does (the landing pads of
different functions differ and are not entry points, the names of the targets of a
call that are not bytecode functions are no functions). Nothing is assumed of hosts.
A host function may lose the catch target of its caller by a nested call with too many
arguments: the invariant (`HostState`) knows the frames below by the registers with which the
host function began (`regCopy`), and of the present catch register that it is that one or 0;
`HostKeepsFrame` and `CatchChainIsExact` say so, too. That an early return is the only such
call (`CatchLostByEarlyReturn`) is only model-checked. `SlackIsEnough` counts the words
that the engine pushes without a check.

The inductive invariant reads the words of the stack. `Shapes` says what a word
may be. `Consistent` cuts the stack into the parts that belong to the running
activations of `mvm_call` (`Suspended`) and says of the innermost part, whether JS
code or a host function runs in it, that its frames nest: the register of the
frame points behind four words that hold the position of the frame below, that
between two catch targets there are only operands, and that a frame has its
header's words above its base. None of the properties is inductive alone: what a
return restores is what lies in the stack, so the invariant must know every word
that a later return, throw or exit will read.

`SUB_THROW` unwinds in a loop, `OutermostPopped`, and `CatchTargets` follows the
links: recursive functions on numbers. What such a function does for a given frame is
proved by induction: a set of counterexamples would have a least element
(`LeastNatural`, from the well-foundedness of `<`).

The refinement reads the control state off the words from the bottom of the stack
(`ControlOf`): a boundary is a function that waits, a catch target an open try block,
and the height at which an `mvm_call` began a host function that waits. The code of
a function that waits is in the boundary above it (`CodeOf`), so which function is the
innermost depends on the whole stack. `Ordered` says how the words fit together
for that: the register of the frame is the last boundary, each boundary leads to the
one below it, and what an activation saved on entry are the frame and the code that
were the innermost then. A subroutine cuts words off the stack and pushes others, which
`Cut` relates to the control state: `CutSame` and `CutPushed` say what is left of it,
`FailedControl`, `ThrownControl` and `EnterControl` what a failure, an exception and
a call make of it, and each action of the machine is then one action of `CallSpec`.

### AsyncProofs

- `WakeUpsAreExact` (`ExactlyOneWakeUp`), `JobsResumeFunctions`
  (`ContinuationsAreArmed`);
- `OnlyTwinsSettleAgain` (`OnlyTwinSettlesAgain`);
- `AsyncImplementsOps` (`ImplementsAsyncOps`).

Nothing is assumed of programs.

The inductive invariant is the conjunction of `References` (every slot, subscriber
and job leads to an object of the right kind), `Frames` (which frame holds which
closure, what is poisoned while a frame waits for its callee, and what the
register is in each), `RunsOnce` (a closure has at most one frame), `Wakers` (no
function has two wakers, and one on the stack has one exactly while what it
called with an await-call goes on asynchronously), `Settled` (a promise that
no function settled is pending) and `CallbackOfCaller` (a host function that has not used the VM
yet finds in the register who awaits it). `ExactlyOneWakeUp` is not
inductive: between the call and the await of an await-call, the callee may complete
or fail to use the callback, so the invariant must say at every point of that
sequence where the one waker is. Completion moves wakers from a callback or a list
of subscribers to the queue; `CompletionMovesWakers` gives the bijection.

The mapping of `AsyncImplementsOps` reads the stage of an operation from its closure and the history of
outcomes, and who waits for it from its callback: a closure, or the subscribers
of a promise. It needs three facts beside the inductive invariant
(`Owned`): an operation has an outcome when one of its closures has run
(`Outcomes`), `resolve` and `reject` stand side by side with one callback
(`Pairs`), and every promise tells the outcome of the one operation whose callback
it is (`Owners`), which is why awaiting a promise is awaiting an operation. A function
waits in `AsyncOps` exactly if it has a waker here (`WaitsForAWaker`); each action
is then one action of `AsyncOps` or changes only frames, and `CompletionRefines`
covers return, catch block, host callback, `resolve` and `reject`. The second function of a
promise is told apart from the first by its twin, which has run (`Twins`); it moves no
waker (`CompletionKeeps`) and is the step `SettleAgain` of `AsyncOps` (`SettleAgainRefines`).

### SyncSocketProofs

- `SleepsOnlyWhenDue` (`NoLostWakeUp`), `MessagesInOrder` (`NoMessageSkipped`).

The inductive invariant adds where each thread is in its protocol when the flag is up
or down (`MainFollows`) and which message is in the buffer (`BufferHolds`): a sleep
is due only because whoever changes the flag has not passed its `notify` yet.

### SnapshotProofs

- `PointersStayExact` (`PointersAreExact`);
- `SnapshotsAreCheckpoints` (`Spec => ImplementsCheckpoint`), if `None` is no program
  (`NoneIsNoProgram`), which is what the constant is for.

The assumption is that the sizes are positive. The inductive invariant says of a
running VM that its buckets are in different places and that their offsets follow
each other without a gap (`BucketsOK`), that every header is followed by the word of its
allocation (`Parsed`), from which it follows that the walk by sizes finds exactly the
headers (`WalkFindsHeaders`), and that every pointer in a global or a slot is the one to
the data of an allocation (`Leads`); and the same of an image whose size and
checksum are right (`ImageOK`). `PointersAreExact` is not inductive: it says what
`pointerOffsetInHeap` finds, and that the next allocation or the next store keeps it
depends on where the other buckets are. An address of data is in no other bucket because buckets
are further apart than the heap is long (`AddressResolves`), and a place for a new
one is free by counting (`FreeAddressIsFree`).

`Heap` and `HeapCopied` put the buckets together from the first one and from the last
one; both give the only sequence that has the words of every bucket at their offsets
(`Flat`: `ConcatIsFlat`, `HeapCopiedIsFlat`). The refinement rests on two facts:
overwriting slots with values changes no header (`Overwritten`), and what
`LoadPointers` makes of a saved value is serialized to that value again
(`ValuesComeBack`). The padding of an odd size, which the two walks see differently, is in
no allocation (`ContentsInWords`): this is why the divergence costs a fatal error
(`RestoreSucceeds`) and never a wrong program.

### HeapProofs

- `HandlesKeepObjects` (`HandleKeepsObject`);
- `HeapCanBeParsed` (`HeapParses`), `OffsetsStayWithinLimit` (`OffsetsWithinLimit`);
- `RunsOutOnlyWhenFull` (`FailsOnlyWhenFull`);
- `TypesHold` (`TypeOK`).

They assume that the sizes of heap, buckets and bucket headers are even and positive,
that the heap is below 32 kB (`pointerOffsetInHeap` asserts it of the offset in a
bucket), that `undefined` is no short pointer, and that there are finitely many
handles. Allocations may have any size up to the heap's, the host any amount of
memory, and `malloc` may fail at any call.

The inductive invariant, `IInv`, says of the chain (`ChainOK`) that the buckets lie in different places,
each large enough for what it holds, that each offset starts where the one before ends
and that the last one ends below the limit; of the headers that the walk from header to
header fills each bucket (`Parses`) and that their sizes add up to the used size of the
heap; of the handles (`Linked`) that the list in host memory is a sequence without
repetitions; and of what they hold (`Holding`) that the offset in a listed handle
leads to the bucket and the place of its object (`Points`). None of the four
properties is inductive. `HandleKeepsObject` is about two searches along the
chain from its end, and needs that no address of data is in two buckets and that no
offset is the start of an empty bucket behind it. `OffsetsWithinLimit` is
preserved by a collection only because what has been moved is never more than what was
there: the sizes of the allocations with tombstones are a part of those of the
old heap, and the one that is moved next is not among them. The same argument is the assertion of
`gc_newBucket` (`microvium.c:4323`) that a collection needs no more heap than
there is. `FailsOnlyWhenFull` needs that after a collection the used size is exactly
what the handles hold: every allocation of the new heap has a handle.

The sums of sizes are folds over sets; `SumStep` is the recursive function behind
them, and what one more or one less allocation does to a sum is proved with
induction over finite sets (`SubsetInduction`). A collection is a recursive function on
the number of handles visited, and `CollectedOK` is an induction over it. From the visit
whose `malloc` failed on the new heap stays one with a failed `malloc` (`Bad`), so
that a collection that succeeded is one in which every visit did. After the collection
the handles are led through the tombstones (`HoldingCollected`).

### CollectorProofs

- `PreservesGraph` (`GraphPreserved`), from the invariant of `GraphInvariant`;
- `LimitHolds` (`HeapLimit`), `SqueezeFits` (`SqueezeIsExact`) and `TypeCorrect`
  (`TypeOK`), from the invariant of `SpaceInvariant`.

They hold for every set of well-formed heaps (`HeapAssumption`) that are not larger
than the largest heap, with allocations, chains of lists and arrays of any size, and
for any estimate and any sizes of buckets (`SizeAssumption`).

None of the properties says anything before the collection is over or at the
assertion, so the invariants have to say what a half-finished collection is.
`GraphInv` compares the three heaps. What is left of the old one differs from
what the program left in tombstones, and in the storage of the arrays that have
moved, which has been cut (`FromOK`); the tombstones number the places of the new heap
(`MovedOK`); a place of the new heap has the words that the program saw in the allocation
with that tombstone, those behind the scan unchanged and those before it led through
the tombstones (`ToOK`), and so have the roots (`RootsOK`); and what has a tombstone
is in every set that is closed under what the program sees (`Reached`). The hard case is a
move: `Merged` follows a chain of lists in the old heap while other allocations of that
heap are tombstones already. It gives what the program saw because no list of a chain
but the first is ever moved by itself (only the list before it refers to it), and an
array's storage is cut at most once, and before it is moved. At the end
of the scan the set of allocations with tombstones is itself closed, and so it is
`Live`. A squeeze starts with the new heap renamed: `RenamedSound` shows that it is well
formed again.

`SpaceInv` counts. `Unclaimed` gives each allocation that may still move its old size and
0 to one that has moved or is part of a list that has been merged; what has been used
and what is unclaimed add up to no more than the old heap (`SpaceOK`), where merging
drops the headers of the lists, and cutting the end of an array. Hence the limit:
also the size that a move starts over with, a merged list as far as the first list
that does not fit, is of words that are unclaimed. For the squeeze, `FirstOK` says that there is a
second bucket only if the first was too small, also in the moment between `OpenBucket` and the
move that needs it (`Pending`); and `SqueezedOK` that the heap of a second collection
is what the first left, so that all of it is live and nothing is merged or cut
(`Compact`): then the sum is exact, and the estimate is the sum.

What a chain of lists is and how long a merged list gets is recursion over data,
a recursive function in the model (`Chain`); its equation at every list follows from
the order of the lists in the heap (`ChainsExist`, `ChainUnfolds`), with the induction of
`IntervalLemmas` downwards. Sums of sequences are the folds of the community modules; that
such a fold has a sequence of partial sums (`Sums`) is proved with induction over the
sets of positions.

### Only model-checked

- The invariants of `Objects`, which relate its property lists to the objects of the
  language through every step of an operation; `RestoreSucceeds` of `Snapshot` does
  not hold, and neither does `BucketsHold` of `GarbageCollector`.
- `Scopes` and `Numbers`: their properties compare two computations over
  finite trees and over arithmetic that no decision procedure has.
- `Language`, `Codegen`, `Execution` and `Bytecode` follow the recursion of the
  compiler and of the decoder with RECURSIVE operators, about which nothing can be
  proved with this prover.
- Liveness under fairness (`SyncSocket`, `GarbageCollector`).
- `CatchLostByEarlyReturn` of `CallMachine`.

## Plan

In the order of importance:

1. `SUB_NEW` in `CallMachine`, and its register cache.
2. The import cycles of the compile-time machine.

## Not modelled

- Class construction in `CallMachine` (`SUB_NEW`).
- Module loading with cycles, the collector and the job loop of the compile-time
  machine; its instructions are in `Execution`, `Scopes`, `Numbers` and `Async`.
- The debugger interface and inspection functions of the engine, the macros of a
  port, the Node bindings, the command line, file access of the importer, and the
  text forms of IL: they keep no state that a program depends on.
- Vendored and generated code: yaml-cpp, `src/dist-c` (a copy of the engine).
