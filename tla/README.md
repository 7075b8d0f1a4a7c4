# TLA+ model of TinyShell OS

This directory holds TLA+ specifications of the TinyShell kernel, the TLC
configurations that check them on small instances, and TLAPS proofs about the
scheduler and the task flow that uses it, the two ring buffers, the keyboard decoder,
the interrupt dispatcher, the page allocator and the boot that fills it, virtual
memory, the heap and the file system. Paths below are relative to the repository.

## The system

TinyShell is a single-CPU i386 kernel. `kernel_main` (`kernel/kernel.c`) reads the
boot loader's memory map, sets up every part with interrupts off, runs self-tests,
executes `sti`, waits for the
timer, runs three cooperative tasks, and then loops: `hlt`, drain the keyboard
ring, feed the shell. Three kinds of execution meet:

* the foreground: `kernel_main` and, inside `task_run`, one task at a time;
* IRQ0 (timer), which counts ticks, and IRQ1 (keyboard), which decodes a byte and
  fills a ring. Handlers run with interrupts off until `iret`;
* `hlt`, which stops the foreground until an interrupt.

| Part | State | Operations | What is hard about it |
|---|---|---|---|
| scheduler (`task/task.c`, `context_switch.S`) | slot states, cursor, budget, counters, saved stacks, IF | init, create, run, yield, exit | which stack may be resumed, IF across switches, fairness across runs, budget and counter accounting |
| IPC (`ipc/ipc.c`) | endpoint table, rings, 32-bit sequence numbers | init, create, send, receive | wraparound, stale bytes, full and empty |
| boot flow (`kernel.c`) | task bodies, tick counters | producer, consumer, observer, final conditions | where interrupts fall, hlt races, the dispatch budget |
| keyboard (`arch/x86/keyboard.c`) | decoder flags, ring | IRQ1 handler, pop | handler inside pop, full ring, hlt race, prefixes |
| PMM (`mm/pmm.c`) | two bitmaps, counters, freeze flag | reset, add, reserve, alloc, free | order of regions, rounding, 64-bit overflow |
| heap (`mm/heap.c`) | headers inside the arena | init, malloc, calloc, free | split and merge boundaries, overflow, bad frees |
| RAMFS (`fs/ramfs.c`) | slot table | create, write, append, read, remove, list | slot reuse, stale bytes, limits, listing over holes |
| VMM (`mm/vmm.c`, `paging.c`) | directory, table pool, TLB | map, unmap, translate | pool exhaustion and reclaim, TLB order |
| IRQ, PIC, PIT (`arch/x86/irq.c`, `pic.c`, `pit.c`) | handler table, masks, counters | register, enable, dispatch | requests that overlap, are latched early or drop before they are acknowledged |
| status (`diag/system_status.c`) | a snapshot | read | unsynchronised reads |
| line editor, parser, runtime (`shell/`) | line buffer | feed, take, parse, execute | limits, refused lines, separators that come from looked-up sizes |
| console, serial | text memory, cursor | putc, clear, scroll | last column, last row, erasing across rows |
| multiboot (`boot/multiboot.c`) and its use in `kernel_main` | a walk over records | validate, walk, fill the PMM, reserve | record arithmetic, overlaps, nothing done for a malformed map |
| GDT, IDT, exception stubs | tables | load | straight-line set-up |

## Modules

| Module | Models |
|---|---|
| `Task` | the scheduler and the stack switch |
| `Ipc` | the endpoints |
| `MessageFifo` | abstract bounded FIFOs, implemented by `Ipc` and by the ring of `Keyboard` |
| `TaskFlow` | `Task`, `Ipc`, IRQ0 and IRQ1 composed as `run_task_flow` uses them |
| `Keyboard` | controller bytes, IRQ1 handler, decoder, ring, main loop |
| `Irq` | handler table, masks, dispatch, EOI, their set-up, and the status snapshot under IRQ0 |
| `Pmm` | the page allocator |
| `Multiboot` | the boot loader's map: validation and one iteration of the walk, with a reference definition of a well-formed map |
| `Boot` | `Multiboot` and `Pmm` composed as `kernel_main` does, up to `PMM_OK`, and allocations after it |
| `Heap` | the heap |
| `Vmm`, `AddressSpace` | page directory, table pool and TLB, and the address map they implement |
| `Ramfs`, `FileStore` | the file system and the map it implements |
| `Console`, `Tape` | text memory, cursor and serial copy, and the tape of cells they implement |
| `LineEditor` | the line editor as operators on its record |
| `Command`, `Words` | the parser as operators, and the words of a line as a user understands them |
| `Shell`, `ShellSession` | the runtime with editor, parser and `Ramfs`, and the session it implements |
| `Terminal` | `Shell` and `Console` composed |
| `TaskProofs`, `VmmProofs`, `HeapProofs`, `RamfsProofs` | theorems about the modules of these names |
| `FlowProofs` | theorems about `TaskFlow` |
| `EventProofs` | theorems about what interrupts and messages pass through: `Keyboard`, `Irq` and `Ipc` |
| `PmmProofs` | theorems about `Pmm`, `Multiboot` and `Boot` |

`MC*` modules give the constants for TLC. A definition called `x_something`
directly above `x` is a deliberately wrong variant of `x`; each property is
violated when its variant replaces the original.

### How state and actions correspond to the code

* Variables keep the names of the C statics. Operators and actions keep the names
  of the functions. One action is one whole call, unless the call can be
  interrupted in the middle of shared accesses.
* `Task`: the scheduler's entry points run with interrupts off and no handler
  calls them, so each is one action, taken by the context in `cpu`. `stack[c]` is
  what `task_context_switch` left on a stack: the place to continue and the flag
  `popfl` restores. `pc` is the place of the running context. `task_run` is two
  actions, before and after its switch. `mode`, `waited`, `budget`, `base` and
  `slices` are history variables that no guard reads.
* `TaskFlow`: task bodies advance in steps of one call or one read of a counter;
  an interrupt may arrive between any two, also between the last test of a wait loop
  and its `hlt`: executing `hlt` is a step of its own (`boot_hlt`, `observer_hlt`), and
  an interrupt ends only a `hlt` that was executed. Payloads carry the sequence number and
  one byte beyond the length, which is all the consumer's test can tell apart.
* `Keyboard`: `keyboard_pop_char` is four actions, one per access to a variable
  the handler shares. Its locals are reset when they are dead. Scan codes are
  represented by one key of each class. Every
  make code of caps lock toggles the lock, in the driver and in the modelled
  keyboard alike, so typematic repeat of caps lock is not a difference the
  decoder property can see. The user, chosen at the start, either types `FastKeys`
  at any time or `SlowKeys` while the main loop is at rest: the first fills the ring,
  the second exercises the decoder.
* `Pmm`: bitmaps are sets. Loops over pages are one set operation, because no
  page of a loop depends on another. `described`, `claimed` and `owned` are
  history variables, defined from bytes and not from the page arithmetic.
* `Heap`: the arena maps each aligned offset to the header stored there. Writing
  bytes destroys the headers they touch, so an overlap corrupts the heap as it
  would in memory. `live` records what callers hold.
* `Vmm`: a directory or table word is a record of a table or frame and a set of
  flags. `vmm_unmap_page` is three actions, because the CPU may walk the tables
  and fill its TLB between the store, `invlpg` and the release of the table.
  `vmm_map_page` is one action: it only turns an absent word into a present one,
  and absent words are not cached. `Walk` is the hardware: it reads
  `page_directory` only, and grants what both levels grant. The TLB holds complete
  translations; directory words that a CPU caches on their own are not modelled.
* `Irq`: a handler runs with interrupts off up to its `iret`, so an interrupt is one
  action. The controllers are external: one latched request per line, priorities,
  the slave behind line 2, and line 7 answered when a request drops before it is
  acknowledged. A request the CPU sees is taken before the next foreground step.
  The keyboard controller may hold bytes from before the boot and receives more at any
  time; it raises its line again only after its byte was read. `system_status_read` is one
  action per load; the fields that no interrupt changes are left out.
* `Multiboot`, `Boot`: a boot record is what the loader left in memory; past the
  last record memory repeats the records, so that a walk that runs too far finds
  something. Both integer widths are kept, down-scaled. Every iteration of a walk
  and every call of the self-test is an action. After `PMM_OK` pages are allocated
  and freed, with good and bad addresses, in any order.
* `Console`: a record. Attributes never vary and are left out.
* `Terminal`: a call of the runtime begins in one step and prints one symbol per step;
  each symbol is one cell. The boot messages before it move the cursor only.
* `Command`: the name of a command is one symbol, and a word is that command when
  it is that symbol alone, which is what `strings_equal` decides.
* `Shell`: one action is one character handed to `shell_runtime_handle_char`, with
  everything it calls. A message, the prompt and the status report are one symbol
  each of `output`. The calls of `ramfs_self_test` are actions of their own.
* `Ramfs`: C strings are sequences of characters. `request` records the call, so
  that the abstract store determines both effect and result.

## Runs

| Run | Instance | Checks |
|---|---|---|
| `task` | 3 slots, counter modulo 4, budgets 0, 1, 2, 4 | bookkeeping agrees with the CPU, only resumable stacks are resumed, IF stays private, budget and counter are exact, round-robin bound, finished count, honest results |
| `ipc` | 1 endpoint, depth 2, payload 2, sequence numbers modulo 4 | no stale bytes, FIFO refinement with the results of the calls |
| `task_flow` | the constants of `kernel.c`, 4 ticks while the CPU is not halted, 2 keys | lockstep of producer and consumer, the final conditions, termination |
| `task_flow_minimum` | same | expected violation, see below |
| `keyboard` | ring of 2, numbers modulo 4, 2 bytes in the controller; 2 fast keys, 5 slow ones | FIFO refinement under interrupts inside pop, every character handled, bytes decode to what was typed |
| `irq` | counters modulo 3, 2 timer edges in a round, 2 bytes waiting | the two counters of a snapshot differ in one direction and by no more than the interrupts that came; every request of an enabled line is served, for the keyboard if its controller was empty at `irq_init` |
| `boot` | maps of up to 3 records of 8 kinds and every length up to 13, 6 pages, 32- and 64-bit limits at 31 and 63 | the walk accepts exactly the well-formed maps and reads nothing outside, the allocator owns exactly the usable pages that nothing else needs, the page history gives the bitmaps and the bitmaps the counters, the boot succeeds or stops for a reason in the map |
| `heap` | 32-byte arena, 4-byte headers, SIZE_MAX 63 | heap valid, blocks match callers, allocations disjoint, reported totals exact |
| `vmm` | 6 directory entries of 2 pages, 1 identity and 2 dynamic tables, 3 dynamic regions, 1 cached translation | software and hardware agree on every address, table pool exact, no stale translation, refinement of `AddressSpace` |
| `ramfs` | 2 slots, 5 names, 2-byte files | validity, complete listing, refinement of `FileStore` |
| `shell` | 22 lines and all their beginnings, 2 files of 5 bytes, lines of 11 | refinement of `ShellSession` key by key, texts keep single spaces |
| `terminal` | 3 rows of 4 columns, every line of up to 10 letters and blanks, words of 2, 3 arguments, one file | the screen shows the prompt and the line being edited, and nothing behind the cursor; refinement of `Tape` character by character; the words the parser finds are the words of the line |

The bounds are chosen so that each limit is reached: sequence numbers and
counters wrap, rings and tables fill, budgets run out in the middle, three slots
make the round-robin order visible, three regions compete for two page tables,
the arena holds up to four blocks so that a free can merge on both sides, sizes
lie on both sides of the split and overflow limits, map records end before, at and
behind the end of the map and of both integer widths, words and lines reach their
limits and one more, and a full line with its cursor fills the screen. The moduli are
multiples of the ring depths, as 2^32 is.
`WireMax`, `FastKeys`, `SlowKeys`, `MaxStray`, `MaxKeys`, `TlbSize`, `MaxBurst`,
`MaxBytes`, `MaxMapLength` and `UserLines` are the only bounds without a counterpart
in the code; they limit
the environment and not the kernel. `MaxBurst` is below the counters' modulus, as
no foreground round lasts 2^32 ticks. `UserLines` keeps the lines a user types to a
dictionary; every key, erasing and entering at any point are still possible. One
cached translation is enough for `NoStaleTranslation`, which speaks about each of
them alone. One endpoint is enough for `Ipc` and the boot's order of calls for `Pmm`
because the theorems below hold for any number of endpoints and any order.

The assumptions on constants are those the headers satisfy: the ring depths divide
the moduli, `SHELL_TEXT_CAPACITY` exceeds `SHELL_LINE_MAX` (which is why "text too
long" is never printed), `RAMFS_NAME_MAX` equals `SHELL_COMMAND_ARG_MAX`, and a full
line with its cursor fits on the screen (128 of 2000 cells).

Type invariants are stated for `Task`, where the proofs build on it, and for
`Ipc`. The other modules have none of their own; their invariants relate the
variables to each other or to an abstract map.

### Fairness

Four modules state liveness; everything else is safety.

* `TaskFlow` and `Keyboard` assume that the CPU executes the foreground (weak
  fairness of its steps) and that the timer interrupts a halted CPU whose interrupts
  are on (weak fairness of IRQ0 there). There is one CPU, handlers return, and the
  PIT runs at 100 Hz once IRQ0 is unmasked. Nothing is assumed of the keyboard.
* `Irq` assumes that the CPU executes (weak fairness of handlers and foreground
  together), and nothing of the devices.
* `Boot` assumes that the boot code runs on: it is sequential and runs with
  interrupts off.

### What the keyboard depends on

`keyboard_init` does not read the controller's data port. If a byte waits there while
`pic_init` clears the latched requests, the controller raises no new edge, and the
kernel never takes a keyboard interrupt. Nothing in `src/` empties the controller
before. `RequestsServed` states both halves: with
`ControllerDrained` every byte is followed by a keyboard interrupt, and without it
none is ever taken. Bytes that arrive between `irq_init` and `sti` are not lost.

### Labelled refinements

A refinement mapping alone does not relate what a caller asked for, or was told, to the
abstract step. Three of the refinements say that too, in a second conjunct:
`ImplementsFifo` (a call returns true exactly when the abstract call succeeds),
`ImplementsSession` (a key pressed is that key in `ShellSession`) and `ImplementsTape`
in `Terminal` (a symbol printed is that symbol on the tape).

### Finding

`run_task_flow` demands at least `TASK_FLOW_MIN_SWITCHES` (17) dispatches
(`kernel.c:538`), assuming that each of three ticks ends a `hlt` of the observer.
A tick that falls elsewhere advances the counters without a dispatch. The run
`task_flow_minimum` shows a flow in which all tasks finished with fewer
dispatches; the kernel then stops with `BOOT_FAIL:task-flow`. `FlowConditions`
shows that every other condition of `run_task_flow` holds in all interleavings.

## Proofs

### Scheduler

`TaskProofs` proves, for every number of slots, counter width and set of budgets
(`TaskAssumption`: both numbers positive, budgets natural), all seven properties
of the run `task`, and that a finished slot stays finished until a reset. None of the
safety properties is proved alone; the inductive
invariant `IInv` adds what the code relies on tacitly:

* `ContextInv`: only the bootstrap context stands in `task_run`, and tasks run
  only in an initialised scheduler (otherwise `task_exit` could halt a task);
* `Flags`: the flags in the stacks that a switch may still resume are the ones
  their owners chose;
* `Budget`: a return to the bootstrap happens only without budget or without
  READY tasks, which makes the result of `task_run` honest;
* `Bypass`: the number of times a task was passed over plus its distance from the
  cursor is below N. The distance shrinks with every dispatch of another task
  (`DistShift`), which gives the round-robin bound.

`FindNext` states what the cyclic search returns, `DispatchStep` and
`BootstrapStep` are the two ways a task leaves the CPU, shared by `task_run`,
`task_yield` and `task_exit`; `NextStep` has one case per action. `ModStep` and
its lemmas treat the wrapping counter.

### Task flow

`FlowProofs` proves `Lockstep` and `FlowConditions` of the run `task_flow`, for every
number of messages and ticks, every ring depth and every size of the tables, whenever
the interrupts arrive. `FlowAssumption` demands room for three tasks, one endpoint and
the message bytes, and a budget that `MaxKeys` keys pressed while the observer halts
cannot spend: each of them costs one dispatch, and the kernel's 256 leave room for more
than 230. The theorems rest on the definitions of `Task` and `Ipc`, not on their
invariants; `WholeInv` repeats what the flow needs of them.

* `TurnInv` is the heart: the slots are searched in a circle, so the turns go producer,
  consumer, observer (`NextTurn`), and each turn of the first two moves exactly one
  message. It names, for each owner of the CPU, where the other two wait and what the
  ring holds. `BothWait` and `BothExited` are the only states the observer can see.
* `TimerInv`: the two counters advance together, and the observer's start values were
  read in the order ticks, interrupts; so when its loop ends, both differences are
  reached.
* `DispatchInv` bounds the dispatches: a turn of producer and consumer for each message
  and one to exit, one for the observer, and one more for each interrupt that ended its
  `hlt`. Only that many, because a tick that ends a `hlt` also counts towards the
  observer's goal, and the loop is left once the goal is reached (`Counted` counts the
  tick that ends a `hlt` already decided on). This keeps `task_run` inside its budget,
  so it returns true.
* `BootInv` describes the way there: nothing runs while tasks are created.

`YieldEffect` and `ExitEffect` say what the scheduler does to a running flow; each body's
steps have a lemma of their own. The lower bound on dispatches is not provable: see the
finding above.

### Rings, decoder and interrupts

Both rings of the kernel tell full from empty by the difference of two wrapping
sequence numbers and find slots by a remainder. `EventProofs` proves once what makes
that work when the depth D divides the modulus M: numbers that are fewer than D apart
have different slots (`SlotsDiffer`), advancing either number moves the window of
filled slots by one (`AdvanceSlots`, `ExtendSlot`), and so the sequence of elements
in the window grows at the end (`WindowAppend`) or loses its head (`WindowTail`).

For `Ipc` (from `IpcAssumption`) it proves that the pending count never exceeds the
depth, that no received message holds bytes behind its length, and that
`Ipc` implements `MessageFifo`: initial states map to initial states, each call
maps to an abstract step or to none, and its result says which. The invariant is the type, the bound on the
pending count, and cleanness of all slots, not only of the filled ones, since
`ipc_send` writes over whatever a slot held.

For `Keyboard` (from `KeyboardAssumption`) it proves the refinement for the keyboard
ring, where IRQ1 may push between the steps of `keyboard_pop_char`. The invariant
speaks about the sequence of buffered characters: between its loads and its store
the foreground's character is the first of that sequence, and a push leaves the
first as it is because it refuses to fill an occupied slot.

It also proves `DecodedAsTyped`, for every set of keys whose codes are
not the prefix. `DecoderOK` says of the bytes still on the wire that decoding all of
them, from the decoder's present flags, ends in the state of the physical keys; a key
press appends to both sides and the handler takes the first byte from both.

For `Irq` (from `IrqAssumption`: fewer edges in a round than the counters can tell
apart) it proves `SnapshotConsistent` for every counter width. The invariant `IrqInv`:
nothing is in service between two steps, since each handler ends what it acknowledged
(`NothingInService`); the tick counter equals the dispatcher's count for line 0, which
needs the set-up order of `TimerSetUp` (no tick is counted before its handler is
registered); and while a snapshot is taken, the interrupts counted since it began and
the one still latched are no more than the edges that came.

### Page allocator, memory map and boot

`PmmProofs` proves `OwnershipExact` and `CountsMatchBitmaps` for every number and
size of pages, every address width and every sequence of calls (`PmmAssumption`:
positive sizes, and
addresses reach the physical limit). `BelowFloor` and `BelowCeiling` reduce the two
roundings to products; `InwardSpan` and `OutwardSpan` then show that the page spans
the code computes, after clipping, are the pages wholly inside and the pages touched
by a region, which the model defines from bytes. The invariant describes both
bitmaps: managed is described minus claimed, allocated is claimed or owned, and
nothing is owned before ownership is frozen, which is why a reservation never meets
an allocated page. The counters follow from the cardinality theorems.

The same module proves the composition `Boot` (from `BootAssumption` and
`MultibootAssumption`: positive record sizes, limits within the address range, and
the types of what a loader leaves), for every map. `WalkIsExact` is the parser's
correctness, `BootOwnershipExact` says which pages callers can get, and
`BootStopsForAReason` is the safety half of `BootOutcome`: a boot fails only for a
malformed map, a kernel beyond the identity limit or no page left, and the later walks,
the reservations and the self-test never fail. The invariant `BInv` adds to the
allocator's own what the walk has seen: the cursor stands at the end of a whole number
of sound records (`MapOK`), the regions added or reserved are those of the records
before it (`PlaceOK`, `PagesOK`), and the self-test holds the page it took (`TestOK`).

Where a record ends is the recursive function `EndOf`. Its equation is usable once a
solution is shown to exist and to be the only one (`SumExists`, `SumUnique`); both
follow from the least counterexample, which `LeastNumber` derives from the
well-foundedness of the naturals.

### Virtual memory

`VmmProofs` proves the three invariants of the run `vmm` and the refinement of
`AddressSpace`, for every number of directory entries, tables and pages, every window
and every sequence of requests, from `VmmAssumption` (at least
one dynamic table, and a window behind the identity map and inside the directory). The invariant: the directory word and the
index kept beside it agree; identity tables keep their words; present words of dynamic
tables are pages of the window, and the directory word is as permissive as they are;
no two entries share a table, a table is in use exactly when an entry owns it, and only
the entry `vmm_unmap_page` is working on may own an empty one (`PoolOK`, `UnmapOK`).
The TLB holds what the tables say except for the page between its store and its
`invlpg` (`TlbOK`), which is why nothing stale is left when the call returns.

### Heap

`HeapProofs` proves all four properties of the run `heap`, for every arena, header
size, alignment and `SIZE_MAX` (`HeapAssumption`: the header and the arena are
multiples of the alignment, and a header and one unit fit). The code follows the list
from its first block; the invariant describes all headers in the arena at once
(`Tiled`): each is linked in both directions to the blocks beside it, and no stale
header is left behind. `Ordered`, by a least counterexample, shows that blocks do not
overlap. So bytes written inside a payload destroy no header (`Untouched`), splitting
writes its header into the block's own payload (`SplitTiled`), and merging removes one
header and changes nothing else (`MergeTiled`). `HalfReleased` is the state between
the two merges of `kfree`: only the freed block can have a free neighbour, on its right.

The three walks (`inspect_heap`, the list of blocks, `kheap_get_stats`) are recursive
functions; each is shown to have a solution and to agree, from the last block back,
with a closed form: it accepts, it visits all headers, it measures their sizes. The
free bytes are exact because headers and payloads from any block on fill the arena
(`RoomExact`).

### File system

`RamfsProofs` proves the two invariants of the run `ramfs` and the refinement of
`FileStore`, for every number of slots, every limit and every sequence of calls. The
invariant is the type, unique valid names, blank free slots and the exact count. The
listing counts live slots below an index: that numbering is one-to-one and onto
(`Rank`), so each index below the count is one file.

### Checked by TLC only

Liveness under fairness (`FlowEnds`, `CharactersHandled`, `RequestsServed`,
`BootOutcome`) is outside the reach of the prover. What the parser of
`Command` (a recursive function) and the reading of a line in `Words` (a fold) compute
for every line is an induction over data, which the installed provers cannot
instantiate: `ParseExact` and the refinement of `ShellSession` rest on it. The texts of
`Shell`, the screen of `Terminal` and the refinement of `Tape` are model-checked and
not proved.

## Not modelled

* GDT, IDT, exception stubs and the exception report: straight-line set-up and
  register saving, without state that a property could tell apart.
* `heap_self_test`, `vmm_self_test`, `ipc_self_test` and `keyboard_self_test`: fixed
  sequences of calls with interrupts off. The modules of these components take the
  same calls in every order.
* Directory words that a CPU caches apart from complete translations. `vmm_unmap_page`
  clears the directory word after its `invlpg`. A word cached in between is flushed by
  the next `invlpg` of any address, so it could be used only while the next
  `vmm_map_page` has stored its entry and not yet executed its own. Whether a
  processor does that is not settled by anything in the repository.
* `irq_unregister_handler`, masking a line again, and the paths of
  `system_status_read` that fail: the kernel never calls the first two, and the last
  need totals beyond 32 bits. So `Shell` prints the report where the code could print
  "status unavailable", and an `ls` whose file vanishes while it lists, which one
  foreground cannot cause, prints the error alone.
* Serial port polling, hexadecimal output, VGA attributes, message texts and the
  layout of the status report.
* The host scripts.
