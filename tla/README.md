# Verification of the Another-OS kernel

TLA+ models of the kernel in `src/src` (and of `src/libc/queue.h`), TLC
configurations that check them on small instances, and TLAPS proofs. Paths
below are relative to `src/` of the repository's checkout as the `map` in
`PROJECT.json` names them (`src/src/arch/x86/mem/heap.cpp` and so on); `K/` is
short for `src/src/arch/x86/`.

## 1. The system

A 32-bit x86 hobby kernel in C++. `boot.asm` sets up a page directory with 4 MB
pages and calls `kmain`, which runs `ArchKernel::Init`: console, GDT, IDT and
interrupt controllers, timer, physical memory, page tables, heap, scheduler,
then an endless loop. There is one processor; the only concurrency is the timer
interrupt, which may come between any two instructions while the interrupt flag
is set. There are no tests, no README and no build file in the repository:
comments and messages of the code are what it says of itself.

| part | state | operations | who uses it | what is hard | what makes it correct |
|---|---|---|---|---|---|
| kernel heap `K/mem/heap.*` | linked headers between the blocks | `malloc`, `free`, panics | everything that says `new` | coalescing, dead headers, wrap-around | blocks never overlap, list sound, double frees noticed |
| frame allocator `K/mem/phymem.*` | bitmap behind the kernel, `usedBlocks` | `Init`, `MarkUsed`, `AllocateBlock`, `FreeBlocks` | page tables | rounding, a counter beside the bits, bits that are wrong | no frame handed out twice, none of kernel or initrd |
| page tables `K/mem/virtmem.*` | directory, tables, last entry maps itself | `Init`, `MapVirtualToPhysical` | heap, scheduler | failing allocations, undivided frame, rights of two levels | heap mapped to frames of its own, mapping is local, kernel pages closed |
| scheduler `K/scheduler/*` | list of threads, current one, tick count, flags | timer handler, `AddThread`, `ForceSwitch`, `Unblock`, `RemoveThread` | `pit_handler`; no other caller yet | ticks inside `ForceSwitch`, deletion of the current thread, blocked lists | every ready thread runs, never from an old frame |
| boot `src/src/main.cpp`, `K/kernel/kernel.cpp` | what is set up so far | `ArchKernel::Init` | `_start` | ticks during set-up, missing memory, a missing module | ends, keeps what the loader loaded, ticks find what they need |
| list `src/libc/queue.h` | nodes, `head_`, `tail_`, `size_` | push, remove, clear | scheduler | removal during a walk, reuse of nodes | behaves as a sequence |
| console `K/drivers/vga.*` | place, frame buffer, video registers, a static buffer | `_put`, `printf` | everyone, the timer handler too | the handler prints in the middle of a print, bytes that wrap | text undisturbed, cursor right, formats expanded, buffers not overrun |
| interrupts `K/tables/idt.*`, `isr_wrapper.asm` | handler table, controllers' registers | `Init`, `InstallHandler`, stubs | timer, system calls | requests during set-up, acknowledgements | each request reaches its handler, nothing left in service |
| timer `K/drivers/pit.cpp` | tick counter, ticker | `pit_handler` | console, scheduler | shares the console | see those |
| segment tables `K/tables/gdt.*` | descriptors, task state segment | `Init`, `SetTSS` | processor, scheduler | fields packed bit by bit, a limit computed from an address | an interrupt in ring 3 finds gate, segment and stack |
| processes, system calls, libc, initrd tool | records | straight-line | | | see section 8 |

## 2. Modules

| module | models | state | actions |
|---|---|---|---|
| `Allocator` | what a heap promises (abstract) | `held`, `stopped` | `Grant`, `Release`, `Panic` |
| `Heap` | `heap.cpp` on headers | `hdr` (address to fields), `live` and `stale` (callers), `status` | `Malloc`, `MallocPanic`, `Free`, `FreePanic` |
| `HeapWords` | `heap.cpp` on 32-bit words | `mem`: headers and payload share it, dead headers stay | the same, `HolderWrites`, `StackOfRemovedThread` |
| `PhysMem` | `phymem.cpp`, kernel.cpp 62-64 | `bits`, `usedBlocks`, `held`, `stage` | `PhysicalMemInit`, `ReserveKernel`, `ReserveInitrd`, `AllocateBlock`, `AllocateFails`, `FreeBlocksOf` |
| `Boot` | `kmain`, `ArchKernel::Init`; extends `PhysMem` | position in `Init`, what is ready, interrupt flag, heap page, copy of the loader's structure | `SetUp`, `Reserve`, `HeapTable`, `HeapPage`, `LowTable`, `HeapInitialize`, `PageFault`, `CopyInfo`, `NewScheduler`, `SetSched`, `TestModules`, `Tick`, `RunDamaged`, `Client` |
| `VirtMem` | `virtmem.cpp`, `boot_pt` | directory, frames used as tables, free frames, pages opened to user code | `InitSelf`, `InitHeapPage`, `InitLow`, `MapVirtualToPhysical` |
| `Scheduler` | `scheduler.cpp`, `thread.cpp`, `userspace.asm` | list, current thread, counters, saved frames, what the processor runs | `Tick`, `AddThread`, `AddUserThread`, the four steps of `ForceSwitch`, `Unblock`, `Block`, `RemoveThread`, `Sti`, `Cli` |
| `SequenceQueue` | a sequence (abstract) | `seq` | append, prepend, remove, clear |
| `Queue` | `queue.h` | nodes and ends, the loop of `Remove(e)` | `push_back`, `push_front`, `RemoveIndex`, `RemoveCall/Turn/Return`, `Clear` |
| `Terminal` | a terminal with a place for the text (abstract) | the place, the colour and the cells | print, newline, return, tabulator, colour |
| `Console` | `_put`, `update_cursor`, `pit_handler`'s printing | place, frame buffer, position in `_put`, video registers | one action for each store or port write, `set_cur_color`, `Tick` |
| `Format` | `intToString`, `uintToStr`, `reverseStr`, `_put_str` | the static `tmp`, the locals | one action for each turn of a loop, `TickPrintsThread` |
| `Printf` | `vprintf` and `_print`; extends `Format` | format, arguments, how far both are read | one action for each case of the switch, and those of `Format` |
| `Descriptors` | `gdt.cpp`, the gates of `idt.cpp`, how the processor reads them | none | |
| `Interrupts` | `idt.cpp`, `isr_wrapper.asm`, the 8259 pair, rings; extends `Descriptors` | handler table, masks, requests, in-service lines, ring, task state segment, the stub | set-up steps, `Deliver`, `UserInt`, `irq_handler`, `CallHandler`, `SwitchThread`, `UserJump`, ... |
| `MCHeap`, `MCPhysMem`, `MCBoot` | instances for TLC, and a property that sums over a set | | |
| `HeapProofs`, `HeapWordsProofs`, `BootProofs`, `SchedulerProofs`, `ConsoleProofs`, `VirtMemProofs`, `InterruptsProofs` | proofs about the module of that name (`BootProofs`: `PhysMem` too; `SchedulerProofs`: `Queue` too; `ConsoleProofs`: `Format` and `Printf` too); section 6 | | |
| `NatFacts` | least elements, quotients and remainders, sequences extended by one, for the proofs | | |

`Heap` implements `Allocator`, `HeapWords` implements `Heap`, `Queue`
implements `SequenceQueue`, `Console` implements `Terminal`; each is a
`PROPERTY` of a run, and each is proved.

### Abstractions worth knowing

* `Heap` keeps only linked headers; magic words and dead headers are the
  business of `HeapWords`. `live` and `stale` record what callers were given and
  gave back. Callers free what they hold, or free again what was freed since the
  last `malloc`. On words, memory starts with any of `Contents` and a holder may
  fill its block with one from any word on. So may a thread whose stack
  `RemoveThread` has freed under it, until the next `malloc`.
* `PhysMem`: the bitmap is the set of one bits. Each word is initialised to
  `0xFF`, so of 32 bits 8 are ones. `FirstFree` reads on behind the words written,
  where memory holds anything: each word there may or may not report a free
  frame, and any of its frames.
  `kernel_size` is 0: its initialiser is dynamic, and `_start` runs no static
  constructors (in the object file it sits in `.bss`).
* `Boot`: the bodies of the set-up calls are one step each where nothing of
  memory depends on them; page tables are counted (the frames they take, in the
  order the code takes them) and `VirtMem` has what is written into them. The
  contents of frames are not modelled, with one exception: since `kernel_size` is
  0, the heap may get frames of the kernel image. Once one of those is cleared or
  written (`damaged`) the processor may run into anything (`RunDamaged`). On a real
  machine that is every one whose bitmap is smaller than the image, about 60 KB,
  so every one with less than 2 GB; the machines of the run are of both kinds.
* `VirtMem`: addresses are page numbers, frames used as tables start with junk,
  stores outside memory are lost and loads yield ones. `opened` remembers which
  pages were last mapped for user code.
* `Scheduler`: the handler is one step, since it runs with interrupts off.
  Nobody calls the scheduler's interface yet, and `Block` is declared and not
  defined; the module's header states the contract its callers are taken to
  keep. The branch for state `Started` is left out because nothing assigns that
  state. Kernel threads have no parent process and each user thread has a page
  directory of its own; `tss` and `cr3` record what the code installs, and no
  property is about them, as a user thread never leaves the processor.
  `RemoveThread` is one step, although a tick may come between its `free` and
  its store. The handler chooses the next thread by a closed form;
  `GetNextReadyThread` and `StoppedRemoved` are the code's loops, and
  `ChoiceIsTheLoop`, checked and proved, says that they agree.
* `Queue`: an operation is one step because the scheduler's callers run with
  interrupts off; `Remove(e)` is one step per turn, as the loop's bound and the
  list change under it.
* `Console`: a cell holds the colour of its text, characters are left out. `x`
  and `y` are bytes and wrap around, so nothing bounds them. The ticks are those
  of a kernel without stopped threads, the only other thing a tick prints
  (`Format` has that one), and they return to the context they interrupted:
  another thread that prints in the middle of `_put` is left out, as the kernel
  has no threads yet. The stores to `x` and `y` of one case of `_put` are one
  step; a tick between them would put both back.
* `Format`, `Printf`: digits are numbers; `swap` is one step; the character read
  for a negative index is one of `Stray`. An argument is a machine word, which
  the directive reads as a character, a string, an int or an unsigned. Callers
  pass as many arguments as their format fetches. A format that ends in a lone
  `%` is read past its end, and what follows is left out (`phase = "lost"`).
* `Descriptors`: flags have the code's numbers; the widths of address and limit
  fields are constants, so that a small address space shows the same cut of the
  task state segment's limit.
* `Interrupts`: the whole of `RemapIRQs` is one step, as interrupts are off; a
  store to the handler table and the opening of the line are two. The shift by
  88 in `InstallHandler(0x80)` is undefined in C++; on x86 the count is taken
  modulo 32 and no bit of the 8-bit mask is touched, which is what the build
  does. `handlers[-128]` is a word of the boot stack, so the outcome is either
  "Unhandled IRQ" or a jump somewhere. Drivers other than the timer are
  hypothetical (`Drivers`); they show what `InstallHandler` is good for. Drivers
  and threads may change the interrupt flag as they like (`Sti`, `Cli`); the boot
  code turns it off for good when it finds no initrd (`NoInitrd`). User
  code in ring 3 may execute `int` with any number that has a gate; where the
  processor finds no gate, segment or stack it shuts down.

Operators named like a mistake (`SplitsTight`, `AckEither`, ...) precede the
definition they are mistaken for. No specification uses them: they document
which bug each property notices (`mutants` in `PROJECT.json`).

## 3. Runs

`tlc -config X.cfg M` in this directory.

| run | module, cfg | result | shows |
|---|---|---|---|
| heap | `MCHeap`, `Heap.cfg` | pass | list sound and coalesced, test of `free` exact between allocations, grants large enough, loss to unsplit tails bounded, implements `Allocator` |
| heap_words | `HeapWords`, `HeapWords.cfg` | pass | the words implement `Heap` whatever holders write, the magic number included, and removed threads into freed stacks; `free` touches headers only; freed memory lies in a free block until the next `malloc` |
| boot | `MCBoot`, `Boot.cfg` | pass | no frame twice, none outside the map (with a module and one region above 1 MB), none of the loader's data; the counter never promises too much; ticks find what they need; a page fault means memory was short; the boot ends |
| phys_kernel | `MCPhysMem`, `PhysKernel.cfg` | violation | frames of the kernel image are handed out |
| scheduler | `Scheduler`, `Scheduler.cfg` | pass | safety of switching with ticks everywhere; the choice of the next thread is that of the code's loops; each tick counts for the sleepers at once or, where it takes the flag of a `ForceSwitch`, at the `int $0x20` of that call |
| scheduler_live | `Scheduler`, `SchedulerLive.cfg` | pass | sleepers wake, ready threads run, no endless loop in the handler |
| queue | `Queue`, `Queue.cfg` | pass | links sound, a sequence, `Remove(e)` complete without duplicates |
| console | `Console`, `Console.cfg` | pass | ticks do not disturb text, colour or place; the cursor is right |
| virt_mem | `VirtMem`, `VirtMem.cfg` | pass | private frames, heap mapped unless memory ran out, mapping is local, kernel pages closed to user code |
| printf | `Printf`, `Printf.cfg` | pass | the text is the format with its directives replaced; only a lone `%` is read past; the number buffer is never left |
| interrupts | `Interrupts`, `Interrupts.cfg` | pass | requests reach their handlers from the first `sti` on, nothing left in service, the way from ring 3 into the kernel is sound, timer requests are served while interrupts are on again and again |
| syscall_vector | `Interrupts`, `InterruptsSyscall.cfg` | violation | `int 0x80` does not arrive as 128 |

The two violations are disagreements between the code and what a comment says of
it; `findings` in `PROJECT.json` quotes the line.

The models show further places where the code falls short of its intention. They
have no run of their own; the models keep the behaviour and the passing
properties are stated around it:

* a second free of a block, after further allocations, may pass the test at
  heap.cpp 87: a split writes its header across the allocated word of a dead
  header whose magic number is still there (`HeapWords`);
* the last, partly filled frame of the initrd is not reserved (phymem.cpp 42
  rounds down), and the bitmap may be written over the module (`PhysMem`);
* the bitmap lies behind the image (phymem.cpp 56) and the reservation counts
  its size from the megabyte, so that frames of the bitmap are handed out where
  those of the image are not (`Boot`; `LoadedDataKept` says what is kept);
* without a module, the words reserved as its bounds are junk (kernel.cpp 64),
  and the count of used blocks may be anything afterwards (`Boot`);
* a new thread's eflags are zero (thread.cpp 15): it runs with interrupts off
  until it executes `sti`, which user code cannot, so that a user thread is
  never preempted (`Scheduler`; see the fairness of `scheduler_live`);
* a tick that interrupts `ForceSwitch` is counted for the sleepers only when that
  call goes on (scheduler.cpp 25-28): a thread that falls asleep in between
  sleeps one tick less, and if the interrupted thread is removed first, the tick
  is lost (`Scheduler`; `SleepersGetEveryTick` says that this is all);
* newlines and tabulators lead off the screen (vga.cpp 57-68), and the next
  character is stored there (`Console`; `Terminal` says where text goes next);
* a format that ends in `%` is read past its terminator (vga.cpp 186; `Printf`);
* a spurious interrupt of the controller has no handler and stops the kernel
  (idt.cpp 93), and a handler on a line of the slave is never called while line
  2 of the master stays masked (idt.cpp 215; `Interrupts`);
* the table of the first 4 MB is entered by its address instead of its frame
  number (virtmem.cpp 54), so low memory is not mapped to itself (`VirtMem`);
  where the first free frame is 509, 765 and so on, one in 256, its entries are
  written into frame 4096, one of the heap's (`LowTableAssumption` excludes it).

`CHECK_DEADLOCK FALSE` stands where the code really stops: the panics of the heap
(`for (;;)`), the loop of `GetNextReadyThread`, "Unhandled IRQ" and
exceptions, exhausted memory, a format read past its end.

## 4. Bounds, and why they are enough

* Heap: the real header (20 bytes), alignment and split limit. In 112 bytes up
  to four blocks fit, so both merges, a merge of three, an unsplittable rest and
  a full heap occur; request 1022 wraps around in `align_up` with `UintSpan` 1024. On words
  the heap is smaller (68 bytes), enough for a split, two blocks, a dead header
  and data that looks like a header; half a million states come of what may be
  written where. Merges of three are left to the proof there.
* Boot and PhysMem: frames of 4 bytes and bytes of 2 bits (16 bytes and 8 bits
  in `PhysKernel.cfg`), four frames below the kernel; memory from too small to map the heap to plenty, a reservation that
  covers the image and one that does not, an initrd ending inside a frame or at
  its end, a hole with memory behind it or not, and machines without a module
  where the two words at `mods_addr` are small, large or in the wrong order.
* Scheduler: a switch every 3 ticks (2 in the live run) instead of 30, so that ticks reach the switch from every step of
  `ForceSwitch`. Three threads give a predecessor, a current thread and a
  successor in the list.
* Queue: four nodes at most, so that both ends, the middle and the reuse of an
  address occur; elements may repeat.
* Console: a screen of 3 by 2 and bytes of 3 bits, so that the cursor's position
  needs both registers off the screen and both coordinates wrap around.
* Printf: every format of up to four of seven characters, so that two directives,
  `%%` before a directive and a lone `%` occur; ints of 4 bits, with zero, the
  least int and a negative one among the arguments; bases 2 and 3, the buffer
  four cells longer than the width as in the code.
* VirtMem: small tables, machines with plenty, just enough and too few frames.
* Interrupts: six lines of both controllers, two addresses of the task state
  segment, one of which does not fit a limit; nothing is unbounded.

## 5. Fairness

* `SF(Tick)`, `SF(Deliver)`: the 8259 keeps a request until the processor takes
  it, so a tick that is possible again and again comes.
* `WF` of the steps of `ForceSwitch`: the processor executes instructions.
* `SF(Sti)` (in `PoliteSpec`): kernel threads that run with interrupts off turn
  them on again. This is a contract for threads, as
  `CreateFromFunction` starts them with the flag clear. Without it (`TimerSpec`
  alone) a thread that never sets its flag is never preempted.
* `CreationEnds`: threads are not added for ever. Without it a chain of threads
  that each add a successor and stop starves the others, since new threads are
  appended and the walk continues behind the current one.
* `WF` of `BootStep`: a tick always returns to the boot code, since no thread is
  added before it ends.
* `Interrupts!FairSpec` assumes nothing of code that turns interrupts on: boot
  code without an initrd never does again (kernel.cpp 101-102), a thread in ring
  3 cannot, and a spurious interrupt, an exception or a system call each stop
  the kernel with interrupts off. `TimerRequestsServed` has the condition
  `[]<>intr` instead: wherever interrupts are on again and again, requests of the
  timer are served.

## 6. Proofs

TLAPS checks the following for every value of the constants that the named
assumptions admit. Each theorem that repeats a property of a run is listed in
`PROJECT.json`. TLC had checked each property on its run's instance before it
was proved. The proofs go action by action; what a helper
does to the state is stated once, as a lemma.

**Heap** (`HeapAssumption`: positive sizes, a heap that holds one header,
requests that are `uint32_t`). `HeapTypeCorrect`, `HeapListCorrect`,
`DoubleFreeTestExact`, `GrantsCoverRequests` and the refinement
`HeapImplementsAllocator`. The inductive invariant is the conjunction of all
five invariants. None of the caller-facing ones is inductive alone: `free` reads
the flags and links of its neighbours, so that the test of `free` stays exact
needs the list to be a chain in address order; that a grant overlaps no other
needs the blocks to be disjoint, which is a lemma about chains; that a merge
leaves a chain needs the neighbours coalesced so far. `Take`, `Split`, `Unmark`,
`MergePrev`, `MergeNext` map chains to chains and change only what they should.
The refinement maps `held` to the spans of the headers with the allocated flag,
and `stopped` to the panic.

**Words of the heap** (`HeapWordsAssumption`: a heap of whole 32-bit words that
holds one header and does not lie at address zero). `WordsImplementHeap`, the
refinement, and `FreedStackStaysUsable`, with its two halves
`WordsFreeKeepsPayload` and `WordsFreedStaysFree`. What `HeapProofs` shows of
headers is used through an instance of it with headers of five words, whose
assumption follows from this one (`HeapHolds`). Headers and payload share one
memory, and `FirstFree` finds its way by following words that anybody could have
written. `Agrees(m, h)` says that the words at each block of a chain `h` hold its
header and that headers lie apart; then the walk from `firstHeader` meets exactly
the blocks of `h` in order (`WalkArrives`, `FirstFreeIs`), reading memory back
gives `h` (`ParsedIs`), and each operation on words takes agreement to agreement
with what `Heap` does (`TakeAgrees` to `CoalesceAgrees`). So one step on words is
one step of `Heap` on what is read back. `WordsInv` adds what agreement does not
say, the place of freed memory: inside one free block, clear of its header, the
word in front of it that `free` tests still zero. Without this a removed thread
that goes on using its stack could overwrite a header. `Walk` takes
`MaxHeaders` steps; that no list is longer is part of `WalkArrives`, as headers
do not overlap.

**Frames and boot.** `HeldFramesAreMarked`, `HeldFramesAreAvailable`,
`CounterStaysConservative` of `PhysMem`; `BootUsesAllocator` (`BootSpec => Spec`:
what holds of the allocator holds of the booting kernel);
`TickAlwaysFindsItsState`, `LoadedDataIsKept`, `FaultMeansShort` of `Boot`. The
code changes counter and bits without looking from one to the other, so neither
property is inductive. `PhysInv` says what both are at each stage in terms of
the loader's report: the bits are those set by the three set-up steps
(`Marked0` to `Marked2`) plus the held frames, the counter leaves `Room` minus
the held frames, with all wrap-arounds of 32 bits resolved. `Room` is what the
map freed less both reservations; that it is never more than the clear bits of
available memory is a counting argument (`RoomConservative`), and that the
lowest clear bit is then an available frame needs the written words to reach
the end of memory (`UpperFrameClear`). `BootInv` adds what has been set up at
each step of `Init` (`Order`), how far the heap's loop is (`Progress`), and that
a missing first page means a room of one frame at most (`FirstPageMissing`).
Assumptions beyond `PhysAssumption` and `BootAssumption`: `ReportAssumption` (32-bit words, modules aligned to pages
as the multiboot header of `boot.asm` asks, more frames freed than reserved on a
machine with a module, the words written cover the region `mem_upper` measures)
and `PlacementAssumption` (the loader puts the module behind the kernel, in the
same region; needed for `FaultMeansShort` only). The code tests none of these;
the hazards say where that bites.

**Scheduler** (`SchedulerAssumption`: a period of at least two ticks; the
contract of callers in the module's header). `TickStaysBelowSwitch`,
`CurrentThreadRuns`, `FramesStayResumable`, `IdleThreadKeepsKernelRunning`,
`EveryTickReachesSleepers`. The invariants are proved together: the handler saves
through `currentThread`, so frames need `CurrentIsRunning`, and that the search
ends needs `IdleReady` (a thread is blocked or stopped only once every immortal
one is in the list). The list without the removed threads is a recursive
function; that it has a solution and keeps the other threads, each once and in
order, is proved by least counterexample (`LeastNat`), since induction theorems
with an operator as parameter cannot be used.
`EveryTickReachesSleepers` needs `FlagInside` on top: `switchForced` is set only
while the running context is behind the store of its own `ForceSwitch`. A tick in
there takes the flag and may switch away; `Owing` are the contexts to which this
has happened, readable from their place and the flag without a history. A tick
counts or makes the interrupted context owe it, and the `int $0x20` counts
exactly when its context owes.
`ChoiceFollowsTheLoop` shows that the closed form of the choice (`At`, `Chosen`,
`Reaped`), which those proofs use, is what the code's two loops compute. The
inner loop starts anew at an index computed from the current thread in a list
that the outer one has shortened: `RemovalShifts` says that places counted from
behind the current thread move up by one behind the removed thread and stay
before it, and `OnTheWay(l, c)`, the outer loop's invariant, that the choice is
still `c` places on and that what is left to remove lies before it. `c` falls
with each removal, so that the loop ends within the length of the list. The
proof needs `CurrentIsRunning` for the case that the current thread is itself
stopped: it is listed, and reached last.

**Interrupts** (`InterruptsAssumption`, `DescriptorsAssumption`: lines 0 to 15,
a task state segment at a 32-bit address whose 20-bit limit does not wrap).
`LinesOpenWithHandlers`, `DeviceRequestsFindHandlers`, `AcknowledgeIsComplete`,
`KernelEntryStaysSound`. The invariant adds the order of `IDT::Init`, exactly
what is in service in front of `irq_handler`, and where `esp0` must be set. That
`CreateEntry` packs base and limit without loss is a lemma on quotients and
remainders.

**Console** (`ConsoleAssumption`: the screen's sides are bytes). `CursorAtTheText`
and the refinement `ConsoleImplementsTerminal`. The invariant says that the
locals of `_put` and `update_cursor` are never stale when used, whatever ticks
came.

**printf** (`FormatAssumption`, `PrintfAssumption`: at least
two bits, bases from 2 to 16, a buffer four cells longer than the word has bits,
formats without an inner terminator). `PrintfStaysInFormat`,
`PrintfStaysInBuffer`, `PrintfTextIsExpansion`, one invariant on top of the
other. `ReaderInv`: between two turns the parser stands in front of a whole
directive or a plain character and has fetched one argument for each directive
so far; the count of directives before a place is a cardinality that grows by
one. `BufferInv`: what is left to convert has no more digits than cells are left
below the word's width (`value < 2^(Bits - length)`, the reason why division by any
base suffices), and once the terminator is stored there is one at or behind the
reader, wherever a swap or a tick puts it. `TextInv`: as long as no tick has
printed in the middle of a conversion and no `%d` meets the least int, which has
no positive counterpart, the text so far is the concatenation of the pieces of
what was read; during a conversion the cells hold the lowest
digits of the number, then those and the sign, then a text turned half way
(`HalfTurned`), then the numeral of which `i` characters are out. That the
numeral has the digits the loop makes, and that the powers and the concatenation
exist, is again proved by least counterexample.

**Page tables** (`VirtMemAssumption`, `LowTableAssumption`).
`HeapFramesStayPrivate`, `HeapStaysMapped`, `KernelPagesAreClosed`,
`MappingIsLocal`. The invariant says where tables lie (a frame of their own, or
frame zero after a failure), that frames of heap pages are not free and not
tables, and, while the heap is mapped without a failure, which frames are left.

**List** (`QueueAssumption`; in `SchedulerProofs`, next to its user). `LinksStaySound`, `RemoveFindsAll` and the
refinement `QueueImplementsSequence`. `LinksSound` says what each node points
at, not that the nodes are met in one order; the invariant names that order, a
walk from `head_` to null that meets every node once, and each operation turns
the walk into another one.

**Only model-checked.** The liveness properties (`BootEnds`, `SleepersWake`,
`ReadyThreadsRun`, `TimerRequestsServed`): liveness under fairness is outside
the prover's reach. `LeakBounded` sums over a set with a fold of the library,
about which only induction over data would say anything. Every other property of
a passing run is a theorem.

## 7. Plan

1. Done: heap, frames, scheduler, list, console, page tables with their rights,
   `printf`, interrupts with rings and segment tables, the boot sequence; proofs
   about all of them, the words of the heap and `printf` included.
2. Models that would need callers the kernel does not have yet: heap and
   scheduler together (the handler deletes threads while `malloc` runs),
   `push_back` step by step under ticks.
3. The proofs are complete but for what the end of section 6 lists. Candidates
   for new properties are the hazards without one.

Some modules have a `TypeOK` that no run lists: it says what the state is made
of, and the inductive invariants state as much of it as the proofs need.

## 8. Not modelled

* Processes: `Create` stops in a loop, `CreateKernelProcess` fills in a record
  and has no caller; what the scheduler reads of a process is in `Scheduler`.
* System calls past the stub: `syscall_handler` prints a line, and run
  syscall_vector shows that it is not reached. For the same reason the init
  program, whose first statement is a system call, and the C library's `printf`,
  which makes one for each character, have no behaviour to check; the library's
  conversions and `vprintf` are a copy of the kernel's, which `Printf` models.
* The initrd generator, a host tool whose format the kernel does not read yet.
* Port access (single instructions, part of the actions that use them), fields
  of the task state segment that nothing reads, the timer's divisor, character
  codes, messages, vendored headers.

`components` in `PROJECT.json` gives the reason for each, `hazards` lists what is
hard to test and which property covers it.
