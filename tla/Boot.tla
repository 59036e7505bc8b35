-------------------------------- MODULE Boot ----------------------------------
(***************************************************************************)
(* ArchKernel::Init of src/src/arch/x86/kernel/kernel.cpp from kmain to    *)
(* its last loop, composed with the frame allocator: console, segment and  *)
(* interrupt tables, timer, frame bitmap, kernel heap, scheduler, and the  *)
(* test for a loaded module.  From PIT::Init on a timer interrupt may come *)
(* between any two steps.                                                  *)
(*                                                                         *)
(* The contents of a frame are not modelled, with one exception: when the  *)
(* boot code clears or fills a frame of its own image, anything may follow.*)
(***************************************************************************)
EXTENDS PhysMem, Sequences

CONSTANTS
  HeapPages,      \* KERNEL_HEAP_SIZE in pages
  Entries         \* pages of a page table

ASSUME BootAssumption == HeapPages \in Nat \ {0} /\ Entries \in Nat \ {0}

(***************************************************************************)
(* Where the loader puts a module: behind the kernel, whose image is       *)
(* larger than the bitmap's size that the first reservation counts in its  *)
(* place, in the same region of available memory.                          *)
(***************************************************************************)
ASSUME PlacementAssumption ==
  \A b \in Boots : b.mods_count > 0 =>
    /\ KernelSpan(b) <= b.initrd.base
    /\ Visited(LowMem, b.initrd.end - LowMem) \subseteq FreedBy(b)

VARIABLES
  at,             \* what ArchKernel::Init does next
  ready,          \* what has been set up
  intr,           \* the interrupt flag
  page,           \* loop variable of VirtualMem::Init, in pages
  heapBase,       \* frame of the first heap page, or Null
  attached,       \* the timer's scheduler pointer is set
  mbi,            \* mods_count in the copy of the loader's structure, or NoCopy
  damaged,        \* a frame of the kernel image has been written
  halted          \* why the processor no longer runs the code, or "no"

own == <<at, ready, intr, page, heapBase, attached, mbi, damaged, halted>>
bootVars == <<vars, own>>

Null == 0
NoCopy == UintSpan

BootInit ==
  /\ Init
  /\ at = "console" /\ ready = {} /\ intr = FALSE
  /\ page = 0 /\ heapBase = Null
  /\ attached = FALSE /\ mbi = NoCopy
  /\ damaged = FALSE /\ halted = "no"

-----------------------------------------------------------------------------
(***************************************************************************)
(* The set-up calls of ArchKernel::Init before memory, in their order.     *)
(* IDT::Init ends with the interrupt flag set and every line masked;       *)
(* PIT::Init opens the timer's.                                            *)
(***************************************************************************)
TablesSwapped == <<"console", "idt", "pit", "gdt", "memory">>
SetUpOrder == <<"console", "gdt", "idt", "pit", "memory">>

Running == halted = "no"

SetUp ==
  \E i \in 1 .. (Len(SetUpOrder) - 1) :
    /\ Running /\ at = SetUpOrder[i]
    /\ ready' = ready \cup {at}
    /\ intr' = (intr \/ at = "idt")
    /\ at' = SetUpOrder[i + 1]
    /\ UNCHANGED <<vars, page, heapBase, attached, mbi, damaged, halted>>

(***************************************************************************)
(* PhysicalMem::Init and the two reservations.                             *)
(***************************************************************************)
Reserve ==
  /\ Running /\ at = "memory"
  /\ PhysicalMemInit \/ ReserveKernel \/ ReserveInitrd
  /\ at' = IF stage' = "running" THEN "table" ELSE at
  /\ UNCHANGED <<ready, intr, page, heapBase, attached, mbi, damaged, halted>>

-----------------------------------------------------------------------------
(***************************************************************************)
(* VirtualMem::Init: for each page of the heap a table, if the directory   *)
(* has none yet, then the page.  A failed AllocateBlock is not reported:   *)
(* without a frame the table lies in frame zero, the page stays absent.    *)
(***************************************************************************)
Image == FramesOf(LowMem, KernelEnd)

Granted == held' \ held

HeapLoop == page < HeapPages

HeapTable ==
  /\ Running /\ at = "table" /\ HeapLoop
  /\ IF page % Entries = 0
       THEN /\ AllocateBlock \/ AllocateFails
            /\ damaged' = (damaged \/ Granted \cap Image # {})
       ELSE UNCHANGED <<vars, damaged>>
  /\ at' = "page"
  /\ UNCHANGED <<ready, intr, page, heapBase, attached, mbi, halted>>

NoFirstPage == heapBase

FirstPage == IF page = 0 /\ Granted # {} THEN CHOOSE f \in Granted : TRUE ELSE heapBase

SamePage == page
NextPage == page + 1

HeapPage ==
  /\ Running /\ at = "page"
  /\ AllocateBlock \/ AllocateFails
  /\ heapBase' = FirstPage
  /\ page' = NextPage
  /\ at' = "table"
  /\ UNCHANGED <<ready, intr, attached, mbi, damaged, halted>>

(***************************************************************************)
(* The table of the first 4 MB.  VirtMem has where it comes to lie.        *)
(***************************************************************************)
LowTable ==
  /\ Running /\ at = "table" /\ ~HeapLoop
  /\ AllocateBlock \/ AllocateFails
  /\ at' = "heap"
  /\ UNCHANGED <<ready, intr, page, heapBase, attached, mbi, damaged, halted>>

(***************************************************************************)
(* Heap::Initialize writes the first header.  An absent page is a page     *)
(* fault, and int_handler stops the kernel with interrupts off.            *)
(***************************************************************************)
HeapInitialize ==
  /\ Running /\ at = "heap"
  /\ heapBase # Null
  /\ damaged' = (damaged \/ heapBase \in Image)
  /\ ready' = ready \cup {"heap"}
  /\ at' = "copy"
  /\ UNCHANGED <<vars, intr, page, heapBase, attached, mbi, halted>>

PageFault ==
  /\ Running /\ at = "heap"
  /\ heapBase = Null
  /\ halted' = "exception"
  /\ intr' = FALSE
  /\ UNCHANGED <<vars, at, ready, page, heapBase, attached, mbi, damaged>>

(***************************************************************************)
(* The structure is copied to the heap; the rest of Init reads the copy.   *)
(* Copy and scheduler lie in the heap's first page.                        *)
(***************************************************************************)
CopyInfo ==
  /\ Running /\ at = "copy"
  /\ mbi' = boot.mods_count
  /\ at' = "scheduler"
  /\ UNCHANGED <<vars, ready, intr, page, heapBase, attached, damaged, halted>>

NewScheduler ==
  /\ Running /\ at = "scheduler"
  /\ ready' = ready \cup {"scheduler"}
  /\ at' = "attach"
  /\ UNCHANGED <<vars, intr, page, heapBase, attached, mbi, damaged, halted>>

SetSched ==
  /\ Running /\ at = "attach"
  /\ attached' = TRUE
  /\ at' = "modules"
  /\ UNCHANGED <<vars, ready, intr, page, heapBase, mbi, damaged, halted>>

(***************************************************************************)
(* Without a module the kernel stops with interrupts off; otherwise it     *)
(* idles and the timer interrupts it.                                      *)
(***************************************************************************)
TestModules ==
  /\ Running /\ at = "modules"
  /\ IF mbi = 0
       THEN at' = "stopped" /\ intr' = FALSE
       ELSE at' = "idle" /\ UNCHANGED intr
  /\ UNCHANGED <<vars, ready, page, heapBase, attached, mbi, damaged, halted>>

BootStep ==
  \/ SetUp \/ Reserve
  \/ HeapTable \/ HeapPage \/ LowTable
  \/ HeapInitialize \/ PageFault
  \/ CopyInfo \/ NewScheduler \/ SetSched \/ TestModules

-----------------------------------------------------------------------------
(***************************************************************************)
(* The timer interrupt: gate and stub need both tables, pit_handler draws  *)
(* on the console and calls a scheduler once it has one, which is not      *)
(* enabled before a thread is added.  Without them it runs into nowhere.   *)
(***************************************************************************)
TickNeeds ==
  {"console", "gdt", "idt"} \cup (IF attached THEN {"scheduler"} ELSE {})

Tick ==
  /\ Running /\ intr /\ "pit" \in ready
  /\ halted' = IF TickNeeds \subseteq ready THEN "no" ELSE "wild"
  /\ UNCHANGED <<vars, at, ready, intr, page, heapBase, attached, mbi, damaged>>

(***************************************************************************)
(* Code that has been overwritten is executed.                             *)
(***************************************************************************)
RunDamaged ==
  /\ Running /\ damaged
  /\ halted' = "wild"
  /\ UNCHANGED <<vars, at, ready, intr, page, heapBase, attached, mbi, damaged>>

(***************************************************************************)
(* Callers of the frame allocator once the kernel is up.                   *)
(***************************************************************************)
Client ==
  /\ Running /\ at = "idle"
  /\ AllocateBlock \/ AllocateFails \/ \E frame \in held : FreeBlocksOf(frame)
  /\ UNCHANGED own

BootNext == BootStep \/ Tick \/ RunDamaged \/ Client

(***************************************************************************)
(* The processor goes on with the boot code between interrupts: a handler  *)
(* always returns to it, since the scheduler is not enabled.               *)
(***************************************************************************)
BootSpec == BootInit /\ [][BootNext]_bootVars /\ WF_bootVars(BootStep)

-----------------------------------------------------------------------------
WholeFrames(base, end) ==
  {f \in FramesOf(base, end) : base <= f * BLOCK_SIZE /\ (f + 1) * BLOCK_SIZE <= end}

(***************************************************************************)
(* kernel.cpp:60: what the loader put into memory is not handed out.  That *)
(* is the loader's structure, below the kernel and read up to the copy,    *)
(* and the whole frames of the first module; of the kernel image only what *)
(* lies below the end of the first reservation, which counts the bitmap's  *)
(* size in place of the kernel's.                                          *)
(***************************************************************************)
LoadedDataKept ==
  /\ mbi = NoCopy => held \cap FramesOf(0, LowMem) = {}
  /\ boot.mods_count > 0 =>
       held \cap WholeFrames(boot.initrd.base, boot.initrd.end) = {}
  /\ held \cap FramesOf(LowMem, LowMem + GetBitmapSize) = {}

(***************************************************************************)
(* VirtualMem::Init and the heap never learn that a frame was missing.     *)
(* With one module and one region above the megabyte the page fault in     *)
(* Heap::Initialize still means that no two frames were left between the   *)
(* reservations and the end of memory, the counter's error (the hole below *)
(* the megabyte, counted as used twice) allowed for.                       *)
(***************************************************************************)
LeftOver ==
  FreedByMap \ (FramesOf(0, PageRoundUp(LowMem + GetBitmapSize))
                  \cup FramesOf(boot.initrd.base, boot.initrd.end))

BiosHole == FramesOf(0, LowMem) \ FreedByMap

FaultOnlyWhenShort ==
  halted = "exception" /\ boot.mods_count > 0 /\ OneUpperRegion =>
    Cardinality(LeftOver) < 2 + Cardinality(BiosHole)

(***************************************************************************)
(* A timer interrupt between any two steps of ArchKernel::Init finds the   *)
(* tables, the console and, once the timer has a pointer to one, a         *)
(* scheduler that is constructed.                                          *)
(***************************************************************************)
TickFindsItsState == halted = "wild" => damaged

(***************************************************************************)
(* The boot ends: the kernel idles, has stopped for want of a module, or   *)
(* has run into a page fault or into code that it had overwritten.         *)
(***************************************************************************)
BootEnds == <>(at \in {"idle", "stopped"} \/ halted # "no")
=============================================================================
