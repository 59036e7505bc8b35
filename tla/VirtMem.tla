------------------------------- MODULE VirtMem --------------------------------
(***************************************************************************)
(* The page tables of src/src/arch/x86/mem/virtmem.cpp: the boot page      *)
(* directory, the tables behind it, which the code reaches through the     *)
(* directory's last entry, and the frames it takes for them.               *)
(*                                                                         *)
(* Addresses are page numbers.  A frame used as a table holds Entries      *)
(* entries; what a frame holds before is junk.  Nobody else runs: Init is  *)
(* called once at boot and MapVirtualToPhysical by kernel code.            *)
(***************************************************************************)
EXTENDS Naturals, FiniteSets

CONSTANTS
  Entries,        \* 1024: entries of a table
  Dirs,           \* 1024: entries of the directory
  KernelDir,      \* 768: the 4 MB page the kernel runs in
  HeapFirst,      \* first page of the kernel heap
  HeapPages,      \* pages of the kernel heap
  LowUserPages,   \* 256: pages below 1 MB
  PAGE_SIZE,
  FrameField,     \* 2^20: what the frame field of an entry can hold
  FirstFrame,     \* first frame PhysicalMem hands out
  Machines,       \* how many frames it has to hand out
  PhysArgs, VirtArgs    \* what callers of MapVirtualToPhysical ask for

SelfDir == Dirs - 1
BootFrame == FirstFrame - 1   \* the directory's frame, in the kernel image

Dir(v) == v \div Entries      \* PAGEDIR_INDEX
Idx(v) == v % Entries         \* PAGETBL_INDEX

Heap == HeapFirst .. (HeapFirst + HeapPages - 1)

ASSUME VirtMemAssumption ==
  /\ Entries \in Nat \ {0, 1} /\ Dirs \in Nat \ {0}
  /\ PAGE_SIZE \in Nat \ {0} /\ FrameField \in Nat \ {0} /\ Entries <= FrameField
  /\ FirstFrame \in 1 .. (FrameField - 1) /\ Machines \subseteq Nat
  /\ \A n \in Machines : FirstFrame + n <= FrameField
  /\ HeapFirst \in Nat /\ HeapFirst % Entries = 0
  /\ HeapPages \in Nat /\ HeapPages % Entries = 0
  /\ VirtArgs \subseteq Nat /\ PhysArgs \subseteq 0 .. (FrameField - 1)
  /\ \A v \in Heap \cup VirtArgs : Dir(v) \in (1 .. (SelfDir - 1)) \ {KernelDir}
  /\ Heap \cap VirtArgs = {}

(***************************************************************************)
(* The frame that is left for the table of the first 4 MB once the heap    *)
(* has its pages and tables, and the frame that Init makes of it: it       *)
(* stores an address where a frame number belongs, and the field keeps the *)
(* low bits.  That must not hit the heap.  With the kernel's numbers (4096 *)
(* heap pages, 4 tables) it does for a FirstFrame of 509, 765 and so on,   *)
(* one in 256, and for no other below 4090.                                *)
(***************************************************************************)
LowFrame == FirstFrame + HeapPages + HeapPages \div Entries

AsFrame(block) == (block * PAGE_SIZE) % FrameField

ASSUME LowTableAssumption == AsFrame(LowFrame) \notin FirstFrame .. (LowFrame - 1)

VARIABLES
  vm,         \* pd: the page directory;  ram: frame -> entries, were it a table
              \* free: frames not handed out;  failed: AllocateBlock has failed
  stage,
  page,       \* Init's loop variable
  opened      \* pages whose last mapping was for user code (history)

vars == <<vm, stage, page, opened>>

Null == 0

Entry(present, readWrite, isUser, frame) ==
  [present |-> present, readWrite |-> readWrite, isUser |-> isUser, frame |-> frame]

Pde(readWrite, isUser, frame, large) ==
  [present |-> TRUE, readWrite |-> readWrite, isUser |-> isUser,
   frame |-> frame, large |-> large]

NoPde == [present |-> FALSE, readWrite |-> FALSE, isUser |-> FALSE,
          frame |-> 0, large |-> FALSE]

Cleared == Entry(FALSE, FALSE, FALSE, 0)
Junk == Entry(TRUE, TRUE, TRUE, FirstFrame)
AllOnes == Entry(TRUE, TRUE, TRUE, FrameField - 1)

(***************************************************************************)
(* boot_pt: 4 MB pages at zero and at the kernel's address.                *)
(***************************************************************************)
boot_pt ==
  [d \in 0 .. (Dirs - 1) |->
     IF d \in {0, KernelDir} THEN Pde(TRUE, FALSE, 0, TRUE) ELSE NoPde]

Init ==
  /\ \E n \in Machines :
       vm = [pd |-> boot_pt,
             ram |-> [f \in 0 .. (FirstFrame + n - 1) |->
                        [i \in 0 .. (Entries - 1) |-> Junk]],
             free |-> FirstFrame .. (FirstFrame + n - 1),
             failed |-> FALSE]
  /\ stage = "boot"
  /\ page = HeapFirst
  /\ opened = {}

-----------------------------------------------------------------------------
(***************************************************************************)
(* AllocateBlock: the lowest free frame, or a null pointer.                *)
(***************************************************************************)
Block(m) == IF m.free = {} THEN Null ELSE CHOOSE f \in m.free : \A g \in m.free : f <= g

Taken(m) ==
  [pd |-> m.pd, ram |-> m.ram,
   free |-> m.free \ {Block(m)}, failed |-> m.failed \/ m.free = {}]

(***************************************************************************)
(* Entries of the table at frame f, through the window at 0xFFC00000.      *)
(* Where there is no memory, stores are lost and loads yield ones.         *)
(***************************************************************************)
Filled(ram, f, Value(_)) ==
  [g \in DOMAIN ram |-> IF g = f THEN [i \in 0 .. (Entries - 1) |-> Value(i)] ELSE ram[g]]

Stored(ram, f, i, e) ==
  [g \in DOMAIN ram |-> IF g = f THEN [ram[g] EXCEPT ![i] = e] ELSE ram[g]]

Loaded(ram, f, i) == IF f \in DOMAIN ram THEN ram[f][i] ELSE AllOnes

TableNotCleared(m, v, readWrite, isUser) ==
  IF m.pd[Dir(v)].present THEN m
  ELSE [Taken(m) EXCEPT !.pd[Dir(v)] = Pde(readWrite, isUser, Block(m), FALSE)]

ClearedEntry(i) == Cleared

(***************************************************************************)
(* GetPageForAddress with shouldCreate: an absent table is allocated,      *)
(* entered and cleared, whether or not AllocateBlock returned a frame.     *)
(***************************************************************************)
GetPageForAddress(m, v, readWrite, isUser) ==
  IF m.pd[Dir(v)].present THEN m
  ELSE [pd |-> [m.pd EXCEPT ![Dir(v)] = Pde(readWrite, isUser, Block(m), FALSE)],
        ram |-> Filled(m.ram, Block(m), ClearedEntry),
        free |-> Taken(m).free, failed |-> Taken(m).failed]

SetPageAddsRights(m, v, e) ==
  LET old == Loaded(m.ram, m.pd[Dir(v)].frame, Idx(v))
  IN [m EXCEPT !.ram = Stored(@, m.pd[Dir(v)].frame, Idx(v),
                              Entry(e.present, e.readWrite, e.isUser \/ old.isUser, e.frame))]

SetPage(m, v, e) ==
  [pd |-> m.pd, ram |-> Stored(m.ram, m.pd[Dir(v)].frame, Idx(v), e),
   free |-> m.free, failed |-> m.failed]

AllocatePageUnchecked(m, v, kernel, writeable) ==
  SetPage(Taken(m), v, Entry(TRUE, writeable, ~kernel, Block(m)))

(***************************************************************************)
(* AllocatePage; without a frame the page is left as it is.                *)
(***************************************************************************)
AllocatePage(m, v, kernel, writeable) ==
  IF Block(m) = Null THEN Taken(m)
  ELSE SetPage(Taken(m), v, Entry(TRUE, writeable, ~kernel, Block(m)))

(***************************************************************************)
(* VirtualMem::Init: the directory's own entry, the heap page by page, and *)
(* the first 4 MB, whose table is entered by its address where the others  *)
(* are entered by their frame number.                                      *)
(***************************************************************************)
InitSelf ==
  /\ stage = "boot"
  /\ stage' = "heap"
  /\ vm' = [pd |-> [vm.pd EXCEPT ![SelfDir] = Pde(TRUE, FALSE, BootFrame, FALSE)],
            ram |-> vm.ram, free |-> vm.free, failed |-> vm.failed]
  /\ UNCHANGED <<page, opened>>

HeapLoopShort == page + 1 < HeapFirst + HeapPages

HeapLoop == page < HeapFirst + HeapPages

InitHeapPage ==
  /\ stage = "heap"
  /\ HeapLoop
  /\ vm' = AllocatePage(GetPageForAddress(vm, page, TRUE, FALSE), page, TRUE, TRUE)
  /\ page' = page + 1
  /\ UNCHANGED <<stage, opened>>

LowEntry(i) ==
  IF i = 0 THEN Entry(FALSE, TRUE, TRUE, 0) ELSE Entry(TRUE, TRUE, i < LowUserPages, i)

InitLow ==
  LET frame == AsFrame(Block(vm))
  IN /\ stage = "heap"
     /\ ~HeapLoop
     /\ stage' = "running"
     /\ vm' = [pd |-> [vm.pd EXCEPT ![0] = Pde(TRUE, TRUE, frame, FALSE)],
               ram |-> Filled(vm.ram, frame, LowEntry),
               free |-> Taken(vm).free, failed |-> Taken(vm).failed]
     /\ UNCHANGED <<page, opened>>

MapVirtualToPhysical(phys, virt, kernel, writeable) ==
  /\ stage = "running"
  /\ vm' = SetPage(GetPageForAddress(vm, virt, writeable, ~kernel), virt,
                   Entry(TRUE, writeable, ~kernel, phys))
  /\ opened' = IF kernel THEN opened \ {virt} ELSE opened \cup {virt}
  /\ UNCHANGED <<stage, page>>

Next ==
  \/ InitSelf \/ InitHeapPage \/ InitLow
  \/ \E phys \in PhysArgs, virt \in VirtArgs, kernel, writeable \in BOOLEAN :
       MapVirtualToPhysical(phys, virt, kernel, writeable)

Spec == Init /\ [][Next]_vars

-----------------------------------------------------------------------------
Flags == [present : BOOLEAN, readWrite : BOOLEAN, isUser : BOOLEAN,
          frame : 0 .. (FrameField - 1)]

(***************************************************************************)
(* Types of the page tables' state: every frame number fits its field, and *)
(* Init's loop over the heap stays inside it.                              *)
(***************************************************************************)
TypeOK ==
  /\ \A d \in 0 .. (Dirs - 1) : vm.pd[d].frame \in 0 .. (FrameField - 1)
  /\ \A f \in DOMAIN vm.ram : vm.ram[f] \in [0 .. (Entries - 1) -> Flags]
  /\ vm.free \subseteq DOMAIN vm.ram \ {Null}
  /\ page \in HeapFirst .. (HeapFirst + HeapPages)
  /\ stage \in {"boot", "heap", "running"}
  /\ opened \subseteq VirtArgs

(***************************************************************************)
(* The frame that the processor finds for page v.                          *)
(***************************************************************************)
NoFrame == FrameField

Translate(m, v) ==
  LET d == m.pd[Dir(v)]
      e == Loaded(m.ram, d.frame, Idx(v))
  IN IF ~d.present THEN NoFrame
     ELSE IF d.large THEN d.frame + Idx(v)
     ELSE IF e.present THEN e.frame ELSE NoFrame

Mapped(m, pages) == {v \in pages : Translate(m, v) # NoFrame}

(***************************************************************************)
(* The tables that GetPageForAddress made.                                 *)
(***************************************************************************)
Tables(m) ==
  {m.pd[d].frame : d \in {e \in 1 .. (SelfDir - 1) : m.pd[e].present /\ ~m.pd[e].large}}

(***************************************************************************)
(* Each mapped page of the kernel heap has a frame of its own: no other    *)
(* heap page, no page table and no later allocation gets it, also when     *)
(* AllocateBlock starts to fail part of the way through.  It takes frames  *)
(* for the tables: two tables without one share the memory at address 0.   *)
(***************************************************************************)
HeapFramesPrivate ==
  Null \notin Tables(vm) => \A v \in Mapped(vm, Heap) :
    /\ Translate(vm, v) \notin vm.free \cup Tables(vm) \cup {Null}
    /\ \A w \in Mapped(vm, Heap) : Translate(vm, v) = Translate(vm, w) => v = w

(***************************************************************************)
(* Nothing reports that memory ran out while the heap was mapped, yet it   *)
(* did whenever a page is missing: with frames enough, VirtualMem::Init    *)
(* leaves every heap page mapped, writable and closed to user code.        *)
(***************************************************************************)
HeapMappedUnlessExhausted ==
  stage = "running" /\ ~vm.failed =>
    \A v \in Heap :
      /\ v \in Mapped(vm, Heap)
      /\ vm.pd[Dir(v)].readWrite /\ ~vm.pd[Dir(v)].isUser
      /\ Loaded(vm.ram, vm.pd[Dir(v)].frame, Idx(v)).readWrite
      /\ ~Loaded(vm.ram, vm.pd[Dir(v)].frame, Idx(v)).isUser

(***************************************************************************)
(* User code reaches a page where directory and table both let it.         *)
(***************************************************************************)
UserMay(m, v) ==
  /\ Translate(m, v) # NoFrame
  /\ m.pd[Dir(v)].isUser
  /\ m.pd[Dir(v)].large \/ Loaded(m.ram, m.pd[Dir(v)].frame, Idx(v)).isUser

(***************************************************************************)
(* GetPageForAddress gives a directory entry the rights of the first page  *)
(* mapped under it.  Whichever came first, no page above the first 4 MB is *)
(* open to user code unless it was last mapped for it, not the heap and    *)
(* not a kernel page under an entry that a user page made; and a page that *)
(* was is open if its directory entry is.                                  *)
(***************************************************************************)
KernelPagesStayClosed ==
  Null \notin Tables(vm) => \A v \in Heap \cup VirtArgs :
    UserMay(vm, v) <=> v \in opened /\ vm.pd[Dir(v)].isUser

(***************************************************************************)
(* MapVirtualToPhysical changes the translation of the page it is asked to *)
(* map and of no other page above the first 4 MB, also where it has to     *)
(* make a table out of a frame full of junk, as long as it gets one.       *)
(***************************************************************************)
MapChangesOnePage ==
  [][ stage = "running" /\ ~vm'.failed =>
        LET changed == {v \in Heap \cup VirtArgs : Translate(vm', v) # Translate(vm, v)}
        IN Cardinality(changed) <= 1 /\ changed \subseteq VirtArgs ]_vars
=============================================================================
