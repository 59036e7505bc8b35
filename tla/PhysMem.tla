------------------------------ MODULE PhysMem --------------------------------
(***************************************************************************)
(* The physical frame allocator of src/src/arch/x86/mem/phymem.cpp and the *)
(* part of ArchKernel::Init that prepares it: one bit per frame in an      *)
(* array of 32-bit words placed right behind the kernel image, and a       *)
(* counter usedBlocks that the code keeps beside the bits.                 *)
(*                                                                         *)
(* The bitmap is the set of the bits that are one.  Addresses are bytes.   *)
(***************************************************************************)
EXTENDS Naturals, FiniteSets

CONSTANTS
  BLOCK_SIZE,       \* bytes of a frame
  BLOCKS_PER_BYTE,
  WordBits,         \* bits of an element of memoryArray
  UintSpan,         \* 2^32, where usedBlocks wraps
  LowMem,           \* 0x100000: the kernel is linked there
  KernelEnd,        \* physical address of _kernel_end
  Boots             \* what the boot loader may report

(***************************************************************************)
(* kernel_size, when ArchKernel::Init reads it.  Its initialiser is no     *)
(* constant expression, so the compiler puts it among the static           *)
(* constructors, and _start calls kmain without running those.             *)
(***************************************************************************)
kernel_size == 0

(***************************************************************************)
(* A boot loader's report: mem_upper in bytes, the memory map as a set of  *)
(* regions, mods_count, and the two words at mods_addr: the first module's *)
(* bounds, or whatever lies there when no module is loaded.                *)
(***************************************************************************)
Region(base, end, available) == [base |-> base, end |-> end, available |-> available]

ASSUME PhysAssumption ==
  /\ BLOCK_SIZE \in Nat \ {0}
  /\ BLOCKS_PER_BYTE \in Nat \ {0}
  /\ WordBits \in Nat \ {0}
  /\ UintSpan \in Nat \ {0}
  /\ KernelEnd \in Nat /\ LowMem \in 1 .. KernelEnd
  /\ \A boot \in Boots : boot.memUpper \in 1 .. (UintSpan - 1)

VARIABLES
  boot,           \* the boot loader's report
  stage,          \* how far ArchKernel::Init has come
  bits,           \* memoryArray: the bits that are one
  maximumBlocks,
  usedBlocks,
  held            \* frames AllocateBlock returned and nobody gave back

vars == <<boot, stage, bits, maximumBlocks, usedBlocks, held>>

Init ==
  /\ boot \in Boots
  /\ stage = "boot"
  /\ bits = {}
  /\ maximumBlocks = 0
  /\ usedBlocks = 0
  /\ held = {}

-----------------------------------------------------------------------------
BitmapSize(b) == (b.memUpper \div BLOCK_SIZE) \div BLOCKS_PER_BYTE

GetBitmapSize == BitmapSize(boot)

PageRoundDown(address) == address - (address % BLOCK_SIZE)

PageRoundUp(address) ==
  IF address % BLOCK_SIZE # 0 THEN address - (address % BLOCK_SIZE) + BLOCK_SIZE
  ELSE address

(***************************************************************************)
(* The frames that the loops of MarkFree and MarkUsed visit: base and size *)
(* are both divided, so a last partial frame is not visited.               *)
(***************************************************************************)
Visited(base, size) ==
  (base \div BLOCK_SIZE) .. (base \div BLOCK_SIZE + size \div BLOCK_SIZE - 1)

Visits(size) == size \div BLOCK_SIZE

(***************************************************************************)
(* usedBlocks++ and usedBlocks-- on an unsigned counter.                   *)
(***************************************************************************)
Plus(n, k) == (n + k) % UintSpan

Minus(n, k) == (n + UintSpan - (k % UintSpan)) % UintSpan

(***************************************************************************)
(* PhysicalMem::Init: every word that it writes gets 0xFF, which is the    *)
(* low BLOCKS_PER_BYTE bits of the word, and there are usedBlocks /        *)
(* BLOCKS_PER_BYTE such words.  Then MarkFree for each available region;   *)
(* it ends by setting bit 0.  The regions of a memory map do not overlap,  *)
(* so the order of the calls does not matter.                              *)
(***************************************************************************)
WordsWritten(max) == max \div BLOCKS_PER_BYTE

AllUsedPattern(max) ==
  {b \in 0 .. (WordsWritten(max) * WordBits - 1) : b % WordBits < BLOCKS_PER_BYTE}

AvailableIn(b) == {r \in b.mmap : r.available}

Available == AvailableIn(boot)

FreedBy(b) == UNION {Visited(r.base, r.end - r.base) : r \in AvailableIn(b)}

FreedByMap == FreedBy(boot)

PhysicalMemInit ==
  LET max == boot.memUpper \div BLOCK_SIZE
  IN /\ stage = "boot"
     /\ stage' = "initialised"
     /\ maximumBlocks' = max
     /\ bits' = (AllUsedPattern(max) \ FreedByMap) \cup {0}
     /\ usedBlocks' = Minus(max, Cardinality(FreedByMap))
     /\ UNCHANGED <<boot, held>>

MarkUsedUncounted(base, size) ==
  /\ bits' = bits \cup Visited(base, size) \cup {0}
  /\ usedBlocks' = usedBlocks

MarkUsed(base, size) ==
  /\ bits' = bits \cup Visited(base, size) \cup {0}
  /\ usedBlocks' = Plus(usedBlocks, Visits(size))

(***************************************************************************)
(* The two MarkUsed calls of ArchKernel::Init: from address zero over the  *)
(* kernel and the bitmap, and the first module.                            *)
(***************************************************************************)
KernelSpan(b) == PageRoundUp(LowMem + kernel_size + BitmapSize(b))

ReserveKernel ==
  /\ stage = "initialised"
  /\ stage' = "kernel reserved"
  /\ MarkUsed(0, KernelSpan(boot))
  /\ UNCHANGED <<boot, maximumBlocks, held>>

InitrdSpan(b) == Minus(b.initrd.end, b.initrd.base)

ReserveInitrd ==
  /\ stage = "kernel reserved"
  /\ stage' = "running"
  /\ MarkUsed(boot.initrd.base, InitrdSpan(boot))
  /\ UNCHANGED <<boot, maximumBlocks, held>>

(***************************************************************************)
(* What is known of a boot loader's report.  Addresses and lengths are     *)
(* read as 32-bit words.  The header of boot.asm asks for modules that are *)
(* aligned to pages.  Of a machine that has one it is assumed that its     *)
(* available frames outnumber the reservations, which Init does not test:  *)
(* usedBlocks would end beyond maximumBlocks.  Where the region above the  *)
(* first megabyte is the one mem_upper measures, the words Init writes,    *)
(* with WordBits bits for every BLOCKS_PER_BYTE of its frames, reach its   *)
(* end.                                                                    *)
(***************************************************************************)
ASSUME ReportAssumption ==
  /\ BLOCK_SIZE > 1 /\ LowMem % BLOCK_SIZE = 0
  /\ \A b \in Boots :
       /\ b.mods_count \in Nat
       /\ b.initrd.base \in 0 .. (UintSpan - 1) /\ b.initrd.end \in 0 .. (UintSpan - 1)
       /\ \A r \in b.mmap : r.base \in Nat /\ r.end \in r.base .. UintSpan
       /\ KernelSpan(b) < UintSpan
       /\ \A r \in AvailableIn(b) :
            r.base = LowMem =>
              r.end <= WordsWritten(b.memUpper \div BLOCK_SIZE) * WordBits * BLOCK_SIZE
       /\ b.mods_count > 0 =>
            /\ b.initrd.base <= b.initrd.end
            /\ b.initrd.base % BLOCK_SIZE = 0
            /\ Visits(KernelSpan(b)) + Visits(InitrdSpan(b)) <= Cardinality(FreedBy(b))

-----------------------------------------------------------------------------
(***************************************************************************)
(* FirstFree looks at maximumBlocks words, not blocks.  The words behind   *)
(* the ones Init wrote are whatever follows the bitmap in memory: either   *)
(* all ones or not, so each may be reported to hold a free frame.          *)
(***************************************************************************)
Written == 0 .. (WordsWritten(maximumBlocks) * WordBits - 1)

Unwritten ==
  (WordsWritten(maximumBlocks) * WordBits) .. (maximumBlocks * WordBits - 1)

FirstFree ==
  LET zero == Written \ bits
  IN IF zero # {} THEN {b \in zero : \A c \in zero : b <= c}
     ELSE Unwritten \ bits

FreeBlocks == Minus(maximumBlocks, usedBlocks)

MayAllocateAlways == TRUE

MayAllocate == FreeBlocks # 0

AllocateBlock ==
  /\ stage = "running"
  /\ MayAllocate
  /\ \E frame \in FirstFree :
       /\ bits' = bits \cup {frame}
       /\ held' = held \cup {frame}
  /\ usedBlocks' = Plus(usedBlocks, 1)
  /\ UNCHANGED <<boot, stage, maximumBlocks>>

(***************************************************************************)
(* AllocateBlock returns a null pointer: nothing changes.                  *)
(***************************************************************************)
AllocateFails ==
  /\ stage = "running"
  /\ ~MayAllocate \/ Written \subseteq bits
  /\ UNCHANGED vars

FreeBlocksOneTooMany(frame) ==
  /\ stage = "running"
  /\ bits' = bits \ {frame, frame + 1}
  /\ held' = held \ {frame}
  /\ usedBlocks' = Minus(usedBlocks, 1)
  /\ UNCHANGED <<boot, stage, maximumBlocks>>

(***************************************************************************)
(* FreeBlocks(ptr, 1) on a frame its holder gives back.  The method is     *)
(* private and nothing calls it yet.                                       *)
(***************************************************************************)
FreeBlocksOf(frame) ==
  /\ stage = "running"
  /\ bits' = bits \ {frame}
  /\ held' = held \ {frame}
  /\ usedBlocks' = Minus(usedBlocks, 1)
  /\ UNCHANGED <<boot, stage, maximumBlocks>>

Next ==
  \/ PhysicalMemInit
  \/ ReserveKernel
  \/ ReserveInitrd
  \/ AllocateBlock
  \/ AllocateFails
  \/ \E frame \in held : FreeBlocksOf(frame)

Spec == Init /\ [][Next]_vars

-----------------------------------------------------------------------------
(***************************************************************************)
(* Types of the allocator's state.                                         *)
(***************************************************************************)
TypeOK ==
  /\ boot \in Boots
  /\ stage \in {"boot", "initialised", "kernel reserved", "running"}
  /\ bits \subseteq Nat
  /\ maximumBlocks \in Nat
  /\ usedBlocks \in 0 .. (UintSpan - 1)
  /\ held \subseteq Nat

FramesOf(base, end) ==
  IF end <= base THEN {} ELSE (base \div BLOCK_SIZE) .. ((end - 1) \div BLOCK_SIZE)

(***************************************************************************)
(* The common shape of a memory map: above the first megabyte there is one *)
(* region of available memory, the one mem_upper measures.                 *)
(***************************************************************************)
OneUpperRegion ==
  \A r \in Available : LowMem < r.end => r.base = LowMem

(***************************************************************************)
(* Every frame that is handed out is a whole frame of available memory     *)
(* above the first megabyte, although Init leaves most bits of reserved    *)
(* and of absent frames clear: usedBlocks runs out first.  In particular   *)
(* frame zero is never handed out, so a null pointer always means failure. *)
(* It takes one region above the megabyte: the counter also counts what    *)
(* lies behind a hole, and FirstFree then finds the hole's clear bits.  It *)
(* also takes a module: ArchKernel::Init reserves what the words at        *)
(* mods_addr say before it looks at mods_count, and the size of that may   *)
(* turn the counter around.                                                *)
(***************************************************************************)
OnlyAvailableFrames ==
  OneUpperRegion /\ boot.mods_count > 0 => \A f \in held :
    /\ LowMem <= f * BLOCK_SIZE
    /\ \E r \in Available : r.base <= f * BLOCK_SIZE /\ (f + 1) * BLOCK_SIZE <= r.end

(***************************************************************************)
(* usedBlocks is adjusted without looking at the bits it should count, and *)
(* wraps below zero while the map is read.  Once the kernel is running it  *)
(* never promises more free frames than there are clear bits of available  *)
(* memory, if the loader has put a module there.                           *)
(***************************************************************************)
CounterIsConservative ==
  stage = "running" /\ boot.mods_count > 0 => FreeBlocks <= Cardinality(FreedByMap \ bits)

(***************************************************************************)
(* A frame that is held is marked: AllocateBlock cannot hand it out again  *)
(* until its holder has given it back, and giving one back leaves every    *)
(* other holder's frame marked.                                            *)
(***************************************************************************)
HeldFramesStayMarked == held \subseteq bits

(***************************************************************************)
(* The comment at kernel.cpp:60: the kernel is marked used so that it is   *)
(* not overwritten.  No frame of the kernel image is handed out.           *)
(***************************************************************************)
KernelNotOverwritten == held \cap FramesOf(LowMem, KernelEnd) = {}
=============================================================================
