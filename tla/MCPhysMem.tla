------------------------------ MODULE MCPhysMem -------------------------------
(***************************************************************************)
(* PhysMem for TLC: a machine with a few small frames, four of them below  *)
(* the kernel's load address.  The configurations choose the frame size.   *)
(***************************************************************************)
EXTENDS PhysMem

CONSTANTS Uppers, LowEnds, InitrdBases, InitrdSizes,
  Beyond      \* bytes of available memory behind a hole of two frames, or 0

(***************************************************************************)
(* A PC's memory map: conventional memory, the BIOS hole, and memory above *)
(* the first megabyte, whose size is mem_upper, up to a reserved hole with *)
(* or without memory behind it.                                            *)
(***************************************************************************)
Map(low, upper, beyond) ==
  LET hole == LowMem + upper
      top == hole + 2 * BLOCK_SIZE
  IN { Region(0, low, TRUE),
       Region(low, LowMem, FALSE),
       Region(LowMem, hole, TRUE),
       Region(hole, top, FALSE) }
     \cup (IF beyond = 0 THEN {} ELSE {Region(top, top + beyond, TRUE)})

MCBoots ==
  { [memUpper |-> upper, mmap |-> Map(low, upper, beyond),
     mods_count |-> 1,
     initrd |-> [base |-> base, end |-> base + size]] :
    upper \in Uppers, low \in LowEnds, base \in InitrdBases, size \in InitrdSizes,
    beyond \in Beyond }
=============================================================================
