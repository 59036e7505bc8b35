----------------------------- MODULE Descriptors ------------------------------
(***************************************************************************)
(* The segment descriptors of src/src/arch/x86/tables/gdt.cpp, the task    *)
(* state segment, and the gates of idt.cpp: how the code packs them, and   *)
(* how the processor reads them when an interrupt changes the ring.        *)
(*                                                                         *)
(* Flags have the code's numbers.  Addresses are scaled: a byte of an      *)
(* address holds Byte values, the upper part of a limit Nibble.            *)
(***************************************************************************)
EXTENDS Integers

CONSTANTS
  Byte, Nibble,   \* 2^8 and 2^4
  TssSize,        \* sizeof(tss_entry)
  StackFields     \* offset of the last byte of esp0 and ss0

Word == Byte * Byte
LimitSpan == Nibble * Word

ASSUME DescriptorsAssumption ==
  /\ {Byte, Nibble} \subseteq Nat \ {0, 1}
  /\ TssSize \in Nat /\ StackFields \in 0 .. (TssSize - 1)

Bits(n, low, width) == (n \div 2^low) % 2^width

CreateEntry(base, limit, flags) ==
  [limit0 |-> limit % Word, limit1 |-> (limit \div Word) % Nibble,
   base0 |-> base % Word, base1 |-> (base \div Word) % Byte,
   base2 |-> (base \div (Word * Byte)) % Byte,
   type |-> Bits(flags, 0, 4), s |-> Bits(flags, 4, 1), dpl |-> Bits(flags, 5, 2),
   p |-> Bits(flags, 7, 1), avl |-> Bits(flags, 12, 1), l |-> Bits(flags, 13, 1),
   d |-> Bits(flags, 14, 1), g |-> Bits(flags, 15, 1)]

(***************************************************************************)
(* GDT::Init: null, kernel code and data, user code and data, and the task *)
(* state segment, whose limit is computed from its base.                   *)
(***************************************************************************)
Gdt(tssBase) ==
  << CreateEntry(0, 0, 0),
     CreateEntry(0, LimitSpan - 1, 49306),              \* 0xc09a
     CreateEntry(0, LimitSpan - 1, 49298),              \* 0xc092
     CreateEntry(0, LimitSpan - 1, 49402),              \* 0xc0fa
     CreateEntry(0, LimitSpan - 1, 49394),              \* 0xc0f2
     CreateEntry(tssBase, tssBase + TssSize, 137) >>    \* 0x89

SEG_KERNEL_CODE == 8
SEG_KERNEL_DATA == 16
SEG_USER_CODE == 27
TaskRegister == 43      \* what CommitGdt loads with ltr

(***************************************************************************)
(* idt_create_entry and its calls: every gate names the kernel's code      *)
(* segment; only the gate of the system calls is open to ring 3.           *)
(***************************************************************************)
GateFlagsAllOpen(v) == 238
GateFlags(v) == IF v = 128 THEN 238 ELSE 142            \* 0xEE, 0x8E

Gate(v) ==
  [selector |-> SEG_KERNEL_CODE, type |-> Bits(GateFlags(v), 0, 4),
   dpl |-> Bits(GateFlags(v), 5, 2), p |-> Bits(GateFlags(v), 7, 1)]

-----------------------------------------------------------------------------
(* What the processor makes of them. *)

Segment(gdt, selector) == gdt[(selector \div 8) + 1]

Base(e) == e.base0 + Word * e.base1 + Word * Byte * e.base2
Limit(e) == e.limit0 + Word * e.limit1

IsCode(e) == e.p = 1 /\ e.s = 1 /\ e.type >= 8
IsStack(e) == e.p = 1 /\ e.s = 1 /\ e.type < 8 /\ Bits(e.type, 1, 1) = 1

\* The ring that a far transfer to the selector ends in.
Ring(gdt, selector) == Segment(gdt, selector).dpl

\* An interrupt that leaves ring 3 takes its stack from the task state segment.
StackFound(gdt, tssBase, ss0) ==
  LET t == Segment(gdt, TaskRegister)
  IN /\ t.p = 1 /\ t.s = 0 /\ t.g = 0
     /\ Base(t) = tssBase
     /\ StackFields <= Limit(t)
     /\ IsStack(Segment(gdt, ss0)) /\ Ring(gdt, ss0) = 0
=============================================================================
