------------------------------ MODULE Interrupts ------------------------------
(***************************************************************************)
(* Interrupt delivery: IDT::Init, InstallHandler, AckInt and irq_handler   *)
(* of src/src/arch/x86/tables/idt.cpp, the stubs of isr_wrapper.asm, and   *)
(* the pair of 8259 controllers they program.  Devices raise requests at   *)
(* any moment; the boot code sets the tables up step by step with its      *)
(* interrupt flag set from the middle of IDT::Init on.  Threads run in     *)
(* ring 0 or 3; an interrupt enters the ring its gate names.  The boot     *)
(* code may end with interrupts off for good (kernel.cpp, no initrd).      *)
(*                                                                         *)
(* The boot code installs handlers for the vectors of BootVectors.  More   *)
(* drivers may follow; nothing in the kernel has one yet.                  *)
(***************************************************************************)
EXTENDS Descriptors, Sequences

CONSTANTS
  Lines,        \* interrupt request lines in use, 0..7 master, 8..15 slave
  Drivers,      \* vectors that drivers install handlers for after boot
  Exceptions,   \* exceptions that kernel or user code may raise
  Spurious,     \* whether the controller may raise a spurious interrupt
  Syscalls,     \* whether user code executes int instructions
  TssBases      \* where the linker may put the task state segment

Timer == 0
Cascade == 2
SpuriousLine == 7
TimerVector == 32
SyscallVector == 128
ProtectionFault == 13
BootVectors == <<SyscallVector, TimerVector>>
Gates == (0 .. 47) \cup {SyscallVector}

ASSUME InterruptsAssumption ==
  /\ Lines \subseteq 0 .. 15
  /\ {Timer, Cascade, SpuriousLine} \subseteq Lines
  /\ Drivers \subseteq {32 + l : l \in Lines}
  /\ Exceptions \subseteq 0 .. 31
  /\ {Spurious, Syscalls} \subseteq BOOLEAN
  /\ \A b \in TssBases :
       b \in 0 .. (Word * Word - 1) /\ (b % LimitSpan) + TssSize < LimitSpan

VARIABLES
  at,           \* where the boot code or a driver stands in Init / InstallHandler
  arg,          \* the vector it is installing a handler for
  todo,         \* handlers the boot code still has to install
  handlers,     \* vectors v with handlers[v] set
  base,         \* the vector of line 0 and of line 8
  mask, irr, isr,  \* masked, requested and in-service lines
  intr,         \* the interrupt flag
  cpl,          \* the ring the processor runs in
  tss,          \* the task state segment: its address, ss0, and whether esp0 is set
  stub,         \* the interrupt being served, or Idle
  halted        \* how the processor came to spin for good, or "no"

pic == <<base, mask, irr, isr>>
ring == <<cpl, tss>>
vars == <<at, arg, todo, handlers, pic, intr, ring, stub, halted>>

Idle == [step |-> "idle", kind |-> "none", line |-> 0, vec |-> 0, no |-> 0,
         saved |-> FALSE, from |-> 0]

\* The firmware leaves the lines at vectors 8 and 0x70; _start runs with cli.
Init ==
  /\ at = "remap" /\ arg = 0 /\ todo = BootVectors
  /\ handlers = {}
  /\ base = [master |-> 8, slave |-> 112]
  /\ mask \in SUBSET Lines
  /\ irr = {} /\ isr = {}
  /\ intr = FALSE
  /\ cpl = 0
  /\ \E b \in TssBases : tss = [base |-> b, ss0 |-> SEG_KERNEL_DATA, esp0 |-> FALSE]
  /\ stub = Idle
  /\ halted = "no"

---------------------------------------------------------------------------
(* The controllers. *)

IsMaster(l) == l < 8
Level(l) == IF IsMaster(l) THEN l ELSE Cascade
Rank(l) == 16 * Level(l) + l

Open(l) == l \notin mask /\ (IsMaster(l) \/ Cascade \notin mask)
Blocked(l) ==
  \E s \in isr : \/ IsMaster(s) /\ s <= Level(l)
                 \/ ~IsMaster(s) /\ ~IsMaster(l) /\ s <= l
Ready == {l \in irr : Open(l) /\ ~Blocked(l)}

Service(l) == IF IsMaster(l) THEN {l} ELSE {l, Cascade}
Vector(l) == IF IsMaster(l) THEN base.master + l ELSE base.slave + (l - 8)

\* A non-specific end of interrupt retires the first line of those in service.
First(lines) == {l \in lines : \A k \in lines : l <= k}
EndMaster(s) == s \ First({l \in s : IsMaster(l)})
EndSlave(s) == s \ First({l \in s : ~IsMaster(l)})

\* A device raises a line.  A second edge before delivery is lost.
Raise(l) ==
  /\ l \notin irr /\ l # Cascade
  /\ irr' = irr \cup {l}
  /\ UNCHANGED <<at, arg, todo, handlers, base, mask, isr, intr, ring, stub, halted>>

---------------------------------------------------------------------------
(* IDT::Init and InstallHandler. *)

Running == halted = "no" /\ stub = Idle
InKernel == Running /\ cpl = 0

\* The mutant leaves the lines on top of the exceptions.
RemapForgetsOffsets ==
  /\ InKernel /\ at = "remap"
  /\ mask' = Lines /\ irr' = {} /\ isr' = {}
  /\ at' = "lidt"
  /\ UNCHANGED <<arg, todo, handlers, base, intr, ring, stub, halted>>

\* Initialising an 8259 forgets its requests.  The flag is clear throughout.
RemapIRQs ==
  /\ InKernel /\ at = "remap"
  /\ base' = [master |-> 32, slave |-> 40]
  /\ mask' = Lines /\ irr' = {} /\ isr' = {}
  /\ at' = "lidt"
  /\ UNCHANGED <<arg, todo, handlers, intr, ring, stub, halted>>

\* Fills the gates of 0..47 and 128, loads the table.
LoadTable ==
  /\ InKernel /\ at = "lidt"
  /\ at' = "sti"
  /\ UNCHANGED <<arg, todo, handlers, pic, intr, ring, stub, halted>>

Enable ==
  /\ InKernel /\ at = "sti"
  /\ intr' = TRUE
  /\ at' = "store" /\ arg' = Head(todo) /\ todo' = Tail(todo)
  /\ UNCHANGED <<handlers, pic, ring, stub, halted>>

StoreHandler ==
  /\ InKernel /\ at = "store"
  /\ handlers' = handlers \cup {arg}
  /\ at' = "unmask"
  /\ UNCHANGED <<arg, todo, pic, intr, ring, stub, halted>>

\* The line whose mask bit  & ~(1 << i)  clears; the processor takes the shift
\* modulo 32, so for 0x80 it is a bit that the 8-bit register does not have.
MaskBitNextLine(v) == IF v - 32 < 8 THEN v - 31 ELSE 8 + ((v - 40) % 32)
MaskBit(v) == IF v - 32 < 8 THEN v - 32 ELSE 8 + ((v - 40) % 32)

Unmask ==
  /\ InKernel /\ at = "unmask"
  /\ mask' = mask \ {MaskBit(arg)}
  /\ IF todo = <<>>
       THEN at' = "run" /\ arg' = 0 /\ UNCHANGED todo
       ELSE at' = "store" /\ arg' = Head(todo) /\ todo' = Tail(todo)
  /\ UNCHANGED <<handlers, base, irr, isr, intr, ring, stub, halted>>

InstallDriver(v) ==
  /\ InKernel /\ at = "run"
  /\ v \notin handlers
  /\ at' = "store" /\ arg' = v
  /\ UNCHANGED <<todo, handlers, pic, intr, ring, stub, halted>>

---------------------------------------------------------------------------
(* Entry through a gate, and the stubs. *)

\* What  push byte %2  leaves on the stack: the byte, sign-extended.
PushByte(v) == IF v < 128 THEN v ELSE v - 256

Code(v) == Gate(v).selector

\* Gate and code segment are in order, and so is the stack for a change of ring.
GateOpens(v) ==
  /\ Gate(v).p = 1 /\ IsCode(Segment(Gdt(tss.base), Code(v)))
  /\ cpl # Ring(Gdt(tss.base), Code(v)) =>
       tss.esp0 /\ StackFound(Gdt(tss.base), tss.base, tss.ss0)

\* The gates are interrupt gates and the stubs begin with cli.  Where the
\* processor finds no way in, it shuts down.
Enter(kind, line, v) ==
  /\ stub' = [step |-> IF v < 32 THEN "isr" ELSE "ack", kind |-> kind, line |-> line,
              vec |-> v, no |-> PushByte(v), saved |-> intr, from |-> cpl]
  /\ intr' = FALSE
  /\ cpl' = Ring(Gdt(tss.base), Code(v))
  /\ halted' = IF GateOpens(v) THEN "no" ELSE "shutdown"
  /\ UNCHANGED <<at, arg, todo, handlers, tss>>

Deliver(l) ==
  /\ Running /\ intr
  /\ l \in Ready /\ \A k \in Ready : Rank(l) <= Rank(k)
  /\ irr' = irr \ {l} /\ isr' = isr \cup Service(l)
  /\ Enter("line", l, Vector(l))
  /\ UNCHANGED <<base, mask>>

\* A request that is gone when the processor asks for its vector.
DeliverSpurious ==
  /\ Spurious
  /\ Running /\ intr
  /\ Enter("spurious", SpuriousLine, Vector(SpuriousLine))
  /\ UNCHANGED pic

\* ForceSwitch's int $0x20.
SoftwareTick ==
  /\ InKernel /\ at = "run"
  /\ Enter("software", Timer, TimerVector)
  /\ UNCHANGED pic

\* User code executes int $v, v with a gate.  A gate that is closed to it is a protection fault.
UserInt(v) ==
  /\ Syscalls
  /\ Running /\ cpl = 3
  /\ \/ Gate(v).dpl >= cpl /\ Enter("software", Timer, v)
     \/ Gate(v).dpl < cpl /\ Enter("exception", Timer, ProtectionFault)
  /\ UNCHANGED pic

Exception(e) ==
  /\ Running /\ at \notin {"remap", "lidt"}
  /\ Enter("exception", Timer, e)
  /\ UNCHANGED pic

int_handler ==
  /\ halted = "no" /\ stub.step = "isr"
  /\ halted' = "exception"
  /\ UNCHANGED <<at, arg, todo, handlers, pic, intr, ring, stub>>

\* The mutant takes the two controllers for alternatives.
AckEither(i) == IF i >= 8 THEN EndSlave(isr) ELSE EndMaster(isr)
AckInt(i) == EndMaster(IF i >= 8 THEN EndSlave(isr) ELSE isr)

irq_handler ==
  /\ halted = "no" /\ stub.step = "ack"
  /\ isr' = AckInt(stub.no)
  /\ stub' = [stub EXCEPT !.step = "call"]
  /\ UNCHANGED <<at, arg, todo, handlers, base, mask, irr, intr, ring, halted>>

\* SetTSS(0x10, top of a thread's stack).
SetTSS == tss' = [base |-> tss.base, ss0 |-> SEG_KERNEL_DATA, esp0 |-> TRUE]

\* The handler runs and the stub returns to the frame it answers with.
CallHandler ==
  /\ halted = "no" /\ stub.step = "call"
  /\ stub.no \in handlers
  /\ intr' = stub.saved /\ cpl' = stub.from
  /\ stub' = Idle
  /\ UNCHANGED <<at, arg, todo, handlers, pic, tss, halted>>

\* pit_handler answers with another thread's frame: an interrupted one, or one
\* from CreateFromFunction, whose flags are zero.  A thread in ring 3 cannot
\* set the flag, so it never has it.
SwitchThread ==
  /\ halted = "no" /\ stub.step = "call"
  /\ stub.no = TimerVector /\ TimerVector \in handlers
  /\ SetTSS
  /\ \/ cpl' = Ring(Gdt(tss.base), SEG_USER_CODE) /\ intr' = FALSE
     \/ cpl' = Ring(Gdt(tss.base), SEG_KERNEL_CODE) /\ intr' \in BOOLEAN
  /\ stub' = Idle
  /\ UNCHANGED <<at, arg, todo, handlers, pic, halted>>

Unhandled ==
  /\ halted = "no" /\ stub.step = "call"
  /\ stub.no \in Nat \ handlers
  /\ halted' = "unhandled"
  /\ UNCHANGED <<at, arg, todo, handlers, pic, intr, ring, stub>>

\* handlers[-128] is some word of the boot stack: zero, or jumped to.
CallBeforeTable ==
  /\ halted = "no" /\ stub.step = "call"
  /\ stub.no < 0
  /\ halted' \in {"unhandled", "wild"}
  /\ UNCHANGED <<at, arg, todo, handlers, pic, intr, ring, stub>>

---------------------------------------------------------------------------
(* Code outside the handlers.  Drivers and threads, which are not part of   *)
(* the kernel yet, may change the flag as they like.                       *)

Sti ==
  /\ InKernel /\ at # "remap" /\ at # "lidt" /\ at # "sti"
  /\ ~intr
  /\ intr' = TRUE
  /\ UNCHANGED <<at, arg, todo, handlers, pic, ring, stub, halted>>

Cli ==
  /\ InKernel /\ at = "run"
  /\ intr
  /\ intr' = FALSE
  /\ UNCHANGED <<at, arg, todo, handlers, pic, ring, stub, halted>>

\* Without a module ArchKernel::Init turns interrupts off and loops for ever.
\* It runs until the first thread is entered, with no way back.
NoInitrd ==
  /\ InKernel /\ at = "run" /\ ~tss.esp0
  /\ intr' = FALSE
  /\ halted' = "no initrd"
  /\ UNCHANGED <<at, arg, todo, handlers, pic, ring, stub>>

\* InitialThreadUserJump ends an interrupt nobody is serving and enters ring 3
\* with the flag clear: enter_usermode takes the flags after its cli.
UserJump ==
  /\ InKernel /\ at = "run"
  /\ isr' = EndMaster(isr)
  /\ intr' = FALSE
  /\ SetTSS
  /\ cpl' = Ring(Gdt(tss.base), SEG_USER_CODE)
  /\ UNCHANGED <<at, arg, todo, handlers, base, mask, irr, stub, halted>>

Next ==
  \/ \E l \in Lines : Raise(l)
  \/ RemapIRQs
  \/ LoadTable
  \/ Enable
  \/ StoreHandler
  \/ Unmask
  \/ \E v \in Drivers : InstallDriver(v)
  \/ \E l \in Lines : Deliver(l)
  \/ DeliverSpurious
  \/ SoftwareTick
  \/ \E v \in Gates : UserInt(v)
  \/ \E e \in Exceptions : Exception(e)
  \/ int_handler
  \/ irq_handler
  \/ CallHandler
  \/ SwitchThread
  \/ Unhandled
  \/ CallBeforeTable
  \/ Sti
  \/ Cli
  \/ NoInitrd
  \/ UserJump

Spec == Init /\ [][Next]_vars

\* The controllers keep a request pending, and the processor takes it once it
\* may.  No code is taken to turn interrupts on: threads start with them off,
\* user threads cannot, and ArchKernel::Init may turn them off for good.
FairSpec == Spec /\ SF_vars(\E l \in Lines : Deliver(l))

---------------------------------------------------------------------------
(* Properties. *)

Positions == {"remap", "lidt", "sti", "store", "unmask", "run"}

\* State of the tables, the controllers and the stub; the processor serves an
\* interrupt only with its flag clear, and a shift beyond the mask register
\* (InstallHandler(0x80)) touches no line.
TypeOK ==
  /\ at \in Positions
  /\ arg \in {0, SyscallVector} \cup {32 + l : l \in Lines}
  /\ Len(todo) <= Len(BootVectors)
  /\ handlers \subseteq {SyscallVector} \cup {32 + l : l \in Lines}
  /\ base.master \in Nat /\ base.slave \in Nat
  /\ mask \subseteq Lines /\ irr \subseteq Lines /\ isr \subseteq Lines
  /\ intr \in BOOLEAN
  /\ stub # Idle => ~intr
  /\ cpl \in {0, 3} /\ tss.base \in TssBases
  /\ halted \in {"no", "exception", "unhandled", "wild", "shutdown", "no initrd"}

\* idt.cpp:190, "Mask all interrupts, as we don't currently have handlers for
\* them": from RemapIRQs on, a line is open only if its handler is installed,
\* at every point of an InstallHandler that runs with interrupts on.
OpenLinesHaveHandlers ==
  at # "remap" => \A l \in Lines \ mask : 32 + l \in handlers

\* A request of a device enters through the vector of its own line, above the
\* exceptions, and finds its handler: no device can stop the kernel in
\* int_handler or in "Unhandled IRQ".
RequestsReachTheirHandler ==
  stub.kind = "line" => stub.no = 32 + stub.line /\ stub.no \in handlers

\* Both controllers have nothing in service once irq_handler has acknowledged,
\* whatever combination of device, software and spurious interrupts came
\* before: the frame a handler switches to, and the extra end-of-interrupt of
\* InitialThreadUserJump, never leave a line shut or retire another's request.
NothingLeftInService ==
  stub.step # "ack" => isr = {}

\* As long as interrupts are on again and again, for however short a time,
\* every request of the timer is served once PIT::Init has opened its line
\* (what came before RemapIRQs is forgotten by the controllers): no line left
\* in service or masked shuts it out.  A kernel that has stopped, with or
\* without an initrd, and one that stays in ring 3 have interrupts off.
TimerRequestsServed ==
  []<>intr =>
    ((Timer \in irr /\ Timer \notin mask /\ at # "remap")
       ~> (stub.kind = "line" /\ stub.line = Timer))

\* The way from ring 3 into the kernel, through tables that GDT::Init and
\* IDT::Init pack bit by bit: handlers run in ring 0, only int $0x80 gets a
\* user program into a handler it names, and the processor finds a stack,
\* although the limit of the task state segment is computed from its address
\* and cut to 20 bits, and esp0 is zero until the first thread is entered.
KernelEntrySound ==
  /\ stub # Idle => cpl = 0
  /\ stub.kind = "software" /\ stub.from = 3 => stub.vec = SyscallVector
  /\ halted # "shutdown"

\* idt.h:12, "Interrupt number and error code": int_no is the number of the
\* interrupt that was raised.
IntNoIsTheInterrupt ==
  stub.no = stub.vec
=============================================================================
