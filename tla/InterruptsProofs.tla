--------------------------- MODULE InterruptsProofs ---------------------------
(***************************************************************************)
(* Proofs about interrupt delivery, for every set of lines, drivers and    *)
(* exceptions and every address of the task state segment.                 *)
(*                                                                         *)
(* The safety properties are not inductive: that a request finds its       *)
(* handler needs the controllers' offsets and the clear flag up to the end *)
(* of IDT::Init (BootOrder), that nothing is left in service needs to know *)
(* what is in service in front of irq_handler (InService), and that the    *)
(* processor finds a stack needs esp0 wherever ring 3 can be running       *)
(* (RingsSound).                                                           *)
(***************************************************************************)
EXTENDS Interrupts, NatFacts, TLAPS

Early == {"remap", "lidt", "sti"}
Vectors == {SyscallVector} \cup {32 + l : l \in Lines}

Stubs == [step : {"idle", "isr", "ack", "call"},
          kind : {"none", "line", "spurious", "software", "exception"},
          line : Nat, vec : Nat, no : Int, saved : BOOLEAN, from : {0, 3}]

Typed ==
  /\ at \in Positions
  /\ todo \in Seq({SyscallVector, TimerVector})
  /\ mask \subseteq Lines /\ irr \subseteq Lines
  /\ intr \in BOOLEAN
  /\ cpl \in {0, 3}
  /\ tss.base \in TssBases /\ tss.ss0 = SEG_KERNEL_DATA /\ tss.esp0 \in BOOLEAN
  /\ stub \in Stubs
  /\ stub.step = "idle" => stub = Idle

BootOrder ==
  /\ at \in Early => ~intr /\ cpl = 0 /\ todo = BootVectors
  /\ at \in {"remap", "lidt"} => stub.step = "idle"
  /\ at = "sti" => stub.step \in {"idle", "isr"}
  /\ at # "remap" => base = [master |-> 32, slave |-> 40]
  /\ at \in {"store", "unmask"} => arg \in Vectors
  /\ at = "unmask" => arg \in handlers

InService ==
  /\ isr = IF stub.step = "ack" /\ stub.kind = "line" THEN Service(stub.line) ELSE {}
  /\ stub.kind = "line" => stub.line \in Lines /\ stub.step \in {"ack", "call"}

RingsSound ==
  /\ stub.step # "idle" => cpl = 0
  /\ cpl = 3 \/ stub.from = 3 => tss.esp0
  /\ stub.kind = "software" /\ stub.from = 3 => stub.vec = SyscallVector
  /\ halted # "shutdown"

IInv ==
  /\ Typed
  /\ BootOrder
  /\ OpenLinesHaveHandlers
  /\ RequestsReachTheirHandler
  /\ InService
  /\ RingsSound

-----------------------------------------------------------------------------
(* The widths of the descriptor's fields, as products of the word's span.  *)
LEMMA Spans ==
  /\ Byte \in Nat \ {0} /\ Nibble \in Nat \ {0}
  /\ Word \in Nat \ {0} /\ Word * Byte \in Nat \ {0} /\ LimitSpan \in Nat \ {0}
  /\ Word = Byte * Byte /\ LimitSpan = Nibble * Word
<1>1. Byte \in Nat \ {0} /\ Nibble \in Nat \ {0}
  BY DescriptorsAssumption
<1>2. Byte * Byte \in Nat \ {0}
  BY <1>1
<1>3. Word \in Nat \ {0}
  BY <1>2 DEF Word
<1> QED
  BY <1>1, <1>3 DEF LimitSpan, Word

(* gdt_create_entry packs a 32-bit base without loss.                      *)
LEMMA BaseRoundTrip ==
  ASSUME NEW b \in 0 .. (Word * Word - 1), NEW limit, NEW flags
  PROVE  Base(CreateEntry(b, limit, flags)) = b
<1> DEFINE q == b \div Word
           r == b % Word
           p == q \div Byte
           s == q % Byte
<1> USE Spans
<1>1. b \in Nat
  BY DEF Word
<1>2. q \in Nat /\ r \in 0 .. (Word - 1) /\ b = Word * q + r
  BY <1>1, DivMod
<1>3. q < Word
  <2> HIDE DEF q, r
  <2>1. SUFFICES ASSUME Word <= q PROVE FALSE
    BY <1>2
  <2>2. Word * Word <= Word * q
    BY <1>2, <2>1
  <2> QED
    BY <1>2, <2>2
<1> HIDE DEF q, r
<1>4. p \in Nat /\ s \in 0 .. (Byte - 1) /\ q = Byte * p + s
  BY <1>2, DivMod
<1> HIDE DEF p, s
<1>5. p < Byte
  <2>1. SUFFICES ASSUME Byte <= p PROVE FALSE
    BY <1>4
  <2>2. Byte * Byte <= Byte * p
    BY <1>4, <2>1
  <2> QED
    BY <1>3, <1>4, <2>2
<1>6. b \div (Word * Byte) = p
  <2>1. b = (Word * Byte) * p + (Word * s + r)
    BY <1>2, <1>4
  <2>2. Word * s + r \in 0 .. (Word * Byte - 1)
    <3>1. Word * (s + 1) <= Word * Byte
      BY <1>4
    <3>2. Word * s \in Nat /\ Word * (s + 1) = Word * s + Word
      BY <1>4
    <3> QED
      BY <1>2, <3>1, <3>2
  <2> QED
    BY <1>1, <1>4, <2>1, <2>2, QuotientUnique
<1>7. p % Byte = p
  BY <1>4, <1>5, SmallMod
<1>8. /\ CreateEntry(b, limit, flags).base0 = r
      /\ CreateEntry(b, limit, flags).base1 = s
      /\ CreateEntry(b, limit, flags).base2 = p
  BY <1>6, <1>7 DEF CreateEntry, r, s, q
<1>9. b = r + Word * s + Word * Byte * p
  BY <1>2, <1>4
<1> QED
  BY <1>8, <1>9 DEF Base

(* Of a limit it keeps 20 bits.                                            *)
LEMMA LimitRoundTrip ==
  ASSUME NEW b, NEW limit \in Nat, NEW flags
  PROVE  Limit(CreateEntry(b, limit, flags)) = limit % LimitSpan
<1> DEFINE q == limit \div Word
           r == limit % Word
           p == q \div Nibble
           s == q % Nibble
<1> USE Spans
<1>1. q \in Nat /\ r \in 0 .. (Word - 1) /\ limit = Word * q + r
  BY DivMod
<1> HIDE DEF q, r
<1>2. p \in Nat /\ s \in 0 .. (Nibble - 1) /\ q = Nibble * p + s
  BY <1>1, DivMod
<1> HIDE DEF p, s
<1>3. limit = LimitSpan * p + (Word * s + r)
  BY <1>1, <1>2
<1>4. Word * s + r \in 0 .. (LimitSpan - 1)
  <2>1. Word * (s + 1) <= Word * Nibble
    BY <1>2
  <2>2. Word * s \in Nat /\ Word * (s + 1) = Word * s + Word
    BY <1>2
  <2> QED
    BY <1>1, <2>1, <2>2
<1>5. limit % LimitSpan = Word * s + r
  BY <1>2, <1>3, <1>4, QuotientUnique
<1>6. /\ CreateEntry(b, limit, flags).limit0 = r
      /\ CreateEntry(b, limit, flags).limit1 = s
  BY DEF CreateEntry, r, s, q
<1>7. r \in Nat /\ Word * s \in Nat
  BY <1>1, <1>2
<1> QED
  BY <1>5, <1>6, <1>7 DEF Limit

(* The limit of the task state segment, base plus size cut to 20 bits,     *)
(* still covers the fields an interrupt from ring 3 reads.                 *)
LEMMA TssLimit ==
  ASSUME NEW b \in TssBases, NEW flags
  PROVE  StackFields <= Limit(CreateEntry(b, b + TssSize, flags))
<1> DEFINE q == b \div LimitSpan
           r == b % LimitSpan
<1>1. b \in Nat /\ r + TssSize < LimitSpan
  BY InterruptsAssumption
<1>2. q \in Nat /\ r \in 0 .. (LimitSpan - 1) /\ b = LimitSpan * q + r
  BY <1>1, DivMod, Spans
<1> HIDE DEF q, r
<1>3. TssSize \in Nat /\ StackFields \in 0 .. (TssSize - 1)
  BY DescriptorsAssumption
<1>4. (b + TssSize) % LimitSpan = r + TssSize
  <2> DEFINE n == b + TssSize
             c == r + TssSize
  <2>1. n = LimitSpan * q + c
    BY <1>1, <1>2, <1>3, Spans
  <2>2. c \in 0 .. (LimitSpan - 1) /\ n \in Nat
    BY <1>1, <1>2, <1>3, Spans
  <2> HIDE DEF n, c
  <2>3. LimitSpan \in Nat \ {0} /\ q \in Nat
    BY <1>2, Spans
  <2>4. n % LimitSpan = c
    BY <2>1, <2>2, <2>3, QuotientUnique
  <2> QED
    BY <2>4 DEF n, c
<1>5. Limit(CreateEntry(b, b + TssSize, flags)) = r + TssSize
  BY <1>1, <1>3, <1>4, LimitRoundTrip
<1> QED
  BY <1>2, <1>3, <1>5

(* What the flags of GDT::Init and of the gates decode to.                 *)
LEMMA SegmentRights ==
  ASSUME NEW b
  PROVE  /\ IsCode(Segment(Gdt(b), SEG_KERNEL_CODE))
         /\ Ring(Gdt(b), SEG_KERNEL_CODE) = 0
         /\ Ring(Gdt(b), SEG_USER_CODE) = 3
         /\ IsStack(Segment(Gdt(b), SEG_KERNEL_DATA))
         /\ Ring(Gdt(b), SEG_KERNEL_DATA) = 0
         /\ Segment(Gdt(b), TaskRegister) = CreateEntry(b, b + TssSize, 137)
<1>1. /\ Segment(Gdt(b), SEG_KERNEL_CODE) = CreateEntry(0, LimitSpan - 1, 49306)
      /\ Segment(Gdt(b), SEG_KERNEL_DATA) = CreateEntry(0, LimitSpan - 1, 49298)
      /\ Segment(Gdt(b), SEG_USER_CODE) = CreateEntry(0, LimitSpan - 1, 49402)
      /\ Segment(Gdt(b), TaskRegister) = CreateEntry(b, b + TssSize, 137)
  BY DEF Segment, Gdt, SEG_KERNEL_CODE, SEG_KERNEL_DATA, SEG_USER_CODE, TaskRegister
<1>2. ASSUME NEW adr, NEW limit, NEW flags
      PROVE  /\ CreateEntry(adr, limit, flags).type = Bits(flags, 0, 4)
             /\ CreateEntry(adr, limit, flags).s = Bits(flags, 4, 1)
             /\ CreateEntry(adr, limit, flags).dpl = Bits(flags, 5, 2)
             /\ CreateEntry(adr, limit, flags).p = Bits(flags, 7, 1)
  BY DEF CreateEntry
<1>3. /\ Bits(49306, 0, 4) = 10 /\ Bits(49306, 4, 1) = 1
      /\ Bits(49306, 5, 2) = 0 /\ Bits(49306, 7, 1) = 1
  BY DEF Bits
<1>4. /\ Bits(49298, 0, 4) = 2 /\ Bits(49298, 4, 1) = 1
      /\ Bits(49298, 5, 2) = 0 /\ Bits(49298, 7, 1) = 1
      /\ Bits(49402, 5, 2) = 3 /\ Bits(2, 1, 1) = 1
  BY DEF Bits
<1> QED
  BY <1>1, <1>2, <1>3, <1>4 DEF IsCode, IsStack, Ring

(* What the processor reads out of the type byte of a gate.                *)
LEMMA GateRights ==
  ASSUME NEW v
  PROVE  /\ Gate(v).selector = SEG_KERNEL_CODE /\ Gate(v).p = 1
         /\ Gate(v).dpl = IF v = 128 THEN 3 ELSE 0
<1>1. /\ Bits(238, 5, 2) = 3 /\ Bits(238, 7, 1) = 1
      /\ Bits(142, 5, 2) = 0 /\ Bits(142, 7, 1) = 1
  BY DEF Bits
<1> QED
  BY <1>1 DEF Gate, GateFlags

(* From ring 3 the processor finds a kernel stack, wherever the linker has *)
(* put the task state segment.                                             *)
LEMMA StackIsFound ==
  ASSUME NEW b \in TssBases
  PROVE  StackFound(Gdt(b), b, SEG_KERNEL_DATA)
<1> DEFINE t == CreateEntry(b, b + TssSize, 137)
<1>1. t.p = 1 /\ t.s = 0 /\ t.g = 0
  <2>1. Bits(137, 7, 1) = 1 /\ Bits(137, 4, 1) = 0 /\ Bits(137, 15, 1) = 0
    BY DEF Bits
  <2> QED
    BY <2>1 DEF CreateEntry
<1>2. Base(t) = b
  BY BaseRoundTrip, InterruptsAssumption
<1>3. StackFields <= Limit(t)
  BY TssLimit
<1> HIDE DEF t
<1>4. Segment(Gdt(b), TaskRegister) = t
  BY SegmentRights DEF t
<1> QED
  BY <1>1, <1>2, <1>3, <1>4, SegmentRights DEF StackFound

(* Every gate opens, from ring 0 and, once esp0 is set, from ring 3.       *)
LEMMA EveryGateOpens ==
  ASSUME Typed, RingsSound, NEW v
  PROVE  GateOpens(v) /\ Ring(Gdt(tss.base), Code(v)) = 0
BY GateRights, SegmentRights, StackIsFound DEF GateOpens, Code, Typed, RingsSound

-----------------------------------------------------------------------------
(* Before setup nothing is open, in service or installed.                  *)
LEMMA InitIInv == Init => IInv
<1> SUFFICES ASSUME Init PROVE IInv
  OBVIOUS
<1>1. stub \in Stubs /\ stub = Idle /\ stub.step = "idle" /\ stub.kind = "none"
      /\ stub.from = 0
  BY DEF Init, Idle, Stubs
<1>2. todo \in Seq({SyscallVector, TimerVector}) /\ todo = BootVectors
  BY DEF Init, BootVectors
<1>3. PICK b \in TssBases : tss = [base |-> b, ss0 |-> SEG_KERNEL_DATA, esp0 |-> FALSE]
  BY DEF Init
<1>4. tss.base \in TssBases /\ tss.ss0 = SEG_KERNEL_DATA /\ tss.esp0 = FALSE
  BY <1>3
<1>5. Typed
  BY <1>1, <1>2, <1>4 DEF Init, Typed, Positions
<1>6. BootOrder
  BY <1>1, <1>2 DEF Init, BootOrder, Early
<1>7. OpenLinesHaveHandlers /\ RequestsReachTheirHandler
  BY <1>1 DEF Init, OpenLinesHaveHandlers, RequestsReachTheirHandler
<1>8. InService /\ RingsSound
  BY <1>1 DEF Init, InService, RingsSound
<1> QED
  BY <1>5, <1>6, <1>7, <1>8 DEF IInv

(* An end of interrupt retires exactly what a delivery put in service.     *)
LEMMA AckRetires ==
  ASSUME NEW l \in Nat, isr = Service(l), NEW i \in Nat, i >= 8
  PROVE  AckInt(i) = {}
<1>1. CASE IsMaster(l)
  <2>1. EndSlave({l}) = {l} /\ EndMaster({l}) = {}
    BY <1>1 DEF EndSlave, EndMaster, First, IsMaster
  <2> QED
    BY <1>1, <2>1 DEF AckInt, Service
<1>2. CASE ~IsMaster(l)
  <2>1. l # Cascade /\ IsMaster(Cascade)
    BY <1>2 DEF IsMaster, Cascade
  <2>2. EndSlave({l, Cascade}) = {Cascade}
    <3>1. {k \in {l, Cascade} : ~IsMaster(k)} = {l}
      BY <1>2, <2>1
    <3>2. First({l}) = {l}
      BY DEF First
    <3> QED
      BY <2>1, <3>1, <3>2 DEF EndSlave
  <2>3. EndMaster({Cascade}) = {}
    BY <2>1 DEF EndMaster, First, Cascade
  <2> QED
    BY <1>2, <2>2, <2>3 DEF AckInt, Service
<1> QED
  BY <1>1, <1>2

(* An acknowledge with nothing in service changes nothing.                 *)
LEMMA AckNothing ==
  ASSUME isr = {}, NEW i
  PROVE  AckInt(i) = {} /\ EndMaster(isr) = {}
BY DEF AckInt, EndMaster, EndSlave

(* The vector of a line, as RemapIRQs has set the controllers up.          *)
LEMMA VectorOfLine ==
  ASSUME base = [master |-> 32, slave |-> 40], NEW l \in Lines
  PROVE  Vector(l) = 32 + l /\ Vector(l) \in 32 .. 47 /\ PushByte(Vector(l)) = 32 + l
<1>1. l \in 0 .. 15
  BY InterruptsAssumption
<1>2. base.master = 32 /\ base.slave = 40
  OBVIOUS
<1>3. Vector(l) = 32 + l
  BY <1>1, <1>2 DEF Vector, IsMaster
<1> QED
  BY <1>1, <1>3 DEF PushByte

(* Opening the mask bit of a vector opens the line of that vector or none. *)
LEMMA MaskBitIsTheLine ==
  ASSUME NEW v \in Vectors, NEW l \in Lines, l = MaskBit(v)
  PROVE  v = 32 + l
<1>1. l \in 0 .. 15 /\ \A k \in Lines : k \in 0 .. 15
  BY InterruptsAssumption
<1>2. CASE v = SyscallVector
  <2>1. MaskBit(v) = 32
    BY <1>2 DEF MaskBit, SyscallVector
  <2> QED
    BY <1>1, <2>1
<1>3. ASSUME NEW k \in Lines, v = 32 + k
      PROVE  v = 32 + l
  <2>1. MaskBit(v) = k
    BY <1>1, <1>3 DEF MaskBit
  <2> QED
    BY <1>3, <2>1
<1> QED
  BY <1>2, <1>3 DEF Vectors

(* Entry into a stub, from wherever it comes.                              *)
LEMMA EnterIInv ==
  ASSUME IInv, Running, NEW kind \in {"line", "spurious", "software", "exception"},
         NEW line \in Nat, NEW v \in Nat, Enter(kind, line, v),
         UNCHANGED <<base, mask>>, irr' \subseteq Lines,
         at \in Early => at = "sti" /\ v < 32,
         isr' = IF kind = "line" THEN Service(line) ELSE {},
         kind = "line" => /\ line \in Lines /\ v >= 32
                          /\ PushByte(v) = 32 + line /\ PushByte(v) \in handlers,
         kind = "software" /\ cpl = 3 => v = SyscallVector
  PROVE  IInv'
<1>1. /\ Typed /\ BootOrder /\ OpenLinesHaveHandlers /\ InService /\ RingsSound
      /\ RequestsReachTheirHandler
  BY DEF IInv
<1>2. GateOpens(v) /\ Ring(Gdt(tss.base), Code(v)) = 0
  BY <1>1, EveryGateOpens
<1>3. /\ intr' = FALSE /\ cpl' = 0 /\ halted' = "no"
      /\ UNCHANGED <<at, arg, todo, handlers, tss>>
  BY <1>2 DEF Enter
<1>4. /\ stub' \in Stubs /\ stub'.step = IF v < 32 THEN "isr" ELSE "ack"
      /\ stub'.kind = kind /\ stub'.line = line /\ stub'.vec = v
      /\ stub'.no = PushByte(v) /\ stub'.from = cpl
  <2>1. PushByte(v) \in Int /\ intr \in BOOLEAN /\ cpl \in {0, 3}
    BY <1>1 DEF PushByte, Typed
  <2>2. stub' = [step |-> IF v < 32 THEN "isr" ELSE "ack", kind |-> kind, line |-> line,
                 vec |-> v, no |-> PushByte(v), saved |-> intr, from |-> cpl]
    BY DEF Enter
  <2> QED
    BY <2>1, <2>2 DEF Stubs
<1>5. Typed'
  BY <1>1, <1>3, <1>4 DEF Typed
<1>6. BootOrder'
  BY <1>1, <1>3, <1>4 DEF BootOrder, Early
<1>7. OpenLinesHaveHandlers'
  BY <1>1, <1>3 DEF OpenLinesHaveHandlers
<1>8. RequestsReachTheirHandler'
  BY <1>3, <1>4 DEF RequestsReachTheirHandler
<1>9. InService'
  BY <1>4 DEF InService, Service, IsMaster
<1>10. RingsSound'
  BY <1>1, <1>3, <1>4 DEF RingsSound
<1> QED
  BY <1>5, <1>6, <1>7, <1>8, <1>9, <1>10 DEF IInv

(* Return from a stub, to the interrupted code or to another thread.       *)
LEMMA LeaveIInv ==
  ASSUME IInv, halted = "no", stub.step = "call", stub' = Idle,
         UNCHANGED <<at, arg, todo, handlers, pic, halted>>,
         intr' \in BOOLEAN, cpl' \in {0, 3}, Typed',
         cpl' = 3 => tss'.esp0
  PROVE  IInv'
<1>1. /\ Typed /\ BootOrder /\ OpenLinesHaveHandlers /\ InService /\ RingsSound
  BY DEF IInv
<1>2. stub'.step = "idle" /\ stub'.kind = "none" /\ stub'.from = 0
  BY DEF Idle
<1>3. at \notin Early
  BY <1>1 DEF BootOrder, Early
<1>4. BootOrder'
  BY <1>1, <1>2, <1>3 DEF BootOrder, Early, pic
<1>5. OpenLinesHaveHandlers' /\ RequestsReachTheirHandler'
  BY <1>1, <1>2 DEF OpenLinesHaveHandlers, RequestsReachTheirHandler, pic
<1>6. InService'
  BY <1>1, <1>2 DEF InService, pic
<1>7. RingsSound'
  BY <1>1, <1>2 DEF RingsSound
<1> QED
  BY <1>4, <1>5, <1>6, <1>7 DEF IInv

(* The kernel stops for another reason than a missing way in.              *)
LEMMA StopIInv ==
  ASSUME IInv, halted' # "shutdown",
         UNCHANGED <<at, arg, todo, handlers, pic, intr, ring, stub>>
  PROVE  IInv'
<1>1. Typed' /\ BootOrder'
  BY DEF IInv, Typed, BootOrder, pic, ring
<1>2. OpenLinesHaveHandlers' /\ RequestsReachTheirHandler' /\ InService'
  BY DEF IInv, OpenLinesHaveHandlers, RequestsReachTheirHandler, InService, Service, IsMaster, pic
<1>3. RingsSound'
  BY DEF IInv, RingsSound, ring
<1> QED
  BY <1>1, <1>2, <1>3 DEF IInv

(* The boot code and the drivers, between interrupts.                      *)
LEMMA SetupIInv ==
  ASSUME IInv, \/ RemapIRQs \/ LoadTable \/ Enable \/ StoreHandler \/ Unmask
               \/ \E v \in Drivers : InstallDriver(v)
  PROVE  IInv'
<1>1. /\ Typed /\ BootOrder /\ OpenLinesHaveHandlers /\ RequestsReachTheirHandler
      /\ InService /\ RingsSound
  BY DEF IInv
<1>2. /\ UNCHANGED <<ring, stub, halted>> /\ stub = Idle /\ cpl = 0
  BY DEF RemapIRQs, LoadTable, Enable, StoreHandler, Unmask, InstallDriver, InKernel, Running
<1>3. stub.step = "idle" /\ stub.kind = "none" /\ isr = {}
  BY <1>1, <1>2 DEF Idle, InService
<1>4. RequestsReachTheirHandler' /\ RingsSound'
  BY <1>1, <1>2, <1>3 DEF RequestsReachTheirHandler, RingsSound, ring
<1>5. InService'
  BY <1>2, <1>3 DEF InService, RemapIRQs, LoadTable, Enable, StoreHandler, Unmask,
                    InstallDriver, pic
<1>6. ASSUME todo # <<>>
      PROVE  Head(todo) \in Vectors /\ Tail(todo) \in Seq({SyscallVector, TimerVector})
  <2>1. TimerVector \in Vectors
    BY InterruptsAssumption DEF Vectors, TimerVector, Timer
  <2> QED
    BY <1>1, <1>6, <2>1 DEF Typed, Vectors
<1>7. CASE RemapIRQs
  <2>1. Typed'
    BY <1>1, <1>2, <1>7 DEF Typed, RemapIRQs, Positions, ring
  <2>2. BootOrder' /\ OpenLinesHaveHandlers'
    BY <1>1, <1>2, <1>3, <1>7 DEF BootOrder, Early, OpenLinesHaveHandlers, RemapIRQs, ring
  <2> QED
    BY <1>4, <1>5, <2>1, <2>2 DEF IInv
<1>8. CASE LoadTable
  <2>1. Typed'
    BY <1>1, <1>2, <1>8 DEF Typed, LoadTable, Positions, ring, pic
  <2>2. BootOrder' /\ OpenLinesHaveHandlers'
    BY <1>1, <1>2, <1>3, <1>8 DEF BootOrder, Early, OpenLinesHaveHandlers, LoadTable, ring, pic
  <2> QED
    BY <1>4, <1>5, <2>1, <2>2 DEF IInv
<1>9. CASE Enable
  <2>1. todo # <<>>
    <3>1. todo = <<SyscallVector, TimerVector>>
      BY <1>1, <1>9 DEF Enable, BootOrder, Early, BootVectors
    <3> QED
      BY <3>1
  <2>2. Typed'
    BY <1>1, <1>2, <1>6, <1>9, <2>1 DEF Typed, Enable, Positions, ring, pic
  <2>3. BootOrder' /\ OpenLinesHaveHandlers'
    BY <1>1, <1>2, <1>3, <1>6, <1>9, <2>1
       DEF BootOrder, Early, OpenLinesHaveHandlers, Enable, ring, pic
  <2> QED
    BY <1>4, <1>5, <2>2, <2>3 DEF IInv
<1>10. CASE StoreHandler
  <2>1. Typed'
    BY <1>1, <1>2, <1>10 DEF Typed, StoreHandler, Positions, ring, pic
  <2>2. BootOrder' /\ OpenLinesHaveHandlers'
    BY <1>1, <1>2, <1>3, <1>10
       DEF BootOrder, Early, OpenLinesHaveHandlers, StoreHandler, ring, pic
  <2> QED
    BY <1>4, <1>5, <2>1, <2>2 DEF IInv
<1>11. CASE Unmask
  <2>1. Typed'
    <3>1. todo' \in Seq({SyscallVector, TimerVector}) /\ at' \in Positions
      BY <1>1, <1>6, <1>11 DEF Unmask, Typed, Positions
    <3> QED
      BY <1>1, <1>2, <1>11, <3>1 DEF Typed, Unmask, ring
  <2>2. BootOrder'
    BY <1>1, <1>2, <1>3, <1>6, <1>11 DEF BootOrder, Early, Unmask, ring
  <2>3. OpenLinesHaveHandlers'
    <3>1. /\ mask' = mask \ {MaskBit(arg)} /\ handlers' = handlers
          /\ arg \in Vectors /\ arg \in handlers /\ at # "remap"
      BY <1>1, <1>11 DEF Unmask, BootOrder
    <3>2. ASSUME NEW l \in Lines, l \notin mask'
          PROVE  32 + l \in handlers'
      BY <1>1, <3>1, <3>2, MaskBitIsTheLine DEF OpenLinesHaveHandlers
    <3> QED
      BY <3>2 DEF OpenLinesHaveHandlers
  <2> QED
    BY <1>4, <1>5, <2>1, <2>2, <2>3 DEF IInv
<1>12. ASSUME NEW v \in Drivers, InstallDriver(v)
       PROVE  IInv'
  <2>1. v \in Vectors
    BY InterruptsAssumption DEF Vectors
  <2>2. Typed'
    BY <1>1, <1>2, <1>12 DEF Typed, InstallDriver, Positions, ring, pic
  <2>3. BootOrder' /\ OpenLinesHaveHandlers'
    BY <1>1, <1>2, <1>3, <1>12, <2>1
       DEF BootOrder, Early, OpenLinesHaveHandlers, InstallDriver, ring, pic
  <2> QED
    BY <1>4, <1>5, <2>2, <2>3 DEF IInv
<1> QED
  BY <1>7, <1>8, <1>9, <1>10, <1>11, <1>12

(* IInv is inductive: one step per action.                                 *)
LEMMA NextIInv == IInv /\ [Next]_vars => IInv'
<1> SUFFICES ASSUME IInv, [Next]_vars PROVE IInv'
  OBVIOUS
<1>1. /\ Typed /\ BootOrder /\ OpenLinesHaveHandlers /\ RequestsReachTheirHandler
      /\ InService /\ RingsSound
  BY DEF IInv
<1>2. ASSUME Running
      PROVE  /\ stub.step = "idle" /\ stub.kind = "none" /\ isr = {}
             /\ intr => at \notin Early /\ base = [master |-> 32, slave |-> 40]
             /\ cpl = 3 => at \notin Early
  BY <1>1, <1>2 DEF Running, Idle, InService, BootOrder, Early
<1>3. irr \subseteq Lines
  BY <1>1 DEF Typed
<1>4. ASSUME NEW l \in Lines, Raise(l)
      PROVE  IInv'
  <2>1. Typed'
    BY <1>1, <1>4 DEF Raise, Typed, ring
  <2>2. BootOrder' /\ OpenLinesHaveHandlers' /\ RequestsReachTheirHandler'
    BY <1>1, <1>4 DEF Raise, BootOrder, OpenLinesHaveHandlers, RequestsReachTheirHandler, ring
  <2>3. InService' /\ RingsSound'
    BY <1>1, <1>4 DEF Raise, InService, RingsSound, Service, IsMaster, ring
  <2> QED
    BY <2>1, <2>2, <2>3 DEF IInv
<1>5. CASE \/ RemapIRQs \/ LoadTable \/ Enable \/ StoreHandler \/ Unmask
           \/ \E v \in Drivers : InstallDriver(v)
  BY <1>5, SetupIInv
<1>6. ASSUME NEW l \in Lines, Deliver(l)
      PROVE  IInv'
  <2>1. /\ Running /\ intr /\ l \notin mask /\ irr' = irr \ {l}
        /\ isr' = isr \cup Service(l) /\ Enter("line", l, Vector(l))
        /\ UNCHANGED <<base, mask>>
    BY <1>6 DEF Deliver, Ready, Open
  <2>2. /\ Vector(l) \in Nat /\ Vector(l) >= 32 /\ l \in Nat
        /\ PushByte(Vector(l)) = 32 + l
    BY <1>2, <2>1, VectorOfLine, InterruptsAssumption
  <2>3. PushByte(Vector(l)) \in handlers
    BY <1>1, <1>2, <2>1, <2>2 DEF OpenLinesHaveHandlers, Early
  <2> QED
    BY <1>2, <1>3, <2>1, <2>2, <2>3, EnterIInv
<1>7. CASE DeliverSpurious
  <2>1. /\ Running /\ intr /\ Enter("spurious", SpuriousLine, Vector(SpuriousLine))
        /\ UNCHANGED <<base, mask, irr, isr>>
    BY <1>7 DEF DeliverSpurious, pic
  <2>2. Vector(SpuriousLine) \in Nat /\ SpuriousLine \in Nat
    BY <1>2, <2>1, VectorOfLine, InterruptsAssumption DEF SpuriousLine
  <2> QED
    BY <1>2, <1>3, <2>1, <2>2, EnterIInv
<1>8. CASE SoftwareTick
  <2>1. /\ Running /\ cpl = 0 /\ at \notin Early /\ Enter("software", Timer, TimerVector)
        /\ UNCHANGED <<base, mask, irr, isr>>
    BY <1>8 DEF SoftwareTick, InKernel, pic, Early
  <2> QED
    BY <1>2, <1>3, <2>1, EnterIInv DEF Timer, TimerVector
<1>9. ASSUME NEW v \in Gates, UserInt(v)
      PROVE  IInv'
  <2>1. /\ Running /\ cpl = 3 /\ at \notin Early /\ isr = {}
        /\ UNCHANGED <<base, mask, irr, isr>>
    BY <1>2, <1>9 DEF UserInt, pic
  <2>2. CASE Gate(v).dpl >= cpl /\ Enter("software", Timer, v)
    <3>1. v = SyscallVector
      BY <2>1, <2>2, GateRights DEF SyscallVector
    <3> QED
      BY <1>3, <2>1, <2>2, <3>1, EnterIInv DEF Timer, SyscallVector
  <2>3. CASE Enter("exception", Timer, ProtectionFault)
    BY <1>3, <2>1, <2>3, EnterIInv DEF Timer, ProtectionFault
  <2> QED
    BY <1>9, <2>2, <2>3 DEF UserInt
<1>10. ASSUME NEW e \in Exceptions, Exception(e)
       PROVE  IInv'
  <2>1. e \in 0 .. 31
    BY InterruptsAssumption
  <2>2. /\ Running /\ at \notin {"remap", "lidt"} /\ Enter("exception", Timer, e)
        /\ UNCHANGED <<base, mask, irr, isr>>
    BY <1>10 DEF Exception, pic
  <2> QED
    BY <1>2, <1>3, <2>1, <2>2, EnterIInv DEF Timer, Early
<1>11. CASE int_handler \/ Unhandled \/ CallBeforeTable
  BY <1>11, StopIInv DEF int_handler, Unhandled, CallBeforeTable
<1>12. CASE irq_handler
  <2>1. /\ stub \in Stubs /\ stub.step = "ack" /\ stub' = [stub EXCEPT !.step = "call"]
    BY <1>1, <1>12 DEF Typed, irq_handler
  <2>2. /\ stub' \in Stubs /\ stub'.step = "call" /\ stub'.kind = stub.kind
        /\ stub'.line = stub.line /\ stub'.vec = stub.vec /\ stub'.no = stub.no
        /\ stub'.from = stub.from
    BY <2>1 DEF Stubs
  <2>3. isr' = {}
    <3>1. isr' = AckInt(stub.no)
      BY <1>12 DEF irq_handler
    <3>2. CASE stub.kind = "line"
      <4>1. stub.line \in Nat /\ isr = Service(stub.line)
        BY <1>1, <2>1, <3>2 DEF InService, Stubs
      <4>2. stub.no = 32 + stub.line
        BY <1>1, <3>2 DEF RequestsReachTheirHandler
      <4>3. stub.no \in Nat /\ stub.no >= 8
        BY <4>1, <4>2
      <4> QED
        BY <3>1, <4>1, <4>3, AckRetires
    <3>3. CASE stub.kind # "line"
      BY <1>1, <3>1, <3>3, AckNothing DEF InService
    <3> QED
      BY <3>2, <3>3
  <2>4. UNCHANGED <<at, arg, todo, handlers, base, mask, irr, intr, cpl, tss, halted>>
    BY <1>12 DEF irq_handler, ring
  <2>5. Typed'
    BY <1>1, <2>2, <2>4 DEF Typed
  <2>6. BootOrder' /\ OpenLinesHaveHandlers' /\ RequestsReachTheirHandler'
    BY <1>1, <2>1, <2>2, <2>4
       DEF BootOrder, Early, OpenLinesHaveHandlers, RequestsReachTheirHandler
  <2>7. InService' /\ RingsSound'
    BY <1>1, <2>1, <2>2, <2>3, <2>4 DEF InService, RingsSound
  <2> QED
    BY <2>5, <2>6, <2>7 DEF IInv
<1>13. Idle \in Stubs
  BY DEF Idle, Stubs
<1>14. CASE CallHandler
  <2>1. stub \in Stubs /\ cpl' = stub.from /\ intr' = stub.saved /\ stub' = Idle
        /\ UNCHANGED <<at, arg, todo, handlers, pic, tss, halted>>
        /\ halted = "no" /\ stub.step = "call"
    BY <1>1, <1>14 DEF Typed, CallHandler
  <2>2. cpl' \in {0, 3} /\ intr' \in BOOLEAN
    BY <2>1 DEF Stubs
  <2>3. Typed' /\ (cpl' = 3 => tss'.esp0)
    BY <1>1, <1>13, <2>1, <2>2 DEF Typed, RingsSound, pic
  <2> QED
    BY <2>1, <2>2, <2>3, LeaveIInv
<1>15. CASE SwitchThread
  <2>1. /\ cpl' \in {0, 3} /\ intr' \in BOOLEAN
    BY <1>15, SegmentRights DEF SwitchThread
  <2>2. /\ tss'.base = tss.base /\ tss'.ss0 = SEG_KERNEL_DATA /\ tss'.esp0 = TRUE
        /\ stub' = Idle /\ halted = "no" /\ stub.step = "call"
        /\ UNCHANGED <<at, arg, todo, handlers, pic, halted>>
    BY <1>15 DEF SwitchThread, SetTSS
  <2>3. Typed' /\ (cpl' = 3 => tss'.esp0)
    BY <1>1, <1>13, <2>1, <2>2 DEF Typed, pic
  <2> QED
    BY <2>1, <2>2, <2>3, LeaveIInv
<1>16. CASE Sti \/ Cli \/ NoInitrd
  <2>1. /\ intr' \in BOOLEAN /\ at \notin Early /\ halted' # "shutdown"
        /\ UNCHANGED <<at, arg, todo, handlers, base, mask, irr, isr, cpl, tss, stub>>
    BY <1>1, <1>16 DEF Sti, Cli, NoInitrd, InKernel, Running, pic, ring, Typed, Positions, Early
  <2>2. Typed' /\ BootOrder'
    BY <1>1, <2>1 DEF Typed, BootOrder, Early
  <2>3. OpenLinesHaveHandlers' /\ RequestsReachTheirHandler'
    BY <1>1, <2>1 DEF OpenLinesHaveHandlers, RequestsReachTheirHandler
  <2>4. InService' /\ RingsSound'
    BY <1>1, <2>1 DEF InService, RingsSound, Service, IsMaster
  <2> QED
    BY <2>2, <2>3, <2>4 DEF IInv
<1>17. CASE UserJump
  <2>1. /\ Running /\ at \notin Early /\ intr' = FALSE /\ cpl' = 3
        /\ isr' = EndMaster(isr)
        /\ UNCHANGED <<at, arg, todo, handlers, base, mask, irr, stub, halted>>
    BY <1>17, SegmentRights DEF UserJump, InKernel, Early
  <2>2. tss'.base = tss.base /\ tss'.ss0 = SEG_KERNEL_DATA /\ tss'.esp0 = TRUE
    BY <1>17 DEF UserJump, SetTSS
  <2>3. isr' = {} /\ stub.step = "idle" /\ stub.kind = "none"
    BY <1>2, <2>1, AckNothing
  <2>4. Typed' /\ BootOrder'
    BY <1>1, <2>1, <2>2 DEF Typed, BootOrder, Early
  <2>5. OpenLinesHaveHandlers' /\ RequestsReachTheirHandler'
    BY <1>1, <2>1 DEF OpenLinesHaveHandlers, RequestsReachTheirHandler
  <2>6. InService' /\ RingsSound'
    BY <1>1, <2>1, <2>2, <2>3 DEF InService, RingsSound
  <2> QED
    BY <2>4, <2>5, <2>6 DEF IInv
<1>18. CASE UNCHANGED vars
  BY <1>1, <1>18, StopIInv DEF vars, pic, ring, RingsSound
<1> QED
  BY <1>4, <1>5, <1>6, <1>7, <1>8, <1>9, <1>10, <1>11, <1>12, <1>14, <1>15, <1>16,
     <1>17, <1>18 DEF Next

-----------------------------------------------------------------------------
(* The invariant that the results below rest on holds throughout setup,    *)
(* interrupts and system calls.                                            *)
THEOREM InterruptsInvariant == Spec => []IInv
BY InitIInv, NextIInv, PTL DEF Spec

(* From RemapIRQs on, no line is open without a handler, at any point of   *)
(* an InstallHandler that runs with interrupts on.                         *)
THEOREM LinesOpenWithHandlers == Spec => []OpenLinesHaveHandlers
<1>1. IInv => OpenLinesHaveHandlers
  BY DEF IInv
<1> QED
  BY <1>1, InterruptsInvariant, PTL

(* No request of a device ends in int_handler or in "Unhandled IRQ".       *)
THEOREM DeviceRequestsFindHandlers == Spec => []RequestsReachTheirHandler
<1>1. IInv => RequestsReachTheirHandler
  BY DEF IInv
<1> QED
  BY <1>1, InterruptsInvariant, PTL

(* irq_handler leaves nothing in service on either controller, whatever    *)
(* mix of device, software and spurious interrupts came before.            *)
THEOREM AcknowledgeIsComplete == Spec => []NothingLeftInService
<1>1. IInv => NothingLeftInService
  BY DEF IInv, InService, NothingLeftInService
<1> QED
  BY <1>1, InterruptsInvariant, PTL

(* From ring 3 only int $0x80 reaches a handler by name, handlers run in   *)
(* ring 0, and the processor finds a stack, for every 32-bit address of    *)
(* the task state segment whose 20-bit limit does not wrap.                *)
THEOREM KernelEntryStaysSound == Spec => []KernelEntrySound
<1>1. IInv => KernelEntrySound
  BY DEF IInv, Typed, RingsSound, KernelEntrySound
<1> QED
  BY <1>1, InterruptsInvariant, PTL
=============================================================================
