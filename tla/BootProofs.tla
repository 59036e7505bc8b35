------------------------------ MODULE BootProofs ------------------------------
(***************************************************************************)
(* Proofs about the frame allocator and the boot code around it, for every *)
(* memory size, memory map and module the assumptions admit.               *)
(*                                                                         *)
(* The allocator decides by a counter, and the counter and the bits are    *)
(* changed without a look at each other.  What ties them together is how   *)
(* both were computed from the loader's report, so the invariant says what *)
(* the bits and the counter are at each stage in terms of that report:     *)
(* the frames marked when the kernel starts to run, plus the held ones.    *)
(***************************************************************************)
EXTENDS Boot, NatFacts, FiniteSetTheorems, TLAPS

Max(b) == b.memUpper \div BLOCK_SIZE
KernelFrames(b) == Visited(0, KernelSpan(b))
ModuleFrames(b) == Visited(b.initrd.base, InitrdSpan(b))

(* The bits that are one after each of the three steps that set them up.   *)
Marked0(b) == (AllUsedPattern(Max(b)) \ FreedBy(b)) \cup {0}
Marked1(b) == Marked0(b) \cup KernelFrames(b) \cup {0}
Marked2(b) == Marked1(b) \cup ModuleFrames(b) \cup {0}

(* The frames the counter promises when the kernel starts to run.          *)
Room(b) == Cardinality(FreedBy(b)) - Visits(KernelSpan(b)) - Visits(InitrdSpan(b))

Stages ==
  /\ boot \in Boots
  /\ stage \in {"boot", "initialised", "kernel reserved", "running"}
  /\ usedBlocks \in 0 .. (UintSpan - 1)
  /\ stage = "boot" => maximumBlocks = 0 /\ bits = {}
  /\ stage # "boot" => maximumBlocks = Max(boot)
  /\ stage # "running" => held = {}

SetUpBits ==
  /\ stage = "initialised" => bits = Marked0(boot)
  /\ stage = "kernel reserved" => bits = Marked1(boot)
  /\ stage = "running" => bits = Marked2(boot) \cup held
  /\ held \cap Marked2(boot) = {}
  /\ held \subseteq Nat /\ IsFiniteSet(held)

Count ==
  /\ stage = "initialised" => FreeBlocks = Cardinality(FreedBy(boot))
  /\ boot.mods_count > 0 =>
       /\ stage = "kernel reserved" =>
            FreeBlocks = Cardinality(FreedBy(boot)) - Visits(KernelSpan(boot))
       /\ stage = "running" =>
            Cardinality(held) <= Room(boot) /\ FreeBlocks = Room(boot) - Cardinality(held)

PhysInv == Stages /\ SetUpBits /\ Count /\ OnlyAvailableFrames

-----------------------------------------------------------------------------
(* Remainder of a number below twice the divisor.                          *)
LEMMA ModTwice ==
  ASSUME NEW d \in Nat \ {0}, NEW n \in 0 .. (2 * d - 1)
  PROVE  n % d = IF n < d THEN n ELSE n - d
<1>1. CASE n < d
  BY <1>1, SmallMod
<1>2. CASE ~(n < d)
  <2>1. 1 \in Nat /\ n - d \in 0 .. (d - 1) /\ n = d * 1 + (n - d) /\ n \in Nat
    BY <1>2
  <2> QED BY <1>2, <2>1, QuotientUnique
<1> QED BY <1>1, <1>2

(* The unsigned counter, down.                                             *)
LEMMA MinusIs ==
  ASSUME NEW n \in 0 .. (UintSpan - 1), NEW k \in 0 .. (UintSpan - 1)
  PROVE  /\ Minus(n, k) = IF k <= n THEN n - k ELSE n + UintSpan - k
         /\ Minus(n, k) \in 0 .. (UintSpan - 1)
<1> DEFINE d == UintSpan
           m == n + d - k
<1>1. d \in Nat \ {0}
  BY PhysAssumption
<1>2. k % d = k
  BY <1>1, SmallMod
<1>3. m \in 0 .. (2 * d - 1) /\ Minus(n, k) = m % d
  BY <1>1, <1>2 DEF Minus
<1> HIDE DEF m, d
<1>4. m % d = IF m < d THEN m ELSE m - d
  BY <1>1, <1>3, ModTwice
<1> QED BY <1>1, <1>3, <1>4 DEF m, d

(* The unsigned counter, up.                                               *)
LEMMA PlusIs ==
  ASSUME NEW n \in 0 .. (UintSpan - 1), NEW k \in 0 .. (UintSpan - 1)
  PROVE  /\ Plus(n, k) = IF n + k < UintSpan THEN n + k ELSE n + k - UintSpan
         /\ Plus(n, k) \in 0 .. (UintSpan - 1)
<1> DEFINE d == UintSpan
           m == n + k
<1>1. d \in Nat \ {0}
  BY PhysAssumption
<1>3. m \in 0 .. (2 * d - 1) /\ Plus(n, k) = m % d
  BY <1>1 DEF Plus
<1> HIDE DEF m, d
<1>4. m % d = IF m < d THEN m ELSE m - d
  BY <1>1, <1>3, ModTwice
<1> QED BY <1>1, <1>3, <1>4 DEF m, d

(* Counting k frames as used takes k from the free ones, if there are k.   *)
LEMMA PlusLowers ==
  ASSUME NEW m \in 0 .. (UintSpan - 1), NEW n \in 0 .. (UintSpan - 1),
         NEW k \in Nat, k <= Minus(m, n)
  PROVE  /\ Minus(m, Plus(n, k)) = Minus(m, n) - k
         /\ Plus(n, k) \in 0 .. (UintSpan - 1)
<1>1. UintSpan \in Nat \ {0}
  BY PhysAssumption
<1>2. /\ Minus(m, n) = IF n <= m THEN m - n ELSE m + UintSpan - n
      /\ Minus(m, n) \in 0 .. (UintSpan - 1)
  BY MinusIs
<1>3. k \in 0 .. (UintSpan - 1)
  BY <1>1, <1>2
<1> DEFINE p == Plus(n, k)
<1>4. /\ p = IF n + k < UintSpan THEN n + k ELSE n + k - UintSpan
      /\ p \in 0 .. (UintSpan - 1)
  BY <1>3, PlusIs
<1> HIDE DEF p
<1>5. Minus(m, p) = IF p <= m THEN m - p ELSE m + UintSpan - p
  BY <1>4, MinusIs
<1> QED BY <1>1, <1>2, <1>3, <1>4, <1>5 DEF p

(* Counting one frame less as used makes one more free.                    *)
LEMMA MinusRaises ==
  ASSUME NEW m \in 0 .. (UintSpan - 1), NEW n \in 0 .. (UintSpan - 1),
         Minus(m, n) + 1 < UintSpan
  PROVE  /\ Minus(m, Minus(n, 1)) = Minus(m, n) + 1
         /\ Minus(n, 1) \in 0 .. (UintSpan - 1)
<1>1. UintSpan \in Nat \ {0}
  BY PhysAssumption
<1>2. /\ Minus(m, n) = IF n <= m THEN m - n ELSE m + UintSpan - n
      /\ Minus(m, n) \in 0 .. (UintSpan - 1)
  BY MinusIs
<1>3. 1 \in 0 .. (UintSpan - 1)
  BY <1>1, <1>2
<1> DEFINE p == Minus(n, 1)
<1>4. /\ p = IF 1 <= n THEN n - 1 ELSE n + UintSpan - 1
      /\ p \in 0 .. (UintSpan - 1)
  BY <1>3, MinusIs
<1> HIDE DEF p
<1>5. Minus(m, p) = IF p <= m THEN m - p ELSE m + UintSpan - p
  BY <1>4, MinusIs
<1> QED BY <1>1, <1>2, <1>4, <1>5 DEF p

(* What the map frees, MarkFree takes off the counter.                     *)
LEMMA MinusMinus ==
  ASSUME NEW m \in 0 .. (UintSpan - 1), NEW k \in 0 .. (UintSpan - 1)
  PROVE  Minus(m, Minus(m, k)) = k /\ Minus(m, k) \in 0 .. (UintSpan - 1)
<1>1. UintSpan \in Nat \ {0}
  BY PhysAssumption
<1> DEFINE p == Minus(m, k)
<1>2. p = (IF k <= m THEN m - k ELSE m + UintSpan - k) /\ p \in 0 .. (UintSpan - 1)
  BY MinusIs
<1> HIDE DEF p
<1>3. Minus(m, p) = IF p <= m THEN m - p ELSE m + UintSpan - p
  BY <1>2, MinusIs
<1> QED BY <1>1, <1>2, <1>3 DEF p
-----------------------------------------------------------------------------
(* A number of bytes and its whole frames.                                 *)
LEMMA Whole ==
  ASSUME NEW n \in Nat
  PROVE  /\ n \div BLOCK_SIZE \in Nat
         /\ (n \div BLOCK_SIZE) * BLOCK_SIZE <= n
         /\ n < (n \div BLOCK_SIZE) * BLOCK_SIZE + BLOCK_SIZE
         /\ n \div BLOCK_SIZE <= n
         /\ n % BLOCK_SIZE = 0 => (n \div BLOCK_SIZE) * BLOCK_SIZE = n
<1> DEFINE d == BLOCK_SIZE
           q == n \div d
           r == n % d
<1>1. d \in Nat \ {0}
  BY PhysAssumption
<1>2. q \in Nat /\ r \in 0 .. (d - 1) /\ n = d * q + r
  BY <1>1, DivMod
<1> HIDE DEF q, r, d
<1>3. d * q = q * d /\ d * q \in Nat /\ q <= q * d
  BY <1>1, <1>2
<1> QED BY <1>1, <1>2, <1>3 DEF q, r, d

(* Frames compare as their addresses do.                                   *)
LEMMA Scaled ==
  ASSUME NEW f \in Nat, NEW g \in Nat
  PROVE  /\ f <= g => f * BLOCK_SIZE <= g * BLOCK_SIZE
         /\ f * BLOCK_SIZE < g * BLOCK_SIZE => f < g
         /\ f * BLOCK_SIZE \in Nat /\ (f + 1) * BLOCK_SIZE = f * BLOCK_SIZE + BLOCK_SIZE
<1> DEFINE d == BLOCK_SIZE
<1>1. d \in Nat \ {0}
  BY PhysAssumption
<1> HIDE DEF d
<1>2. f <= g => f * d <= g * d
  <2>1. SUFFICES ASSUME f <= g PROVE f * d <= g * d
    OBVIOUS
  <2>2. PICK k \in Nat : g = f + k
    <3>1. g - f \in Nat /\ g = f + (g - f)
      BY <2>1
    <3> QED BY <3>1
  <2>3. g * d = f * d + k * d /\ k * d \in Nat /\ f * d \in Nat
    BY <1>1, <2>2
  <2> QED BY <2>3
<1>3. g <= f => g * d <= f * d
  <2>1. SUFFICES ASSUME g <= f PROVE g * d <= f * d
    OBVIOUS
  <2>2. PICK k \in Nat : f = g + k
    <3>1. f - g \in Nat /\ f = g + (f - g)
      BY <2>1
    <3> QED BY <3>1
  <2>3. f * d = g * d + k * d /\ k * d \in Nat /\ g * d \in Nat
    BY <1>1, <2>2
  <2> QED BY <2>3
<1>4. f * d \in Nat /\ g * d \in Nat /\ (f + 1) * d = f * d + d
  BY <1>1
<1> QED BY <1>2, <1>3, <1>4 DEF d

(* The frames a loop over whole frames visits end with the bytes it is     *)
(* given.                                                                  *)
LEMMA VisitedEnds ==
  ASSUME NEW base \in Nat, NEW end \in Nat, base <= end,
         NEW f \in Visited(base, end - base)
  PROVE  /\ f \in Nat /\ base \div BLOCK_SIZE <= f
         /\ (f + 1) * BLOCK_SIZE <= end
<1> DEFINE d == BLOCK_SIZE
           size == end - base
           q == base \div d
           w == size \div d
<1>1. d \in Nat \ {0} /\ size \in Nat /\ base + size = end
  BY PhysAssumption
<1> HIDE DEF size
<1>2. q \in Nat /\ q * d <= base /\ w \in Nat /\ w * d <= size
  BY <1>1, Whole
<1>3. f \in q .. (q + w - 1)
  BY DEF Visited, size
<1> HIDE DEF q, w
<1>4. f \in Nat /\ q <= f /\ f + 1 <= q + w
  BY <1>2, <1>3
<1>5. (f + 1) * d <= (q + w) * d
  BY <1>2, <1>4, Scaled
<1>6. (q + w) * d = q * d + w * d /\ q * d \in Nat /\ w * d \in Nat /\ (f + 1) * d \in Nat
  BY <1>1, <1>2, <1>4
<1> QED BY <1>1, <1>2, <1>4, <1>5, <1>6 DEF q

(* What follows from a loader's report: sizes are words of 32 bits, and    *)
(* the first reservation is a whole number of frames, at least one.        *)
LEMMA ReportFacts ==
  ASSUME NEW b \in Boots
  PROVE  /\ Max(b) \in 0 .. (UintSpan - 1)
         /\ BitmapSize(b) \in Nat
         /\ KernelSpan(b) \in 1 .. (UintSpan - 1)
         /\ LowMem + BitmapSize(b) <= KernelSpan(b)
         /\ Visits(KernelSpan(b)) \in 1 .. (UintSpan - 1)
         /\ Visits(KernelSpan(b)) * BLOCK_SIZE = KernelSpan(b)
         /\ KernelFrames(b) = 0 .. (Visits(KernelSpan(b)) - 1)
         /\ InitrdSpan(b) \in 0 .. (UintSpan - 1)
         /\ Visits(InitrdSpan(b)) \in 0 .. (UintSpan - 1)
<1> DEFINE d == BLOCK_SIZE
           U == UintSpan
           m == Max(b)
           bm == BitmapSize(b)
           a == LowMem + bm
           k == KernelSpan(b)
           v == Visits(k)
           i == InitrdSpan(b)
<1>1. /\ d \in Nat \ {0} /\ U \in Nat \ {0} /\ LowMem \in Nat \ {0}
      /\ b.memUpper \in 1 .. (U - 1) /\ BLOCKS_PER_BYTE \in Nat \ {0}
  BY PhysAssumption
<1>2. /\ k < U
      /\ b.initrd.base \in 0 .. (U - 1) /\ b.initrd.end \in 0 .. (U - 1)
  BY ReportAssumption
<1>3. m \in 0 .. (U - 1)
  <2>1. b.memUpper \in Nat
    BY <1>1
  <2>2. m \in Nat /\ m <= b.memUpper
    BY <2>1, Whole DEF Max
  <2> HIDE DEF m
  <2> QED BY <1>1, <2>2
<1>4. bm \in Nat
  <2>1. bm = m \div BLOCKS_PER_BYTE
    BY DEF BitmapSize, Max
  <2>2. m \in Nat /\ BLOCKS_PER_BYTE \in Nat \ {0}
    BY <1>1, <1>3
  <2> HIDE DEF m, bm
  <2>3. m \div BLOCKS_PER_BYTE \in Nat
    BY <2>2, DivMod
  <2> QED BY <2>1, <2>3
<1> HIDE DEF m, bm
<1>5. a \in Nat \ {0}
  BY <1>1, <1>4
<1>6. a % d \in 0 .. (d - 1) /\ k = IF a % d # 0 THEN a - (a % d) + d ELSE a
  <2>1. LowMem + kernel_size + bm = a
    BY <1>1, <1>4 DEF kernel_size
  <2> HIDE DEF a
  <2>2. k = PageRoundUp(a)
    BY <2>1 DEF KernelSpan, bm
  <2>3. a % d \in 0 .. (d - 1)
    BY <1>1, <1>5, DivMod
  <2> QED BY <2>2, <2>3 DEF PageRoundUp
<1> HIDE DEF k
<1>7. k \in Nat /\ a <= k /\ k >= 1
  <2> HIDE DEF a, d
  <2> DEFINE r == a % d
  <2>1. r \in 0 .. (d - 1) /\ k = IF r # 0 THEN a - r + d ELSE a
    BY <1>6
  <2>2. r <= a
    <3>1. a \div d \in Nat /\ a = d * (a \div d) + r
      BY <1>1, <1>5, DivMod
    <3>2. d * (a \div d) \in Nat
      BY <1>1, <3>1
    <3> HIDE DEF r
    <3> QED BY <3>1, <3>2, <2>1, <1>1
  <2> HIDE DEF r
  <2> QED BY <1>1, <1>5, <2>1, <2>2
<1>8. v \in Nat /\ v * d = k
  <2>1. \E q \in Nat : k = d * q
    <3> DEFINE q == a \div d
               r == a % d
    <3>1. q \in Nat /\ a = d * q + r /\ r \in 0 .. (d - 1)
      BY <1>1, <1>5, DivMod
    <3>2. k = IF r # 0 THEN a - r + d ELSE a
      BY <1>6
    <3> HIDE DEF q, r, a, d
    <3>3. d * q \in Nat /\ d * (q + 1) = d * q + d
      BY <1>1, <3>1
    <3>4. CASE r # 0
      <4>1. k = d * (q + 1)
        BY <1>1, <3>1, <3>2, <3>3, <3>4
      <4> QED BY <3>1, <4>1
    <3>5. CASE r = 0
      <4>1. k = d * q
        BY <1>1, <3>1, <3>2, <3>3, <3>5
      <4> QED BY <3>1, <4>1
    <3> QED BY <3>4, <3>5
  <2>2. PICK q \in Nat : k = d * q
    BY <2>1
  <2>3. 0 \in 0 .. (d - 1) /\ k = d * q + 0
    BY <1>1, <1>7, <2>2
  <2>4. k \div d = q
    <3> HIDE DEF d
    <3> QED BY <1>1, <1>7, <2>3, QuotientUnique
  <2>5. v = q
    BY <2>4 DEF Visits
  <2> HIDE DEF v, d
  <2> QED BY <1>1, <2>2, <2>5
<1>9. v \in 1 .. (U - 1)
  <2>1. v <= k
    BY <1>7, Whole DEF Visits
  <2> HIDE DEF v, d, U
  <2>2. v # 0
    BY <1>7, <1>8, <1>1
  <2> QED BY <1>1, <1>2, <1>7, <1>8, <2>1, <2>2
<1>10. KernelFrames(b) = 0 .. (v - 1)
  <2>1. 0 \div d = 0
    BY <1>1
  <2>2. KernelFrames(b) = (0 \div d) .. ((0 \div d) + (k \div d) - 1)
    BY DEF KernelFrames, Visited, k
  <2>3. v = k \div d
    BY DEF Visits
  <2> HIDE DEF v
  <2> QED BY <1>9, <2>1, <2>2, <2>3
<1>11. i \in 0 .. (U - 1)
  BY <1>2, MinusIs DEF InitrdSpan
<1>12. Visits(i) \in 0 .. (U - 1)
  <2>1. i \in Nat
    BY <1>1, <1>11
  <2> HIDE DEF i
  <2>2. Visits(i) \in Nat /\ Visits(i) <= i
    BY <2>1, Whole DEF Visits
  <2> QED BY <1>1, <1>11, <2>1, <2>2
<1>13. k \in 1 .. (U - 1)
  BY <1>1, <1>2, <1>7
<1> HIDE DEF v, i, U, a
<1> QED BY <1>3, <1>4, <1>7, <1>8, <1>9, <1>10, <1>11, <1>12, <1>13 DEF m, bm, k, v, i, U, a

(* The frames the memory map frees are finitely many, fewer than the       *)
(* counter can hold.                                                       *)
LEMMA FreedFinite ==
  ASSUME NEW b \in Boots
  PROVE  /\ FreedBy(b) \subseteq Nat
         /\ IsFiniteSet(FreedBy(b))
         /\ Cardinality(FreedBy(b)) \in 0 .. (UintSpan - 1)
<1> DEFINE d == BLOCK_SIZE
           U == UintSpan
           F == FreedBy(b)
<1>1. d \in Nat /\ d > 1 /\ U \in Nat \ {0}
  BY PhysAssumption, ReportAssumption
<1>2. ASSUME NEW f \in F PROVE f \in Nat /\ f <= U - 2
  <2>1. PICK r \in AvailableIn(b) : f \in Visited(r.base, r.end - r.base)
    BY <1>2 DEF FreedBy
  <2>2. r.base \in Nat /\ r.end \in r.base .. U
    BY <2>1, ReportAssumption DEF AvailableIn
  <2>3. r.base \in Nat /\ r.end \in Nat /\ r.base <= r.end /\ r.end <= U
    BY <1>1, <2>2
  <2>4. f \in Nat /\ (f + 1) * d <= r.end
    BY <2>1, <2>3, VisitedEnds
  <2> HIDE DEF d, U
  <2>5. (f + 1) * d >= (f + 1) * 2 /\ (f + 1) * d \in Nat
    <3>1. d - 2 \in Nat /\ (f + 1) * d = (f + 1) * (d - 2) + (f + 1) * 2
          /\ (f + 1) * (d - 2) \in Nat
      BY <1>1, <2>4
    <3> QED BY <3>1, <2>4
  <2> QED BY <1>1, <2>3, <2>4, <2>5
<1> HIDE DEF F
<1>3. F = {} => IsFiniteSet(F) /\ Cardinality(F) = 0
  BY FS_EmptySet
<1>4. F # {} => IsFiniteSet(F) /\ Cardinality(F) <= (U - 2) + 1
  <2>1. SUFFICES ASSUME F # {} PROVE IsFiniteSet(F) /\ Cardinality(F) <= (U - 2) + 1
    OBVIOUS
  <2>2. U - 2 \in Nat
    BY <2>1, <1>1, <1>2
  <2>3. F \in SUBSET Nat /\ \A f \in F : f <= U - 2
    BY <1>2
  <2> DEFINE n == U - 2
  <2> HIDE DEF n
  <2>4. n \in Nat /\ \A f \in F : f <= n
    BY <2>2, <2>3 DEF n
  <2>5. IsFiniteSet(F) /\ Cardinality(F) \leq n + 1
    BY <2>3, <2>4, FS_BoundedSetOfNaturals
  <2> QED BY <2>5 DEF n
<1>5. IsFiniteSet(F)
  BY <1>3, <1>4
<1>6. Cardinality(F) \in Nat
  BY <1>5, FS_CardinalityType
<1> QED BY <1>1, <1>2, <1>3, <1>4, <1>5, <1>6 DEF F
-----------------------------------------------------------------------------
(* A union is no larger than its parts together.                           *)
LEMMA UnionBound ==
  ASSUME NEW A, NEW B, IsFiniteSet(A), IsFiniteSet(B)
  PROVE  /\ IsFiniteSet(A \cup B) /\ Cardinality(A \cup B) \in Nat
         /\ Cardinality(A \cup B) <= Cardinality(A) + Cardinality(B)
<1>1. /\ IsFiniteSet(A \cup B) /\ IsFiniteSet(A \cap B)
      /\ Cardinality(A \cup B) = Cardinality(A) + Cardinality(B) - Cardinality(A \cap B)
  BY FS_Union, FS_Intersection
<1>2. /\ Cardinality(A) \in Nat /\ Cardinality(B) \in Nat /\ Cardinality(A \cap B) \in Nat
      /\ Cardinality(A \cup B) \in Nat
  BY <1>1, FS_CardinalityType
<1> QED BY <1>1, <1>2

(* Frames visited by MarkUsed for the module are no more than it counts.   *)
LEMMA ModuleCount ==
  ASSUME NEW b \in Boots
  PROVE  /\ ModuleFrames(b) \subseteq Nat /\ IsFiniteSet(ModuleFrames(b))
         /\ Cardinality(ModuleFrames(b)) = Visits(InitrdSpan(b))
<1> DEFINE q == b.initrd.base \div BLOCK_SIZE
           v == Visits(InitrdSpan(b))
<1>1. b.initrd.base \in Nat
  BY ReportAssumption
<1>2. q \in Nat
  BY <1>1, Whole
<1>3. v \in Nat
  BY ReportFacts
<1>4. ModuleFrames(b) = q .. (q + v - 1)
  BY DEF ModuleFrames, Visited, Visits
<1> HIDE DEF q, v
<1>5. q \in Int /\ q + v - 1 \in Int
  BY <1>2, <1>3
<1> DEFINE e == q + v - 1
<1>6. e \in Int /\ ModuleFrames(b) = q .. e
  BY <1>4, <1>5
<1> HIDE DEF e
<1>7. IsFiniteSet(q .. e) /\ Cardinality(q .. e) = IF q > e THEN 0 ELSE e - q + 1
  BY <1>5, <1>6, FS_Interval
<1>8. Cardinality(q .. e) = v
  BY <1>2, <1>3, <1>7 DEF e
<1>9. q .. e \subseteq Nat
  BY <1>2, <1>6
<1> QED BY <1>6, <1>7, <1>8, <1>9 DEF v

(* The kernel's frames are as many as MarkUsed counts.                     *)
LEMMA KernelCount ==
  ASSUME NEW b \in Boots
  PROVE  /\ KernelFrames(b) \subseteq Nat /\ IsFiniteSet(KernelFrames(b))
         /\ Cardinality(KernelFrames(b)) = Visits(KernelSpan(b))
<1> DEFINE v == Visits(KernelSpan(b))
           e == v - 1
<1>1. v \in Nat \ {0} /\ KernelFrames(b) = 0 .. (v - 1)
  BY ReportFacts
<1> HIDE DEF v
<1>2. e \in Int /\ 0 \in Int /\ KernelFrames(b) = 0 .. e /\ e >= 0 /\ e - 0 + 1 = v
  BY <1>1
<1> HIDE DEF e
<1>3. IsFiniteSet(0 .. e) /\ Cardinality(0 .. e) = IF 0 > e THEN 0 ELSE e - 0 + 1
  BY <1>2, FS_Interval
<1> QED BY <1>2, <1>3 DEF v

(* Of the frames the map freed, the bits that are one when the kernel runs *)
(* are reserved or held.                                                   *)
LEMMA FreedMarked ==
  ASSUME NEW b \in Boots, NEW h
  PROVE  FreedBy(b) \cap (Marked2(b) \cup h) \subseteq KernelFrames(b) \cup ModuleFrames(b) \cup h
<1>1. 0 \in KernelFrames(b)
  <2> DEFINE v == Visits(KernelSpan(b))
  <2>1. v \in Nat \ {0} /\ KernelFrames(b) = 0 .. (v - 1)
    BY ReportFacts
  <2> HIDE DEF v
  <2> QED BY <2>1
<1> QED BY <1>1 DEF Marked2, Marked1, Marked0

(* The counter never promises more than there is, for any set of frames    *)
(* held within the room.                                                   *)
LEMMA RoomConservative ==
  ASSUME NEW b \in Boots, NEW h, IsFiniteSet(h)
  PROVE  /\ IsFiniteSet(FreedBy(b) \ (Marked2(b) \cup h))
         /\ Room(b) - Cardinality(h) <= Cardinality(FreedBy(b) \ (Marked2(b) \cup h))
<1> DEFINE F == FreedBy(b)
           K == KernelFrames(b)
           I == ModuleFrames(b)
           M == Marked2(b) \cup h
           C == F \ M
<1>1. IsFiniteSet(F) /\ IsFiniteSet(K) /\ IsFiniteSet(I)
  BY FreedFinite, KernelCount, ModuleCount
<1>2. F \cap M \subseteq (K \cup I) \cup h
  BY FreedMarked
<1>3. /\ Cardinality(K) = Visits(KernelSpan(b)) /\ Cardinality(I) = Visits(InitrdSpan(b))
  BY KernelCount, ModuleCount
<1> HIDE DEF F, K, I, M
<1>4. /\ Cardinality(F) \in Nat /\ Cardinality(K) \in Nat /\ Cardinality(I) \in Nat
      /\ Cardinality(h) \in Nat
  BY <1>1, FS_CardinalityType
<1>5. IsFiniteSet(C) /\ Cardinality(C) \in Nat
  <2>1. C \in SUBSET F
    OBVIOUS
  <2> HIDE DEF C
  <2> QED BY <1>1, <2>1, FS_Subset, FS_CardinalityType
<1> HIDE DEF C
<1>6. /\ IsFiniteSet(K \cup I) /\ Cardinality(K \cup I) \in Nat
      /\ Cardinality(K \cup I) <= Cardinality(K) + Cardinality(I)
  BY <1>1, UnionBound
<1> DEFINE J == K \cup I
<1> HIDE DEF J
<1>7. /\ IsFiniteSet(J \cup h) /\ Cardinality(J \cup h) \in Nat
      /\ Cardinality(J \cup h) <= Cardinality(J) + Cardinality(h)
  BY <1>6, UnionBound DEF J
<1> DEFINE L == J \cup h
<1> HIDE DEF L
<1>8. Cardinality(L \cup C) <= Cardinality(L) + Cardinality(C) /\ IsFiniteSet(L \cup C)
      /\ Cardinality(L \cup C) \in Nat
  BY <1>5, <1>7, UnionBound DEF L
<1>9. F \in SUBSET (L \cup C)
  BY <1>2 DEF C, L, J
<1>10. Cardinality(F) <= Cardinality(L \cup C)
  BY <1>8, <1>9, FS_Subset
<1>11. Cardinality(F) - Cardinality(K) - Cardinality(I) - Cardinality(h) <= Cardinality(C)
  BY <1>4, <1>5, <1>6, <1>7, <1>8, <1>10 DEF L, J
<1> QED BY <1>3, <1>5, <1>11 DEF Room, C, F, M
-----------------------------------------------------------------------------
(* The counts of a report as numbers.                                      *)
LEMMA ReportNumbers ==
  ASSUME NEW b \in Boots
  PROVE  /\ Visits(KernelSpan(b)) \in Nat /\ Visits(InitrdSpan(b)) \in Nat
         /\ Cardinality(FreedBy(b)) \in Nat
         /\ Room(b) \in Int /\ Room(b) < UintSpan
<1> DEFINE v == Visits(KernelSpan(b))
           i == Visits(InitrdSpan(b))
           c == Cardinality(FreedBy(b))
<1>1. v \in 1 .. (UintSpan - 1) /\ i \in 0 .. (UintSpan - 1)
  BY ReportFacts
<1>2. c \in 0 .. (UintSpan - 1)
  BY FreedFinite
<1>3. Room(b) = c - v - i
  BY DEF Room
<1> HIDE DEF v, i, c
<1>4. UintSpan \in Nat
  BY PhysAssumption
<1>5. v \in Nat /\ i \in Nat /\ c \in Nat
  BY <1>1, <1>2, <1>4
<1>6. Room(b) \in Int /\ Room(b) < UintSpan
  BY <1>1, <1>2, <1>3, <1>4
<1> QED BY <1>5, <1>6 DEF v, i, c

(* FirstFree yields a clear bit.                                           *)
LEMMA FirstFreeClear ==
  ASSUME Stages, stage = "running", NEW f \in FirstFree
  PROVE  f \in Nat /\ f \notin bits
<1> DEFINE w == WordsWritten(maximumBlocks)
<1>1. maximumBlocks \in Nat /\ WordBits \in Nat \ {0} /\ BLOCKS_PER_BYTE \in Nat \ {0}
  BY ReportFacts, PhysAssumption DEF Stages
<1>2. w \in Nat
  BY <1>1, DivMod DEF WordsWritten
<1> HIDE DEF w
<1>3. w * WordBits \in Nat
  BY <1>1, <1>2
<1>4. Written \subseteq Nat /\ Unwritten \subseteq Nat
  BY <1>3 DEF Written, Unwritten, w
<1> QED BY <1>4 DEF FirstFree

(* While the counter promises a frame, a bit of the one region of memory   *)
(* above the megabyte is clear, among the words that Init has written.     *)
LEMMA UpperFrameClear ==
  ASSUME PhysInv, stage = "running", OneUpperRegion, boot.mods_count > 0, MayAllocate
  PROVE  \E r \in Available, g \in Written \ bits :
           r.base = LowMem /\ r.end \in Nat /\ (g + 1) * BLOCK_SIZE <= r.end
<1> DEFINE d == BLOCK_SIZE
           F == FreedBy(boot)
           v == Visits(KernelSpan(boot))
           top == WordsWritten(maximumBlocks) * WordBits
<1>1. /\ boot \in Boots /\ maximumBlocks = Max(boot)
      /\ bits = Marked2(boot) \cup held /\ IsFiniteSet(held)
      /\ FreeBlocks = Room(boot) - Cardinality(held) /\ Cardinality(held) <= Room(boot)
  BY DEF PhysInv, Stages, SetUpBits, Count
<1>2. d \in Nat \ {0} /\ LowMem \in Nat \ {0} /\ LowMem % d = 0
  BY PhysAssumption, ReportAssumption
<1>3. v \in Nat \ {0} /\ LowMem <= v * d /\ 0 .. (v - 1) \subseteq bits
  <2>1. /\ v \in 1 .. (UintSpan - 1) /\ KernelFrames(boot) = 0 .. (v - 1)
        /\ v * d = KernelSpan(boot)
        /\ BitmapSize(boot) \in Nat /\ LowMem + BitmapSize(boot) <= KernelSpan(boot)
        /\ KernelSpan(boot) \in 1 .. (UintSpan - 1)
    BY <1>1, ReportFacts
  <2>2. KernelFrames(boot) \subseteq bits
    BY <1>1 DEF Marked2, Marked1
  <2> HIDE DEF v, d
  <2>3. v \in Nat \ {0}
    BY <2>1
  <2>4. LowMem <= v * d
    BY <2>1, <1>2
  <2> QED BY <2>1, <2>2, <2>3, <2>4
<1> HIDE DEF v
<1>4. PICK g \in F : g \notin bits
  <2> DEFINE C == F \ (Marked2(boot) \cup held)
  <2>1. Room(boot) - Cardinality(held) <= Cardinality(C) /\ IsFiniteSet(C)
    BY <1>1, RoomConservative
  <2>2. Room(boot) - Cardinality(held) # 0
    BY <1>1 DEF MayAllocate
  <2>3. Cardinality(held) \in Nat /\ Cardinality(C) \in Nat /\ Room(boot) \in Int
    <3>1. /\ Cardinality(F) \in Nat /\ Visits(KernelSpan(boot)) \in Nat
          /\ Visits(InitrdSpan(boot)) \in Nat
      BY <1>1, FreedFinite, ReportFacts
    <3>2. Room(boot) \in Int
      BY <3>1 DEF Room
    <3> HIDE DEF C
    <3> QED BY <1>1, <2>1, <3>2, FS_CardinalityType
  <2> HIDE DEF C, F
  <2>4. Cardinality(C) # 0
    BY <1>1, <2>1, <2>2, <2>3
  <2>5. C # {}
    BY <2>4, FS_EmptySet
  <2> QED BY <2>5, <1>1 DEF C
<1>5. PICK r \in Available : g \in Visited(r.base, r.end - r.base)
  BY <1>4 DEF FreedBy, Available
<1>6. r.base \in Nat /\ r.end \in Nat /\ r.base <= r.end
  <2>1. r.base \in Nat /\ r.end \in r.base .. UintSpan
    BY <1>1, <1>5, ReportAssumption DEF Available, AvailableIn
  <2> QED BY <2>1, PhysAssumption
<1>7. g \in Nat /\ (g + 1) * d <= r.end
  BY <1>5, <1>6, VisitedEnds
<1>8. v <= g
  BY <1>3, <1>4, <1>7
<1>9. r.base = LowMem
  <2>1. v * d <= g * d /\ g * d \in Nat /\ (g + 1) * d = g * d + d /\ v * d \in Nat
    BY <1>3, <1>7, <1>8, Scaled
  <2> HIDE DEF d
  <2>2. LowMem < r.end
    BY <1>2, <1>3, <1>6, <1>7, <2>1
  <2> QED BY <1>5, <2>2 DEF OneUpperRegion
<1>10. r.end <= top * d
  BY <1>1, <1>5, <1>9, ReportAssumption DEF Available, Max
<1>11. top \in Nat
  <2>1. maximumBlocks \in Nat /\ WordBits \in Nat \ {0} /\ BLOCKS_PER_BYTE \in Nat \ {0}
    BY <1>1, ReportFacts, PhysAssumption
  <2> DEFINE w == WordsWritten(maximumBlocks)
  <2>2. w \in Nat
    BY <2>1, DivMod DEF WordsWritten
  <2> HIDE DEF w
  <2>3. w * WordBits \in Nat
    BY <2>1, <2>2
  <2> QED BY <2>3 DEF w
<1> HIDE DEF top
<1>12. g < top
  <2>1. g * d \in Nat /\ (g + 1) * d = g * d + d /\ top * d \in Nat
    BY <1>7, <1>11, Scaled
  <2>2. g * d < top * d
    <3> HIDE DEF d
    <3> QED BY <1>2, <1>6, <1>7, <1>10, <2>1
  <2> QED BY <1>7, <1>11, <2>2, Scaled
<1>13. g \in Written \ bits
  BY <1>4, <1>7, <1>11, <1>12 DEF Written, top
<1> QED BY <1>5, <1>6, <1>7, <1>9, <1>13

(* So the first clear bit is a frame of that region.                       *)
LEMMA FirstFreeAvailable ==
  ASSUME PhysInv, stage = "running", OneUpperRegion, boot.mods_count > 0, MayAllocate,
         NEW f \in FirstFree
  PROVE  /\ LowMem <= f * BLOCK_SIZE
         /\ \E r \in Available : r.base <= f * BLOCK_SIZE /\ (f + 1) * BLOCK_SIZE <= r.end
<1> DEFINE d == BLOCK_SIZE
           v == Visits(KernelSpan(boot))
<1>1. PICK r \in Available, g \in Written \ bits :
        r.base = LowMem /\ r.end \in Nat /\ (g + 1) * d <= r.end
  BY UpperFrameClear
<1>2. d \in Nat \ {0} /\ LowMem \in Nat
  BY PhysAssumption
<1>3. v \in Nat \ {0} /\ LowMem <= v * d /\ 0 .. (v - 1) \subseteq bits
  <2>1. boot \in Boots /\ bits = Marked2(boot) \cup held
    BY DEF PhysInv, Stages, SetUpBits
  <2>2. /\ v \in 1 .. (UintSpan - 1) /\ KernelFrames(boot) = 0 .. (v - 1)
        /\ v * d = KernelSpan(boot)
        /\ BitmapSize(boot) \in Nat /\ LowMem + BitmapSize(boot) <= KernelSpan(boot)
        /\ KernelSpan(boot) \in 1 .. (UintSpan - 1)
    BY <2>1, ReportFacts
  <2>3. KernelFrames(boot) \subseteq bits
    BY <2>1 DEF Marked2, Marked1
  <2> HIDE DEF v, d
  <2> QED BY <2>2, <2>3, <1>2
<1> HIDE DEF v
<1>4. f \in Written \ bits /\ f <= g
  BY <1>1 DEF FirstFree
<1>5. f \in Nat /\ g \in Nat /\ v <= f
  <2>1. f \in Nat
    BY FirstFreeClear DEF PhysInv
  <2>2. g \in Nat
    BY <1>1 DEF Written
  <2> QED BY <1>3, <1>4, <2>1, <2>2
<1>6. v * d <= f * d /\ (f + 1) * d <= (g + 1) * d
      /\ v * d \in Nat /\ f * d \in Nat /\ (f + 1) * d \in Nat /\ (g + 1) * d \in Nat
  <2>1. f + 1 \in Nat /\ g + 1 \in Nat /\ f + 1 <= g + 1
    BY <1>4, <1>5
  <2> QED BY <1>3, <1>5, <2>1, Scaled
<1> HIDE DEF d
<1>7. LowMem <= f * d /\ r.base <= f * d /\ (f + 1) * d <= r.end
  BY <1>1, <1>2, <1>3, <1>6
<1> QED BY <1>1, <1>7 DEF d

(* The invariant holds before Init has run.                                *)
LEMMA PhysInitInv == Init => PhysInv
<1> SUFFICES ASSUME Init PROVE PhysInv
  OBVIOUS
<1>1. Stages
  BY PhysAssumption DEF Init, Stages
<1>2. SetUpBits
  BY FS_EmptySet DEF Init, SetUpBits
<1>3. Count
  BY DEF Init, Count
<1>4. OnlyAvailableFrames
  BY DEF Init, OnlyAvailableFrames
<1> QED BY <1>1, <1>2, <1>3, <1>4 DEF PhysInv
(* PhysicalMem::Init sets the counter to what the map has not freed.       *)
LEMMA MemInitStep == PhysInv /\ PhysicalMemInit => PhysInv'
<1> SUFFICES ASSUME PhysInv, PhysicalMemInit PROVE PhysInv'
  OBVIOUS
<1>1. /\ boot \in Boots /\ boot' = boot /\ held' = {} /\ held = {}
      /\ stage' = "initialised" /\ maximumBlocks' = Max(boot)
  BY DEF PhysInv, Stages, PhysicalMemInit, Max
<1>2. bits' = Marked0(boot)
  BY DEF PhysicalMemInit, Max, Marked0, FreedByMap
<1>3. usedBlocks' = Minus(Max(boot), Cardinality(FreedBy(boot)))
  BY DEF PhysicalMemInit, Max, FreedByMap
<1>4. /\ usedBlocks' \in 0 .. (UintSpan - 1)
      /\ Minus(maximumBlocks', usedBlocks') = Cardinality(FreedBy(boot))
  BY <1>1, <1>3, ReportFacts, FreedFinite, MinusMinus
<1>5. Stages'
  BY <1>1, <1>4 DEF Stages
<1>6. SetUpBits'
  BY <1>1, <1>2, FS_EmptySet DEF SetUpBits
<1>7. Count'
  BY <1>1, <1>4 DEF Count, FreeBlocks
<1>8. OnlyAvailableFrames'
  BY <1>1 DEF OnlyAvailableFrames
<1> QED BY <1>5, <1>6, <1>7, <1>8 DEF PhysInv

(* The first reservation: the kernel's frames and as many on the counter.  *)
LEMMA KernelStep == PhysInv /\ ReserveKernel => PhysInv'
<1> SUFFICES ASSUME PhysInv, ReserveKernel PROVE PhysInv'
  OBVIOUS
<1> DEFINE v == Visits(KernelSpan(boot))
           c == Cardinality(FreedBy(boot))
<1>1. /\ boot \in Boots /\ boot' = boot /\ held' = {} /\ held = {}
      /\ stage = "initialised" /\ stage' = "kernel reserved"
      /\ maximumBlocks' = maximumBlocks /\ maximumBlocks = Max(boot)
      /\ usedBlocks \in 0 .. (UintSpan - 1)
  BY DEF PhysInv, Stages, ReserveKernel
<1>2. bits' = Marked1(boot)
  BY <1>1 DEF PhysInv, SetUpBits, ReserveKernel, MarkUsed, Marked1, KernelFrames
<1>3. usedBlocks' = Plus(usedBlocks, v)
  BY DEF ReserveKernel, MarkUsed
<1>4. v \in 0 .. (UintSpan - 1) /\ v \in Nat /\ Max(boot) \in 0 .. (UintSpan - 1)
  <2>1. v \in 1 .. (UintSpan - 1) /\ Max(boot) \in 0 .. (UintSpan - 1)
    BY <1>1, ReportFacts
  <2> HIDE DEF v
  <2> QED BY <2>1, PhysAssumption
<1>5. usedBlocks' \in 0 .. (UintSpan - 1)
  BY <1>1, <1>3, <1>4, PlusIs
<1>6. Minus(Max(boot), usedBlocks) = c
  BY <1>1 DEF PhysInv, Count, FreeBlocks
<1>7. boot.mods_count > 0 => v <= c
  <2>1. boot.mods_count > 0 => v + Visits(InitrdSpan(boot)) <= c
    BY <1>1, ReportAssumption
  <2>2. Visits(InitrdSpan(boot)) \in Nat /\ c \in Nat
    BY <1>1, ReportNumbers
  <2> HIDE DEF v, c
  <2> QED BY <1>4, <2>1, <2>2
<1> HIDE DEF v, c
<1>8. boot.mods_count > 0 => Minus(Max(boot), usedBlocks') = c - v
  BY <1>1, <1>3, <1>4, <1>6, <1>7, PlusLowers
<1>9. Stages'
  BY <1>1, <1>5 DEF Stages
<1>10. SetUpBits'
  BY <1>1, <1>2, FS_EmptySet DEF SetUpBits
<1>11. Count'
  BY <1>1, <1>8 DEF Count, FreeBlocks, v, c
<1>12. OnlyAvailableFrames'
  BY <1>1 DEF OnlyAvailableFrames
<1> QED BY <1>9, <1>10, <1>11, <1>12 DEF PhysInv

(* The second reservation: what the words at mods_addr say.                *)
LEMMA InitrdStep == PhysInv /\ ReserveInitrd => PhysInv'
<1> SUFFICES ASSUME PhysInv, ReserveInitrd PROVE PhysInv'
  OBVIOUS
<1> DEFINE v == Visits(KernelSpan(boot))
           i == Visits(InitrdSpan(boot))
           c == Cardinality(FreedBy(boot))
<1>1. /\ boot \in Boots /\ boot' = boot /\ held' = {} /\ held = {}
      /\ stage = "kernel reserved" /\ stage' = "running"
      /\ maximumBlocks' = maximumBlocks /\ maximumBlocks = Max(boot)
      /\ usedBlocks \in 0 .. (UintSpan - 1)
  BY DEF PhysInv, Stages, ReserveInitrd
<1>2. bits' = Marked2(boot)
  BY <1>1 DEF PhysInv, SetUpBits, ReserveInitrd, MarkUsed, Marked2, ModuleFrames
<1>3. usedBlocks' = Plus(usedBlocks, i)
  BY DEF ReserveInitrd, MarkUsed
<1>4. /\ v \in Nat /\ i \in 0 .. (UintSpan - 1) /\ i \in Nat /\ c \in Nat
      /\ Max(boot) \in 0 .. (UintSpan - 1)
  <2>1. boot \in Boots
    BY <1>1
  <2>2. /\ v \in 1 .. (UintSpan - 1) /\ i \in 0 .. (UintSpan - 1)
        /\ Max(boot) \in 0 .. (UintSpan - 1)
    BY <2>1, ReportFacts
  <2>3. c \in 0 .. (UintSpan - 1)
    BY <2>1, FreedFinite
  <2> HIDE DEF v, i, c
  <2> QED BY <2>2, <2>3
<1>5. usedBlocks' \in 0 .. (UintSpan - 1)
  BY <1>1, <1>3, <1>4, PlusIs
<1>6. boot.mods_count > 0 => Minus(Max(boot), usedBlocks) = c - v /\ v + i <= c
  BY <1>1, ReportAssumption DEF PhysInv, Count, FreeBlocks
<1>7. Room(boot) = c - v - i
  BY DEF Room
<1> HIDE DEF v, c, i
<1>8. boot.mods_count > 0 => Minus(Max(boot), usedBlocks') = (c - v) - i /\ 0 <= c - v - i
  <2>1. SUFFICES ASSUME boot.mods_count > 0
                 PROVE  Minus(Max(boot), usedBlocks') = (c - v) - i /\ 0 <= c - v - i
    OBVIOUS
  <2>2. i <= Minus(Max(boot), usedBlocks) /\ 0 <= c - v - i
    BY <1>4, <1>6, <2>1
  <2>3. Minus(Max(boot), Plus(usedBlocks, i)) = Minus(Max(boot), usedBlocks) - i
    BY <1>1, <1>4, <2>2, PlusLowers
  <2> QED BY <1>3, <1>6, <2>1, <2>2, <2>3
<1>9. Stages'
  BY <1>1, <1>5 DEF Stages
<1>10. SetUpBits'
  BY <1>1, <1>2, FS_EmptySet DEF SetUpBits
<1>11. Count'
  <2>1. Cardinality({}) = 0
    BY FS_EmptySet
  <2>2. boot.mods_count > 0 =>
          Cardinality(held') <= Room(boot) /\ FreeBlocks' = Room(boot) - Cardinality(held')
    <3>1. SUFFICES ASSUME boot.mods_count > 0
                   PROVE  /\ Cardinality(held') <= Room(boot)
                          /\ FreeBlocks' = Room(boot) - Cardinality(held')
      OBVIOUS
    <3>2. FreeBlocks' = Minus(Max(boot), usedBlocks')
      BY <1>1 DEF FreeBlocks
    <3>3. Cardinality(held') = 0
      BY <1>1, <2>1
    <3>4. Room(boot) \in Int
      BY <1>1, ReportNumbers
    <3> QED BY <1>4, <1>7, <1>8, <3>1, <3>2, <3>3, <3>4
  <2> QED BY <1>1, <2>2 DEF Count
<1>12. OnlyAvailableFrames'
  BY <1>1 DEF OnlyAvailableFrames
<1> QED BY <1>9, <1>10, <1>11, <1>12 DEF PhysInv

(* AllocateBlock marks a clear bit and counts it.                          *)
LEMMA AllocateStep == PhysInv /\ AllocateBlock => PhysInv'
<1> SUFFICES ASSUME PhysInv, AllocateBlock PROVE PhysInv'
  OBVIOUS
<1>1. /\ boot \in Boots /\ boot' = boot
      /\ stage = "running" /\ stage' = "running"
      /\ maximumBlocks' = maximumBlocks /\ maximumBlocks = Max(boot)
      /\ usedBlocks \in 0 .. (UintSpan - 1)
      /\ usedBlocks' = Plus(usedBlocks, 1)
      /\ MayAllocate
  BY DEF PhysInv, Stages, AllocateBlock
<1>2. PICK f \in FirstFree : bits' = bits \cup {f} /\ held' = held \cup {f}
  BY DEF AllocateBlock
<1>3. f \in Nat /\ f \notin bits
  BY <1>1, <1>2, FirstFreeClear DEF PhysInv
<1>4. /\ bits = Marked2(boot) \cup held /\ held \cap Marked2(boot) = {}
      /\ held \subseteq Nat /\ IsFiniteSet(held)
  BY <1>1 DEF PhysInv, SetUpBits
<1>5. /\ IsFiniteSet(held') /\ Cardinality(held') = Cardinality(held) + 1
      /\ Cardinality(held) \in Nat
  BY <1>2, <1>3, <1>4, FS_AddElement, FS_CardinalityType
<1>6. UintSpan \in Nat /\ UintSpan > 1 /\ Max(boot) \in 0 .. (UintSpan - 1)
  <2>1. Visits(KernelSpan(boot)) \in 1 .. (UintSpan - 1) /\ Max(boot) \in 0 .. (UintSpan - 1)
    BY <1>1, ReportFacts
  <2> QED BY <2>1, PhysAssumption
<1>7. usedBlocks' \in 0 .. (UintSpan - 1)
  <2>1. 1 \in 0 .. (UintSpan - 1)
    BY <1>6
  <2> QED BY <1>1, <2>1, PlusIs
<1>8. boot.mods_count > 0 =>
        Cardinality(held') <= Room(boot) /\ FreeBlocks' = Room(boot) - Cardinality(held')
  <2>1. SUFFICES ASSUME boot.mods_count > 0
                 PROVE  /\ Cardinality(held') <= Room(boot)
                        /\ FreeBlocks' = Room(boot) - Cardinality(held')
    OBVIOUS
  <2>2. /\ Cardinality(held) <= Room(boot) /\ FreeBlocks = Room(boot) - Cardinality(held)
        /\ FreeBlocks = Minus(Max(boot), usedBlocks)
    BY <1>1, <2>1 DEF PhysInv, Count, FreeBlocks
  <2>3. FreeBlocks # 0
    BY <1>1 DEF MayAllocate
  <2>4. Room(boot) \in Int
    BY <1>1, ReportNumbers
  <2>5. 1 \in Nat /\ 1 <= Minus(Max(boot), usedBlocks)
    BY <1>5, <2>2, <2>3, <2>4
  <2>6. Minus(Max(boot), Plus(usedBlocks, 1)) = Minus(Max(boot), usedBlocks) - 1
    BY <1>1, <1>6, <2>5, PlusLowers
  <2>7. FreeBlocks' = FreeBlocks - 1
    BY <1>1, <2>2, <2>6 DEF FreeBlocks
  <2> QED BY <1>5, <2>2, <2>3, <2>4, <2>7
<1>9. Stages'
  BY <1>1, <1>7 DEF Stages
<1>10. SetUpBits'
  <2>1. bits' = Marked2(boot) \cup held' /\ held' \cap Marked2(boot) = {} /\ held' \subseteq Nat
    BY <1>2, <1>3, <1>4
  <2> QED BY <1>1, <1>5, <2>1 DEF SetUpBits
<1>11. Count'
  BY <1>1, <1>8 DEF Count
<1>12. OnlyAvailableFrames'
  <2>1. SUFFICES ASSUME OneUpperRegion', boot.mods_count > 0, NEW g \in held \cup {f}
                 PROVE  /\ LowMem <= g * BLOCK_SIZE
                        /\ \E r \in Available' : r.base <= g * BLOCK_SIZE
                                              /\ (g + 1) * BLOCK_SIZE <= r.end
    BY <1>1, <1>2 DEF OnlyAvailableFrames
  <2>2. OneUpperRegion /\ Available' = Available
    BY <1>1, <2>1 DEF OneUpperRegion, Available
  <2>3. CASE g \in held
    BY <2>1, <2>2, <2>3 DEF PhysInv, OnlyAvailableFrames
  <2>4. CASE g = f
    BY <1>1, <1>2, <2>1, <2>2, <2>4, FirstFreeAvailable
  <2> QED BY <2>1, <2>3, <2>4
<1> QED BY <1>9, <1>10, <1>11, <1>12 DEF PhysInv

(* A frame that is given back was clear before it was handed out.          *)
LEMMA FreeStep ==
  ASSUME NEW frame \in held, PhysInv, FreeBlocksOf(frame)
  PROVE  PhysInv'
<1>1. /\ boot \in Boots /\ boot' = boot
      /\ stage = "running" /\ stage' = "running"
      /\ maximumBlocks' = maximumBlocks /\ maximumBlocks = Max(boot)
      /\ usedBlocks \in 0 .. (UintSpan - 1)
      /\ usedBlocks' = Minus(usedBlocks, 1)
      /\ bits' = bits \ {frame} /\ held' = held \ {frame}
  BY DEF PhysInv, Stages, FreeBlocksOf
<1>2. /\ bits = Marked2(boot) \cup held /\ held \cap Marked2(boot) = {}
      /\ held \subseteq Nat /\ IsFiniteSet(held)
  BY <1>1 DEF PhysInv, SetUpBits
<1>3. /\ IsFiniteSet(held') /\ Cardinality(held') = Cardinality(held) - 1
      /\ Cardinality(held) \in Nat /\ Cardinality(held') \in Nat
  BY <1>1, <1>2, FS_RemoveElement, FS_CardinalityType
<1>4. UintSpan \in Nat /\ UintSpan > 1 /\ Max(boot) \in 0 .. (UintSpan - 1)
  <2>1. Visits(KernelSpan(boot)) \in 1 .. (UintSpan - 1) /\ Max(boot) \in 0 .. (UintSpan - 1)
    BY <1>1, ReportFacts
  <2> QED BY <2>1, PhysAssumption
<1>5. usedBlocks' \in 0 .. (UintSpan - 1)
  <2>1. 1 \in 0 .. (UintSpan - 1)
    BY <1>4
  <2> QED BY <1>1, <2>1, MinusIs
<1>6. boot.mods_count > 0 =>
        Cardinality(held') <= Room(boot) /\ FreeBlocks' = Room(boot) - Cardinality(held')
  <2>1. SUFFICES ASSUME boot.mods_count > 0
                 PROVE  /\ Cardinality(held') <= Room(boot)
                        /\ FreeBlocks' = Room(boot) - Cardinality(held')
    OBVIOUS
  <2>2. /\ Cardinality(held) <= Room(boot) /\ FreeBlocks = Room(boot) - Cardinality(held)
        /\ FreeBlocks = Minus(Max(boot), usedBlocks)
    BY <1>1, <2>1 DEF PhysInv, Count, FreeBlocks
  <2>3. Room(boot) \in Int /\ Room(boot) < UintSpan
    BY <1>1, ReportNumbers
  <2>4. Minus(Max(boot), usedBlocks) + 1 < UintSpan
    BY <1>3, <1>4, <2>2, <2>3
  <2>5. Minus(Max(boot), Minus(usedBlocks, 1)) = Minus(Max(boot), usedBlocks) + 1
    BY <1>1, <1>4, <2>4, MinusRaises
  <2>6. FreeBlocks' = FreeBlocks + 1
    BY <1>1, <2>2, <2>5 DEF FreeBlocks
  <2> QED BY <1>3, <2>2, <2>3, <2>6
<1>7. Stages'
  BY <1>1, <1>5 DEF Stages
<1>8. SetUpBits'
  <2>1. bits' = Marked2(boot) \cup held' /\ held' \cap Marked2(boot) = {} /\ held' \subseteq Nat
    BY <1>1, <1>2
  <2> QED BY <1>1, <1>3, <2>1 DEF SetUpBits
<1>9. Count'
  BY <1>1, <1>6 DEF Count
<1>10. OnlyAvailableFrames'
  BY <1>1 DEF PhysInv, OnlyAvailableFrames, OneUpperRegion, Available
<1> QED BY <1>7, <1>8, <1>9, <1>10 DEF PhysInv

(* A step that changes nothing of the allocator's keeps its invariant.     *)
LEMMA PhysStutter == PhysInv /\ UNCHANGED vars => PhysInv'
<1> SUFFICES ASSUME PhysInv, UNCHANGED vars PROVE PhysInv'
  OBVIOUS
<1>1. Stages' /\ SetUpBits'
  BY DEF vars, PhysInv, Stages, SetUpBits
<1>2. Count'
  BY DEF vars, PhysInv, Count, FreeBlocks
<1>3. OnlyAvailableFrames'
  BY DEF vars, PhysInv, OnlyAvailableFrames, OneUpperRegion, Available
<1> QED BY <1>1, <1>2, <1>3 DEF PhysInv

(* Every step of the allocator keeps the invariant.                        *)
LEMMA PhysNextInv == PhysInv /\ [Next]_vars => PhysInv'
BY MemInitStep, KernelStep, InitrdStep, AllocateStep, FreeStep, PhysStutter
   DEF Next, AllocateFails

(***************************************************************************)
(* Bits and counter of the frame allocator always are what the loader's    *)
(* report and the frames that are held make them.                          *)
(***************************************************************************)
THEOREM AllocatorInvariant == Spec => []PhysInv
BY PhysInitInv, PhysNextInv, PTL DEF Spec

(* What the invariant says of the frames that are held.                    *)
LEMMA PhysInvImplies ==
  PhysInv => HeldFramesStayMarked /\ OnlyAvailableFrames /\ CounterIsConservative
<1> SUFFICES ASSUME PhysInv
             PROVE  HeldFramesStayMarked /\ OnlyAvailableFrames /\ CounterIsConservative
  OBVIOUS
<1>1. HeldFramesStayMarked
  BY DEF PhysInv, Stages, SetUpBits, HeldFramesStayMarked
<1>2. CounterIsConservative
  <2>1. SUFFICES ASSUME stage = "running", boot.mods_count > 0
                 PROVE  FreeBlocks <= Cardinality(FreedBy(boot) \ bits)
    BY DEF CounterIsConservative, FreedByMap
  <2>2. boot \in Boots /\ IsFiniteSet(held) /\ bits = Marked2(boot) \cup held
    BY <2>1 DEF PhysInv, Stages, SetUpBits
  <2>3. FreeBlocks = Room(boot) - Cardinality(held)
    BY <2>1 DEF PhysInv, Count
  <2> QED BY <2>2, <2>3, RoomConservative
<1>3. OnlyAvailableFrames
  BY DEF PhysInv
<1> QED BY <1>1, <1>2, <1>3

(***************************************************************************)
(* No frame is handed out twice: what is held is marked.                   *)
(***************************************************************************)
THEOREM HeldFramesAreMarked == Spec => []HeldFramesStayMarked
BY AllocatorInvariant, PhysInvImplies, PTL

(***************************************************************************)
(* Only whole frames of available memory above the megabyte are handed     *)
(* out, on a machine with a module and one such region.                    *)
(***************************************************************************)
THEOREM HeldFramesAreAvailable == Spec => []OnlyAvailableFrames
BY AllocatorInvariant, PhysInvImplies, PTL

(***************************************************************************)
(* The counter of used frames, whatever wraps on the way, never promises a *)
(* free frame that is not there.                                           *)
(***************************************************************************)
THEOREM CounterStaysConservative == Spec => []CounterIsConservative
BY AllocatorInvariant, PhysInvImplies, PTL

-----------------------------------------------------------------------------
(* A step of the booting kernel is one of the allocator's, or none to it.  *)
LEMMA BootStepsAllocator == [BootNext]_bootVars => [Next]_vars
BY DEF BootNext, BootStep, SetUp, Reserve, HeapTable, HeapPage, LowTable, HeapInitialize,
       PageFault, CopyInfo, NewScheduler, SetSched, TestModules, Tick, RunDamaged, Client,
       Next, bootVars

(***************************************************************************)
(* The boot code uses the frame allocator only through its operations, so  *)
(* what holds of the allocator holds of the booting kernel.                *)
(***************************************************************************)
THEOREM BootUsesAllocator == BootSpec => Spec
<1>1. BootInit => Init
  BY DEF BootInit
<1> QED BY <1>1, BootStepsAllocator, PTL DEF BootSpec, Spec

SettingUp == {"console", "gdt", "idt", "pit"}

(* What has been set up when ArchKernel::Init reaches each of its steps.   *)
Order ==
  /\ at = "gdt" => {"console"} \subseteq ready
  /\ at = "idt" => {"console", "gdt"} \subseteq ready
  /\ at = "pit" => {"console", "gdt", "idt"} \subseteq ready
  /\ "pit" \in ready => {"console", "gdt", "idt"} \subseteq ready
  /\ at = "attach" => "scheduler" \in ready
  /\ attached => "scheduler" \in ready

(* How far the frame allocator and the loop of VirtualMem::Init are then.  *)
Progress ==
  /\ page \in Nat
  /\ at \in SettingUp => stage = "boot" /\ page = 0
  /\ at = "memory" => stage # "running" /\ page = 0
  /\ page = 0 /\ at = "table" => held = {}
  /\ page = 0 /\ at = "page" => Cardinality(held) <= 1
  /\ page = 0 => at \in SettingUp \cup {"memory", "table", "page"}

(* A heap without a first page: only where the room was one frame at most. *)
FirstPageMissing ==
  /\ page # 0 /\ heapBase = Null /\ boot.mods_count > 0 /\ OneUpperRegion => Room(boot) <= 1
  /\ halted = "exception" => heapBase = Null /\ page # 0

BootInv == PhysInv /\ Order /\ Progress /\ FirstPageMissing /\ TickFindsItsState

(* What AllocateBlock and its failure leave of the room.                   *)
LEMMA Grants ==
  ASSUME PhysInv, AllocateBlock \/ AllocateFails
  PROVE  /\ stage = "running" /\ boot' = boot /\ IsFiniteSet(held)
         /\ Cardinality(held) \in Nat
         /\ Cardinality(held') <= Cardinality(held) + 1
         /\ Granted # {} => \E f \in Nat : Granted = {f} /\ f # Null
         /\ Granted = {} /\ boot.mods_count > 0 /\ OneUpperRegion
               => Room(boot) = Cardinality(held)
<1>1. stage = "running" /\ boot' = boot
  BY DEF AllocateBlock, AllocateFails, vars
<1>2. /\ bits = Marked2(boot) \cup held /\ IsFiniteSet(held) /\ Cardinality(held) \in Nat
  BY <1>1, FS_CardinalityType DEF PhysInv, SetUpBits
<1>3. CASE AllocateBlock
  <2>1. PICK f \in FirstFree : held' = held \cup {f}
    BY <1>3 DEF AllocateBlock
  <2>2. f \in Nat /\ f \notin bits
    BY <1>1, <2>1, FirstFreeClear DEF PhysInv
  <2>3. f \notin held /\ f # Null
    BY <1>2, <2>2 DEF Null, Marked2
  <2>4. Granted = {f}
    BY <2>1, <2>3 DEF Granted
  <2>5. Cardinality(held') = Cardinality(held) + 1
    BY <1>2, <2>1, <2>3, FS_AddElement
  <2> QED BY <1>1, <1>2, <2>2, <2>3, <2>4, <2>5
<1>4. CASE AllocateFails
  <2>1. held' = held /\ Granted = {}
    BY <1>4 DEF AllocateFails, vars, Granted
  <2>2. ASSUME boot.mods_count > 0, OneUpperRegion PROVE Room(boot) = Cardinality(held)
    <3>1. ~MayAllocate
      <4>1. ~MayAllocate \/ Written \subseteq bits
        BY <1>4 DEF AllocateFails
      <4>2. MayAllocate => \E g \in Written \ bits : TRUE
        BY <1>1, <2>2, UpperFrameClear
      <4> QED BY <4>1, <4>2
    <3>2. FreeBlocks = Room(boot) - Cardinality(held) /\ FreeBlocks = 0
      BY <1>1, <2>2, <3>1 DEF PhysInv, Count, MayAllocate
    <3>3. Room(boot) \in Int
      BY ReportNumbers DEF PhysInv, Stages
    <3> QED BY <1>2, <3>2, <3>3
  <2>3. Cardinality(held') <= Cardinality(held) + 1
    BY <1>2, <2>1
  <2> QED BY <1>1, <1>2, <2>1, <2>2, <2>3
<1> QED BY <1>3, <1>4

(* The invariant holds when kmain is entered.                              *)
LEMMA BootInitInv == BootInit => BootInv
<1> SUFFICES ASSUME BootInit PROVE BootInv
  OBVIOUS
<1>1. PhysInv
  BY PhysInitInv DEF BootInit
<1>2. Order /\ Progress /\ FirstPageMissing /\ TickFindsItsState
  BY DEF BootInit, Init, Order, Progress, FirstPageMissing, TickFindsItsState, SettingUp
<1> QED BY <1>1, <1>2 DEF BootInv

(* The four calls of SetUp, one by one.                                    *)
LEMMA SetUpCases ==
  ASSUME SetUp
  PROVE  \/ at = "console" /\ at' = "gdt"
         \/ at = "gdt" /\ at' = "idt"
         \/ at = "idt" /\ at' = "pit"
         \/ at = "pit" /\ at' = "memory"
<1>1. PICK i \in 1 .. (Len(SetUpOrder) - 1) : at = SetUpOrder[i] /\ at' = SetUpOrder[i + 1]
  BY DEF SetUp
<1>2. i \in 1 .. 4
  BY <1>1 DEF SetUpOrder
<1>3. CASE i = 1
  BY <1>1, <1>3 DEF SetUpOrder
<1>4. CASE i = 2
  BY <1>1, <1>4 DEF SetUpOrder
<1>5. CASE i = 3
  BY <1>1, <1>5 DEF SetUpOrder
<1>6. CASE i = 4
  BY <1>1, <1>6 DEF SetUpOrder
<1> QED BY <1>2, <1>3, <1>4, <1>5, <1>6

(* Steps keep the order in which things are set up.                        *)
LEMMA OrderNext == Order /\ [BootNext]_bootVars => Order'
<1> SUFFICES ASSUME Order, [BootNext]_bootVars PROVE Order'
  OBVIOUS
<1>1. CASE SetUp
  <2>1. ready' = ready \cup {at} /\ attached' = attached
    BY <1>1 DEF SetUp
  <2> QED BY <1>1, <2>1, SetUpCases DEF Order
<1>2. CASE Reserve
  BY <1>2 DEF Reserve, Order
<1>3. CASE HeapTable \/ HeapPage \/ LowTable
  BY <1>3 DEF HeapTable, HeapPage, LowTable, Order
<1>4. CASE HeapInitialize \/ PageFault \/ CopyInfo
  BY <1>4 DEF HeapInitialize, PageFault, CopyInfo, Order
<1>5. CASE NewScheduler
  BY <1>5 DEF NewScheduler, Order
<1>6. CASE SetSched
  BY <1>6 DEF SetSched, Order
<1>7. CASE TestModules
  BY <1>7 DEF TestModules, Order
<1>8. CASE Tick \/ RunDamaged
  BY <1>8 DEF Tick, RunDamaged, Order
<1>9. CASE Client \/ UNCHANGED bootVars
  BY <1>9 DEF Client, own, bootVars, Order
<1> QED BY <1>1, <1>2, <1>3, <1>4, <1>5, <1>6, <1>7, <1>8, <1>9 DEF BootNext, BootStep

(* A tick finds everything it needs, so only damage ends in the wild.      *)
LEMMA TickNext == Order /\ TickFindsItsState /\ [BootNext]_bootVars => TickFindsItsState'
<1> SUFFICES ASSUME Order, TickFindsItsState, [BootNext]_bootVars PROVE TickFindsItsState'
  OBVIOUS
<1>1. CASE Tick
  <2>1. TickNeeds \subseteq ready
    BY <1>1 DEF Tick, TickNeeds, Order
  <2> QED BY <1>1, <2>1 DEF Tick, TickFindsItsState
<1>2. CASE SetUp \/ Reserve \/ HeapPage \/ LowTable
  BY <1>2 DEF SetUp, Reserve, HeapPage, LowTable, TickFindsItsState
<1>3. CASE HeapTable \/ HeapInitialize
  BY <1>3 DEF HeapTable, HeapInitialize, TickFindsItsState, Running
<1>4. CASE PageFault \/ CopyInfo \/ NewScheduler \/ SetSched \/ TestModules
  BY <1>4 DEF PageFault, CopyInfo, NewScheduler, SetSched, TestModules, TickFindsItsState
<1>5. CASE RunDamaged
  BY <1>5 DEF RunDamaged, TickFindsItsState
<1>6. CASE Client \/ UNCHANGED bootVars
  BY <1>6 DEF Client, own, bootVars, TickFindsItsState
<1> QED BY <1>1, <1>2, <1>3, <1>4, <1>5, <1>6 DEF BootNext, BootStep

(* Steps keep the account of how far memory is set up.                     *)
LEMMA ProgressNext == PhysInv /\ Progress /\ [BootNext]_bootVars => Progress'
<1> SUFFICES ASSUME PhysInv, Progress, [BootNext]_bootVars PROVE Progress'
  OBVIOUS
<1>1. CASE SetUp
  <2>1. page' = page /\ UNCHANGED vars
    BY <1>1 DEF SetUp
  <2>2. stage' = stage /\ held' = held
    BY <2>1 DEF vars
  <2> QED BY <1>1, <2>1, <2>2, SetUpCases DEF Progress, SettingUp
<1>2. CASE Reserve
  <2>1. /\ at = "memory" /\ page' = page /\ held' = held
        /\ at' = IF stage' = "running" THEN "table" ELSE at
    BY <1>2 DEF Reserve, PhysicalMemInit, ReserveKernel, ReserveInitrd
  <2>2. held = {} /\ page = 0
    BY <2>1 DEF Progress, PhysInv, Stages
  <2> QED BY <2>1, <2>2 DEF Progress, SettingUp
<1>3. CASE HeapTable
  <2>1. at = "table" /\ at' = "page" /\ page' = page /\ page \in Nat
    BY <1>3 DEF HeapTable, Progress
  <2>2. page = 0 => Cardinality(held') <= 1
    <3>1. SUFFICES ASSUME page = 0 PROVE Cardinality(held') <= 1
      OBVIOUS
    <3>2. held = {} /\ Cardinality(held) = 0
      BY <2>1, <3>1, FS_EmptySet DEF Progress
    <3>3. CASE AllocateBlock \/ AllocateFails
      BY <3>2, <3>3, Grants
    <3>4. CASE UNCHANGED vars
      BY <3>2, <3>4 DEF vars
    <3> QED BY <1>3, <3>3, <3>4 DEF HeapTable
  <2> QED BY <2>1, <2>2 DEF Progress, SettingUp
<1>4. CASE HeapPage
  <2>1. at' = "table" /\ page' = page + 1 /\ page \in Nat
    BY <1>4 DEF HeapPage, NextPage, Progress
  <2>2. page' \in Nat /\ page' # 0
    BY <2>1
  <2> QED BY <2>1, <2>2 DEF Progress, SettingUp
<1>5. CASE LowTable
  <2>1. at' = "heap" /\ page' = page /\ page \in Nat /\ ~(page < HeapPages)
    BY <1>5 DEF LowTable, HeapLoop, Progress
  <2>2. page # 0
    BY <2>1, BootAssumption
  <2> QED BY <2>1, <2>2 DEF Progress, SettingUp
<1>6. CASE HeapInitialize \/ PageFault \/ CopyInfo
  BY <1>6 DEF HeapInitialize, PageFault, CopyInfo, Progress, SettingUp
<1>7. CASE NewScheduler \/ SetSched \/ TestModules
  BY <1>7 DEF NewScheduler, SetSched, TestModules, Progress, SettingUp
<1>8. CASE Tick \/ RunDamaged \/ UNCHANGED bootVars
  BY <1>8 DEF Tick, RunDamaged, bootVars, own, vars, Progress
<1>9. CASE Client
  BY <1>9 DEF Client, own, Progress, SettingUp
<1> QED BY <1>1, <1>2, <1>3, <1>4, <1>5, <1>6, <1>7, <1>8, <1>9 DEF BootNext, BootStep

(* The heap's first page is missing only if there was no room for it.      *)
LEMMA MissingNext ==
  PhysInv /\ Progress /\ FirstPageMissing /\ [BootNext]_bootVars => FirstPageMissing'
<1> SUFFICES ASSUME PhysInv, Progress, FirstPageMissing, [BootNext]_bootVars
             PROVE  FirstPageMissing'
  OBVIOUS
<1>1. boot' = boot /\ (OneUpperRegion' <=> OneUpperRegion)
  <2>1. boot' = boot
    BY DEF BootNext, BootStep, SetUp, Reserve, HeapTable, HeapPage, LowTable, HeapInitialize,
           PageFault, CopyInfo, NewScheduler, SetSched, TestModules, Tick, RunDamaged, Client,
           PhysicalMemInit, ReserveKernel, ReserveInitrd, AllocateBlock, AllocateFails,
           FreeBlocksOf, bootVars, vars
  <2> QED BY <2>1 DEF OneUpperRegion, Available
<1>2. CASE HeapPage
  <2>1. /\ at = "page" /\ heapBase' = FirstPage
        /\ page' = page + 1 /\ page \in Nat /\ halted = "no" /\ halted' = halted
    BY <1>2 DEF HeapPage, NextPage, Progress, Running
  <2>2. CASE page # 0
    <3>1. heapBase' = heapBase
      BY <2>1, <2>2 DEF FirstPage
    <3> QED BY <1>1, <2>1, <2>2, <3>1 DEF FirstPageMissing
  <2>3. CASE page = 0
    <3>1. AllocateBlock \/ AllocateFails
      BY <1>2 DEF HeapPage
    <3>2. CASE Granted = {}
      <4>1. boot.mods_count > 0 /\ OneUpperRegion => Room(boot) <= 1
        BY <2>1, <2>3, <3>1, <3>2, Grants DEF Progress
      <4> QED BY <1>1, <2>1, <4>1 DEF FirstPageMissing
    <3>3. CASE Granted # {}
      <4>1. PICK f \in Nat : Granted = {f} /\ f # Null
        BY <3>1, <3>3, Grants
      <4>2. heapBase' = f
        BY <2>1, <2>3, <4>1 DEF FirstPage
      <4> QED BY <2>1, <4>1, <4>2 DEF FirstPageMissing
    <3> QED BY <3>2, <3>3
  <2> QED BY <2>2, <2>3
<1>3. CASE PageFault
  <2>1. page # 0 /\ page' = page /\ heapBase = Null /\ heapBase' = heapBase
    BY <1>3 DEF PageFault, Progress, SettingUp
  <2> QED BY <1>1, <2>1 DEF FirstPageMissing
<1>4. ASSUME page' = page, heapBase' = heapBase, halted' = "exception" => halted = "exception"
      PROVE  FirstPageMissing'
  BY <1>1, <1>4 DEF FirstPageMissing
<1>5. CASE SetUp \/ Reserve \/ HeapTable \/ LowTable
  BY <1>4, <1>5 DEF SetUp, Reserve, HeapTable, LowTable
<1>6. CASE HeapInitialize \/ CopyInfo \/ NewScheduler \/ SetSched \/ TestModules
  BY <1>4, <1>6 DEF HeapInitialize, CopyInfo, NewScheduler, SetSched, TestModules
<1>7. CASE Tick \/ RunDamaged
  BY <1>4, <1>7 DEF Tick, RunDamaged
<1>8. CASE Client \/ UNCHANGED bootVars
  BY <1>4, <1>8 DEF Client, own, bootVars
<1> QED BY <1>2, <1>3, <1>5, <1>6, <1>7, <1>8 DEF BootNext, BootStep

(***************************************************************************)
(* The invariant of the booting kernel: the allocator's, what has been set *)
(* up at each step of ArchKernel::Init, and what a missing first page of   *)
(* the heap says about the memory there was.                               *)
(***************************************************************************)
THEOREM BootInvariant == BootSpec => []BootInv
<1>1. BootInv /\ [BootNext]_bootVars => BootInv'
  BY BootStepsAllocator, PhysNextInv, OrderNext, ProgressNext, MissingNext, TickNext
     DEF BootInv
<1> QED BY BootInitInv, <1>1, PTL DEF BootSpec

(***************************************************************************)
(* Wherever in ArchKernel::Init the timer interrupts, the handler finds    *)
(* what it uses; the kernel runs wild only after it overwrote itself.      *)
(***************************************************************************)
THEOREM TickAlwaysFindsItsState == BootSpec => []TickFindsItsState
<1>1. BootInv => TickFindsItsState
  BY DEF BootInv
<1> QED BY <1>1, BootInvariant, PTL

-----------------------------------------------------------------------------
(* A frame with a byte of a range is one the range starts in or before,    *)
(* and that starts before the range's end.                                 *)
LEMMA FramesOfIs ==
  ASSUME NEW base \in Nat, NEW end \in Nat
  PROVE  \A f \in Nat : f \in FramesOf(base, end) <=>
           base < end /\ base \div BLOCK_SIZE <= f /\ f * BLOCK_SIZE < end
<1> DEFINE d == BLOCK_SIZE
           n == end - 1
           q == base \div d
           e == n \div d
<1> SUFFICES ASSUME NEW f \in Nat
             PROVE  f \in FramesOf(base, end) <=> base < end /\ q <= f /\ f * d < end
  OBVIOUS
<1>1. CASE end <= base
  BY <1>1 DEF FramesOf
<1>2. CASE ~(end <= base)
  <2>1. d \in Nat \ {0} /\ n \in Nat
    BY <1>2, PhysAssumption
  <2>2. FramesOf(base, end) = q .. e
    BY <1>2 DEF FramesOf
  <2> HIDE DEF n
  <2>3. q \in Nat /\ e \in Nat /\ e * d <= n /\ n < e * d + d
    BY <2>1, Whole
  <2> HIDE DEF q, e
  <2>4. /\ f <= e => f * d <= e * d
        /\ f * d < (e + 1) * d => f < e + 1
        /\ f * d \in Nat /\ e * d \in Nat /\ (e + 1) * d = e * d + d
    <3>1. e + 1 \in Nat
      BY <2>3
    <3> QED BY <2>3, <3>1, Scaled
  <2> HIDE DEF d
  <2>5. f * d < end <=> f * d <= n
    BY <2>1, <2>4 DEF n
  <2>6. f <= e <=> f * d <= n
    BY <2>1, <2>3, <2>4
  <2> QED BY <1>2, <2>2, <2>3, <2>5, <2>6
<1> QED BY <1>1, <1>2

(* Behind an aligned base a loop over whole frames visits all of them.     *)
LEMMA WholeVisited ==
  ASSUME NEW base \in Nat, NEW end \in Nat, base <= end, base % BLOCK_SIZE = 0,
         NEW f \in Nat, base <= f * BLOCK_SIZE, (f + 1) * BLOCK_SIZE <= end
  PROVE  f \in Visited(base, end - base)
<1> DEFINE d == BLOCK_SIZE
           size == end - base
           q == base \div d
           w == size \div d
<1>1. d \in Nat \ {0} /\ size \in Nat /\ base + size = end
  BY PhysAssumption
<1> HIDE DEF size
<1>2. q \in Nat /\ q * d = base /\ w \in Nat /\ size < w * d + d
  BY <1>1, Whole
<1>3. Visited(base, end - base) = q .. (q + w - 1)
  BY DEF Visited, size
<1> HIDE DEF q, w
<1>4. q <= f
  <2>1. q * d < (f + 1) * d
    BY <1>1, <1>2, Scaled
  <2>2. f + 1 \in Nat
    OBVIOUS
  <2>3. q < f + 1
    BY <1>2, <2>1, <2>2, Scaled
  <2> QED BY <1>2, <2>3
<1>5. f < q + w
  <2>1. (q + w) * d + d = (q + w + 1) * d /\ (q + w) * d = q * d + w * d
        /\ w * d \in Nat /\ (f + 1) * d \in Nat /\ (q + w + 1) * d \in Nat
    BY <1>1, <1>2
  <2>2. (f + 1) * d < (q + w + 1) * d
    <3> HIDE DEF d
    <3> QED BY <1>1, <1>2, <2>1 DEF d
  <2>3. f + 1 \in Nat /\ q + w + 1 \in Nat
    BY <1>2
  <2>4. f + 1 < q + w + 1
    BY <2>2, <2>3, Scaled
  <2> QED BY <1>2, <2>4
<1> QED BY <1>2, <1>3, <1>4, <1>5

(* What the first reservation covers, in bytes.                            *)
LEMMA KernelFramesAre ==
  ASSUME NEW b \in Boots, NEW f \in Nat
  PROVE  /\ f \in KernelFrames(b) <=> f * BLOCK_SIZE < KernelSpan(b)
         /\ f \in KernelFrames(b) <=> (f + 1) * BLOCK_SIZE <= KernelSpan(b)
<1> DEFINE d == BLOCK_SIZE
           k == KernelSpan(b)
           v == Visits(k)
<1>1. v \in 1 .. (UintSpan - 1) /\ v * d = k /\ KernelFrames(b) = 0 .. (v - 1)
  BY ReportFacts
<1>2. v \in Nat /\ d \in Nat \ {0}
  BY <1>1, PhysAssumption
<1> HIDE DEF v, k
<1>3. f \in KernelFrames(b) <=> f < v
  BY <1>1, <1>2
<1>4. f < v => (f + 1) * d <= v * d
  <2>1. f + 1 \in Nat
    OBVIOUS
  <2>2. f + 1 <= v => (f + 1) * d <= v * d
    BY <1>2, <2>1, Scaled
  <2> QED BY <1>2, <2>2
<1>5. f * d < v * d => f < v
  BY <1>2, Scaled
<1>6. f * d \in Nat /\ (f + 1) * d = f * d + d /\ v * d \in Nat
  BY <1>2, Scaled
<1>7. (f + 1) * d <= v * d => f * d < v * d
  BY <1>2, <1>6
<1> QED BY <1>1, <1>3, <1>4, <1>5, <1>7 DEF k

(* A range that ends within the first reservation is reserved.             *)
LEMMA ReservedBelow ==
  ASSUME NEW b \in Boots, NEW base \in Nat, NEW end \in Nat, end <= KernelSpan(b)
  PROVE  FramesOf(base, end) \subseteq KernelFrames(b)
<1> SUFFICES ASSUME NEW f \in FramesOf(base, end) PROVE f \in KernelFrames(b)
  OBVIOUS
<1>1. f \in Nat
  <2>1. base < end /\ f \in (base \div BLOCK_SIZE) .. ((end - 1) \div BLOCK_SIZE)
    BY DEF FramesOf
  <2>2. base \div BLOCK_SIZE \in Nat
    BY Whole
  <2>3. end - 1 \in Nat
    BY <2>1
  <2>4. (end - 1) \div BLOCK_SIZE \in Nat
    BY <2>3, Whole
  <2> QED BY <2>1, <2>2, <2>4
<1>2. f * BLOCK_SIZE < end
  BY <1>1, FramesOfIs
<1>3. KernelSpan(b) \in Nat /\ f * BLOCK_SIZE \in Nat
  <2>1. KernelSpan(b) \in 1 .. (UintSpan - 1)
    BY ReportFacts
  <2> QED BY <1>1, <2>1, Scaled, PhysAssumption
<1>4. f * BLOCK_SIZE < KernelSpan(b)
  BY <1>2, <1>3
<1> QED BY <1>1, <1>4, KernelFramesAre

(* The first module of a report that has one, as MarkUsed is told of it.   *)
LEMMA ModuleFacts ==
  ASSUME NEW b \in Boots, b.mods_count > 0
  PROVE  /\ b.initrd.base \in Nat /\ b.initrd.end \in Nat
         /\ b.initrd.base <= b.initrd.end /\ b.initrd.base % BLOCK_SIZE = 0
         /\ ModuleFrames(b) = Visited(b.initrd.base, b.initrd.end - b.initrd.base)
<1> DEFINE base == b.initrd.base
           end == b.initrd.end
<1>1. /\ base \in 0 .. (UintSpan - 1) /\ end \in 0 .. (UintSpan - 1)
      /\ base <= end /\ base % BLOCK_SIZE = 0
  BY ReportAssumption
<1>2. Minus(end, base) = end - base
  BY <1>1, MinusIs
<1> QED BY <1>1, <1>2 DEF ModuleFrames, InitrdSpan

(* The boot invariant makes the reservations effective.                    *)
LEMMA InvKeepsData == PhysInv => LoadedDataKept
<1> SUFFICES ASSUME PhysInv PROVE LoadedDataKept
  OBVIOUS
<1>1. /\ boot \in Boots /\ held \subseteq Nat
      /\ held \cap KernelFrames(boot) = {} /\ held \cap ModuleFrames(boot) = {}
  BY DEF PhysInv, Stages, SetUpBits, Marked2, Marked1
<1>2. /\ LowMem \in Nat /\ GetBitmapSize \in Nat
      /\ LowMem + GetBitmapSize <= KernelSpan(boot) /\ KernelSpan(boot) \in Nat
  <2>1. LowMem \in Nat
    BY PhysAssumption
  <2>2. KernelSpan(boot) \in 1 .. (UintSpan - 1)
    BY <1>1, ReportFacts
  <2>3. KernelSpan(boot) \in Nat
    BY <2>2, PhysAssumption
  <2> QED BY <1>1, <2>1, <2>3, ReportFacts DEF GetBitmapSize
<1>3. FramesOf(0, LowMem) \subseteq KernelFrames(boot)
  <2>1. LowMem <= KernelSpan(boot)
    BY <1>2
  <2> QED BY <1>1, <1>2, <2>1, ReservedBelow
<1>4. FramesOf(LowMem, LowMem + GetBitmapSize) \subseteq KernelFrames(boot)
  <2>1. LowMem + GetBitmapSize \in Nat
    BY <1>2
  <2> QED BY <1>1, <1>2, <2>1, ReservedBelow
<1>5. ASSUME boot.mods_count > 0, NEW f \in held,
             f \in WholeFrames(boot.initrd.base, boot.initrd.end)
      PROVE  FALSE
  <2>1. /\ boot.initrd.base \in Nat /\ boot.initrd.end \in Nat
        /\ boot.initrd.base <= boot.initrd.end /\ boot.initrd.base % BLOCK_SIZE = 0
        /\ ModuleFrames(boot)
             = Visited(boot.initrd.base, boot.initrd.end - boot.initrd.base)
    BY <1>1, <1>5, ModuleFacts
  <2>2. /\ f \in Nat /\ boot.initrd.base <= f * BLOCK_SIZE
        /\ (f + 1) * BLOCK_SIZE <= boot.initrd.end
    BY <1>1, <1>5 DEF WholeFrames
  <2>3. f \in ModuleFrames(boot)
    BY <2>1, <2>2, WholeVisited
  <2> QED BY <1>1, <1>5, <2>3
<1> QED BY <1>1, <1>3, <1>4, <1>5 DEF LoadedDataKept

(***************************************************************************)
(* The two reservations of ArchKernel::Init protect what the loader put    *)
(* into memory, as far as LoadedDataKept says.                             *)
(***************************************************************************)
THEOREM LoadedDataIsKept == BootSpec => []LoadedDataKept
<1>1. BootInv => LoadedDataKept
  BY InvKeepsData DEF BootInv
<1> QED BY <1>1, BootInvariant, PTL

(* Where a loader puts a module, the two reservations have no frame in     *)
(* common, and they lie in available memory but for the hole below the     *)
(* megabyte.                                                               *)
LEMMA Placement ==
  ASSUME NEW b \in Boots, b.mods_count > 0
  PROVE  /\ KernelFrames(b) \cap ModuleFrames(b) = {}
         /\ KernelFrames(b) \subseteq FreedBy(b) \cup FramesOf(0, LowMem)
         /\ ModuleFrames(b) \subseteq FreedBy(b)
         /\ KernelFrames(b) \subseteq FramesOf(0, KernelSpan(b))
         /\ ModuleFrames(b) \subseteq FramesOf(b.initrd.base, b.initrd.end)
<1> DEFINE d == BLOCK_SIZE
           base == b.initrd.base
           end == b.initrd.end
           k == KernelSpan(b)
<1>1. /\ base \in Nat /\ end \in Nat /\ base <= end /\ base % d = 0
      /\ ModuleFrames(b) = Visited(base, end - base)
  BY ModuleFacts
<1>2. k <= base /\ Visited(LowMem, end - LowMem) \subseteq FreedBy(b)
  BY PlacementAssumption
<1>3. d \in Nat \ {0} /\ LowMem \in Nat \ {0} /\ LowMem % d = 0
  BY PhysAssumption, ReportAssumption
<1>4. k \in Nat /\ LowMem <= k
  <2>1. k \in 1 .. (UintSpan - 1) /\ LowMem + BitmapSize(b) <= k /\ BitmapSize(b) \in Nat
    BY ReportFacts
  <2> HIDE DEF k
  <2>2. k \in Nat
    BY <2>1, PhysAssumption
  <2> QED BY <1>3, <2>1, <2>2
<1> HIDE DEF k, base, end
<1>5. ASSUME NEW f \in KernelFrames(b)
      PROVE  f \in Nat /\ f * d < k /\ (f + 1) * d <= k /\ f * d \in Nat
             /\ (f + 1) * d = f * d + d
  <2>1. f \in Nat
    BY KernelCount
  <2> QED BY <2>1, KernelFramesAre, Scaled DEF k
<1>6. ASSUME NEW f \in ModuleFrames(b)
      PROVE  f \in Nat /\ base \div d <= f /\ base <= f * d /\ (f + 1) * d <= end
             /\ f * d \in Nat /\ (f + 1) * d = f * d + d
  <2>1. f \in Nat /\ base \div d <= f /\ (f + 1) * d <= end
    BY <1>1, <1>6, VisitedEnds
  <2>2. base \div d \in Nat /\ (base \div d) * d = base
    BY <1>1, Whole
  <2> QED BY <2>1, <2>2, Scaled
<1>7. KernelFrames(b) \cap ModuleFrames(b) = {}
  <2>1. SUFFICES ASSUME NEW f \in KernelFrames(b), f \in ModuleFrames(b) PROVE FALSE
    OBVIOUS
  <2>2. f * d < k /\ base <= f * d /\ f * d \in Nat
    BY <1>5, <1>6, <2>1
  <2> QED BY <1>1, <1>2, <1>4, <2>2
<1>8. LowMem <= end
  BY <1>1, <1>2, <1>3, <1>4
<1>9. KernelFrames(b) \subseteq FreedBy(b) \cup FramesOf(0, LowMem)
  <2>1. SUFFICES ASSUME NEW f \in KernelFrames(b), f \notin FramesOf(0, LowMem)
                 PROVE  f \in FreedBy(b)
    OBVIOUS
  <2>2. f \in Nat /\ (f + 1) * d <= k /\ f * d \in Nat /\ (f + 1) * d = f * d + d
    BY <1>5
  <2>3. ~(f * d < LowMem)
    <3>1. 0 \div d = 0 /\ 0 \in Nat /\ 0 < LowMem
      BY <1>3
    <3>2. f \in FramesOf(0, LowMem) <=> 0 < LowMem /\ 0 \div d <= f /\ f * d < LowMem
      BY <1>3, <2>2, FramesOfIs
    <3> QED BY <2>1, <2>2, <3>1, <3>2
  <2>4. LowMem <= f * d /\ (f + 1) * d <= end
    BY <1>1, <1>2, <1>3, <1>4, <2>2, <2>3
  <2>5. f \in Visited(LowMem, end - LowMem)
    BY <1>1, <1>3, <1>8, <2>2, <2>4, WholeVisited
  <2> QED BY <1>2, <2>5
<1>10. ModuleFrames(b) \subseteq FreedBy(b)
  <2>1. SUFFICES ASSUME NEW f \in ModuleFrames(b) PROVE f \in FreedBy(b)
    OBVIOUS
  <2>2. f \in Nat /\ base <= f * d /\ (f + 1) * d <= end /\ f * d \in Nat
    BY <1>6
  <2>3. LowMem <= f * d
    BY <1>1, <1>2, <1>3, <1>4, <2>2
  <2>4. f \in Visited(LowMem, end - LowMem)
    BY <1>1, <1>3, <1>8, <2>2, <2>3, WholeVisited
  <2> QED BY <1>2, <2>4
<1>11. KernelFrames(b) \subseteq FramesOf(0, k)
  <2>1. SUFFICES ASSUME NEW f \in KernelFrames(b) PROVE f \in FramesOf(0, k)
    OBVIOUS
  <2>2. f \in Nat /\ f * d < k /\ 0 \div d = 0 /\ 0 < k
    BY <1>3, <1>4, <1>5
  <2>3. f \in FramesOf(0, k) <=> 0 < k /\ 0 \div d <= f /\ f * d < k
    BY <1>4, <2>2, FramesOfIs
  <2> QED BY <2>2, <2>3
<1>12. ModuleFrames(b) \subseteq FramesOf(base, end)
  <2>1. SUFFICES ASSUME NEW f \in ModuleFrames(b) PROVE f \in FramesOf(base, end)
    OBVIOUS
  <2>2. f \in Nat /\ base \div d <= f /\ base <= f * d /\ (f + 1) * d <= end
        /\ f * d \in Nat /\ (f + 1) * d = f * d + d
    BY <1>6
  <2>3. base < end /\ f * d < end
    BY <1>1, <1>3, <2>2
  <2> QED BY <1>1, <2>2, <2>3, FramesOfIs
<1> QED BY <1>7, <1>9, <1>10, <1>11, <1>12 DEF k, base, end

(* A set without two disjoint sets that lie in it but for a hole.          *)
LEMMA WithoutTwo ==
  ASSUME NEW F, NEW K, NEW I, NEW H, NEW L,
         IsFiniteSet(F), IsFiniteSet(K), IsFiniteSet(I), IsFiniteSet(H),
         K \cap I = {}, K \subseteq F \cup H, I \subseteq F,
         L \subseteq F, L \cap K = {}, L \cap I = {}
  PROVE  /\ IsFiniteSet(L)
         /\ Cardinality(L) <= Cardinality(F) - Cardinality(K) - Cardinality(I) + Cardinality(H)
<1> DEFINE J == K \cup I
<1>1. IsFiniteSet(L)
  BY FS_Subset
<1>2. IsFiniteSet(J) /\ Cardinality(J) = Cardinality(K) + Cardinality(I) - Cardinality(K \cap I)
  BY FS_Union
<1>3. Cardinality(K \cap I) = 0
  BY FS_EmptySet
<1> HIDE DEF J
<1>4. L \cap J = {} /\ J \cup L \subseteq F \cup H
  BY DEF J
<1>5. /\ IsFiniteSet(J \cup L)
      /\ Cardinality(J \cup L) = Cardinality(J) + Cardinality(L) - Cardinality(J \cap L)
  BY <1>1, <1>2, FS_Union
<1>6. J \cap L = {} /\ Cardinality(J \cap L) = 0
  BY <1>4, FS_EmptySet
<1>7. /\ IsFiniteSet(F \cup H) /\ Cardinality(F \cup H) \in Nat
      /\ Cardinality(F \cup H) <= Cardinality(F) + Cardinality(H)
  BY UnionBound
<1>8. Cardinality(J \cup L) <= Cardinality(F \cup H)
  BY <1>4, <1>7, FS_Subset
<1>9. /\ Cardinality(F) \in Nat /\ Cardinality(K) \in Nat /\ Cardinality(I) \in Nat
      /\ Cardinality(H) \in Nat /\ Cardinality(L) \in Nat /\ Cardinality(J) \in Nat
      /\ Cardinality(J \cup L) \in Nat
  BY <1>1, <1>2, <1>5, FS_CardinalityType
<1>10. Cardinality(J) = Cardinality(K) + Cardinality(I)
  BY <1>2, <1>3, <1>9
<1>11. Cardinality(J \cup L) = Cardinality(J) + Cardinality(L)
  BY <1>5, <1>6, <1>9
<1> QED BY <1>1, <1>7, <1>8, <1>9, <1>10, <1>11

(* Without room for the heap's first page hardly a frame was left.         *)
LEMMA InvShort == BootInv => FaultOnlyWhenShort
<1> DEFINE b == boot
           F == FreedBy(b)
           K == KernelFrames(b)
           I == ModuleFrames(b)
           H == BiosHole
           L == LeftOver
<1> SUFFICES ASSUME BootInv, halted = "exception", b.mods_count > 0, OneUpperRegion
             PROVE  Cardinality(L) < 2 + Cardinality(H)
  BY DEF FaultOnlyWhenShort
<1>1. b \in Boots /\ Room(b) <= 1
  BY DEF BootInv, PhysInv, Stages, FirstPageMissing
<1>2. Room(b) = Cardinality(F) - Cardinality(K) - Cardinality(I)
  BY <1>1, KernelCount, ModuleCount DEF Room
<1>3. IsFiniteSet(F) /\ IsFiniteSet(K) /\ IsFiniteSet(I)
  BY <1>1, FreedFinite, KernelCount, ModuleCount
<1>4. /\ K \cap I = {} /\ K \subseteq F \cup FramesOf(0, LowMem) /\ I \subseteq F
      /\ K \subseteq FramesOf(0, KernelSpan(b))
      /\ I \subseteq FramesOf(b.initrd.base, b.initrd.end)
  BY <1>1, Placement
<1>5. KernelSpan(b) = PageRoundUp(LowMem + GetBitmapSize)
  <2>1. LowMem \in Nat /\ BitmapSize(b) \in Nat
    BY <1>1, ReportFacts, PhysAssumption
  <2>2. LowMem + kernel_size + BitmapSize(b) = LowMem + BitmapSize(b)
    BY <2>1 DEF kernel_size
  <2> QED BY <2>2 DEF KernelSpan, GetBitmapSize
<1>6. H = FramesOf(0, LowMem) \ F
  BY DEF BiosHole, FreedByMap
<1>7. IsFiniteSet(H)
  <2>1. LowMem \in Nat /\ LowMem <= KernelSpan(b)
    <3>1. KernelSpan(b) \in 1 .. (UintSpan - 1) /\ LowMem + BitmapSize(b) <= KernelSpan(b)
          /\ BitmapSize(b) \in Nat
      BY <1>1, ReportFacts
    <3>2. KernelSpan(b) \in Nat
      BY <3>1, PhysAssumption
    <3> QED BY <3>1, <3>2, PhysAssumption
  <2>2. FramesOf(0, LowMem) \subseteq K
    BY <1>1, <2>1, ReservedBelow
  <2>3. H \in SUBSET K
    BY <1>6, <2>2
  <2> QED BY <1>3, <2>3, FS_Subset
<1>8. K \subseteq F \cup H
  BY <1>4, <1>6
<1>9. L \subseteq F /\ L \cap K = {} /\ L \cap I = {}
  BY <1>4, <1>5 DEF LeftOver, FreedByMap
<1> HIDE DEF b, F, K, I, H, L
<1>10. /\ IsFiniteSet(L)
       /\ Cardinality(L) <= Cardinality(F) - Cardinality(K) - Cardinality(I) + Cardinality(H)
  BY <1>3, <1>4, <1>7, <1>8, <1>9, WithoutTwo
<1>11. /\ Cardinality(L) \in Nat /\ Cardinality(F) \in Nat /\ Cardinality(K) \in Nat
       /\ Cardinality(I) \in Nat /\ Cardinality(H) \in Nat
  BY <1>3, <1>7, <1>10, FS_CardinalityType
<1> QED BY <1>1, <1>2, <1>10, <1>11

(***************************************************************************)
(* VirtualMem::Init never looks whether it got a frame, and the kernel     *)
(* still comes to its page fault only where memory was short.              *)
(***************************************************************************)
THEOREM FaultMeansShort == BootSpec => []FaultOnlyWhenShort
BY BootInvariant, InvShort, PTL
=============================================================================
