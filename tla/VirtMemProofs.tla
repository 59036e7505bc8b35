---------------------------- MODULE VirtMemProofs -----------------------------
(***************************************************************************)
(* Proofs about the page tables, for every size of tables, heap and        *)
(* memory.  The operations are functions of the memory m; what each does   *)
(* to the tables and to the entry of every page is stated once, and the    *)
(* invariant follows from that.                                            *)
(***************************************************************************)
EXTENDS VirtMem, FiniteSetTheorems, NatFacts, TLAPS

(***************************************************************************)
(* The directory entries that GetPageForAddress may make, and the pages    *)
(* under them.                                                             *)
(***************************************************************************)
PageDirs == (1 .. (SelfDir - 1)) \ {KernelDir}
Pages == Heap \cup VirtArgs

Made(m, d) == m.pd[d].present
Slot(m, v) == m.ram[m.pd[Dir(v)].frame][Idx(v)]

Above(n) == FirstFrame .. (FirstFrame + n - 1)

MemOK(m, n) ==
  /\ m = [pd |-> m.pd, ram |-> m.ram, free |-> m.free, failed |-> m.failed]
  /\ m.pd = [d \in 0 .. (Dirs - 1) |-> m.pd[d]]
  /\ m.ram = [f \in 0 .. (FirstFrame + n - 1) |-> m.ram[f]]
  /\ \A f \in 0 .. (FirstFrame + n - 1) :
       /\ m.ram[f] = [i \in 0 .. (Entries - 1) |-> m.ram[f][i]]
       /\ \A i \in 0 .. (Entries - 1) : m.ram[f][i].frame \in 0 .. (FrameField - 1)
  /\ m.free \subseteq Above(n)

(***************************************************************************)
(* A table that was made lies in a frame of its own that is not free, or   *)
(* at address zero if AllocateBlock had none.                              *)
(***************************************************************************)
TablesOK(m, n) ==
  /\ \A d \in 1 .. (SelfDir - 1) : d = KernelDir => m.pd[d].large
  /\ \A d \in PageDirs : Made(m, d) =>
       /\ ~m.pd[d].large
       /\ m.pd[d].frame \in {Null} \cup (Above(n) \ m.free)
       /\ m.pd[d].frame = Null => m.failed
  /\ \A d, e \in PageDirs :
       Made(m, d) /\ Made(m, e) /\ m.pd[d].frame = m.pd[e].frame /\ m.pd[d].frame # Null
         => d = e

NoNull(m) == \A d \in PageDirs : Made(m, d) => m.pd[d].frame # Null

-----------------------------------------------------------------------------
(* Directory and table index together are the page number.                 *)
LEMMA PageIndices ==
  /\ \A v \in Pages : Dir(v) \in PageDirs /\ Dir(v) \in 0 .. (Dirs - 1)
                      /\ Idx(v) \in 0 .. (Entries - 1)
  /\ \A v, w \in Pages : Dir(v) = Dir(w) /\ Idx(v) = Idx(w) => v = w
<1>1. Pages \subseteq Nat
  BY VirtMemAssumption DEF Pages, Heap
<1>2. \A v \in Nat : /\ v = Entries * (v \div Entries) + (v % Entries)
                     /\ v % Entries \in 0 .. (Entries - 1)
  BY DivMod, VirtMemAssumption
<1>3. \A v \in Pages : Dir(v) \in PageDirs
  BY VirtMemAssumption DEF Pages, PageDirs
<1>4. \A v \in Pages : Dir(v) \in 0 .. (Dirs - 1)
  BY <1>3, VirtMemAssumption DEF PageDirs, SelfDir
<1>5. \A v \in Pages : Idx(v) \in 0 .. (Entries - 1)
  BY <1>1, <1>2 DEF Idx
<1>6. \A v, w \in Pages : Dir(v) = Dir(w) /\ Idx(v) = Idx(w) => v = w
  BY <1>1, <1>2 DEF Idx, Dir
<1> QED BY <1>3, <1>4, <1>5, <1>6

(* AllocateBlock returns the lowest free frame, or null when there is none *)
LEMMA BlockLowest ==
  ASSUME NEW n \in Machines, NEW m, MemOK(m, n)
  PROVE  /\ m.free = {} => Block(m) = Null
         /\ m.free # {} => Block(m) \in m.free /\ \A g \in m.free : Block(m) <= g
         /\ Block(m) \in {Null} \cup Above(n)
         /\ Null \notin Above(n)
         /\ Above(n) \subseteq 0 .. (FirstFrame + n - 1) /\ Null \in 0 .. (FirstFrame + n - 1)
         /\ Above(n) \subseteq 0 .. (FrameField - 1)
<1>1. m.free \in SUBSET Nat /\ m.free \subseteq Above(n)
  BY VirtMemAssumption DEF MemOK, Above
<1>2. m.free # {} => Block(m) \in m.free /\ \A g \in m.free : Block(m) <= g
  BY <1>1, LeastNat DEF Block
<1>3. m.free = {} => Block(m) = Null
  BY DEF Block
<1>4. n \in Nat /\ FirstFrame + n <= FrameField
  BY VirtMemAssumption
<1> QED BY <1>1, <1>2, <1>3, <1>4, VirtMemAssumption DEF Above, Null

(***************************************************************************)
(* What GetPageForAddress does to the tables and to each page's entry:     *)
(* before m, afterwards g.                                                 *)
(***************************************************************************)
TableMade(m, g, v, r, u) ==
  /\ Made(g, Dir(v))
  /\ \A d \in PageDirs : d # Dir(v) \/ Made(m, d) => g.pd[d] = m.pd[d]
  /\ ~Made(m, Dir(v)) => g.pd[Dir(v)] = Pde(r, u, Block(m), FALSE)
  /\ g.free = IF Made(m, Dir(v)) THEN m.free ELSE m.free \ {Block(m)}
  /\ g.failed <=> m.failed \/ (~Made(m, Dir(v)) /\ m.free = {})
  /\ NoNull(g) =>
       /\ NoNull(m)
       /\ \A w \in Pages : Made(m, Dir(w)) => Slot(g, w) = Slot(m, w)
       /\ \A w \in Pages : ~Made(m, Dir(w)) /\ Dir(w) = Dir(v) => Slot(g, w) = Cleared

(* GetPageForAddress does so, and keeps the tables sound.                  *)
LEMMA GetPageEffect ==
  ASSUME NEW n \in Machines, NEW m, MemOK(m, n), TablesOK(m, n),
         NEW v \in Pages, NEW r \in BOOLEAN, NEW u \in BOOLEAN,
         NEW g, g = GetPageForAddress(m, v, r, u)
  PROVE  MemOK(g, n) /\ TablesOK(g, n) /\ TableMade(m, g, v, r, u)
<1>0. Dir(v) \in PageDirs /\ Dir(v) \in 0 .. (Dirs - 1) /\ PageDirs \subseteq 0 .. (Dirs - 1)
  BY PageIndices, VirtMemAssumption DEF PageDirs, SelfDir
<1>1. CASE Made(m, Dir(v))
  <2>1. g = m
    BY <1>1 DEF GetPageForAddress, Made
  <2> QED BY <2>1, <1>1 DEF TableMade
<1>2. CASE ~Made(m, Dir(v))
  <2> DEFINE b == Block(m)
  <2>1. /\ g.pd = [m.pd EXCEPT ![Dir(v)] = Pde(r, u, b, FALSE)]
        /\ g.ram = Filled(m.ram, b, ClearedEntry)
        /\ g.free = m.free \ {b}
        /\ g = [pd |-> g.pd, ram |-> g.ram, free |-> g.free, failed |-> g.failed]
    BY <1>2 DEF GetPageForAddress, Made, Taken
  <2>2. g.failed <=> (m.failed \/ m.free = {})
    BY <1>2 DEF GetPageForAddress, Made, Taken
  <2>3. b \in {Null} \cup Above(n) /\ (b = Null => m.free = {}) /\ (b # Null => b \in m.free)
    BY BlockLowest DEF MemOK
  <2>4. b \in 0 .. (FirstFrame + n - 1) /\ b \in 0 .. (FrameField - 1)
    BY <2>3, BlockLowest, VirtMemAssumption DEF Null
  <2> HIDE DEF b
  <2>5. \A d \in 0 .. (Dirs - 1) :
          g.pd[d] = IF d = Dir(v) THEN Pde(r, u, b, FALSE) ELSE m.pd[d]
    BY <2>1, <1>0 DEF MemOK
  <2>6. g.pd[Dir(v)].present /\ g.pd[Dir(v)].frame = b /\ ~g.pd[Dir(v)].large
    BY <2>5, <1>0 DEF Pde
  <2>7. \A f \in 0 .. (FirstFrame + n - 1) :
          g.ram[f] = IF f = b THEN [i \in 0 .. (Entries - 1) |-> Cleared] ELSE m.ram[f]
    BY <2>1 DEF MemOK, Filled, ClearedEntry
  <2>8. MemOK(g, n)
    <3>1. g.pd = [d \in 0 .. (Dirs - 1) |-> g.pd[d]]
      BY <2>1, <1>0 DEF MemOK
    <3>2. g.ram = [f \in 0 .. (FirstFrame + n - 1) |-> g.ram[f]]
      BY <2>1 DEF MemOK, Filled
    <3>3. Cleared.frame \in 0 .. (FrameField - 1)
      BY VirtMemAssumption DEF Cleared, Entry
    <3>4. ASSUME NEW f \in 0 .. (FirstFrame + n - 1)
          PROVE  /\ g.ram[f] = [i \in 0 .. (Entries - 1) |-> g.ram[f][i]]
                 /\ \A i \in 0 .. (Entries - 1) : g.ram[f][i].frame \in 0 .. (FrameField - 1)
      <4>1. CASE f = b
        BY <4>1, <2>7, <3>3
      <4>2. CASE f # b
        BY <4>2, <2>7 DEF MemOK
      <4> QED BY <4>1, <4>2
    <3>5. g.free \subseteq Above(n)
      BY <2>1 DEF MemOK
    <3> QED BY <3>1, <3>2, <3>4, <3>5, <2>1 DEF MemOK
  <2>9. TablesOK(g, n)
    <3>1. \A d \in 1 .. (SelfDir - 1) : d = KernelDir => g.pd[d].large
      <4> SUFFICES ASSUME NEW d \in 1 .. (SelfDir - 1), d = KernelDir PROVE g.pd[d].large
        OBVIOUS
      <4>1. d \in 0 .. (Dirs - 1) /\ d # Dir(v)
        BY <1>0, VirtMemAssumption DEF PageDirs, SelfDir
      <4>2. g.pd[d] = m.pd[d] /\ m.pd[d].large
        BY <4>1, <2>5 DEF TablesOK
      <4> QED BY <4>2
    <3>2. ASSUME NEW d \in PageDirs, Made(g, d)
          PROVE  /\ ~g.pd[d].large
                 /\ g.pd[d].frame \in {Null} \cup (Above(n) \ g.free)
                 /\ g.pd[d].frame = Null => g.failed
      BY <3>2, <2>1, <2>2, <2>3, <2>5, <2>6, <1>0 DEF TablesOK, Made
    <3>3. ASSUME NEW d \in PageDirs, NEW e \in PageDirs, Made(g, d), Made(g, e),
                 g.pd[d].frame = g.pd[e].frame, g.pd[d].frame # Null
          PROVE  d = e
      <4>1. \A c \in PageDirs \ {Dir(v)} : g.pd[c] = m.pd[c]
        BY <2>5, <1>0
      <4>2. \A c \in PageDirs \ {Dir(v)} :
              Made(g, c) /\ g.pd[c].frame # Null => Made(m, c) /\ g.pd[c].frame \notin m.free
        BY <4>1 DEF TablesOK, Made
      <4>3. b # Null => b \in m.free
        BY <2>3
      <4>4. CASE d = Dir(v) \/ e = Dir(v)
        BY <4>2, <4>3, <4>4, <3>3, <2>6
      <4>5. CASE d # Dir(v) /\ e # Dir(v)
        BY <4>1, <4>2, <4>5, <3>3 DEF TablesOK
      <4> QED BY <4>4, <4>5
    <3> QED BY <3>1, <3>2, <3>3 DEF TablesOK
  <2>10. \A d \in PageDirs : d # Dir(v) \/ Made(m, d) => g.pd[d] = m.pd[d]
    BY <2>5, <1>0, <1>2
  <2>11. ASSUME NoNull(g)
         PROVE  /\ NoNull(m)
                /\ \A w \in Pages : Made(m, Dir(w)) => Slot(g, w) = Slot(m, w)
                /\ \A w \in Pages : ~Made(m, Dir(w)) /\ Dir(w) = Dir(v) => Slot(g, w) = Cleared
    <3>1. NoNull(m)
      BY <2>11, <2>10, <1>2 DEF NoNull, Made
    <3>2. b # Null
      BY <2>11, <2>6, <1>0 DEF NoNull, Made
    <3>3. ASSUME NEW w \in Pages, Made(m, Dir(w)) PROVE Slot(g, w) = Slot(m, w)
      <4>1. Dir(w) \in PageDirs /\ m.pd[Dir(w)].frame \in Above(n) \ m.free
        BY <3>3, <3>1, PageIndices DEF TablesOK, NoNull
      <4>2. m.pd[Dir(w)].frame # b /\ m.pd[Dir(w)].frame \in 0 .. (FirstFrame + n - 1)
        BY <4>1, <2>3, <3>2, BlockLowest
      <4>3. g.pd[Dir(w)] = m.pd[Dir(w)]
        BY <2>10, <3>3, <4>1
      <4> QED BY <4>2, <4>3, <2>7 DEF Slot
    <3>4. ASSUME NEW w \in Pages, Dir(w) = Dir(v) PROVE Slot(g, w) = Cleared
      <4>1. g.ram[b] = [i \in 0 .. (Entries - 1) |-> Cleared] /\ Idx(w) \in 0 .. (Entries - 1)
        BY <2>4, <2>7, PageIndices
      <4>2. g.ram[b][Idx(w)] = Cleared
        BY <4>1
      <4> QED BY <3>4, <4>2, <2>6 DEF Slot
    <3> QED BY <3>1, <3>3, <3>4
  <2>12. Made(g, Dir(v)) /\ g.pd[Dir(v)] = Pde(r, u, b, FALSE)
    BY <2>5, <2>6, <1>0 DEF Made
  <2> QED BY <2>1, <2>2, <2>8, <2>9, <2>10, <2>11, <2>12, <1>2 DEF b, TableMade
<1> QED BY <1>1, <1>2

(* What storing an entry does to each page's entry: a page is disturbed by *)
(* no other page's.                                                        *)
LEMMA SetPageEffect ==
  ASSUME NEW n \in Machines, NEW m, MemOK(m, n), TablesOK(m, n),
         NEW v \in Pages, Made(m, Dir(v)),
         NEW e, e.frame \in 0 .. (FrameField - 1),
         NEW s, s = SetPage(m, v, e)
  PROVE  /\ MemOK(s, n) /\ TablesOK(s, n)
         /\ s.pd = m.pd /\ s.free = m.free /\ (s.failed <=> m.failed)
         /\ NoNull(m) => \A w \in Pages : Made(m, Dir(w)) =>
              Slot(s, w) = IF w = v THEN e ELSE Slot(m, w)
<1> DEFINE t == m.pd[Dir(v)].frame
<1>0. Dir(v) \in PageDirs /\ Idx(v) \in 0 .. (Entries - 1)
  BY PageIndices
<1>1. t \in 0 .. (FirstFrame + n - 1)
  BY <1>0, BlockLowest DEF TablesOK
<1>2. /\ s.pd = m.pd /\ s.free = m.free /\ (s.failed <=> m.failed)
      /\ s = [pd |-> s.pd, ram |-> s.ram, free |-> s.free, failed |-> s.failed]
      /\ s.ram = Stored(m.ram, t, Idx(v), e)
  BY DEF SetPage
<1> HIDE DEF t
<1>3. \A f \in 0 .. (FirstFrame + n - 1) :
        s.ram[f] = IF f = t THEN [m.ram[f] EXCEPT ![Idx(v)] = e] ELSE m.ram[f]
  BY <1>2 DEF MemOK, Stored
<1>4. MemOK(s, n)
  <2>1. s.ram = [f \in 0 .. (FirstFrame + n - 1) |-> s.ram[f]]
    BY <1>2 DEF MemOK, Stored
  <2>2. ASSUME NEW f \in 0 .. (FirstFrame + n - 1)
        PROVE  /\ s.ram[f] = [i \in 0 .. (Entries - 1) |-> s.ram[f][i]]
               /\ \A i \in 0 .. (Entries - 1) : s.ram[f][i].frame \in 0 .. (FrameField - 1)
    <3>1. m.ram[f] = [i \in 0 .. (Entries - 1) |-> m.ram[f][i]]
          /\ \A i \in 0 .. (Entries - 1) : m.ram[f][i].frame \in 0 .. (FrameField - 1)
      BY DEF MemOK
    <3>2. CASE f = t
      <4>1. s.ram[f] = [m.ram[f] EXCEPT ![Idx(v)] = e]
        BY <3>2, <1>3
      <4> QED BY <4>1, <3>1, <1>0
    <3>3. CASE f # t
      BY <3>1, <3>3, <1>3
    <3> QED BY <3>2, <3>3
  <2> QED BY <2>1, <2>2, <1>2 DEF MemOK
<1>5. TablesOK(s, n)
  BY <1>2 DEF TablesOK, Made
<1>6. ASSUME NoNull(m), NEW w \in Pages, Made(m, Dir(w))
      PROVE  Slot(s, w) = IF w = v THEN e ELSE Slot(m, w)
  <2>1. /\ Dir(w) \in PageDirs /\ Idx(w) \in 0 .. (Entries - 1)
        /\ m.pd[Dir(w)].frame \in 0 .. (FirstFrame + n - 1)
    BY <1>6, PageIndices, BlockLowest DEF TablesOK
  <2>2. m.ram[t] = [i \in 0 .. (Entries - 1) |-> m.ram[t][i]]
    BY <1>1 DEF MemOK
  <2>6. s.ram[t] = [m.ram[t] EXCEPT ![Idx(v)] = e]
    BY <1>1, <1>3
  <2>7. \A i \in 0 .. (Entries - 1) : s.ram[t][i] = IF i = Idx(v) THEN e ELSE m.ram[t][i]
    BY <2>2, <2>6, <1>0
  <2>3. CASE w = v
    BY <2>3, <2>7, <1>0, <1>2 DEF Slot, t
  <2>4. CASE w # v /\ Dir(w) = Dir(v)
    <3>1. Idx(w) # Idx(v)
      BY <2>4, PageIndices
    <3> QED BY <3>1, <2>4, <2>1, <2>7, <1>2 DEF Slot, t
  <2>5. CASE Dir(w) # Dir(v)
    <3>1. m.pd[Dir(w)].frame # t
      BY <2>5, <2>1, <1>0, <1>6 DEF TablesOK, NoNull, t
    <3> QED BY <3>1, <2>1, <2>5, <1>2, <1>3 DEF Slot
  <2> QED BY <2>3, <2>4, <2>5
<1> QED BY <1>2, <1>4, <1>5, <1>6

-----------------------------------------------------------------------------
(***************************************************************************)
(* The entry of a mapped heap page: a frame that is neither free nor a     *)
(* table nor another heap page's, writable, closed to user code.           *)
(***************************************************************************)
Filed(m, v) == Made(m, Dir(v)) /\ Slot(m, v).present

HeapSlots(m) ==
  /\ \A v \in Heap : Filed(m, v) =>
       /\ Slot(m, v).frame \notin m.free \cup {Null}
       /\ \A d \in PageDirs : Made(m, d) => Slot(m, v).frame # m.pd[d].frame
       /\ Slot(m, v).readWrite
  /\ \A v, w \in Heap :
       Filed(m, v) /\ Filed(m, w) /\ Slot(m, v).frame = Slot(m, w).frame => v = w

(***************************************************************************)
(* The user bit of a mapped page is set where the last call said so.       *)
(***************************************************************************)
UserSlots(m, o) ==
  \A v \in Pages : Filed(m, v) /\ Slot(m, v).isUser <=> v \in o

(***************************************************************************)
(* As long as AllocateBlock has not failed, the heap pages below p are     *)
(* mapped, under directory entries that are writable and closed.           *)
(***************************************************************************)
HeapDone(m, p) ==
  ~m.failed => \A v \in Heap : v < p =>
    /\ Filed(m, v)
    /\ m.pd[Dir(v)].readWrite /\ ~m.pd[Dir(v)].isUser

(***************************************************************************)
(* During Init only the heap has tables, one for each Entries pages begun, *)
(* and frames have been handed out from the lowest one on.                 *)
(***************************************************************************)
Begun(k) == (k + Entries - 1) \div Entries

InitOrder(m, n, k) ==
  /\ m.free = {} \/ m.free = (FirstFrame + k + Begun(k)) .. (FirstFrame + n - 1)
  /\ \A d \in PageDirs :
       /\ Made(m, d) <=> d \in Dir(HeapFirst) .. (Dir(HeapFirst) + Begun(k) - 1)
       /\ Made(m, d) => m.pd[d].readWrite /\ ~m.pd[d].isUser

IInv ==
  /\ stage \in {"boot", "heap", "running"}
  /\ page \in HeapFirst .. (HeapFirst + HeapPages)
  /\ stage = "running" => page = HeapFirst + HeapPages
  /\ opened \subseteq VirtArgs
  /\ \E n \in Machines :
       /\ MemOK(vm, n) /\ TablesOK(vm, n)
       /\ stage # "running" => InitOrder(vm, n, page - HeapFirst)
  /\ NoNull(vm) => HeapSlots(vm) /\ UserSlots(vm, opened)
  /\ HeapDone(vm, page)

-----------------------------------------------------------------------------
(* Counting tables: the table of the page that is k pages into the heap is *)
(* there exactly if an earlier page needed it.                             *)
LEMMA BegunCounts ==
  ASSUME NEW k \in Nat
  PROVE  /\ Begun(k) \in Nat /\ Begun(k + 1) \in Nat \ {0} /\ Dir(HeapFirst) \in Nat
         /\ Dir(HeapFirst + k) = Dir(HeapFirst) + Begun(k + 1) - 1
         /\ k % Entries = 0 => Begun(k) = k \div Entries /\ Begun(k + 1) = Begun(k) + 1
         /\ k % Entries # 0 => Begun(k + 1) = Begun(k)
<1> DEFINE q == k \div Entries
           r == k % Entries
           h == HeapFirst \div Entries
<1>0. Entries \in Nat \ {0} /\ HeapFirst \in Nat /\ Entries >= 2
  BY VirtMemAssumption
<1>1. q \in Nat /\ r \in 0 .. (Entries - 1) /\ k = Entries * q + r
  BY <1>0, DivMod
<1>2. h \in Nat /\ HeapFirst = Entries * h
  <2>1. h \in Nat /\ HeapFirst = Entries * h + (HeapFirst % Entries)
    BY <1>0, DivMod
  <2>2. HeapFirst % Entries = 0
    BY VirtMemAssumption
  <2>3. Entries * h \in Nat
    BY <1>0, <2>1
  <2> HIDE DEF h
  <2> QED BY <2>1, <2>2, <2>3, <1>0
<1>3. Dir(HeapFirst) = h /\ Dir(HeapFirst + k) = (HeapFirst + k) \div Entries
  BY DEF Dir
<1> HIDE DEF q, r, h
<1>4. Entries * q \in Nat /\ Entries * h \in Nat
  BY <1>0, <1>1, <1>2
<1>5. Entries * (h + q) = Entries * h + Entries * q /\ Entries * (q + 1) = Entries * q + Entries
  BY <1>0, <1>1, <1>2
<1>6. HeapFirst + k = Entries * (h + q) + r
  BY <1>1, <1>2, <1>4, <1>5
<1>7. Dir(HeapFirst + k) = h + q
  <2>1. HeapFirst + k \in Nat /\ h + q \in Nat
    BY <1>0, <1>1, <1>2
  <2> HIDE DEF Dir
  <2>2. (HeapFirst + k) \div Entries = h + q
    BY <2>1, <1>0, <1>1, <1>6, QuotientUnique
  <2> QED BY <2>2, <1>3
<1>8. k + 1 + Entries - 1 = Entries * (q + 1) + r
  BY <1>0, <1>1, <1>4, <1>5
<1>9. Begun(k + 1) = q + 1
  <2>1. k + 1 + Entries - 1 \in Nat /\ q + 1 \in Nat
    BY <1>0, <1>1
  <2> QED BY <2>1, <1>0, <1>1, <1>8, QuotientUnique DEF Begun
<1>10. ASSUME r = 0 PROVE Begun(k) = q
  <2>1. k + Entries - 1 = Entries * q + (Entries - 1) /\ k + Entries - 1 \in Nat
        /\ Entries - 1 \in 0 .. (Entries - 1)
    BY <1>0, <1>1, <1>4, <1>10
  <2> QED BY <2>1, <1>0, <1>1, QuotientUnique DEF Begun
<1>11. ASSUME r # 0 PROVE Begun(k) = q + 1
  <2>1. k + Entries - 1 = Entries * (q + 1) + (r - 1) /\ k + Entries - 1 \in Nat
        /\ r - 1 \in 0 .. (Entries - 1) /\ q + 1 \in Nat
    BY <1>0, <1>1, <1>4, <1>5, <1>11
  <2> QED BY <2>1, <1>0, <1>1, QuotientUnique DEF Begun
<1>12. q = k \div Entries /\ r = k % Entries
  BY DEF q, r
<1>13. Begun(k) \in Nat /\ Begun(k + 1) \in Nat \ {0}
  BY <1>1, <1>9, <1>10, <1>11
<1>14. Dir(HeapFirst + k) = Dir(HeapFirst) + Begun(k + 1) - 1
  BY <1>1, <1>2, <1>3, <1>7, <1>9
<1>15. r = 0 => Begun(k) = q /\ Begun(k + 1) = Begun(k) + 1
  BY <1>9, <1>10
<1>16. r # 0 => Begun(k + 1) = Begun(k)
  BY <1>9, <1>11
<1> QED BY <1>2, <1>3, <1>12, <1>13, <1>14, <1>15, <1>16

(***************************************************************************)
(* From m to g no page is mapped, unmapped or mapped otherwise.            *)
(***************************************************************************)
Undisturbed(m, g) ==
  /\ \A w \in Pages : Filed(g, w) <=> Filed(m, w)
  /\ \A w \in Pages : Filed(m, w) => Slot(g, w) = Slot(m, w) /\ g.pd[Dir(w)] = m.pd[Dir(w)]

(* A table that is made disturbs nothing that was mapped.                  *)
LEMMA GetPageKeeps ==
  ASSUME NEW n \in Machines, NEW m, MemOK(m, n), TablesOK(m, n),
         NEW v \in Pages, NEW r \in BOOLEAN, NEW u \in BOOLEAN,
         NEW g, g = GetPageForAddress(m, v, r, u), NoNull(g)
  PROVE  NoNull(m) /\ Undisturbed(m, g) /\ (HeapSlots(m) => HeapSlots(g))
<1>1. /\ \A d \in PageDirs : d # Dir(v) \/ Made(m, d) => g.pd[d] = m.pd[d]
      /\ g.free \subseteq m.free /\ NoNull(m)
      /\ ~Made(m, Dir(v)) => g.pd[Dir(v)] = Pde(r, u, Block(m), FALSE)
      /\ \A w \in Pages : Made(m, Dir(w)) => Slot(g, w) = Slot(m, w)
      /\ \A w \in Pages : ~Made(m, Dir(w)) /\ Dir(w) = Dir(v) => Slot(g, w) = Cleared
  <2>1. TableMade(m, g, v, r, u)
    BY GetPageEffect, Zenon
  <2> QED BY <2>1 DEF TableMade
<1>2. ~Cleared.present
  BY DEF Cleared, Entry
<1>3. ASSUME NEW w \in Pages
      PROVE  /\ Filed(g, w) <=> Filed(m, w)
             /\ Filed(m, w) => Slot(g, w) = Slot(m, w) /\ g.pd[Dir(w)] = m.pd[Dir(w)]
  <2>1. Dir(w) \in PageDirs
    BY PageIndices
  <2>2. CASE Made(m, Dir(w))
    BY <2>1, <2>2, <1>1 DEF Filed, Made
  <2>3. CASE ~Made(m, Dir(w)) /\ Dir(w) = Dir(v)
    BY <2>1, <2>3, <1>1, <1>2 DEF Filed
  <2>4. CASE ~Made(m, Dir(w)) /\ Dir(w) # Dir(v)
    BY <2>1, <2>4, <1>1 DEF Filed, Made
  <2> QED BY <2>2, <2>3, <2>4
<1>4. ASSUME HeapSlots(m) PROVE HeapSlots(g)
  <2>0. Heap \subseteq Pages
    BY DEF Pages
  <2>1. ~Made(m, Dir(v)) => g.pd[Dir(v)].frame = Block(m) /\ Made(g, Dir(v))
    BY <1>1 DEF Pde, Made
  <2>2. ~Made(m, Dir(v)) => Block(m) \in m.free
    <3>1. ~Made(m, Dir(v)) => Block(m) # Null
      BY <2>1, PageIndices DEF NoNull
    <3> QED BY <3>1, BlockLowest
  <2>3. ASSUME NEW w \in Heap, Filed(g, w), NEW d \in PageDirs, Made(g, d)
        PROVE  Slot(g, w).frame # g.pd[d].frame
    <3>1. Filed(m, w) /\ Slot(g, w) = Slot(m, w)
      BY <2>0, <2>3, <1>3
    <3>2. CASE d # Dir(v) \/ Made(m, d)
      BY <3>1, <3>2, <2>3, <1>1, <1>4 DEF HeapSlots, Made
    <3>3. CASE d = Dir(v) /\ ~Made(m, d)
      BY <3>1, <3>3, <2>1, <2>2, <1>4 DEF HeapSlots
    <3> QED BY <3>2, <3>3
  <2>4. ASSUME NEW w \in Heap, Filed(g, w)
        PROVE  Slot(g, w).frame \notin g.free \cup {Null} /\ Slot(g, w).readWrite
    BY <2>0, <2>4, <1>1, <1>3, <1>4 DEF HeapSlots
  <2>5. ASSUME NEW w \in Heap, NEW z \in Heap, Filed(g, w), Filed(g, z),
               Slot(g, w).frame = Slot(g, z).frame
        PROVE  w = z
    BY <2>0, <2>5, <1>3, <1>4 DEF HeapSlots
  <2> QED BY <2>3, <2>4, <2>5 DEF HeapSlots
<1> QED BY <1>1, <1>3, <1>4 DEF Undisturbed

(* Taking a frame leaves tables and entries alone.                         *)
LEMMA TakenEffect ==
  ASSUME NEW n \in Machines, NEW m, MemOK(m, n), TablesOK(m, n),
         NEW t, t = Taken(m)
  PROVE  /\ MemOK(t, n) /\ TablesOK(t, n)
         /\ t.pd = m.pd /\ t.ram = m.ram
         /\ t.free = m.free \ {Block(m)}
         /\ t.failed <=> m.failed \/ m.free = {}
<1>1. /\ t.pd = m.pd /\ t.ram = m.ram /\ t.free = m.free \ {Block(m)}
      /\ t.failed <=> m.failed \/ m.free = {}
      /\ t = [pd |-> t.pd, ram |-> t.ram, free |-> t.free, failed |-> t.failed]
  BY DEF Taken
<1>2. MemOK(t, n)
  BY <1>1 DEF MemOK
<1>3. TablesOK(t, n)
  BY <1>1 DEF TablesOK, Made
<1> QED BY <1>1, <1>2, <1>3

(* Entering a page maps it and leaves every other page as it was.          *)
LEMMA SetPageFiles ==
  ASSUME NEW n \in Machines, NEW m, MemOK(m, n), TablesOK(m, n), NoNull(m),
         NEW v \in Pages, Made(m, Dir(v)),
         NEW e, e.frame \in 0 .. (FrameField - 1), e.present,
         NEW s, s = SetPage(m, v, e)
  PROVE  /\ NoNull(s)
         /\ \A w \in Pages : Filed(s, w) <=> w = v \/ Filed(m, w)
         /\ \A w \in Pages : Filed(s, w) => Slot(s, w) = IF w = v THEN e ELSE Slot(m, w)
<1>1. /\ s.pd = m.pd
      /\ \A w \in Pages : Made(m, Dir(w)) => Slot(s, w) = IF w = v THEN e ELSE Slot(m, w)
  BY SetPageEffect
<1>2. NoNull(s)
  BY <1>1 DEF NoNull, Made
<1>3. ASSUME NEW w \in Pages
      PROVE  /\ Filed(s, w) <=> w = v \/ Filed(m, w)
             /\ Filed(s, w) => Slot(s, w) = IF w = v THEN e ELSE Slot(m, w)
  BY <1>1 DEF Filed, Made
<1> QED BY <1>2, <1>3

(* One turn of Init's loop over the heap.                                  *)
LEMMA HeapPageIInv ==
  ASSUME IInv, InitHeapPage
  PROVE  IInv'
<1>1. PICK n \in Machines : MemOK(vm, n) /\ TablesOK(vm, n) /\ InitOrder(vm, n, page - HeapFirst)
  BY DEF IInv, InitHeapPage
<1> DEFINE k == page - HeapFirst
           g == GetPageForAddress(vm, page, TRUE, FALSE)
           t == Taken(g)
           e == Entry(TRUE, TRUE, FALSE, Block(g))
           s == vm'
<1>2. /\ page \in Heap /\ page \in Pages /\ page \notin opened /\ k \in Nat /\ page = HeapFirst + k
      /\ page + 1 \in HeapFirst .. (HeapFirst + HeapPages) /\ page + 1 - HeapFirst = k + 1
      /\ Heap \subseteq Pages /\ \A v \in Heap : v \in Nat
  BY VirtMemAssumption DEF IInv, InitHeapPage, HeapLoop, Heap, Pages
<1>3. MemOK(g, n) /\ TablesOK(g, n) /\ TableMade(vm, g, page, TRUE, FALSE)
  BY <1>1, <1>2, GetPageEffect, Zenon
<1>4. /\ MemOK(t, n) /\ TablesOK(t, n) /\ t.pd = g.pd /\ t.ram = g.ram
      /\ t.free = g.free \ {Block(g)} /\ (t.failed <=> g.failed \/ g.free = {})
  BY <1>3, TakenEffect, Zenon
<1>13. g = GetPageForAddress(vm, page, TRUE, FALSE)
  OBVIOUS
<1>6. s = IF Block(g) = Null THEN t ELSE SetPage(t, page, e)
  BY DEF InitHeapPage, AllocatePage
<1>7. Made(t, Dir(page)) /\ e.present /\ e.readWrite /\ ~e.isUser /\ e.frame = Block(g)
  BY <1>3, <1>4 DEF TableMade, Made, Entry
<1> HIDE DEF g, t, e
<1>5. /\ g.free = {} => Block(g) = Null
      /\ g.free # {} => Block(g) \in g.free /\ \A f \in g.free : Block(g) <= f
      /\ Block(g) \in 0 .. (FrameField - 1) /\ Null \notin Above(n) /\ g.free \subseteq Above(n)
  <2>1. /\ g.free = {} => Block(g) = Null
        /\ g.free # {} => Block(g) \in g.free /\ \A f \in g.free : Block(g) <= f
        /\ Block(g) \in {Null} \cup Above(n)
        /\ Null \notin Above(n) /\ Above(n) \subseteq 0 .. (FrameField - 1)
    BY <1>3, BlockLowest
  <2>2. g.free \subseteq Above(n)
    BY <1>3 DEF MemOK
  <2>3. Null \in 0 .. (FrameField - 1)
    BY VirtMemAssumption DEF Null
  <2> QED BY <2>1, <2>2, <2>3
<1>8. /\ MemOK(s, n) /\ TablesOK(s, n) /\ s.pd = g.pd
      /\ s.free = g.free \ {Block(g)} /\ (s.failed <=> g.failed \/ g.free = {})
  <2>1. CASE Block(g) = Null
    BY <2>1, <1>4, <1>6
  <2>2. CASE Block(g) # Null
    <3>1. e.frame \in 0 .. (FrameField - 1) /\ s = SetPage(t, page, e)
      BY <2>2, <1>5, <1>6, <1>7
    <3>2. /\ MemOK(s, n) /\ TablesOK(s, n)
          /\ s.pd = t.pd /\ s.free = t.free /\ (s.failed <=> t.failed)
      BY <3>1, <1>2, <1>4, <1>7, SetPageEffect
    <3> QED BY <3>2, <1>4
  <2> QED BY <2>1, <2>2
<1>9. InitOrder(s, n, k + 1)
  <2>1. /\ Begun(k) \in Nat /\ Begun(k + 1) \in Nat \ {0} /\ Dir(HeapFirst) \in Nat
        /\ Dir(page) = Dir(HeapFirst) + Begun(k + 1) - 1
        /\ k % Entries = 0 => Begun(k + 1) = Begun(k) + 1
        /\ k % Entries # 0 => Begun(k + 1) = Begun(k)
    BY <1>2, BegunCounts
  <2>2. Dir(page) \in PageDirs /\ PageDirs \subseteq Nat
    BY <1>2, PageIndices DEF PageDirs
  <2>3. Made(vm, Dir(page)) <=> k % Entries # 0
    BY <1>1, <2>1, <2>2 DEF InitOrder
  <2>4. \A d \in PageDirs : Made(s, d) <=> Made(vm, d) \/ d = Dir(page)
    BY <1>3, <1>8 DEF TableMade, Made
  <2>5. \A d \in PageDirs :
          Made(s, d) <=> d \in Dir(HeapFirst) .. (Dir(HeapFirst) + Begun(k + 1) - 1)
    BY <1>1, <2>1, <2>2, <2>3, <2>4 DEF InitOrder
  <2>6. \A d \in PageDirs : Made(s, d) => s.pd[d].readWrite /\ ~s.pd[d].isUser
    <3>1. ~Made(vm, Dir(page)) => s.pd[Dir(page)].readWrite /\ ~s.pd[Dir(page)].isUser
      BY <1>3, <1>8 DEF TableMade, Pde
    <3>2. \A d \in PageDirs : Made(vm, d) => s.pd[d].readWrite /\ ~s.pd[d].isUser
      BY <1>1, <1>3, <1>8 DEF InitOrder, TableMade
    <3> QED BY <3>1, <3>2, <2>4
  <2>7. s.free = {} \/ s.free = (FirstFrame + (k + 1) + Begun(k + 1)) .. (FirstFrame + n - 1)
    <3> DEFINE lo == FirstFrame + k + Begun(k)
               top == FirstFrame + n - 1
    <3>1. lo \in Nat /\ top \in Nat
      BY <1>2, <2>1, VirtMemAssumption
    <3>2. vm.free = {} \/ vm.free = lo .. top
      BY <1>1 DEF InitOrder
    <3>3. /\ vm.free # {} => Block(vm) \in vm.free /\ \A f \in vm.free : Block(vm) <= f
      BY <1>1, BlockLowest
    <3>4. g.free = IF k % Entries # 0 THEN vm.free ELSE vm.free \ {Block(vm)}
      BY <1>3, <2>3 DEF TableMade
    <3> HIDE DEF lo, top
    <3>5. g.free = {} \/ g.free = (IF k % Entries # 0 THEN lo ELSE lo + 1) .. top
      <4>1. vm.free \ {Block(vm)} = {} \/ vm.free \ {Block(vm)} = (lo + 1) .. top
        BY <3>1, <3>2, <3>3, RangeWithoutLeast
      <4> QED BY <4>1, <3>2, <3>4
    <3> DEFINE lg == IF k % Entries # 0 THEN lo ELSE lo + 1
    <3>6. lg \in Nat /\ lg + 1 = FirstFrame + (k + 1) + Begun(k + 1)
      BY <3>1, <2>1, <1>2, VirtMemAssumption DEF lo
    <3>7. g.free = {} \/ g.free = lg .. top
      BY <3>5
    <3> HIDE DEF lg
    <3>8. g.free \ {Block(g)} = {} \/ g.free \ {Block(g)} = (lg + 1) .. top
      <4>1. g.free # {} => Block(g) \in g.free /\ \A f \in g.free : Block(g) <= f
        BY <1>5
      <4> QED BY <4>1, <3>1, <3>6, <3>7, RangeWithoutLeast
    <3> QED BY <3>8, <3>6, <1>8 DEF top
  <2> QED BY <2>5, <2>6, <2>7 DEF InitOrder
<1>10. NoNull(s) => HeapSlots(s) /\ UserSlots(s, opened)
  <2> SUFFICES ASSUME NoNull(s) PROVE HeapSlots(s) /\ UserSlots(s, opened)
    OBVIOUS
  <2>1. NoNull(g) /\ NoNull(t)
    BY <1>4, <1>8 DEF NoNull, Made
  <2>2. NoNull(vm) /\ Undisturbed(vm, g) /\ (HeapSlots(vm) => HeapSlots(g))
    BY <2>1, <1>1, <1>2, <1>13, GetPageKeeps, Zenon
  <2>3. HeapSlots(g) /\ UserSlots(vm, opened)
    BY <2>2 DEF IInv
  <2>4. \A w \in Pages : (Filed(t, w) <=> Filed(g, w)) /\ Slot(t, w) = Slot(g, w)
    BY <1>4 DEF Filed, Made, Slot
  <2>5. CASE Block(g) = Null
    <3>1. s = t
      BY <2>5, <1>6
    <3>2. HeapSlots(s)
      BY <3>1, <2>3, <2>4, <1>2, <1>4 DEF HeapSlots, Made
    <3>3. UserSlots(s, opened)
      BY <3>1, <2>2, <2>3, <2>4 DEF UserSlots, Undisturbed
    <3> QED BY <3>2, <3>3
  <2>6. CASE Block(g) # Null
    <3>1. s = SetPage(t, page, e) /\ e.frame \in 0 .. (FrameField - 1)
      BY <2>6, <1>5, <1>6, <1>7
    <3>2. /\ \A w \in Pages : Filed(s, w) <=> w = page \/ Filed(t, w)
          /\ \A w \in Pages : Filed(s, w) => Slot(s, w) = IF w = page THEN e ELSE Slot(t, w)
      BY <3>1, <2>1, <1>2, <1>4, <1>7, SetPageFiles
    <3>3. Block(g) \in g.free /\ Block(g) \notin s.free
      BY <2>6, <1>5, <1>8
    <3>4. ASSUME NEW w \in Heap, Filed(s, w)
          PROVE  /\ Slot(s, w).frame \notin s.free \cup {Null} /\ Slot(s, w).readWrite
                 /\ \A d \in PageDirs : Made(s, d) => Slot(s, w).frame # s.pd[d].frame
      <4>1. CASE w = page
        <5>1. Slot(s, w) = e
          BY <4>1, <3>2, <3>4, <1>2
        <5>2. \A d \in PageDirs : Made(s, d) => s.pd[d].frame # Block(g)
          BY <3>3, <2>6, <1>3, <1>8 DEF TablesOK, Made
        <5> QED BY <5>1, <5>2, <3>3, <2>6, <1>7
      <4>2. CASE w # page
        <5>1. Filed(g, w) /\ Slot(s, w) = Slot(g, w)
          BY <4>2, <3>2, <3>4, <2>4, <1>2
        <5> QED BY <5>1, <2>3, <1>8 DEF HeapSlots, Made
      <4> QED BY <4>1, <4>2
    <3>5. \A w \in Heap : Filed(s, w) /\ w # page =>
            Filed(g, w) /\ Slot(s, w) = Slot(g, w) /\ Slot(s, w).frame # Block(g)
      BY <3>2, <3>3, <2>3, <2>4, <1>2 DEF HeapSlots
    <3>6. Filed(s, page) => Slot(s, page).frame = Block(g)
      BY <3>2, <1>2, <1>7
    <3>7. ASSUME NEW w \in Heap, NEW z \in Heap, Filed(s, w), Filed(s, z),
                 Slot(s, w).frame = Slot(s, z).frame
          PROVE  w = z
      BY <3>5, <3>6, <3>7, <2>3 DEF HeapSlots
    <3>8. HeapSlots(s)
      BY <3>4, <3>7 DEF HeapSlots
    <3>9. UserSlots(s, opened)
      BY <3>2, <2>2, <2>3, <2>4, <1>2, <1>7 DEF UserSlots, Undisturbed
    <3> QED BY <3>8, <3>9
  <2> QED BY <2>5, <2>6
<1>11. HeapDone(s, page + 1)
  <2> SUFFICES ASSUME ~s.failed, NEW v \in Heap, v < page + 1
               PROVE  /\ Filed(s, v)
                      /\ s.pd[Dir(v)].readWrite /\ ~s.pd[Dir(v)].isUser
    BY DEF HeapDone
  <2>1. NoNull(s) /\ NoNull(g) /\ NoNull(t)
    BY <1>4, <1>8 DEF NoNull, Made, TablesOK
  <2>2. Undisturbed(vm, g)
    BY <2>1, <1>1, <1>2, <1>13, GetPageKeeps, Zenon
  <2>3. ~vm.failed /\ ~g.failed /\ g.free # {}
    BY <1>3, <1>8 DEF TableMade
  <2>4. Block(g) # Null
    BY <2>3, <1>5
  <2>5. s = SetPage(t, page, e) /\ e.frame \in 0 .. (FrameField - 1)
    BY <2>4, <1>5, <1>6, <1>7
  <2>6. \A w \in Pages : Filed(s, w) <=> w = page \/ Filed(t, w)
    BY <2>5, <2>1, <1>2, <1>4, <1>7, SetPageFiles
  <2>7. \A w \in Pages : Filed(t, w) <=> Filed(g, w)
    BY <1>4 DEF Filed, Made, Slot
  <2>8. v < page => Filed(vm, v)
    BY <2>3 DEF IInv, HeapDone
  <2>9. Filed(s, v)
    BY <2>2, <2>6, <2>7, <2>8, <1>2 DEF Undisturbed
  <2>10. Made(s, Dir(v)) /\ Dir(v) \in PageDirs
    BY <2>9, <1>2, PageIndices DEF Filed
  <2> QED BY <2>9, <2>10, <1>9 DEF InitOrder
<1>12. /\ stage' = stage /\ stage = "heap" /\ opened' = opened /\ page' = page + 1
  BY DEF InitHeapPage
<1>14. page' - HeapFirst = k + 1
  <2>1. page \in Nat /\ HeapFirst \in Nat
    BY <1>2, VirtMemAssumption
  <2> QED BY <2>1, <1>12
<1>15. \E nn \in Machines :
         /\ MemOK(s, nn) /\ TablesOK(s, nn)
         /\ stage' # "running" => InitOrder(s, nn, page' - HeapFirst)
  BY <1>8, <1>9, <1>14
<1>16. opened \subseteq VirtArgs
  BY DEF IInv
<1> QED BY <1>2, <1>10, <1>11, <1>12, <1>15, <1>16 DEF IInv

(* The table of the first 4 MB lands outside the heap's tables.            *)
LEMMA LowIInv ==
  ASSUME IInv, InitLow
  PROVE  IInv'
<1>1. PICK n \in Machines : MemOK(vm, n) /\ TablesOK(vm, n) /\ InitOrder(vm, n, page - HeapFirst)
  BY DEF IInv, InitLow
<1> DEFINE frame == AsFrame(Block(vm))
           s == vm'
<1>2. /\ page = HeapFirst + HeapPages /\ page - HeapFirst = HeapPages /\ HeapPages \in Nat
      /\ stage' = "running" /\ page' = page /\ opened' = opened
  BY VirtMemAssumption DEF IInv, InitLow, HeapLoop
<1>3. /\ vm.free = {} => Block(vm) = Null
      /\ vm.free # {} => Block(vm) \in vm.free /\ \A f \in vm.free : Block(vm) <= f
      /\ Above(n) \subseteq 0 .. (FirstFrame + n - 1) /\ Null \in 0 .. (FirstFrame + n - 1)
  BY <1>1, BlockLowest
<1>4. Begun(HeapPages) = HeapPages \div Entries /\ HeapPages \div Entries \in Nat
  BY <1>2, BegunCounts, VirtMemAssumption
<1>5. \A d \in PageDirs : Made(vm, d) /\ vm.pd[d].frame # Null => vm.pd[d].frame # frame
  <2> SUFFICES ASSUME NEW d \in PageDirs, Made(vm, d), vm.pd[d].frame # Null,
                      vm.pd[d].frame = frame
               PROVE  FALSE
    OBVIOUS
  <2>1. vm.pd[d].frame \in Above(n) \ vm.free
    BY <1>1 DEF TablesOK
  <2>2. CASE vm.free = {}
    <3>1. frame = 0
      BY <2>2, <1>3, VirtMemAssumption DEF AsFrame, Null
    <3> QED BY <3>1 DEF Null
  <2>3. CASE vm.free # {}
    <3>1. LowFrame \in Nat /\ FirstFrame + n - 1 \in Nat
      BY <1>2, <1>4, VirtMemAssumption DEF LowFrame
    <3>2. vm.free = LowFrame .. (FirstFrame + n - 1)
      BY <2>3, <1>1, <1>2, <1>4 DEF InitOrder, LowFrame
    <3>3. Block(vm) = LowFrame
      <4>1. vm.free # {} => Block(vm) \in vm.free /\ \A f \in vm.free : Block(vm) <= f
        BY <1>3
      <4>2. LowFrame \in vm.free
        BY <3>1, <3>2, <2>3
      <4>3. Block(vm) \in LowFrame .. (FirstFrame + n - 1) /\ Block(vm) <= LowFrame
        BY <4>1, <4>2, <3>2
      <4> QED BY <4>3, <3>1
    <3>4. vm.pd[d].frame \in FirstFrame .. (LowFrame - 1)
      BY <3>1, <3>2, <2>1, VirtMemAssumption DEF Above
    <3> QED BY <3>3, <3>4, LowTableAssumption
  <2> QED BY <2>2, <2>3
<1>6. /\ s.pd = [vm.pd EXCEPT ![0] = Pde(TRUE, TRUE, frame, FALSE)]
      /\ s.ram = Filled(vm.ram, frame, LowEntry)
      /\ s.free = vm.free \ {Block(vm)}
      /\ s.failed <=> vm.failed \/ vm.free = {}
      /\ s = [pd |-> s.pd, ram |-> s.ram, free |-> s.free, failed |-> s.failed]
  BY DEF InitLow, Taken
<1> HIDE DEF frame
<1>7. \A d \in 1 .. (Dirs - 1) : s.pd[d] = vm.pd[d]
  <2>1. vm.pd = [d \in 0 .. (Dirs - 1) |-> vm.pd[d]]
    BY <1>1 DEF MemOK
  <2>2. ASSUME NEW d \in 1 .. (Dirs - 1) PROVE s.pd[d] = vm.pd[d]
    <3>1. d \in 0 .. (Dirs - 1) /\ d # 0
      BY VirtMemAssumption
    <3> QED BY <3>1, <2>1, <1>6
  <2> QED BY <2>2
<1>8. PageDirs \subseteq 1 .. (Dirs - 1) /\ 1 .. (SelfDir - 1) \subseteq 1 .. (Dirs - 1)
  BY VirtMemAssumption DEF PageDirs, SelfDir
<1>9. \A f \in 0 .. (FirstFrame + n - 1) :
        s.ram[f] = IF f = frame THEN [i \in 0 .. (Entries - 1) |-> LowEntry(i)] ELSE vm.ram[f]
  BY <1>1, <1>6 DEF MemOK, Filled
<1>10. MemOK(s, n)
  <2>1. s.pd = [d \in 0 .. (Dirs - 1) |-> s.pd[d]]
    BY <1>1, <1>6 DEF MemOK
  <2>2. s.ram = [f \in 0 .. (FirstFrame + n - 1) |-> s.ram[f]]
    BY <1>1, <1>6 DEF MemOK, Filled
  <2>3. \A i \in 0 .. (Entries - 1) : LowEntry(i).frame \in 0 .. (FrameField - 1)
    <3>2. ASSUME NEW i \in 0 .. (Entries - 1) PROVE LowEntry(i).frame = i
      <4>1. CASE i = 0
        BY <4>1 DEF LowEntry, Entry
      <4>2. CASE i # 0
        <5> DEFINE open == i < LowUserPages
        <5>1. LowEntry(i) = Entry(TRUE, TRUE, open, i)
          BY <4>2, Zenon DEF LowEntry
        <5> HIDE DEF open
        <5> QED BY <5>1 DEF Entry
      <4> QED BY <4>1, <4>2
    <3> QED BY <3>2, VirtMemAssumption
  <2>4. ASSUME NEW f \in 0 .. (FirstFrame + n - 1)
        PROVE  /\ s.ram[f] = [i \in 0 .. (Entries - 1) |-> s.ram[f][i]]
               /\ \A i \in 0 .. (Entries - 1) : s.ram[f][i].frame \in 0 .. (FrameField - 1)
    <3>1. CASE f = frame
      BY <3>1, <2>3, <1>9
    <3>2. CASE f # frame
      BY <3>2, <1>1, <1>9 DEF MemOK
    <3> QED BY <3>1, <3>2
  <2>5. s.free \subseteq Above(n)
    BY <1>1, <1>6 DEF MemOK
  <2> QED BY <2>1, <2>2, <2>4, <2>5, <1>6 DEF MemOK
<1>11. TablesOK(s, n)
  BY <1>1, <1>6, <1>7, <1>8 DEF TablesOK, Made
<1>12. Heap \subseteq Pages /\ \A w \in Pages : Dir(w) \in PageDirs
  BY PageIndices DEF Pages
<1>13. \A w \in Pages : s.pd[Dir(w)] = vm.pd[Dir(w)] /\ (Made(s, Dir(w)) <=> Made(vm, Dir(w)))
  BY <1>7, <1>8, <1>12 DEF Made
<1>14. NoNull(s) <=> NoNull(vm)
  BY <1>7, <1>8 DEF NoNull, Made
<1>15. ASSUME NoNull(vm), NEW w \in Pages, Made(vm, Dir(w)) PROVE Slot(s, w) = Slot(vm, w)
  <2>1. vm.pd[Dir(w)].frame \in 0 .. (FirstFrame + n - 1) /\ vm.pd[Dir(w)].frame # frame
    BY <1>1, <1>3, <1>5, <1>12, <1>15 DEF TablesOK, NoNull
  <2> QED BY <2>1, <1>9, <1>13 DEF Slot
<1>16. NoNull(vm) => \A w \in Pages :
         /\ Filed(s, w) <=> Filed(vm, w)
         /\ Filed(s, w) => Slot(s, w) = Slot(vm, w)
  BY <1>13, <1>15 DEF Filed
<1>17. NoNull(s) => HeapSlots(s) /\ UserSlots(s, opened)
  <2> SUFFICES ASSUME NoNull(s) PROVE HeapSlots(s) /\ UserSlots(s, opened)
    OBVIOUS
  <2>1. HeapSlots(vm) /\ UserSlots(vm, opened)
    BY <1>14 DEF IInv
  <2>2. HeapSlots(s)
    <3>1. \A w \in Heap : Filed(s, w) => Filed(vm, w) /\ Slot(s, w) = Slot(vm, w)
      BY <1>12, <1>14, <1>16
    <3>2. \A d \in PageDirs : Made(s, d) => Made(vm, d) /\ s.pd[d] = vm.pd[d]
      BY <1>7, <1>8 DEF Made
    <3>3. s.free \subseteq vm.free
      BY <1>6
    <3> QED BY <3>1, <3>2, <3>3, <2>1 DEF HeapSlots
  <2>3. UserSlots(s, opened)
    BY <2>1, <1>14, <1>16 DEF UserSlots
  <2> QED BY <2>2, <2>3
<1>18. HeapDone(s, page)
  <2> SUFFICES ASSUME ~s.failed PROVE HeapDone(s, page)
    BY DEF HeapDone
  <2>1. NoNull(vm) /\ HeapDone(vm, page) /\ ~vm.failed
    BY <1>1, <1>6 DEF TablesOK, NoNull, IInv
  <2> QED BY <2>1, <1>12, <1>13, <1>16 DEF HeapDone
<1>19. opened \subseteq VirtArgs /\ page \in HeapFirst .. (HeapFirst + HeapPages)
  BY DEF IInv
<1> QED BY <1>2, <1>10, <1>11, <1>17, <1>18, <1>19 DEF IInv

(* MapVirtualToPhysical maps one page; all others stay as they were.       *)
LEMMA MapIInv ==
  ASSUME IInv, NEW phys \in PhysArgs, NEW virt \in VirtArgs,
         NEW kernel \in BOOLEAN, NEW writeable \in BOOLEAN,
         MapVirtualToPhysical(phys, virt, kernel, writeable)
  PROVE  /\ IInv'
         /\ ~vm'.failed => \A w \in Pages \ {virt} :
              /\ Filed(vm', w) <=> Filed(vm, w)
              /\ Filed(vm, w) => Slot(vm', w) = Slot(vm, w)
<1>1. PICK n \in Machines : MemOK(vm, n) /\ TablesOK(vm, n)
  BY DEF IInv
<1> DEFINE user == ~kernel
           g == GetPageForAddress(vm, virt, writeable, user)
           e == Entry(TRUE, writeable, user, phys)
           s == vm'
<1>2. virt \in Pages /\ Heap \subseteq Pages /\ virt \notin Heap /\ user \in BOOLEAN
  BY VirtMemAssumption DEF Pages
<1>3. g = GetPageForAddress(vm, virt, writeable, user) /\ s = SetPage(g, virt, e)
  BY DEF MapVirtualToPhysical
<1>4. e.present /\ (e.isUser <=> ~kernel) /\ e.frame = phys /\ phys \in 0 .. (FrameField - 1)
  BY VirtMemAssumption DEF Entry
<1>5. /\ stage = "running" /\ stage' = stage /\ page' = page
      /\ opened' = IF kernel THEN opened \ {virt} ELSE opened \cup {virt}
  BY DEF MapVirtualToPhysical
<1> HIDE DEF g, e, user
<1>6. MemOK(g, n) /\ TablesOK(g, n) /\ TableMade(vm, g, virt, writeable, user)
  BY <1>1, <1>2, <1>3, GetPageEffect, Zenon
<1>7. Made(g, Dir(virt)) /\ (vm.failed => g.failed)
  BY <1>6 DEF TableMade
<1>8. MemOK(s, n) /\ TablesOK(s, n) /\ s.pd = g.pd /\ s.free = g.free /\ (s.failed <=> g.failed)
  BY <1>2, <1>3, <1>4, <1>6, <1>7, SetPageEffect
<1>9. ASSUME NoNull(s)
      PROVE  /\ NoNull(vm) /\ Undisturbed(vm, g) /\ (HeapSlots(vm) => HeapSlots(g))
             /\ \A w \in Pages : Filed(s, w) <=> w = virt \/ Filed(g, w)
             /\ \A w \in Pages : Filed(s, w) => Slot(s, w) = IF w = virt THEN e ELSE Slot(g, w)
  <2>1. NoNull(g)
    BY <1>8, <1>9 DEF NoNull, Made
  <2>2. NoNull(vm) /\ Undisturbed(vm, g) /\ (HeapSlots(vm) => HeapSlots(g))
    BY <2>1, <1>1, <1>2, <1>3, GetPageKeeps, Zenon
  <2>3. /\ \A w \in Pages : Filed(s, w) <=> w = virt \/ Filed(g, w)
        /\ \A w \in Pages : Filed(s, w) => Slot(s, w) = IF w = virt THEN e ELSE Slot(g, w)
    BY <2>1, <1>2, <1>3, <1>4, <1>6, <1>7, SetPageFiles
  <2> QED BY <2>2, <2>3
<1>10. NoNull(s) => HeapSlots(s) /\ UserSlots(s, opened')
  <2> SUFFICES ASSUME NoNull(s) PROVE HeapSlots(s) /\ UserSlots(s, opened')
    OBVIOUS
  <2>1. HeapSlots(g) /\ UserSlots(vm, opened)
    BY <1>9 DEF IInv
  <2>2. \A w \in Heap : Filed(s, w) => Filed(g, w) /\ Slot(s, w) = Slot(g, w)
    BY <1>2, <1>9
  <2>3. HeapSlots(s)
    BY <2>1, <2>2, <1>8 DEF HeapSlots, Made
  <2>4. ASSUME NEW w \in Pages PROVE Filed(s, w) /\ Slot(s, w).isUser <=> w \in opened'
    <3>1. CASE w = virt
      BY <3>1, <1>4, <1>5, <1>9
    <3>2. CASE w # virt
      BY <3>2, <2>1, <1>5, <1>9 DEF UserSlots, Undisturbed
    <3> QED BY <3>1, <3>2
  <2> QED BY <2>3, <2>4 DEF UserSlots
<1>11. ~s.failed => NoNull(s) /\ ~vm.failed
  BY <1>7, <1>8 DEF TablesOK, NoNull
<1>12. HeapDone(s, page)
  <2> SUFFICES ASSUME ~s.failed, NEW v \in Heap, v < page
               PROVE  Filed(s, v) /\ s.pd[Dir(v)].readWrite /\ ~s.pd[Dir(v)].isUser
    BY DEF HeapDone
  <2>1. Filed(vm, v) /\ vm.pd[Dir(v)].readWrite /\ ~vm.pd[Dir(v)].isUser
    BY <1>11 DEF IInv, HeapDone
  <2> QED BY <2>1, <1>2, <1>8, <1>9, <1>11 DEF Undisturbed
<1>13. ASSUME ~s.failed, NEW w \in Pages \ {virt}
       PROVE  (Filed(s, w) <=> Filed(vm, w)) /\ (Filed(vm, w) => Slot(s, w) = Slot(vm, w))
  BY <1>9, <1>11, <1>13 DEF Undisturbed
<1>14. opened' \subseteq VirtArgs /\ page \in HeapFirst .. (HeapFirst + HeapPages)
       /\ page = HeapFirst + HeapPages
  BY <1>5 DEF IInv
<1>15. IInv'
  BY <1>5, <1>8, <1>10, <1>12, <1>14 DEF IInv
<1> QED BY <1>13, <1>15

(* The directory's own entry is not one of the tables.                     *)
LEMMA SelfIInv ==
  ASSUME IInv, InitSelf
  PROVE  IInv'
<1>1. PICK n \in Machines : MemOK(vm, n) /\ TablesOK(vm, n) /\ InitOrder(vm, n, page - HeapFirst)
  BY DEF IInv, InitSelf
<1> DEFINE s == vm'
<1>2. /\ s.pd = [vm.pd EXCEPT ![SelfDir] = Pde(TRUE, FALSE, BootFrame, FALSE)]
      /\ s.ram = vm.ram /\ s.free = vm.free /\ (s.failed <=> vm.failed)
      /\ s = [pd |-> s.pd, ram |-> s.ram, free |-> s.free, failed |-> s.failed]
      /\ stage = "boot" /\ stage' = "heap" /\ page' = page /\ opened' = opened
  BY DEF InitSelf
<1>3. /\ 1 .. (SelfDir - 1) \subseteq 0 .. (Dirs - 1) /\ SelfDir \notin 1 .. (SelfDir - 1)
      /\ PageDirs \subseteq 1 .. (SelfDir - 1)
  BY VirtMemAssumption DEF PageDirs, SelfDir
<1>4. vm.pd = [d \in 0 .. (Dirs - 1) |-> vm.pd[d]]
  BY <1>1 DEF MemOK
<1>5. \A d \in 1 .. (SelfDir - 1) : s.pd[d] = vm.pd[d]
  BY <1>2, <1>3, <1>4
<1>6. \A d \in PageDirs : s.pd[d] = vm.pd[d] /\ (Made(s, d) <=> Made(vm, d))
  BY <1>3, <1>5 DEF Made
<1>7. MemOK(s, n)
  <2>1. s.pd = [d \in 0 .. (Dirs - 1) |-> s.pd[d]]
    BY <1>2, <1>4
  <2>2. /\ s = [pd |-> s.pd, ram |-> s.ram, free |-> s.free, failed |-> s.failed]
        /\ s.ram = vm.ram /\ s.free = vm.free
    BY <1>2
  <2> QED BY <2>1, <2>2, <1>1 DEF MemOK
<1>8. TablesOK(s, n)
  BY <1>1, <1>2, <1>5, <1>6 DEF TablesOK
<1>9. InitOrder(s, n, page - HeapFirst)
  BY <1>1, <1>2, <1>6 DEF InitOrder
<1>10. Heap \subseteq Pages /\ \A w \in Pages : Dir(w) \in PageDirs
  BY PageIndices DEF Pages
<1>11. \A w \in Pages : (Filed(s, w) <=> Filed(vm, w)) /\ Slot(s, w) = Slot(vm, w)
                       /\ s.pd[Dir(w)] = vm.pd[Dir(w)]
  BY <1>2, <1>6, <1>10 DEF Filed, Slot
<1>12. NoNull(s) => HeapSlots(s) /\ UserSlots(s, opened)
  <2> SUFFICES ASSUME NoNull(s) PROVE HeapSlots(s) /\ UserSlots(s, opened)
    OBVIOUS
  <2>1. NoNull(vm)
    BY <1>6 DEF NoNull
  <2>2. HeapSlots(vm) /\ UserSlots(vm, opened)
    BY <2>1 DEF IInv
  <2>3. HeapSlots(s)
    <3>1. \A w \in Heap : Filed(s, w) => Filed(vm, w) /\ Slot(s, w) = Slot(vm, w)
      BY <1>10, <1>11
    <3>2. \A d \in PageDirs : Made(s, d) => Made(vm, d) /\ s.pd[d] = vm.pd[d]
      BY <1>6
    <3>3. s.free = vm.free
      BY <1>2
    <3> QED BY <3>1, <3>2, <3>3, <2>2 DEF HeapSlots
  <2>4. UserSlots(s, opened)
    BY <2>2, <1>11 DEF UserSlots
  <2> QED BY <2>3, <2>4
<1>13. HeapDone(s, page)
  BY <1>2, <1>10, <1>11 DEF HeapDone, IInv
<1>14. opened \subseteq VirtArgs /\ page \in HeapFirst .. (HeapFirst + HeapPages)
  BY DEF IInv
<1> QED BY <1>2, <1>7, <1>8, <1>9, <1>12, <1>13, <1>14 DEF IInv

(* The boot page directory and memory full of junk.                        *)
LEMMA InitIInv == Init => IInv
<1> SUFFICES ASSUME Init PROVE IInv
  OBVIOUS
<1>1. PICK n \in Machines :
        vm = [pd |-> boot_pt,
              ram |-> [f \in 0 .. (FirstFrame + n - 1) |-> [i \in 0 .. (Entries - 1) |-> Junk]],
              free |-> FirstFrame .. (FirstFrame + n - 1),
              failed |-> FALSE]
  BY DEF Init
<1>2. stage = "boot" /\ page = HeapFirst /\ opened = {}
  BY DEF Init
<1>3. /\ vm.pd = boot_pt /\ vm.free = FirstFrame .. (FirstFrame + n - 1) /\ ~vm.failed
      /\ vm.ram = [f \in 0 .. (FirstFrame + n - 1) |-> [i \in 0 .. (Entries - 1) |-> Junk]]
      /\ vm = [pd |-> vm.pd, ram |-> vm.ram, free |-> vm.free, failed |-> vm.failed]
  BY <1>1
<1>4. 1 .. (SelfDir - 1) \subseteq 0 .. (Dirs - 1) /\ PageDirs \subseteq 1 .. (SelfDir - 1)
      /\ 0 \notin PageDirs /\ KernelDir \notin PageDirs
  BY VirtMemAssumption DEF PageDirs, SelfDir
<1>5. \A d \in PageDirs : ~Made(vm, d)
  <2>1. ~NoPde.present
    BY DEF NoPde
  <2>2. \A d \in PageDirs : d \in 0 .. (Dirs - 1) /\ d \notin {0, KernelDir}
    BY <1>4
  <2>3. \A d \in PageDirs : vm.pd[d] = NoPde
    BY <2>2, <1>3 DEF boot_pt
  <2> QED BY <2>1, <2>3 DEF Made
<1>6. \A d \in 1 .. (SelfDir - 1) : d = KernelDir => vm.pd[d].large
  BY <1>3, <1>4 DEF boot_pt, Pde
<1>7. MemOK(vm, n)
  <2>1. vm.pd = [d \in 0 .. (Dirs - 1) |-> vm.pd[d]]
    BY <1>3 DEF boot_pt
  <2>2. vm.ram = [f \in 0 .. (FirstFrame + n - 1) |-> vm.ram[f]]
    BY <1>3
  <2>3. Junk.frame \in 0 .. (FrameField - 1)
    BY VirtMemAssumption DEF Junk, Entry
  <2>4. ASSUME NEW f \in 0 .. (FirstFrame + n - 1)
        PROVE  /\ vm.ram[f] = [i \in 0 .. (Entries - 1) |-> vm.ram[f][i]]
               /\ \A i \in 0 .. (Entries - 1) : vm.ram[f][i].frame \in 0 .. (FrameField - 1)
    <3>1. vm.ram[f] = [i \in 0 .. (Entries - 1) |-> Junk]
      BY <1>3
    <3> QED BY <3>1, <2>3
  <2> QED BY <2>1, <2>2, <2>4, <1>3 DEF MemOK, Above
<1>8. TablesOK(vm, n)
  BY <1>5, <1>6 DEF TablesOK
<1>9. HeapSlots(vm) /\ UserSlots(vm, opened) /\ HeapDone(vm, page)
  <2>1. \A w \in Pages : ~Filed(vm, w)
    BY <1>5, PageIndices DEF Filed
  <2>2. Heap \subseteq Pages /\ \A v \in Heap : ~(v < page)
    BY <1>2, VirtMemAssumption DEF Pages, Heap
  <2> QED BY <2>1, <2>2, <1>2 DEF HeapSlots, UserSlots, HeapDone
<1>10. InitOrder(vm, n, page - HeapFirst)
  <2>1. page - HeapFirst = 0 /\ Begun(0) = 0 /\ Dir(HeapFirst) \in Nat
    <3>1. 0 % Entries = 0 /\ 0 \div Entries = 0
      BY VirtMemAssumption, SmallMod
    <3> QED BY <3>1, <1>2, BegunCounts, VirtMemAssumption
  <2>2. FirstFrame + 0 + 0 = FirstFrame /\ Dir(HeapFirst) .. (Dir(HeapFirst) + 0 - 1) = {}
    BY <2>1, VirtMemAssumption
  <2> QED BY <2>1, <2>2, <1>3, <1>5 DEF InitOrder
<1> QED BY <1>2, <1>7, <1>8, <1>9, <1>10, VirtMemAssumption DEF IInv

(* Every step of Init and of its callers keeps the invariant.              *)
LEMMA NextIInv == IInv /\ [Next]_vars => IInv'
<1> SUFFICES ASSUME IInv, [Next]_vars PROVE IInv'
  OBVIOUS
<1>1. ASSUME NEW phys \in PhysArgs, NEW virt \in VirtArgs,
             NEW kernel \in BOOLEAN, NEW writeable \in BOOLEAN,
             MapVirtualToPhysical(phys, virt, kernel, writeable)
      PROVE  IInv'
  BY <1>1, MapIInv
<1>2. CASE UNCHANGED vars
  <2>1. vm' = vm /\ stage' = stage /\ page' = page /\ opened' = opened
    BY <1>2 DEF vars
  <2> QED BY <2>1 DEF IInv
<1> QED BY <1>1, <1>2, SelfIInv, HeapPageIInv, LowIInv DEF Next

(* The invariant that the results below rest on holds while Init maps the  *)
(* heap, also when memory runs out, and through every later mapping.       *)
THEOREM VirtMemInvariant == Spec => []IInv
BY InitIInv, NextIInv, PTL DEF Spec

-----------------------------------------------------------------------------
(* What the processor finds for a page is what its entry says.             *)
LEMMA TranslateSlot ==
  ASSUME NEW n \in Machines, NEW m, MemOK(m, n), TablesOK(m, n), NEW v \in Pages
  PROVE  /\ Made(m, Dir(v)) => Loaded(m.ram, m.pd[Dir(v)].frame, Idx(v)) = Slot(m, v)
         /\ Translate(m, v) = IF Filed(m, v) THEN Slot(m, v).frame ELSE NoFrame
         /\ Filed(m, v) => Slot(m, v).frame \in 0 .. (FrameField - 1)
         /\ Filed(m, v) <=> Translate(m, v) # NoFrame
<1>1. Dir(v) \in PageDirs /\ Idx(v) \in 0 .. (Entries - 1)
  BY PageIndices
<1>2. Made(m, Dir(v)) => m.pd[Dir(v)].frame \in 0 .. (FirstFrame + n - 1) /\ ~m.pd[Dir(v)].large
  BY <1>1, BlockLowest DEF TablesOK
<1>3. DOMAIN m.ram = 0 .. (FirstFrame + n - 1)
  BY DEF MemOK
<1>4. Made(m, Dir(v)) => Loaded(m.ram, m.pd[Dir(v)].frame, Idx(v)) = Slot(m, v)
  BY <1>2, <1>3 DEF Loaded, Slot
<1>5. Filed(m, v) => Slot(m, v).frame \in 0 .. (FrameField - 1)
  BY <1>1, <1>2 DEF MemOK, Filed, Slot
<1>6. Translate(m, v) = IF Filed(m, v) THEN Slot(m, v).frame ELSE NoFrame
  BY <1>2, <1>4 DEF Translate, Filed, Made
<1>7. Filed(m, v) => Slot(m, v).frame # NoFrame
  BY <1>5, VirtMemAssumption DEF NoFrame
<1> QED BY <1>4, <1>5, <1>6, <1>7

(* The tables that HeapFramesPrivate speaks of are those that were made.   *)
LEMMA TablesAreMade ==
  ASSUME NEW n \in Machines, NEW m, TablesOK(m, n)
  PROVE  /\ Null \notin Tables(m) <=> NoNull(m)
         /\ \A f \in Tables(m) : \E d \in PageDirs : Made(m, d) /\ f = m.pd[d].frame
<1>1. \A d \in PageDirs : d \in 1 .. (SelfDir - 1) /\ (Made(m, d) => ~m.pd[d].large)
  BY DEF TablesOK, PageDirs
<1>2. \A d \in 1 .. (SelfDir - 1) : ~m.pd[d].large => d \in PageDirs
  BY DEF TablesOK, PageDirs
<1> QED BY <1>1, <1>2 DEF Tables, NoNull, Made

(* Each mapped heap page has a frame of its own, whatever memory the       *)
(* machine has: also where VirtualMem::Init runs out of it on the way.     *)
THEOREM HeapFramesStayPrivate == Spec => []HeapFramesPrivate
<1>1. IInv => HeapFramesPrivate
  <2> SUFFICES ASSUME IInv, Null \notin Tables(vm)
               PROVE  \A v \in Mapped(vm, Heap) :
                        /\ Translate(vm, v) \notin vm.free \cup Tables(vm) \cup {Null}
                        /\ \A w \in Mapped(vm, Heap) : Translate(vm, v) = Translate(vm, w) => v = w
    BY DEF HeapFramesPrivate
  <2>1. PICK n \in Machines : MemOK(vm, n) /\ TablesOK(vm, n)
    BY DEF IInv
  <2>2. /\ NoNull(vm)
        /\ \A f \in Tables(vm) : \E d \in PageDirs : Made(vm, d) /\ f = vm.pd[d].frame
    BY <2>1, TablesAreMade
  <2>3. HeapSlots(vm)
    BY <2>2 DEF IInv
  <2>4. \A v \in Mapped(vm, Heap) :
          v \in Heap /\ Filed(vm, v) /\ Translate(vm, v) = Slot(vm, v).frame
    BY <2>1, TranslateSlot DEF Mapped, Pages
  <2> QED BY <2>2, <2>3, <2>4 DEF HeapSlots
<1> QED BY <1>1, VirtMemInvariant, PTL

(* With frames enough, VirtualMem::Init leaves every heap page mapped,     *)
(* writable and closed to user code, and later mappings leave it so.       *)
THEOREM HeapStaysMapped == Spec => []HeapMappedUnlessExhausted
<1>1. IInv => HeapMappedUnlessExhausted
  <2> SUFFICES ASSUME IInv, stage = "running", ~vm.failed, NEW v \in Heap
               PROVE  /\ v \in Mapped(vm, Heap)
                      /\ vm.pd[Dir(v)].readWrite /\ ~vm.pd[Dir(v)].isUser
                      /\ Loaded(vm.ram, vm.pd[Dir(v)].frame, Idx(v)).readWrite
                      /\ ~Loaded(vm.ram, vm.pd[Dir(v)].frame, Idx(v)).isUser
    BY DEF HeapMappedUnlessExhausted
  <2>1. PICK n \in Machines : MemOK(vm, n) /\ TablesOK(vm, n)
    BY DEF IInv
  <2>2. v < page /\ v \in Pages /\ v \notin opened
    BY VirtMemAssumption DEF IInv, Heap, Pages
  <2>3. Filed(vm, v) /\ vm.pd[Dir(v)].readWrite /\ ~vm.pd[Dir(v)].isUser
    BY <2>2 DEF IInv, HeapDone
  <2>4. NoNull(vm)
    BY <2>1 DEF TablesOK, NoNull
  <2>5. Slot(vm, v).readWrite /\ ~Slot(vm, v).isUser
    BY <2>2, <2>3, <2>4 DEF IInv, HeapSlots, UserSlots
  <2>6. Loaded(vm.ram, vm.pd[Dir(v)].frame, Idx(v)) = Slot(vm, v) /\ Translate(vm, v) # NoFrame
    BY <2>1, <2>2, <2>3, TranslateSlot DEF Filed
  <2> QED BY <2>3, <2>5, <2>6 DEF Mapped
<1> QED BY <1>1, VirtMemInvariant, PTL

(* Whichever page made a directory entry, no page is open to user code     *)
(* that was not last mapped for it.                                        *)
THEOREM KernelPagesAreClosed == Spec => []KernelPagesStayClosed
<1>1. IInv => KernelPagesStayClosed
  <2> SUFFICES ASSUME IInv, Null \notin Tables(vm), NEW v \in Pages
               PROVE  UserMay(vm, v) <=> v \in opened /\ vm.pd[Dir(v)].isUser
    BY DEF KernelPagesStayClosed, Pages
  <2>1. PICK n \in Machines : MemOK(vm, n) /\ TablesOK(vm, n)
    BY DEF IInv
  <2>2. NoNull(vm)
    BY <2>1, TablesAreMade
  <2>3. Filed(vm, v) /\ Slot(vm, v).isUser <=> v \in opened
    BY <2>2 DEF IInv, UserSlots
  <2>4. Dir(v) \in PageDirs /\ (Made(vm, Dir(v)) => ~vm.pd[Dir(v)].large)
    BY <2>1, PageIndices DEF TablesOK
  <2>5. /\ Made(vm, Dir(v)) => Loaded(vm.ram, vm.pd[Dir(v)].frame, Idx(v)) = Slot(vm, v)
        /\ Filed(vm, v) <=> Translate(vm, v) # NoFrame
    BY <2>1, TranslateSlot
  <2> QED BY <2>3, <2>4, <2>5 DEF UserMay, Filed
<1> QED BY <1>1, VirtMemInvariant, PTL

(* A mapping changes the translation of no page but the one it is for,     *)
(* also where it makes a table out of a frame full of junk.                *)
THEOREM MappingIsLocal == Spec => MapChangesOnePage
<1> DEFINE changed == {v \in Heap \cup VirtArgs : Translate(vm', v) # Translate(vm, v)}
           Local == stage = "running" /\ ~vm'.failed =>
                      Cardinality(changed) <= 1 /\ changed \subseteq VirtArgs
<1>1. IInv /\ [Next]_vars => [Local]_vars
  <2> SUFFICES ASSUME IInv, Next, stage = "running", ~vm'.failed
               PROVE  Cardinality(changed) <= 1 /\ changed \subseteq VirtArgs
    OBVIOUS
  <2>1. PICK phys \in PhysArgs, virt \in VirtArgs, kernel \in BOOLEAN, writeable \in BOOLEAN :
          MapVirtualToPhysical(phys, virt, kernel, writeable)
    BY DEF Next, InitSelf, InitHeapPage, InitLow
  <2>2. /\ IInv'
        /\ \A w \in Pages \ {virt} :
              /\ Filed(vm', w) <=> Filed(vm, w)
              /\ Filed(vm, w) => Slot(vm', w) = Slot(vm, w)
    BY <2>1, MapIInv
  <2>3. PICK n \in Machines : MemOK(vm, n) /\ TablesOK(vm, n)
    BY DEF IInv
  <2>4. PICK nn \in Machines : MemOK(vm', nn) /\ TablesOK(vm', nn)
    BY <2>2 DEF IInv
  <2>5. ASSUME NEW w \in Pages \ {virt} PROVE Translate(vm', w) = Translate(vm, w)
    <3>1. Translate(vm, w) = IF Filed(vm, w) THEN Slot(vm, w).frame ELSE NoFrame
      BY <2>3, TranslateSlot
    <3>2. Translate(vm', w) = IF Filed(vm', w) THEN Slot(vm', w).frame ELSE NoFrame
      BY <2>4, TranslateSlot
    <3> QED BY <3>1, <3>2, <2>2
  <2>6. changed \subseteq {virt}
    BY <2>5 DEF Pages
  <2>7. IsFiniteSet({virt}) /\ Cardinality({virt}) = 1
    BY FS_Singleton
  <2> HIDE DEF changed
  <2>8. Cardinality(changed) <= 1
    BY <2>6, <2>7, FS_Subset, FS_CardinalityType
  <2> QED BY <2>6, <2>8
<1> QED BY <1>1, VirtMemInvariant, PTL DEF Spec, MapChangesOnePage
=============================================================================
