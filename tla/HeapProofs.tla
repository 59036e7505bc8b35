----------------------------- MODULE HeapProofs -----------------------------
(***************************************************************************)
(* Proofs about the kernel heap, for every heap size, header size and set  *)
(* of requests.  The inductive invariant is IInv: the caller-facing facts  *)
(* (HeaderCheckIsExact, GrantCoversRequest) are not inductive without the  *)
(* shape of the list, because free reads the allocated flag and the links  *)
(* of the neighbours.                                                      *)
(***************************************************************************)
EXTENDS Heap, NatFacts, TLAPS

IInv ==
  /\ TypeOK
  /\ ListWellFormed
  /\ Coalesced
  /\ HeaderCheckIsExact
  /\ GrantCoversRequest

HType(h) == DOMAIN h \subseteq Nat /\ h \in [DOMAIN h -> Header]

-----------------------------------------------------------------------------
(* align_up on uint32_t yields a natural number.                           *)
LEMMA AlignUpType ==
  ASSUME NEW n \in Nat
  PROVE  AlignUp(n) \in Nat
<1> DEFINE m == (n + (Align - 1)) % UintSpan
<1>1. m \in Nat
  BY HeapAssumption
<1>2. m % Align \in Nat /\ m % Align <= m
  BY <1>1, HeapAssumption
<1> QED
  BY <1>1, <1>2 DEF AlignUp

(* align_up never rounds below the request unless the addition wraps.      *)
LEMMA AlignUpCovers ==
  ASSUME NEW n \in Nat, n + (Align - 1) < UintSpan
  PROVE  n <= AlignUp(n)
<1> DEFINE m == (n + (Align - 1)) % UintSpan
<1>1. m = n + (Align - 1)
  BY HeapAssumption
<1>2. m % Align \in 0 .. (Align - 1)
  BY <1>1, HeapAssumption
<1> QED
  BY <1>1, <1>2, HeapAssumption DEF AlignUp

-----------------------------------------------------------------------------
(* Blocks of a chain do not overlap: one ends before the next one starts.  *)
LEMMA BlocksDisjoint ==
  ASSUME NEW h, HType(h), Chain(h),
         NEW b \in DOMAIN h, NEW c \in DOMAIN h, b < c
  PROVE  b + HdrSize + h[b].size <= c
<1>1. h[b] \in Header /\ h[b].next # NULL /\ h[b].next <= c
  BY DEF HType, Chain, NextIsSuccessor
<1> QED
  BY <1>1, HeapAssumption DEF HType, Chain, ForwardLinks, Header

(* Marking a block, or shrinking it, leaves the chain a chain.             *)
LEMMA TakeKeepsChain ==
  ASSUME NEW h, HType(h), Chain(h), NEW b \in DOMAIN h,
         NEW n \in Nat, n <= h[b].size
  PROVE  HType(Take(h, b, n)) /\ Chain(Take(h, b, n))
<1> DEFINE k == Take(h, b, n)
<1>1. /\ DOMAIN k = DOMAIN h
      /\ \A c \in DOMAIN h : /\ k[c] \in Header
                             /\ k[c].next = h[c].next
                             /\ k[c].prev = h[c].prev
                             /\ k[c].size <= h[c].size
  BY DEF Take, Fields, HType, Header
<1>2. HType(k)
  BY <1>1 DEF HType, Take
<1>3. ChainEnds(k)
  BY <1>1 DEF Chain, ChainEnds
<1>4. ForwardLinks(k)
  BY <1>1, HeapAssumption DEF Chain, ForwardLinks, HType, Header
<1>5. BackLinks(k)
  BY <1>1 DEF Chain, BackLinks
<1>6. NextIsSuccessor(k)
  BY <1>1 DEF Chain, NextIsSuccessor
<1> QED
  BY <1>2, <1>3, <1>4, <1>5, <1>6 DEF Chain

(* Clearing the allocated flag leaves the chain a chain.                   *)
LEMMA UnmarkKeepsChain ==
  ASSUME NEW h, HType(h), Chain(h), NEW b \in DOMAIN h
  PROVE  HType(Unmark(h, b)) /\ Chain(Unmark(h, b))
<1> DEFINE k == Unmark(h, b)
<1>1. /\ DOMAIN k = DOMAIN h
      /\ \A c \in DOMAIN h : /\ k[c] \in Header
                             /\ k[c].next = h[c].next
                             /\ k[c].prev = h[c].prev
                             /\ k[c].size = h[c].size
  BY DEF Unmark, Fields, HType, Header
<1>2. HType(k)
  BY <1>1 DEF HType, Unmark
<1>3. ChainEnds(k)
  BY <1>1 DEF Chain, ChainEnds
<1>4. ForwardLinks(k)
  BY <1>1 DEF Chain, ForwardLinks
<1>5. BackLinks(k)
  BY <1>1 DEF Chain, BackLinks
<1>6. NextIsSuccessor(k)
  BY <1>1 DEF Chain, NextIsSuccessor
<1> QED
  BY <1>2, <1>3, <1>4, <1>5, <1>6 DEF Chain

(* k is chain h with block b allocated for n bytes and a new free block x  *)
(* between b and its old successor; the other blocks only change prev.     *)
Divides(k, h, b, n, x) ==
  /\ HType(k) /\ Chain(k)
  /\ x \notin DOMAIN h /\ DOMAIN k = DOMAIN h \cup {x}
  /\ k[b].allocated = 1 /\ k[b].size = n /\ k[b].next = x
  /\ k[x].allocated = 0 /\ k[x].next = h[b].next
  /\ \A c \in DOMAIN h \ {b} : /\ k[c].allocated = h[c].allocated
                               /\ k[c].size = h[c].size
                               /\ k[c].next = h[c].next

(* Splitting block b and taking its first n bytes leaves a chain: the new  *)
(* header lies between b and its old successor and is linked both ways.    *)
LEMMA SplitTakeDivides ==
  ASSUME NEW h, HType(h), Chain(h), NEW b \in DOMAIN h,
         NEW n \in Nat, Splits(h, b, n)
  PROVE  Divides(Take(Split(h, b, n), b, n), h, b, n, b + n + HdrSize)
<1> DEFINE k == Take(Split(h, b, n), b, n)
           x == b + n + HdrSize
           y == h[b].next
<1>0. /\ b \in Nat /\ HdrSize \in Nat /\ HdrSize > 0 /\ x \in Nat /\ b < x
      /\ HeapStart \in Nat /\ HeapStart > 0 /\ HeapEnd \in Nat
      /\ \A c \in DOMAIN h : /\ c \in Nat /\ h[c].next \in Nat /\ h[c].prev \in Nat
                            /\ h[c].size \in Nat /\ h[c].allocated \in {0, 1}
  BY HeapAssumption DEF HType, Header
<1>1. x < b + HdrSize + h[b].size /\ h[b].size - n - HdrSize \in Nat
  BY <1>0, HeapAssumption DEF Splits
<1>2. x \notin DOMAIN h
  BY <1>0, <1>1, BlocksDisjoint
<1>3. y # NULL => y \in DOMAIN h /\ x < y
  BY <1>0, <1>1 DEF Chain, ForwardLinks
<1>4. /\ DOMAIN k = DOMAIN h \cup {x}
      /\ k[b] = Fields(x, h[b].prev, 1, n)
      /\ k[x] = Fields(y, b, 0, h[b].size - n - HdrSize)
      /\ \A c \in DOMAIN h \ {b} : k[c] = IF c = y THEN WithPrev(h[c], x) ELSE h[c]
  BY <1>0, <1>2 DEF Take, Split, Fields
<1>5. /\ k[b].next = x /\ k[b].prev = h[b].prev /\ k[b].allocated = 1 /\ k[b].size = n
      /\ k[x].next = y /\ k[x].prev = b /\ k[x].allocated = 0
      /\ k[x].size = h[b].size - n - HdrSize
  BY <1>4 DEF Fields
<1>6. \A c \in DOMAIN h \ {b} :
        /\ k[c].next = h[c].next /\ k[c].allocated = h[c].allocated
        /\ k[c].size = h[c].size
        /\ k[c].prev = IF c = y THEN x ELSE h[c].prev
  BY <1>4 DEF Fields, WithPrev
<1>7. HType(k)
  <2>1. \A c \in DOMAIN k : k[c] \in Header
    BY <1>0, <1>1, <1>4, <1>3 DEF Fields, WithPrev, Header, HType
  <2>2. k = [c \in DOMAIN k |-> k[c]]
    BY DEF Take, Split
  <2> QED BY <2>1, <2>2, <1>4, <1>0 DEF HType
<1>8. ChainEnds(k)
  BY <1>0, <1>3, <1>4, <1>5, <1>6 DEF Chain, ChainEnds, NULL
<1>9. ForwardLinks(k)
  <2> SUFFICES ASSUME NEW c \in DOMAIN k
               PROVE  /\ c + HdrSize + k[c].size <= HeapEnd
                      /\ k[c].next # NULL =>
                           /\ k[c].next \in DOMAIN k
                           /\ k[k[c].next].prev = c
                           /\ c + HdrSize + k[c].size <= k[c].next
    BY DEF ForwardLinks
  <2>1. CASE c = x
    BY <2>1, <1>0, <1>1, <1>3, <1>4, <1>5, <1>6 DEF Chain, ForwardLinks
  <2>2. CASE c = b
    BY <2>2, <1>0, <1>1, <1>4, <1>5 DEF Chain, ForwardLinks
  <2>3. CASE c \in DOMAIN h \ {b}
    <3>1. h[c].next # NULL => h[c].next \in DOMAIN h /\ h[h[c].next].prev = c
      BY <2>3 DEF Chain, ForwardLinks
    <3>2. h[c].next # NULL => h[c].next # y
      BY <2>3, <3>1, <1>3 DEF Chain, ForwardLinks
    <3>3. h[c].next # NULL => k[h[c].next].prev = c
      BY <3>1, <3>2, <1>5, <1>6
    <3> QED BY <2>3, <3>1, <3>3, <1>0, <1>4, <1>6 DEF Chain, ForwardLinks
  <2> QED BY <2>1, <2>2, <2>3, <1>4
<1>10. BackLinks(k)
  <2> SUFFICES ASSUME NEW c \in DOMAIN k, k[c].prev # NULL
               PROVE  k[c].prev \in DOMAIN k /\ k[k[c].prev].next = c
    BY DEF BackLinks
  <2>1. CASE c = x
    BY <2>1, <1>4, <1>5
  <2>2. CASE c = y /\ c \in DOMAIN h \ {b}
    BY <2>2, <1>4, <1>5, <1>6
  <2>3. CASE c = b \/ (c \in DOMAIN h /\ c # y)
    <3>1. c \in DOMAIN h /\ k[c].prev = h[c].prev /\ h[c].prev \in DOMAIN h
          /\ h[h[c].prev].next = c
      BY <2>3, <1>5, <1>6 DEF Chain, BackLinks
    <3>2. h[c].prev # b
      BY <3>1, <2>3, <1>3, <1>0, <1>1
    <3> QED BY <3>1, <3>2, <1>4, <1>6
  <2> QED BY <2>1, <2>2, <2>3, <1>4
<1>11. NextIsSuccessor(k)
  <2> SUFFICES ASSUME NEW c \in DOMAIN k, NEW d \in DOMAIN k, c < d
               PROVE  k[c].next # NULL /\ k[c].next <= d
    BY DEF NextIsSuccessor
  <2>1. CASE c = x
    <3>1. d \in DOMAIN h /\ b < d
      BY <2>1, <1>0, <1>4
    <3> QED BY <2>1, <3>1, <1>5 DEF Chain, NextIsSuccessor
  <2>2. CASE c = b
    <3>1. d = x \/ (d \in DOMAIN h /\ b + HdrSize + h[b].size <= d)
      BY <2>2, <1>4, BlocksDisjoint
    <3>2. d \in Nat
      BY <1>0, <1>4
    <3> QED BY <2>2, <3>1, <3>2, <1>0, <1>1, <1>5 DEF NULL
  <2>3. CASE c \in DOMAIN h \ {b} /\ d = x
    <3>1. c < b
      <4>1. CASE b < c
        BY <4>1, <2>3, <1>0, <1>1, BlocksDisjoint
      <4> QED BY <4>1, <2>3, <1>0
    <3>2. h[c].next # NULL /\ h[c].next <= b
      BY <3>1, <2>3 DEF Chain, NextIsSuccessor
    <3> QED BY <3>2, <2>3, <1>0, <1>6
  <2>4. CASE c \in DOMAIN h \ {b} /\ d \in DOMAIN h
    BY <2>4, <1>6 DEF Chain, NextIsSuccessor
  <2> QED BY <2>1, <2>2, <2>3, <2>4, <1>4
<1> QED
  BY <1>2, <1>4, <1>5, <1>6, <1>7, <1>8, <1>9, <1>10, <1>11 DEF Chain, Divides

-----------------------------------------------------------------------------
(* k is chain h with block x absorbed by its predecessor b: every block    *)
(* that is left keeps its flag, and all but b their size and successor.    *)
Absorbs(k, h, b, x) ==
  /\ HType(k) /\ Chain(k)
  /\ b \in DOMAIN h /\ x \in DOMAIN h /\ x # b /\ DOMAIN k = DOMAIN h \ {x}
  /\ k[b].next = h[x].next
  /\ \A c \in DOMAIN k : k[c].allocated = h[c].allocated
  /\ \A c \in DOMAIN k \ {b} : /\ k[c].size = h[c].size
                               /\ k[c].next = h[c].next
                               /\ k[c].next # x

(* The second merge of Heap::free: block b absorbs its successor.          *)
LEMMA MergeNextAbsorbs ==
  ASSUME NEW h, HType(h), Chain(h), NEW b \in DOMAIN h, h[b].next # NULL
  PROVE  Absorbs(MergeNext(h, b), h, b, h[b].next)
<1> DEFINE k == MergeNext(h, b)
           x == h[b].next
           y == h[x].next
<1>0. /\ HdrSize \in Nat /\ HdrSize > 0
      /\ HeapStart \in Nat /\ HeapStart > 0 /\ HeapEnd \in Nat
      /\ \A c \in DOMAIN h : /\ c \in Nat /\ h[c].next \in Nat /\ h[c].prev \in Nat
                            /\ h[c].size \in Nat /\ h[c].allocated \in {0, 1}
  BY HeapAssumption DEF HType, Header
<1>1. /\ x \in DOMAIN h /\ h[x].prev = b /\ b + HdrSize + h[b].size <= x
      /\ x # b /\ b < x
  BY <1>0 DEF Chain, ForwardLinks
<1>2. y # NULL => y \in DOMAIN h /\ h[y].prev = x /\ x + HdrSize + h[x].size <= y
                  /\ y # b /\ y # x
  BY <1>0, <1>1 DEF Chain, ForwardLinks
<1>3. /\ DOMAIN k = DOMAIN h \ {x}
      /\ k[b] = Fields(y, h[b].prev, h[b].allocated, h[b].size + h[x].size + HdrSize)
      /\ \A c \in DOMAIN k \ {b} : k[c] = IF c = y THEN WithPrev(h[c], b) ELSE h[c]
  BY <1>1 DEF MergeNext, Fields
<1> HIDE DEF k
<1>4. /\ k[b].next = y /\ k[b].prev = h[b].prev /\ k[b].allocated = h[b].allocated
      /\ k[b].size = h[b].size + h[x].size + HdrSize
  BY <1>3 DEF Fields
<1>5. \A c \in DOMAIN k \ {b} :
        /\ k[c].next = h[c].next /\ k[c].allocated = h[c].allocated
        /\ k[c].size = h[c].size
        /\ k[c].prev = IF c = y THEN b ELSE h[c].prev
  <2> TAKE c \in DOMAIN k \ {b}
  <2>1. CASE c = y
    <3>1. k[c] = WithPrev(h[c], b)
      BY <2>1, <1>3
    <3>2. /\ k[c].next = h[c].next /\ k[c].allocated = h[c].allocated
          /\ k[c].size = h[c].size /\ k[c].prev = b
      BY <3>1 DEF Fields, WithPrev
    <3> QED BY <2>1, <3>2
  <2>2. CASE c # y
    BY <2>2, <1>3
  <2> QED BY <2>1, <2>2
<1>6. \A c \in DOMAIN k \ {b} : h[c].next # x
  BY <1>1, <1>3 DEF Chain, ForwardLinks
<1>7. HType(k)
  <2>1. \A c \in DOMAIN k : k[c] \in Header
    <3> TAKE c \in DOMAIN k
    <3>1. CASE c = b
      BY <3>1, <1>0, <1>1, <1>3 DEF Fields, Header
    <3>2. CASE c = y /\ c # b
      <4>1. k[c] = WithPrev(h[c], b) /\ c \in DOMAIN h
        BY <3>2, <1>3
      <4> QED BY <4>1, <1>0 DEF Fields, WithPrev, Header
    <3>3. CASE c # y /\ c # b
      BY <3>3, <1>3 DEF HType
    <3> QED BY <3>1, <3>2, <3>3
  <2>2. k = [c \in DOMAIN k |-> k[c]]
    BY DEF k, MergeNext
  <2> QED BY <2>1, <2>2, <1>3, <1>0 DEF HType
<1>8. ChainEnds(k)
  <2>1. x # HeapStart
    BY <1>0, <1>1 DEF Chain, ChainEnds
  <2> QED BY <2>1, <1>0, <1>1, <1>2, <1>3, <1>4, <1>5 DEF Chain, ChainEnds, NULL
<1>9. ForwardLinks(k)
  <2> SUFFICES ASSUME NEW c \in DOMAIN k
               PROVE  /\ c + HdrSize + k[c].size <= HeapEnd
                      /\ k[c].next # NULL =>
                           /\ k[c].next \in DOMAIN k
                           /\ k[k[c].next].prev = c
                           /\ c + HdrSize + k[c].size <= k[c].next
    BY DEF ForwardLinks
  <2>1. CASE c = b
    <3>1. x + HdrSize + h[x].size <= HeapEnd
      BY <1>1 DEF Chain, ForwardLinks
    <3> QED BY <2>1, <3>1, <1>0, <1>1, <1>2, <1>3, <1>4, <1>5
  <2>2. CASE c \in DOMAIN k \ {b}
    <3>1. h[c].next # NULL => /\ h[c].next \in DOMAIN k /\ h[h[c].next].prev = c
      BY <2>2, <1>3, <1>6 DEF Chain, ForwardLinks
    <3>2. h[c].next # NULL => h[c].next # y
      BY <2>2, <3>1, <1>2, <1>3
    <3>3. h[c].next # NULL => k[h[c].next].prev = c
      BY <3>1, <3>2, <1>4, <1>5
    <3> QED BY <2>2, <3>1, <3>3, <1>0, <1>3, <1>5 DEF Chain, ForwardLinks
  <2> QED BY <2>1, <2>2
<1>10. BackLinks(k)
  <2> SUFFICES ASSUME NEW c \in DOMAIN k, k[c].prev # NULL
               PROVE  k[c].prev \in DOMAIN k /\ k[k[c].prev].next = c
    BY DEF BackLinks
  <2>1. CASE c = y /\ c # b
    BY <2>1, <1>1, <1>3, <1>4, <1>5
  <2>2. CASE c = b \/ c # y
    <3>1. k[c].prev = h[c].prev /\ h[c].prev \in DOMAIN h /\ h[h[c].prev].next = c
      BY <2>2, <1>1, <1>3, <1>4, <1>5 DEF Chain, BackLinks
    <3>2. h[c].prev # x
      <4>1. c # NULL
        BY <1>0, <1>3 DEF Chain, ChainEnds, NULL
      <4> QED BY <4>1, <3>1, <2>2, <1>2
    <3>3. h[c].prev # b
      BY <3>1, <1>3
    <3> QED BY <3>1, <3>2, <3>3, <1>3, <1>5
  <2> QED BY <2>1, <2>2
<1>11. NextIsSuccessor(k)
  <2> SUFFICES ASSUME NEW c \in DOMAIN k, NEW d \in DOMAIN k, c < d
               PROVE  k[c].next # NULL /\ k[c].next <= d
    BY DEF NextIsSuccessor
  <2>1. CASE c = b
    <3>1. x <= d /\ d # x /\ d \in DOMAIN h
      BY <2>1, <1>3 DEF Chain, NextIsSuccessor
    <3>2. x < d
      BY <3>1, <1>0, <1>1
    <3> QED BY <2>1, <3>1, <3>2, <1>1, <1>4 DEF Chain, NextIsSuccessor
  <2>2. CASE c # b
    BY <2>2, <1>3, <1>5 DEF Chain, NextIsSuccessor
  <2> QED BY <2>1, <2>2
<1> QED
  BY <1>1, <1>3, <1>4, <1>5, <1>6, <1>7, <1>8, <1>9, <1>10, <1>11 DEF Chain, Absorbs, k

(* The first merge of Heap::free is the second one seen from the           *)
(* predecessor, because prev and next are inverse.                         *)
LEMMA MergePrevAbsorbs ==
  ASSUME NEW h, HType(h), Chain(h), NEW b \in DOMAIN h, h[b].prev # NULL
  PROVE  Absorbs(MergePrev(h, b), h, h[b].prev, b)
<1>1. PICK p \in DOMAIN h : p = h[b].prev /\ h[p].next = b
  BY DEF Chain, BackLinks
<1>2. MergePrev(h, b) = MergeNext(h, p)
  BY <1>1 DEF MergePrev, MergeNext
<1>3. h[p].next # NULL
  BY <1>1, HeapAssumption DEF HType, Chain, ChainEnds, NULL
<1>4. Absorbs(MergeNext(h, p), h, p, h[p].next)
  BY <1>3, MergeNextAbsorbs
<1> QED
  BY <1>1, <1>2, <1>4

-----------------------------------------------------------------------------
(* No two neighbouring free blocks, except possibly b and its successor.   *)
CoalescedBut(h, b) ==
  \A c \in DOMAIN h \ {b} :
    h[c].next # NULL => 1 \in {h[c].allocated, h[h[c].next].allocated}

(* k has the allocated blocks of h, each with its size.                    *)
SameAllocated(k, h) ==
  /\ \A c \in DOMAIN k : c \in DOMAIN h /\ k[c].allocated = h[c].allocated
  /\ \A c \in DOMAIN h : h[c].allocated = 1 => c \in DOMAIN k /\ k[c].size = h[c].size

CoalescedOf(h) ==
  \A c \in DOMAIN h :
    h[c].next # NULL => 1 \in {h[c].allocated, h[h[c].next].allocated}

(* The second merge of Heap::free restores coalescing around a free block. *)
LEMMA JoinNextCoalesces ==
  ASSUME NEW h, HType(h), Chain(h), NEW b \in DOMAIN h,
         h[b].allocated = 0, CoalescedBut(h, b)
  PROVE  LET k == JoinNext(h, b)
         IN HType(k) /\ Chain(k) /\ CoalescedOf(k) /\ SameAllocated(k, h)
<1> DEFINE x == h[b].next
           k == JoinNext(h, b)
<1>0. \A c \in DOMAIN h : h[c].allocated \in {0, 1}
  BY DEF HType, Header
<1>1. h[b].next # NULL => h[b].next \in DOMAIN h
  BY DEF Chain, ForwardLinks
<1>2. CASE ~NextIsFree(h, b)
  <2>1. k = h
    BY <1>2 DEF JoinNext
  <2>2. CoalescedOf(h)
    BY <1>0, <1>1, <1>2 DEF NextIsFree, CoalescedBut, CoalescedOf
  <2> QED BY <2>1, <2>2 DEF SameAllocated
<1>3. CASE NextIsFree(h, b)
  <2> DEFINE g == MergeNext(h, b)
  <2>1. k = g /\ h[b].next # NULL /\ h[x].allocated = 0
    BY <1>3 DEF JoinNext, NextIsFree
  <2>2. Absorbs(g, h, b, x)
    BY <2>1, MergeNextAbsorbs
  <2> HIDE DEF g, k
  <2>3. SameAllocated(k, h)
    BY <2>1, <2>2 DEF SameAllocated, Absorbs
  <2>4. CoalescedOf(k)
    <3> SUFFICES ASSUME NEW c \in DOMAIN k, k[c].next # NULL
                 PROVE  1 \in {k[c].allocated, k[k[c].next].allocated}
      BY DEF CoalescedOf
    <3>1. k[c].next \in DOMAIN k
      BY <2>1, <2>2 DEF Chain, ForwardLinks, Absorbs
    <3>2. CASE c = b
      BY <3>1, <3>2, <2>1, <2>2 DEF CoalescedBut, Absorbs
    <3>3. CASE c # b
      BY <3>1, <3>3, <2>1, <2>2 DEF CoalescedBut, Absorbs
    <3> QED BY <3>2, <3>3
  <2> QED BY <2>1, <2>2, <2>3, <2>4 DEF k, Absorbs
<1> QED BY <1>2, <1>3

(* Heap::free as a whole: from a coalesced chain with block b allocated to *)
(* a coalesced chain with exactly b's allocation gone.                     *)
LEMMA FreeBlock ==
  ASSUME NEW h, HType(h), Chain(h), CoalescedOf(h), NEW b \in DOMAIN h
  PROVE  LET k == Coalesce(Unmark(h, b), b)
         IN HType(k) /\ Chain(k) /\ CoalescedOf(k) /\ SameAllocated(k, Unmark(h, b))
<1> DEFINE u == Unmark(h, b)
           p == u[b].prev
           m == MergePrev(u, b)
<1>1. HType(u) /\ Chain(u)
  BY UnmarkKeepsChain
<1>2. /\ DOMAIN u = DOMAIN h /\ u[b].allocated = 0
      /\ \A c \in DOMAIN h : u[c].next = h[c].next
      /\ \A c \in DOMAIN h \ {b} : u[c].allocated = h[c].allocated
  BY DEF Unmark, Fields
<1>3. \A c \in DOMAIN u : u[c].allocated \in {0, 1}
  BY <1>1 DEF HType, Header
<1>4. \A c \in DOMAIN u : u[c].next # NULL => u[c].next \in DOMAIN u /\ u[u[c].next].prev = c
  BY <1>1 DEF Chain, ForwardLinks
<1>5. CASE ~PrevIsFree(u, b)
  <2>1. CoalescedBut(u, b)
    <3> SUFFICES ASSUME NEW c \in DOMAIN u \ {b}, u[c].next # NULL
                 PROVE  1 \in {u[c].allocated, u[u[c].next].allocated}
      BY DEF CoalescedBut
    <3>1. CASE u[c].next = b
      <4>1. p = c /\ p # NULL
        BY <3>1, <1>1, <1>4, HeapAssumption DEF HType, Chain, ChainEnds, NULL
      <4> QED BY <4>1, <1>3, <1>5 DEF PrevIsFree
    <3>2. CASE u[c].next # b
      BY <3>2, <1>2, <1>4 DEF CoalescedOf
    <3> QED BY <3>1, <3>2
  <2>2. Coalesce(u, b) = JoinNext(u, b)
    BY <1>5 DEF Coalesce
  <2> QED BY <2>1, <2>2, <1>1, <1>2, JoinNextCoalesces
<1>6. CASE PrevIsFree(u, b)
  <2>1. p # NULL /\ u[p].allocated = 0
    BY <1>6 DEF PrevIsFree
  <2>4. Absorbs(m, u, p, b)
    <3> HIDE DEF u
    <3> QED BY <2>1, <1>1, <1>2, MergePrevAbsorbs
  <2> HIDE DEF m, u, p
  <2>5. CoalescedBut(m, p)
    <3> SUFFICES ASSUME NEW c \in DOMAIN m \ {p}, m[c].next # NULL
                 PROVE  1 \in {m[c].allocated, m[m[c].next].allocated}
      BY DEF CoalescedBut
    <3>1. m[c].next \in DOMAIN m
      BY <2>4 DEF Chain, ForwardLinks, Absorbs
    <3> QED BY <3>1, <2>4, <1>2 DEF CoalescedOf, Absorbs
  <2>6. SameAllocated(m, u)
    BY <2>1, <2>4, <1>2 DEF SameAllocated, Absorbs
  <2>7. Coalesce(u, b) = JoinNext(m, p)
    BY <1>6 DEF Coalesce, m, p
  <2>8. /\ HType(m) /\ Chain(m) /\ p \in DOMAIN m /\ m[p].allocated = 0
    BY <2>1, <2>4 DEF Absorbs
  <2>9. LET k == JoinNext(m, p)
        IN HType(k) /\ Chain(k) /\ CoalescedOf(k) /\ SameAllocated(k, m)
    BY <2>5, <2>8, JoinNextCoalesces
  <2>10. SameAllocated(JoinNext(m, p), u)
    BY <2>6, <2>9 DEF SameAllocated
  <2> QED BY <2>7, <2>9, <2>10 DEF u
<1> QED BY <1>5, <1>6

(* k has the allocated blocks of h and one more: n bytes at block b.       *)
AddsBlock(k, h, b, n) ==
  /\ b \in DOMAIN k /\ k[b].allocated = 1 /\ k[b].size = n
  /\ \A c \in DOMAIN h \ {b} : /\ c \in DOMAIN k
                               /\ k[c].allocated = h[c].allocated
                               /\ k[c].size = h[c].size
  /\ \A c \in DOMAIN k \ DOMAIN h : k[c].allocated = 0

(* InternalAllocate as a whole, on a free block that fits: the chain stays *)
(* a coalesced chain and exactly one block becomes allocated.              *)
LEMMA CarveBlock ==
  ASSUME NEW h, HType(h), Chain(h), CoalescedOf(h), NEW b \in DOMAIN h,
         NEW n \in Nat, Fits(h, b, n)
  PROVE  LET k == Carve(h, b, n)
         IN HType(k) /\ Chain(k) /\ CoalescedOf(k) /\ AddsBlock(k, h, b, n)
<1> DEFINE k == Carve(h, b, n)
<1>1. h[b].allocated = 0 /\ n <= h[b].size
  BY DEF Fits, HType, Header
<1>2. CASE ~Splits(h, b, n)
  <2>1. k = Take(h, b, n)
    BY <1>2 DEF Carve
  <2>2. HType(k) /\ Chain(k)
    BY <1>1, <2>1, TakeKeepsChain
  <2>3. /\ DOMAIN k = DOMAIN h /\ k[b].allocated = 1 /\ k[b].size = n
        /\ \A c \in DOMAIN h : k[c].next = h[c].next
        /\ \A c \in DOMAIN h \ {b} : k[c] = h[c]
    BY <2>1 DEF Take, Fields
  <2> HIDE DEF k
  <2>4. AddsBlock(k, h, b, n)
    BY <2>3 DEF AddsBlock
  <2>5. CoalescedOf(k)
    BY <2>2, <2>3 DEF CoalescedOf, Chain, ForwardLinks
  <2> QED BY <2>2, <2>4, <2>5 DEF k
<1>3. CASE Splits(h, b, n)
  <2> DEFINE t == Take(Split(h, b, n), b, n)
             x == b + n + HdrSize
  <2>1. k = t
    BY <1>3 DEF Carve
  <2>2. Divides(t, h, b, n, x)
    BY <1>3, SplitTakeDivides
  <2> HIDE DEF t, x, k
  <2>3. AddsBlock(t, h, b, n)
    BY <2>2 DEF AddsBlock, Divides
  <2>4. CoalescedOf(t)
    <3> SUFFICES ASSUME NEW c \in DOMAIN t, t[c].next # NULL
                 PROVE  1 \in {t[c].allocated, t[t[c].next].allocated}
      BY DEF CoalescedOf
    <3>1. CASE c = b
      BY <3>1, <2>2 DEF Divides
    <3>2. CASE c = x
      <4>1. h[b].next # NULL /\ h[b].next \in DOMAIN h
        BY <3>2, <2>2 DEF Chain, ForwardLinks, Divides
      <4>2. h[h[b].next].allocated = 1
        BY <4>1, <1>1 DEF CoalescedOf
      <4> QED BY <3>2, <4>1, <4>2, <1>1, <2>2 DEF Divides
    <3>3. CASE c \in DOMAIN h \ {b}
      <4>1. t[c].next = h[c].next /\ h[c].next \in DOMAIN h
        BY <3>3, <2>2 DEF Chain, ForwardLinks, Divides
      <4>2. 1 \in {h[c].allocated, h[h[c].next].allocated}
        BY <3>3, <4>1 DEF CoalescedOf
      <4> QED BY <3>3, <4>1, <4>2, <2>2 DEF Divides
    <3> QED BY <3>1, <3>2, <3>3, <2>2 DEF Divides
  <2> QED BY <2>1, <2>2, <2>3, <2>4 DEF k, Divides
<1> QED BY <1>2, <1>3

-----------------------------------------------------------------------------
(* IInv holds initially: Heap::Initialize lays out one free block.         *)
LEMMA InitIInv == Init => IInv
<1> SUFFICES ASSUME Init PROVE IInv
  OBVIOUS
<1>1. /\ DOMAIN hdr = {HeapStart}
      /\ hdr[HeapStart] = Fields(NULL, NULL, 0, HeapEnd - HeapStart - HdrSize)
      /\ hdr = [b \in {HeapStart} |-> hdr[HeapStart]]
  BY DEF Init, Initialize
<1>2. /\ hdr[HeapStart].next = 0 /\ hdr[HeapStart].prev = 0
      /\ hdr[HeapStart].allocated = 0
      /\ hdr[HeapStart].size = HeapEnd - HeapStart - HdrSize
      /\ hdr[HeapStart].size \in Nat /\ hdr[HeapStart] \in Header
  BY <1>1, HeapAssumption DEF Fields, NULL, Header
<1>3. live = [p \in {} |-> 0] /\ stale = {} /\ status = "running"
  BY DEF Init
<1>4. DOMAIN live = {}
  BY <1>3
<1>5. TypeOK
  <2>1. hdr \in [DOMAIN hdr -> Header] /\ DOMAIN hdr \subseteq Nat
    BY <1>1, <1>2, HeapAssumption
  <2>2. live \in [DOMAIN live -> Requests]
    BY <1>3
  <2> QED BY <2>1, <2>2, <1>3, <1>4 DEF TypeOK
<1>6. ListWellFormed
  BY <1>1, <1>2, HeapAssumption
     DEF ListWellFormed, Chain, ChainEnds, ForwardLinks, BackLinks, NextIsSuccessor, NULL
<1>7. Coalesced /\ HeaderCheckIsExact /\ GrantCoversRequest
  BY <1>1, <1>2, <1>3, <1>4 DEF Coalesced, HeaderCheckIsExact, GrantCoversRequest, NULL
<1> QED BY <1>5, <1>6, <1>7 DEF IInv

(* malloc preserves IInv, split or no split.                               *)
LEMMA MallocIInv ==
  ASSUME IInv, NEW req \in Requests, Malloc(req)
  PROVE  IInv'
<1> DEFINE n == AlignUp(req)
<1>1. req \in Nat /\ n \in Nat
  BY HeapAssumption, AlignUpType
<1>2. PICK b \in DOMAIN hdr :
        /\ Fits(hdr, b, n)
        /\ hdr' = Carve(hdr, b, n)
        /\ live' = [p \in DOMAIN live \cup {b + HdrSize} |->
                      IF p = b + HdrSize THEN req ELSE live[p]]
  BY DEF Malloc, FirstFree
<1>3. stale' = {} /\ status' = status
  BY DEF Malloc
<1>4. HType(hdr) /\ Chain(hdr) /\ CoalescedOf(hdr)
  BY DEF IInv, TypeOK, HType, ListWellFormed, Coalesced, CoalescedOf
<1> HIDE DEF n
<1>5. HType(hdr') /\ Chain(hdr') /\ CoalescedOf(hdr') /\ AddsBlock(hdr', hdr, b, n)
  BY <1>1, <1>2, <1>4, CarveBlock
<1>6. /\ \A c \in DOMAIN hdr \cup DOMAIN hdr' : c \in Nat
      /\ HdrSize \in Nat /\ b + HdrSize - HdrSize = b
  BY <1>4, <1>5, HeapAssumption DEF HType
<1>7. /\ DOMAIN live' = DOMAIN live \cup {b + HdrSize}
      /\ live'[b + HdrSize] = req
      /\ \A p \in DOMAIN live \ {b + HdrSize} : live'[p] = live[p]
  BY <1>2
<1>8. \A p \in DOMAIN live : /\ p \in Nat /\ p >= HdrSize
                            /\ p - HdrSize \in DOMAIN hdr
                            /\ hdr[p - HdrSize].allocated = 1
  BY DEF IInv, TypeOK, HeaderCheckIsExact, HeaderAccepted
<1>9. \A p \in DOMAIN live : p - HdrSize # b
  BY <1>2, <1>8 DEF Fits
<1>10. TypeOK'
  <2>1. live' \in [DOMAIN live' -> Requests]
    BY <1>2, <1>7 DEF IInv, TypeOK
  <2>2. DOMAIN live' \subseteq Nat
    BY <1>6, <1>7, <1>8
  <2> QED BY <1>3, <1>5, <2>1, <2>2 DEF IInv, TypeOK, HType
<1>11. ListWellFormed' /\ Coalesced'
  BY <1>5 DEF ListWellFormed, Coalesced, CoalescedOf
<1>12. HeaderCheckIsExact'
  <2>1. \A p \in DOMAIN live' : HeaderAccepted(hdr', p)
    BY <1>5, <1>6, <1>7, <1>8, <1>9 DEF HeaderAccepted, AddsBlock
  <2>2. \A c \in DOMAIN hdr' : hdr'[c].allocated = 1 => c + HdrSize \in DOMAIN live'
    BY <1>5, <1>7 DEF AddsBlock, IInv, HeaderCheckIsExact
  <2> QED BY <1>3, <2>1, <2>2 DEF HeaderCheckIsExact
<1>13. GrantCoversRequest'
  <2> SUFFICES ASSUME NEW p \in DOMAIN live', live'[p] + (Align - 1) < UintSpan
               PROVE  p - HdrSize \in DOMAIN hdr' /\ live'[p] <= hdr'[p - HdrSize].size
    BY DEF GrantCoversRequest
  <2>1. CASE p = b + HdrSize
    BY <2>1, <1>1, <1>5, <1>6, <1>7, AlignUpCovers DEF AddsBlock, n
  <2>2. CASE p # b + HdrSize
    BY <2>2, <1>5, <1>7, <1>8, <1>9 DEF AddsBlock, IInv, GrantCoversRequest
  <2> QED BY <2>1, <2>2
<1> QED BY <1>10, <1>11, <1>12, <1>13 DEF IInv

(* free preserves IInv, whatever it merges.                                *)
LEMMA FreeIInv ==
  ASSUME IInv, NEW p \in DOMAIN live \cup stale, Free(p)
  PROVE  IInv'
<1> DEFINE u == Unmark(hdr, p - HdrSize)
<1>1. PICK b \in DOMAIN hdr : b = p - HdrSize
  BY DEF Free, HeaderAccepted
<1>2. /\ hdr' = Coalesce(Unmark(hdr, b), b)
      /\ live' = [q \in DOMAIN live \ {p} |-> live[q]]
      /\ stale' = stale \cup {p}
      /\ status' = status
      /\ hdr[b].allocated = 1 /\ p >= HdrSize
  BY <1>1 DEF Free, HeaderAccepted
<1>3. HType(hdr) /\ Chain(hdr) /\ CoalescedOf(hdr)
  BY DEF IInv, TypeOK, HType, ListWellFormed, Coalesced, CoalescedOf
<1>4. /\ HType(hdr') /\ Chain(hdr') /\ CoalescedOf(hdr')
      /\ SameAllocated(hdr', Unmark(hdr, b))
  BY <1>2, <1>3, FreeBlock
<1>5. /\ DOMAIN u = DOMAIN hdr
      /\ u[b].allocated = 0
      /\ \A c \in DOMAIN hdr \ {b} : u[c] = hdr[c]
  BY <1>1 DEF Unmark, Fields
<1>6. SameAllocated(hdr', u)
  BY <1>1, <1>4
<1> HIDE DEF u
<1>7. /\ p \in Nat /\ b \in Nat /\ HdrSize \in Nat /\ p = b + HdrSize
      /\ \A c \in DOMAIN hdr' : c \in Nat
      /\ \A q \in DOMAIN live \cup stale : q \in Nat
  <2>1. \A q \in DOMAIN live \cup stale : q \in Nat
    BY DEF IInv, TypeOK
  <2>2. b \in Nat /\ \A c \in DOMAIN hdr' : c \in Nat
    BY <1>3, <1>4 DEF HType
  <2> QED BY <2>1, <2>2, <1>1, <1>2, HeapAssumption
<1>8. \A q \in DOMAIN live : /\ q >= HdrSize /\ q - HdrSize \in DOMAIN hdr
                            /\ hdr[q - HdrSize].allocated = 1
  BY DEF IInv, HeaderCheckIsExact, HeaderAccepted
<1>9. /\ DOMAIN live' = DOMAIN live \ {p}
      /\ \A q \in DOMAIN live' : live'[q] = live[q] /\ q - HdrSize # b
  BY <1>2, <1>7
<1>10. \A q \in DOMAIN live' : /\ q - HdrSize \in DOMAIN hdr'
                              /\ hdr'[q - HdrSize].allocated = 1
                              /\ hdr'[q - HdrSize].size = hdr[q - HdrSize].size
  BY <1>5, <1>6, <1>8, <1>9 DEF SameAllocated
<1>11. TypeOK'
  <2>1. live' \in [DOMAIN live' -> Requests] /\ DOMAIN live' \subseteq Nat
    BY <1>2, <1>9 DEF IInv, TypeOK
  <2> QED BY <1>2, <1>4, <1>7, <2>1 DEF IInv, TypeOK, HType
<1>12. ListWellFormed' /\ Coalesced'
  BY <1>4 DEF ListWellFormed, Coalesced, CoalescedOf
<1>13. HeaderCheckIsExact'
  <2>1. \A q \in DOMAIN live' : HeaderAccepted(hdr', q)
    BY <1>8, <1>9, <1>10 DEF HeaderAccepted
  <2>2. \A q \in stale' : ~HeaderAccepted(hdr', q)
    <3> SUFFICES ASSUME NEW q \in stale', HeaderAccepted(hdr', q) PROVE FALSE
      OBVIOUS
    <3>1. q \in Nat /\ q >= HdrSize /\ q - HdrSize \in DOMAIN hdr'
          /\ hdr'[q - HdrSize].allocated = 1
      BY <1>2, <1>7 DEF HeaderAccepted
    <3>2. q - HdrSize \in DOMAIN hdr /\ q - HdrSize # b /\ hdr[q - HdrSize].allocated = 1
      BY <3>1, <1>5, <1>6 DEF SameAllocated
    <3>3. q \in stale
      BY <3>2, <1>2, <1>7
    <3> QED BY <3>1, <3>2, <3>3 DEF IInv, HeaderCheckIsExact, HeaderAccepted
  <2>3. \A c \in DOMAIN hdr' : hdr'[c].allocated = 1 => c + HdrSize \in DOMAIN live'
    <3> SUFFICES ASSUME NEW c \in DOMAIN hdr', hdr'[c].allocated = 1
                 PROVE  c + HdrSize \in DOMAIN live'
      OBVIOUS
    <3>1. c \in DOMAIN hdr /\ c # b /\ hdr[c].allocated = 1
      BY <1>5, <1>6 DEF SameAllocated
    <3> QED BY <3>1, <1>7, <1>9 DEF IInv, HeaderCheckIsExact
  <2> QED BY <2>1, <2>2, <2>3 DEF HeaderCheckIsExact
<1>14. GrantCoversRequest'
  BY <1>9, <1>10 DEF IInv, GrantCoversRequest
<1> QED BY <1>11, <1>12, <1>13, <1>14 DEF IInv

(* IInv is inductive.                                                      *)
LEMMA NextIInv == IInv /\ [Next]_vars => IInv'
<1> SUFFICES ASSUME IInv, [Next]_vars PROVE IInv'
  OBVIOUS
<1>1. ASSUME NEW req \in Requests, Malloc(req) PROVE IInv'
  BY <1>1, MallocIInv
<1>2. ASSUME NEW p \in DOMAIN live \cup stale, Free(p) PROVE IInv'
  BY <1>2, FreeIInv
<1>3. CASE UNCHANGED <<hdr, live, stale>> /\ status' \in
             {status, "Out of heap space", "Double free detected"}
  BY <1>3 DEF IInv, TypeOK, ListWellFormed, Coalesced, HeaderCheckIsExact,
              GrantCoversRequest
<1>4. ASSUME NEW req \in Requests, MallocPanic(req) PROVE IInv'
  BY <1>3, <1>4 DEF MallocPanic
<1>5. ASSUME NEW p \in DOMAIN live \cup stale, FreePanic(p) PROVE IInv'
  BY <1>3, <1>5 DEF FreePanic
<1>6. CASE UNCHANGED vars
  BY <1>3, <1>6 DEF vars
<1> QED BY <1>1, <1>2, <1>4, <1>5, <1>6 DEF Next

(* The types of the heap's state hold in every reachable state.            *)
THEOREM HeapTypeCorrect == Spec => []TypeOK
<1>1. IInv => TypeOK
  BY DEF IInv
<1> QED BY <1>1, InitIInv, NextIInv, PTL DEF Spec

(* The header list stays a doubly linked chain in address order whose      *)
(* blocks do not overlap and end inside the heap, and no two neighbours    *)
(* are free, under every sequence of malloc and free.                      *)
THEOREM HeapListCorrect == Spec => []ListSound
<1>1. IInv => ListSound
  BY DEF IInv, ListSound
<1> QED BY <1>1, InitIInv, NextIInv, PTL DEF Spec

(* The double-free test of Heap::free accepts exactly the held pointers,   *)
(* among those held and those freed since the last allocation.             *)
THEOREM DoubleFreeTestExact == Spec => []HeaderCheckIsExact
<1>1. IInv => HeaderCheckIsExact
  BY DEF IInv
<1> QED BY <1>1, InitIInv, NextIInv, PTL DEF Spec

(* A held block is at least as large as the request it was granted for,    *)
(* unless align_up wrapped.                                                *)
THEOREM GrantsCoverRequests == Spec => []GrantCoversRequest
<1>1. IInv => GrantCoversRequest
  BY DEF IInv
<1> QED BY <1>1, InitIInv, NextIInv, PTL DEF Spec

-----------------------------------------------------------------------------
(* What Granted, the refinement mapping, holds for a heap of type HType.   *)
LEMMA GrantedDomain ==
  ASSUME HType(hdr)
  PROVE  /\ \A p \in DOMAIN Granted :
              /\ p \in Nat /\ p - HdrSize \in DOMAIN hdr /\ p = (p - HdrSize) + HdrSize
              /\ hdr[p - HdrSize].allocated = 1
              /\ Granted[p] = hdr[p - HdrSize].size
         /\ \A b \in DOMAIN hdr : hdr[b].allocated = 1 => b + HdrSize \in DOMAIN Granted
  BY HeapAssumption DEF Granted, HType

(* The same after a step.                                                  *)
LEMMA GrantedDomainNext ==
  ASSUME HType(hdr')
  PROVE  /\ \A p \in DOMAIN Granted' :
              /\ p \in Nat /\ p - HdrSize \in DOMAIN hdr' /\ p = (p - HdrSize) + HdrSize
              /\ hdr'[p - HdrSize].allocated = 1
              /\ Granted'[p] = hdr'[p - HdrSize].size
         /\ \A b \in DOMAIN hdr' : hdr'[b].allocated = 1 => b + HdrSize \in DOMAIN Granted'
  BY HeapAssumption DEF Granted, HType

(* A malloc that returns is a Grant of the abstract allocator.             *)
LEMMA MallocGrants ==
  ASSUME IInv, IInv', NEW req \in Requests, Malloc(req)
  PROVE  \E p \in HeapStart .. HeapEnd : A!Grant(p)
<1> DEFINE n == AlignUp(req)
<1>1. n \in Nat
  BY HeapAssumption, AlignUpType
<1>2. PICK b \in DOMAIN hdr : Fits(hdr, b, n) /\ hdr' = Carve(hdr, b, n)
  BY DEF Malloc, FirstFree
<1>3. /\ HType(hdr) /\ Chain(hdr) /\ CoalescedOf(hdr)
      /\ HType(hdr') /\ Chain(hdr')
  BY DEF IInv, TypeOK, HType, ListWellFormed, Coalesced, CoalescedOf
<1>4. status = "running" /\ status' = "running"
  BY DEF Malloc
<1> HIDE DEF n
<1>5. AddsBlock(hdr', hdr, b, n) /\ hdr[b].allocated = 0
  BY <1>1, <1>2, <1>3, CarveBlock DEF Fits
<1> DEFINE p == b + HdrSize
           g == Granted
           f == Granted'
<1>6. /\ \A c \in DOMAIN hdr \cup DOMAIN hdr' : c \in Nat
      /\ HdrSize \in Nat /\ HdrSize > 0 /\ HeapStart \in Nat /\ HeapEnd \in Nat
      /\ p \in Nat /\ p - HdrSize = b
      /\ \A c \in DOMAIN hdr' : hdr'[c].size \in Nat
  BY <1>3, HeapAssumption DEF HType, Header
<1>7. /\ \A q \in DOMAIN g :
              /\ q \in Nat /\ q - HdrSize \in DOMAIN hdr /\ q = (q - HdrSize) + HdrSize
              /\ hdr[q - HdrSize].allocated = 1
              /\ g[q] = hdr[q - HdrSize].size
      /\ \A c \in DOMAIN hdr : hdr[c].allocated = 1 => c + HdrSize \in DOMAIN g
  BY <1>3, GrantedDomain
<1>8. /\ \A q \in DOMAIN f :
              /\ q \in Nat /\ q - HdrSize \in DOMAIN hdr' /\ q = (q - HdrSize) + HdrSize
              /\ hdr'[q - HdrSize].allocated = 1
              /\ f[q] = hdr'[q - HdrSize].size
      /\ \A c \in DOMAIN hdr' : hdr'[c].allocated = 1 => c + HdrSize \in DOMAIN f
  BY <1>3, GrantedDomainNext
<1>9. f = [q \in DOMAIN f |-> f[q]]
  BY DEF Granted
<1> HIDE DEF g, f
<1>10. p \notin DOMAIN g /\ p \in DOMAIN f /\ f[p] = n
  BY <1>5, <1>6, <1>7, <1>8 DEF AddsBlock
<1>11. \A q \in DOMAIN g : /\ q # p /\ q - HdrSize # b
                          /\ q - HdrSize \in DOMAIN hdr'
                          /\ hdr'[q - HdrSize].allocated = 1
                          /\ q \in DOMAIN f /\ f[q] = g[q]
  BY <1>5, <1>7, <1>8, <1>10 DEF AddsBlock
<1>12. DOMAIN f = DOMAIN g \cup {p}
  <2> SUFFICES ASSUME NEW q \in DOMAIN f, q # p PROVE q \in DOMAIN g
    BY <1>10, <1>11
  <2>1. q - HdrSize # b /\ q - HdrSize \in DOMAIN hdr'
    BY <1>6, <1>8
  <2>2. q - HdrSize \in DOMAIN hdr /\ hdr[q - HdrSize].allocated = 1
    BY <2>1, <1>5, <1>8 DEF AddsBlock
  <2> QED BY <2>2, <1>7, <1>8
<1>13. f = [q \in DOMAIN f |-> IF q = p THEN f[p] ELSE g[q]]
  BY <1>9, <1>11, <1>12
<1>14. p \in HeapStart .. HeapEnd /\ f[p] \in 0 .. (HeapEnd - p)
  <2>1. HeapStart <= b /\ b + HdrSize + hdr'[b].size <= HeapEnd /\ hdr'[b].size = n
    BY <1>3, <1>5 DEF Chain, ChainEnds, ForwardLinks, AddsBlock
  <2> QED BY <2>1, <1>1, <1>6, <1>10
<1>15. ASSUME NEW q \in DOMAIN g
       PROVE  ~(p < q + g[q] /\ q < p + f[p])
  <2> DEFINE c == q - HdrSize
  <2>1. /\ c \in DOMAIN hdr' /\ c # b /\ c \in Nat /\ q = c + HdrSize
        /\ hdr'[c].size = g[q] /\ hdr'[b].size = n /\ b \in DOMAIN hdr' /\ b \in Nat
        /\ g[q] \in Nat
    BY <1>5, <1>6, <1>7, <1>8, <1>11 DEF AddsBlock
  <2> HIDE DEF c
  <2>2. CASE b < c
    <3>1. b + HdrSize + hdr'[b].size <= c
      BY <2>1, <2>2, <1>3, BlocksDisjoint
    <3> QED BY <3>1, <2>1, <1>1, <1>6, <1>10
  <2>3. CASE c < b
    <3>1. c + HdrSize + hdr'[c].size <= b
      BY <2>1, <2>3, <1>3, BlocksDisjoint
    <3> QED BY <3>1, <2>1, <1>1, <1>6, <1>10
  <2> QED BY <2>1, <2>2, <2>3
<1>16. A!Grant(p)
  BY <1>4, <1>10, <1>12, <1>13, <1>14, <1>15 DEF A!Grant, A!Overlap, f, g
<1> QED BY <1>14, <1>16

(* A free that returns is a Release of the abstract allocator.             *)
LEMMA FreeReleases ==
  ASSUME IInv, IInv', NEW p \in DOMAIN live \cup stale, Free(p)
  PROVE  \E q \in DOMAIN Granted : A!Release(q)
<1> DEFINE g == Granted
           f == Granted'
<1>1. PICK b \in DOMAIN hdr : b = p - HdrSize
  BY DEF Free, HeaderAccepted
<1> DEFINE u == Unmark(hdr, b)
<1>2. /\ hdr' = Coalesce(u, b) /\ hdr[b].allocated = 1 /\ p >= HdrSize
      /\ status = "running" /\ status' = "running"
  BY <1>1 DEF Free, HeaderAccepted
<1>3. /\ HType(hdr) /\ Chain(hdr) /\ CoalescedOf(hdr) /\ HType(hdr')
  BY DEF IInv, TypeOK, HType, ListWellFormed, Coalesced, CoalescedOf
<1>4. SameAllocated(hdr', u)
  BY <1>2, <1>3, FreeBlock
<1>5. /\ DOMAIN u = DOMAIN hdr
      /\ u[b].allocated = 0
      /\ \A c \in DOMAIN hdr \ {b} : u[c] = hdr[c]
  BY DEF Unmark, Fields
<1>6. p \in Nat /\ b \in Nat /\ HdrSize \in Nat /\ p = b + HdrSize
  <2>1. p \in Nat /\ b \in Nat
    BY <1>3 DEF IInv, TypeOK, HType
  <2> QED BY <2>1, <1>1, <1>2, HeapAssumption
<1>7. /\ \A q \in DOMAIN g :
              /\ q \in Nat /\ q - HdrSize \in DOMAIN hdr /\ q = (q - HdrSize) + HdrSize
              /\ hdr[q - HdrSize].allocated = 1
              /\ g[q] = hdr[q - HdrSize].size
      /\ \A c \in DOMAIN hdr : hdr[c].allocated = 1 => c + HdrSize \in DOMAIN g
  BY <1>3, GrantedDomain
<1>8. /\ \A q \in DOMAIN f :
              /\ q \in Nat /\ q - HdrSize \in DOMAIN hdr' /\ q = (q - HdrSize) + HdrSize
              /\ hdr'[q - HdrSize].allocated = 1
              /\ f[q] = hdr'[q - HdrSize].size
      /\ \A c \in DOMAIN hdr' : hdr'[c].allocated = 1 => c + HdrSize \in DOMAIN f
  BY <1>3, GrantedDomainNext
<1>9. f = [q \in DOMAIN f |-> f[q]]
  BY DEF Granted
<1> HIDE DEF g, f, u
<1>10. p \in DOMAIN g
  BY <1>2, <1>6, <1>7
<1>11. \A q \in DOMAIN f : q \in DOMAIN g /\ q # p /\ f[q] = g[q]
  <2> TAKE q \in DOMAIN f
  <2>1. q - HdrSize \in DOMAIN hdr /\ q - HdrSize # b /\ hdr[q - HdrSize].allocated = 1
    BY <1>4, <1>5, <1>8 DEF SameAllocated
  <2>2. hdr'[q - HdrSize].size = hdr[q - HdrSize].size
    BY <2>1, <1>4, <1>5 DEF SameAllocated
  <2> QED BY <2>1, <2>2, <1>6, <1>7, <1>8
<1>12. \A q \in DOMAIN g \ {p} : q \in DOMAIN f
  <2> TAKE q \in DOMAIN g \ {p}
  <2>1. q - HdrSize # b /\ q - HdrSize \in DOMAIN hdr /\ hdr[q - HdrSize].allocated = 1
    BY <1>6, <1>7
  <2>2. q - HdrSize \in DOMAIN hdr' /\ hdr'[q - HdrSize].allocated = 1
    BY <2>1, <1>4, <1>5 DEF SameAllocated
  <2> QED BY <2>2, <1>7, <1>8
<1>13. DOMAIN f = DOMAIN g \ {p}
  BY <1>11, <1>12
<1>14. f = [q \in DOMAIN g \ {p} |-> g[q]]
  BY <1>9, <1>11, <1>13
<1>15. A!Release(p)
  BY <1>2, <1>10, <1>14 DEF A!Release, f, g
<1> QED BY <1>10, <1>15 DEF g

(* The heap implements the abstract allocator: spans it hands out never    *)
(* overlap a span that is held, stay inside the heap, and only free by     *)
(* the holder takes one away.                                              *)
THEOREM HeapImplementsAllocator == Spec => ImplementsAllocator
<1>1. Init => A!AInit
  <2> SUFFICES ASSUME Init PROVE A!AInit
    OBVIOUS
  <2>1. \A b \in DOMAIN hdr : hdr[b].allocated = 0
    BY DEF Init, Initialize, Fields
  <2>2. Granted = [p \in {} |-> 0]
    BY <2>1 DEF Granted
  <2> QED BY <2>2 DEF A!AInit, Init
<1>2. IInv /\ IInv' /\ [Next]_vars => [A!ANext]_(A!avars)
  <2> SUFFICES ASSUME IInv, IInv', [Next]_vars PROVE [A!ANext]_(A!avars)
    OBVIOUS
  <2>1. ASSUME NEW req \in Requests, Malloc(req) PROVE A!ANext
    BY <2>1, MallocGrants DEF A!ANext
  <2>2. ASSUME NEW p \in DOMAIN live \cup stale, Free(p) PROVE A!ANext
    BY <2>2, FreeReleases DEF A!ANext
  <2>3. ASSUME NEW req \in Requests, MallocPanic(req) PROVE A!ANext
    BY <2>3 DEF MallocPanic, A!ANext, A!Panic, Granted
  <2>4. ASSUME NEW p \in DOMAIN live \cup stale, FreePanic(p) PROVE A!ANext
    BY <2>4 DEF FreePanic, A!ANext, A!Panic, Granted
  <2>5. CASE UNCHANGED vars
    BY <2>5 DEF vars, A!avars, Granted
  <2> QED BY <2>1, <2>2, <2>3, <2>4, <2>5 DEF Next
<1> QED BY <1>1, <1>2, InitIInv, NextIInv, PTL DEF Spec, ImplementsAllocator, A!ASpec
=============================================================================
