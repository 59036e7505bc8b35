-------------------------------- MODULE Heap --------------------------------
(***************************************************************************)
(* The kernel heap of src/src/arch/x86/mem/heap.cpp: a first-fit allocator *)
(* over a doubly linked list of block headers laid out in the heap itself. *)
(*                                                                         *)
(* Addresses are byte addresses.  hdr maps the address of every header     *)
(* linked from firstHeader to its fields; the magic word is implicit (a    *)
(* linked header has it).  A header absorbed by a merge leaves the domain: *)
(* its bytes stay behind in memory, which module HeapWords models.         *)
(*                                                                         *)
(* The callers here free the pointers they hold, and may free one again as *)
(* long as nothing was allocated since; what a later double free does      *)
(* depends on the bytes of dead headers and belongs to HeapWords.          *)
(***************************************************************************)
EXTENDS Naturals

CONSTANTS
  HeapStart,            \* startAddress: where the first header lives
  HeapEnd,              \* endAddress: first byte after the heap
  HdrSize,              \* sizeof(MemoryHeader)
  Align,                \* sizeof(uint32_t)
  MINIMAL_SPLIT_SIZE,
  UintSpan,             \* 2^32: the span of uint32_t, where align_up wraps
  Requests              \* the sizes callers ask for

ASSUME HeapAssumption ==
  /\ HeapStart \in Nat \ {0}
  /\ HeapEnd \in Nat
  /\ HdrSize \in Nat \ {0}
  /\ Align \in Nat \ {0}
  /\ MINIMAL_SPLIT_SIZE \in Nat \ {0}
  /\ UintSpan \in Nat \ {0}
  /\ Align <= UintSpan
  /\ HeapStart + HdrSize <= HeapEnd
  /\ Requests \subseteq 0 .. (UintSpan - 1)

VARIABLES
  hdr,      \* header address -> its fields, for the linked headers
  live,     \* pointer held by a caller -> the size the caller asked for
  stale,    \* pointers freed since the last allocation
  status    \* "running", or the message of the for(;;) it stopped in

vars == <<hdr, live, stale, status>>

NULL == 0

Header == [next : Nat, prev : Nat, allocated : {0, 1}, size : Nat]

Fields(next, prev, allocated, size) ==
  [next |-> next, prev |-> prev, allocated |-> allocated, size |-> size]

WithPrev(r, prev) == Fields(r.next, prev, r.allocated, r.size)

-----------------------------------------------------------------------------
(***************************************************************************)
(* Heap::Initialize: one free block spans the whole heap.                  *)
(***************************************************************************)
Initialize ==
  [b \in {HeapStart} |->
     Fields(NULL, NULL, 0, HeapEnd - HeapStart - HdrSize)]

Init ==
  /\ hdr = Initialize
  /\ live = [p \in {} |-> 0]
  /\ stale = {}
  /\ status = "running"

AlignDown(n) == n - (n % Align)

(***************************************************************************)
(* The align_up macro in uint32_t arithmetic: the addition wraps.          *)
(***************************************************************************)
AlignUp(n) ==
  LET m == (n + (Align - 1)) % UintSpan IN m - (m % Align)

FitsAnyBlock(h, b, n) == h[b].size >= n

(***************************************************************************)
(* Heap::FirstFree walks the list from firstHeader and stops at the first  *)
(* block that is free and large enough.  The list is in address order      *)
(* (ListSound), so that block is the lowest one that fits; HeapWords has   *)
(* the walk itself.                                                        *)
(***************************************************************************)
Fits(h, b, n) == h[b].allocated = 0 /\ h[b].size >= n

FirstFree(h, n) ==
  {b \in DOMAIN h : Fits(h, b, n) /\ \A c \in DOMAIN h : Fits(h, c, n) => b <= c}

SplitKeepsBackLink(h, b, n) ==
  LET nextBlock == b + n + HdrSize
      rest == Fields(h[b].next, b, 0, h[b].size - n - HdrSize)
  IN [c \in DOMAIN h \cup {nextBlock} |->
        IF c = nextBlock THEN rest
        ELSE IF c = b THEN Fields(nextBlock, h[b].prev, h[b].allocated, h[b].size)
        ELSE h[c]]

(***************************************************************************)
(* InternalAllocate, the split: a new free header behind the n bytes that  *)
(* block b keeps, linked between b and its old successor.                  *)
(***************************************************************************)
Split(h, b, n) ==
  LET nextBlock == b + n + HdrSize
      rest == Fields(h[b].next, b, 0, h[b].size - n - HdrSize)
  IN [c \in DOMAIN h \cup {nextBlock} |->
        IF c = nextBlock THEN rest
        ELSE IF c = b THEN Fields(nextBlock, h[b].prev, h[b].allocated, h[b].size)
        ELSE IF c = h[b].next THEN WithPrev(h[c], nextBlock)
        ELSE h[c]]

SplitsTight(h, b, n) == h[b].size >= n + MINIMAL_SPLIT_SIZE

Splits(h, b, n) == h[b].size >= n + HdrSize + MINIMAL_SPLIT_SIZE

(***************************************************************************)
(* The rest of InternalAllocate: the block is marked and its size becomes  *)
(* the request, also when the block was larger and was not split.          *)
(***************************************************************************)
Take(h, b, n) == [h EXCEPT ![b] = Fields(h[b].next, h[b].prev, 1, n)]

Carve(h, b, n) == Take(IF Splits(h, b, n) THEN Split(h, b, n) ELSE h, b, n)

Malloc(req) ==
  /\ status = "running"
  /\ \E b \in FirstFree(hdr, AlignUp(req)) :
       /\ hdr' = Carve(hdr, b, AlignUp(req))
       /\ live' = [p \in DOMAIN live \cup {b + HdrSize} |->
                     IF p = b + HdrSize THEN req ELSE live[p]]
  /\ stale' = {}
  /\ UNCHANGED status

MallocPanic(req) ==
  /\ status = "running"
  /\ FirstFree(hdr, AlignUp(req)) = {}
  /\ status' = "Out of heap space"
  /\ UNCHANGED <<hdr, live, stale>>

-----------------------------------------------------------------------------
MergePrevDropsHeader(h, b) ==
  LET p == h[b].prev
  IN [c \in DOMAIN h \ {b} |->
        IF c = p THEN Fields(h[b].next, h[p].prev, h[p].allocated, h[p].size + h[b].size)
        ELSE IF c = h[b].next THEN WithPrev(h[c], p)
        ELSE h[c]]

(***************************************************************************)
(* Heap::free, first merge: block b is absorbed by its predecessor.        *)
(***************************************************************************)
MergePrev(h, b) ==
  LET p == h[b].prev
  IN [c \in DOMAIN h \ {b} |->
        IF c = p THEN Fields(h[b].next, h[p].prev, h[p].allocated,
                             h[p].size + h[b].size + HdrSize)
        ELSE IF c = h[b].next THEN WithPrev(h[c], p)
        ELSE h[c]]

(***************************************************************************)
(* Heap::free, second merge: block b absorbs its successor.                *)
(***************************************************************************)
MergeNext(h, b) ==
  LET x == h[b].next
  IN [c \in DOMAIN h \ {x} |->
        IF c = b THEN Fields(h[x].next, h[b].prev, h[b].allocated,
                             h[b].size + h[x].size + HdrSize)
        ELSE IF c = h[x].next THEN WithPrev(h[c], b)
        ELSE h[c]]

UnmarkForgotten(h, b) == h

Unmark(h, b) == [h EXCEPT ![b] = Fields(h[b].next, h[b].prev, 0, h[b].size)]

PrevIsFree(h, b) == h[b].prev # NULL /\ h[h[b].prev].allocated = 0

NextIsFree(h, b) == h[b].next # NULL /\ h[h[b].next].allocated = 0

JoinNext(h, b) == IF NextIsFree(h, b) THEN MergeNext(h, b) ELSE h

Coalesce(h, b) ==
  IF PrevIsFree(h, b) THEN JoinNext(MergePrev(h, b), h[b].prev)
                      ELSE JoinNext(h, b)

(***************************************************************************)
(* The test at the top of Heap::free on the header in front of the         *)
(* pointer; failing it is reported as a double free and never returns.     *)
(***************************************************************************)
HeaderAccepted(h, p) ==
  /\ p >= HdrSize
  /\ p - HdrSize \in DOMAIN h
  /\ h[p - HdrSize].allocated = 1

Free(p) ==
  /\ status = "running"
  /\ HeaderAccepted(hdr, p)
  /\ hdr' = Coalesce(Unmark(hdr, p - HdrSize), p - HdrSize)
  /\ live' = [q \in DOMAIN live \ {p} |-> live[q]]
  /\ stale' = stale \cup {p}
  /\ UNCHANGED status

FreePanic(p) ==
  /\ status = "running"
  /\ ~HeaderAccepted(hdr, p)
  /\ status' = "Double free detected"
  /\ UNCHANGED <<hdr, live, stale>>

-----------------------------------------------------------------------------
Next ==
  \/ \E req \in Requests : Malloc(req) \/ MallocPanic(req)
  \/ \E p \in DOMAIN live \cup stale : Free(p) \/ FreePanic(p)

Spec == Init /\ [][Next]_vars

-----------------------------------------------------------------------------
(***************************************************************************)
(* Types of the heap's state: header fields, caller bookkeeping, status.   *)
(***************************************************************************)
TypeOK ==
  /\ DOMAIN hdr \subseteq Nat
  /\ hdr \in [DOMAIN hdr -> Header]
  /\ DOMAIN live \subseteq Nat
  /\ live \in [DOMAIN live -> Requests]
  /\ stale \subseteq Nat
  /\ status \in {"running", "Out of heap space", "Double free detected"}

(***************************************************************************)
(* The header list is a doubly linked chain in address order: it starts at *)
(* firstHeader, next and prev are inverse, next is the header just above,  *)
(* and no block reaches past its successor or past the end of the heap.    *)
(* This is what InternalAllocate and free rely on whenever they follow a   *)
(* pointer they did not just write.                                        *)
(***************************************************************************)
ChainEnds(h) ==
  /\ HeapStart \in DOMAIN h
  /\ \A b \in DOMAIN h : HeapStart <= b
  /\ \A b \in DOMAIN h : h[b].prev = NULL <=> b = HeapStart

ForwardLinks(h) ==
  \A b \in DOMAIN h :
    /\ b + HdrSize + h[b].size <= HeapEnd
    /\ h[b].next # NULL =>
         /\ h[b].next \in DOMAIN h
         /\ h[h[b].next].prev = b
         /\ b + HdrSize + h[b].size <= h[b].next

BackLinks(h) ==
  \A b \in DOMAIN h :
    h[b].prev # NULL => h[b].prev \in DOMAIN h /\ h[h[b].prev].next = b

NextIsSuccessor(h) ==
  \A b, c \in DOMAIN h : b < c => h[b].next # NULL /\ h[b].next <= c

Chain(h) ==
  /\ ChainEnds(h)
  /\ ForwardLinks(h)
  /\ BackLinks(h)
  /\ NextIsSuccessor(h)

ListWellFormed == Chain(hdr)

(***************************************************************************)
(* Heap::free leaves no two neighbouring free blocks, whatever the order   *)
(* in which blocks were freed, and a split never creates such a pair.      *)
(***************************************************************************)
Coalesced ==
  \A b \in DOMAIN hdr :
    hdr[b].next # NULL => 1 \in {hdr[b].allocated, hdr[hdr[b].next].allocated}

(***************************************************************************)
(* Under every order of malloc and free the headers stay such a chain, and *)
(* none of its free blocks has a free neighbour.                           *)
(***************************************************************************)
ListSound == ListWellFormed /\ Coalesced

(***************************************************************************)
(* The double-free test of Heap::free is exact between allocations: it     *)
(* accepts every pointer a caller holds, and nothing else: it refuses      *)
(* every pointer freed since the last malloc, merged away or not.          *)
(***************************************************************************)
HeaderCheckIsExact ==
  /\ \A p \in DOMAIN live : HeaderAccepted(hdr, p)
  /\ \A p \in stale : ~HeaderAccepted(hdr, p)
  /\ \A b \in DOMAIN hdr : hdr[b].allocated = 1 => b + HdrSize \in DOMAIN live

(***************************************************************************)
(* A block keeps at least the bytes its holder asked malloc for, for as    *)
(* long as it is held, unless align_up wrapped around in uint32_t.         *)
(***************************************************************************)
GrantCoversRequest ==
  \A p \in DOMAIN live :
    live[p] + (Align - 1) < UintSpan =>
      p - HdrSize \in DOMAIN hdr /\ live[p] <= hdr[p - HdrSize].size

(***************************************************************************)
(* The heap implements the abstract allocator: what malloc returns never   *)
(* overlaps what is already held, and holders keep their spans.            *)
(***************************************************************************)
Granted ==
  [p \in {b + HdrSize : b \in {c \in DOMAIN hdr : hdr[c].allocated = 1}} |->
     hdr[p - HdrSize].size]

A == INSTANCE Allocator
       WITH ArenaStart <- HeapStart, ArenaEnd <- HeapEnd,
            held <- Granted, stopped <- status # "running"

ImplementsAllocator == A!ASpec
=============================================================================
