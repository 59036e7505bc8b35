------------------------------ MODULE HeapWords -------------------------------
(***************************************************************************)
(* The kernel heap of src/src/arch/x86/mem/heap.cpp as the words of memory *)
(* it works on.  Headers and the data of their holders share one array: a  *)
(* header that a merge absorbed stays behind until something overwrites    *)
(* it, and what holders write may look like a header.                      *)
(***************************************************************************)
EXTENDS Naturals

CONSTANTS
  HeapStart, HeapEnd,   \* startAddress and endAddress
  MINIMAL_SPLIT_SIZE,
  UintSpan,             \* 2^32
  Requests,             \* the sizes callers ask for
  MEMORY_HEADER_MAGIC,
  Contents              \* what holders write, and what memory held before

VARIABLES
  mem,      \* address of a word -> its value
  live,     \* pointer held by a caller -> the size the caller asked for
  freed,    \* pointer freed since the last allocation -> bytes it had
  status    \* "running", or the message of the for(;;) it stopped in

vars == <<mem, live, freed, status>>

NULL == 0
Word == 4
sizeofHeader == 5 * Word

Words(from, to) == {a \in from .. (to - 1) : (a - HeapStart) % Word = 0}

ASSUME HeapWordsAssumption ==
  /\ HeapStart \in Nat \ {0} /\ HeapEnd \in Nat
  /\ (HeapEnd - HeapStart) % Word = 0
  /\ UintSpan \in Nat
  /\ HeapStart + sizeofHeader <= HeapEnd /\ HeapEnd < UintSpan
  /\ MINIMAL_SPLIT_SIZE \in Nat \ {0}
  /\ Requests \subseteq 0 .. (UintSpan - 1)
  /\ MEMORY_HEADER_MAGIC \in 1 .. (UintSpan - 1)
  /\ Contents \subseteq 0 .. (UintSpan - 1)

(***************************************************************************)
(* The fields of the header at b.                                          *)
(***************************************************************************)
magic(b) == b
next(b) == b + Word
prev(b) == b + 2 * Word
allocated(b) == b + 3 * Word
size(b) == b + 4 * Word

Store(m, a, v) == [m EXCEPT ![a] = v]

StoreUnlessNull(m, b, field(_), v) == IF b = NULL THEN m ELSE Store(m, field(b), v)

StoreHeader(m, b, nextBlock, prevBlock, free, n) ==
  [a \in DOMAIN m |->
     IF a = magic(b) THEN MEMORY_HEADER_MAGIC
     ELSE IF a = next(b) THEN nextBlock
     ELSE IF a = prev(b) THEN prevBlock
     ELSE IF a = allocated(b) THEN free
     ELSE IF a = size(b) THEN n
     ELSE m[a]]

(***************************************************************************)
(* Heap::Initialize, on memory with any contents.                          *)
(***************************************************************************)
Initialize(junk) ==
  StoreHeader([a \in Words(HeapStart, HeapEnd) |-> junk],
              HeapStart, NULL, NULL, 0, HeapEnd - HeapStart - sizeofHeader)

Init ==
  /\ \E junk \in Contents : mem = Initialize(junk)
  /\ live = [p \in {} |-> 0]
  /\ freed = [p \in {} |-> 0]
  /\ status = "running"

align_up(n) == LET m == (n + (Word - 1)) % UintSpan IN m - (m % Word)

(***************************************************************************)
(* Heap::FirstFree: the walk from firstHeader, one header a step.  It ends *)
(* at a block that fits, at the end of the list, and at a header without   *)
(* the magic word.  Headers are sizeofHeader bytes long, so that a list in *)
(* address order is walked in MaxHeaders steps.                            *)
(***************************************************************************)
MaxHeaders == (HeapEnd - HeapStart) \div sizeofHeader

Passes(m, b, n) ==
  /\ b # NULL
  /\ m[magic(b)] = MEMORY_HEADER_MAGIC
  /\ m[allocated(b)] # 0 \/ m[size(b)] < n

Onwards(m, b, n) == IF Passes(m, b, n) THEN m[next(b)] ELSE b

Walk(m, n) ==
  LET at[k \in 0 .. MaxHeaders] == IF k = 0 THEN HeapStart ELSE Onwards(m, at[k - 1], n)
  IN at

FirstFree(m, n) ==
  LET b == Walk(m, n)[MaxHeaders]
  IN IF b = NULL \/ m[magic(b)] # MEMORY_HEADER_MAGIC THEN NULL ELSE b

(***************************************************************************)
(* InternalAllocate, the split.                                            *)
(***************************************************************************)
Split(m, b, n) ==
  LET x == b + n + sizeofHeader
      rest == StoreHeader(m, x, m[next(b)], b, 0, m[size(b)] - n - sizeofHeader)
  IN Store(StoreUnlessNull(rest, m[next(b)], prev, x), next(b), x)

Splits(m, b, n) == m[size(b)] >= n + sizeofHeader + MINIMAL_SPLIT_SIZE

Take(m, b, n) == Store(Store(m, allocated(b), 1), size(b), n)

Malloc(req) ==
  LET n == align_up(req)
      b == FirstFree(mem, n)
      p == b + sizeofHeader
  IN /\ status = "running"
     /\ b # NULL
     /\ mem' = Take(IF Splits(mem, b, n) THEN Split(mem, b, n) ELSE mem, b, n)
     /\ live' = [q \in DOMAIN live \cup {p} |-> IF q = p THEN req ELSE live[q]]
     /\ freed' = [q \in {} |-> 0]
     /\ UNCHANGED status

MallocPanic(req) ==
  /\ status = "running"
  /\ FirstFree(mem, align_up(req)) = NULL
  /\ status' = "Out of heap space"
  /\ UNCHANGED <<mem, live, freed>>

(***************************************************************************)
(* A caller writes the n bytes at p, from some word on.  Two calls give    *)
(* two words different values, so blocks get every pattern of Contents.    *)
(***************************************************************************)
Writes(p, n, v) ==
  /\ status = "running"
  /\ \E a \in Words(p, p + n) :
       mem' = [w \in DOMAIN mem |-> IF w \in a .. (p + n - 1) THEN v ELSE mem[w]]
  /\ UNCHANGED <<live, freed, status>>

HolderWrites(p, v) == Writes(p, mem[size(p - sizeofHeader)], v)

(***************************************************************************)
(* RemoveThread frees the stack of a thread that goes on running on it,    *)
(* and on which the tick that switches away from it frees the thread.      *)
(***************************************************************************)
StackOfRemovedThread(p, v) == Writes(p, freed[p], v)

-----------------------------------------------------------------------------
HeaderAccepted(m, p) ==
  LET b == p - sizeofHeader
  IN m[magic(b)] = MEMORY_HEADER_MAGIC /\ m[allocated(b)] # 0

(***************************************************************************)
(* Heap::free: the two merges, as stores.                                  *)
(***************************************************************************)
MergePrev(m, b) ==
  LET p == m[prev(b)]
      joined == Store(Store(m, next(p), m[next(b)]),
                      size(p), m[size(p)] + m[size(b)] + sizeofHeader)
  IN StoreUnlessNull(joined, m[next(b)], prev, p)

MergeNextLosesTail(m, b) ==
  LET x == m[next(b)]
      joined == Store(Store(m, size(b), m[size(b)] + m[size(x)] + sizeofHeader),
                      next(b), NULL)
  IN StoreUnlessNull(joined, m[next(x)], prev, b)

MergeNext(m, b) ==
  LET x == m[next(b)]
      joined == Store(Store(m, size(b), m[size(b)] + m[size(x)] + sizeofHeader),
                      next(b), m[next(x)])
  IN StoreUnlessNull(joined, m[next(x)], prev, b)

IsFree(m, b) == b # NULL /\ m[allocated(b)] = 0

JoinNext(m, b) == IF IsFree(m, m[next(b)]) THEN MergeNext(m, b) ELSE m

Coalesce(m, b) ==
  IF IsFree(m, m[prev(b)]) THEN JoinNext(MergePrev(m, b), m[prev(b)])
                           ELSE JoinNext(m, b)

UnmarkThroughPointer(m, p) == Store(m, allocated(p), 0)

Unmark(m, p) == Store(m, allocated(p - sizeofHeader), 0)

Free(p) ==
  LET b == p - sizeofHeader
  IN /\ status = "running"
     /\ HeaderAccepted(mem, p)
     /\ mem' = Coalesce(Unmark(mem, p), b)
     /\ live' = [q \in DOMAIN live \ {p} |-> live[q]]
     /\ freed' = [q \in DOMAIN freed \cup {p} |-> IF q = p THEN mem[size(b)] ELSE freed[q]]
     /\ UNCHANGED status

FreePanic(p) ==
  /\ status = "running"
  /\ ~HeaderAccepted(mem, p)
  /\ status' = "Double free detected"
  /\ UNCHANGED <<mem, live, freed>>

(***************************************************************************)
(* Callers free what they hold, or free again what was freed since the     *)
(* last allocation: the double frees the test is able to tell.  Later ones *)
(* it may miss: a split can write a new header across the allocated word   *)
(* of a dead one, whose magic word is still there.                         *)
(***************************************************************************)
Next ==
  \/ \E req \in Requests : Malloc(req) \/ MallocPanic(req)
  \/ \E p \in DOMAIN live, v \in Contents : HolderWrites(p, v)
  \/ \E p \in DOMAIN freed, v \in Contents : StackOfRemovedThread(p, v)
  \/ \E p \in DOMAIN live \cup DOMAIN freed : Free(p) \/ FreePanic(p)

Spec == Init /\ [][Next]_vars

-----------------------------------------------------------------------------
(***************************************************************************)
(* The linked headers, read back from memory: those a walk meets that asks *)
(* for more than any block has.                                            *)
(***************************************************************************)
Linked(m) ==
  LET at == Walk(m, UintSpan)
  IN {at[k] : k \in 0 .. MaxHeaders} \ {NULL}

Parsed(m) ==
  [b \in Linked(m) |-> [next |-> m[next(b)], prev |-> m[prev(b)],
                        allocated |-> m[allocated(b)], size |-> m[size(b)]]]

H == INSTANCE Heap
       WITH hdr <- Parsed(mem), stale <- DOMAIN freed, HdrSize <- sizeofHeader, Align <- Word

(***************************************************************************)
(* The words implement Heap: whatever the holders write, whatever a thread *)
(* writes into the stack that RemoveThread freed under it, whatever dead   *)
(* headers lie around, the linked headers stay as Heap says and malloc,    *)
(* free and both panics happen exactly when they do there.                 *)
(***************************************************************************)
ImplementsHeap == H!Spec

HeaderWords == UNION {Words(b, b + sizeofHeader) : b \in Linked(mem)}

(***************************************************************************)
(* A step of Heap::free writes to headers of the list only: the bytes of   *)
(* held blocks and of blocks freed before stay, so that a thread returns   *)
(* safely from the RemoveThread that freed its stack, and from frees the   *)
(* next tick makes on that stack.                                          *)
(***************************************************************************)
FreeKeepsPayload ==
  DOMAIN live' # DOMAIN live /\ DOMAIN freed' # {} =>
    {a \in DOMAIN mem : mem'[a] # mem[a]} \subseteq HeaderWords

RoomEnd(b) == IF mem[next(b)] = NULL THEN HeapEnd ELSE mem[next(b)]

(***************************************************************************)
(* Until the next malloc the bytes of a freed block lie in the room of one *)
(* free block of the list, below the next header, and the header in front  *)
(* of them stays unmarked, wherever merges left it: a thread may go on     *)
(* using the stack RemoveThread freed, and a second free is refused.       *)
(***************************************************************************)
FreedStaysFree ==
  \A p \in DOMAIN freed :
    /\ mem[allocated(p - sizeofHeader)] = 0
    /\ \E b \in Linked(mem) : /\ mem[allocated(b)] = 0
                              /\ b + sizeofHeader <= p
                              /\ p + freed[p] <= RoomEnd(b)

(***************************************************************************)
(* A thread may go on running on the stack that RemoveThread freed under   *)
(* it, and a second free is refused, until the next malloc: no free writes *)
(* into the stack, and it lies in a free block, clear of linked headers.   *)
(***************************************************************************)
FreedStackUsable == [][ FreeKeepsPayload /\ FreedStaysFree' ]_vars
=============================================================================
