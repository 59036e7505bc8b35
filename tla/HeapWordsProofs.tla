-------------------------- MODULE HeapWordsProofs ---------------------------
(***************************************************************************)
(* Proofs about the heap as words of memory: it implements the heap as     *)
(* headers, and a removed thread may go on using the stack freed under it, *)
(* for every heap, every set of requests and whatever is written into      *)
(* blocks.                                                                 *)
(*                                                                         *)
(* WordsInv says that the headers read back from memory are a sound list,  *)
(* that held pointers point behind marked headers, and where the freed     *)
(* pointers lie: in the room of a free block, behind an unmarked word, and *)
(* clear of each other.  Without the last part a removed thread that       *)
(* writes to its freed stack could mark the dead header of another freed   *)
(* pointer, which free would then accept.                                  *)
(***************************************************************************)
EXTENDS HeapWords, NatFacts, TLAPS

(* What is proved of lists of headers, for headers of five words.          *)
L == INSTANCE HeapProofs
       WITH hdr <- Parsed(mem), stale <- DOMAIN freed, HdrSize <- sizeofHeader, Align <- Word

(* What Heap assumes holds of the words.                                   *)
LEMMA HeapHolds == L!HeapAssumption
<1>1. /\ HeapStart \in Nat \ {0} /\ HeapEnd \in Nat /\ UintSpan \in Nat
      /\ HeapStart + sizeofHeader <= HeapEnd /\ HeapEnd < UintSpan
      /\ MINIMAL_SPLIT_SIZE \in Nat \ {0} /\ Requests \subseteq 0 .. (UintSpan - 1)
  BY HeapWordsAssumption
<1>2. sizeofHeader = 20 /\ Word = 4
  BY DEF sizeofHeader, Word
<1>3. Word <= UintSpan /\ UintSpan # 0
  BY <1>1, <1>2
<1>4. sizeofHeader \in Nat \ {0} /\ Word \in Nat \ {0}
  BY <1>2
<1> QED BY <1>1, <1>3, <1>4 DEF L!HeapAssumption

Mem == Words(HeapStart, HeapEnd)

(* The five words at b hold a header with the fields r.                    *)
HeaderAt(m, b, r) ==
  /\ m[b] = MEMORY_HEADER_MAGIC
  /\ m[b + 4] = r.next
  /\ m[b + 8] = r.prev
  /\ m[b + 12] = r.allocated
  /\ m[b + 16] = r.size

(* Memory m holds the headers h, on word boundaries and clear of each      *)
(* other.                                                                  *)
Spaced(h) ==
  /\ \A b \in DOMAIN h : /\ b \in Nat /\ HeapStart <= b /\ b + 20 <= HeapEnd
                         /\ (b - HeapStart) % 4 = 0
  /\ \A b, c \in DOMAIN h : b # c => b + 20 <= c \/ c + 20 <= b

Agrees(m, h) ==
  /\ m \in [Mem -> Nat]
  /\ Spaced(h)
  /\ \A b \in DOMAIN h : HeaderAt(m, b, h[b])

(* What the assumptions fix, in numbers.                                   *)
LEMMA Numbers ==
  /\ HeapStart \in Nat /\ HeapStart > 0 /\ HeapEnd \in Nat
  /\ (HeapEnd - HeapStart) % 4 = 0 /\ HeapEnd < UintSpan /\ UintSpan \in Nat
  /\ HeapStart + 20 <= HeapEnd /\ MEMORY_HEADER_MAGIC \in Nat
  /\ sizeofHeader = 20 /\ Word = 4
  /\ \A v \in Contents : v \in Nat
<1>1. sizeofHeader = 20 /\ Word = 4
  BY DEF sizeofHeader, Word
<1>2. /\ HeapStart \in Nat /\ HeapStart > 0 /\ HeapEnd \in Nat /\ UintSpan \in Nat
  BY HeapWordsAssumption
<1> QED BY <1>1, <1>2, HeapWordsAssumption

(* The addresses of memory: the word boundaries from HeapStart below       *)
(* HeapEnd.                                                                *)
LEMMA InMem ==
  ASSUME NEW a
  PROVE  a \in Mem <=> a \in Nat /\ HeapStart <= a /\ a < HeapEnd /\ (a - HeapStart) % 4 = 0
BY Numbers DEF Mem, Words

(* The fields of an aligned header inside the heap are words of memory.    *)
LEMMA FieldsInMem ==
  ASSUME NEW b \in Nat, HeapStart <= b, b + 20 <= HeapEnd, (b - HeapStart) % 4 = 0
  PROVE  {b, b + 4, b + 8, b + 12, b + 16} \subseteq Mem
<1>1. \A a \in {b, b + 4, b + 8, b + 12, b + 16} :
         a \in Nat /\ HeapStart <= a /\ a < HeapEnd /\ (a - HeapStart) % 4 = 0
  BY Numbers
<1> QED BY <1>1, InMem

(* One store changes the word it addresses and no other.                   *)
LEMMA StoreIs ==
  ASSUME NEW m \in [Mem -> Nat], NEW a \in Mem, NEW v \in Nat
  PROVE  /\ Store(m, a, v) \in [Mem -> Nat]
         /\ \A w \in Mem : Store(m, a, v)[w] = IF w = a THEN v ELSE m[w]
BY DEF Store

-----------------------------------------------------------------------------
(* f is the walk that FirstFree takes for n bytes, as far as step k.       *)
Walks(f, m, n, k) ==
  f = [j \in 0 .. k |-> IF j = 0 THEN HeapStart ELSE Onwards(m, f[j - 1], n)]

(* A walk of any number of steps exists.                                   *)
LEMMA WalkExists ==
  ASSUME NEW m, NEW n, NEW K \in Nat
  PROVE  \E f : Walks(f, m, n, K)
<1> DEFINE Bad == {k \in 0 .. K : ~ \E f : Walks(f, m, n, k)}
<1>1. SUFFICES ASSUME Bad # {} PROVE FALSE
  OBVIOUS
<1>2. PICK k \in Bad : \A j \in Bad : k <= j
  <2>1. Bad \subseteq Nat
    OBVIOUS
  <2> HIDE DEF Bad
  <2> QED BY <1>1, <2>1, LeastNat
<1>3. Walks([j \in 0 .. 0 |-> HeapStart], m, n, 0)
  BY DEF Walks
<1>4. k \in Nat \ {0} /\ k - 1 \in (0 .. K) \ Bad
  BY <1>2, <1>3
<1>5. PICK f : Walks(f, m, n, k - 1)
  BY <1>4
<1> DEFINE g == [j \in 0 .. k |-> IF j = k THEN Onwards(m, f[k - 1], n) ELSE f[j]]
<1>6. Walks(g, m, n, k)
  <2>1. ASSUME NEW j \in 0 .. k
        PROVE  g[j] = IF j = 0 THEN HeapStart ELSE Onwards(m, g[j - 1], n)
    <3>1. CASE j = k
      BY <3>1, <1>4
    <3>2. CASE j # k
      <4>1. /\ j \in 0 .. (k - 1) /\ g[j] = f[j]
            /\ j # 0 => j - 1 \in 0 .. (k - 1) /\ g[j - 1] = f[j - 1]
        BY <3>2, <1>4
      <4> HIDE DEF g
      <4> QED BY <4>1, <1>5 DEF Walks
    <3> QED BY <3>1, <3>2
  <2>2. g = [j \in 0 .. k |-> g[j]]
    OBVIOUS
  <2> HIDE DEF g
  <2> QED BY <2>1, <2>2 DEF Walks
<1> QED BY <1>2, <1>6

(* Walk begins at firstHeader and takes one step of FirstFree's loop at a  *)
(* time.                                                                   *)
LEMMA WalkIs ==
  ASSUME NEW m, NEW n
  PROVE  /\ MaxHeaders \in Nat /\ HeapEnd - HeapStart < 20 * (MaxHeaders + 1)
         /\ Walk(m, n)[0] = HeapStart
         /\ \A k \in 1 .. MaxHeaders :
              Walk(m, n)[k] = Onwards(m, Walk(m, n)[k - 1], n)
<1> DEFINE f == CHOOSE g : Walks(g, m, n, MaxHeaders)
<1>1. MaxHeaders \in Nat /\ HeapEnd - HeapStart < 20 * (MaxHeaders + 1)
  <2>1. HeapEnd - HeapStart \in Nat /\ 20 \in Nat \ {0}
    BY Numbers
  <2>2. MaxHeaders = (HeapEnd - HeapStart) \div 20
    BY Numbers DEF MaxHeaders
  <2>3. ASSUME NEW s \in Nat PROVE s \div 20 \in Nat /\ s < 20 * (s \div 20 + 1)
    OBVIOUS
  <2> QED BY <2>1, <2>2, <2>3
<1>2. Walks(f, m, n, MaxHeaders)
  BY <1>1, WalkExists
<1>3. Walk(m, n) = f
  BY Zenon DEF Walk, Walks
<1> HIDE DEF f
<1>4. f[0] = HeapStart
  BY <1>1, <1>2 DEF Walks
<1>5. ASSUME NEW k \in 1 .. MaxHeaders PROVE f[k] = Onwards(m, f[k - 1], n)
  BY <1>1, <1>2 DEF Walks
<1> QED BY <1>1, <1>3, <1>4, <1>5

(* Where FirstFree's walk is after k steps: at a header below which no     *)
(* block fits, all of them met, or past the end of the list.               *)
Arrived(at, h, n, k) ==
  /\ at[k] \in DOMAIN h \cup {L!NULL}
  /\ at[k] # L!NULL => L!Fits(h, at[k], n) \/ HeapStart + 20 * k <= at[k]
  /\ \A c \in DOMAIN h : at[k] = L!NULL \/ c < at[k] =>
       ~L!Fits(h, c, n) /\ c \in {at[j] : j \in 0 .. k}

(* The walk meets every header in address order until one fits.            *)
LEMMA WalkArrives ==
  ASSUME NEW m, NEW h, L!HType(h), L!Chain(h), Agrees(m, h), NEW n \in Nat,
         NEW K \in 0 .. MaxHeaders
  PROVE  Arrived(Walk(m, n), h, n, K)
<1> DEFINE at == Walk(m, n)
           Bad == {k \in 0 .. MaxHeaders : ~Arrived(at, h, n, k)}
<1>0. /\ MaxHeaders \in Nat /\ at[0] = HeapStart
      /\ \A k \in 1 .. MaxHeaders : at[k] = Onwards(m, at[k - 1], n)
  BY WalkIs
<1>1. SUFFICES ASSUME Bad # {} PROVE FALSE
  OBVIOUS
<1>2. PICK k \in Bad : \A j \in Bad : k <= j
  <2>1. Bad \subseteq Nat
    BY <1>0
  <2> HIDE DEF Bad
  <2> QED BY <1>1, <2>1, LeastNat
<1> HIDE DEF at
<1>3. /\ \A b \in DOMAIN h : b \in Nat /\ HeapStart <= b /\ b # L!NULL
      /\ HeapStart \in DOMAIN h
  BY Numbers DEF L!HType, L!Chain, L!ChainEnds, L!NULL
<1>11. \A b \in DOMAIN h : /\ h[b].next \in Nat /\ h[b].allocated \in {0, 1}
                          /\ h[b].size \in Nat
  BY DEF L!HType, L!Header
<1>12. \A b \in DOMAIN h : h[b].next # L!NULL => /\ h[b].next \in DOMAIN h
                                             /\ b + 20 <= h[b].next
  BY <1>3, <1>11, Numbers DEF L!Chain, L!ForwardLinks
<1>4. Arrived(at, h, n, 0)
  <2>1. at[0] \in DOMAIN h /\ at[0] # L!NULL /\ HeapStart + 20 * 0 <= at[0]
    BY <1>0, <1>3
  <2>2. \A c \in DOMAIN h : ~(c < at[0])
    BY <1>0, <1>3
  <2> QED BY <2>1, <2>2 DEF Arrived
<1>5. k \in 1 .. MaxHeaders /\ k \in Nat /\ k - 1 \in 0 .. MaxHeaders
      /\ Arrived(at, h, n, k - 1)
  <2>1. k # 0 /\ k \in 0 .. MaxHeaders
    BY <1>2, <1>4
  <2>2. k - 1 \in 0 .. MaxHeaders /\ ~(k <= k - 1)
    BY <2>1, <1>0
  <2>3. k - 1 \notin Bad
    BY <1>2, <2>2
  <2> QED BY <2>1, <2>2, <2>3, <1>0
<1> HIDE DEF Bad
<1> DEFINE b == at[k - 1]
<1>6. at[k] = Onwards(m, b, n)
  BY <1>0, <1>5
<1>7. {at[j] : j \in 0 .. k} = {at[j] : j \in 0 .. (k - 1)} \cup {at[k]}
  BY <1>5
<1>8. b \in {at[j] : j \in 0 .. (k - 1)}
  BY <1>5
<1>10. /\ b \in DOMAIN h \cup {L!NULL}
       /\ b # L!NULL => L!Fits(h, b, n) \/ HeapStart + 20 * (k - 1) <= b
       /\ \A c \in DOMAIN h : b = L!NULL \/ c < b =>
            ~L!Fits(h, c, n) /\ c \in {at[j] : j \in 0 .. (k - 1)}
  BY <1>5 DEF Arrived
<1> HIDE DEF b
<1>9. Arrived(at, h, n, k)
  <2>1. CASE b = L!NULL
    <3>1. at[k] = L!NULL
      BY <2>1, <1>6 DEF Onwards, Passes, L!NULL, NULL
    <3> QED BY <3>1, <2>1, <1>10, <1>7 DEF Arrived
  <2>2. CASE b # L!NULL /\ L!Fits(h, b, n)
    <3>1. b \in DOMAIN h /\ HeaderAt(m, b, h[b])
      BY <2>2, <1>10 DEF Agrees
    <3>2. m[b + 12] = 0 /\ ~(m[b + 16] < n)
      BY <3>1, <2>2, <1>11 DEF HeaderAt, L!Fits
    <3>3. at[k] = b
      BY <3>2, <1>6, Numbers DEF Onwards, Passes, allocated, size
    <3> QED BY <3>3, <2>2, <1>10, <1>7 DEF Arrived
  <2>3. CASE b # L!NULL /\ ~L!Fits(h, b, n)
    <3>1. b \in DOMAIN h /\ HeaderAt(m, b, h[b])
      BY <2>3, <1>10 DEF Agrees
    <3>2. m[b] = MEMORY_HEADER_MAGIC /\ (m[b + 12] # 0 \/ m[b + 16] < n) /\ m[b + 4] = h[b].next
      BY <3>1, <2>3, <1>11 DEF HeaderAt, L!Fits
    <3>3. at[k] = h[b].next
      <4>1. Passes(m, b, n)
        BY <3>2, <2>3, Numbers DEF Passes, allocated, size, magic, L!NULL, NULL
      <4> QED BY <4>1, <3>2, <1>6, Numbers DEF Onwards, next
    <3>4. at[k] # L!NULL => HeapStart + 20 * k <= at[k]
      <4>1. HeapStart + 20 * (k - 1) <= b
        BY <2>3, <1>10
      <4> QED BY <4>1, <3>1, <3>3, <1>3, <1>5, <1>12, Numbers
    <3>5. ASSUME NEW c \in DOMAIN h, at[k] = L!NULL \/ c < at[k]
          PROVE  ~L!Fits(h, c, n) /\ c \in {at[j] : j \in 0 .. k}
      <4>1. c <= b
        <5>1. SUFFICES ASSUME b < c PROVE FALSE
          BY <1>3, <3>1
        <5>2. h[b].next # L!NULL /\ h[b].next <= c
          BY <3>1, <5>1 DEF L!Chain, L!NextIsSuccessor
        <5> QED BY <5>2, <3>3, <3>5, <1>3, <1>12, <3>1
      <4>2. CASE c = b
        BY <4>2, <2>3, <1>7, <1>8
      <4>3. CASE c < b
        BY <4>3, <1>10, <1>7 DEF Arrived
      <4> QED BY <4>1, <4>2, <4>3, <1>3, <3>1
    <3> QED BY <3>1, <3>3, <3>4, <3>5, <1>12 DEF Arrived
  <2> QED BY <2>1, <2>2, <2>3
<1> QED BY <1>2, <1>9 DEF Bad

(* FirstFree returns the lowest block that fits, or NULL when none does.   *)
LEMMA FirstFreeIs ==
  ASSUME NEW m, NEW h, L!HType(h), L!Chain(h), Agrees(m, h), NEW n \in Nat
  PROVE  /\ FirstFree(m, n) = L!NULL => L!FirstFree(h, n) = {}
         /\ FirstFree(m, n) # L!NULL => L!FirstFree(h, n) = {FirstFree(m, n)}
<1> DEFINE K == MaxHeaders
           b == Walk(m, n)[K]
<1>1. K \in Nat /\ HeapEnd - HeapStart < 20 * (K + 1)
  BY WalkIs
<1>2. Arrived(Walk(m, n), h, n, K)
  BY <1>1, WalkArrives
<1>3. /\ b \in DOMAIN h \cup {L!NULL}
      /\ b # L!NULL => L!Fits(h, b, n) \/ HeapStart + 20 * K <= b
      /\ \A c \in DOMAIN h : b = L!NULL \/ c < b => ~L!Fits(h, c, n)
  BY <1>2 DEF Arrived
<1> HIDE DEF b, K
<1>4. \A c \in DOMAIN h : c \in Nat /\ c # L!NULL /\ c + 20 <= HeapEnd /\ m[c] = MEMORY_HEADER_MAGIC
  BY Numbers DEF Agrees, Spaced, HeaderAt, L!NULL
<1>5. b # L!NULL => L!Fits(h, b, n)
  BY <1>1, <1>3, <1>4, Numbers
<1>6. FirstFree(m, n) = b
  BY <1>3, <1>4 DEF FirstFree, b, K, magic, L!NULL, NULL
<1>7. CASE b = L!NULL
  BY <1>3, <1>6, <1>7 DEF L!FirstFree
<1>8. CASE b # L!NULL
  <2>1. b \in L!FirstFree(h, n)
    BY <1>3, <1>4, <1>5, <1>8 DEF L!FirstFree
  <2>2. \A c \in L!FirstFree(h, n) : c = b
    BY <1>3, <1>4, <1>5, <1>8 DEF L!FirstFree
  <2> QED BY <2>1, <2>2, <1>6, <1>8
<1> QED BY <1>7, <1>8

(* Reading the list back from memory yields the headers it holds.          *)
LEMMA ParsedIs ==
  ASSUME NEW m, NEW h, L!HType(h), L!Chain(h), Agrees(m, h)
  PROVE  Linked(m) = DOMAIN h /\ Parsed(m) = h
<1> DEFINE K == MaxHeaders
           at == Walk(m, UintSpan)
<1>1. K \in Nat /\ HeapEnd - HeapStart < 20 * (K + 1) /\ UintSpan \in Nat
  BY WalkIs, Numbers
<1>2. \A k \in 0 .. K : Arrived(at, h, UintSpan, k)
  BY <1>1, WalkArrives
<1>3. \A c \in DOMAIN h : c \in Nat /\ c # L!NULL /\ c + 20 <= HeapEnd /\ ~L!Fits(h, c, UintSpan)
  <2>1. \A c \in DOMAIN h : c \in Nat /\ c # L!NULL /\ c + 20 <= HeapEnd
    BY Numbers DEF Agrees, Spaced, L!NULL
  <2>2. \A c \in DOMAIN h : h[c].size \in Nat /\ c + 20 + h[c].size <= HeapEnd
    BY <2>1, Numbers DEF L!HType, L!Header, L!Chain, L!ForwardLinks
  <2>3. \A c \in DOMAIN h : h[c].size < UintSpan
    BY <2>1, <2>2, Numbers
  <2> QED BY <2>1, <2>2, <2>3, <1>1 DEF L!Fits
<1> HIDE DEF at, K
<1>4. at[K] = L!NULL
  BY <1>1, <1>2, <1>3, Numbers DEF Arrived
<1>5. DOMAIN h \subseteq {at[j] : j \in 0 .. K}
  <2>1. Arrived(at, h, UintSpan, K)
    BY <1>1, <1>2
  <2> QED BY <2>1, <1>4 DEF Arrived
<1>6. \A k \in 0 .. K : at[k] \in DOMAIN h \cup {L!NULL}
  BY <1>2 DEF Arrived
<1>7. Linked(m) = {at[k] : k \in 0 .. K} \ {L!NULL}
  BY DEF Linked, at, K, L!NULL, NULL
<1>8. Linked(m) = DOMAIN h
  BY <1>3, <1>5, <1>6, <1>7
<1>9. \A b \in DOMAIN h : h[b] = [next |-> m[b + 4], prev |-> m[b + 8],
                                 allocated |-> m[b + 12], size |-> m[b + 16]]
  BY DEF L!HType, L!Header, Agrees, HeaderAt
<1>10. Parsed(m) = [b \in DOMAIN h |-> h[b]]
  BY <1>8, <1>9 DEF Parsed, next, prev, allocated, size, Word
<1> QED BY <1>8, <1>10 DEF L!HType

(* A header is kept when its five words are.                               *)
LEMMA HeaderKept ==
  ASSUME NEW m, NEW k, NEW c, NEW r, HeaderAt(m, c, r),
         \A w \in {c, c + 4, c + 8, c + 12, c + 16} : k[w] = m[w]
  PROVE  HeaderAt(k, c, r)
BY DEF HeaderAt

(* What Agrees says of one header: where its words are and what they hold. *)
LEMMA AgreesFacts ==
  ASSUME NEW m, NEW h, Agrees(m, h), NEW b \in DOMAIN h
  PROVE  /\ b \in Nat /\ {b, b + 4, b + 8, b + 12, b + 16} \subseteq Mem
         /\ \A c \in DOMAIN h : c # b => c \in Nat /\ (b + 20 <= c \/ c + 20 <= b)
         /\ HeaderAt(m, b, h[b])
<1>1. b \in Nat /\ HeapStart <= b /\ b + 20 <= HeapEnd /\ (b - HeapStart) % 4 = 0
  BY DEF Agrees, Spaced
<1>2. {b, b + 4, b + 8, b + 12, b + 16} \subseteq Mem
  BY <1>1, FieldsInMem
<1> QED BY <1>1, <1>2 DEF Agrees, Spaced

(* Writing inside one header leaves the others as they are.                *)
LEMMA OneHeaderWritten ==
  ASSUME NEW m, NEW h, Agrees(m, h), NEW b \in DOMAIN h,
         NEW m2 \in [Mem -> Nat], NEW k, DOMAIN k = DOMAIN h,
         \A c \in DOMAIN h \ {b} : k[c] = h[c],
         \A w \in Mem : m2[w] # m[w] => w \in b .. (b + 16),
         HeaderAt(m2, b, k[b])
  PROVE  Agrees(m2, k)
<1>1. ASSUME NEW c \in DOMAIN h, c # b PROVE HeaderAt(m2, c, k[c])
  <2>1. /\ c \in Nat /\ b \in Nat /\ (b + 20 <= c \/ c + 20 <= b)
        /\ {c, c + 4, c + 8, c + 12, c + 16} \subseteq Mem /\ HeaderAt(m, c, h[c])
    BY <1>1, AgreesFacts
  <2>2. \A w \in {c, c + 4, c + 8, c + 12, c + 16} : w \in Mem /\ w \notin b .. (b + 16)
    BY <2>1
  <2>3. \A w \in {c, c + 4, c + 8, c + 12, c + 16} : m2[w] = m[w]
    BY <2>2
  <2> QED BY <2>1, <2>3, <1>1, HeaderKept
<1>2. Spaced(k)
  BY DEF Agrees, Spaced
<1> QED BY <1>1, <1>2 DEF Agrees

(* Marking and sizing the block that malloc hands out, as stores.          *)
LEMMA TakeAgrees ==
  ASSUME NEW m, NEW h, Agrees(m, h), NEW b \in DOMAIN h, NEW n \in Nat
  PROVE  Agrees(Take(m, b, n), L!Take(h, b, n))
<1> DEFINE m1 == Store(m, b + 12, 1)
           m2 == Store(m1, b + 16, n)
           k == L!Take(h, b, n)
<1>1. /\ b \in Nat /\ {b, b + 4, b + 8, b + 12, b + 16} \subseteq Mem
      /\ HeaderAt(m, b, h[b]) /\ m \in [Mem -> Nat]
  BY AgreesFacts DEF Agrees
<1>2. Take(m, b, n) = m2
  BY DEF Take, allocated, size, Word
<1>3. m1 \in [Mem -> Nat] /\ \A w \in Mem : m1[w] = IF w = b + 12 THEN 1 ELSE m[w]
  <2>1. b + 12 \in Mem /\ 1 \in Nat /\ m \in [Mem -> Nat]
    BY <1>1
  <2> QED BY <2>1, StoreIs
<1> HIDE DEF m1
<1>4. m2 \in [Mem -> Nat] /\ \A w \in Mem : m2[w] = IF w = b + 16 THEN n ELSE m1[w]
  <2>1. b + 16 \in Mem
    BY <1>1
  <2> QED BY <2>1, <1>3, StoreIs
<1> HIDE DEF m2
<1>5. \A w \in Mem : m2[w] = IF w = b + 16 THEN n ELSE IF w = b + 12 THEN 1 ELSE m[w]
  BY <1>3, <1>4
<1>6. /\ DOMAIN k = DOMAIN h /\ \A c \in DOMAIN h \ {b} : k[c] = h[c]
      /\ k[b].next = h[b].next /\ k[b].prev = h[b].prev
      /\ k[b].allocated = 1 /\ k[b].size = n
  BY DEF L!Take, L!Fields
<1> HIDE DEF k
<1>7. HeaderAt(m2, b, k[b])
  <2>1. /\ m2[b] = m[b] /\ m2[b + 4] = m[b + 4] /\ m2[b + 8] = m[b + 8]
        /\ m2[b + 12] = 1 /\ m2[b + 16] = n
    BY <1>1, <1>5
  <2> QED BY <2>1, <1>1, <1>6 DEF HeaderAt
<1>8. \A w \in Mem : m2[w] # m[w] => w \in b .. (b + 16)
  BY <1>1, <1>5
<1>9. Agrees(m2, k)
  BY <1>4, <1>6, <1>7, <1>8, OneHeaderWritten
<1> QED BY <1>2, <1>9 DEF k

(* Clearing the allocated flag, as a store to that word alone.             *)
LEMMA UnmarkAgrees ==
  ASSUME NEW m, NEW h, Agrees(m, h), NEW b \in DOMAIN h
  PROVE  /\ Agrees(Unmark(m, b + 20), L!Unmark(h, b))
         /\ \A w \in Mem : w # b + 12 => Unmark(m, b + 20)[w] = m[w]
         /\ Unmark(m, b + 20)[b + 12] = 0
<1> DEFINE m2 == Store(m, b + 12, 0)
           k == L!Unmark(h, b)
<1>1. /\ b \in Nat /\ {b, b + 4, b + 8, b + 12, b + 16} \subseteq Mem
      /\ HeaderAt(m, b, h[b]) /\ m \in [Mem -> Nat]
  BY AgreesFacts DEF Agrees
<1>2. Unmark(m, b + 20) = m2
  <2>1. allocated((b + 20) - sizeofHeader) = b + 12
    BY <1>1 DEF allocated, sizeofHeader, Word
  <2>2. Unmark(m, b + 20) = Store(m, allocated((b + 20) - sizeofHeader), 0)
    BY DEF Unmark
  <2> QED BY <2>1, <2>2
<1>3. m2 \in [Mem -> Nat] /\ \A w \in Mem : m2[w] = IF w = b + 12 THEN 0 ELSE m[w]
  <2>1. b + 12 \in Mem /\ 0 \in Nat /\ m \in [Mem -> Nat]
    BY <1>1
  <2> QED BY <2>1, StoreIs
<1> HIDE DEF m2
<1>6. /\ DOMAIN k = DOMAIN h /\ \A c \in DOMAIN h \ {b} : k[c] = h[c]
      /\ k[b].next = h[b].next /\ k[b].prev = h[b].prev
      /\ k[b].allocated = 0 /\ k[b].size = h[b].size
  BY DEF L!Unmark, L!Fields
<1> HIDE DEF k
<1>7. HeaderAt(m2, b, k[b])
  <2>1. /\ m2[b] = m[b] /\ m2[b + 4] = m[b + 4] /\ m2[b + 8] = m[b + 8]
        /\ m2[b + 12] = 0 /\ m2[b + 16] = m[b + 16]
    BY <1>1, <1>3
  <2> QED BY <2>1, <1>1, <1>6 DEF HeaderAt
<1>8. \A w \in Mem : m2[w] # m[w] => w \in b .. (b + 16)
  BY <1>1, <1>3
<1>9. Agrees(m2, k)
  BY <1>3, <1>6, <1>7, <1>8, OneHeaderWritten
<1> QED BY <1>1, <1>2, <1>3, <1>9 DEF k

-----------------------------------------------------------------------------
(* m2 differs from m only in the link and size words of headers of h.      *)
Relinks(m2, m, h) ==
  \A w \in Mem : m2[w] # m[w] => \E c \in DOMAIN h : w \in {c + 4, c + 8, c + 16}

(* The second merge of Heap::free, as stores.                              *)
LEMMA MergeNextAgrees ==
  ASSUME NEW m, NEW h, L!HType(h), L!Chain(h), Agrees(m, h),
         NEW b \in DOMAIN h, h[b].next # L!NULL
  PROVE  /\ Agrees(MergeNext(m, b), L!MergeNext(h, b))
         /\ Relinks(MergeNext(m, b), m, h)
<1> DEFINE x == h[b].next
           y == h[x].next
           n == m[b + 16] + m[x + 16] + 20
           m1 == Store(m, b + 16, n)
           m2 == Store(m1, b + 4, y)
           m3 == IF y = L!NULL THEN m2 ELSE Store(m2, y + 8, b)
           k == L!MergeNext(h, b)
<1>1. /\ x \in DOMAIN h /\ x # b /\ b < x /\ y \in Nat
      /\ y # L!NULL => y \in DOMAIN h /\ y # b /\ y # x
  <2>1. /\ \A c \in DOMAIN h : c \in Nat /\ h[c].size \in Nat
        /\ h[x].next \in Nat /\ x \in DOMAIN h
    BY DEF L!HType, L!Header, L!Chain, L!ForwardLinks
  <2>2. b < x
    BY <2>1, Numbers DEF L!Chain, L!ForwardLinks
  <2>3. y # L!NULL => y \in DOMAIN h /\ x < y
    BY <2>1, Numbers DEF L!Chain, L!ForwardLinks
  <2> QED BY <2>1, <2>2, <2>3
<1>2. /\ b \in Nat /\ {b, b + 4, b + 8, b + 12, b + 16} \subseteq Mem
      /\ HeaderAt(m, b, h[b]) /\ m \in [Mem -> Nat]
  BY AgreesFacts DEF Agrees
<1>3. /\ x \in Nat /\ {x, x + 4, x + 8, x + 12, x + 16} \subseteq Mem
      /\ HeaderAt(m, x, h[x])
  BY <1>1, AgreesFacts
<1>4. y # L!NULL => /\ y \in Nat /\ {y, y + 4, y + 8, y + 12, y + 16} \subseteq Mem
                    /\ HeaderAt(m, y, h[y]) /\ (b + 20 <= y \/ y + 20 <= b)
  BY <1>1, AgreesFacts
<1>5. m[b + 4] = x /\ m[x + 4] = y /\ n = h[b].size + h[x].size + 20 /\ n \in Nat
  <2>1. m[b + 16] \in Nat /\ m[x + 16] \in Nat
    BY <1>2, <1>3
  <2> QED BY <2>1, <1>2, <1>3 DEF HeaderAt
<1> HIDE DEF x, y, n
<1>6. MergeNext(m, b) = m3
  <2>1. /\ next(b) = b + 4 /\ next(x) = x + 4 /\ size(b) = b + 16 /\ size(x) = x + 16
        /\ prev(y) = y + 8 /\ sizeofHeader = 20 /\ L!NULL = NULL
    BY DEF next, size, prev, Word, sizeofHeader, L!NULL, NULL
  <2> QED BY <2>1, <1>5 DEF MergeNext, StoreUnlessNull, n
<1>7. m1 \in [Mem -> Nat] /\ \A w \in Mem : m1[w] = IF w = b + 16 THEN n ELSE m[w]
  <2>1. b + 16 \in Mem /\ n \in Nat /\ m \in [Mem -> Nat]
    BY <1>2, <1>5
  <2> QED BY <2>1, StoreIs
<1> HIDE DEF m1
<1>8. m2 \in [Mem -> Nat] /\ \A w \in Mem : m2[w] = IF w = b + 4 THEN y ELSE m1[w]
  <2>1. b + 4 \in Mem /\ y \in Nat
    BY <1>1, <1>2
  <2> QED BY <2>1, <1>7, StoreIs
<1> HIDE DEF m2
<1>9. /\ m3 \in [Mem -> Nat]
      /\ \A w \in Mem : m3[w] = IF y # L!NULL /\ w = y + 8 THEN b ELSE m2[w]
  <2>1. CASE y = L!NULL
    BY <2>1, <1>8
  <2>2. CASE y # L!NULL
    <3>1. y + 8 \in Mem /\ b \in Nat /\ m3 = Store(m2, y + 8, b)
      BY <2>2, <1>2, <1>4
    <3> HIDE DEF m3
    <3> QED BY <2>2, <3>1, <1>8, StoreIs
  <2> QED BY <2>1, <2>2
<1> HIDE DEF m3
<1>10. \A w \in Mem : m3[w] = IF y # L!NULL /\ w = y + 8 THEN b ELSE IF w = b + 4 THEN y
                             ELSE IF w = b + 16 THEN n ELSE m[w]
  BY <1>7, <1>8, <1>9
<1>11. /\ DOMAIN k = DOMAIN h \ {x}
       /\ k[b] = L!Fields(y, h[b].prev, h[b].allocated, n)
       /\ \A c \in DOMAIN k \ {b} : k[c] = IF c = y THEN L!WithPrev(h[c], b) ELSE h[c]
  BY <1>1, <1>5, Numbers DEF L!MergeNext, x, y
<1> HIDE DEF k
<1>12. HeaderAt(m3, b, k[b])
  <2>1. /\ k[b].next = y /\ k[b].prev = h[b].prev /\ k[b].allocated = h[b].allocated
        /\ k[b].size = n
    BY <1>11 DEF L!Fields
  <2>2. /\ m3[b] = m[b] /\ m3[b + 4] = y /\ m3[b + 8] = m[b + 8]
        /\ m3[b + 12] = m[b + 12] /\ m3[b + 16] = n
    BY <1>2, <1>4, <1>10
  <2> QED BY <2>1, <2>2, <1>2 DEF HeaderAt
<1>13. ASSUME NEW c \in DOMAIN k, c # b PROVE HeaderAt(m3, c, k[c])
  <2>1. /\ c \in Nat /\ {c, c + 4, c + 8, c + 12, c + 16} \subseteq Mem
        /\ HeaderAt(m, c, h[c]) /\ c \in DOMAIN h /\ (b + 20 <= c \/ c + 20 <= b)
    BY <1>11, <1>13, AgreesFacts
  <2>2. CASE y # L!NULL /\ c = y
    <3>1. k[c] = L!WithPrev(h[c], b)
      BY <2>2, <1>11, <1>13
    <3>2. /\ k[c].next = h[c].next /\ k[c].prev = b /\ k[c].allocated = h[c].allocated
          /\ k[c].size = h[c].size
      BY <3>1 DEF L!Fields, L!WithPrev
    <3>3. /\ m3[c] = m[c] /\ m3[c + 4] = m[c + 4] /\ m3[c + 8] = b
          /\ m3[c + 12] = m[c + 12] /\ m3[c + 16] = m[c + 16]
      BY <2>1, <2>2, <1>2, <1>10
    <3> QED BY <3>2, <3>3, <2>1 DEF HeaderAt
  <2>3. CASE ~(y # L!NULL /\ c = y)
    <3>1. k[c] = h[c]
      <4>1. c # L!NULL
        BY <2>1, Numbers DEF L!NULL, Agrees, Spaced
      <4> QED BY <4>1, <2>3, <1>11, <1>13
    <3>2. y # L!NULL => y + 20 <= c \/ c + 20 <= y
      BY <2>1, <2>3, <1>1, AgreesFacts
    <3>3. \A w \in {c, c + 4, c + 8, c + 12, c + 16} : m3[w] = m[w]
      BY <2>1, <3>2, <1>2, <1>4, <1>10
    <3> QED BY <3>1, <3>3, <2>1, HeaderKept
  <2> QED BY <2>2, <2>3
<1>14. Spaced(k)
  BY <1>11 DEF Agrees, Spaced
<1>15. Agrees(m3, k)
  BY <1>9, <1>12, <1>13, <1>14 DEF Agrees
<1>16. Relinks(m3, m, h)
  BY <1>1, <1>10 DEF Relinks
<1> QED BY <1>6, <1>15, <1>16 DEF k

(* The first merge of Heap::free is the second one seen from the           *)
(* predecessor, in the same words.                                         *)
LEMMA MergePrevWords ==
  ASSUME NEW m, NEW h, Agrees(m, h), NEW b \in DOMAIN h, NEW p \in DOMAIN h,
         h[b].prev = p, h[p].next = b, h[b].next \in Nat,
         h[b].next # L!NULL => h[b].next \in DOMAIN h
  PROVE  MergePrev(m, b) = MergeNext(m, p)
<1> DEFINE y == h[b].next
           n == m[p + 16] + m[b + 16] + 20
           a2 == Store(Store(m, p + 4, y), p + 16, n)
           c2 == Store(Store(m, p + 16, n), p + 4, y)
<1>1. /\ b \in Nat /\ {b, b + 4, b + 8, b + 12, b + 16} \subseteq Mem
      /\ HeaderAt(m, b, h[b]) /\ m \in [Mem -> Nat]
  BY AgreesFacts DEF Agrees
<1>2. /\ p \in Nat /\ {p, p + 4, p + 8, p + 12, p + 16} \subseteq Mem
      /\ HeaderAt(m, p, h[p])
  BY AgreesFacts
<1>3. m[b + 4] = y /\ m[b + 8] = p /\ m[p + 4] = b
  BY <1>1, <1>2 DEF HeaderAt
<1>4. /\ next(b) = b + 4 /\ next(p) = p + 4 /\ size(b) = b + 16 /\ size(p) = p + 16
      /\ prev(y) = y + 8 /\ prev(b) = b + 8 /\ sizeofHeader = 20 /\ L!NULL = NULL
  BY DEF next, size, prev, Word, sizeofHeader, L!NULL, NULL
<1> HIDE DEF y
<1>5. MergePrev(m, b) = IF y = L!NULL THEN a2 ELSE Store(a2, y + 8, p)
  BY <1>3, <1>4 DEF MergePrev, StoreUnlessNull
<1>6. MergeNext(m, p) = IF y = L!NULL THEN c2 ELSE Store(c2, y + 8, p)
  BY <1>3, <1>4 DEF MergeNext, StoreUnlessNull
<1>7. a2 = c2
  <2>1. p + 4 # p + 16
    BY <1>2
  <2> HIDE DEF n
  <2> QED BY <2>1, <1>1 DEF Store
<1> HIDE DEF a2, c2
<1> QED BY <1>5, <1>6, <1>7

(* InternalAllocate's split, as stores.                                    *)
LEMMA SplitAgrees ==
  ASSUME NEW m, NEW h, L!HType(h), L!Chain(h), Agrees(m, h),
         NEW b \in DOMAIN h, NEW n \in Nat, n % 4 = 0, L!Splits(h, b, n)
  PROVE  Agrees(Split(m, b, n), L!Split(h, b, n))
<1> DEFINE x == b + n + 20
           y == h[b].next
           s == h[b].size - n - 20
           m1 == StoreHeader(m, x, y, b, 0, s)
           m2 == IF y = L!NULL THEN m1 ELSE Store(m1, y + 8, x)
           m3 == Store(m2, b + 4, x)
           k == L!Split(h, b, n)
<1>1. /\ b \in Nat /\ {b, b + 4, b + 8, b + 12, b + 16} \subseteq Mem
      /\ HeaderAt(m, b, h[b]) /\ m \in [Mem -> Nat]
  BY AgreesFacts DEF Agrees
<1>2. /\ h[b].size \in Nat /\ y \in Nat /\ h[b].size >= n + 20 /\ s \in Nat /\ x \in Nat
      /\ b + 20 + h[b].size <= HeapEnd /\ b + 20 <= x
  <2>1. h[b].size \in Nat /\ y \in Nat
    BY DEF L!HType, L!Header
  <2>2. h[b].size >= n + 20 /\ b + 20 + h[b].size <= HeapEnd
    BY <2>1, Numbers, HeapWordsAssumption DEF L!Splits, L!Chain, L!ForwardLinks
  <2> QED BY <2>1, <2>2, <1>1
<1>3. /\ x + 20 <= b + 20 + h[b].size /\ HeapStart <= x /\ (x - HeapStart) % 4 = 0
  <2>1. HeapStart <= b /\ (b - HeapStart) % 4 = 0
    BY DEF Agrees, Spaced
  <2>2. (x - HeapStart) % 4 = 0
    <3>1. ASSUME NEW u \in Nat, NEW v \in Nat, u % 4 = 0, v % 4 = 0
          PROVE  (u + v + 20) % 4 = 0
      BY <3>1
    <3>2. b - HeapStart \in Nat /\ x - HeapStart = (b - HeapStart) + n + 20
      BY <2>1, <1>1, Numbers
    <3> HIDE DEF x
    <3> QED BY <3>1, <3>2, <2>1
  <2> QED BY <2>1, <2>2, <1>1, <1>2, Numbers
<1>4. {x, x + 4, x + 8, x + 12, x + 16} \subseteq Mem
  <2>1. x + 20 <= HeapEnd
    BY <1>1, <1>2, <1>3, Numbers
  <2> HIDE DEF x
  <2> QED BY <2>1, <1>2, <1>3, FieldsInMem
<1>5. ASSUME NEW c \in DOMAIN h, c # b
      PROVE  c \in Nat /\ (c + 20 <= b \/ x + 20 <= c)
  <2>1. c \in Nat /\ h[c].size \in Nat
    BY DEF L!HType, L!Header
  <2>2. CASE b < c
    <3>1. b + sizeofHeader + h[b].size <= c
      BY <2>2, L!BlocksDisjoint, HeapHolds
    <3> QED BY <3>1, <2>1, <1>1, <1>2, <1>3, Numbers
  <2>3. CASE c < b
    <3>1. c + sizeofHeader + h[c].size <= b
      BY <2>3, L!BlocksDisjoint, HeapHolds
    <3> QED BY <3>1, <2>1, <1>1, Numbers
  <2> QED BY <2>1, <2>2, <2>3, <1>1, <1>5
<1>6. y # L!NULL => /\ y \in DOMAIN h /\ y # b /\ y + 8 \in Mem
  <2>1. y # L!NULL => y \in DOMAIN h /\ b < y
    BY <1>1, <1>2, Numbers DEF L!Chain, L!ForwardLinks
  <2> QED BY <2>1, AgreesFacts
<1>7. Split(m, b, n) = m3
  <2>1. m[b + 4] = y /\ m[b + 16] = h[b].size
    BY <1>1 DEF HeaderAt
  <2>2. /\ next(b) = b + 4 /\ size(b) = b + 16
        /\ prev(y) = y + 8 /\ sizeofHeader = 20 /\ L!NULL = NULL
    BY DEF next, size, prev, Word, sizeofHeader, L!NULL, NULL
  <2> QED BY <2>1, <2>2 DEF Split, StoreUnlessNull
<1>8. /\ m1 \in [Mem -> Nat]
      /\ \A w \in Mem : m1[w] = IF w = x THEN MEMORY_HEADER_MAGIC ELSE IF w = x + 4 THEN y
                                ELSE IF w = x + 8 THEN b ELSE IF w = x + 12 THEN 0
                                ELSE IF w = x + 16 THEN s ELSE m[w]
  <2>1. /\ m \in [Mem -> Nat] /\ x \in Nat /\ y \in Nat /\ b \in Nat /\ 0 \in Nat
        /\ s \in Nat
    BY <1>1, <1>2
  <2> HIDE DEF x, y, s
  <2>2. MEMORY_HEADER_MAGIC \in Nat
    BY Numbers
  <2> QED BY <2>1, <2>2 DEF StoreHeader, magic, next, prev, allocated, size, Word
<1> HIDE DEF m1
<1>9. /\ m2 \in [Mem -> Nat]
      /\ \A w \in Mem : m2[w] = IF y # L!NULL /\ w = y + 8 THEN x ELSE m1[w]
  <2>1. CASE y = L!NULL
    BY <2>1, <1>8
  <2>2. CASE y # L!NULL
    <3>1. y + 8 \in Mem /\ x \in Nat /\ m2 = Store(m1, y + 8, x)
      BY <2>2, <1>2, <1>6
    <3> HIDE DEF m2, x, y
    <3> QED BY <2>2, <3>1, <1>8, StoreIs
  <2> QED BY <2>1, <2>2
<1> HIDE DEF m2
<1>10. m3 \in [Mem -> Nat] /\ \A w \in Mem : m3[w] = IF w = b + 4 THEN x ELSE m2[w]
  <2>1. b + 4 \in Mem /\ x \in Nat
    BY <1>1, <1>2
  <2> HIDE DEF x
  <2> QED BY <2>1, <1>9, StoreIs
<1> HIDE DEF m3
<1>11. \A w \in Mem : m3[w] = IF w = b + 4 THEN x ELSE IF y # L!NULL /\ w = y + 8 THEN x
                       ELSE IF w = x THEN MEMORY_HEADER_MAGIC ELSE IF w = x + 4 THEN y
                       ELSE IF w = x + 8 THEN b ELSE IF w = x + 12 THEN 0
                       ELSE IF w = x + 16 THEN s ELSE m[w]
  BY <1>8, <1>9, <1>10
<1>12. x \notin DOMAIN h
  BY <1>1, <1>2, <1>5
<1>13. /\ DOMAIN k = DOMAIN h \cup {x}
       /\ k[x] = L!Fields(y, b, 0, s)
       /\ k[b] = L!Fields(x, h[b].prev, h[b].allocated, h[b].size)
       /\ \A c \in DOMAIN h \ {b} : k[c] = IF c = y THEN L!WithPrev(h[c], x) ELSE h[c]
  <2>1. b + n + sizeofHeader = x /\ h[b].size - n - sizeofHeader = s
    BY Numbers
  <2> HIDE DEF x, s
  <2> QED BY <2>1, <1>12 DEF L!Split
<1> HIDE DEF k, x, s
<1>14. HeaderAt(m3, x, k[x])
  <2>1. k[x].next = y /\ k[x].prev = b /\ k[x].allocated = 0 /\ k[x].size = s
    BY <1>13 DEF L!Fields
  <2>2. /\ m3[x] = MEMORY_HEADER_MAGIC /\ m3[x + 4] = y /\ m3[x + 8] = b
        /\ m3[x + 12] = 0 /\ m3[x + 16] = s
    BY <1>1, <1>2, <1>4, <1>5, <1>6, <1>11
  <2> QED BY <2>1, <2>2 DEF HeaderAt
<1>15. HeaderAt(m3, b, k[b])
  <2>1. /\ k[b].next = x /\ k[b].prev = h[b].prev /\ k[b].allocated = h[b].allocated
        /\ k[b].size = h[b].size
    BY <1>13 DEF L!Fields
  <2>2. y # L!NULL => y \in Nat /\ (y + 20 <= b \/ x + 20 <= y)
    BY <1>5, <1>6
  <2>3. /\ m3[b] = m[b] /\ m3[b + 4] = x /\ m3[b + 8] = m[b + 8]
        /\ m3[b + 12] = m[b + 12] /\ m3[b + 16] = m[b + 16]
    BY <1>1, <1>2, <2>2, <1>11
  <2> QED BY <2>1, <2>3, <1>1 DEF HeaderAt
<1>16. ASSUME NEW c \in DOMAIN h, c # b PROVE HeaderAt(m3, c, k[c])
  <2>1. /\ c \in Nat /\ {c, c + 4, c + 8, c + 12, c + 16} \subseteq Mem
        /\ HeaderAt(m, c, h[c]) /\ (b + 20 <= c \/ c + 20 <= b)
    BY <1>16, AgreesFacts
  <2>2. c + 20 <= b \/ x + 20 <= c
    BY <1>5, <1>16
  <2>3. CASE c = y
    <3>1. k[c] = L!WithPrev(h[c], x) /\ y # L!NULL
      BY <2>3, <1>13, <1>16, Numbers DEF L!NULL, Agrees, Spaced
    <3>2. /\ k[c].next = h[c].next /\ k[c].prev = x /\ k[c].allocated = h[c].allocated
          /\ k[c].size = h[c].size
      BY <3>1 DEF L!Fields, L!WithPrev
    <3>3. /\ m3[c] = m[c] /\ m3[c + 4] = m[c + 4] /\ m3[c + 8] = x
          /\ m3[c + 12] = m[c + 12] /\ m3[c + 16] = m[c + 16]
      BY <2>1, <2>2, <2>3, <3>1, <1>1, <1>2, <1>11
    <3> QED BY <3>2, <3>3, <2>1 DEF HeaderAt
  <2>4. CASE c # y
    <3>1. k[c] = h[c]
      BY <2>4, <1>13, <1>16
    <3>2. y # L!NULL => y \in Nat /\ (y + 20 <= c \/ c + 20 <= y)
      BY <2>1, <2>4, <1>2, <1>6, AgreesFacts
    <3>3. \A w \in {c, c + 4, c + 8, c + 12, c + 16} : m3[w] = m[w]
      BY <2>1, <2>2, <3>2, <1>1, <1>2, <1>11
    <3> QED BY <3>1, <3>3, <2>1, HeaderKept
  <2> QED BY <2>3, <2>4
<1>17. Spaced(k)
  <2>1. \A c \in DOMAIN k : /\ c \in Nat /\ HeapStart <= c /\ c + 20 <= HeapEnd
                            /\ (c - HeapStart) % 4 = 0
    <3>1. x + 20 <= HeapEnd
      BY <1>1, <1>2, <1>3, Numbers
    <3> QED BY <3>1, <1>2, <1>3, <1>13 DEF Agrees, Spaced
  <2>2. \A c \in DOMAIN h : c \in Nat /\ (x + 20 <= c \/ c + 20 <= x)
    BY <1>1, <1>2, <1>5
  <2>3. \A c, d \in DOMAIN k : c # d => c + 20 <= d \/ d + 20 <= c
    BY <2>2, <1>2, <1>13 DEF Agrees, Spaced
  <2> QED BY <2>1, <2>3 DEF Spaced
<1>18. Agrees(m3, k)
  BY <1>10, <1>13, <1>14, <1>15, <1>16, <1>17 DEF Agrees
<1> QED BY <1>7, <1>18 DEF k

(* InternalAllocate as stores does to the headers what Carve does.         *)
LEMMA CarveAgrees ==
  ASSUME NEW m, NEW h, L!HType(h), L!Chain(h), Agrees(m, h),
         NEW b \in DOMAIN h, NEW n \in Nat, n % 4 = 0
  PROVE  Agrees(Take(IF Splits(m, b, n) THEN Split(m, b, n) ELSE m, b, n), L!Carve(h, b, n))
<1>1. Splits(m, b, n) <=> L!Splits(h, b, n)
  <2>1. m[b + 16] = h[b].size
    BY AgreesFacts DEF HeaderAt
  <2>2. size(b) = b + 16 /\ sizeofHeader = sizeofHeader
    BY Numbers DEF size, Word
  <2> QED BY <2>1, <2>2 DEF Splits, L!Splits
<1>2. CASE L!Splits(h, b, n)
  <2>1. Agrees(Split(m, b, n), L!Split(h, b, n)) /\ b \in DOMAIN L!Split(h, b, n)
    <3>1. b \in DOMAIN L!Split(h, b, n)
      BY DEF L!Split
    <3> QED BY <3>1, <1>2, SplitAgrees
  <2>2. Agrees(Take(Split(m, b, n), b, n), L!Take(L!Split(h, b, n), b, n))
    BY <2>1, TakeAgrees
  <2> QED BY <2>2, <1>1, <1>2 DEF L!Carve
<1>3. CASE ~L!Splits(h, b, n)
  <2>1. Agrees(Take(m, b, n), L!Take(h, b, n))
    BY TakeAgrees
  <2> QED BY <2>1, <1>1, <1>3 DEF L!Carve
<1> QED BY <1>2, <1>3

-----------------------------------------------------------------------------
(* Where the room of block c ends.                                         *)
Top(h, c) == IF h[c].next = L!NULL THEN HeapEnd ELSE h[c].next

(* The room of every free block of h lies in the room of a free block of   *)
(* k, and its header is that block's header or lies behind it.             *)
Covers(k, h) ==
  \A c \in DOMAIN h : h[c].allocated = 0 =>
    \E d \in DOMAIN k : /\ k[d].allocated = 0
                        /\ d = c \/ d + 20 <= c
                        /\ Top(h, c) <= Top(k, d)

(* The room of a block holds it, ends in the heap, and has no other header *)
(* in it.                                                                  *)
LEMMA TopInHeap ==
  ASSUME NEW h, L!HType(h), L!Chain(h), NEW c \in DOMAIN h
  PROVE  /\ Top(h, c) \in Nat /\ c \in Nat /\ h[c].size \in Nat
         /\ c + 20 + h[c].size <= Top(h, c) /\ Top(h, c) <= HeapEnd
         /\ \A d \in DOMAIN h : d <= c \/ Top(h, c) <= d
<1>1. c \in Nat /\ h[c].size \in Nat /\ h[c].next \in Nat
  BY DEF L!HType, L!Header
<1>2. c + 20 + h[c].size <= HeapEnd
  BY Numbers DEF L!Chain, L!ForwardLinks
<1>3. ASSUME h[c].next # L!NULL
      PROVE  c + 20 + h[c].size <= h[c].next /\ h[c].next <= HeapEnd
  <2>1. c + 20 + h[c].size <= h[c].next /\ h[c].next \in DOMAIN h
    BY <1>3, Numbers DEF L!Chain, L!ForwardLinks
  <2>2. h[h[c].next].size \in Nat /\ h[c].next + 20 + h[h[c].next].size <= HeapEnd
    BY <2>1, Numbers DEF L!HType, L!Header, L!Chain, L!ForwardLinks
  <2> QED BY <2>1, <2>2, <1>1, Numbers
<1>4. ASSUME NEW d \in DOMAIN h PROVE d <= c \/ Top(h, c) <= d
  <2>1. d \in Nat
    BY DEF L!HType
  <2>2. c < d => h[c].next # L!NULL /\ h[c].next <= d
    BY DEF L!Chain, L!NextIsSuccessor
  <2> QED BY <2>1, <2>2, <1>1 DEF Top
<1> QED BY <1>1, <1>2, <1>3, <1>4, Numbers DEF Top

(* A free block that absorbs its successor covers the room of both.        *)
LEMMA MergeNextCovers ==
  ASSUME NEW h, L!HType(h), L!Chain(h), NEW b \in DOMAIN h, h[b].next # L!NULL,
         h[b].allocated = 0
  PROVE  Covers(L!MergeNext(h, b), h)
<1> DEFINE k == L!MergeNext(h, b)
           x == h[b].next
<1>1. L!Absorbs(k, h, b, x)
  BY L!MergeNextAbsorbs, HeapHolds
<1>2. /\ x \in DOMAIN h /\ b \in Nat /\ x \in Nat /\ b + 20 <= x
  <2>1. x \in DOMAIN h
    BY DEF L!Chain, L!ForwardLinks
  <2>2. Top(h, b) = x
    BY DEF Top
  <2> QED BY <2>1, <2>2, TopInHeap
<1> HIDE DEF k
<1>3. b \in DOMAIN k /\ k[b].allocated = 0 /\ Top(k, b) = Top(h, x)
  BY <1>1 DEF L!Absorbs, Top
<1>4. Top(h, b) <= Top(k, b)
  <2>1. Top(h, x) \in Nat /\ x + 20 + h[x].size <= Top(h, x) /\ h[x].size \in Nat
    BY <1>2, TopInHeap
  <2> QED BY <2>1, <1>2, <1>3 DEF Top
<1>5. ASSUME NEW c \in DOMAIN h, h[c].allocated = 0
      PROVE  \E d \in DOMAIN k : /\ k[d].allocated = 0
                                 /\ d = c \/ d + 20 <= c
                                 /\ Top(h, c) <= Top(k, d)
  <2>1. CASE c = b
    BY <2>1, <1>3, <1>4
  <2>2. CASE c = x
    <3>1. Top(h, x) \in Nat
      BY <1>2, TopInHeap
    <3> QED BY <2>2, <3>1, <1>2, <1>3
  <2>3. CASE c # b /\ c # x
    <3>1. c \in DOMAIN k /\ k[c].allocated = 0 /\ Top(k, c) = Top(h, c)
      BY <2>3, <1>1, <1>5 DEF L!Absorbs, Top
    <3>2. Top(h, c) \in Nat
      BY TopInHeap
    <3> QED BY <3>1, <3>2
  <2> QED BY <2>1, <2>2, <2>3
<1> QED BY <1>5 DEF Covers, k

(* Two merges in a row cover what the first one covered.                   *)
LEMMA CoversTransitive ==
  ASSUME NEW f, NEW g, NEW h, L!HType(f), L!HType(g), L!HType(h),
         L!Chain(f), L!Chain(g), L!Chain(h), Covers(g, f), Covers(h, g)
  PROVE  Covers(h, f)
<1> SUFFICES ASSUME NEW c \in DOMAIN f, f[c].allocated = 0
             PROVE  \E d \in DOMAIN h : /\ h[d].allocated = 0
                                        /\ d = c \/ d + 20 <= c
                                        /\ Top(f, c) <= Top(h, d)
  BY DEF Covers
<1>1. PICK d \in DOMAIN g : /\ g[d].allocated = 0
                            /\ d = c \/ d + 20 <= c
                            /\ Top(f, c) <= Top(g, d)
  BY DEF Covers
<1>2. PICK e \in DOMAIN h : /\ h[e].allocated = 0
                            /\ e = d \/ e + 20 <= d
                            /\ Top(g, d) <= Top(h, e)
  BY <1>1 DEF Covers
<1>3. /\ c \in Nat /\ d \in Nat /\ e \in Nat
      /\ Top(f, c) \in Nat /\ Top(g, d) \in Nat /\ Top(h, e) \in Nat
  BY TopInHeap
<1> QED BY <1>1, <1>2, <1>3

(* A list covers itself.                                                   *)
LEMMA CoversSelf ==
  ASSUME NEW h, L!HType(h), L!Chain(h)
  PROVE  Covers(h, h)
<1>1. \A c \in DOMAIN h : Top(h, c) \in Nat
  BY TopInHeap
<1> QED BY <1>1 DEF Covers

-----------------------------------------------------------------------------
(* The second half of Heap::free, as stores and on the headers.            *)
LEMMA JoinNextAgrees ==
  ASSUME NEW m, NEW h, L!HType(h), L!Chain(h), Agrees(m, h),
         NEW b \in DOMAIN h, h[b].allocated = 0
  PROVE  /\ Agrees(JoinNext(m, b), L!JoinNext(h, b))
         /\ Relinks(JoinNext(m, b), m, h)
         /\ Covers(L!JoinNext(h, b), h)
<1>1. m[b + 4] = h[b].next /\ next(b) = b + 4
  BY AgreesFacts DEF HeaderAt, next, Word
<1>2. h[b].next # L!NULL => h[b].next \in DOMAIN h
  BY DEF L!Chain, L!ForwardLinks
<1>3. h[b].next # L!NULL => m[h[b].next + 12] = h[h[b].next].allocated
  BY <1>2, AgreesFacts DEF HeaderAt
<1>4. IsFree(m, m[next(b)]) <=> L!NextIsFree(h, b)
  BY <1>1, <1>3 DEF IsFree, L!NextIsFree, L!NULL, NULL, allocated, Word
<1>5. CASE L!NextIsFree(h, b)
  <2>1. h[b].next # L!NULL
    BY <1>5 DEF L!NextIsFree
  <2>2. /\ Agrees(MergeNext(m, b), L!MergeNext(h, b)) /\ Relinks(MergeNext(m, b), m, h)
        /\ Covers(L!MergeNext(h, b), h)
    BY <2>1, MergeNextAgrees, MergeNextCovers
  <2> QED BY <2>2, <1>4, <1>5 DEF JoinNext, L!JoinNext
<1>6. CASE ~L!NextIsFree(h, b)
  <2>1. JoinNext(m, b) = m /\ L!JoinNext(h, b) = h
    BY <1>4, <1>6 DEF JoinNext, L!JoinNext
  <2> QED BY <2>1, CoversSelf DEF Relinks
<1> QED BY <1>5, <1>6

(* Heap::free after it has cleared the flag of block b.                    *)
LEMMA CoalesceAgrees ==
  ASSUME NEW m, NEW h, L!HType(h), L!Chain(h), Agrees(m, h),
         NEW b \in DOMAIN h, h[b].allocated = 0
  PROVE  /\ Agrees(Coalesce(m, b), L!Coalesce(h, b))
         /\ Relinks(Coalesce(m, b), m, h)
         /\ L!Chain(L!Coalesce(h, b)) /\ L!HType(L!Coalesce(h, b)) => Covers(L!Coalesce(h, b), h)
<1> DEFINE p == h[b].prev
<1>1. m[b + 8] = p /\ prev(b) = b + 8
  BY AgreesFacts DEF HeaderAt, prev, Word
<1>2. p # L!NULL => p \in DOMAIN h /\ h[p].next = b
  BY DEF L!Chain, L!BackLinks
<1>3. p # L!NULL => m[p + 12] = h[p].allocated
  BY <1>2, AgreesFacts DEF HeaderAt
<1>4. IsFree(m, m[prev(b)]) <=> L!PrevIsFree(h, b)
  BY <1>1, <1>3 DEF IsFree, L!PrevIsFree, L!NULL, NULL, allocated, Word
<1>5. CASE L!PrevIsFree(h, b)
  <2> DEFINE m1 == MergeNext(m, p)
             k == L!MergeNext(h, p)
  <2>1. p # L!NULL /\ p \in DOMAIN h /\ h[p].next = b /\ h[p].allocated = 0 /\ h[p].next # L!NULL
    <3>1. b # L!NULL
      BY Numbers DEF Agrees, Spaced, L!NULL
    <3> QED BY <3>1, <1>2, <1>5 DEF L!PrevIsFree
  <2>2. MergePrev(m, b) = m1
    <3>1. h[b].next \in Nat /\ (h[b].next # L!NULL => h[b].next \in DOMAIN h)
      BY DEF L!HType, L!Header, L!Chain, L!ForwardLinks
    <3> QED BY <2>1, <3>1, MergePrevWords
  <2>3. L!MergePrev(h, b) = k
    BY <2>1 DEF L!MergePrev, L!MergeNext
  <2>4. Agrees(m1, k) /\ Relinks(m1, m, h) /\ Covers(k, h)
    BY <2>1, MergeNextAgrees, MergeNextCovers
  <2>5. L!Absorbs(k, h, p, b)
    BY <2>1, L!MergeNextAbsorbs, HeapHolds
  <2>6. Coalesce(m, b) = JoinNext(m1, p) /\ L!Coalesce(h, b) = L!JoinNext(k, p)
    BY <2>2, <2>3, <1>1, <1>4, <1>5 DEF Coalesce, L!Coalesce
  <2> HIDE DEF m1, k, p
  <2>7. /\ L!HType(k) /\ L!Chain(k) /\ p \in DOMAIN k /\ k[p].allocated = 0
        /\ DOMAIN k \subseteq DOMAIN h
    BY <2>1, <2>5 DEF L!Absorbs
  <2>8. /\ Agrees(JoinNext(m1, p), L!JoinNext(k, p)) /\ Relinks(JoinNext(m1, p), m1, k)
        /\ Covers(L!JoinNext(k, p), k)
    BY <2>4, <2>7, JoinNextAgrees
  <2>9. Relinks(JoinNext(m1, p), m, h)
    BY <2>4, <2>7, <2>8 DEF Relinks
  <2>10. L!Chain(L!JoinNext(k, p)) /\ L!HType(L!JoinNext(k, p)) => Covers(L!JoinNext(k, p), h)
    BY <2>4, <2>7, <2>8, CoversTransitive
  <2> QED BY <2>6, <2>8, <2>9, <2>10
<1>6. CASE ~L!PrevIsFree(h, b)
  <2>1. Coalesce(m, b) = JoinNext(m, b) /\ L!Coalesce(h, b) = L!JoinNext(h, b)
    BY <1>1, <1>4, <1>6 DEF Coalesce, L!Coalesce
  <2> QED BY <2>1, JoinNextAgrees
<1> QED BY <1>5, <1>6

(* What a pointer freed since the last allocation points to: the bytes lie *)
(* in the room of one free block, behind a header that stays unmarked, and *)
(* clear of the bytes and header of the other freed pointers.              *)
FreedInFreeBlock(m, h, p, n) ==
  /\ p \in Nat /\ n \in Nat /\ HeapStart + 20 <= p /\ (p - HeapStart) % 4 = 0
  /\ m[p - 8] = 0
  /\ \E b \in DOMAIN h : /\ h[b].allocated = 0
                         /\ b + 20 = p \/ b + 40 <= p
                         /\ p + n <= Top(h, b)

FreedSound(m, h, f) ==
  /\ \A p \in DOMAIN f : FreedInFreeBlock(m, h, p, f[p])
  /\ \A p, q \in DOMAIN f : p < q => p + f[p] + 20 <= q

HeldSound(h, l) ==
  \A p \in DOMAIN l : p \in Nat /\ p >= 20 /\ p - 20 \in DOMAIN h /\ h[p - 20].allocated = 1

Sound(m, h, f, l) ==
  /\ L!HType(h) /\ L!Chain(h) /\ L!CoalescedOf(h)
  /\ Agrees(m, h)
  /\ FreedSound(m, h, f)
  /\ HeldSound(h, l)

WordsInv == Sound(mem, Parsed(mem), freed, live)

-----------------------------------------------------------------------------
(* align_up is Heap's AlignUp and yields a number of words.                *)
LEMMA AlignUpWords ==
  ASSUME NEW req \in Requests
  PROVE  /\ align_up(req) = L!AlignUp(req) /\ align_up(req) \in Nat
         /\ align_up(req) % 4 = 0
<1> DEFINE s == (req + 3) % UintSpan
<1>1. req \in Nat /\ UintSpan \in Nat \ {0}
  BY HeapWordsAssumption
<1>2. s \in Nat
  BY <1>1
<1>3. align_up(req) = s - (s % 4) /\ L!AlignUp(req) = s - (s % 4)
  <2>1. Word - 1 = 3 /\ Word = 4
    BY Numbers
  <2> QED BY <2>1 DEF align_up, L!AlignUp
<1> HIDE DEF s
<1>4. s - (s % 4) \in Nat /\ (s - (s % 4)) % 4 = 0
  BY <1>2
<1> QED BY <1>3, <1>4

(* The operators of Heap, as HeapWords instantiates them.                  *)
LEMMA SameOperators ==
  ASSUME NEW h, NEW b, NEW n
  PROVE  /\ H!AlignUp(n) = L!AlignUp(n)
         /\ H!FirstFree(h, n) = L!FirstFree(h, n)
         /\ H!Carve(h, b, n) = L!Carve(h, b, n)
         /\ H!Coalesce(h, b) = L!Coalesce(h, b)
         /\ H!Unmark(h, b) = L!Unmark(h, b)
         /\ H!HeaderAccepted(h, b) <=> L!HeaderAccepted(h, b)
         /\ H!Initialize = L!Initialize
<1>1. H!AlignUp(n) = L!AlignUp(n)
  BY DEF H!AlignUp, L!AlignUp
<1>2. H!FirstFree(h, n) = L!FirstFree(h, n)
  BY DEF H!FirstFree, L!FirstFree, H!Fits, L!Fits
<1>3. \A g : H!Take(g, b, n) = L!Take(g, b, n)
  BY DEF H!Take, L!Take, H!Fields, L!Fields
<1>4. H!Split(h, b, n) = L!Split(h, b, n)
  BY DEF H!Split, L!Split, H!WithPrev, L!WithPrev, H!Fields, L!Fields
<1>5. H!Splits(h, b, n) <=> L!Splits(h, b, n)
  BY DEF H!Splits, L!Splits
<1>6. H!Carve(h, b, n) = L!Carve(h, b, n)
  BY <1>3, <1>4, <1>5 DEF H!Carve, L!Carve
<1>7. \A g, c : H!MergePrev(g, c) = L!MergePrev(g, c)
  BY DEF H!MergePrev, L!MergePrev, H!WithPrev, L!WithPrev, H!Fields, L!Fields
<1>8. \A g, c : H!MergeNext(g, c) = L!MergeNext(g, c)
  BY DEF H!MergeNext, L!MergeNext, H!WithPrev, L!WithPrev, H!Fields, L!Fields
<1>9. \A g, c : H!JoinNext(g, c) = L!JoinNext(g, c)
  BY <1>8 DEF H!JoinNext, L!JoinNext, H!NextIsFree, L!NextIsFree, H!NULL, L!NULL
<1>10. H!Coalesce(h, b) = L!Coalesce(h, b)
  BY <1>7, <1>9 DEF H!Coalesce, L!Coalesce, H!PrevIsFree, L!PrevIsFree, H!NULL, L!NULL
<1>11. H!Unmark(h, b) = L!Unmark(h, b)
  BY DEF H!Unmark, L!Unmark, H!Fields, L!Fields
<1>12. H!HeaderAccepted(h, b) <=> L!HeaderAccepted(h, b)
  BY DEF H!HeaderAccepted, L!HeaderAccepted
<1>13. H!Initialize = L!Initialize
  BY DEF H!Initialize, L!Initialize, H!Fields, L!Fields, H!NULL, L!NULL
<1> QED BY <1>1, <1>2, <1>6, <1>10, <1>11, <1>12, <1>13

-----------------------------------------------------------------------------
(* Heap::Initialize writes the one header Heap starts with, whatever       *)
(* memory held before.                                                     *)
LEMMA WordsInit ==
  ASSUME Init
  PROVE  WordsInv /\ H!Init
<1> DEFINE h == L!Initialize
           s == HeapEnd - HeapStart - 20
<1>1. PICK junk \in Contents : mem = Initialize(junk)
  BY DEF Init
<1>2. junk \in Nat /\ s \in Nat /\ 0 \in Nat /\ HeapStart \in Nat
  BY <1>1, Numbers
<1> DEFINE blank == [a \in Mem |-> junk]
<1>3. blank \in [Mem -> Nat]
  BY <1>2
<1>4. mem = StoreHeader(blank, HeapStart, 0, 0, 0, s)
  <2>1. sizeofHeader = 20
    BY Numbers
  <2> QED BY <1>1, <2>1 DEF Initialize, Mem, NULL
<1> HIDE DEF blank, s
<1>5. /\ mem \in [Mem -> Nat]
      /\ \A w \in Mem : mem[w] =
           IF w = HeapStart THEN MEMORY_HEADER_MAGIC ELSE IF w = HeapStart + 4 THEN 0
           ELSE IF w = HeapStart + 8 THEN 0 ELSE IF w = HeapStart + 12 THEN 0
           ELSE IF w = HeapStart + 16 THEN s ELSE blank[w]
  <2>1. MEMORY_HEADER_MAGIC \in Nat
    BY Numbers
  <2> QED BY <2>1, <1>2, <1>3, <1>4
       DEF StoreHeader, magic, next, prev, allocated, size, Word
<1>6. /\ DOMAIN h = {HeapStart} /\ h[HeapStart] = L!Fields(0, 0, 0, s)
      /\ h = [b \in {HeapStart} |-> h[HeapStart]]
  BY Numbers DEF L!Initialize, L!NULL, s
<1> HIDE DEF h
<1>7. /\ h[HeapStart].next = 0 /\ h[HeapStart].prev = 0 /\ h[HeapStart].allocated = 0
      /\ h[HeapStart].size = s /\ h[HeapStart] \in L!Header
  BY <1>2, <1>6 DEF L!Fields, L!Header
<1>8. L!HType(h)
  BY <1>2, <1>6, <1>7 DEF L!HType
<1>9. L!Chain(h) /\ L!CoalescedOf(h)
  <2>1. HeapStart + sizeofHeader + s <= HeapEnd
    BY Numbers DEF s
  <2> QED BY <2>1, <1>2, <1>6, <1>7
       DEF L!Chain, L!ChainEnds, L!ForwardLinks, L!BackLinks, L!NextIsSuccessor, L!CoalescedOf,
           L!NULL
<1>10. Agrees(mem, h)
  <2>1. Spaced(h)
    <3>1. (HeapStart - HeapStart) % 4 = 0
      BY Numbers
    <3> QED BY <3>1, <1>6, Numbers DEF Spaced
  <2>2. {HeapStart, HeapStart + 4, HeapStart + 8, HeapStart + 12, HeapStart + 16} \subseteq Mem
    <3>1. (HeapStart - HeapStart) % 4 = 0
      BY Numbers
    <3> QED BY <3>1, Numbers, FieldsInMem
  <2>3. /\ mem[HeapStart] = MEMORY_HEADER_MAGIC /\ mem[HeapStart + 4] = 0
        /\ mem[HeapStart + 8] = 0 /\ mem[HeapStart + 12] = 0 /\ mem[HeapStart + 16] = s
    BY <2>2, <1>2, <1>5
  <2>4. HeaderAt(mem, HeapStart, h[HeapStart])
    BY <2>3, <1>7 DEF HeaderAt
  <2> QED BY <2>1, <2>4, <1>5, <1>6 DEF Agrees
<1>11. Parsed(mem) = h
  BY <1>8, <1>9, <1>10, ParsedIs
<1>12. DOMAIN freed = {} /\ DOMAIN live = {} /\ live = [p \in {} |-> 0] /\ status = "running"
  BY DEF Init
<1>13. FreedSound(mem, h, freed) /\ HeldSound(h, live)
  BY <1>12 DEF FreedSound, HeldSound
<1>14. H!Init
  <2>1. H!Initialize = h
    BY SameOperators DEF h
  <2> QED BY <2>1, <1>11, <1>12 DEF H!Init
<1> QED BY <1>8, <1>9, <1>10, <1>11, <1>13, <1>14 DEF WordsInv, Sound

(* malloc on the words is malloc on the headers.                           *)
LEMMA WordsMalloc ==
  ASSUME WordsInv, NEW req \in Requests, Malloc(req)
  PROVE  WordsInv' /\ H!Malloc(req)
<1> DEFINE h == Parsed(mem)
           n == align_up(req)
           b == FirstFree(mem, n)
           k == L!Carve(h, b, n)
<1>1. /\ L!HType(h) /\ L!Chain(h) /\ L!CoalescedOf(h) /\ Agrees(mem, h)
      /\ HeldSound(h, live)
  BY DEF WordsInv, Sound
<1>2. n = L!AlignUp(req) /\ n \in Nat /\ n % 4 = 0
  BY AlignUpWords
<1>3. /\ status = "running" /\ b # L!NULL
      /\ mem' = Take(IF Splits(mem, b, n) THEN Split(mem, b, n) ELSE mem, b, n)
      /\ live' = [q \in DOMAIN live \cup {b + 20} |-> IF q = b + 20 THEN req ELSE live[q]]
      /\ freed' = [q \in {} |-> 0] /\ status' = status
  BY Numbers DEF Malloc, L!NULL, NULL
<1> HIDE DEF h, n
<1>4. L!FirstFree(h, n) = {b}
  BY <1>1, <1>2, <1>3, FirstFreeIs
<1> HIDE DEF b
<1>5. b \in DOMAIN h /\ L!Fits(h, b, n)
  BY <1>4 DEF L!FirstFree
<1>6. Agrees(mem', k)
  BY <1>1, <1>2, <1>3, <1>5, CarveAgrees
<1>7. L!HType(k) /\ L!Chain(k) /\ L!CoalescedOf(k) /\ L!AddsBlock(k, h, b, n)
  BY <1>1, <1>2, <1>5, L!CarveBlock, HeapHolds
<1>8. Parsed(mem') = k
  BY <1>6, <1>7, ParsedIs
<1> HIDE DEF k
<1>9. HeldSound(k, live')
  <2> SUFFICES ASSUME NEW p \in DOMAIN live'
               PROVE  p \in Nat /\ p >= 20 /\ p - 20 \in DOMAIN k /\ k[p - 20].allocated = 1
    BY DEF HeldSound
  <2>1. b \in Nat /\ (b + 20) - 20 = b
    BY <1>1, <1>5 DEF L!HType
  <2>2. CASE p = b + 20
    BY <2>1, <2>2, <1>7 DEF L!AddsBlock
  <2>3. CASE p # b + 20
    <3>1. /\ p \in Nat /\ p >= 20 /\ p - 20 \in DOMAIN h /\ h[p - 20].allocated = 1
      BY <2>3, <1>1, <1>3 DEF HeldSound
    <3>2. p - 20 # b
      BY <2>1, <2>3, <3>1
    <3> QED BY <3>1, <3>2, <1>7 DEF L!AddsBlock
  <2> QED BY <2>2, <2>3
<1>10. DOMAIN freed' = {}
  BY <1>3
<1>11. WordsInv'
  <2>1. FreedSound(mem', k, freed')
    BY <1>10 DEF FreedSound
  <2> QED BY <2>1, <1>6, <1>7, <1>8, <1>9 DEF WordsInv, Sound
<1>12. H!Malloc(req)
  <2>1. H!AlignUp(req) = n /\ H!FirstFree(h, n) = {b} /\ H!Carve(h, b, n) = k
    BY <1>2, <1>4, SameOperators DEF k
  <2>2. sizeofHeader = 20
    BY Numbers
  <2> QED BY <2>1, <2>2, <1>3, <1>8, <1>10 DEF H!Malloc, h
<1> QED BY <1>11, <1>12

(* malloc panics on the words when it panics on the headers.               *)
LEMMA WordsMallocPanic ==
  ASSUME WordsInv, NEW req \in Requests, MallocPanic(req)
  PROVE  WordsInv' /\ H!MallocPanic(req)
<1> DEFINE h == Parsed(mem)
           n == align_up(req)
<1>1. L!HType(h) /\ L!Chain(h) /\ Agrees(mem, h)
  BY DEF WordsInv, Sound
<1>2. n = L!AlignUp(req) /\ n \in Nat
  BY AlignUpWords
<1>3. /\ status = "running" /\ FirstFree(mem, n) = L!NULL /\ status' = "Out of heap space"
      /\ mem' = mem /\ live' = live /\ freed' = freed
  BY DEF MallocPanic, L!NULL, NULL
<1> HIDE DEF h, n
<1>4. L!FirstFree(h, n) = {}
  BY <1>1, <1>2, <1>3, FirstFreeIs
<1>5. H!AlignUp(req) = n /\ H!FirstFree(h, n) = {}
  BY <1>2, <1>4, SameOperators
<1>6. H!MallocPanic(req)
  BY <1>3, <1>5 DEF H!MallocPanic, h
<1> QED BY <1>3, <1>6 DEF WordsInv

(* Writes that miss the linked headers and those of freed pointers leave   *)
(* the list as it is.                                                      *)
LEMMA WordsWrites ==
  ASSUME WordsInv, NEW p \in Nat, NEW n \in Nat, NEW v \in Contents,
         Writes(p, n, v),
         \A b \in DOMAIN Parsed(mem) : b + 20 <= p \/ p + n <= b,
         \A q \in DOMAIN freed : p + n + 20 <= q \/ q <= p
  PROVE  WordsInv' /\ UNCHANGED H!vars
<1> DEFINE h == Parsed(mem)
<1>1. L!HType(h) /\ L!Chain(h) /\ Agrees(mem, h) /\ FreedSound(mem, h, freed)
  BY DEF WordsInv, Sound
<1>2. mem \in [Mem -> Nat] /\ v \in Nat
  BY <1>1, Numbers DEF Agrees
<1>3. PICK a \in Words(p, p + n) :
        mem' = [w \in DOMAIN mem |-> IF w \in a .. (p + n - 1) THEN v ELSE mem[w]]
  BY DEF Writes
<1>4. a \in Nat /\ p <= a
  BY DEF Words
<1>5. mem' \in [Mem -> Nat]
  BY <1>2, <1>3
<1>6. ASSUME NEW w \in Mem, w \in Nat, w < p \/ p + n <= w PROVE mem'[w] = mem[w]
  BY <1>2, <1>3, <1>4, <1>6
<1> HIDE DEF h
<1>7. ASSUME NEW b \in DOMAIN h PROVE HeaderAt(mem', b, h[b])
  <2>1. /\ b \in Nat /\ {b, b + 4, b + 8, b + 12, b + 16} \subseteq Mem
        /\ HeaderAt(mem, b, h[b])
    BY <1>1, AgreesFacts
  <2>2. b + 20 <= p \/ p + n <= b
    BY DEF h
  <2>3. \A w \in {b, b + 4, b + 8, b + 12, b + 16} : mem'[w] = mem[w]
    BY <2>1, <2>2, <1>6
  <2> QED BY <2>1, <2>3, HeaderKept
<1>8. Agrees(mem', h)
  BY <1>1, <1>5, <1>7 DEF Agrees
<1>9. Parsed(mem') = h
  BY <1>1, <1>8, ParsedIs
<1>10. live' = live /\ freed' = freed /\ status' = status
  BY DEF Writes
<1>11. FreedSound(mem', h, freed)
  <2>1. ASSUME NEW q \in DOMAIN freed PROVE mem'[q - 8] = mem[q - 8]
    <3>1. q \in Nat /\ HeapStart + 20 <= q /\ (q - HeapStart) % 4 = 0
      BY <1>1 DEF FreedSound, FreedInFreeBlock
    <3>2. PICK b \in DOMAIN h : (b + 20 = q \/ b + 40 <= q) /\ q + freed[q] <= Top(h, b)
                               /\ freed[q] \in Nat
      BY <1>1 DEF FreedSound, FreedInFreeBlock
    <3>3. q <= HeapEnd
      <4>1. Top(h, b) \in Nat /\ Top(h, b) <= HeapEnd
        BY <1>1, TopInHeap
      <4> QED BY <4>1, <3>1, <3>2, Numbers
    <3>4. q - 8 \in Mem /\ q - 8 \in Nat
      <4>1. q - 8 \in Nat /\ HeapStart <= q - 8 /\ q - 8 < HeapEnd /\ ((q - 8) - HeapStart) % 4 = 0
        BY <3>1, <3>3, Numbers
      <4> QED BY <4>1, InMem
    <3>5. q - 8 < p \/ p + n <= q - 8
      BY <3>1
    <3> QED BY <3>4, <3>5, <1>6
  <2> QED BY <2>1, <1>1 DEF FreedSound, FreedInFreeBlock
<1>12. WordsInv'
  BY <1>8, <1>9, <1>10, <1>11 DEF WordsInv, Sound, h
<1>13. UNCHANGED H!vars
  BY <1>9, <1>10 DEF H!vars, h
<1> QED BY <1>12, <1>13

(* A holder that stays in its block writes no header and no freed block.   *)
LEMMA WordsHolderWrites ==
  ASSUME WordsInv, NEW p \in DOMAIN live, NEW v \in Contents, HolderWrites(p, v)
  PROVE  WordsInv' /\ UNCHANGED H!vars
<1> DEFINE h == Parsed(mem)
           b == p - 20
           n == h[b].size
<1>1. /\ L!HType(h) /\ L!Chain(h) /\ Agrees(mem, h) /\ FreedSound(mem, h, freed)
      /\ HeldSound(h, live)
  BY DEF WordsInv, Sound
<1> HIDE DEF h
<1>2. p \in Nat /\ p >= 20 /\ b \in DOMAIN h /\ h[b].allocated = 1 /\ b \in Nat /\ b + 20 = p
  BY <1>1 DEF HeldSound
<1>3. /\ n \in Nat /\ p + n <= Top(h, b) /\ Top(h, b) \in Nat
      /\ \A d \in DOMAIN h : d \in Nat /\ (d <= b \/ Top(h, b) <= d)
  <2>1. /\ Top(h, b) \in Nat /\ n \in Nat /\ b + 20 + n <= Top(h, b)
        /\ \A d \in DOMAIN h : d <= b \/ Top(h, b) <= d
    BY <1>1, <1>2, TopInHeap
  <2> QED BY <2>1, <1>1, <1>2 DEF L!HType
<1>4. Writes(p, n, v)
  <2>1. mem[b + 16] = n
    BY <1>1, <1>2, AgreesFacts DEF HeaderAt
  <2>2. size(p - sizeofHeader) = b + 16
    BY Numbers DEF size
  <2> QED BY <2>1, <2>2 DEF HolderWrites
<1> HIDE DEF b, n
<1>5. \A d \in DOMAIN h : d + 20 <= p \/ p + n <= d
  BY <1>2, <1>3
<1>6. ASSUME NEW q \in DOMAIN freed PROVE p + n + 20 <= q \/ q <= p
  <2>1. PICK c \in DOMAIN h : /\ h[c].allocated = 0 /\ (c + 20 = q \/ c + 40 <= q)
                              /\ q + freed[q] <= Top(h, c)
    BY <1>1 DEF FreedSound, FreedInFreeBlock
  <2>2. q \in Nat /\ freed[q] \in Nat
    BY <1>1 DEF FreedSound, FreedInFreeBlock
  <2>3. /\ c \in Nat /\ Top(h, c) \in Nat /\ (b <= c \/ Top(h, c) <= b)
    BY <1>1, <1>2, TopInHeap
  <2>4. c # b
    BY <2>1, <1>2
  <2> QED BY <2>1, <2>2, <2>3, <2>4, <1>2, <1>3
<1> QED BY <1>2, <1>3, <1>4, <1>5, <1>6, WordsWrites DEF h

(* A thread that writes to the stack RemoveThread freed under it writes no *)
(* header of the list and none of another freed pointer.                   *)
LEMMA WordsStack ==
  ASSUME WordsInv, NEW p \in DOMAIN freed, NEW v \in Contents,
         StackOfRemovedThread(p, v)
  PROVE  WordsInv' /\ UNCHANGED H!vars
<1> DEFINE h == Parsed(mem)
           n == freed[p]
<1>1. L!HType(h) /\ L!Chain(h) /\ FreedSound(mem, h, freed)
  BY DEF WordsInv, Sound
<1> HIDE DEF h
<1>2. p \in Nat /\ n \in Nat /\ \A q \in DOMAIN freed : q \in Nat /\ freed[q] \in Nat
  BY <1>1 DEF FreedSound, FreedInFreeBlock
<1>3. PICK c \in DOMAIN h : (c + 20 = p \/ c + 40 <= p) /\ p + n <= Top(h, c)
  BY <1>1 DEF FreedSound, FreedInFreeBlock
<1>4. /\ c \in Nat /\ Top(h, c) \in Nat
      /\ \A d \in DOMAIN h : d <= c \/ Top(h, c) <= d
  BY <1>1, TopInHeap
<1>5. Writes(p, n, v)
  BY DEF StackOfRemovedThread
<1>6. \A d \in DOMAIN h : d + 20 <= p \/ p + n <= d
  <2>1. \A d \in DOMAIN h : d \in Nat
    BY <1>1 DEF L!HType
  <2> QED BY <2>1, <1>2, <1>3, <1>4
<1>7. \A q \in DOMAIN freed : p + n + 20 <= q \/ q <= p
  BY <1>1, <1>2 DEF FreedSound
<1> HIDE DEF n
<1> QED BY <1>2, <1>5, <1>6, <1>7, WordsWrites DEF h

-----------------------------------------------------------------------------
(* The test at the top of Heap::free tells the same in the words as in the *)
(* headers, for every pointer callers may pass.                            *)
LEMMA WordsAccepted ==
  ASSUME WordsInv, NEW p \in DOMAIN live \cup DOMAIN freed
  PROVE  /\ HeaderAccepted(mem, p) <=> L!HeaderAccepted(Parsed(mem), p)
         /\ HeaderAccepted(mem, p) =>
              /\ p \in Nat /\ p >= 20 /\ p - 20 \in DOMAIN Parsed(mem)
              /\ Parsed(mem)[p - 20].allocated = 1 /\ p \notin DOMAIN freed
<1> DEFINE h == Parsed(mem)
<1>1. Agrees(mem, h) /\ FreedSound(mem, h, freed) /\ HeldSound(h, live)
  BY DEF WordsInv, Sound
<1> HIDE DEF h
<1>2. p \in Nat /\ p >= 20
  BY <1>1, Numbers DEF HeldSound, FreedSound, FreedInFreeBlock
<1>3. HeaderAccepted(mem, p) <=> mem[p - 20] = MEMORY_HEADER_MAGIC /\ mem[p - 8] # 0
  <2>1. magic(p - sizeofHeader) = p - 20 /\ allocated(p - sizeofHeader) = p - 8
    BY <1>2 DEF magic, allocated, sizeofHeader, Word
  <2> QED BY <2>1 DEF HeaderAccepted
<1>4. p - 20 \in DOMAIN h => mem[p - 20] = MEMORY_HEADER_MAGIC /\ mem[p - 8] = h[p - 20].allocated
  <2> SUFFICES ASSUME p - 20 \in DOMAIN h
               PROVE  mem[p - 20] = MEMORY_HEADER_MAGIC /\ mem[p - 8] = h[p - 20].allocated
    OBVIOUS
  <2>1. HeaderAt(mem, p - 20, h[p - 20])
    BY <1>1 DEF Agrees
  <2>2. (p - 20) + 12 = p - 8
    BY <1>2
  <2> QED BY <2>1, <2>2 DEF HeaderAt
<1>5. L!HeaderAccepted(h, p) <=> p - 20 \in DOMAIN h /\ h[p - 20].allocated = 1
  BY <1>2, Numbers DEF L!HeaderAccepted
<1>6. CASE p \in DOMAIN freed
  <2>1. mem[p - 8] = 0
    BY <1>1, <1>6 DEF FreedSound, FreedInFreeBlock
  <2> QED BY <2>1, <1>3, <1>4, <1>5 DEF h
<1>7. CASE p \notin DOMAIN freed
  <2>1. p - 20 \in DOMAIN h /\ h[p - 20].allocated = 1
    BY <1>1, <1>7 DEF HeldSound
  <2> QED BY <2>1, <1>2, <1>3, <1>4, <1>5, <1>7 DEF h
<1> QED BY <1>6, <1>7

(* The words of freed pointers' headers are none that a merge writes.      *)
LEMMA DeadHeadersApart ==
  ASSUME NEW m, NEW h, L!HType(h), L!Chain(h), Agrees(m, h),
         NEW p, NEW n, FreedInFreeBlock(m, h, p, n), NEW d \in DOMAIN h
  PROVE  p - 8 \notin {d + 4, d + 8, d + 16} /\ p - 8 \in Mem
<1>1. p \in Nat /\ n \in Nat /\ HeapStart + 20 <= p /\ (p - HeapStart) % 4 = 0
  BY DEF FreedInFreeBlock
<1>2. PICK b \in DOMAIN h : (b + 20 = p \/ b + 40 <= p) /\ p + n <= Top(h, b)
  BY DEF FreedInFreeBlock
<1>3. /\ b \in Nat /\ Top(h, b) \in Nat /\ Top(h, b) <= HeapEnd
      /\ d \in Nat /\ (d <= b \/ Top(h, b) <= d)
  <2>1. d \in Nat
    BY DEF L!HType
  <2> QED BY <2>1, TopInHeap
<1>4. d # b => d + 20 <= b \/ b + 20 <= d
  BY AgreesFacts
<1>5. p - 8 \notin {d + 4, d + 8, d + 16}
  BY <1>1, <1>2, <1>3, <1>4
<1>6. p - 8 \in Mem
  <2>1. p - 8 \in Nat /\ HeapStart <= p - 8 /\ p - 8 < HeapEnd /\ ((p - 8) - HeapStart) % 4 = 0
    BY <1>1, <1>2, <1>3, Numbers
  <2> QED BY <2>1, InMem
<1> QED BY <1>5, <1>6

(* Heap::free of block b, as a whole: on the words it does what it does on *)
(* the headers, writes no word but of headers, and keeps the freed room    *)
(* free.                                                                   *)
LEMMA FreeWords ==
  ASSUME NEW m, NEW h, L!HType(h), L!Chain(h), L!CoalescedOf(h), Agrees(m, h),
         NEW b \in DOMAIN h, h[b].allocated = 1, NEW f, FreedSound(m, h, f)
  PROVE  LET m2 == Coalesce(Unmark(m, b + 20), b)
             k == L!Coalesce(L!Unmark(h, b), b)
         IN /\ L!HType(k) /\ L!Chain(k) /\ L!CoalescedOf(k) /\ L!SameAllocated(k, L!Unmark(h, b))
            /\ Agrees(m2, k)
            /\ \A w \in Mem : m2[w] # m[w] => \E c \in DOMAIN h : w \in c .. (c + 16)
            /\ \A p \in DOMAIN f : FreedInFreeBlock(m2, k, p, f[p])
            /\ FreedInFreeBlock(m2, k, b + 20, h[b].size)
<1> DEFINE u == L!Unmark(h, b)
           m1 == Unmark(m, b + 20)
           m2 == Coalesce(m1, b)
           k == L!Coalesce(u, b)
<1>1. L!HType(k) /\ L!Chain(k) /\ L!CoalescedOf(k) /\ L!SameAllocated(k, u)
  BY L!FreeBlock, HeapHolds
<1>2. L!HType(u) /\ L!Chain(u)
  BY L!UnmarkKeepsChain, HeapHolds
<1>3. /\ Agrees(m1, u) /\ \A w \in Mem : w # b + 12 => m1[w] = m[w]
      /\ m1[b + 12] = 0
  BY UnmarkAgrees
<1>4. /\ DOMAIN u = DOMAIN h /\ u[b].allocated = 0 /\ u[b].size = h[b].size
      /\ \A c \in DOMAIN h : u[c].next = h[c].next
      /\ \A c \in DOMAIN h \ {b} : u[c] = h[c]
  BY DEF L!Unmark, L!Fields
<1> HIDE DEF u, m1
<1>5. Agrees(m2, k) /\ Relinks(m2, m1, u) /\ Covers(k, u)
  BY <1>1, <1>2, <1>3, <1>4, CoalesceAgrees
<1> HIDE DEF m2, k
<1>6. \A c \in DOMAIN h : c \in Nat
  BY DEF L!HType
<1>7. ASSUME NEW w \in Mem, m2[w] # m[w] PROVE \E c \in DOMAIN h : w \in c .. (c + 16)
  <2>1. CASE m1[w] # m[w]
    BY <2>1, <1>3, <1>6
  <2>2. CASE m2[w] # m1[w]
    BY <2>2, <1>4, <1>5, <1>6 DEF Relinks
  <2> QED BY <2>1, <2>2, <1>7
<1>8. \A c \in DOMAIN h : Top(u, c) = Top(h, c)
  BY <1>4 DEF Top
<1>9. ASSUME NEW c \in DOMAIN h, u[c].allocated = 0, NEW p \in Nat, NEW n \in Nat,
             c + 20 = p \/ c + 40 <= p, p + n <= Top(h, c)
      PROVE  \E d \in DOMAIN k : /\ k[d].allocated = 0
                                 /\ d + 20 = p \/ d + 40 <= p
                                 /\ p + n <= Top(k, d)
  <2>1. PICK d \in DOMAIN k : /\ k[d].allocated = 0
                              /\ d = c \/ d + 20 <= c
                              /\ Top(u, c) <= Top(k, d)
    BY <1>4, <1>5, <1>9 DEF Covers
  <2>2. c \in Nat /\ d \in Nat /\ Top(h, c) \in Nat /\ Top(k, d) \in Nat
    BY <1>1, TopInHeap
  <2> QED BY <2>1, <2>2, <1>8, <1>9
<1>10. ASSUME NEW p \in DOMAIN f PROVE FreedInFreeBlock(m2, k, p, f[p])
  <2>1. FreedInFreeBlock(m, h, p, f[p])
    BY DEF FreedSound
  <2>2. /\ p \in Nat /\ f[p] \in Nat /\ HeapStart + 20 <= p /\ (p - HeapStart) % 4 = 0
        /\ m[p - 8] = 0
    BY <2>1 DEF FreedInFreeBlock
  <2>3. PICK c \in DOMAIN h : /\ h[c].allocated = 0 /\ (c + 20 = p \/ c + 40 <= p)
                              /\ p + f[p] <= Top(h, c)
    BY <2>1 DEF FreedInFreeBlock
  <2>4. u[c].allocated = 0
    BY <2>3, <1>4
  <2>5. m2[p - 8] = 0
    <3>1. p - 8 \in Mem /\ \A d \in DOMAIN h : p - 8 \notin {d + 4, d + 8, d + 16}
      BY <2>1, DeadHeadersApart
    <3>2. m1[p - 8] = 0
      BY <3>1, <2>2, <1>3
    <3> QED BY <3>1, <3>2, <1>4, <1>5 DEF Relinks
  <2> QED BY <2>2, <2>3, <2>4, <2>5, <1>9 DEF FreedInFreeBlock
<1>11. FreedInFreeBlock(m2, k, b + 20, h[b].size)
  <2>1. /\ b \in Nat /\ HeapStart <= b /\ (b - HeapStart) % 4 = 0 /\ b + 12 \in Mem
    BY AgreesFacts DEF Agrees, Spaced
  <2>2. /\ h[b].size \in Nat /\ b + 20 + h[b].size <= Top(h, b)
    BY TopInHeap
  <2>3. /\ b + 20 \in Nat /\ HeapStart + 20 <= b + 20 /\ (b + 20) - 8 = b + 12
        /\ ((b + 20) - HeapStart) % 4 = 0
    BY <2>1, Numbers
  <2>4. m2[b + 12] = 0
    <3>1. \A d \in DOMAIN h : b + 12 \notin {d + 4, d + 8, d + 16}
      <4> TAKE d \in DOMAIN h
      <4>1. d # b => d \in Nat /\ (b + 20 <= d \/ d + 20 <= b)
        BY AgreesFacts
      <4> QED BY <4>1, <2>1
    <3> QED BY <3>1, <2>1, <1>3, <1>4, <1>5 DEF Relinks
  <2>5. \E d \in DOMAIN k : /\ k[d].allocated = 0
                            /\ d + 20 = b + 20 \/ d + 40 <= b + 20
                            /\ b + 20 + h[b].size <= Top(k, d)
    <3>1. u[b].allocated = 0 /\ b + 20 = b + 20
      BY <1>4
    <3> QED BY <3>1, <2>2, <2>3, <1>9
  <2> QED BY <2>2, <2>3, <2>4, <2>5 DEF FreedInFreeBlock
<1> QED BY <1>1, <1>5, <1>7, <1>10, <1>11 DEF k, u, m1, m2

(* free on the words is free on the headers, and writes to headers only.   *)
LEMMA WordsFree ==
  ASSUME WordsInv, NEW p \in DOMAIN live \cup DOMAIN freed, Free(p)
  PROVE  /\ WordsInv' /\ H!Free(p)
         /\ \A w \in Mem : mem'[w] # mem[w] =>
              \E c \in DOMAIN Parsed(mem) : w \in c .. (c + 16)
<1> DEFINE h == Parsed(mem)
           b == p - 20
           k == L!Coalesce(L!Unmark(h, b), b)
           m2 == Coalesce(Unmark(mem, b + 20), b)
<1>1. /\ L!HType(h) /\ L!Chain(h) /\ L!CoalescedOf(h) /\ Agrees(mem, h)
      /\ FreedSound(mem, h, freed) /\ HeldSound(h, live)
  BY DEF WordsInv, Sound
<1>2. /\ p \in Nat /\ p >= 20 /\ b \in DOMAIN h /\ h[b].allocated = 1 /\ p \notin DOMAIN freed
      /\ L!HeaderAccepted(h, p)
  BY WordsAccepted DEF Free
<1>3. b \in Nat /\ b + 20 = p
  BY <1>2
<1> HIDE DEF h
<1>4. mem[b + 16] = h[b].size
  BY <1>1, <1>2, AgreesFacts DEF HeaderAt
<1>5. /\ status = "running" /\ mem' = m2 /\ status' = status
      /\ live' = [q \in DOMAIN live \ {p} |-> live[q]]
      /\ freed' = [q \in DOMAIN freed \cup {p} |-> IF q = p THEN h[b].size ELSE freed[q]]
  <2>1. sizeofHeader = 20 /\ size(b) = b + 16
    BY Numbers DEF size
  <2> QED BY <2>1, <1>3, <1>4 DEF Free
<1> HIDE DEF b
<1>6. /\ L!HType(k) /\ L!Chain(k) /\ L!CoalescedOf(k) /\ L!SameAllocated(k, L!Unmark(h, b))
      /\ Agrees(m2, k)
      /\ \A w \in Mem : m2[w] # mem[w] => \E c \in DOMAIN h : w \in c .. (c + 16)
      /\ \A q \in DOMAIN freed : FreedInFreeBlock(m2, k, q, freed[q])
      /\ FreedInFreeBlock(m2, k, b + 20, h[b].size)
  BY <1>1, <1>2, FreeWords
<1> HIDE DEF k, m2
<1>7. Parsed(mem') = k
  BY <1>5, <1>6, ParsedIs
<1>8. HeldSound(k, live')
  <2> SUFFICES ASSUME NEW q \in DOMAIN live'
               PROVE  q \in Nat /\ q >= 20 /\ q - 20 \in DOMAIN k /\ k[q - 20].allocated = 1
    BY DEF HeldSound
  <2>1. q \in DOMAIN live /\ q # p
    BY <1>5
  <2>2. q \in Nat /\ q >= 20 /\ q - 20 \in DOMAIN h /\ h[q - 20].allocated = 1
    BY <2>1, <1>1 DEF HeldSound
  <2>3. q - 20 # b
    BY <2>1, <2>2, <1>2, <1>3
  <2>4. q - 20 \in DOMAIN L!Unmark(h, b) /\ L!Unmark(h, b)[q - 20].allocated = 1
    BY <2>2, <2>3 DEF L!Unmark
  <2> QED BY <2>2, <2>4, <1>6 DEF L!SameAllocated
<1>9. FreedSound(mem', k, freed')
  <2>1. /\ DOMAIN freed' = DOMAIN freed \cup {p} /\ freed'[p] = h[b].size
        /\ \A q \in DOMAIN freed : freed'[q] = freed[q]
    BY <1>2, <1>5
  <2>2. ASSUME NEW q \in DOMAIN freed' PROVE FreedInFreeBlock(mem', k, q, freed'[q])
    BY <2>1, <1>3, <1>5, <1>6
  <2>3. ASSUME NEW q \in DOMAIN freed
        PROVE  /\ q < p => q + freed[q] + 20 <= p
               /\ p < q => p + h[b].size + 20 <= q
    <3>1. q \in Nat /\ freed[q] \in Nat
      BY <1>1 DEF FreedSound, FreedInFreeBlock
    <3>2. PICK c \in DOMAIN h : /\ h[c].allocated = 0 /\ (c + 20 = q \/ c + 40 <= q)
                                /\ q + freed[q] <= Top(h, c)
      BY <1>1 DEF FreedSound, FreedInFreeBlock
    <3>3. c # b
      BY <3>2, <1>2
    <3>4. /\ c \in Nat /\ Top(h, c) \in Nat /\ (b <= c \/ Top(h, c) <= b)
      BY <1>1, <1>2, TopInHeap
    <3>5. /\ Top(h, b) \in Nat /\ h[b].size \in Nat /\ b + 20 + h[b].size <= Top(h, b)
          /\ (c <= b \/ Top(h, b) <= c)
      BY <1>1, <1>2, TopInHeap
    <3> QED BY <3>1, <3>2, <3>3, <3>4, <3>5, <1>3
  <2>4. ASSUME NEW q \in DOMAIN freed', NEW r \in DOMAIN freed', q < r
        PROVE  q + freed'[q] + 20 <= r
    <3>1. CASE q \in DOMAIN freed /\ r \in DOMAIN freed
      BY <3>1, <2>1, <2>4, <1>1 DEF FreedSound
    <3>2. CASE q = p /\ r \in DOMAIN freed
      BY <3>2, <2>1, <2>3, <2>4
    <3>3. CASE q \in DOMAIN freed /\ r = p
      BY <3>3, <2>1, <2>3, <2>4
    <3>4. ~(q = p /\ r = p)
      BY <2>4, <1>2
    <3> QED BY <3>1, <3>2, <3>3, <3>4, <2>1
  <2> QED BY <2>2, <2>4 DEF FreedSound
<1>10. WordsInv'
  BY <1>5, <1>6, <1>7, <1>8, <1>9 DEF WordsInv, Sound
<1>11. H!Free(p)
  <2>1. /\ H!HeaderAccepted(h, p) /\ H!Unmark(h, b) = L!Unmark(h, b)
        /\ H!Coalesce(L!Unmark(h, b), b) = k
    BY <1>2, SameOperators DEF k
  <2>2. sizeofHeader = 20 /\ p - 20 = b
    BY Numbers DEF b
  <2>3. DOMAIN freed' = DOMAIN freed \cup {p}
    BY <1>5
  <2> QED BY <2>1, <2>2, <2>3, <1>5, <1>7 DEF H!Free, h
<1> QED BY <1>5, <1>6, <1>10, <1>11 DEF h

(* free panics on the words when it panics on the headers.                 *)
LEMMA WordsFreePanic ==
  ASSUME WordsInv, NEW p \in DOMAIN live \cup DOMAIN freed, FreePanic(p)
  PROVE  WordsInv' /\ H!FreePanic(p)
<1>1. /\ status = "running" /\ ~HeaderAccepted(mem, p) /\ status' = "Double free detected"
      /\ mem' = mem /\ live' = live /\ freed' = freed
  BY DEF FreePanic
<1>2. ~H!HeaderAccepted(Parsed(mem), p)
  BY <1>1, WordsAccepted, SameOperators
<1>3. H!FreePanic(p)
  BY <1>1, <1>2 DEF H!FreePanic
<1> QED BY <1>1, <1>3 DEF WordsInv

(* Every step keeps the words' invariant and is a step of Heap or none.    *)
LEMMA WordsStep ==
  ASSUME WordsInv, [Next]_vars
  PROVE  WordsInv' /\ [H!Next]_(H!vars)
<1>1. ASSUME NEW req \in Requests, Malloc(req) PROVE WordsInv' /\ H!Next
  <2>1. WordsInv' /\ H!Malloc(req)
    BY <1>1, WordsMalloc
  <2> QED BY <2>1 DEF H!Next
<1>2. ASSUME NEW req \in Requests, MallocPanic(req) PROVE WordsInv' /\ H!Next
  <2>1. WordsInv' /\ H!MallocPanic(req)
    BY <1>2, WordsMallocPanic
  <2> QED BY <2>1 DEF H!Next
<1>3. ASSUME NEW p \in DOMAIN live, NEW v \in Contents, HolderWrites(p, v)
      PROVE  WordsInv' /\ UNCHANGED H!vars
  BY <1>3, WordsHolderWrites
<1>4. ASSUME NEW p \in DOMAIN freed, NEW v \in Contents, StackOfRemovedThread(p, v)
      PROVE  WordsInv' /\ UNCHANGED H!vars
  BY <1>4, WordsStack
<1>5. ASSUME NEW p \in DOMAIN live \cup DOMAIN freed, Free(p) PROVE WordsInv' /\ H!Next
  <2>1. WordsInv' /\ H!Free(p)
    BY <1>5, WordsFree
  <2> QED BY <2>1 DEF H!Next
<1>6. ASSUME NEW p \in DOMAIN live \cup DOMAIN freed, FreePanic(p) PROVE WordsInv' /\ H!Next
  <2>1. WordsInv' /\ H!FreePanic(p)
    BY <1>6, WordsFreePanic
  <2> QED BY <2>1 DEF H!Next
<1>7. CASE UNCHANGED vars
  <2>1. mem' = mem /\ live' = live /\ freed' = freed /\ status' = status
    BY <1>7 DEF vars
  <2> QED BY <2>1 DEF WordsInv, H!vars
<1>8. CASE Next
  BY <1>1, <1>2, <1>3, <1>4, <1>5, <1>6, <1>8 DEF Next
<1> QED BY <1>7, <1>8

(* The words' invariant holds throughout.                                  *)
LEMMA WordsInvariant ==
  Spec => []WordsInv
<1>1. Init => WordsInv
  BY WordsInit
<1>2. WordsInv /\ [Next]_vars => WordsInv'
  BY WordsStep
<1> QED BY <1>1, <1>2, PTL DEF Spec

(* The heap as words implements Heap, whatever holders and removed threads *)
(* write and whatever dead headers lie around: the headers read back from  *)
(* memory change as Heap's malloc and free say, and both panics happen     *)
(* exactly when they do there (heap.cpp, all operations).                  *)
THEOREM WordsImplementHeap ==
  Spec => ImplementsHeap
<1>1. Init => H!Init
  BY WordsInit
<1>2. WordsInv /\ [Next]_vars => [H!Next]_(H!vars)
  BY WordsStep
<1> QED BY <1>1, <1>2, WordsInvariant, PTL DEF Spec, ImplementsHeap, H!Spec

(* Two tests tell a step of free that took effect from every other step.   *)
LEMMA FreeKeepsPayloadStep ==
  ASSUME WordsInv, Next, DOMAIN live' # DOMAIN live, DOMAIN freed' # {}
  PROVE  {a \in DOMAIN mem : mem'[a] # mem[a]} \subseteq HeaderWords
<1>1. PICK p \in DOMAIN live \cup DOMAIN freed : Free(p)
  <2>1. ASSUME NEW req \in Requests PROVE ~Malloc(req) /\ ~MallocPanic(req)
    BY DEF Malloc, MallocPanic
  <2>2. ASSUME NEW p, NEW n, NEW v PROVE ~Writes(p, n, v)
    BY DEF Writes
  <2>3. ASSUME NEW p PROVE ~FreePanic(p)
    BY DEF FreePanic
  <2> QED BY <2>1, <2>2, <2>3 DEF Next, HolderWrites, StackOfRemovedThread
<1> DEFINE h == Parsed(mem)
<1>2. L!HType(h) /\ L!Chain(h) /\ Agrees(mem, h)
  BY DEF WordsInv, Sound
<1>3. \A w \in Mem : mem'[w] # mem[w] => \E c \in DOMAIN h : w \in c .. (c + 16)
  BY <1>1, WordsFree
<1> HIDE DEF h
<1>4. Linked(mem) = DOMAIN h /\ DOMAIN mem = Mem
  BY <1>2, ParsedIs DEF Agrees
<1> SUFFICES ASSUME NEW w \in Mem, mem'[w] # mem[w] PROVE w \in HeaderWords
  BY <1>4
<1>5. PICK c \in DOMAIN h : w \in c .. (c + 16)
  BY <1>3
<1>6. c \in Nat /\ w \in Nat /\ (w - HeapStart) % 4 = 0
  BY <1>2, InMem DEF L!HType
<1>7. w \in Words(c, c + sizeofHeader)
  BY <1>5, <1>6, Numbers DEF Words
<1> QED BY <1>4, <1>5, <1>7 DEF HeaderWords

(* Heap::free changes words of linked headers only, so that the frees      *)
(* RemoveThread makes under a running thread leave the bytes of its stack  *)
(* as they are.                                                            *)
THEOREM WordsFreeKeepsPayload ==
  Spec => [][FreeKeepsPayload]_vars
<1>1. WordsInv /\ [Next]_vars => [FreeKeepsPayload]_vars
  BY FreeKeepsPayloadStep DEF FreeKeepsPayload
<1> QED BY <1>1, WordsInvariant, PTL DEF Spec

(* Until the next malloc the bytes of every freed block lie in one free    *)
(* block of the list, behind a header that stays unmarked: what was freed  *)
(* may still be used as a stack, and a second free is refused.             *)
THEOREM WordsFreedStaysFree ==
  Spec => []FreedStaysFree
<1>1. WordsInv => FreedStaysFree
  <2> SUFFICES ASSUME WordsInv, NEW p \in DOMAIN freed
               PROVE  /\ mem[allocated(p - sizeofHeader)] = 0
                      /\ \E b \in Linked(mem) : /\ mem[allocated(b)] = 0
                                                /\ b + sizeofHeader <= p
                                                /\ p + freed[p] <= RoomEnd(b)
    BY DEF FreedStaysFree
  <2> DEFINE h == Parsed(mem)
  <2>1. L!HType(h) /\ L!Chain(h) /\ Agrees(mem, h) /\ FreedInFreeBlock(mem, h, p, freed[p])
    BY DEF WordsInv, Sound, FreedSound
  <2> HIDE DEF h
  <2>2. Linked(mem) = DOMAIN h
    BY <2>1, ParsedIs
  <2>3. p \in Nat /\ HeapStart + 20 <= p /\ mem[p - 8] = 0
    BY <2>1 DEF FreedInFreeBlock
  <2>4. allocated(p - sizeofHeader) = p - 8
    BY <2>3, Numbers DEF allocated
  <2>5. PICK b \in DOMAIN h : /\ h[b].allocated = 0 /\ (b + 20 = p \/ b + 40 <= p)
                              /\ p + freed[p] <= Top(h, b)
    BY <2>1 DEF FreedInFreeBlock
  <2>6. /\ b \in Nat /\ mem[b + 4] = h[b].next /\ mem[b + 12] = h[b].allocated
    BY <2>1, AgreesFacts DEF HeaderAt
  <2>7. allocated(b) = b + 12 /\ next(b) = b + 4
    BY <2>6, Numbers DEF allocated, next
  <2>8. RoomEnd(b) = Top(h, b)
    BY <2>6, <2>7 DEF RoomEnd, Top, L!NULL, NULL
  <2>9. b + sizeofHeader <= p
    BY <2>3, <2>5, <2>6, Numbers
  <2> QED BY <2>2, <2>3, <2>4, <2>5, <2>6, <2>7, <2>8, <2>9
<1> QED BY <1>1, WordsInvariant, PTL

(* A thread may go on running on the stack that RemoveThread freed under   *)
(* it, and the next free of it is refused, until the next malloc           *)
(* (heap.cpp free; thread.cpp RemoveThread).                               *)
THEOREM FreedStackStaysUsable == Spec => FreedStackUsable
BY WordsFreeKeepsPayload, WordsFreedStaysFree, PTL DEF FreedStackUsable
=============================================================================
