-------------------------------- MODULE Queue ---------------------------------
(***************************************************************************)
(* The doubly linked list of src/libc/queue.h that holds the scheduler's   *)
(* threads.  Nodes come from new and go back with delete, so an address    *)
(* can be reused; node is defined exactly on the nodes that are allocated. *)
(*                                                                         *)
(* An operation is one step, since the kernel calls them with interrupts   *)
(* off.  Remove(e) is one step for each turn of its loop, because the loop *)
(* changes the list it walks over.                                         *)
(***************************************************************************)
EXTENDS Naturals, Sequences

CONSTANTS
  Nodes,      \* addresses new may return
  Elements,
  Null

ASSUME QueueAssumption == Null \notin Nodes

VARIABLES
  node,       \* the allocated queue_nodes
  head_, tail_, size_,
  loop        \* Remove(e): its element and index, or no call under way

links == <<node, head_, tail_, size_>>
queueVars == <<node, head_, tail_, size_, loop>>

queue_node == [data : Elements, next : Nodes \cup {Null}, prev : Nodes \cup {Null}]

NoCall == [running |-> FALSE]

(***************************************************************************)
(* A call of Remove(e) at index i; distinct records that every element was *)
(* in the list at most once when the call began.                           *)
(***************************************************************************)
Call(e, i, distinct) ==
  [running |-> TRUE, e |-> e, i |-> i, distinct |-> distinct]

QueueInit ==
  /\ node = [n \in {} |-> Null]
  /\ head_ = Null /\ tail_ = Null
  /\ size_ = 0
  /\ loop = NoCall

-----------------------------------------------------------------------------
(***************************************************************************)
(* The walk shared by GetAt and Remove(index): index times next from head_ *)
(***************************************************************************)
NodeFrom(nodes, first, index) ==
  LET walk[i \in 0 .. index] == IF i = 0 THEN first ELSE nodes[walk[i - 1]].next
  IN walk[index]

NodeAt(index) == NodeFrom(node, head_, index)

GetAt(index) == node[NodeAt(index)].data

InsertKeepsOldPrev(e, pos, n) ==
  LET before == IF pos # Null THEN node[pos].prev ELSE tail_
      new == [data |-> e, next |-> pos, prev |-> before]
  IN /\ node' = [m \in DOMAIN node \cup {n} |->
                   IF m = n THEN new
                   ELSE [node[m] EXCEPT !.next = IF m = before THEN n ELSE @]]
     /\ tail_' = IF pos = Null THEN n ELSE tail_
     /\ head_' = IF before = Null THEN n ELSE head_
     /\ size_' = size_ + 1

InsertAfterPos(e, pos, n) ==
  LET before == IF pos # Null THEN pos ELSE tail_
      after == IF pos # Null THEN node[pos].next ELSE Null
      new == [data |-> e, next |-> after, prev |-> before]
  IN /\ node' = [m \in DOMAIN node \cup {n} |->
                   IF m = n THEN new
                   ELSE [node[m] EXCEPT !.next = IF m = before THEN n ELSE @,
                                        !.prev = IF m = after THEN n ELSE @]]
     /\ tail_' = IF after = Null THEN n ELSE tail_
     /\ head_' = IF before = Null THEN n ELSE head_
     /\ size_' = size_ + 1

(***************************************************************************)
(* insertInternal: a new node n before pos, at the end when pos is null.   *)
(***************************************************************************)
insertInternal(e, pos, n) ==
  LET before == IF pos # Null THEN node[pos].prev ELSE tail_
      new == [data |-> e, next |-> pos, prev |-> before]
  IN /\ node' = [m \in DOMAIN node \cup {n} |->
                   IF m = n THEN new
                   ELSE [data |-> node[m].data,
                         next |-> IF m = before THEN n ELSE node[m].next,
                         prev |-> IF m = pos THEN n ELSE node[m].prev]]
     /\ tail_' = IF pos = Null THEN n ELSE tail_
     /\ head_' = IF before = Null THEN n ELSE head_
     /\ size_' = size_ + 1

Insert(e, pos) ==
  /\ ~loop.running
  /\ \E n \in Nodes \ DOMAIN node : insertInternal(e, pos, n)
  /\ UNCHANGED loop

push_back(e) == Insert(e, Null)

push_front(e) == Insert(e, head_)

(***************************************************************************)
(* removeInternal: node pos is unlinked and deleted.                       *)
(***************************************************************************)
removeInternal(pos) ==
  IF pos = Null THEN UNCHANGED links
  ELSE LET p == node[pos].prev
           x == node[pos].next
       IN /\ node' = [m \in DOMAIN node \ {pos} |->
                        [data |-> node[m].data,
                         next |-> IF m = p THEN x ELSE node[m].next,
                         prev |-> IF m = x THEN p ELSE node[m].prev]]
          /\ head_' = IF pos = head_ THEN x ELSE head_
          /\ tail_' = IF pos = tail_ THEN p ELSE tail_
          /\ size_' = size_ - 1

(***************************************************************************)
(* Remove(index); one past the end is a null node and changes nothing.     *)
(***************************************************************************)
RemoveIndex(index) ==
  /\ ~loop.running
  /\ index <= size_
  /\ removeInternal(NodeAt(index))
  /\ UNCHANGED loop

(***************************************************************************)
(* Remove(e): every index below size_ is compared in turn, with size_ and  *)
(* the list as the removals so far have left them.                         *)
(***************************************************************************)
Distinct == \A i, j \in 0 .. (size_ - 1) : GetAt(i) = GetAt(j) => i = j

RemoveCall(e) ==
  /\ ~loop.running
  /\ loop' = Call(e, 0, Distinct)
  /\ UNCHANGED links

RemoveTurn ==
  /\ loop.running
  /\ loop.i < size_
  /\ IF GetAt(loop.i) = loop.e THEN removeInternal(NodeAt(loop.i)) ELSE UNCHANGED links
  /\ loop' = Call(loop.e, loop.i + 1, loop.distinct)

ReturnOneEarly ==
  /\ loop.running
  /\ loop.i + 1 >= size_
  /\ loop' = NoCall
  /\ UNCHANGED links

RemoveReturn ==
  /\ loop.running
  /\ loop.i >= size_
  /\ loop' = NoCall
  /\ UNCHANGED links

(***************************************************************************)
(* Clear deletes the nodes it reaches from head_.                          *)
(***************************************************************************)
Reachable ==
  LET from[n \in DOMAIN node \cup {Null}] ==
        IF n = Null THEN {} ELSE {n} \cup from[node[n].next]
  IN from[head_]

Clear ==
  /\ ~loop.running
  /\ node' = [n \in DOMAIN node \ Reachable |-> node[n]]
  /\ head_' = Null /\ tail_' = Null
  /\ size_' = 0
  /\ UNCHANGED loop

QueueNext ==
  \/ \E e \in Elements : push_back(e) \/ push_front(e) \/ RemoveCall(e)
  \/ \E index \in 0 .. size_ : RemoveIndex(index)
  \/ RemoveTurn \/ RemoveReturn
  \/ Clear

QueueSpec == QueueInit /\ [][QueueNext]_queueVars

-----------------------------------------------------------------------------
(***************************************************************************)
(* The list is sound after every insertion and removal: no link leads to a *)
(* deleted node, next and prev are inverse, head_ and tail_ are its ends,  *)
(* size_ counts its nodes and no allocated node has dropped out of it.     *)
(* GetAt follows next without a test and relies on all of this.            *)
(***************************************************************************)
LinksSound ==
  /\ node \in [DOMAIN node -> queue_node]
  /\ head_ = Null <=> tail_ = Null
  /\ \A n \in {head_, tail_} \ {Null} : n \in DOMAIN node
  /\ \A n \in DOMAIN node :
       /\ n = head_ <=> node[n].prev = Null
       /\ n = tail_ <=> node[n].next = Null
       /\ node[n].next # Null =>
            node[n].next \in DOMAIN node /\ node[node[n].next].prev = n
       /\ node[n].prev # Null =>
            node[n].prev \in DOMAIN node /\ node[node[n].prev].next = n
  /\ \A i \in 0 .. (size_ - 1) : NodeAt(i) \in DOMAIN node
  /\ {NodeAt(i) : i \in 0 .. (size_ - 1)} = DOMAIN node
  /\ NodeAt(size_) = Null

(***************************************************************************)
(* The elements in list order, as operator[] yields them.                  *)
(***************************************************************************)
Contents == [i \in 1 .. size_ |-> GetAt(i - 1)]

S == INSTANCE SequenceQueue WITH seq <- Contents

(***************************************************************************)
(* The linked list behaves as a sequence: push_back appends, push_front    *)
(* prepends, a removal takes out one element and keeps the order of the    *)
(* others, whatever nodes new hands out again.                             *)
(***************************************************************************)
ImplementsSequence == S!SSpec

(***************************************************************************)
(* Remove(e) leaves no e behind, although its index moves past the element *)
(* that slides into the place of a removed one: it takes a list without    *)
(* duplicates, such as the scheduler's list of threads.                    *)
(***************************************************************************)
RemoveLeavesNone ==
  [][ RemoveReturn /\ loop.distinct =>
        \A i \in 0 .. (size_ - 1) : GetAt(i) # loop.e ]_queueVars
=============================================================================
