------------------------------- MODULE MCHeap -------------------------------
(***************************************************************************)
(* Heap for TLC, with the accounting of bytes that the list still reaches. *)
(***************************************************************************)
EXTENDS Heap, FiniteSets, FiniteSetsExt

Accounted(h) == MapThenSumSet(LAMBDA b : h[b].size + HdrSize, DOMAIN h)

(***************************************************************************)
(* InternalAllocate shrinks a block it does not split to the request and   *)
(* forgets the tail.  That loss is bounded: a malloc loses less than a     *)
(* header plus MINIMAL_SPLIT_SIZE bytes, and free never loses any.         *)
(***************************************************************************)
LeakBounded ==
  [][ /\ Accounted(hdr') <= Accounted(hdr)
      /\ Accounted(hdr) - Accounted(hdr') < HdrSize + MINIMAL_SPLIT_SIZE
      /\ stale' # {} => Accounted(hdr') = Accounted(hdr) ]_hdr
=============================================================================
