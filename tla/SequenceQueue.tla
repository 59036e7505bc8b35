--------------------------- MODULE SequenceQueue ------------------------------
(***************************************************************************)
(* What std::queue of src/libc/queue.h promises: a sequence of elements,   *)
(* changed at either end, at one index, or emptied.                        *)
(***************************************************************************)
EXTENDS Naturals, Sequences

CONSTANT Elements

VARIABLE seq

Without(s, i) == SubSeq(s, 1, i - 1) \o SubSeq(s, i + 1, Len(s))

PushBack(e) == seq' = Append(seq, e)
PushFront(e) == seq' = <<e>> \o seq
Drop(i) == seq' = Without(seq, i)
Empty == seq' = <<>>

SInit == seq = <<>>

SNext ==
  \/ \E e \in Elements : PushBack(e) \/ PushFront(e)
  \/ \E i \in 1 .. Len(seq) : Drop(i)
  \/ Empty

SSpec == SInit /\ [][SNext]_seq
=============================================================================
