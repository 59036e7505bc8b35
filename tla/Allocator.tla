------------------------------ MODULE Allocator ------------------------------
(***************************************************************************)
(* What the kernel heap promises its callers, with no headers and no list: *)
(* a grant is a span of the arena that overlaps no span still held, and it *)
(* stays the caller's until the caller releases it.  Module Heap is shown  *)
(* to implement this specification.                                        *)
(***************************************************************************)
EXTENDS Naturals

CONSTANTS ArenaStart, ArenaEnd

VARIABLES
  held,     \* pointer -> number of bytes granted at it
  stopped   \* TRUE once the allocator has panicked (it never returns)

avars == <<held, stopped>>

Overlap(p, m, q, n) == p < q + n /\ q < p + m

AInit == held = [p \in {} |-> 0] /\ stopped = FALSE

(* The caller is given held'[p] bytes at p, all inside the arena and clear *)
(* of every span that is held; no other span changes.                      *)
Grant(p) ==
  /\ ~stopped
  /\ p \notin DOMAIN held
  /\ DOMAIN held' = DOMAIN held \cup {p}
  /\ held' = [q \in DOMAIN held' |->
                IF q = p THEN held'[p] ELSE held[q]]
  /\ held'[p] \in 0 .. (ArenaEnd - p)
  /\ \A q \in DOMAIN held : ~Overlap(p, held'[p], q, held[q])
  /\ UNCHANGED stopped

Release(p) ==
  /\ ~stopped
  /\ p \in DOMAIN held
  /\ held' = [q \in DOMAIN held \ {p} |-> held[q]]
  /\ UNCHANGED stopped

Panic ==
  /\ ~stopped
  /\ stopped' = TRUE
  /\ UNCHANGED held

ANext ==
  \/ \E p \in ArenaStart .. ArenaEnd : Grant(p)
  \/ \E p \in DOMAIN held : Release(p)
  \/ Panic

ASpec == AInit /\ [][ANext]_avars
=============================================================================
