-------------------------------- MODULE MCBoot --------------------------------
(***************************************************************************)
(* Boot for TLC: frames of 4 bytes, bytes of 2 bits, four frames below the *)
(* kernel.  The machines have too few frames, an image that the first      *)
(* reservation does not cover, or plenty; beside them one machine without  *)
(* a module, where the words at mods_addr are arbitrary.                   *)
(***************************************************************************)
EXTENDS Boot, MCPhysMem

CONSTANT JunkWords

JunkBoots ==
  { [memUpper |-> upper, mmap |-> Map(LowMem, upper, 0), mods_count |-> 0,
     initrd |-> [base |-> base, end |-> end]] :
    upper \in Uppers, base \in JunkWords, end \in JunkWords }

AllBoots == MCBoots \cup JunkBoots
=============================================================================
