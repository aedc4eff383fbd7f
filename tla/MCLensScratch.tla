--------------------------- MODULE MCLensScratch ----------------------------
(* Two calls of lens.run beside a row of an earlier daemon, for a quota of *)
(* two: one is refused as long as that row is unresolved.                  *)
EXTENDS LensScratch, TLC

Symmetry == Permutations(Scratch \ Opaque) \cup Permutations(Pgid)

=============================================================================
