----------------------------- MODULE MCStaging -----------------------------
(* Model values for Staging. *)
EXTENDS Staging, TLC

Symmetry == Permutations(Requests) \cup Permutations(Blocks) \cup Permutations(VBlocks)

=============================================================================
