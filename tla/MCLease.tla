------------------------------ MODULE MCLease ------------------------------
(* Small instances of Lease for TLC. *)
EXTENDS Lease, TLC

Symmetry == Permutations(Requests)

=============================================================================
