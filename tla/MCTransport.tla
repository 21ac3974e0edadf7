---------------------------- MODULE MCTransport ----------------------------
(* Small instances of Transport for TLC. *)
EXTENDS Transport, TLC

Symmetry == Permutations(Blocks) \cup Permutations(Slots)

\* A one-request engine within one generation: no request ends, so no prefill
\* follows a decode and no list of the graph head is wiped unapplied.
OneWindow == Init /\ [][Next /\ live \subseteq live']_vars
=============================================================================
