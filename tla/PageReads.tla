----------------------------- MODULE PageReads -----------------------------
(***************************************************************************)
(* What every arm of the tiered decode promises, whatever it caches and    *)
(* whenever its copies land: the programs of a layer that read a selected  *)
(* page get the bytes that page holds in this step.  A rewrite of a page   *)
(* starts a new step and forgets what the previous one served.             *)
(***************************************************************************)
EXTENDS Naturals

CONSTANTS
  Layers,   \* the layers of a decode step
  Blocks    \* the physical blocks, one page of V each

VARIABLES
  ver,      \* ver[b]: how often block b has been rewritten
  served    \* what the decode kernels of this step read: <<layer, block, version>>

Init ==
  /\ ver = [b \in Blocks |-> 0]
  /\ served = {}

NewStep ==
  /\ ver' \in [Blocks -> Nat]
  /\ \A b \in Blocks : ver'[b] \in {ver[b], ver[b] + 1}
  /\ served' = {}

Serve ==
  /\ served \subseteq served'
  /\ \A read \in served' \ served :
       \E l \in Layers, b \in Blocks : read = <<l, b, ver[b]>>
  /\ UNCHANGED ver

Next == NewStep \/ Serve

Spec == Init /\ [][Next]_<<ver, served>>
=============================================================================
