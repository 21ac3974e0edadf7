------------------------------- MODULE MCArms -------------------------------
(***************************************************************************)
(* Small instances of Arms for TLC.                                        *)
(***************************************************************************)
EXTENDS Arms

MCPages == [fa1 |-> 1 .. 3, lru |-> 1 .. 3, k5 |-> 1 .. 5]
MCHotSlots == [lru |-> 2, k5 |-> 3]
MCSteps == [fa1 |-> 2, lru |-> 3]
MCWrites == {{}, {2}}
MCPicks == [fa1 |-> {{2}, {1, 2, 3}}, lru |-> {{1}, {3}, {1, 2}}]

\* One instance per renaming of blocks and turn of the ring: slot s holds block
\* s + 1, the hand starts at slot 0, every block that has no slot is missed,
\* and at most one slot is empty.
\* Of the tagged fetch-all only the deep join: joining every layer allows less.
Canonical ==
  /\ arm = "fa1" => deep \/ tells = "epoch"
  /\ arm = "k5" => /\ hand = 0 /\ misses = Pages["k5"] \ 1 .. HotSlots["k5"]
                   /\ \A h \in K5!Slots : s2p[h] \in {K5!Absent, h + 1}
                   /\ \A h \in K5!Slots : owner[h] # 0 => s2p[h] # K5!Absent
                   /\ \E e \in K5!Slots : \A h \in K5!Slots \ {e} : s2p[h] # K5!Absent

MCInit == Init /\ Canonical
MCSpec == MCInit /\ [][Next]_vars /\ Fairness
=============================================================================
