------------------------------ MODULE MCDecode ------------------------------
(***************************************************************************)
(* Small instances of Decode for TLC.                                      *)
(***************************************************************************)
EXTENDS Decode, TLC

Engine(lane, norope, fmerge, graphs) ==
  [lane |-> lane, norope |-> norope, fmerge |-> fmerge, graphs |-> graphs]

\* Engines with CUDA graphs: their decode is warmed up before they serve.
MCConfs == {Engine("co", FALSE, FALSE, TRUE), Engine("mem", FALSE, TRUE, TRUE),
            Engine("mem", TRUE, TRUE, TRUE)}
\* An engine that runs eagerly serves without a warm-up.
ColdConfs == {Engine("co", FALSE, FALSE, FALSE)}

MCDepth == [split |-> {2, 3}, fused |-> {2}]
MCGroups == [split |-> 1, fused |-> 2]
MCTeam == [split |-> 2, fused |-> 2]

Heads2 == Permutations(Heads)

\* The CTAs of the padded row touch nothing the others touch: they go first.
PaddedFirst ==
  (arm = "lane" /\ at = "decode") =>
    \/ \A u \in LN!Units, sp \in LN!Splits : u[1] = 2 => pc[u][sp] = "done"
    \/ \A u \in LN!Units : u[1] = 1 => pc'[u] = pc[u]

\* On the first layer a kv-head selects its tail page alone or its whole table;
\* on the layers after it, any table.
FirstLayer ==
  (arm = "lane" /\ at = "forward" /\ at' = "decode" /\ layer = 0) =>
    \A h \in Heads : LN!Cnt(<<1, h>>)' \in {1, LN!TailPage + 1}

MCSpec == Init /\ [][Next /\ PaddedFirst /\ FirstLayer]_vars
=============================================================================
