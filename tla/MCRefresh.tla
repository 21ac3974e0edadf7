----------------------------- MODULE MCRefresh -----------------------------
(* Small instances of Refresh for TLC. *)
EXTENDS Refresh, TLC

Symmetry == Permutations(Requests) \cup Permutations(Blocks)

StartModes == {<<"fast", FALSE>>, <<"mem", FALSE>>, <<"fast", TRUE>>}
Default    == {<<"fast", FALSE>>}
MemOverlap == {<<"mem", TRUE>>}

\* The requests of the last gate's rows that have not left the engine since.
VARIABLE known

\* What the gate takes for granted: a batch whose lengths continue the last
\* gate's rows is made of the same requests, in whatever order.
SameRows == \A i \in DOMAIN batch : batch[i].req \in known
Gated    == PureDecode \/ (variant = "fast" /\ DecodeRows # {})

\* What the overlap covers are the chunks of prefill and mixed steps: no prompt
\* is cut to one token in a step that then passes as a decode.
Sliver == overlap /\ PureDecode /\ partial # {}

InitKnown == Init /\ known = {}
NextKnown ==
    /\ Next
    /\ known' = IF phase = "scheduled" /\ phase' = "built" /\ Gated
                THEN {batch[i].req : i \in DOMAIN batch}
                ELSE known \cap (Running' \cup {batch'[i].req : i \in DOMAIN batch'})
    /\ phase' = "scheduled" /\ phase = "idle" =>
         (Gated' /\ Steady' => SameRows') /\ ~Sliver'
SpecKnown == InitKnown /\ [][NextKnown]_<<vars, known>>

\* The engine as it is.
SpecAny == InitKnown /\ [][Next /\ UNCHANGED known]_<<vars, known>>

=============================================================================
