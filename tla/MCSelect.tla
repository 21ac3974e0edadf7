------------------------------ MODULE MCSelect ------------------------------
(***************************************************************************)
(* Small instance of Select for TLC.                                       *)
(***************************************************************************)
EXTENDS Select

Lane(l, c, v2, split, fits, tauc, fx) ==
  [lane |-> l, combine |-> c, v2 |-> v2, split |-> split, fits |-> fits,
   tauc |-> tauc, fx |-> fx]

MCConfigs == {
  Lane("hmax", "nrm", FALSE, FALSE, TRUE, TRUE, FALSE),
  Lane("hmax", "nrm", TRUE, FALSE, TRUE, TRUE, FALSE),
  Lane("hmax", "max", FALSE, FALSE, TRUE, TRUE, FALSE),
  Lane("plain", "nrm", FALSE, TRUE, TRUE, FALSE, FALSE),
  Lane("plain", "nrm", FALSE, FALSE, TRUE, TRUE, FALSE),
  Lane("fold", "nrm", FALSE, FALSE, FALSE, TRUE, TRUE)}

\* Sink 1, window 1, three selectable pages at most.
Draw(nn, bb, low, x) ==
  [n |-> nn, b |-> bb, low |-> low,
   raw |-> [p \in 0 .. PPad - 1 |-> IF p + 1 \in DOMAIN x THEN x[p + 1] ELSE 0]]

Levels == {0, 33, 36, 37}
MCDraws == <<
  {Draw(5, 2, l, <<50, 37, 37, 36>>) : l \in BOOLEAN} \cup {Draw(2, 1, TRUE, <<>>)},
  {Draw(5, bb, l, <<x[1], x[2], x[3], x[4]>>) :
     bb \in {0, 2, 9}, l \in BOOLEAN,
     x \in {y \in [1 .. 4 -> Levels] : y[1] \in {0, 37} /\ y[4] # 0}}
    \cup {Draw(k, 1, l, <<37, 36>>) : k \in {0, 2, 3}, l \in BOOLEAN}>>
=============================================================================
