--------------------------- MODULE PageSelection ----------------------------
(***************************************************************************)
(* What a decode step is promised by its page selection: it asks with its  *)
(* page parameters and scores and is answered once, with the table of      *)
(* their exact top-b.                                                      *)
(***************************************************************************)
EXTENDS TopB

VARIABLES
  ask,       \* the step's page parameters and per-head scores
  answer     \* the page table and its count in a tuple, or Pending

Pending == <<>>

Right == <<Table(Kept(Scores(ask.raw, ask.n, ask.combine), ask.n, ask.b))>>

Init == answer = Pending

Ask == answer' = Pending

Answer ==
  /\ answer = Pending /\ UNCHANGED ask
  /\ answer' = Right

Next == Ask \/ Answer

Spec == Init /\ [][Next]_<<ask, answer>>
=============================================================================
