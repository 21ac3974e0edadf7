-------------------------------- MODULE TopB --------------------------------
(***************************************************************************)
(* What page selection promises one (request, kv-head): the sinks, the     *)
(* window, and exactly b of the pages between them, the best scored ones,  *)
(* ties going to the lower page.  A score is represented by the integer    *)
(* its bits order as.                                                      *)
(***************************************************************************)
EXTENDS Integers, FiniteSets

CONSTANTS
  Sink, Window,   \* pages always kept at either end
  Ceil,           \* the score of the best page after normalisation
  Inf,            \* the score of a page above the maximum it is given
  MP              \* entries of the page table (st.max_pages)

ASSUME TopBAssumption ==
  /\ Sink \in Nat /\ Window \in Nat /\ MP \in Nat
  /\ Ceil \in Nat /\ Inf \in Nat /\ Ceil < Inf

NoKey == -1                  \* minus infinity

-----------------------------------------------------------------------------
(* Page parameters of a request of n pages and a budget of b. *)

SelHi(n) == n - Window
NSel(n) == SelHi(n) - Sink
KeepAll(n) == NSel(n) <= 1
Selectable(n) == Sink .. SelHi(n) - 1
Budget(n, b) == IF b < 1 THEN 1 ELSE IF b > NSel(n) THEN NSel(n) ELSE b
Forced(n) == {p \in 0 .. n - 1 : p < Sink \/ p >= SelHi(n)}

\* exp(x - m), which underflows Ceil below the maximum.
Combine(x, m) ==
  IF m = NoKey THEN Inf
  ELSE IF m - x >= Ceil THEN 0
  ELSE IF x - m >= Inf - Ceil THEN Inf
  ELSE Ceil - (m - x)

Highest(x, P) ==
  IF P = {} THEN NoKey ELSE CHOOSE m \in {x[p] : p \in P} : \A p \in P : x[p] <= m

Scores(raw, n, combine) ==
  LET m == Highest(raw, 0 .. SelHi(n) - 1)
  IN  [p \in DOMAIN raw |-> IF combine = "max" THEN raw[p] ELSE Combine(raw[p], m)]

Better(s, p, q) == s[p] > s[q] \/ (s[p] = s[q] /\ p < q)
Best(s, n, b) ==
  {p \in Selectable(n) :
     Cardinality({q \in Selectable(n) : Better(s, q, p)}) < Budget(n, b)}

Kept(s, n, b) == IF KeepAll(n) THEN 0 .. n - 1 ELSE Forced(n) \cup Best(s, n, b)

\* Ascending, padded with -1.
Table(S) ==
  [table |-> [i \in 0 .. MP - 1 |->
                IF i < Cardinality(S)
                THEN CHOOSE p \in S : Cardinality({q \in S : q < p}) = i
                ELSE -1],
   cnt |-> Cardinality(S)]
=============================================================================
