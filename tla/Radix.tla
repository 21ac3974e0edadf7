-------------------------------- MODULE Radix -------------------------------
(***************************************************************************)
(* The threshold searches of the selection kernels, over a finite map of   *)
(* keys.  A key has Digits digits in base Base (four bytes in the code);   *)
(* a search fixes the threshold's digits from the top, one histogram each, *)
(* and stops early when the boundary bin is taken whole.  Its result is a  *)
(* threshold and the number of keys equal to it that may be kept.          *)
(***************************************************************************)
EXTENDS Integers, FiniteSets, SequencesExt

CONSTANTS
  Base, Digits,   \* 256 and 4
  Fine,           \* sub-bins of a first-digit bin in the fine histogram (32)
  BallotMax       \* members one warp can resolve (V2_BALLOT_MAX)

ASSUME RadixAssumption ==
  /\ Base \in Nat \ {0} /\ Digits \in Nat \ {0}
  /\ Fine \in Nat \ {0} /\ Base % Fine = 0 /\ BallotMax \in Nat

Pow(n) == Base ^ n
Leading(x, len) == x \div Pow(Digits - len)      \* the first len digits
Digit(x, d) == Leading(x, d + 1) % Base
Size(P) == Cardinality(P)
All == 1000                                      \* every equal may stay

\* How far a search is: len digits fixed, k pages still sought in a bin of cb.
Start(b) == [prefix |-> 0, len |-> 0, k |-> b, cb |-> -1]
Members(key, P, r) == {p \in P : Leading(key[p], r.len) = r.prefix}
Hist(key, P, r) ==
  [v \in 0 .. Base - 1 |->
     Size({p \in Members(key, P, r) : Digit(key[p], r.len) = v})]

\* The bin that holds rank k counted from the top.  No bin does when the
\* histogram holds fewer than k: the kernels then go on with stale words.
Above(h, v) == FoldFunctionOnSet(+, 0, h, {w \in DOMAIN h : w > v})
Crosses(h, k, v) == Above(h, v) < k /\ k <= Above(h, v) + h[v]
Crossing(h, k) ==
  IF \E v \in DOMAIN h : Crosses(h, k, v)
  THEN LET v == CHOOSE v \in DOMAIN h : Crosses(h, k, v)
       IN  [sel |-> v, k |-> k - Above(h, v), cb |-> h[v]]
  ELSE [sel |-> 0, k |-> k, cb |-> 0]

Round(r, h) ==
  LET c == Crossing(h, r.k)
  IN  [prefix |-> r.prefix * Base + c.sel, len |-> r.len + 1, k |-> c.k, cb |-> c.cb]
Whole(r) == r.k = r.cb

\* Digits r.len + 1 .. Digits over the keys of P, stopping at a bin that is
\* taken whole or, for light, at one a warp can resolve.
Small(r) == r.cb <= BallotMax /\ r.len < Digits
Stops(r, light) == Whole(r) \/ (light /\ Small(r))
Deeper(key, P, r0, light) ==
  FoldLeft(LAMBDA r, d : IF Stops(r, light) THEN r ELSE Round(r, Hist(key, P, r)),
           r0, [i \in 1 .. Digits - r0.len |-> i])
Tau(r) == r.prefix * Pow(Digits - r.len)

Over(key, P, tau) == Size({p \in P : key[p] > tau})
Equal(key, P, tau) == {p \in P : key[p] = tau}

\* One CTA: search, then count what is over the threshold (exact-b).
Exact(key, P, b, r) == [tau |-> Tau(r), quota |-> b - Over(key, P, Tau(r))]
Search(key, P, b) == Exact(key, P, b, Deeper(key, P, Start(b), FALSE))
SearchFrom(key, P, b, h) == Exact(key, P, b, Deeper(key, P, Round(Start(b), h), FALSE))

\* The split chain: what is left of k at the last digit is the quota.
LeftAll(r) == [tau |-> Tau(r), quota |-> All]
Left(r) == [tau |-> Tau(r), quota |-> IF Whole(r) THEN All ELSE r.k]

-----------------------------------------------------------------------------
(* SELECT-V2: a fine histogram settles the threshold's top bits at once;   *)
(* a small boundary bin is resolved member by member, a large one by the   *)
(* digit rounds.                                                           *)

FineSize == Pow(Digits - 1) \div Fine       \* keys of one fine bin
FineHist(key, P, r) ==
  [v \in 0 .. Fine - 1 |->
     Size({p \in Members(key, P, r) :
             (key[p] \div FineSize) % Fine = v})]

\* The k-th largest of a boundary bin, and the equals its quota admits.
Resolve(key, M, k) ==
  LET over(v) == Over(key, M, v)
      tau == CHOOSE v \in {key[p] : p \in M} :
               over(v) < k /\ k <= over(v) + Size(Equal(key, M, v))
  IN  [tau |-> tau, quota |-> k - over(tau)]

HeavyBin(key, P, b, r0) ==
  LET r == Deeper(key, P, r0, TRUE)
  IN  IF Whole(r) THEN [tau |-> Tau(r), quota |-> All]
      ELSE IF Small(r) THEN Resolve(key, Members(key, P, r), r.k)
      ELSE Exact(key, P, b, r)

SearchV2(key, P, b) ==
  LET r == Round(Start(b), Hist(key, P, Start(b)))
      f == Crossing(FineHist(key, P, r), r.k)
      bin == r.prefix * Fine + f.sel
  IN  IF Whole(r) THEN [tau |-> Tau(r), quota |-> All]
      ELSE IF f.k = f.cb THEN [tau |-> bin * FineSize, quota |-> All]
      ELSE IF f.cb <= BallotMax
      THEN Resolve(key, {p \in P : key[p] \div FineSize = bin}, f.k)
      ELSE HeavyBin(key, P, b, r)

-----------------------------------------------------------------------------
(* Keeping: everything over the threshold, and the lowest equals.          *)

Keeps(key, P, t) ==
  {p \in P : \/ key[p] > t.tau
             \/ /\ key[p] = t.tau
                /\ Size({q \in Equal(key, P, t.tau) : q < p}) < t.quota}

\* The same as a cutoff: the page of the quota-th equal, none admitted, or
\* NoCut when there is no quota-th equal.
Cutoff(key, P, t, NoCut) ==
  IF t.quota = All THEN NoCut
  ELSE IF t.quota <= 0 THEN -1
  ELSE LET last == {p \in Equal(key, P, t.tau) :
                      Size({q \in Equal(key, P, t.tau) : q < p}) = t.quota - 1}
       IN  IF last = {} THEN NoCut ELSE CHOOSE p \in last : TRUE
=============================================================================
