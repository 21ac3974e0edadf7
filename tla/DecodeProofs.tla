---------------------------- MODULE DecodeProofs ----------------------------
(***************************************************************************)
(* Proofs about Decode.  Arm "ring": for any depth of the ring, any number *)
(* of warps, groups and pages, and any order in which the copies land, no  *)
(* warp reads a stage that is not the page of its turn, and the combine    *)
(* sees every page once.  Arm "lane": what a layer defers does not outlive *)
(* it, a query is roped once, a launch attends every selected page once    *)
(* and whole, and it claims exactly the pages it finds absent.             *)
(***************************************************************************)
EXTENDS Decode, Sequences, FiniteSets, FiniteSetTheorems, TLAPS

-----------------------------------------------------------------------------
(* The invariant of the ring.                                              *)

G    == Groups[kern]

\* What copy group t + 1 of warp w loads.
PageOf(w, t) ==
  IF t < RG!Turns /\ RG!PageAt(w, t) < cnt THEN RG!PageAt(w, t) ELSE RG!Empty

Phases ==
  IF kern = "split"
  THEN {"prime", "primed", "wait", "sync", "qk", "load", "pv", "end"}
  ELSE {"prime", "primed", "wait", "sync", "load", "qk", "pv", "turn",
        "dump", "combine", "end"}
Reading == {"qk", "pv"}
Behind  == {"load", "qk", "pv", "turn"}    \* past the barrier of the turn
Waiting == {"primed", "sync", "turn", "combine"}

\* Barriers a turn has, barriers a warp has left, and arrived at.
PerTurn == IF kern = "split" THEN 1 ELSE 2
Passed(w) ==
  IF pc[w] \in {"prime", "primed"} THEN 0
  ELSE 1 + PerTurn * turn[w]
         + (IF pc[w] \in Behind \/ (kern = "fused" /\ pc[w] = "end") THEN 1 ELSE 0)
Arrived(w) == Passed(w) + (IF pc[w] \in Waiting THEN 1 ELSE 0)

\* Copy groups a warp has committed, and those it has waited for.
Committed(w) ==
  IF pc[w] = "prime" THEN 0
  ELSE IF pc[w] = "pv" \/ (kern = "fused" /\ pc[w] \in {"qk", "turn"})
       THEN depth + turn[w] ELSE depth + turn[w] - 1
Awaited(w) == IF pc[w] \in Behind \cup {"sync"} THEN turn[w] + 1 ELSE turn[w]

\* Pages of the stripe of w, and those it has summed.
Share(w) == (cnt - RG!GroupOf(w) + G - 1) \div G
Summed(w) ==
  LET n == IF pc[w] = "turn" THEN turn[w] + 1 ELSE turn[w]
  IN IF n < Share(w) THEN n ELSE Share(w)

Shape ==
  /\ kern \in DOMAIN Depth /\ depth \in Depth[kern] /\ cnt \in 1 .. MaxPages
  /\ turn \in [RG!Warps -> Nat] /\ pc = [w \in RG!Warps |-> pc[w]]
  /\ sent \in [RG!Warps -> Seq(Int)]
  /\ landed \in [RG!Warps -> SUBSET Nat]
  /\ ring \in [RG!Warps -> [0 .. depth - 1 -> Int]]
  /\ bars \in [RG!Warps -> Nat]
  /\ acc \in [RG!Warps -> Seq(Int)] /\ sm \in [RG!Warps -> Seq(Int)]

\* Where a warp is.
Place(w) ==
  /\ pc[w] \in Phases
  /\ pc[w] \in {"prime", "primed"} => turn[w] = 0
  /\ pc[w] \in Behind \cup {"wait", "sync"} => turn[w] < RG!Turns
  /\ pc[w] \in {"dump", "combine", "end"} => turn[w] = RG!Turns
  /\ pc[w] \in Reading => RG!Held(w)
  /\ bars[w] = Arrived(w)

\* Its copies: which groups it committed, which have landed, and what the
\* stages hold whose latest group it is.
Copies(w) ==
  /\ Len(sent[w]) = Committed(w)
  /\ \A i \in 1 .. Committed(w) : sent[w][i] = PageOf(w, i - 1)
  /\ landed[w] \subseteq 1 .. Committed(w)
  /\ \A i \in 1 .. Awaited(w) : PageOf(w, i - 1) = RG!Empty \/ i \in landed[w]
  /\ \A i \in 1 .. Committed(w) :
       i > Committed(w) - depth /\ PageOf(w, i - 1) # RG!Empty =>
         ring[w][RG!Stage(i - 1)] = IF i \in landed[w] THEN PageOf(w, i - 1) ELSE RG!Torn

\* Its sum: the first pages of its stripe, once each.
Sums(w) ==
  /\ acc[w] = [i \in 1 .. Summed(w) |-> RG!PageAt(w, i - 1)]
  /\ pc[w] \in {"combine", "end"} /\ kern = "fused" => sm[w] = acc[w]

\* No warp has left a barrier another has not arrived at.
Fenced == \A v, w \in RG!Warps : Passed(v) <= bars[w]

WarpInv(w) == Place(w) /\ Copies(w) /\ Sums(w)
RingInv == Shape /\ Fenced /\ \A w \in RG!Warps : WarpInv(w)

-----------------------------------------------------------------------------
(* Numbers: stages, turns and stripes.                                     *)

\* Two turns closer than the depth of the ring have different stages.
LEMMA StageApart ==
  ASSUME NEW d \in Nat \ {0}, NEW i \in Nat, NEW j \in Nat, i < j, j < i + d
  PROVE  i % d # j % d
<1> DEFINE a == i \div d
           b == j \div d
<1>1. a \in Nat /\ b \in Nat /\ i = d * a + (i % d) /\ j = d * b + (j % d)
  OBVIOUS
<1> HIDE DEF a, b
<1> SUFFICES ASSUME i % d = j % d PROVE FALSE
  OBVIOUS
<1>2. i % d \in Nat
  OBVIOUS
<1>3. j - i = d * b - d * a
  BY <1>1, <1>2
<1>4. d * b - d * a = d * (b - a)
  BY <1>1
<1>5. CASE b <= a
  <2>1. d * (b - a) <= 0
    BY <1>1, <1>5
  <2> QED BY <1>3, <1>4, <2>1
<1>6. CASE b > a
  <2>1. b - a \in Nat /\ b - a >= 1
    BY <1>1, <1>6
  <2>2. d * (b - a) >= d
    BY <2>1
  <2> QED BY <1>3, <1>4, <2>2
<1> QED BY <1>1, <1>5, <1>6

\* The turns at which a group of warps has a page.
LEMMA TurnsOf ==
  ASSUME NEW g \in Nat \ {0}, NEW c \in Nat, NEW k \in 0 .. g - 1, NEW t \in Nat
  PROVE  /\ (c - k + g - 1) \div g \in Nat
         /\ (c + g - 1) \div g \in Nat
         /\ (c - k + g - 1) \div g <= (c + g - 1) \div g
         /\ t * g + k < c <=> t < (c - k + g - 1) \div g
<1> DEFINE x == c - k + g - 1
           y == c + g - 1
           a == x \div g
           b == y \div g
<1>1. x \in Nat /\ y \in Nat /\ x <= y
  OBVIOUS
<1> HIDE DEF x, y
<1>2. /\ a \in Nat /\ b \in Nat
      /\ x = g * a + (x % g) /\ x % g \in Nat /\ x % g < g
      /\ y = g * b + (y % g) /\ y % g \in Nat /\ y % g < g
  BY <1>1
<1> HIDE DEF a, b
<1>3. a <= b
  <2> SUFFICES ASSUME a >= b + 1 PROVE FALSE
    BY <1>2
  <2>1. g * a >= g * (b + 1)
    BY <1>2
  <2>2. g * (b + 1) = g * b + g
    BY <1>2
  <2> QED BY <1>1, <1>2, <2>1, <2>2
<1>4. t * g + k < c <=> (t + 1) * g <= x
  <2>1. (t + 1) * g = t * g + g /\ t * g \in Nat
    OBVIOUS
  <2> QED BY <2>1 DEF x
<1>5. (t + 1) * g <= x <=> t < a
  <2>1. CASE t + 1 <= a
    <3>1. (t + 1) * g <= a * g
      BY <1>2, <2>1
    <3>2. a * g = g * a
      BY <1>2
    <3>3. (t + 1) * g \in Nat /\ a * g \in Nat
      BY <1>2
    <3> QED BY <1>1, <1>2, <2>1, <3>1, <3>2, <3>3
  <2>2. CASE t + 1 >= a + 1
    <3>1. (t + 1) * g >= (a + 1) * g
      BY <1>2, <2>2
    <3>2. (a + 1) * g = g * a + g
      BY <1>2
    <3>3. (t + 1) * g \in Nat /\ g * a \in Nat
      BY <1>2
    <3> QED BY <1>1, <1>2, <2>2, <3>1, <3>2, <3>3
  <2> QED BY <1>2, <2>1, <2>2
<1> QED BY <1>2, <1>3, <1>4, <1>5 DEF x, y, a, b

\* The constants of the kernel that runs.
LEMMA Built ==
  ASSUME Shape
  PROVE  /\ kern \in {"split", "fused"} /\ depth \in Nat /\ depth >= 2
         /\ cnt \in Nat /\ cnt >= 1
         /\ G \in Nat \ {0} /\ Team[kern] \in Nat \ {0}
         /\ kern = "split" => G = 1
BY RingAssumption DEF Shape, G, RG!RingConstants

\* The group of a warp, the pages of its turns, and its share of them.
LEMMA Striped ==
  ASSUME Shape, NEW w \in RG!Warps
  PROVE  /\ w \in Nat /\ RG!GroupOf(w) \in 0 .. G - 1
         /\ RG!Turns \in Nat /\ RG!Turns >= 1
         /\ kern = "split" => RG!Turns = cnt /\ Share(w) = cnt
         /\ Share(w) \in Nat /\ Share(w) <= RG!Turns
         /\ \A t \in Nat : /\ RG!PageAt(w, t) \in Nat
                           /\ RG!PageAt(w, t) < cnt <=> t < Share(w)
<1>1. /\ cnt \in Nat /\ cnt >= 1 /\ G \in Nat \ {0} /\ Team[kern] \in Nat \ {0}
      /\ kern = "split" => G = 1
  BY Built
<1> DEFINE T == Team[kern]
           k == w \div T
<1>2. w \in Nat /\ w < G * T
  <2>1. w \in 0 .. G * T - 1 /\ G * T \in Nat
    BY <1>1 DEF RG!Warps, G
  <2> QED BY <2>1
<1>3. k \in Nat /\ k < G
  <2>1. T \in Nat \ {0}
    BY <1>1
  <2> HIDE DEF T
  <2>2. k \in Nat /\ w = T * k + (w % T) /\ w % T \in Nat
    BY <1>2, <2>1
  <2> HIDE DEF k
  <2>3. ASSUME k >= G PROVE FALSE
    <3>1. T * k >= T * G
      BY <1>1, <2>1, <2>2, <2>3
    <3>2. T * G = G * T /\ T * k \in Nat /\ G * T \in Nat
      BY <1>1, <2>1, <2>2
    <3> QED BY <1>2, <2>2, <3>1, <3>2
  <2> QED BY <1>1, <2>2, <2>3
<1>4. RG!GroupOf(w) = k
  BY DEF RG!GroupOf
<1> HIDE DEF k, T
<1>5. Share(w) = (cnt - k + G - 1) \div G /\ RG!Turns = (cnt + G - 1) \div G
  BY <1>4 DEF Share, RG!Turns, G
<1>6. k \in 0 .. G - 1
  BY <1>1, <1>3
<1>7. ASSUME NEW t \in Nat
      PROVE  /\ Share(w) \in Nat /\ RG!Turns \in Nat /\ Share(w) <= RG!Turns
             /\ t * G + k < cnt <=> t < Share(w)
  <2>1. /\ (cnt - k + G - 1) \div G \in Nat /\ (cnt + G - 1) \div G \in Nat
        /\ (cnt - k + G - 1) \div G <= (cnt + G - 1) \div G
        /\ t * G + k < cnt <=> t < (cnt - k + G - 1) \div G
    BY <1>1, <1>6, TurnsOf
  <2> QED BY <1>5, <2>1
<1>8. \A t \in Nat : RG!PageAt(w, t) = t * G + k /\ t * G + k \in Nat
  BY <1>1, <1>3, <1>4 DEF RG!PageAt, G
<1>9. Share(w) \in Nat /\ RG!Turns \in Nat /\ Share(w) <= RG!Turns
  BY <1>7
<1>10. RG!Turns >= 1
  <2>1. 0 * G + 0 < cnt /\ 0 \in 0 .. G - 1 /\ 0 \in Nat
    BY <1>1
  <2>2. cnt - 0 + G - 1 = cnt + G - 1
    BY <1>1
  <2>3. 0 < (cnt - 0 + G - 1) \div G
    BY <1>1, <2>1, TurnsOf, Zenon
  <2> QED BY <1>5, <1>9, <2>2, <2>3
<1>11. ASSUME kern = "split" PROVE RG!Turns = cnt /\ Share(w) = cnt
  <2>1. G = 1 /\ k = 0
    BY <1>1, <1>3, <1>11
  <2> QED BY <1>1, <1>5, <2>1
<1> QED BY <1>2, <1>4, <1>6, <1>7, <1>8, <1>9, <1>10, <1>11

\* A copy group is empty where the stripe has no page.
LEMMA GroupPage ==
  ASSUME Shape, NEW w \in RG!Warps, NEW t \in Nat
  PROVE  /\ PageOf(w, t) \in Int
         /\ t < Share(w) => PageOf(w, t) = RG!PageAt(w, t) /\ PageOf(w, t) \in Nat
         /\ ~(t < Share(w)) => PageOf(w, t) = RG!Empty
         /\ RG!Empty = -1 /\ RG!Torn = -2
<1>1. /\ RG!PageAt(w, t) \in Nat /\ (RG!PageAt(w, t) < cnt <=> t < Share(w))
      /\ Share(w) \in Nat /\ RG!Turns \in Nat /\ Share(w) <= RG!Turns
  BY Striped
<1>2. RG!Empty = -1 /\ RG!Torn = -2
  BY DEF RG!Empty, RG!Torn
<1> QED BY <1>1, <1>2 DEF PageOf

\* Warps of one group share their pages.
LEMMA SamePages ==
  ASSUME NEW v, NEW w, RG!GroupOf(v) = RG!GroupOf(w), NEW t
  PROVE  RG!PageAt(v, t) = RG!PageAt(w, t) /\ Share(v) = Share(w)
BY DEF RG!PageAt, Share
-----------------------------------------------------------------------------
(* What a step of one warp leaves to the others.                           *)

Fixed   == kern' = kern /\ depth' = depth /\ cnt' = cnt
Same(v) == /\ pc'[v] = pc[v] /\ turn'[v] = turn[v] /\ bars'[v] = bars[v]
           /\ sent'[v] = sent[v] /\ landed'[v] = landed[v] /\ ring'[v] = ring[v]
           /\ acc'[v] = acc[v] /\ sm'[v] = sm[v]

LEMMA FixedFacts ==
  ASSUME Fixed
  PROVE  /\ RG!Warps' = RG!Warps /\ RG!Turns' = RG!Turns /\ G' = G
         /\ Phases' = Phases /\ PerTurn' = PerTurn
         /\ \A v : RG!GroupOf(v)' = RG!GroupOf(v) /\ Share(v)' = Share(v)
         /\ \A v, t : RG!PageAt(v, t)' = RG!PageAt(v, t) /\ PageOf(v, t)' = PageOf(v, t)
         /\ \A t : RG!Stage(t)' = RG!Stage(t)
BY DEF Fixed, RG!Warps, RG!Turns, G, Phases, PerTurn, RG!GroupOf, Share,
       RG!PageAt, PageOf, RG!Stage, RG!Empty

LEMMA OtherKept ==
  ASSUME Fixed, NEW v, Same(v), WarpInv(v)
  PROVE  WarpInv(v)' /\ Passed(v)' = Passed(v)
<1>1. Passed(v)' = Passed(v) /\ Arrived(v)' = Arrived(v)
  BY FixedFacts DEF Fixed, Same, Passed, Arrived
<1>2. /\ Committed(v)' = Committed(v) /\ Awaited(v)' = Awaited(v)
      /\ Summed(v)' = Summed(v) /\ RG!Held(v)' = RG!Held(v)
  BY FixedFacts DEF Fixed, Same, Committed, Awaited, Summed, RG!Held
<1>3. Place(v)'
  BY <1>1, <1>2, FixedFacts DEF WarpInv, Place, Same
<1>4. Copies(v)'
  BY <1>2, FixedFacts DEF WarpInv, Copies, Same, Fixed, RG!Torn, RG!Empty
<1>5. Sums(v)'
  BY <1>2, FixedFacts DEF WarpInv, Sums, Same, Fixed
<1> QED BY <1>1, <1>3, <1>4, <1>5 DEF WarpInv

\* How many barriers a warp has left is a number.
LEMMA PassedNat ==
  ASSUME Shape, NEW w \in RG!Warps
  PROVE  Passed(w) \in Nat /\ Arrived(w) \in Nat /\ turn[w] \in Nat
         /\ PerTurn \in {1, 2} /\ PerTurn * turn[w] \in Nat
<1>1. turn[w] \in Nat /\ PerTurn \in {1, 2}
  BY DEF Shape, PerTurn
<1>2. PerTurn * turn[w] \in Nat
  BY <1>1
<1> QED BY <1>1, <1>2 DEF Passed, Arrived

\* A step of one warp keeps the invariant if it keeps the warp's own part, takes
\* back no arrival, and leaves no barrier another has not arrived at.
LEMMA OneWarp ==
  ASSUME RingInv, NEW w \in RG!Warps, Fixed, Shape',
         \A v \in RG!Warps \ {w} : Same(v),
         WarpInv(w)', bars[w] <= bars'[w],
         Passed(w)' = Passed(w) \/ \A v \in RG!Warps : Passed(w)' <= bars[v]
  PROVE  RingInv'
<1>1. RG!Warps' = RG!Warps
  BY FixedFacts
<1>2. \A v \in RG!Warps \ {w} : WarpInv(v)' /\ Passed(v)' = Passed(v)
  BY OtherKept DEF RingInv
<1>3. \A v \in RG!Warps : bars[v] \in Nat /\ bars'[v] \in Nat /\ bars[v] <= bars'[v]
  <2> TAKE v \in RG!Warps
  <2>1. bars[v] \in Nat /\ bars'[v] \in Nat
    BY <1>1 DEF RingInv, Shape
  <2>2. v = w \/ bars'[v] = bars[v]
    BY DEF Same
  <2> QED BY <2>1, <2>2
<1>4. \A v \in RG!Warps : Passed(v) \in Nat
  BY PassedNat DEF RingInv
<1>5. ASSUME NEW v \in RG!Warps PROVE Passed(w)' <= bars[v] /\ Passed(w)' \in Int
  <2>1. Passed(w) <= bars[v]
    BY DEF RingInv, Fenced
  <2>2. Passed(w)' \in Nat
    <3>1. turn'[w] \in Nat /\ PerTurn' \in {1, 2}
      BY <1>1 DEF Shape, PerTurn
    <3>2. PerTurn' * turn'[w] \in Nat
      BY <3>1
    <3> QED BY <3>1, <3>2 DEF Passed
  <2> QED BY <2>1, <2>2
<1>6. \A u, v \in RG!Warps : Passed(u)' <= bars'[v]
  <2> TAKE u, v \in RG!Warps
  <2>1. Passed(u)' \in Int /\ Passed(u)' <= bars[v]
    BY <1>2, <1>4, <1>5 DEF RingInv, Fenced
  <2> QED BY <1>3, <2>1
<1> QED BY <1>1, <1>2, <1>6 DEF RingInv, Fenced

\* The copies of a warp that loads nothing and waits for nothing new.
LEMMA CopiesKept ==
  ASSUME Fixed, NEW w, Copies(w),
         sent'[w] = sent[w], landed'[w] = landed[w], ring'[w] = ring[w],
         Committed(w)' = Committed(w), Awaited(w)' = Awaited(w)
  PROVE  Copies(w)'
BY FixedFacts DEF Copies, Fixed, RG!Torn, RG!Empty

\* The sum of a warp that adds nothing and dumps nothing.
LEMMA SumsKept ==
  ASSUME Fixed, NEW w, Sums(w), acc'[w] = acc[w], sm'[w] = sm[w],
         Summed(w)' = Summed(w),
         kern = "fused" /\ pc'[w] \in {"combine", "end"} => pc[w] \in {"combine", "end"}
  PROVE  Sums(w)'
BY FixedFacts DEF Sums, Fixed

\* A warp that moves from one point of its program to another.
LEMMA Moves ==
  ASSUME Shape, NEW w \in RG!Warps, NEW here, NEW next,
         RG!At(w, here, next)
  PROVE  /\ pc[w] = here /\ pc'[w] = next
         /\ \A v \in RG!Warps \ {w} : pc'[v] = pc[v]
         /\ pc' = [v \in RG!Warps |-> pc'[v]]
BY DEF RG!At, Shape

LEMMA Arrives ==
  ASSUME Shape, NEW w \in RG!Warps, RG!Arrive(w)
  PROVE  /\ bars'[w] = bars[w] + 1
         /\ \A v \in RG!Warps \ {w} : bars'[v] = bars[v]
         /\ bars' \in [RG!Warps -> Nat]
BY DEF RG!Arrive, Shape
-----------------------------------------------------------------------------
(* Copies: a load, a group that lands, and what a warp then reads.         *)

LEMMA Joined ==
  ASSUME NEW a \in Seq(Int), NEW b \in Seq(Int)
  PROVE  /\ a \o b \in Seq(Int) /\ Len(a \o b) = Len(a) + Len(b)
         /\ \A i \in 1 .. Len(a) : (a \o b)[i] = a[i]
         /\ \A i \in 1 .. Len(b) : (a \o b)[Len(a) + i] = b[i]
<1>1. Len(a) \in Nat /\ Len(b) \in Nat
  OBVIOUS
<1>2. \A i \in 1 .. Len(b) : Len(a) + i \in 1 .. Len(a) + Len(b) /\ ~(Len(a) + i <= Len(a))
  BY <1>1
<1>3. \A i \in 1 .. Len(b) : (a \o b)[Len(a) + i] = b[i]
  BY <1>1, <1>2
<1> QED BY <1>1, <1>3

\* What a load appends to the groups of its warp and does to its stages.
LEMMA Loads ==
  ASSUME Shape, NEW w \in RG!Warps, NEW turns \in Seq(Nat), RG!Load(w, turns)
  PROVE  /\ sent' \in [RG!Warps -> Seq(Int)]
         /\ ring' \in [RG!Warps -> [0 .. depth - 1 -> Int]]
         /\ \A v \in RG!Warps \ {w} : sent'[v] = sent[v] /\ ring'[v] = ring[v]
         /\ Len(sent'[w]) = Len(sent[w]) + Len(turns)
         /\ \A i \in 1 .. Len(sent[w]) : sent'[w][i] = sent[w][i]
         /\ \A i \in 1 .. Len(turns) : sent'[w][Len(sent[w]) + i] = PageOf(w, turns[i])
         /\ \A s \in 0 .. depth - 1 : ring'[w][s] =
              IF \E i \in 1 .. Len(turns) : /\ RG!Stage(turns[i]) = s
                                           /\ PageOf(w, turns[i]) # RG!Empty
              THEN RG!Torn ELSE ring[w][s]
<1> DEFINE new == [i \in 1 .. Len(turns) |-> PageOf(w, turns[i])]
           hit(s) == \E i \in 1 .. Len(turns) : /\ RG!Stage(turns[i]) = s
                                               /\ PageOf(w, turns[i]) # RG!Empty
<1>1. /\ sent' = [sent EXCEPT ![w] = @ \o new]
      /\ ring' = [ring EXCEPT ![w] = [s \in DOMAIN @ |-> IF hit(s) THEN RG!Torn ELSE @[s]]]
  BY DEF RG!Load, PageOf
<1>2. new \in Seq(Int) /\ Len(new) = Len(turns)
      /\ \A i \in 1 .. Len(turns) : new[i] = PageOf(w, turns[i])
  <2>1. \A i \in 1 .. Len(turns) : turns[i] \in Nat
    OBVIOUS
  <2>2. \A i \in 1 .. Len(turns) : PageOf(w, turns[i]) \in Int
    BY <2>1, GroupPage
  <2> QED BY <2>2
<1>3. sent[w] \in Seq(Int) /\ sent \in [RG!Warps -> Seq(Int)]
      /\ ring \in [RG!Warps -> [0 .. depth - 1 -> Int]] /\ RG!Torn \in Int
  BY DEF Shape, RG!Torn
<1> HIDE DEF new, hit
<1>4. /\ sent[w] \o new \in Seq(Int)
      /\ Len(sent[w] \o new) = Len(sent[w]) + Len(new)
      /\ \A i \in 1 .. Len(sent[w]) : (sent[w] \o new)[i] = sent[w][i]
      /\ \A i \in 1 .. Len(new) : (sent[w] \o new)[Len(sent[w]) + i] = new[i]
  BY <1>2, <1>3, Joined
<1>5. sent'[w] = sent[w] \o new /\ sent' \in [RG!Warps -> Seq(Int)]
      /\ \A v \in RG!Warps \ {w} : sent'[v] = sent[v]
  BY <1>1, <1>3, <1>4
<1>6. /\ ring' \in [RG!Warps -> [0 .. depth - 1 -> Int]]
      /\ \A v \in RG!Warps \ {w} : ring'[v] = ring[v]
      /\ \A s \in 0 .. depth - 1 : ring'[w][s] = IF hit(s) THEN RG!Torn ELSE ring[w][s]
  BY <1>1, <1>3
<1> QED BY <1>2, <1>4, <1>5, <1>6 DEF hit

\* Prefetch of one turn: its stage was last the stage of a group that landed.
LEMMA CopiesLoad ==
  ASSUME Shape, Fixed, NEW w \in RG!Warps, Copies(w), landed'[w] = landed[w],
         RG!Load(w, <<turn[w] + depth - 1>>),
         Committed(w) = turn[w] + depth - 1, Committed(w)' = turn[w] + depth,
         Awaited(w)' = Awaited(w)
  PROVE  Copies(w)'
<1> DEFINE n == turn[w] + depth - 1
           turns == <<n>>
<1>1. n \in Nat /\ n + 1 = turn[w] + depth /\ depth \in Nat /\ depth >= 2
      /\ Committed(w) = n /\ Committed(w)' = n + 1 /\ n - depth + 1 = turn[w]
  <2>1. turn[w] \in Nat
    BY DEF Shape
  <2>2. depth \in Nat /\ depth >= 2
    BY Built
  <2> QED BY <2>1, <2>2
<1>2. turns \in Seq(Nat) /\ Len(turns) = 1 /\ turns[1] = n
  BY <1>1
<1>3. /\ Len(sent'[w]) = Len(sent[w]) + 1
      /\ \A i \in 1 .. Len(sent[w]) : sent'[w][i] = sent[w][i]
      /\ sent'[w][Len(sent[w]) + 1] = PageOf(w, n)
      /\ \A s \in 0 .. depth - 1 : ring'[w][s] =
           IF RG!Stage(n) = s /\ PageOf(w, n) # RG!Empty THEN RG!Torn ELSE ring[w][s]
  <2> HIDE DEF n
  <2>1. RG!Load(w, turns) /\ Len(turns) \in Nat
    BY <1>2 DEF n
  <2> HIDE DEF turns
  <2>2. /\ Len(sent'[w]) = Len(sent[w]) + Len(turns)
        /\ \A i \in 1 .. Len(sent[w]) : sent'[w][i] = sent[w][i]
        /\ \A i \in 1 .. Len(turns) : sent'[w][Len(sent[w]) + i] = PageOf(w, turns[i])
        /\ \A s \in 0 .. depth - 1 : ring'[w][s] =
             IF \E i \in 1 .. Len(turns) : /\ RG!Stage(turns[i]) = s
                                          /\ PageOf(w, turns[i]) # RG!Empty
             THEN RG!Torn ELSE ring[w][s]
    BY <1>2, <2>1, Loads
  <2>3. \A i \in 1 .. Len(turns) : i = 1
    BY <1>2
  <2>4. 1 \in 1 .. Len(turns)
    BY <1>2
  <2>5. sent'[w][Len(sent[w]) + 1] = PageOf(w, n)
    BY <1>2, <2>2, <2>4
  <2>6. \A s : (\E i \in 1 .. Len(turns) : /\ RG!Stage(turns[i]) = s
                                           /\ PageOf(w, turns[i]) # RG!Empty)
               <=> RG!Stage(n) = s /\ PageOf(w, n) # RG!Empty
    BY <1>2, <2>3, <2>4
  <2> QED BY <1>2, <2>2, <2>5, <2>6
<1> HIDE DEF n, turns
<1>4. /\ Len(sent[w]) = n
      /\ \A i \in 1 .. n : sent[w][i] = PageOf(w, i - 1)
      /\ landed[w] \subseteq 1 .. n
      /\ \A i \in 1 .. Awaited(w) : PageOf(w, i - 1) = RG!Empty \/ i \in landed[w]
      /\ \A i \in 1 .. n : i > n - depth /\ PageOf(w, i - 1) # RG!Empty =>
           ring[w][RG!Stage(i - 1)] = IF i \in landed[w] THEN PageOf(w, i - 1) ELSE RG!Torn
  BY <1>1 DEF Copies
<1>5. \A i \in 1 .. n + 1 : sent'[w][i] = PageOf(w, i - 1)
  <2> TAKE i \in 1 .. n + 1
  <2>1. CASE i \in 1 .. n
    BY <1>3, <1>4, <2>1
  <2>2. CASE i = n + 1
    BY <1>1, <1>3, <1>4, <2>2
  <2> QED BY <1>1, <2>1, <2>2
<1>6. ASSUME NEW i \in 1 .. n + 1, i > n + 1 - depth, PageOf(w, i - 1) # RG!Empty
      PROVE  ring'[w][RG!Stage(i - 1)] =
               IF i \in landed[w] THEN PageOf(w, i - 1) ELSE RG!Torn
  <2>1. i - 1 \in Nat /\ RG!Stage(i - 1) \in 0 .. depth - 1
    BY <1>1, <1>6 DEF RG!Stage
  <2>2. CASE i = n + 1
    <3>1. i \notin landed[w] /\ i - 1 = n
      BY <1>1, <1>4, <2>2
    <3> QED BY <1>3, <1>6, <2>1, <3>1
  <2>3. CASE i # n + 1
    <3>1. i \in 1 .. n /\ i > n - depth /\ i - 1 < n /\ n < (i - 1) + depth
      BY <1>1, <1>6, <2>3
    <3>2. RG!Stage(i - 1) # RG!Stage(n)
      BY <1>1, <2>1, <3>1, StageApart DEF RG!Stage
    <3> QED BY <1>3, <1>4, <1>6, <2>1, <3>1, <3>2
  <2> QED BY <2>2, <2>3
<1>7. landed'[w] \subseteq 1 .. n + 1
  BY <1>1, <1>4
<1>8. Len(sent'[w]) = n + 1 /\ RG!Torn' = RG!Torn /\ RG!Empty' = RG!Empty /\ depth' = depth
  BY <1>3, <1>4 DEF RG!Torn, RG!Empty, Fixed
<1>9. \A i \in 1 .. Awaited(w)' : PageOf(w, i - 1)' = RG!Empty' \/ i \in landed'[w]
  BY <1>4, <1>8, FixedFacts
<1>10. \A i \in 1 .. Committed(w)' :
         i > Committed(w)' - depth' /\ PageOf(w, i - 1)' # RG!Empty' =>
           ring'[w][RG!Stage(i - 1)'] =
             IF i \in landed'[w] THEN PageOf(w, i - 1)' ELSE RG!Torn'
  BY <1>1, <1>6, <1>8, FixedFacts
<1>11. \A i \in 1 .. Committed(w)' : sent'[w][i] = PageOf(w, i - 1)'
  BY <1>1, <1>5, FixedFacts
<1> QED BY <1>1, <1>7, <1>8, <1>9, <1>10, <1>11 DEF Copies
\* The first loads: a stage each, all of them different.
LEMMA CopiesPrime ==
  ASSUME Shape, Fixed, NEW w \in RG!Warps, Copies(w), landed'[w] = landed[w],
         RG!Load(w, [i \in 1 .. depth - 1 |-> i - 1]),
         Committed(w) = 0, Committed(w)' = depth - 1, Awaited(w)' = 0
  PROVE  Copies(w)'
<1> DEFINE n == depth - 1
           turns == [i \in 1 .. n |-> i - 1]
<1>1. n \in Nat /\ depth \in Nat /\ depth = n + 1 /\ n >= 1
  BY Built
<1>2. turns \in Seq(Nat) /\ Len(turns) = n /\ \A i \in 1 .. n : turns[i] = i - 1
  BY <1>1
<1>3. RG!Load(w, turns)
  OBVIOUS
<1> HIDE DEF turns
<1>4. Len(sent[w]) = 0 /\ landed[w] = {}
  BY DEF Copies
<1>5. /\ Len(sent'[w]) = n
      /\ \A i \in 1 .. n : sent'[w][i] = PageOf(w, i - 1)
      /\ \A s \in 0 .. n : ring'[w][s] =
           IF \E i \in 1 .. n : RG!Stage(turns[i]) = s /\ PageOf(w, turns[i]) # RG!Empty
           THEN RG!Torn ELSE ring[w][s]
  <2> HIDE DEF n
  <2>1. /\ Len(sent'[w]) = Len(sent[w]) + Len(turns)
        /\ \A i \in 1 .. Len(turns) : sent'[w][Len(sent[w]) + i] = PageOf(w, turns[i])
        /\ \A s \in 0 .. depth - 1 : ring'[w][s] =
             IF \E i \in 1 .. Len(turns) : /\ RG!Stage(turns[i]) = s
                                          /\ PageOf(w, turns[i]) # RG!Empty
             THEN RG!Torn ELSE ring[w][s]
    BY <1>2, <1>3, Loads
  <2>2. depth - 1 = n /\ \A i \in 1 .. n : 0 + i = i
    BY <1>1
  <2>3. Len(sent'[w]) = n
    BY <1>1, <1>2, <1>4, <2>1
  <2>4. \A i \in 1 .. n : sent'[w][i] = PageOf(w, i - 1)
    BY <1>2, <1>4, <2>1, <2>2
  <2> QED BY <1>2, <2>1, <2>2, <2>3, <2>4
<1>6. ASSUME NEW i \in 1 .. n, PageOf(w, i - 1) # RG!Empty
      PROVE  ring'[w][RG!Stage(i - 1)] = RG!Torn
  <2>1. RG!Stage(i - 1) \in 0 .. n
    BY <1>1 DEF RG!Stage
  <2>2. turns[i] = i - 1
    BY <1>2
  <2> QED BY <1>5, <1>6, <2>1, <2>2
<1> HIDE DEF n
<1>7. depth' = depth /\ RG!Torn' = RG!Torn /\ RG!Empty' = RG!Empty
      /\ Committed(w)' = n /\ landed'[w] = {}
  BY <1>4 DEF Fixed, RG!Torn, RG!Empty, n
<1>8. \A i \in 1 .. Committed(w)' :
        PageOf(w, i - 1)' # RG!Empty' =>
          ring'[w][RG!Stage(i - 1)'] =
            IF i \in landed'[w] THEN PageOf(w, i - 1)' ELSE RG!Torn'
  BY <1>6, <1>7, FixedFacts
<1>9. \A i \in 1 .. Committed(w)' : sent'[w][i] = PageOf(w, i - 1)'
  BY <1>5, <1>7, FixedFacts
<1>10. \A i \in 1 .. Awaited(w)' : FALSE
  OBVIOUS
<1> QED BY <1>5, <1>7, <1>8, <1>9, <1>10 DEF Copies

\* How far the groups of a warp are ahead of those it has waited for.
LEMMA Ahead ==
  ASSUME Shape, NEW w \in RG!Warps, Place(w)
  PROVE  /\ turn[w] \in Nat /\ Committed(w) \in Nat /\ Awaited(w) \in Nat
         /\ turn[w] <= Awaited(w) /\ Awaited(w) <= turn[w] + 1
         /\ Committed(w) <= turn[w] + depth
         /\ Awaited(w) <= Committed(w)
<1>1. turn[w] \in Nat /\ depth \in Nat /\ depth >= 2
  BY Built DEF Shape
<1>2. pc[w] = "prime" => turn[w] = 0
  BY DEF Place
<1> QED BY <1>1, <1>2 DEF Committed, Awaited, Behind

\* A group lands: it is the latest of its stage.
LEMMA RingLand ==
  ASSUME RingInv, NEW w \in RG!Warps, NEW i \in Nat, RG!Land(w, i)
  PROVE  RingInv'
<1>1. /\ i \in 1 .. Len(sent[w]) /\ sent[w][i] # RG!Empty /\ i \notin landed[w]
      /\ landed' = [landed EXCEPT ![w] = @ \union {i}]
      /\ ring' = [ring EXCEPT ![w][RG!Stage(i - 1)] = sent[w][i]]
      /\ UNCHANGED <<kern, depth, cnt, turn, pc, sent, bars, acc, sm>>
  BY DEF RG!Land
<1>2. Fixed /\ Shape /\ WarpInv(w) /\ depth \in Nat /\ depth >= 2
  BY <1>1, Built DEF Fixed, RingInv
<1>3. /\ Len(sent[w]) = Committed(w)
      /\ \A j \in 1 .. Committed(w) : sent[w][j] = PageOf(w, j - 1)
      /\ landed[w] \subseteq 1 .. Committed(w)
      /\ \A j \in 1 .. Awaited(w) : PageOf(w, j - 1) = RG!Empty \/ j \in landed[w]
      /\ \A j \in 1 .. Committed(w) :
           j > Committed(w) - depth /\ PageOf(w, j - 1) # RG!Empty =>
             ring[w][RG!Stage(j - 1)] = IF j \in landed[w] THEN PageOf(w, j - 1) ELSE RG!Torn
  BY <1>2 DEF WarpInv, Copies
<1>4. /\ turn[w] \in Nat /\ Committed(w) \in Nat /\ Awaited(w) \in Nat
      /\ turn[w] <= Awaited(w) /\ Committed(w) <= turn[w] + depth
  BY <1>2, Ahead DEF WarpInv
<1>5. i \in 1 .. Committed(w) /\ PageOf(w, i - 1) # RG!Empty /\ PageOf(w, i - 1) \in Int
      /\ sent[w][i] = PageOf(w, i - 1)
  <2>1. i \in 1 .. Committed(w) /\ i - 1 \in Nat
    BY <1>1, <1>3, <1>4
  <2> QED BY <1>1, <1>2, <1>3, <2>1, GroupPage
<1>6. i > Awaited(w) /\ i > Committed(w) - depth
  BY <1>1, <1>2, <1>3, <1>4, <1>5
<1>7. RG!Stage(i - 1) \in 0 .. depth - 1
  BY <1>2, <1>5 DEF RG!Stage
<1>8. /\ ring' \in [RG!Warps -> [0 .. depth - 1 -> Int]]
      /\ \A v \in RG!Warps \ {w} : ring'[v] = ring[v]
      /\ ring'[w][RG!Stage(i - 1)] = PageOf(w, i - 1)
      /\ \A s \in 0 .. depth - 1 : s # RG!Stage(i - 1) => ring'[w][s] = ring[w][s]
  <2>1. ring \in [RG!Warps -> [0 .. depth - 1 -> Int]]
    BY <1>2 DEF Shape
  <2> QED BY <1>1, <1>5, <1>7, <2>1
<1>9. /\ landed' \in [RG!Warps -> SUBSET Nat]
      /\ \A v \in RG!Warps \ {w} : landed'[v] = landed[v]
      /\ landed'[w] = landed[w] \union {i}
  BY <1>1, <1>2 DEF Shape
<1>10. ASSUME NEW j \in 1 .. Committed(w), j > Committed(w) - depth,
              PageOf(w, j - 1) # RG!Empty
       PROVE  ring'[w][RG!Stage(j - 1)] =
                IF j \in landed'[w] THEN PageOf(w, j - 1) ELSE RG!Torn
  <2>1. CASE j = i
    BY <1>8, <1>9, <2>1
  <2>2. CASE j # i
    <3>1. j - 1 \in Nat /\ i - 1 \in Nat /\ depth \in Nat \ {0}
          /\ RG!Stage(j - 1) \in 0 .. depth - 1
      BY <1>2, <1>4, <1>5 DEF RG!Stage
    <3>2. \/ j - 1 < i - 1 /\ i - 1 < (j - 1) + depth
          \/ i - 1 < j - 1 /\ j - 1 < (i - 1) + depth
      BY <1>2, <1>4, <1>5, <1>6, <1>10, <2>2
    <3>3. RG!Stage(j - 1) # RG!Stage(i - 1)
      BY <3>1, <3>2, StageApart DEF RG!Stage
    <3> QED BY <1>3, <1>8, <1>9, <1>10, <2>2, <3>1, <3>3
  <2> QED BY <2>1, <2>2
<1>11. Committed(w)' = Committed(w) /\ Awaited(w)' = Awaited(w) /\ Summed(w)' = Summed(w)
       /\ Passed(w)' = Passed(w) /\ Arrived(w)' = Arrived(w) /\ RG!Held(w)' = RG!Held(w)
       /\ depth' = depth /\ RG!Torn' = RG!Torn /\ RG!Empty' = RG!Empty
  BY <1>1, <1>2, FixedFacts DEF Committed, Awaited, Summed, Passed, Arrived, RG!Held,
     RG!Torn, RG!Empty
<1>12. Copies(w)'
  <2>1. \A j \in 1 .. Committed(w)' :
          j > Committed(w)' - depth' /\ PageOf(w, j - 1)' # RG!Empty' =>
            ring'[w][RG!Stage(j - 1)'] =
              IF j \in landed'[w] THEN PageOf(w, j - 1)' ELSE RG!Torn'
    BY <1>2, <1>10, <1>11, FixedFacts
  <2>2. \A j \in 1 .. Committed(w)' : sent'[w][j] = PageOf(w, j - 1)'
    BY <1>1, <1>2, <1>3, <1>11, FixedFacts
  <2>3. landed'[w] \subseteq 1 .. Committed(w)'
    BY <1>3, <1>5, <1>9, <1>11
  <2>4. \A j \in 1 .. Awaited(w)' : PageOf(w, j - 1)' = RG!Empty' \/ j \in landed'[w]
    BY <1>2, <1>3, <1>9, <1>11, FixedFacts
  <2>5. Len(sent'[w]) = Committed(w)'
    BY <1>1, <1>3, <1>11
  <2> QED BY <2>1, <2>2, <2>3, <2>4, <2>5 DEF Copies
<1>13. Place(w)' /\ Sums(w)'
  BY <1>1, <1>2, <1>11, FixedFacts DEF WarpInv, Place, Sums
<1>14. Shape'
  <2>1. RG!Warps' = RG!Warps
    BY <1>2, FixedFacts
  <2> QED BY <1>1, <1>2, <1>8, <1>9, <2>1 DEF Shape
<1>15. \A v \in RG!Warps \ {w} : Same(v)
  BY <1>1, <1>8, <1>9 DEF Same
<1>16. bars[w] <= bars'[w]
  BY <1>1, <1>2 DEF Shape
<1> QED BY <1>2, <1>11, <1>12, <1>13, <1>14, <1>15, <1>16, OneWarp DEF WarpInv

\* A warp reads the page of its turn, whoever loaded it: the others of its group
\* are past their wait for it, and none has loaded over it.
LEMMA Reads ==
  ASSUME RingInv, NEW w \in RG!Warps, pc[w] \in Reading,
         NEW v \in RG!Warps, RG!GroupOf(v) = RG!GroupOf(w)
  PROVE  ring[v][RG!Stage(turn[w])] = RG!PageAt(w, turn[w])
         /\ turn[w] < Share(w)
<1>1. Shape /\ Place(v) /\ Place(w) /\ Copies(v)
      /\ kern \in {"split", "fused"} /\ depth \in Nat /\ depth >= 2
  BY Built DEF RingInv, WarpInv
<1>2. turn[w] \in Nat /\ turn[v] \in Nat
  BY <1>1 DEF Shape
<1>3. turn[w] < Share(w)
  BY <1>1, <1>2, Striped DEF Place, RG!Held
<1>4. Passed(v) <= Passed(w) /\ Passed(w) <= Arrived(v)
  <2>1. Passed(v) <= bars[w] /\ Passed(w) <= bars[v]
    BY DEF RingInv, Fenced
  <2>2. bars[w] = Passed(w) /\ bars[v] = Arrived(v)
    BY <1>1, PassedNat DEF Place, Arrived, Reading, Waiting
  <2> QED BY <2>1, <2>2
<1>5. pc[v] \in Phases /\ (pc[v] \in {"prime", "primed"} => turn[v] = 0)
  BY <1>1 DEF Place
<1>6. /\ turn[w] + 1 <= Awaited(v)
      /\ Committed(v) <= turn[w] + depth
  <2>1. CASE kern = "split"
    <3>1. Passed(w) = turn[w] + 2
      BY <1>1, <1>2, <2>1 DEF Passed, PerTurn, Reading, Behind
    <3>2. /\ pc[v] \in {"prime", "primed"} => Passed(v) = 0 /\ Arrived(v) \in {0, 1}
          /\ pc[v] = "wait" => Passed(v) = turn[v] + 1 /\ Arrived(v) = turn[v] + 1
          /\ pc[v] = "sync" => Passed(v) = turn[v] + 1 /\ Arrived(v) = turn[v] + 2
          /\ pc[v] \in {"qk", "load", "pv"} => Passed(v) = turn[v] + 2
          /\ pc[v] = "end" => Passed(v) = turn[v] + 1 /\ Arrived(v) = turn[v] + 1
      BY <1>2, <2>1 DEF Passed, Arrived, PerTurn, Behind, Waiting
    <3>3. pc[v] \in {"prime", "primed", "wait", "sync", "qk", "load", "pv", "end"}
      BY <1>5, <2>1 DEF Phases
    <3> QED BY <1>1, <1>2, <1>4, <2>1, <3>1, <3>2, <3>3 DEF Awaited, Committed, Behind, Arrived, Waiting
  <2>2. CASE kern = "fused"
    <3>1. Passed(w) = 2 * turn[w] + 2
      BY <1>1, <1>2, <2>2 DEF Passed, PerTurn, Reading, Behind
    <3>2. /\ pc[v] \in {"prime", "primed"} => Passed(v) = 0 /\ Arrived(v) \in {0, 1}
          /\ pc[v] \in {"wait", "dump"} => Passed(v) = 2 * turn[v] + 1 /\ Arrived(v) = 2 * turn[v] + 1
          /\ pc[v] \in {"sync", "combine"} => Passed(v) = 2 * turn[v] + 1 /\ Arrived(v) = 2 * turn[v] + 2
          /\ pc[v] \in {"qk", "load", "pv"} => Passed(v) = 2 * turn[v] + 2 /\ Arrived(v) = 2 * turn[v] + 2
          /\ pc[v] = "turn" => Passed(v) = 2 * turn[v] + 2 /\ Arrived(v) = 2 * turn[v] + 3
          /\ pc[v] = "end" => Passed(v) = 2 * turn[v] + 2 /\ Arrived(v) = 2 * turn[v] + 2
      BY <1>2, <2>2 DEF Passed, Arrived, PerTurn, Behind, Waiting
    <3>3. pc[v] \in {"prime", "primed", "wait", "sync", "load", "qk", "pv", "turn",
                     "dump", "combine", "end"}
      BY <1>5, <2>2 DEF Phases
    <3>4. /\ pc[v] \in {"dump", "combine", "end"} => turn[v] = RG!Turns
          /\ turn[w] < RG!Turns /\ RG!Turns \in Nat
      BY <1>1, Striped DEF Place, Reading, Behind
    <3>5. ~(pc[v] \in {"prime", "primed", "wait", "dump", "combine", "end"})
      BY <1>2, <1>4, <3>1, <3>2, <3>4
    <3>6. turn[v] = turn[w]
      BY <1>2, <1>4, <3>1, <3>2, <3>3, <3>5
    <3>7. Awaited(v) = turn[v] + 1 /\ Committed(v) \in {turn[v] + depth, turn[v] + depth - 1}
      BY <1>1, <1>2, <2>2, <3>3, <3>5 DEF Awaited, Committed, Behind
    <3> QED BY <1>1, <1>2, <3>6, <3>7
  <2> QED BY <1>1, <2>1, <2>2
<1>7. /\ Committed(v) \in Nat /\ Awaited(v) \in Nat /\ Awaited(v) <= Committed(v)
  BY <1>1, Ahead
<1> DEFINE i == turn[w] + 1
<1>8. i \in 1 .. Awaited(v) /\ i \in 1 .. Committed(v) /\ i > Committed(v) - depth
      /\ i - 1 = turn[w]
  BY <1>1, <1>2, <1>6, <1>7
<1>9. PageOf(v, turn[w]) = RG!PageAt(w, turn[w]) /\ PageOf(v, turn[w]) # RG!Empty
  <2>1. Share(v) = Share(w) /\ RG!PageAt(v, turn[w]) = RG!PageAt(w, turn[w])
    BY SamePages
  <2> QED BY <1>1, <1>2, <1>3, <2>1, GroupPage
<1>10. i \in landed[v]
  BY <1>1, <1>8, <1>9 DEF Copies
<1> HIDE DEF i
<1>11. ring[v][RG!Stage(i - 1)] = PageOf(v, i - 1)
  BY <1>1, <1>8, <1>9, <1>10 DEF Copies
<1> QED BY <1>3, <1>8, <1>9, <1>11
-----------------------------------------------------------------------------
(* One lemma per step of a warp.                                           *)

\* Where the warps are, in numbers: what the lemmas below compute with.
LEMMA Stands ==
  ASSUME RingInv, NEW w \in RG!Warps
  PROVE  /\ Shape /\ Place(w) /\ Copies(w) /\ Sums(w)
         /\ kern \in {"split", "fused"} /\ depth \in Nat /\ depth >= 2
         /\ turn[w] \in Nat /\ RG!Turns \in Nat /\ RG!Turns >= 1
         /\ Share(w) \in Nat /\ Share(w) <= RG!Turns
         /\ kern = "split" => Share(w) = RG!Turns
         /\ RG!Held(w) <=> turn[w] < Share(w)
         /\ bars[w] = Arrived(w) /\ bars[w] \in Nat /\ Passed(w) \in Nat
<1>1. Shape /\ WarpInv(w)
  BY DEF RingInv
<1>2. turn[w] \in Nat /\ bars[w] \in Nat
  BY <1>1 DEF Shape
<1> QED BY <1>1, <1>2, Built, Striped, PassedNat DEF WarpInv, Place, RG!Held

\* A step that only moves its warp on, perhaps past a barrier.
LEMMA PcStep ==
  ASSUME RingInv, NEW w \in RG!Warps, NEW here, NEW next,
         RG!At(w, here, next),
         UNCHANGED <<kern, depth, cnt, turn, sent, landed, ring, bars, acc, sm>>,
         Place(w)', Committed(w)' = Committed(w), Awaited(w)' = Awaited(w),
         Summed(w)' = Summed(w),
         kern = "fused" /\ next \in {"combine", "end"} => here \in {"combine", "end"},
         Passed(w)' = Passed(w) \/ (RG!Released(w) /\ Passed(w)' = Arrived(w))
  PROVE  RingInv'
<1>1. Fixed /\ Shape /\ Copies(w) /\ Sums(w) /\ bars[w] = Arrived(w)
  BY Stands DEF Fixed
<1>2. /\ pc[w] = here /\ pc'[w] = next
      /\ \A v \in RG!Warps \ {w} : pc'[v] = pc[v]
      /\ pc' = [v \in RG!Warps |-> pc'[v]]
  BY <1>1, Moves
<1>3. Copies(w)' /\ Sums(w)'
  BY <1>1, <1>2, CopiesKept, SumsKept
<1>4. RG!Warps' = RG!Warps
  BY <1>1, FixedFacts
<1>5. Shape'
  BY <1>1, <1>2, <1>4 DEF Shape
<1>6. \A v \in RG!Warps \ {w} : Same(v)
  BY <1>2 DEF Same
<1>7. Passed(w)' = Passed(w) \/ \A v \in RG!Warps : Passed(w)' <= bars[v]
  BY <1>1 DEF RG!Released
<1>8. bars[w] <= bars'[w]
  BY Stands
<1> QED BY <1>1, <1>3, <1>5, <1>6, <1>7, <1>8, OneWarp DEF WarpInv

LEMMA RingPrimed ==
  ASSUME RingInv, NEW w \in RG!Warps, RG!Primed(w)
  PROVE  RingInv'
<1>1. /\ RG!Released(w) /\ RG!At(w, "primed", "wait")
      /\ UNCHANGED <<kern, depth, cnt, turn, sent, landed, ring, bars, acc, sm>>
  BY DEF RG!Primed
<1>2. Fixed /\ pc[w] = "primed" /\ pc'[w] = "wait"
  BY <1>1, Stands, Moves DEF Fixed
<1>3. turn[w] = 0 /\ turn'[w] = 0
  BY <1>1, <1>2, Stands DEF Place
<1>4. Arrived(w) = 1 /\ Passed(w)' = 1 /\ Arrived(w)' = 1
  BY <1>2, <1>3 DEF Arrived, Passed, PerTurn, Waiting, Behind
<1>5. Place(w)'
  <2>1. Phases' = Phases /\ RG!Turns' = RG!Turns /\ "wait" \in Phases
    BY <1>2, FixedFacts DEF Phases
  <2> QED BY <1>1, <1>2, <1>3, <1>4, <2>1, Stands DEF Place, Behind, Reading
<1>6. Committed(w)' = Committed(w) /\ Awaited(w)' = Awaited(w) /\ Summed(w)' = Summed(w)
  BY <1>1, <1>2, <1>3, FixedFacts DEF Committed, Awaited, Summed, Behind
<1> QED BY <1>1, <1>4, <1>5, <1>6, PcStep

\* All the parts of the page of this turn are in place.
LEMMA RingSync ==
  ASSUME RingInv, NEW w \in RG!Warps, RG!Sync(w)
  PROVE  RingInv'
<1> DEFINE next == IF kern = "split" THEN "qk" ELSE "load"
<1>1. /\ RG!Released(w) /\ RG!At(w, "sync", next)
      /\ UNCHANGED <<kern, depth, cnt, turn, sent, landed, ring, bars, acc, sm>>
  BY DEF RG!Sync
<1>2. Fixed /\ pc[w] = "sync" /\ pc'[w] = next
  BY <1>1, Stands, Moves DEF Fixed
<1>3. turn[w] < RG!Turns /\ turn'[w] = turn[w] /\ RG!Turns' = RG!Turns /\ Phases' = Phases
      /\ PerTurn' = PerTurn /\ RG!Held(w)' = RG!Held(w)
  BY <1>1, <1>2, Stands, FixedFacts DEF Place, Behind, RG!Held
<1>4. Passed(w)' = Arrived(w) /\ Arrived(w)' = Arrived(w)
  <2>1. PerTurn * turn[w] \in Nat /\ PerTurn' * turn'[w] = PerTurn * turn[w]
    BY <1>3, PassedNat, Stands
  <2> QED BY <1>2, <2>1 DEF Arrived, Passed, Waiting, Behind
<1>5. Place(w)'
  <2>1. next \in Phases /\ (next = "qk" => RG!Held(w))
    BY <1>3, Stands DEF Phases
  <2> QED BY <1>1, <1>2, <1>3, <1>4, <2>1, Stands DEF Place, Behind, Reading
<1>6. Committed(w)' = Committed(w) /\ Awaited(w)' = Awaited(w) /\ Summed(w)' = Summed(w)
  BY <1>1, <1>2, <1>3, FixedFacts, Stands DEF Committed, Awaited, Summed, Behind
<1> HIDE DEF next
<1>7. ~(next \in {"combine", "end"})
  BY DEF next
<1> QED BY <1>1, <1>4, <1>5, <1>6, <1>7, PcStep

LEMMA RingQK ==
  ASSUME RingInv, NEW w \in RG!Warps, RG!QK(w) \/ RG!WaveQK(w)
  PROVE  RingInv'
<1> DEFINE next == IF kern = "split" THEN "load" ELSE "pv"
<1>1. /\ RG!At(w, "qk", next)
      /\ UNCHANGED <<kern, depth, cnt, turn, sent, landed, ring, bars, acc, sm>>
  BY DEF RG!QK, RG!WaveQK
<1>2. Fixed /\ pc[w] = "qk" /\ pc'[w] = next
  BY <1>1, Stands, Moves DEF Fixed
<1>3. turn[w] < RG!Turns /\ turn'[w] = turn[w] /\ RG!Turns' = RG!Turns /\ Phases' = Phases
      /\ PerTurn' = PerTurn /\ RG!Held(w)' = RG!Held(w) /\ RG!Held(w)
  BY <1>1, <1>2, Stands, FixedFacts DEF Place, Behind, Reading, RG!Held
<1>4. Passed(w)' = Passed(w) /\ Arrived(w)' = Arrived(w)
  <2>1. PerTurn * turn[w] \in Nat /\ PerTurn' * turn'[w] = PerTurn * turn[w]
    BY <1>3, PassedNat, Stands
  <2> QED BY <1>2, <2>1 DEF Arrived, Passed, Waiting, Behind
<1>5. Place(w)'
  <2>1. next \in Phases
    BY DEF Phases
  <2> QED BY <1>1, <1>2, <1>3, <1>4, <2>1, Stands DEF Place, Behind, Reading
<1>6. Committed(w)' = Committed(w) /\ Awaited(w)' = Awaited(w) /\ Summed(w)' = Summed(w)
  BY <1>1, <1>2, <1>3, FixedFacts, Stands DEF Committed, Awaited, Summed, Behind
<1> HIDE DEF next
<1>7. ~(next \in {"combine", "end"})
  BY DEF next
<1> QED BY <1>1, <1>4, <1>5, <1>6, <1>7, PcStep

\* Every warp has dumped its part of the sum.
LEMMA RingCombine ==
  ASSUME RingInv, NEW w \in RG!Warps, RG!Combine(w)
  PROVE  RingInv'
<1>1. /\ RG!Released(w) /\ RG!At(w, "combine", "end")
      /\ UNCHANGED <<kern, depth, cnt, turn, sent, landed, ring, bars, acc, sm>>
  BY DEF RG!Combine
<1>2. Fixed /\ pc[w] = "combine" /\ pc'[w] = "end"
  BY <1>1, Stands, Moves DEF Fixed
<1>3. turn[w] = RG!Turns /\ turn'[w] = turn[w] /\ RG!Turns' = RG!Turns /\ Phases' = Phases
      /\ PerTurn' = PerTurn /\ kern = "fused"
  BY <1>1, <1>2, Stands, FixedFacts DEF Place, Phases
<1>4. Passed(w)' = Arrived(w) /\ Arrived(w)' = Arrived(w)
  <2>1. PerTurn * turn[w] \in Nat /\ PerTurn' * turn'[w] = PerTurn * turn[w] /\ kern' = "fused"
    BY <1>2, <1>3, PassedNat, Stands DEF Fixed
  <2> QED BY <1>2, <2>1, <1>3 DEF Arrived, Passed, Waiting, Behind
<1>5. Place(w)'
  <2>1. "end" \in Phases
    BY DEF Phases
  <2> QED BY <1>1, <1>2, <1>3, <1>4, <2>1, Stands DEF Place, Behind, Reading
<1>6. Committed(w)' = Committed(w) /\ Awaited(w)' = Awaited(w) /\ Summed(w)' = Summed(w)
  BY <1>1, <1>2, <1>3, FixedFacts, Stands DEF Committed, Awaited, Summed, Behind
<1> QED BY <1>1, <1>4, <1>5, <1>6, PcStep
\* A warp waits for the group of its turn and arrives at the barrier.
LEMMA RingWait ==
  ASSUME RingInv, NEW w \in RG!Warps, RG!Wait(w)
  PROVE  RingInv'
<1>1. /\ RG!Landed(w, depth - 2) /\ RG!At(w, "wait", "sync") /\ RG!Arrive(w)
      /\ UNCHANGED <<kern, depth, cnt, turn, sent, landed, ring, acc, sm>>
  BY DEF RG!Wait
<1>2. Fixed /\ Shape /\ pc[w] = "wait" /\ pc'[w] = "sync" /\ RG!Warps' = RG!Warps
      /\ (\A v \in RG!Warps \ {w} : pc'[v] = pc[v] /\ bars'[v] = bars[v])
      /\ pc' = [v \in RG!Warps |-> pc'[v]]
      /\ bars'[w] = bars[w] + 1 /\ bars' \in [RG!Warps -> Nat]
  <2>1. Fixed /\ Shape
    BY <1>1, Stands DEF Fixed
  <2> QED BY <1>1, <2>1, Moves, Arrives, FixedFacts
<1>3. turn[w] \in Nat /\ turn[w] < RG!Turns /\ turn'[w] = turn[w] /\ RG!Turns' = RG!Turns
      /\ Phases' = Phases /\ PerTurn' = PerTurn
  BY <1>1, <1>2, Stands, FixedFacts DEF Place
<1>4. Passed(w)' = Passed(w) /\ Arrived(w)' = Arrived(w) + 1
  <2>1. PerTurn * turn[w] \in Nat /\ PerTurn' * turn'[w] = PerTurn * turn[w]
    BY <1>2, <1>3, PassedNat
  <2> QED BY <1>2, <2>1 DEF Arrived, Passed, Waiting, Behind
<1>5. Place(w)'
  <2>1. "sync" \in Phases
    BY DEF Phases
  <2> QED BY <1>2, <1>3, <1>4, <2>1, Stands DEF Place, Behind, Reading
<1>6. /\ Committed(w)' = Committed(w) /\ Awaited(w)' = turn[w] + 1 /\ Awaited(w) = turn[w]
      /\ Committed(w) = turn[w] + depth - 1 /\ Summed(w)' = Summed(w)
  BY <1>1, <1>2, <1>3, FixedFacts, Stands DEF Committed, Awaited, Summed, Behind
<1>7. Copies(w)'
  <2>1. depth \in Nat /\ depth >= 2 /\ Len(sent[w]) = turn[w] + depth - 1
        /\ (\A i \in 1 .. Committed(w) : sent[w][i] = PageOf(w, i - 1))
    BY <1>6, Stands DEF Copies
  <2>2. \A i \in 1 .. turn[w] + 1 : PageOf(w, i - 1) = RG!Empty \/ i \in landed[w]
    <3> TAKE i \in 1 .. turn[w] + 1
    <3>1. i \in 1 .. Len(sent[w]) - (depth - 2) /\ i \in 1 .. Committed(w)
      BY <1>3, <1>6, <2>1
    <3> QED BY <1>1, <2>1, <3>1 DEF RG!Landed
  <2>3. RG!Empty' = RG!Empty /\ RG!Torn' = RG!Torn
    BY DEF RG!Empty, RG!Torn
  <2>4. \A i \in 1 .. Awaited(w)' : PageOf(w, i - 1)' = RG!Empty' \/ i \in landed'[w]
    BY <1>1, <1>2, <1>6, <2>2, <2>3, FixedFacts
  <2>5. Copies(w)
    BY Stands
  <2> QED BY <1>1, <1>2, <1>6, <2>3, <2>4, <2>5, FixedFacts DEF Copies, Fixed
<1>8. Sums(w)'
  BY <1>1, <1>2, <1>6, Stands, SumsKept
<1>9. Shape'
  BY <1>1, <1>2 DEF Shape
<1>10. \A v \in RG!Warps \ {w} : Same(v)
  BY <1>1, <1>2 DEF Same
<1>11. bars[w] <= bars'[w]
  BY <1>2, Stands
<1> QED BY <1>2, <1>4, <1>5, <1>7, <1>8, <1>9, <1>10, <1>11, OneWarp DEF WarpInv

LEMMA RingPrime ==
  ASSUME RingInv, NEW w \in RG!Warps, RG!Prime(w)
  PROVE  RingInv'
<1> DEFINE turns == [i \in 1 .. depth - 1 |-> i - 1]
<1>1. /\ RG!At(w, "prime", "primed") /\ RG!Load(w, turns) /\ RG!Arrive(w)
      /\ UNCHANGED <<kern, depth, cnt, turn, landed, acc, sm>>
  BY DEF RG!Prime
<1>2. Fixed /\ Shape /\ pc[w] = "prime" /\ pc'[w] = "primed" /\ RG!Warps' = RG!Warps
      /\ (\A v \in RG!Warps \ {w} : pc'[v] = pc[v] /\ bars'[v] = bars[v])
      /\ pc' = [v \in RG!Warps |-> pc'[v]]
      /\ bars'[w] = bars[w] + 1 /\ bars' \in [RG!Warps -> Nat]
  <2>1. Fixed /\ Shape
    BY <1>1, Stands DEF Fixed
  <2> QED BY <1>1, <2>1, Moves, Arrives, FixedFacts
<1>3. turn[w] = 0 /\ turn'[w] = turn[w] /\ Phases' = Phases /\ depth \in Nat /\ depth >= 2
      /\ depth' = depth
  BY <1>1, <1>2, Stands, FixedFacts DEF Place
<1>4. Passed(w)' = Passed(w) /\ Arrived(w)' = 1 /\ Arrived(w) = 0
  BY <1>2 DEF Arrived, Passed, Waiting
<1>5. Place(w)'
  <2>1. "primed" \in Phases
    BY DEF Phases
  <2> QED BY <1>2, <1>3, <1>4, <2>1, Stands DEF Place, Behind, Reading
<1>6. /\ Committed(w) = 0 /\ Committed(w)' = depth - 1 /\ Awaited(w)' = 0
      /\ Summed(w)' = Summed(w)
  BY <1>2, <1>3, FixedFacts, Stands DEF Committed, Awaited, Summed, Behind
<1>7. turns \in Seq(Nat)
  BY <1>3
<1>8. Copies(w)'
  BY <1>1, <1>2, <1>6, Stands, CopiesPrime
<1> HIDE DEF turns
<1>9. Sums(w)'
  BY <1>1, <1>2, <1>6, Stands, SumsKept
<1>10. /\ sent' \in [RG!Warps -> Seq(Int)]
       /\ ring' \in [RG!Warps -> [0 .. depth - 1 -> Int]]
       /\ \A v \in RG!Warps \ {w} : sent'[v] = sent[v] /\ ring'[v] = ring[v]
  BY <1>1, <1>2, <1>7, Loads
<1>11. Shape'
  BY <1>1, <1>2, <1>10 DEF Shape
<1>12. \A v \in RG!Warps \ {w} : Same(v)
  BY <1>1, <1>2, <1>10 DEF Same
<1>13. bars[w] <= bars'[w]
  BY <1>2, Stands
<1> QED BY <1>2, <1>4, <1>5, <1>8, <1>9, <1>11, <1>12, <1>13, OneWarp DEF WarpInv

\* The split kernel loads over the stage all its warps have read.
LEMMA RingPrefetch ==
  ASSUME RingInv, NEW w \in RG!Warps, RG!Prefetch(w)
  PROVE  RingInv'
<1> DEFINE turns == <<turn[w] + depth - 1>>
<1>1. /\ kern = "split" /\ RG!At(w, "load", "pv") /\ RG!Load(w, turns)
      /\ UNCHANGED <<kern, depth, cnt, turn, landed, bars, acc, sm>>
  BY DEF RG!Prefetch
<1>2. Fixed /\ Shape /\ pc[w] = "load" /\ pc'[w] = "pv" /\ RG!Warps' = RG!Warps
      /\ (\A v \in RG!Warps \ {w} : pc'[v] = pc[v])
      /\ pc' = [v \in RG!Warps |-> pc'[v]]
  <2>1. Fixed /\ Shape
    BY <1>1, Stands DEF Fixed
  <2> QED BY <1>1, <2>1, Moves, FixedFacts
<1>3. /\ turn[w] \in Nat /\ turn[w] < RG!Turns /\ turn'[w] = turn[w] /\ RG!Turns' = RG!Turns
      /\ Phases' = Phases /\ PerTurn' = PerTurn /\ depth \in Nat /\ depth >= 2 /\ depth' = depth
      /\ RG!Held(w)' = RG!Held(w) /\ RG!Held(w)
  BY <1>1, <1>2, Stands, FixedFacts DEF Place, Behind, RG!Held
<1>4. Passed(w)' = Passed(w) /\ Arrived(w)' = Arrived(w)
  <2>1. PerTurn * turn[w] \in Nat /\ PerTurn' * turn'[w] = PerTurn * turn[w]
    BY <1>2, <1>3, PassedNat
  <2> QED BY <1>2, <2>1 DEF Arrived, Passed, Waiting, Behind
<1>5. Place(w)'
  <2>1. "pv" \in Phases
    BY DEF Phases
  <2> QED BY <1>1, <1>2, <1>3, <1>4, <2>1, Stands DEF Place, Behind, Reading
<1>6. /\ Committed(w) = turn[w] + depth - 1 /\ Committed(w)' = turn[w] + depth
      /\ Awaited(w)' = Awaited(w) /\ Summed(w)' = Summed(w)
  BY <1>1, <1>2, <1>3, FixedFacts, Stands DEF Committed, Awaited, Summed, Behind
<1>7. turns \in Seq(Nat)
  BY <1>3
<1>8. Copies(w)'
  BY <1>1, <1>2, <1>6, Stands, CopiesLoad
<1> HIDE DEF turns
<1>9. Sums(w)'
  BY <1>1, <1>2, <1>6, Stands, SumsKept
<1>10. /\ sent' \in [RG!Warps -> Seq(Int)]
       /\ ring' \in [RG!Warps -> [0 .. depth - 1 -> Int]]
       /\ \A v \in RG!Warps \ {w} : sent'[v] = sent[v] /\ ring'[v] = ring[v]
  BY <1>1, <1>2, <1>7, Loads
<1>11. Shape'
  BY <1>1, <1>2, <1>10 DEF Shape
<1>12. \A v \in RG!Warps \ {w} : Same(v)
  BY <1>1, <1>2, <1>10 DEF Same
<1>13. bars[w] <= bars'[w]
  BY <1>1, Stands
<1> QED BY <1>2, <1>4, <1>5, <1>8, <1>9, <1>11, <1>12, <1>13, OneWarp DEF WarpInv

\* The fused kernel's: a group without a page in this wave goes to its barrier.
LEMMA RingPrefetchWave ==
  ASSUME RingInv, NEW w \in RG!Warps, RG!PrefetchWave(w)
  PROVE  RingInv'
<1> DEFINE turns == <<turn[w] + depth - 1>>
           next == IF RG!Held(w) THEN "qk" ELSE "turn"
<1>1. /\ kern = "fused" /\ RG!At(w, "load", next) /\ RG!Load(w, turns)
      /\ (IF RG!Held(w) THEN UNCHANGED bars ELSE RG!Arrive(w))
      /\ UNCHANGED <<kern, depth, cnt, turn, landed, acc, sm>>
  BY DEF RG!PrefetchWave
<1>2. Fixed /\ Shape /\ pc[w] = "load" /\ pc'[w] = next /\ RG!Warps' = RG!Warps
      /\ (\A v \in RG!Warps \ {w} : pc'[v] = pc[v])
      /\ pc' = [v \in RG!Warps |-> pc'[v]]
  <2>1. Fixed /\ Shape
    BY <1>1, Stands DEF Fixed
  <2> QED BY <1>1, <2>1, Moves, FixedFacts
<1>3. /\ turn[w] \in Nat /\ turn[w] < RG!Turns /\ turn'[w] = turn[w] /\ RG!Turns' = RG!Turns
      /\ Phases' = Phases /\ PerTurn' = PerTurn /\ depth \in Nat /\ depth >= 2 /\ depth' = depth
      /\ RG!Held(w)' = RG!Held(w)
  BY <1>1, <1>2, Stands, FixedFacts DEF Place, Behind, RG!Held
<1>4. /\ bars' \in [RG!Warps -> Nat] /\ \A v \in RG!Warps \ {w} : bars'[v] = bars[v]
      /\ bars[w] \in Nat
      /\ bars'[w] = IF RG!Held(w) THEN bars[w] ELSE bars[w] + 1
  <2>1. bars \in [RG!Warps -> Nat]
    BY <1>2 DEF Shape
  <2> QED BY <1>1, <1>2, <2>1, Arrives
<1>5. Passed(w)' = Passed(w) /\ Arrived(w)' = bars'[w]
  <2>1. PerTurn * turn[w] \in Nat /\ PerTurn' * turn'[w] = PerTurn * turn[w]
    BY <1>2, <1>3, PassedNat
  <2>2. bars[w] = Arrived(w)
    BY Stands
  <2> QED BY <1>2, <1>4, <2>1, <2>2 DEF Arrived, Passed, Waiting, Behind
<1>6. Place(w)'
  <2>1. next \in Phases
    BY <1>1 DEF Phases
  <2> QED BY <1>1, <1>2, <1>3, <1>5, <2>1, Stands DEF Place, Behind, Reading
<1>7. /\ Committed(w) = turn[w] + depth - 1 /\ Committed(w)' = turn[w] + depth
      /\ Awaited(w)' = Awaited(w)
  BY <1>1, <1>2, <1>3 DEF Committed, Awaited, Behind, Fixed
<1>8. Summed(w)' = Summed(w)
  <2>1. Share(w) \in Nat /\ (RG!Held(w) <=> turn[w] < Share(w)) /\ Share(w)' = Share(w)
    BY <1>2, Stands, FixedFacts
  <2> QED BY <1>2, <1>3, <2>1 DEF Summed
<1>9. turns \in Seq(Nat)
  BY <1>3
<1>10. Copies(w)'
  BY <1>1, <1>2, <1>7, Stands, CopiesLoad
<1> HIDE DEF turns
<1>11. Sums(w)'
  BY <1>1, <1>2, <1>8, Stands, SumsKept
<1>12. /\ sent' \in [RG!Warps -> Seq(Int)]
       /\ ring' \in [RG!Warps -> [0 .. depth - 1 -> Int]]
       /\ \A v \in RG!Warps \ {w} : sent'[v] = sent[v] /\ ring'[v] = ring[v]
  BY <1>1, <1>2, <1>9, Loads
<1>13. Shape'
  BY <1>1, <1>2, <1>4, <1>12 DEF Shape
<1>14. \A v \in RG!Warps \ {w} : Same(v)
  BY <1>1, <1>2, <1>4, <1>12 DEF Same
<1>15. bars[w] <= bars'[w]
  BY <1>4
<1> QED BY <1>2, <1>5, <1>6, <1>10, <1>11, <1>13, <1>14, <1>15, OneWarp DEF WarpInv
\* A warp adds the page of its turn to its sum.
LEMMA Adds ==
  ASSUME RingInv, NEW w \in RG!Warps, pc[w] \in Reading,
         acc' = [acc EXCEPT ![w] = Append(@, ring[w][RG!Stage(turn[w])])]
  PROVE  /\ acc' \in [RG!Warps -> Seq(Int)]
         /\ \A v \in RG!Warps \ {w} : acc'[v] = acc[v]
         /\ acc'[w] = [i \in 1 .. turn[w] + 1 |-> RG!PageAt(w, i - 1)]
         /\ turn[w] < Share(w) /\ turn[w] < RG!Turns /\ Summed(w) = turn[w]
<1>1. /\ Shape /\ Place(w) /\ Sums(w) /\ turn[w] \in Nat /\ Share(w) \in Nat
      /\ RG!Turns \in Nat /\ Share(w) <= RG!Turns
  BY Stands
<1>2. ring[w][RG!Stage(turn[w])] = RG!PageAt(w, turn[w]) /\ turn[w] < Share(w)
  BY Reads
<1>3. Summed(w) = turn[w] /\ turn[w] < RG!Turns
  BY <1>1, <1>2 DEF Summed, Reading
<1>4. acc[w] = [i \in 1 .. turn[w] |-> RG!PageAt(w, i - 1)] /\ RG!PageAt(w, turn[w]) \in Int
      /\ \A t \in Nat : RG!PageAt(w, t) \in Int
  <2>1. \A t \in Nat : RG!PageAt(w, t) \in Nat
    BY <1>1, Striped
  <2>2. acc[w] = [i \in 1 .. turn[w] |-> RG!PageAt(w, i - 1)]
    BY <1>1, <1>3 DEF Sums
  <2>3. RG!PageAt(w, turn[w]) \in Int
    BY <1>1, <2>1
  <2>4. ASSUME NEW t \in Nat PROVE RG!PageAt(w, t) \in Int
    BY <2>1
  <2> QED BY <2>2, <2>3, <2>4
<1> DEFINE n == turn[w]
           old == [i \in 1 .. n |-> RG!PageAt(w, i - 1)]
           new == [i \in 1 .. n + 1 |-> RG!PageAt(w, i - 1)]
<1>5. Append(old, RG!PageAt(w, n)) = new /\ new \in Seq(Int)
  <2>1. n \in Nat
    BY <1>1
  <2> HIDE DEF n
  <2>2. \A i \in 1 .. n + 1 : i - 1 \in Nat /\ RG!PageAt(w, i - 1) \in Int
    BY <1>4, <2>1
  <2>3. old \in Seq(Int) /\ Len(old) = n /\ \A i \in 1 .. n : old[i] = RG!PageAt(w, i - 1)
    BY <2>1, <2>2
  <2>4. new \in Seq(Int) /\ Len(new) = n + 1
        /\ (\A i \in 1 .. n + 1 : new[i] = RG!PageAt(w, i - 1))
        /\ new[n + 1] = RG!PageAt(w, n)
    BY <2>1, <2>2
  <2> HIDE DEF old, new
  <2> DEFINE app == Append(old, RG!PageAt(w, n))
  <2>5. RG!PageAt(w, n) \in Int
    BY <1>4, <2>1
  <2>6. app \in Seq(Int) /\ Len(app) = n + 1 /\ app[n + 1] = RG!PageAt(w, n)
        /\ \A i \in 1 .. n : app[i] = old[i]
    BY <2>1, <2>3, <2>5
  <2> HIDE DEF app
  <2>7. \A i \in 1 .. n + 1 : app[i] = new[i]
    BY <2>1, <2>3, <2>4, <2>6
  <2>8. app = new
    BY <2>4, <2>6, <2>7
  <2> QED BY <2>4, <2>8 DEF app
<1>6. acc \in [RG!Warps -> Seq(Int)]
  BY <1>1 DEF Shape
<1>7. acc' = [acc EXCEPT ![w] = new]
  BY <1>2, <1>4, <1>5
<1> HIDE DEF old, new
<1> QED BY <1>2, <1>3, <1>5, <1>6, <1>7 DEF new

\* The split kernel ends its turn.
LEMMA RingPV ==
  ASSUME RingInv, NEW w \in RG!Warps, RG!PV(w)
  PROVE  RingInv'
<1> DEFINE next == IF turn[w] + 1 < RG!Turns THEN "wait" ELSE "end"
<1>1. /\ kern = "split" /\ RG!At(w, "pv", next)
      /\ acc' = [acc EXCEPT ![w] = Append(@, ring[w][RG!Stage(turn[w])])]
      /\ turn' = [turn EXCEPT ![w] = @ + 1]
      /\ UNCHANGED <<kern, depth, cnt, sent, landed, ring, bars, sm>>
  BY DEF RG!PV
<1>2. Fixed /\ Shape /\ pc[w] = "pv" /\ pc'[w] = next /\ RG!Warps' = RG!Warps
      /\ (\A v \in RG!Warps \ {w} : pc'[v] = pc[v])
      /\ pc' = [v \in RG!Warps |-> pc'[v]]
  <2>1. Fixed /\ Shape
    BY <1>1, Stands DEF Fixed
  <2> QED BY <1>1, <2>1, Moves, FixedFacts
<1>3. /\ acc' \in [RG!Warps -> Seq(Int)]
      /\ \A v \in RG!Warps \ {w} : acc'[v] = acc[v]
      /\ acc'[w] = [i \in 1 .. turn[w] + 1 |-> RG!PageAt(w, i - 1)]
      /\ turn[w] < Share(w) /\ turn[w] < RG!Turns
  BY <1>1, <1>2, Adds DEF Reading
<1>4. /\ turn' \in [RG!Warps -> Nat] /\ turn'[w] = turn[w] + 1 /\ turn[w] \in Nat
      /\ \A v \in RG!Warps \ {w} : turn'[v] = turn[v]
  BY <1>1, <1>2 DEF Shape
<1>5. /\ RG!Turns' = RG!Turns /\ RG!Turns \in Nat /\ Share(w) \in Nat /\ Share(w)' = Share(w)
      /\ Phases' = Phases /\ depth \in Nat /\ depth' = depth /\ kern' = kern
  BY <1>1, <1>2, Stands, FixedFacts
<1>6. Passed(w)' = Passed(w) /\ Arrived(w)' = Arrived(w)
  BY <1>1, <1>2, <1>4, <1>5 DEF Arrived, Passed, Waiting, Behind, PerTurn
<1>7. Place(w)'
  <2>1. next \in Phases
    BY <1>1 DEF Phases
  <2>2. next = "wait" => turn'[w] < RG!Turns
    BY <1>4
  <2>3. next = "end" => turn'[w] = RG!Turns
    BY <1>3, <1>4, <1>5
  <2> HIDE DEF next
  <2>4. next \in {"wait", "end"}
    BY DEF next
  <2> QED BY <1>1, <1>2, <1>5, <1>6, <2>1, <2>2, <2>3, <2>4, Stands
      DEF Place, Behind, Reading
<1>8. /\ Committed(w)' = Committed(w) /\ Awaited(w)' = Awaited(w)
      /\ Summed(w)' = turn[w] + 1
  BY <1>1, <1>2, <1>3, <1>4, <1>5 DEF Committed, Awaited, Summed, Behind
<1>9. Copies(w)'
  BY <1>1, <1>2, <1>8, Stands, CopiesKept
<1>10. Sums(w)'
  <2>1. acc'[w] = [i \in 1 .. Summed(w)' |-> RG!PageAt(w, i - 1)']
    BY <1>2, <1>3, <1>8, FixedFacts
  <2>2. ~(pc'[w] \in {"combine", "end"} /\ kern' = "fused")
    BY <1>1, <1>2
  <2> QED BY <2>1, <2>2 DEF Sums
<1>11. Shape'
  BY <1>1, <1>2, <1>3, <1>4 DEF Shape
<1>12. \A v \in RG!Warps \ {w} : Same(v)
  BY <1>1, <1>2, <1>3, <1>4 DEF Same
<1>13. bars[w] <= bars'[w]
  BY <1>1, Stands
<1> QED BY <1>2, <1>6, <1>7, <1>9, <1>10, <1>11, <1>12, <1>13, OneWarp DEF WarpInv

\* The fused kernel arrives at the barrier that ends the wave.
LEMMA RingWavePV ==
  ASSUME RingInv, NEW w \in RG!Warps, RG!WavePV(w)
  PROVE  RingInv'
<1>1. /\ kern = "fused" /\ RG!At(w, "pv", "turn") /\ RG!Arrive(w)
      /\ acc' = [acc EXCEPT ![w] = Append(@, ring[w][RG!Stage(turn[w])])]
      /\ UNCHANGED <<kern, depth, cnt, turn, sent, landed, ring, sm>>
  BY DEF RG!WavePV
<1>2. Fixed /\ Shape /\ pc[w] = "pv" /\ pc'[w] = "turn" /\ RG!Warps' = RG!Warps
      /\ (\A v \in RG!Warps \ {w} : pc'[v] = pc[v] /\ bars'[v] = bars[v])
      /\ pc' = [v \in RG!Warps |-> pc'[v]]
      /\ bars'[w] = bars[w] + 1 /\ bars' \in [RG!Warps -> Nat]
  <2>1. Fixed /\ Shape
    BY <1>1, Stands DEF Fixed
  <2> QED BY <1>1, <2>1, Moves, Arrives, FixedFacts
<1>3. /\ acc' \in [RG!Warps -> Seq(Int)]
      /\ \A v \in RG!Warps \ {w} : acc'[v] = acc[v]
      /\ acc'[w] = [i \in 1 .. turn[w] + 1 |-> RG!PageAt(w, i - 1)]
      /\ turn[w] < Share(w) /\ turn[w] < RG!Turns
  BY <1>1, <1>2, Adds DEF Reading
<1>4. /\ RG!Turns' = RG!Turns /\ RG!Turns \in Nat /\ Share(w) \in Nat /\ Share(w)' = Share(w)
      /\ Phases' = Phases /\ depth \in Nat /\ depth' = depth /\ kern' = kern
      /\ turn[w] \in Nat /\ turn'[w] = turn[w] /\ PerTurn' = PerTurn
  BY <1>1, <1>2, Stands, FixedFacts
<1>5. Passed(w)' = Passed(w) /\ Arrived(w)' = Arrived(w) + 1
  <2>1. PerTurn * turn[w] \in Nat /\ PerTurn' * turn'[w] = PerTurn * turn[w]
    BY <1>2, <1>4, PassedNat
  <2> QED BY <1>2, <2>1 DEF Arrived, Passed, Waiting, Behind
<1>6. Place(w)'
  <2>1. "turn" \in Phases
    BY <1>1 DEF Phases
  <2> QED BY <1>2, <1>3, <1>4, <1>5, <2>1, Stands DEF Place, Behind, Reading
<1>7. /\ Committed(w)' = Committed(w) /\ Awaited(w)' = Awaited(w)
      /\ Summed(w)' = turn[w] + 1
  BY <1>1, <1>2, <1>3, <1>4 DEF Committed, Awaited, Summed, Behind
<1>8. Copies(w)'
  BY <1>1, <1>2, <1>7, Stands, CopiesKept
<1>9. Sums(w)'
  <2>1. acc'[w] = [i \in 1 .. Summed(w)' |-> RG!PageAt(w, i - 1)']
    BY <1>2, <1>3, <1>7, FixedFacts
  <2>2. ~(pc'[w] \in {"combine", "end"} /\ kern' = "fused")
    BY <1>1, <1>2
  <2> QED BY <2>1, <2>2 DEF Sums
<1>10. Shape'
  BY <1>1, <1>2, <1>3 DEF Shape
<1>11. \A v \in RG!Warps \ {w} : Same(v)
  BY <1>1, <1>2, <1>3 DEF Same
<1>12. bars[w] <= bars'[w]
  BY <1>2, Stands
<1> QED BY <1>2, <1>5, <1>6, <1>8, <1>9, <1>10, <1>11, <1>12, OneWarp DEF WarpInv

LEMMA RingTurnEnd ==
  ASSUME RingInv, NEW w \in RG!Warps, RG!TurnEnd(w)
  PROVE  RingInv'
<1> DEFINE next == IF turn[w] + 1 < RG!Turns THEN "wait" ELSE "dump"
<1>1. /\ RG!Released(w) /\ RG!At(w, "turn", next)
      /\ turn' = [turn EXCEPT ![w] = @ + 1]
      /\ UNCHANGED <<kern, depth, cnt, sent, landed, ring, bars, acc, sm>>
  BY DEF RG!TurnEnd
<1>2. Fixed /\ Shape /\ pc[w] = "turn" /\ pc'[w] = next /\ RG!Warps' = RG!Warps
      /\ (\A v \in RG!Warps \ {w} : pc'[v] = pc[v])
      /\ pc' = [v \in RG!Warps |-> pc'[v]]
  <2>1. Fixed /\ Shape
    BY <1>1, Stands DEF Fixed
  <2> QED BY <1>1, <2>1, Moves, FixedFacts
<1>3. /\ turn' \in [RG!Warps -> Nat] /\ turn'[w] = turn[w] + 1 /\ turn[w] \in Nat
      /\ \A v \in RG!Warps \ {w} : turn'[v] = turn[v]
  BY <1>1, <1>2 DEF Shape
<1>4. /\ RG!Turns' = RG!Turns /\ RG!Turns \in Nat /\ turn[w] < RG!Turns
      /\ Share(w) \in Nat /\ Share(w)' = Share(w)
      /\ Phases' = Phases /\ depth \in Nat /\ depth' = depth /\ kern = "fused" /\ kern' = kern
  BY <1>1, <1>2, Stands, FixedFacts DEF Place, Phases, Behind
<1>5. Passed(w)' = Arrived(w) /\ Arrived(w)' = Arrived(w)
  BY <1>2, <1>3, <1>4 DEF Arrived, Passed, Waiting, Behind, PerTurn
<1>6. Place(w)'
  <2>1. next \in Phases
    BY <1>4 DEF Phases
  <2>2. next = "wait" => turn'[w] < RG!Turns
    BY <1>3
  <2>3. next = "dump" => turn'[w] = RG!Turns
    BY <1>3, <1>4
  <2> HIDE DEF next
  <2>4. next \in {"wait", "dump"}
    BY DEF next
  <2> QED BY <1>1, <1>2, <1>4, <1>5, <2>1, <2>2, <2>3, <2>4, Stands
      DEF Place, Behind, Reading
<1>7. /\ Committed(w)' = Committed(w) /\ Awaited(w)' = Awaited(w) /\ Summed(w)' = Summed(w)
  BY <1>1, <1>2, <1>3, <1>4 DEF Committed, Awaited, Summed, Behind
<1>8. Copies(w)'
  BY <1>1, <1>2, <1>7, Stands, CopiesKept
<1>9. Sums(w)'
  BY <1>1, <1>2, <1>7, Stands, SumsKept
<1>10. Shape'
  BY <1>1, <1>2, <1>3 DEF Shape
<1>11. \A v \in RG!Warps \ {w} : Same(v)
  BY <1>1, <1>2, <1>3 DEF Same
<1>12. bars[w] <= bars'[w] /\ \A v \in RG!Warps : Passed(w)' <= bars[v]
  BY <1>1, <1>5, Stands DEF RG!Released
<1> QED BY <1>2, <1>6, <1>8, <1>9, <1>10, <1>11, <1>12, OneWarp DEF WarpInv

LEMMA RingDump ==
  ASSUME RingInv, NEW w \in RG!Warps, RG!Dump(w)
  PROVE  RingInv'
<1>1. /\ RG!At(w, "dump", "combine") /\ RG!Arrive(w)
      /\ sm' = [sm EXCEPT ![w] = acc[w]]
      /\ UNCHANGED <<kern, depth, cnt, turn, sent, landed, ring, acc>>
  BY DEF RG!Dump
<1>2. Fixed /\ Shape /\ pc[w] = "dump" /\ pc'[w] = "combine" /\ RG!Warps' = RG!Warps
      /\ (\A v \in RG!Warps \ {w} : pc'[v] = pc[v] /\ bars'[v] = bars[v])
      /\ pc' = [v \in RG!Warps |-> pc'[v]]
      /\ bars'[w] = bars[w] + 1 /\ bars' \in [RG!Warps -> Nat]
  <2>1. Fixed /\ Shape
    BY <1>1, Stands DEF Fixed
  <2> QED BY <1>1, <2>1, Moves, Arrives, FixedFacts
<1>3. /\ sm' \in [RG!Warps -> Seq(Int)] /\ sm'[w] = acc[w]
      /\ \A v \in RG!Warps \ {w} : sm'[v] = sm[v]
  BY <1>1, <1>2 DEF Shape
<1>4. /\ turn[w] = RG!Turns /\ turn'[w] = turn[w] /\ RG!Turns' = RG!Turns /\ RG!Turns \in Nat
      /\ Phases' = Phases /\ kern = "fused" /\ kern' = kern /\ PerTurn' = PerTurn
      /\ Share(w)' = Share(w) /\ depth' = depth
  BY <1>1, <1>2, Stands, FixedFacts DEF Place, Phases
<1>5. Passed(w)' = Passed(w) /\ Arrived(w)' = Arrived(w) + 1
  <2>1. PerTurn * turn[w] \in Nat /\ PerTurn' * turn'[w] = PerTurn * turn[w]
    BY <1>2, <1>4, PassedNat
  <2> QED BY <1>2, <2>1 DEF Arrived, Passed, Waiting, Behind
<1>6. Place(w)'
  <2>1. "combine" \in Phases
    BY <1>4 DEF Phases
  <2> QED BY <1>2, <1>4, <1>5, <2>1, Stands DEF Place, Behind, Reading
<1>7. /\ Committed(w)' = Committed(w) /\ Awaited(w)' = Awaited(w) /\ Summed(w)' = Summed(w)
  BY <1>1, <1>2, <1>4 DEF Committed, Awaited, Summed, Behind
<1>8. Copies(w)'
  BY <1>1, <1>2, <1>7, Stands, CopiesKept
<1>9. Sums(w)'
  BY <1>1, <1>2, <1>3, <1>7, Stands, FixedFacts DEF Sums
<1>10. Shape'
  BY <1>1, <1>2, <1>3 DEF Shape
<1>11. \A v \in RG!Warps \ {w} : Same(v)
  BY <1>1, <1>2, <1>3 DEF Same
<1>12. bars[w] <= bars'[w]
  BY <1>2, Stands
<1> QED BY <1>2, <1>5, <1>6, <1>8, <1>9, <1>10, <1>11, <1>12, OneWarp DEF WarpInv
-----------------------------------------------------------------------------
(* The CTA of the ring arm.                                                *)

LEMMA RingStart == RG!Init => RingInv
<1> SUFFICES ASSUME RG!Init PROVE RingInv
  OBVIOUS
<1>1. /\ kern \in DOMAIN Depth /\ depth \in Depth[kern] /\ cnt \in 1 .. MaxPages
      /\ turn = [w \in RG!Warps |-> 0] /\ pc = [w \in RG!Warps |-> "prime"]
      /\ sent = [w \in RG!Warps |-> <<>>] /\ landed = [w \in RG!Warps |-> {}]
      /\ ring = [w \in RG!Warps |-> [s \in 0 .. depth - 1 |-> RG!Empty]]
      /\ bars = [w \in RG!Warps |-> 0]
      /\ acc = [w \in RG!Warps |-> <<>>] /\ sm = [w \in RG!Warps |-> <<>>]
  BY DEF RG!Init
<1>2. Shape
  <2>1. ring \in [RG!Warps -> [0 .. depth - 1 -> Int]]
    BY <1>1 DEF RG!Empty
  <2>2. turn \in [RG!Warps -> Nat] /\ bars \in [RG!Warps -> Nat]
        /\ landed \in [RG!Warps -> SUBSET Nat]
    BY <1>1
  <2>3. sent \in [RG!Warps -> Seq(Int)] /\ acc \in [RG!Warps -> Seq(Int)]
        /\ sm \in [RG!Warps -> Seq(Int)]
    BY <1>1
  <2>4. pc = [w \in RG!Warps |-> pc[w]]
    BY <1>1
  <2> QED BY <1>1, <2>1, <2>2, <2>3, <2>4 DEF Shape
<1>3. ASSUME NEW w \in RG!Warps PROVE WarpInv(w) /\ Passed(w) = 0 /\ bars[w] = 0
  <2>1. /\ pc[w] = "prime" /\ turn[w] = 0 /\ sent[w] = <<>> /\ landed[w] = {}
        /\ bars[w] = 0 /\ acc[w] = <<>>
    BY <1>1
  <2>2. Passed(w) = 0 /\ Arrived(w) = 0 /\ Committed(w) = 0 /\ Awaited(w) = 0
    BY <2>1 DEF Passed, Arrived, Committed, Awaited, Waiting, Behind
  <2>3. Summed(w) = 0
    BY <1>2, <2>1, Striped DEF Summed
  <2>4. Place(w)
    BY <2>1, <2>2 DEF Place, Phases, Behind, Reading
  <2>5. Copies(w)
    BY <2>1, <2>2 DEF Copies
  <2>6. Sums(w)
    BY <2>1, <2>3 DEF Sums
  <2> QED BY <2>1, <2>2, <2>4, <2>5, <2>6 DEF WarpInv
<1>4. Fenced
  BY <1>3 DEF Fenced
<1> QED BY <1>2, <1>3, <1>4 DEF RingInv

LEMMA RingStep ==
  ASSUME RingInv, RG!Next
  PROVE  RingInv'
<1>1. ASSUME NEW w \in RG!Warps, RG!Warp(w) PROVE RingInv'
  BY <1>1, RingPrime, RingPrimed, RingWait, RingSync, RingQK, RingPrefetch, RingPV,
     RingPrefetchWave, RingWavePV, RingTurnEnd, RingDump, RingCombine DEF RG!Warp
<1>2. ASSUME NEW w \in RG!Warps, NEW i \in 1 .. MaxPages + 3, RG!Land(w, i)
      PROVE  RingInv'
  <2>1. i \in Nat
    BY RingAssumption DEF RG!RingConstants
  <2> QED BY <1>2, <2>1, RingLand
<1> QED BY <1>1, <1>2 DEF RG!Next

LEMMA RingStutter ==
  ASSUME RingInv, UNCHANGED vars
  PROVE  RingInv'
<1>1. UNCHANGED <<kern, depth, cnt, turn, pc, sent, landed, ring, bars, acc, sm>>
  BY DEF vars, onlyRing
<1>2. Fixed /\ \A w : Same(w)
  BY <1>1 DEF Fixed, Same
<1>3. RG!Warps' = RG!Warps
  BY <1>2, FixedFacts
<1>4. \A w \in RG!Warps : WarpInv(w)' /\ Passed(w)' = Passed(w)
  BY <1>2, OtherKept DEF RingInv
<1>5. Shape'
  BY <1>1, <1>3 DEF RingInv, Shape
<1>6. Fenced'
  BY <1>1, <1>3, <1>4 DEF RingInv, Fenced
<1> QED BY <1>3, <1>4, <1>5, <1>6 DEF RingInv

\* No warp reads a stage while a part of it is another page's or in flight, and
\* the combine sees every page once: whatever the depth of the ring, the warps,
\* the groups, the pages, and the order in which copies land and warps run.
THEOREM DecodeRing == Spec => []RingExact
<1> DEFINE Inv == arm = "ring" => RingInv
<1>1. Init => Inv
  BY RingStart DEF Init
<1>2. Inv /\ [Next]_vars => Inv'
  <2> SUFFICES ASSUME Inv, [Next]_vars PROVE Inv'
    OBVIOUS
  <2>1. CASE arm = "lane" /\ LN!Next /\ UNCHANGED <<arm, onlyRing>>
    BY <2>1
  <2>2. CASE arm = "ring" /\ RG!Next /\ UNCHANGED <<arm, onlyLane>>
    BY <2>2, RingStep
  <2>3. CASE UNCHANGED vars
    BY <2>3, RingStutter DEF vars
  <2> QED BY <2>1, <2>2, <2>3 DEF Next
<1>3. Inv => RingExact
  <2> SUFFICES ASSUME RingInv, NEW w \in RG!Warps
               PROVE  /\ pc[w] \in {"qk", "pv"} =>
                           \A v \in RG!Warps : RG!GroupOf(v) = RG!GroupOf(w) =>
                             ring[v][RG!Stage(turn[w])] = RG!PageAt(w, turn[w])
                      /\ pc[w] = "end" =>
                           /\ acc[w] = RG!Stripe(w)
                           /\ kern = "fused" => \A v \in RG!Warps : sm[v] = RG!Stripe(v)
    BY DEF RingExact, RG!RingExact
  <2>1. \A v : RG!Stripe(v) = [i \in 1 .. Share(v) |-> RG!PageAt(v, i - 1)]
    BY DEF RG!Stripe, Share, G
  <2>2. ASSUME NEW v \in RG!Warps, turn[v] = RG!Turns, pc[v] \in {"combine", "end"}
        PROVE  acc[v] = RG!Stripe(v) /\ (kern = "fused" => sm[v] = acc[v])
    <3>1. Summed(v) = Share(v)
      BY <2>2, Stands DEF Summed
    <3> QED BY <2>1, <2>2, <3>1, Stands DEF Sums
  <2>3. CASE pc[w] \in {"qk", "pv"}
    BY <2>3, Reads DEF Reading
  <2>4. CASE pc[w] = "end"
    <3>1. turn[w] = RG!Turns
      BY <2>4, Stands DEF Place
    <3>2. ASSUME kern = "fused", NEW v \in RG!Warps PROVE sm[v] = RG!Stripe(v)
      <4>1. Passed(w) = 2 * RG!Turns + 2
        BY <2>4, <3>1, <3>2, Stands DEF Passed, PerTurn
      <4>2. Passed(w) <= Arrived(v)
        BY Stands DEF RingInv, Fenced
      <4>3. /\ turn[v] \in Nat /\ RG!Turns \in Nat
            /\ pc[v] \in {"prime", "primed"} => Arrived(v) \in {0, 1}
            /\ pc[v] \in {"wait", "dump"} => Arrived(v) = 2 * turn[v] + 1
            /\ pc[v] \in {"sync", "load", "qk", "pv"} => Arrived(v) = 2 * turn[v] + 2
            /\ pc[v] = "turn" => Arrived(v) = 2 * turn[v] + 3
        BY <3>2, Stands DEF Passed, Arrived, PerTurn, Behind, Waiting
      <4>4. /\ pc[v] \in {"wait", "sync", "load", "qk", "pv", "turn"} => turn[v] < RG!Turns
            /\ pc[v] \in {"dump", "combine", "end"} => turn[v] = RG!Turns
            /\ pc[v] \in {"prime", "primed", "wait", "sync", "load", "qk", "pv", "turn",
                          "dump", "combine", "end"}
        BY <3>2, Stands DEF Place, Phases, Behind
      <4>5. ~(pc[v] \in {"prime", "primed", "wait", "dump", "sync", "load", "qk", "pv", "turn"})
        BY <4>1, <4>2, <4>3, <4>4
      <4>6. turn[v] = RG!Turns /\ pc[v] \in {"combine", "end"}
        BY <4>4, <4>5
      <4> QED BY <2>2, <3>2, <4>6
    <3> QED BY <2>2, <2>4, <3>1, <3>2
  <2> QED BY <2>3, <2>4
<1> QED BY <1>1, <1>2, <1>3, PTL DEF Spec
-----------------------------------------------------------------------------
(* Arm "lane": what a layer defers, and what is roped.                     *)

LaneTypes ==
  /\ conf \in Confs /\ layer \in LN!LayerIds
  /\ at \in {"idle", "op", "hook", "forward", "decode", "decoded"}
  /\ kind \in {"dummy", "capture", "decode", "mixed", "prefill"}
  /\ boot \in {"cold", "warm", "serving"}
  /\ mark \in [LN!LayerIds -> BOOLEAN] /\ scale \in BOOLEAN /\ armed \in BOOLEAN
  /\ at = "idle" => layer = 0

\* The projection and the write that a layer defers are its own, on the co lane
\* and in a pass of one token only, and the mark says whether there are any.
DeferInv ==
  /\ ~failed
  /\ \A l \in LN!LayerIds : mark[l] => l = layer /\ at \in {"hook", "forward"}
  /\ mark[layer] => LN!CO /\ LN!OneToken
  /\ at \in {"hook", "forward"} => proj = IF mark[layer] THEN layer ELSE None
  /\ at = "forward" => write = proj
  /\ at # "forward" => write = None
  /\ at \notin {"hook", "forward"} => proj = None

\* A stash is of this layer, and its decode launch will take it along; what
\* arms the hook is cleared by the hook of the last layer.
StashInv ==
  /\ LN!CO \/ at = "idle" => ~armed
  /\ armed /\ mql = 1 /\ nreq = 1 => LN!OneToken /\ reqs = 1
  /\ armed /\ at \in {"forward", "decode", "decoded"} => layer # Layers - 1
  /\ stash # None =>
       at = "forward" /\ stash.layer = layer /\ LN!OneToken /\ reqs = 1 /\ ~LN!CO

LaneInv == LaneTypes /\ DeferInv /\ StashInv

\* The co lane of an engine that warms up absorbs every decode; a query that is
\* not absorbed is roped in place, unless NOROPE leaves that to the scorer.
RopeInv ==
  /\ at # "idle" /\ kind \notin {"dummy", "capture"} => boot = "serving"
  /\ at # "idle" /\ kind = "mixed" => ~conf.norope
  /\ LN!CO /\ boot # "cold" =>
       scale \/ (kind = "capture" /\ layer = 0 /\ at \in {"op", "hook", "forward"})
  /\ at \in {"hook", "forward"} =>
       IF mark[layer] THEN score = LN!Query(1) /\ qrope = LN!Query(1)
       ELSE /\ q = IF conf.norope THEN 0 ELSE 1
            /\ ~(LN!CO /\ kind = "decode")
  /\ LN!QOnce

\* An engine that serves co captures its graphs before it serves.
Warmed == \A c \in Confs : c.lane = "co" => c.graphs

LEMMA LaneInit ==
  ASSUME LN!Init
  PROVE  LaneInv /\ RopeInv
<1>1. 0 \in LN!LayerIds
  BY LaneAssumption DEF LN!AttendConstants, LN!LayerIds
<1>2. LaneTypes
  BY <1>1 DEF LN!Init, LaneTypes
<1>3. DeferInv /\ StashInv
  BY <1>1 DEF LN!Init, DeferInv, StashInv
<1>4. RopeInv
  BY DEF LN!Init, RopeInv, LN!QOnce
<1> QED BY <1>2, <1>3, <1>4 DEF LaneInv

\* A pass enters: nothing was left behind, and the write hook is armed for what
\* this pass is, if it has metadata.
LEMMA LaneEnter ==
  ASSUME LaneInv, NEW k, NEW n, LN!Enter(k, n),
         k \in {"dummy", "capture", "decode", "mixed", "prefill"},
         boot' \in {"cold", "warm", "serving"},
         \/ UNCHANGED <<armed, mql, nreq>>
         \/ LN!BeginStep(k, n)
  PROVE  LaneInv'
<1>1. /\ at = "idle" /\ kind' = k /\ reqs' = n /\ at' = "op"
      /\ UNCHANGED <<conf, layer, scale, q, score, used, mark, proj, write, stash, failed>>
  BY DEF LN!Enter
<1>2. LaneTypes /\ DeferInv /\ StashInv /\ ~armed
  BY <1>1 DEF LaneInv, StashInv
<1>3. \/ UNCHANGED <<armed, mql, nreq>>
      \/ /\ ~LN!CO /\ armed' = TRUE /\ nreq' = n
         /\ mql' = IF k \in {"decode", "capture"} THEN 1 ELSE 2
  BY DEF LN!BeginStep
<1>4. LN!CO' = LN!CO /\ armed' \in BOOLEAN
  BY <1>1, <1>2, <1>3 DEF LN!CO, LaneTypes
<1>5. LaneTypes'
  BY <1>1, <1>2, <1>4 DEF LaneTypes, LN!LayerIds
<1>6. DeferInv'
  BY <1>1, <1>2 DEF DeferInv, LN!LayerIds, LaneTypes
<1>7. StashInv'
  BY <1>1, <1>2, <1>3, <1>4 DEF StashInv, LN!OneToken
<1> QED BY <1>5, <1>6, <1>7 DEF LaneInv

LEMMA LaneServe ==
  ASSUME LaneInv, LN!Dummy \/ LN!Capture
                  \/ (\E k \in {"decode", "mixed", "prefill"}, n \in LN!Reqs : LN!Serve(k, n))
  PROVE  LaneInv'
<1>1. CASE LN!Dummy
  BY <1>1, LaneEnter DEF LN!Dummy, LaneInv, LaneTypes
<1>2. CASE LN!Capture
  BY <1>2, LaneEnter DEF LN!Capture
<1>3. ASSUME NEW k \in {"decode", "mixed", "prefill"}, NEW n \in LN!Reqs, LN!Serve(k, n)
      PROVE  LaneInv'
  BY <1>3, LaneEnter DEF LN!Serve
<1> QED BY <1>1, <1>2, <1>3

\* The op of a layer: it defers its projection, or it leaves nothing.
LEMMA LaneOp ==
  ASSUME LaneInv, LN!Absorb \/ LN!Project
  PROVE  LaneInv'
<1>1. at = "op" /\ LaneTypes /\ DeferInv /\ StashInv
  BY DEF LN!Absorb, LN!Project, LaneInv
<1>2. CASE LN!Absorb
  <2>1. /\ LN!CO /\ LN!OneToken /\ proj' = layer /\ at' = "hook"
        /\ UNCHANGED <<failed, conf, boot, kind, reqs, scale, write, stash, armed, mql,
                       nreq, layer>>
        /\ mark' = [mark EXCEPT ![layer] = TRUE]
    BY <1>1, <1>2 DEF LN!Absorb, LN!ArmProj, DeferInv
  <2>2. LN!CO' = LN!CO /\ LN!OneToken' = LN!OneToken /\ LN!LayerIds' = LN!LayerIds
    BY <2>1 DEF LN!CO, LN!OneToken, LN!LayerIds
  <2>3. LaneTypes'
    BY <1>1, <2>1, <2>2 DEF LaneTypes
  <2>4. DeferInv'
    BY <1>1, <2>1, <2>2 DEF LaneTypes, DeferInv
  <2>5. StashInv'
    BY <1>1, <2>1, <2>2 DEF StashInv
  <2> QED BY <2>3, <2>4, <2>5 DEF LaneInv
<1>3. CASE LN!Project
  <2>1. /\ at' = "hook"
        /\ UNCHANGED <<failed, conf, boot, kind, reqs, scale, mark, proj, write, stash,
                       armed, mql, nreq, layer>>
    BY <1>3 DEF LN!Project
  <2>2. LN!CO' = LN!CO /\ LN!OneToken' = LN!OneToken /\ LN!LayerIds' = LN!LayerIds
    BY <2>1 DEF LN!CO, LN!OneToken, LN!LayerIds
  <2>3. LaneTypes'
    BY <1>1, <2>1, <2>2 DEF LaneTypes
  <2>4. DeferInv'
    BY <1>1, <2>1, <2>2 DEF LaneTypes, DeferInv
  <2>5. StashInv'
    BY <1>1, <2>1, <2>2 DEF StashInv
  <2> QED BY <2>3, <2>4, <2>5 DEF LaneInv
<1> QED BY <1>2, <1>3

\* The hook: the write pairs with the projection, or the row is stashed for a
\* decode launch that is sure to take it.
LEMMA LaneHook ==
  ASSUME LaneInv, LN!HookCO \/ LN!HookMem
  PROVE  LaneInv'
<1>1. at = "hook" /\ LaneTypes /\ DeferInv /\ StashInv
  BY DEF LN!HookCO, LN!HookMem, LaneInv
<1>2. CASE LN!HookCO
  <2>1. /\ at' = "forward" /\ write' = proj /\ LN!CO
        /\ UNCHANGED <<failed, conf, boot, kind, reqs, scale, mark, proj, stash,
                       armed, mql, nreq, layer>>
    BY <1>1, <1>2 DEF LN!HookCO, LN!ArmWrite, DeferInv
  <2>2. LN!CO' = LN!CO /\ LN!OneToken' = LN!OneToken /\ LN!LayerIds' = LN!LayerIds
    BY <2>1 DEF LN!CO, LN!OneToken, LN!LayerIds
  <2>3. LaneTypes'
    BY <1>1, <2>1, <2>2 DEF LaneTypes
  <2>4. DeferInv'
    BY <1>1, <2>1, <2>2 DEF DeferInv
  <2>5. StashInv'
    BY <1>1, <2>1, <2>2 DEF StashInv
  <2> QED BY <2>3, <2>4, <2>5 DEF LaneInv
<1>3. CASE LN!HookMem
  <2>1. /\ at' = "forward" /\ ~LN!CO /\ armed' = (armed /\ layer # Layers - 1)
        /\ stash' = IF armed /\ mql = 1 /\ nreq = 1
                    THEN [layer |-> layer, ropes |-> q] ELSE stash
        /\ UNCHANGED <<failed, conf, boot, kind, reqs, scale, mark, proj, write, mql,
                       nreq, layer>>
    BY <1>1, <1>3 DEF LN!HookMem, StashInv
  <2>2. LN!CO' = LN!CO /\ LN!OneToken' = LN!OneToken /\ LN!LayerIds' = LN!LayerIds
        /\ ~mark[layer]
    BY <1>1, <2>1 DEF LN!CO, LN!OneToken, LN!LayerIds, DeferInv
  <2>3. LaneTypes'
    BY <1>1, <2>1, <2>2 DEF LaneTypes
  <2>4. DeferInv'
    BY <1>1, <2>1, <2>2 DEF DeferInv
  <2>5. stash' = stash \/ stash'.layer = layer
    BY <2>1
  <2>6. StashInv'
    BY <1>1, <2>1, <2>2, <2>5 DEF StashInv
  <2> QED BY <2>3, <2>4, <2>6 DEF LaneInv
<1> QED BY <1>2, <1>3

\* The select consumes the mark and flushes what the layer deferred.
LEMMA LaneSelect ==
  ASSUME LaneInv, at = "forward", NEW pre, LN!Select(pre)
  PROVE  /\ ~failed' /\ proj' = None /\ write' = None /\ scale' = (scale \/ LN!CO)
         /\ mark' \in [LN!LayerIds -> BOOLEAN] /\ \A l \in LN!LayerIds : ~mark'[l]
         /\ IF mark[layer] THEN UNCHANGED <<score, qrope>> ELSE LN!Score(pre)
<1>1. LaneTypes /\ DeferInv
  BY DEF LaneInv
<1>2. scale' = (scale \/ LN!CO)
  BY DEF LN!Select
<1>3. CASE mark[layer]
  <2>1. /\ mark' = [mark EXCEPT ![layer] = FALSE] /\ UNCHANGED <<score, qrope>>
        /\ failed' = ~(proj = layer /\ write = layer) /\ proj' = None /\ write' = None
    BY <1>3 DEF LN!Select, LN!Consume, LN!Flush
  <2>2. proj = layer /\ write = layer
    BY <1>1, <1>3 DEF DeferInv
  <2>3. \A l \in LN!LayerIds : ~mark'[l]
    BY <1>1, <2>1 DEF DeferInv, LaneTypes
  <2> QED BY <1>1, <1>2, <1>3, <2>1, <2>2, <2>3 DEF LaneTypes
<1>4. CASE ~mark[layer]
  <2>1. LN!Score(pre) /\ UNCHANGED <<mark, failed, proj, write>>
    BY <1>4 DEF LN!Select, LN!Consume
  <2>2. proj = None /\ write = None
    BY <1>1, <1>4 DEF DeferInv
  <2> QED BY <1>1, <1>2, <1>4, <2>1, <2>2 DEF LaneTypes, DeferInv
<1> QED BY <1>3, <1>4

\* The decode takes the stash along.
LEMMA LaneForward ==
  ASSUME LaneInv, LN!ForwardDecode \/ LN!ForwardMixed
  PROVE  LaneInv' /\ at' \in {"decode", "decoded"}
<1> DEFINE n == IF LN!OneToken THEN reqs ELSE 1
<1>1. /\ at = "forward" /\ (\E pre : LN!Select(pre)) /\ LN!Decode(n)
      /\ (LN!OneToken \/ kind = "mixed")
      /\ UNCHANGED <<conf, boot, kind, reqs, armed, mql, nreq, layer>>
  BY DEF LN!ForwardDecode, LN!ForwardMixed, LN!OneToken
<1>2. LaneTypes /\ DeferInv /\ StashInv
  BY DEF LaneInv
<1>3. /\ ~failed' /\ proj' = None /\ write' = None /\ scale' = (scale \/ LN!CO)
      /\ mark' \in [LN!LayerIds -> BOOLEAN] /\ \A l \in LN!LayerIds : ~mark'[l]
  BY <1>1, LaneSelect
<1>4. at' \in {"decode", "decoded"} /\ stash' = None
  <2>1. /\ at' \in {"decode", "decoded"}
        /\ stash' = IF LN!K8(n) /\ stash # None /\ stash.layer = layer
                    THEN None ELSE stash
    BY <1>1, <1>3 DEF LN!Decode
  <2>2. stash # None => LN!K8(n) /\ stash.layer = layer
    BY <1>1, <1>2 DEF StashInv, LN!K8
  <2> QED BY <2>1, <2>2
<1>5. LN!CO' = LN!CO /\ LN!OneToken' = LN!OneToken /\ LN!LayerIds' = LN!LayerIds
  BY <1>1 DEF LN!CO, LN!OneToken, LN!LayerIds
<1>6. LaneTypes'
  BY <1>1, <1>2, <1>3, <1>4, <1>5 DEF LaneTypes
<1>7. DeferInv'
  BY <1>1, <1>2, <1>3, <1>4, <1>5 DEF DeferInv, LaneTypes
<1>8. StashInv'
  BY <1>1, <1>2, <1>4, <1>5 DEF StashInv
<1> QED BY <1>4, <1>6, <1>7, <1>8 DEF LaneInv

\* A pass without decode rows has nothing to select, and nothing deferred.
LEMMA LaneDense ==
  ASSUME LaneInv, LN!ForwardDense
  PROVE  LaneInv' /\ at' = "decoded"
<1>1. /\ at = "forward" /\ LaneTypes /\ DeferInv /\ StashInv
      /\ kind \in {"prefill", "dummy"}
      /\ failed' = (kind = "dummy" /\ (proj # None \/ write # None))
      /\ at' = IF failed' THEN "stopped" ELSE "decoded"
      /\ UNCHANGED <<conf, boot, kind, reqs, scale, mark, proj, write, stash, armed, mql,
                     nreq, layer>>
  BY DEF LN!ForwardDense, LaneInv
<1>2. LN!CO' = LN!CO /\ LN!OneToken' = LN!OneToken /\ LN!LayerIds' = LN!LayerIds
      /\ ~LN!OneToken
  BY <1>1 DEF LN!CO, LN!OneToken, LN!LayerIds
<1>3. ~mark[layer] /\ proj = None /\ write = None /\ stash = None
  BY <1>1, <1>2 DEF DeferInv, StashInv
<1>4. ~failed' /\ at' = "decoded"
  BY <1>1, <1>3
<1>5. LaneTypes'
  BY <1>1, <1>2, <1>4 DEF LaneTypes
<1>6. DeferInv'
  BY <1>1, <1>2, <1>3, <1>4 DEF DeferInv
<1>7. StashInv'
  BY <1>1, <1>2, <1>3, <1>4 DEF StashInv
<1> QED BY <1>4, <1>5, <1>6, <1>7 DEF LaneInv

\* The launch and its merge leave the host's state alone.
LEMMA LaneLaunch ==
  ASSUME LaneInv, LN!DecodeCTA \/ LN!EndDecode
  PROVE  LaneInv' /\ at = "decode" /\ at' \in {"decode", "decoded"}
<1>1. /\ at = "decode" /\ at' \in {"decode", "decoded"}
      /\ UNCHANGED <<conf, boot, kind, reqs, scale, mark, proj, write, stash, armed, mql,
                     nreq, failed, layer>>
  BY DEF LN!DecodeCTA, LN!EndDecode, LN!host, host
<1>2. LN!CO' = LN!CO /\ LN!OneToken' = LN!OneToken /\ LN!LayerIds' = LN!LayerIds
  BY <1>1 DEF LN!CO, LN!OneToken, LN!LayerIds
<1>3. LaneTypes'
  BY <1>1, <1>2 DEF LaneTypes, LaneInv
<1>4. DeferInv'
  BY <1>1, <1>2 DEF DeferInv, LaneInv
<1>5. StashInv'
  BY <1>1, <1>2 DEF StashInv, LaneInv
<1> QED BY <1>1, <1>3, <1>4, <1>5 DEF LaneInv

LEMMA LaneNextLayer ==
  ASSUME LaneInv, LN!NextLayer
  PROVE  LaneInv'
<1>1. /\ at = "decoded" /\ LaneTypes /\ DeferInv /\ StashInv
      /\ IF layer = Layers - 1 THEN at' = "idle" /\ layer' = 0
         ELSE at' = "op" /\ layer' = layer + 1
      /\ UNCHANGED <<conf, boot, kind, reqs, scale, mark, proj, write, stash, armed, mql,
                     nreq, failed>>
  BY DEF LN!NextLayer, LaneInv
<1>2. LN!CO' = LN!CO /\ LN!OneToken' = LN!OneToken /\ LN!LayerIds' = LN!LayerIds
  BY <1>1 DEF LN!CO, LN!OneToken, LN!LayerIds
<1>3. layer' \in LN!LayerIds
  <2>1. Layers \in Nat \ {0} /\ layer \in 0 .. Layers - 1
    BY <1>1, LaneAssumption DEF LaneTypes, LN!LayerIds, LN!AttendConstants
  <2>2. layer' \in 0 .. Layers - 1
    BY <1>1, <2>1
  <2> QED BY <2>2 DEF LN!LayerIds
<1>4. LaneTypes'
  BY <1>1, <1>2, <1>3 DEF LaneTypes
<1>5. DeferInv'
  BY <1>1, <1>2, <1>3 DEF DeferInv
<1>6. StashInv'
  BY <1>1, <1>2, <1>3 DEF StashInv
<1> QED BY <1>4, <1>5, <1>6 DEF LaneInv
\* What is roped, step by step.
LEMMA RopeServe ==
  ASSUME Warmed, LaneInv, RopeInv,
         LN!Dummy \/ LN!Capture \/ (\E n \in LN!Reqs : LN!Serve("decode", n))
         \/ LN!Serve("mixed", 2) \/ LN!Serve("prefill", 1)
  PROVE  RopeInv'
<1>1. PICK k \in {"dummy", "capture", "decode", "mixed", "prefill"} :
        /\ at = "idle" /\ at' = "op" /\ kind' = k /\ UNCHANGED <<conf, layer, scale, mark>>
        /\ k = "dummy" => boot' = boot
        /\ k = "capture" => boot' = "warm"
        /\ k \notin {"dummy", "capture"} => boot' = "serving" /\ (conf.graphs => boot # "cold")
        /\ k = "mixed" => ~conf.norope
  BY DEF LN!Dummy, LN!Capture, LN!Serve, LN!Enter
<1>2. layer = 0 /\ conf \in Confs
  BY <1>1 DEF LaneInv, LaneTypes
<1>3. LN!CO' = LN!CO /\ (LN!CO => conf.graphs)
  BY <1>1, <1>2 DEF LN!CO, Warmed
<1>4. LN!CO /\ boot # "cold" => scale
  BY <1>1 DEF RopeInv
<1> QED BY <1>1, <1>2, <1>3, <1>4 DEF RopeInv, LN!QOnce

LEMMA RopeOp ==
  ASSUME LaneInv, RopeInv, LN!Absorb \/ LN!Project
  PROVE  RopeInv'
<1>1. /\ at = "op" /\ at' = "hook"
      /\ UNCHANGED <<conf, boot, kind, scale, len, layer>>
  BY DEF LN!Absorb, LN!Project, LN!ArmProj, LN!cache, LaneInv, DeferInv
<1>2. LN!CO' = LN!CO /\ LN!Query(1)' = LN!Query(1)
  BY <1>1 DEF LN!CO, LN!Query
<1>3. CASE LN!Absorb
  <2>1. score' = LN!Query(1) /\ qrope' = LN!Query(1) /\ mark'[layer]
    BY <1>3 DEF LN!Absorb, LaneInv, LaneTypes
  <2> QED BY <1>1, <1>2, <2>1 DEF RopeInv, LN!QOnce
<1>4. CASE LN!Project
  <2>1. /\ q' = IF conf.norope THEN 0 ELSE 1
        /\ mark' = mark /\ ~mark[layer]
        /\ ~(LN!CO /\ LN!OneToken /\ scale)
    BY <1>1, <1>4 DEF LN!Project, LaneInv, LaneTypes, DeferInv
  <2>2. ~(LN!CO /\ kind = "decode")
    BY <1>1, <2>1 DEF RopeInv, LN!OneToken
  <2> QED BY <1>1, <1>2, <2>1, <2>2 DEF RopeInv, LN!QOnce
<1> QED BY <1>3, <1>4

LEMMA RopeHook ==
  ASSUME LaneInv, RopeInv, LN!HookCO \/ LN!HookMem
  PROVE  RopeInv'
<1>1. /\ at = "hook" /\ at' = "forward"
      /\ UNCHANGED <<conf, boot, kind, scale, len, layer, mark, score, qrope, q>>
  <2>1. at = "hook" => write = None /\ stash = None
    BY DEF LaneInv, DeferInv, StashInv
  <2> QED BY <2>1 DEF LN!HookCO, LN!HookMem, LN!ArmWrite
<1>2. LN!CO' = LN!CO /\ LN!Query(1)' = LN!Query(1)
  BY <1>1 DEF LN!CO, LN!Query
<1> QED BY <1>1, <1>2 DEF RopeInv, LN!QOnce

\* The decode reads what the score was made of: what the op absorbed, or what
\* the prelude roped, or what came roped.
LEMMA RopeForward ==
  ASSUME LaneInv, RopeInv, LN!ForwardDecode \/ LN!ForwardMixed
  PROVE  RopeInv'
<1>1. /\ at = "forward" /\ at' \in {"decode", "decoded"} /\ scale' = (scale \/ LN!CO)
      /\ UNCHANGED <<conf, boot, kind, len, layer, q>>
  <2>1. at = "forward" /\ \E pre : LN!Select(pre)
    BY DEF LN!ForwardDecode, LN!ForwardMixed
  <2>2. scale' = (scale \/ LN!CO)
    BY <2>1, LaneSelect
  <2>3. UNCHANGED <<conf, boot, kind, len, layer, q>>
    BY DEF LN!ForwardDecode, LN!ForwardMixed
  <2> QED BY <2>1, <2>2, <2>3, LaneForward
<1>2. LN!CO' = LN!CO /\ LN!Query(1)' = LN!Query(1) /\ LN!Ours' = LN!Ours
  BY <1>1 DEF LN!CO, LN!Query, LN!Ours
<1>3. ASSUME LN!Ours PROVE score' = LN!Query(1) /\ used' = LN!Query(1)
  <2>1. CASE LN!ForwardDecode
    <3> DEFINE absorbed == LN!CO \/ conf.norope
    <3>1. /\ LN!Select(~absorbed) /\ used' = IF absorbed THEN qrope' ELSE LN!Query(q)
          /\ kind = "decode"
      BY <1>3, <2>1 DEF LN!ForwardDecode, LN!OneToken, LN!Ours
    <3>2. CASE mark[layer]
      <4>1. UNCHANGED <<score, qrope>> /\ score = LN!Query(1) /\ qrope = LN!Query(1)
        BY <1>1, <3>1, <3>2, LaneSelect DEF RopeInv
      <4>2. LN!CO
        BY <3>2 DEF LaneInv, DeferInv
      <4> QED BY <3>1, <4>1, <4>2
    <3>3. CASE ~mark[layer]
      <4>1. LN!Score(~absorbed) /\ ~LN!CO /\ q = IF conf.norope THEN 0 ELSE 1
        BY <1>1, <3>1, <3>3, LaneSelect DEF RopeInv
      <4>2. CASE conf.norope
        <5>1. q + 1 = 1
          BY <4>1, <4>2
        <5>2. score' = LN!Query(1) /\ qrope' = LN!Query(1)
          BY <4>1, <4>2, <5>1 DEF LN!Score
        <5> QED BY <3>1, <4>2, <5>2
      <4>3. CASE ~conf.norope
        <5>1. score' = LN!Query(1) /\ q = 1
          BY <4>1, <4>3 DEF LN!Score
        <5> QED BY <3>1, <4>1, <4>3, <5>1
      <4> QED BY <4>2, <4>3
    <3> QED BY <3>2, <3>3
  <2>2. CASE LN!ForwardMixed
    <3>1. /\ kind = "mixed" /\ LN!Select(~conf.norope)
          /\ used' = IF conf.norope THEN qrope' ELSE LN!Query(q)
      BY <2>2 DEF LN!ForwardMixed
    <3>2. ~mark[layer] /\ ~conf.norope
      BY <1>1, <3>1 DEF LaneInv, DeferInv, LN!OneToken, RopeInv
    <3>3. LN!Score(~conf.norope) /\ q = 1
      BY <1>1, <3>1, <3>2, LaneSelect DEF RopeInv
    <3>4. score' = LN!Query(1)
      BY <3>2, <3>3 DEF LN!Score
    <3> QED BY <3>1, <3>2, <3>3, <3>4
  <2> QED BY <2>1, <2>2
<1>4. LN!QOnce'
  BY <1>1, <1>2, <1>3 DEF LN!QOnce
<1> QED BY <1>1, <1>2, <1>4 DEF RopeInv

LEMMA RopeRest ==
  ASSUME LaneInv, RopeInv,
         LN!ForwardDense \/ LN!DecodeCTA \/ LN!EndDecode \/ LN!NextLayer
  PROVE  RopeInv'
<1>1. CASE LN!ForwardDense
  <2>1. /\ at = "forward" /\ at' = "decoded" /\ kind \in {"prefill", "dummy"}
        /\ UNCHANGED <<conf, boot, kind, scale, layer>>
    BY <1>1, LaneDense DEF LN!ForwardDense
  <2>2. LN!CO' = LN!CO /\ ~LN!Ours'
    BY <2>1 DEF LN!CO, LN!Ours
  <2> QED BY <2>1, <2>2 DEF RopeInv, LN!QOnce
<1>2. CASE LN!DecodeCTA \/ LN!EndDecode
  <2>1. /\ at = "decode" /\ at' \in {"decode", "decoded"}
        /\ UNCHANGED <<conf, boot, kind, scale, layer, score, used, len>>
    BY <1>2, LaneLaunch DEF LN!DecodeCTA, LN!EndDecode, LN!host, host, LN!cache
  <2>2. LN!CO' = LN!CO /\ LN!Ours' = LN!Ours /\ LN!Query(1)' = LN!Query(1)
    BY <2>1 DEF LN!CO, LN!Ours, LN!Query
  <2> QED BY <2>1, <2>2 DEF RopeInv, LN!QOnce
<1>3. CASE LN!NextLayer
  <2>1. /\ at = "decoded" /\ at' \in {"idle", "op"}
        /\ UNCHANGED <<conf, boot, kind, scale>>
    BY <1>3 DEF LN!NextLayer
  <2>2. LN!CO' = LN!CO
    BY <2>1 DEF LN!CO
  <2> QED BY <2>1, <2>2 DEF RopeInv, LN!QOnce
<1> QED BY <1>1, <1>2, <1>3

-----------------------------------------------------------------------------
(* The host pipeline of the lane arm.                                      *)

LEMMA LaneStep ==
  ASSUME LaneInv, LN!Next
  PROVE  LaneInv'
BY LaneServe, LaneOp, LaneHook, LaneForward, LaneDense, LaneLaunch, LaneNextLayer
   DEF LN!Next, LN!Reqs

LEMMA RopeStep ==
  ASSUME Warmed, LaneInv, RopeInv, LN!Next
  PROVE  RopeInv'
BY RopeServe, RopeOp, RopeHook, RopeForward, RopeRest DEF LN!Next

LEMMA LaneStutter ==
  ASSUME UNCHANGED vars
  PROVE  (LaneInv => LaneInv') /\ (RopeInv => RopeInv')
<1>1. UNCHANGED <<host, layer, len>>
  BY DEF vars, onlyLane
<1>2. LN!CO' = LN!CO /\ LN!OneToken' = LN!OneToken /\ LN!LayerIds' = LN!LayerIds
      /\ LN!Ours' = LN!Ours /\ LN!Query(1)' = LN!Query(1)
  BY <1>1 DEF LN!CO, LN!OneToken, LN!LayerIds, LN!Ours, LN!Query, host
<1>3. LaneInv => LaneInv'
  BY <1>1, <1>2 DEF LaneInv, LaneTypes, DeferInv, StashInv, host
<1>4. RopeInv => RopeInv'
  BY <1>1, <1>2 DEF RopeInv, LN!QOnce, host
<1> QED BY <1>3, <1>4

\* Nothing a layer defers outlives it, and no assertion about a stale or
\* mispaired projection, write or stash fires: in every engine, for any number
\* of layers and whatever passes follow one another.
THEOREM DecodeDefers == Spec => []Deferred
<1> DEFINE Inv == arm = "lane" => LaneInv
<1>1. Init => Inv
  BY LaneInit DEF Init
<1>2. Inv /\ [Next]_vars => Inv'
  <2> SUFFICES ASSUME Inv, [Next]_vars PROVE Inv'
    OBVIOUS
  <2>1. CASE arm = "lane" /\ LN!Next /\ UNCHANGED <<arm, onlyRing>>
    BY <2>1, LaneStep
  <2>2. CASE arm = "ring" /\ RG!Next /\ UNCHANGED <<arm, onlyLane>>
    BY <2>2
  <2>3. CASE UNCHANGED vars
    BY <2>3, LaneStutter DEF vars
  <2> QED BY <2>1, <2>2, <2>3 DEF Next
<1>3. Inv => Deferred
  <2> SUFFICES ASSUME LaneInv PROVE LN!Deferred
    BY DEF Deferred
  <2> QED BY DEF LaneInv, DeferInv, StashInv, LN!Deferred
<1> QED BY <1>1, <1>2, <1>3, PTL DEF Spec

\* The score and the query of a decode are of its token and layer and roped
\* once, when every co engine captures its graphs before it serves.
THEOREM DecodeRopesOnce == Warmed => (Spec => []QOnce)
<1> SUFFICES ASSUME Warmed PROVE Spec => []QOnce
  OBVIOUS
<1> DEFINE Inv == arm = "lane" => LaneInv /\ RopeInv
<1>1. Init => Inv
  BY LaneInit DEF Init
<1>2. Inv /\ [Next]_vars => Inv'
  <2> SUFFICES ASSUME Inv, [Next]_vars PROVE Inv'
    OBVIOUS
  <2>1. CASE arm = "lane" /\ LN!Next /\ UNCHANGED <<arm, onlyRing>>
    BY <2>1, LaneStep, RopeStep
  <2>2. CASE arm = "ring" /\ RG!Next /\ UNCHANGED <<arm, onlyLane>>
    BY <2>2
  <2>3. CASE UNCHANGED vars
    BY <2>3, LaneStutter DEF vars
  <2> QED BY <2>1, <2>2, <2>3 DEF Next
<1>3. Inv => QOnce
  BY DEF QOnce, RopeInv
<1> QED BY <1>1, <1>2, <1>3, PTL DEF Spec
-----------------------------------------------------------------------------
(* Arm "lane": what a launch attends, and what it claims.                  *)

\* The tokens of the request, and its pages, are within their bounds.
LengthInv ==
  /\ len \in Nat /\ 1 <= len /\ len <= Prompt + steps
  /\ steps \in Nat /\ steps <= MaxSteps
  /\ at # "idle" /\ kind = "decode" => reqs \in LN!Reqs

\* The query that a deferred row is roped with by whoever writes it.
StashRopes ==
  /\ at \in {"hook", "forward"} => q = IF mark[layer] \/ conf.norope THEN 0 ELSE 1
  /\ stash # None => stash.ropes = q

\* The row of the pass's token is in place on a layer once its write is done.
Wrote(l) ==
  \/ at = "idle" \/ ~LN!Ours \/ l < layer
  \/ l = layer /\ \/ at = "forward" /\ ~mark[layer] /\ stash = None
                  \/ at = "decode" /\ ~launch.scat
                  \/ at = "decoded"

RowsInv ==
  /\ DOMAIN rows = LN!LayerIds
  /\ \A l \in LN!LayerIds : DOMAIN rows[l] = Heads
  /\ \A l \in LN!LayerIds, h \in Heads :
       /\ 0 .. len - 2 \subseteq rows[l][h]
       /\ Wrote(l) => len - 1 \in rows[l][h]

\* The page table of the launch: ascending pages, the last one the tail page.
TableInv ==
  \A u \in LN!Units :
    /\ table[u] \in Seq(Nat)
    /\ \A i, j \in 1 .. LN!Cnt(u) : i < j => table[u][i] < table[u][j]
    /\ u[1] = 1 => LN!Cnt(u) >= 1 /\ table[u][LN!Cnt(u)] = LN!TailPage
    /\ u[1] = 2 => LN!Cnt(u) = 0

\* The first n pages of a CTA's chunk, whole.
Chunk(u, sp, n) == [i \in 1 .. n |-> LN!Whole(table[u][LN!Start(u, sp) + i])]
All(u, sp) == Chunk(u, sp, LN!Stop(u, sp) - LN!Start(u, sp))

\* How far a CTA is: its accumulator, then its partial, is of its own chunk.
CtaInv(u, sp) ==
  LET at1 == pc[u][sp] IN
  /\ at1 \in {"begin", "loop", "store", "ticket", "done"}
  /\ at1 # "done" => u[1] <= launch.reqs
  /\ at1 = "begin" => acc[u][sp] = <<>>
  /\ at1 \in {"loop", "store", "ticket"} => LN!Start(u, sp) < LN!Cnt(u)
  /\ at1 = "loop" => /\ pos[u][sp] \in Nat
                     /\ LN!Start(u, sp) <= pos[u][sp] /\ pos[u][sp] < LN!Stop(u, sp)
                     /\ acc[u][sp] = Chunk(u, sp, pos[u][sp] - LN!Start(u, sp))
  /\ at1 = "store" => acc[u][sp] = All(u, sp)
  /\ at1 = "ticket" => launch.fmerge
  /\ at1 \in {"ticket", "done"} /\ u[1] <= launch.reqs /\ LN!Start(u, sp) < LN!Cnt(u)
       => part[u][sp] = All(u, sp)
  /\ launch.scat /\ LN!TailMine(u, sp) /\ at1 # "begin" /\ u[1] <= launch.reqs =>
       len - 1 \in rows[layer][u[2]]

\* The CTAs of a unit that have drawn its ticket.
Active(u) == 0 .. LN!Active(u) - 1
Drawn(u) == {sp \in Active(u) : pc[u][sp] = "done"}

\* The ticket counts the CTAs of the unit that are through; the last one has
\* merged and zeroed it.
UnitInv(u) ==
  /\ ~launch.fmerge \/ u[1] > launch.reqs \/ Active(u) = {} => ctr[u] = 0
  /\ launch.fmerge /\ u[1] <= launch.reqs =>
       IF Drawn(u) = Active(u)
       THEN ctr[u] = 0 /\ (Active(u) # {} \/ pc[u][0] = "done" => out[u] = LN!Merged(u))
       ELSE ctr[u] = Cardinality(Drawn(u))

Attended(u) == out[u] = [sp \in Active(u) |-> All(u, sp)]

\* The grid's variables are arrays over units and their CTAs.
GridShape ==
  /\ DOMAIN pc = LN!Units /\ DOMAIN pos = LN!Units /\ DOMAIN acc = LN!Units
  /\ DOMAIN part = LN!Units /\ DOMAIN ctr = LN!Units /\ DOMAIN out = LN!Units
  /\ \A u \in LN!Units :
       /\ DOMAIN pc[u] = LN!Splits /\ DOMAIN pos[u] = LN!Splits
       /\ DOMAIN acc[u] = LN!Splits /\ DOMAIN part[u] = LN!Splits

Launched ==
  /\ LN!Ours /\ launch.reqs \in LN!Reqs /\ TableInv
  /\ launch.scat => launch.ropes = 1
  /\ launch.scat \in BOOLEAN /\ launch.fmerge \in BOOLEAN
  /\ \A u \in LN!Units : UnitInv(u) /\ \A sp \in LN!Splits : CtaInv(u, sp)

GridInv ==
  /\ GridShape
  /\ at \notin {"decode", "decoded"} => acc = LN!Each(<<>>)
  /\ at # "decode" => \A u \in LN!Units : ctr[u] = 0
  /\ at = "decode" => Launched
  /\ at = "decoded" /\ LN!Ours =>
       /\ launch.reqs \in LN!Reqs /\ TableInv
       /\ \A u \in LN!Units : u[1] <= launch.reqs => Attended(u)

\* Every pending page of the walk so far is in the mailbox, once.
MailInv ==
  /\ DOMAIN p2s = LN!LayerIds
  /\ \A l \in LN!LayerIds : /\ DOMAIN p2s[l] = Heads
                            /\ \A h \in Heads : DOMAIN p2s[l][h] = LN!PageIds
  /\ mails \in Nat
  /\ overflow \in BOOLEAN
  /\ LN!MailExact
-----------------------------------------------------------------------------
(* Numbers: how a table is cut into chunks.                                *)

LEMMA Ceiling ==
  ASSUME NEW a \in Nat, NEW b \in Nat \ {0}
  PROVE  /\ LN!Cdiv(a, b) \in Nat /\ a <= b * LN!Cdiv(a, b) /\ b * LN!Cdiv(a, b) < a + b
         /\ b * LN!Cdiv(a, b) \in Nat
<1> DEFINE c == (a + b - 1) \div b
<1>1. c \in Nat /\ a <= b * c /\ b * c < a + b /\ b * c \in Nat
  OBVIOUS
<1>2. LN!Cdiv(a, b) = c
  BY DEF LN!Cdiv
<1> QED BY <1>1, <1>2

\* p pages a chunk are enough for s chunks, and the chunks with a page are the
\* first ones.
LEMMA Chunks ==
  ASSUME NEW c \in Nat, NEW p \in Nat \ {0}, NEW s \in Nat \ {0}, p >= LN!Cdiv(c, s)
  PROVE  /\ LN!Cdiv(c, p) \in Nat /\ LN!Cdiv(c, p) <= s
         /\ \A k \in Nat : k * p < c <=> k < LN!Cdiv(c, p)
<1> DEFINE a == LN!Cdiv(c, p)
           e == LN!Cdiv(c, s)
<1>1. a \in Nat /\ c <= p * a /\ p * a < c + p /\ e \in Nat /\ c <= s * e
  BY Ceiling
<1>2. p >= e
  OBVIOUS
<1> HIDE DEF a, e
<1>3. a <= s
  <2> SUFFICES ASSUME a >= s + 1 PROVE FALSE
    BY <1>1
  <2>1. p * (s + 1) <= p * a
    BY <1>1
  <2>2. p * (s + 1) = p * s + p
    OBVIOUS
  <2>3. s * e <= s * p /\ s * p = p * s /\ s * e \in Nat /\ s * p \in Nat
    BY <1>1, <1>2
  <2>4. p * a \in Nat
    BY <1>1
  <2> QED BY <1>1, <2>1, <2>2, <2>3, <2>4
<1>4. ASSUME NEW k \in Nat PROVE k * p < c <=> k < a
  <2>1. k * p \in Nat /\ p * a \in Nat
    BY <1>1
  <2>2. CASE k >= a
    <3>1. p * a <= k * p
      BY <1>1, <2>2
    <3> QED BY <1>1, <2>1, <2>2, <3>1
  <2>3. CASE k + 1 <= a
    <3>1. (k + 1) * p <= p * a
      BY <1>1, <2>3
    <3>2. (k + 1) * p = k * p + p
      OBVIOUS
    <3> QED BY <1>1, <2>1, <2>3, <3>1, <3>2
  <2> QED BY <1>1, <2>2, <2>3
<1> QED BY <1>1, <1>3, <1>4 DEF a

\* Each position is in one chunk.
LEMMA ChunkOf ==
  ASSUME NEW p \in Nat \ {0}, NEW i \in Nat \ {0}
  PROVE  /\ \E k \in Nat : k * p < i /\ i <= k * p + p
         /\ \A k, l \in Nat : k * p < i /\ i <= k * p + p /\ l * p < i /\ i <= l * p + p
              => k = l
<1>1. \E k \in Nat : k * p < i /\ i <= k * p + p
  <2> DEFINE k == (i - 1) \div p
  <2>1. k \in Nat /\ p * k <= i - 1 /\ i - 1 < p * k + p
    OBVIOUS
  <2> HIDE DEF k
  <2>2. p * k = k * p /\ k * p \in Nat
    BY <2>1
  <2>3. k * p < i /\ i <= k * p + p
    BY <2>1, <2>2
  <2> QED BY <2>1, <2>3
<1>2. ASSUME NEW k \in Nat, NEW l \in Nat, k < l, l * p < i, i <= k * p + p PROVE FALSE
  <2>1. (k + 1) * p <= l * p /\ (k + 1) * p = k * p + p
    BY <1>2
  <2>2. k * p \in Nat /\ l * p \in Nat
    OBVIOUS
  <2> QED BY <1>2, <2>1, <2>2
<1>3. ASSUME NEW k \in Nat, NEW l \in Nat,
             k * p < i, i <= k * p + p, l * p < i, i <= l * p + p
      PROVE  k = l
  <2>1. ~(k < l) /\ ~(l < k)
    BY <1>2, <1>3
  <2> QED BY <2>1
<1> QED BY <1>1, <1>3

\* The numbers of a unit.
LEMMA UnitNumbers ==
  ASSUME NEW u, LN!Cnt(u) \in Nat
  PROVE  /\ LN!Pps(u) \in Nat \ {0} /\ LN!Active(u) \in Nat /\ LN!Active(u) <= Split
         /\ LN!Cnt(u) = 0 => LN!Active(u) = 0
         /\ \A k \in Nat : /\ LN!Start(u, k) \in Nat /\ LN!Start(u, k) = k * LN!Pps(u)
                           /\ LN!Start(u, k) < LN!Cnt(u) <=> k < LN!Active(u)
<1>1. Split \in Nat \ {0} /\ PpsMin \in Nat \ {0}
  BY LaneAssumption DEF LN!AttendConstants
<1> DEFINE c == LN!Cnt(u)
           e == LN!Cdiv(c, Split)
           p == LN!Pps(u)
<1>2. e \in Nat
  BY <1>1, Ceiling
<1>3. p = IF e > PpsMin THEN e ELSE PpsMin
  BY DEF LN!Pps
<1>4. p \in Nat \ {0} /\ p >= e
  BY <1>1, <1>2, <1>3
<1>5. LN!Active(u) = LN!Cdiv(c, p)
  BY DEF LN!Active
<1> HIDE DEF p
<1>6. /\ LN!Cdiv(c, p) \in Nat /\ LN!Cdiv(c, p) <= Split
      /\ \A k \in Nat : k * p < c <=> k < LN!Cdiv(c, p)
  BY <1>1, <1>4, Chunks
<1>7. \A k \in Nat : k * p \in Nat /\ LN!Start(u, k) = k * p
  BY <1>4 DEF LN!Start, p
<1>8. ASSUME c = 0 PROVE LN!Cdiv(c, p) = 0
  <2>1. 0 * p = 0
    BY <1>4
  <2> QED BY <1>6, <1>8, <2>1
<1> QED BY <1>4, <1>5, <1>6, <1>7, <1>8 DEF p

\* A chunk with a page ends behind its start and within the table.
LEMMA CtaNumbers ==
  ASSUME NEW u, LN!Cnt(u) \in Nat, NEW k \in Nat
  PROVE  /\ LN!Start(u, k) \in Nat /\ LN!Stop(u, k) \in Nat /\ LN!Stop(u, k) <= LN!Cnt(u)
         /\ LN!Stop(u, k) <= LN!Start(u, k) + LN!Pps(u)
         /\ LN!Start(u, k) < LN!Cnt(u) => LN!Start(u, k) < LN!Stop(u, k)
         /\ \A i \in Nat : i <= LN!Cnt(u) =>
              (i <= LN!Stop(u, k) <=> i <= LN!Start(u, k) + LN!Pps(u))
<1> DEFINE s == LN!Start(u, k)
           p == LN!Pps(u)
           c == LN!Cnt(u)
<1>1. s \in Nat /\ p \in Nat \ {0} /\ c \in Nat
  BY UnitNumbers
<1>2. LN!Stop(u, k) = IF s + p < c THEN s + p ELSE c
  BY DEF LN!Stop
<1> HIDE DEF s, p, c
<1>3. LET z == IF s + p < c THEN s + p ELSE c IN
      /\ z \in Nat /\ z <= c /\ z <= s + p /\ (s < c => s < z)
      /\ \A i \in Nat : i <= c => (i <= z <=> i <= s + p)
  BY <1>1
<1> QED BY <1>1, <1>2, <1>3 DEF s, p, c

\* Each position of the table is in the chunk of one CTA.
LEMMA Covered ==
  ASSUME NEW u, LN!Cnt(u) \in Nat, NEW i \in 1 .. LN!Cnt(u)
  PROVE  /\ \E k \in Active(u) : LN!Start(u, k) < i /\ i <= LN!Stop(u, k)
         /\ \A k, l \in Nat :
              LN!Start(u, k) < i /\ i <= LN!Stop(u, k) /\ LN!Start(u, l) < i /\ i <= LN!Stop(u, l)
                => k = l
<1>1. /\ LN!Pps(u) \in Nat \ {0} /\ LN!Active(u) \in Nat /\ i \in Nat \ {0}
      /\ \A k \in Nat : /\ LN!Start(u, k) = k * LN!Pps(u) /\ LN!Start(u, k) \in Nat
                        /\ LN!Start(u, k) < LN!Cnt(u) <=> k < LN!Active(u)
  BY UnitNumbers
<1> DEFINE p == LN!Pps(u)
<1>2. i \in Nat /\ i <= LN!Cnt(u)
  OBVIOUS
<1>3. \A k \in Nat : i <= LN!Stop(u, k) <=> i <= LN!Start(u, k) + p
  BY <1>2, CtaNumbers
<1> HIDE DEF p
<1>4. /\ \E k \in Nat : k * p < i /\ i <= k * p + p
      /\ \A k, l \in Nat : k * p < i /\ i <= k * p + p /\ l * p < i /\ i <= l * p + p
           => k = l
  <2>1. p \in Nat \ {0} /\ i \in Nat \ {0}
    BY <1>1 DEF p
  <2> QED BY ONLY <2>1, ChunkOf, Zenon
<1>5. \A k \in Nat : LN!Start(u, k) = k * p
  BY <1>1 DEF p
<1>6. PICK k \in Nat : LN!Start(u, k) < i /\ i <= LN!Start(u, k) + p
  BY <1>4, <1>5, Zenon
<1>7. k \in Active(u) /\ i <= LN!Stop(u, k)
  BY <1>1, <1>2, <1>3, <1>6 DEF Active
<1>8. ASSUME NEW m \in Nat, NEW l \in Nat,
             LN!Start(u, m) < i, i <= LN!Stop(u, m), LN!Start(u, l) < i, i <= LN!Stop(u, l)
      PROVE  m = l
  <2>1. m * p < i /\ i <= m * p + p
    BY <1>3, <1>5, <1>8, Zenon
  <2>2. l * p < i /\ i <= l * p + p
    BY <1>3, <1>5, <1>8, Zenon
  <2> QED BY <1>4, <2>1, <2>2, Zenon
<1>9. \E m \in Active(u) : LN!Start(u, m) < i /\ i <= LN!Stop(u, m)
  BY <1>6, <1>7
<1>10. \A m, l \in Nat :
         LN!Start(u, m) < i /\ i <= LN!Stop(u, m) /\ LN!Start(u, l) < i /\ i <= LN!Stop(u, l)
           => m = l
  BY <1>8
<1> QED BY <1>9, <1>10
-----------------------------------------------------------------------------
(* Pages and what a sum of them is.                                        *)

\* The pages of the request's tokens, the last one the tail page.
LEMMA Pages ==
  ASSUME LengthInv
  PROVE  /\ LN!TailPage \in Nat /\ 0 .. LN!TailPage \subseteq LN!PageIds
         /\ len <= MaxLen /\ Page \in Nat \ {0}
<1>1. /\ Page \in Nat \ {0} /\ MaxLen \in Nat /\ Prompt \in Nat /\ MaxSteps \in Nat
      /\ Prompt + MaxSteps <= MaxLen
  BY LaneAssumption DEF LN!AttendConstants, LN!LaneConstants
<1>2. len \in Nat /\ 1 <= len /\ len <= MaxLen
  BY <1>1 DEF LengthInv
<1>3. ASSUME NEW a \in Nat, NEW b \in Nat, a <= b
      PROVE  a \div Page \in Nat /\ b \div Page \in Nat /\ a \div Page <= b \div Page
  BY <1>1, <1>3
<1>4. len - 1 \in Nat /\ MaxLen - 1 \in Nat /\ len - 1 <= MaxLen - 1
  BY <1>1, <1>2
<1>5. /\ (len - 1) \div Page \in Nat /\ (MaxLen - 1) \div Page \in Nat
      /\ (len - 1) \div Page <= (MaxLen - 1) \div Page
  BY <1>3, <1>4
<1> QED BY <1>1, <1>2, <1>5 DEF LN!TailPage, LN!PageIds

\* A page read when the row of the last token is in place, if it is of this
\* page, is read whole.
LEMMA SeenWhole ==
  ASSUME LengthInv, NEW R, 0 .. len - 2 \subseteq R, NEW p,
         p = LN!TailPage => len - 1 \in R
  PROVE  <<p, {t \in LN!TokensOf(p) : t < len /\ t \in R}>> = LN!Whole(p)
<1>1. ASSUME NEW t \in LN!TokensOf(p), t < len PROVE t \in R
  <2>1. t \in Nat /\ t \div Page = p /\ len \in Nat
    BY <1>1 DEF LN!TokensOf, LN!Tokens, LengthInv
  <2>2. CASE t = len - 1
    BY <2>1, <2>2 DEF LN!TailPage
  <2>3. CASE t # len - 1
    <3>1. t \in 0 .. len - 2
      BY <1>1, <2>1, <2>3
    <3> QED BY <3>1
  <2> QED BY <2>2, <2>3
<1>2. {t \in LN!TokensOf(p) : t < len /\ t \in R} = {t \in LN!TokensOf(p) : t < len}
  BY <1>1
<1> QED BY <1>2 DEF LN!Whole

\* A sum of the chunks has every page of the table once and whole.
LEMMA SumExact ==
  ASSUME TableInv, NEW u \in LN!Units, Attended(u)
  PROVE  /\ \A a \in LN!Summands(u) :
              \E i \in 1 .. LN!Cnt(u) : LN!Value(u, a) = LN!Whole(table[u][i])
         /\ \A i \in 1 .. LN!Cnt(u) : \E a \in LN!Summands(u) : \A b \in LN!Summands(u) :
              LN!Value(u, b) = LN!Whole(table[u][i]) <=> b = a
<1> DEFINE L(k) == LN!Stop(u, k) - LN!Start(u, k)
<1>1. /\ LN!Cnt(u) \in Nat
      /\ \A i, j \in 1 .. LN!Cnt(u) : i < j => table[u][i] < table[u][j]
      /\ \A i \in 1 .. LN!Cnt(u) : table[u][i] \in Nat
  BY DEF TableInv, LN!Cnt
<1>2. LN!Active(u) \in Nat
  BY <1>1, UnitNumbers
<1>3. \A k \in Active(u) : k \in Nat
  BY <1>2 DEF Active
<1>4. ASSUME NEW k \in Active(u), NEW j \in 1 .. L(k)
      PROVE  LN!Start(u, k) + j \in 1 .. LN!Cnt(u) /\ LN!Start(u, k) < LN!Start(u, k) + j
             /\ LN!Start(u, k) + j <= LN!Stop(u, k) /\ LN!Start(u, k) \in Nat
             /\ j = (LN!Start(u, k) + j) - LN!Start(u, k) /\ j \in Nat
  <2>1. LN!Start(u, k) \in Nat /\ LN!Stop(u, k) \in Nat /\ LN!Stop(u, k) <= LN!Cnt(u)
    BY <1>1, <1>3, CtaNumbers
  <2> QED BY <1>1, <2>1
<1>5. ASSUME NEW k \in Active(u), NEW j \in 1 .. L(k)
      PROVE  /\ <<k, j>> \in LN!Summands(u)
             /\ LN!Value(u, <<k, j>>) = LN!Whole(table[u][LN!Start(u, k) + j])
  <2>1. /\ DOMAIN out[u] = Active(u) /\ out[u][k] = [i \in 1 .. L(k) |->
                                              LN!Whole(table[u][LN!Start(u, k) + i])]
    BY DEF Attended, All, Chunk
  <2>2. out[u][k][j] = LN!Whole(table[u][LN!Start(u, k) + j]) /\ j \in DOMAIN out[u][k]
    BY <2>1
  <2>3. <<k, j>> \in {k} \X DOMAIN out[u][k]
    BY <2>2
  <2> QED BY <2>1, <2>2, <2>3 DEF LN!Summands, LN!Value
<1>6. ASSUME NEW a \in LN!Summands(u)
      PROVE  \E k \in Active(u) : \E j \in 1 .. L(k) : a = <<k, j>>
  <2>1. PICK k \in DOMAIN out[u] : a \in {k} \X DOMAIN out[u][k]
    BY DEF LN!Summands
  <2>2. k \in Active(u) /\ DOMAIN out[u][k] = 1 .. L(k)
    BY DEF Attended, All, Chunk
  <2> QED BY <2>1, <2>2
<1>7. ASSUME NEW i \in 1 .. LN!Cnt(u), NEW j \in 1 .. LN!Cnt(u),
             LN!Whole(table[u][i]) = LN!Whole(table[u][j])
      PROVE  i = j
  <2>1. table[u][i] = table[u][j]
    BY <1>7 DEF LN!Whole
  <2>2. ~(i < j) /\ ~(j < i)
    BY <1>1, <2>1
  <2> QED BY <2>2
<1> HIDE DEF L
<1>8. ASSUME NEW a \in LN!Summands(u)
      PROVE  \E i \in 1 .. LN!Cnt(u) : LN!Value(u, a) = LN!Whole(table[u][i])
  <2>1. PICK k \in Active(u) : \E j \in 1 .. L(k) : a = <<k, j>>
    BY <1>6
  <2>2. PICK j \in 1 .. L(k) : a = <<k, j>>
    BY <2>1
  <2> QED BY <1>4, <1>5, <2>2
<1>9. ASSUME NEW i \in 1 .. LN!Cnt(u)
      PROVE  \E a \in LN!Summands(u) : \A b \in LN!Summands(u) :
               LN!Value(u, b) = LN!Whole(table[u][i]) <=> b = a
  <2>1. PICK k \in Active(u) : LN!Start(u, k) < i /\ i <= LN!Stop(u, k)
    BY <1>1, Covered
  <2> DEFINE j == i - LN!Start(u, k)
  <2>2. j \in 1 .. L(k) /\ LN!Start(u, k) + j = i
    <3>1. LN!Start(u, k) \in Nat /\ LN!Stop(u, k) \in Nat
      BY <1>1, <1>3, CtaNumbers
    <3> QED BY <1>1, <2>1, <3>1 DEF L
  <2> HIDE DEF j
  <2>3. <<k, j>> \in LN!Summands(u) /\ LN!Value(u, <<k, j>>) = LN!Whole(table[u][i])
    BY <1>5, <2>2
  <2>4. ASSUME NEW b \in LN!Summands(u), LN!Value(u, b) = LN!Whole(table[u][i])
        PROVE  b = <<k, j>>
    <3>1. PICK l \in Active(u) : \E m \in 1 .. L(l) : b = <<l, m>>
      BY <1>6
    <3>2. PICK m \in 1 .. L(l) : b = <<l, m>>
      BY <3>1
    <3>3. LN!Start(u, l) + m = i
      BY <1>4, <1>5, <1>7, <2>4, <3>2
    <3>4. LN!Start(u, l) < i /\ i <= LN!Stop(u, l)
      BY <1>4, <3>3
    <3>5. l = k
      BY <1>1, <1>3, <2>1, <3>4, Covered
    <3>6. m = j
      BY <1>4, <2>2, <3>3, <3>5 DEF j
    <3> QED BY <3>2, <3>5, <3>6
  <2> QED BY <2>3, <2>4
<1> QED BY <1>8, <1>9

\* One more of n that draw a ticket.
LEMMA TicketCount ==
  ASSUME NEW n \in Nat, NEW D \in SUBSET (0 .. n - 1), NEW k \in 0 .. n - 1, k \notin D
  PROVE  /\ Cardinality(D) \in Nat /\ Cardinality(D \union {k}) = Cardinality(D) + 1
         /\ D \union {k} = 0 .. n - 1 <=> Cardinality(D) = n - 1
<1>1. IsFiniteSet(0 .. n - 1) /\ Cardinality(0 .. n - 1) = n
  <2>1. 0 \in Int /\ n - 1 \in Int
    OBVIOUS
  <2>2. IsFiniteSet(0 .. n - 1)
    BY <2>1, FS_Interval
  <2>3. Cardinality(0 .. n - 1) = IF 0 > n - 1 THEN 0 ELSE n - 1 - 0 + 1
    BY <2>1, FS_Interval
  <2> QED BY <2>2, <2>3
<1>2. IsFiniteSet(D) /\ Cardinality(D) \in Nat
  BY <1>1, FS_Subset, FS_CardinalityType
<1>3. Cardinality(D \union {k}) = Cardinality(D) + 1
  BY <1>2, FS_AddElement
<1>4. ASSUME D \union {k} = 0 .. n - 1 PROVE Cardinality(D) = n - 1
  <2>1. Cardinality(D \union {k}) = n
    BY <1>1, <1>4
  <2> QED BY <1>2, <1>3, <2>1
<1>5. ASSUME Cardinality(D) = n - 1 PROVE D \union {k} = 0 .. n - 1
  <2>1. D \union {k} \subseteq 0 .. n - 1
    OBVIOUS
  <2>2. Cardinality(D \union {k}) = n
    BY <1>2, <1>3, <1>5
  <2> QED BY <1>1, <2>1, <2>2, FS_Subset
<1> QED BY <1>2, <1>3, <1>4, <1>5
-----------------------------------------------------------------------------
(* A step of a CTA.                                                        *)

\* What is fixed while a launch runs.
LEMMA TableKept ==
  ASSUME UNCHANGED <<table, len>>, NEW u, NEW k, NEW n
  PROVE  /\ LN!Cnt(u)' = LN!Cnt(u) /\ LN!Pps(u)' = LN!Pps(u)
         /\ LN!Active(u)' = LN!Active(u) /\ Active(u)' = Active(u)
         /\ LN!Start(u, k)' = LN!Start(u, k) /\ LN!Stop(u, k)' = LN!Stop(u, k)
         /\ LN!TailMine(u, k)' = LN!TailMine(u, k)
         /\ Chunk(u, k, n)' = Chunk(u, k, n) /\ All(u, k)' = All(u, k)
         /\ LN!TailPage' = LN!TailPage
<1>1. LN!Cnt(u)' = LN!Cnt(u) /\ LN!TailPage' = LN!TailPage
  BY DEF LN!Cnt, LN!TailPage
<1>2. LN!Pps(u)' = LN!Pps(u)
  BY <1>1 DEF LN!Pps
<1>3. LN!Active(u)' = LN!Active(u) /\ Active(u)' = Active(u)
  BY <1>1, <1>2 DEF LN!Active, Active
<1>4. LN!Start(u, k)' = LN!Start(u, k)
  BY <1>2 DEF LN!Start
<1>5. LN!Stop(u, k)' = LN!Stop(u, k) /\ LN!TailMine(u, k)' = LN!TailMine(u, k)
  BY <1>1, <1>2, <1>4 DEF LN!Stop, LN!TailMine
<1>6. \A p : LN!Whole(p)' = LN!Whole(p)
  BY DEF LN!Whole
<1>7. Chunk(u, k, n)' = Chunk(u, k, n)
  BY <1>4, <1>6 DEF Chunk
<1>8. Chunk(u, k, LN!Stop(u, k) - LN!Start(u, k))' = Chunk(u, k, LN!Stop(u, k) - LN!Start(u, k))
  BY <1>4, <1>5, <1>6 DEF Chunk
<1> QED BY <1>1, <1>2, <1>3, <1>4, <1>5, <1>7, <1>8 DEF All

Fix == UNCHANGED <<conf, boot, steps, kind, reqs, at, q, mark, stash, write, len, layer,
                   launch, table>>

\* A step of one CTA leaves the others' walk alone, and only adds rows.
LEMMA CtaFrame ==
  ASSUME LaneTypes, RowsInv, GridShape, Launched,
         NEW u \in LN!Units, NEW sp \in LN!Splits, LN!CTA(u, sp), Fix
  PROVE  /\ GridShape'
         /\ \A v \in LN!Units, k \in LN!Splits : v # u \/ k # sp =>
              /\ pc'[v][k] = pc[v][k] /\ pos'[v][k] = pos[v][k]
              /\ acc'[v][k] = acc[v][k] /\ part'[v][k] = part[v][k]
         /\ \A v \in LN!Units : v # u => ctr'[v] = ctr[v] /\ out'[v] = out[v]
         /\ DOMAIN rows' = LN!LayerIds
         /\ \A l \in LN!LayerIds : DOMAIN rows'[l] = Heads
         /\ \A l \in LN!LayerIds, h \in Heads : rows[l][h] \subseteq rows'[l][h]
<1>1. u[2] \in Heads /\ layer \in LN!LayerIds
  BY DEF LN!Units, LaneTypes
<1>2. LN!Splits' = LN!Splits /\ LN!Units' = LN!Units /\ LN!LayerIds' = LN!LayerIds
  BY DEF LN!Splits, LN!Units, LN!LayerIds
<1>3. DOMAIN pc' = LN!Units /\ (\A v \in LN!Units : DOMAIN pc'[v] = LN!Splits)
      /\ \A v \in LN!Units, k \in LN!Splits : v # u \/ k # sp => pc'[v][k] = pc[v][k]
  <2>1. \E x : pc' = [pc EXCEPT ![u][sp] = x]
    BY DEF LN!CTA, LN!Begin, LN!ReadPage, LN!StorePartial, LN!Ticket
  <2> QED BY <2>1 DEF GridShape
<1>4. DOMAIN pos' = LN!Units /\ (\A v \in LN!Units : DOMAIN pos'[v] = LN!Splits)
      /\ \A v \in LN!Units, k \in LN!Splits : v # u \/ k # sp => pos'[v][k] = pos[v][k]
  <2>1. pos' = pos \/ \E x : pos' = [pos EXCEPT ![u][sp] = x]
    BY DEF LN!CTA, LN!Begin, LN!ReadPage, LN!StorePartial, LN!Ticket
  <2> QED BY <2>1 DEF GridShape
<1>5. DOMAIN acc' = LN!Units /\ (\A v \in LN!Units : DOMAIN acc'[v] = LN!Splits)
      /\ \A v \in LN!Units, k \in LN!Splits : v # u \/ k # sp => acc'[v][k] = acc[v][k]
  <2>1. acc' = acc \/ \E x : acc' = [acc EXCEPT ![u][sp] = x]
    BY DEF LN!CTA, LN!Begin, LN!ReadPage, LN!StorePartial, LN!Ticket
  <2> QED BY <2>1 DEF GridShape
<1>6. DOMAIN part' = LN!Units /\ (\A v \in LN!Units : DOMAIN part'[v] = LN!Splits)
      /\ \A v \in LN!Units, k \in LN!Splits : v # u \/ k # sp => part'[v][k] = part[v][k]
  <2>1. part' = part \/ \E x : part' = [part EXCEPT ![u][sp] = x]
    BY DEF LN!CTA, LN!Begin, LN!ReadPage, LN!StorePartial, LN!Ticket
  <2> QED BY <2>1 DEF GridShape
<1>7. DOMAIN ctr' = LN!Units /\ \A v \in LN!Units : v # u => ctr'[v] = ctr[v]
  <2>1. ctr' = ctr \/ \E x : ctr' = [ctr EXCEPT ![u] = x]
    BY DEF LN!CTA, LN!Begin, LN!ReadPage, LN!StorePartial, LN!Ticket
  <2> QED BY <2>1 DEF GridShape
<1>8. DOMAIN out' = LN!Units /\ \A v \in LN!Units : v # u => out'[v] = out[v]
  <2>1. out' = out \/ \E x : out' = [out EXCEPT ![u] = x]
    BY DEF LN!CTA, LN!Begin, LN!ReadPage, LN!StorePartial, LN!Ticket
  <2> QED BY <2>1 DEF GridShape
<1>9. GridShape'
  BY <1>2, <1>3, <1>4, <1>5, <1>6, <1>7, <1>8 DEF GridShape
<1>10. /\ DOMAIN rows' = LN!LayerIds
       /\ \A l \in LN!LayerIds : DOMAIN rows'[l] = Heads
       /\ \A l \in LN!LayerIds, h \in Heads : rows[l][h] \subseteq rows'[l][h]
  <2>1. rows' = rows \/ (launch.scat /\ rows' = [rows EXCEPT ![layer][u[2]]
                                                  = LN!Put(@, launch.ropes)])
    BY DEF LN!CTA, LN!Begin, LN!ReadPage, LN!StorePartial, LN!Ticket, LN!Scatter
  <2>2. launch.scat => LN!Put(rows[layer][u[2]], launch.ropes)
                         = rows[layer][u[2]] \union {len - 1}
    BY DEF LN!Put, Launched
  <2> QED BY <1>1, <2>1, <2>2 DEF RowsInv
<1> QED BY <1>3, <1>4, <1>5, <1>6, <1>7, <1>8, <1>9, <1>10

LEMMA CtaOther ==
  ASSUME LaneTypes, RowsInv, GridShape, Launched,
         NEW u \in LN!Units, NEW sp \in LN!Splits, LN!CTA(u, sp), Fix,
         NEW v \in LN!Units, NEW k \in LN!Splits, v # u \/ k # sp
  PROVE  CtaInv(v, k)'
<1>1. /\ pc'[v][k] = pc[v][k] /\ pos'[v][k] = pos[v][k]
      /\ acc'[v][k] = acc[v][k] /\ part'[v][k] = part[v][k]
      /\ \A l \in LN!LayerIds, h \in Heads : rows[l][h] \subseteq rows'[l][h]
  BY CtaFrame
<1>2. UNCHANGED <<table, len, launch, layer>> /\ layer \in LN!LayerIds /\ v[2] \in Heads
  BY DEF Fix, LaneTypes, LN!Units
<1>3. /\ LN!Cnt(v)' = LN!Cnt(v) /\ LN!Start(v, k)' = LN!Start(v, k)
      /\ LN!Stop(v, k)' = LN!Stop(v, k) /\ LN!TailMine(v, k)' = LN!TailMine(v, k)
      /\ All(v, k)' = All(v, k)
  BY <1>2, TableKept
<1>4. Chunk(v, k, pos[v][k] - LN!Start(v, k))' = Chunk(v, k, pos[v][k] - LN!Start(v, k))
  <2>1. \A p : LN!Whole(p)' = LN!Whole(p)
    BY <1>2 DEF LN!Whole
  <2> QED BY <1>1, <1>2, <1>3, <2>1 DEF Chunk
<1>5. rows[layer][v[2]] \subseteq rows'[layer'][v[2]]
  BY <1>1, <1>2
<1>6. CtaInv(v, k)
  BY DEF Launched
<1> QED BY <1>1, <1>2, <1>3, <1>4, <1>5, <1>6 DEF CtaInv
LEMMA CtaTable ==
  ASSUME LengthInv, Launched, NEW u \in LN!Units, NEW sp \in LN!Splits
  PROVE  /\ LN!Cnt(u) \in Nat /\ sp \in Nat
         /\ LN!Start(u, sp) \in Nat /\ LN!Stop(u, sp) \in Nat /\ LN!Stop(u, sp) <= LN!Cnt(u)
         /\ LN!Stop(u, sp) <= LN!Start(u, sp) + LN!Pps(u) /\ LN!Pps(u) \in Nat
         /\ LN!Start(u, sp) < LN!Cnt(u) => LN!Start(u, sp) < LN!Stop(u, sp)
         /\ LN!Start(u, sp) < LN!Cnt(u) <=> sp \in Active(u)
<1>1. LN!Cnt(u) \in Nat
  BY DEF Launched, TableInv, LN!Cnt
<1>2. sp \in Nat
  BY LaneAssumption DEF LN!Splits, LN!AttendConstants
<1>3. LN!Active(u) \in Nat /\ (LN!Start(u, sp) < LN!Cnt(u) <=> sp < LN!Active(u))
      /\ LN!Pps(u) \in Nat
  BY <1>1, <1>2, UnitNumbers
<1>4. sp < LN!Active(u) <=> sp \in Active(u)
  BY <1>2, <1>3 DEF Active
<1> QED BY <1>1, <1>2, <1>3, <1>4, CtaNumbers

\* Begin: the CTA of the tail page has the deferred row in place before its walk.
LEMMA CtaBegin ==
  ASSUME LaneTypes, LengthInv, RowsInv, GridShape, Launched,
         NEW u \in LN!Units, NEW sp \in LN!Splits, LN!Begin(u, sp), Fix
  PROVE  CtaInv(u, sp)'
<1>1. UNCHANGED <<table, len, launch, layer>> /\ layer \in LN!LayerIds /\ u[2] \in Heads
  BY DEF Fix, LaneTypes, LN!Units
<1>2. /\ LN!Cnt(u)' = LN!Cnt(u) /\ LN!Start(u, sp)' = LN!Start(u, sp)
      /\ LN!Stop(u, sp)' = LN!Stop(u, sp) /\ LN!TailMine(u, sp)' = LN!TailMine(u, sp)
      /\ All(u, sp)' = All(u, sp)
  BY <1>1, TableKept
<1>3. /\ LN!Cnt(u) \in Nat /\ LN!Start(u, sp) \in Nat /\ LN!Stop(u, sp) \in Nat
      /\ LN!Start(u, sp) < LN!Cnt(u) => LN!Start(u, sp) < LN!Stop(u, sp)
  BY CtaTable
<1>4. pc[u][sp] = "begin" /\ acc[u][sp] = <<>> /\ u[1] <= launch.reqs /\ acc' = acc /\ part' = part
  BY DEF LN!Begin, Launched, CtaInv
<1>5. launch.scat /\ LN!TailMine(u, sp) => len - 1 \in rows'[layer][u[2]]
  <2> SUFFICES ASSUME launch.scat, LN!TailMine(u, sp) PROVE len - 1 \in rows'[layer][u[2]]
    OBVIOUS
  <2>1. rows' = [rows EXCEPT ![layer][u[2]] = LN!Put(@, launch.ropes)]
    BY DEF LN!Begin, LN!Scatter
  <2>2. len - 1 \in LN!Put(rows[layer][u[2]], launch.ropes)
    BY DEF LN!Put, Launched
  <2> QED BY <1>1, <2>1, <2>2 DEF RowsInv
<1>6. CASE LN!Start(u, sp) >= LN!Cnt(u)
  <2>1. pc' = [pc EXCEPT ![u][sp] = "done"]
    BY <1>6 DEF LN!Begin
  <2>2. pc'[u][sp] = "done"
    BY <2>1 DEF GridShape
  <2>3. ~(LN!Start(u, sp) < LN!Cnt(u))
    BY <1>3, <1>6
  <2> QED BY <1>1, <1>2, <1>4, <1>5, <2>2, <2>3 DEF CtaInv
<1>7. CASE ~(LN!Start(u, sp) >= LN!Cnt(u))
  <2>1. /\ pc' = [pc EXCEPT ![u][sp] = "loop"]
        /\ pos' = [pos EXCEPT ![u][sp] = LN!Start(u, sp)]
    BY <1>7 DEF LN!Begin
  <2>2. pc'[u][sp] = "loop" /\ pos'[u][sp] = LN!Start(u, sp)
    BY <2>1 DEF GridShape
  <2>3. LN!Start(u, sp) < LN!Cnt(u) /\ pos'[u][sp] - LN!Start(u, sp)' = 0
    BY <1>2, <1>3, <1>7, <2>2
  <2>4. Chunk(u, sp, 0)' = <<>>
    BY DEF Chunk
  <2>5. acc'[u][sp] = Chunk(u, sp, pos[u][sp] - LN!Start(u, sp))'
    BY <1>4, <2>3, <2>4
  <2> QED BY <1>1, <1>2, <1>3, <1>4, <1>5, <2>2, <2>3, <2>5 DEF CtaInv
<1> QED BY <1>6, <1>7

\* What a walk reads is whole: only the tail page's last row may be deferred,
\* and then to this CTA.
LEMMA ReadWhole ==
  ASSUME LaneTypes, LengthInv, RowsInv, Launched, at = "decode",
         NEW u \in LN!Units, NEW sp \in LN!Splits, pc[u][sp] = "loop"
  PROVE  LET p == table[u][pos[u][sp] + 1] IN
         /\ pos[u][sp] + 1 \in 1 .. LN!Cnt(u)
         /\ <<p, {t \in LN!TokensOf(p) : t < len /\ t \in rows[layer][u[2]]}>> = LN!Whole(p)
<1> DEFINE i == pos[u][sp] + 1
           R == rows[layer][u[2]]
<1>1. /\ CtaInv(u, sp) /\ TableInv /\ layer \in LN!LayerIds /\ u[2] \in Heads
      /\ u[1] \in LN!Reqs /\ LN!Ours
  BY DEF Launched, LaneTypes, LN!Units
<1>2. /\ LN!Cnt(u) \in Nat /\ LN!Start(u, sp) \in Nat /\ LN!Stop(u, sp) \in Nat
      /\ LN!Stop(u, sp) <= LN!Cnt(u) /\ LN!Stop(u, sp) <= LN!Start(u, sp) + LN!Pps(u)
      /\ LN!Pps(u) \in Nat
  BY CtaTable
<1>3. /\ pos[u][sp] \in Nat /\ LN!Start(u, sp) <= pos[u][sp] /\ pos[u][sp] < LN!Stop(u, sp)
      /\ u[1] <= launch.reqs
  BY <1>1 DEF CtaInv
<1>4. i \in 1 .. LN!Cnt(u) /\ LN!Cnt(u) >= 1
  BY <1>2, <1>3
<1>5. u[1] = 1
  BY <1>1, <1>2, <1>4 DEF TableInv, LN!Reqs
<1>6. 0 .. len - 2 \subseteq R
  BY <1>1 DEF RowsInv
<1>7. ASSUME table[u][i] = LN!TailPage PROVE len - 1 \in R
  <2>1. i = LN!Cnt(u)
    <3>1. table[u][LN!Cnt(u)] = table[u][i] /\ LN!Cnt(u) \in 1 .. LN!Cnt(u)
      BY <1>1, <1>2, <1>4, <1>5, <1>7 DEF TableInv
    <3>2. i < LN!Cnt(u) => table[u][i] < table[u][LN!Cnt(u)]
      BY <1>1, <1>4, <3>1 DEF TableInv
    <3>3. table[u][i] \in Nat
      BY <1>1, <1>4 DEF TableInv, LN!Cnt
    <3> QED BY <1>2, <1>4, <3>1, <3>2, <3>3
  <2>2. LN!TailMine(u, sp)
    BY <1>2, <1>3, <1>4, <2>1 DEF LN!TailMine
  <2>3. CASE launch.scat
    BY <1>1, <1>3, <2>2, <2>3 DEF CtaInv
  <2>4. CASE ~launch.scat
    BY <1>1, <2>4 DEF RowsInv, Wrote
  <2> QED BY <2>3, <2>4
<1> HIDE DEF i, R
<1>8. <<table[u][i], {t \in LN!TokensOf(table[u][i]) : t < len /\ t \in R}>>
        = LN!Whole(table[u][i])
  BY <1>6, <1>7, SeenWhole
<1> QED BY <1>4, <1>8 DEF i, R

LEMMA CtaRead ==
  ASSUME LaneTypes, LengthInv, RowsInv, GridShape, Launched, at = "decode",
         NEW u \in LN!Units, NEW sp \in LN!Splits, LN!ReadPage(u, sp), Fix
  PROVE  CtaInv(u, sp)'
<1> DEFINE s == LN!Start(u, sp)
           z == LN!Stop(u, sp)
           n == pos[u][sp]
           p == table[u][n + 1]
<1>1. UNCHANGED <<table, len, launch, layer, rows, part>>
      /\ layer \in LN!LayerIds /\ u[2] \in Heads
  BY DEF Fix, LaneTypes, LN!Units, LN!ReadPage
<1>2. /\ LN!Cnt(u)' = LN!Cnt(u) /\ LN!Start(u, sp)' = s
      /\ LN!Stop(u, sp)' = z /\ LN!TailMine(u, sp)' = LN!TailMine(u, sp)
      /\ All(u, sp)' = All(u, sp)
  BY <1>1, TableKept
<1>3. pc[u][sp] = "loop" /\ CtaInv(u, sp)
  BY DEF LN!ReadPage, Launched
<1>4. /\ s \in Nat /\ n \in Nat /\ z \in Nat /\ s <= n /\ n < z /\ s < LN!Cnt(u)
      /\ acc[u][sp] = Chunk(u, sp, n - s) /\ u[1] <= launch.reqs
  BY <1>3, CtaTable DEF CtaInv
<1>5. /\ pos'[u][sp] = n + 1
      /\ pc'[u][sp] = IF n + 1 = z THEN "store" ELSE "loop"
      /\ acc'[u][sp] = Append(acc[u][sp], LN!Whole(p))
  <2>1. /\ pos' = [pos EXCEPT ![u][sp] = n + 1]
        /\ pc' = [pc EXCEPT ![u][sp] = IF n + 1 = z THEN "store" ELSE "loop"]
    BY DEF LN!ReadPage
  <2>2. acc' = [acc EXCEPT ![u][sp] = Append(@,
                 <<p, {t \in LN!TokensOf(p) : t < len /\ t \in rows[layer][u[2]]}>>)]
    BY DEF LN!ReadPage
  <2>3. <<p, {t \in LN!TokensOf(p) : t < len /\ t \in rows[layer][u[2]]}>> = LN!Whole(p)
    BY <1>3, ReadWhole
  <2> QED BY <2>1, <2>2, <2>3 DEF GridShape
<1>6. acc'[u][sp] = Chunk(u, sp, (n + 1) - s)
  <2> DEFINE k == n - s
             W(i) == LN!Whole(table[u][s + i])
  <2>1. k \in Nat /\ (n + 1) - s = k + 1 /\ s + (k + 1) = n + 1
    BY <1>4
  <2> HIDE DEF W
  <2>2. Append([i \in 1 .. k |-> W(i)], W(k + 1)) = [i \in 1 .. k + 1 |-> W(i)]
    <3> HIDE DEF k
    <3> QED BY <2>1
  <2>3. Chunk(u, sp, k) = [i \in 1 .. k |-> W(i)]
        /\ Chunk(u, sp, k + 1) = [i \in 1 .. k + 1 |-> W(i)]
    BY DEF Chunk, W
  <2>4. W(k + 1) = LN!Whole(p)
    BY <2>1 DEF W
  <2> QED BY <1>4, <1>5, <2>1, <2>2, <2>3, <2>4
<1>7. CASE n + 1 = z
  <2>1. acc'[u][sp] = All(u, sp)'
    BY <1>2, <1>6, <1>7 DEF All
  <2>2. pc'[u][sp] = "store"
    BY <1>5, <1>7
  <2> QED BY <1>1, <1>2, <1>3, <1>4, <2>1, <2>2 DEF CtaInv
<1>8. CASE n + 1 # z
  <2>1. \A x : LN!Whole(x)' = LN!Whole(x)
    BY <1>1 DEF LN!Whole
  <2>2. Chunk(u, sp, pos[u][sp] - LN!Start(u, sp))' = Chunk(u, sp, (n + 1) - s)
    BY <1>1, <1>2, <1>5, <2>1 DEF Chunk
  <2>3. acc'[u][sp] = Chunk(u, sp, pos[u][sp] - LN!Start(u, sp))'
    BY <1>6, <2>2
  <2>4. pc'[u][sp] = "loop"
    BY <1>5, <1>8
  <2>5. /\ pos'[u][sp] \in Nat /\ LN!Start(u, sp)' <= pos'[u][sp]
        /\ pos'[u][sp] < LN!Stop(u, sp)'
    BY <1>2, <1>4, <1>5, <1>8
  <2> QED BY <1>1, <1>2, <1>3, <1>4, <2>3, <2>4, <2>5 DEF CtaInv
<1> QED BY <1>7, <1>8
LEMMA CtaStore ==
  ASSUME LaneTypes, LengthInv, RowsInv, GridShape, Launched,
         NEW u \in LN!Units, NEW sp \in LN!Splits,
         LN!StorePartial(u, sp) \/ LN!Ticket(u, sp), Fix
  PROVE  CtaInv(u, sp)'
<1>1. UNCHANGED <<table, len, launch, layer, rows>>
      /\ layer \in LN!LayerIds /\ u[2] \in Heads
  BY DEF Fix, LaneTypes, LN!Units, LN!StorePartial, LN!Ticket
<1>2. /\ LN!Cnt(u)' = LN!Cnt(u) /\ LN!Start(u, sp)' = LN!Start(u, sp)
      /\ LN!TailMine(u, sp)' = LN!TailMine(u, sp) /\ All(u, sp)' = All(u, sp)
  BY <1>1, TableKept
<1>3. CtaInv(u, sp) /\ launch.fmerge \in BOOLEAN
  BY DEF Launched
<1>4. CASE LN!StorePartial(u, sp)
  <2>1. /\ pc[u][sp] = "store" /\ part' = [part EXCEPT ![u][sp] = acc[u][sp]]
        /\ pc' = [pc EXCEPT ![u][sp] = IF launch.fmerge THEN "ticket" ELSE "done"]
    BY <1>4 DEF LN!StorePartial
  <2>2. /\ part'[u][sp] = acc[u][sp]
        /\ pc'[u][sp] = IF launch.fmerge THEN "ticket" ELSE "done"
    BY <2>1 DEF GridShape
  <2>3. acc[u][sp] = All(u, sp) /\ LN!Start(u, sp) < LN!Cnt(u) /\ u[1] <= launch.reqs
    BY <1>3, <2>1 DEF CtaInv
  <2> QED BY <1>1, <1>2, <1>3, <2>1, <2>2, <2>3 DEF CtaInv
<1>5. CASE LN!Ticket(u, sp)
  <2>1. pc[u][sp] = "ticket" /\ part' = part /\ pc' = [pc EXCEPT ![u][sp] = "done"]
    BY <1>5 DEF LN!Ticket
  <2>2. pc'[u][sp] = "done"
    BY <2>1 DEF GridShape
  <2> QED BY <1>1, <1>2, <1>3, <2>1, <2>2 DEF CtaInv
<1> QED BY <1>4, <1>5

-----------------------------------------------------------------------------
(* The ticket of a unit.                                                   *)

LEMMA UnitOther ==
  ASSUME LaneTypes, RowsInv, GridShape, Launched,
         NEW u \in LN!Units, NEW sp \in LN!Splits, LN!CTA(u, sp), Fix,
         NEW v \in LN!Units, v # u
  PROVE  UnitInv(v)'
<1>1. /\ \A k \in LN!Splits : pc'[v][k] = pc[v][k] /\ part'[v][k] = part[v][k]
      /\ ctr'[v] = ctr[v] /\ out'[v] = out[v]
  BY CtaFrame
<1>2. UNCHANGED <<table, len, launch>> /\ UnitInv(v)
  BY DEF Fix, Launched
<1>3. LN!Active(v)' = LN!Active(v) /\ Active(v)' = Active(v)
  BY <1>2, TableKept
<1>4. Active(v) \subseteq LN!Splits /\ 0 \in LN!Splits
  <2>1. Split \in Nat \ {0} /\ LN!Cnt(v) \in Nat
    BY LaneAssumption DEF LN!AttendConstants, Launched, TableInv, LN!Cnt
  <2>2. LN!Active(v) \in Nat /\ LN!Active(v) <= Split
    BY <2>1, UnitNumbers
  <2> QED BY <2>1, <2>2 DEF Active, LN!Splits
<1>5. Drawn(v)' = Drawn(v)
  BY <1>1, <1>3, <1>4 DEF Drawn
<1>6. LN!Merged(v)' = LN!Merged(v)
  <2>1. Active(v) = 0 .. LN!Active(v) - 1
    BY DEF Active
  <2> QED BY <1>1, <1>3, <1>4, <2>1 DEF LN!Merged
<1> QED BY <1>1, <1>2, <1>3, <1>4, <1>5, <1>6 DEF UnitInv

\* A CTA that does not draw: it has not drawn before and its chunk has a page,
\* or it has none.
LEMMA UnitWalk ==
  ASSUME LaneTypes, LengthInv, RowsInv, GridShape, Launched,
         NEW u \in LN!Units, NEW sp \in LN!Splits, Fix,
         LN!Begin(u, sp) \/ LN!ReadPage(u, sp) \/ LN!StorePartial(u, sp)
  PROVE  UnitInv(u)'
<1>1. /\ UNCHANGED <<table, len, launch>> /\ UnitInv(u) /\ CtaInv(u, sp)
      /\ launch.fmerge \in BOOLEAN
  BY DEF Fix, Launched
<1>2. LN!Active(u)' = LN!Active(u) /\ Active(u)' = Active(u) /\ LN!Cnt(u)' = LN!Cnt(u)
  BY <1>1, TableKept
<1>3. /\ LN!Cnt(u) \in Nat /\ sp \in Nat /\ LN!Start(u, sp) \in Nat
      /\ LN!Start(u, sp) < LN!Cnt(u) <=> sp \in Active(u)
  BY CtaTable
<1>4. Active(u) \subseteq LN!Splits /\ 0 \in LN!Splits /\ LN!Active(u) \in Nat
  <2>1. Split \in Nat \ {0}
    BY LaneAssumption DEF LN!AttendConstants
  <2>2. LN!Active(u) \in Nat /\ LN!Active(u) <= Split
    BY <1>3, UnitNumbers
  <2> QED BY <2>1, <2>2 DEF Active, LN!Splits
<1>5. ctr' = ctr /\ \A k \in LN!Splits : k # sp => pc'[u][k] = pc[u][k] /\ part'[u][k] = part[u][k]
  BY CtaFrame DEF LN!CTA, LN!Begin, LN!ReadPage, LN!StorePartial
<1>6. CASE sp \in Active(u)
  <2>1. pc[u][sp] # "done" /\ out' = out
    BY <1>3, <1>6 DEF LN!Begin, LN!ReadPage, LN!StorePartial
  <2>2. launch.fmerge => pc'[u][sp] # "done"
    <3>1. CASE LN!Begin(u, sp)
      <4>1. pc' = [pc EXCEPT ![u][sp] = "loop"]
        BY <1>3, <1>6, <3>1 DEF LN!Begin
      <4> QED BY <4>1 DEF GridShape
    <3>2. CASE LN!ReadPage(u, sp)
      <4>1. \E x \in {"loop", "store"} : pc' = [pc EXCEPT ![u][sp] = x]
        BY <3>2 DEF LN!ReadPage
      <4> QED BY <4>1 DEF GridShape
    <3>3. CASE LN!StorePartial(u, sp)
      <4>1. launch.fmerge => pc' = [pc EXCEPT ![u][sp] = "ticket"]
        BY <3>3 DEF LN!StorePartial
      <4> QED BY <4>1 DEF GridShape
    <3> QED BY <3>1, <3>2, <3>3
  <2>3. launch.fmerge => Drawn(u)' = Drawn(u) /\ Drawn(u) # Active(u)
    BY <1>2, <1>4, <1>5, <1>6, <2>1, <2>2 DEF Drawn
  <2> QED BY <1>1, <1>2, <1>5, <2>3 DEF UnitInv
<1>7. CASE sp \notin Active(u)
  <2>1. ~(LN!Start(u, sp) < LN!Cnt(u)) /\ LN!Begin(u, sp)
    BY <1>1, <1>3, <1>7 DEF CtaInv, LN!ReadPage, LN!StorePartial
  <2>2. /\ part' = part
        /\ out' = IF launch.fmerge /\ LN!Cnt(u) = 0 /\ sp = 0 THEN [out EXCEPT ![u] = <<>>]
                  ELSE out
    BY <1>3, <2>1 DEF LN!Begin
  <2>3. Drawn(u)' = Drawn(u)
    BY <1>2, <1>4, <1>5, <1>7 DEF Drawn
  <2>4. LN!Merged(u)' = LN!Merged(u)
    BY <1>2, <2>2 DEF LN!Merged
  <2>5. CASE Active(u) # {}
    <3>1. LN!Cnt(u) # 0
      BY <1>3, <1>4, <2>5, UnitNumbers DEF Active
    <3>2. out' = out
      BY <2>2, <3>1
    <3> QED BY <1>1, <1>2, <1>5, <2>3, <2>4, <2>5, <3>2 DEF UnitInv
  <2>6. CASE Active(u) = {}
    <3>1. LN!Active(u) = 0
      <4>1. 0 \notin 0 .. LN!Active(u) - 1
        BY <2>6 DEF Active
      <4> QED BY <1>4, <4>1
    <3>2. LN!Cnt(u) = 0
      <4>1. LN!Start(u, 0) \in Nat /\ LN!Start(u, 0) = 0 * LN!Pps(u)
            /\ (LN!Start(u, 0) < LN!Cnt(u) <=> 0 < LN!Active(u)) /\ LN!Pps(u) \in Nat
        BY <1>3, UnitNumbers
      <4>2. 0 * LN!Pps(u) = 0
        BY <4>1
      <4> QED BY <1>3, <3>1, <4>1, <4>2
    <3>3. LN!Merged(u) = <<>>
      <4>1. 0 .. LN!Active(u) - 1 = {}
        BY <2>6 DEF Active
      <4>2. LN!Merged(u) = [k \in {} |-> part[u][k]]
        BY <4>1 DEF LN!Merged
      <4> QED BY <4>2
    <3>4. CASE launch.fmerge /\ sp = 0
      <4>1. out'[u] = <<>>
        BY <2>2, <3>2, <3>4 DEF GridShape
      <4> QED BY <1>1, <1>2, <1>5, <2>3, <2>4, <2>6, <3>3, <4>1 DEF UnitInv, Drawn
    <3>5. CASE launch.fmerge /\ sp # 0
      <4>1. out' = out /\ pc'[u][0] = pc[u][0]
        BY <1>4, <1>5, <2>2, <3>5
      <4> QED BY <1>1, <1>2, <1>5, <2>3, <2>4, <2>6, <4>1 DEF UnitInv
    <3>6. CASE ~launch.fmerge
      BY <1>1, <1>2, <1>5, <3>6 DEF UnitInv
    <3> QED BY <1>1, <3>4, <3>5, <3>6
  <2> QED BY <2>5, <2>6
<1> QED BY <1>6, <1>7

\* The last of a unit's CTAs to draw finds all partials stored.
LEMMA UnitTicket ==
  ASSUME LaneTypes, LengthInv, RowsInv, GridShape, Launched,
         NEW u \in LN!Units, NEW sp \in LN!Splits, LN!Ticket(u, sp), Fix
  PROVE  UnitInv(u)'
<1>1. /\ UNCHANGED <<table, len, launch, part>> /\ UnitInv(u) /\ CtaInv(u, sp)
      /\ pc[u][sp] = "ticket"
  BY DEF Fix, Launched, LN!Ticket
<1>2. /\ LN!Active(u)' = LN!Active(u) /\ Active(u)' = Active(u)
      /\ LN!Merged(u)' = LN!Merged(u)
  BY <1>1, TableKept DEF LN!Merged
<1>3. /\ launch.fmerge /\ u[1] <= launch.reqs /\ sp \in Active(u)
      /\ LN!Cnt(u) \in Nat
  BY <1>1, CtaTable DEF CtaInv
<1>4. LN!Active(u) \in Nat /\ Active(u) = 0 .. LN!Active(u) - 1 /\ Active(u) \subseteq LN!Splits
  <2>1. Split \in Nat \ {0}
    BY LaneAssumption DEF LN!AttendConstants
  <2>2. LN!Active(u) \in Nat /\ LN!Active(u) <= Split
    BY <1>3, UnitNumbers
  <2> QED BY <2>1, <2>2 DEF Active, LN!Splits
<1>5. sp \notin Drawn(u) /\ Drawn(u) \in SUBSET Active(u) /\ ctr[u] = Cardinality(Drawn(u))
  BY <1>1, <1>3 DEF UnitInv, Drawn
<1>6. /\ Cardinality(Drawn(u)) \in Nat
      /\ Cardinality(Drawn(u) \union {sp}) = Cardinality(Drawn(u)) + 1
      /\ Drawn(u) \union {sp} = Active(u) <=> Cardinality(Drawn(u)) = LN!Active(u) - 1
  <2> DEFINE n == LN!Active(u)
             D == Drawn(u)
  <2>1. n \in Nat /\ D \in SUBSET (0 .. n - 1) /\ sp \in 0 .. n - 1 /\ sp \notin D
        /\ Active(u) = 0 .. n - 1
    BY <1>3, <1>4, <1>5
  <2> HIDE DEF n, D
  <2>2. /\ Cardinality(D) \in Nat /\ Cardinality(D \union {sp}) = Cardinality(D) + 1
        /\ D \union {sp} = 0 .. n - 1 <=> Cardinality(D) = n - 1
    BY ONLY <2>1, TicketCount
  <2> QED BY <2>1, <2>2 DEF n, D
<1>7. Drawn(u)' = Drawn(u) \union {sp}
  <2>1. pc' = [pc EXCEPT ![u][sp] = "done"]
    BY DEF LN!Ticket
  <2>2. \A k \in LN!Splits : pc'[u][k] = IF k = sp THEN "done" ELSE pc[u][k]
    BY <2>1 DEF GridShape
  <2> QED BY <1>2, <1>3, <1>4, <2>2 DEF Drawn
<1>8. CASE ctr[u] = LN!Active(u) - 1
  <2>1. ctr'[u] = 0 /\ out'[u] = LN!Merged(u)
    BY <1>8 DEF LN!Ticket, GridShape
  <2> QED BY <1>1, <1>2, <1>3, <1>5, <1>6, <1>7, <1>8, <2>1 DEF UnitInv
<1>9. CASE ctr[u] # LN!Active(u) - 1
  <2>1. ctr'[u] = ctr[u] + 1
    BY <1>9 DEF LN!Ticket, GridShape
  <2>2. Drawn(u)' # Active(u)' /\ ctr'[u] = Cardinality(Drawn(u)')
    BY <1>2, <1>5, <1>6, <1>7, <1>9, <2>1
  <2>3. ~(u[1] > launch.reqs) /\ Active(u) # {}
    BY <1>3 DEF Launched, LN!Units, LN!Reqs
  <2> QED BY <1>1, <1>2, <1>3, <2>2, <2>3 DEF UnitInv
<1> QED BY <1>8, <1>9
-----------------------------------------------------------------------------
(* The launch, from its arguments to its output.                           *)

LEMMA TableFixed ==
  ASSUME TableInv, UNCHANGED <<table, len>>
  PROVE  TableInv'
<1>1. LN!Units' = LN!Units /\ LN!TailPage' = LN!TailPage
  BY DEF LN!Units, LN!Reqs, LN!TailPage
<1>2. \A u : LN!Cnt(u)' = LN!Cnt(u)
  BY DEF LN!Cnt
<1> QED BY <1>1, <1>2 DEF TableInv

LEMMA GridCta ==
  ASSUME LaneTypes, LengthInv, RowsInv, GridInv, LN!DecodeCTA
  PROVE  RowsInv' /\ GridInv'
<1>1. PICK u \in LN!Units, sp \in LN!Splits : LN!CTA(u, sp)
  BY DEF LN!DecodeCTA
<1>2. Fix /\ at = "decode" /\ at' = "decode"
  BY DEF LN!DecodeCTA, LN!host, Fix
<1>3. GridShape /\ Launched
  BY <1>2 DEF GridInv
<1>4. /\ GridShape' /\ DOMAIN rows' = LN!LayerIds
      /\ \A l \in LN!LayerIds : DOMAIN rows'[l] = Heads
      /\ \A l \in LN!LayerIds, h \in Heads : rows[l][h] \subseteq rows'[l][h]
  BY <1>1, <1>2, <1>3, CtaFrame
<1>5. /\ LN!Units' = LN!Units /\ LN!Splits' = LN!Splits /\ LN!LayerIds' = LN!LayerIds
      /\ LN!Reqs' = LN!Reqs
  BY DEF LN!Units, LN!Splits, LN!LayerIds, LN!Reqs
<1>6. \A l : Wrote(l)' = Wrote(l)
  BY <1>2 DEF Fix, Wrote, LN!Ours
<1>7. RowsInv'
  BY <1>2, <1>4, <1>5, <1>6 DEF Fix, RowsInv
<1>8. ASSUME NEW v \in LN!Units, NEW k \in LN!Splits PROVE CtaInv(v, k)'
  <2>1. CASE v # u \/ k # sp
    BY <1>1, <1>2, <1>3, <2>1, CtaOther
  <2>2. CASE v = u /\ k = sp
    BY <1>1, <1>2, <1>3, <2>2, CtaBegin, CtaRead, CtaStore DEF LN!CTA
  <2> QED BY <2>1, <2>2
<1>9. ASSUME NEW v \in LN!Units PROVE UnitInv(v)'
  <2>1. CASE v # u
    BY <1>1, <1>2, <1>3, <2>1, UnitOther
  <2>2. CASE v = u
    BY <1>1, <1>2, <1>3, <2>2, UnitWalk, UnitTicket DEF LN!CTA
  <2> QED BY <2>1, <2>2
<1>10. TableInv'
  BY <1>2, <1>3, TableFixed DEF Fix, Launched
<1>11. Launched'
  BY <1>2, <1>3, <1>5, <1>8, <1>9, <1>10 DEF Fix, Launched, LN!Ours
<1> QED BY <1>2, <1>4, <1>7, <1>11 DEF GridInv

\* The grid as a launch finds it.
LEMMA GridLaunch ==
  ASSUME LaneTypes, LengthInv, GridShape, acc = LN!Each(<<>>),
         \A u \in LN!Units : ctr[u] = 0,
         NEW args, NEW picks \in [Heads -> LN!Selected], LN!Launch(args, picks),
         LN!Ours', len' = len,
         args.reqs \in LN!Reqs, args.scat \in BOOLEAN, args.fmerge \in BOOLEAN,
         args.scat => args.ropes = 1
  PROVE  GridShape' /\ Launched'
<1>1. /\ LN!Units' = LN!Units /\ LN!Splits' = LN!Splits /\ LN!Reqs' = LN!Reqs
      /\ LN!TailPage' = LN!TailPage
  BY DEF LN!Units, LN!Splits, LN!Reqs, LN!TailPage
<1>2. /\ launch' = args
      /\ table' = [u \in LN!Units |-> IF u[1] = 1 THEN picks[u[2]] ELSE <<>>]
      /\ pc' = [u \in LN!Units |-> [sp \in LN!Splits |->
                  IF u[1] <= args.reqs THEN "begin" ELSE "done"]]
      /\ pos' = pos /\ acc' = acc /\ part' = part /\ ctr' = ctr /\ out' = out
  BY DEF LN!Launch
<1>3. GridShape'
  BY <1>1, <1>2 DEF GridShape
<1>4. TableInv'
  <2> SUFFICES ASSUME NEW u \in LN!Units
               PROVE  /\ table'[u] \in Seq(Nat)
                      /\ \A i, j \in 1 .. Len(table'[u]) : i < j => table'[u][i] < table'[u][j]
                      /\ u[1] = 1 => Len(table'[u]) >= 1
                                     /\ table'[u][Len(table'[u])] = LN!TailPage
                      /\ u[1] = 2 => Len(table'[u]) = 0
    BY <1>1 DEF TableInv, LN!Cnt
  <2>1. CASE u[1] = 1
    <3>1. u[2] \in Heads /\ table'[u] = picks[u[2]]
      BY <1>2, <2>1 DEF LN!Units
    <3>2. PICK n \in 1 .. LN!TailPage + 1 : table'[u] \in [1 .. n -> 0 .. LN!TailPage]
      <4>1. picks[u[2]] \in LN!Selected
        BY <3>1
      <4>2. picks[u[2]] \in UNION {[1 .. n -> 0 .. LN!TailPage] : n \in 1 .. LN!TailPage + 1}
        BY <4>1 DEF LN!Selected
      <4> QED BY <3>1, <4>2
    <3>3. n \in Nat /\ n >= 1 /\ LN!TailPage \in Nat
      BY Pages
    <3>4. table'[u] \in Seq(Nat) /\ Len(table'[u]) = n /\ DOMAIN table'[u] = 1 .. n
      BY <3>2, <3>3
    <3>5. /\ \A i, j \in DOMAIN table'[u] : i < j => table'[u][i] < table'[u][j]
          /\ table'[u][Len(table'[u])] = LN!TailPage
      BY <3>1 DEF LN!Selected
    <3> QED BY <2>1, <3>3, <3>4, <3>5
  <2>2. CASE u[1] # 1
    <3>1. table'[u] = <<>>
      BY <1>2, <2>2
    <3> QED BY <2>2, <3>1
  <2> QED BY <2>1, <2>2
<1>5. ASSUME NEW u \in LN!Units, NEW sp \in LN!Splits PROVE CtaInv(u, sp)'
  <2>1. /\ acc'[u][sp] = <<>>
        /\ pc'[u][sp] = IF u[1] <= args.reqs THEN "begin" ELSE "done"
    BY <1>2 DEF LN!Each
  <2> QED BY <1>2, <2>1 DEF CtaInv
<1>6. ASSUME NEW u \in LN!Units PROVE UnitInv(u)'
  <2>1. 0 \in LN!Splits
    BY LaneAssumption DEF LN!Splits, LN!AttendConstants
  <2>2. Active(u)' \subseteq LN!Splits
    <3>1. Split \in Nat \ {0} /\ LN!Cnt(u)' \in Nat
      BY <1>1, <1>4, LaneAssumption DEF LN!AttendConstants, TableInv, LN!Cnt
    <3>2. LN!Active(u)' \in Nat /\ LN!Active(u)' <= Split
      <4>1. (LN!Cnt(u) \in Nat => LN!Active(u) \in Nat /\ LN!Active(u) <= Split)'
        BY UnitNumbers, PTL
      <4> QED BY <3>1, <4>1
    <3> QED BY <3>1, <3>2 DEF Active, LN!Splits
  <2>3. CASE u[1] <= args.reqs
    <3>1. \A k \in LN!Splits : pc'[u][k] = "begin"
      BY <1>2, <2>3
    <3>2. Drawn(u)' = {}
      BY <2>2, <3>1 DEF Drawn
    <3>3. Cardinality({}) = 0
      BY FS_EmptySet
    <3> QED BY <1>2, <2>1, <3>1, <3>2, <3>3 DEF UnitInv
  <2>4. CASE ~(u[1] <= args.reqs)
    BY <1>2, <2>4 DEF UnitInv
  <2> QED BY <2>3, <2>4
<1> QED BY <1>1, <1>2, <1>3, <1>4, <1>5, <1>6 DEF Launched
\* The token's row, after the write or the select of a layer.
LEMMA RowPut ==
  ASSUME RowsInv, layer \in LN!LayerIds, LN!Ours => rows' = LN!Written(1),
         ~LN!Ours => rows' = rows
  PROVE  /\ DOMAIN rows' = LN!LayerIds
         /\ \A l \in LN!LayerIds : DOMAIN rows'[l] = Heads
         /\ \A l \in LN!LayerIds, h \in Heads : rows[l][h] \subseteq rows'[l][h]
         /\ \A h \in Heads : LN!Ours => len - 1 \in rows'[layer][h]
<1>1. CASE LN!Ours
  <2>1. rows' = [rows EXCEPT ![layer] = [h \in Heads |-> rows[layer][h] \union {len - 1}]]
    BY <1>1 DEF LN!Written, LN!Put
  <2> QED BY <1>1, <2>1 DEF RowsInv
<1>2. CASE ~LN!Ours
  BY <1>2 DEF RowsInv
<1> QED BY <1>1, <1>2

\* The select flushes a deferred row roped once.
LEMMA RowSelect ==
  ASSUME LaneInv, StashRopes, RowsInv, at = "forward", NEW pre, LN!Select(pre)
  PROVE  /\ DOMAIN rows' = LN!LayerIds
         /\ \A l \in LN!LayerIds : DOMAIN rows'[l] = Heads
         /\ \A l \in LN!LayerIds, h \in Heads : rows[l][h] \subseteq rows'[l][h]
         /\ \A h \in Heads : LN!Ours /\ mark[layer] => len - 1 \in rows'[layer][h]
<1>1. layer \in LN!LayerIds
  BY DEF LaneInv, LaneTypes
<1>2. CASE mark[layer]
  <2>1. q + 1 = 1
    BY <1>2 DEF StashRopes
  <2>2. rows' = LN!Written(1)
    BY <1>2, <2>1 DEF LN!Select, LN!Consume, LN!Flush
  <2>3. ~LN!Ours => LN!Written(1) = rows
    BY DEF LN!Written
  <2> QED BY <1>1, <1>2, <2>2, <2>3, RowPut
<1>3. CASE ~mark[layer]
  <2>1. rows' = rows
    BY <1>3 DEF LN!Select, LN!Consume
  <2> QED BY <1>3, <2>1 DEF RowsInv
<1> QED BY <1>2, <1>3

LEMMA GridForward ==
  ASSUME LaneInv, LengthInv, StashRopes, RowsInv, GridInv,
         LN!ForwardDecode \/ LN!ForwardMixed
  PROVE  RowsInv' /\ GridInv'
<1> DEFINE n == IF LN!OneToken THEN reqs ELSE 1
           scat == LN!K8(n) /\ stash # None /\ stash.layer = layer
           args == IF LN!CO THEN LN!Resident(n) ELSE LN!Tiered(n, scat)
<1>1. /\ at = "forward" /\ (\E pre : LN!Select(pre)) /\ LN!Decode(n)
      /\ (LN!OneToken \/ kind = "mixed")
      /\ UNCHANGED <<conf, boot, kind, reqs, armed, mql, nreq, layer, len>>
  BY DEF LN!ForwardDecode, LN!ForwardMixed, LN!OneToken
<1>2. LaneTypes /\ DeferInv /\ StashInv /\ layer \in LN!LayerIds
  BY DEF LaneInv, LaneTypes
<1>3. ~failed'
  BY <1>1, LaneSelect
<1>4. LN!Ours' = LN!Ours /\ LN!LayerIds' = LN!LayerIds /\ LN!Units' = LN!Units
      /\ LN!Splits' = LN!Splits
  BY <1>1 DEF LN!Ours, LN!LayerIds, LN!Units, LN!Reqs, LN!Splits
<1>5. /\ DOMAIN rows' = LN!LayerIds
      /\ \A l \in LN!LayerIds : DOMAIN rows'[l] = Heads
      /\ \A l \in LN!LayerIds, h \in Heads : rows[l][h] \subseteq rows'[l][h]
      /\ \A h \in Heads : LN!Ours /\ mark[layer] => len - 1 \in rows'[layer][h]
  BY <1>1, RowSelect
<1>6. stash # None => LN!K8(n) /\ stash.layer = layer
  BY <1>1, <1>2 DEF StashInv, LN!K8
<1>7. GridShape /\ acc = LN!Each(<<>>) /\ \A u \in LN!Units : ctr[u] = 0
  BY <1>1 DEF GridInv
<1>8. CASE ~LN!Ours
  <2>1. at' = "decoded" /\ UNCHANGED <<launch, table, pc, pos, acc, part, ctr, out>>
    BY <1>1, <1>3, <1>8 DEF LN!Decode, LN!grid
  <2>2. GridShape'
    BY <1>4, <1>7, <2>1 DEF GridShape
  <2>3. GridInv'
    BY <1>4, <1>7, <1>8, <2>1, <2>2 DEF GridInv
  <2>4. \A l \in LN!LayerIds, h \in Heads : 0 .. len - 2 \subseteq rows[l][h]
                                            /\ len - 1 \in rows[l][h]
    BY <1>8 DEF RowsInv, Wrote
  <2>5. RowsInv'
    BY <1>1, <1>4, <1>5, <2>4 DEF RowsInv
  <2> QED BY <2>3, <2>5
<1>9. CASE LN!Ours
  <2>1. PICK picks \in [Heads -> LN!Selected] : at' = "decode" /\ LN!Launch(args, picks)
    BY <1>1, <1>3, <1>9 DEF LN!Decode
  <2>2. conf.fmerge \in BOOLEAN
    BY <1>2, LaneAssumption DEF LaneTypes, LN!LaneConstants
  <2>3. n \in LN!Reqs
    BY <1>1, <1>9 DEF LengthInv, LN!OneToken, LN!Ours, LN!Reqs
  <2>4. /\ args.reqs = n /\ args.scat = (~LN!CO /\ scat)
        /\ args.fmerge = IF LN!CO THEN FALSE ELSE conf.fmerge
    BY DEF LN!Resident, LN!Tiered, LN!NoLaunch
  <2>5. ASSUME args.scat PROVE args.ropes = 1
    <3>1. /\ ~LN!CO /\ stash # None
          /\ args.ropes = IF conf.norope THEN stash.ropes + 1 ELSE stash.ropes
      BY <2>4, <2>5 DEF LN!Tiered
    <3>2. stash.ropes = q /\ ~mark[layer]
      BY <1>2, <3>1 DEF StashRopes, DeferInv
    <3>3. q = IF conf.norope THEN 0 ELSE 1
      BY <1>1, <3>2 DEF StashRopes
    <3> QED BY <3>1, <3>2, <3>3
  <2> HIDE DEF n, scat, args
  <2>6. args.scat \in BOOLEAN /\ args.fmerge \in BOOLEAN
    BY <2>2, <2>4 DEF scat
  <2>7. stash # None => ~LN!CO
    BY <1>2 DEF StashInv
  <2>8. scat <=> stash # None
    BY <1>6 DEF scat
  <2>9. args.scat <=> stash # None
    <3>1. CASE stash # None
      <4>1. (~LN!CO /\ scat) = TRUE
        BY <2>7, <2>8, <3>1
      <4>2. args.scat = TRUE
        BY <2>4, <4>1
      <4> QED BY <3>1, <4>2
    <3>2. CASE stash = None
      <4>1. (~LN!CO /\ scat) = FALSE
        BY <2>8, <3>2
      <4>2. args.scat = FALSE
        BY <2>4, <4>1
      <4> QED BY <3>2, <4>2
    <3> QED BY <3>1, <3>2
  <2>10. GridShape' /\ Launched'
    BY <1>1, <1>2, <1>4, <1>7, <1>9, <2>1, <2>3, <2>4, <2>5, <2>6, GridLaunch
  <2>11. GridInv'
    BY <2>1, <2>10 DEF GridInv
  <2>12. launch' = args
    BY <2>1 DEF LN!Launch
  <2>13. ASSUME NEW l \in LN!LayerIds, NEW h \in Heads, Wrote(l)'
         PROVE  len' - 1 \in rows'[l][h]
    <3>1. l < layer \/ (l = layer /\ ~args.scat)
      BY <1>1, <1>4, <1>9, <2>1, <2>12, <2>13 DEF Wrote
    <3>2. CASE l = layer /\ mark[layer]
      BY <1>1, <1>5, <1>9, <3>2
    <3>3. CASE ~(l = layer /\ mark[layer])
      <4>1. Wrote(l)
        BY <1>1, <2>9, <3>1, <3>3 DEF Wrote
      <4> QED BY <1>1, <1>5, <4>1 DEF RowsInv
    <3> QED BY <3>2, <3>3
  <2>14. RowsInv'
    BY <1>1, <1>4, <1>5, <2>13 DEF RowsInv
  <2> QED BY <2>11, <2>14
<1> QED BY <1>8, <1>9
\* The table's last page is of a CTA, and it is through: the token's row is in
\* place; and the sum of the partials is the sum of the chunks.
LEMMA GridEnd ==
  ASSUME LaneTypes, LengthInv, RowsInv, GridInv, LN!EndDecode
  PROVE  RowsInv' /\ GridInv'
<1>1. /\ at = "decode" /\ at' = "decoded" /\ LN!Done
      /\ UNCHANGED <<kind, len, layer, launch, table, pc, pos, acc, part, ctr, rows>>
      /\ out' = IF launch.fmerge THEN out
                ELSE [u \in LN!Units |-> IF u[1] <= launch.reqs THEN LN!Merged(u) ELSE out[u]]
  BY DEF LN!EndDecode, LN!cache, LN!Merge
<1>2. /\ LN!Units' = LN!Units /\ LN!Splits' = LN!Splits /\ LN!LayerIds' = LN!LayerIds
      /\ LN!Ours' = LN!Ours /\ LN!Reqs' = LN!Reqs
  BY <1>1 DEF LN!Units, LN!Splits, LN!LayerIds, LN!Ours, LN!Reqs
<1>3. GridShape /\ Launched /\ TableInv /\ launch.reqs \in LN!Reqs /\ LN!Ours
  BY <1>1 DEF GridInv, Launched
<1>4. ASSUME NEW u \in LN!Units
      PROVE  /\ LN!Cnt(u) \in Nat /\ LN!Active(u) \in Nat /\ Active(u) \subseteq LN!Splits
             /\ 0 \in LN!Splits
             /\ Active(u) = 0 .. LN!Active(u) - 1
  <2>1. Split \in Nat \ {0} /\ LN!Cnt(u) \in Nat
    BY <1>3, LaneAssumption DEF LN!AttendConstants, TableInv, LN!Cnt
  <2>2. LN!Active(u) \in Nat /\ LN!Active(u) <= Split
    BY <2>1, UnitNumbers
  <2> QED BY <2>1, <2>2 DEF Active, LN!Splits
<1>5. ASSUME NEW u \in LN!Units, u[1] <= launch.reqs
      PROVE  LN!Merged(u) = [sp \in Active(u) |-> All(u, sp)]
  <2>1. ASSUME NEW sp \in Active(u) PROVE part[u][sp] = All(u, sp)
    <3>1. sp \in LN!Splits /\ pc[u][sp] = "done"
      BY <1>1, <1>4, <2>1 DEF LN!Done
    <3>2. LN!Start(u, sp) < LN!Cnt(u)
      BY <1>3, <2>1, <3>1, CtaTable
    <3> QED BY <1>3, <1>5, <3>1, <3>2 DEF Launched, CtaInv
  <2> QED BY <1>4, <2>1 DEF LN!Merged
<1>6. ASSUME NEW u \in LN!Units, u[1] <= launch.reqs PROVE out'[u] = LN!Merged(u)
  <2>1. CASE launch.fmerge
    <3>1. Drawn(u) = Active(u) /\ pc[u][0] = "done"
      BY <1>1, <1>4 DEF Drawn, LN!Done
    <3> QED BY <1>1, <1>3, <1>6, <2>1, <3>1 DEF Launched, UnitInv
  <2>2. CASE ~launch.fmerge
    BY <1>1, <1>6, <2>2
  <2> QED BY <2>1, <2>2
<1>7. ASSUME NEW u \in LN!Units PROVE ctr[u] = 0
  <2>1. Drawn(u) = Active(u)
    BY <1>1, <1>4 DEF Drawn, LN!Done
  <2>2. UnitInv(u) /\ (u[1] > launch.reqs \/ u[1] <= launch.reqs)
    BY <1>3 DEF Launched, LN!Units, LN!Reqs
  <2> QED BY <2>1, <2>2 DEF UnitInv
<1>8. ASSUME NEW u \in LN!Units, u[1] <= launch.reqs PROVE Attended(u)'
  <2>1. Active(u)' = Active(u) /\ \A sp : All(u, sp)' = All(u, sp)
    BY <1>1, TableKept
  <2>2. [sp \in Active(u) |-> All(u, sp)]' = [sp \in Active(u) |-> All(u, sp)]
    BY <2>1
  <2> QED BY <1>5, <1>6, <1>8, <2>2 DEF Attended
<1>9. GridShape'
  BY <1>1, <1>2, <1>3 DEF GridShape
<1>10. TableInv'
  BY <1>1, <1>3, TableFixed
<1>11. GridInv'
  BY <1>1, <1>2, <1>3, <1>7, <1>8, <1>9, <1>10 DEF GridInv
<1>12. ASSUME NEW h \in Heads PROVE len - 1 \in rows[layer][h]
  <2>1. CASE ~launch.scat
    BY <1>1, <2>1 DEF LaneTypes, RowsInv, Wrote
  <2>2. CASE launch.scat
    <3> DEFINE u == <<1, h>>
    <3>1. u \in LN!Units /\ u[1] = 1 /\ u[2] = h /\ u[1] <= launch.reqs
      BY <1>3 DEF LN!Units, LN!Reqs
    <3> HIDE DEF u
    <3>2. LN!Cnt(u) \in Nat /\ LN!Cnt(u) \in 1 .. LN!Cnt(u) /\ LN!Cnt(u) >= 1
      BY <1>3, <1>4, <3>1 DEF TableInv
    <3>3. PICK k \in Active(u) : LN!Start(u, k) < LN!Cnt(u) /\ LN!Cnt(u) <= LN!Stop(u, k)
      BY <3>2, Covered
    <3>4. k \in LN!Splits /\ pc[u][k] = "done"
      BY <1>1, <1>4, <3>1 DEF LN!Done
    <3>5. LN!TailMine(u, k)
      <4>1. /\ LN!Start(u, k) \in Nat /\ LN!Stop(u, k) \in Nat /\ LN!Pps(u) \in Nat
            /\ LN!Stop(u, k) <= LN!Start(u, k) + LN!Pps(u)
        BY <1>3, <3>1, <3>4, CtaTable
      <4> QED BY <3>2, <3>3, <4>1 DEF LN!TailMine
    <3> QED BY <1>3, <2>2, <3>1, <3>4, <3>5 DEF Launched, CtaInv
  <2> QED BY <2>1, <2>2
<1>13. RowsInv'
  <2>1. ASSUME NEW l \in LN!LayerIds, NEW h \in Heads, Wrote(l)' PROVE len - 1 \in rows[l][h]
    <3>1. l = layer \/ Wrote(l)
      BY <1>1, <1>2, <1>3, <2>1 DEF Wrote
    <3> QED BY <1>12, <3>1 DEF RowsInv
  <2> QED BY <1>1, <1>2, <2>1 DEF RowsInv
<1> QED BY <1>11, <1>13

\* The next layer finds a grid as the one before did.
LEMMA GridNext ==
  ASSUME LaneTypes, RowsInv, GridInv, LN!NextLayer
  PROVE  RowsInv' /\ GridInv'
<1>1. /\ at = "decoded" /\ at' \in {"idle", "op"}
      /\ IF layer = Layers - 1 THEN at' = "idle" /\ layer' = 0
         ELSE at' = "op" /\ layer' = layer + 1
      /\ UNCHANGED <<kind, len, rows, ctr>>
      /\ pc' = LN!Each("done") /\ pos' = LN!Each(0) /\ acc' = LN!Each(<<>>)
      /\ part' = LN!Each(LN!Stale) /\ out' = LN!NoOut
  BY DEF LN!NextLayer, LN!Reset, LN!cache
<1>2. /\ LN!Units' = LN!Units /\ LN!Splits' = LN!Splits /\ LN!LayerIds' = LN!LayerIds
      /\ LN!Ours' = LN!Ours
  BY <1>1 DEF LN!Units, LN!Splits, LN!LayerIds, LN!Ours, LN!Reqs
<1>3. GridShape'
  BY <1>1, <1>2 DEF GridInv, GridShape, LN!Each, LN!NoOut
<1>4. acc' = LN!Each(<<>>)'
  BY <1>1, <1>2 DEF LN!Each
<1>5. GridInv'
  BY <1>1, <1>2, <1>3, <1>4 DEF GridInv
<1>6. ASSUME NEW l \in LN!LayerIds, Wrote(l)' PROVE Wrote(l)
  <2>1. l \in 0 .. Layers - 1 /\ Layers \in Nat /\ layer \in 0 .. Layers - 1
    BY LaneAssumption DEF LN!LayerIds, LN!AttendConstants, LaneTypes
  <2>2. CASE layer = Layers - 1
    <3>1. l < layer \/ l = layer
      BY <2>1, <2>2
    <3> QED BY <1>1, <3>1 DEF Wrote
  <2>3. CASE layer # Layers - 1
    <3>1. at' = "op" /\ layer' = layer + 1
      BY <1>1, <2>3
    <3>2. ~LN!Ours \/ l < layer + 1
      BY <1>2, <1>6, <3>1 DEF Wrote
    <3>3. ~LN!Ours \/ l < layer \/ l = layer
      BY <2>1, <3>2
    <3> QED BY <1>1, <3>3 DEF Wrote
  <2> QED BY <2>2, <2>3
<1>7. RowsInv'
  BY <1>1, <1>2, <1>6 DEF RowsInv
<1> QED BY <1>5, <1>7

\* No hook stops.
LEMMA HookAt ==
  ASSUME LaneInv
  PROVE  /\ LN!Absorb \/ LN!Project => at' = "hook"
         /\ LN!HookCO \/ LN!HookMem => at' = "forward"
<1>1. at = "op" => proj = None
  BY DEF LaneInv, DeferInv
<1>2. at = "hook" => write = None /\ stash = None
  BY DEF LaneInv, DeferInv, StashInv
<1> QED BY <1>1, <1>2 DEF LN!Absorb, LN!Project, LN!ArmProj, LN!HookCO, LN!HookMem, LN!ArmWrite

\* Up to its decode a layer leaves the grid alone, and writes the token's row
\* or defers it.
LEMMA GridHost ==
  ASSUME LaneInv, StashRopes, RowsInv, GridInv,
         LN!Absorb \/ LN!Project \/ LN!HookCO \/ LN!HookMem \/ LN!ForwardDense
  PROVE  RowsInv' /\ GridInv'
<1>1. /\ at \in {"op", "hook", "forward"} /\ at' \in {"hook", "forward", "decoded"}
      /\ at' = "decoded" => ~LN!Ours
      /\ UNCHANGED <<kind, len, layer, launch, table, pc, pos, acc, part, ctr, out>>
  <2>1. CASE LN!Absorb \/ LN!Project
    <3>1. at' = "hook"
      BY <2>1, HookAt
    <3> QED BY <2>1, <3>1 DEF LN!Absorb, LN!Project, LN!cache, LN!grid
  <2>2. CASE LN!HookCO \/ LN!HookMem
    <3>1. at' = "forward"
      BY <2>2, HookAt
    <3> QED BY <2>2, <3>1 DEF LN!HookCO, LN!HookMem, LN!grid
  <2>3. CASE LN!ForwardDense
    <3>1. at' = "decoded"
      BY <2>3, LaneDense
    <3> QED BY <2>3, <3>1 DEF LN!ForwardDense, LN!Ours, LN!cache, LN!grid
  <2> QED BY <2>1, <2>2, <2>3
<1>2. /\ LN!Units' = LN!Units /\ LN!Splits' = LN!Splits /\ LN!LayerIds' = LN!LayerIds
      /\ LN!Ours' = LN!Ours
  BY <1>1 DEF LN!Units, LN!Splits, LN!LayerIds, LN!Ours, LN!Reqs
<1>3. GridShape' /\ LN!Each(<<>>)' = LN!Each(<<>>)
  BY <1>1, <1>2 DEF GridInv, GridShape, LN!Each
<1>4. GridInv'
  BY <1>1, <1>2, <1>3 DEF GridInv
<1>5. LaneTypes /\ layer \in LN!LayerIds
  BY DEF LaneInv, LaneTypes
<1>6. CASE rows' = LN!Written(1)
  <2>1. ~LN!Ours => rows' = rows
    BY <1>6 DEF LN!Written
  <2>2. /\ DOMAIN rows' = LN!LayerIds
        /\ \A l \in LN!LayerIds : DOMAIN rows'[l] = Heads
        /\ \A l \in LN!LayerIds, h \in Heads : rows[l][h] \subseteq rows'[l][h]
        /\ \A h \in Heads : LN!Ours => len - 1 \in rows'[layer][h]
    BY <1>5, <1>6, <2>1, RowPut
  <2>3. ASSUME NEW l \in LN!LayerIds, Wrote(l)' PROVE Wrote(l) \/ (LN!Ours /\ l = layer)
    BY <1>1, <1>2, <2>3 DEF Wrote
  <2> QED BY <1>1, <1>2, <1>4, <2>2, <2>3 DEF RowsInv
<1>7. CASE rows' # LN!Written(1)
  <2>1. rows' = rows
    BY <1>7 DEF LN!Absorb, LN!Project, LN!HookCO, LN!HookMem, LN!ForwardDense, LN!cache
  <2>2. ASSUME NEW l \in LN!LayerIds, Wrote(l)' PROVE Wrote(l)
    <3>1. CASE l = layer /\ at' = "forward" /\ LN!Ours
      <4>1. ~mark'[layer] /\ stash' = None
        <5>1. layer \in Int /\ ~(layer < layer)
          BY <1>5 DEF LN!LayerIds
        <5> QED BY <1>1, <1>2, <2>2, <3>1, <5>1 DEF Wrote
      <4>2. DeferInv /\ StashInv
        BY DEF LaneInv
      <4>3. CASE LN!HookCO
        <5>1. proj = None
          BY <4>1, <4>2, <4>3 DEF LN!HookCO, DeferInv
        <5> QED BY <1>7, <4>3, <5>1 DEF LN!HookCO
      <4>4. CASE LN!HookMem
        <5>1. stash = None
          BY <4>2, <4>4 DEF LN!HookMem, StashInv
        <5>2. stash' = [layer |-> layer, ropes |-> q]
          BY <1>7, <4>4, <5>1 DEF LN!HookMem
        <5>3. q \in Nat
          BY <4>4 DEF LN!HookMem, StashRopes
        <5> QED BY <1>5, <4>1, <5>2, <5>3, LaneAssumption DEF LN!LaneConstants
      <4> QED BY <1>1, <3>1, <4>3, <4>4 DEF LN!Absorb, LN!Project, LN!ForwardDense, LN!ArmProj
    <3>2. CASE ~(l = layer /\ at' = "forward" /\ LN!Ours)
      BY <1>1, <1>2, <2>2, <3>2 DEF Wrote
    <3> QED BY <3>1, <3>2
  <2> QED BY <1>1, <1>2, <1>4, <2>1, <2>2 DEF RowsInv
<1> QED BY <1>6, <1>7
\* A pass enters: the tokens so far are in place on every layer.
LEMMA GridEnter ==
  ASSUME LaneInv, LengthInv, RowsInv, GridInv, NEW k, NEW n, LN!Enter(k, n),
         k \in {"dummy", "capture", "decode", "mixed", "prefill"}, n \in LN!Reqs \/ k = "dummy",
         \/ len' = len /\ k \notin {"decode", "mixed"} /\ steps' = steps
         \/ /\ steps < MaxSteps /\ steps' = steps + 1
            /\ len' = IF k = "prefill" THEN len ELSE len + 1
            /\ k \in {"decode", "mixed", "prefill"}
  PROVE  LengthInv' /\ RowsInv' /\ GridInv'
<1>1. /\ at = "idle" /\ kind' = k /\ reqs' = n /\ at' = "op" /\ layer = 0
      /\ UNCHANGED <<layer, rows, launch, table, pc, pos, acc, part, ctr, out>>
  BY DEF LN!Enter, LN!grid, LaneInv, LaneTypes
<1>2. /\ LN!Units' = LN!Units /\ LN!Splits' = LN!Splits /\ LN!LayerIds' = LN!LayerIds
      /\ LN!Reqs' = LN!Reqs
  BY DEF LN!Units, LN!Splits, LN!LayerIds, LN!Reqs
<1>3. GridShape' /\ LN!Each(<<>>)' = LN!Each(<<>>)
  BY <1>1, <1>2 DEF GridInv, GridShape, LN!Each
<1>4. GridInv'
  BY <1>1, <1>2, <1>3 DEF GridInv
<1>5. Prompt \in Nat /\ MaxSteps \in Nat
  BY LaneAssumption DEF LN!LaneConstants
<1>6. LengthInv'
  <2>1. len \in Nat /\ 1 <= len /\ len <= Prompt + steps /\ steps \in Nat /\ steps <= MaxSteps
    BY DEF LengthInv
  <2>2. /\ len' \in Nat /\ 1 <= len' /\ len' <= Prompt + steps'
        /\ steps' \in Nat /\ steps' <= MaxSteps
    BY <1>5, <2>1
  <2>3. k = "decode" => reqs' \in LN!Reqs
    BY <1>1
  <2> QED BY <1>1, <1>2, <2>2, <2>3 DEF LengthInv
<1>7. LN!Ours' => len' = len + 1
  BY <1>1 DEF LN!Ours
<1>8. \A l \in LN!LayerIds, h \in Heads : 0 .. len - 2 \subseteq rows[l][h]
                                          /\ len - 1 \in rows[l][h]
  BY <1>1 DEF RowsInv, Wrote
<1>9. len \in Nat /\ 1 <= len /\ (len' = len \/ len' = len + 1)
  BY DEF LengthInv
<1>10. \A l \in LN!LayerIds, h \in Heads : 0 .. len' - 2 \subseteq rows[l][h]
  <2> SUFFICES ASSUME NEW l \in LN!LayerIds, NEW h \in Heads, NEW t \in 0 .. len' - 2
               PROVE  t \in rows[l][h]
    OBVIOUS
  <2>1. t \in 0 .. len - 2 \/ t = len - 1
    BY <1>9
  <2> QED BY <1>8, <2>1
<1>11. ASSUME NEW l \in LN!LayerIds, NEW h \in Heads, Wrote(l)' PROVE len' - 1 \in rows[l][h]
  <2>1. CASE LN!Ours'
    <3>1. ~(l < layer) /\ ~(l < layer')
      BY <1>1 DEF LN!LayerIds
    <3> QED BY <1>1, <1>11, <2>1, <3>1 DEF Wrote
  <2>2. CASE ~LN!Ours'
    <3>1. len' = len
      BY <1>1, <1>9, <2>2 DEF LN!Ours
    <3> QED BY <1>8, <3>1
  <2> QED BY <2>1, <2>2
<1>12. RowsInv'
  BY <1>1, <1>2, <1>10, <1>11 DEF RowsInv
<1> QED BY <1>4, <1>6, <1>12

\* The invariant of a pass.
AttendInv == LengthInv /\ StashRopes /\ RowsInv /\ GridInv

LEMMA AttendInit ==
  ASSUME LN!Init
  PROVE  AttendInv
<1>1. Prompt \in Nat \ {0} /\ MaxSteps \in Nat /\ Split \in Nat \ {0}
  BY LaneAssumption DEF LN!LaneConstants, LN!AttendConstants
<1>2. LengthInv
  BY <1>1 DEF LN!Init, LengthInv
<1>3. StashRopes
  BY DEF LN!Init, StashRopes
<1>4. RowsInv
  <2>1. /\ rows = [l \in LN!LayerIds |-> [h \in Heads |-> 0 .. Prompt - 1]] /\ len = Prompt
    BY DEF LN!Init
  <2>2. 0 .. len - 2 \subseteq 0 .. Prompt - 1 /\ len - 1 \in 0 .. Prompt - 1
    BY <1>1, <2>1
  <2> QED BY <2>1, <2>2 DEF RowsInv
<1>5. /\ at = "idle" /\ pc = LN!Each("done") /\ pos = LN!Each(0) /\ acc = LN!Each(<<>>)
      /\ part = LN!Each(LN!Stale) /\ ctr = [u \in LN!Units |-> 0] /\ out = LN!NoOut
  BY DEF LN!Init, LN!GridInit
<1>6. GridShape
  BY <1>5 DEF GridShape, LN!Each, LN!NoOut
<1>7. GridInv
  BY <1>5, <1>6 DEF GridInv
<1> QED BY <1>2, <1>3, <1>4, <1>7 DEF AttendInv

LEMMA StashRopesStep ==
  ASSUME LaneInv, LaneInv', StashRopes, LN!Next
  PROVE  StashRopes'
<1>1. stash' # None => at' = "forward" /\ ~LN!CO'
  BY DEF LaneInv, StashInv
<1>2. stash # None => at = "forward"
  BY DEF LaneInv, StashInv
<1>3. CASE LN!Absorb
  <2>1. q' = 0 /\ mark'[layer'] /\ stash' = stash /\ at = "op"
    BY <1>3 DEF LN!Absorb, LaneInv, LaneTypes
  <2> QED BY <1>2, <2>1 DEF StashRopes
<1>4. CASE LN!Project
  <2>1. /\ q' = IF conf.norope THEN 0 ELSE 1
        /\ UNCHANGED <<conf, mark, layer, stash>> /\ at = "op"
    BY <1>4 DEF LN!Project
  <2>2. ~mark[layer]
    BY <2>1 DEF LaneInv, DeferInv, LaneTypes
  <2> QED BY <1>2, <2>1, <2>2 DEF StashRopes
<1>5. CASE LN!HookCO \/ LN!HookMem
  <2>1. UNCHANGED <<conf, mark, layer, q>> /\ at = "hook"
    BY <1>5 DEF LN!HookCO, LN!HookMem
  <2>2. stash' = stash \/ stash'.ropes = q
    BY <1>5 DEF LN!HookCO, LN!HookMem
  <2> QED BY <1>2, <2>1, <2>2 DEF StashRopes
<1>6. CASE ~(LN!Absorb \/ LN!Project \/ LN!HookCO \/ LN!HookMem)
  <2>1. at' \notin {"hook", "forward"}
    <3>1. CASE LN!Dummy \/ LN!Capture \/ (\E n \in LN!Reqs : LN!Serve("decode", n))
               \/ LN!Serve("mixed", 2) \/ LN!Serve("prefill", 1)
      BY <3>1 DEF LN!Dummy, LN!Capture, LN!Serve, LN!Enter
    <3>2. CASE LN!ForwardDecode \/ LN!ForwardMixed \/ LN!ForwardDense \/ LN!DecodeCTA
               \/ LN!EndDecode \/ LN!NextLayer
      BY <3>2, LaneForward, LaneDense, LaneLaunch DEF LN!NextLayer
    <3> QED BY <1>6, <3>1, <3>2 DEF LN!Next
  <2> QED BY <1>1, <2>1 DEF StashRopes
<1> QED BY <1>3, <1>4, <1>5, <1>6

LEMMA LengthStep ==
  ASSUME LengthInv, LN!Next, UNCHANGED <<len, steps, kind, reqs>>, at # "idle"
  PROVE  LengthInv'
<1>1. LN!Reqs' = LN!Reqs
  BY DEF LN!Reqs
<1> QED BY <1>1 DEF LengthInv

LEMMA AttendStep ==
  ASSUME LaneInv, LaneInv', AttendInv, LN!Next
  PROVE  AttendInv'
<1>1. LengthInv /\ StashRopes /\ RowsInv /\ GridInv /\ LaneTypes
  BY DEF AttendInv, LaneInv
<1>2. StashRopes'
  BY <1>1, StashRopesStep
<1>3. CASE LN!Dummy \/ LN!Capture \/ (\E n \in LN!Reqs : LN!Serve("decode", n))
           \/ LN!Serve("mixed", 2) \/ LN!Serve("prefill", 1)
  <2>1. CASE LN!Dummy
    <3>1. LN!Enter("dummy", 0) /\ len' = len /\ steps' = steps
      BY <2>1 DEF LN!Dummy
    <3>2. LengthInv' /\ RowsInv' /\ GridInv'
      BY <1>1, <3>1, GridEnter
    <3> QED BY <1>2, <3>2 DEF AttendInv
  <2>2. CASE LN!Capture
    <3>1. LN!Enter("capture", 1) /\ len' = len /\ steps' = steps /\ 1 \in LN!Reqs
      BY <2>2 DEF LN!Capture, LN!Reqs
    <3>2. LengthInv' /\ RowsInv' /\ GridInv'
      BY <1>1, <3>1, GridEnter
    <3> QED BY <1>2, <3>2 DEF AttendInv
  <2>3. ASSUME NEW k \in {"decode", "mixed", "prefill"}, NEW n \in LN!Reqs, LN!Serve(k, n)
        PROVE  AttendInv'
    <3>1. /\ LN!Enter(k, n) /\ steps < MaxSteps /\ steps' = steps + 1
          /\ len' = IF k = "prefill" THEN len ELSE len + 1
      BY <2>3 DEF LN!Serve
    <3>2. LengthInv' /\ RowsInv' /\ GridInv'
      BY <1>1, <3>1, GridEnter
    <3> QED BY <1>2, <3>2 DEF AttendInv
  <2>4. 1 \in LN!Reqs /\ 2 \in LN!Reqs
    BY DEF LN!Reqs
  <2> QED BY <1>3, <2>1, <2>2, <2>3, <2>4
<1>4. CASE LN!Absorb \/ LN!Project \/ LN!HookCO \/ LN!HookMem \/ LN!ForwardDense
  <2>1. RowsInv' /\ GridInv'
    BY <1>1, <1>4, GridHost
  <2>2. UNCHANGED <<len, steps, kind, reqs>> /\ at # "idle"
    BY <1>4 DEF LN!Absorb, LN!Project, LN!HookCO, LN!HookMem, LN!ForwardDense, LN!cache
  <2> QED BY <1>1, <1>2, <2>1, <2>2, LengthStep DEF AttendInv
<1>5. CASE LN!ForwardDecode \/ LN!ForwardMixed
  <2>1. RowsInv' /\ GridInv'
    BY <1>1, <1>5, GridForward
  <2>2. UNCHANGED <<len, steps, kind, reqs>> /\ at # "idle"
    BY <1>5 DEF LN!ForwardDecode, LN!ForwardMixed
  <2> QED BY <1>1, <1>2, <2>1, <2>2, LengthStep DEF AttendInv
<1>6. CASE LN!DecodeCTA
  <2>1. RowsInv' /\ GridInv'
    BY <1>1, <1>6, GridCta
  <2>2. UNCHANGED <<len, steps, kind, reqs>> /\ at # "idle"
    BY <1>6 DEF LN!DecodeCTA, LN!host
  <2> QED BY <1>1, <1>2, <2>1, <2>2, LengthStep DEF AttendInv
<1>7. CASE LN!EndDecode
  <2>1. RowsInv' /\ GridInv'
    BY <1>1, <1>7, GridEnd
  <2>2. UNCHANGED <<len, steps, kind, reqs>> /\ at # "idle"
    BY <1>7 DEF LN!EndDecode, LN!cache
  <2> QED BY <1>1, <1>2, <2>1, <2>2, LengthStep DEF AttendInv
<1>8. CASE LN!NextLayer
  <2>1. RowsInv' /\ GridInv'
    BY <1>1, <1>8, GridNext
  <2>2. UNCHANGED <<len, steps, kind, reqs>> /\ at # "idle"
    BY <1>8 DEF LN!NextLayer, LN!cache
  <2> QED BY <1>1, <1>2, <2>1, <2>2, LengthStep DEF AttendInv
<1> QED BY <1>3, <1>4, <1>5, <1>6, <1>7, <1>8 DEF LN!Next

LEMMA AttendStutter ==
  ASSUME UNCHANGED vars, AttendInv
  PROVE  AttendInv'
<1>1. UNCHANGED <<host, layer, len, launch, table, rows, pos, part, ctr, out, pc, acc>>
  BY DEF vars, onlyLane
<1>2. /\ LN!Units' = LN!Units /\ LN!Splits' = LN!Splits /\ LN!LayerIds' = LN!LayerIds
      /\ LN!Ours' = LN!Ours /\ LN!Reqs' = LN!Reqs
  BY <1>1 DEF LN!Units, LN!Splits, LN!LayerIds, LN!Ours, LN!Reqs, host
<1>3. /\ \A u : Active(u)' = Active(u) /\ LN!Active(u)' = LN!Active(u)
      /\ \A u, k : /\ LN!Start(u, k)' = LN!Start(u, k) /\ LN!Stop(u, k)' = LN!Stop(u, k)
                   /\ LN!TailMine(u, k)' = LN!TailMine(u, k) /\ All(u, k)' = All(u, k)
      /\ \A u : LN!Cnt(u)' = LN!Cnt(u)
  BY <1>1, TableKept
<1>4. LengthInv' /\ StashRopes' /\ RowsInv'
  BY <1>1, <1>2 DEF AttendInv, LengthInv, StashRopes, RowsInv, Wrote, host
<1>5. TableInv => TableInv'
  BY <1>1, TableFixed
<1>6. \A u : LN!Merged(u)' = LN!Merged(u) /\ Drawn(u)' = Drawn(u)
  BY <1>1, <1>3 DEF LN!Merged, Drawn
<1>7. ASSUME NEW u \in LN!Units, UnitInv(u) PROVE UnitInv(u)'
  BY <1>1, <1>3, <1>6, <1>7 DEF UnitInv
<1>8. ASSUME NEW u \in LN!Units, NEW k \in LN!Splits, CtaInv(u, k) PROVE CtaInv(u, k)'
  <2>1. \A p : LN!Whole(p)' = LN!Whole(p)
    BY <1>1 DEF LN!Whole
  <2>2. Chunk(u, k, pos[u][k] - LN!Start(u, k))' = Chunk(u, k, pos[u][k] - LN!Start(u, k))
    BY <1>1, <1>3, <2>1 DEF Chunk
  <2> QED BY <1>1, <1>3, <1>8, <2>2 DEF CtaInv
<1>9. ASSUME NEW u \in LN!Units, Attended(u) PROVE Attended(u)'
  <2>1. [k \in Active(u) |-> All(u, k)]' = [k \in Active(u) |-> All(u, k)]
    BY <1>3
  <2> QED BY <1>1, <1>9, <2>1 DEF Attended
<1>10. GridShape' /\ LN!Each(<<>>)' = LN!Each(<<>>)
  BY <1>1, <1>2 DEF AttendInv, GridInv, GridShape, LN!Each
<1>11. Launched => Launched'
  BY <1>1, <1>2, <1>5, <1>7, <1>8 DEF Launched
<1>12. GridInv'
  BY <1>1, <1>2, <1>5, <1>9, <1>10, <1>11 DEF AttendInv, GridInv, host
<1> QED BY <1>4, <1>12 DEF AttendInv
\* The output of every layer is exact: each page of the table that was selected
\* is attended once and whole, the new token's row included, for any layers,
\* kv-heads, splits, pages and lengths, in both lanes, however the CTAs of a
\* launch interleave and whoever merges.
THEOREM DecodeExact == Spec => []OutExact
<1> DEFINE Inv == arm = "lane" => LaneInv /\ AttendInv
<1>1. Init => Inv
  BY LaneInit, AttendInit DEF Init
<1>2. Inv /\ [Next]_vars => Inv'
  <2> SUFFICES ASSUME Inv, [Next]_vars PROVE Inv'
    OBVIOUS
  <2>1. CASE arm = "lane" /\ LN!Next /\ UNCHANGED <<arm, onlyRing>>
    BY <2>1, LaneStep, AttendStep
  <2>2. CASE arm = "ring" /\ RG!Next /\ UNCHANGED <<arm, onlyLane>>
    BY <2>2
  <2>3. CASE UNCHANGED vars
    BY <2>3, LaneStutter, AttendStutter DEF vars
  <2> QED BY <2>1, <2>2, <2>3 DEF Next
<1>3. Inv => OutExact
  <2> SUFFICES ASSUME AttendInv, at = "decoded", LN!Ours, NEW u \in LN!Units,
                      u[1] <= launch.reqs
               PROVE  /\ \A a \in LN!Summands(u) : \E i \in 1 .. LN!Cnt(u) :
                           LN!Value(u, a) = LN!Whole(table[u][i])
                      /\ \A i \in 1 .. LN!Cnt(u) : \E a \in LN!Summands(u) :
                           \A b \in LN!Summands(u) :
                             LN!Value(u, b) = LN!Whole(table[u][i]) <=> b = a
    BY DEF OutExact, LN!OutExact
  <2>1. TableInv /\ Attended(u)
    BY DEF AttendInv, GridInv
  <2> QED BY <2>1, SumExact
<1> QED BY <1>1, <1>2, <1>3, PTL DEF Spec

-----------------------------------------------------------------------------
(* The mailbox.                                                            *)

LEMMA MailService ==
  ASSUME LN!Service
  PROVE  MailInv'
<1>1. Mcap \in Nat
  BY LaneAssumption DEF LN!AttendConstants
<1>2. PICK s \in {"hot", "none"} :
        p2s' = [l \in LN!LayerIds |-> [h \in Heads |-> [p \in LN!PageIds |->
                 IF p2s[l][h][p] = "pending" THEN s ELSE p2s[l][h][p]]]]
  BY DEF LN!Service
<1>3. mail' = {} /\ mails' = 0 /\ overflow' = FALSE
  BY DEF LN!Service
<1>4. LN!LayerIds' = LN!LayerIds /\ LN!PageIds' = LN!PageIds
  BY DEF LN!LayerIds, LN!PageIds
<1>5. ASSUME NEW l \in LN!LayerIds, NEW h \in Heads, NEW p \in LN!PageIds
      PROVE  p2s'[l][h][p] # "pending"
  BY <1>2
<1>6. ASSUME NEW m \in LN!LayerIds \X Heads \X LN!PageIds
      PROVE  p2s'[m[1]][m[2]][m[3]] # "pending"
  BY <1>5
<1>7. LN!MailExact'
  BY <1>1, <1>3, <1>4, <1>6 DEF LN!MailExact
<1> QED BY <1>2, <1>3, <1>4, <1>7 DEF MailInv

\* One claim: into the mailbox, or reverted and latched when it is full.
LEMMA MailClaim ==
  ASSUME MailInv, layer \in LN!LayerIds, NEW h \in Heads, NEW p \in LN!PageIds,
         LN!Claim(h, p), layer' = layer
  PROVE  MailInv'
<1>1. Mcap \in Nat /\ LN!LayerIds' = LN!LayerIds /\ LN!PageIds' = LN!PageIds
  BY LaneAssumption DEF LN!AttendConstants, LN!LayerIds, LN!PageIds
<1>2. CASE UNCHANGED <<p2s, mail, mails, overflow>>
  BY <1>1, <1>2 DEF MailInv, LN!MailExact
<1>3. CASE ~UNCHANGED <<p2s, mail, mails, overflow>>
  <2>1. /\ mails' = mails + 1
        /\ IF mails < Mcap
           THEN /\ p2s' = [p2s EXCEPT ![layer][h][p] = "pending"]
                /\ mail' = mail \union {<<layer, h, p>>}
                /\ UNCHANGED overflow
           ELSE overflow' = TRUE /\ UNCHANGED <<p2s, mail>>
    BY <1>3 DEF LN!Claim
  <2>2. mails \in Nat /\ (overflow <=> mails > Mcap)
        /\ mail = {m \in LN!LayerIds \X Heads \X LN!PageIds : p2s[m[1]][m[2]][m[3]] = "pending"}
    BY DEF MailInv, LN!MailExact
  <2>3. CASE mails < Mcap
    <3>1. /\ p2s' = [p2s EXCEPT ![layer][h][p] = "pending"]
          /\ mail' = mail \union {<<layer, h, p>>} /\ overflow' = overflow
      BY <2>1, <2>3
    <3>2. ASSUME NEW l \in LN!LayerIds, NEW g \in Heads, NEW x \in LN!PageIds
          PROVE  p2s'[l][g][x] = IF l = layer /\ g = h /\ x = p THEN "pending"
                                 ELSE p2s[l][g][x]
      BY <3>1 DEF MailInv
    <3>3. ASSUME NEW m \in LN!LayerIds \X Heads \X LN!PageIds
          PROVE  p2s'[m[1]][m[2]][m[3]] = "pending" <=>
                   m = <<layer, h, p>> \/ p2s[m[1]][m[2]][m[3]] = "pending"
      BY <3>2
    <3>4. mail' = {m \in LN!LayerIds \X Heads \X LN!PageIds : p2s'[m[1]][m[2]][m[3]] = "pending"}
      BY <2>2, <3>1, <3>3
    <3>5. ~overflow' /\ ~(mails' > Mcap) /\ mails' \in Nat
      BY <1>1, <2>1, <2>2, <2>3, <3>1
    <3>6. /\ DOMAIN p2s' = LN!LayerIds
          /\ \A l \in LN!LayerIds : /\ DOMAIN p2s'[l] = Heads
                                    /\ \A g \in Heads : DOMAIN p2s'[l][g] = LN!PageIds
      BY <3>1 DEF MailInv
    <3>7. overflow' \in BOOLEAN
      BY <3>1 DEF MailInv
    <3> QED BY <1>1, <3>4, <3>5, <3>6, <3>7 DEF MailInv, LN!MailExact
  <2>4. CASE ~(mails < Mcap)
    <3>1. overflow' = TRUE /\ UNCHANGED <<p2s, mail>> /\ mails' > Mcap /\ mails' \in Nat
      BY <1>1, <2>1, <2>2, <2>4
    <3> QED BY <1>1, <2>2, <3>1 DEF MailInv, LN!MailExact
  <2> QED BY <2>3, <2>4
<1> QED BY <1>2, <1>3

LEMMA MailSame ==
  ASSUME MailInv, UNCHANGED <<p2s, mail, mails, overflow>>
  PROVE  MailInv'
<1>1. LN!LayerIds' = LN!LayerIds /\ LN!PageIds' = LN!PageIds
  BY DEF LN!LayerIds, LN!PageIds
<1> QED BY <1>1 DEF MailInv, LN!MailExact

LEMMA MailCta ==
  ASSUME LaneInv, AttendInv, MailInv, LN!DecodeCTA
  PROVE  MailInv'
<1>1. PICK u \in LN!Units, sp \in LN!Splits : LN!CTA(u, sp)
  BY DEF LN!DecodeCTA
<1>2. CASE LN!ReadPage(u, sp)
  <2> DEFINE i == pos[u][sp] + 1
  <2>1. /\ LaneTypes /\ LengthInv /\ RowsInv /\ Launched /\ at = "decode" /\ TableInv
        /\ layer \in LN!LayerIds /\ layer' = layer /\ pc[u][sp] = "loop"
    BY <1>2 DEF LaneInv, LaneTypes, AttendInv, GridInv, LN!DecodeCTA, Launched, LN!ReadPage
  <2>2. i \in 1 .. LN!Cnt(u)
    BY <2>1, ReadWhole
  <2>3. LN!Claim(u[2], table[u][i]) /\ u[2] \in Heads /\ u[1] \in LN!Reqs
    BY <1>2 DEF LN!ReadPage, LN!Units
  <2> HIDE DEF i
  <2>4. LN!Cnt(u) \in Nat /\ LN!Cnt(u) \in 1 .. LN!Cnt(u)
    BY <2>1, <2>2 DEF TableInv, LN!Cnt
  <2>5. table[u][i] \in Nat /\ table[u][i] <= LN!TailPage
    <3>1. u[1] = 1
      BY <2>1, <2>2, <2>3 DEF TableInv, LN!Reqs
    <3>2. table[u][LN!Cnt(u)] = LN!TailPage /\ table[u][i] \in Nat
          /\ (i < LN!Cnt(u) => table[u][i] < table[u][LN!Cnt(u)])
      BY <2>1, <2>2, <2>4, <3>1 DEF TableInv, LN!Cnt
    <3>3. LN!TailPage \in Nat
      BY <2>1, Pages
    <3>4. i < LN!Cnt(u) \/ i = LN!Cnt(u)
      BY <2>2, <2>4
    <3> QED BY <3>2, <3>3, <3>4
  <2>6. table[u][i] \in LN!PageIds
    BY <2>1, <2>5, Pages
  <2> QED BY <2>1, <2>3, <2>6, MailClaim
<1>3. CASE ~LN!ReadPage(u, sp)
  BY <1>1, <1>3, MailSame DEF LN!CTA, LN!Begin, LN!StorePartial, LN!Ticket
<1> QED BY <1>2, <1>3

LEMMA MailStep ==
  ASSUME LaneInv, AttendInv, MailInv, LN!Next
  PROVE  MailInv'
<1>1. CASE LN!Dummy
  BY <1>1, MailSame DEF LN!Dummy
<1>2. ASSUME NEW k, NEW n, LN!BeginStep(k, n) PROVE MailInv'
  BY <1>2, MailSame, MailService DEF LN!BeginStep
<1>3. CASE LN!Capture
  BY <1>2, <1>3 DEF LN!Capture
<1>4. CASE (\E n \in LN!Reqs : LN!Serve("decode", n)) \/ LN!Serve("mixed", 2)
           \/ LN!Serve("prefill", 1)
  BY <1>2, <1>4 DEF LN!Serve
<1>5. CASE LN!Absorb \/ LN!Project \/ LN!HookCO \/ LN!HookMem
  BY <1>5, MailSame DEF LN!Absorb, LN!Project, LN!HookCO, LN!HookMem, LN!cache
<1>6. CASE LN!ForwardDecode \/ LN!ForwardMixed \/ LN!ForwardDense
  BY <1>6, MailSame DEF LN!ForwardDecode, LN!ForwardMixed, LN!ForwardDense, LN!cache
<1>7. CASE LN!DecodeCTA
  BY <1>7, MailCta
<1>8. CASE LN!EndDecode \/ LN!NextLayer
  BY <1>8, MailSame DEF LN!EndDecode, LN!NextLayer, LN!cache
<1> QED BY <1>1, <1>3, <1>4, <1>5, <1>6, <1>7, <1>8 DEF LN!Next

LEMMA MailInit ==
  ASSUME LN!Init
  PROVE  MailInv
<1>1. /\ p2s = [l \in LN!LayerIds |-> [h \in Heads |-> [p \in LN!PageIds |-> "none"]]]
      /\ mail = {} /\ mails = 0 /\ overflow = FALSE
  BY DEF LN!Init
<1>2. Mcap \in Nat
  BY LaneAssumption DEF LN!AttendConstants
<1>3. {m \in LN!LayerIds \X Heads \X LN!PageIds : p2s[m[1]][m[2]][m[3]] = "pending"} = {}
  BY <1>1
<1>4. ~ (mails > Mcap)
  BY <1>1, <1>2
<1>5. LN!MailExact
  BY <1>1, <1>3, <1>4 DEF LN!MailExact
<1>6. /\ DOMAIN p2s = LN!LayerIds
      /\ \A l \in LN!LayerIds : /\ DOMAIN p2s[l] = Heads
                                /\ \A h \in Heads : DOMAIN p2s[l][h] = LN!PageIds
  BY <1>1
<1>7. mails \in Nat /\ overflow \in BOOLEAN
  BY <1>1
<1> QED BY <1>5, <1>6, <1>7 DEF MailInv

\* Every page a launch claimed is in the mailbox once and is pending, nothing
\* else is, and the overflow latch says exactly whether claims were reverted,
\* for any capacity and however the CTAs interleave.
THEOREM DecodeMail == Spec => []MailExact
<1> DEFINE Inv == arm = "lane" => LaneInv /\ AttendInv /\ MailInv
<1>1. Init => Inv
  BY LaneInit, AttendInit, MailInit DEF Init
<1>2. Inv /\ [Next]_vars => Inv'
  <2> SUFFICES ASSUME Inv, [Next]_vars PROVE Inv'
    OBVIOUS
  <2>1. CASE arm = "lane" /\ LN!Next /\ UNCHANGED <<arm, onlyRing>>
    BY <2>1, LaneStep, AttendStep, MailStep
  <2>2. CASE arm = "ring" /\ RG!Next /\ UNCHANGED <<arm, onlyLane>>
    BY <2>2
  <2>3. CASE UNCHANGED vars
    BY <2>3, LaneStutter, AttendStutter, MailSame DEF vars, onlyLane
  <2> QED BY <2>1, <2>2, <2>3 DEF Next
<1>3. Inv => MailExact
  BY DEF MailExact, MailInv
<1> QED BY <1>1, <1>2, <1>3, PTL DEF Spec
=============================================================================
