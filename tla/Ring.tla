-------------------------------- MODULE Ring --------------------------------
(***************************************************************************)
(* One CTA of the hand-written CUDA decode.  Its warps fill a ring of      *)
(* shared-memory stages with asynchronous copies, each warp its part of a  *)
(* page, and read the whole page behind a wait and a barrier.  "split":    *)
(* all warps work on one page per turn, the next load goes out between the *)
(* reads of K and V.  "fused": groups of warps stripe the pages, the next  *)
(* load goes out before the reads, a barrier ends the turn, and the        *)
(* groups' partials are combined in shared memory.                         *)
(***************************************************************************)
EXTENDS Integers, Sequences

CONSTANTS
  Depth,     \* Depth[k]: ring stages (NSTAGE, FWAVES) kernel k is built with
  Groups,    \* Groups[k]: page groups (1, NPG)
  Team,      \* Team[k]: warps per group
  MaxPages   \* bound: pages of the CTA

VARIABLES
  kern, depth, cnt,
  turn,      \* turn[w]: the page or wave warp w is at
  pc,
  sent,      \* sent[w]: the pages of its committed copy groups, None if empty
  landed,    \* landed[w]: which of those have arrived
  ring,      \* ring[w][s]: what w's part of stage s holds
  bars,      \* bars[w]: barriers arrived at
  acc,       \* acc[w]: pages summed; sm[w]: as dumped to shared memory
  sm

vars == <<kern, depth, cnt, turn, pc, sent, landed, ring, bars, acc, sm>>

Empty == -1    \* no page: an empty group, a stage never loaded
Torn == -2     \* a copy is on its way

\* A kernel built with one stage does not compile; the split kernel's warps are
\* one group.
RingConstants ==
  /\ DOMAIN Depth \subseteq {"split", "fused"} /\ MaxPages \in Nat
  /\ \A k \in DOMAIN Depth :
       /\ \A d \in Depth[k] : d \in Nat /\ d >= 2
       /\ Groups[k] \in Nat \ {0} /\ Team[k] \in Nat \ {0}
       /\ k = "split" => Groups[k] = 1

Warps == 0 .. Groups[kern] * Team[kern] - 1
GroupOf(w) == w \div Team[kern]
Turns == (cnt + Groups[kern] - 1) \div Groups[kern]
Stage(t) == t % depth
PageAt(w, t) == t * Groups[kern] + GroupOf(w)
Held(w) == PageAt(w, turn[w]) < cnt

Init ==
  /\ kern \in DOMAIN Depth /\ depth \in Depth[kern] /\ cnt \in 1 .. MaxPages
  /\ turn = [w \in Warps |-> 0] /\ pc = [w \in Warps |-> "prime"]
  /\ sent = [w \in Warps |-> <<>>] /\ landed = [w \in Warps |-> {}]
  /\ ring = [w \in Warps |-> [s \in 0 .. depth - 1 |-> Empty]]
  /\ bars = [w \in Warps |-> 0]
  /\ acc = [w \in Warps |-> <<>>] /\ sm = [w \in Warps |-> <<>>]

-----------------------------------------------------------------------------

\* Loads warp w's part of the pages of the given turns, one commit for each;
\* a turn with no page for it commits an empty group.  Until a copy lands its
\* destination is torn.
Load(w, turns) ==
  LET page(t) == IF t < Turns /\ PageAt(w, t) < cnt THEN PageAt(w, t) ELSE Empty
  IN /\ sent' = [sent EXCEPT ![w] = @ \o [i \in 1 .. Len(turns) |-> page(turns[i])]]
     /\ ring' = [ring EXCEPT ![w] = [s \in DOMAIN @ |->
                   IF \E i \in 1 .. Len(turns) : Stage(turns[i]) = s /\ page(turns[i]) # Empty
                   THEN Torn ELSE @[s]]]

Land(w, i) ==
  /\ i \in 1 .. Len(sent[w]) /\ sent[w][i] # Empty /\ i \notin landed[w]
  /\ landed' = [landed EXCEPT ![w] = @ \union {i}]
  /\ ring' = [ring EXCEPT ![w][Stage(i - 1)] = sent[w][i]]
  /\ UNCHANGED <<kern, depth, cnt, turn, pc, sent, bars, acc, sm>>

\* cp.async.wait_group n: all but the n latest groups have landed.
Landed(w, n) ==
  \A i \in 1 .. Len(sent[w]) - n : sent[w][i] = Empty \/ i \in landed[w]

At(w, here, next) == pc[w] = here /\ pc' = [pc EXCEPT ![w] = next]
Arrive(w) == bars' = [bars EXCEPT ![w] = @ + 1]
Released(w) == \A v \in Warps : bars[v] >= bars[w]

Prime(w) ==
  /\ At(w, "prime", "primed")
  /\ Load(w, [i \in 1 .. depth - 1 |-> i - 1])
  /\ Arrive(w)
  /\ UNCHANGED <<kern, depth, cnt, turn, landed, acc, sm>>

Primed(w) ==
  /\ Released(w) /\ At(w, "primed", "wait")
  /\ UNCHANGED <<kern, depth, cnt, turn, sent, landed, ring, bars, acc, sm>>

\* Mutant of Wait: one more group may still be in flight.
WaitLate(w) ==
  /\ Landed(w, depth - 1)
  /\ At(w, "wait", "sync") /\ Arrive(w)
  /\ UNCHANGED <<kern, depth, cnt, turn, sent, landed, ring, acc, sm>>

Wait(w) ==
  /\ Landed(w, depth - 2)
  /\ At(w, "wait", "sync") /\ Arrive(w)
  /\ UNCHANGED <<kern, depth, cnt, turn, sent, landed, ring, acc, sm>>

Sync(w) ==
  /\ Released(w)
  /\ At(w, "sync", IF kern = "split" THEN "qk" ELSE "load")
  /\ UNCHANGED <<kern, depth, cnt, turn, sent, landed, ring, bars, acc, sm>>

\* The split kernel: K of this page, the load of a later one, V of this page.
QK(w) ==
  /\ kern = "split" /\ At(w, "qk", "load")
  /\ UNCHANGED <<kern, depth, cnt, turn, sent, landed, ring, bars, acc, sm>>

Prefetch(w) ==
  /\ kern = "split" /\ At(w, "load", "pv")
  /\ Load(w, <<turn[w] + depth - 1>>)
  /\ UNCHANGED <<kern, depth, cnt, turn, landed, bars, acc, sm>>

PV(w) ==
  /\ kern = "split" /\ At(w, "pv", IF turn[w] + 1 < Turns THEN "wait" ELSE "end")
  /\ acc' = [acc EXCEPT ![w] = Append(@, ring[w][Stage(turn[w])])]
  /\ turn' = [turn EXCEPT ![w] = @ + 1]
  /\ UNCHANGED <<kern, depth, cnt, sent, landed, ring, bars, sm>>

\* The fused kernel: the load of a later wave first; a group whose stripe has
\* no page in this wave goes straight to the barrier that ends it.
PrefetchWave(w) ==
  /\ kern = "fused" /\ At(w, "load", IF Held(w) THEN "qk" ELSE "turn")
  /\ Load(w, <<turn[w] + depth - 1>>)
  /\ IF Held(w) THEN UNCHANGED bars ELSE Arrive(w)
  /\ UNCHANGED <<kern, depth, cnt, turn, landed, acc, sm>>

WaveQK(w) ==
  /\ kern = "fused" /\ At(w, "qk", "pv")
  /\ UNCHANGED <<kern, depth, cnt, turn, sent, landed, ring, bars, acc, sm>>

WavePV(w) ==
  /\ kern = "fused" /\ At(w, "pv", "turn") /\ Arrive(w)
  /\ acc' = [acc EXCEPT ![w] = Append(@, ring[w][Stage(turn[w])])]
  /\ UNCHANGED <<kern, depth, cnt, turn, sent, landed, ring, sm>>

TurnEnd(w) ==
  /\ Released(w) /\ At(w, "turn", IF turn[w] + 1 < Turns THEN "wait" ELSE "dump")
  /\ turn' = [turn EXCEPT ![w] = @ + 1]
  /\ UNCHANGED <<kern, depth, cnt, sent, landed, ring, bars, acc, sm>>

Dump(w) ==
  /\ At(w, "dump", "combine") /\ Arrive(w)
  /\ sm' = [sm EXCEPT ![w] = acc[w]]
  /\ UNCHANGED <<kern, depth, cnt, turn, sent, landed, ring, acc>>

Combine(w) ==
  /\ Released(w) /\ At(w, "combine", "end")
  /\ UNCHANGED <<kern, depth, cnt, turn, sent, landed, ring, bars, acc, sm>>

Warp(w) ==
  \/ Prime(w) \/ Primed(w) \/ Wait(w) \/ Sync(w)
  \/ QK(w) \/ Prefetch(w) \/ PV(w)
  \/ PrefetchWave(w) \/ WaveQK(w) \/ WavePV(w) \/ TurnEnd(w) \/ Dump(w) \/ Combine(w)

Next ==
  \/ \E w \in Warps : Warp(w)
  \/ \E w \in Warps, i \in 1 .. MaxPages + 3 : Land(w, i)

-----------------------------------------------------------------------------

\* A warp's slice of the sum over the pages of its group.
Stripe(w) == [i \in 1 .. (cnt - GroupOf(w) + Groups[kern] - 1) \div Groups[kern] |-> PageAt(w, i - 1)]

\* While a warp reads a stage, every part of it is the page of its turn; what
\* it sums, and what the combine reads, is each page of its stripe once.
RingExact ==
  \A w \in Warps :
    /\ pc[w] \in {"qk", "pv"} =>
         \A v \in Warps : GroupOf(v) = GroupOf(w) =>
           ring[v][Stage(turn[w])] = PageAt(w, turn[w])
    /\ pc[w] = "end" =>
         /\ acc[w] = Stripe(w)
         /\ kern = "fused" => \A v \in Warps : sm[v] = Stripe(v)
=============================================================================
