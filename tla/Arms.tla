-------------------------------- MODULE Arms --------------------------------
(***************************************************************************)
(* The tier's arms, of which an engine starts with one: the racing         *)
(* fetch-all ("fa1"), the LRU gather ("lru"), and the K5 control plane     *)
(* ("k5", here one launch of its install kernel; module Transport has the  *)
(* schedule around it).  Whatever the arm, the decode is promised          *)
(* PageReads: every selected page, as it is now.                           *)
(***************************************************************************)
EXTENDS Integers

CONSTANTS
  Pages,     \* Pages[a]: the physical blocks of the instance of arm a
  L, Lcap, Streams, Picks,
  HotSlots,  \* HotSlots[a], Steps[a], Picks[a]: likewise
  Reqs, MaxSel,
  Margin, Mcap,
  Writes, Steps

VARIABLES
  arm, ver, clock, staged, valid, pinned, at, sel, served,
  tells, deep, gen, tail, layer, rank, read, side, busy, slotOf, land, flag,
  todo, fetch, partial, p2s, s2p, lru, hot, miss, pos, victim, overflow, dma,
  used, mode, misses, hits, epoch, owner, hand, mail, pc, cand, tries

FA1 == INSTANCE Landing WITH Blocks <- Pages["fa1"], Tables <- Picks["fa1"],
                             MaxSteps <- Steps["fa1"]
LRU == INSTANCE Residency WITH Blocks <- Pages["lru"], S <- HotSlots["lru"],
                               Tables <- Picks["lru"], MaxSteps <- Steps["lru"]
K5 == INSTANCE K5Probe WITH Blocks <- Pages["k5"], S <- HotSlots["k5"]

ASSUME ArmsAssumption ==
  /\ {"fa1", "lru", "k5"} \subseteq DOMAIN Pages
  /\ FA1!LandingConstants /\ LRU!ResidencyConstants /\ K5!K5ProbeConstants

\* What only the other arms allocate.
onlyFA1 == <<tells, deep, gen, tail, layer, rank, read, side, busy, slotOf,
             land, flag>>
onlyLRU == <<fetch, partial, lru, miss, pos, victim, dma, used>>
onlyK5 == <<mode, misses, hits, epoch, owner, hand, mail, pc, cand, tries>>
steps == <<clock, valid, pinned, at, sel, todo>>   \* not in one launch of K5
maps == <<p2s, s2p, hot, overflow>>                \* not under FA1

NoFA1 ==
  /\ tells = <<>> /\ deep = <<>> /\ gen = <<>> /\ tail = <<>> /\ layer = <<>>
  /\ rank = <<>> /\ read = <<>> /\ side = <<>> /\ busy = <<>> /\ slotOf = <<>>
  /\ land = <<>> /\ flag = <<>>
NoLRU ==
  /\ fetch = <<>> /\ partial = <<>> /\ lru = <<>> /\ miss = <<>> /\ pos = <<>>
  /\ victim = <<>> /\ dma = <<>> /\ used = <<>>
NoK5 ==
  /\ mode = <<>> /\ misses = <<>> /\ hits = <<>> /\ epoch = <<>> /\ owner = <<>>
  /\ hand = <<>> /\ mail = <<>> /\ pc = <<>> /\ cand = <<>> /\ tries = <<>>

Init ==
  \/ /\ arm = "fa1" /\ FA1!Init
     /\ NoLRU /\ NoK5
     /\ p2s = <<>> /\ s2p = <<>> /\ hot = <<>> /\ overflow = <<>>
  \/ /\ arm = "lru" /\ LRU!Init
     /\ NoFA1 /\ NoK5
  \/ /\ arm = "k5" /\ K5!Init
     /\ NoFA1 /\ NoLRU
     /\ clock = <<>> /\ valid = <<>> /\ pinned = <<>> /\ at = <<>>
     /\ sel = <<>> /\ todo = <<>>

Next ==
  \/ /\ arm = "fa1" /\ FA1!Next /\ UNCHANGED <<arm, onlyLRU, onlyK5, maps>>
  \/ /\ arm = "lru" /\ LRU!Next /\ UNCHANGED <<arm, onlyFA1, onlyK5>>
  \/ /\ arm = "k5" /\ K5!Next /\ UNCHANGED <<arm, onlyFA1, onlyLRU, steps>>

vars == <<arm, ver, served, onlyFA1, onlyLRU, onlyK5, steps, maps, staged>>

fa1 == FA1!vars

\* Streams and programs make progress; nobody has to start another step.
Fairness ==
  /\ WF_fa1(arm = "fa1" /\ FA1!Main)
  /\ WF_fa1(arm = "fa1" /\ FA1!Side)

Spec == Init /\ [][Next]_vars /\ Fairness

-----------------------------------------------------------------------------

AllPages == UNION {Pages[a] : a \in DOMAIN Pages}
PR == INSTANCE PageReads WITH
        Layers <- 0 .. L + Reqs, Blocks <- AllPages,
        ver <- [b \in AllPages |-> IF b \in Pages[arm] THEN ver[b] ELSE 0]

\* Whatever the arm, the decode reads every selected page as it is in this
\* step: never a torn, stale, evicted or not yet landed copy.
Reads == PR!Spec

\* LRU arm: page2slot and slot2page stay mutual inverses (I3) through
\* invalidation, victim selection, shared pages and overflow
\* (residency.py: select_victims, invalidate_written).
MapsInverse == arm = "lru" => LRU!MapsInverse

\* LRU arm: a step whose complete pages fit the slots decodes from the hot
\* buffer alone: the walk never takes the slot of a hit or of an earlier miss.
FitsResident == arm = "lru" => LRU!FitsResident

\* LRU arm: a page loses its slot to a miss only when no page selected less
\* recently keeps one, across steps and requests.
EvictsOldest == [][arm = "lru" => LRU!OldestEvicted]_vars

\* K5 arm: no two install programs believe they hold one slot, and none holds
\* a slot a hit or a posted transfer needs (_k5b_kernel's claim and re-check).
ClaimExclusive == arm = "k5" => K5!ClaimExclusive

\* K5 arm: when a launch ends, every advertised page is in the slot that names
\* it, hits kept their slots, and every pending page is in the mailbox.
Settled == arm = "k5" => K5!Settled

\* FA1 arm: the decode of a layer that began ends: neither the joins nor the
\* order of the side streams can wedge the step.
StepEnds == (arm = "fa1" /\ at = "decode") ~> (at # "decode")
=============================================================================
