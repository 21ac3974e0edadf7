------------------------------ MODULE Landing ------------------------------
(***************************************************************************)
(* The fetch-all arm of the single-request tiered decode (FA1).  After a   *)
(* layer's selection the tier forks a side stream that copies the selected *)
(* pages from the pinned pool into a landing buffer; the layer's decode    *)
(* does not wait for it.  Each program of the decode asks, per page,       *)
(* whether the page has landed, and reads the pinned pool in place when it *)
(* has not.  There are two ways of telling:                                *)
(*                                                                         *)
(*   "epoch"   two buffers shared by layers of equal parity, slot = rank   *)
(*             in the selection, a flag holding clock * L + layer;         *)
(*   "tagged"  one buffer per layer, a slot kept while its page stays      *)
(*             selected, a tag holding the block and its generation.       *)
(*                                                                         *)
(* With DEEP set the fetches of a step are only joined after the last      *)
(* layer.  The request's page p is block p; the hot buffer is empty under  *)
(* this arm (nothing installs), so page2slot is left out.                  *)
(***************************************************************************)
EXTENDS Integers, Sequences, FiniteSets

CONSTANTS
  L,         \* number of layers
  Blocks,    \* physical blocks (naturals: the page table is ascending)
  Lcap,      \* slots of one landing buffer
  Streams,   \* side streams of the tagged buffers (8 in the code)
  Writes,    \* the sets of blocks a step may rewrite
  Tables,    \* the sets of blocks a layer may select
  MaxSteps   \* bound: decode steps

Ranks == 1 .. Lcap

LandingConstants ==
  /\ L \in Nat \ {0} /\ Lcap \in Nat \ {0} /\ Streams \in Nat \ {0}
  /\ MaxSteps \in Nat /\ Blocks \subseteq Nat /\ IsFiniteSet(Blocks)
  /\ Ranks \subseteq Blocks
  /\ Writes \subseteq SUBSET Blocks /\ Tables \subseteq SUBSET Blocks \ {{}}

VARIABLES
  tells, deep,     \* how a landing is told, and the join, chosen at start-up
  clock,           \* the step clock, ticked at the graph head
  ver, gen,        \* rewrites of a block; the generation invalidate_written keeps
  staged,          \* blocks with a staging slot (vbo >= 0)
  valid,           \* blocks whose pinned copy may be read (pool_valid)
  pinned,          \* version of the bytes in the pinned pool
  tail,            \* the block of the incomplete last page, or None
  layer, at,       \* main stream: layer, and what it does in it
  sel,             \* sel[l]: the page table of layer l in this step
  rank, read,      \* the decode program's rank and its progress on it
  side,            \* side[l]: progress of layer l's fetch
  todo,            \* todo[l]: what the fetch has not begun to copy
  busy,            \* busy[l]: what it is copying
  slotOf,          \* slotOf[l][j]: landing slot of rank j (tagged)
  land, flag,      \* bytes and flag of each landing slot
  served

main == <<tells, deep, clock, ver, gen, staged, valid, pinned, tail>>
vars == <<tells, deep, clock, ver, gen, staged, valid, pinned, tail, layer, at,
          sel, rank, read, side, todo, busy, slotOf, land, flag, served>>

None == -1
Layers == 0 .. L - 1
Torn == <<None, None>>     \* bytes of a copy that is under way

\* Landing buffer of a layer: lidx & 1, or one per layer.
Buf(l) == IF tells = "epoch" THEN l % 2 ELSE l

\* Side stream of a layer's fetch.
StreamOf(l) == IF tells = "epoch" THEN 0 ELSE l % Streams

Epoch(l) == clock * L + l

\* Mutant: the tag is the block alone.
WantBlock(b) == <<0, b>>

\* (gen[blk] << 32) | blk
Want(b) == <<gen[b], b>>

Flag(l, b) == IF tells = "epoch" THEN <<Epoch(l), None>> ELSE Want(b)

\* A page the fetch copies: complete, and flushed to the pinned pool.
Landable(b) == b # tail /\ b \in valid

Ascending(B) == CHOOSE s \in [1 .. Cardinality(B) -> B] :
                  \A i, j \in DOMAIN s : i < j => s[i] < s[j]

\* An engine that has just started, or (warm) whose landings were filled with
\* blocks 1 .. Lcap by an earlier step.
Init ==
  /\ tells \in {"epoch", "tagged"} /\ deep \in BOOLEAN
  /\ clock = 1
  /\ ver = [b \in Blocks |-> 0] /\ gen = [b \in Blocks |-> 0]
  /\ staged = {} /\ valid = Blocks /\ tail = None
  /\ pinned = [b \in Blocks |-> 0]
  /\ layer = 0 /\ at = "head"
  /\ sel = [l \in Layers |-> <<>>] /\ rank = 1 /\ read = <<"start">>
  /\ side = [l \in Layers |-> "idle"]
  /\ todo = [l \in Layers |-> {}] /\ busy = [l \in Layers |-> {}]
  /\ \E warm \in BOOLEAN :
       /\ warm => tells = "tagged"
       /\ slotOf = [l \in Layers |-> [j \in Ranks |-> IF warm THEN j ELSE None]]
       /\ land = [f \in Layers |-> [s \in Ranks |-> IF warm THEN <<s, 0>> ELSE Torn]]
       /\ flag = [f \in Layers |-> [s \in Ranks |->
                                    IF warm THEN <<0, s>> ELSE <<None, None>>]]
  /\ served = {}

-----------------------------------------------------------------------------
(* The step prologue and the graph head *)

\* A rewrite drops the pinned copy and opens a new generation.
Bumped(W) == [b \in Blocks |-> IF b \in W THEN gen[b] + 1 ELSE gen[b]]

\* begin_step invalidates the pages W this step writes and flushes settled
\* staged pages F; k8_head then ticks the clock.  The last written page is
\* the incomplete tail unless this step's token fills it.
GraphHead ==
  /\ at = "head" /\ clock <= MaxSteps
  /\ \E W \in Writes, F \in SUBSET staged :
       /\ F \cap W = {}
       /\ ver' = [b \in Blocks |-> IF b \in W THEN ver[b] + 1 ELSE ver[b]]
       /\ gen' = Bumped(W)
       /\ valid' = (valid \ W) \cup F
       /\ staged' = (staged \cup W) \ F
       /\ pinned' = [b \in Blocks |-> IF b \in F THEN ver[b] ELSE pinned[b]]
       /\ tail' \in W \cup {None}
  /\ clock' = clock + 1
  /\ layer' = 0 /\ at' = "select" /\ served' = {}
  /\ side' = [l \in Layers |-> "idle"]
  /\ sel' = [l \in Layers |-> <<>>] /\ rank' = 1
  /\ UNCHANGED <<tells, deep, read, todo, busy, slotOf, land, flag>>

-----------------------------------------------------------------------------
(* Main stream: selection and fork, racing decode, join *)

\* Stage A leaves a page table, and fa1_step forks the fetch behind it.
Select ==
  /\ at = "select"
  /\ \E B \in Tables :
       sel' = [sel EXCEPT ![layer] = Ascending(B)]
  /\ rank' = 1 /\ read' = <<"start">>
  /\ side' = [side EXCEPT ![layer] = "forked"]
  /\ at' = "decode"
  /\ UNCHANGED <<main, layer, todo, busy, slotOf, land, flag, served>>

Reading == at = "decode" /\ rank <= Len(sel[layer])

\* The page the program is at (its ranks in ascending order).
Page == sel[layer][rank]

NextRank == rank' = rank + 1 /\ read' = <<"start">>

\* What a program of the decode gets from bytes that should be block b's.
Got(b, bytes) == <<layer, b, IF bytes[1] = b THEN bytes[2] ELSE None>>

\* A staged page is read where it is staged.
ReadStaged ==
  /\ Reading /\ read = <<"start">> /\ Page \in staged
  /\ served' = served \cup {Got(Page, <<Page, ver[Page]>>)}
  /\ NextRank
  /\ UNCHANGED <<main, layer, at, sel, side, todo, busy, slotOf, land, flag>>

\* The rank's slot: the rank itself, or slot_of as it happens to be.  A rank
\* past the landing's capacity has none.
ReadSlot ==
  /\ Reading /\ read = <<"start">> /\ Page \notin staged
  /\ read' = <<"slot", IF rank > Lcap THEN None
                       ELSE IF tells = "epoch" THEN rank
                       ELSE slotOf[layer][rank]>>
  /\ UNCHANGED <<main, layer, at, sel, rank, side, todo, busy, slotOf, land,
                 flag, served>>

\* The acquiring load of the flag decides between the landing and the pool.
Landed(s) == s # None /\ flag[Buf(layer)][s] = Flag(layer, Page)

ReadFlag ==
  /\ Reading /\ read[1] = "slot"
  /\ LET s == read[2] IN
       IF Landed(s)
       THEN read' = <<"land", s>> /\ UNCHANGED <<rank, served>>
       ELSE /\ served' = served \cup {Got(Page, <<Page, pinned[Page]>>)}
            /\ NextRank
  /\ UNCHANGED <<main, layer, at, sel, side, todo, busy, slotOf, land, flag>>

ReadLanding ==
  /\ Reading /\ read[1] = "land"
  /\ served' = served \cup {Got(Page, land[Buf(layer)][read[2]])}
  /\ NextRank
  /\ UNCHANGED <<main, layer, at, sel, side, todo, busy, slotOf, land, flag>>

\* side_join: the layers whose tail event the main stream waits for when it
\* closes layer l.
Waits(l) ==
  IF tells = "tagged" /\ l = L - 1
  THEN {k \in Layers : k >= L - Streams}
  ELSE IF deep /\ l # L - 1 THEN {} ELSE {l}

Join ==
  /\ at = "decode" /\ rank > Len(sel[layer])
  /\ \A l \in Waits(layer) : side[l] = "done"
  /\ IF layer = L - 1 THEN at' = "head" /\ UNCHANGED layer
                      ELSE at' = "select" /\ layer' = layer + 1
  /\ UNCHANGED <<main, sel, rank, read, side, todo, busy, slotOf, land, flag, served>>

-----------------------------------------------------------------------------
(* Side streams *)

\* Mutant: the wait includes the fetch's own tail event.
TurnOwn(l) == \A k \in Layers : k <= l /\ StreamOf(k) = StreamOf(l) =>
                side[k] \in {"idle", "done"}

\* A fetch begins when the forks before it on its stream have finished.
Turn(l) == \A k \in Layers : k < l /\ StreamOf(k) = StreamOf(l) =>
             side[k] \in {"idle", "done"}

Count(l) == IF Len(sel[l]) < Lcap THEN Len(sel[l]) ELSE Lcap

\* fa1_fetch: every landable rank is copied to the slot of its rank.
FetchAll(l) ==
  /\ tells = "epoch" /\ side[l] = "forked" /\ Turn(l)
  /\ todo' = [todo EXCEPT ![l] =
       {<<j, sel[l][j]>> : j \in {i \in 1 .. Count(l) : Landable(sel[l][i])}}]
  /\ side' = [side EXCEPT ![l] = "copying"]
  /\ UNCHANGED <<main, layer, at, sel, rank, read, busy, slotOf, land, flag, served>>

\* The ranks whose page is to be in the landing, and the slot that has it.
Wanted(l) == {j \in 1 .. Count(l) : Landable(sel[l][j])}
Match(l, j) ==
  LET S == {s \in Ranks : flag[l][s] = Want(sel[l][j])}
  IN  IF S = {} THEN None ELSE CHOOSE s \in S : \A t \in S : s <= t
Used(l) == {Match(l, j) : j \in Wanted(l)} \ {None}

\* fa1_assign, first half: match the selection against the tags, and give the
\* unmatched ranks the free slots in ascending order.
Missing(l) == {j \in Wanted(l) : Match(l, j) = None}
Free(l) == {s \in Ranks : s \notin Used(l)}
Nth(S, n) == CHOOSE s \in S : Cardinality({t \in S : t < s}) = n - 1
Claim(l, j) == LET n == Cardinality({i \in Missing(l) : i <= j})
               IN  IF n > Cardinality(Free(l)) THEN None ELSE Nth(Free(l), n)
Assigned(l, j) == IF j \notin Wanted(l) THEN None
                  ELSE IF Match(l, j) # None THEN Match(l, j) ELSE Claim(l, j)

\* The kernel decides from the tags alone, which nothing changes while it runs;
\* its stores to slot_of then land one by one under the decode's reads.
Assign(l) ==
  /\ tells = "tagged" /\ side[l] = "forked" /\ Turn(l)
  /\ todo' = [todo EXCEPT ![l] =
       {<<Claim(l, j), sel[l][j]>> : j \in {i \in Missing(l) : Claim(l, i) # None}}]
  /\ busy' = [busy EXCEPT ![l] = {<<j, Assigned(l, j)>> : j \in Ranks}]
  /\ side' = [side EXCEPT ![l] = "assigning"]
  /\ UNCHANGED <<main, layer, at, sel, rank, read, slotOf, land, flag, served>>

StoreSlotOf(l) ==
  /\ side[l] = "assigning"
  /\ \E e \in busy[l] :
       /\ \A f \in busy[l] : e[1] <= f[1]
       /\ slotOf' = [slotOf EXCEPT ![l][e[1]] = e[2]]
       /\ busy' = [busy EXCEPT ![l] = @ \ {e}]
       /\ side' = IF busy[l] = {e} THEN [side EXCEPT ![l] = "copying"] ELSE side
  /\ UNCHANGED <<main, layer, at, sel, rank, read, todo, land, flag, served>>

\* The copies run in parallel: the bytes of a slot are torn from the first
\* store until the last, and the flag follows them behind a fence.
BeginCopy(l) ==
  /\ side[l] = "copying"
  /\ \E e \in todo[l] :
       /\ land' = [land EXCEPT ![Buf(l)][e[1]] = Torn]
       /\ todo' = [todo EXCEPT ![l] = @ \ {e}]
       /\ busy' = [busy EXCEPT ![l] = @ \cup {e}]
  /\ UNCHANGED <<main, layer, at, sel, rank, read, side, slotOf, flag, served>>

Publish(l) ==
  /\ side[l] = "copying"
  /\ \E e \in busy[l] :
       /\ land' = [land EXCEPT ![Buf(l)][e[1]] = <<e[2], pinned[e[2]]>>]
       /\ flag' = [flag EXCEPT ![Buf(l)][e[1]] = Flag(l, e[2])]
       /\ busy' = [busy EXCEPT ![l] = @ \ {e}]
  /\ UNCHANGED <<main, layer, at, sel, rank, read, side, todo, slotOf, served>>

TailEvent(l) ==
  /\ side[l] = "copying" /\ todo[l] = {} /\ busy[l] = {}
  /\ side' = [side EXCEPT ![l] = "done"]
  /\ UNCHANGED <<main, layer, at, sel, rank, read, todo, busy, slotOf, land, flag,
                 served>>

Fetch(l) == FetchAll(l) \/ Assign(l) \/ StoreSlotOf(l) \/ BeginCopy(l)
              \/ Publish(l) \/ TailEvent(l)
Read == ReadStaged \/ ReadSlot \/ ReadFlag \/ ReadLanding

\* What the main stream does once a step has begun, and the side streams.
Main == Select \/ Read \/ Join
Side == \E l \in Layers : Fetch(l)

Next == GraphHead \/ Main \/ Side

Spec == Init /\ [][Next]_vars
=============================================================================
