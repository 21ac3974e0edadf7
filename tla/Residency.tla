----------------------------- MODULE Residency -----------------------------
(***************************************************************************)
(* The exact-LRU hot buffer of one (layer, kv-head): the maps page2slot    *)
(* and slot2page, the per-slot clock, and the gather that is the single    *)
(* owner of the (bytes, maps) transition.  A step invalidates what it      *)
(* rewrites, classifies every selected complete page as a hit or a miss,   *)
(* gives each miss a victim slot, moves the bytes, and decodes.  The bytes *)
(* move by the fetch kernel (gather) or, under step_dma, by copy-engine    *)
(* runs for the flushed pages beside a kernel for the staged ones.         *)
(*                                                                         *)
(* Kernels of one stream are steps; programs of one launch are interleaved *)
(* where they share state.  A request's page p is block p.                 *)
(***************************************************************************)
EXTENDS Integers, Sequences, FiniteSets, SequencesExt

CONSTANTS
  Blocks,    \* physical blocks (naturals: contiguity and page order)
  S,         \* hot slots of the kv-head
  Reqs,      \* number of decoding requests
  MaxSel,    \* width of a page table (MP)
  Tables,    \* the sets of pages a request may select
  Writes,    \* the sets of blocks a step may rewrite
  MaxSteps   \* bound: steps

ResidencyConstants ==
  /\ Blocks \subseteq Nat /\ IsFiniteSet(Blocks) /\ S \in Nat \ {0} /\ Reqs \in Nat \ {0}
  /\ MaxSel \in Nat \ {0} /\ Tables \subseteq SUBSET Blocks
  /\ \A B \in Tables : Cardinality(B) <= MaxSel
  /\ Writes \subseteq SUBSET Blocks /\ MaxSteps \in Nat

VARIABLES
  fetch,       \* the transport chosen at start-up: "kernel" or "dma"
  at,          \* what the main stream does next
  ver,         \* rewrites of a block
  staged,      \* blocks with a staging slot (vbo >= 0)
  valid,       \* pool_valid: blocks whose pinned copy may be read
  pinned,      \* version of the bytes in the pinned pool
  partial,     \* the incomplete last pages
  p2s, s2p,    \* page2slot and slot2page
  lru, clock,  \* lru_clock per slot and the clock
  hot,         \* bytes of a slot: <<block, version>>
  sel,         \* sel[r]: the page table of request r
  miss, pos,   \* miss_pages of all units in walk order, <<request, block>>, and
               \* the walk's place
  victim,      \* victim_slots, one per miss walked so far
  overflow,    \* the latch
  todo,        \* kernel copies still to do: indices into the list they walk
  dma,         \* copy-engine rows still to do
  served,      \* what the decode of this step read
  used         \* history: the step in which a block was last selected

bytes == <<ver, staged, valid, pinned, partial>>
maps == <<p2s, s2p, lru, clock>>
vars == <<fetch, at, ver, staged, valid, pinned, partial, p2s, s2p, lru, clock,
          hot, sel, miss, pos, victim, overflow, todo, dma, served, used>>

None == -1
Slots == 1 .. S
Rows == 1 .. Reqs

Init ==
  /\ fetch \in {"kernel", "dma"} /\ at = "prologue"
  /\ ver = [b \in Blocks |-> 0] /\ pinned = [b \in Blocks |-> None]
  /\ staged = Blocks /\ valid = {} /\ partial = {}
  /\ p2s = [b \in Blocks |-> None] /\ s2p = [s \in Slots |-> None]
  /\ lru = [s \in Slots |-> 0] /\ clock = 1
  /\ hot = [s \in Slots |-> <<None, None>>]
  /\ sel = [r \in Rows |-> <<>>] /\ miss = <<>> /\ pos = 1 /\ victim = <<>>
  /\ overflow = FALSE /\ todo = {} /\ dma = {} /\ served = {}
  /\ used = [b \in Blocks |-> 0]

-----------------------------------------------------------------------------
(* Prologue: invalidate_written, then the staging flush *)

\* Mutant: the slot of a rewritten page keeps naming it.
S2PKept(W) == s2p

InvalidP2S(W) == [b \in Blocks |-> IF b \in W THEN None ELSE p2s[b]]
InvalidS2P(W) ==
  [s \in Slots |-> IF \E b \in W : p2s[b] = s THEN None ELSE s2p[s]]

BeginStep ==
  /\ at = "prologue" /\ clock <= MaxSteps
  /\ \E W \in Writes, F \in SUBSET staged, P \in SUBSET Blocks :
       /\ F \cap W = {} /\ P \subseteq W
       /\ ver' = [b \in Blocks |-> IF b \in W THEN ver[b] + 1 ELSE ver[b]]
       /\ p2s' = InvalidP2S(W) /\ s2p' = InvalidS2P(W)
       /\ valid' = (valid \ W) \cup F
       /\ staged' = (staged \cup W) \ F
       /\ pinned' = [b \in Blocks |-> IF b \in F THEN ver[b] ELSE pinned[b]]
       /\ partial' = P
  /\ at' = "diff" /\ served' = {}
  /\ UNCHANGED <<fetch, lru, clock, hot, sel, miss, pos, victim, overflow,
                 todo, dma, used>>

-----------------------------------------------------------------------------
(* gather_plan *)

Ascending(B) == CHOOSE s \in [1 .. Cardinality(B) -> B] :
                  \A i, j \in DOMAIN s : i < j => s[i] < s[j]

Complete(b) == b \notin partial
Hit(b) == Complete(b) /\ p2s[b] # None
MissesOf(r, B) ==
  LET Misses == Ascending({b \in B : Complete(b) /\ p2s[b] = None})
  IN  [i \in DOMAIN Misses |-> <<r, Misses[i]>>]

\* Mutant: hits are not touched.
TouchesNone(picked) == lru

Touches(picked) == [s \in Slots |->
                      IF \E b \in picked : Hit(b) /\ p2s[b] = s
                      THEN clock + 1 ELSE lru[s]]

\* _miss_diff_kernel: one program per request touches its hits and compacts
\* its misses.  The programs write different rows, and the same clock where
\* they touch the same slot.
MissDiff ==
  /\ at = "diff"
  /\ \E T \in [Rows -> Tables] :
       LET picked == UNION {T[r] : r \in Rows} IN
       /\ sel' = [r \in Rows |-> Ascending(T[r])]
       /\ miss' = FlattenSeq([r \in Rows |-> MissesOf(r, T[r])])
       /\ lru' = Touches(picked)
       /\ used' = [b \in Blocks |->
                     IF b \in picked /\ Complete(b) THEN clock + 1 ELSE used[b]]
  /\ clock' = clock + 1
  /\ pos' = 1 /\ victim' = <<>> /\ at' = "victims"
  /\ UNCHANGED <<fetch, bytes, p2s, s2p, hot, overflow, todo, dma, served>>

\* The slots the walk may take: not touched in this step; and the exact-LRU
\* choice among them, the first of the oldest.
Candidates == {s \in Slots : lru[s] < clock}
\* Mutant: the first candidate, whatever its age.
FirstSlot == CHOOSE s \in Candidates : \A t \in Candidates : s <= t

Oldest == CHOOSE s \in Candidates :
            \A t \in Candidates \ {s} :
              lru[s] < lru[t] \/ (lru[s] = lru[t] /\ s < t)

Page(i) == miss[i][2]
Walking == at = "victims" /\ pos <= Len(miss)

\* A page an earlier miss of the walk installed (shared prefix), or one no slot
\* is left for, takes no victim.
NoVictim ==
  /\ Walking
  /\ p2s[Page(pos)] # None \/ Candidates = {}
  /\ overflow' = (overflow \/ p2s[Page(pos)] = None)
  /\ victim' = Append(victim, None)
  /\ pos' = pos + 1
  /\ UNCHANGED <<fetch, at, bytes, maps, hot, sel, miss, todo, dma, served, used>>

\* _select_victims_kernel re-points both maps and touches the slot.
Install ==
  /\ Walking
  /\ p2s[Page(pos)] = None /\ Candidates # {}
  /\ LET b == Page(pos)
         h == Oldest
     IN  /\ p2s' = [c \in Blocks |-> IF c = b THEN h
                                     ELSE IF c = s2p[h] THEN None ELSE p2s[c]]
         /\ s2p' = [s2p EXCEPT ![h] = b]
         /\ lru' = [lru EXCEPT ![h] = clock]
         /\ victim' = Append(victim, h)
  /\ pos' = pos + 1
  /\ UNCHANGED <<fetch, at, bytes, clock, hot, sel, miss, overflow, todo, dma,
                 served, used>>

\* The misses that were installed, and the capacity of their flat list: the
\* worst case without dedup.
Installed == {i \in DOMAIN victim : victim[i] # None}
FCAP == Reqs * MaxSel
Listed == {i \in Installed :
             Cardinality({j \in Installed : j <= i}) <= FCAP}

-----------------------------------------------------------------------------
(* gather_fetch, and gather_fetch_dma *)

PlanDone == at = "victims" /\ pos > Len(miss)

FetchKernel ==
  /\ PlanDone /\ fetch = "kernel"
  /\ todo' = Listed
  /\ at' = "fetch"
  /\ UNCHANGED <<fetch, bytes, maps, hot, sel, miss, pos, victim, overflow,
                 dma, served, used>>

\* build_dma_plan reads miss list and validity on the host and coalesces runs
\* of consecutive blocks going to consecutive slots: Follows(i) continues the
\* run of the miss before it.
Flushed(i) == victim[i] # None /\ Page(i) \in valid
Follows(i) == /\ i > 1 /\ Flushed(i) /\ Flushed(i - 1)
              /\ miss[i] = <<miss[i - 1][1], Page(i - 1) + 1>>
              /\ victim[i] = victim[i - 1] + 1
RunRows(i) == {<<Page(i) + (k - i), victim[i] + (k - i)>> :
                 k \in {n \in i .. Len(miss) :
                          \A m \in i + 1 .. n : Follows(m)}}
Plan == UNION {RunRows(i) : i \in {n \in DOMAIN victim : Flushed(n) /\ ~Follows(n)}}
HasStaged == \E i \in Installed : Page(i) \notin valid

\* The runs go to a copy engine stream; staged misses make the gather kernel
\* walk the whole list on the main stream.
IssueDma ==
  /\ PlanDone /\ fetch = "dma"
  /\ dma' = Plan
  /\ todo' = IF HasStaged THEN Installed ELSE {}
  /\ at' = "fetch"
  /\ UNCHANGED <<fetch, bytes, maps, hot, sel, miss, pos, victim, overflow,
                 served, used>>

DmaRow ==
  /\ \E e \in dma :
       /\ hot' = [hot EXCEPT ![e[2]] = <<e[1], pinned[e[1]]>>]
       /\ dma' = dma \ {e}
  /\ UNCHANGED <<fetch, at, bytes, maps, sel, miss, pos, victim, overflow, todo,
                 served, used>>

\* One page of the fetch kernel: from the pinned pool if it was flushed, else
\* from staging with a write-through to the pool.
FromStaging(b) == b \notin valid /\ b \in staged
FetchPage ==
  /\ \E i \in todo :
       LET b == Page(i) IN
       /\ todo' = todo \ {i}
       /\ hot' = [hot EXCEPT ![victim[i]] =
                    <<b, IF FromStaging(b) THEN ver[b] ELSE pinned[b]>>]
       /\ pinned' = IF FromStaging(b) THEN [pinned EXCEPT ![b] = ver[b]]
                                      ELSE pinned
       /\ valid' = IF FromStaging(b) THEN valid \cup {b} ELSE valid
  /\ UNCHANGED <<fetch, at, ver, staged, partial, maps, sel, miss, pos, victim,
                 overflow, dma, served, used>>

-----------------------------------------------------------------------------
(* Tiered decode *)

\* The decode waits for the kernel by stream order and for the copies by the
\* event step_dma waits on.
Fetched == at = "fetch" /\ todo = {} /\ dma = {}

Source(b) == IF Hit(b) THEN hot[p2s[b]]
             ELSE <<b, IF b \in staged THEN ver[b] ELSE pinned[b]>>
Read(r, b) == <<r, b, IF Source(b)[1] = b THEN Source(b)[2] ELSE None>>

Decode ==
  /\ Fetched
  /\ served' = UNION {{Read(r, sel[r][i]) : i \in DOMAIN sel[r]} : r \in Rows}
  /\ at' = "prologue" /\ miss' = <<>> /\ pos' = 1 /\ victim' = <<>>
  /\ sel' = [r \in Rows |-> <<>>]
  /\ UNCHANGED <<fetch, bytes, maps, hot, overflow, todo, dma, used>>

Next == BeginStep \/ MissDiff \/ NoVictim \/ Install \/ FetchKernel \/ IssueDma
          \/ DmaRow \/ FetchPage \/ Decode

Spec == Init /\ [][Next]_vars

-----------------------------------------------------------------------------

\* page2slot and slot2page are mutual inverses (I3).
MapsInverse ==
  /\ \A b \in Blocks : p2s[b] # None => s2p[p2s[b]] = b
  /\ \A s \in Slots : s2p[s] # None => p2s[s2p[s]] = s

\* A step whose selection fits the hot buffer decodes from it alone.
Selected == UNION {{sel[r][i] : i \in DOMAIN sel[r]} : r \in Rows}
FitsResident ==
  Fetched /\ Cardinality({b \in Selected : Complete(b)}) <= S
    => \A b \in Selected : Complete(b) => p2s[b] # None

\* A page loses its slot to a miss only when no page selected less recently
\* keeps one.
OldestEvicted ==
  \A b, c \in Blocks :
    /\ at = "victims" /\ p2s[b] # None /\ p2s'[b] = None
    /\ p2s'[c] # None /\ c # Page(pos)
    => used[b] <= used[c]
=============================================================================
