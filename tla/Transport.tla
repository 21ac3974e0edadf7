----------------------------- MODULE Transport -----------------------------
(***************************************************************************)
(* The K5 residency transport of locks.tier: how a page of V (and K) moves *)
(* from the pinned host pool or the VRAM staging pool into a slot of the   *)
(* bounded hot buffer, who may claim a slot, and when the reader's map     *)
(* page2slot may name it.                                                  *)
(*                                                                         *)
(* One (layer, kv-head) unit is modelled: every map, owner word and clock  *)
(* of the code is per unit, and units share only the mailbox.  A page's    *)
(* bytes are abstracted to the pair (block, generation) they were written  *)
(* under; gen[b] is the generation whose bytes a reader of b must see.     *)
(*                                                                         *)
(* Three parties interleave: the host prologue (Service, Prologue), the    *)
(* main CUDA stream of a step (Head, K5Step, EndStep) and the transfer     *)
(* stream (FenceFires), which copies while the other two run.              *)
(***************************************************************************)
EXTENDS Integers, FiniteSets

CONSTANTS
    Blocks,     \* physical KV blocks (vLLM block ids)
    Slots,      \* hot-buffer slots of the unit
    Plan,       \* LOCKS_TIER_SIDE: Tier.side_step (plan) or Tier.step (stream)
    Batch,      \* an engine with max_reqs > 1 (res.R > 1)
    Promo1,     \* LOCKS_K5_PROMO1
    MailCap,    \* rows of the mailbox (mcap)
    BucketCap,  \* rows of a unit's bucket (bkt_cap)
    MaxGen      \* bound of the model: rewrites of one block

Absent  == -1   \* page2slot: not resident
Pending == -2   \* page2slot: claimed, transfer in flight
NoPage  == -1   \* slot2page: empty slot
NoSlot  == -1   \* mailbox row without a slot (K7 append, or a dead row)

ASSUME TransportAssumption ==
    /\ Slots \cap {Absent, Pending} = {}
    /\ NoPage \notin Blocks
    /\ {Plan, Batch, Promo1} \subseteq BOOLEAN
    /\ {MailCap, BucketCap, MaxGen} \subseteq Nat

VARIABLES
    p2s,       \* page2slot: what a reader of a block follows
    s2p,       \* slot2page: the page a slot records
    owner,     \* slots whose owner word is held
    fresh,     \* slots inside the recency window of the clock
    gen,       \* block generation, bumped by every (re)write
    staged,    \* blocks with a staging v-block (vbo >= 0)
    pool,      \* generation of the bytes in the pinned pool
    valid,     \* blocks whose pinned copy is valid (pool_valid)
    complete,  \* blocks of running requests, every token written
    live,      \* blocks held by running requests
    decoded,   \* one-request engine: the request has taken a decode step
    hot,       \* the bytes in a slot
    mail,      \* the mailbox rows [0, mail_cnt)
    snap,      \* the rows of the two snapshot buffers, until applied
    fly,       \* transport of a snapshot: idle, copying, or fenced
    par,       \* snapshot parity (_par)
    elist,     \* evict list of the graph head
    plist,     \* promote list of the graph head
    phase      \* where the step is

maps  == <<p2s, s2p, owner, fresh>>
store == <<gen, staged, pool, valid, complete, live, decoded>>
queue == <<mail, snap, fly, par, elist, plist>>
vars  == <<maps, store, hot, queue, phase>>

Bufs == {0, 1}
Row  == [blk : Blocks, gen : Nat, slot : Slots \cup {NoSlot}]
Torn == [blk |-> NoPage, gen |-> 0]     \* a slot whose bytes are no page's

\* PROMO1 at a batch engine: the prologue applies the fenced batch itself.
HeadOwns     == FALSE                           \* mutant: PROMO1 left off
PrologueOwns == Promo1 /\ Batch

Least(a, b) == IF a < b THEN a ELSE b
Assigned(rows) == {r \in rows : r.slot # NoSlot}
SlotsOf(rows)  == {r.slot : r \in Assigned(rows)}

\* The head of the _inflight list: batches alternate between two buffers.
Oldest == IF fly[par] # "idle" THEN par ELSE 1 - par
Fenced == {b \in Bufs : b = Oldest /\ fly[b] = "fenced"}

-----------------------------------------------------------------------------
(* The two list walkers of the graph head, on given maps (pm, sm). *)

\* _k5_evict_kernel: un-advertise the old page of every claimed slot.
EvictedByNone(rows, pm, sm) == {}               \* mutant: slots re-pointed only
EvictedBy(rows, pm, sm) ==
    {b \in Blocks : \E r \in Assigned(rows) :
        sm[r.slot] = b /\ b # r.blk /\ pm[b] = r.slot}
EvictP2S(rows, pm, sm) ==
    [b \in Blocks |-> IF b \in EvictedBy(rows, pm, sm) THEN Absent ELSE pm[b]]
EvictS2P(rows, sm) ==
    [h \in Slots |-> IF \E r \in Assigned(rows) : r.slot = h
                     THEN (CHOOSE r \in Assigned(rows) : r.slot = h).blk
                     ELSE sm[h]]

\* _k5_promote_kernel: install the rows no rewrite has overtaken, abandon the
\* slots of the others, and release every row's owner word.
InstallsStale(rows, pm, g) ==                   \* mutant: no generation guard
    {r \in Assigned(rows) : pm[r.blk] = Pending}
Installs(rows, pm, g) ==
    {r \in Assigned(rows) : g[r.blk] = r.gen /\ pm[r.blk] = Pending}
PromoteP2S(rows, pm, g) ==
    [b \in Blocks |-> IF \E r \in Installs(rows, pm, g) : r.blk = b
                      THEN (CHOOSE r \in Installs(rows, pm, g) : r.blk = b).slot
                      ELSE pm[b]]
KeepS2P(rows, pm, sm, g) == sm                  \* mutant: abandoned slot kept
PromoteS2P(rows, pm, sm, g) ==
    [h \in Slots |->
        IF h \in SlotsOf(rows) \ SlotsOf(Installs(rows, pm, g))
        THEN NoPage ELSE sm[h]]
Released(rows) == SlotsOf(rows)

-----------------------------------------------------------------------------
Init ==
    /\ p2s = [b \in Blocks |-> Absent]
    /\ s2p = [h \in Slots |-> NoPage]
    /\ owner = {} /\ fresh = {}
    /\ gen = [b \in Blocks |-> 0]
    /\ pool = [b \in Blocks |-> 0]
    /\ staged = {} /\ valid = {} /\ complete = {} /\ live = {}
    /\ decoded = FALSE
    /\ hot = [h \in Slots |-> Torn]
    /\ mail = {} /\ elist = {} /\ plist = {}
    /\ snap = [b \in Bufs |-> {}]
    /\ fly = [b \in Bufs |-> "idle"]
    /\ par = 0
    /\ phase = "idle"

\* Requests finish or are preempted between steps; their blocks are freed.
Finish(D) ==
    /\ phase = "idle"
    /\ D # {}
    /\ Batch \/ D = live
    /\ live' = live \ D
    /\ complete' = complete \ D
    /\ decoded' = (decoded /\ live' # {})
    /\ UNCHANGED <<maps, gen, staged, pool, valid, hot, queue, phase>>

\* _k5_assign_kernel: the slots an assignment f may give the rows that need one.
\* A lap of the hand sees every free slot; a batch engine serves at most a
\* bucket of rows, in any order, the other engine all of them in append order.
StaleSlots == Slots \ fresh                     \* mutant: owner not checked
FreeSlots == Slots \ (owner \cup fresh)
Needy     == {r \in mail : r.slot = NoSlot}
Assignments ==
    {f \in [Needy -> FreeSlots \cup {NoSlot}] :
        /\ \A r, q \in Needy : f[r] = f[q] /\ f[r] # NoSlot => r = q
        /\ Cardinality({r \in Needy : f[r] # NoSlot}) =
             Least(Cardinality(FreeSlots),
                   IF Batch THEN Least(Cardinality(Needy), BucketCap)
                   ELSE Cardinality(Needy))
        /\ ~Batch => \A r, q \in Needy :
             r.blk = q.blk /\ r.gen < q.gen /\ f[q] # NoSlot => f[r] # NoSlot}
Snapshot(f) == (mail \ Needy) \cup {[r EXCEPT !.slot = f[r]] : r \in Needy}
Given(f)    == {f[r] : r \in Needy} \ {NoSlot}
GivenUp(f)  == {r.blk : r \in {q \in Needy : f[q] = NoSlot}}

\* K5Service.service while the snapshot buffer is still in flight: the lists
\* are published, the mailbox is left for the next step.
ServiceBusy(pub) ==
    /\ par \notin pub /\ fly[par] # "idle"
    /\ elist' = {}
    /\ fly' = [b \in Bufs |-> IF b \in pub THEN "idle" ELSE fly[b]]
    /\ snap' = [b \in Bufs |-> IF b \in pub THEN {} ELSE snap[b]]
    /\ UNCHANGED <<p2s, owner, fresh, hot, mail, par>>

\* K5Service.service: snapshot, assign, empty the mailbox, start the copies.
ServiceIssue(pub) ==
    /\ par \in pub \/ fly[par] = "idle"
    /\ \E f \in Assignments :
        /\ snap' = [b \in Bufs |-> IF b = par THEN Snapshot(f)
                                   ELSE IF b \in pub THEN {} ELSE snap[b]]
        /\ p2s' = [b \in Blocks |-> IF b \in GivenUp(f) THEN Absent ELSE p2s[b]]
        /\ owner' = owner \cup Given(f)
        /\ fresh' = fresh \cup Given(f)
        /\ hot' = [h \in Slots |->
                     IF h \in SlotsOf(Snapshot(f)) THEN Torn ELSE hot[h]]
        /\ elist' = IF PrologueOwns THEN {} ELSE Snapshot(f)
    /\ mail' = {}
    /\ fly' = [b \in Bufs |-> IF b = par THEN "copying"
                              ELSE IF b \in pub THEN "idle" ELSE fly[b]]
    /\ par' = 1 - par

\* K5Service.service, the first act of every step's prologue.
Service ==
    /\ phase = "idle"
    /\ phase' = "served"
    /\ LET pub == IF PrologueOwns THEN {} ELSE Fenced IN
        /\ plist' = UNION {snap[b] : b \in pub}
        /\ ServiceBusy(pub) \/ ServiceIssue(pub)
    /\ UNCHANGED <<s2p, store>>

\* The transfer stream finishes a batch: _k5_transport_kernel has copied every
\* row with a slot, and its fence fires.  Batches finish in issue order.  A
\* pinned page rewritten while it was copied leaves mixed bytes.
FenceFires(b) ==
    /\ fly[b] = "copying"
    /\ b = Oldest \/ fly[1 - b] # "copying"
    /\ fly' = [fly EXCEPT ![b] = "fenced"]
    /\ hot' = [h \in Slots |->
                 IF \E r \in snap[b] : r.slot = h
                 THEN LET r == CHOOSE q \in snap[b] : q.slot = h IN
                      IF pool[r.blk] = r.gen THEN [blk |-> r.blk, gen |-> r.gen]
                      ELSE Torn
                 ELSE hot[h]]
    /\ UNCHANGED <<maps, store, mail, snap, par, elist, plist, phase>>

-----------------------------------------------------------------------------
\* Residency.invalidate_written for the blocks W the step writes.
InvalidP2S(W) == [b \in Blocks |-> IF b \in W THEN Absent ELSE p2s[b]]
InvalidS2P(W) == [h \in Slots |-> IF \E b \in W : p2s[b] = h THEN NoPage
                                  ELSE s2p[h]]
Bumped(W)     == [b \in Blocks |-> gen[b] + (IF b \in W THEN 1 ELSE 0)]

\* consume_fenced_prologue: evict, then promote, the oldest fenced batch.
Consume(pm, sm, g) ==
    LET rows == UNION {snap[b] : b \in Fenced}
        ev   == EvictP2S(rows, pm, sm)
    IN /\ p2s' = PromoteP2S(rows, ev, g)
       /\ s2p' = PromoteS2P(rows, ev, EvictS2P(rows, sm), g)
       /\ owner' = owner \ Released(rows)
       /\ fly' = [b \in Bufs |-> IF b \in Fenced THEN "idle" ELSE fly[b]]
       /\ snap' = [b \in Bufs |-> IF b \in Fenced THEN {} ELSE snap[b]]

\* What the scheduler may hand the engine: a step writes the blocks W (blocks
\* outside the model when W is empty), never a complete block of a running
\* request; a one-request engine prefills only before it decodes.
Schedulable(W, kind) ==
    /\ W \cap complete = {}
    /\ \A b \in W : gen[b] < MaxGen
    /\ kind = "decode" => live # {}
    /\ ~Batch => IF kind = "decode" THEN Cardinality(W) <= 1 ELSE ~decoded

\* The rest of Tier.begin_step: invalidate the written blocks, consume (batch),
\* then staging: flush the blocks F to the pinned pool, give the blocks A of W
\* a v-block (a block that gets none keeps the one it had, or has lost its V).
Prologue(W, full, A, F, kind) ==
    /\ phase = "served"
    /\ Schedulable(W, kind)
    /\ F \subseteq (staged \cap complete) \ W
    /\ gen' = Bumped(W)
    /\ IF PrologueOwns
       THEN Consume(InvalidP2S(W), InvalidS2P(W), Bumped(W))
       ELSE /\ p2s' = InvalidP2S(W)
            /\ s2p' = InvalidS2P(W)
            /\ UNCHANGED <<owner, fly, snap>>
    /\ staged' = (staged \ F) \cup A
    /\ pool' = [b \in Blocks |-> IF b \in F THEN gen[b] ELSE pool[b]]
    /\ valid' = (valid \ W) \cup F
    /\ complete' = (complete \ W) \cup full
    /\ live' = live \cup W
    /\ decoded' = (decoded \/ (~Batch /\ kind = "decode"))
    /\ phase' = kind
    /\ UNCHANGED <<fresh, hot, mail, par, elist, plist>>

\* A step without a decode row has no graph head and no K5 step.
PrefillStep ==
    /\ phase = "prefill"
    /\ phase' = "idle"
    /\ UNCHANGED <<maps, store, hot, queue>>

\* Layer 0 of a step with decode rows: Tier.step promotes; Tier.side_step
\* evicts, then promotes.
Head ==
    /\ phase = "decode"
    /\ phase' = "head"
    /\ LET gone == IF Plan THEN elist ELSE {}
           pm   == EvictP2S(gone, p2s, s2p)
           sm   == EvictS2P(gone, s2p)
       IN /\ p2s' = PromoteP2S(plist, pm, gen)
          /\ s2p' = PromoteS2P(plist, pm, sm, gen)
    /\ owner' = owner \ Released(plist)
    /\ UNCHANGED <<fresh, store, hot, queue>>

\* k5a / k5c classify the selected complete pages: a hit refreshes its slot's
\* clock, an absent page is claimed (-1 -> -2) unless its V was lost.
Hits(sel)   == {p2s[b] : b \in sel} \cap Slots
ClaimsLost(sel) == {b \in sel : p2s[b] = Absent}         \* mutant: no lost_v
ClaimsPending(sel) ==                           \* mutant: claims -2 again
    {b \in sel : p2s[b] \notin Slots /\ (b \in staged \/ b \in valid)}
Claims(sel) == {b \in sel : p2s[b] = Absent /\ (b \in staged \/ b \in valid)}
Pinned(sel) == Claims(sel) \ staged
RowSwapped(b, h) == [blk |-> h, gen |-> gen[b], slot |-> b]   \* mutant
RowOf(b, h) == [blk |-> b, gen |-> gen[b], slot |-> h]

\* _k5c_kernel (K7): the pinned misses are appended without a slot; staged
\* misses and the ones past the mailbox revert at once.
ClassifyAppend(sel) ==
    \E kept \in SUBSET Pinned(sel) :
        /\ Cardinality(kept) =
             Least(Cardinality(Pinned(sel)), MailCap - Cardinality(mail))
        /\ p2s' = [b \in Blocks |-> IF b \in kept THEN Pending ELSE p2s[b]]
        /\ mail' = mail \cup {RowOf(b, NoSlot) : b \in kept}
        /\ fresh' = Hits(sel)
        /\ UNCHANGED <<s2p, owner, hot>>

\* _k5b_kernel (stream): every miss draws a slot f[b] that is unclaimed and not
\* touched this step, or gives up.  The old page is evicted at the claim; a
\* staged miss is copied and published in the kernel, a pinned one is posted to
\* the mailbox with its slot held, or reverted when the mailbox is full.
DrawsOwned(sel) ==                              \* mutant: no owner CAS
    {f \in [Claims(sel) -> (Slots \ Hits(sel)) \cup {NoSlot}] :
        \A a, b \in Claims(sel) : f[a] = f[b] /\ f[a] # NoSlot => a = b}
Draws(sel) ==
    {f \in [Claims(sel) -> (Slots \ (owner \cup Hits(sel))) \cup {NoSlot}] :
        \A a, b \in Claims(sel) : f[a] = f[b] /\ f[a] # NoSlot => a = b}
EvictedAtClaim(used) == {s2p[h] : h \in used}
ClaimInstall(sel) ==
    \E f \in Draws(sel) :
    LET won    == {b \in Claims(sel) : f[b] # NoSlot}
        used   == {f[b] : b \in won}
        copied == won \cap staged
    IN \E posted \in SUBSET (won \ staged) :
        /\ Cardinality(posted) = Least(Cardinality(won \ staged),
                                       MailCap - Cardinality(mail))
        /\ p2s' = [b \in Blocks |->
                     CASE b \in EvictedAtClaim(used) -> Absent
                       [] b \in copied -> f[b]
                       [] b \in posted -> Pending
                       [] OTHER -> p2s[b]]
        /\ s2p' = [h \in Slots |->
                     IF \E b \in copied \cup posted : f[b] = h
                     THEN CHOOSE b \in copied \cup posted : f[b] = h
                     ELSE IF h \in used THEN NoPage ELSE s2p[h]]
        /\ owner' = owner \cup {f[b] : b \in posted}
        /\ hot' = [h \in Slots |->
                     IF \E b \in copied : f[b] = h
                     THEN LET b == CHOOSE c \in copied : f[c] = h
                          IN [blk |-> b, gen |-> gen[b]]
                     ELSE hot[h]]
        /\ mail' = mail \cup {RowOf(b, f[b]) : b \in posted}
        /\ fresh' = Hits(sel) \cup used

\* k5_step on the selected pages sel: in stream before the decode reads, in
\* plan beside it.
K5Step(sel) ==
    /\ phase = "head"
    /\ phase' = "forward"
    /\ IF Plan THEN ClassifyAppend(sel) ELSE ClaimInstall(sel)
    /\ UNCHANGED <<store, snap, fly, par, elist, plist>>

\* The reads of the step are done.
EndStep ==
    /\ phase = "forward"
    /\ phase' = "idle"
    /\ UNCHANGED <<maps, store, hot, queue>>

Begin ==
    \E W \in SUBSET Blocks : \E full \in SUBSET W : \E A \in SUBSET W :
        \E F \in SUBSET staged : \E kind \in {"prefill", "decode"} :
            Prologue(W, full, A, F, kind)
Decode == \E sel \in SUBSET complete : K5Step(sel)

Next ==
    \/ Service \/ Begin \/ PrefillStep \/ Head \/ Decode \/ EndStep
    \/ \E b \in Bufs : FenceFires(b)
    \/ \E D \in SUBSET live : Finish(D)

Spec == Init /\ [][Next]_vars

\* The engine keeps stepping, the copies complete.
Fairness ==
    /\ WF_vars(Service) /\ WF_vars(Begin) /\ WF_vars(PrefillStep)
    /\ WF_vars(Head) /\ WF_vars(Decode) /\ WF_vars(EndStep)
    /\ \A b \in Bufs : WF_vars(FenceFires(b))
FairSpec == Spec /\ Fairness

-----------------------------------------------------------------------------
\* The types of every variable.
TypeOK ==
    /\ p2s \in [Blocks -> Slots \cup {Absent, Pending}]
    /\ s2p \in [Slots -> Blocks \cup {NoPage}]
    /\ owner \subseteq Slots /\ fresh \subseteq Slots
    /\ gen \in [Blocks -> Nat] /\ pool \in [Blocks -> Nat]
    /\ staged \subseteq Blocks /\ valid \subseteq Blocks
    /\ complete \subseteq live /\ live \subseteq Blocks
    /\ decoded \in BOOLEAN
    /\ hot \in [Slots -> [blk : Blocks \cup {NoPage}, gen : Nat]]
    /\ mail \subseteq Row /\ elist \subseteq Row /\ plist \subseteq Row
    /\ snap \in [Bufs -> SUBSET Row]
    /\ fly \in [Bufs -> {"idle", "copying", "fenced"}]
    /\ par \in Bufs
    /\ phase \in {"idle", "served", "prefill", "decode", "head", "forward"}

\* When the decode may be reading hot pages: in plan, from the graph head on.
Reading == phase = "forward" \/ (Plan /\ phase = "head")

\* While a decode reads, every complete page of a running request that
\* page2slot advertises has its current bytes in that slot: the hot copy is
\* bitwise the page, whatever transports are in flight (the I2 promise of
\* residency.py and of the eviction protocol of k5.py).
HotIsResidency ==
    Reading =>
        \A b \in complete : p2s[b] \in Slots =>
            hot[p2s[b]] = [blk |-> b, gen |-> gen[b]]

\* The rows whose transport is queued, copying, or published to this step's
\* graph head.
InFlight == mail \cup UNION {snap[b] : b \in Bufs}
Tracked  == InFlight \cup
            IF phase \in {"served", "prefill", "decode"} THEN plist ELSE {}

\* assert_maps_inverse R1: a slot nobody has claimed is empty, or records the
\* page advertised at it.
SettledInverse ==
    \A h \in Slots \ owner : s2p[h] # NoPage => p2s[s2p[h]] = h

\* assert_maps_inverse R3: a page is advertised only at the slot that records
\* it; bytes follow slot2page, the reader follows page2slot.
AdvertisedBackRef ==
    \A b \in Blocks : p2s[b] \in Slots => s2p[p2s[b]] = b

\* Slots whose outgoing page may stay advertised under the plan schedule,
\* because its eviction is queued (Tier._pending_evict).
PendingEvict == IF Plan THEN SlotsOf(InFlight \cup elist) ELSE {}

\* What assert_maps_inverse R4 is for: a slot that may be overwritten is advertised by no page,
\* unless (plan) the eviction of that page is queued.
ClaimedHidden ==
    \A b \in Blocks : p2s[b] \in owner => p2s[b] \in PendingEvict

\* assert_maps_inverse R5: a page whose current bytes are queued for transport
\* is not advertised.
IncomingHidden ==
    \A r \in InFlight : r.gen = gen[r.blk] => p2s[r.blk] \notin Slots

\* assert_maps_inverse R6: a row with a slot holds the slot's owner word.
ClaimsHeld == SlotsOf(InFlight) \subseteq owner

\* No two rows in flight hold one slot: two transports never write the same
\* bytes, and no promote releases another's claim.
ClaimsDistinct ==
    /\ \A r, q \in Assigned(Tracked) : r.slot = q.slot => r = q
    /\ \A r \in Assigned(mail) : \A b \in Bufs : r \notin snap[b]
    /\ Assigned(snap[0]) \cap Assigned(snap[1]) = {}

\* No leak: a held owner word belongs to a row whose promote will release it.
ClaimsTracked == owner \subseteq SlotsOf(Tracked)

\* A page claimed for transport is, while its request runs, eventually
\* installed or given back: no claim is stuck at PENDING.
PendingSettles ==
    \A b \in Blocks :
        (b \in live /\ p2s[b] = Pending) ~> (b \notin live \/ p2s[b] # Pending)

-----------------------------------------------------------------------------
(* The inductive invariant of the stream schedule (~Plan). *)

Current(r) == gen[r.blk] = r.gen
Published  == IF phase \in {"served", "prefill", "decode"} THEN plist ELSE {}

\* A row's slot is held, records its page, and is held by no other row.
RowsOwn ==
    /\ \A r \in Tracked :
        /\ r.slot \in owner
        /\ s2p[r.slot] = r.blk
        /\ r.gen <= gen[r.blk]
        /\ Current(r) => p2s[r.blk] = Pending
    /\ \A r, q \in Tracked : r.slot = q.slot => r = q
    /\ \A b \in Bufs : /\ mail \cap snap[b] = {}
                       /\ Published \cap (mail \cup snap[b]) = {}
                       /\ fly[b] = "idle" => snap[b] = {}
    /\ snap[0] \cap snap[1] = {}
    /\ \A r, q \in Tracked : Current(r) /\ Current(q) /\ r.blk = q.blk => r = q

\* The bytes of a current row: in the pinned pool until its copy is fenced, in
\* its slot from then on.
RowsBytes ==
    /\ \A b \in valid : pool[b] = gen[b]
    /\ \A r \in Tracked : Current(r) => pool[r.blk] = r.gen
    /\ \A b \in Bufs : fly[b] = "fenced" =>
        \A r \in snap[b] : Current(r) => hot[r.slot] = [blk |-> r.blk, gen |-> r.gen]
    /\ \A r \in Published : Current(r) =>
        hot[r.slot] = [blk |-> r.blk, gen |-> r.gen]

\* Advertised bytes are current at every instant of the stream schedule.
HotBytes ==
    \A b \in Blocks : p2s[b] \in Slots =>
        /\ p2s[b] \notin owner
        /\ s2p[p2s[b]] = b
        /\ hot[p2s[b]] = [blk |-> b, gen |-> gen[b]]

\* The inductive invariant of the stream schedule at a batch engine: the rows in
\* flight own their slots and their bytes, and what is advertised is current.
StreamInv == TypeOK /\ SettledInverse /\ RowsOwn /\ RowsBytes /\ HotBytes

=============================================================================
