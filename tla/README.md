# Verification of LOCKS

TLA+ models of the parts of LOCKS (`src/src/locks`) that keep state from one
engine step to the next, and of the kernels that share state inside one, the TLC
configurations that check them, and TLAPS proofs about all of them, for every
value of their constants.

LOCKS is a vLLM plugin. A decode step scores the pages of a request by compact
summaries of their keys, attends the best of them, and, with the DRAM tier,
finds their V (and K) in a small hot buffer, a staging pool or pinned host
memory. Attention mathematics aside, LOCKS is a set of caches that must agree:
the bytes a decode reads must be those written for the tokens it believes it
reads, although blocks are recycled, copies run beside the forward, queues
fill up and requests come and go between any two steps. That is what the
modules are about.

## 1. Inventory

Paths are relative to `src/src/locks/`.

| component | state it keeps | operations | module |
|---|---|---|---|
| K5 residency transport: `tier/k5.py`, `tier/residency.py`, driven by `tier/tier.py` | `page2slot`, `slot2page`, `slot_owner`, LRU clock, block generations, mailbox, two snapshot buffers with fences, evict and promote lists | `service`, `consume_fenced_prologue`, `invalidate_written`, evict, promote, `k5a/b/c`, assign, transport | `Transport` |
| V staging pool: `tier/staging.py`, `tier/staging_cuda.py` | `vbo`, `v_flushed`, free stack and overflow latch, flush list, `v_slot_mapping`, `np_prev`, the pinned pool and its validity bits | `begin_step` (clear, collect, copy, allocate, map lanes), scatter, capture reset | `Staging` |
| prefill lease: `tier/lease.py`, `backend/builder.py` | the leased buffer, its watermark, the fill range, the leased row | `_lease_plan`, `plan_step`, `fill_layer`, `release` | `Lease` |
| page-summary refresh and prefill overlap: `backend/builder.py`, `selection/build.py`, `selection/rki4_build.py` | summaries and their content tags, the gate's snapshot of lengths, `_built_once`, the side stream, derived selection parameters | `build`, `_maybe_refresh`, `_refresh_prefill`, tail, bulk and delta refresh, `_PrefillOverlap` | `Refresh` |
| tier facade: `tier/tier.py` | owns the parts of the tier, side streams and their events | `begin_step`, `step`, `step_dma`, `side_step`, `side_join`, `fa1_step`, `k8_head` | steps of `Transport`, `Staging`, `Residency`, `Landing`, `Lane` |
| racing fetch-all: `tier/tier.py`, `tier/k5_cuda.py` (fa1 kernels) | landing buffers, flags or tags, landing slots | fetch, assign, copy, publish, join | `Landing` |
| LRU gather: `tier/residency.py` | `page2slot`, `slot2page`, per-slot clock, fetch list | `_invalidate`, `miss_diff`, `select_victims`, fetch by kernel or DMA runs | `Residency` |
| K5 install kernel: `tier/k5.py` (`_k5b_kernel`) | hand, owner words, slot epochs, mailbox counter | draw, CAS, verify, install or post | `K5Probe` |
| tiered decode: `tier/decode_mem.py` | mailbox, tickets, the deferred K/V row | split CTAs, claims, scatter, merge by ticket, launches | `Attend`, `Lane`; sources of a page in `Landing`, `Residency`, `K5Probe`, `Staging` |
| sparse decode and merge: `attention/decode.py`, `merge.py`, `decode_cuda.py` | partials; the shared-memory ring | split ranges, active splits, merge; pipelined loads | `Attend`, `Ring` |
| page selection: `selection/select.py`, `select_cuda.py` | derived parameters, split scratch, candidate buffer | exact top-b by radix, ballot, split and candidate kernels | `Select` over `Radix`, `TopB`; `Refresh` (when derived) |
| page scores: `selection/rki4_score_cuda.py` | score buffers, running maxima | score launch, fold and reset of the maxima | `Select`, `Lane` |
| attention implementation, projection op and globals: `backend/attn.py`, `coqkv_cuda.py`, `attnwire.py`, `_runtime.py` | marks, deferred projection and write, `_q_preroped`, the scale | op, write hook, `forward`, select adapter, flush | `Lane`; batch split also in `Lease!Fill`, `Refresh!Forward` |
| registration, memory plan, pool and DMA, summary mathematics, quantization, MLA, config, arch | numeric, start-up or I/O | | not modelled, section 8 |

### How they interact

    vLLM scheduler --batch, tables--> LocksMetadataBuilder.build
        |-- lease: plan or release            (Lease)
        |-- summaries: gate, refresh, fence   (Refresh)
        `-- Tier.begin_step
              K5 service -> invalidate written -> consume fenced (PROMO1)
              -> Staging.begin_step           (Transport, Staging)
    forward, per layer
        scatter K/V -> staging pool           (Staging!Scatter)
        projection op, K/V hook               (Lane!Absorb, Project, HookCO, HookMem)
        score, select, flush                  (Lane!Select; Select)
        graph head (evict, promote), k5 step  (Transport!Head, K5Step; K5Probe)
          or LRU gather, or racing fetch      (Residency; Landing)
        decode, merge                         (Attend, Ring)
    transfer stream: assign, copy, fence      (Transport!FenceFires)
    side stream: summaries of a prefill       (Refresh!SideRead, SideWrite)

Everything is called by one host thread; the concurrency is between the main
CUDA stream, the transfer stream and the side streams, between the CTAs and
warps of one launch, and between the steps of different requests that share
blocks, slots and buffers.

### What is hard, and what makes each part correct

* **Transport.** A page can be rewritten, finished and claimed again while its
  old bytes are in flight; a slot can be overwritten while a reader's map still
  names it; lists published to a graph head are lost if no graph head runs; all
  queues are bounded. Correct when a decode never reads a hot slot holding
  another page's or an older generation's bytes (`HotIsResidency`), the maps
  agree (`SettledInverse`, `AdvertisedBackRef`, `ClaimedHidden`,
  `IncomingHidden`, the rules R1 and R3 to R5 of `assert_maps_inverse`), claims
  are exclusive and never leak (`ClaimsHeld`, `ClaimsDistinct`,
  `ClaimsTracked`) and every claim ends (`PendingSettles`).
* **Staging.** A v-block is handed to another page in the same prologue that
  enqueues the copy of its bytes; a recycled block may still own a v-block of
  its last tenant; padded lanes of a captured launch replay old indices; lists
  overflow. Correct when v-blocks partition (`FreePartition`), every token of a
  running row is served from the bytes written for it (`ServedBytes`), settled
  pages stay retrievable (`SettledRetrievable`) and v-blocks are freed only
  after the copy (`FreedAfterCopy`).
* **Lease.** One buffer serves the prompts of a whole engine one after the
  other. Correct when the leased row reads its own prefix (`LeaseExact`), and
  worth having when each token is copied once (`FillsOnce`).
* **Refresh.** The host decides from lengths alone, one step late, what the
  GPU must rebuild. Correct when every page a decode may score has the summary
  of its present K (`SummaryFresh`), when the overlapped builds cover all that
  a prefill completed (`OverlapCovers`) and when the skipped derivation leaves
  nothing stale (`DerivedFresh`).

* **Arms of the tier.** The fetch races the decode that uses it, buffers are
  shared by layers and steps, and the programs of a launch fight for slots.
  Correct when every decode reads each selected page as it is in this step
  (`Reads`, an abstract specification), the LRU maps are inverse, evict the
  oldest and fit what fits (`MapsInverse`, `EvictsOldest`, `FitsResident`), claims
  are exclusive and settled (`ClaimExclusive`, `Settled`) and no step of the race
  waits for ever (`StepEnds`).
* **Selection.** Six routes of kernels, with scratch that outlives the step.
  Correct when each answers with the exact top-b (`Selected`, an abstract
  specification) and leaves nothing to the next step (`AtRest`, `BoundaryBin`).
* **Decode.** What an op defers, a hook stashes and a kernel absorbs must meet
  in one layer of one pass (`Deferred`), the query is roped once (`QOnce`), and
  every selected page is attended once and whole, whichever CTA merges
  (`OutExact`, `MailExact`, `RingExact`).

`PROJECT.json` lists the hazards at their lines with the properties that cover
them, and says why for those nothing covers yet.

## 2. Modules and how they follow the code

Conventions: an action is a whole handler of the code in the order the code
works; a batch, a selection or a slot the hand finds is an `\E` over what the
caller may produce; bytes are abstracted to *whose* they are. The layers (and,
in `Transport`, the (layer, kv-head) units) are identical and disjoint, and one
stands for all. `map` in `PROJECT.json` gives the lines of each definition;
definitions of vLLM's scheduler and block manager are marked external and are
written from what the handlers rely on.

**Transport** (`MCTransport`, `TransportProofs`). `Service`, `Prologue` and
`PrefillStep` are the host prologue; `Head`, `K5Step` and `EndStep` the main
stream of a step; `FenceFires` the transfer stream, which interleaves with all
of them. `Plan` selects the schedule (`side_step` when `LOCKS_TIER_SIDE=1`,
else `step`), `Batch` is `max_reqs > 1`, `Promo1` is `LOCKS_K5_PROMO1`. The
bytes of a slot are a (block, generation) pair, or `Torn` while a copy is under
way: from the issue of a batch to its fence its slots are unreadable, which is
stronger than assuming that the copy is atomic. `Assignments` and `Draws` leave
the choice of the slot open within what the hand, the clock and the owner words
allow; `Draws` lets a miss give up even where the probe would have found a slot.
`Finish` frees blocks between any two steps.

**Staging** (`MCStaging`, `StagingProofs`). `BeginStep` is the whole of
`Staging.begin_step` after the residency's invalidation: clear latches, collect,
free, copy, allocate, map lanes, with `cuda` choosing between the Triton
lifecycle and the gated one of `staging_cuda.py`. `Scatter(padded)` is the
captured launch over the lanes of the captured size. Bytes are (block,
allocation) pairs, so what an earlier tenant of a block or v-block left behind
is told apart. Each row of the batch carries its first lane (`start`, the
`query_start_loc` the kernels divide the lanes by). The flush list may hold fewer
entries than there are candidates; which candidates of the last row win is open,
as it is in the code's atomics.

**Lease** (`MCLease`, `LeaseProofs`). `Plan` is `_lease_plan` and `plan_step`, `Release` the
pure-decode branch, `Fill` the copy of whole pages and the read of the leased
row. A token of the lease is the admission number whose bytes it holds.

**Refresh** (`MCRefresh`, `RefreshProofs`). `BuildDecode` and `BuildPrefill` are the branches of
`build`; `Forward` writes the K of the step, queues the side builds and leaves
the compacted parameters of a mixed step. `SideRead` and `SideWrite` are one
build of the side stream, in two halves that interleave with everything else; a
read under a running forward sees any subset of the K that forward is writing.
A page's content tag is the K of its last token, as in `_delta_select`, so a
rebuild decided by tag is decided by that one token. `MCRefresh` adds the history
variable `known`, the requests of the last gate's rows, and with it the two things
the gate takes for granted: `SameRows` and no `Sliver` (section 3).

**Residency** (LRU gather; `ResidencyProofs`), **Landing** (racing fetch-all, FA1)
and **K5Probe** (one launch of `_k5b_kernel`) are the three ways the tier fills its cache; an
engine starts with one, and **Arms** (`MCArms`, `ArmsProofs`) gives each an arm of one
specification so that they answer to the same promise, **PageReads**: a decode
reads a selected page as it is in this step. `Arms!Reads` is the refinement
(`PR == INSTANCE PageReads WITH ...`). In `Residency`, `MissDiff`, `Install`,
the fetch and the decode are kernels of one stream, and the programs of the walk
and the copies of one launch interleave. `Landing` has the main stream, one side
stream per layer (`StreamOf`), the flag per slot and the copy in two halves, in
the epoch scheme (two parity buffers) and the tagged one (a buffer per layer,
slots kept across steps), with the deep join over the pool of streams. `K5Probe`
interleaves the programs of a launch statement by statement: draw, CAS, verify,
evict, copy, publish, post.

**TopB** holds the definition of the exact selection (`Kept`, `Table`),
**PageSelection** the promise over steps: a step asks once and is answered once
with the right table. **Radix** holds the algorithms as operators: radix rounds,
the fine histogram and heavy bin of the v2 kernel, tie cut-offs. **Select**
(`MCSelect`, `SelectProofs`) is the host's routing (`rki4_score_only`, `rki4_select_only`,
`nrmtopb_select_cuda`, the split and candidate launchers) and one action per
kernel CTA over the scratch the routes share. `Selected` is the refinement of
`PageSelection`.

**Attend** is one launch of the split-K decode: per unit, the CTAs walk their
chunk of the page table, store partials, take tickets and merge; a partial is
the sequence of (page, rows in place) pairs it summed, and the output of a unit
the partials of its splits. **Lane** (EXTENDS
`Attend`) is the host pipeline around it, layer by layer: `Absorb` and `Project`
are `locks_co.qkv` and the stock projection, `HookCO` and `HookMem` the write
hook, `ForwardDecode`, `ForwardMixed` and `ForwardDense` the impl, `BeginStep`
what `begin_step` arms. A query, a score and a K row carry how often they were
roped. **Ring** is one CTA of the CUDA kernels: warps, asynchronous copies that
land in any order, waits and barriers. **Decode** (`MCDecode`, `DecodeProofs`)
gives `Lane` and `Ring` an arm each.

`Residency`, `Landing` and `K5Probe` meet in `Arms`, `Lane`, `Attend` and `Ring`
in `Decode`. Between the others each module states what it assumes of its
neighbours: `Lease` assumes a tier that serves every token exactly, which is
`ServedBytes` of `Staging`; `K5Probe` starts from any state `_k5a_kernel` may
leave; `Lane` lets the transport settle a pending page either way.

## 3. Runs

| run | configuration | asks | distinct states |
|---|---|---|---|
| `transport_batch` | `TransportBatch.cfg` | the default batch engine: reads, maps, claims, and the inductive invariant of the proofs | 640 752 |
| `transport_plan` | `TransportPlan.cfg` | the overlap schedule of one request within one generation | 155 917 |
| `transport_live` | `TransportLive.cfg` | no claim of a running request stays pending | 24 454 |
| `staging_pair` | `StagingPair.cfg` | two requests, both lifecycles, a flush list of one entry | 59 909 |
| `lease_cut` | `LeaseCut.cfg` | leased rows read their own prefix | 32 280 |
| `lease_shared` | `LeaseShared.cfg` | **violated**: the same when several requests share the lease | stops |
| `refresh_rows` | `RefreshRows.cfg` | summaries and parameters are fresh | 54 073 |
| `refresh_gate` | `RefreshGate.cfg` | **violated**: the same with rows replaced behind equal lengths | stops |
| `arms` | `Arms.cfg` | LRU gather, racing fetch and K5 install: every arm serves what is there | 519 557 |
| `select` | `Select.cfg` | every selection route answers with the exact top-b | 278 232 |
| `decode` | `Decode.cfg` | both lanes with their decode launches, and the CUDA ring | 698 198 |
| `decode_cold` | `DecodeCold.cfg` | **violated**: the query is roped once in an engine without warm-up | stops |

`tlc -workers 2 -config X.cfg M.tla` runs one; none takes more than about three
minutes. `CHECK_DEADLOCK FALSE` is set where the bounds of the instance really
stop it: `Lease` and `Refresh` run out of admissions or block allocations, the
arms, `Select` and `Decode` out of steps (`Steps`, `Draws`, `MaxSteps`), and a
failed assertion stops the engine of `Lane`. `Transport` and `Staging` check
deadlock.

### Bounds, and why they are enough

* *Transport.* Two blocks and two slots (batch), three and two (overlap), two
  rewrites of a block (`MaxGen`), a mailbox of two rows. Two slots are the least
  for which one transport can be in flight while another slot is read, claimed
  or abandoned; two generations the least for which a row is overtaken and its
  page claimed again while the first copy travels; two buffers are the code's.
  `PendingSettles` needs the mailbox full (`MailCap = 1`, two claims) and one
  slot, so that claims have to give up.
* *Staging.* Three blocks, three v-blocks, pages of two tokens, steps of up to
  four tokens, a flush list of one entry: a prefill step completes two pages,
  so the list overflows and the page left out is retried; a request that leaves
  gives its blocks and not its v-blocks to the next (`MaxAlloc = 4` allocations);
  a launch is padded to any size up to the token budget.
* *Lease.* A budget of five tokens over pages of two, prompts of up to nine:
  chunks end in the middle of a page, and the lease changes hands up to four
  times, also in the middle of a prompt.
* *Refresh.* Two rows, three blocks, four block allocations, requests of up to
  five tokens (two complete pages and a token), a budget of three, decode
  batches padded to two rows. That is enough for a chunk that ends inside a
  page, for a row that leaves prefill, for a row that leaves while its
  build is queued or half done and whose block is taken over, and for both
  sides of a page boundary.

* *Arms.* Racing fetch: three blocks, three layers (two of equal parity share an
  epoch buffer with one between), a landing buffer of two slots against
  selections of three, two steps and two streams, so that a stream comes round
  and a slot is reused. LRU: three blocks over two slots, two requests, three
  steps, selections that overlap, fit and do not fit. K5: three slots, five
  blocks, at least two missed; `Margin = 1` probe past the lap and a mailbox of
  one row. `Canonical` keeps one initial state per renaming.
* *Select.* Up to three selectable pages between one sink and one window page,
  two steps; keys of three digits in base 4, half-bins of 2 and a ballot of 2
  against four bytes, 32 and 32: a key that ties in one, two or all digits, a
  heavy and a light boundary bin all occur. Scores include the ceiling, an
  underflow and the overflow above the maximum a kernel was given; the third page
  of the second step never has score zero.
* *Decode.* Two layers, two kv-heads, two splits, pages of two, a request that
  starts with one page and a token and grows into a third page; two passes of
  any kind after the boot ones; a mailbox of one row against two claims a
  launch. The ring has two warps a group, two groups, both depths the split
  kernel is built with (3, and 2 where 3 does not fit) and depth 2 for the fused
  one, and up to five pages: the ring wraps, and the last wave of a stripe is
  incomplete. In `MCDecode` the CTAs of the padded row go first
  (`PaddedFirst`): they touch no variable another CTA reads. On the first layer
  a kv-head selects its tail page alone or its whole table (`FirstLayer`), on
  the second any table that holds the tail page.

Symmetry: blocks, slots, v-blocks and requests are interchangeable in every
module (no definition orders them; the oldest batch, the row order and the order
of a queue are explicit state), so permutations of them are sound; in `Decode`
the kv-heads are. The runs with a liveness property use none.

### What the passing runs show, and under which assumptions

* **transport_batch** is the default deployment with several requests: no
  reader sees a foreign or an old page, in any interleaving of two transports,
  rewrites, finished requests and mailbox overflow, and no owner word leaks.
  With PROMO1 off the owner words of a batch *are* lost when a prefill step
  follows a decode (mutant of `ClaimsTracked`); the code's comment on the
  "WINDOW-BOUNDARY LEAK" describes the same for the one-request engine, whose
  promotes stay with the graph head: finding 5.
* **transport_plan** restricts the engine to one generation of one request
  (`OneWindow` in `MCTransport`): it asks whether the deferred evictions of the
  overlap schedule work where the schedule is meant to. Findings 4 and 5 show
  what the restriction excludes.
* R4 of `assert_maps_inverse`, taken word for word, is harmlessly broken by
  the stream schedule: a rewritten page may be published from staging at
  another slot while the slot of the overtaken row still records it.
  `ClaimedHidden` states what R4 protects (no slot that may be overwritten is
  advertised), with the exemption for queued evictions.
* **staging_pair** lets the scheduler skip running requests. `ServedBytes` and
  `SettledRetrievable` hold as long as the free stack has not underflowed; that
  it can is described below. The bound of `assert_capacity`, one chunk and a tail
  per live request (`LiveStagedBound`), holds with one request, `Skips = FALSE` and
  `MaxFlush = 4`; with skipped requests or an overflowing flush list it does not.
* **lease_cut** assumes what `_lease_plan` says of itself: a prompt cut at the
  end of a step is in the row the step leases (`CutIsLeased`).
* **refresh_rows** covers `("fast", no overlap)`, `("mem", no overlap)` and
  `("fast", overlap)`, and assumes two things of the batches. Rows that look like a
  continuation of the last gate's rows are the same requests, in whatever order
  (`SameRows`; finding 3 is what happens otherwise). And with the side stream, no
  prompt is cut to one token in a step that then passes as a pure decode
  (`Sliver`): what the overlap covers is the pages of prefill and mixed steps
  ("COVERAGE" in the docstring of `_PrefillOverlap`). Neither assumption follows
  from the code: with `Budget = 2` and `Sliver` allowed, `OverlapCovers` fails.
* **arms** shows `Reads` under the orders the code allows: a block is rewritten
  only by the prologue of a step, behind the joins of the one before. Stores of
  a program are seen in program order; the kernels rely on fences for that
  (`__threadfence`, the release of the flag), which the models take as given.
* **select** holds for finite scores (a NaN has no order); with a maximum below a
  page's own score, as when a mask drops pages from the maximum, pages saturate
  at `Inf` and tie, and ties go to the lower page in every route.
* **decode** covers engines whose decode graphs are warmed up before they serve.
  The per-step nonce `_qf2_step` that marks and stashes are compared with never
  advances: `build` calls `derive_page_params` directly (`builder.py:1127`), and
  the wrapper that ticks it (`_runtime.py:857`) is called on the bridge branch
  alone. `Lane` therefore compares layers only, and `Deferred` shows that this
  is enough.

## 4. Findings

Three are runs that TLC must find violated; `PROJECT.json` quotes the sentence
of the code each contradicts.

1. `decode_cold` - an engine without CUDA graphs whose first pass with our lanes
   is a pure decode: for layer 0 the projection op finds no scale yet and returns
   a roped query, the attention impl decides by the pass alone, takes it as
   unroped and has the scorer rope it again.
2. `lease_shared` - a prompt cut in the step of another's continuation is not
   leased, and in the next step takes the lease with the other's watermark.
3. `refresh_gate` - the gate compares lengths by row: a request whose first
   decode has the length its predecessor in the row left behind passes as steady,
   and the pages of its prompt are never summarized.

Three more concern schedules that are not the default or a bound, and are not
kept as runs; they come back by changing constants of a configuration:

4. `TransportPlan.cfg` with `Batch = TRUE` and `SPECIFICATION Spec`
   (`HotIsResidency` fails): `LOCKS_TIER_SIDE=1` with `max_reqs > 1` and PROMO1
   applies evictions only when the transport is fenced, so during it the victims
   stay advertised at slots being overwritten. There, `IncomingHidden` fails too:
   a stale row that gives up reverts the newer claim of its page.
5. `TransportPlan.cfg` with `MaxGen = 1` and `SPECIFICATION Spec`
   (`AdvertisedBackRef` fails): a prefill step after a decode wipes an evict list
   no graph head has applied; a page stays advertised at a slot that records
   another page.
6. `StagingPair.cfg` with one request, `Skips = FALSE` and two v-blocks
   (`WrittenStaged` fails): the v-block of a finished request's last page is freed
   only if its block is settled again, so the stack can run dry although one
   request runs at a time; `valloc` then latches instead of raising.

Not a run, noted as a hazard: `LOCKS_PREFILL_OVERLAP=1` with the mem variant
lets the decode rows of a mixed step score summaries without waiting for the
side stream (`builder.py:1086`), against the docstring at `builder.py:233`:
"NOTHING in a prefill/mixed forward reads a summary". `RefreshRows.cfg` with
`StartModes <- MemOverlap` shows `SummaryFresh` failing there.

## 5. Fairness

Two runs need it. In `transport_live`, `Fairness` is weak fairness of the steps of the
engine loop and of the two fences: vLLM calls the model runner as long as a
request runs, and each call goes through the prologue, the graph head, the K5
step and the end of the step; an enqueued CUDA copy completes and its event
fires. Nothing is assumed of the scheduler's choices (which blocks a step
writes, which pages are selected, whether a step has decode rows) and `Finish`
is not fair: a request may run for ever.

In `arms`, `StepEnds` needs weak fairness of the main stream (`Landing!Main`) and
of the side streams (`Landing!Side`): a launched kernel finishes when what it
waits for has happened. No fairness is assumed between steps: nobody has to
start another.

## 6. Proofs

`tlapm M.tla` checks all obligations of `TransportProofs`, `StagingProofs`,
`LeaseProofs`, `RefreshProofs`, `ResidencyProofs`, `ArmsProofs`, `SelectProofs`
and `DecodeProofs`. Every safety invariant the passing runs check is a theorem,
for all values of the constants that the named assumption of the module allows
(finite sets where something is counted, positive sizes, and that the codes for
"no page" or "no slot" are none), except those of the overlap schedule of
`Transport`; the end of this section says why.

**TransportProofs** (assumption: `Plan = FALSE` and `TransportAssumption`; any
sets of blocks and slots, any capacities, one request or many, PROMO1 or not).
`StreamSafe` proves `Spec => []StreamInv`. `HotIsResidency` alone is not
inductive: whether a promote is harmless depends on rows that left the mailbox
steps ago. `StreamInv` adds

* `RowsOwn`: every row in flight holds the owner word of its slot, which records
  the row's page; no two rows hold one slot; a row no rewrite has overtaken has
  its page PENDING, and is the only such row of the page;
* `RowsBytes`: the bytes of such a row are in the pinned pool until its copy is
  fenced and in its slot from then on;
* `HotBytes`: an advertised slot is unowned, records its page and holds its
  current bytes - at every instant, not only while a decode reads.

The argument has two lemmas about the list walkers, `EvictNoop` (in stream the
claim has re-pointed `slot2page`, so the evict list changes nothing) and
`PromoteAgrees` (promoting ready rows keeps the two maps in agreement), and one
about invalidation, `InvalidAgrees`; then one lemma per action. Every state
invariant of the module follows from the invariant: `StreamHotIsResidency`,
`StreamBackRef`, `StreamSettled`, `StreamClaims`, `StreamHeld`,
`StreamClaimedHidden`, `StreamIncomingHidden` and `StreamTypes`. That no claim
*leaks* needs more: `StreamTracked` proves `ClaimsTracked` for a batch engine with
PROMO1 (`Batch` and `Promo1`) from `TrackedInv`, which adds that nothing is ever
left on the promote list of the graph head, so that every owner word belongs to
a row in the mailbox or in a snapshot. Without PROMO1 it is false.

**StagingProofs**: `StagingPartition` proves `FreePartition` for all finite sets
of blocks and v-blocks, all budgets, both lifecycles and whatever the scheduler
hands over, from `PartInv` (the types of `vbo` and `free`, and the partition
itself). The one step that matters is `BeginStep`, where blocks give v-blocks
up and others pop them: `PartBegin` splits the holders of a v-block into those
that keep it and those that change, and counts.

`StagingFreed` proves `FreedAfterCopy`. In the unfused lifecycle a settled page
whose latch is already set is freed *without* being copied, so what has to be
shown is that such a page has no v-block left (`LatchInv`). The latch of a page
is set in the step that takes its v-block, and that same step allocates v-blocks
to the pages it writes; the two meet unless a settled page of one row is never a
written page of another (`SettledApart`). That rests on `TablesApart`, no block
in two tables or twice in one, which `LatchSchedule` gets from the scheduler
handing out only blocks nobody holds, and on the rows of a step being distinct
requests whose tables are long enough (`BatchFits`).

`StagingServed` (`ServedBytes`) and `StagingRetrievable` (`SettledRetrievable`)
follow from `StagingInvariant`, which adds the types and `StoreInv`. `ServedBytes`
speaks of the moment of a read; `StoreInv` says at every point, as long as the
stack has not underflowed, where the tokens computed so far are: in the v-block
of their page, or in the pinned pool if it has none (`Served`, `CompleteRetrievable`).
An incomplete page must keep its v-block from step to step (`TailStaged`): a new
one would not hold the tokens already in the old. The prologue stages the pages
the step writes and takes v-blocks from settled pages only, after copying what
is valid from then on; its lanes lie side by side over the rows, so each token
has one lane, which points at its page's v-block (`LanesPoint`); the scatter
then makes the sequence whole (`StepServed`), whatever size it is padded to.

**LeaseProofs** (assumption: `LeaseAssumption`; the theorems are about
`CutLeased == Spec /\ []CutIsLeased`). `LeaseSafe` proves `[]LeaseInv`, from which
`LeaseReadsOwn` (`LeaseExact`), `LeaseFillsOnce` (`FillsOnce`) and `LeaseTypeOK`
follow. The property speaks of the moment of the read; the invariant says what
the lease holds at each point of a step. Between steps, the whole prefix of the
prompt that was cut (`IdleInv`); when a step is scheduled, the prefix of its
continuation up to its context (`ScheduledInv`); after the plan, the row's own
bytes up to where the fill starts (`PlannedInv`); after the fill, the row's
(`ReadingInv`). That the plan leases the cut prompt is the assumption; that
*some* row is the longest needs the least-number principle (`LeastNat`), which
comes from the library's well-foundedness of `<`. Without the assumption the
property is false: `lease_shared`.

**RefreshProofs** (about `SpecKnown`, that is, under `SameRows` and without a
`Sliver`, and for any `Modes` without `("mem", overlap)`, where `SummaryFresh` is
false). `RefreshInvariant` proves `[]RefreshInv`; `RefreshTypeOK`,
`RefreshSummaryFresh`, `RefreshOverlapCovers` and `RefreshDerivedFresh` follow.

* *What a tag says.* The delta build trusts the K of one token per page. K and
  summaries never claim a later allocation of their block (`Past`), so a block
  taken over has lost its tags; and a tag that is right belongs to a whole page,
  or a build is queued that will make it so (`Tags`).
* *What the gate knows.* The host compares lengths only. Until the forward
  (`AtGate`) the snapshot is the batch and every settled page of it is clean.
  Later (`Moved`) each request still known has a row of the snapshot to itself,
  has more tokens than it had there, and the pages settled there are clean. A
  steady batch of known requests is then a permutation that raises no row; since
  a permutation of a finite set that raises no element fixes the counts
  (`PermutationKeeps`), it raises every row by exactly one token, and what is
  neither rebuilt nor derived again has not changed.
* *What the side stream has covered.* A page a request has completed will be
  whole once the queue is drained, or the gate of its next step rebuilds it
  (`Covers`).

**ResidencyProofs** (LRU). `ResidencySafe` proves `ArmLRU` (`ResInv`), from which
`LRUMapsInverse`, `LRUFitsResident` and `LRUEvictsOldest` follow. In the middle of
a step the maps are inverse but the bytes are not there yet: `Filled` says that
a resident page's slot has its bytes or is an entry of the fetch list still to
be copied. `Walk` relates the clock to the selection while the victims are
chosen: whatever carries this step's clock was selected, so the walk takes no
slot of it, and if the selection fits, pages without a slot are all still ahead
of the walk; the pigeonhole argument is about finite sets of slots.

**ArmsProofs**. In the K5 arm, `ProbeSafe` proves `ProbeInv` for any number of programs
interleaved statement by statement; `K5ClaimsExclusive` and `K5Settles` follow.
A program owns its candidate from the CAS to the release (`Owned`); a verified
candidate is no hit's slot and none this launch installed into, although the
epoch was read before the claim (`Verified`); what was posted stays claimed and
pending (`Posted`); `slot2page` names each block once, and a miss only where that
miss has claimed (`Named`).

In the racing fetch, `LandingSafe` proves `LandInv`: with epochs,
no flag is of a fetch that has not begun and the slots with the layer's flag are
complete (`OfEpoch`); with tags, a slot that carries one and is not being
overwritten has the bytes it names, no two carry the same, and a fetch overwrites
no slot its layer wants (`OfTag`); the joins leave no fetch of an earlier step
running (`Joined`). `TierReads` then proves the refinement, `Spec => Reads`: a step
of an arm renews the versions and forgets the answers (`Renews`), serves pages at
their present version (`Serves`), or changes neither, and each is a step of
`PageReads` or a stutter.

**SelectProofs** (assumption: `SelectAssumption`; any pages, digits, chunks and
scores, whatever parameters the steps draw). `SelectAtRest` proves `AtRest` from
`RestInv`: a publish is armed from the score launch to the selection and on the
handshake lane only, and an armed publish is routed to the two kernels that put
the maxima back, never to the split chain. `SelectBoundaryBin` proves
`BoundaryBin` from `BinInv`, which says at every point of the compaction what the
CTAs that are through have left: the rank buffer holds the keys of the boundary
bin's pages in their chunks, each as often as a page has it, and the histogram
counts them (`Collected`). That a CTA appends each of its keys once is a fact
about ranks in a finite set (`Ranks`, `RanksCount`, `Appended`); that the chunks
part the selectable pages is arithmetic about a ceiling (`SelChunks`).

**DecodeProofs**. `DecodeRing` proves `RingExact` for any depth of at least two,
any warps, groups and pages. The invariant counts: the copy groups a warp has
committed and those it has waited for (`Committed`, `Awaited`), the barriers it
has left and arrived at (`Passed`, `Arrived`). A stage holds the page of the latest
group that names it, once landed (`Copies`); no warp has left a barrier another
has not reached (`Fenced`), so no warp overwrites what another still reads; and
the stripes of the groups part the pages (`TurnsOf`).

`DecodeDefers` proves `Deferred` for any number of layers and any sequence of
passes: what is deferred belongs to the layer being worked on, on the co lane and
in a pass of one token only (`DeferInv`), and a stash meets its own launch
(`StashInv`). `DecodeRopesOnce` proves `QOnce` for engines that capture their graphs
before they serve (`Warmed`); without that it is false: `decode_cold`.

`DecodeExact` proves `OutExact`. Between the launches, `RowsInv` says which rows
are in place on which layer. In one, the accumulator of a CTA is the first pages
of its own chunk, its partial the whole chunk (`CtaInv`), and the CTA that owns
the tail has the deferred row in place before it walks; the ticket of a unit
counts the CTAs that are through, and the last one has merged and zeroed it
(`UnitInv`). That the chunks part the page table is arithmetic about ceilings
(`Ceiling`, `Chunks`, `ChunkOf`, `Covered`). `DecodeMail` proves `MailExact`.

### Only model-checked

* `PendingSettles` and `StepEnds`: liveness under fairness and `ENABLED` are
  beyond the prover.
* The overlap schedule (`Plan = TRUE`): `StreamInv` is false there (a victim stays
  advertised until the fence), and the properties hold only within one window
  of one request. It needs an invariant of its own, about deferred evictions.
* `Selected`, the refinement of `PageSelection` by `Select`: that a route answers
  with the exact top-b rests on what its radix rounds compute, and `Radix` writes
  them as folds over the digits, which only an induction could unfold.

## 7. Plan

Done: every module of section 2 with its instance, and the proof modules of
section 6. What is left, in this order:

1. An invariant for the overlap schedule within one window, next to `StreamInv`:
   first the part without deferred evictions, `ClaimsHeld`.
2. `Transport` composed with `Staging` (the `staged`, `pool` and `valid` that
   `Transport` leaves open become those of `Staging`) under `PageReads`.
3. The captured tail graph of `rki4_tailgraph.py` with `Refresh`.

## 8. Not modelled

* *Numeric code*: score estimators, eigendecompositions, quantization, softmax,
  rope, GEMV, MLA: floating point. What of it is state (which summary, which
  page, how often roped) is in `Refresh`, `Attend` and `Lane`.
* *`k5_cuda.py`* repeats `k5.py` in CUDA, except for the racing fetch
  (`Landing`) and `rope_and_cache_fixc` (`Lane!Written`). *`pool.py`, `dma.py`*:
  allocation and wrappers of the CUDA runtime. *`memplan.py`*: one closed-form
  budget at start-up.
* *Variants of `Transport`*: `LOCKS_K5_EARLY`, `LOCKS_K5_Z1`, the `EAGER_PIN` copy
  around its install kernel (the overlap schedule assumes K7 and K7B on).
* *Variants of `Refresh`*: prefix caching, capture steps, the path without host
  lengths, the diagnostic full rebuild, tag collisions (two different keys with
  equal tags).
* *Variants of `Select`*: `LOCKS_SEL_EXACTB=0`, the flat-mass lane, the count
  audit, `LOCKS_TOPB_TRITON`, `sel_finish_global`; several query heads of a
  kv-head (one stands for their maximum); programmatic dependent launch is taken
  as stream order.
* *Variants of `Lane`*: the QFIRST2 and fast-NOROPE lanes; a captured pass is the
  host pipeline of its capture, its device effects are not modelled; passes
  without metadata occur at boot only. A page that is neither staged nor valid
  in the pinned pool cannot be selected (`SettledRetrievable`), so the revert of
  its claim is not reached. The epoch a hit touches is in `K5Probe`.
* *Start-up*: registration, configuration, the wiring of the builder.
* vLLM itself: its scheduler, block manager and model runner appear as what they
  may hand over. Block 0, the null block, is never allocated there and not in
  the model.
