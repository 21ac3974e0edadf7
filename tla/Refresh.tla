------------------------------ MODULE Refresh ------------------------------
(***************************************************************************)
(* The page summaries of locks.selection and the builder that keeps them:  *)
(* a decode scores the complete pages of its row by their summaries, and   *)
(* LocksMetadataBuilder.build must have rebuilt, before each forward, every *)
(* summary whose page has changed.  It decides that on the host from the   *)
(* lengths of the rows (_maybe_refresh) and, on the GPU, from a content    *)
(* tag; LOCKS_PREFILL_OVERLAP=1 adds a side stream that summarizes the     *)
(* pages of a prefill while later layers and steps run (_PrefillOverlap).  *)
(*                                                                         *)
(* The K of a token is abstracted to the allocation of its block it was    *)
(* written under, a summary to the K it was computed from; the tag is the  *)
(* K of the page's last token.  The layers move together.                  *)
(***************************************************************************)
EXTENDS Integers, Sequences, FiniteSets, FiniteSetsExt, Functions

CONSTANTS
    Requests,   \* slots of the engine's batch (max_num_seqs)
    Blocks,     \* physical KV blocks
    Page,       \* tokens of a page
    Budget,     \* token budget of a step
    Captured,   \* batch sizes of the captured decode graphs
    Modes,      \* how it may be started: cfg.variant, LOCKS_PREFILL_OVERLAP
    MaxLen,     \* bound of the model: tokens of a request
    MaxAlloc    \* bound of the model: block allocations

ASSUME RefreshAssumption ==
    /\ Page \in Nat \ {0} /\ Budget \in Nat \ {0}
    /\ {MaxLen, MaxAlloc} \subseteq Nat
    /\ Modes \subseteq {"fast", "mem"} \X BOOLEAN
    /\ IsFiniteSet(Requests)
    /\ Captured \subseteq Nat /\ \E n \in Captured : n >= Cardinality(Requests)

VARIABLES
    variant, overlap,   \* how the engine was started
    len,        \* tokens of a request already computed (0: not running)
    partial,    \* running requests whose prompt is not complete
    table,      \* block table of a request
    occ,        \* how often a block has been allocated
    batch,      \* rows of the step: request, context, query length
    kv,         \* K bytes of a block
    summary,    \* K bytes the summary of a block was computed from
    snap,       \* lengths of the rows at the last gate (_prev_seq_lens, _prev_settled)
    built,      \* _built_once
    side,       \* builds queued on the side stream, oldest first
    work,       \* the build the side stream has read and not written
    derived,    \* page count the selection parameters of a row were derived for
    phase

flags  == <<variant, overlap>>
engine == <<len, partial, table, occ>>
gate   == <<snap, built>>
stream == <<side, work>>
vars   == <<flags, engine, batch, kv, summary, gate, stream, derived, phase>>

Offsets  == 0 .. Page - 1
Never    == [o \in Offsets |-> -1]      \* NaN tag
NoWork   == [b \in {} |-> Never]
Running  == {r \in Requests : len[r] > 0}
Held     == UNION {{table[r][i] : i \in DOMAIN table[r]} : r \in Requests}
PagesFor(n) == (n + Page - 1) \div Page

Init ==
    /\ \E m \in Modes : variant = m[1] /\ overlap = m[2]
    /\ len = [r \in Requests |-> 0]
    /\ partial = {}
    /\ table = [r \in Requests |-> <<>>]
    /\ occ = [b \in Blocks |-> 0]
    /\ batch = <<>>
    /\ kv = [b \in Blocks |-> [o \in Offsets |-> 0]]
    /\ summary = [b \in Blocks |-> Never]
    /\ snap = <<>> /\ built = FALSE
    /\ side = <<>> /\ work = NoWork
    /\ derived = [i \in 1 .. Cardinality(Requests) |-> 0]
    /\ phase = "idle"

-----------------------------------------------------------------------------
(* vLLM around the builder: running requests are all scheduled, a decode    *)
(* takes one token, and only one prompt can be cut by the token budget.     *)

Total(s) == MapThenSumSet(LAMBDA i : s[i].q, DOMAIN s)
Batches ==
    {s \in UNION {[1 .. n -> [req : Requests, q : 1 .. Budget, cut : BOOLEAN]] :
                     n \in 1 .. Cardinality(Requests)} :
        /\ \A i, j \in DOMAIN s : s[i].req = s[j].req => i = j
        /\ Running \subseteq {s[i].req : i \in DOMAIN s}
        /\ \A i \in DOMAIN s :
            /\ len[s[i].req] + s[i].q <= MaxLen
            /\ s[i].req \in Running \ partial => s[i].q = 1 /\ ~s[i].cut
            /\ s[i].cut => /\ Total(s) = Budget
                           /\ \A j \in DOMAIN s : s[j].cut => i = j
        /\ Total(s) <= Budget}

\* The scheduler extends the tables of the batch with blocks nobody holds.
NewPages(s) == {p \in (DOMAIN s) \X (1 .. PagesFor(MaxLen)) :
                  LET r == s[p[1]].req
                  IN Len(table[r]) < p[2] /\ p[2] <= PagesFor(len[r] + s[p[1]].q)}
Schedule ==
    /\ phase = "idle"
    /\ \E s \in Batches : \E new \in Injection(NewPages(s), Blocks \ Held) :
        /\ batch' = [i \in DOMAIN s |-> [req |-> s[i].req, q |-> s[i].q,
                                         ctx |-> len[s[i].req]]]
        /\ partial' = {s[i].req : i \in {j \in DOMAIN s : s[j].cut}}
        /\ table' = [r \in Requests |->
                       IF \E i \in DOMAIN s : s[i].req = r
                       THEN LET i == CHOOSE i \in DOMAIN s : s[i].req = r
                            IN [x \in 1 .. PagesFor(len[r] + s[i].q) |->
                                  IF x <= Len(table[r]) THEN table[r][x] ELSE new[<<i, x>>]]
                       ELSE table[r]]
        /\ occ' = [b \in Blocks |->
                     IF \E p \in NewPages(s) : new[p] = b THEN occ[b] + 1 ELSE occ[b]]
        /\ MapThenSumSet(LAMBDA b : occ'[b], Blocks) <= MaxAlloc
    /\ phase' = "scheduled"
    /\ UNCHANGED <<flags, len, kv, summary, gate, stream, derived>>

\* A request finishes, is aborted, or is preempted and will start over.
Finish(r) ==
    /\ phase = "idle"
    /\ r \in Running
    /\ len' = [len EXCEPT ![r] = 0]
    /\ table' = [table EXCEPT ![r] = <<>>]
    /\ partial' = partial \ {r}
    /\ UNCHANGED <<flags, occ, batch, kv, summary, gate, stream, derived, phase>>

-----------------------------------------------------------------------------
Block(i, p)  == table[batch[i].req][p + 1]
SeqLen(i)    == batch[i].ctx + batch[i].q
PureDecode   == \A i \in DOMAIN batch : batch[i].q = 1
DecodeRows   == {i \in DOMAIN batch : batch[i].q = 1}

\* The lengths the host sees: a decode batch is padded to a captured size with
\* empty rows; settled tokens are the ones earlier steps have written.
Padded  == IF PureDecode THEN Min({n \in Captured : n >= Len(batch)}) ELSE Len(batch)
Unclamped == [i \in 1 .. Padded |->                     \* mutant
              IF i <= Len(batch) THEN [cur |-> SeqLen(i), settled |-> batch[i].ctx]
              ELSE [cur |-> 0, settled |-> -1]]
View    == [i \in 1 .. Padded |->
              IF i <= Len(batch) THEN [cur |-> SeqLen(i), settled |-> batch[i].ctx]
              ELSE [cur |-> 0, settled |-> 0]]

\* The gate: in a steady batch every row has decoded one token, in this step
\* and in the last, or is empty, or is replayed.
AdvancedOnce(i) == View[i].cur = snap[i].cur + 1    \* mutant: settled not compared
Advanced(i) == /\ View[i].cur = snap[i].cur + 1
               /\ View[i].settled = snap[i].settled + 1
Pad(i)      == View[i].cur = 0 /\ snap[i].cur = 0
Frozen(i)   == View[i] = snap[i]
Steady      == /\ Len(snap) = Len(View)
               /\ \A i \in DOMAIN View : Advanced(i) \/ Pad(i) \/ Frozen(i)

\* The blocks each refresh rebuilds: the last settled page of the rows that
\* have just crossed a page (tail), every settled page of the batch (bulk), or
\* the settled pages whose tag is not their last token's K (delta).
CrossedEarly  == {i \in DOMAIN View : Advanced(i) /\ View[i].cur % Page = 0}  \* mutant
Crossed       == {i \in DOMAIN View : Advanced(i) /\ View[i].settled % Page = 0}
TailBlocks    == {Block(i, Max({View[i].settled \div Page - 1, 0})) : i \in Crossed}
SettledBlocks == {b \in Blocks : \E i \in DOMAIN batch :
                    \E p \in 0 .. batch[i].ctx \div Page - 1 : b = Block(i, p)}
StaleBlocks   == {b \in SettledBlocks : summary[b][Page - 1] # kv[b][Page - 1]}
FullBlocks    == IF built THEN StaleBlocks ELSE SettledBlocks
Rebuilt(B)    == [b \in Blocks |-> IF b \in B THEN kv[b] ELSE summary[b]]

\* derive_page_params, on the rows of a batch.
DeriveRows(s) == [i \in DOMAIN derived |-> IF i <= Len(s) THEN PagesFor(s[i].cur)
                                           ELSE derived[i]]

\* _maybe_refresh, before every step whose decode rows will read summaries.
MaybeRefresh ==
    /\ summary' = Rebuilt(IF Steady THEN TailBlocks ELSE FullBlocks)
    /\ built' = (built \/ ~Steady)
    /\ snap' = View

\* _refresh_prefill: what earlier chunks wrote.
RefreshPrefill ==
    /\ summary' = Rebuilt(FullBlocks)
    /\ built' = (built \/ SettledBlocks # {})
    /\ UNCHANGED snap

\* The main stream waits for every build of the side stream.
Fence   == side = <<>> /\ work = NoWork

\* _finalized_block_plan: the blocks whose page this step completes.
PlanFresh == {b \in Blocks : \E i \in DOMAIN batch :      \* mutant: partial page
           \E p \in PagesFor(batch[i].ctx) .. SeqLen(i) \div Page - 1 : b = Block(i, p)}
Plan == {b \in Blocks : \E i \in DOMAIN batch :
           \E p \in batch[i].ctx \div Page .. SeqLen(i) \div Page - 1 : b = Block(i, p)}
Armed == IF overlap /\ ~PureDecode THEN Plan ELSE {}

\* LocksMetadataBuilder.build.
BuildDecode ==
    /\ phase = "scheduled" /\ PureDecode
    /\ Fence
    /\ MaybeRefresh
    /\ derived' = IF Steady /\ Crossed = {} THEN derived ELSE DeriveRows(View)
    /\ phase' = "built"
    /\ UNCHANGED <<flags, engine, batch, kv, stream>>

BuildPrefill ==
    /\ phase = "scheduled" /\ ~PureDecode
    /\ IF variant = "mem" THEN RefreshPrefill
       ELSE IF DecodeRows # {} THEN Fence /\ MaybeRefresh
       ELSE UNCHANGED <<summary, gate>>
    /\ phase' = "built"
    /\ UNCHANGED <<flags, engine, batch, kv, stream, derived>>

\* The forward: the K of every row is written, the side builds of the step are
\* queued, a mixed step derives the parameters of its decode rows compacted.
\* A drain step at the end of generation discards its tokens and is replayed.
Written(b, o) == \E i \in DOMAIN batch : \E n \in batch[i].ctx .. SeqLen(i) - 1 :
                    b = Block(i, n \div Page) /\ o = n % Page
NewK(b) == [o \in Offsets |-> IF Written(b, o) THEN occ[b] ELSE kv[b][o]]
Compacted == LET nth(k) == CHOOSE i \in DecodeRows :
                             Cardinality({j \in DecodeRows : j <= i}) = k
             IN [k \in 1 .. Cardinality(DecodeRows) |-> [cur |-> SeqLen(nth(k))]]
Forward(discard) ==
    /\ phase = "built"
    /\ discard => PureDecode
    /\ kv' = [b \in Blocks |-> NewK(b)]
    /\ side' = IF Armed = {} THEN side ELSE Append(side, Armed)
    /\ built' = (built \/ Armed # {})
    /\ derived' = IF PureDecode THEN derived ELSE DeriveRows(Compacted)
    /\ IF discard THEN phase' = "scheduled" /\ UNCHANGED <<len, batch>>
       ELSE /\ len' = [r \in Requests |->
                         IF \E i \in DOMAIN batch : batch[i].req = r
                         THEN SeqLen(CHOOSE i \in DOMAIN batch : batch[i].req = r)
                         ELSE len[r]]
            /\ batch' = <<>>
            /\ phase' = "idle"
    /\ UNCHANGED <<flags, partial, table, occ, summary, snap, work>>

\* The side stream takes the oldest build and reads its blocks; a forward that
\* is running may have written any of the tokens it will write.
SideRead ==
    /\ side # <<>> /\ work = NoWork
    /\ \E torn \in SUBSET {w \in Head(side) \X Offsets : phase = "built" /\ Written(w[1], w[2])} :
         work' = [b \in Head(side) |->
                    [o \in Offsets |-> IF <<b, o>> \in torn THEN NewK(b)[o] ELSE kv[b][o]]]
    /\ side' = Tail(side)
    /\ UNCHANGED <<flags, engine, batch, kv, summary, gate, derived, phase>>

SideWrite ==
    /\ work # NoWork
    /\ summary' = [b \in Blocks |-> IF b \in DOMAIN work THEN work[b] ELSE summary[b]]
    /\ work' = NoWork
    /\ UNCHANGED <<flags, engine, batch, kv, gate, side, derived, phase>>

Next ==
    \/ Schedule \/ BuildDecode \/ BuildPrefill \/ SideRead \/ SideWrite
    \/ \E discard \in BOOLEAN : Forward(discard)
    \/ \E r \in Requests : Finish(r)

Spec == Init /\ [][Next]_vars

-----------------------------------------------------------------------------
\* The types of every variable.
TypeOK ==
    /\ len \in [Requests -> 0 .. MaxLen] /\ partial \subseteq Requests
    /\ \A r \in Requests : table[r] \in Seq(Blocks)
    /\ occ \in [Blocks -> Nat]
    /\ kv \in [Blocks -> [Offsets -> Nat]]
    /\ summary \in [Blocks -> [Offsets -> Nat \cup {-1}]]
    /\ snap \in Seq([cur : 0 .. MaxLen, settled : 0 .. MaxLen])
    /\ built \in BOOLEAN
    /\ side \in Seq(SUBSET Blocks)
    /\ DOMAIN work \subseteq Blocks
    /\ derived \in [1 .. Cardinality(Requests) -> Nat]
    /\ phase \in {"idle", "scheduled", "built"}

\* While a forward runs, every complete page of a decode row that its selection
\* may score has the summary of the K now in it: none is missing, none is of a
\* page half written, none is of an earlier owner of the block.
SummaryFresh ==
    phase = "built" =>
        \A i \in DecodeRows : \A p \in 0 .. batch[i].ctx \div Page - 1 :
            summary[Block(i, p)] = [o \in Offsets |-> occ[Block(i, p)]]

\* "The happy path degenerates to a pure tag pass with zero rebuilt blocks": with
\* the side stream on and drained, and before the gate of the step has run, the
\* only settled page of a row that may still want its summary is the one its
\* last token completed.  Every other was built under the prefill, from its own
\* K, even where its block was taken over while an older build was queued.
OverlapCovers ==
    phase = "scheduled" /\ overlap /\ side = <<>> /\ work = NoWork =>
        \A i \in DOMAIN batch : \A p \in 0 .. batch[i].ctx \div Page - 1 :
            (p + 1) * Page < batch[i].ctx =>
                summary[Block(i, p)] = kv[Block(i, p)]

\* A pure decode reads selection parameters of its rows' page counts, although
\* the launch that derives them is skipped on most steps and a mixed step has
\* left those of its compacted rows in the same buffers.
DerivedFresh ==
    phase = "built" /\ PureDecode =>
        \A i \in DOMAIN batch : derived[i] = PagesFor(SeqLen(i))

=============================================================================
