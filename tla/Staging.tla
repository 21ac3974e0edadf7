------------------------------ MODULE Staging ------------------------------
(***************************************************************************)
(* The V staging pool of locks.tier: where the V of a token lives between  *)
(* the step that writes it and the moment its page, complete, is copied to *)
(* the pinned host pool.  Staging blocks (v-blocks) are a bounded resource *)
(* that Staging.begin_step hands to the pages a step writes and takes back *)
(* from settled pages once their copy is enqueued.                         *)
(*                                                                         *)
(* The bytes of a token are abstracted to the page they belong to and the  *)
(* allocation of that page they were written under, so bytes left over     *)
(* from an earlier owner of a block, or of a v-block, are told apart.      *)
(* All layers and heads move together: one pool stands for them.           *)
(***************************************************************************)
EXTENDS Integers, Sequences, FiniteSets, FiniteSetsExt, Functions

CONSTANTS
    Requests,   \* slots of the engine's batch; one may serve many requests
    Blocks,     \* physical KV blocks
    VBlocks,    \* staging blocks (NV of them)
    Page,       \* tokens of a page
    MaxTokens,  \* token budget of a step, size of v_slot_mapping
    MaxFlush,   \* entries of the flush list (MAXF)
    Skips,      \* the scheduler may leave a running request out of a batch
    Lifecycles, \* values LOCKS_STAGING_CUDA may have: TRUE, the fused lifecycle
    MaxLen,     \* bound of the model: tokens of a request
    MaxAlloc    \* bound of the model: block allocations

NoVBlock == "none"                 \* vbo = -1
NoLane   == [vb |-> NoVBlock, off |-> 0]
Junk     == [blk |-> "junk", occ |-> 0]    \* what a padded lane would write

ASSUME StagingAssumption ==
    /\ Page \in Nat \ {0} /\ MaxTokens \in Nat \ {0}
    /\ {MaxFlush, MaxLen, MaxAlloc} \subseteq Nat
    /\ Skips \in BOOLEAN /\ Lifecycles \in SUBSET BOOLEAN
    /\ NoVBlock \notin VBlocks
    /\ IsFiniteSet(Blocks) /\ IsFiniteSet(VBlocks) /\ IsFiniteSet(Requests)

VARIABLES
    cuda,      \* the lifecycle is the fused one of staging_cuda.py
    len,       \* tokens of a request already written (0: no request)
    table,     \* block table of a request
    occ,       \* how often a block has been allocated
    batch,     \* rows of the step: request, first lane, context, query length
    vbo,       \* staging block of a block, or NoVBlock
    vflushed,  \* blocks whose staged bits are claimed as flushed (v_flushed)
    free,      \* copies of a v-block on the free stack (v_free_stack[:top])
    overflow,  \* the underflow latch
    flist,     \* the flush list: blocks to copy and the v-blocks they had
    npPrev,    \* fused lifecycle: complete pages at the row's last scan
    vslot,     \* v_slot_mapping
    vpool,     \* bytes of a v-block
    pool,      \* bytes of a block in the pinned pool
    valid,     \* blocks with pool_valid set
    phase

sched  == <<len, table, occ, batch>>
staged == <<vbo, vflushed, free, overflow, flist, npPrev, vslot>>
bytes  == <<vpool, pool, valid>>
vars   == <<sched, staged, bytes, phase, cuda>>

Lanes    == 0 .. MaxTokens - 1
Offsets  == 0 .. Page - 1
Rows     == 1 .. Cardinality(Requests)
Blank    == [o \in Offsets |-> Junk]
Tag(b)   == [blk |-> b, occ |-> occ[b]]
Least(a, b) == IF a < b THEN a ELSE b
Running  == {r \in Requests : len[r] > 0}
BlocksOf(r)  == {table[r][i] : i \in 1 .. Len(table[r])}
Held         == UNION {BlocksOf(r) : r \in Requests}
PagesFor(n)  == (n + Page - 1) \div Page
ChunkPages   == PagesFor(MaxTokens)

Init ==
    /\ cuda \in Lifecycles
    /\ len = [r \in Requests |-> 0]
    /\ table = [r \in Requests |-> <<>>]
    /\ occ = [b \in Blocks |-> 0]
    /\ batch = <<>>
    /\ vbo = [b \in Blocks |-> NoVBlock]
    /\ vflushed = {}
    /\ free = [v \in VBlocks |-> 1]
    /\ overflow = FALSE
    /\ flist = {}
    /\ npPrev = [i \in Rows |-> -1]
    /\ vslot = [t \in Lanes |-> NoLane]
    /\ vpool = [v \in VBlocks |-> Blank]
    /\ pool = [b \in Blocks |-> Blank]
    /\ valid = {}
    /\ phase = "idle"

-----------------------------------------------------------------------------
(* The engine around the pool: what vLLM's scheduler hands begin_step. *)

\* A batch: running requests (all of them, unless Skips) decode or continue
\* their prefill, new ones start; each row begins where the one before it ends
\* (query_start_loc), the token budget holds, at most one prefill is resumed
\* (max_num_partial_prefills = 1).
Batches ==
    {s \in UNION {[1 .. n -> [req : Requests, start : Lanes, q : 1 .. MaxTokens]] : n \in Rows} :
        /\ \A i \in DOMAIN s :
             /\ s[i].start = IF i = 1 THEN 0 ELSE s[i - 1].start + s[i - 1].q
             /\ s[i].start + s[i].q <= MaxTokens
        /\ \A i, j \in DOMAIN s : s[i].req = s[j].req => i = j
        /\ Skips \/ Running \subseteq {s[i].req : i \in DOMAIN s}
        /\ \A i \in DOMAIN s : len[s[i].req] + s[i].q <= MaxLen
        /\ Cardinality({i \in DOMAIN s : len[s[i].req] > 0 /\ s[i].q > 1}) <= 1}

\* The scheduler extends the tables of the batch with blocks nobody holds.
NewPages(s) == {p \in (DOMAIN s) \X (1 .. PagesFor(MaxLen)) :
                  LET r == s[p[1]].req
                  IN Len(table[r]) < p[2] /\ p[2] <= PagesFor(len[r] + s[p[1]].q)}
Schedule ==
    /\ phase = "idle"
    /\ \E s \in Batches : \E new \in Injection(NewPages(s), Blocks \ Held) :
        /\ batch' = [i \in DOMAIN s |->
                       [req |-> s[i].req, start |-> s[i].start,
                        ctx |-> len[s[i].req], q |-> s[i].q]]
        /\ table' = [r \in Requests |->
                       IF \E i \in DOMAIN s : s[i].req = r
                       THEN LET i == CHOOSE i \in DOMAIN s : s[i].req = r
                            IN [x \in 1 .. PagesFor(len[r] + s[i].q) |->
                                  IF x <= Len(table[r]) THEN table[r][x] ELSE new[<<i, x>>]]
                       ELSE table[r]]
        /\ occ' = [b \in Blocks |->
                     IF \E p \in NewPages(s) : new[p] = b THEN occ[b] + 1 ELSE occ[b]]
        /\ MapThenSumSet(LAMBDA b : occ'[b], Blocks) <= MaxAlloc
    /\ phase' = "scheduled"
    /\ UNCHANGED <<len, staged, bytes, cuda>>

\* A request finishes or is preempted between steps: its blocks are freed, its
\* v-blocks are not.
Finish(r) ==
    /\ phase = "idle"
    /\ r \in Running
    /\ len' = [len EXCEPT ![r] = 0]
    /\ table' = [table EXCEPT ![r] = <<>>]
    /\ UNCHANGED <<occ, batch, staged, bytes, phase, cuda>>

-----------------------------------------------------------------------------
(* Tier.begin_step: the residency's invalidation, then Staging.begin_step. *)

Block(i, p)  == table[batch[i].req][p + 1]
SeqLen(i)    == batch[i].ctx + batch[i].q
Settled(i)   == {Block(i, p) : p \in 0 .. (batch[i].ctx \div Page) - 1}
Written(i)   == {Block(i, p) : p \in (batch[i].ctx \div Page) .. (SeqLen(i) - 1) \div Page}
AllWritten   == {b \in Blocks : \E i \in DOMAIN batch : b \in Written(i)}

\* The row a written or settled block belongs to, and its place in the row.
RowOf(b)  == CHOOSE i \in DOMAIN batch : b \in BlocksOf(batch[i].req)
PageOf(b) == CHOOSE p \in 0 .. MaxLen : p < Len(table[batch[RowOf(b)].req])
                                        /\ Block(RowOf(b), p) = b
Before(a, b) == \/ RowOf(a) < RowOf(b)
                \/ RowOf(a) = RowOf(b) /\ PageOf(a) < PageOf(b)

\* _vflush_clear.
KeptLatch == vflushed                           \* mutant: latch not cleared
ClearedLatch == vflushed \ AllWritten

\* _flush_collect: settled staged pages not yet latched are claimed, up to the
\* flush list's size, row by row; the fused lifecycle scans only when a row
\* prefills or has completed a page since its last scan.
Scans == \/ ~cuda
         \/ \E i \in DOMAIN batch :
              batch[i].q > 1 \/ batch[i].ctx \div Page # npPrev[i]
Eligible == {b \in Blocks : /\ Scans /\ vbo[b] # NoVBlock
                            /\ \E i \in DOMAIN batch : b \in Settled(i)}
Claimable == Eligible \ ClearedLatch
Collects ==
    {F \in SUBSET Claimable :
        /\ Cardinality(F) = Least(MaxFlush, Cardinality(Claimable))
        /\ \A a \in F, b \in Claimable \ F : RowOf(a) <= RowOf(b)}
\* The blocks whose v-block goes back on the stack.
FreedAll(F) == Eligible                         \* mutant: overflow freed too
Freed(F) == IF cuda THEN F ELSE F \cup (Eligible \cap ClearedLatch)

\* The flush list of the step, and _flush_copy through its pairs, before the
\* v-blocks it names are handed out again (v1: who holds them then).
Listed(F)    == {<<b, vbo[b]>> : b \in F}
CopyLate(list, v1) ==                           \* mutant: copy after valloc
    [b \in Blocks |-> IF \E e \in list : e[1] = b
                      THEN IF v1[b] = NoVBlock THEN Blank ELSE vpool[v1[b]]
                      ELSE pool[b]]
Copied(list, v1) ==
    [b \in Blocks |-> IF \E e \in list : e[1] = b
                      THEN vpool[(CHOOSE e \in list : e[1] = b)[2]]
                      ELSE pool[b]]

\* _valloc: the written pages without a v-block pop one each, in row order,
\* until the stack is empty.
NeedyAll(v0) == AllWritten                      \* mutant: held v-block dropped
Needy(v0) == {b \in AllWritten : v0[b] = NoVBlock}
Pops(v0, f0) ==
    {g \in UNION {[got -> VBlocks] : got \in SUBSET Needy(v0)} :
        /\ Cardinality(DOMAIN g) = Least(Cardinality(Needy(v0)),
                                         MapThenSumSet(LAMBDA v : f0[v], VBlocks))
        /\ \A a \in DOMAIN g, b \in Needy(v0) \ DOMAIN g : Before(a, b)
        /\ \A v \in VBlocks : Cardinality({b \in DOMAIN g : g[b] = v}) <= f0[v]}

\* _vslot: lane t of the step writes token TokenPos of its row.
RowEnd(i)    == batch[i].start + batch[i].q
NumTokens    == RowEnd(Len(batch))
LaneRow(t)   == CHOOSE i \in DOMAIN batch : batch[i].start <= t /\ t < RowEnd(i)
TokenPos(t)  == batch[LaneRow(t)].ctx + t - batch[LaneRow(t)].start
TokenBlk(t)  == Block(LaneRow(t), TokenPos(t) \div Page)
LanesUnwrapped(v1) ==                           \* mutant: offset not mod page
    [t \in Lanes |-> IF t >= NumTokens \/ v1[TokenBlk(t)] = NoVBlock THEN NoLane
                     ELSE [vb |-> v1[TokenBlk(t)], off |-> TokenPos(t)]]
FilledLanes(v1) ==
    [t \in Lanes |-> IF t >= NumTokens \/ v1[TokenBlk(t)] = NoVBlock THEN NoLane
                     ELSE [vb |-> v1[TokenBlk(t)], off |-> TokenPos(t) % Page]]

\* One step's lifecycle, in the order of Staging.begin_step.
BeginStep ==
    /\ phase = "scheduled"
    /\ \E F \in Collects :
        LET gone == Freed(F)
            v0   == [b \in Blocks |-> IF b \in gone THEN NoVBlock ELSE vbo[b]]
            f0   == [v \in VBlocks |->
                       free[v] + Cardinality({b \in gone : vbo[b] = v})]
        IN \E g \in Pops(v0, f0) :
            LET v1 == [b \in Blocks |-> IF b \in DOMAIN g THEN g[b] ELSE v0[b]]
            IN /\ vbo' = v1
               /\ free' = [v \in VBlocks |->
                             f0[v] - Cardinality({b \in DOMAIN g : g[b] = v})]
               /\ overflow' = (overflow \/ DOMAIN g # Needy(v0))
               /\ pool' = Copied(Listed(F), v1)
               /\ vslot' = FilledLanes(v1)
        /\ vflushed' = ClearedLatch \cup F
        /\ flist' = Listed(F)
        /\ valid' = (valid \ AllWritten) \cup {e[1] : e \in Listed(F)}
    /\ npPrev' = IF cuda /\ Scans
                 THEN [i \in Rows |-> IF i \in DOMAIN batch
                                      THEN batch[i].ctx \div Page ELSE npPrev[i]]
                 ELSE npPrev
    /\ phase' = "begun"
    /\ UNCHANGED <<sched, vpool, cuda>>

\* A cudagraph-capture dummy step: the lanes are reset, nothing is allocated.
Capture ==
    /\ phase = "idle"
    /\ vslot' = [t \in Lanes |-> NoLane]
    /\ UNCHANGED <<sched, vbo, vflushed, free, overflow, flist, npPrev, bytes, phase, cuda>>

\* scatter_kv: every lane of the (padded) launch writes its token; a padded
\* lane has no token to write.
LaneBytes(t) == IF t < NumTokens THEN Tag(TokenBlk(t)) ELSE Junk
Scatter(padded) ==
    /\ phase = "begun"
    /\ NumTokens <= padded /\ padded <= MaxTokens
    /\ vpool' = [v \in VBlocks |-> [o \in Offsets |->
                   IF \E t \in 0 .. padded - 1 : vslot[t] = [vb |-> v, off |-> o]
                   THEN LaneBytes(CHOOSE t \in 0 .. padded - 1 :
                                    /\ vslot[t] = [vb |-> v, off |-> o]
                                    /\ \A u \in t + 1 .. padded - 1 : vslot[u] # vslot[t])
                   ELSE vpool[v][o]]]
    /\ phase' = "reading"
    /\ UNCHANGED <<sched, staged, pool, valid, cuda>>

\* The decode reads of the step are done; its tokens now count as context.
EndStep ==
    /\ phase = "reading"
    /\ len' = [r \in Requests |->
                 IF \E i \in DOMAIN batch : batch[i].req = r
                 THEN SeqLen(CHOOSE i \in DOMAIN batch : batch[i].req = r)
                 ELSE len[r]]
    /\ batch' = <<>>
    /\ phase' = "idle"
    /\ UNCHANGED <<table, occ, staged, bytes, cuda>>

Next ==
    \/ Schedule \/ BeginStep \/ Capture \/ EndStep
    \/ \E padded \in 1 .. MaxTokens : Scatter(padded)
    \/ \E r \in Requests : Finish(r)

Spec == Init /\ [][Next]_vars

-----------------------------------------------------------------------------
\* The types of every variable.
TypeOK ==
    /\ len \in [Requests -> 0 .. MaxLen]
    /\ \A r \in Requests : table[r] \in Seq(Blocks)
    /\ occ \in [Blocks -> Nat]
    /\ vbo \in [Blocks -> VBlocks \cup {NoVBlock}]
    /\ vflushed \subseteq Blocks /\ valid \subseteq Blocks
    /\ free \in [VBlocks -> Nat] /\ overflow \in BOOLEAN
    /\ flist \subseteq Blocks \X VBlocks
    /\ \A t \in Lanes : vslot[t] = NoLane \/ (vslot[t].vb \in VBlocks /\ vslot[t].off \in Offsets)
    /\ \A v \in VBlocks : DOMAIN vpool[v] = Offsets
    /\ \A b \in Blocks : DOMAIN pool[b] = Offsets
    /\ phase \in {"idle", "scheduled", "begun", "reading"}

\* assert_free_partition (I3): assigned and free v-blocks partition the pool,
\* none assigned twice, none free twice.
FreePartition ==
    \A v \in VBlocks :
        free[v] + Cardinality({b \in Blocks : vbo[b] = v}) = 1

\* The reader's source for a token that is not hot: the staging pool if the
\* page has a v-block, the pinned pool otherwise.
Source(b) == IF vbo[b] # NoVBlock THEN vpool[vbo[b]] ELSE pool[b]

\* While a step reads, every token of its rows, old and new, is served with the
\* bytes written for it, as long as the stack has never underflowed (I1, and
\* the reason for I4's call order).
ServedBytes ==
    phase = "reading" /\ ~overflow =>
        \A i \in DOMAIN batch : \A n \in 0 .. SeqLen(i) - 1 :
            Source(Block(i, n \div Page))[n % Page] = Tag(Block(i, n \div Page))

\* assert_no_lost_v (I1) at the prologue's end: a settled page is staged or
\* valid in the pinned pool, and a valid copy of a held block is whole.
SettledRetrievable ==
    phase = "begun" /\ ~overflow =>
        \A i \in DOMAIN batch : \A b \in Settled(i) :
            vbo[b] # NoVBlock \/ (b \in valid /\ pool[b] = [o \in Offsets |-> Tag(b)])

\* A v-block is taken from a page only in a step that copies its bytes to the
\* pinned pool and marks them valid.
FreedAfterCopy ==
    [][\A b \in Blocks : vbo[b] # NoVBlock /\ vbo'[b] = NoVBlock =>
         b \in valid' /\ pool'[b] = vpool[vbo[b]]]_vars

\* assert_capacity's working set: after a prologue the pages of live requests
\* hold at most one chunk of v-blocks and a tail per request.
LiveStagedBound ==
    phase = "begun" =>
        Cardinality({b \in Held : vbo[b] # NoVBlock})
            <= ChunkPages + Cardinality(Requests)

\* Staging's doc: valloc gives every written page a v-block or raises, "never
\* silently leaving vbo=-1".
WrittenStaged ==
    phase = "begun" => \A b \in AllWritten : vbo[b] # NoVBlock

=============================================================================
