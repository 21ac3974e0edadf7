------------------------------- MODULE Lease -------------------------------
(***************************************************************************)
(* The prefill lease of locks.tier: one VRAM buffer that holds the K and V *)
(* prefix of the request being prefilled in chunks.  Each prefill step the *)
(* builder picks the row the lease serves (_lease_plan), the lease freezes *)
(* the range of tokens to add (plan_step), and the attention adds them     *)
(* from the tier's pools and reads the whole prefix (fill_layer).          *)
(*                                                                         *)
(* The bytes of a token are abstracted to the number of the admission they *)
(* were computed for.  The tier is assumed to serve every written token    *)
(* exactly (module Staging).  The layers move together.                    *)
(***************************************************************************)
EXTENDS Integers, Sequences, FiniteSets, FiniteSetsExt

CONSTANTS
    Requests,   \* slots of the engine's batch (max_num_seqs)
    Page,       \* tokens of a page
    Budget,     \* token budget of a step (max_num_batched_tokens)
    MaxLen,     \* tokens of a request (max_model_len)
    MaxAdmit    \* bound of the model: admissions

ASSUME LeaseAssumption ==
    /\ Page \in Nat \ {0} /\ Budget \in Nat \ {0}
    /\ {MaxLen, MaxAdmit} \subseteq Nat
    /\ IsFiniteSet(Requests)

VARIABLES
    len,        \* tokens of a request already computed (0: not running)
    id,         \* admission number of a running request
    partial,    \* running requests whose prompt is not complete
    admitted,   \* admissions so far
    batch,      \* rows of the step
    held,       \* a lease is allocated (builder._lease)
    wm,         \* tokens materialized: [0, wm)
    lo,         \* fill_lo, first token this step adds
    row,        \* locks_lease_row (0: none)
    bytes,      \* admission whose bytes a token of the lease holds (0: none)
    phase

engine == <<len, id, partial, admitted>>
lease  == <<held, wm, lo, row>>
vars   == <<engine, batch, lease, bytes, phase>>

Tokens  == 0 .. ((MaxLen + Page - 1) \div Page) * Page - 1
Running == {r \in Requests : len[r] > 0}
Empty   == [n \in Tokens |-> 0]

Init ==
    /\ len = [r \in Requests |-> 0]
    /\ id = [r \in Requests |-> 0]
    /\ partial = {} /\ admitted = 0
    /\ batch = <<>>
    /\ held = FALSE /\ wm = 0 /\ lo = 0 /\ row = 0
    /\ bytes = Empty
    /\ phase = "idle"

-----------------------------------------------------------------------------
(* vLLM's scheduler: running requests first, a decode takes one token, a    *)
(* prompt as much as the budget has left, so only the last row can be cut.  *)

Total(s) == MapThenSumSet(LAMBDA i : s[i].q, DOMAIN s)
Batches ==
    {s \in UNION {[1 .. n -> [req : Requests, q : 1 .. Budget, cut : BOOLEAN]] :
                     n \in 1 .. Cardinality(Requests)} :
        /\ \A i, j \in DOMAIN s : s[i].req = s[j].req => i = j
        /\ Running \subseteq {s[i].req : i \in DOMAIN s}
        /\ \A i, j \in DOMAIN s : s[j].req \in Running /\ i < j => s[i].req \in Running
        /\ \A i \in DOMAIN s :
            /\ len[s[i].req] + s[i].q <= MaxLen
            /\ s[i].req \in Running \ partial => s[i].q = 1 /\ ~s[i].cut
            /\ s[i].cut => i = Len(s) /\ Total(s) = Budget
        /\ Total(s) <= Budget}

Schedule ==
    /\ phase = "idle"
    /\ \E s \in Batches :
        LET new == {i \in DOMAIN s : s[i].req \notin Running}
            nth(i) == admitted + Cardinality({j \in new : j <= i})
        IN /\ admitted + Cardinality(new) <= MaxAdmit
           /\ admitted' = admitted + Cardinality(new)
           /\ id' = [r \in Requests |->
                       IF \E i \in new : s[i].req = r
                       THEN nth(CHOOSE i \in new : s[i].req = r) ELSE id[r]]
           /\ batch' = [i \in DOMAIN s |-> [req |-> s[i].req, q |-> s[i].q,
                                            ctx |-> len[s[i].req]]]
           /\ partial' = {s[i].req : i \in {j \in DOMAIN s : s[j].cut}}
    /\ phase' = "scheduled"
    /\ UNCHANGED <<len, lease, bytes>>

\* A request finishes, is aborted, or is preempted and will start over.
Finish(r) ==
    /\ phase = "idle"
    /\ r \in Running
    /\ len' = [len EXCEPT ![r] = 0]
    /\ id' = [id EXCEPT ![r] = 0]
    /\ partial' = partial \ {r}
    /\ UNCHANGED <<admitted, batch, lease, bytes, phase>>

-----------------------------------------------------------------------------
SeqLenPast(i) == batch[i].ctx + batch[i].q + 1  \* mutant
SeqLen(i)   == batch[i].ctx + batch[i].q
Rows        == DOMAIN batch
Cont        == {i \in Rows : batch[i].q > 1 /\ batch[i].ctx > 0}
Fresh       == {i \in Rows : batch[i].q > 1 /\ batch[i].ctx = 0}
PureDecode  == \A i \in Rows : batch[i].q = 1

\* The row the lease serves: the continuation, else the longest fresh prompt
\* (max takes the first of equals).
Longest(S) == CHOOSE i \in S : \A j \in S :
                batch[j].q < batch[i].q \/ (batch[j].q = batch[i].q /\ i <= j)
LeaseRow   == IF Cont # {} THEN CHOOSE i \in Cont : TRUE ELSE Longest(Fresh)

\* The watermark plan_step starts from: a fresh claim resets it, and so does a
\* watermark beyond the row's context.
WatermarkReset ==                               \* mutant: off by one
    IF Cont = {} \/ wm >= batch[LeaseRow].ctx THEN 0 ELSE wm
Watermark  == IF Cont = {} \/ wm > batch[LeaseRow].ctx THEN 0 ELSE wm

\* LocksMetadataBuilder.build on a step with a prefill row: plan the lease.
Plan ==
    /\ phase = "scheduled" /\ ~PureDecode
    /\ Cardinality(Cont) <= 1
    /\ held' = TRUE
    /\ bytes' = IF held THEN bytes ELSE Empty
    /\ lo' = Watermark
    /\ wm' = SeqLen(LeaseRow)
    /\ row' = LeaseRow
    /\ phase' = "planned"
    /\ UNCHANGED <<engine, batch>>

\* The same on a pure decode step: the lease is freed.
Release ==
    /\ phase = "scheduled" /\ PureDecode
    /\ held' = FALSE /\ wm' = 0 /\ lo' = 0 /\ row' = 0
    /\ bytes' = Empty
    /\ phase' = "reading"
    /\ UNCHANGED <<engine, batch>>

\* The pages fill_layer copies, whole, from the tier.
PagesAbove(a, b) == (a + Page - 1) \div Page .. (b - 1) \div Page   \* mutant
FillPages(a, b)  == a \div Page .. (b - 1) \div Page

\* The batch-split forward: this layer's tokens are scattered to the tier, the
\* lease is filled up to wm, the leased row reads [0, sl) of it.
Fill ==
    /\ phase = "planned"
    /\ bytes' = [n \in Tokens |->
                   IF lo < wm /\ n \div Page \in FillPages(lo, wm)
                   THEN IF n < SeqLen(row) THEN id[batch[row].req] ELSE 0
                   ELSE bytes[n]]
    /\ phase' = "reading"
    /\ UNCHANGED <<engine, batch, lease>>

EndStep ==
    /\ phase = "reading"
    /\ len' = [r \in Requests |->
                 IF \E i \in Rows : batch[i].req = r
                 THEN SeqLen(CHOOSE i \in Rows : batch[i].req = r) ELSE len[r]]
    /\ batch' = <<>>
    /\ row' = 0
    /\ phase' = "idle"
    /\ UNCHANGED <<id, partial, admitted, held, wm, lo, bytes>>

Next ==
    \/ Schedule \/ Plan \/ Release \/ Fill \/ EndStep
    \/ \E r \in Requests : Finish(r)

Spec == Init /\ [][Next]_vars

\* What _lease_plan takes for granted: a prompt cut at the end of a step is in
\* the row this step leases ("the only candidate that can continue next step").
CutIsLeased ==
    \A i \in Rows : batch[i].req \in partial => i \in Cont \cup Fresh /\ i = LeaseRow

CutLeased == Init /\ [][Next /\ (phase' = "scheduled" => CutIsLeased')]_vars

-----------------------------------------------------------------------------
\* The types of every variable.
TypeOK ==
    /\ len \in [Requests -> 0 .. MaxLen]
    /\ id \in [Requests -> 0 .. MaxAdmit]
    /\ partial \subseteq Requests /\ admitted \in 0 .. MaxAdmit
    /\ held \in BOOLEAN /\ {wm, lo} \subseteq 0 .. MaxLen
    /\ row \in 0 .. Len(batch)
    /\ bytes \in [Tokens -> 0 .. MaxAdmit]
    /\ phase \in {"idle", "scheduled", "planned", "reading"}

\* The leased row reads its own prefix, every token of it, however its prompt
\* was cut into chunks and whatever the lease held before.
LeaseExact ==
    phase = "reading" /\ row # 0 =>
        \A n \in 0 .. SeqLen(row) - 1 : bytes[n] = id[batch[row].req]

\* A chunk is copied once: while a prompt continues, the fill starts at the
\* context of its row (the lease exists to avoid ctx^2 copies).
FillsOnce ==
    phase = "planned" /\ Cont # {} => lo = batch[row].ctx

=============================================================================
