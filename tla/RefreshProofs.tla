---------------------------- MODULE RefreshProofs ----------------------------
(***************************************************************************)
(* Proofs about Refresh: RefreshInv is inductive for SpecKnown, whatever   *)
(* the requests, blocks, pages and budget, and gives TypeOK, SummaryFresh, *)
(* OverlapCovers and DerivedFresh.  It has three parts.                    *)
(*                                                                         *)
(*  - What a tag says.  K and summaries never claim a later allocation of  *)
(*    their block (Past), so a block that is taken over loses its tags,    *)
(*    and a tag that is right is that of a whole page, or a build that     *)
(*    will make it so is queued (Tags).                                    *)
(*  - What the last gate knows (GateInv).  Until its forward, snap is the  *)
(*    batch, every settled page of it is clean and the parameters are its  *)
(*    own (AtGate); afterwards every request it still knows has a row of   *)
(*    the snapshot to itself, has more tokens than that row had, and the   *)
(*    pages that row had settled are clean (Moved).  A steady batch of     *)
(*    known requests is then a permutation that raises no row, so it       *)
(*    raises each by one token: what is neither rebuilt nor derived again  *)
(*    has not changed.                                                     *)
(*  - What the side stream has covered (Covers).                           *)
(***************************************************************************)
EXTENDS MCRefresh, FiniteSetTheorems, WellFoundedInduction, TLAPS

Row == [req : Requests, q : Nat \ {0}, ctx : Nat]
Lengths == [cur : 0 .. MaxLen, settled : 0 .. MaxLen]
Rows == {batch[i].req : i \in DOMAIN batch}

\* No block is in two tables, or twice in one.
TablesApart ==
    \A r, t \in Requests : \A x \in DOMAIN table[r], y \in DOMAIN table[t] :
        table[r][x] = table[t][y] => r = t /\ x = y

\* The types of every variable, and of what the lists hold.
RefreshTypes ==
    /\ <<variant, overlap>> \in Modes
    /\ len \in [Requests -> 0 .. MaxLen] /\ partial \subseteq Requests
    /\ table \in [Requests -> Seq(Blocks)]
    /\ occ \in [Blocks -> Nat]
    /\ kv \in [Blocks -> [Offsets -> Nat]]
    /\ summary \in [Blocks -> [Offsets -> Nat \cup {-1}]]
    /\ batch \in Seq(Row) /\ Len(batch) <= Cardinality(Requests)
    /\ snap \in Seq(Lengths) /\ built \in BOOLEAN
    /\ side \in Seq(SUBSET Blocks)
    /\ DOMAIN work \subseteq Blocks /\ work \in [DOMAIN work -> [Offsets -> Nat]]
    /\ derived \in [1 .. Cardinality(Requests) -> Nat]
    /\ phase \in {"idle", "scheduled", "built"}
    /\ known \subseteq Requests

\* The tables hold the tokens, the batch is of the requests as they are, and the
\* gate knows only requests that are running or in the batch.
Fits ==
    /\ \A r \in Requests : PagesFor(len[r]) <= Len(table[r])
    /\ phase = "idle" => batch = <<>>
    /\ phase # "idle" =>
         /\ \A i, j \in DOMAIN batch : batch[i].req = batch[j].req => i = j
         /\ \A i \in DOMAIN batch :
              /\ batch[i].ctx = len[batch[i].req] /\ SeqLen(i) <= MaxLen
              /\ PagesFor(SeqLen(i)) <= Len(table[batch[i].req])
         /\ Running \subseteq Rows
         /\ ~Sliver
    /\ known \subseteq Running \cup Rows

\* f is K of the present allocation of b: all of it, or its last token.
Whole(f, b)  == \A o \in Offsets : f[o] = occ[b]
Tagged(f, b) == f[Page - 1] = occ[b]
\* A build of b is to come.
Queued(b) == \/ \E k \in DOMAIN side : b \in side[k]
             \/ phase = "built" /\ b \in Armed

\* The K of every token a request has is in its block.
KVExact ==
    \A r \in Requests : \A n \in Nat :
        n < len[r] => kv[table[r][n \div Page + 1]][n % Page] = occ[table[r][n \div Page + 1]]
Past ==
    \A b \in Blocks, o \in Offsets :
        /\ kv[b][o] <= occ[b] /\ summary[b][o] <= occ[b]
        /\ b \in DOMAIN work => work[b][o] <= occ[b]

\* A page whose last token is there is there whole, or is about to be built.
Tags ==
    \A b \in Blocks :
        /\ Tagged(kv[b], b) => Whole(kv[b], b)
        /\ b \in DOMAIN work /\ Tagged(work[b], b) => Whole(work[b], b) \/ Queued(b)
        /\ Tagged(summary[b], b) => Whole(summary[b], b) \/ b \in DOMAIN work \/ Queued(b)

\* Without overlap the side stream is idle; a gate has waited for it.
Streams ==
    /\ ~overlap => Fence
    /\ phase = "built" /\ (PureDecode \/ DecodeRows # {}) => Fence

\* The summary of b is right and nothing will write it.
Clean(b) == Whole(summary[b], b) /\ b \notin DOMAIN work /\ ~Queued(b)

\* The batch has passed its gate.
AtGate ==
    /\ phase # "idle" /\ (phase = "scheduled" => PureDecode)
    /\ snap = View /\ known = Rows /\ Fence
    /\ \A i \in DOMAIN batch : \A p \in 0 .. batch[i].ctx \div Page - 1 : Clean(Block(i, p))
    /\ PureDecode => \A i \in DOMAIN batch : derived[i] = PagesFor(SeqLen(i))

\* Every row of the last gate was a decode; the parameters are of those rows.
Decoded == \A i \in DOMAIN snap : snap[i].cur > 0 => snap[i].cur = snap[i].settled + 1
DerivedOf == \A i \in DOMAIN snap \cap DOMAIN derived : snap[i].cur > 0 => derived[i] = PagesFor(snap[i].cur)

\* The requests of the last gate have moved on.
Moved ==
    \E f \in Injection(known, DOMAIN snap) :
        /\ \A r \in known :
             /\ snap[f[r]].cur > 0 /\ len[r] > snap[f[r]].settled
             /\ \A p \in 0 .. snap[f[r]].settled \div Page - 1 : Clean(table[r][p + 1])
        /\ \/ Decoded => DerivedOf
           \/ \A r \in known : len[r] > snap[f[r]].settled + 1

\* A gated step runs on what its gate saw, and a steady batch is of its requests.
GateInv ==
    /\ AtGate \/ Moved
    /\ phase = "built" /\ Gated => AtGate
    /\ phase = "scheduled" /\ Gated /\ Steady => SameRows

\* SummaryFresh, offset by offset.
FreshRows ==
    phase = "built" =>
        \A i \in DecodeRows : \A p \in 0 .. batch[i].ctx \div Page - 1 :
            Whole(summary[Block(i, p)], Block(i, p))

\* The next to write b's summary, or else the summary there is, makes it whole.
Settles(b) ==
    IF \E k \in DOMAIN side : b \in side[k] THEN TRUE
    ELSE IF b \in DOMAIN work THEN Whole(work[b], b) ELSE Whole(summary[b], b)
\* The gate of its next step will rebuild page p of request r.
Due(r, p) ==
    /\ len[r] = (p + 1) * Page /\ r \notin partial /\ phase # "built"
    /\ phase = "scheduled" => \A i \in DOMAIN batch : batch[i].req = r => batch[i].q = 1
\* With overlap, every page a request has completed is settled or due.
Covers ==
    overlap => \A r \in Requests, p \in Nat :
        (p + 1) * Page <= len[r] => Settles(table[r][p + 1]) \/ Due(r, p)
\* The inductive invariant.
RefreshInv ==
    /\ RefreshTypes /\ TablesApart /\ Fits /\ KVExact /\ Past /\ Tags
    /\ Streams /\ GateInv /\ FreshRows /\ Covers

-----------------------------------------------------------------------------
(* Numbers *)

\* The least-number principle for a set, from the library's for a relation.
LEMMA LeastInRelation ==
    ASSUME NEW T \in SUBSET Nat, NEW R,
           \E x \in T : \A y \in T : ~ (<<y, x>> \in R),
           \A x, y \in Nat : y < x => <<y, x>> \in R
    PROVE  \E x \in T : \A y \in T : x <= y
<1>1. PICK x \in T : \A y \in T : ~ (<<y, x>> \in R)
  OBVIOUS
<1>2. ASSUME NEW y \in T PROVE x <= y
  <2>1. ~ (<<y, x>> \in R)
    BY <1>1
  <2>2. x \in Nat /\ y \in Nat
    OBVIOUS
  <2>3. ~ (y < x)
    BY <2>1, <2>2
  <2> QED BY <2>2, <2>3
<1> QED BY <1>2

\* A non-empty set of naturals has a least element.
LEMMA LeastOf ==
    ASSUME NEW T \in SUBSET Nat, T # {}
    PROVE  \E x \in T : \A y \in T : x <= y
<1>1. \E x \in T : \A y \in T : ~ (<<y, x>> \in OpToRel(<, Nat))
  BY NatLessThanWellFounded, WFMin, Zenon
<1>2. \A x, y \in Nat : y < x => <<y, x>> \in OpToRel(<, Nat)
  BY DEF OpToRel
<1> QED BY <1>1, <1>2, LeastInRelation, Zenon

\* Pages and tokens.
LEMMA Pages ==
    ASSUME NEW n \in Nat
    PROVE  /\ PagesFor(n) \in Nat /\ n \div Page \in Nat /\ n % Page \in Offsets
           /\ n \div Page <= PagesFor(n)
           /\ \A m \in Nat : m < n => m \div Page + 1 <= PagesFor(n)
           /\ \A m \in Nat : m <= n => PagesFor(m) <= PagesFor(n) /\ m \div Page <= n \div Page
           /\ \A p \in Nat : (p + 1) * Page <= n <=> p < n \div Page
BY RefreshAssumption DEF PagesFor, Offsets

\* The page of a token, and its place in the page.
LEMMA Places ==
    ASSUME NEW p \in Nat, NEW o \in Offsets
    PROVE  /\ p * Page + o \in Nat
           /\ (p * Page + o) \div Page = p /\ (p * Page + o) % Page = o
           /\ (p * Page + o) < (p + 1) * Page
BY RefreshAssumption DEF Offsets

\* A page count moves on when the settled tokens fill a page, and only then.
LEMMA NextToken ==
    ASSUME NEW n \in Nat
    PROVE  n % Page # 0 => PagesFor(n + 1) = PagesFor(n)
<1> DEFINE k == n \div Page
<1>0. Page \in Nat /\ Page > 0
  BY RefreshAssumption
<1>1. k \in Nat /\ n % Page \in Nat /\ n = Page * k + (n % Page) /\ n % Page < Page
  BY <1>0
<1>2. \A m \in Nat : Page * (k + 1) <= m /\ m < Page * (k + 2) => m \div Page = k + 1
  <2> HIDE DEF k
  <2> QED BY <1>0, <1>1
<1>3. Page * (k + 1) = Page * k + Page /\ Page * (k + 2) = Page * k + Page + Page
      /\ Page * k \in Nat
  <2> HIDE DEF k
  <2> QED BY <1>0, <1>1
<1> HIDE DEF k
<1>4. ASSUME n % Page # 0
      PROVE  PagesFor(n + 1) = k + 1 /\ PagesFor(n) = k + 1
  <2>1. n + 1 + Page - 1 \in Nat /\ n + Page - 1 \in Nat
    BY <1>0
  <2>2. Page * (k + 1) <= n + Page - 1 /\ n + 1 + Page - 1 < Page * (k + 2)
    BY <1>0, <1>1, <1>3, <1>4
  <2>3. Page * (k + 1) <= n + 1 + Page - 1 /\ n + Page - 1 < Page * (k + 2)
    BY <1>0, <1>1, <1>3, <1>4
  <2> QED BY <1>2, <2>1, <2>2, <2>3 DEF PagesFor
<1> QED BY <1>4

\* f permutes the places of the list a, and raises none of its numbers.
Permutes(n, a, f) ==
    /\ a \in [1 .. n -> Nat] /\ f \in [1 .. n -> 1 .. n]
    /\ \A i, j \in 1 .. n : f[i] = f[j] => i = j
    /\ \A i \in 1 .. n : a[f[i]] <= a[i]

\* A list that a permutation nowhere raises is left alone by it.
LEMMA PermutationKeeps ==
    ASSUME NEW n \in Nat, NEW a, NEW f, Permutes(n, a, f)
    PROVE  \A i \in 1 .. n : a[f[i]] = a[i]
<1> USE DEF Permutes
<1> SUFFICES ASSUME NEW i \in 1 .. n, a[f[i]] < a[i] PROVE FALSE
  <2>1. \A i \in 1 .. n : a[f[i]] \in Nat /\ a[i] \in Nat
    OBVIOUS
  <2> QED BY <2>1
<1> DEFINE L == {j \in 1 .. n : a[j] <= a[f[i]]}
           g == [j \in L |-> f[j]]
<1>1. IsFiniteSet(L)
  <2>1. IsFiniteSet(1 .. n) /\ L \subseteq 1 .. n
    BY FS_Interval
  <2> QED BY <2>1, FS_Subset
<1>2. \A j \in L : f[j] \in L
  <2> TAKE j \in L
  <2>1. a[f[j]] \in Nat /\ a[j] \in Nat /\ a[f[i]] \in Nat /\ a[f[j]] <= a[j] /\ a[j] <= a[f[i]]
    OBVIOUS
  <2> QED BY <2>1
<1>3. g \in [L -> L] /\ \A j, k \in L : g[j] = g[k] => j = k
  BY <1>2
<1>4. f[i] \in L /\ i \notin L
  <2>1. a[f[i]] \in Nat /\ a[i] \in Nat /\ f[i] \in 1 .. n
    OBVIOUS
  <2>2. \A x, y \in Nat : x < y => ~ (y <= x) /\ x <= x
    OBVIOUS
  <2>3. ~ (a[i] <= a[f[i]]) /\ a[f[i]] <= a[f[i]]
    BY <2>1, <2>2
  <2> QED BY <2>1, <2>3
<1>5. \E j \in L : g[j] = f[i]
  <2>1. g \in Injection(L, L)
    BY <1>3 DEF Injection, IsInjective
  <2>2. g \in Surjection(L, L)
    BY <1>1, <2>1, FS_Injection
  <2> QED BY <1>4, <2>2 DEF Surjection
<1>6. PICK j \in L : f[j] = f[i]
  BY <1>5
<1> QED BY <1>4, <1>6

-----------------------------------------------------------------------------
(* The rows of a step and their pages *)

\* The types of a row.
LEMMA RowFacts ==
    ASSUME RefreshTypes, NEW i \in DOMAIN batch
    PROVE  /\ i \in 1 .. Len(batch) /\ i \in Nat /\ Len(batch) \in Nat
           /\ batch[i].req \in Requests /\ batch[i].q \in Nat \ {0}
           /\ batch[i].ctx \in Nat
           /\ SeqLen(i) \in Nat /\ SeqLen(i) = batch[i].ctx + batch[i].q
           /\ batch[i].ctx < SeqLen(i)
<1>1. batch \in Seq(Row)
  BY DEF RefreshTypes
<1>2. i \in 1 .. Len(batch) /\ Len(batch) \in Nat
  BY <1>1
<1>3. batch[i] \in Row
  BY <1>1, <1>2
<1> QED BY <1>2, <1>3 DEF Row, SeqLen

\* The types of a table.
LEMMA TableFacts ==
    ASSUME RefreshTypes, NEW r \in Requests
    PROVE  /\ Len(table[r]) \in Nat /\ DOMAIN table[r] = 1 .. Len(table[r])
           /\ \A x \in DOMAIN table[r] : table[r][x] \in Blocks
           /\ len[r] \in Nat /\ len[r] <= MaxLen
<1>1. table[r] \in Seq(Blocks) /\ len[r] \in 0 .. MaxLen /\ MaxLen \in Nat
  BY RefreshAssumption DEF RefreshTypes
<1> QED BY <1>1

\* Every token a row has or writes has a page in its table.
LEMMA RowPages ==
    ASSUME RefreshTypes, Fits, phase # "idle", NEW i \in DOMAIN batch,
           NEW p \in Nat, p < PagesFor(SeqLen(i))
    PROVE  /\ p + 1 \in DOMAIN table[batch[i].req]
           /\ Block(i, p) = table[batch[i].req][p + 1] /\ Block(i, p) \in Blocks
<1>1. batch[i].req \in Requests /\ SeqLen(i) \in Nat
  BY RowFacts
<1>2. PagesFor(SeqLen(i)) \in Nat /\ PagesFor(SeqLen(i)) <= Len(table[batch[i].req])
  BY <1>1, Pages DEF Fits
<1>3. /\ Len(table[batch[i].req]) \in Nat
      /\ DOMAIN table[batch[i].req] = 1 .. Len(table[batch[i].req])
      /\ \A x \in DOMAIN table[batch[i].req] : table[batch[i].req][x] \in Blocks
  BY <1>1, TableFacts
<1>4. p + 1 \in DOMAIN table[batch[i].req]
  BY <1>2, <1>3
<1> QED BY <1>3, <1>4 DEF Block

\* A page of tokens a request has is in its table, whole.
LEMMA OwnPages ==
    ASSUME RefreshTypes, Fits, KVExact, NEW r \in Requests, NEW p \in Nat,
           (p + 1) * Page <= len[r]
    PROVE  /\ p + 1 \in DOMAIN table[r] /\ table[r][p + 1] \in Blocks
           /\ Whole(kv[table[r][p + 1]], table[r][p + 1])
<1>1. len[r] \in Nat /\ Len(table[r]) \in Nat /\ DOMAIN table[r] = 1 .. Len(table[r])
      /\ \A x \in DOMAIN table[r] : table[r][x] \in Blocks
  BY TableFacts
<1>2. p < len[r] \div Page /\ len[r] \div Page <= PagesFor(len[r])
      /\ PagesFor(len[r]) \in Nat /\ len[r] \div Page \in Nat
  BY <1>1, Pages
<1>3. PagesFor(len[r]) <= Len(table[r])
  BY DEF Fits
<1>4. p + 1 \in DOMAIN table[r] /\ table[r][p + 1] \in Blocks
  BY <1>1, <1>2, <1>3
<1>5. ASSUME NEW o \in Offsets PROVE kv[table[r][p + 1]][o] = occ[table[r][p + 1]]
  <2>1. /\ p * Page + o \in Nat /\ (p * Page + o) \div Page = p
        /\ (p * Page + o) % Page = o /\ (p * Page + o) < (p + 1) * Page
    BY Places
  <2>2. (p + 1) * Page \in Nat
    BY RefreshAssumption
  <2>3. (p * Page + o) < len[r]
    BY <1>1, <2>1, <2>2
  <2> QED BY <2>1, <2>3 DEF KVExact
<1> QED BY <1>4, <1>5 DEF Whole

\* The settled pages of a row.
LEMMA SettledPages ==
    ASSUME RefreshTypes, Fits, KVExact, phase # "idle", NEW i \in DOMAIN batch,
           NEW p \in 0 .. batch[i].ctx \div Page - 1
    PROVE  /\ p \in Nat /\ (p + 1) * Page <= len[batch[i].req]
           /\ Block(i, p) = table[batch[i].req][p + 1] /\ Block(i, p) \in Blocks
           /\ p + 1 \in DOMAIN table[batch[i].req]
           /\ Whole(kv[Block(i, p)], Block(i, p))
<1>1. batch[i].req \in Requests /\ batch[i].ctx \in Nat /\ batch[i].ctx = len[batch[i].req]
  BY RowFacts DEF Fits
<1>2. batch[i].ctx \div Page \in Nat
  BY <1>1, Pages
<1>3. p \in Nat /\ p < batch[i].ctx \div Page
  BY <1>2
<1>4. (p + 1) * Page <= batch[i].ctx
  BY <1>1, <1>3, Pages
<1> QED BY <1>1, <1>3, <1>4, OwnPages DEF Block

\* A page that a request has completed is in the plan of no step.
LEMMA CompletedUnplanned ==
    ASSUME RefreshTypes, Fits, KVExact, TablesApart, phase # "idle",
           NEW r \in Requests, NEW p \in Nat, (p + 1) * Page <= len[r]
    PROVE  table[r][p + 1] \notin Plan
<1> SUFFICES ASSUME NEW i \in DOMAIN batch,
                    NEW w \in batch[i].ctx \div Page .. SeqLen(i) \div Page - 1,
                    table[r][p + 1] = Block(i, w)
             PROVE  FALSE
  BY DEF Plan
<1>1. /\ batch[i].req \in Requests /\ batch[i].ctx \in Nat /\ SeqLen(i) \in Nat
      /\ batch[i].ctx = len[batch[i].req]
  BY RowFacts DEF Fits
<1>2. /\ batch[i].ctx \div Page \in Nat /\ SeqLen(i) \div Page \in Nat
      /\ SeqLen(i) \div Page <= PagesFor(SeqLen(i)) /\ PagesFor(SeqLen(i)) \in Nat
  BY <1>1, Pages
<1>3. w \in Nat /\ w < PagesFor(SeqLen(i))
  BY <1>2
<1>4. w + 1 \in DOMAIN table[batch[i].req] /\ Block(i, w) = table[batch[i].req][w + 1]
  BY <1>3, RowPages
<1>5. p + 1 \in DOMAIN table[r]
  BY OwnPages
<1>6. r = batch[i].req /\ p + 1 = w + 1
  BY <1>1, <1>4, <1>5 DEF TablesApart
<1>7. p < len[r] \div Page
  BY <1>1, <1>6, Pages
<1> QED BY <1>1, <1>2, <1>3, <1>6, <1>7

\* What the forward writes into a page that it completes makes the page whole.
LEMMA NewKWhole ==
    ASSUME RefreshTypes, Fits, KVExact, Tags, phase # "idle", NEW b \in Blocks
    PROVE  /\ Tagged(NewK(b), b) => Whole(NewK(b), b)
           /\ Written(b, Page - 1) => b \in Plan
<1>0. Page - 1 \in Offsets /\ Page \in Nat /\ Page > 0
  BY RefreshAssumption DEF Offsets
<1>1. CASE Written(b, Page - 1)
  <2>1. PICK i \in DOMAIN batch : \E n \in batch[i].ctx .. SeqLen(i) - 1 :
               b = Block(i, n \div Page) /\ Page - 1 = n % Page
    BY <1>1 DEF Written
  <2>2. PICK n \in batch[i].ctx .. SeqLen(i) - 1 :
               b = Block(i, n \div Page) /\ Page - 1 = n % Page
    BY <2>1
  <2>3. /\ batch[i].req \in Requests /\ batch[i].ctx \in Nat /\ SeqLen(i) \in Nat
        /\ batch[i].ctx = len[batch[i].req] /\ batch[i].ctx < SeqLen(i)
    BY RowFacts DEF Fits
  <2>4. n \in Nat /\ n < SeqLen(i) /\ batch[i].ctx <= n
    BY <2>2, <2>3
  <2> DEFINE p == n \div Page
  <2>5. /\ p \in Nat /\ p + 1 <= PagesFor(SeqLen(i)) /\ PagesFor(SeqLen(i)) \in Nat
        /\ batch[i].ctx \div Page <= p /\ batch[i].ctx \div Page \in Nat
    BY <2>3, <2>4, Pages
  <2>6. n = p * Page + (Page - 1)
    BY <1>0, <2>2, <2>4
  <2> HIDE DEF p
  <2>7. (p + 1) * Page = n + 1 /\ p * Page \in Nat
    BY <1>0, <2>5, <2>6
  <2>8. p < SeqLen(i) \div Page /\ SeqLen(i) \div Page \in Nat
    <3>1. (p + 1) * Page <= SeqLen(i)
      BY <2>3, <2>4, <2>7
    <3> QED BY <2>3, <2>5, <3>1, Pages
  <2>9. p \in batch[i].ctx \div Page .. SeqLen(i) \div Page - 1
    BY <2>5, <2>8
  <2>10. b = Block(i, p) /\ Block(i, p) = table[batch[i].req][p + 1]
    BY <2>2, <2>5, RowPages DEF p
  <2>11. b \in Plan
    BY <2>9, <2>10 DEF Plan
  <2>12. ASSUME NEW o \in Offsets PROVE NewK(b)[o] = occ[b]
    <3> DEFINE m == p * Page + o
    <3>1. m \in Nat /\ m \div Page = p /\ m % Page = o
      BY <2>5, Places
    <3>2. m <= n
      BY <1>0, <2>4, <2>6, <2>7 DEF Offsets
    <3> HIDE DEF m
    <3>3. CASE m < batch[i].ctx
      <4>1. kv[b][o] = occ[b]
        BY <2>3, <2>10, <3>1, <3>3 DEF KVExact
      <4> QED BY <4>1 DEF NewK
    <3>4. CASE batch[i].ctx <= m
      <4>1. m \in batch[i].ctx .. SeqLen(i) - 1
        BY <2>3, <2>4, <3>1, <3>2, <3>4
      <4>2. Written(b, o)
        BY <2>10, <3>1, <4>1 DEF Written
      <4> QED BY <4>2 DEF NewK
    <3> QED BY <2>3, <3>1, <3>3, <3>4
  <2> QED BY <2>11, <2>12 DEF Whole
<1>2. CASE ~ Written(b, Page - 1)
  <2>1. NewK(b)[Page - 1] = kv[b][Page - 1]
    BY <1>0, <1>2 DEF NewK
  <2>2. Tagged(NewK(b), b) => Whole(kv[b], b)
    BY <2>1 DEF Tags, Tagged
  <2>3. Whole(kv[b], b) => Whole(NewK(b), b)
    BY DEF Whole, NewK
  <2> QED BY <1>2, <2>2, <2>3
<1> QED BY <1>1, <1>2

-----------------------------------------------------------------------------
(* The lengths the gate compares *)

\* A batch is padded to a captured size that holds it, and an empty row has no
\* tokens.
LEMMA ViewFacts ==
    ASSUME RefreshTypes, Fits, phase # "idle"
    PROVE  /\ Padded \in Nat /\ Len(batch) <= Padded /\ Len(View) = Padded
           /\ DOMAIN View = 1 .. Padded /\ DOMAIN batch = 1 .. Len(batch)
           /\ Len(batch) \in Nat
           /\ View \in Seq(Lengths)
           /\ \A i \in DOMAIN batch : /\ View[i].cur = SeqLen(i)
                                       /\ View[i].settled = batch[i].ctx
           /\ \A i \in DOMAIN View : i > Len(batch) => View[i].cur = 0 /\ View[i].settled = 0
<1>1. batch \in Seq(Row) /\ Len(batch) \in Nat /\ DOMAIN batch = 1 .. Len(batch)
      /\ Len(batch) <= Cardinality(Requests)
  BY DEF RefreshTypes
<1>2. Padded \in Nat /\ Len(batch) <= Padded
  <2> DEFINE T == {n \in Captured : n >= Len(batch)}
  <2>1. T \in SUBSET Nat
    BY RefreshAssumption
  <2>2. T # {}
    <3>1. PICK n \in Captured : n >= Cardinality(Requests)
      BY RefreshAssumption
    <3>2. Cardinality(Requests) \in Nat /\ n \in Nat
      BY RefreshAssumption, FS_CardinalityType
    <3>3. n >= Len(batch)
      BY <1>1, <3>1, <3>2
    <3> QED BY <3>1, <3>3
  <2>3. \E x \in T : \A y \in T : x <= y
    BY <2>1, <2>2, LeastOf
  <2> HIDE DEF T
  <2>4. Min(T) \in T
    BY <2>3 DEF Min
  <2>5. Padded = IF PureDecode THEN Min(T) ELSE Len(batch)
    BY DEF Padded, T
  <2> USE DEF T
  <2>6. Min(T) \in Nat /\ Len(batch) <= Min(T)
    BY <1>1, <2>1, <2>4
  <2> QED BY <1>1, <2>5, <2>6
<1>3. /\ DOMAIN View = 1 .. Padded
      /\ \A i \in 1 .. Padded :
           View[i] = IF i <= Len(batch) THEN [cur |-> SeqLen(i), settled |-> batch[i].ctx]
                     ELSE [cur |-> 0, settled |-> 0]
  BY DEF View
<1>4. ASSUME NEW i \in 1 .. Padded PROVE View[i] \in Lengths
  <2>1. CASE i <= Len(batch)
    <3>1. i \in DOMAIN batch
      BY <1>1, <1>2, <2>1
    <3>2. /\ SeqLen(i) \in Nat /\ batch[i].ctx \in Nat /\ batch[i].ctx < SeqLen(i)
          /\ SeqLen(i) <= MaxLen
      BY <3>1, RowFacts DEF Fits
    <3>3. SeqLen(i) \in 0 .. MaxLen /\ batch[i].ctx \in 0 .. MaxLen
      BY <3>2, RefreshAssumption
    <3> QED BY <1>3, <2>1, <3>3 DEF Lengths
  <2>2. CASE ~ (i <= Len(batch))
    <3>1. 0 \in 0 .. MaxLen
      BY RefreshAssumption
    <3> QED BY <1>3, <2>2, <3>1 DEF Lengths
  <2> QED BY <2>1, <2>2
<1>5. View \in [1 .. Padded -> Lengths]
  BY <1>3, <1>4 DEF View
<1>6. View \in Seq(Lengths) /\ Len(View) = Padded
  BY <1>2, <1>5
<1>7. \A i \in DOMAIN batch : View[i].cur = SeqLen(i) /\ View[i].settled = batch[i].ctx
  BY <1>1, <1>2, <1>3
<1>8. \A i \in DOMAIN View : i > Len(batch) => View[i].cur = 0 /\ View[i].settled = 0
  BY <1>1, <1>2, <1>3
<1> QED BY <1>1, <1>2, <1>3, <1>6, <1>7, <1>8

\* The pages a known request had settled at the last gate are its own, whole.
LEMMA KnownPages ==
    ASSUME RefreshTypes, Fits, KVExact, NEW r \in known,
           NEW s \in Nat, len[r] > s, NEW p \in 0 .. s \div Page - 1
    PROVE  /\ r \in Requests /\ p \in Nat /\ (p + 1) * Page <= len[r]
           /\ p + 1 \in DOMAIN table[r] /\ table[r][p + 1] \in Blocks
<1>1. r \in Requests
  BY DEF RefreshTypes
<1>2. len[r] \in Nat
  BY <1>1, TableFacts
<1>3. s \div Page \in Nat
  BY Pages
<1>4. p \in Nat /\ p < s \div Page
  BY <1>3
<1>5. (p + 1) * Page <= s /\ (p + 1) * Page \in Nat
  <2>1. (p + 1) * Page <= s
    BY <1>4, Pages
  <2>2. (p + 1) * Page \in Nat
    BY <1>4, RefreshAssumption
  <2> QED BY <2>1, <2>2
<1>6. (p + 1) * Page <= len[r]
  BY <1>2, <1>5
<1> QED BY <1>1, <1>4, <1>6, OwnPages

\* The lengths of the last gate.
LEMMA SnapFacts ==
    ASSUME RefreshTypes, NEW i \in DOMAIN snap
    PROVE  snap[i].cur \in Nat /\ snap[i].settled \in Nat
<1>1. snap \in Seq(Lengths)
  BY DEF RefreshTypes
<1>2. snap[i] \in Lengths
  BY <1>1
<1> QED BY <1>2, RefreshAssumption DEF Lengths

\* A token a request has is in a block of its table.
LEMMA TokenPage ==
    ASSUME RefreshTypes, Fits, NEW r \in Requests, NEW n \in Nat, n < len[r]
    PROVE  table[r][n \div Page + 1] \in Blocks /\ n % Page \in Offsets
<1>1. len[r] \in Nat /\ Len(table[r]) \in Nat /\ DOMAIN table[r] = 1 .. Len(table[r])
      /\ \A x \in DOMAIN table[r] : table[r][x] \in Blocks
  BY TableFacts
<1>2. n \div Page \in Nat /\ n % Page \in Offsets
  BY Pages
<1>3. n \div Page + 1 <= PagesFor(len[r]) /\ PagesFor(len[r]) \in Nat
  BY <1>1, Pages
<1>4. PagesFor(len[r]) <= Len(table[r])
  BY DEF Fits
<1>5. n \div Page + 1 \in DOMAIN table[r]
  BY <1>1, <1>2, <1>3, <1>4
<1> QED BY <1>1, <1>2, <1>5

\* Where the settled tokens enter a page: they have just filled it.
LEMMA PageFilled ==
    ASSUME NEW n \in Nat, NEW p \in Nat, n \div Page <= p, p < (n + 1) \div Page
    PROVE  (n + 1) % Page = 0 /\ p = (n + 1) \div Page - 1
BY RefreshAssumption

\* A row of a steady batch is in the snapshot.
LEMMA SteadyRow ==
    ASSUME RefreshTypes, Fits, phase # "idle", Steady, NEW i \in DOMAIN snap
    PROVE  /\ DOMAIN snap = DOMAIN View
           /\ snap[i].cur \in Nat /\ snap[i].settled \in Nat
           /\ snap[i].cur > 0 => i \in DOMAIN batch
           /\ i \in DOMAIN batch => Advanced(i) \/ Frozen(i)
           /\ Advanced(i) => i \in DOMAIN batch
<1>1. snap \in Seq(Lengths) /\ DOMAIN snap = 1 .. Len(snap)
  BY DEF RefreshTypes
<1>2. snap[i] \in Lengths
  BY <1>1
<1>3. snap[i].cur \in Nat /\ snap[i].settled \in Nat
  BY <1>2, RefreshAssumption DEF Lengths
<1>4. DOMAIN snap = DOMAIN View /\ i \in DOMAIN View /\ Len(View) = Padded
  BY <1>1, ViewFacts DEF Steady
<1>5. Advanced(i) \/ Pad(i) \/ Frozen(i)
  BY <1>4 DEF Steady
<1>6. i \in DOMAIN batch <=> i <= Len(batch)
  BY <1>4, ViewFacts
<1>7. CASE i \in DOMAIN batch
  <2>1. View[i].cur = SeqLen(i) /\ SeqLen(i) > 0
    <3>1. batch[i].ctx \in Nat /\ SeqLen(i) \in Nat /\ batch[i].ctx < SeqLen(i)
      BY <1>7, RowFacts
    <3> QED BY <1>7, <3>1, ViewFacts
  <2>2. ~ Pad(i)
    BY <2>1 DEF Pad
  <2> QED BY <1>3, <1>4, <1>5, <1>7, <2>2
<1>8. CASE i \notin DOMAIN batch
  <2>1. i > Len(batch)
    BY <1>4, <1>6, <1>8, ViewFacts
  <2>2. View[i].cur = 0 /\ View[i].settled = 0
    BY <1>4, <2>1, ViewFacts
  <2>3. ~ Advanced(i)
    BY <1>3, <2>2 DEF Advanced
  <2>4. Frozen(i) => snap[i].cur = 0
    BY <2>2 DEF Frozen
  <2>5. ~ (snap[i].cur > 0)
    BY <1>3, <1>5, <2>3, <2>4 DEF Pad
  <2> QED BY <1>3, <1>4, <1>8, <2>3, <2>5
<1> QED BY <1>7, <1>8

\* A steady batch of known requests, once they have moved since the last gate:
\* every row has decoded one token, whichever row it was, and the one page a
\* row may have completed since is the page the tail refresh rebuilds.
LEMMA SteadyBatch ==
    ASSUME RefreshTypes, Fits, KVExact, phase = "scheduled", Steady, SameRows, Moved,
           NEW i \in DOMAIN batch
    PROVE  /\ Advanced(i) /\ (Decoded => DerivedOf)
           /\ \A p \in 0 .. batch[i].ctx \div Page - 1 :
                \/ Clean(Block(i, p))
                \/ (i \in Crossed /\ p = batch[i].ctx \div Page - 1)
<1>0. phase # "idle"
  OBVIOUS
<1>1. PICK f \in Injection(known, DOMAIN snap) :
        /\ \A r \in known :
             /\ snap[f[r]].cur > 0 /\ len[r] > snap[f[r]].settled
             /\ \A p \in 0 .. snap[f[r]].settled \div Page - 1 : Clean(table[r][p + 1])
        /\ \/ Decoded => DerivedOf
           \/ \A r \in known : len[r] > snap[f[r]].settled + 1
  BY DEF Moved
<1> DEFINE n == Len(batch)
           a == [k \in 1 .. n |-> snap[k].settled]
           g == [k \in 1 .. n |-> f[batch[k].req]]
<1>2. n \in Nat /\ DOMAIN batch = 1 .. n
  BY <1>0, ViewFacts
<1>3. \A k \in 1 .. n : batch[k].req \in known
  BY <1>2 DEF SameRows
<1>4. /\ f \in [known -> DOMAIN snap]
      /\ \A r, t \in known : f[r] = f[t] => r = t
  BY DEF Injection, IsInjective
<1>5. ASSUME NEW r \in known
      PROVE  f[r] \in 1 .. n
  <2>1. f[r] \in DOMAIN snap /\ snap[f[r]].cur > 0
    BY <1>1, <1>4
  <2> QED BY <1>0, <1>2, <2>1, SteadyRow
<1>6. DOMAIN snap = DOMAIN View /\ 1 .. n \subseteq DOMAIN snap
  <2>1. i \in DOMAIN View /\ 1 .. n \subseteq DOMAIN View
    BY <1>0, <1>2, ViewFacts
  <2>2. DOMAIN snap = DOMAIN View
    <3>1. snap \in Seq(Lengths)
      BY DEF RefreshTypes
    <3> QED BY <1>0, <3>1, ViewFacts DEF Steady
  <2> QED BY <2>1, <2>2
<1>7. ASSUME NEW k \in 1 .. n
      PROVE  /\ a[k] = snap[k].settled /\ a[k] \in Nat /\ g[k] = f[batch[k].req] /\ g[k] \in 1 .. n
             /\ batch[k].ctx \in Nat /\ a[g[k]] < batch[k].ctx
             /\ a[g[k]] = snap[g[k]].settled /\ a[g[k]] \in Nat
             /\ ((Advanced(k) /\ batch[k].ctx = a[k] + 1) \/ (Frozen(k) /\ batch[k].ctx = a[k]))
  <2>1. k \in DOMAIN snap /\ k \in DOMAIN batch
    BY <1>2, <1>6
  <2>2. a[k] = snap[k].settled /\ a[k] \in Nat
    BY <1>0, <2>1, SteadyRow
  <2>3. g[k] = f[batch[k].req] /\ g[k] \in 1 .. n
    BY <1>3, <1>5
  <2>4. a[g[k]] = snap[g[k]].settled /\ a[g[k]] \in Nat
    BY <1>0, <1>6, <2>3, SteadyRow
  <2>5. batch[k].ctx \in Nat /\ batch[k].ctx = len[batch[k].req]
    BY <1>0, <2>1, RowFacts DEF Fits
  <2>6. len[batch[k].req] > snap[g[k]].settled
    BY <1>1, <1>3, <2>3
  <2>7. Advanced(k) \/ Frozen(k)
    BY <1>0, <2>1, SteadyRow
  <2>8. View[k].settled = batch[k].ctx
    BY <1>0, <2>1, ViewFacts
  <2>9. (Advanced(k) /\ batch[k].ctx = a[k] + 1) \/ (Frozen(k) /\ batch[k].ctx = a[k])
    BY <2>2, <2>7, <2>8 DEF Advanced, Frozen
  <2> HIDE DEF a, g
  <2>10. a[g[k]] < batch[k].ctx
    BY <2>4, <2>5, <2>6
  <2> QED BY <2>2, <2>3, <2>4, <2>5, <2>9, <2>10
<1>8. a \in [1 .. n -> Nat] /\ g \in [1 .. n -> 1 .. n]
  BY <1>7
<1>9. \A k, l \in 1 .. n : g[k] = g[l] => k = l
  <2> SUFFICES ASSUME NEW k \in 1 .. n, NEW l \in 1 .. n, g[k] = g[l] PROVE k = l
    OBVIOUS
  <2>1. batch[k].req = batch[l].req
    BY <1>3, <1>4
  <2> QED BY <1>0, <1>2, <2>1 DEF Fits
<1> HIDE DEF a, g, n
<1>10. \A k \in 1 .. n : a[g[k]] <= a[k]
  <2> TAKE k \in 1 .. n
  <2>1. a[g[k]] \in Nat /\ a[k] \in Nat /\ batch[k].ctx \in Nat /\ a[g[k]] < batch[k].ctx
        /\ (batch[k].ctx = a[k] + 1 \/ batch[k].ctx = a[k])
    BY <1>7
  <2> QED BY <2>1
<1>11. \A k \in 1 .. n : a[g[k]] = a[k]
  <2>1. Permutes(n, a, g)
    BY <1>8, <1>9, <1>10 DEF Permutes
  <2> QED BY <1>2, <2>1, PermutationKeeps
<1>12. i \in 1 .. n
  BY <1>2
<1> DEFINE c == batch[i].ctx
           r == batch[i].req
<1>13. /\ c \in Nat /\ a[i] \in Nat /\ Advanced(i) /\ c = a[i] + 1
       /\ snap[f[r]].settled = a[i]
  <2>1. /\ a[i] \in Nat /\ c \in Nat /\ a[g[i]] < c /\ a[g[i]] = a[i]
        /\ ((Advanced(i) /\ c = a[i] + 1) \/ c = a[i])
        /\ snap[f[r]].settled = a[g[i]]
    BY <1>7, <1>11, <1>12
  <2> HIDE DEF c, r
  <2>2. ~ (c = a[i])
    BY <2>1
  <2> QED BY <2>1, <2>2
<1>14. r \in known /\ len[r] = c
  BY <1>0, <1>3, <1>12 DEF Fits
<1>15. Decoded => DerivedOf
  <2>1. ~ (len[r] > snap[f[r]].settled + 1)
    <3> HIDE DEF c, r
    <3> QED BY <1>13, <1>14
  <2> QED BY <1>1, <1>14, <2>1
<1>16. ASSUME NEW p \in 0 .. c \div Page - 1
       PROVE  Clean(Block(i, p)) \/ (i \in Crossed /\ p = c \div Page - 1)
  <2>0. p \in Nat /\ p < c \div Page /\ c \div Page \in Nat
    BY <1>13, Pages
  <2>1. a[i] \div Page \in Nat
    BY <1>13, Pages
  <2>2. CASE p < a[i] \div Page
    <3>1. p \in 0 .. snap[f[r]].settled \div Page - 1
      BY <1>13, <2>0, <2>1, <2>2
    <3> QED BY <1>1, <1>14, <3>1 DEF Block
  <2>3. CASE ~ (p < a[i] \div Page)
    <3>1. c % Page = 0 /\ p = c \div Page - 1
      BY <1>13, <2>0, <2>1, <2>3, PageFilled
    <3>2. i \in DOMAIN View /\ View[i].settled = c
      BY <1>0, <1>6, <1>12, ViewFacts
    <3>3. i \in Crossed
      BY <1>13, <3>1, <3>2 DEF Crossed
    <3> QED BY <3>1, <3>3
  <2> QED BY <2>2, <2>3
<1> QED BY <1>13, <1>15, <1>16

-----------------------------------------------------------------------------
(* What the refreshes rebuild *)

\* Bulk and delta refresh read settled pages: their K is all there.
LEMMA SettledWhole ==
    ASSUME RefreshTypes, Fits, KVExact, phase # "idle", NEW b \in SettledBlocks
    PROVE  b \in Blocks /\ Whole(kv[b], b)
<1>1. PICK i \in DOMAIN batch : \E p \in 0 .. batch[i].ctx \div Page - 1 : b = Block(i, p)
  BY DEF SettledBlocks
<1>2. PICK p \in 0 .. batch[i].ctx \div Page - 1 : b = Block(i, p)
  BY <1>1
<1> QED BY <1>2, SettledPages

\* The tail refresh reads the page the settled tokens of the row have filled.
LEMMA TailWhole ==
    ASSUME RefreshTypes, Fits, KVExact, phase # "idle", Steady, NEW i \in Crossed
    PROVE  /\ i \in DOMAIN batch
           /\ batch[i].ctx \div Page - 1 \in 0 .. batch[i].ctx \div Page - 1
           /\ Block(i, Max({View[i].settled \div Page - 1, 0}))
                = Block(i, batch[i].ctx \div Page - 1)
<1>1. i \in DOMAIN View /\ Advanced(i) /\ View[i].settled % Page = 0
  BY DEF Crossed
<1>2. DOMAIN snap = DOMAIN View
  <2>1. snap \in Seq(Lengths)
    BY DEF RefreshTypes
  <2> QED BY <2>1, ViewFacts DEF Steady
<1>3. i \in DOMAIN batch /\ snap[i].settled \in Nat
  BY <1>1, <1>2, SteadyRow
<1>4. View[i].settled = batch[i].ctx /\ batch[i].ctx \in Nat
  BY <1>3, RowFacts, ViewFacts
<1>5. batch[i].ctx > 0
  BY <1>1, <1>3, <1>4 DEF Advanced
<1>6. batch[i].ctx \div Page - 1 \in Nat
  <2> DEFINE c == batch[i].ctx
  <2>1. c \in Nat /\ c > 0 /\ c % Page = 0
    BY <1>1, <1>4, <1>5
  <2> HIDE DEF c
  <2>2. c \div Page - 1 \in Nat
    BY <2>1, RefreshAssumption
  <2> USE DEF c
  <2> QED BY <2>2
<1> DEFINE k == batch[i].ctx \div Page - 1
<1>7. Max({k, 0}) = k
  <2>1. k \in Nat
    BY <1>6
  <2> HIDE DEF k
  <2>2. \A x \in {k, 0} : (\A y \in {k, 0} : x >= y) <=> x = k
    BY <2>1
  <2>3. Max({k, 0}) = CHOOSE x \in {k, 0} : \A y \in {k, 0} : x >= y
    BY DEF Max
  <2>4. k \in {k, 0} /\ \A y \in {k, 0} : k >= y
    BY <2>2
  <2>5. Max({k, 0}) \in {k, 0} /\ \A y \in {k, 0} : Max({k, 0}) >= y
    BY <2>3, <2>4
  <2> QED BY <2>2, <2>5
<1> QED BY <1>3, <1>4, <1>6, <1>7

\* Whatever the gate decides, it rebuilds pages whose K is all there.
LEMMA RebuildWhole ==
    ASSUME RefreshTypes, Fits, KVExact, phase # "idle", NEW b \in Blocks,
           \/ b \in FullBlocks
           \/ Steady /\ b \in TailBlocks
    PROVE  Whole(kv[b], b)
<1>1. CASE b \in FullBlocks
  <2>1. b \in SettledBlocks
    BY <1>1 DEF FullBlocks, StaleBlocks
  <2> QED BY <2>1, SettledWhole
<1>2. CASE Steady /\ b \in TailBlocks
  <2>1. PICK i \in Crossed : b = Block(i, Max({View[i].settled \div Page - 1, 0}))
    BY <1>2 DEF TailBlocks
  <2>2. /\ i \in DOMAIN batch
        /\ batch[i].ctx \div Page - 1 \in 0 .. batch[i].ctx \div Page - 1
        /\ b = Block(i, batch[i].ctx \div Page - 1)
    BY <1>2, <2>1, TailWhole
  <2> QED BY <2>2, SettledPages
<1> QED BY <1>1, <1>2

\* After a bulk or delta refresh with the side stream drained every settled
\* page of the batch has its summary: a page whose tag is that of its last token
\* had it already.
LEMMA FullFresh ==
    ASSUME RefreshTypes, Fits, KVExact, Tags, phase = "scheduled", Fence,
           NEW b \in SettledBlocks
    PROVE  Whole(Rebuilt(FullBlocks)[b], b)
<1>1. b \in Blocks /\ Whole(kv[b], b)
  BY SettledWhole
<1>2. CASE b \in FullBlocks
  BY <1>1, <1>2 DEF Rebuilt
<1>3. CASE b \notin FullBlocks
  <2>1. summary[b][Page - 1] = kv[b][Page - 1]
    BY <1>1, <1>3 DEF FullBlocks, StaleBlocks
  <2>2. Page - 1 \in Offsets
    BY RefreshAssumption DEF Offsets
  <2>3. Tagged(summary[b], b)
    BY <1>1, <2>1, <2>2 DEF Whole, Tagged
  <2>4. b \notin DOMAIN work /\ ~ Queued(b)
    BY DEF Fence, NoWork, Queued
  <2>5. Whole(summary[b], b)
    BY <1>1, <2>3, <2>4 DEF Tags
  <2> QED BY <1>1, <1>3, <2>5 DEF Rebuilt
<1> QED BY <1>2, <1>3

-----------------------------------------------------------------------------
(* The steps *)

\* Nothing is known, allocated or queued when the engine starts.
LEMMA RefreshInit ==
    ASSUME InitKnown
    PROVE  RefreshInv
<1> USE DEF InitKnown, Init
<1>0. Page \in Nat /\ Page > 0 /\ Page - 1 \in Offsets /\ MaxLen \in Nat /\ 0 \in 0 .. MaxLen
  BY RefreshAssumption DEF Offsets
<1>1. RefreshTypes
  <2>1. <<variant, overlap>> \in Modes
    <3>1. PICK m \in Modes : variant = m[1] /\ overlap = m[2]
      OBVIOUS
    <3>2. m \in {"fast", "mem"} \X BOOLEAN
      BY <3>1, RefreshAssumption
    <3> QED BY <3>1, <3>2
  <2>2. /\ len \in [Requests -> 0 .. MaxLen] /\ partial \subseteq Requests
        /\ occ \in [Blocks -> Nat] /\ kv \in [Blocks -> [Offsets -> Nat]]
        /\ summary \in [Blocks -> [Offsets -> Nat \cup {-1}]]
    BY <1>0 DEF Never
  <2>3. table \in [Requests -> Seq(Blocks)] /\ batch \in Seq(Row) /\ Len(batch) = 0
        /\ snap \in Seq(Lengths) /\ side \in Seq(SUBSET Blocks)
    OBVIOUS
  <2>4. Cardinality(Requests) \in Nat
    BY RefreshAssumption, FS_CardinalityType
  <2>5. DOMAIN work \subseteq Blocks /\ work \in [DOMAIN work -> [Offsets -> Nat]]
    BY DEF NoWork
  <2>6. Len(batch) <= Cardinality(Requests)
    BY <2>3, <2>4
  <2>7. derived \in [1 .. Cardinality(Requests) -> Nat]
    OBVIOUS
  <2> QED BY <2>1, <2>2, <2>3, <2>5, <2>6, <2>7 DEF RefreshTypes
<1>2. TablesApart
  BY DEF TablesApart
<1>3. Fits
  <2>1. \A r \in Requests : PagesFor(len[r]) <= Len(table[r])
    <3>1. PagesFor(0) = 0
      BY <1>0 DEF PagesFor
    <3> QED BY <3>1
  <2> QED BY <2>1 DEF Fits
<1>4. KVExact
  BY DEF KVExact
<1>5. Past
  <2>1. DOMAIN work = {} /\ -1 <= 0 /\ 0 <= 0
    BY DEF NoWork
  <2> QED BY <2>1 DEF Past, Never
<1>6. Tags
  <2>1. DOMAIN work = {}
    BY DEF NoWork
  <2>2. \A b \in Blocks : Whole(kv[b], b) /\ ~ Tagged(summary[b], b)
    BY <1>0 DEF Whole, Tagged, Never
  <2> QED BY <2>1, <2>2 DEF Tags
<1>7. Streams
  BY DEF Streams, Fence
<1>8. GateInv
  <2>1. [r \in {} |-> 1] \in Injection(known, DOMAIN snap)
    BY DEF Injection, IsInjective
  <2>2. Moved
    BY <2>1 DEF Moved
  <2> QED BY <2>2 DEF GateInv
<1>9. FreshRows
  BY DEF FreshRows
<1>10. Covers
  <2>1. \A p \in Nat : ~ ((p + 1) * Page <= 0)
    BY <1>0
  <2> QED BY <2>1 DEF Covers
<1> QED BY <1>1, <1>2, <1>3, <1>4, <1>5, <1>6, <1>7, <1>8, <1>9, <1>10 DEF RefreshInv

\* The known requests stay known until one leaves or a gate passes.
LEMMA KnownKept ==
    ASSUME RefreshInv, NextKnown, Running \cup Rows \subseteq Running' \cup Rows',
           ~ (phase = "scheduled" /\ phase' = "built" /\ Gated)
    PROVE  known' = known
BY DEF RefreshInv, Fits, NextKnown, Rows

\* A stuttering step changes nothing the invariant reads.
LEMMA RefreshStutter ==
    ASSUME RefreshInv, UNCHANGED <<vars, known>>
    PROVE  RefreshInv'
<1> USE DEF vars, flags, engine, gate, stream
<1>1. RefreshTypes' /\ TablesApart' /\ KVExact' /\ Past'
  BY DEF RefreshInv, RefreshTypes, TablesApart, KVExact, Past
<1>2. Fits' /\ Tags' /\ Streams'
  <2>1. Fits'
    BY DEF RefreshInv, Fits, Running, Rows, Sliver, PureDecode, SeqLen
  <2>2. Plan' = Plan /\ PureDecode' = PureDecode /\ DecodeRows' = DecodeRows
    BY DEF Plan, PureDecode, DecodeRows, Block, SeqLen
  <2>3. Tags'
    BY <2>2 DEF RefreshInv, Tags, Whole, Tagged, Queued, Armed
  <2>4. Streams'
    BY <2>2 DEF RefreshInv, Streams, Fence, NoWork, Never
  <2> QED BY <2>1, <2>3, <2>4
<1>3. GateInv'
  <2>1. /\ View' = View /\ Rows' = Rows /\ Fence' = Fence /\ PureDecode' = PureDecode
        /\ DecodeRows' = DecodeRows /\ Plan' = Plan
    BY DEF View, Padded, PureDecode, DecodeRows, Plan, Block, SeqLen, Rows, Fence, NoWork, Never
  <2>2. \A b : Clean(b)' <=> Clean(b)
    BY <2>1 DEF Clean, Whole, Queued, Armed
  <2>3. AtGate' <=> AtGate
    BY <2>1, <2>2 DEF AtGate, Block, SeqLen
  <2>4. Moved' <=> Moved
    BY <2>2 DEF Moved, Decoded, DerivedOf
  <2>5. Gated' = Gated /\ Steady' = Steady /\ SameRows' = SameRows
    BY <2>1 DEF Gated, Steady, SameRows, Advanced, Pad, Frozen
  <2> QED BY <2>3, <2>4, <2>5 DEF RefreshInv, GateInv
<1>4. FreshRows' /\ Covers'
  <2>1. FreshRows'
    <3>1. DecodeRows' = DecodeRows /\ \A i, p : Block(i, p)' = Block(i, p)
      BY DEF DecodeRows, Block
    <3> QED BY <3>1 DEF RefreshInv, FreshRows, Whole
  <2>2. \A r, p : Due(r, p)' <=> Due(r, p)
    BY DEF Due
  <2>3. \A b : Settles(b)' <=> Settles(b)
    BY DEF Settles, Whole
  <2> QED BY <2>1, <2>2, <2>3 DEF RefreshInv, Covers
<1> QED BY <1>1, <1>2, <1>3, <1>4 DEF RefreshInv

\* A side build reads its blocks: a page the running forward may yet write has its
\* tag last, so a tagged reading is whole or the forward's own build follows.
LEMMA RefreshSideRead ==
    ASSUME RefreshInv, SideRead, NextKnown
    PROVE  RefreshInv'
<1> USE DEF flags, engine, gate
<1>0. /\ RefreshTypes /\ TablesApart /\ Fits /\ KVExact /\ Past /\ Tags /\ Streams /\ GateInv
      /\ FreshRows /\ Covers
  BY DEF RefreshInv
<1>1. /\ side # <<>> /\ work = NoWork /\ side' = Tail(side) /\ DOMAIN work = {}
      /\ UNCHANGED <<flags, engine, batch, kv, summary, gate, derived, phase>>
  BY DEF SideRead, NoWork
<1>2. PICK torn \in SUBSET {w \in Head(side) \X Offsets : phase = "built" /\ Written(w[1], w[2])} :
         work' = [b \in Head(side) |->
                    [o \in Offsets |-> IF <<b, o>> \in torn THEN NewK(b)[o] ELSE kv[b][o]]]
  BY DEF SideRead
<1>3. /\ overlap /\ ~ Fence
      /\ phase = "built" => ~ PureDecode /\ DecodeRows = {}
  BY <1>0, <1>1 DEF Streams, Fence
<1>4. known' = known
  <2>1. Running' = Running /\ Rows' = Rows
    BY <1>1 DEF Running, Rows
  <2> QED BY <1>1, <2>1, KnownKept
<1>5. /\ side \in Seq(SUBSET Blocks) /\ Len(side) \in Nat /\ Len(side) > 0
      /\ DOMAIN side = 1 .. Len(side) /\ Head(side) = side[1] /\ Head(side) \subseteq Blocks
      /\ Tail(side) \in Seq(SUBSET Blocks) /\ DOMAIN Tail(side) = 1 .. Len(side) - 1
      /\ \A k \in 1 .. Len(side) - 1 : Tail(side)[k] = side[k + 1]
  <2>1. side \in Seq(SUBSET Blocks) /\ side # <<>>
    BY <1>0, <1>1 DEF RefreshTypes
  <2> QED BY <2>1
<1>6. DOMAIN work' = Head(side)
  BY <1>2
<1>7. ASSUME NEW b
      PROVE  (\E k \in DOMAIN side : b \in side[k])
               <=> b \in Head(side) \/ \E k \in DOMAIN side' : b \in side'[k]
  <2>1. ASSUME NEW k \in DOMAIN side, b \in side[k]
        PROVE  b \in Head(side) \/ \E l \in DOMAIN side' : b \in side'[l]
    <3>1. CASE k = 1
      BY <1>5, <2>1, <3>1
    <3>2. CASE k # 1
      <4>1. k - 1 \in 1 .. Len(side) - 1 /\ (k - 1) + 1 = k
        BY <1>5, <3>2
      <4>2. Tail(side)[k - 1] = side[k]
        BY <1>5, <4>1
      <4> QED BY <1>1, <1>5, <2>1, <4>1, <4>2
    <3> QED BY <3>1, <3>2
  <2>2. ASSUME NEW l \in DOMAIN side', b \in side'[l]
        PROVE  \E k \in DOMAIN side : b \in side[k]
    <3>1. l \in 1 .. Len(side) - 1
      BY <1>1, <1>5
    <3>2. l + 1 \in DOMAIN side /\ side'[l] = side[l + 1]
      BY <1>1, <1>5, <3>1
    <3> QED BY <2>2, <3>2
  <2>3. 1 \in DOMAIN side
    BY <1>5
  <2> QED BY <1>5, <2>1, <2>2, <2>3
<1>8. Armed' = Armed /\ PureDecode' = PureDecode /\ DecodeRows' = DecodeRows
  <2>1. \A i, p : Block(i, p)' = Block(i, p) /\ SeqLen(i)' = SeqLen(i)
    BY <1>1 DEF Block, SeqLen
  <2>2. PureDecode' = PureDecode /\ DecodeRows' = DecodeRows
    BY <1>1 DEF PureDecode, DecodeRows
  <2>3. Plan' = Plan
    BY <1>1, <2>1 DEF Plan
  <2> QED BY <1>1, <2>2, <2>3 DEF Armed
<1>9. ASSUME NEW b PROVE Queued(b) <=> b \in Head(side) \/ Queued(b)'
  BY <1>1, <1>7, <1>8 DEF Queued
<1>10. ASSUME NEW b \in Head(side), NEW o \in Offsets
       PROVE  /\ b \in Blocks
              /\ work'[b][o] = IF <<b, o>> \in torn THEN NewK(b)[o] ELSE kv[b][o]
              /\ work'[b][o] \in Nat /\ work'[b][o] <= occ[b] /\ occ[b] \in Nat
              /\ kv[b][o] = occ[b] => work'[b][o] = occ[b]
  <2>1. b \in Blocks
    BY <1>5
  <2>2. work'[b][o] = IF <<b, o>> \in torn THEN NewK(b)[o] ELSE kv[b][o]
    BY <1>2
  <2>3. occ[b] \in Nat /\ kv[b][o] \in Nat /\ kv[b][o] <= occ[b]
    BY <1>0, <2>1 DEF RefreshTypes, Past
  <2>4. NewK(b)[o] = IF Written(b, o) THEN occ[b] ELSE kv[b][o]
    BY DEF NewK
  <2> QED BY <2>1, <2>2, <2>3, <2>4
<1>11. RefreshTypes'
  <2>1. work' \in [DOMAIN work' -> [Offsets -> Nat]] /\ DOMAIN work' \subseteq Blocks
    <3>1. \A b \in Head(side) : work'[b] \in [Offsets -> Nat]
      <4> TAKE b \in Head(side)
      <4>1. work'[b] = [o \in Offsets |-> IF <<b, o>> \in torn THEN NewK(b)[o] ELSE kv[b][o]]
        BY <1>2
      <4> QED BY <1>10, <4>1
    <3> QED BY <1>2, <1>5, <1>6, <3>1
  <2> QED BY <1>0, <1>1, <1>4, <1>5, <2>1 DEF RefreshTypes
<1>12. TablesApart' /\ KVExact' /\ Past'
  <2>1. TablesApart' /\ KVExact'
    BY <1>0, <1>1 DEF TablesApart, KVExact
  <2>2. Past'
    BY <1>0, <1>1, <1>6, <1>10 DEF Past
  <2> QED BY <2>1, <2>2
<1>13. Fits'
  BY <1>0, <1>1, <1>4 DEF Fits, Running, Rows, Sliver, PureDecode, SeqLen
<1>14. Tags'
  <2> SUFFICES ASSUME NEW b \in Blocks
               PROVE  /\ Tagged(kv[b], b) => Whole(kv[b], b)
                      /\ b \in DOMAIN work' /\ Tagged(work'[b], b) =>
                           Whole(work'[b], b) \/ Queued(b)'
                      /\ Tagged(summary[b], b) =>
                           Whole(summary[b], b) \/ b \in DOMAIN work' \/ Queued(b)'
    BY <1>1 DEF Tags, Tagged, Whole
  <2>1. Tagged(kv[b], b) => Whole(kv[b], b)
    BY <1>0 DEF Tags
  <2>2. ASSUME b \in DOMAIN work', Tagged(work'[b], b)
        PROVE  Whole(work'[b], b) \/ Queued(b)'
    <3>0. Page - 1 \in Offsets /\ b \in Head(side)
      BY <1>6, <2>2, RefreshAssumption DEF Offsets
    <3>1. CASE <<b, Page - 1>> \in torn
      <4>1. phase = "built" /\ Written(b, Page - 1)
        BY <3>1
      <4>2. b \in Plan
        BY <1>0, <4>1, NewKWhole
      <4>3. b \in Armed
        BY <1>3, <4>1, <4>2 DEF Armed
      <4> QED BY <1>1, <1>8, <4>1, <4>3 DEF Queued
    <3>2. CASE <<b, Page - 1>> \notin torn
      <4>1. Whole(kv[b], b)
        BY <1>10, <2>1, <2>2, <3>0, <3>2 DEF Tagged
      <4> QED BY <1>10, <3>0, <4>1 DEF Whole
    <3> QED BY <3>1, <3>2
  <2>3. Tagged(summary[b], b) => Whole(summary[b], b) \/ Queued(b)
    BY <1>0, <1>1 DEF Tags
  <2> QED BY <1>6, <1>9, <2>1, <2>2, <2>3
<1>15. Streams'
  BY <1>1, <1>3, <1>8 DEF Streams
<1>16. GateInv'
  <2>1. Moved
    BY <1>0, <1>3 DEF GateInv, AtGate
  <2>2. \A b : Clean(b) => Clean(b)'
    BY <1>1, <1>6, <1>9 DEF Clean, Whole
  <2>3. Moved'
    BY <1>1, <1>4, <2>1, <2>2 DEF Moved, Decoded, DerivedOf
  <2>4. View' = View
    BY <1>1 DEF View, Padded, PureDecode, SeqLen
  <2>5. Gated' = Gated /\ Steady' = Steady /\ SameRows' = SameRows
    BY <1>1, <1>4, <1>8, <2>4 DEF Gated, Steady, SameRows, Advanced, Pad, Frozen
  <2>6. ~ (phase = "built" /\ Gated)
    BY <1>3 DEF Gated
  <2> QED BY <1>0, <1>1, <2>3, <2>5, <2>6 DEF GateInv
<1>17. FreshRows'
  BY <1>1, <1>3, <1>8 DEF FreshRows
<1>18. Covers'
  <2> SUFFICES ASSUME NEW r \in Requests, NEW p \in Nat, (p + 1) * Page <= len[r]
               PROVE  Settles(table[r][p + 1])' \/ Due(r, p)'
    BY <1>1 DEF Covers
  <2> DEFINE b == table[r][p + 1]
  <2>1. Due(r, p)' <=> Due(r, p)
    BY <1>1 DEF Due
  <2>2. Whole(kv[b], b)
    BY <1>0, OwnPages
  <2>3. b' = b
    BY <1>1
  <2>4. ASSUME Settles(b) PROVE Settles(b)'
    <3>1. CASE \E k \in DOMAIN side' : b \in side'[k]
      BY <2>3, <3>1 DEF Settles
    <3>2. CASE b \in Head(side) /\ ~ \E k \in DOMAIN side' : b \in side'[k]
      <4>1. Whole(work'[b], b)
        BY <1>10, <2>2, <3>2 DEF Whole
      <4> HIDE DEF b
      <4> QED BY <1>1, <1>6, <2>3, <3>2, <4>1 DEF Settles, Whole
    <3>3. CASE b \notin Head(side) /\ ~ \E k \in DOMAIN side' : b \in side'[k]
      <4>1. ~ \E k \in DOMAIN side : b \in side[k]
        BY <1>7, <3>3
      <4>2. Whole(summary[b], b)
        BY <1>1, <2>4, <4>1 DEF Settles
      <4> HIDE DEF b
      <4> QED BY <1>1, <1>6, <2>3, <3>3, <4>2 DEF Settles, Whole
    <3> QED BY <3>1, <3>2, <3>3
  <2>5. Settles(b) \/ Due(r, p)
    BY <1>0, <1>3 DEF Covers
  <2> QED BY <2>1, <2>4, <2>5
<1> QED BY <1>11, <1>12, <1>13, <1>14, <1>15, <1>16, <1>17, <1>18 DEF RefreshInv

\* A side build writes what it read: the summaries it writes are of no clean page.
LEMMA RefreshSideWrite ==
    ASSUME RefreshInv, SideWrite, NextKnown
    PROVE  RefreshInv'
<1> USE DEF flags, engine, gate
<1>0. /\ RefreshTypes /\ TablesApart /\ Fits /\ KVExact /\ Past /\ Tags /\ Streams /\ GateInv
      /\ FreshRows /\ Covers
  BY DEF RefreshInv
<1>1. /\ work # NoWork /\ work' = NoWork /\ DOMAIN work' = {}
      /\ summary' = [b \in Blocks |-> IF b \in DOMAIN work THEN work[b] ELSE summary[b]]
      /\ UNCHANGED <<flags, engine, batch, kv, gate, side, derived, phase>>
  BY DEF SideWrite, NoWork
<1>2. /\ overlap /\ ~ Fence
      /\ phase = "built" => ~ PureDecode /\ DecodeRows = {}
  BY <1>0, <1>1 DEF Streams, Fence
<1>3. known' = known
  <2>1. Running' = Running /\ Rows' = Rows
    BY <1>1 DEF Running, Rows
  <2> QED BY <1>1, <2>1, KnownKept
<1>4. Armed' = Armed /\ PureDecode' = PureDecode /\ DecodeRows' = DecodeRows
  <2>1. \A i, p : Block(i, p)' = Block(i, p) /\ SeqLen(i)' = SeqLen(i)
    BY <1>1 DEF Block, SeqLen
  <2>2. PureDecode' = PureDecode /\ DecodeRows' = DecodeRows
    BY <1>1 DEF PureDecode, DecodeRows
  <2>3. Plan' = Plan
    BY <1>1, <2>1 DEF Plan
  <2> QED BY <1>1, <2>2, <2>3 DEF Armed
<1>5. \A b : Queued(b)' <=> Queued(b)
  BY <1>1, <1>4 DEF Queued
<1>6. ASSUME NEW b \in Blocks
      PROVE  /\ b \in DOMAIN work => summary'[b] = work[b] /\ work[b] \in [Offsets -> Nat]
             /\ b \notin DOMAIN work => summary'[b] = summary[b]
             /\ summary[b] \in [Offsets -> Nat \cup {-1}]
  BY <1>0, <1>1 DEF RefreshTypes
<1>7. RefreshTypes'
  <2>1. summary' \in [Blocks -> [Offsets -> Nat \cup {-1}]]
    <3>1. \A b \in Blocks : summary'[b] \in [Offsets -> Nat \cup {-1}]
      BY <1>6
    <3> QED BY <1>1, <3>1
  <2>2. DOMAIN work' \subseteq Blocks /\ work' \in [DOMAIN work' -> [Offsets -> Nat]]
    BY <1>1 DEF NoWork
  <2> QED BY <1>0, <1>1, <1>3, <2>1, <2>2 DEF RefreshTypes
<1>8. TablesApart' /\ KVExact' /\ Past' /\ Fits'
  <2>1. TablesApart' /\ KVExact'
    BY <1>0, <1>1 DEF TablesApart, KVExact
  <2>2. Past'
    BY <1>0, <1>1, <1>6 DEF Past
  <2>3. Fits'
    BY <1>0, <1>1, <1>3 DEF Fits, Running, Rows, Sliver, PureDecode, SeqLen
  <2> QED BY <2>1, <2>2, <2>3
<1>9. Tags'
  <2> SUFFICES ASSUME NEW b \in Blocks
               PROVE  /\ Tagged(kv[b], b) => Whole(kv[b], b)
                      /\ Tagged(summary'[b], b) => Whole(summary'[b], b) \/ Queued(b)'
    BY <1>1 DEF Tags, Tagged, Whole
  <2> QED BY <1>0, <1>5, <1>6 DEF Tags, Tagged, Whole
<1>10. Streams'
  BY <1>1, <1>2, <1>4 DEF Streams
<1>11. GateInv'
  <2>1. Moved
    BY <1>0, <1>2 DEF GateInv, AtGate
  <2>2. \A b \in Blocks : Clean(b) => Clean(b)'
    BY <1>1, <1>5, <1>6 DEF Clean, Whole
  <2>3. Moved'
    <3>1. PICK f \in Injection(known, DOMAIN snap) :
        /\ \A r \in known :
             /\ snap[f[r]].cur > 0 /\ len[r] > snap[f[r]].settled
             /\ \A p \in 0 .. snap[f[r]].settled \div Page - 1 : Clean(table[r][p + 1])
        /\ \/ Decoded => DerivedOf
           \/ \A r \in known : len[r] > snap[f[r]].settled + 1
      BY <2>1 DEF Moved
    <3>2. ASSUME NEW r \in known, NEW p \in 0 .. snap[f[r]].settled \div Page - 1
          PROVE  table[r][p + 1] \in Blocks
      <4>1. f[r] \in DOMAIN snap
        BY DEF Injection
      <4>2. snap[f[r]].settled \in Nat
        BY <1>0, <4>1, SnapFacts
      <4> QED BY <1>0, <3>1, <4>2, KnownPages
    <3>3. \A r \in known : \A p \in 0 .. snap[f[r]].settled \div Page - 1 :
             Clean(table[r][p + 1])'
      BY <1>1, <2>2, <3>1, <3>2
    <3>4. Decoded' = Decoded /\ DerivedOf' = DerivedOf
      BY <1>1 DEF Decoded, DerivedOf
    <3> QED BY <1>1, <1>3, <3>1, <3>3, <3>4 DEF Moved
  <2>4. View' = View
    BY <1>1 DEF View, Padded, PureDecode, SeqLen
  <2>5. Gated' = Gated /\ Steady' = Steady /\ SameRows' = SameRows
    BY <1>1, <1>3, <1>4, <2>4 DEF Gated, Steady, SameRows, Advanced, Pad, Frozen
  <2>6. ~ (phase = "built" /\ Gated)
    BY <1>2 DEF Gated
  <2> QED BY <1>0, <1>1, <2>3, <2>5, <2>6 DEF GateInv
<1>12. FreshRows'
  BY <1>1, <1>2, <1>4 DEF FreshRows
<1>13. Covers'
  <2> SUFFICES ASSUME NEW r \in Requests, NEW p \in Nat, (p + 1) * Page <= len[r]
               PROVE  Settles(table[r][p + 1])' \/ Due(r, p)'
    BY <1>1 DEF Covers
  <2> DEFINE b == table[r][p + 1]
  <2>1. Due(r, p)' <=> Due(r, p)
    BY <1>1 DEF Due
  <2>2. b \in Blocks /\ b' = b
    BY <1>0, <1>1, OwnPages
  <2>3. ASSUME Settles(b) PROVE Settles(b)'
    <3> HIDE DEF b
    <3> QED BY <1>1, <1>6, <2>2, <2>3 DEF Settles, Whole
  <2>4. Settles(b) \/ Due(r, p)
    BY <1>0, <1>2 DEF Covers
  <2> QED BY <2>1, <2>3, <2>4
<1> QED BY <1>7, <1>8, <1>9, <1>10, <1>11, <1>12, <1>13 DEF RefreshInv

\* A request that leaves is forgotten, and its blocks are held no more.
LEMMA RefreshFinish ==
    ASSUME RefreshInv, NEW r \in Requests, Finish(r), NextKnown
    PROVE  RefreshInv'
<1> USE DEF flags, gate, stream
<1>0. /\ RefreshTypes /\ TablesApart /\ Fits /\ KVExact /\ Past /\ Tags /\ Streams /\ GateInv
      /\ FreshRows /\ Covers
  BY DEF RefreshInv
<1>1. /\ phase = "idle" /\ r \in Running /\ batch = <<>>
      /\ len' = [len EXCEPT ![r] = 0] /\ table' = [table EXCEPT ![r] = <<>>]
      /\ partial' = partial \ {r}
      /\ UNCHANGED <<flags, occ, batch, kv, summary, gate, stream, derived, phase>>
  BY <1>0 DEF Finish, Fits
<1>2. /\ \A t \in Requests : t # r => len'[t] = len[t] /\ table'[t] = table[t]
      /\ len'[r] = 0 /\ table'[r] = <<>>
  BY <1>0, <1>1 DEF RefreshTypes
<1>3. known' \subseteq known /\ known' \subseteq Running' /\ r \notin known'
  <2>1. known' = known \cap (Running' \cup Rows')
    BY <1>1 DEF NextKnown, Rows
  <2>2. Rows' = {}
    BY <1>1 DEF Rows
  <2>3. r \notin Running'
    BY <1>2 DEF Running
  <2> QED BY <2>1, <2>2, <2>3
<1>4. RefreshTypes'
  <2>1. len' \in [Requests -> 0 .. MaxLen] /\ table' \in [Requests -> Seq(Blocks)]
    <3>1. 0 \in 0 .. MaxLen /\ <<>> \in Seq(Blocks)
      BY RefreshAssumption
    <3> QED BY <1>0, <1>1, <3>1 DEF RefreshTypes
  <2> QED BY <1>0, <1>1, <1>3, <2>1 DEF RefreshTypes
<1>5. TablesApart'
  <2> SUFFICES ASSUME NEW t \in Requests, NEW u \in Requests,
                      NEW x \in DOMAIN table'[t], NEW y \in DOMAIN table'[u],
                      table'[t][x] = table'[u][y]
               PROVE  t = u /\ x = y
    BY DEF TablesApart
  <2>1. t # r /\ u # r
    BY <1>2
  <2> QED BY <1>0, <1>2, <2>1 DEF TablesApart
<1>6. Fits'
  <2>1. \A t \in Requests : PagesFor(len'[t]) <= Len(table'[t])
    <3>1. PagesFor(0) = 0 /\ Len(<<>>) = 0
      BY RefreshAssumption DEF PagesFor
    <3> QED BY <1>0, <1>2, <3>1 DEF Fits
  <2> QED BY <1>1, <1>3, <2>1 DEF Fits
<1>7. KVExact' /\ Past' /\ Tags' /\ Streams' /\ FreshRows'
  <2>1. KVExact'
    <3> SUFFICES ASSUME NEW t \in Requests, NEW n \in Nat, n < len'[t]
                 PROVE  kv[table'[t][n \div Page + 1]][n % Page] = occ[table'[t][n \div Page + 1]]
      BY <1>1 DEF KVExact
    <3>1. t # r
      BY <1>2
    <3> QED BY <1>0, <1>2, <3>1 DEF KVExact
  <2>2. Past'
    BY <1>0, <1>1 DEF Past
  <2>3. Tags'
    BY <1>0, <1>1 DEF Tags, Tagged, Whole, Queued
  <2>4. Streams' /\ FreshRows'
    BY <1>0, <1>1 DEF Streams, FreshRows, Fence, NoWork, Never
  <2> QED BY <2>1, <2>2, <2>3, <2>4
<1>8. GateInv'
  <2>1. PICK f \in Injection(known, DOMAIN snap) :
        /\ \A t \in known :
             /\ snap[f[t]].cur > 0 /\ len[t] > snap[f[t]].settled
             /\ \A p \in 0 .. snap[f[t]].settled \div Page - 1 : Clean(table[t][p + 1])
        /\ \/ Decoded => DerivedOf
           \/ \A t \in known : len[t] > snap[f[t]].settled + 1
    BY <1>0, <1>1 DEF GateInv, AtGate, Moved
  <2> DEFINE g == [t \in known' |-> f[t]]
  <2>2. g \in Injection(known', DOMAIN snap)
    BY <1>3 DEF Injection, IsInjective
  <2>3. \A b : Clean(b)' <=> Clean(b)
    BY <1>1 DEF Clean, Whole, Queued
  <2>4. ASSUME NEW t \in known'
        PROVE  g[t] = f[t] /\ t \in known /\ len'[t] = len[t] /\ table'[t] = table[t]
    BY <1>0, <1>2, <1>3 DEF RefreshTypes
  <2>5. Decoded' = Decoded /\ DerivedOf' = DerivedOf
    BY <1>1 DEF Decoded, DerivedOf
  <2> HIDE DEF g
  <2>6. \A t \in known' :
          /\ snap[g[t]].cur > 0 /\ len'[t] > snap[g[t]].settled
          /\ \A p \in 0 .. snap[g[t]].settled \div Page - 1 : Clean(table[t][p + 1])'
    BY <2>1, <2>3, <2>4
  <2>7. \/ Decoded => DerivedOf
        \/ \A t \in known' : len'[t] > snap[g[t]].settled + 1
    BY <2>1, <2>4
  <2>8. Moved'
    BY <1>1, <2>2, <2>5, <2>6, <2>7 DEF Moved
  <2> QED BY <1>1, <2>8 DEF GateInv
<1>9. Covers'
  <2> SUFFICES ASSUME overlap, NEW t \in Requests, NEW p \in Nat, (p + 1) * Page <= len'[t]
               PROVE  Settles(table[t][p + 1])' \/ Due(t, p)'
    BY <1>1 DEF Covers
  <2>1. t # r
    <3>1. ~ ((p + 1) * Page <= 0)
      BY RefreshAssumption
    <3> QED BY <1>2, <3>1
  <2>2. len'[t] = len[t] /\ table'[t] = table[t]
    BY <1>2, <2>1
  <2>3. Settles(table[t][p + 1]) \/ Due(t, p)
    BY <1>0, <2>2 DEF Covers
  <2>4. \A b : Settles(b)' <=> Settles(b)
    BY <1>1 DEF Settles, Whole
  <2>5. Due(t, p) => Due(t, p)'
    BY <1>1, <2>1, <2>2 DEF Due
  <2> QED BY <2>2, <2>3, <2>4, <2>5
<1> QED BY <1>4, <1>5, <1>6, <1>7, <1>8, <1>9 DEF RefreshInv

\* What a build may do to the summaries: take up the whole K of a page, or nothing.
RebuildOk ==
    /\ summary' \in [Blocks -> [Offsets -> Nat \cup {-1}]]
    /\ \A b \in Blocks : \/ summary'[b] = summary[b]
                         \/ summary'[b] = kv[b] /\ Whole(kv[b], b)

\* The tail, bulk and delta refreshes do no more than that.
LEMMA RebuildIsOk ==
    ASSUME RefreshTypes, Fits, KVExact, phase = "scheduled",
           \/ summary' = Rebuilt(FullBlocks)
           \/ Steady /\ summary' = Rebuilt(TailBlocks)
    PROVE  RebuildOk
<1>1. /\ kv \in [Blocks -> [Offsets -> Nat]]
      /\ summary \in [Blocks -> [Offsets -> Nat \cup {-1}]]
  BY DEF RefreshTypes
<1>2. CASE summary' = Rebuilt(FullBlocks)
  <2>1. summary' = [b \in Blocks |-> IF b \in FullBlocks THEN kv[b] ELSE summary[b]]
    BY <1>2 DEF Rebuilt
  <2>2. \A b \in Blocks : b \in FullBlocks => Whole(kv[b], b)
    BY RebuildWhole
  <2>3. summary' \in [Blocks -> [Offsets -> Nat \cup {-1}]]
    BY <1>1, <2>1
  <2> QED BY <2>1, <2>2, <2>3 DEF RebuildOk
<1>3. CASE Steady /\ summary' = Rebuilt(TailBlocks)
  <2>1. summary' = [b \in Blocks |-> IF b \in TailBlocks THEN kv[b] ELSE summary[b]]
    BY <1>3 DEF Rebuilt
  <2>2. \A b \in Blocks : b \in TailBlocks => Whole(kv[b], b)
    BY <1>3, RebuildWhole
  <2>3. summary' \in [Blocks -> [Offsets -> Nat \cup {-1}]]
    BY <1>1, <2>1
  <2> QED BY <2>1, <2>2, <2>3 DEF RebuildOk
<1> QED BY <1>2, <1>3

\* What every build leaves alone.
Building ==
    /\ phase = "scheduled" /\ phase' = "built"
    /\ UNCHANGED <<flags, engine, batch, kv, stream>>
    /\ RebuildOk

\* A build moves neither the batch nor what a step derives from it.
LEMMA BuildSame ==
    ASSUME Building
    PROVE  /\ Armed' = Armed /\ Plan' = Plan /\ PureDecode' = PureDecode
           /\ DecodeRows' = DecodeRows /\ View' = View /\ Rows' = Rows /\ Running' = Running
           /\ Fence' = Fence
           /\ \A i, p : Block(i, p)' = Block(i, p) /\ SeqLen(i)' = SeqLen(i)
<1> USE DEF Building, flags, engine, stream
<1>1. \A i, p : Block(i, p)' = Block(i, p) /\ SeqLen(i)' = SeqLen(i)
  BY DEF Block, SeqLen
<1>2. PureDecode' = PureDecode /\ DecodeRows' = DecodeRows
  BY DEF PureDecode, DecodeRows
<1>3. Plan' = Plan
  BY <1>1 DEF Plan
<1>4. View' = View
  BY <1>2 DEF View, Padded, SeqLen
<1>5. Rows' = Rows /\ Running' = Running /\ Fence' = Fence
  BY DEF Rows, Running, Fence, NoWork, Never
<1> QED BY <1>1, <1>2, <1>3, <1>4, <1>5 DEF Armed

\* A build keeps K and tags as they were, and every summary that was right.
LEMMA BuildKeeps ==
    ASSUME RefreshInv, Building
    PROVE  /\ TablesApart' /\ KVExact' /\ Past' /\ Tags'
           /\ \A b \in Blocks : Whole(summary[b], b) => Whole(summary[b], b)'
<1>0. /\ RefreshTypes /\ TablesApart /\ KVExact /\ Past /\ Tags
  BY DEF RefreshInv
<1>1. TablesApart' /\ KVExact'
  BY <1>0 DEF TablesApart, KVExact, Building, engine
<1>2. Past'
  BY <1>0 DEF Past, Building, engine, stream, RebuildOk
<1>3. \A b \in Blocks : Whole(summary[b], b) => Whole(summary[b], b)'
  BY DEF Building, RebuildOk, Whole, engine
<1>4. \A b : Queued(b) => Queued(b)'
  BY DEF Queued, Building, stream
<1>5. Tags'
  <2> SUFFICES ASSUME NEW b \in Blocks
               PROVE  /\ Tagged(kv[b], b) => Whole(kv[b], b)
                      /\ b \in DOMAIN work /\ Tagged(work[b], b) =>
                           Whole(work[b], b) \/ Queued(b)'
                      /\ Tagged(summary'[b], b) =>
                           Whole(summary'[b], b) \/ b \in DOMAIN work \/ Queued(b)'
    BY DEF Tags, Tagged, Whole, Building, engine, stream
  <2>1. /\ Tagged(kv[b], b) => Whole(kv[b], b)
        /\ b \in DOMAIN work /\ Tagged(work[b], b) => Whole(work[b], b) \/ Queued(b)
        /\ Tagged(summary[b], b) => Whole(summary[b], b) \/ b \in DOMAIN work \/ Queued(b)
    BY <1>0 DEF Tags
  <2>2. \/ summary'[b] = summary[b]
        \/ summary'[b] = kv[b] /\ Whole(kv[b], b)
    BY DEF Building, RebuildOk
  <2> QED BY <1>4, <2>1, <2>2
<1> QED BY <1>1, <1>2, <1>3, <1>5

\* A build keeps the types and the batch.
LEMMA BuildTypes ==
    ASSUME RefreshInv, Building,
           snap' \in Seq(Lengths), built' \in BOOLEAN,
           derived' \in [1 .. Cardinality(Requests) -> Nat],
           known' = known \/ known' = Rows
    PROVE  RefreshTypes' /\ Fits'
<1> USE DEF Building, flags, engine, stream
<1>0. RefreshTypes /\ Fits
  BY DEF RefreshInv
<1>1. Rows \subseteq Requests
  BY <1>0, RowFacts DEF Rows
<1>2. RefreshTypes'
  BY <1>0, <1>1 DEF RefreshTypes, RebuildOk
<1>3. Rows' = Rows /\ Running' = Running /\ Sliver' = Sliver
  BY BuildSame DEF Sliver
<1>4. Fits'
  BY <1>0, <1>3, BuildSame DEF Fits
<1> QED BY <1>2, <1>4

\* Once the rows that decode have their summaries, every complete page is settled
\* by a summary, a build read, or a build queued.
LEMMA BuildCovers ==
    ASSUME RefreshInv, Building, FreshRows', Streams'
    PROVE  Covers'
<1>0. RefreshTypes /\ Fits /\ KVExact /\ Covers
  BY DEF RefreshInv
<1> SUFFICES ASSUME overlap, NEW r \in Requests, NEW p \in Nat, (p + 1) * Page <= len[r]
             PROVE  Settles(table[r][p + 1])' \/ Due(r, p)'
  BY DEF Covers, Building, flags, engine
<1> DEFINE b == table[r][p + 1]
<1>1. b \in Blocks /\ b' = b
  BY <1>0, OwnPages DEF Building, engine
<1>2. ASSUME Settles(b) PROVE Settles(b)'
  <2>1. Whole(summary[b], b) => Whole(summary[b], b)'
    BY <1>1, BuildKeeps
  <2> HIDE DEF b
  <2> QED BY <1>1, <1>2, <2>1 DEF Settles, Whole, Building, engine, stream
<1>3. ASSUME Due(r, p) PROVE Settles(b)'
  <2>1. len[r] \in Nat /\ len[r] = (p + 1) * Page /\ r \in Running
    <3>1. len[r] \in Nat /\ len[r] = (p + 1) * Page
      BY <1>0, <1>3, TableFacts DEF Due
    <3>2. (p + 1) * Page > 0
      BY RefreshAssumption
    <3> QED BY <3>1, <3>2 DEF Running
  <2>2. PICK i \in DOMAIN batch : batch[i].req = r
    BY <1>0, <2>1 DEF Fits, Rows, Building
  <2>3. i \in DecodeRows /\ batch[i].ctx = len[r]
    BY <1>0, <1>3, <2>2 DEF Due, DecodeRows, Fits, Building
  <2>4. p \in 0 .. batch[i].ctx \div Page - 1
    <3>1. p < len[r] \div Page /\ len[r] \div Page \in Nat
      BY <2>1, Pages
    <3> QED BY <2>3, <3>1
  <2>5. Block(i, p) = b
    BY <2>2 DEF Block
  <2>6. Whole(summary[b], b)'
    <3>1. DecodeRows' = DecodeRows /\ Block(i, p)' = Block(i, p) /\ batch' = batch /\ phase' = "built"
      BY BuildSame DEF Building
    <3>2. Whole(summary[Block(i, p)], Block(i, p))'
      BY <2>3, <2>4, <3>1 DEF FreshRows
    <3> QED BY <1>1, <2>5, <3>1, <3>2 DEF Whole
  <2>7. Fence'
    <3>1. DecodeRows' # {}
      BY <2>3, BuildSame
    <3> QED BY <3>1 DEF Streams, Building
  <2> HIDE DEF b
  <2> QED BY <1>1, <2>6, <2>7 DEF Settles, Fence, NoWork
<1> QED BY <1>0, <1>2, <1>3 DEF Covers

\* A gate with the side stream drained leaves every settled page of the batch with
\* the summary of its K, whichever way it went.
LEMMA GateRebuilds ==
    ASSUME RefreshInv, Building, Fence, Gated, MaybeRefresh,
           NEW i \in DOMAIN batch, NEW p \in 0 .. batch[i].ctx \div Page - 1
    PROVE  Whole(summary[Block(i, p)], Block(i, p))'
<1>0. /\ RefreshTypes /\ Fits /\ KVExact /\ Tags /\ GateInv
      /\ phase = "scheduled" /\ phase # "idle"
      /\ summary' = Rebuilt(IF Steady THEN TailBlocks ELSE FullBlocks)
  BY DEF RefreshInv, Building, MaybeRefresh
<1>1. Block(i, p) \in Blocks /\ Whole(kv[Block(i, p)], Block(i, p))
  BY <1>0, SettledPages
<1> DEFINE b == Block(i, p)
<1>2. b' = b
  BY BuildSame
<1>3. b \in SettledBlocks
  BY <1>1 DEF SettledBlocks
<1>4. ASSUME Whole(summary'[b], b) PROVE Whole(summary[b], b)'
  BY <1>2, <1>4 DEF Whole, Building, engine
<1>5. ASSUME Whole(summary[b], b) PROVE Whole(summary[b], b)'
  <2>1. \/ summary'[b] = summary[b]
        \/ summary'[b] = kv[b] /\ Whole(kv[b], b)
    BY <1>1 DEF Building, RebuildOk
  <2> QED BY <1>4, <1>5, <2>1
<1>6. CASE ~ Steady
  <2>1. summary' = Rebuilt(FullBlocks)
    BY <1>0, <1>6
  <2>2. Whole(Rebuilt(FullBlocks)[b], b)
    BY <1>0, <1>3, FullFresh
  <2> QED BY <1>4, <2>1, <2>2
<1>7. CASE Steady
  <2>1. summary' = Rebuilt(TailBlocks)
    BY <1>0, <1>7
  <2>2. CASE AtGate
    <3>1. Clean(b)
      BY <2>2 DEF AtGate
    <3>2. Whole(summary[b], b)
      BY <3>1 DEF Clean
    <3> QED BY <1>5, <3>2
  <2>3. CASE Moved
    <3>1. SameRows
      BY <1>0, <1>7 DEF GateInv
    <3>2. Clean(b) \/ (i \in Crossed /\ p = batch[i].ctx \div Page - 1)
      BY <1>0, <1>7, <2>3, <3>1, SteadyBatch
    <3>3. CASE Clean(b)
      <4>1. Whole(summary[b], b)
        BY <3>3 DEF Clean
      <4> QED BY <1>5, <4>1
    <3>4. CASE i \in Crossed /\ p = batch[i].ctx \div Page - 1
      <4>1. b = Block(i, Max({View[i].settled \div Page - 1, 0}))
        BY <1>0, <1>7, <3>4, TailWhole
      <4>2. b \in TailBlocks
        BY <3>4, <4>1 DEF TailBlocks
      <4>3. summary'[b] = kv[b]
        BY <1>1, <2>1, <4>2 DEF Rebuilt
      <4> QED BY <1>1, <1>4, <4>3
    <3> QED BY <3>2, <3>3, <3>4
  <2> QED BY <1>0, <2>2, <2>3 DEF GateInv
<1> QED BY <1>6, <1>7

\* The parameters of a pure decode: derived now, or for the same page counts.
LEMMA GateDerives ==
    ASSUME RefreshInv, Building, PureDecode,
           derived' = IF Steady /\ Crossed = {} THEN derived ELSE DeriveRows(View)
    PROVE  /\ derived' \in [1 .. Cardinality(Requests) -> Nat]
           /\ \A i \in DOMAIN batch : derived'[i] = PagesFor(SeqLen(i))
<1>0. /\ RefreshTypes /\ Fits /\ KVExact /\ GateInv
      /\ phase = "scheduled" /\ phase # "idle"
  BY DEF RefreshInv, Building
<1>1. /\ derived \in [1 .. Cardinality(Requests) -> Nat]
      /\ Len(batch) \in Nat /\ Len(batch) <= Cardinality(Requests)
      /\ Cardinality(Requests) \in Nat
  BY <1>0, RefreshAssumption, FS_CardinalityType DEF RefreshTypes
<1>2. DOMAIN derived = 1 .. Cardinality(Requests) /\ DOMAIN batch \subseteq DOMAIN derived
  BY <1>0, <1>1, ViewFacts
<1>3. ASSUME NEW i \in DOMAIN derived, i <= Len(View)
      PROVE  /\ View[i].cur \in Nat /\ PagesFor(View[i].cur) \in Nat
             /\ DeriveRows(View)[i] = PagesFor(View[i].cur)
  <2>1. i \in DOMAIN View
    BY <1>0, <1>2, <1>3, ViewFacts
  <2>2. View[i] \in Lengths
    BY <1>0, <2>1, ViewFacts
  <2>3. View[i].cur \in Nat
    BY <2>2, RefreshAssumption DEF Lengths
  <2> QED BY <1>3, <2>3, Pages DEF DeriveRows
<1>4. DeriveRows(View) \in [1 .. Cardinality(Requests) -> Nat]
  BY <1>1, <1>2, <1>3 DEF DeriveRows
<1>5. ASSUME NEW i \in DOMAIN batch
      PROVE  /\ i \in DOMAIN derived /\ i <= Len(View)
             /\ View[i].cur = SeqLen(i) /\ View[i].settled = batch[i].ctx
             /\ batch[i].ctx \in Nat /\ SeqLen(i) = batch[i].ctx + 1
  <2>1. View[i].cur = SeqLen(i) /\ View[i].settled = batch[i].ctx
    BY <1>0, ViewFacts
  <2>2. i <= Len(View)
    BY <1>0, ViewFacts
  <2>3. batch[i].ctx \in Nat /\ SeqLen(i) = batch[i].ctx + 1
    BY <1>0, RowFacts DEF PureDecode
  <2> QED BY <1>2, <2>1, <2>2, <2>3
<1>6. CASE ~ (Steady /\ Crossed = {})
  BY <1>3, <1>4, <1>5, <1>6
<1>7. CASE Steady /\ Crossed = {} /\ AtGate
  BY <1>1, <1>7 DEF AtGate
<1>8. CASE Steady /\ Crossed = {} /\ Moved
  <2>1. SameRows
    BY <1>0, <1>8 DEF GateInv, Gated
  <2>2. \A i \in DOMAIN batch : Advanced(i) /\ (Decoded => DerivedOf)
    BY <1>0, <1>8, <2>1, SteadyBatch
  <2>3. ASSUME NEW i \in DOMAIN batch
        PROVE  /\ i \in DOMAIN snap /\ snap[i].cur = batch[i].ctx
               /\ batch[i].ctx = snap[i].settled + 1 /\ snap[i].cur > 0
    <3>1. i \in DOMAIN snap
      <4>1. snap \in Seq(Lengths)
        BY <1>0 DEF RefreshTypes
      <4> QED BY <1>0, <1>5, <1>8, <4>1, ViewFacts DEF Steady
    <3>2. snap[i].cur \in Nat /\ snap[i].settled \in Nat
      BY <1>0, <3>1, SnapFacts
    <3>3. View[i].cur = snap[i].cur + 1 /\ View[i].settled = snap[i].settled + 1
      BY <2>2 DEF Advanced
    <3> QED BY <1>5, <3>1, <3>2, <3>3
  <2>4. Decoded
    <3> SUFFICES ASSUME NEW i \in DOMAIN snap, snap[i].cur > 0
                 PROVE  snap[i].cur = snap[i].settled + 1
      BY DEF Decoded
    <3>1. i \in DOMAIN batch
      BY <1>0, <1>8, SteadyRow
    <3> QED BY <2>3, <3>1
  <2>5. ASSUME NEW i \in DOMAIN batch
        PROVE  derived[i] = PagesFor(SeqLen(i))
    <3>1. derived[i] = PagesFor(batch[i].ctx)
      BY <1>5, <2>2, <2>3, <2>4 DEF DerivedOf
    <3>2. i \in DOMAIN View
      BY <1>0, ViewFacts
    <3>3. batch[i].ctx % Page # 0
      BY <1>5, <1>8, <2>2, <3>2 DEF Crossed
    <3> QED BY <1>5, <3>1, <3>3, NextToken
  <2> QED BY <1>1, <1>8, <2>5
<1> QED BY <1>0, <1>6, <1>7, <1>8 DEF GateInv

\* A step of the gate: the batch it passed is the batch it knows.
LEMMA RefreshGated ==
    ASSUME RefreshInv, Building, Fence, Gated, MaybeRefresh, NextKnown,
           derived' \in [1 .. Cardinality(Requests) -> Nat],
           PureDecode => \A i \in DOMAIN batch : derived'[i] = PagesFor(SeqLen(i))
    PROVE  RefreshInv'
<1>0. /\ RefreshTypes /\ Fits /\ KVExact /\ TablesApart /\ phase = "scheduled" /\ phase' = "built"
      /\ snap' = View /\ built' = (built \/ ~Steady)
      /\ batch' = batch /\ side' = side /\ work' = work /\ phase # "idle"
  BY DEF RefreshInv, Building, MaybeRefresh, stream
<1>1. known' = Rows
  BY <1>0 DEF NextKnown, Rows
<1>2. RefreshTypes' /\ Fits'
  <2>1. snap' \in Seq(Lengths)
    BY <1>0, ViewFacts
  <2>2. built' \in BOOLEAN
    BY <1>0 DEF RefreshTypes
  <2> QED BY <1>1, <2>1, <2>2, BuildTypes
<1>3. TablesApart' /\ KVExact' /\ Past' /\ Tags'
  BY BuildKeeps
<1>4. Streams'
  BY BuildSame DEF Streams
<1>5. FreshRows'
  <2>1. \A i \in DOMAIN batch : \A p \in 0 .. batch[i].ctx \div Page - 1 :
           Whole(summary[Block(i, p)], Block(i, p))'
    BY GateRebuilds
  <2>2. DecodeRows' \subseteq DOMAIN batch
    BY BuildSame DEF DecodeRows
  <2> QED BY <1>0, <2>1, <2>2 DEF FreshRows
<1>6. Covers'
  BY <1>4, <1>5, BuildCovers
<1>7. AtGate'
  <2>1. snap' = View' /\ known' = Rows' /\ Fence'
    BY <1>0, <1>1, BuildSame
  <2>2. ASSUME NEW i \in DOMAIN batch, NEW p \in 0 .. batch[i].ctx \div Page - 1
        PROVE  Clean(Block(i, p))'
    <3>1. Whole(summary[Block(i, p)], Block(i, p))'
      BY <2>2, GateRebuilds
    <3>2. Block(i, p) \notin Plan
      <4>1. /\ p \in Nat /\ (p + 1) * Page <= len[batch[i].req]
            /\ Block(i, p) = table[batch[i].req][p + 1]
        BY <1>0, <2>2, SettledPages
      <4>2. batch[i].req \in Requests
        BY <1>0, RowFacts
      <4> QED BY <1>0, <4>1, <4>2, CompletedUnplanned
    <3>3. Block(i, p)' = Block(i, p) /\ Armed' = Armed
      BY BuildSame
    <3>4. Block(i, p) \notin Armed
      BY <3>2 DEF Armed
    <3>5. side' = <<>> /\ work' = NoWork
      BY <1>0 DEF Fence
    <3>6. ~ Queued(Block(i, p))'
      BY <3>3, <3>4, <3>5 DEF Queued
    <3> QED BY <3>1, <3>5, <3>6 DEF Clean, NoWork
  <2>3. PureDecode' => \A i \in DOMAIN batch : derived'[i] = PagesFor(SeqLen(i))'
    BY BuildSame
  <2> QED BY <1>0, <2>1, <2>2, <2>3 DEF AtGate
<1>8. GateInv'
  BY <1>0, <1>7 DEF GateInv
<1> QED BY <1>2, <1>3, <1>4, <1>5, <1>6, <1>8 DEF RefreshInv

\* A pure decode: refresh and, if a page count has moved, derive.
LEMMA RefreshBuildDecode ==
    ASSUME RefreshInv, BuildDecode, NextKnown
    PROVE  RefreshInv'
<1>1. /\ phase = "scheduled" /\ PureDecode /\ Fence /\ MaybeRefresh /\ phase' = "built"
      /\ derived' = IF Steady /\ Crossed = {} THEN derived ELSE DeriveRows(View)
      /\ UNCHANGED <<flags, engine, batch, kv, stream>>
  BY DEF BuildDecode
<1>2. Building
  <2>1. RefreshTypes /\ Fits /\ KVExact
    BY DEF RefreshInv
  <2>2. \/ summary' = Rebuilt(FullBlocks)
        \/ Steady /\ summary' = Rebuilt(TailBlocks)
    BY <1>1 DEF MaybeRefresh
  <2>3. RebuildOk
    BY <1>1, <2>1, <2>2, RebuildIsOk
  <2> QED BY <1>1, <2>3 DEF Building
<1>3. /\ derived' \in [1 .. Cardinality(Requests) -> Nat]
      /\ \A i \in DOMAIN batch : derived'[i] = PagesFor(SeqLen(i))
  BY <1>1, <1>2, GateDerives
<1> QED BY <1>1, <1>2, <1>3, RefreshGated DEF Gated

\* A prefill or mixed step.  mem rebuilds what earlier chunks wrote and keeps the
\* gate; fast passes the gate if the step has decode rows, and else does nothing.
LEMMA RefreshBuildPrefill ==
    ASSUME <<"mem", TRUE>> \notin Modes, RefreshInv, BuildPrefill, NextKnown
    PROVE  RefreshInv'
<1>0. /\ RefreshTypes /\ Fits /\ KVExact /\ TablesApart /\ Tags /\ Streams /\ GateInv
  BY DEF RefreshInv
<1>1. /\ phase = "scheduled" /\ ~ PureDecode /\ phase' = "built" /\ derived' = derived
      /\ UNCHANGED <<flags, engine, batch, kv, stream>>
  BY DEF BuildPrefill
<1>2. derived' \in [1 .. Cardinality(Requests) -> Nat]
  BY <1>0, <1>1 DEF RefreshTypes
<1>3. variant \in {"fast", "mem"} /\ overlap \in BOOLEAN /\ (variant = "mem" => ~ overlap)
  <2>1. <<variant, overlap>> \in Modes
    BY <1>0 DEF RefreshTypes
  <2> QED BY <2>1, RefreshAssumption
<1>4. CASE variant # "mem" /\ DecodeRows # {}
  <2>1. Fence /\ MaybeRefresh /\ Gated
    BY <1>3, <1>4 DEF BuildPrefill, Gated
  <2>2. \/ summary' = Rebuilt(FullBlocks)
        \/ Steady /\ summary' = Rebuilt(TailBlocks)
    BY <2>1 DEF MaybeRefresh
  <2>3. RebuildOk
    BY <1>0, <1>1, <2>2, RebuildIsOk
  <2>4. Building
    BY <1>1, <2>3 DEF Building
  <2> QED BY <1>1, <1>2, <2>1, <2>4, RefreshGated
<1>5. CASE variant = "mem" \/ DecodeRows = {}
  <2>1. ~ Gated
    BY <1>1, <1>5 DEF Gated
  <2>2. /\ snap' = snap /\ built' \in BOOLEAN
        /\ summary' = Rebuilt(FullBlocks) \/ summary' = summary
        /\ variant = "mem" => summary' = Rebuilt(FullBlocks)
    BY <1>0, <1>5 DEF BuildPrefill, RefreshPrefill, gate, RefreshTypes
  <2>3. Building
    <3>1. summary \in [Blocks -> [Offsets -> Nat \cup {-1}]]
      BY <1>0 DEF RefreshTypes
    <3>2. RebuildOk
      BY <1>0, <1>1, <2>2, <3>1, RebuildIsOk DEF RebuildOk
    <3> QED BY <1>1, <3>2 DEF Building
  <2>4. known' = known
    <3>1. Running' = Running /\ Rows' = Rows
      BY <2>3, BuildSame
    <3> QED BY <2>1, <3>1, KnownKept
  <2>5. RefreshTypes' /\ Fits'
    <3>1. snap' \in Seq(Lengths)
      BY <1>0, <2>2 DEF RefreshTypes
    <3> QED BY <1>2, <2>2, <2>3, <2>4, <3>1, BuildTypes
  <2>6. TablesApart' /\ KVExact' /\ Past' /\ Tags'
    BY <2>3, BuildKeeps
  <2>7. Streams'
    <3>1. variant = "mem" => Fence
      BY <1>0, <1>3 DEF Streams
    <3> QED BY <1>0, <1>1, <1>5, <2>3, <3>1, BuildSame DEF Streams, flags
  <2>8. FreshRows'
    <3>1. CASE DecodeRows = {}
      BY <2>3, <3>1, BuildSame DEF FreshRows
    <3>2. CASE variant = "mem"
      <4>1. Fence
        BY <1>0, <1>3, <3>2 DEF Streams
      <4>2. ASSUME NEW i \in DOMAIN batch, NEW p \in 0 .. batch[i].ctx \div Page - 1
            PROVE  Whole(summary[Block(i, p)], Block(i, p))'
        <5>1. Block(i, p) \in SettledBlocks
          <6>1. Block(i, p) \in Blocks
            BY <1>0, <1>1, <4>2, SettledPages
          <6> QED BY <6>1 DEF SettledBlocks
        <5>2. Whole(Rebuilt(FullBlocks)[Block(i, p)], Block(i, p))
          BY <1>0, <1>1, <4>1, <5>1, FullFresh
        <5>3. Whole(summary'[Block(i, p)], Block(i, p))
          BY <2>2, <3>2, <5>2
        <5>4. Block(i, p)' = Block(i, p) /\ occ' = occ
          BY <2>3, BuildSame DEF Building, engine
        <5> QED BY <5>3, <5>4 DEF Whole
      <4>3. DecodeRows' \subseteq DOMAIN batch /\ batch' = batch
        BY <1>1, <2>3, BuildSame DEF DecodeRows
      <4> QED BY <4>2, <4>3 DEF FreshRows
    <3> QED BY <1>5, <3>1, <3>2
  <2>9. Covers'
    BY <2>3, <2>7, <2>8, BuildCovers
  <2>10. GateInv'
    <3>1. PICK f \in Injection(known, DOMAIN snap) :
        /\ \A r \in known :
             /\ snap[f[r]].cur > 0 /\ len[r] > snap[f[r]].settled
             /\ \A p \in 0 .. snap[f[r]].settled \div Page - 1 : Clean(table[r][p + 1])
        /\ \/ Decoded => DerivedOf
           \/ \A r \in known : len[r] > snap[f[r]].settled + 1
      BY <1>0, <1>1 DEF GateInv, AtGate, Moved
    <3>2. ASSUME NEW r \in known, NEW p \in 0 .. snap[f[r]].settled \div Page - 1
          PROVE  Clean(table[r][p + 1])'
      <4> DEFINE b == table[r][p + 1]
      <4>1. f[r] \in DOMAIN snap
        BY DEF Injection
      <4>2. snap[f[r]].settled \in Nat
        BY <1>0, <4>1, SnapFacts
      <4>3. r \in Requests /\ p \in Nat /\ (p + 1) * Page <= len[r] /\ b \in Blocks
        BY <1>0, <3>1, <4>2, KnownPages
      <4>4. Clean(b)
        BY <3>1
      <4>5. b \notin Armed
        BY <1>0, <1>1, <4>3, CompletedUnplanned DEF Armed
      <4>6. b' = b /\ side' = side /\ work' = work /\ occ' = occ
        BY <1>1 DEF engine, stream
      <4>7. ~ Queued(b)'
        BY <2>3, <4>4, <4>5, <4>6, BuildSame DEF Queued, Clean
      <4>8. Whole(summary'[b], b)
        <5>1. \/ summary'[b] = summary[b]
              \/ summary'[b] = kv[b] /\ Whole(kv[b], b)
          BY <2>3, <4>3 DEF Building, RebuildOk
        <5> QED BY <4>4, <5>1 DEF Clean
      <4> HIDE DEF b
      <4>9. Clean(b)'
        BY <4>4, <4>6, <4>7, <4>8 DEF Clean, Whole
      <4> QED BY <4>9 DEF b
    <3>3. Decoded' = Decoded /\ DerivedOf' = DerivedOf
      BY <1>1, <2>2 DEF Decoded, DerivedOf
    <3>4. Moved'
      BY <1>1, <2>2, <2>4, <3>1, <3>2, <3>3 DEF Moved, engine
    <3>5. Gated' = Gated
      BY <1>1, <2>3, BuildSame DEF Gated, flags
    <3> QED BY <1>1, <2>1, <3>4, <3>5 DEF GateInv
  <2> QED BY <2>5, <2>6, <2>7, <2>8, <2>9, <2>10 DEF RefreshInv
<1> QED BY <1>4, <1>5

\* Among the members of a finite set of numbers there is one of every rank.
LEMMA RankedMember ==
    ASSUME NEW D \in SUBSET Nat, IsFiniteSet(D), NEW k \in 1 .. Cardinality(D)
    PROVE  \E i \in D : Cardinality({j \in D : j <= i}) = k
<1> DEFINE upto(i) == {j \in D : j <= i}
           n == Cardinality(D)
           rank == [i \in D |-> Cardinality(upto(i))]
<1>1. n \in Nat
  BY FS_CardinalityType
<1>2. ASSUME NEW i \in D
      PROVE  /\ IsFiniteSet(upto(i)) /\ Cardinality(upto(i)) \in Nat
             /\ Cardinality(upto(i)) <= n /\ i \in upto(i) /\ Cardinality(upto(i)) # 0
  <2>1. upto(i) \subseteq D /\ i \in upto(i)
    OBVIOUS
  <2>2. IsFiniteSet(upto(i)) /\ Cardinality(upto(i)) <= n
    BY <2>1, FS_Subset
  <2> HIDE DEF upto, n
  <2>3. Cardinality(upto(i)) \in Nat /\ (Cardinality(upto(i)) = 0 <=> upto(i) = {})
    BY <2>2, FS_CardinalityType, FS_EmptySet
  <2> QED BY <2>1, <2>2, <2>3
<1>3. ASSUME NEW i \in D, NEW l \in D, i < l
      PROVE  Cardinality(upto(i)) # Cardinality(upto(l))
  <2>1. upto(i) \subseteq upto(l)
    <3>1. \A j \in D : j <= i => j <= l
      BY <1>3
    <3> QED BY <3>1
  <2>2. l \in upto(l) /\ l \notin upto(i)
    BY <1>3
  <2>3. IsFiniteSet(upto(l))
    BY <1>2
  <2> HIDE DEF upto
  <2> QED BY <2>1, <2>2, <2>3, FS_Subset
<1>4. rank \in [D -> 1 .. n]
  <2> HIDE DEF upto, n
  <2>1. \A i \in D : Cardinality(upto(i)) \in 1 .. n
    BY <1>1, <1>2
  <2> QED BY <2>1
<1>5. \A i, l \in D : rank[i] = rank[l] => i = l
  <2> TAKE i \in D, l \in D
  <2>1. i \in Nat /\ l \in Nat
    OBVIOUS
  <2>2. rank[i] = Cardinality(upto(i)) /\ rank[l] = Cardinality(upto(l))
    OBVIOUS
  <2> HIDE DEF upto, rank
  <2>3. i < l \/ l < i \/ i = l
    BY <2>1
  <2> QED BY <1>3, <2>2, <2>3
<1>6. rank \in Surjection(D, 1 .. n)
  <2>1. rank \in Injection(D, 1 .. n)
    <3> HIDE DEF rank, n
    <3> QED BY <1>4, <1>5 DEF Injection, IsInjective
  <2>2. IsFiniteSet(1 .. n) /\ Cardinality(1 .. n) = n
    <3> HIDE DEF n
    <3>1. 1 \in Int /\ n \in Int
      BY <1>1
    <3>2. IsFiniteSet(1 .. n) /\ Cardinality(1 .. n) = IF 1 > n THEN 0 ELSE n - 1 + 1
      BY <3>1, FS_Interval
    <3> QED BY <1>1, <3>2
  <2> HIDE DEF rank
  <2> QED BY <2>1, <2>2, FS_Injection
<1>7. \E i \in D : rank[i] = k
  <2> HIDE DEF rank
  <2> QED BY <1>6 DEF Surjection
<1> QED BY <1>7

\* A mixed step leaves page counts in the parameters, of its decode rows compacted.
LEMMA CompactedDerives ==
    ASSUME RefreshTypes, Fits, phase = "built"
    PROVE  DeriveRows(Compacted) \in [1 .. Cardinality(Requests) -> Nat]
<1>1. DOMAIN batch = 1 .. Len(batch) /\ Len(batch) \in Nat
  BY ViewFacts
<1>2. DecodeRows \in SUBSET Nat /\ DecodeRows \subseteq 1 .. Len(batch)
  BY <1>1 DEF DecodeRows
<1>3. IsFiniteSet(DecodeRows)
  <2>1. IsFiniteSet(1 .. Len(batch))
    BY <1>1, FS_Interval
  <2> QED BY <1>2, <2>1, FS_Subset
<1> DEFINE n == Cardinality(DecodeRows)
           nth(k) == CHOOSE i \in DecodeRows : Cardinality({j \in DecodeRows : j <= i}) = k
<1>4. n \in Nat
  BY <1>3, FS_CardinalityType
<1>5. ASSUME NEW k \in 1 .. n PROVE nth(k) \in DecodeRows
  BY <1>2, <1>3, RankedMember
<1>6. ASSUME NEW k \in 1 .. n PROVE SeqLen(nth(k)) \in Nat
  <2>1. nth(k) \in DOMAIN batch
    BY <1>5 DEF DecodeRows
  <2> QED BY <2>1, RowFacts
<1>7. Compacted = [k \in 1 .. n |-> [cur |-> SeqLen(nth(k))]]
  BY DEF Compacted
<1>8. Len(Compacted) = n
  <2> HIDE DEF n, nth
  <2>1. Compacted \in [1 .. n -> {[cur |-> SeqLen(nth(k))] : k \in 1 .. n}]
    BY <1>7
  <2>2. Compacted \in Seq({[cur |-> SeqLen(nth(k))] : k \in 1 .. n})
    BY <1>4, <2>1
  <2>3. DOMAIN Compacted = 1 .. n
    BY <1>7
  <2> QED BY <1>4, <2>2, <2>3
<1>9. \A k \in 1 .. n : PagesFor(Compacted[k].cur) \in Nat
  <2> HIDE DEF n, nth
  <2> QED BY <1>6, <1>7, Pages
<1>10. derived \in [1 .. Cardinality(Requests) -> Nat] /\ Cardinality(Requests) \in Nat
  BY RefreshAssumption, FS_CardinalityType DEF RefreshTypes
<1> HIDE DEF n
<1>11. \A i \in 1 .. Cardinality(Requests) : i <= Len(Compacted) => i \in 1 .. n
  BY <1>4, <1>8, <1>10
<1> QED BY <1>9, <1>10, <1>11 DEF DeriveRows

\* What a forward does, discarded or not: it writes K, and queues the pages it
\* completes.
LEMMA ForwardKeeps ==
    ASSUME RefreshInv, NEW discard \in BOOLEAN, Forward(discard), NextKnown
    PROVE  /\ \A b : Queued(b)' <=> Queued(b)
           /\ \A b : Clean(b)' <=> Clean(b)
           /\ known' = known /\ phase' # "built"
           /\ kv' \in [Blocks -> [Offsets -> Nat]] /\ side' \in Seq(SUBSET Blocks)
           /\ built' \in BOOLEAN /\ derived' \in [1 .. Cardinality(Requests) -> Nat]
           /\ TablesApart' /\ Past' /\ Tags' /\ Streams' /\ FreshRows'
           /\ \A b \in Blocks, o \in Offsets : kv'[b][o] = IF Written(b, o) THEN occ[b] ELSE kv[b][o]
           /\ \A b \in Armed : \E k \in DOMAIN side' : b \in side'[k]
           /\ \A b : (\E k \in DOMAIN side : b \in side[k]) => \E k \in DOMAIN side' : b \in side'[k]
           /\ \A b : (\E k \in DOMAIN side' : b \in side'[k])
                       => b \in Armed \/ \E k \in DOMAIN side : b \in side[k]
<1> USE DEF flags
<1>0. /\ RefreshTypes /\ TablesApart /\ Fits /\ KVExact /\ Past /\ Tags /\ Streams /\ GateInv
  BY DEF RefreshInv
<1>1. /\ phase = "built" /\ phase' # "built" /\ phase # "idle"
      /\ kv' = [b \in Blocks |-> NewK(b)]
      /\ side' = IF Armed = {} THEN side ELSE Append(side, Armed)
      /\ built' = (built \/ Armed # {})
      /\ derived' = IF PureDecode THEN derived ELSE DeriveRows(Compacted)
      /\ UNCHANGED <<flags, partial, table, occ, summary, snap, work>>
  BY DEF Forward
<1>2. Armed \in SUBSET Blocks
  BY DEF Armed, Plan
<1>3. side \in Seq(SUBSET Blocks) /\ Len(side) \in Nat /\ DOMAIN side = 1 .. Len(side)
  BY <1>0 DEF RefreshTypes
<1>4. /\ side' \in Seq(SUBSET Blocks)
      /\ \A b \in Armed : \E k \in DOMAIN side' : b \in side'[k]
      /\ \A b : (\E k \in DOMAIN side : b \in side[k]) => \E k \in DOMAIN side' : b \in side'[k]
      /\ \A b : (\E k \in DOMAIN side' : b \in side'[k])
                  => b \in Armed \/ \E k \in DOMAIN side : b \in side[k]
  <2>1. CASE Armed = {}
    BY <1>1, <1>3, <2>1
  <2>2. CASE Armed # {}
    <3>1. side' = Append(side, Armed)
      BY <1>1, <2>2
    <3>2. /\ side' \in Seq(SUBSET Blocks) /\ DOMAIN side' = 1 .. Len(side) + 1
          /\ side'[Len(side) + 1] = Armed
          /\ \A k \in 1 .. Len(side) : side'[k] = side[k]
      BY <1>2, <1>3, <3>1
    <3>3. \A k \in 1 .. Len(side) + 1 : k \in 1 .. Len(side) \/ k = Len(side) + 1
      BY <1>3
    <3>4. Len(side) + 1 \in 1 .. Len(side) + 1 /\ 1 .. Len(side) \subseteq 1 .. Len(side) + 1
      BY <1>3
    <3> HIDE DEF Armed
    <3> QED BY <1>3, <3>2, <3>3, <3>4
  <2> QED BY <2>1, <2>2
<1>5. \A b : Queued(b)' <=> Queued(b)
  BY <1>1, <1>4 DEF Queued
<1>6. \A b : Clean(b)' <=> Clean(b)
  BY <1>1, <1>5 DEF Clean, Whole
<1>7. \A b \in Blocks, o \in Offsets : kv'[b][o] = IF Written(b, o) THEN occ[b] ELSE kv[b][o]
  BY <1>1 DEF NewK
<1>8. ASSUME NEW b \in Blocks
      PROVE  /\ kv'[b] = NewK(b) /\ NewK(b) \in [Offsets -> Nat] /\ occ[b] \in Nat
             /\ \A o \in Offsets : kv[b][o] \in Nat /\ kv[b][o] <= occ[b]
  <2>1. occ[b] \in Nat /\ \A o \in Offsets : kv[b][o] \in Nat
    BY <1>0 DEF RefreshTypes
  <2>2. NewK(b) \in [Offsets -> Nat]
    BY <2>1 DEF NewK
  <2> QED BY <1>0, <1>1, <2>1, <2>2 DEF Past
<1>9. kv' \in [Blocks -> [Offsets -> Nat]]
  BY <1>1, <1>8
<1>10. derived' \in [1 .. Cardinality(Requests) -> Nat] /\ built' \in BOOLEAN
  <2>1. derived \in [1 .. Cardinality(Requests) -> Nat] /\ built \in BOOLEAN
    BY <1>0 DEF RefreshTypes
  <2> QED BY <1>0, <1>1, <2>1, CompactedDerives
<1>11. TablesApart'
  BY <1>0, <1>1 DEF TablesApart
<1>12. Past'
  <2>1. \A b \in Blocks, o \in Offsets : kv'[b][o] <= occ[b]
    BY <1>7, <1>8
  <2> QED BY <1>0, <1>1, <2>1 DEF Past
<1>13. Tags'
  <2> SUFFICES ASSUME NEW b \in Blocks
               PROVE  /\ Tagged(kv'[b], b) => Whole(kv'[b], b)
                      /\ b \in DOMAIN work /\ Tagged(work[b], b) =>
                           Whole(work[b], b) \/ Queued(b)
                      /\ Tagged(summary[b], b) =>
                           Whole(summary[b], b) \/ b \in DOMAIN work \/ Queued(b)
    BY <1>1, <1>5 DEF Tags, Tagged, Whole
  <2>1. Tagged(kv'[b], b) => Whole(kv'[b], b)
    BY <1>0, <1>1, <1>8, NewKWhole
  <2> QED BY <1>0, <2>1 DEF Tags
<1>14. Streams' /\ FreshRows'
  <2>1. ~ overlap => Armed = {}
    BY DEF Armed
  <2>2. Streams'
    BY <1>0, <1>1, <2>1 DEF Streams, Fence, NoWork, Never
  <2> QED BY <1>1, <2>2 DEF FreshRows
<1>15. known' = known
  <2>1. Running \cup Rows \subseteq Running' \cup Rows'
    <3>1. CASE discard
      <4>1. len' = len /\ batch' = batch
        BY <3>1 DEF Forward
      <4> QED BY <4>1 DEF Running, Rows
    <3>2. CASE ~ discard
      <4>1. \A r \in Requests : len'[r] = IF \E i \in DOMAIN batch : batch[i].req = r
                         THEN SeqLen(CHOOSE i \in DOMAIN batch : batch[i].req = r)
                         ELSE len[r]
        BY <3>2 DEF Forward
      <4>2. Rows \subseteq Running'
        <5> SUFFICES ASSUME NEW i \in DOMAIN batch PROVE batch[i].req \in Running'
          BY DEF Rows
        <5>1. i = CHOOSE j \in DOMAIN batch : batch[j].req = batch[i].req
          BY <1>0, <1>1 DEF Fits
        <5>2. len'[batch[i].req] = SeqLen(i) /\ batch[i].req \in Requests
          BY <1>0, <4>1, <5>1, RowFacts
        <5>3. SeqLen(i) > 0
          <6>1. batch[i].ctx \in Nat /\ SeqLen(i) \in Nat /\ batch[i].ctx < SeqLen(i)
            BY <1>0, RowFacts
          <6> QED BY <6>1
        <5> QED BY <5>2, <5>3 DEF Running
      <4>3. Running \subseteq Rows
        BY <1>0, <1>1 DEF Fits
      <4> QED BY <4>2, <4>3
    <3> QED BY <3>1, <3>2
  <2> QED BY <1>1, <2>1, KnownKept
<1> QED BY <1>1, <1>4, <1>5, <1>6, <1>7, <1>9, <1>10, <1>11, <1>12, <1>13, <1>14, <1>15

\* A drain step is replayed: its gate has passed and stays passed.
LEMMA RefreshDrain ==
    ASSUME RefreshInv, Forward(TRUE), NextKnown
    PROVE  RefreshInv'
<1> USE DEF flags
<1>0. /\ RefreshTypes /\ Fits /\ KVExact /\ Streams /\ GateInv /\ Covers
  BY DEF RefreshInv
<1>1. /\ phase = "built" /\ PureDecode /\ phase' = "scheduled" /\ phase # "idle"
      /\ len' = len /\ batch' = batch /\ derived' = derived
      /\ side' = side
      /\ UNCHANGED <<flags, partial, table, occ, summary, snap, work>>
  BY DEF Forward, Armed
<1>2. /\ \A b : Clean(b)' <=> Clean(b)
      /\ known' = known
      /\ kv' \in [Blocks -> [Offsets -> Nat]] /\ side' \in Seq(SUBSET Blocks)
      /\ built' \in BOOLEAN /\ derived' \in [1 .. Cardinality(Requests) -> Nat]
      /\ TablesApart' /\ Past' /\ Tags' /\ Streams' /\ FreshRows'
      /\ \A b \in Blocks, o \in Offsets : kv'[b][o] = IF Written(b, o) THEN occ[b] ELSE kv[b][o]
  BY ForwardKeeps
<1>3. RefreshTypes'
  BY <1>0, <1>1, <1>2 DEF RefreshTypes
<1>4. /\ Rows' = Rows /\ Running' = Running /\ PureDecode' = PureDecode /\ View' = View
      /\ Fence' = Fence /\ \A i, p : Block(i, p)' = Block(i, p) /\ SeqLen(i)' = SeqLen(i)
  BY <1>1 DEF Rows, Running, PureDecode, View, Padded, Fence, NoWork, Never, Block, SeqLen
<1>5. Fits'
  BY <1>0, <1>1, <1>2, <1>4 DEF Fits, Sliver
<1>6. KVExact'
  <2> SUFFICES ASSUME NEW r \in Requests, NEW n \in Nat, n < len[r]
               PROVE  kv'[table[r][n \div Page + 1]][n % Page] = occ[table[r][n \div Page + 1]]
    BY <1>1 DEF KVExact
  <2>1. kv[table[r][n \div Page + 1]][n % Page] = occ[table[r][n \div Page + 1]]
    BY <1>0 DEF KVExact
  <2>2. table[r][n \div Page + 1] \in Blocks /\ n % Page \in Offsets
    BY <1>0, TokenPage
  <2> QED BY <1>2, <2>1, <2>2
<1>7. AtGate'
  <2>1. AtGate
    BY <1>0, <1>1 DEF GateInv, Gated
  <2> QED BY <1>1, <1>2, <1>4, <2>1 DEF AtGate
<1>8. GateInv'
  <2>1. SameRows'
    BY <1>1, <1>4, <1>7 DEF AtGate, SameRows, Rows
  <2> QED BY <1>1, <1>7, <2>1 DEF GateInv
<1>9. Covers'
  <2> SUFFICES ASSUME overlap, NEW r \in Requests, NEW p \in Nat, (p + 1) * Page <= len[r]
               PROVE  Settles(table[r][p + 1])'
    BY <1>1 DEF Covers
  <2>1. Settles(table[r][p + 1])
    BY <1>0, <1>1 DEF Covers, Due
  <2> QED BY <1>1, <2>1 DEF Settles, Whole
<1> QED BY <1>2, <1>3, <1>5, <1>6, <1>8, <1>9 DEF RefreshInv

\* A step ends: its requests have moved on from the gate, and the pages they have
\* completed are queued, or are the last of a row that decoded.
LEMMA RefreshForward ==
    ASSUME RefreshInv, Forward(FALSE), NextKnown
    PROVE  RefreshInv'
<1> USE DEF flags
<1>0. /\ RefreshTypes /\ Fits /\ KVExact /\ TablesApart /\ Streams /\ GateInv /\ Covers
  BY DEF RefreshInv
<1>1. /\ phase = "built" /\ phase' = "idle" /\ phase # "idle" /\ batch' = <<>>
      /\ derived' = IF PureDecode THEN derived ELSE DeriveRows(Compacted)
      /\ UNCHANGED <<flags, partial, table, occ, summary, snap, work>>
      /\ len' = [r \in Requests |->
                         IF \E i \in DOMAIN batch : batch[i].req = r
                         THEN SeqLen(CHOOSE i \in DOMAIN batch : batch[i].req = r)
                         ELSE len[r]]
  BY DEF Forward
<1>2. /\ \A b : Clean(b)' <=> Clean(b)
      /\ known' = known
      /\ kv' \in [Blocks -> [Offsets -> Nat]] /\ side' \in Seq(SUBSET Blocks)
      /\ built' \in BOOLEAN /\ derived' \in [1 .. Cardinality(Requests) -> Nat]
      /\ TablesApart' /\ Past' /\ Tags' /\ Streams' /\ FreshRows'
      /\ \A b \in Blocks, o \in Offsets : kv'[b][o] = IF Written(b, o) THEN occ[b] ELSE kv[b][o]
      /\ \A b \in Armed : \E k \in DOMAIN side' : b \in side'[k]
      /\ \A b : (\E k \in DOMAIN side : b \in side[k]) => \E k \in DOMAIN side' : b \in side'[k]
      /\ \A b : (\E k \in DOMAIN side' : b \in side'[k])
                  => b \in Armed \/ \E k \in DOMAIN side : b \in side[k]
  BY ForwardKeeps
<1>3. ASSUME NEW i \in DOMAIN batch
      PROVE  /\ batch[i].req \in Requests /\ len'[batch[i].req] = SeqLen(i)
             /\ len[batch[i].req] = batch[i].ctx /\ batch[i].ctx \in Nat
             /\ SeqLen(i) \in Nat /\ batch[i].ctx < SeqLen(i) /\ SeqLen(i) <= MaxLen
             /\ PagesFor(SeqLen(i)) <= Len(table[batch[i].req])
  <2>1. i = CHOOSE j \in DOMAIN batch : batch[j].req = batch[i].req
    BY <1>0, <1>1 DEF Fits
  <2>2. batch[i].req \in Requests /\ len'[batch[i].req] = SeqLen(i)
    BY <1>0, <1>1, <2>1, RowFacts
  <2> QED BY <1>0, <1>1, <2>2, RowFacts DEF Fits
<1>4. ASSUME NEW r \in Requests, r \notin Rows
      PROVE  len'[r] = len[r]
  BY <1>1, <1>4 DEF Rows
<1>5. ASSUME NEW r \in Rows
      PROVE  \E i \in DOMAIN batch : batch[i].req = r
  BY DEF Rows
<1>6. RefreshTypes'
  <2>1. len' \in [Requests -> 0 .. MaxLen]
    <3>1. \A r \in Requests : len'[r] \in 0 .. MaxLen
      <4> TAKE r \in Requests
      <4>1. CASE r \in Rows
        <5>1. PICK i \in DOMAIN batch : batch[i].req = r
          BY <1>5, <4>1
        <5> QED BY <1>3, <5>1, RefreshAssumption
      <4>2. CASE r \notin Rows
        BY <1>0, <1>4, <4>2 DEF RefreshTypes
      <4> QED BY <4>1, <4>2
    <3> QED BY <1>1, <3>1
  <2>2. Cardinality(Requests) \in Nat
    BY RefreshAssumption, FS_CardinalityType
  <2>3. batch' \in Seq(Row) /\ Len(batch') <= Cardinality(Requests)
    BY <1>1, <2>2
  <2> QED BY <1>0, <1>1, <1>2, <2>1, <2>3 DEF RefreshTypes
<1>7. Fits'
  <2>1. \A r \in Requests : PagesFor(len'[r]) <= Len(table'[r])
    <3> TAKE r \in Requests
    <3>1. CASE r \in Rows
      <4>1. PICK i \in DOMAIN batch : batch[i].req = r
        BY <1>5, <3>1
      <4> QED BY <1>1, <1>3, <4>1
    <3>2. CASE r \notin Rows
      BY <1>0, <1>1, <1>4, <3>2 DEF Fits
    <3> QED BY <3>1, <3>2
  <2>2. known' \subseteq Running'
    <3>1. Rows \subseteq Running'
      <4> SUFFICES ASSUME NEW r \in Rows PROVE r \in Running'
        OBVIOUS
      <4>1. PICK i \in DOMAIN batch : batch[i].req = r
        BY <1>5
      <4>2. SeqLen(i) > 0
        BY <1>3
      <4> QED BY <1>3, <4>1, <4>2 DEF Running
    <3>2. known \subseteq Running \cup Rows /\ Running \subseteq Rows
      BY <1>0, <1>1 DEF Fits
    <3> QED BY <1>2, <3>1, <3>2
  <2> QED BY <1>1, <2>1, <2>2 DEF Fits
<1>8. KVExact'
  <2> SUFFICES ASSUME NEW r \in Requests, NEW n \in Nat, n < len'[r]
               PROVE  kv'[table[r][n \div Page + 1]][n % Page] = occ[table[r][n \div Page + 1]]
    BY <1>1 DEF KVExact
  <2>1. CASE n < len[r]
    <3>1. kv[table[r][n \div Page + 1]][n % Page] = occ[table[r][n \div Page + 1]]
      BY <1>0, <2>1 DEF KVExact
    <3>2. table[r][n \div Page + 1] \in Blocks /\ n % Page \in Offsets
      BY <1>0, <2>1, TokenPage
    <3> QED BY <1>2, <3>1, <3>2
  <2>2. CASE ~ (n < len[r])
    <3>1. r \in Rows
      BY <1>4, <2>2
    <3>2. PICK i \in DOMAIN batch : batch[i].req = r
      BY <1>5, <3>1
    <3>3. n \in batch[i].ctx .. SeqLen(i) - 1 /\ n < SeqLen(i) /\ SeqLen(i) \in Nat
      BY <1>3, <2>2, <3>2
    <3>4. n \div Page \in Nat /\ n \div Page < PagesFor(SeqLen(i)) /\ n % Page \in Offsets
      <4>1. n \div Page \in Nat /\ n % Page \in Offsets
        BY Pages
      <4>2. n \div Page + 1 <= PagesFor(SeqLen(i)) /\ PagesFor(SeqLen(i)) \in Nat
        BY <3>3, Pages
      <4> QED BY <4>1, <4>2
    <3>5. /\ Block(i, n \div Page) = table[r][n \div Page + 1]
          /\ Block(i, n \div Page) \in Blocks
      BY <1>0, <1>1, <3>2, <3>4, RowPages
    <3>6. Written(Block(i, n \div Page), n % Page)
      BY <3>3 DEF Written
    <3> QED BY <1>2, <3>4, <3>5, <3>6
  <2> QED BY <2>1, <2>2
<1>9. Moved'
  <2>1. Decoded' = Decoded
    BY <1>1 DEF Decoded
  <2>2. CASE AtGate
    <3> DEFINE row(r) == CHOOSE i \in DOMAIN batch : batch[i].req = r
               f == [r \in known |-> row(r)]
    <3>1. known = Rows /\ snap = View
      BY <2>2 DEF AtGate
    <3>2. DOMAIN batch \subseteq DOMAIN snap
      BY <1>0, <1>1, <3>1, ViewFacts
    <3>3. ASSUME NEW r \in known
          PROVE  f[r] \in DOMAIN batch /\ batch[f[r]].req = r
      <4>1. \E i \in DOMAIN batch : batch[i].req = r
        BY <1>5, <3>1
      <4> QED BY <4>1
    <3> HIDE DEF f, row
    <3>4. f \in Injection(known, DOMAIN snap)
      <4>1. f \in [known -> DOMAIN snap]
        BY <3>2, <3>3 DEF f
      <4>2. \A r, t \in known : f[r] = f[t] => r = t
        BY <3>3
      <4> QED BY <4>1, <4>2 DEF Injection, IsInjective
    <3>5. ASSUME NEW i \in DOMAIN batch
          PROVE  snap[i].cur = SeqLen(i) /\ snap[i].settled = batch[i].ctx
      BY <1>0, <1>1, <3>1, ViewFacts
    <3>6. ASSUME NEW r \in known
          PROVE  /\ snap[f[r]].cur > 0 /\ len'[r] > snap[f[r]].settled
                 /\ \A p \in 0 .. snap[f[r]].settled \div Page - 1 : Clean(table[r][p + 1])'
      <4>1. f[r] \in DOMAIN batch /\ batch[f[r]].req = r
        BY <3>3
      <4>2. snap[f[r]].cur = SeqLen(f[r]) /\ snap[f[r]].settled = batch[f[r]].ctx
        BY <3>5, <4>1
      <4>3. SeqLen(f[r]) \in Nat /\ batch[f[r]].ctx \in Nat /\ batch[f[r]].ctx < SeqLen(f[r])
            /\ len'[r] = SeqLen(f[r])
        BY <1>3, <4>1
      <4>4. snap[f[r]].cur > 0 /\ len'[r] > snap[f[r]].settled
        BY <4>2, <4>3
      <4>5. ASSUME NEW p \in 0 .. snap[f[r]].settled \div Page - 1
            PROVE  Clean(table[r][p + 1])'
        <5>1. Clean(Block(f[r], p))
          BY <2>2, <4>1, <4>2 DEF AtGate
        <5>2. Clean(table[r][p + 1])
          BY <4>1, <5>1 DEF Block
        <5>3. (table[r][p + 1])' = table[r][p + 1]
          BY <1>1
        <5> QED BY <1>2, <5>2, <5>3
      <4> QED BY <4>4, <4>5
    <3>7. Decoded => DerivedOf'
      <4>1. CASE PureDecode
        <5> SUFFICES ASSUME NEW i \in DOMAIN snap \cap DOMAIN derived, snap[i].cur > 0
                     PROVE  derived[i] = PagesFor(snap[i].cur)
          BY <1>1, <4>1 DEF DerivedOf
        <5>1. i \in DOMAIN batch
          <6>1. View[i].cur > 0 /\ i \in DOMAIN View /\ i \in Nat
            BY <1>0, <1>1, <3>1, ViewFacts
          <6>2. ~ (i > Len(batch))
            BY <1>0, <1>1, <6>1, ViewFacts
          <6> QED BY <1>0, <1>1, <6>1, <6>2, ViewFacts
        <5> QED BY <2>2, <3>5, <4>1, <5>1 DEF AtGate
      <4>2. CASE ~ PureDecode
        <5>1. PICK i \in DOMAIN batch : batch[i].q # 1
          BY <4>2 DEF PureDecode
        <5>2. SeqLen(i) = batch[i].ctx + batch[i].q /\ batch[i].q \in Nat \ {0}
              /\ batch[i].ctx \in Nat
          BY <1>0, RowFacts
        <5>3. snap[i].cur > 0 /\ snap[i].cur # snap[i].settled + 1
          BY <3>5, <5>1, <5>2
        <5>4. ~ Decoded
          BY <3>2, <5>3 DEF Decoded
        <5> QED BY <5>4
      <4> QED BY <4>1, <4>2
    <3> QED BY <1>1, <1>2, <2>1, <3>4, <3>6, <3>7 DEF Moved
  <2>3. CASE Moved /\ ~ AtGate
    <3>1. PICK f \in Injection(known, DOMAIN snap) :
        /\ \A r \in known :
             /\ snap[f[r]].cur > 0 /\ len[r] > snap[f[r]].settled
             /\ \A p \in 0 .. snap[f[r]].settled \div Page - 1 : Clean(table[r][p + 1])
        /\ \/ Decoded => DerivedOf
           \/ \A r \in known : len[r] > snap[f[r]].settled + 1
      BY <2>3 DEF Moved
    <3>2. known \subseteq Rows
      BY <1>0, <1>1 DEF Fits
    <3>3. ASSUME NEW r \in known
          PROVE  /\ snap[f[r]].cur > 0 /\ len'[r] > snap[f[r]].settled
                 /\ len'[r] > snap[f[r]].settled + 1
                 /\ \A p \in 0 .. snap[f[r]].settled \div Page - 1 : Clean(table[r][p + 1])'
      <4>1. PICK i \in DOMAIN batch : batch[i].req = r
        BY <1>5, <3>2
      <4>2. len'[r] = SeqLen(i) /\ len[r] \in Nat /\ SeqLen(i) \in Nat /\ len[r] < SeqLen(i)
        BY <1>3, <4>1
      <4>3. snap[f[r]].settled \in Nat
        <5>1. f[r] \in DOMAIN snap
          BY DEF Injection
        <5> QED BY <1>0, <5>1, SnapFacts
      <4>4. len'[r] > snap[f[r]].settled /\ len'[r] > snap[f[r]].settled + 1
        BY <3>1, <4>2, <4>3
      <4>5. \A p : (table[r][p + 1])' = table[r][p + 1]
        BY <1>1
      <4> QED BY <1>2, <3>1, <4>4, <4>5
    <3> QED BY <1>1, <1>2, <3>1, <3>3 DEF Moved
  <2> QED BY <1>0, <2>2, <2>3 DEF GateInv
<1>10. GateInv'
  BY <1>1, <1>9 DEF GateInv
<1>11. Covers'
  <2> SUFFICES ASSUME overlap, NEW r \in Requests, NEW p \in Nat, (p + 1) * Page <= len'[r]
               PROVE  Settles(table[r][p + 1])' \/ Due(r, p)'
    BY <1>1 DEF Covers
  <2> DEFINE b == table[r][p + 1]
  <2>1. b' = b
    BY <1>1
  <2>2. ASSUME b \in Armed PROVE Settles(b)'
    <3>1. \E k \in DOMAIN side' : b \in side'[k]
      BY <1>2, <2>2
    <3> HIDE DEF b
    <3> QED BY <2>1, <3>1 DEF Settles
  <2>3. CASE (p + 1) * Page <= len[r]
    <3>1. Settles(b)
      BY <1>0, <1>1, <2>3 DEF Covers, Due
    <3>2. CASE b \in Armed
      BY <2>2, <3>2
    <3>3. CASE b \notin Armed
      <4>1. (\E k \in DOMAIN side' : b \in side'[k]) <=> \E k \in DOMAIN side : b \in side[k]
        BY <1>2, <3>3
      <4>2. Settles(b)'
        <5> HIDE DEF b
        <5> QED BY <1>1, <2>1, <3>1, <4>1 DEF Settles, Whole
      <4> QED BY <4>2
    <3> QED BY <3>2, <3>3
  <2>4. CASE ~ ((p + 1) * Page <= len[r])
    <3>1. r \in Rows
      BY <1>4, <2>4
    <3>2. PICK i \in DOMAIN batch : batch[i].req = r
      BY <1>5, <3>1
    <3>3. /\ len'[r] = SeqLen(i) /\ len[r] = batch[i].ctx
          /\ batch[i].ctx \in Nat /\ SeqLen(i) \in Nat
      BY <1>3, <3>2
    <3>4. (p + 1) * Page \in Nat
      BY RefreshAssumption
    <3>5. CASE PureDecode
      <4>1. SeqLen(i) = batch[i].ctx + 1
        BY <1>0, <3>5, RowFacts DEF PureDecode
      <4>2. len'[r] = (p + 1) * Page
        BY <2>4, <3>3, <3>4, <4>1
      <4>3. partial' = {}
        BY <1>0, <1>1, <3>5 DEF Fits, Sliver
      <4> QED BY <1>1, <4>2, <4>3 DEF Due
    <3>6. CASE ~ PureDecode
      <4>1. p < SeqLen(i) \div Page /\ SeqLen(i) \div Page \in Nat
        BY <3>3, Pages
      <4>2. ~ (p < batch[i].ctx \div Page) /\ batch[i].ctx \div Page \in Nat
        BY <2>4, <3>3, Pages
      <4>3. p \in batch[i].ctx \div Page .. SeqLen(i) \div Page - 1
        BY <4>1, <4>2
      <4>4. b = Block(i, p)
        BY <3>2 DEF Block
      <4>5. b \in Blocks
        <5>1. p < PagesFor(SeqLen(i))
          <6>1. SeqLen(i) \div Page <= PagesFor(SeqLen(i)) /\ PagesFor(SeqLen(i)) \in Nat
            BY <3>3, Pages
          <6> QED BY <4>1, <6>1
        <5> QED BY <1>0, <1>1, <4>4, <5>1, RowPages
      <4>6. b \in Armed
        BY <3>6, <4>3, <4>4, <4>5 DEF Armed, Plan
      <4> QED BY <2>2, <4>6
    <3> QED BY <3>5, <3>6
  <2> QED BY <2>3, <2>4
<1> QED BY <1>2, <1>6, <1>7, <1>8, <1>10, <1>11 DEF RefreshInv

\* What the scheduler does to the tables: a request keeps the blocks of the tokens
\* it has, and every block it gets was held by nobody.
Extends ==
    /\ occ' \in [Blocks -> Nat]
    /\ table' \in [Requests -> Seq(Blocks)]
    /\ \A b \in Blocks : occ'[b] = occ[b] \/ (b \notin Held /\ occ'[b] > occ[b])
    /\ \A r \in Requests :
         /\ PagesFor(len[r]) <= Len(table'[r])
         /\ \A x \in DOMAIN table[r] \cap DOMAIN table'[r] : table'[r][x] = table[r][x]

\* The scheduler does that, and its batch is of requests as they are, each once.
LEMMA ScheduleExtends ==
    ASSUME RefreshTypes, TablesApart, Fits, Schedule
    PROVE  /\ Extends /\ TablesApart'
           /\ batch' \in Seq(Row) /\ Len(batch') <= Cardinality(Requests)
           /\ partial' \subseteq Requests /\ Running \subseteq Rows'
           /\ \A i, j \in DOMAIN batch' : batch'[i].req = batch'[j].req => i = j
           /\ \A i \in DOMAIN batch' :
                /\ batch'[i].ctx = len[batch'[i].req]
                /\ batch'[i].ctx + batch'[i].q <= MaxLen
                /\ PagesFor(batch'[i].ctx + batch'[i].q) <= Len(table'[batch'[i].req])
           /\ \A r \in Running \ partial :
                /\ r \notin partial'
                /\ \A i \in DOMAIN batch' : batch'[i].req = r => batch'[i].q = 1
<1>1. PICK s \in Batches : \E new \in Injection(NewPages(s), Blocks \ Held) :
        /\ batch' = [i \in DOMAIN s |-> [req |-> s[i].req, q |-> s[i].q,
                                         ctx |-> len[s[i].req]]]
        /\ partial' = {s[i].req : i \in {j \in DOMAIN s : s[j].cut}}
        /\ table' = [r \in Requests |->
                       IF \E i \in DOMAIN s : s[i].req = r
                       THEN LET i == CHOOSE i \in DOMAIN s : s[i].req = r
                            IN [x \in 1 .. PagesFor(len[r] + s[i].q) |->
                                  IF x <= Len(table[r]) THEN table[r][x] ELSE new[<<i, x>>]]
                       ELSE table[r]]
        /\ occ' = [b \in Blocks |->
                     IF \E p \in NewPages(s) : new[p] = b THEN occ[b] + 1 ELSE occ[b]]
  BY DEF Schedule
<1>2. PICK new \in Injection(NewPages(s), Blocks \ Held) :
        /\ batch' = [i \in DOMAIN s |-> [req |-> s[i].req, q |-> s[i].q,
                                         ctx |-> len[s[i].req]]]
        /\ partial' = {s[i].req : i \in {j \in DOMAIN s : s[j].cut}}
        /\ table' = [r \in Requests |->
                       IF \E i \in DOMAIN s : s[i].req = r
                       THEN LET i == CHOOSE i \in DOMAIN s : s[i].req = r
                            IN [x \in 1 .. PagesFor(len[r] + s[i].q) |->
                                  IF x <= Len(table[r]) THEN table[r][x] ELSE new[<<i, x>>]]
                       ELSE table[r]]
        /\ occ' = [b \in Blocks |->
                     IF \E p \in NewPages(s) : new[p] = b THEN occ[b] + 1 ELSE occ[b]]
  BY <1>1
<1>3. PICK n \in 1 .. Cardinality(Requests) :
         s \in [1 .. n -> [req : Requests, q : 1 .. Budget, cut : BOOLEAN]]
  BY DEF Batches
<1>4. n \in Nat /\ n <= Cardinality(Requests) /\ DOMAIN s = 1 .. n
  BY <1>3, RefreshAssumption, FS_CardinalityType
<1>5. /\ \A i, j \in 1 .. n : s[i].req = s[j].req => i = j
      /\ Running \subseteq {s[i].req : i \in 1 .. n}
      /\ \A i \in 1 .. n :
           /\ len[s[i].req] + s[i].q <= MaxLen
           /\ s[i].req \in Running \ partial => s[i].q = 1 /\ ~s[i].cut
  BY <1>4 DEF Batches
<1>6. ASSUME NEW i \in 1 .. n
      PROVE  /\ s[i].req \in Requests /\ s[i].q \in Nat \ {0} /\ s[i].cut \in BOOLEAN
             /\ len[s[i].req] \in Nat
             /\ PagesFor(len[s[i].req] + s[i].q) \in Nat
             /\ PagesFor(len[s[i].req]) <= PagesFor(len[s[i].req] + s[i].q)
             /\ PagesFor(len[s[i].req] + s[i].q) <= PagesFor(MaxLen)
             /\ PagesFor(MaxLen) \in Nat
  <2>1. s[i].req \in Requests /\ s[i].q \in 1 .. Budget /\ s[i].cut \in BOOLEAN
    BY <1>3
  <2>2. s[i].q \in Nat \ {0} /\ len[s[i].req] \in Nat /\ MaxLen \in Nat
    BY <2>1, RefreshAssumption DEF RefreshTypes
  <2>3. len[s[i].req] + s[i].q <= MaxLen /\ len[s[i].req] + s[i].q \in Nat
        /\ len[s[i].req] <= len[s[i].req] + s[i].q
    BY <1>5, <2>2
  <2> QED BY <2>1, <2>2, <2>3, Pages
<1>7. /\ new \in [NewPages(s) -> Blocks \ Held]
      /\ \A a, b \in NewPages(s) : new[a] = new[b] => a = b
  BY DEF Injection, IsInjective
\* The table of a scheduled request, page by page.
<1>8. ASSUME NEW i \in 1 .. n
      PROVE  /\ table'[s[i].req] =
                   [x \in 1 .. PagesFor(len[s[i].req] + s[i].q) |->
                       IF x <= Len(table[s[i].req]) THEN table[s[i].req][x]
                       ELSE new[<<i, x>>]]
             /\ \A x \in 1 .. PagesFor(len[s[i].req] + s[i].q) :
                  Len(table[s[i].req]) < x => <<i, x>> \in NewPages(s)
  <2>1. i = CHOOSE j \in DOMAIN s : s[j].req = s[i].req
    BY <1>4, <1>5
  <2>2. s[i].req \in Requests /\ i \in DOMAIN s
    BY <1>4, <1>6
  <2>3. table'[s[i].req] =
                   [x \in 1 .. PagesFor(len[s[i].req] + s[i].q) |->
                       IF x <= Len(table[s[i].req]) THEN table[s[i].req][x]
                       ELSE new[<<i, x>>]]
    BY <1>2, <2>1, <2>2
  <2>4. ASSUME NEW x \in 1 .. PagesFor(len[s[i].req] + s[i].q),
               Len(table[s[i].req]) < x
        PROVE  <<i, x>> \in NewPages(s)
    <3>1. x \in 1 .. PagesFor(MaxLen) /\ x <= PagesFor(len[s[i].req] + s[i].q)
      BY <1>6
    <3> QED BY <2>2, <2>4, <3>1 DEF NewPages
  <2> QED BY <2>3, <2>4
<1>9. ASSUME NEW r \in Requests
      PROVE  /\ table'[r] \in Seq(Blocks)
             /\ PagesFor(len[r]) <= Len(table'[r])
             /\ \A i \in 1 .. n : s[i].req = r =>
                  Len(table'[r]) = PagesFor(len[r] + s[i].q)
             /\ \A x \in DOMAIN table'[r] :
                  \/ x \in DOMAIN table[r] /\ table'[r][x] = table[r][x]
                  \/ x \notin DOMAIN table[r] /\
                     \E i \in 1 .. n : /\ s[i].req = r /\ <<i, x>> \in NewPages(s)
                                       /\ table'[r][x] = new[<<i, x>>]
  <2>0. table[r] \in Seq(Blocks) /\ Len(table[r]) \in Nat
        /\ DOMAIN table[r] = 1 .. Len(table[r])
    BY DEF RefreshTypes
  <2>1. CASE \E i \in 1 .. n : s[i].req = r
    <3>1. PICK i \in 1 .. n : s[i].req = r
      BY <2>1
    <3> DEFINE np == PagesFor(len[r] + s[i].q)
    <3>2. /\ np \in Nat /\ PagesFor(len[r]) <= np
          /\ table'[r] = [x \in 1 .. np |->
                            IF x <= Len(table[r]) THEN table[r][x] ELSE new[<<i, x>>]]
          /\ \A x \in 1 .. np : Len(table[r]) < x => <<i, x>> \in NewPages(s)
      BY <1>6, <1>8, <3>1
    <3>3. \A j \in 1 .. n : s[j].req = r => PagesFor(len[r] + s[j].q) = np
      BY <1>5, <3>1
    <3> HIDE DEF np
    <3>4. ASSUME NEW x \in 1 .. np
          PROVE  /\ table'[r][x] \in Blocks
                 /\ \/ x \in DOMAIN table[r] /\ table'[r][x] = table[r][x]
                    \/ /\ x \notin DOMAIN table[r]
                       /\ <<i, x>> \in NewPages(s) /\ table'[r][x] = new[<<i, x>>]
      <4>1. CASE x <= Len(table[r])
        BY <2>0, <3>2, <4>1
      <4>2. CASE Len(table[r]) < x
        BY <1>7, <2>0, <3>2, <4>2
      <4> QED BY <2>0, <3>2, <4>1, <4>2
    <3>5. DOMAIN table'[r] = 1 .. np
      BY <3>2
    <3>6. table'[r] \in Seq(Blocks) /\ Len(table'[r]) = np
      BY <3>2, <3>4
    <3> QED BY <3>1, <3>2, <3>3, <3>4, <3>5, <3>6
  <2>2. CASE ~ \E i \in 1 .. n : s[i].req = r
    <3>1. table'[r] = table[r]
      BY <1>2, <1>4, <2>2
    <3> QED BY <2>0, <2>2, <3>1 DEF Fits
  <2> QED BY <2>1, <2>2
<1>10. ASSUME NEW r \in Requests, NEW x \in DOMAIN table[r] PROVE table[r][x] \in Held
  <2>1. x \in 1 .. Len(table[r])
    BY DEF RefreshTypes
  <2> QED BY <2>1 DEF Held
<1>11. TablesApart'
  <2> SUFFICES ASSUME NEW r \in Requests, NEW t \in Requests,
                      NEW x \in DOMAIN table'[r], NEW y \in DOMAIN table'[t],
                      table'[r][x] = table'[t][y]
               PROVE  r = t /\ x = y
    BY DEF TablesApart
  <2> DEFINE old(u, z) == z \in DOMAIN table[u] /\ table'[u][z] = table[u][z]
             got(u, z) == \E i \in 1 .. n : /\ s[i].req = u /\ <<i, z>> \in NewPages(s)
                                            /\ table'[u][z] = new[<<i, z>>]
  <2>1. (old(r, x) \/ got(r, x)) /\ (old(t, y) \/ got(t, y))
    BY <1>9
  <2>2. ASSUME NEW u \in Requests, NEW z
        PROVE  /\ old(u, z) => table'[u][z] \in Held
               /\ got(u, z) => table'[u][z] \notin Held
    BY <1>7, <1>10
  <2>3. CASE old(r, x) /\ old(t, y)
    <3>1. /\ x \in DOMAIN table[r] /\ y \in DOMAIN table[t]
          /\ table'[r][x] = table[r][x] /\ table'[t][y] = table[t][y]
      BY <2>3
    <3>2. table[r][x] = table[t][y]
      BY <3>1
    <3> HIDE DEF old, got
    <3> QED BY <3>1, <3>2 DEF TablesApart
  <2>4. CASE got(r, x) /\ got(t, y)
    <3>1. PICK i \in 1 .. n : /\ s[i].req = r /\ <<i, x>> \in NewPages(s)
                              /\ table'[r][x] = new[<<i, x>>]
      BY <2>4
    <3>2. PICK j \in 1 .. n : /\ s[j].req = t /\ <<j, y>> \in NewPages(s)
                              /\ table'[t][y] = new[<<j, y>>]
      BY <2>4
    <3>3. <<i, x>> = <<j, y>>
      BY <1>7, <3>1, <3>2
    <3> QED BY <3>1, <3>2, <3>3
  <2> HIDE DEF old, got
  <2> QED BY <2>1, <2>2, <2>3, <2>4
<1>12. Extends
  <2>1. occ' \in [Blocks -> Nat] /\ \A b \in Blocks :
           occ'[b] = occ[b] \/ (b \notin Held /\ occ'[b] > occ[b])
    <3>1. occ \in [Blocks -> Nat]
      BY DEF RefreshTypes
    <3>2. \A b \in Blocks : (\E p \in NewPages(s) : new[p] = b) => b \notin Held
      BY <1>7
    <3> QED BY <1>2, <3>1, <3>2
  <2>2. table' \in [Requests -> Seq(Blocks)]
    <3>1. DOMAIN table' = Requests
      BY <1>2
    <3>2. \A r \in Requests : table'[r] \in Seq(Blocks)
      BY <1>9
    <3>3. table' = [r \in Requests |-> table'[r]]
      BY <1>2
    <3> QED BY <3>2, <3>3
  <2>3. \A r \in Requests : \A x \in DOMAIN table[r] \cap DOMAIN table'[r] : table'[r][x] = table[r][x]
    BY <1>9
  <2> QED BY <1>9, <2>1, <2>2, <2>3 DEF Extends
<1>13. /\ batch' \in Seq(Row) /\ Len(batch') = n /\ DOMAIN batch' = 1 .. n
       /\ \A i \in 1 .. n : /\ batch'[i].req = s[i].req /\ batch'[i].q = s[i].q
                             /\ batch'[i].ctx = len[s[i].req]
  <2>1. batch' = [i \in 1 .. n |-> [req |-> s[i].req, q |-> s[i].q, ctx |-> len[s[i].req]]]
    BY <1>2, <1>4
  <2>2. \A i \in 1 .. n : [req |-> s[i].req, q |-> s[i].q, ctx |-> len[s[i].req]] \in Row
    BY <1>6 DEF Row
  <2>3. batch' \in [1 .. n -> Row]
    BY <2>1, <2>2
  <2> QED BY <1>4, <2>1, <2>3
<1>14. partial' \subseteq Requests
  BY <1>2, <1>4, <1>6
<1>15. Running \subseteq Rows'
  BY <1>5, <1>13 DEF Rows
<1>16. \A i \in 1 .. n : /\ batch'[i].ctx + batch'[i].q <= MaxLen
                         /\ PagesFor(batch'[i].ctx + batch'[i].q) <= Len(table'[batch'[i].req])
  <2> TAKE i \in 1 .. n
  <2>1. batch'[i].ctx + batch'[i].q <= MaxLen
    BY <1>5, <1>13
  <2>2. Len(table'[s[i].req]) = PagesFor(len[s[i].req] + s[i].q)
        /\ PagesFor(len[s[i].req] + s[i].q) \in Nat
    BY <1>6, <1>9
  <2> QED BY <1>13, <2>1, <2>2
<1>17. ASSUME NEW r \in Running \ partial
       PROVE  /\ r \notin partial'
              /\ \A i \in 1 .. n : s[i].req = r => s[i].q = 1
  BY <1>2, <1>4, <1>5
<1> QED BY <1>4, <1>5, <1>11, <1>12, <1>13, <1>14, <1>15, <1>16, <1>17

\* A block that is taken over loses its tags, and no page of a running request is
\* touched.
LEMMA RefreshSchedule ==
    ASSUME RefreshInv, Schedule, NextKnown
    PROVE  RefreshInv'
<1> USE DEF flags, gate, stream
<1>0. /\ RefreshTypes /\ TablesApart /\ Fits /\ KVExact /\ Past /\ Tags /\ Streams /\ GateInv
      /\ Covers
  BY DEF RefreshInv
<1>1. /\ phase = "idle" /\ phase' = "scheduled" /\ batch = <<>> /\ Rows = {}
      /\ UNCHANGED <<flags, len, kv, summary, gate, stream, derived>>
  BY <1>0 DEF Schedule, Fits, Rows
<1>2. /\ Extends /\ TablesApart'
      /\ batch' \in Seq(Row) /\ Len(batch') <= Cardinality(Requests)
      /\ partial' \subseteq Requests /\ Running \subseteq Rows'
      /\ \A i, j \in DOMAIN batch' : batch'[i].req = batch'[j].req => i = j
      /\ \A i \in DOMAIN batch' :
           /\ batch'[i].ctx = len[batch'[i].req]
           /\ batch'[i].ctx + batch'[i].q <= MaxLen
           /\ PagesFor(batch'[i].ctx + batch'[i].q) <= Len(table'[batch'[i].req])
      /\ \A r \in Running \ partial :
           /\ r \notin partial'
           /\ \A i \in DOMAIN batch' : batch'[i].req = r => batch'[i].q = 1
  BY <1>0, ScheduleExtends
<1>3. (Gated' /\ Steady' => SameRows') /\ ~ Sliver'
  BY <1>1 DEF NextKnown
<1>4. Running' = Running /\ known' = known
  <2>1. Running' = Running
    BY <1>1 DEF Running
  <2> QED BY <1>1, <2>1, KnownKept
<1>5. \A b : Queued(b)' <=> Queued(b)
  BY <1>1 DEF Queued
<1>6. RefreshTypes'
  BY <1>0, <1>1, <1>2, <1>4 DEF RefreshTypes, Extends
<1>7. Fits'
  <2>1. \A r \in Requests : PagesFor(len'[r]) <= Len(table'[r])
    BY <1>1, <1>2 DEF Extends
  <2>2. known' \subseteq Running'
    BY <1>0, <1>1, <1>4 DEF Fits
  <2>3. \A i \in DOMAIN batch' : SeqLen(i)' = batch'[i].ctx + batch'[i].q
    BY DEF SeqLen
  <2> QED BY <1>1, <1>2, <1>3, <1>4, <2>1, <2>2, <2>3 DEF Fits
\* A page of the tokens a request has keeps its block, and the block its owner.
<1>8. ASSUME NEW r \in Requests, NEW x \in Nat, x >= 1, x <= PagesFor(len[r])
      PROVE  /\ table'[r][x] = table[r][x] /\ table[r][x] \in Blocks
             /\ occ'[table[r][x]] = occ[table[r][x]]
  <2>1. /\ Len(table[r]) \in Nat /\ DOMAIN table[r] = 1 .. Len(table[r])
        /\ \A y \in DOMAIN table[r] : table[r][y] \in Blocks
        /\ len[r] \in Nat
    BY <1>0, TableFacts
  <2>2. PagesFor(len[r]) \in Nat
    BY <2>1, Pages
  <2>3. table'[r] \in Seq(Blocks) /\ PagesFor(len[r]) <= Len(table'[r])
    BY <1>2 DEF Extends
  <2>4. PagesFor(len[r]) <= Len(table[r])
    BY <1>0 DEF Fits
  <2>5. x \in DOMAIN table[r]
    BY <1>8, <2>1, <2>2, <2>4
  <2>6. x \in DOMAIN table'[r]
    BY <1>8, <2>2, <2>3
  <2>7. table[r][x] \in Held /\ table[r][x] \in Blocks
    BY <2>1, <2>5 DEF Held
  <2> QED BY <1>2, <2>5, <2>6, <2>7 DEF Extends
<1>9. ASSUME NEW r \in Requests, NEW p \in Nat, (p + 1) * Page <= len[r]
      PROVE  /\ (table[r][p + 1])' = table[r][p + 1] /\ table[r][p + 1] \in Blocks
             /\ occ'[table[r][p + 1]] = occ[table[r][p + 1]]
  <2>1. len[r] \in Nat
    BY <1>0, TableFacts
  <2>2. p < len[r] \div Page /\ len[r] \div Page <= PagesFor(len[r])
        /\ PagesFor(len[r]) \in Nat /\ len[r] \div Page \in Nat
    BY <1>9, <2>1, Pages
  <2>3. p + 1 \in Nat /\ p + 1 >= 1 /\ p + 1 <= PagesFor(len[r])
    BY <2>2
  <2> QED BY <1>8, <2>3
<1>10. KVExact'
  <2> SUFFICES ASSUME NEW r \in Requests, NEW n \in Nat, n < len[r]
               PROVE  kv[table'[r][n \div Page + 1]][n % Page] = occ'[table'[r][n \div Page + 1]]
    BY <1>1 DEF KVExact
  <2>1. kv[table[r][n \div Page + 1]][n % Page] = occ[table[r][n \div Page + 1]]
    BY <1>0 DEF KVExact
  <2>2. n \div Page + 1 \in Nat /\ n \div Page + 1 >= 1 /\ n \div Page + 1 <= PagesFor(len[r])
    <3>1. len[r] \in Nat
      BY <1>0, TableFacts
    <3>2. n \div Page \in Nat
      BY Pages
    <3>3. n \div Page + 1 <= PagesFor(len[r])
      BY <3>1, Pages
    <3> QED BY <3>2, <3>3
  <2> QED BY <1>8, <2>1, <2>2
<1>11. ASSUME NEW b \in Blocks
       PROVE  /\ occ[b] \in Nat /\ occ'[b] \in Nat
              /\ \A o \in Offsets : kv[b][o] \in Nat /\ summary[b][o] \in Nat \cup {-1}
              /\ b \in DOMAIN work => \A o \in Offsets : work[b][o] \in Nat
              /\ occ'[b] = occ[b] \/ occ'[b] > occ[b]
  BY <1>0, <1>2 DEF RefreshTypes, Extends
<1>12. Past'
  <2> SUFFICES ASSUME NEW b \in Blocks, NEW o \in Offsets
               PROVE  /\ kv[b][o] <= occ'[b] /\ summary[b][o] <= occ'[b]
                      /\ b \in DOMAIN work => work[b][o] <= occ'[b]
    BY <1>1 DEF Past
  <2>1. /\ kv[b][o] <= occ[b] /\ summary[b][o] <= occ[b]
        /\ b \in DOMAIN work => work[b][o] <= occ[b]
    BY <1>0 DEF Past
  <2>2. occ[b] <= occ'[b]
    BY <1>11
  <2> QED BY <1>11, <2>1, <2>2
<1>13. Tags'
  <2> SUFFICES ASSUME NEW b \in Blocks
               PROVE  /\ Tagged(kv[b], b)' => Whole(kv[b], b)'
                      /\ b \in DOMAIN work /\ Tagged(work[b], b)' =>
                           Whole(work[b], b)' \/ Queued(b)
                      /\ Tagged(summary[b], b)' =>
                           Whole(summary[b], b)' \/ b \in DOMAIN work \/ Queued(b)
    BY <1>1, <1>5 DEF Tags
  <2>1. CASE occ'[b] = occ[b]
    BY <1>0, <1>1, <2>1 DEF Tags, Tagged, Whole
  <2>2. CASE occ'[b] > occ[b]
    <3>0. Page - 1 \in Offsets
      BY RefreshAssumption DEF Offsets
    <3>1. /\ kv[b][Page - 1] <= occ[b] /\ summary[b][Page - 1] <= occ[b]
          /\ b \in DOMAIN work => work[b][Page - 1] <= occ[b]
      BY <1>0, <3>0 DEF Past
    <3>2. /\ kv[b][Page - 1] # occ'[b] /\ summary[b][Page - 1] # occ'[b]
          /\ b \in DOMAIN work => work[b][Page - 1] # occ'[b]
      BY <1>11, <2>2, <3>0, <3>1
    <3> QED BY <1>1, <3>2 DEF Tagged
  <2> QED BY <1>11, <2>1, <2>2
<1>14. Streams' /\ FreshRows'
  BY <1>0, <1>1 DEF Streams, FreshRows, Fence, NoWork, Never
<1>15. GateInv'
  <2>1. PICK f \in Injection(known, DOMAIN snap) :
        /\ \A r \in known :
             /\ snap[f[r]].cur > 0 /\ len[r] > snap[f[r]].settled
             /\ \A p \in 0 .. snap[f[r]].settled \div Page - 1 : Clean(table[r][p + 1])
        /\ \/ Decoded => DerivedOf
           \/ \A r \in known : len[r] > snap[f[r]].settled + 1
    BY <1>0, <1>1 DEF GateInv, AtGate, Moved
  <2>2. ASSUME NEW r \in known, NEW p \in 0 .. snap[f[r]].settled \div Page - 1
        PROVE  Clean(table[r][p + 1])'
    <3> DEFINE b == table[r][p + 1]
    <3>1. f[r] \in DOMAIN snap
      BY DEF Injection
    <3>2. snap[f[r]].settled \in Nat
      BY <1>0, <3>1, SnapFacts
    <3>3. r \in Requests /\ p \in Nat /\ (p + 1) * Page <= len[r]
      BY <1>0, <2>1, <3>2, KnownPages
    <3>4. b' = b /\ occ'[b] = occ[b]
      BY <1>9, <3>3
    <3>5. Clean(b)
      BY <2>1
    <3>6. Clean(b)'
      <4> HIDE DEF b
      <4> QED BY <1>1, <1>5, <3>4, <3>5 DEF Clean, Whole
    <3> QED BY <3>6
  <2>3. Decoded' = Decoded /\ DerivedOf' = DerivedOf
    BY <1>1 DEF Decoded, DerivedOf
  <2>4. Moved'
    BY <1>1, <1>4, <2>1, <2>2, <2>3 DEF Moved
  <2> QED BY <1>1, <1>3, <2>4 DEF GateInv
<1>16. Covers'
  <2> SUFFICES ASSUME overlap, NEW r \in Requests, NEW p \in Nat, (p + 1) * Page <= len[r]
               PROVE  Settles(table[r][p + 1])' \/ Due(r, p)'
    BY <1>1 DEF Covers
  <2> DEFINE b == table[r][p + 1]
  <2>1. b' = b /\ occ'[b] = occ[b]
    BY <1>9
  <2>2. ASSUME Settles(b) PROVE Settles(b)'
    <3> HIDE DEF b
    <3> QED BY <1>1, <2>1, <2>2 DEF Settles, Whole
  <2>3. ASSUME Due(r, p) PROVE Due(r, p)'
    <3>1. r \in Running \ partial
      <4>1. len[r] = (p + 1) * Page /\ r \notin partial
        BY <2>3 DEF Due
      <4>2. (p + 1) * Page > 0
        BY RefreshAssumption
      <4> QED BY <4>1, <4>2 DEF Running
    <3> QED BY <1>1, <1>2, <2>3, <3>1 DEF Due
  <2>4. Settles(b) \/ Due(r, p)
    BY <1>0 DEF Covers
  <2> QED BY <2>2, <2>3, <2>4
<1> QED BY <1>2, <1>6, <1>7, <1>10, <1>12, <1>13, <1>14, <1>15, <1>16 DEF RefreshInv

-----------------------------------------------------------------------------
(* The invariant, and what follows from it *)

\* Every step keeps the invariant.
LEMMA RefreshStep ==
    ASSUME <<"mem", TRUE>> \notin Modes, RefreshInv, [NextKnown]_<<vars, known>>
    PROVE  RefreshInv'
<1>1. CASE NextKnown
  <2>1. CASE Schedule
    BY <1>1, <2>1, RefreshSchedule
  <2>2. CASE BuildDecode
    BY <1>1, <2>2, RefreshBuildDecode
  <2>3. CASE BuildPrefill
    BY <1>1, <2>3, RefreshBuildPrefill
  <2>4. CASE SideRead
    BY <1>1, <2>4, RefreshSideRead
  <2>5. CASE SideWrite
    BY <1>1, <2>5, RefreshSideWrite
  <2>6. ASSUME NEW discard \in BOOLEAN, Forward(discard) PROVE RefreshInv'
    <3>1. CASE discard = TRUE
      BY <1>1, <2>6, <3>1, RefreshDrain
    <3>2. CASE discard = FALSE
      BY <1>1, <2>6, <3>2, RefreshForward
    <3> QED BY <3>1, <3>2
  <2>7. ASSUME NEW r \in Requests, Finish(r) PROVE RefreshInv'
    BY <1>1, <2>7, RefreshFinish
  <2>8. Next
    BY <1>1 DEF NextKnown
  <2> QED BY <2>1, <2>2, <2>3, <2>4, <2>5, <2>6, <2>7, <2>8 DEF Next
<1>2. CASE UNCHANGED <<vars, known>>
  BY <1>2, RefreshStutter
<1> QED BY <1>1, <1>2

\* The invariant gives each property the runs check.
LEMMA RefreshImplies ==
    ASSUME RefreshInv
    PROVE  /\ TypeOK /\ SummaryFresh /\ OverlapCovers /\ DerivedFresh
<1>0. /\ RefreshTypes /\ Fits /\ KVExact /\ Streams /\ GateInv /\ FreshRows /\ Covers
  BY DEF RefreshInv
<1>1. TypeOK
  BY <1>0 DEF TypeOK, RefreshTypes, Lengths
<1>2. SummaryFresh
  <2> SUFFICES ASSUME phase = "built", NEW i \in DecodeRows,
                      NEW p \in 0 .. batch[i].ctx \div Page - 1
               PROVE  summary[Block(i, p)] = [o \in Offsets |-> occ[Block(i, p)]]
    BY DEF SummaryFresh
  <2> DEFINE b == Block(i, p)
  <2>1. i \in DOMAIN batch
    BY DEF DecodeRows
  <2>2. b \in Blocks
    BY <1>0, <2>1, SettledPages
  <2>3. Whole(summary[b], b)
    BY <1>0 DEF FreshRows
  <2> HIDE DEF b
  <2>4. summary[b] \in [Offsets -> Nat \cup {-1}]
    BY <1>0, <2>2 DEF RefreshTypes
  <2>5. summary[b] = [o \in Offsets |-> occ[b]]
    BY <2>3, <2>4 DEF Whole
  <2> QED BY <2>5 DEF b
<1>3. OverlapCovers
  <2> SUFFICES ASSUME phase = "scheduled", overlap, side = <<>>, work = NoWork,
                      NEW i \in DOMAIN batch, NEW p \in 0 .. batch[i].ctx \div Page - 1,
                      (p + 1) * Page < batch[i].ctx
               PROVE  summary[Block(i, p)] = kv[Block(i, p)]
    BY DEF OverlapCovers
  <2> DEFINE b == Block(i, p)
             r == batch[i].req
  <2>1. /\ p \in Nat /\ (p + 1) * Page <= len[r] /\ b = table[r][p + 1] /\ b \in Blocks
        /\ Whole(kv[b], b) /\ r \in Requests /\ len[r] = batch[i].ctx /\ batch[i].ctx \in Nat
    BY <1>0, SettledPages, RowFacts DEF Fits
  <2>2. ~ Due(r, p)
    <3>1. (p + 1) * Page \in Nat
      BY <2>1, RefreshAssumption
    <3>2. len[r] # (p + 1) * Page
      BY <2>1, <3>1
    <3> QED BY <3>2 DEF Due
  <2>3. Settles(b)
    BY <1>0, <2>1, <2>2 DEF Covers
  <2>4. summary[b] \in [Offsets -> Nat \cup {-1}] /\ kv[b] \in [Offsets -> Nat]
    BY <1>0, <2>1 DEF RefreshTypes
  <2>5. Whole(kv[b], b)
    BY <2>1
  <2> HIDE DEF b, r
  <2>6. Whole(summary[b], b)
    BY <2>3 DEF Settles, NoWork
  <2>7. summary[b] = kv[b]
    BY <2>4, <2>5, <2>6 DEF Whole
  <2> QED BY <2>7 DEF b
<1>4. DerivedFresh
  BY <1>0 DEF DerivedFresh, GateInv, AtGate, Gated
<1> QED BY <1>1, <1>2, <1>3, <1>4

\* The invariant holds of every behaviour in which the gate's rows are its
\* requests, unless LOCKS_PREFILL_OVERLAP is set with the mem variant.
THEOREM RefreshInvariant ==
    ASSUME <<"mem", TRUE>> \notin Modes
    PROVE  SpecKnown => []RefreshInv
<1>1. InitKnown => RefreshInv
  BY RefreshInit
<1>2. RefreshInv /\ [NextKnown]_<<vars, known>> => RefreshInv'
  BY RefreshStep
<1> QED BY <1>1, <1>2, PTL DEF SpecKnown

\* Every variable keeps its type.
THEOREM RefreshTypeOK ==
    ASSUME <<"mem", TRUE>> \notin Modes
    PROVE  SpecKnown => []TypeOK
<1>1. RefreshInv => TypeOK
  BY RefreshImplies
<1> QED BY <1>1, RefreshInvariant, PTL

\* Every complete page a decode row may score has the summary of the K in it.
THEOREM RefreshSummaryFresh ==
    ASSUME <<"mem", TRUE>> \notin Modes
    PROVE  SpecKnown => []SummaryFresh
<1>1. RefreshInv => SummaryFresh
  BY RefreshImplies
<1> QED BY <1>1, RefreshInvariant, PTL

\* Under the side stream, once it is drained, the gate finds every settled page
\* but a row's last already summarized.
THEOREM RefreshOverlapCovers ==
    ASSUME <<"mem", TRUE>> \notin Modes
    PROVE  SpecKnown => []OverlapCovers
<1>1. RefreshInv => OverlapCovers
  BY RefreshImplies
<1> QED BY <1>1, RefreshInvariant, PTL

\* A pure decode selects with the parameters of its own page counts.
THEOREM RefreshDerivedFresh ==
    ASSUME <<"mem", TRUE>> \notin Modes
    PROVE  SpecKnown => []DerivedFresh
<1>1. RefreshInv => DerivedFresh
  BY RefreshImplies
<1> QED BY <1>1, RefreshInvariant, PTL
=============================================================================
