---------------------------- MODULE LeaseProofs ----------------------------
(***************************************************************************)
(* Proofs about Lease: if every cut prompt is in the leased row, the       *)
(* leased row reads its own prefix and no token is copied twice, for any   *)
(* requests, page size, budget and prompt lengths.                         *)
(***************************************************************************)
EXTENDS Lease, FiniteSetTheorems, WellFoundedInduction, TLAPS

Exact(n, x) == \A m \in Tokens : m < n => bytes[m] = x

Row == [req : Requests, q : Nat \ {0}, ctx : Nat]
Cutting == {i \in Rows : batch[i].req \in partial}

\* The types the argument needs, and what holds of the rows of a step.
LeaseTypes ==
    /\ len \in [Requests -> Nat] /\ id \in [Requests -> Nat]
    /\ partial \subseteq Requests
    /\ batch \in Seq(Row)
    /\ wm \in Nat /\ lo \in Nat /\ row \in Nat
    /\ admitted \in Nat
    /\ bytes \in [Tokens -> Nat]
    /\ phase \in {"idle", "scheduled", "planned", "reading"}
    /\ phase # "idle" =>
         /\ \A i \in Rows : SeqLen(i) <= MaxLen
         /\ \A i, j \in Rows : batch[i].req = batch[j].req => i = j
         /\ \A r \in partial : \E i \in Rows : batch[i].req = r

\* Between steps the lease holds the prefix of the prompt that was cut, whole.
IdleInv ==
    phase = "idle" =>
        \A r \in partial : /\ held /\ 0 < len[r] /\ wm = len[r]
                            /\ Exact(wm, id[r])

\* A continuation finds its own prefix in the lease.
ScheduledInv ==
    phase = "scheduled" =>
        /\ CutIsLeased
        /\ \A i \in Cont : /\ held /\ wm = batch[i].ctx
                          /\ Exact(wm, id[batch[i].req])

\* The fill starts where the row's own bytes end.
PlannedInv ==
    phase = "planned" =>
        /\ held /\ row = LeaseRow /\ row \in Rows /\ wm = SeqLen(row)
        /\ lo <= batch[row].ctx
        /\ Cont # {} => lo = batch[row].ctx
        /\ Exact(lo, id[batch[row].req])
        /\ Cutting \subseteq {row}

ReadingInv ==
    phase = "reading" =>
        /\ row = 0 => Cutting = {}
        /\ row # 0 => /\ held /\ row \in Rows /\ wm = SeqLen(row)
                      /\ Exact(wm, id[batch[row].req])
                      /\ Cutting \subseteq {row}

LeaseInv == LeaseTypes /\ IdleInv /\ ScheduledInv /\ PlannedInv /\ ReadingInv

-----------------------------------------------------------------------------
(* Facts about numbers and the choice of the row. *)

\* The least-number principle for a set, from the library's for a relation.
LEMMA LeastFromRelation ==
    ASSUME NEW T \in SUBSET Nat, NEW R,
           \E x \in T : \A y \in T : ~ (<<y, x>> \in R),
           \A x, y \in Nat : y < x => <<y, x>> \in R
    PROVE  \E x \in T : \A y \in T : x <= y
<1>1. PICK x \in T : \A y \in T : ~ (<<y, x>> \in R)
  OBVIOUS
<1>2. ASSUME NEW y \in T PROVE x <= y
  <2>1. ~ (<<y, x>> \in R)
    BY <1>1
  <2>2. x \in Nat /\ y \in Nat
    OBVIOUS
  <2>3. ~ (y < x)
    BY <2>1, <2>2
  <2> QED BY <2>2, <2>3
<1> QED BY <1>2

\* A non-empty set of naturals has a least element.
LEMMA LeastNat ==
    ASSUME NEW T \in SUBSET Nat, T # {}
    PROVE  \E x \in T : \A y \in T : x <= y
<1>1. \E x \in T : \A y \in T : ~ (<<y, x>> \in OpToRel(<, Nat))
  BY NatLessThanWellFounded, WFMin, Zenon
<1>2. \A x, y \in Nat : y < x => <<y, x>> \in OpToRel(<, Nat)
  BY DEF OpToRel
<1> QED BY <1>1, <1>2, LeastFromRelation, Zenon

\* The page of an earlier token is not a later page.
LEMMA DivMono ==
    ASSUME NEW a \in Nat, NEW b \in Nat, NEW P \in Nat \ {0}, a <= b
    PROVE  a \div P \in Nat /\ b \div P \in Nat /\ a \div P <= b \div P
OBVIOUS

\* The lease has room for every token of a request.
LEMMA TokenRange ==
    ASSUME NEW n \in Nat, n < MaxLen
    PROVE  n \in Tokens
BY LeaseAssumption DEF Tokens

\* The fields of a row of the step.
LEMMA RowTypes ==
    ASSUME batch \in Seq(Row), NEW i \in Rows
    PROVE  /\ i \in Nat \ {0}
           /\ batch[i].req \in Requests /\ batch[i].q \in Nat \ {0}
           /\ batch[i].ctx \in Nat
           /\ SeqLen(i) \in Nat /\ SeqLen(i) = batch[i].ctx + batch[i].q
<1>1. i \in 1 .. Len(batch) /\ Len(batch) \in Nat
  BY DEF Rows
<1>2. batch[i] \in Row
  BY <1>1
<1> QED BY <1>1, <1>2 DEF Row, SeqLen

\* The row of the lease exists: the longest prompt of a step is one of them.
LEMMA RowChosen ==
    ASSUME LeaseTypes, phase # "idle", Cont # {} \/ Fresh # {}
    PROVE  LeaseRow \in Rows /\ (Cont # {} => LeaseRow \in Cont)
<1>1. CASE Cont # {}
  BY <1>1 DEF LeaseRow, Cont
<1>2. CASE Cont = {}
  <2>1. Fresh # {} /\ LeaseRow = Longest(Fresh)
    BY <1>2 DEF LeaseRow
  <2>2. ASSUME NEW i \in Rows
        PROVE  i \in Nat /\ batch[i].q \in Nat /\ MaxLen - batch[i].q \in Nat
    <3>1. SeqLen(i) <= MaxLen /\ batch \in Seq(Row)
      BY DEF LeaseTypes
    <3>2. /\ i \in Nat /\ batch[i].q \in Nat /\ batch[i].ctx \in Nat
          /\ batch[i].ctx + batch[i].q <= MaxLen
      BY <3>1, RowTypes
    <3> QED BY <3>2, LeaseAssumption
  <2>3. PICK i \in Fresh : \A j \in Fresh : batch[j].q <= batch[i].q
    <3> DEFINE T == {MaxLen - batch[j].q : j \in Fresh}
    <3>1. T \in SUBSET Nat /\ T # {}
      BY <2>1, <2>2 DEF Fresh
    <3>2. PICK x \in T : \A y \in T : x <= y
      BY <3>1, LeastNat
    <3>3. PICK i \in Fresh : x = MaxLen - batch[i].q
      BY <3>2
    <3>4. ASSUME NEW j \in Fresh PROVE batch[j].q <= batch[i].q
      <4>1. MaxLen - batch[i].q <= MaxLen - batch[j].q
        BY <3>2, <3>3
      <4> QED BY <4>1, <2>2, LeaseAssumption DEF Fresh
    <3> QED BY <3>4
  <2>4. PICK k \in Fresh : /\ batch[k].q = batch[i].q
                           /\ \A j \in Fresh : batch[j].q = batch[i].q => k <= j
    <3> DEFINE T == {j \in Fresh : batch[j].q = batch[i].q}
    <3>1. T \in SUBSET Nat /\ T # {}
      BY <2>2 DEF Fresh
    <3>2. PICK k \in T : \A y \in T : k <= y
      BY <3>1, LeastNat
    <3> QED BY <3>2
  <2>5. \A j \in Fresh : \/ batch[j].q < batch[k].q
                         \/ batch[j].q = batch[k].q /\ k <= j
    BY <2>2, <2>3, <2>4 DEF Fresh
  <2>6. Longest(Fresh) \in Fresh
    BY <2>5 DEF Longest
  <2> QED BY <1>2, <2>1, <2>6 DEF Fresh
<1> QED BY <1>1, <1>2

-----------------------------------------------------------------------------
(* One lemma per action. *)

LEMMA LeaseInit == Init => LeaseInv
<1> SUFFICES ASSUME Init PROVE LeaseInv
  OBVIOUS
<1>1. Empty \in [Tokens -> Nat] /\ batch \in Seq(Row)
  BY DEF Init, Empty
<1>2. LeaseTypes
  BY <1>1 DEF Init, LeaseTypes
<1> QED BY <1>2 DEF Init, LeaseInv, IdleInv, ScheduledInv, PlannedInv, ReadingInv

\* A request leaves: the prefix of the cut prompt stays as it is.
LEMMA LeaseFinish ==
    ASSUME LeaseInv, NEW r \in Requests, Finish(r)
    PROVE  LeaseInv'
<1>1. phase = "idle" /\ phase' = "idle" /\ LeaseTypes /\ IdleInv
  BY DEF LeaseInv, Finish
<1>2. LeaseTypes'
  BY <1>1 DEF LeaseTypes, Finish, lease
<1>3. IdleInv'
  BY <1>1 DEF LeaseTypes, IdleInv, Exact, Finish, lease
<1> QED BY <1>1, <1>2, <1>3 DEF LeaseInv, ScheduledInv, PlannedInv, ReadingInv

\* The scheduler: a continuation of more than one token is the cut prompt.
LEMMA LeaseSchedule ==
    ASSUME LeaseInv, Schedule, CutIsLeased'
    PROVE  LeaseInv'
<1>1. phase = "idle" /\ phase' = "scheduled" /\ LeaseTypes /\ IdleInv
  BY DEF LeaseInv, Schedule
<1>2. UNCHANGED <<len, held, wm, lo, row, bytes>>
  BY DEF Schedule, lease
<1> DEFINE new(s) == {i \in DOMAIN s : s[i].req \notin Running}
           nth(s, i) == admitted + Cardinality({j \in new(s) : j <= i})
<1>3. PICK s \in Batches :
        /\ admitted' = admitted + Cardinality(new(s))
        /\ id' = [r \in Requests |->
                    IF \E i \in new(s) : s[i].req = r
                    THEN nth(s, CHOOSE i \in new(s) : s[i].req = r) ELSE id[r]]
        /\ batch' = [i \in DOMAIN s |-> [req |-> s[i].req, q |-> s[i].q,
                                         ctx |-> len[s[i].req]]]
        /\ partial' = {s[i].req : i \in {j \in DOMAIN s : s[j].cut}}
  BY DEF Schedule
<1>4. PICK n \in Nat : s \in [1 .. n -> [req : Requests, q : 1 .. Budget, cut : BOOLEAN]]
  BY FS_CardinalityType, LeaseAssumption DEF Batches
<1>5. /\ \A i, j \in DOMAIN s : s[i].req = s[j].req => i = j
      /\ \A i \in DOMAIN s :
           /\ len[s[i].req] + s[i].q <= MaxLen
           /\ s[i].req \in Running \ partial => s[i].q = 1
  BY DEF Batches
<1>6. ASSUME NEW i \in 1 .. n
      PROVE  s[i].req \in Requests /\ s[i].q \in Nat \ {0} /\ len[s[i].req] \in Nat
  BY <1>1, <1>4, LeaseAssumption DEF LeaseTypes
<1>7. DOMAIN s = 1 .. n /\ Rows' = 1 .. n
  BY <1>3, <1>4 DEF Rows
<1>8. ASSUME NEW i \in 1 .. n
      PROVE  /\ batch'[i] = [req |-> s[i].req, q |-> s[i].q, ctx |-> len[s[i].req]]
             /\ batch'[i] \in Row
             /\ batch'[i].req = s[i].req /\ batch'[i].q = s[i].q
             /\ batch'[i].ctx = len[s[i].req]
             /\ (SeqLen(i))' = len[s[i].req] + s[i].q
  BY <1>3, <1>6, <1>7 DEF Row, SeqLen
<1>9. ASSUME NEW S \in SUBSET (1 .. n) PROVE Cardinality(S) \in Nat
  <2>1. IsFiniteSet(1 .. n)
    BY FS_Interval
  <2>2. IsFiniteSet(S)
    BY <2>1, FS_Subset
  <2> QED BY <2>2, FS_CardinalityType
<1>10. id' \in [Requests -> Nat] /\ admitted' \in Nat
  <2>1. admitted \in Nat /\ id \in [Requests -> Nat]
    BY <1>1 DEF LeaseTypes
  <2>2. new(s) \in SUBSET (1 .. n)
    BY <1>7
  <2>3. \A i : nth(s, i) \in Nat
    <3> TAKE i
    <3>1. {j \in new(s) : j <= i} \in SUBSET (1 .. n)
      BY <2>2
    <3> QED BY <3>1, <1>9, <2>1
  <2> HIDE DEF nth
  <2>4. admitted' \in Nat
    BY <1>3, <2>1, <2>2, <1>9
  <2> QED BY <1>3, <2>1, <2>3, <2>4
<1>11. LeaseTypes'
  <2>1. batch' \in Seq(Row)
    BY <1>3, <1>7, <1>8
  <2>2. partial' \subseteq Requests
    BY <1>3, <1>6, <1>7
  <2>3. \A i \in Rows' : (SeqLen(i) <= MaxLen)'
    <3> TAKE i \in Rows'
    <3>1. i \in 1 .. n /\ len[s[i].req] + s[i].q <= MaxLen
      BY <1>5, <1>7
    <3>2. batch'[i].q = s[i].q /\ batch'[i].ctx = len[s[i].req]
      BY <1>8, <3>1
    <3> QED BY <3>1, <3>2 DEF SeqLen
  <2>4. \A i, j \in Rows' : batch'[i].req = batch'[j].req => i = j
    <3> TAKE i, j \in Rows'
    <3>1. batch'[i].req = s[i].req /\ batch'[j].req = s[j].req
      BY <1>7, <1>8
    <3> QED BY <1>5, <1>7, <3>1
  <2>5. \A r \in partial' : \E i \in Rows' : batch'[i].req = r
    BY <1>3, <1>7, <1>8
  <2> QED BY <1>1, <1>2, <1>10, <2>1, <2>2, <2>3, <2>4, <2>5 DEF LeaseTypes
<1>12. ScheduledInv'
  <2> SUFFICES ASSUME NEW i \in Cont'
               PROVE  held' /\ wm' = batch'[i].ctx /\ Exact(wm, id[batch[i].req])'
    BY DEF ScheduledInv
  <2> DEFINE r == s[i].req
  <2>1. i \in 1 .. n /\ s[i].q > 1 /\ len[r] > 0
    <3>1. i \in Rows' /\ batch'[i].q > 1 /\ batch'[i].ctx > 0
      BY DEF Cont
    <3>2. i \in 1 .. n
      BY <3>1, <1>7
    <3> QED BY <3>1, <3>2, <1>8
  <2>2. r \in Running /\ r \in partial
    BY <1>5, <1>6, <1>7, <2>1 DEF Running
  <2>3. held /\ wm = len[r] /\ Exact(wm, id[r])
    BY <1>1, <2>2 DEF IdleInv
  <2>4. id'[r] = id[r]
    BY <1>3, <1>6, <2>1, <2>2
  <2>5. batch'[i].ctx = len[r] /\ batch'[i].req = r
    BY <1>8, <2>1
  <2>6. Exact(wm, id[batch[i].req])'
    BY <1>2, <2>3, <2>4, <2>5 DEF Exact
  <2> QED BY <1>2, <2>3, <2>5, <2>6
<1> QED BY <1>1, <1>11, <1>12 DEF LeaseInv, IdleInv, PlannedInv, ReadingInv

\* The builder picks the row: a continuation keeps the watermark, and what is
\* below it is its own.
LEMMA LeasePlan ==
    ASSUME LeaseInv, Plan
    PROVE  LeaseInv'
<1>1. phase = "scheduled" /\ phase' = "planned" /\ LeaseTypes /\ ScheduledInv
  BY DEF LeaseInv, Plan
<1>2. UNCHANGED <<engine, batch>> /\ held' = TRUE
  BY DEF Plan
<1>3. /\ lo' = Watermark /\ wm' = SeqLen(LeaseRow) /\ row' = LeaseRow
      /\ bytes' = IF held THEN bytes ELSE Empty
  BY DEF Plan
<1>4. batch \in Seq(Row)
  BY <1>1 DEF LeaseTypes
<1>5. Cont # {} \/ Fresh # {}
  <2>1. PICK i \in Rows : batch[i].q # 1
    BY DEF Plan, PureDecode
  <2>2. batch[i].q \in Nat \ {0} /\ batch[i].ctx \in Nat
    BY <1>4, RowTypes
  <2>3. i \in Cont \/ i \in Fresh
    BY <2>1, <2>2 DEF Cont, Fresh
  <2> QED BY <2>3
<1>6. LeaseRow \in Rows /\ (Cont # {} => LeaseRow \in Cont)
  BY <1>1, <1>5, RowChosen
<1>7. LeaseRow' = LeaseRow /\ Rows' = Rows /\ Cont' = Cont
      /\ \A i : (SeqLen(i))' = SeqLen(i)
  BY <1>2 DEF LeaseRow, Rows, Cont, Fresh, Longest, SeqLen
<1>8. /\ batch[LeaseRow].ctx \in Nat /\ LeaseRow \in Nat
      /\ SeqLen(LeaseRow) \in Nat
  BY <1>4, <1>6, RowTypes
<1>9. /\ lo' \in Nat /\ lo' <= batch[LeaseRow].ctx
      /\ Cont # {} => lo' = batch[LeaseRow].ctx
      /\ \A m \in Tokens : m < lo' => bytes'[m] = id[batch[LeaseRow].req]
  <2>1. CASE Cont = {}
    <3>1. lo' = 0
      BY <1>3, <2>1 DEF Watermark
    <3>2. \A m \in Tokens : m \in Nat
      BY LeaseAssumption DEF Tokens
    <3> QED BY <1>8, <2>1, <3>1, <3>2
  <2>2. CASE Cont # {}
    <3>1. held /\ wm = batch[LeaseRow].ctx /\ Exact(wm, id[batch[LeaseRow].req])
      BY <1>1, <1>6, <2>2 DEF ScheduledInv
    <3>2. lo' = wm
      BY <1>3, <1>8, <2>2, <3>1 DEF Watermark
    <3> QED BY <1>3, <1>8, <3>1, <3>2 DEF Exact
  <2> QED BY <2>1, <2>2
<1>10. LeaseTypes'
  <2>1. Empty \in [Tokens -> Nat]
    BY DEF Empty
  <2>2. bytes' \in [Tokens -> Nat]
    BY <1>1, <1>3, <2>1 DEF LeaseTypes
  <2> QED BY <1>1, <1>2, <1>3, <1>7, <1>8, <1>9, <2>2 DEF LeaseTypes, engine
<1>11. Cutting' \subseteq {LeaseRow}
  BY <1>1, <1>2 DEF ScheduledInv, CutIsLeased, Cutting, engine, Rows
<1>12. PlannedInv'
  BY <1>2, <1>3, <1>6, <1>7, <1>9, <1>11 DEF PlannedInv, Exact, engine
<1> QED BY <1>1, <1>10, <1>12 DEF LeaseInv, IdleInv, ScheduledInv, ReadingInv

\* A step without a prompt frees the lease; no cut prompt is waiting.
LEMMA LeaseRelease ==
    ASSUME LeaseInv, Release
    PROVE  LeaseInv'
<1>1. phase = "scheduled" /\ phase' = "reading" /\ LeaseTypes /\ ScheduledInv
  BY DEF LeaseInv, Release
<1>2. UNCHANGED <<engine, batch>> /\ wm' = 0 /\ lo' = 0 /\ row' = 0 /\ bytes' = Empty
  BY DEF Release
<1>3. Empty \in [Tokens -> Nat] /\ Rows' = Rows /\ \A i : (SeqLen(i))' = SeqLen(i)
  BY <1>2 DEF Empty, Rows, SeqLen
<1>4. LeaseTypes'
  BY <1>1, <1>2, <1>3 DEF LeaseTypes, engine
<1>5. Cutting' = {}
  BY <1>1, <1>2 DEF ScheduledInv, CutIsLeased, Cutting, Cont, Fresh, Rows,
                    Release, PureDecode, engine
<1> QED BY <1>1, <1>2, <1>4, <1>5
    DEF LeaseInv, IdleInv, ScheduledInv, PlannedInv, ReadingInv

\* The fill copies the pages from the first new token's on, whole: with what
\* was below it, the prefix is complete.
LEMMA LeaseFill ==
    ASSUME LeaseInv, Fill
    PROVE  LeaseInv'
<1>1. phase = "planned" /\ phase' = "reading" /\ LeaseTypes /\ PlannedInv
  BY DEF LeaseInv, Fill
<1>2. UNCHANGED <<engine, batch, lease>>
  BY DEF Fill
<1> DEFINE x == id[batch[row].req]
           filled(m) == lo < wm /\ m \div Page \in FillPages(lo, wm)
<1>3. bytes' = [m \in Tokens |-> IF filled(m) THEN IF m < SeqLen(row) THEN x ELSE 0
                                ELSE bytes[m]]
  BY DEF Fill
<1>4. /\ held /\ row \in Rows /\ wm = SeqLen(row) /\ Exact(lo, x)
      /\ Cutting \subseteq {row}
  BY <1>1 DEF PlannedInv
<1>5. x \in Nat /\ row # 0 /\ row \in Nat
  BY <1>1, <1>4, RowTypes DEF LeaseTypes
<1>6. Rows' = Rows /\ (\A i : (SeqLen(i))' = SeqLen(i)) /\ Cutting' = Cutting
  BY <1>2 DEF Rows, SeqLen, Cutting, engine
<1>7. LeaseTypes'
  <2>1. bytes' \in [Tokens -> Nat]
    BY <1>1, <1>3, <1>5 DEF LeaseTypes
  <2> QED BY <1>1, <1>2, <1>6, <2>1 DEF LeaseTypes, engine, lease
<1> HIDE DEF filled
<1>8. ASSUME NEW m \in Tokens, m < wm PROVE bytes'[m] = x
  <2>1. m \in Nat /\ lo \in Nat /\ wm \in Nat /\ Page \in Nat \ {0}
    BY <1>1, LeaseAssumption DEF LeaseTypes, Tokens
  <2>2. CASE m < lo
    BY <1>3, <1>4, <1>8, <2>2 DEF Exact
  <2>3. CASE lo <= m
    <3>1. lo \div Page <= m \div Page /\ m <= wm - 1 /\ wm - 1 \in Nat
      BY <1>8, <2>1, <2>3, DivMono
    <3>2. m \div Page <= (wm - 1) \div Page /\ m \div Page \in Nat
          /\ lo \div Page \in Nat /\ (wm - 1) \div Page \in Nat
      BY <2>1, <3>1, DivMono
    <3>3. filled(m)
      BY <1>8, <2>1, <2>3, <3>1, <3>2 DEF FillPages, filled
    <3> QED BY <1>3, <1>4, <1>8, <3>3
  <2> QED BY <2>1, <2>2, <2>3
<1>9. ReadingInv'
  BY <1>2, <1>4, <1>5, <1>6, <1>8 DEF ReadingInv, Exact, engine, lease
<1> QED BY <1>1, <1>7, <1>9 DEF LeaseInv, IdleInv, ScheduledInv, PlannedInv

\* The step's tokens are computed: the cut prompt's length is the watermark.
LEMMA LeaseEnd ==
    ASSUME LeaseInv, EndStep
    PROVE  LeaseInv'
<1>1. phase = "reading" /\ phase' = "idle" /\ LeaseTypes /\ ReadingInv
  BY DEF LeaseInv, EndStep
<1>2. UNCHANGED <<id, partial, admitted, held, wm, lo, bytes>> /\ row' = 0 /\ batch' = <<>>
  BY DEF EndStep
<1>3. len' = [r \in Requests |->
                 IF \E i \in Rows : batch[i].req = r
                 THEN SeqLen(CHOOSE i \in Rows : batch[i].req = r) ELSE len[r]]
  BY DEF EndStep
<1>4. \A i \in Rows : SeqLen(i) \in Nat /\ batch[i].ctx \in Nat /\ batch[i].q \in Nat \ {0}
                     /\ SeqLen(i) = batch[i].ctx + batch[i].q
  BY <1>1, RowTypes DEF LeaseTypes
<1>5. LeaseTypes'
  <2>1. len' \in [Requests -> Nat]
    BY <1>1, <1>3, <1>4 DEF LeaseTypes
  <2>2. batch' \in Seq(Row)
    BY <1>2
  <2> QED BY <1>1, <1>2, <2>1, <2>2 DEF LeaseTypes
<1>6. IdleInv'
  <2> SUFFICES ASSUME NEW r \in partial
               PROVE  held /\ 0 < len'[r] /\ wm = len'[r] /\ Exact(wm, id[r])
    BY <1>2 DEF IdleInv, Exact
  <2>1. PICK i \in Rows : batch[i].req = r
    BY <1>1 DEF LeaseTypes
  <2>2. row # 0 /\ i = row
    BY <1>1, <2>1 DEF ReadingInv, Cutting
  <2>3. held /\ wm = SeqLen(i) /\ Exact(wm, id[r])
    BY <1>1, <2>1, <2>2 DEF ReadingInv
  <2>4. i = CHOOSE j \in Rows : batch[j].req = r
    BY <1>1, <2>1 DEF LeaseTypes
  <2>5. len'[r] = SeqLen(i)
    BY <1>1, <1>3, <2>1, <2>4 DEF LeaseTypes
  <2> QED BY <1>4, <2>3, <2>5
<1> QED BY <1>1, <1>5, <1>6 DEF LeaseInv, ScheduledInv, PlannedInv, ReadingInv

LEMMA LeaseStutter ==
    ASSUME LeaseInv, UNCHANGED vars
    PROVE  LeaseInv'
<1>1. UNCHANGED <<engine, batch, lease, bytes, phase>>
  BY DEF vars
<1>2. /\ Rows' = Rows /\ Cont' = Cont /\ LeaseRow' = LeaseRow /\ Cutting' = Cutting
      /\ \A i : (SeqLen(i))' = SeqLen(i)
      /\ CutIsLeased' = CutIsLeased
  BY <1>1 DEF Rows, Cont, Fresh, Longest, LeaseRow, Cutting, SeqLen, CutIsLeased, engine
<1>3. LeaseTypes'
  BY <1>1, <1>2 DEF LeaseInv, LeaseTypes, engine, lease
<1>4. IdleInv' /\ ScheduledInv'
  BY <1>1, <1>2 DEF LeaseInv, IdleInv, ScheduledInv, Exact, engine, lease
<1>5. PlannedInv' /\ ReadingInv'
  BY <1>1, <1>2 DEF LeaseInv, PlannedInv, ReadingInv, Exact, engine, lease
<1> QED BY <1>3, <1>4, <1>5 DEF LeaseInv

-----------------------------------------------------------------------------
(* The bounds of the types: what LeaseTypes leaves open.                    *)

LeaseBounds ==
    /\ len \in [Requests -> 0 .. MaxLen]
    /\ id \in [Requests -> 0 .. MaxAdmit]
    /\ admitted \in 0 .. MaxAdmit
    /\ wm \in 0 .. MaxLen /\ lo \in 0 .. MaxLen
    /\ held \in BOOLEAN
    /\ bytes \in [Tokens -> 0 .. MaxAdmit]
    /\ row \in 0 .. Len(batch)
    /\ phase \in {"idle", "scheduled"} => row = 0

\* The admissions of a step are numbered up to the last of them.
LEMMA BoundsSchedule ==
    ASSUME LeaseInv, LeaseBounds, Schedule
    PROVE  LeaseBounds'
<1>1. phase = "idle" /\ phase' = "scheduled" /\ row = 0
  BY DEF LeaseBounds, Schedule
<1>2. UNCHANGED <<len, held, wm, lo, row, bytes>>
  BY DEF Schedule, lease
<1> DEFINE new(s) == {i \in DOMAIN s : s[i].req \notin Running}
           upto(s, i) == {j \in new(s) : j <= i}
           nth(s, i) == admitted + Cardinality(upto(s, i))
<1>3. PICK s \in Batches :
        /\ admitted + Cardinality(new(s)) <= MaxAdmit
        /\ admitted' = admitted + Cardinality(new(s))
        /\ id' = [r \in Requests |->
                    IF \E i \in new(s) : s[i].req = r
                    THEN nth(s, CHOOSE i \in new(s) : s[i].req = r) ELSE id[r]]
        /\ batch' = [i \in DOMAIN s |-> [req |-> s[i].req, q |-> s[i].q,
                                         ctx |-> len[s[i].req]]]
  BY DEF Schedule
<1>4. PICK n \in Nat : s \in [1 .. n -> [req : Requests, q : 1 .. Budget, cut : BOOLEAN]]
  BY FS_CardinalityType, LeaseAssumption DEF Batches
<1>5. IsFiniteSet(new(s))
  <2>1. new(s) \subseteq 1 .. n
    BY <1>4
  <2>2. IsFiniteSet(1 .. n)
    BY FS_Interval
  <2> HIDE DEF new
  <2> QED BY <2>1, <2>2, FS_Subset
<1>6. admitted \in Nat /\ Cardinality(new(s)) \in Nat /\ MaxAdmit \in Nat
  BY <1>5, FS_CardinalityType, LeaseAssumption DEF LeaseBounds
<1>7. \A i : nth(s, i) \in 0 .. MaxAdmit
  <2> TAKE i
  <2>1. upto(s, i) \subseteq new(s)
    OBVIOUS
  <2> HIDE DEF new, upto
  <2>2. /\ IsFiniteSet(upto(s, i))
        /\ Cardinality(upto(s, i)) <= Cardinality(new(s))
    BY <1>5, <2>1, FS_Subset
  <2>3. Cardinality(upto(s, i)) \in Nat
    BY <2>2, FS_CardinalityType
  <2> QED BY <1>3, <1>6, <2>2, <2>3
<1> HIDE DEF nth, upto
<1>8. admitted' \in 0 .. MaxAdmit
  <2> HIDE DEF new
  <2> QED BY <1>3, <1>6
<1>9. id' \in [Requests -> 0 .. MaxAdmit]
  <2> HIDE DEF new
  <2>1. id \in [Requests -> 0 .. MaxAdmit]
    BY DEF LeaseBounds
  <2> QED BY <1>3, <1>7, <2>1
<1>10. row' \in 0 .. Len(batch')
  <2>1. Len(batch') = n
    BY <1>3, <1>4
  <2> QED BY <1>1, <1>2, <2>1
<1> QED BY <1>1, <1>2, <1>8, <1>9, <1>10 DEF LeaseBounds

\* The leased row is a row of the step, and no longer than a request may be.
LEMMA BoundsPlan ==
    ASSUME LeaseInv, LeaseBounds, Plan
    PROVE  LeaseBounds'
<1>1. LeaseInv' /\ phase' = "planned"
  BY LeasePlan DEF Plan
<1>2. UNCHANGED <<engine, batch>> /\ held' = TRUE
      /\ lo' = Watermark /\ bytes' = IF held THEN bytes ELSE Empty
  BY DEF Plan
<1>3. /\ row' \in Rows' /\ wm' = (SeqLen(row))' /\ batch' \in Seq(Row)
      /\ (SeqLen(row))' <= MaxLen
  BY <1>1 DEF LeaseInv, PlannedInv, LeaseTypes
<1>4. row' \in 0 .. Len(batch')
  BY <1>3 DEF Rows
<1>5. wm' \in Nat
  BY <1>1 DEF LeaseInv, LeaseTypes
<1>6. wm' \in 0 .. MaxLen
  BY <1>3, <1>5, LeaseAssumption
<1>7. lo' \in 0 .. MaxLen
  BY <1>2, LeaseAssumption DEF Watermark, LeaseBounds
<1>8. bytes' \in [Tokens -> 0 .. MaxAdmit]
  BY <1>2, LeaseAssumption DEF LeaseBounds, Empty
<1> QED BY <1>1, <1>2, <1>4, <1>6, <1>7, <1>8 DEF LeaseBounds, engine

LEMMA BoundsRelease ==
    ASSUME LeaseInv, LeaseBounds, Release
    PROVE  LeaseBounds'
<1>1. /\ UNCHANGED <<engine, batch>> /\ held' = FALSE /\ wm' = 0 /\ lo' = 0
      /\ row' = 0 /\ bytes' = Empty /\ phase' = "reading"
  BY DEF Release
<1>2. Empty \in [Tokens -> 0 .. MaxAdmit] /\ 0 \in 0 .. MaxLen
  BY LeaseAssumption DEF Empty
<1>3. 0 \in 0 .. Len(batch)
  BY DEF LeaseInv, LeaseTypes
<1> QED BY <1>1, <1>2, <1>3 DEF LeaseBounds, engine

\* The fill copies bytes of the leased row's admission.
LEMMA BoundsFill ==
    ASSUME LeaseInv, LeaseBounds, Fill
    PROVE  LeaseBounds'
<1>1. phase = "planned" /\ phase' = "reading" /\ UNCHANGED <<engine, batch, lease>>
  BY DEF Fill
<1>2. row \in Rows /\ batch \in Seq(Row)
  BY <1>1 DEF LeaseInv, PlannedInv, LeaseTypes
<1>3. id[batch[row].req] \in 0 .. MaxAdmit /\ 0 \in 0 .. MaxAdmit
  BY <1>2, RowTypes, LeaseAssumption DEF LeaseBounds
<1>4. bytes' \in [Tokens -> 0 .. MaxAdmit]
  <2>1. bytes \in [Tokens -> 0 .. MaxAdmit]
    BY DEF LeaseBounds
  <2> QED BY <1>3, <2>1 DEF Fill
<1> QED BY <1>1, <1>4 DEF LeaseBounds, engine, lease

LEMMA BoundsEnd ==
    ASSUME LeaseInv, LeaseBounds, EndStep
    PROVE  LeaseBounds'
<1>1. /\ phase = "reading" /\ phase' = "idle" /\ row' = 0 /\ batch' = <<>>
      /\ UNCHANGED <<id, admitted, held, wm, lo, bytes>>
  BY DEF EndStep
<1>2. \A i \in Rows : SeqLen(i) \in 0 .. MaxLen
  <2> TAKE i \in Rows
  <2>1. SeqLen(i) \in Nat /\ SeqLen(i) <= MaxLen
    BY <1>1, RowTypes DEF LeaseInv, LeaseTypes
  <2> QED BY <2>1, LeaseAssumption
<1>3. len' \in [Requests -> 0 .. MaxLen]
  BY <1>2 DEF LeaseBounds, EndStep
<1>4. 0 \in 0 .. Len(<<>>)
  OBVIOUS
<1> QED BY <1>1, <1>3, <1>4 DEF LeaseBounds

LEMMA BoundsFinish ==
    ASSUME LeaseBounds, NEW r \in Requests, Finish(r)
    PROVE  LeaseBounds'
<1>1. /\ len' = [len EXCEPT ![r] = 0] /\ id' = [id EXCEPT ![r] = 0]
      /\ UNCHANGED <<admitted, batch, lease, bytes, phase>>
  BY DEF Finish
<1>2. len' \in [Requests -> 0 .. MaxLen] /\ id' \in [Requests -> 0 .. MaxAdmit]
  BY <1>1, LeaseAssumption DEF LeaseBounds
<1> QED BY <1>1, <1>2 DEF LeaseBounds, lease

-----------------------------------------------------------------------------
\* The invariant of an engine whose cut prompts are all in the leased row.
THEOREM LeaseSafe == CutLeased => []LeaseInv
<1>1. Init => LeaseInv
  BY LeaseInit
<1>2. LeaseInv /\ [Next /\ (phase' = "scheduled" => CutIsLeased')]_vars => LeaseInv'
  <2> SUFFICES ASSUME LeaseInv,
                      [Next /\ (phase' = "scheduled" => CutIsLeased')]_vars
               PROVE  LeaseInv'
    OBVIOUS
  <2>1. CASE Schedule
    <3>1. phase' = "scheduled" /\ ~ UNCHANGED vars
      BY <2>1 DEF Schedule, vars
    <3> QED BY <2>1, <3>1, LeaseSchedule
  <2>2. CASE Plan BY <2>2, LeasePlan
  <2>3. CASE Release BY <2>3, LeaseRelease
  <2>4. CASE Fill BY <2>4, LeaseFill
  <2>5. CASE EndStep BY <2>5, LeaseEnd
  <2>6. ASSUME NEW r \in Requests, Finish(r) PROVE LeaseInv'
    BY <2>6, LeaseFinish
  <2>7. CASE UNCHANGED vars BY <2>7, LeaseStutter
  <2> QED BY <2>1, <2>2, <2>3, <2>4, <2>5, <2>6, <2>7 DEF Next
<1> QED BY <1>1, <1>2, PTL DEF CutLeased

\* The leased row reads its own prefix: chunks, aborted prompts and the lease's
\* earlier owners leave nothing of theirs in it.
THEOREM LeaseReadsOwn == CutLeased => []LeaseExact
<1>1. LeaseInv => LeaseExact
  <2> SUFFICES ASSUME LeaseInv, phase = "reading", row # 0,
                      NEW m \in 0 .. SeqLen(row) - 1
               PROVE  bytes[m] = id[batch[row].req]
    BY DEF LeaseExact
  <2>1. /\ row \in Rows /\ wm = SeqLen(row) /\ Exact(wm, id[batch[row].req])
        /\ batch \in Seq(Row) /\ SeqLen(row) <= MaxLen
    BY DEF LeaseInv, LeaseTypes, ReadingInv
  <2>2. m \in Nat /\ m < wm /\ m < MaxLen
    BY <2>1, RowTypes, LeaseAssumption
  <2>3. m \in Tokens
    BY <2>2, TokenRange
  <2> QED BY <2>1, <2>2, <2>3 DEF Exact
<1> QED BY <1>1, LeaseSafe, PTL

\* No token of a prompt is copied twice while its chunks continue.
THEOREM LeaseFillsOnce == CutLeased => []FillsOnce
<1>1. LeaseInv => FillsOnce
  BY DEF LeaseInv, PlannedInv, FillsOnce
<1> QED BY <1>1, LeaseSafe, PTL

\* The types of Lease: no length, watermark or admission number leaves its
\* range, and the leased row is a row of the step.
THEOREM LeaseTypeOK == CutLeased => []TypeOK
<1>1. Init => LeaseBounds
  <2> SUFFICES ASSUME Init PROVE LeaseBounds
    OBVIOUS
  <2>1. MaxLen \in Nat /\ MaxAdmit \in Nat
    BY LeaseAssumption
  <2>2. bytes \in [Tokens -> 0 .. MaxAdmit]
    BY <2>1 DEF Init, Empty
  <2>3. row \in 0 .. Len(batch)
    BY DEF Init
  <2>4. /\ len \in [Requests -> 0 .. MaxLen] /\ id \in [Requests -> 0 .. MaxAdmit]
        /\ admitted \in 0 .. MaxAdmit
    BY <2>1 DEF Init
  <2>5. wm \in 0 .. MaxLen /\ lo \in 0 .. MaxLen /\ row = 0
    BY <2>1 DEF Init
  <2>6. held \in BOOLEAN
    BY DEF Init
  <2> QED BY <2>2, <2>3, <2>4, <2>5, <2>6 DEF LeaseBounds
<1>2. LeaseInv /\ LeaseBounds /\ [Next]_vars => LeaseBounds'
  <2> SUFFICES ASSUME LeaseInv, LeaseBounds, [Next]_vars
               PROVE  LeaseBounds'
    OBVIOUS
  <2>1. CASE Schedule BY <2>1, BoundsSchedule
  <2>2. CASE Plan BY <2>2, BoundsPlan
  <2>3. CASE Release BY <2>3, BoundsRelease
  <2>4. CASE Fill BY <2>4, BoundsFill
  <2>5. CASE EndStep BY <2>5, BoundsEnd
  <2>6. ASSUME NEW r \in Requests, Finish(r) PROVE LeaseBounds'
    BY <2>6, BoundsFinish
  <2>7. CASE UNCHANGED vars
    BY <2>7 DEF LeaseBounds, vars, engine, lease
  <2> QED BY <2>1, <2>2, <2>3, <2>4, <2>5, <2>6, <2>7 DEF Next
<1>3. [Next /\ (phase' = "scheduled" => CutIsLeased')]_vars => [Next]_vars
  OBVIOUS
<1>4. LeaseInv /\ LeaseBounds => TypeOK
  BY DEF LeaseInv, LeaseTypes, LeaseBounds, TypeOK
<1> QED BY <1>1, <1>2, <1>3, <1>4, LeaseSafe, PTL DEF CutLeased

=============================================================================
