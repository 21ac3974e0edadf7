--------------------------- MODULE StagingProofs ---------------------------
(***************************************************************************)
(* Proofs about Staging, for any tables, budgets and batches the scheduler *)
(* produces: v-blocks are never lost and never handed out twice, none is   *)
(* taken from a page whose bytes are not copied in the same step, and a    *)
(* reading step is served the bytes written for its tokens.                *)
(***************************************************************************)
EXTENDS Staging, FiniteSetTheorems, WellFoundedInduction, TLAPS

\* The blocks that hold v-block v under the assignment a.
Holders(a, v) == {b \in Blocks : a[b] = v}

PartInv ==
    /\ vbo \in [Blocks -> VBlocks \cup {NoVBlock}]
    /\ free \in [VBlocks -> Nat]
    /\ FreePartition

\* Splitting the holders of a v-block: the counts add up.
LEMMA HoldersSplit ==
    ASSUME NEW S \in SUBSET Blocks, NEW T \in SUBSET Blocks, S \cap T = {}
    PROVE  /\ IsFiniteSet(S) /\ IsFiniteSet(T)
           /\ Cardinality(S) \in Nat /\ Cardinality(T) \in Nat
           /\ Cardinality(S \cup T) = Cardinality(S) + Cardinality(T)
<1>1. IsFiniteSet(S) /\ IsFiniteSet(T)
  BY StagingAssumption, FS_Subset
<1>2. Cardinality(S \cap T) = 0
  BY FS_EmptySet
<1>3. Cardinality(S) \in Nat /\ Cardinality(T) \in Nat
  BY <1>1, FS_CardinalityType
<1>4. Cardinality(S \cup T) = Cardinality(S) + Cardinality(T) - Cardinality(S \cap T)
  BY <1>1, FS_Union, Zenon
<1> QED BY <1>1, <1>2, <1>3, <1>4

LEMMA PartInit == Init => PartInv
<1> SUFFICES ASSUME Init PROVE PartInv
  OBVIOUS
<1>1. \A v \in VBlocks : {b \in Blocks : vbo[b] = v} = {}
  BY StagingAssumption DEF Init
<1>2. \A v \in VBlocks : free[v] + Cardinality({b \in Blocks : vbo[b] = v}) = 1
  <2> SUFFICES ASSUME NEW v \in VBlocks
               PROVE  free[v] + Cardinality({b \in Blocks : vbo[b] = v}) = 1
    OBVIOUS
  <2>1. Cardinality({b \in Blocks : vbo[b] = v}) = 0
    BY <1>1, FS_EmptySet, Zenon
  <2>2. free[v] = 1
    BY DEF Init
  <2> QED BY <2>1, <2>2
<1> QED BY <1>2 DEF Init, PartInv, FreePartition

\* One lifecycle: a freed v-block leaves its block as it returns to the stack,
\* a popped one joins a block that had none.
LEMMA PartBegin ==
    ASSUME PartInv, BeginStep
    PROVE  PartInv'
<1>1. PICK F \in Collects :
        LET gone == Freed(F)
            v0   == [b \in Blocks |-> IF b \in gone THEN NoVBlock ELSE vbo[b]]
            f0   == [v \in VBlocks |->
                       free[v] + Cardinality({b \in gone : vbo[b] = v})]
        IN \E g \in Pops(v0, f0) :
            /\ vbo' = [b \in Blocks |-> IF b \in DOMAIN g THEN g[b] ELSE v0[b]]
            /\ free' = [v \in VBlocks |->
                          f0[v] - Cardinality({b \in DOMAIN g : g[b] = v})]
  BY DEF BeginStep
<1> DEFINE gone == Freed(F)
           v0   == [b \in Blocks |-> IF b \in gone THEN NoVBlock ELSE vbo[b]]
           f0   == [v \in VBlocks |->
                      free[v] + Cardinality({b \in gone : vbo[b] = v})]
<1>2. PICK g \in Pops(v0, f0) :
        /\ vbo' = [b \in Blocks |-> IF b \in DOMAIN g THEN g[b] ELSE v0[b]]
        /\ free' = [v \in VBlocks |->
                      f0[v] - Cardinality({b \in DOMAIN g : g[b] = v})]
  BY <1>1
<1>3. gone \subseteq {b \in Blocks : vbo[b] # NoVBlock}
  BY DEF Freed, Collects, Claimable, Eligible
<1>4. /\ DOMAIN g \subseteq Blocks /\ \A b \in DOMAIN g : v0[b] = NoVBlock /\ g[b] \in VBlocks
      /\ \A v \in VBlocks : Cardinality({b \in DOMAIN g : g[b] = v}) <= f0[v]
  <2>1. PICK got \in SUBSET Needy(v0) : g \in [got -> VBlocks]
    BY DEF Pops
  <2>2. \A b \in got : b \in Blocks /\ v0[b] = NoVBlock
    BY <2>1 DEF Needy, AllWritten
  <2>3. \A v \in VBlocks : Cardinality({b \in DOMAIN g : g[b] = v}) <= f0[v]
    BY DEF Pops
  <2> QED BY <2>1, <2>2, <2>3
<1> HIDE DEF gone
<1>5. vbo' \in [Blocks -> VBlocks \cup {NoVBlock}]
  BY <1>2, <1>4 DEF PartInv
<1>6. ASSUME NEW v \in VBlocks
      PROVE  /\ free'[v] \in Nat
             /\ free'[v] + Cardinality(Holders(vbo', v)) = 1
  <2> DEFINE A == {b \in gone : vbo[b] = v}
             B == {b \in Blocks \ gone : vbo[b] = v}
             G == {b \in DOMAIN g : g[b] = v}
  <2>1. A \cup B = Holders(vbo, v) /\ A \cap B = {} /\ A \subseteq Blocks /\ B \subseteq Blocks
    BY <1>3 DEF Holders
  <2>2. B \cup G = Holders(vbo', v) /\ B \cap G = {} /\ G \subseteq Blocks
    <3>0. v # NoVBlock BY StagingAssumption
    <3>1. ASSUME NEW b \in Blocks PROVE (b \in B \cup G) <=> vbo'[b] = v
      <4>1. CASE b \in DOMAIN g BY <4>1, <3>0, <1>2, <1>4
      <4>2. CASE b \notin DOMAIN g
        <5>1. vbo'[b] = IF b \in gone THEN NoVBlock ELSE vbo[b] BY <4>2, <1>2
        <5> QED BY <4>2, <5>1, <3>0
      <4> QED BY <4>1, <4>2
    <3>2. B \cap G = {} BY <1>4, <3>0
    <3>3. G \subseteq Blocks BY <1>4
    <3> QED BY <2>1, <3>1, <3>2, <3>3 DEF Holders
  <2> HIDE DEF A, B, G
  <2>3. /\ Cardinality(A) \in Nat /\ Cardinality(B) \in Nat /\ Cardinality(G) \in Nat
        /\ Cardinality(Holders(vbo, v)) = Cardinality(A) + Cardinality(B)
        /\ Cardinality(Holders(vbo', v)) = Cardinality(B) + Cardinality(G)
    BY <2>1, <2>2, HoldersSplit
  <2>4. free[v] \in Nat /\ free[v] + Cardinality(Holders(vbo, v)) = 1
    BY DEF PartInv, FreePartition, Holders
  <2>5. free'[v] = (free[v] + Cardinality(A)) - Cardinality(G)
        /\ Cardinality(G) <= free[v] + Cardinality(A)
    <3>1. f0[v] = free[v] + Cardinality(A)
      BY DEF A
    <3>2. free'[v] = f0[v] - Cardinality(G)
      BY <1>2 DEF G
    <3>3. Cardinality(G) <= f0[v]
      BY <1>4 DEF G
    <3>4. free'[v] = (free[v] + Cardinality(A)) - Cardinality(G)
      BY <3>1, <3>2, Zenon
    <3>5. Cardinality(G) <= free[v] + Cardinality(A)
      BY <3>1, <3>3, Zenon
    <3> QED BY <3>4, <3>5
  <2> QED BY <2>3, <2>4, <2>5
<1>7. free' \in [VBlocks -> Nat]
  BY <1>2, <1>6
<1> QED BY <1>5, <1>6, <1>7 DEF PartInv, FreePartition, Holders

LEMMA PartStep == PartInv /\ [Next]_vars => PartInv'
<1> SUFFICES ASSUME PartInv, [Next]_vars PROVE PartInv'
  OBVIOUS
<1>1. CASE BeginStep BY <1>1, PartBegin
<1>2. CASE UNCHANGED <<vbo, free>>
  BY <1>2 DEF PartInv, FreePartition
<1>3. Schedule => UNCHANGED <<vbo, free>> BY DEF Schedule, staged
<1>4. Capture => UNCHANGED <<vbo, free>> BY DEF Capture
<1>5. EndStep => UNCHANGED <<vbo, free>> BY DEF EndStep, staged
<1>6. \A p : Scatter(p) => UNCHANGED <<vbo, free>> BY DEF Scatter, staged
<1>7. \A r : Finish(r) => UNCHANGED <<vbo, free>> BY DEF Finish, staged
<1>8. UNCHANGED vars => UNCHANGED <<vbo, free>> BY DEF vars, staged
<1> QED BY <1>1, <1>2, <1>3, <1>4, <1>5, <1>6, <1>7, <1>8 DEF Next

\* I3 of the staging pool: assigned and free v-blocks partition it, none is
\* assigned to two blocks and none is on the stack twice.
THEOREM StagingPartition == Spec => []FreePartition
<1>1. PartInv => FreePartition
  BY DEF PartInv
<1> QED BY <1>1, PartInit, PartStep, PTL DEF Spec

-----------------------------------------------------------------------------
(* A v-block is freed only after its copy.  The step that claims a page for  *)
(* the flush list must not be the one that gives it a v-block back: that is  *)
(* so because a settled page of one row is never a written page of another.  *)

BatchRow == [req : Requests, start : Nat, ctx : Nat, q : Nat \ {0}]

\* No block is in two tables, or twice in one.
TablesApart ==
    \A r, t \in Requests : \A x \in DOMAIN table[r], y \in DOMAIN table[t] :
        table[r][x] = table[t][y] => r = t /\ x = y

\* The rows of a scheduled step: distinct requests as they are, tables long
\* enough, lanes side by side.
BatchFits ==
    /\ batch # <<>>
    /\ \A i, j \in DOMAIN batch : batch[i].req = batch[j].req => i = j
    /\ \A i \in DOMAIN batch :
         /\ PagesFor(SeqLen(i)) <= Len(table[batch[i].req])
         /\ batch[i].ctx = len[batch[i].req] /\ SeqLen(i) <= MaxLen
         /\ batch[i].start = (IF i = 1 THEN 0 ELSE RowEnd(i - 1))
         /\ RowEnd(i) <= MaxTokens

\* A page whose latch is set has no v-block.
LatchInv ==
    /\ len \in [Requests -> Nat]
    /\ table \in [Requests -> Seq(Blocks)]
    /\ batch \in Seq(BatchRow)
    /\ vbo \in [Blocks -> VBlocks \cup {NoVBlock}]
    /\ vflushed \subseteq Blocks
    /\ TablesApart
    /\ \A r \in Requests : PagesFor(len[r]) <= Len(table[r])
    /\ phase # "idle" => BatchFits
    /\ \A b \in vflushed : vbo[b] = NoVBlock

\* Pages and tokens.
LEMMA Pages ==
    ASSUME NEW n \in Nat
    PROVE  /\ PagesFor(n) \in Nat /\ n \div Page \in Nat /\ n % Page \in Offsets
           /\ n \div Page <= PagesFor(n)
           /\ \A m \in Nat : m < n => m \div Page + 1 <= PagesFor(n)
           /\ \A m \in Nat : m <= n => PagesFor(m) <= PagesFor(n) /\ m \div Page <= n \div Page
BY StagingAssumption DEF PagesFor, Offsets

\* No tokens, no pages.
LEMMA NoPages == PagesFor(0) = 0
BY StagingAssumption DEF PagesFor

\* Pages and tokens: the settled pages come before the written ones, and both
\* are pages of the table.
LEMMA PageBounds ==
    ASSUME NEW c \in Nat, NEW n \in Nat \ {0}
    PROVE  /\ c \div Page \in Nat /\ ((c + n) - 1) \div Page \in Nat
           /\ PagesFor(c + n) \in Nat
           /\ c \div Page <= PagesFor(c + n)
           /\ ((c + n) - 1) \div Page + 1 <= PagesFor(c + n)
BY StagingAssumption DEF PagesFor

\* The scheduler hands out blocks nobody holds, each once.
LEMMA LatchSchedule ==
    ASSUME LatchInv, Schedule
    PROVE  LatchInv'
<1>1. PICK s \in Batches : \E new \in Injection(NewPages(s), Blocks \ Held) :
        /\ batch' = [i \in DOMAIN s |->
                       [req |-> s[i].req, start |-> s[i].start,
                        ctx |-> len[s[i].req], q |-> s[i].q]]
        /\ table' = [r \in Requests |->
                       IF \E i \in DOMAIN s : s[i].req = r
                       THEN LET i == CHOOSE i \in DOMAIN s : s[i].req = r
                            IN [x \in 1 .. PagesFor(len[r] + s[i].q) |->
                                  IF x <= Len(table[r]) THEN table[r][x] ELSE new[<<i, x>>]]
                       ELSE table[r]]
  BY DEF Schedule
<1>2. PICK new \in Injection(NewPages(s), Blocks \ Held) :
        /\ batch' = [i \in DOMAIN s |->
                       [req |-> s[i].req, start |-> s[i].start,
                        ctx |-> len[s[i].req], q |-> s[i].q]]
        /\ table' = [r \in Requests |->
                       IF \E i \in DOMAIN s : s[i].req = r
                       THEN LET i == CHOOSE i \in DOMAIN s : s[i].req = r
                            IN [x \in 1 .. PagesFor(len[r] + s[i].q) |->
                                  IF x <= Len(table[r]) THEN table[r][x] ELSE new[<<i, x>>]]
                       ELSE table[r]]
  BY <1>1
<1>3. PICK n \in Nat : n > 0 /\ s \in [1 .. n -> [req : Requests, start : Lanes, q : 1 .. MaxTokens]]
  <2>1. Cardinality(Requests) \in Nat
    BY FS_CardinalityType, StagingAssumption
  <2> QED BY <2>1 DEF Batches, Rows
<1>4. /\ \A i, j \in DOMAIN s : s[i].req = s[j].req => i = j
      /\ \A i \in DOMAIN s :
           /\ len[s[i].req] + s[i].q <= MaxLen
           /\ s[i].start = (IF i = 1 THEN 0 ELSE s[i - 1].start + s[i - 1].q)
           /\ s[i].start + s[i].q <= MaxTokens
  BY DEF Batches
<1>5. ASSUME NEW i \in 1 .. n
      PROVE  /\ s[i].req \in Requests /\ s[i].q \in Nat \ {0}
             /\ s[i].start \in Nat /\ len[s[i].req] \in Nat
             /\ PagesFor(len[s[i].req] + s[i].q) \in Nat
             /\ PagesFor(len[s[i].req] + s[i].q) <= PagesFor(MaxLen)
             /\ PagesFor(MaxLen) \in Nat
  <2>1. /\ s[i].req \in Requests /\ s[i].q \in Nat \ {0} /\ len[s[i].req] \in Nat
        /\ s[i].start \in Nat
    <3>1. s[i] \in [req : Requests, start : Lanes, q : 1 .. MaxTokens]
      BY <1>3
    <3>2. s[i].req \in Requests /\ s[i].start \in Lanes /\ s[i].q \in 1 .. MaxTokens
      BY <3>1
    <3> QED BY <3>2, StagingAssumption DEF LatchInv, Lanes
  <2>2. len[s[i].req] + s[i].q <= MaxLen /\ MaxLen \in Nat
    BY <1>3, <1>4, StagingAssumption
  <2> QED BY <2>1, <2>2, StagingAssumption DEF PagesFor
<1>6. /\ new \in [NewPages(s) -> Blocks \ Held]
      /\ \A a, b \in NewPages(s) : new[a] = new[b] => a = b
  BY DEF Injection, IsInjective
\* The table of a scheduled request, page by page.
<1>7. ASSUME NEW i \in 1 .. n
      PROVE  /\ table'[s[i].req] =
                   [x \in 1 .. PagesFor(len[s[i].req] + s[i].q) |->
                       IF x <= Len(table[s[i].req]) THEN table[s[i].req][x]
                       ELSE new[<<i, x>>]]
             /\ \A x \in 1 .. PagesFor(len[s[i].req] + s[i].q) :
                  Len(table[s[i].req]) < x => <<i, x>> \in NewPages(s)
  <2>1. i = CHOOSE j \in DOMAIN s : s[j].req = s[i].req
    BY <1>3, <1>4
  <2>2. s[i].req \in Requests /\ i \in DOMAIN s
    BY <1>3, <1>5
  <2>3. table'[s[i].req] =
                   [x \in 1 .. PagesFor(len[s[i].req] + s[i].q) |->
                       IF x <= Len(table[s[i].req]) THEN table[s[i].req][x]
                       ELSE new[<<i, x>>]]
    BY <1>2, <2>1, <2>2
  <2>4. ASSUME NEW x \in 1 .. PagesFor(len[s[i].req] + s[i].q),
               Len(table[s[i].req]) < x
        PROVE  <<i, x>> \in NewPages(s)
    <3>1. x \in 1 .. PagesFor(MaxLen) /\ x <= PagesFor(len[s[i].req] + s[i].q)
      BY <1>5
    <3> QED BY <2>2, <2>4, <3>1 DEF NewPages
  <2> QED BY <2>3, <2>4
<1>8. ASSUME NEW r \in Requests
      PROVE  /\ table'[r] \in Seq(Blocks)
             /\ \A x \in DOMAIN table'[r] :
                  \/ x \in DOMAIN table[r] /\ table'[r][x] = table[r][x]
                  \/ \E i \in 1 .. n : /\ s[i].req = r /\ <<i, x>> \in NewPages(s)
                                       /\ table'[r][x] = new[<<i, x>>]
  <2>0. table[r] \in Seq(Blocks) /\ Len(table[r]) \in Nat
        /\ DOMAIN table[r] = 1 .. Len(table[r])
    BY DEF LatchInv
  <2>1. CASE \E i \in 1 .. n : s[i].req = r
    <3>1. PICK i \in 1 .. n : s[i].req = r
      BY <2>1
    <3> DEFINE np == PagesFor(len[r] + s[i].q)
    <3>2. /\ np \in Nat
          /\ table'[r] = [x \in 1 .. np |->
                            IF x <= Len(table[r]) THEN table[r][x] ELSE new[<<i, x>>]]
          /\ \A x \in 1 .. np : Len(table[r]) < x => <<i, x>> \in NewPages(s)
      BY <1>5, <1>7, <3>1
    <3> HIDE DEF np
    <3>3. ASSUME NEW x \in 1 .. np
          PROVE  /\ table'[r][x] \in Blocks
                 /\ \/ x \in DOMAIN table[r] /\ table'[r][x] = table[r][x]
                    \/ <<i, x>> \in NewPages(s) /\ table'[r][x] = new[<<i, x>>]
      <4>1. CASE x <= Len(table[r])
        BY <2>0, <3>2, <4>1
      <4>2. CASE Len(table[r]) < x
        BY <1>6, <2>0, <3>2, <4>2
      <4> QED BY <2>0, <3>2, <4>1, <4>2
    <3>4. DOMAIN table'[r] = 1 .. np
      BY <3>2
    <3>5. table'[r] \in Seq(Blocks)
      BY <3>2, <3>3
    <3> QED BY <3>1, <3>3, <3>4, <3>5
  <2>2. CASE ~ \E i \in 1 .. n : s[i].req = r
    BY <1>2, <1>3, <2>0, <2>2
  <2> QED BY <2>1, <2>2
<1>9. ASSUME NEW r \in Requests, NEW x \in DOMAIN table[r] PROVE table[r][x] \in Held
  <2>1. x \in 1 .. Len(table[r])
    BY DEF LatchInv
  <2> QED BY <2>1 DEF Held, BlocksOf
<1>10. TablesApart'
  <2> SUFFICES ASSUME NEW r \in Requests, NEW t \in Requests,
                      NEW x \in DOMAIN table'[r], NEW y \in DOMAIN table'[t],
                      table'[r][x] = table'[t][y]
               PROVE  r = t /\ x = y
    BY DEF TablesApart
  <2> DEFINE old(u, z) == z \in DOMAIN table[u] /\ table'[u][z] = table[u][z]
             got(u, z) == \E i \in 1 .. n : /\ s[i].req = u /\ <<i, z>> \in NewPages(s)
                                            /\ table'[u][z] = new[<<i, z>>]
  <2>1. (old(r, x) \/ got(r, x)) /\ (old(t, y) \/ got(t, y))
    BY <1>8
  <2>2. ASSUME NEW u \in Requests, NEW z
        PROVE  /\ old(u, z) => table'[u][z] \in Held
               /\ got(u, z) => table'[u][z] \notin Held
    BY <1>6, <1>9
  <2>3. CASE old(r, x) /\ old(t, y)
    <3>1. /\ x \in DOMAIN table[r] /\ y \in DOMAIN table[t]
          /\ table'[r][x] = table[r][x] /\ table'[t][y] = table[t][y]
      BY <2>3
    <3>2. table[r][x] = table[t][y]
      BY <3>1
    <3>3. TablesApart
      BY DEF LatchInv
    <3> HIDE DEF old, got
    <3> QED BY <3>1, <3>2, <3>3 DEF TablesApart
  <2>4. CASE got(r, x) /\ got(t, y)
    <3>1. PICK i \in 1 .. n : /\ s[i].req = r /\ <<i, x>> \in NewPages(s)
                              /\ table'[r][x] = new[<<i, x>>]
      BY <2>4
    <3>2. PICK j \in 1 .. n : /\ s[j].req = t /\ <<j, y>> \in NewPages(s)
                              /\ table'[t][y] = new[<<j, y>>]
      BY <2>4
    <3>3. <<i, x>> = <<j, y>>
      BY <1>6, <3>1, <3>2
    <3> QED BY <3>1, <3>2, <3>3
  <2>5. CASE old(r, x) /\ got(t, y)
    <3>1. table'[r][x] \in Held /\ table'[t][y] \notin Held
      BY <2>2, <2>5
    <3> QED BY <3>1
  <2>6. CASE got(r, x) /\ old(t, y)
    <3>1. table'[r][x] \notin Held /\ table'[t][y] \in Held
      BY <2>2, <2>6
    <3> QED BY <3>1
  <2> HIDE DEF old, got
  <2> QED BY <2>1, <2>3, <2>4, <2>5, <2>6
<1>11. batch' \in Seq(BatchRow) /\ DOMAIN batch' = 1 .. n
  <2>1. ASSUME NEW i \in 1 .. n
        PROVE  [req |-> s[i].req, start |-> s[i].start,
                ctx |-> len[s[i].req], q |-> s[i].q] \in BatchRow
    BY <1>5 DEF BatchRow
  <2>2. DOMAIN s = 1 .. n
    BY <1>3
  <2>3. batch' = [i \in 1 .. n |-> [req |-> s[i].req, start |-> s[i].start,
                                    ctx |-> len[s[i].req], q |-> s[i].q]]
    BY <1>2, <2>2
  <2>4. batch' \in [1 .. n -> BatchRow]
    BY ONLY <2>1, <2>3
  <2> QED BY <1>3, <2>3, <2>4
<1>12. ASSUME NEW i \in 1 .. n
       PROVE  /\ batch'[i].req = s[i].req /\ batch'[i].ctx = len[s[i].req]
              /\ batch'[i].q = s[i].q /\ batch'[i].start = s[i].start
  BY <1>2, <1>3
<1>13. ASSUME NEW i \in 1 .. n
       PROVE  Len(table'[s[i].req]) = PagesFor(len[s[i].req] + s[i].q)
  <2> DEFINE np == PagesFor(len[s[i].req] + s[i].q)
  <2>1. np \in Nat /\ DOMAIN table'[s[i].req] = 1 .. np
        /\ table'[s[i].req] \in Seq(Blocks)
    BY <1>5, <1>7, <1>8
  <2> HIDE DEF np
  <2>2. Len(table'[s[i].req]) = np
    BY <2>1
  <2> QED BY <2>2 DEF np
<1>14. UNCHANGED <<len, vbo, vflushed>>
  BY DEF Schedule, staged
<1>15. BatchFits'
  <2>1. /\ batch' # <<>>
        /\ \A i, j \in DOMAIN batch' : batch'[i].req = batch'[j].req => i = j
    BY <1>3, <1>4, <1>11, <1>12
  <2>2. ASSUME NEW i \in 1 .. n
        PROVE  /\ PagesFor(batch'[i].ctx + batch'[i].q) <= Len(table'[batch'[i].req])
               /\ batch'[i].ctx = len'[batch'[i].req]
               /\ batch'[i].ctx + batch'[i].q <= MaxLen
    <3>1. PagesFor(batch'[i].ctx + batch'[i].q) <= Len(table'[batch'[i].req])
      BY <1>5, <1>12, <1>13
    <3>2. batch'[i].ctx = len'[batch'[i].req]
      BY <1>12, <1>14
    <3>3. batch'[i].ctx + batch'[i].q <= MaxLen
      BY <1>3, <1>4, <1>12
    <3> QED BY <3>1, <3>2, <3>3
  <2>3. ASSUME NEW i \in 1 .. n
        PROVE  /\ batch'[i].start = (IF i = 1 THEN 0 ELSE batch'[i - 1].start + batch'[i - 1].q)
               /\ batch'[i].start + batch'[i].q <= MaxTokens
    <3>1. i # 1 => i - 1 \in 1 .. n
      OBVIOUS
    <3>2. i # 1 => batch'[i - 1].start = s[i - 1].start /\ batch'[i - 1].q = s[i - 1].q
      BY <1>12, <3>1
    <3>3. /\ s[i].start = (IF i = 1 THEN 0 ELSE s[i - 1].start + s[i - 1].q)
          /\ s[i].start + s[i].q <= MaxTokens
      BY <1>3, <1>4
    <3> QED BY <1>12, <3>2, <3>3
  <2> QED BY <1>11, <2>1, <2>2, <2>3 DEF BatchFits, SeqLen, PagesFor, RowEnd
<1>16. table' \in [Requests -> Seq(Blocks)]
  BY <1>2, <1>8
<1>17. ASSUME NEW r \in Requests PROVE PagesFor(len[r]) <= Len(table'[r])
  <2>1. CASE \E i \in 1 .. n : s[i].req = r
    <3>1. PICK i \in 1 .. n : s[i].req = r
      BY <2>1
    <3>2. /\ len[r] \in Nat /\ s[i].q \in Nat /\ len[r] + s[i].q \in Nat
          /\ len[r] <= len[r] + s[i].q
      BY <1>5, <3>1
    <3>3. PagesFor(len[r]) <= PagesFor(len[r] + s[i].q)
      BY <3>2, Pages
    <3> QED BY <1>13, <3>1, <3>3
  <2>2. CASE ~ \E i \in 1 .. n : s[i].req = r
    BY <1>2, <1>3, <2>2 DEF LatchInv
  <2> QED BY <2>1, <2>2
<1> QED BY <1>10, <1>11, <1>14, <1>15, <1>16, <1>17 DEF LatchInv, PagesFor

\* A settled page of one row of the step is never a written page of another.
LEMMA SettledApart ==
    ASSUME LatchInv, phase # "idle",
           NEW i \in DOMAIN batch, NEW j \in DOMAIN batch
    PROVE  Settled(i) \cap Written(j) = {}
<1>1. /\ BatchFits /\ TablesApart
      /\ batch[i] \in BatchRow /\ batch[j] \in BatchRow
  BY DEF LatchInv
<1> DEFINE ci == batch[i].ctx  ri == batch[i].req  cj == batch[j].ctx  rj == batch[j].req
           qi == batch[i].q  qj == batch[j].q
<1>2. /\ ri \in Requests /\ ci \in Nat /\ qi \in Nat \ {0}
      /\ rj \in Requests /\ cj \in Nat /\ qj \in Nat \ {0}
      /\ PagesFor(ci + qi) <= Len(table[ri]) /\ PagesFor(cj + qj) <= Len(table[rj])
  BY <1>1 DEF BatchRow, BatchFits, SeqLen
<1>3. /\ Len(table[ri]) \in Nat /\ DOMAIN table[ri] = 1 .. Len(table[ri])
      /\ Len(table[rj]) \in Nat /\ DOMAIN table[rj] = 1 .. Len(table[rj])
  BY <1>2 DEF LatchInv
<1>4. ri = rj => i = j
  BY <1>1 DEF BatchFits
<1> SUFFICES ASSUME NEW p \in 0 .. (ci \div Page) - 1,
                    NEW w \in (cj \div Page) .. ((cj + qj) - 1) \div Page,
                    table[ri][p + 1] = table[rj][w + 1]
             PROVE  FALSE
  <2>1. Settled(i) = {table[ri][p + 1] : p \in 0 .. (ci \div Page) - 1}
    BY DEF Settled, Block
  <2>2. Written(j) = {table[rj][w + 1] :
                        w \in (cj \div Page) .. ((cj + qj) - 1) \div Page}
    BY DEF Written, Block, SeqLen
  <2> HIDE DEF ci, ri, cj, rj, qi, qj
  <2> QED BY <2>1, <2>2
<1>5. /\ ci \div Page \in Nat /\ ci \div Page <= PagesFor(ci + qi)
      /\ PagesFor(ci + qi) \in Nat
  BY <1>2, PageBounds
<1>6. /\ cj \div Page \in Nat /\ ((cj + qj) - 1) \div Page \in Nat
      /\ PagesFor(cj + qj) \in Nat
      /\ ((cj + qj) - 1) \div Page + 1 <= PagesFor(cj + qj)
  <2>1. cj \in Nat /\ qj \in Nat \ {0}
    BY <1>2
  <2> HIDE DEF cj, qj
  <2> QED BY <2>1, PageBounds
<1> HIDE DEF ci, ri, cj, rj, qi, qj
<1>7. p + 1 \in DOMAIN table[ri]
  BY <1>2, <1>3, <1>5
<1>8. w + 1 \in DOMAIN table[rj]
  BY <1>2, <1>3, <1>6
<1>9. ri = rj /\ p + 1 = w + 1
  BY <1>1, <1>2, <1>7, <1>8 DEF TablesApart
<1>10. i = j
  BY <1>4, <1>9
<1>11. ci = cj
  BY <1>10 DEF ci, cj
<1> QED BY <1>5, <1>6, <1>9, <1>11

\* What one lifecycle does, page by page: F, the settled pages it flushes, give
\* their v-blocks up; G, written pages that had none, take one.
Lifecycle(F, G) ==
    /\ F \subseteq Blocks /\ G \subseteq AllWritten /\ F \cap AllWritten = {}
    /\ \A b \in F : vbo[b] # NoVBlock /\ \E i \in DOMAIN batch : b \in Settled(i)
    /\ \A b \in G : vbo[b] = NoVBlock
    /\ vbo' = [b \in Blocks |-> IF b \in G THEN vbo'[b]
                                ELSE IF b \in F THEN NoVBlock ELSE vbo[b]]
    /\ \A b \in G : vbo'[b] \in VBlocks
    /\ pool' = [b \in Blocks |-> IF b \in F THEN vpool[vbo[b]] ELSE pool[b]]
    /\ vflushed' = ClearedLatch \cup F
    /\ valid' = (valid \ AllWritten) \cup F
    /\ flist' = Listed(F)
    /\ vslot' = FilledLanes(vbo')
    /\ overflow \in BOOLEAN /\ ~overflow' =>
         ~overflow /\ \A b \in AllWritten : vbo'[b] # NoVBlock

\* A settled page whose latch is set has no v-block left to give up, so what is
\* freed is what is copied; no page of the step is both settled and written.
LEMMA BeginShape ==
    ASSUME LatchInv, BeginStep
    PROVE  \E F, G : Lifecycle(F, G)
<1>1. PICK F \in Collects :
        /\ LET gone == Freed(F)
               v0   == [b \in Blocks |-> IF b \in gone THEN NoVBlock ELSE vbo[b]]
               f0   == [v \in VBlocks |->
                          free[v] + Cardinality({b \in gone : vbo[b] = v})]
           IN \E g \in Pops(v0, f0) :
               LET v1 == [b \in Blocks |-> IF b \in DOMAIN g THEN g[b] ELSE v0[b]]
               IN /\ vbo' = v1 /\ pool' = Copied(Listed(F), v1)
                  /\ overflow' = (overflow \/ DOMAIN g # Needy(v0))
                  /\ vslot' = FilledLanes(v1)
        /\ vflushed' = ClearedLatch \cup F
        /\ flist' = Listed(F)
        /\ valid' = (valid \ AllWritten) \cup {e[1] : e \in Listed(F)}
  BY DEF BeginStep
<1> DEFINE gone == Freed(F)
           v0   == [b \in Blocks |-> IF b \in gone THEN NoVBlock ELSE vbo[b]]
           f0   == [v \in VBlocks |->
                      free[v] + Cardinality({b \in gone : vbo[b] = v})]
           W(h) == [b \in Blocks |-> IF b \in DOMAIN h THEN h[b] ELSE v0[b]]
<1>2. PICK g \in Pops(v0, f0) :
        /\ vbo' = W(g) /\ pool' = Copied(Listed(F), W(g))
        /\ overflow' = (overflow \/ DOMAIN g # Needy(v0))
        /\ vslot' = FilledLanes(W(g))
  BY <1>1
<1>3. phase = "scheduled"
  BY DEF BeginStep
<1>4. ASSUME NEW b \in F
      PROVE  /\ b \in Blocks /\ vbo[b] # NoVBlock
             /\ \E i \in DOMAIN batch : b \in Settled(i)
  BY DEF Collects, Claimable, Eligible
<1>5. F \cap AllWritten = {}
  BY <1>3, <1>4, SettledApart DEF AllWritten
<1>6. ASSUME NEW b \in DOMAIN g
      PROVE  b \in AllWritten /\ g[b] \in VBlocks /\ g[b] # NoVBlock /\ v0[b] = NoVBlock
  <2>1. PICK got \in SUBSET Needy(v0) : g \in [got -> VBlocks]
    BY DEF Pops
  <2> QED BY <2>1, StagingAssumption DEF Needy
<1>7. gone = F
  <2>1. \A b \in ClearedLatch : vbo[b] = NoVBlock
    BY DEF LatchInv, ClearedLatch
  <2>2. \A b \in Eligible : vbo[b] # NoVBlock
    BY DEF Eligible
  <2> QED BY <2>1, <2>2 DEF Freed
<1>8. \A b \in AllWritten : b \in Blocks
  BY DEF AllWritten
<1>9. \A b \in DOMAIN g : b \notin F /\ vbo[b] = NoVBlock
  BY <1>5, <1>6, <1>7, <1>8
<1>10. vbo' = [b \in Blocks |-> IF b \in DOMAIN g THEN g[b]
                                ELSE IF b \in F THEN NoVBlock ELSE vbo[b]]
  BY <1>2, <1>7
<1>11. \A b \in DOMAIN g : vbo'[b] = g[b]
  BY <1>6, <1>8, <1>10
<1>12. vbo' = [b \in Blocks |-> IF b \in DOMAIN g THEN vbo'[b]
                                ELSE IF b \in F THEN NoVBlock ELSE vbo[b]]
  BY ONLY <1>10, <1>11
<1>13. ASSUME NEW b
       PROVE  /\ b \in F => (CHOOSE e \in Listed(F) : e[1] = b) = <<b, vbo[b]>>
              /\ (\E e \in Listed(F) : e[1] = b) <=> b \in F
  <2>1. \A e \in Listed(F) : e[1] = b => e = <<b, vbo[b]>> /\ b \in F
    BY DEF Listed
  <2>2. b \in F => <<b, vbo[b]>> \in Listed(F) /\ <<b, vbo[b]>>[1] = b
    BY DEF Listed
  <2> QED BY <2>1, <2>2
<1>14. pool' = [b \in Blocks |-> IF b \in F THEN vpool[vbo[b]] ELSE pool[b]]
  <2>1. pool' = Copied(Listed(F), W(g))
    BY <1>2
  <2>2. ASSUME NEW b \in Blocks
        PROVE  Copied(Listed(F), W(g))[b] = IF b \in F THEN vpool[vbo[b]] ELSE pool[b]
    <3>1. CASE b \in F
      <4> DEFINE e == CHOOSE x \in Listed(F) : x[1] = b
      <4>1. Copied(Listed(F), W(g))[b] = vpool[e[2]]
        BY <1>13, <3>1 DEF Copied
      <4>2. e = <<b, vbo[b]>>
        BY <1>13, <3>1
      <4> HIDE DEF e
      <4>3. e[2] = vbo[b]
        BY <4>2
      <4> QED BY <3>1, <4>1, <4>3
    <3>2. CASE b \notin F
      BY <1>13, <3>2 DEF Copied
    <3> QED BY <3>1, <3>2
  <2>3. Copied(Listed(F), W(g)) = [b \in Blocks |-> Copied(Listed(F), W(g))[b]]
    BY DEF Copied
  <2> QED BY ONLY <2>1, <2>2, <2>3
<1>15. ASSUME ~overflow', overflow \in BOOLEAN
       PROVE  ~overflow /\ \A b \in AllWritten : vbo'[b] # NoVBlock
  <2>1. ~overflow /\ DOMAIN g = Needy(v0)
    BY <1>2, <1>15
  <2>2. ASSUME NEW b \in AllWritten PROVE vbo'[b] # NoVBlock
    <3>1. CASE b \in DOMAIN g
      BY <1>6, <1>11, <3>1
    <3>2. CASE b \notin DOMAIN g
      <4>1. v0[b] # NoVBlock
        BY <2>1, <3>2 DEF Needy
      <4> QED BY <1>2, <1>8, <3>2, <4>1
    <3> QED BY <3>1, <3>2
  <2> QED BY <2>1, <2>2
<1> HIDE DEF gone, v0, f0
<1>16. vslot' = FilledLanes(vbo')
  BY <1>2
<1>17. {e[1] : e \in Listed(F)} = F
  <2>1. \A e \in Listed(F) : e[1] \in F
    BY DEF Listed
  <2> QED BY <1>13, <2>1
<1>18. Lifecycle(F, DOMAIN g)
  BY <1>1, <1>4, <1>5, <1>6, <1>9, <1>11, <1>12, <1>14, <1>15, <1>16, <1>17 DEF Lifecycle
<1> QED BY <1>18

\* One lifecycle keeps the latch honest, and takes a v-block only from a page
\* it has just copied.
LEMMA LatchBegin ==
    ASSUME LatchInv, BeginStep
    PROVE  /\ LatchInv'
           /\ \A b \in Blocks : vbo[b] # NoVBlock /\ vbo'[b] = NoVBlock =>
                b \in valid' /\ pool'[b] = vpool[vbo[b]]
<1>1. PICK F, G : Lifecycle(F, G)
  BY BeginShape
<1>2. /\ phase = "scheduled" /\ UNCHANGED <<len, table, batch>> /\ phase' = "begun"
  BY DEF BeginStep, sched
<1>3. /\ F \subseteq Blocks /\ G \subseteq AllWritten /\ F \cap AllWritten = {}
      /\ vbo' = [b \in Blocks |-> IF b \in G THEN vbo'[b]
                                  ELSE IF b \in F THEN NoVBlock ELSE vbo[b]]
      /\ \A b \in G : vbo'[b] \in VBlocks
      /\ vflushed' = ClearedLatch \cup F
      /\ valid' = (valid \ AllWritten) \cup F
      /\ pool' = [b \in Blocks |-> IF b \in F THEN vpool[vbo[b]] ELSE pool[b]]
  BY <1>1 DEF Lifecycle
<1>4. \A b \in ClearedLatch : b \in Blocks /\ vbo[b] = NoVBlock /\ b \notin AllWritten
  BY DEF LatchInv, ClearedLatch
<1>5. ASSUME NEW b \in Blocks
      PROVE  /\ b \in G => vbo'[b] \in VBlocks /\ vbo'[b] # NoVBlock
             /\ b \notin G => vbo'[b] = IF b \in F THEN NoVBlock ELSE vbo[b]
  BY <1>3, StagingAssumption
<1>6. vbo' \in [Blocks -> VBlocks \cup {NoVBlock}]
  <2>1. ASSUME NEW b \in Blocks PROVE vbo'[b] \in VBlocks \cup {NoVBlock}
    BY <1>5 DEF LatchInv
  <2>2. vbo' = [b \in Blocks |-> vbo'[b]]
    BY ONLY <1>3
  <2> QED BY ONLY <2>1, <2>2
<1>7. vflushed' \subseteq Blocks
  BY <1>3, <1>4
<1>8. ASSUME NEW b \in vflushed' PROVE vbo'[b] = NoVBlock
  BY <1>3, <1>4, <1>5
<1>9. LatchInv'
  BY <1>2, <1>6, <1>7, <1>8 DEF LatchInv, TablesApart, BatchFits, PagesFor, SeqLen, RowEnd
<1>10. ASSUME NEW b \in Blocks, vbo[b] # NoVBlock, vbo'[b] = NoVBlock
       PROVE  b \in valid' /\ pool'[b] = vpool[vbo[b]]
  BY <1>3, <1>5, <1>10
<1> QED BY <1>9, <1>10

\* The end of a step, and of a request, keeps the tables apart and the latch honest.
LEMMA LatchOther ==
    ASSUME LatchInv, EndStep \/ \E r \in Requests : Finish(r)
    PROVE  LatchInv'
<1>1. CASE EndStep
  <2>1. /\ UNCHANGED <<table, vbo, vflushed>> /\ phase' = "idle" /\ batch' = <<>>
        /\ len' = [r \in Requests |->
                     IF \E i \in DOMAIN batch : batch[i].req = r
                     THEN SeqLen(CHOOSE i \in DOMAIN batch : batch[i].req = r)
                     ELSE len[r]]
    BY <1>1 DEF EndStep, staged
  <2>2. \A i \in DOMAIN batch : SeqLen(i) \in Nat
    <3> SUFFICES ASSUME NEW i \in DOMAIN batch PROVE SeqLen(i) \in Nat
      OBVIOUS
    <3>1. batch[i] \in BatchRow
      BY DEF LatchInv
    <3> QED BY <3>1 DEF BatchRow, SeqLen
  <2>3. len' \in [Requests -> Nat]
    BY <2>1, <2>2 DEF LatchInv
  <2>4. ASSUME NEW r \in Requests PROVE PagesFor(len'[r]) <= Len(table[r])
    <3>1. CASE \E i \in DOMAIN batch : batch[i].req = r
      <4>1. PICK i \in DOMAIN batch : batch[i].req = r /\ len'[r] = SeqLen(i)
        BY <2>1, <3>1
      <4>2. phase = "reading"
        BY <1>1 DEF EndStep
      <4> QED BY <4>1, <4>2 DEF LatchInv, BatchFits
    <3>2. CASE ~ \E i \in DOMAIN batch : batch[i].req = r
      BY <2>1, <3>2 DEF LatchInv
    <3> QED BY <3>1, <3>2
  <2> QED BY <2>1, <2>3, <2>4 DEF LatchInv, TablesApart, PagesFor
<1>2. ASSUME NEW r \in Requests, Finish(r) PROVE LatchInv'
  <2>1. /\ len' = [len EXCEPT ![r] = 0] /\ table' = [table EXCEPT ![r] = <<>>]
        /\ UNCHANGED <<batch, vbo, vflushed, phase>> /\ phase = "idle"
    BY <1>2 DEF Finish, staged
  <2>2. len' \in [Requests -> Nat] /\ table' \in [Requests -> Seq(Blocks)]
    BY <2>1 DEF LatchInv
  <2>3. \A t \in Requests : \A x \in DOMAIN table'[t] :
          x \in DOMAIN table[t] /\ table'[t][x] = table[t][x]
    BY <2>1 DEF LatchInv
  <2>4. TablesApart'
    BY <2>3 DEF LatchInv, TablesApart
  <2>5. ASSUME NEW t \in Requests PROVE PagesFor(len'[t]) <= Len(table'[t])
    <3>1. CASE t = r
      BY <2>1, <3>1, NoPages DEF LatchInv
    <3>2. CASE t # r
      BY <2>1, <3>2 DEF LatchInv
    <3> QED BY <3>1, <3>2
  <2> QED BY <2>1, <2>2, <2>4, <2>5 DEF LatchInv, PagesFor
<1> QED BY <1>1, <1>2

\* What leaves the tables, the batch and the latches alone keeps all of it.
LEMMA LatchStutter ==
    ASSUME LatchInv, UNCHANGED <<len, table, batch, vbo, vflushed>>,
           phase' # "idle" => phase # "idle"
    PROVE  LatchInv'
<1>1. BatchFits => BatchFits'
  BY DEF BatchFits, SeqLen, RowEnd, PagesFor
<1> QED BY <1>1 DEF LatchInv, TablesApart, PagesFor

LEMMA LatchInit == Init => LatchInv
BY NoPages DEF Init, LatchInv, TablesApart

LEMMA LatchStep ==
    LatchInv /\ [Next]_vars =>
        /\ LatchInv'
        /\ [\A b \in Blocks : vbo[b] # NoVBlock /\ vbo'[b] = NoVBlock =>
              b \in valid' /\ pool'[b] = vpool[vbo[b]]]_vars
<1> SUFFICES ASSUME LatchInv, [Next]_vars
             PROVE  /\ LatchInv'
                    /\ \A b \in Blocks : vbo[b] # NoVBlock /\ vbo'[b] = NoVBlock =>
                         b \in valid' /\ pool'[b] = vpool[vbo[b]]
  OBVIOUS
<1>1. CASE BeginStep
  BY <1>1, LatchBegin
<1>2. CASE UNCHANGED vbo /\ LatchInv'
  BY <1>2
<1>3. Schedule => UNCHANGED vbo /\ LatchInv'
  BY LatchSchedule DEF Schedule, staged
<1>4. EndStep \/ (\E r \in Requests : Finish(r)) => UNCHANGED vbo /\ LatchInv'
  BY LatchOther DEF EndStep, Finish, staged
<1>5. Capture => UNCHANGED vbo /\ LatchInv'
  BY LatchStutter DEF Capture, sched
<1>6. \A padded : Scatter(padded) => UNCHANGED vbo /\ LatchInv'
  BY LatchStutter DEF Scatter, sched, staged
<1>7. UNCHANGED vars => UNCHANGED vbo /\ LatchInv'
  BY LatchStutter DEF vars, sched, staged
<1> QED BY <1>1, <1>2, <1>3, <1>4, <1>5, <1>6, <1>7 DEF Next

\* A v-block is taken from a page only in a step that copies its bytes to the
\* pinned pool and marks them valid: on the unfused lifecycle too, where a
\* latched page that still had a v-block would lose it uncopied.
THEOREM StagingFreed == Spec => FreedAfterCopy
BY LatchInit, LatchStep, PTL DEF Spec, FreedAfterCopy

-----------------------------------------------------------------------------
(* Every token is served.  The invariant says, as long as the stack has not  *)
(* underflowed, where the tokens computed so far are: in the staging block   *)
(* of their page if it has one, in the pinned pool otherwise (Served).  A    *)
(* page that is not complete has to keep its staging block (TailStaged): a   *)
(* new one would lose the tokens it already holds.  A step adds the blocks   *)
(* of the pages it writes (begun), then the bytes of its tokens (reading).   *)

Cells == [blk : Blocks \cup {"junk"}, occ : Nat]

\* The types of every variable.
StagingTypes ==
    /\ len \in [Requests -> 0 .. MaxLen]
    /\ occ \in [Blocks -> Nat]
    /\ valid \subseteq Blocks /\ overflow \in BOOLEAN
    /\ flist \subseteq Blocks \X VBlocks
    /\ \A t \in Lanes : vslot[t] = NoLane \/ (vslot[t].vb \in VBlocks /\ vslot[t].off \in Offsets)
    /\ vpool \in [VBlocks -> [Offsets -> Cells]]
    /\ pool \in [Blocks -> [Offsets -> Cells]]
    /\ phase \in {"idle", "scheduled", "begun", "reading"}

\* The source of block b has the bytes of its present allocation at o.
Stored(b, o) == Source(b)[o] = Tag(b)

Served ==
    \A r \in Requests : \A n \in Nat :
        n < len[r] => Stored(table[r][n \div Page + 1], n % Page)
TailStaged ==
    \A r \in Requests :
        len[r] % Page # 0 => vbo[table[r][len[r] \div Page + 1]] # NoVBlock
CompleteRetrievable ==
    \A r \in Requests : \A p \in Nat :
        p < len[r] \div Page =>
            \/ vbo[table[r][p + 1]] # NoVBlock
            \/ table[r][p + 1] \in valid

\* After the prologue: what the step writes is staged, and the lanes say where.
LanesPoint ==
    \A t \in Lanes :
        /\ t < NumTokens => vslot[t] = [vb |-> vbo[TokenBlk(t)], off |-> TokenPos(t) % Page]
        /\ NumTokens <= t => vslot[t] = NoLane
StepServed ==
    \A i \in DOMAIN batch : \A n \in Nat :
        n < SeqLen(i) => Stored(Block(i, n \div Page), n % Page)

StoreInv ==
    ~overflow =>
        /\ Served /\ TailStaged /\ CompleteRetrievable
        /\ phase \in {"begun", "reading"} => \A b \in AllWritten : vbo[b] # NoVBlock
        /\ phase = "begun" => LanesPoint
        /\ phase = "reading" => StepServed

StagingInv == PartInv /\ LatchInv /\ StagingTypes /\ StoreInv

\* Where a token of a request is.
LEMMA TokenPage ==
    ASSUME LatchInv, NEW r \in Requests, NEW m \in Nat, PagesFor(m) <= Len(table[r]),
           NEW n \in Nat, n < m
    PROVE  /\ n \div Page \in Nat /\ n % Page \in Offsets
           /\ n \div Page + 1 \in DOMAIN table[r]
           /\ table[r][n \div Page + 1] \in Blocks
<1>1. /\ n \div Page \in Nat /\ n % Page \in Offsets /\ PagesFor(m) \in Nat
      /\ n \div Page + 1 <= PagesFor(m)
  BY Pages
<1>2. table[r] \in Seq(Blocks) /\ Len(table[r]) \in Nat
  BY DEF LatchInv
<1>3. n \div Page + 1 \in 1 .. Len(table[r])
  BY <1>1, <1>2
<1> QED BY <1>1, <1>2, <1>3

\* The fields of a row of the step, which is its request as it is.
LEMMA RowFacts ==
    ASSUME LatchInv, phase # "idle", NEW i \in DOMAIN batch
    PROVE  /\ i \in 1 .. Len(batch) /\ Len(batch) \in Nat
           /\ batch[i].req \in Requests /\ batch[i].start \in Nat
           /\ batch[i].ctx \in Nat /\ batch[i].q \in Nat \ {0}
           /\ SeqLen(i) \in Nat /\ SeqLen(i) = batch[i].ctx + batch[i].q
           /\ batch[i].ctx = len[batch[i].req] /\ SeqLen(i) <= MaxLen
           /\ RowEnd(i) \in Nat /\ RowEnd(i) = batch[i].start + batch[i].q
           /\ RowEnd(i) <= MaxTokens
           /\ batch[i].start = (IF i = 1 THEN 0 ELSE RowEnd(i - 1))
           /\ PagesFor(SeqLen(i)) <= Len(table[batch[i].req])
<1>1. batch \in Seq(BatchRow) /\ BatchFits
  BY DEF LatchInv
<1>2. batch[i] \in BatchRow /\ i \in 1 .. Len(batch) /\ Len(batch) \in Nat
  BY <1>1
<1>3. /\ batch[i].req \in Requests /\ batch[i].start \in Nat
      /\ batch[i].ctx \in Nat /\ batch[i].q \in Nat \ {0}
  BY <1>2 DEF BatchRow
<1> QED BY <1>1, <1>2, <1>3 DEF BatchFits, SeqLen, RowEnd

\* A settled page of the step is a complete page of its request.
LEMMA SettledPage ==
    ASSUME LatchInv, phase # "idle", NEW i \in DOMAIN batch, NEW b \in Settled(i)
    PROVE  \E p \in Nat :
             /\ p < len[batch[i].req] \div Page /\ p + 1 \in DOMAIN table[batch[i].req]
             /\ b = table[batch[i].req][p + 1]
<1>1. /\ batch[i].req \in Requests /\ batch[i].ctx \in Nat
      /\ batch[i].ctx = len[batch[i].req]
      /\ PagesFor(len[batch[i].req]) <= Len(table[batch[i].req])
      /\ table[batch[i].req] \in Seq(Blocks)
  BY RowFacts DEF LatchInv
<1>2. /\ batch[i].ctx \div Page \in Nat /\ PagesFor(batch[i].ctx) \in Nat
      /\ batch[i].ctx \div Page <= PagesFor(batch[i].ctx)
  BY <1>1, Pages
<1>3. PICK p \in 0 .. (batch[i].ctx \div Page) - 1 : b = table[batch[i].req][p + 1]
  BY DEF Settled, Block
<1>4. p \in Nat /\ p < batch[i].ctx \div Page
  BY <1>2, <1>3
<1>5. p + 1 \in 1 .. Len(table[batch[i].req])
  BY <1>1, <1>2, <1>4
<1>6. p + 1 \in DOMAIN table[batch[i].req]
  BY <1>1, <1>5
<1> QED BY <1>1, <1>3, <1>4, <1>6

\* A written page of the step lies past the complete pages of its request.
LEMMA WrittenPage ==
    ASSUME LatchInv, phase # "idle", NEW i \in DOMAIN batch, NEW b \in Written(i)
    PROVE  \E w \in Nat :
             /\ len[batch[i].req] \div Page <= w /\ w + 1 \in DOMAIN table[batch[i].req]
             /\ b = table[batch[i].req][w + 1]
<1>1. /\ batch[i].req \in Requests /\ batch[i].ctx \in Nat /\ batch[i].q \in Nat \ {0}
      /\ batch[i].ctx = len[batch[i].req] /\ SeqLen(i) = batch[i].ctx + batch[i].q
      /\ PagesFor(SeqLen(i)) <= Len(table[batch[i].req])
      /\ table[batch[i].req] \in Seq(Blocks) /\ SeqLen(i) \in Nat
  BY RowFacts DEF LatchInv
<1>2. batch[i].ctx \div Page \in Nat
  BY <1>1, Pages
<1>3. PICK w \in (batch[i].ctx \div Page) .. (SeqLen(i) - 1) \div Page :
        b = table[batch[i].req][w + 1]
  BY DEF Written, Block
<1>4. SeqLen(i) - 1 \in Nat /\ SeqLen(i) - 1 < SeqLen(i)
  BY <1>1
<1>5. /\ (SeqLen(i) - 1) \div Page \in Nat /\ PagesFor(SeqLen(i)) \in Nat
      /\ (SeqLen(i) - 1) \div Page + 1 <= PagesFor(SeqLen(i))
  BY <1>1, <1>4, Pages
<1>6. w \in Nat /\ batch[i].ctx \div Page <= w /\ w <= (SeqLen(i) - 1) \div Page
  BY <1>2, <1>3, <1>5
<1>7. w + 1 \in 1 .. Len(table[batch[i].req])
  BY <1>1, <1>5, <1>6
<1>8. w + 1 \in DOMAIN table[batch[i].req]
  BY <1>1, <1>7
<1> QED BY <1>1, <1>3, <1>6, <1>8

\* The page of a new token is a written page.
LEMMA TokenWritten ==
    ASSUME LatchInv, phase # "idle", NEW i \in DOMAIN batch,
           NEW n \in Nat, batch[i].ctx <= n, n < SeqLen(i)
    PROVE  Block(i, n \div Page) \in Written(i) /\ Block(i, n \div Page) \in AllWritten
<1>1. /\ batch[i].ctx \in Nat /\ SeqLen(i) \in Nat /\ SeqLen(i) - 1 \in Nat
      /\ n <= SeqLen(i) - 1 /\ batch[i].req \in Requests
      /\ PagesFor(SeqLen(i)) <= Len(table[batch[i].req])
  BY RowFacts
<1>2. /\ batch[i].ctx \div Page <= n \div Page /\ n \div Page \in Nat
      /\ batch[i].ctx \div Page \in Nat
      /\ n \div Page <= (SeqLen(i) - 1) \div Page /\ (SeqLen(i) - 1) \div Page \in Nat
  BY <1>1, Pages
<1>3. n \div Page \in (batch[i].ctx \div Page) .. (SeqLen(i) - 1) \div Page
  BY <1>2
<1>4. Block(i, n \div Page) \in Written(i)
  BY <1>3 DEF Written
<1>5. Block(i, n \div Page) \in Blocks
  BY <1>1, TokenPage DEF Block
<1> QED BY <1>4, <1>5 DEF AllWritten

\* A block of a table is that of one request and one page.
LEMMA OnePlace ==
    ASSUME LatchInv, NEW r \in Requests, NEW t \in Requests,
           NEW x \in DOMAIN table[r], NEW y \in DOMAIN table[t],
           table[r][x] = table[t][y]
    PROVE  r = t /\ x = y
BY DEF LatchInv, TablesApart

\* An old token lies in a complete page or in the tail page.
LEMMA OldToken ==
    ASSUME NEW n \in Nat, NEW m \in Nat, n < m
    PROVE  /\ n \div Page <= m \div Page
           /\ n \div Page = m \div Page => m % Page # 0
<1>1. /\ n \div Page \in Nat /\ m \div Page \in Nat /\ n \div Page <= m \div Page
  BY Pages
<1>2. /\ n = Page * (n \div Page) + (n % Page) /\ m = Page * (m \div Page) + (m % Page)
      /\ n % Page \in Nat /\ m % Page \in Nat
  BY StagingAssumption
<1>3. ASSUME n \div Page = m \div Page, m % Page = 0 PROVE FALSE
  <2>1. Page * (n \div Page) = Page * (m \div Page) /\ Page * (m \div Page) \in Nat
    BY <1>1, <1>3, StagingAssumption
  <2> QED BY <1>2, <1>3, <2>1
<1> QED BY <1>1, <1>3

\* Two blocks do not share a v-block.
LEMMA OneHolder ==
    ASSUME PartInv, NEW a \in Blocks, NEW b \in Blocks,
           vbo[a] = vbo[b], vbo[a] # NoVBlock
    PROVE  a = b
<1> DEFINE v == vbo[a]
           H == {c \in Blocks : vbo[c] = v}
<1>1. v \in VBlocks
  BY DEF PartInv
<1>2. free[v] \in Nat /\ free[v] + Cardinality(H) = 1
  BY <1>1 DEF PartInv, FreePartition
<1>3. SUFFICES ASSUME a # b PROVE FALSE
  OBVIOUS
<1>4. {a} \subseteq Blocks /\ {b} \subseteq Blocks /\ {a} \cap {b} = {}
  BY <1>3
<1>5. /\ Cardinality({a} \cup {b}) = Cardinality({a}) + Cardinality({b})
      /\ Cardinality({a}) = 1 /\ Cardinality({b}) = 1
  BY <1>4, HoldersSplit, FS_Singleton
<1>6. {a} \cup {b} \subseteq H /\ IsFiniteSet(H)
  BY StagingAssumption, FS_Subset
<1>7. Cardinality({a} \cup {b}) <= Cardinality(H) /\ Cardinality(H) \in Nat
  BY <1>6, FS_Subset, FS_CardinalityType
<1> HIDE DEF H, v
<1> QED BY <1>2, <1>5, <1>7

\* A page that is begun is counted.
LEMMA TailCount ==
    ASSUME NEW n \in Nat, n % Page # 0
    PROVE  /\ n \div Page + 1 <= PagesFor(n) /\ n - 1 \in Nat
           /\ (n - 1) \div Page = n \div Page
<1>1. n # 0
  BY StagingAssumption
<1>2. n - 1 \in Nat /\ n - 1 < n
  BY <1>1
<1>3. /\ (n - 1) \div Page \in Nat /\ n \div Page \in Nat /\ PagesFor(n) \in Nat
      /\ (n - 1) \div Page + 1 <= PagesFor(n)
  BY <1>2, Pages
<1>4. (n - 1) \div Page = n \div Page
  <2> DEFINE k == n \div Page
  <2>1. k \in Nat /\ n = Page * k + (n % Page) /\ n % Page \in Nat /\ n % Page < Page
        /\ Page \in Nat \ {0}
    BY StagingAssumption
  <2> HIDE DEF k
  <2>2. Page * k \in Nat /\ Page * (k + 1) = Page * k + Page
    BY <2>1
  <2>3. Page * k <= n - 1 /\ n - 1 < Page * (k + 1)
    BY <1>2, <2>1, <2>2
  <2>4. (n - 1) \div Page = k
    BY <1>2, <2>1, <2>3
  <2> QED BY <2>4 DEF k
<1> QED BY <1>2, <1>3, <1>4

\* The page of a place, and the place in the page.
LEMMA Places ==
    ASSUME NEW p \in Nat, NEW o \in Offsets, NEW n \in Nat, p < n \div Page
    PROVE  /\ p * Page + o \in Nat /\ p * Page + o < n
           /\ (p * Page + o) \div Page = p /\ (p * Page + o) % Page = o
<1>1. /\ p * Page + o \in Nat /\ p * Page + o < (p + 1) * Page
      /\ (p * Page + o) \div Page = p /\ (p * Page + o) % Page = o
  BY StagingAssumption DEF Offsets
<1>2. (p + 1) * Page <= n
  BY StagingAssumption
<1>3. (p + 1) * Page \in Nat
  BY StagingAssumption
<1> QED BY <1>1, <1>2, <1>3

\* The last token is in the last complete page or past it.
LEMMA LastToken ==
    ASSUME NEW n \in Nat \ {0}
    PROVE  /\ n - 1 \in Nat /\ (n - 1) \div Page \in Nat
           /\ n \div Page <= (n - 1) \div Page + 1
<1>1. n - 1 \in Nat
  OBVIOUS
<1> DEFINE k == (n - 1) \div Page  m == n \div Page
<1>2. /\ k \in Nat /\ m \in Nat /\ Page \in Nat \ {0}
      /\ n - 1 < Page * (k + 1) /\ Page * m <= n
  <2>1. /\ k \in Nat /\ m \in Nat /\ Page \in Nat \ {0}
        /\ n - 1 = Page * k + ((n - 1) % Page) /\ (n - 1) % Page \in 0 .. Page - 1
        /\ n = Page * m + (n % Page) /\ n % Page \in Nat
    BY <1>1, StagingAssumption
  <2> HIDE DEF k, m
  <2>2. Page * (k + 1) = Page * k + Page /\ Page * k \in Nat /\ Page * m \in Nat
    BY <2>1
  <2> QED BY <2>1, <2>2
<1> HIDE DEF k, m
<1>3. ASSUME k + 1 < m PROVE FALSE
  <2>1. Page * (k + 2) <= Page * m /\ Page * (k + 2) = Page * (k + 1) + Page
        /\ Page * (k + 1) \in Nat
    BY <1>2, <1>3
  <2> QED BY <1>2, <2>1
<1> QED BY <1>1, <1>2, <1>3 DEF k, m

\* The tail page of a request is in its table.
LEMMA TailPage ==
    ASSUME LatchInv, NEW r \in Requests, len[r] % Page # 0
    PROVE  /\ len[r] \div Page \in Nat
           /\ len[r] \div Page + 1 \in DOMAIN table[r]
           /\ len[r] \div Page + 1 <= PagesFor(len[r])
           /\ table[r][len[r] \div Page + 1] \in Blocks
<1>1. /\ len[r] \in Nat /\ table[r] \in Seq(Blocks)
      /\ PagesFor(len[r]) <= Len(table[r]) /\ Len(table[r]) \in Nat
  BY DEF LatchInv
<1>2. /\ len[r] \div Page \in Nat /\ PagesFor(len[r]) \in Nat
      /\ len[r] \div Page + 1 <= PagesFor(len[r])
  BY <1>1, Pages, TailCount
<1>3. len[r] \div Page + 1 \in 1 .. Len(table[r])
  BY <1>1, <1>2
<1> QED BY <1>1, <1>2, <1>3

\* The least-number principle for a set, from the library's for a relation.
LEMMA LeastInRelation ==
    ASSUME NEW T \in SUBSET Nat, NEW R,
           \E x \in T : \A y \in T : ~ (<<y, x>> \in R),
           \A x, y \in Nat : y < x => <<y, x>> \in R
    PROVE  \E x \in T : \A y \in T : x <= y
<1>1. PICK x \in T : \A y \in T : ~ (<<y, x>> \in R)
  OBVIOUS
<1>2. ASSUME NEW y \in T PROVE x <= y
  <2>1. ~ (<<y, x>> \in R)
    BY <1>1
  <2>2. x \in Nat /\ y \in Nat
    OBVIOUS
  <2>3. ~ (y < x)
    BY <2>1, <2>2
  <2> QED BY <2>2, <2>3
<1> QED BY <1>2

\* A non-empty set of naturals has a least element.
LEMMA LeastOf ==
    ASSUME NEW T \in SUBSET Nat, T # {}
    PROVE  \E x \in T : \A y \in T : x <= y
<1>1. \E x \in T : \A y \in T : ~ (<<y, x>> \in OpToRel(<, Nat))
  BY NatLessThanWellFounded, WFMin, Zenon
<1>2. \A x, y \in Nat : y < x => <<y, x>> \in OpToRel(<, Nat)
  BY DEF OpToRel
<1> QED BY <1>1, <1>2, LeastInRelation, Zenon

\* The rows of a step take their lanes one after the other.
LEMMA RowsInOrder ==
    ASSUME LatchInv, phase # "idle", NEW i \in DOMAIN batch, NEW j \in DOMAIN batch, i < j
    PROVE  RowEnd(i) <= batch[j].start
<1> DEFINE T == {k \in DOMAIN batch : i < k /\ ~ (RowEnd(i) <= batch[k].start)}
<1>0. DOMAIN batch = 1 .. Len(batch) /\ Len(batch) \in Nat
  BY DEF LatchInv
<1>1. SUFFICES ASSUME T # {} PROVE FALSE
  BY <1>0
<1>2. T \in SUBSET Nat
  BY <1>0
<1>3. PICK k \in T : \A y \in T : k <= y
  BY <1>1, <1>2, LeastOf
<1>4. /\ i \in DOMAIN batch /\ k \in DOMAIN batch /\ i \in Nat /\ k \in Nat /\ i < k
      /\ ~ (RowEnd(i) <= batch[k].start) /\ k # 1 /\ k - 1 \in DOMAIN batch
  BY <1>0, <1>3
<1>5. /\ batch[k].start = RowEnd(k - 1) /\ RowEnd(i) \in Nat /\ RowEnd(k - 1) \in Nat
      /\ batch[k - 1].start <= RowEnd(k - 1) /\ batch[k - 1].start \in Nat
  <2>1. batch[k].start = RowEnd(k - 1) /\ RowEnd(i) \in Nat
    BY <1>4, RowFacts
  <2>2. /\ batch[k - 1].start \in Nat /\ batch[k - 1].q \in Nat
        /\ RowEnd(k - 1) = batch[k - 1].start + batch[k - 1].q
    BY <1>4, RowFacts
  <2> QED BY <2>1, <2>2
<1>6. k - 1 # i
  BY <1>4, <1>5
<1>7. k - 1 \notin T /\ i < k - 1
  BY <1>0, <1>3, <1>4, <1>6
<1>8. RowEnd(i) <= batch[k - 1].start
  BY <1>4, <1>7
<1> QED BY <1>4, <1>5, <1>8

\* The token a lane of the step writes is a new one of its row.
LEMMA LaneToken ==
    ASSUME LatchInv, phase # "idle", NEW t \in Lanes, t < NumTokens
    PROVE  /\ LaneRow(t) \in DOMAIN batch
           /\ batch[LaneRow(t)].start <= t /\ t < RowEnd(LaneRow(t))
           /\ TokenPos(t) \in Nat /\ batch[LaneRow(t)].ctx <= TokenPos(t)
           /\ TokenPos(t) < SeqLen(LaneRow(t))
           /\ TokenBlk(t) \in Blocks /\ TokenBlk(t) \in AllWritten
           /\ TokenPos(t) % Page \in Offsets
<1>0. DOMAIN batch = 1 .. Len(batch) /\ Len(batch) \in Nat /\ batch # <<>> /\ t \in Nat
  BY StagingAssumption DEF LatchInv, BatchFits, Lanes
<1> DEFINE T == {i \in DOMAIN batch : t < RowEnd(i)}
<1>1. Len(batch) \in T /\ T \in SUBSET Nat
  BY <1>0 DEF NumTokens, LatchInv
<1>2. PICK i \in T : \A y \in T : i <= y
  BY <1>1, LeastOf
<1>3. i \in DOMAIN batch /\ t < RowEnd(i) /\ i \in Nat
  BY <1>0, <1>2
<1>4. batch[i].start <= t
  <2>1. CASE i = 1
    BY <1>0, <1>3, <2>1, RowFacts
  <2>2. CASE i # 1
    <3>1. i - 1 \in DOMAIN batch /\ i - 1 \notin T
      BY <1>0, <1>2, <1>3, <2>2
    <3>2. RowEnd(i - 1) \in Nat /\ ~ (t < RowEnd(i - 1))
      BY <3>1, RowFacts
    <3>3. batch[i].start = RowEnd(i - 1)
      BY <1>3, <2>2, RowFacts
    <3> QED BY <1>0, <3>2, <3>3
  <2> QED BY <2>1, <2>2
<1> DEFINE r == LaneRow(t)
<1>5. r \in DOMAIN batch /\ batch[r].start <= t /\ t < RowEnd(r)
  BY <1>3, <1>4 DEF LaneRow
<1> HIDE DEF r
<1>6. /\ batch[r].start \in Nat /\ batch[r].ctx \in Nat /\ batch[r].q \in Nat
      /\ SeqLen(r) = batch[r].ctx + batch[r].q /\ RowEnd(r) = batch[r].start + batch[r].q
  BY <1>5, RowFacts
<1> DEFINE n == batch[r].ctx + (t - batch[r].start)
<1>7. n \in Nat /\ batch[r].ctx <= n /\ n < SeqLen(r)
  BY <1>0, <1>5, <1>6
<1> HIDE DEF n
<1>8. TokenPos(t) = n
  BY DEF TokenPos, n, r
<1>9. n % Page \in Offsets
  BY <1>7, Pages
<1>10. Block(r, n \div Page) \in AllWritten
  BY <1>5, <1>7, TokenWritten
<1>11. TokenBlk(t) \in AllWritten /\ TokenBlk(t) \in Blocks
  BY <1>8, <1>10 DEF TokenBlk, r, AllWritten
<1> QED BY <1>5, <1>7, <1>8, <1>9, <1>11 DEF r

\* Every new token of a row has a lane, its own.
LEMMA TokenLane ==
    ASSUME LatchInv, phase # "idle", NEW i \in DOMAIN batch,
           NEW n \in Nat, batch[i].ctx <= n, n < SeqLen(i)
    PROVE  \E t \in Lanes : t < NumTokens /\ LaneRow(t) = i /\ TokenPos(t) = n
<1> DEFINE t == (batch[i].start + n) - batch[i].ctx
<1>0. DOMAIN batch = 1 .. Len(batch) /\ Len(batch) \in Nat /\ i \in Nat
  BY DEF LatchInv
<1>1. /\ batch[i].start \in Nat /\ batch[i].ctx \in Nat /\ batch[i].q \in Nat
      /\ SeqLen(i) = batch[i].ctx + batch[i].q /\ RowEnd(i) = batch[i].start + batch[i].q
      /\ RowEnd(i) <= MaxTokens
  BY RowFacts
<1>2. t \in Nat /\ batch[i].start <= t /\ t < RowEnd(i) /\ t <= MaxTokens - 1
  BY <1>1, StagingAssumption
<1>3. t \in Lanes
  BY <1>2, StagingAssumption DEF Lanes
<1>4. batch[i].ctx + (t - batch[i].start) = n
  BY <1>1
<1> HIDE DEF t
<1>5. t < NumTokens
  <2>1. CASE i = Len(batch)
    BY <1>2, <2>1 DEF NumTokens
  <2>2. CASE i # Len(batch)
    <3>1. Len(batch) \in DOMAIN batch /\ i < Len(batch)
      BY <1>0, <2>2
    <3>2. RowEnd(i) <= batch[Len(batch)].start
      BY <3>1, RowsInOrder
    <3>3. /\ batch[Len(batch)].start <= RowEnd(Len(batch)) /\ RowEnd(i) \in Nat
          /\ batch[Len(batch)].start \in Nat /\ RowEnd(Len(batch)) \in Nat
      BY <3>1, RowFacts
    <3> QED BY <1>2, <3>2, <3>3 DEF NumTokens
  <2> QED BY <2>1, <2>2
<1>6. ASSUME NEW j \in DOMAIN batch, batch[j].start <= t, t < RowEnd(j)
      PROVE  j = i
  <2>1. /\ j \in Nat /\ batch[j].start \in Nat /\ RowEnd(j) \in Nat
        /\ RowEnd(i) \in Nat
    BY <1>0, RowFacts
  <2>2. ~ (i < j)
    <3>1. i < j => RowEnd(i) <= batch[j].start
      BY RowsInOrder
    <3> QED BY <1>2, <1>6, <2>1, <3>1
  <2>3. ~ (j < i)
    <3>1. j < i => RowEnd(j) <= batch[i].start
      BY RowsInOrder
    <3> QED BY <1>1, <1>2, <1>6, <2>1, <3>1
  <2> QED BY <1>0, <2>1, <2>2, <2>3
<1>7. LaneRow(t) = i
  BY <1>2, <1>6 DEF LaneRow
<1>8. TokenPos(t) = n
  BY <1>4, <1>7 DEF TokenPos
<1> QED BY <1>3, <1>5, <1>7, <1>8

-----------------------------------------------------------------------------
(* The steps. *)

LEMMA StoreInit == Init => StagingTypes /\ StoreInv
<1> SUFFICES ASSUME Init PROVE StagingTypes /\ StoreInv
  OBVIOUS
<1>1. \A r \in Requests : len[r] = 0
  BY DEF Init
<1>2. 0 \div Page = 0 /\ 0 % Page = 0
  BY StagingAssumption
<1>3. Served /\ TailStaged /\ CompleteRetrievable
  BY <1>1, <1>2 DEF Served, TailStaged, CompleteRetrievable
<1>4. StoreInv
  BY <1>3 DEF StoreInv, Init
<1>5. Junk \in Cells /\ Blank \in [Offsets -> Cells]
  BY DEF Junk, Cells, Blank
<1>6. StagingTypes
  <2>1. /\ len \in [Requests -> 0 .. MaxLen] /\ occ \in [Blocks -> Nat]
        /\ valid \subseteq Blocks /\ overflow \in BOOLEAN /\ flist \subseteq Blocks \X VBlocks
        /\ phase = "idle"
    <3>1. 0 \in 0 .. MaxLen
      BY StagingAssumption
    <3>2. len \in [Requests -> 0 .. MaxLen] /\ occ \in [Blocks -> Nat]
      BY <3>1 DEF Init
    <3> QED BY <3>2 DEF Init
  <2>2. \A t \in Lanes : vslot[t] = NoLane
    BY DEF Init
  <2>3. /\ vpool \in [VBlocks -> [Offsets -> Cells]] /\ pool \in [Blocks -> [Offsets -> Cells]]
    BY <1>5 DEF Init
  <2> QED BY <2>1, <2>2, <2>3 DEF StagingTypes
<1> QED BY <1>4, <1>6

\* The scheduler leaves the pages of the tokens computed so far where they are,
\* and what it allocates nobody holds.
LEMMA ScheduleKeeps ==
    ASSUME LatchInv, StagingTypes, Schedule
    PROVE  /\ \A r \in Requests : \A x \in DOMAIN table[r] :
                x <= PagesFor(len[r]) =>
                    /\ table'[r][x] = table[r][x]
                    /\ occ'[table[r][x]] = occ[table[r][x]]
           /\ occ' \in [Blocks -> Nat]
<1>1. PICK s \in Batches : \E new \in Injection(NewPages(s), Blocks \ Held) :
        /\ table' = [r \in Requests |->
                       IF \E i \in DOMAIN s : s[i].req = r
                       THEN LET i == CHOOSE i \in DOMAIN s : s[i].req = r
                            IN [x \in 1 .. PagesFor(len[r] + s[i].q) |->
                                  IF x <= Len(table[r]) THEN table[r][x] ELSE new[<<i, x>>]]
                       ELSE table[r]]
        /\ occ' = [b \in Blocks |->
                     IF \E p \in NewPages(s) : new[p] = b THEN occ[b] + 1 ELSE occ[b]]
  BY DEF Schedule
<1>2. PICK new \in Injection(NewPages(s), Blocks \ Held) :
        /\ table' = [r \in Requests |->
                       IF \E i \in DOMAIN s : s[i].req = r
                       THEN LET i == CHOOSE i \in DOMAIN s : s[i].req = r
                            IN [x \in 1 .. PagesFor(len[r] + s[i].q) |->
                                  IF x <= Len(table[r]) THEN table[r][x] ELSE new[<<i, x>>]]
                       ELSE table[r]]
        /\ occ' = [b \in Blocks |->
                     IF \E p \in NewPages(s) : new[p] = b THEN occ[b] + 1 ELSE occ[b]]
  BY <1>1
<1>3. PICK n \in Nat : s \in [1 .. n -> [req : Requests, start : Lanes, q : 1 .. MaxTokens]]
  <2>1. Cardinality(Requests) \in Nat
    BY FS_CardinalityType, StagingAssumption
  <2> QED BY <2>1 DEF Batches, Rows
<1>4. \A p \in NewPages(s) : new[p] \notin Held
  BY DEF Injection
<1>5. occ' \in [Blocks -> Nat]
  BY <1>2 DEF StagingTypes
<1>6. ASSUME NEW r \in Requests, NEW x \in DOMAIN table[r], x <= PagesFor(len[r])
      PROVE  /\ table'[r][x] = table[r][x]
             /\ occ'[table[r][x]] = occ[table[r][x]]
  <2>1. /\ x \in 1 .. Len(table[r]) /\ Len(table[r]) \in Nat /\ table[r][x] \in Blocks
        /\ len[r] \in Nat
    BY DEF LatchInv
  <2>2. table[r][x] \in Held
    BY <2>1 DEF Held, BlocksOf
  <2>3. occ'[table[r][x]] = occ[table[r][x]]
    BY <1>2, <1>4, <2>1, <2>2
  <2>4. CASE \E i \in DOMAIN s : s[i].req = r
    <3> DEFINE i == CHOOSE j \in DOMAIN s : s[j].req = r
    <3>1. i \in 1 .. n /\ s[i].req = r
      BY <1>3, <2>4
    <3>2. table'[r] = [y \in 1 .. PagesFor(len[r] + s[i].q) |->
                         IF y <= Len(table[r]) THEN table[r][y] ELSE new[<<i, y>>]]
      BY <1>2, <2>4
    <3> HIDE DEF i
    <3>3. s[i].q \in Nat
      <4>1. s[i] \in [req : Requests, start : Lanes, q : 1 .. MaxTokens]
        BY <1>3, <3>1
      <4>2. s[i].q \in 1 .. MaxTokens
        BY <4>1
      <4> QED BY <4>2, StagingAssumption
    <3>4. /\ PagesFor(len[r]) <= PagesFor(len[r] + s[i].q)
          /\ PagesFor(len[r]) \in Nat /\ PagesFor(len[r] + s[i].q) \in Nat
      <4>1. len[r] + s[i].q \in Nat /\ len[r] <= len[r] + s[i].q
        BY <2>1, <3>3
      <4> QED BY <2>1, <4>1, Pages
    <3>5. x \in 1 .. PagesFor(len[r] + s[i].q)
      BY <1>6, <2>1, <3>4
    <3> QED BY <2>1, <2>3, <3>2, <3>5
  <2>5. CASE ~ \E i \in DOMAIN s : s[i].req = r
    BY <1>2, <2>3, <2>5
  <2> QED BY <2>4, <2>5
<1> QED BY <1>5, <1>6

LEMMA StoreSchedule ==
    ASSUME StagingInv, Schedule
    PROVE  StagingTypes' /\ StoreInv'
<1>0. LatchInv /\ StagingTypes /\ StoreInv
  BY DEF StagingInv
<1>1. /\ UNCHANGED <<len, vbo, valid, overflow, flist, vslot, vpool, pool>>
      /\ phase' = "scheduled"
  BY DEF Schedule, staged, bytes
<1>2. occ' \in [Blocks -> Nat]
  BY <1>0, ScheduleKeeps
<1>3. StagingTypes'
  BY <1>0, <1>1, <1>2 DEF StagingTypes
<1>4. ASSUME NEW r \in Requests, NEW x \in DOMAIN table[r], x <= PagesFor(len[r])
      PROVE  /\ table'[r][x] = table[r][x]
             /\ occ'[table[r][x]] = occ[table[r][x]]
  BY <1>0, <1>4, ScheduleKeeps
<1>5. ASSUME ~overflow' PROVE Served' /\ TailStaged' /\ CompleteRetrievable'
  <2>0. Served /\ TailStaged /\ CompleteRetrievable
    BY <1>0, <1>1, <1>5 DEF StoreInv
  <2>1. ASSUME NEW r \in Requests
        PROVE  /\ len[r] \in Nat /\ PagesFor(len[r]) <= Len(table[r])
               /\ PagesFor(len[r]) \in Nat /\ Len(table[r]) \in Nat
               /\ DOMAIN table[r] = 1 .. Len(table[r])
    BY <1>0, Pages DEF LatchInv
  <2>2. ASSUME NEW r \in Requests, NEW n \in Nat, n < len[r]
        PROVE  Stored(table[r][n \div Page + 1], n % Page)'
    <3> DEFINE x == n \div Page + 1
    <3>1. x \in DOMAIN table[r] /\ x <= PagesFor(len[r])
      BY <1>0, <2>1, <2>2, Pages, TokenPage
    <3>2. table'[r][x] = table[r][x] /\ occ'[table[r][x]] = occ[table[r][x]]
      BY <1>4, <3>1
    <3>3. Stored(table[r][x], n % Page)
      BY <2>0, <2>2 DEF Served
    <3> HIDE DEF x
    <3>4. Stored(table[r][x], n % Page)'
      BY <1>1, <3>2, <3>3 DEF Stored, Source, Tag
    <3> QED BY <3>4 DEF x
  <2>3. Served'
    BY <1>1, <2>2 DEF Served
  <2>4. ASSUME NEW r \in Requests, len[r] % Page # 0
        PROVE  vbo'[table'[r][len[r] \div Page + 1]] # NoVBlock
    <3>1. /\ len[r] \div Page + 1 \in DOMAIN table[r]
          /\ len[r] \div Page + 1 <= PagesFor(len[r])
      BY <1>0, <2>1, <2>4, TailPage
    <3> QED BY <1>1, <1>4, <2>0, <2>4, <3>1 DEF TailStaged
  <2>5. TailStaged'
    BY <1>1, <2>4 DEF TailStaged
  <2>6. ASSUME NEW r \in Requests, NEW p \in Nat, p < len[r] \div Page
        PROVE  vbo'[table'[r][p + 1]] # NoVBlock \/ table'[r][p + 1] \in valid'
    <3>1. len[r] \div Page \in Nat /\ len[r] \div Page <= PagesFor(len[r])
      BY <2>1, Pages
    <3>2. p + 1 \in DOMAIN table[r] /\ p + 1 <= PagesFor(len[r])
      BY <2>1, <2>6, <3>1
    <3> QED BY <1>1, <1>4, <2>0, <2>6, <3>2 DEF CompleteRetrievable
  <2>7. CompleteRetrievable'
    BY <1>1, <2>6 DEF CompleteRetrievable
  <2> QED BY <2>3, <2>5, <2>7
<1>6. StoreInv'
  BY <1>1, <1>5 DEF StoreInv
<1> QED BY <1>3, <1>6

LEMMA StoreFinish ==
    ASSUME StagingInv, NEW q \in Requests, Finish(q)
    PROVE  StagingTypes' /\ StoreInv'
<1>0. LatchInv /\ StagingTypes /\ StoreInv
  BY DEF StagingInv
<1>1. /\ len' = [len EXCEPT ![q] = 0] /\ table' = [table EXCEPT ![q] = <<>>]
      /\ UNCHANGED <<occ, vbo, valid, overflow, flist, vslot, vpool, pool, phase>>
      /\ phase = "idle"
  BY DEF Finish, staged, bytes
<1>2. StagingTypes'
  BY <1>0, <1>1, StagingAssumption DEF StagingTypes
<1>3. ASSUME NEW r \in Requests
      PROVE  /\ len'[r] = IF r = q THEN 0 ELSE len[r]
             /\ r # q => table'[r] = table[r]
  BY <1>0, <1>1 DEF LatchInv
<1>4. 0 \div Page = 0 /\ 0 % Page = 0
  BY StagingAssumption
<1>5. ASSUME ~overflow' PROVE Served' /\ TailStaged' /\ CompleteRetrievable'
  <2>0. Served /\ TailStaged /\ CompleteRetrievable
    BY <1>0, <1>1, <1>5 DEF StoreInv
  <2>1. ASSUME NEW r \in Requests, NEW n \in Nat, n < len'[r]
        PROVE  Stored(table[r][n \div Page + 1], n % Page)'
    <3>1. r # q /\ n < len[r]
      BY <1>3, <2>1
    <3>2. Stored(table[r][n \div Page + 1], n % Page) /\ table'[r] = table[r]
      BY <1>3, <2>0, <3>1 DEF Served
    <3> QED BY <1>1, <3>2 DEF Stored, Source, Tag
  <2>2. Served'
    BY <2>1 DEF Served
  <2>3. TailStaged'
    BY <1>1, <1>3, <1>4, <2>0 DEF TailStaged
  <2>4. CompleteRetrievable'
    BY <1>1, <1>3, <1>4, <2>0 DEF CompleteRetrievable
  <2> QED BY <2>2, <2>3, <2>4
<1>6. StoreInv'
  BY <1>1, <1>5 DEF StoreInv
<1> QED BY <1>2, <1>6

\* What leaves tables and bytes alone serves the same tokens.
LEMMA StoreSame ==
    ASSUME UNCHANGED <<len, table, occ, batch, vbo, valid, vpool, pool>>
    PROVE  /\ Served => Served'
           /\ TailStaged => TailStaged'
           /\ CompleteRetrievable => CompleteRetrievable'
<1>1. Served => Served'
  BY DEF Served, Stored, Source, Tag
<1>2. TailStaged => TailStaged'
  BY DEF TailStaged
<1>3. CompleteRetrievable => CompleteRetrievable'
  BY DEF CompleteRetrievable
<1> QED BY <1>1, <1>2, <1>3

LEMMA StoreCapture ==
    ASSUME StagingInv, Capture
    PROVE  StagingTypes' /\ StoreInv'
<1>0. StagingTypes /\ StoreInv
  BY DEF StagingInv
<1>1. /\ UNCHANGED <<len, table, occ, batch, vbo, valid, overflow, flist, vpool, pool, phase>>
      /\ phase = "idle" /\ vslot' = [t \in Lanes |-> NoLane]
  BY DEF Capture, sched, bytes
<1>2. StagingTypes'
  BY <1>0, <1>1 DEF StagingTypes
<1>3. StoreInv'
  BY <1>0, <1>1, StoreSame DEF StoreInv
<1> QED BY <1>2, <1>3

LEMMA StoreStutter ==
    ASSUME StagingInv, UNCHANGED vars
    PROVE  StagingTypes' /\ StoreInv'
<1>0. StagingTypes /\ StoreInv
  BY DEF StagingInv
<1>1. UNCHANGED <<len, table, occ, batch, vbo, valid, overflow, flist, vslot, vpool, pool, phase>>
  BY DEF vars, sched, staged, bytes
<1>2. StagingTypes'
  BY <1>0, <1>1 DEF StagingTypes
<1>3. /\ AllWritten' = AllWritten
      /\ LanesPoint => LanesPoint'
      /\ StepServed => StepServed'
  <2>1. AllWritten' = AllWritten
    BY <1>1 DEF AllWritten, Written, Block, SeqLen
  <2>2. LanesPoint => LanesPoint'
    BY <1>1 DEF LanesPoint, TokenBlk, TokenPos, LaneRow, NumTokens, RowEnd, Block
  <2>3. StepServed => StepServed'
    BY <1>1 DEF StepServed, Stored, Source, Tag, Block, SeqLen
  <2> QED BY <2>1, <2>2, <2>3
<1>4. StoreInv'
  BY <1>0, <1>1, <1>3, StoreSame DEF StoreInv
<1> QED BY <1>2, <1>4

\* The prologue: a flushed page is served from its copy, a page that takes a
\* staging block had no tokens, and every page the step writes is staged.
LEMMA StoreBegin ==
    ASSUME StagingInv, BeginStep
    PROVE  StagingTypes' /\ StoreInv'
<1>0. PartInv /\ LatchInv /\ StagingTypes /\ StoreInv
  BY DEF StagingInv
<1>1. PICK F, G : Lifecycle(F, G)
  BY <1>0, BeginShape
<1>2. /\ UNCHANGED <<len, table, occ, batch, vpool>>
      /\ phase = "scheduled" /\ phase' = "begun"
  BY DEF BeginStep, sched
<1>3. /\ F \subseteq Blocks /\ G \subseteq AllWritten /\ F \cap AllWritten = {}
      /\ \A b \in F : vbo[b] # NoVBlock /\ \E i \in DOMAIN batch : b \in Settled(i)
      /\ \A b \in G : vbo[b] = NoVBlock /\ vbo'[b] \in VBlocks
      /\ valid' = (valid \ AllWritten) \cup F
  BY <1>1 DEF Lifecycle
<1>4. ASSUME NEW b \in Blocks
      PROVE  /\ b \in G => b \notin F /\ vbo[b] = NoVBlock /\ vbo'[b] # NoVBlock
             /\ b \notin G => vbo'[b] = IF b \in F THEN NoVBlock ELSE vbo[b]
             /\ pool'[b] = IF b \in F THEN vpool[vbo[b]] ELSE pool[b]
  <2>1. /\ vbo' = [c \in Blocks |-> IF c \in G THEN vbo'[c]
                                    ELSE IF c \in F THEN NoVBlock ELSE vbo[c]]
        /\ pool' = [c \in Blocks |-> IF c \in F THEN vpool[vbo[c]] ELSE pool[c]]
    BY <1>1 DEF Lifecycle
  <2>2. b \in G => b \notin F /\ vbo[b] = NoVBlock /\ vbo'[b] # NoVBlock
    BY <1>3, StagingAssumption
  <2> QED BY <2>1, <2>2
<1>5. vslot' = FilledLanes(vbo') /\ flist' = Listed(F)
      /\ (~overflow' => ~overflow /\ \A b \in AllWritten : vbo'[b] # NoVBlock)
  BY <1>0, <1>1 DEF Lifecycle, StagingTypes
<1>6. AllWritten' = AllWritten
  BY <1>2 DEF AllWritten, Written, Block, SeqLen
<1>7. /\ NumTokens' = NumTokens
      /\ \A t : TokenBlk(t)' = TokenBlk(t) /\ TokenPos(t)' = TokenPos(t)
  BY <1>2 DEF TokenBlk, TokenPos, LaneRow, NumTokens, RowEnd, Block
<1>8. ASSUME NEW t \in Lanes
      PROVE  vslot'[t] = IF t >= NumTokens \/ vbo'[TokenBlk(t)] = NoVBlock THEN NoLane
                         ELSE [vb |-> vbo'[TokenBlk(t)], off |-> TokenPos(t) % Page]
  BY <1>5 DEF FilledLanes
<1>9. NumTokens \in Nat
  <2>1. Len(batch) \in DOMAIN batch
    BY <1>0, <1>2 DEF LatchInv, BatchFits
  <2> QED BY <1>0, <1>2, <2>1, RowFacts DEF NumTokens
<1>10. StagingTypes'
  <2>1. overflow' \in BOOLEAN
    BY DEF BeginStep
  <2>2. flist' \subseteq Blocks \X VBlocks
    <3>1. \A b \in F : vbo[b] \in VBlocks
      BY <1>0, <1>3 DEF PartInv
    <3> QED BY <1>3, <1>5, <3>1 DEF Listed
  <2>3. valid' \subseteq Blocks
    BY <1>0, <1>3 DEF StagingTypes
  <2>4. ASSUME NEW t \in Lanes
        PROVE  vslot'[t] = NoLane \/ (vslot'[t].vb \in VBlocks /\ vslot'[t].off \in Offsets)
    <3>1. CASE t >= NumTokens \/ vbo'[TokenBlk(t)] = NoVBlock
      BY <1>8, <3>1
    <3>2. CASE ~ (t >= NumTokens \/ vbo'[TokenBlk(t)] = NoVBlock)
      <4>1. t < NumTokens
        BY <1>9, <3>2 DEF Lanes
      <4>2. TokenBlk(t) \in Blocks /\ TokenPos(t) % Page \in Offsets
        BY <1>0, <1>2, <4>1, LaneToken
      <4>3. vbo'[TokenBlk(t)] \in VBlocks
        <5>1. CASE TokenBlk(t) \in G
          BY <1>3, <5>1
        <5>2. CASE TokenBlk(t) \notin G
          BY <1>0, <1>4, <3>2, <4>2, <5>2 DEF PartInv
        <5> QED BY <5>1, <5>2
      <4>4. vslot'[t] = [vb |-> vbo'[TokenBlk(t)], off |-> TokenPos(t) % Page]
        BY <1>8, <3>2
      <4> QED BY <4>2, <4>3, <4>4
    <3> QED BY <3>1, <3>2
  <2>5. pool' \in [Blocks -> [Offsets -> Cells]]
    <3>1. ASSUME NEW b \in Blocks PROVE pool'[b] \in [Offsets -> Cells]
      <4>1. CASE b \in F
        <5>1. vbo[b] \in VBlocks
          BY <1>0, <1>3, <4>1 DEF PartInv
        <5> QED BY <1>0, <1>4, <4>1, <5>1 DEF StagingTypes
      <4>2. CASE b \notin F
        BY <1>0, <1>4, <4>2 DEF StagingTypes
      <4> QED BY <4>1, <4>2
    <3>2. pool' = [b \in Blocks |-> pool'[b]]
      <4>1. pool' = [c \in Blocks |-> IF c \in F THEN vpool[vbo[c]] ELSE pool[c]]
        BY <1>1 DEF Lifecycle
      <4> QED BY ONLY <4>1
    <3> QED BY ONLY <3>1, <3>2
  <2> QED BY <1>0, <1>2, <2>1, <2>2, <2>3, <2>4, <2>5 DEF StagingTypes
<1>11. ASSUME ~overflow'
       PROVE  /\ Served' /\ TailStaged' /\ CompleteRetrievable'
              /\ (\A b \in AllWritten : vbo[b] # NoVBlock)' /\ LanesPoint'
  <2>0. Served /\ TailStaged /\ CompleteRetrievable /\ \A b \in AllWritten : vbo'[b] # NoVBlock
    BY <1>0, <1>5, <1>11 DEF StoreInv
  <2>1. ASSUME NEW r \in Requests
        PROVE  /\ len[r] \in Nat /\ PagesFor(len[r]) <= Len(table[r])
               /\ len[r] \div Page \in Nat
               /\ len[r] \div Page <= PagesFor(len[r]) /\ PagesFor(len[r]) \in Nat
               /\ Len(table[r]) \in Nat /\ DOMAIN table[r] = 1 .. Len(table[r])
               /\ table[r] \in Seq(Blocks)
    BY <1>0, Pages DEF LatchInv
  \* A page the step writes is not a complete page of a request, a page it
  \* flushes is one.
  <2>2. ASSUME NEW r \in Requests, NEW k \in Nat, k + 1 \in DOMAIN table[r]
        PROVE  /\ table[r][k + 1] \in AllWritten => len[r] \div Page <= k
               /\ table[r][k + 1] \in F => k < len[r] \div Page
    <3>1. ASSUME table[r][k + 1] \in AllWritten PROVE len[r] \div Page <= k
      <4>1. PICK i \in DOMAIN batch : table[r][k + 1] \in Written(i)
        BY <3>1 DEF AllWritten
      <4>2. PICK w \in Nat :
              /\ len[batch[i].req] \div Page <= w /\ w + 1 \in DOMAIN table[batch[i].req]
              /\ table[r][k + 1] = table[batch[i].req][w + 1]
        BY <1>0, <1>2, <4>1, WrittenPage
      <4>3. batch[i].req \in Requests
        BY <1>0, <1>2, RowFacts
      <4>4. r = batch[i].req /\ k + 1 = w + 1
        BY <1>0, <2>2, <4>2, <4>3, OnePlace
      <4> QED BY <4>2, <4>4
    <3>2. ASSUME table[r][k + 1] \in F PROVE k < len[r] \div Page
      <4>1. PICK i \in DOMAIN batch : table[r][k + 1] \in Settled(i)
        BY <1>3, <3>2
      <4>2. PICK p \in Nat :
              /\ p < len[batch[i].req] \div Page /\ p + 1 \in DOMAIN table[batch[i].req]
              /\ table[r][k + 1] = table[batch[i].req][p + 1]
        BY <1>0, <1>2, <4>1, SettledPage
      <4>3. batch[i].req \in Requests
        BY <1>0, <1>2, RowFacts
      <4>4. r = batch[i].req /\ k + 1 = p + 1
        BY <1>0, <2>2, <4>2, <4>3, OnePlace
      <4> QED BY <4>2, <4>4
    <3> QED BY <3>1, <3>2
  <2>3. ASSUME NEW r \in Requests, NEW n \in Nat, n < len[r]
        PROVE  Stored(table[r][n \div Page + 1], n % Page)'
    <3>0. n \div Page \in Nat /\ n \div Page + 1 \in DOMAIN table[r]
      BY <1>0, <2>1, <2>3, TokenPage
    <3>1. PICK b \in Blocks : b = table[r][n \div Page + 1]
      BY <1>0, <2>1, <2>3, TokenPage
    <3>2. Stored(b, n % Page)
      BY <2>0, <2>3, <3>1 DEF Served
    <3>3. b \notin G
      <4>1. SUFFICES ASSUME b \in G PROVE FALSE
        OBVIOUS
      <4>2. len[r] \div Page <= n \div Page /\ vbo[b] = NoVBlock
        BY <1>3, <2>2, <3>0, <3>1, <4>1
      <4>3. n \div Page = len[r] \div Page /\ len[r] % Page # 0
        BY <2>1, <2>3, <3>0, <4>2, OldToken
      <4> QED BY <2>0, <3>1, <4>2, <4>3 DEF TailStaged
    <3>4. Source(b)' = Source(b)
      <4>1. CASE b \in F
        BY <1>3, <1>4, <3>3, <4>1 DEF Source
      <4>2. CASE b \notin F
        BY <1>2, <1>4, <3>3, <4>2 DEF Source
      <4> QED BY <4>1, <4>2
    <3>5. Stored(b, n % Page)'
      BY <1>2, <3>2, <3>4 DEF Stored, Tag
    <3>6. b = table'[r][n \div Page + 1]
      BY <1>2, <3>1
    <3> QED BY <3>5, <3>6
  <2>4. Served'
    BY <1>2, <2>3 DEF Served
  <2>5. ASSUME NEW r \in Requests, len[r] % Page # 0
        PROVE  vbo'[table[r][len[r] \div Page + 1]] # NoVBlock
    <3> DEFINE b == table[r][len[r] \div Page + 1]
    <3>1. len[r] \div Page + 1 \in DOMAIN table[r] /\ b \in Blocks
      BY <1>0, <2>5, TailPage
    <3>2. b \notin F
      BY <2>1, <2>2, <3>1
    <3>3. vbo[b] # NoVBlock
      BY <2>0, <2>5 DEF TailStaged
    <3> HIDE DEF b
    <3>4. vbo'[b] # NoVBlock
      BY <1>4, <3>1, <3>2, <3>3
    <3> QED BY <3>4 DEF b
  <2>6. TailStaged'
    BY <1>2, <2>5 DEF TailStaged
  <2>7. ASSUME NEW r \in Requests, NEW p \in Nat, p < len[r] \div Page
        PROVE  vbo'[table[r][p + 1]] # NoVBlock \/ table[r][p + 1] \in valid'
    <3> DEFINE b == table[r][p + 1]
    <3>1. p + 1 \in 1 .. Len(table[r])
      BY <2>1, <2>7
    <3>2. p + 1 \in DOMAIN table[r] /\ b \in Blocks
      BY <2>1, <3>1
    <3>3. b \notin AllWritten
      BY <2>1, <2>2, <2>7, <3>2
    <3>4. vbo[b] # NoVBlock \/ b \in valid
      BY <2>0, <2>7 DEF CompleteRetrievable
    <3> HIDE DEF b
    <3>5. vbo'[b] # NoVBlock \/ b \in valid'
      BY <1>3, <1>4, <3>2, <3>3, <3>4
    <3> QED BY <3>5 DEF b
  <2>8. CompleteRetrievable'
    BY <1>2, <2>7 DEF CompleteRetrievable
  <2>9. (\A b \in AllWritten : vbo[b] # NoVBlock)'
    BY <1>6, <2>0
  <2>10. ASSUME NEW t \in Lanes
         PROVE  /\ t < NumTokens => vslot'[t] = [vb |-> vbo'[TokenBlk(t)], off |-> TokenPos(t) % Page]
                /\ NumTokens <= t => vslot'[t] = NoLane
    <3>1. ASSUME t < NumTokens
          PROVE  vslot'[t] = [vb |-> vbo'[TokenBlk(t)], off |-> TokenPos(t) % Page]
      <4>1. vbo'[TokenBlk(t)] # NoVBlock
        BY <1>0, <1>2, <2>0, <3>1, LaneToken
      <4>2. ~ (t >= NumTokens)
        BY <1>9, <3>1 DEF Lanes
      <4> QED BY <1>8, <4>1, <4>2
    <3>2. ASSUME NumTokens <= t PROVE vslot'[t] = NoLane
      <4>1. t >= NumTokens
        BY <1>9, <3>2 DEF Lanes
      <4> QED BY <1>8, <4>1
    <3> QED BY <3>1, <3>2
  <2>11. LanesPoint'
    BY <1>7, <2>10 DEF LanesPoint
  <2> QED BY <2>4, <2>6, <2>8, <2>9, <2>11
<1>12. StoreInv'
  BY <1>2, <1>11 DEF StoreInv
<1> QED BY <1>10, <1>12

\* Among the lanes that write a place there is a last one.
LEMMA LastLane ==
    ASSUME NEW m \in Nat, NEW S \in SUBSET (0 .. m - 1), S # {}
    PROVE  \E u \in S : \A w \in S : w <= u
<1> DEFINE T == {(m - 1) - u : u \in S}
<1>1. T \in SUBSET Nat /\ T # {}
  OBVIOUS
<1>2. PICK x \in T : \A y \in T : x <= y
  BY <1>1, LeastOf
<1>3. PICK u \in S : x = (m - 1) - u
  BY <1>2
<1>4. ASSUME NEW w \in S PROVE w <= u
  <2>1. x <= (m - 1) - w
    BY <1>2
  <2> QED BY <1>3, <2>1
<1> QED BY <1>4

\* What the scatter leaves at a place of the pool: the bytes of a lane that
\* points there, or what was there.
LEMMA ScatterPlace ==
    ASSUME LatchInv, StagingTypes, NEW padded \in 1 .. MaxTokens, Scatter(padded),
           NEW v \in VBlocks, NEW o \in Offsets
    PROVE  /\ \/ \E u \in Lanes : /\ u < padded /\ vslot[u] = [vb |-> v, off |-> o]
                                  /\ vpool'[v][o] = LaneBytes(u)
              \/ vpool'[v][o] = vpool[v][o]
           /\ (\E t \in Lanes : t < padded /\ vslot[t] = [vb |-> v, off |-> o]) =>
                \E u \in Lanes : /\ u < padded /\ vslot[u] = [vb |-> v, off |-> o]
                                 /\ vpool'[v][o] = LaneBytes(u)
           /\ vpool' = [w \in VBlocks |-> [x \in Offsets |-> vpool'[w][x]]]
<1> DEFINE S == {t \in 0 .. padded - 1 : vslot[t] = [vb |-> v, off |-> o]}
           last == CHOOSE t \in 0 .. padded - 1 :
                      /\ vslot[t] = [vb |-> v, off |-> o]
                      /\ \A u \in t + 1 .. padded - 1 : vslot[u] # vslot[t]
<1>0. /\ padded \in Nat /\ padded <= MaxTokens /\ 0 .. padded - 1 \subseteq Lanes
      /\ \A t \in Lanes : t < padded => t \in 0 .. padded - 1
      /\ \A t \in 0 .. padded - 1 : t < padded
  BY StagingAssumption DEF Lanes
<1>1. vpool' = [w \in VBlocks |-> [x \in Offsets |->
                   IF \E t \in 0 .. padded - 1 : vslot[t] = [vb |-> w, off |-> x]
                   THEN LaneBytes(CHOOSE t \in 0 .. padded - 1 :
                                    /\ vslot[t] = [vb |-> w, off |-> x]
                                    /\ \A u \in t + 1 .. padded - 1 : vslot[u] # vslot[t])
                   ELSE vpool[w][x]]]
  BY DEF Scatter
<1>2. /\ S = {} => vpool'[v][o] = vpool[v][o]
      /\ S # {} => vpool'[v][o] = LaneBytes(last)
  BY <1>1
<1>3. ASSUME S # {} PROVE last \in 0 .. padded - 1 /\ vslot[last] = [vb |-> v, off |-> o]
  <2>1. PICK u \in S : \A w \in S : w <= u
    BY <1>0, <1>3, LastLane
  <2>2. \A w \in u + 1 .. padded - 1 : vslot[w] # vslot[u]
    <3>1. ASSUME NEW w \in u + 1 .. padded - 1 PROVE w \notin S /\ w \in 0 .. padded - 1
      BY <2>1, <1>0
    <3> QED BY <2>1, <3>1
  <2> QED BY <2>1, <2>2
<1> HIDE DEF last
<1>4. S # {} => \E u \in Lanes : /\ u < padded /\ vslot[u] = [vb |-> v, off |-> o]
                                 /\ vpool'[v][o] = LaneBytes(u)
  BY <1>0, <1>2, <1>3
<1>5. vpool' = [w \in VBlocks |-> [x \in Offsets |-> vpool'[w][x]]]
  BY ONLY <1>1
<1>6. (\E t \in Lanes : t < padded /\ vslot[t] = [vb |-> v, off |-> o]) => S # {}
  BY <1>0
<1> QED BY <1>2, <1>4, <1>5, <1>6

\* The scatter: a lane writes the bytes of the page that owns its place, so
\* what was right stays right, and each new token has a lane.
LEMMA StoreScatter ==
    ASSUME StagingInv, NEW padded \in 1 .. MaxTokens, Scatter(padded)
    PROVE  StagingTypes' /\ StoreInv'
<1>0. PartInv /\ LatchInv /\ StagingTypes /\ StoreInv
  BY DEF StagingInv
<1>1. /\ UNCHANGED <<len, table, occ, batch, vbo, valid, overflow, flist, vslot, pool>>
      /\ phase = "begun" /\ phase' = "reading" /\ NumTokens <= padded
  BY DEF Scatter, sched, staged
<1>2. /\ \A t \in Lanes : t \in Int
      /\ NumTokens \in Nat /\ padded \in Nat
  <2>1. Len(batch) \in DOMAIN batch
    BY <1>0, <1>1 DEF LatchInv, BatchFits
  <2> QED BY <1>0, <1>1, <2>1, RowFacts, StagingAssumption DEF NumTokens, Lanes
<1>3. ASSUME NEW u \in Lanes PROVE LaneBytes(u) \in Cells
  <2>1. CASE u < NumTokens
    <3>1. TokenBlk(u) \in Blocks
      BY <1>0, <1>1, <2>1, LaneToken
    <3>2. Tag(TokenBlk(u)) \in Cells
      BY <1>0, <3>1 DEF StagingTypes, Tag, Cells
    <3> QED BY <2>1, <3>2 DEF LaneBytes
  <2>2. CASE ~ (u < NumTokens)
    BY <2>2 DEF LaneBytes, Junk, Cells
  <2> QED BY <2>1, <2>2
<1>4. StagingTypes'
  <2>1. ASSUME NEW v \in VBlocks, NEW o \in Offsets PROVE vpool'[v][o] \in Cells
    <3>1. \/ \E u \in Lanes : vpool'[v][o] = LaneBytes(u)
          \/ vpool'[v][o] = vpool[v][o]
      BY <1>0, ScatterPlace
    <3> QED BY <1>0, <1>3, <3>1 DEF StagingTypes
  <2>2. ASSUME NEW v \in VBlocks PROVE vpool'[v] \in [Offsets -> Cells]
    <3>1. 0 \in Offsets
      BY StagingAssumption DEF Offsets
    <3>2. vpool' = [w \in VBlocks |-> [x \in Offsets |-> vpool'[w][x]]]
      BY <1>0, <3>1, ScatterPlace
    <3>3. vpool'[v] = [x \in Offsets |-> vpool'[v][x]]
      BY ONLY <3>2, v \in VBlocks
    <3> QED BY ONLY <2>1, <3>3, v \in VBlocks
  <2>3. vpool' \in [VBlocks -> [Offsets -> Cells]]
    <3>1. vpool' = [w \in VBlocks |-> vpool'[w]]
      BY DEF Scatter
    <3> QED BY ONLY <2>2, <3>1
  <2> QED BY <1>0, <1>1, <2>3 DEF StagingTypes
<1>5. ASSUME ~overflow'
      PROVE  /\ Served' /\ TailStaged' /\ CompleteRetrievable'
             /\ (\A b \in AllWritten : vbo[b] # NoVBlock)' /\ StepServed'
  <2>0. /\ Served /\ TailStaged /\ CompleteRetrievable /\ LanesPoint
        /\ \A b \in AllWritten : vbo[b] # NoVBlock
    BY <1>0, <1>1, <1>5 DEF StoreInv
  \* Whoever writes a place of b's staging block writes a token of b.
  <2>1. ASSUME NEW b \in Blocks, vbo[b] # NoVBlock, NEW u \in Lanes, NEW o,
               vslot[u] = [vb |-> vbo[b], off |-> o]
        PROVE  LaneBytes(u) = Tag(b)
    <3>1. u < NumTokens
      <4>1. SUFFICES ASSUME NumTokens <= u PROVE FALSE
        BY <1>2
      <4>2. vslot[u] = NoLane
        BY <2>0, <4>1 DEF LanesPoint
      <4>3. vslot[u].vb = NoVBlock /\ vslot[u].vb = vbo[b]
        BY <2>1, <4>2 DEF NoLane
      <4> QED BY <2>1, <4>3
    <3>2. vslot[u] = [vb |-> vbo[TokenBlk(u)], off |-> TokenPos(u) % Page]
      BY <2>0, <3>1 DEF LanesPoint
    <3>3. vbo[TokenBlk(u)] = vbo[b] /\ TokenBlk(u) \in Blocks
      <4>1. vslot[u].vb = vbo[b] /\ vslot[u].vb = vbo[TokenBlk(u)]
        BY <2>1, <3>2
      <4> QED BY <1>0, <1>1, <3>1, <4>1, LaneToken
    <3>4. TokenBlk(u) = b
      BY <1>0, <2>1, <3>3, OneHolder
    <3> QED BY <3>1, <3>4 DEF LaneBytes
  <2>2. ASSUME NEW b \in Blocks, NEW o \in Offsets, Stored(b, o)
        PROVE  Stored(b, o)'
    <3>1. CASE vbo[b] = NoVBlock
      BY <1>1, <2>2, <3>1 DEF Stored, Source, Tag
    <3>2. CASE vbo[b] # NoVBlock
      <4>1. vbo[b] \in VBlocks
        BY <1>0, <3>2 DEF PartInv
      <4>2. \/ \E u \in Lanes : /\ vslot[u] = [vb |-> vbo[b], off |-> o]
                                /\ vpool'[vbo[b]][o] = LaneBytes(u)
            \/ vpool'[vbo[b]][o] = vpool[vbo[b]][o]
        BY <1>0, <4>1, ScatterPlace
      <4>3. vpool'[vbo[b]][o] = Tag(b) \/ vpool'[vbo[b]][o] = vpool[vbo[b]][o]
        BY <2>1, <3>2, <4>2
      <4>4. vpool[vbo[b]][o] = Tag(b)
        BY <2>2, <3>2 DEF Stored, Source
      <4>5. vpool'[vbo[b]][o] = Tag(b)
        BY <4>3, <4>4
      <4> QED BY <1>1, <3>2, <4>5 DEF Stored, Source, Tag
    <3> QED BY <3>1, <3>2
  <2>3. ASSUME NEW i \in DOMAIN batch, NEW n \in Nat, n < SeqLen(i)
        PROVE  Stored(Block(i, n \div Page), n % Page)'
    <3>0. /\ batch[i].req \in Requests /\ SeqLen(i) \in Nat /\ batch[i].ctx \in Nat
          /\ batch[i].ctx = len[batch[i].req]
          /\ PagesFor(SeqLen(i)) <= Len(table[batch[i].req])
      BY <1>0, <1>1, RowFacts
    <3>1. n % Page \in Offsets /\ table[batch[i].req][n \div Page + 1] \in Blocks
      BY <1>0, <2>3, <3>0, TokenPage
    <3>2. PICK b \in Blocks : b = Block(i, n \div Page)
      BY <3>1 DEF Block
    <3>3. Stored(b, n % Page)'
      <4>1. CASE n < batch[i].ctx
        <5>1. Stored(table[batch[i].req][n \div Page + 1], n % Page)
          BY <2>0, <3>0, <4>1 DEF Served
        <5>2. b = table[batch[i].req][n \div Page + 1]
          BY <3>2 DEF Block
        <5>3. Stored(b, n % Page)
          BY <5>1, <5>2
        <5> QED BY <2>2, <3>1, <5>3
      <4>2. CASE batch[i].ctx <= n
        <5>1. vbo[b] # NoVBlock
          BY <1>0, <1>1, <2>0, <2>3, <3>2, <4>2, TokenWritten
        <5>2. PICK t \in Lanes : t < NumTokens /\ LaneRow(t) = i /\ TokenPos(t) = n
          BY <1>0, <1>1, <2>3, <4>2, TokenLane
        <5>3. TokenBlk(t) = b
          BY <3>2, <5>2 DEF TokenBlk
        <5>4. vslot[t] = [vb |-> vbo[b], off |-> n % Page] /\ t < padded
          BY <1>1, <1>2, <2>0, <5>2, <5>3 DEF LanesPoint
        <5>5. vbo[b] \in VBlocks
          BY <1>0, <5>1 DEF PartInv
        <5>6. \E u \in Lanes : /\ vslot[u] = [vb |-> vbo[b], off |-> n % Page]
                               /\ vpool'[vbo[b]][n % Page] = LaneBytes(u)
          BY <1>0, <3>1, <5>4, <5>5, ScatterPlace
        <5>7. vpool'[vbo[b]][n % Page] = Tag(b)
          BY <2>1, <5>1, <5>6
        <5> QED BY <1>1, <5>1, <5>7 DEF Stored, Source, Tag
      <4> QED BY <2>3, <3>0, <4>1, <4>2
    <3>4. b = Block(i, n \div Page)'
      BY <1>1, <3>2 DEF Block
    <3> QED BY <3>3, <3>4
  <2>4. StepServed'
    <3>1. \A i \in DOMAIN batch : SeqLen(i)' = SeqLen(i)
      BY <1>1 DEF SeqLen
    <3> QED BY <1>1, <2>3, <3>1 DEF StepServed
  <2>5. ASSUME NEW r \in Requests, NEW n \in Nat, n < len[r]
        PROVE  Stored(table[r][n \div Page + 1], n % Page)'
    <3>1. /\ n % Page \in Offsets /\ table[r][n \div Page + 1] \in Blocks
      BY <1>0, <2>5, TokenPage DEF LatchInv
    <3>2. PICK b \in Blocks : b = table[r][n \div Page + 1]
      BY <3>1
    <3>3. Stored(b, n % Page)
      BY <2>0, <2>5, <3>2 DEF Served
    <3>4. Stored(b, n % Page)'
      BY <2>2, <3>1, <3>3
    <3>5. b = table'[r][n \div Page + 1]
      BY <1>1, <3>2
    <3> QED BY <3>4, <3>5
  <2>6. Served'
    BY <1>1, <2>5 DEF Served
  <2>7. TailStaged' /\ CompleteRetrievable'
    BY <1>1, <2>0 DEF TailStaged, CompleteRetrievable
  <2>8. (\A b \in AllWritten : vbo[b] # NoVBlock)'
    BY <1>1, <2>0 DEF AllWritten, Written, Block, SeqLen
  <2> QED BY <2>4, <2>6, <2>7, <2>8
<1>6. StoreInv'
  BY <1>1, <1>5 DEF StoreInv
<1> QED BY <1>4, <1>6

\* The end of a step: its tokens count as context now.
LEMMA StoreEnd ==
    ASSUME StagingInv, EndStep
    PROVE  StagingTypes' /\ StoreInv'
<1>0. LatchInv /\ StagingTypes /\ StoreInv
  BY DEF StagingInv
<1>1. /\ UNCHANGED <<table, occ, vbo, valid, overflow, flist, vslot, vpool, pool>>
      /\ phase = "reading" /\ phase' = "idle"
      /\ len' = [r \in Requests |->
                   IF \E i \in DOMAIN batch : batch[i].req = r
                   THEN SeqLen(CHOOSE i \in DOMAIN batch : batch[i].req = r)
                   ELSE len[r]]
  BY DEF EndStep, staged, bytes
<1>2. ASSUME NEW r \in Requests
      PROVE  \/ \E i \in DOMAIN batch : batch[i].req = r /\ len'[r] = SeqLen(i)
             \/ len'[r] = len[r]
  BY <1>1
<1>3. StagingTypes'
  <2>1. ASSUME NEW r \in Requests PROVE len'[r] \in 0 .. MaxLen
    <3>1. CASE len'[r] = len[r]
      BY <1>0, <3>1 DEF StagingTypes
    <3>2. ASSUME NEW i \in DOMAIN batch, len'[r] = SeqLen(i) PROVE len'[r] \in 0 .. MaxLen
      <4>1. SeqLen(i) \in Nat /\ SeqLen(i) <= MaxLen
        BY <1>0, <1>1, RowFacts
      <4> QED BY <3>2, <4>1, StagingAssumption
    <3> QED BY <1>2, <3>1, <3>2
  <2>2. len' \in [Requests -> 0 .. MaxLen]
    BY <1>1, <2>1
  <2> QED BY <1>0, <1>1, <2>2 DEF StagingTypes
<1>4. ASSUME ~overflow' PROVE Served' /\ TailStaged' /\ CompleteRetrievable'
  <2>0. /\ Served /\ TailStaged /\ CompleteRetrievable /\ StepServed
        /\ \A b \in AllWritten : vbo[b] # NoVBlock
    BY <1>0, <1>1, <1>4 DEF StoreInv
  <2>1. ASSUME NEW i \in DOMAIN batch
        PROVE  /\ batch[i].ctx \in Nat /\ SeqLen(i) \in Nat \ {0}
               /\ batch[i].ctx = len[batch[i].req] /\ batch[i].req \in Requests
               /\ batch[i].ctx <= SeqLen(i) - 1
    <3>1. /\ batch[i].ctx \in Nat /\ batch[i].q \in Nat \ {0}
          /\ SeqLen(i) = batch[i].ctx + batch[i].q
          /\ batch[i].ctx = len[batch[i].req] /\ batch[i].req \in Requests
      BY <1>0, <1>1, RowFacts
    <3> QED BY <3>1
  <2>2. ASSUME NEW r \in Requests, NEW n \in Nat, n < len'[r]
        PROVE  Stored(table[r][n \div Page + 1], n % Page)'
    <3>1. Stored(table[r][n \div Page + 1], n % Page)
      <4>1. CASE len'[r] = len[r]
        BY <2>0, <2>2, <4>1 DEF Served
      <4>2. ASSUME NEW i \in DOMAIN batch, batch[i].req = r, len'[r] = SeqLen(i)
            PROVE  Stored(table[r][n \div Page + 1], n % Page)
        BY <2>0, <2>2, <4>2 DEF StepServed, Block
      <4> QED BY <1>2, <4>1, <4>2
    <3> QED BY <1>1, <3>1 DEF Stored, Source, Tag
  <2>3. Served'
    BY <1>1, <2>2 DEF Served
  <2>4. ASSUME NEW r \in Requests, len'[r] % Page # 0
        PROVE  vbo[table[r][len'[r] \div Page + 1]] # NoVBlock
    <3>1. CASE len'[r] = len[r]
      BY <2>0, <2>4, <3>1 DEF TailStaged
    <3>2. ASSUME NEW i \in DOMAIN batch, batch[i].req = r, len'[r] = SeqLen(i)
          PROVE  vbo[table[r][len'[r] \div Page + 1]] # NoVBlock
      <4>1. /\ SeqLen(i) - 1 \in Nat /\ SeqLen(i) - 1 < SeqLen(i)
            /\ batch[i].ctx <= SeqLen(i) - 1
        BY <2>1
      <4>2. Block(i, (SeqLen(i) - 1) \div Page) \in AllWritten
        BY <1>0, <1>1, <4>1, TokenWritten
      <4>3. (SeqLen(i) - 1) \div Page = SeqLen(i) \div Page
        BY <2>1, <2>4, <3>2, TailCount
      <4> QED BY <2>0, <3>2, <4>2, <4>3 DEF Block
    <3> QED BY <1>2, <3>1, <3>2
  <2>5. TailStaged'
    BY <1>1, <2>4 DEF TailStaged
  <2>6. ASSUME NEW r \in Requests, NEW p \in Nat, p < len'[r] \div Page
        PROVE  vbo[table[r][p + 1]] # NoVBlock \/ table[r][p + 1] \in valid
    <3>1. CASE len'[r] = len[r]
      BY <2>0, <2>6, <3>1 DEF CompleteRetrievable
    <3>2. ASSUME NEW i \in DOMAIN batch, batch[i].req = r, len'[r] = SeqLen(i)
          PROVE  vbo[table[r][p + 1]] # NoVBlock \/ table[r][p + 1] \in valid
      <4>1. CASE p < len[r] \div Page
        BY <2>0, <4>1 DEF CompleteRetrievable
      <4>2. CASE ~ (p < len[r] \div Page)
        <5>1. /\ (SeqLen(i) - 1) \div Page \in Nat /\ len[r] \div Page \in Nat
              /\ SeqLen(i) \div Page <= (SeqLen(i) - 1) \div Page + 1
              /\ SeqLen(i) \div Page \in Nat
          BY <2>1, <3>2, LastToken, Pages
        <5>2. p \in (batch[i].ctx \div Page) .. (SeqLen(i) - 1) \div Page
          <6>1. batch[i].ctx \div Page = len[r] \div Page
            BY <2>1, <3>2
          <6> QED BY <2>6, <3>2, <4>2, <5>1, <6>1
        <5>3. Block(i, p) \in Written(i)
          BY <5>2 DEF Written
        <5>4. Block(i, p) \in Blocks
          <6>1. p < PagesFor(SeqLen(i)) /\ PagesFor(SeqLen(i)) \in Nat
            BY <2>1, <2>6, <3>2, <5>1, Pages
          <6>2. /\ PagesFor(SeqLen(i)) <= Len(table[r]) /\ table[r] \in Seq(Blocks)
                /\ Len(table[r]) \in Nat
            BY <1>0, <1>1, <3>2, RowFacts DEF LatchInv
          <6>3. p + 1 \in 1 .. Len(table[r])
            BY <6>1, <6>2
          <6> QED BY <3>2, <6>2, <6>3 DEF Block
        <5> QED BY <2>0, <3>2, <5>3, <5>4 DEF AllWritten, Block
      <4> QED BY <4>1, <4>2
    <3> QED BY <1>2, <3>1, <3>2
  <2>7. CompleteRetrievable'
    BY <1>1, <2>6 DEF CompleteRetrievable
  <2> QED BY <2>3, <2>5, <2>7
<1>5. StoreInv'
  BY <1>1, <1>4 DEF StoreInv
<1> QED BY <1>3, <1>5

\* The invariant holds of every state, whatever the scheduler hands over.
THEOREM StagingInvariant == Spec => []StagingInv
<1>1. Init => StagingInv
  BY PartInit, LatchInit, StoreInit DEF StagingInv
<1>2. StagingInv /\ [Next]_vars => StagingInv'
  <2> SUFFICES ASSUME StagingInv, [Next]_vars PROVE StagingInv'
    OBVIOUS
  <2>1. PartInv' /\ LatchInv'
    BY PartStep, LatchStep DEF StagingInv
  <2>2. StagingTypes' /\ StoreInv'
    <3>1. CASE Schedule
      BY <3>1, StoreSchedule
    <3>2. CASE BeginStep
      BY <3>2, StoreBegin
    <3>3. CASE Capture
      BY <3>3, StoreCapture
    <3>4. CASE EndStep
      BY <3>4, StoreEnd
    <3>5. ASSUME NEW padded \in 1 .. MaxTokens, Scatter(padded)
          PROVE  StagingTypes' /\ StoreInv'
      BY <3>5, StoreScatter
    <3>6. ASSUME NEW r \in Requests, Finish(r)
          PROVE  StagingTypes' /\ StoreInv'
      BY <3>6, StoreFinish
    <3>7. CASE UNCHANGED vars
      BY <3>7, StoreStutter
    <3> QED BY <3>1, <3>2, <3>3, <3>4, <3>5, <3>6, <3>7 DEF Next
  <2> QED BY <2>1, <2>2 DEF StagingInv
<1> QED BY <1>1, <1>2, PTL DEF Spec

\* Every variable keeps its type; above all, a lane points into the pool or
\* nowhere.
THEOREM StagingTypeOK == Spec => []TypeOK
<1>1. StagingInv => TypeOK
  <2> SUFFICES ASSUME StagingInv PROVE TypeOK
    OBVIOUS
  <2>1. PartInv /\ LatchInv /\ StagingTypes
    BY DEF StagingInv
  <2>2. /\ \A v \in VBlocks : DOMAIN vpool[v] = Offsets
        /\ \A b \in Blocks : DOMAIN pool[b] = Offsets
    BY <2>1 DEF StagingTypes
  <2> QED BY <2>1, <2>2 DEF TypeOK, StagingTypes, PartInv, LatchInv
<1> QED BY <1>1, StagingInvariant, PTL

\* While a step reads, every token of its rows is served with the bytes written
\* for it: whichever chunk wrote it, whoever owned its block or its staging
\* block before, and whether its page has been flushed or not.
THEOREM StagingServed == Spec => []ServedBytes
<1>1. StagingInv => ServedBytes
  <2> SUFFICES ASSUME StagingInv, phase = "reading", ~overflow,
                      NEW i \in DOMAIN batch, NEW n \in 0 .. SeqLen(i) - 1
               PROVE  Source(Block(i, n \div Page))[n % Page] = Tag(Block(i, n \div Page))
    BY DEF ServedBytes
  <2>1. LatchInv /\ StepServed
    BY DEF StagingInv, StoreInv
  <2>2. SeqLen(i) \in Nat
    BY <2>1, RowFacts
  <2> QED BY <2>1, <2>2 DEF StepServed, Stored
<1> QED BY <1>1, StagingInvariant, PTL

\* After the prologue a settled page is staged, or whole and valid in the
\* pinned pool (assert_no_lost_v).
THEOREM StagingRetrievable == Spec => []SettledRetrievable
<1>1. StagingInv => SettledRetrievable
  <2> SUFFICES ASSUME StagingInv, phase = "begun", ~overflow,
                      NEW i \in DOMAIN batch, NEW b \in Settled(i), vbo[b] = NoVBlock
               PROVE  b \in valid /\ pool[b] = [o \in Offsets |-> Tag(b)]
    BY DEF SettledRetrievable
  <2>1. LatchInv /\ StagingTypes /\ Served /\ CompleteRetrievable
    BY DEF StagingInv, StoreInv
  <2>2. /\ batch[i].req \in Requests /\ len[batch[i].req] \in Nat
        /\ table[batch[i].req] \in Seq(Blocks)
    BY <2>1, RowFacts DEF LatchInv
  <2>3. PICK p \in Nat :
          /\ p < len[batch[i].req] \div Page /\ p + 1 \in DOMAIN table[batch[i].req]
          /\ b = table[batch[i].req][p + 1]
    BY <2>1, SettledPage
  <2>4. b \in valid /\ b \in Blocks
    BY <2>1, <2>2, <2>3 DEF CompleteRetrievable
  <2>5. ASSUME NEW o \in Offsets PROVE pool[b][o] = Tag(b)
    <3> DEFINE n == p * Page + o
    <3>1. n \in Nat /\ n \div Page = p /\ n % Page = o /\ n < len[batch[i].req]
      BY <2>2, <2>3, <2>5, Places
    <3> HIDE DEF n
    <3>2. Stored(table[batch[i].req][n \div Page + 1], n % Page)
      BY <2>1, <2>2, <3>1 DEF Served
    <3> QED BY <2>3, <3>1, <3>2 DEF Stored, Source
  <2>6. pool[b] \in [Offsets -> Cells]
    BY <2>1, <2>4 DEF StagingTypes
  <2>7. pool[b] = [o \in Offsets |-> Tag(b)]
    BY ONLY <2>5, <2>6
  <2> QED BY <2>4, <2>7
<1> QED BY <1>1, StagingInvariant, PTL

=============================================================================
