-------------------------- MODULE TransportProofs --------------------------
(***************************************************************************)
(* Proofs about Transport: under the stream schedule StreamInv is          *)
(* inductive, for every set of blocks and slots, every mailbox capacity    *)
(* and both engines (one request, batch with or without PROMO1).           *)
(***************************************************************************)
EXTENDS Transport, TLAPS

USE DEF Absent, Pending, NoPage, NoSlot

\* What the walkers of a batch may assume, on maps (pm, sm), owner words own
\* and generations g: each row holds its slot, and current rows are pending.
RowsReady(rows, pm, sm, own, g, ht) ==
    /\ \A r \in rows : /\ r.slot \in own
                       /\ sm[r.slot] = r.blk
                       /\ g[r.blk] = r.gen =>
                            /\ pm[r.blk] = Pending
                            /\ ht[r.slot] = [blk |-> r.blk, gen |-> r.gen]
    /\ \A r, q \in rows : r.slot = q.slot => r = q
    /\ \A r, q \in rows :
         g[r.blk] = r.gen /\ g[q.blk] = q.gen /\ r.blk = q.blk => r = q

\* The relation between the maps that the reader relies on.
MapsAgree(pm, sm, own, g, ht) ==
    /\ \A b \in Blocks : pm[b] \in Slots =>
         /\ pm[b] \notin own
         /\ sm[pm[b]] = b
         /\ ht[pm[b]] = [blk |-> b, gen |-> g[b]]
    /\ \A h \in Slots \ own : sm[h] # NoPage => pm[sm[h]] = h

P2SMaps == [Blocks -> Slots \cup {Absent, Pending}]
S2PMaps == [Slots -> Blocks \cup {NoPage}]

\* What a promote assumes, and what it leaves: the maps agree, the slots of
\* other rows are still held and recorded, and only pages of rows are mapped.
WalkReady(rows, pm, sm, own, g, ht) ==
    /\ rows \in SUBSET Row /\ pm \in P2SMaps /\ sm \in S2PMaps
    /\ own \in SUBSET Slots /\ g \in [Blocks -> Nat]
    /\ RowsReady(rows, pm, sm, own, g, ht)
    /\ MapsAgree(pm, sm, own, g, ht)
WalkDone(rows, pm, sm, own, g, ht, pn, sn, on) ==
    /\ pn \in P2SMaps /\ sn \in S2PMaps /\ on \in SUBSET Slots
    /\ MapsAgree(pn, sn, on, g, ht)
    /\ \A h \in own : h \notin SlotsOf(rows) => h \in on /\ sn[h] = sm[h]
    /\ \A b \in Blocks :
         (\A r \in rows : r.blk = b => g[b] # r.gen) => pn[b] = pm[b]

-----------------------------------------------------------------------------
\* The evict walker changes nothing when every slot already records its row's
\* page: in stream the claim has re-pointed slot2page.
LEMMA EvictNoop ==
    ASSUME NEW rows \in SUBSET Row, NEW pm \in P2SMaps, NEW sm \in S2PMaps,
           \A r \in rows : r.slot \in Slots /\ sm[r.slot] = r.blk
    PROVE  /\ EvictP2S(rows, pm, sm) = pm
           /\ EvictS2P(rows, sm) = sm
<1>1. EvictedBy(rows, pm, sm) = {}
  BY DEF EvictedBy, Assigned
<1>2. EvictP2S(rows, pm, sm) = pm
  BY <1>1 DEF EvictP2S, P2SMaps
<1>3. ASSUME NEW h \in Slots, \E r \in Assigned(rows) : r.slot = h
      PROVE  (CHOOSE r \in Assigned(rows) : r.slot = h).blk = sm[h]
  BY <1>3 DEF Assigned
<1>4. EvictS2P(rows, sm) = sm
  BY <1>3 DEF EvictS2P, S2PMaps
<1> QED BY <1>2, <1>4

\* The promote walker keeps the maps in agreement, releases exactly the slots
\* of its rows, and touches neither the slots nor the pages of other rows.
LEMMA PromoteAgrees ==
    ASSUME NEW rows, NEW pm, NEW sm, NEW own, NEW g, NEW ht,
           WalkReady(rows, pm, sm, own, g, ht)
    PROVE  WalkDone(rows, pm, sm, own, g, ht, PromoteP2S(rows, pm, g),
                    PromoteS2P(rows, pm, sm, g), own \ Released(rows))
<1> SUFFICES ASSUME NEW pn, pn = PromoteP2S(rows, pm, g),
                    NEW sn, sn = PromoteS2P(rows, pm, sm, g),
                    NEW on, on = own \ Released(rows)
             PROVE  WalkDone(rows, pm, sm, own, g, ht, pn, sn, on)
  OBVIOUS
<1>t. /\ rows \in SUBSET Row /\ pm \in P2SMaps /\ sm \in S2PMaps
      /\ own \in SUBSET Slots /\ g \in [Blocks -> Nat]
      /\ RowsReady(rows, pm, sm, own, g, ht)
      /\ MapsAgree(pm, sm, own, g, ht)
  BY DEF WalkReady
<1> DEFINE I == Installs(rows, pm, g)
<1>a. \A r \in rows : r.slot # NoSlot
  BY <1>t, TransportAssumption DEF RowsReady
<1>0. SlotsOf(rows) = {r.slot : r \in rows} /\ Assigned(rows) = rows
  BY <1>a DEF SlotsOf, Assigned
<1>1. I = {r \in rows : g[r.blk] = r.gen}
  BY <1>0, <1>t DEF Installs, RowsReady
<1>2. SlotsOf(I) = {r.slot : r \in I}
  BY <1>0, <1>1 DEF SlotsOf, Assigned
<1>3. ASSUME NEW r \in I
      PROVE  r.blk \in Blocks /\ r.slot \in Slots /\ pn[r.blk] = r.slot
  <2>1. r \in rows /\ g[r.blk] = r.gen /\ r.blk \in Blocks /\ r.slot \in Slots
    BY <1>1, <1>t DEF Row, RowsReady
  <2>2. \A q \in I : q.blk = r.blk => q = r
    BY <1>1, <1>t, <2>1 DEF RowsReady
  <2>3. (CHOOSE q \in I : q.blk = r.blk) = r
    BY <2>2
  <2> QED BY <2>1, <2>3 DEF PromoteP2S
<1>4. ASSUME NEW b \in Blocks, \A r \in I : r.blk # b
      PROVE  pn[b] = pm[b]
  BY <1>4 DEF PromoteP2S
<1>5. \A h \in Slots : sn[h] = IF h \in {r.slot : r \in rows} \ {r.slot : r \in I}
                               THEN NoPage ELSE sm[h]
  BY <1>0, <1>2 DEF PromoteS2P
<1>6. on = own \ {r.slot : r \in rows}
  BY <1>0 DEF Released
<1>7. pn \in P2SMaps
  <2>1. \A b \in Blocks : pn[b] \in Slots \cup {Absent, Pending}
    BY <1>3, <1>4, <1>t DEF P2SMaps
  <2> QED BY <2>1 DEF PromoteP2S, P2SMaps
<1>8. sn \in S2PMaps
  BY <1>t DEF PromoteS2P, S2PMaps
<1>9. ASSUME NEW b \in Blocks, pn[b] \in Slots
      PROVE  pn[b] \notin on /\ sn[pn[b]] = b
             /\ ht[pn[b]] = [blk |-> b, gen |-> g[b]]
  <2>1. CASE \E r \in I : r.blk = b
    <3> PICK r \in I : r.blk = b BY <2>1
    <3>1. pn[b] = r.slot /\ r \in rows /\ g[r.blk] = r.gen BY <1>1, <1>3
    <3>2. sn[r.slot] = sm[r.slot] BY <1>3, <1>5
    <3> QED BY <3>1, <3>2, <1>6, <1>t DEF RowsReady
  <2>2. CASE \A r \in I : r.blk # b
    <3>1. pn[b] = pm[b] BY <1>4, <2>2
    <3>2. pm[b] \notin own /\ sm[pm[b]] = b
          /\ ht[pm[b]] = [blk |-> b, gen |-> g[b]]
      BY <3>1, <1>9, <1>t DEF MapsAgree
    <3>3. pm[b] \notin {r.slot : r \in rows} BY <3>2, <1>t DEF RowsReady
    <3> QED BY <3>1, <3>2, <3>3, <1>5, <1>6, <1>9
  <2> QED BY <2>1, <2>2
<1>10. ASSUME NEW h \in Slots \ on, sn[h] # NoPage
       PROVE  pn[sn[h]] = h
  <2>1. CASE h \in {r.slot : r \in rows}
    <3>1. PICK r \in rows : r.slot = h BY <2>1
    <3>2. h \in {q.slot : q \in I} BY <2>1, <1>5, <1>10
    <3>3. r \in I BY <3>1, <3>2, <1>1, <1>t DEF RowsReady
    <3>4. sn[h] = r.blk BY <3>1, <3>2, <1>5, <1>t DEF RowsReady
    <3> QED BY <3>1, <3>3, <3>4, <1>3
  <2>2. CASE h \notin {r.slot : r \in rows}
    <3>1. h \notin own /\ sn[h] = sm[h] BY <2>2, <1>5, <1>6
    <3>2. pm[sm[h]] = h BY <3>1, <1>10, <1>t DEF MapsAgree
    <3>3. sm[h] \in Blocks BY <3>1, <1>10, <1>t DEF S2PMaps
    <3>a. \A r \in I : pm[r.blk] = Pending BY <1>1, <1>t DEF RowsReady
    <3>b. h # Pending BY TransportAssumption
    <3>4. \A r \in I : r.blk # sm[h] BY <3>2, <3>a, <3>b
    <3> QED BY <3>1, <3>2, <3>3, <3>4, <1>4
  <2> QED BY <2>1, <2>2
<1>11. MapsAgree(pn, sn, on, g, ht)
  BY <1>9, <1>10 DEF MapsAgree
<1>12. \A h \in own : h \notin SlotsOf(rows) => h \in on /\ sn[h] = sm[h]
  BY <1>0, <1>5, <1>6, <1>t
<1>13. \A b \in Blocks :
         (\A r \in rows : r.blk = b => g[b] # r.gen) => pn[b] = pm[b]
  BY <1>1, <1>4
<1>14. on \in SUBSET Slots
  BY <1>6, <1>t
<1> QED BY <1>7, <1>8, <1>11, <1>12, <1>13, <1>14 DEF WalkDone

-----------------------------------------------------------------------------
\* The initial state satisfies the invariant.
LEMMA StreamInit == Init => StreamInv
<1> SUFFICES ASSUME Init PROVE StreamInv
  OBVIOUS
<1>1. Tracked = {} /\ Published = {}
  BY DEF Init, Tracked, InFlight, Published, Bufs
<1>2. TypeOK
  BY DEF Init, TypeOK, Torn, Bufs
<1>3. \A b \in Blocks : p2s[b] \notin Slots
  BY TransportAssumption DEF Init
<1>4. SettledInverse /\ HotBytes
  BY <1>3 DEF Init, SettledInverse, HotBytes
<1>5. RowsOwn /\ RowsBytes
  BY <1>1 DEF Init, RowsOwn, RowsBytes, Bufs
<1> QED BY <1>2, <1>4, <1>5 DEF StreamInv

\* Rows in flight are rows, hold real slots, and (for the walkers) any part of
\* them whose copies are fenced is ready to be promoted.
LEMMA TrackedRows ==
    ASSUME StreamInv
    PROVE  /\ Tracked \subseteq Row
           /\ mail \subseteq Tracked /\ Published \subseteq Tracked
           /\ \A b \in Bufs : snap[b] \subseteq Tracked
           /\ \A r \in Tracked : r.slot \in Slots /\ r.slot # NoSlot
           /\ MapsAgree(p2s, s2p, owner, gen, hot)
<1> USE DEF StreamInv
<1>1. mail \subseteq Tracked /\ Published \subseteq Tracked
      /\ \A b \in Bufs : snap[b] \subseteq Tracked
  BY DEF Tracked, InFlight, Published
<1>2. Tracked \subseteq Row
  BY DEF Tracked, InFlight, TypeOK
<1>3. \A r \in Tracked : r.slot \in Slots /\ r.slot # NoSlot
  BY TransportAssumption DEF RowsOwn, TypeOK
<1>4. MapsAgree(p2s, s2p, owner, gen, hot)
  BY DEF MapsAgree, HotBytes, SettledInverse
<1> QED BY <1>1, <1>2, <1>3, <1>4

\* A step that changes none of the variables the invariant reads, except the
\* phase of a step outside the prologue, keeps it.
LEMMA StreamQuiet ==
    ASSUME StreamInv, UNCHANGED <<maps, gen, pool, valid, hot, queue>>,
           phase' \in {"idle", "forward"},
           TypeOK'
    PROVE  StreamInv'
<1>1. UNCHANGED <<p2s, s2p, owner, gen, pool, valid, hot, mail, snap, fly>>
  BY DEF maps, queue
<1>2. Published' = {}
  BY DEF Published
<1>3. Tracked' \subseteq Tracked /\ InFlight' = InFlight
  BY <1>1 DEF Tracked, InFlight
<1>4. SettledInverse' /\ HotBytes'
  BY <1>1 DEF StreamInv, SettledInverse, HotBytes
<1>5. RowsOwn'
  BY <1>1, <1>2, <1>3 DEF StreamInv, RowsOwn, Current
<1>6. RowsBytes'
  BY <1>1, <1>2, <1>3 DEF StreamInv, RowsBytes, Current
<1> QED BY <1>4, <1>5, <1>6 DEF StreamInv

LEMMA StreamFinish ==
    ASSUME StreamInv, NEW D \in SUBSET live, Finish(D)
    PROVE  StreamInv'
<1>1. TypeOK'
  BY DEF StreamInv, TypeOK, Finish, maps, queue
<1> QED BY <1>1, StreamQuiet DEF Finish

LEMMA StreamPhases ==
    ASSUME StreamInv, PrefillStep \/ EndStep
    PROVE  StreamInv'
<1>1. TypeOK'
  BY DEF StreamInv, TypeOK, PrefillStep, EndStep, maps, queue, store
<1> QED BY <1>1, StreamQuiet DEF PrefillStep, EndStep, store

\* The transport fences a batch: the slots it wrote are held by its rows, so
\* no advertised slot changes, and a current row's bytes are the pool's.
LEMMA StreamFence ==
    ASSUME StreamInv, NEW c \in Bufs, FenceFires(c)
    PROVE  StreamInv'
<1>1. UNCHANGED <<p2s, s2p, owner, gen, pool, valid, mail, snap, plist, phase>>
  BY DEF FenceFires, maps, store
<1>2. Tracked' = Tracked /\ Published' = Published
  BY <1>1 DEF Tracked, InFlight, Published
<1>3. ASSUME NEW h \in Slots, \A r \in snap[c] : r.slot # h
      PROVE  hot'[h] = hot[h]
  BY <1>3 DEF FenceFires
<1>4. ASSUME NEW r \in snap[c], Current(r)
      PROVE  hot'[r.slot] = [blk |-> r.blk, gen |-> r.gen]
  <2>1. r \in Tracked /\ r.slot \in Slots /\ pool[r.blk] = r.gen
    BY <1>4, TrackedRows DEF StreamInv, RowsBytes
  <2>2. \A q \in snap[c] : q.slot = r.slot => q = r
    BY <2>1, TrackedRows DEF StreamInv, RowsOwn
  <2>3. (CHOOSE q \in snap[c] : q.slot = r.slot) = r
    BY <2>2
  <2> QED BY <2>1, <2>3 DEF FenceFires
<1>5. TypeOK'
  <2>1. ASSUME NEW h \in Slots
        PROVE  hot'[h] \in [blk : Blocks \cup {NoPage}, gen : Nat]
    <3>1. CASE \E r \in snap[c] : r.slot = h
      <4> DEFINE r == CHOOSE q \in snap[c] : q.slot = h
      <4>1. r \in Row /\ r.blk \in Blocks /\ r.gen \in Nat
        BY <3>1, TrackedRows DEF Row
      <4>2. hot'[h] = IF pool[r.blk] = r.gen THEN [blk |-> r.blk, gen |-> r.gen]
                      ELSE Torn
        BY <3>1 DEF FenceFires
      <4> QED BY <4>1, <4>2 DEF Torn
    <3>2. CASE ~ \E r \in snap[c] : r.slot = h
      BY <3>2, <1>3 DEF StreamInv, TypeOK
    <3> QED BY <3>1, <3>2
  <2>2. hot' \in [Slots -> [blk : Blocks \cup {NoPage}, gen : Nat]]
    BY <2>1 DEF FenceFires
  <2>3. fly' \in [Bufs -> {"idle", "copying", "fenced"}]
    BY DEF FenceFires, StreamInv, TypeOK
  <2> QED BY <2>2, <2>3 DEF FenceFires, StreamInv, TypeOK, maps, store
<1>6. SettledInverse'
  BY <1>1 DEF StreamInv, SettledInverse
<1>7. RowsOwn'
  <2>1. \A b \in Bufs : fly'[b] = "idle" => fly[b] = "idle"
    BY DEF FenceFires, StreamInv, TypeOK
  <2> QED BY <1>1, <1>2, <2>1 DEF StreamInv, RowsOwn, Current
<1>8. HotBytes'
  <2>1. ASSUME NEW b \in Blocks, p2s[b] \in Slots
        PROVE  hot'[p2s[b]] = hot[p2s[b]]
    <3>1. p2s[b] \notin owner BY <2>1 DEF StreamInv, HotBytes
    <3>2. \A r \in snap[c] : r.slot \in owner
      BY TrackedRows DEF StreamInv, RowsOwn
    <3> QED BY <2>1, <3>1, <3>2, <1>3
  <2> QED BY <1>1, <2>1 DEF StreamInv, HotBytes
<1>9. RowsBytes'
  <2>1. ASSUME NEW b \in Bufs, fly'[b] = "fenced", NEW r \in snap[b], Current(r)
        PROVE  hot'[r.slot] = [blk |-> r.blk, gen |-> r.gen]
    <3>1. CASE b = c BY <3>1, <2>1, <1>4
    <3>2. CASE b # c
      <4>1. fly[b] = "fenced" BY <3>2, <2>1 DEF FenceFires, StreamInv, TypeOK
      <4>2. r \in Tracked /\ r.slot \in Slots BY TrackedRows
      <4>3. \A q \in snap[c] : q.slot # r.slot
        <5> SUFFICES ASSUME NEW q \in snap[c], q.slot = r.slot PROVE FALSE
          OBVIOUS
        <5>1. q = r BY <4>2, TrackedRows DEF StreamInv, RowsOwn
        <5>2. snap[0] \cap snap[1] = {} BY DEF StreamInv, RowsOwn
        <5> QED BY <5>1, <5>2, <3>2 DEF Bufs
      <4> QED BY <4>1, <4>2, <4>3, <2>1, <1>3 DEF StreamInv, RowsBytes
    <3> QED BY <3>1, <3>2
  <2>2. ASSUME NEW r \in Published, Current(r)
        PROVE  hot'[r.slot] = [blk |-> r.blk, gen |-> r.gen]
    <3>1. r \in Tracked /\ r.slot \in Slots BY TrackedRows
    <3>2. \A q \in snap[c] : q.slot # r.slot
      BY <3>1, TrackedRows DEF StreamInv, RowsOwn
    <3> QED BY <3>1, <3>2, <2>2, <1>3 DEF StreamInv, RowsBytes
  <2> QED BY <1>1, <1>2, <2>1, <2>2 DEF StreamInv, RowsBytes, Current
<1> QED BY <1>5, <1>6, <1>7, <1>8, <1>9 DEF StreamInv

\* In stream every mailbox row already holds its slot, so the assignment of the
\* service is empty and the snapshot is the mailbox.
LEMMA AssignNoop ==
    ASSUME StreamInv, NEW f \in Assignments
    PROVE  /\ Snapshot(f) = mail /\ Given(f) = {} /\ GivenUp(f) = {}
           /\ SlotsOf(mail) = {r.slot : r \in mail}
<1>1. \A r \in mail : r.slot # NoSlot
  BY TrackedRows
<1>2. Needy = {}
  BY <1>1 DEF Needy
<1> QED BY <1>1, <1>2 DEF Snapshot, Given, GivenUp, SlotsOf, Assigned

\* The service moves rows between the mailbox, the snapshots and the promote
\* list, and only tears the bytes of slots its rows hold.
LEMMA StreamService ==
    ASSUME StreamInv, Service
    PROVE  StreamInv'
<1> DEFINE pub == IF PrologueOwns THEN {} ELSE Fenced
<1>0. pub \subseteq Bufs /\ \A b \in pub : fly[b] = "fenced"
  BY DEF Fenced
<1>1. /\ UNCHANGED <<s2p, gen, staged, pool, valid, complete, live, decoded>>
      /\ phase = "idle" /\ phase' = "served"
      /\ plist' = UNION {snap[b] : b \in pub}
      /\ ServiceBusy(pub) \/ ServiceIssue(pub)
  BY DEF Service, store
<1>2. Published = {} /\ Tracked = mail \cup UNION {snap[b] : b \in Bufs}
      /\ Published' = plist'
      /\ Tracked' = mail' \cup plist' \cup UNION {snap'[b] : b \in Bufs}
  <2>1. Published = {} /\ Published' = plist'
    BY <1>1 DEF Published
  <2>2. Tracked = InFlight /\ Tracked' = InFlight' \cup plist'
    BY <1>1 DEF Tracked
  <2>3. InFlight = mail \cup UNION {snap[b] : b \in Bufs}
    BY DEF InFlight
  <2>4. InFlight' = mail' \cup UNION {snap'[b] : b \in Bufs}
    BY DEF InFlight
  <2>5. Tracked = mail \cup UNION {snap[b] : b \in Bufs}
    BY <2>2, <2>3, Zenon
  <2>6. Tracked' = mail' \cup plist' \cup UNION {snap'[b] : b \in Bufs}
    BY <2>2, <2>4
  <2> QED BY <2>1, <2>5, <2>6, Zenon
<1>u. /\ \A r : r \in plist' <=> \E b \in pub : r \in snap[b]
      /\ \A r : r \in Tracked <=> r \in mail \/ \E b \in Bufs : r \in snap[b]
      /\ \A r : r \in Tracked' <=>
              \/ r \in mail'
              \/ r \in plist'
              \/ \E b \in Bufs : r \in snap'[b]
  <2> HIDE DEF pub
  <2>1. \A r : r \in plist' <=> \E b \in pub : r \in snap[b]
    BY <1>1
  <2>2. \A r : r \in Tracked <=> r \in mail \/ \E b \in Bufs : r \in snap[b]
    BY <1>2
  <2>3. \A r : r \in Tracked' <=>
              \/ r \in mail'
              \/ r \in plist'
              \/ \E b \in Bufs : r \in snap'[b]
    BY <1>2
  <2> QED BY <2>1, <2>2, <2>3
<1>t. TypeOK BY DEF StreamInv
<1>3. \* what both branches do
      /\ UNCHANGED <<p2s, owner>>
      /\ fresh' \in SUBSET Slots
      /\ \A h \in Slots : hot'[h] = hot[h] \/ (hot'[h] = Torn /\ \E r \in mail : r.slot = h)
      /\ hot' \in [Slots -> [blk : Blocks \cup {NoPage}, gen : Nat]]
      /\ elist' \subseteq Row
      /\ mail' \in {mail, {}}
      /\ snap' \in [Bufs -> SUBSET Row]
      /\ fly' \in [Bufs -> {"idle", "copying", "fenced"}]
      /\ par' \in Bufs
      /\ \A b \in Bufs :
           \/ (snap'[b] = snap[b] /\ fly'[b] = fly[b] /\ b \notin pub)
           \/ (snap'[b] = {} /\ fly'[b] = "idle" /\ b \in pub)
           \/ (/\ snap'[b] = mail /\ mail' = {} /\ fly'[b] = "copying" /\ b = par
               /\ (b \in pub \/ snap[b] = {}))
      /\ mail' = mail \/ (mail' = {} /\ snap'[par] = mail)
  <2>1. CASE ServiceBusy(pub)
    <3>1. /\ UNCHANGED <<p2s, owner, fresh, hot, mail, par>>
          /\ elist' = {}
          /\ fly' = [b \in Bufs |-> IF b \in pub THEN "idle" ELSE fly[b]]
          /\ snap' = [b \in Bufs |-> IF b \in pub THEN {} ELSE snap[b]]
      BY <2>1 DEF ServiceBusy
    <3>2. snap' \in [Bufs -> SUBSET Row] /\ fly' \in [Bufs -> {"idle", "copying", "fenced"}]
      BY <3>1, <1>t DEF TypeOK
    <3>3. ASSUME NEW b \in Bufs PROVE
           \/ (snap'[b] = snap[b] /\ fly'[b] = fly[b] /\ b \notin pub)
           \/ (snap'[b] = {} /\ fly'[b] = "idle" /\ b \in pub)
      BY <3>1
    <3>4. hot' = hot /\ mail' = mail /\ UNCHANGED <<p2s, owner>>
          /\ fresh' \in SUBSET Slots /\ elist' \subseteq Row /\ par' \in Bufs
          /\ hot' \in [Slots -> [blk : Blocks \cup {NoPage}, gen : Nat]]
      BY <3>1, <1>t DEF TypeOK
    <3> QED BY <3>2, <3>3, <3>4
  <2>2. CASE ServiceIssue(pub)
    <3>1. PICK f \in Assignments :
           /\ snap' = [b \in Bufs |-> IF b = par THEN Snapshot(f)
                                      ELSE IF b \in pub THEN {} ELSE snap[b]]
           /\ p2s' = [b \in Blocks |-> IF b \in GivenUp(f) THEN Absent ELSE p2s[b]]
           /\ owner' = owner \cup Given(f)
           /\ fresh' = fresh \cup Given(f)
           /\ hot' = [h \in Slots |->
                        IF h \in SlotsOf(Snapshot(f)) THEN Torn ELSE hot[h]]
           /\ elist' = IF PrologueOwns THEN {} ELSE Snapshot(f)
      BY <2>2 DEF ServiceIssue
    <3>2. /\ par \in pub \/ fly[par] = "idle"
          /\ mail' = {}
          /\ fly' = [b \in Bufs |-> IF b = par THEN "copying"
                                    ELSE IF b \in pub THEN "idle" ELSE fly[b]]
          /\ par' = 1 - par
      BY <2>2 DEF ServiceIssue
    <3>3. Snapshot(f) = mail /\ Given(f) = {} /\ GivenUp(f) = {}
          /\ SlotsOf(mail) = {r.slot : r \in mail}
      BY AssignNoop
    <3>4. UNCHANGED <<p2s, owner, fresh>>
      BY <3>1, <3>3, <1>t DEF TypeOK
    <3>5. hot' = [h \in Slots |-> IF h \in {r.slot : r \in mail} THEN Torn ELSE hot[h]]
      BY <3>1, <3>3
    <3>6. hot' \in [Slots -> [blk : Blocks \cup {NoPage}, gen : Nat]]
      BY <3>5, <1>t DEF TypeOK, Torn
    <3>7. snap' = [b \in Bufs |-> IF b = par THEN mail
                                  ELSE IF b \in pub THEN {} ELSE snap[b]]
      BY <3>1, <3>3
    <3>8. snap' \in [Bufs -> SUBSET Row] /\ elist' \subseteq Row /\ par \in Bufs
          /\ par' \in Bufs /\ fly' \in [Bufs -> {"idle", "copying", "fenced"}]
          /\ fresh' \in SUBSET Slots
      BY <3>1, <3>2, <3>3, <3>4, <3>7, <1>t DEF TypeOK, Bufs
    <3>9. fly[par] = "idle" => snap[par] = {}
      BY <3>8 DEF StreamInv, RowsOwn
    <3>10. ASSUME NEW b \in Bufs PROVE
           \/ (snap'[b] = snap[b] /\ fly'[b] = fly[b] /\ b \notin pub)
           \/ (snap'[b] = {} /\ fly'[b] = "idle" /\ b \in pub)
           \/ (/\ snap'[b] = mail /\ mail' = {} /\ fly'[b] = "copying" /\ b = par
               /\ (b \in pub \/ snap[b] = {}))
      BY <3>2, <3>7, <3>9
    <3>11. snap'[par] = mail BY <3>7, <3>8
    <3>12. \A h \in Slots : hot'[h] = hot[h] \/ (hot'[h] = Torn /\ \E r \in mail : r.slot = h)
      BY <3>5
    <3> QED BY <3>2, <3>4, <3>6, <3>8, <3>10, <3>11, <3>12
  <2> QED BY <1>1, <2>1, <2>2
<1>4. TypeOK'
  <2>1. plist' \subseteq Row BY <1>0, <1>1, <1>t DEF TypeOK
  <2> QED BY <1>1, <1>3, <1>t, <2>1 DEF TypeOK
<1>5. Tracked' = Tracked
  <2>1. ASSUME NEW r \in Tracked' PROVE r \in Tracked
    <3>1. CASE r \in mail' BY <3>1, <1>u, <1>3
    <3>2. CASE r \in plist' BY <3>2, <1>0, <1>u
    <3>3. CASE \E b \in Bufs : r \in snap'[b] BY <3>3, <1>u, <1>3
    <3> QED BY <3>1, <3>2, <3>3, <1>u
  <2>2. ASSUME NEW r \in Tracked PROVE r \in Tracked'
    <3>1. CASE r \in mail BY <3>1, <1>u, <1>3, <1>t DEF TypeOK
    <3>2. CASE \E b \in Bufs : r \in snap[b]
      <4> PICK b \in Bufs : r \in snap[b] BY <3>2
      <4>1. b \in pub => r \in plist' BY <1>u
      <4>2. r \in snap'[b] \/ b \in pub BY <1>3
      <4> QED BY <4>1, <4>2, <1>u
    <3> QED BY <3>1, <3>2, <1>u
  <2> QED BY <2>1, <2>2
<1>6. \A r \in Tracked : Current(r)' <=> Current(r)
  BY <1>1 DEF Current
<1>7. SettledInverse'
  BY <1>1, <1>3 DEF StreamInv, SettledInverse
<1>8. RowsOwn'
  <2>1. \A b \in Bufs : mail \cap snap[b] = {} /\ (fly[b] = "idle" => snap[b] = {})
    BY DEF StreamInv, RowsOwn
  <2>2. snap[0] \cap snap[1] = {} BY DEF StreamInv, RowsOwn
  <2>3. \A b, c \in Bufs : b # c => snap[b] \cap snap[c] = {}
    BY <2>2 DEF Bufs
  <2>4. \A b \in Bufs : b \in pub => snap'[b] \cap snap[b] = {}
    BY <1>3, <2>1
  <2>5. ASSUME NEW b \in Bufs
        PROVE  \/ snap'[b] = {}
               \/ snap'[b] = snap[b]
               \/ (snap'[b] = mail /\ mail' = {} /\ b = par)
    BY <1>3
  <2>6. \A b \in Bufs : mail' \cap snap'[b] = {}
    BY <2>1, <2>5, <1>3
  <2>7. \A b \in Bufs : plist' \cap snap'[b] = {}
    BY <1>0, <1>1, <1>3, <2>1, <2>3
  <2>8. plist' \cap mail' = {}
    BY <1>0, <1>1, <1>3, <2>1
  <2>9. snap'[0] \cap snap'[1] = {}
    BY <2>1, <2>2, <2>5 DEF Bufs
  <2>10. \A b \in Bufs : fly'[b] = "idle" => snap'[b] = {}
    BY <1>3, <2>1
  <2>11. \A b \in Bufs : /\ mail' \cap snap'[b] = {}
                         /\ Published' \cap (mail' \cup snap'[b]) = {}
                         /\ fly'[b] = "idle" => snap'[b] = {}
    BY <1>2, <2>6, <2>7, <2>8, <2>10
  <2> QED BY <1>1, <1>3, <1>5, <1>6, <2>9, <2>11 DEF StreamInv, RowsOwn, Current
<1>9. ASSUME NEW b \in Bufs, NEW r \in snap[b] PROVE hot'[r.slot] = hot[r.slot]
  <2>1. r \in Tracked /\ r.slot \in Slots BY TrackedRows
  <2>2. \A q \in mail : q.slot # r.slot
    BY <2>1, TrackedRows DEF StreamInv, RowsOwn
  <2> QED BY <2>1, <2>2, <1>3
<1>10. RowsBytes'
  <2>1. ASSUME NEW b \in Bufs, fly'[b] = "fenced", NEW r \in snap'[b], Current(r)
        PROVE  hot'[r.slot] = [blk |-> r.blk, gen |-> r.gen]
    <3>1. fly[b] = "fenced" /\ r \in snap[b] BY <1>3, <2>1
    <3> QED BY <3>1, <2>1, <1>9 DEF StreamInv, RowsBytes
  <2>2. ASSUME NEW r \in plist', Current(r)
        PROVE  hot'[r.slot] = [blk |-> r.blk, gen |-> r.gen]
    <3>1. PICK b \in Bufs : fly[b] = "fenced" /\ r \in snap[b] BY <1>0, <1>1
    <3> QED BY <3>1, <2>2, <1>9 DEF StreamInv, RowsBytes
  <2> QED BY <1>1, <1>2, <1>5, <2>1, <2>2 DEF StreamInv, RowsBytes, Current
<1>11. HotBytes'
  <2>1. ASSUME NEW b \in Blocks, p2s[b] \in Slots PROVE hot'[p2s[b]] = hot[p2s[b]]
    <3>1. p2s[b] \notin owner BY <2>1 DEF StreamInv, HotBytes
    <3>2. \A r \in mail : r.slot \in owner BY TrackedRows DEF StreamInv, RowsOwn
    <3> QED BY <2>1, <3>1, <3>2, <1>3
  <2> QED BY <1>1, <1>3, <2>1 DEF StreamInv, HotBytes
<1> QED BY <1>4, <1>7, <1>8, <1>10, <1>11 DEF StreamInv

\* The graph head of the stream schedule promotes the published rows: their
\* copies are fenced, and the rows left in flight share no slot with them.
LEMMA StreamHead ==
    ASSUME Plan = FALSE, StreamInv, Head
    PROVE  StreamInv'
<1>t. /\ p2s \in P2SMaps /\ s2p \in S2PMaps /\ owner \in SUBSET Slots
      /\ gen \in [Blocks -> Nat] /\ plist \in SUBSET Row
  BY DEF StreamInv, TypeOK, P2SMaps, S2PMaps
<1>1. /\ phase = "decode" /\ phase' = "head"
      /\ UNCHANGED <<fresh, gen, staged, pool, valid, complete, live, decoded,
                     hot, mail, snap, fly, par, elist, plist>>
      /\ owner' = owner \ Released(plist)
  BY DEF Head, store, queue
<1>2. p2s' = PromoteP2S(plist, p2s, gen) /\ s2p' = PromoteS2P(plist, p2s, s2p, gen)
  <2>1. EvictP2S({}, p2s, s2p) = p2s /\ EvictS2P({}, s2p) = s2p
    BY <1>t, EvictNoop
  <2> QED BY <2>1 DEF Head
<1>3. Published = plist /\ Published' = {} /\ Tracked' = InFlight
      /\ Tracked = InFlight \cup plist
  <2>1. Tracked' = InFlight' BY <1>1 DEF Tracked
  <2>2. InFlight' = InFlight BY <1>1 DEF InFlight
  <2> QED BY <1>1, <2>1, <2>2 DEF Published, Tracked
<1>4. RowsReady(plist, p2s, s2p, owner, gen, hot)
  BY <1>3 DEF RowsReady, StreamInv, RowsOwn, RowsBytes, Current
<1>5. MapsAgree(p2s, s2p, owner, gen, hot)
  BY TrackedRows
<1>6. /\ p2s' \in P2SMaps /\ s2p' \in S2PMaps /\ owner' \in SUBSET Slots
      /\ MapsAgree(p2s', s2p', owner', gen, hot)
      /\ \A h \in owner : h \notin SlotsOf(plist) =>
           h \in owner' /\ s2p'[h] = s2p[h]
      /\ \A b \in Blocks :
           (\A r \in plist : r.blk = b => gen[b] # r.gen) => p2s'[b] = p2s[b]
  <2>1. WalkReady(plist, p2s, s2p, owner, gen, hot)
    BY <1>t, <1>4, <1>5 DEF WalkReady
  <2>2. WalkDone(plist, p2s, s2p, owner, gen, hot, p2s', s2p', owner')
    BY <1>1, <1>2, <2>1, PromoteAgrees
  <2> QED BY <2>2 DEF WalkDone
<1>7. TypeOK'
  BY <1>1, <1>6 DEF StreamInv, TypeOK, P2SMaps, S2PMaps
<1>8. SettledInverse' /\ HotBytes'
  BY <1>1, <1>6 DEF MapsAgree, SettledInverse, HotBytes
<1>9. ASSUME NEW r \in InFlight
      PROVE  /\ r \in Tracked /\ r \notin plist /\ r.blk \in Blocks
             /\ r.slot \notin SlotsOf(plist)
             /\ Current(r) => p2s'[r.blk] = p2s[r.blk]
  <2>0. r \in mail \/ \E b \in Bufs : r \in snap[b]
    BY DEF InFlight
  <2>1. r \in Tracked /\ r \notin plist /\ r.blk \in Blocks
    <3>1. \A b \in Bufs : Published \cap (mail \cup snap[b]) = {}
      BY DEF StreamInv, RowsOwn
    <3>2. r \notin plist BY <2>0, <3>1, <1>3 DEF Bufs
    <3>3. r \in Tracked BY <1>3
    <3> QED BY <3>2, <3>3, TrackedRows DEF Row
  <2>2. \A q \in plist : q.slot # r.slot
    BY <2>1, <1>3 DEF StreamInv, RowsOwn
  <2>3. r.slot \notin SlotsOf(plist)
    BY <2>2 DEF SlotsOf, Assigned
  <2>4. Current(r) => \A q \in plist : q.blk = r.blk => gen[r.blk] # q.gen
    BY <2>1, <1>3 DEF StreamInv, RowsOwn, Current
  <2> QED BY <1>6, <2>1, <2>3, <2>4
<1>10. RowsOwn'
  <2>1. ASSUME NEW r \in Tracked'
        PROVE  /\ r.slot \in owner'
               /\ s2p'[r.slot] = r.blk
               /\ r.gen <= gen[r.blk]
               /\ Current(r) => p2s'[r.blk] = Pending
    BY <1>3, <1>6, <1>9 DEF StreamInv, RowsOwn
  <2> QED BY <1>1, <1>3, <2>1 DEF StreamInv, RowsOwn, Current
<1>11. RowsBytes'
  BY <1>1, <1>3 DEF StreamInv, RowsBytes, Current
<1> QED BY <1>7, <1>8, <1>10, <1>11 DEF StreamInv

\* invalidate_written in stream: the pages written are un-advertised, the
\* slots that recorded them emptied; held slots and their rows are untouched
\* because no held slot is advertised.
LEMMA InvalidAgrees ==
    ASSUME StreamInv, NEW W \in SUBSET Blocks
    PROVE  /\ InvalidP2S(W) \in P2SMaps /\ InvalidS2P(W) \in S2PMaps
           /\ Bumped(W) \in [Blocks -> Nat]
           /\ MapsAgree(InvalidP2S(W), InvalidS2P(W), owner, Bumped(W), hot)
           /\ \A h \in owner : InvalidS2P(W)[h] = s2p[h]
           /\ \A r \in Tracked :
                Bumped(W)[r.blk] = r.gen <=> Current(r) /\ r.blk \notin W
           /\ \A r \in Tracked :
                r.gen <= Bumped(W)[r.blk]
                /\ (Bumped(W)[r.blk] = r.gen => InvalidP2S(W)[r.blk] = Pending)
<1> DEFINE pm == InvalidP2S(W)
           sm == InvalidS2P(W)
           g  == Bumped(W)
<1>t. /\ p2s \in P2SMaps /\ s2p \in S2PMaps /\ owner \in SUBSET Slots
      /\ gen \in [Blocks -> Nat]
  BY DEF StreamInv, TypeOK, P2SMaps, S2PMaps
<1>1. /\ \A b \in Blocks : pm[b] = IF b \in W THEN Absent ELSE p2s[b]
      /\ \A h \in Slots : sm[h] = IF \E b \in W : p2s[b] = h THEN NoPage ELSE s2p[h]
      /\ \A b \in Blocks : g[b] = gen[b] + (IF b \in W THEN 1 ELSE 0)
  BY DEF InvalidP2S, InvalidS2P, Bumped
<1>2. pm \in P2SMaps /\ sm \in S2PMaps /\ g \in [Blocks -> Nat]
  BY <1>t DEF InvalidP2S, InvalidS2P, Bumped, P2SMaps, S2PMaps
<1>3. ASSUME NEW h \in owner PROVE sm[h] = s2p[h]
  <2>1. h \in Slots BY <1>t
  <2>2. \A b \in W : p2s[b] # h BY <2>1 DEF StreamInv, HotBytes
  <2> QED BY <2>1, <2>2, <1>1
<1>4. ASSUME NEW b \in Blocks, pm[b] \in Slots
      PROVE  pm[b] \notin owner /\ sm[pm[b]] = b
             /\ hot[pm[b]] = [blk |-> b, gen |-> g[b]]
  <2>1. b \notin W /\ pm[b] = p2s[b] /\ g[b] = gen[b]
    BY <1>1, <1>4, <1>t, TransportAssumption
  <2>2. p2s[b] \notin owner /\ s2p[p2s[b]] = b
        /\ hot[p2s[b]] = [blk |-> b, gen |-> gen[b]]
    BY <2>1, <1>4 DEF StreamInv, HotBytes
  <2>3. \A c \in W : p2s[c] # p2s[b]
    BY <2>1, <2>2, <1>4 DEF StreamInv, HotBytes
  <2> QED BY <2>1, <2>2, <2>3, <1>1, <1>4
<1>5. ASSUME NEW h \in Slots \ owner, sm[h] # NoPage
      PROVE  pm[sm[h]] = h
  <2>1. sm[h] = s2p[h] /\ \A b \in W : p2s[b] # h BY <1>1, <1>5
  <2>2. p2s[s2p[h]] = h BY <2>1, <1>5 DEF StreamInv, SettledInverse
  <2>3. s2p[h] \in Blocks BY <2>1, <1>5, <1>t DEF S2PMaps
  <2> QED BY <2>1, <2>2, <2>3, <1>1
<1>6. MapsAgree(pm, sm, owner, g, hot)
  BY <1>4, <1>5 DEF MapsAgree
<1>7. ASSUME NEW r \in Tracked
      PROVE  /\ g[r.blk] = r.gen <=> Current(r) /\ r.blk \notin W
             /\ r.gen <= g[r.blk]
             /\ g[r.blk] = r.gen => pm[r.blk] = Pending
  <2>1. r.blk \in Blocks /\ r.gen \in Nat BY TrackedRows DEF Row
  <2>2. r.gen <= gen[r.blk] /\ (Current(r) => p2s[r.blk] = Pending)
    BY DEF StreamInv, RowsOwn
  <2>3. gen[r.blk] \in Nat BY <2>1, <1>t
  <2>4. Current(r) <=> gen[r.blk] = r.gen BY DEF Current
  <2> QED BY <2>1, <2>2, <2>3, <2>4, <1>1
<1> QED BY <1>2, <1>3, <1>6, <1>7

\* What the prologue does to the maps and rows, with or without the batch
\* engine's consume: the rows it keeps are still held, recorded and pending.
MapsMoved ==
    /\ p2s' \in P2SMaps /\ s2p' \in S2PMaps /\ owner' \in SUBSET Slots
    /\ MapsAgree(p2s', s2p', owner', gen', hot)
    /\ \A b \in Bufs : /\ snap'[b] \subseteq snap[b]
                       /\ fly'[b] = "fenced" => fly[b] = "fenced"
                       /\ fly'[b] = "idle" => snap'[b] = {}
    /\ snap' \in [Bufs -> SUBSET Row]
    /\ fly' \in [Bufs -> {"idle", "copying", "fenced"}]
    /\ Tracked' \subseteq Tracked
    /\ \A r \in Tracked' : /\ r.slot \in owner' /\ s2p'[r.slot] = r.blk
                           /\ gen'[r.blk] = r.gen => p2s'[r.blk] = Pending

LEMMA PrologueMaps ==
    ASSUME StreamInv, NEW W \in SUBSET Blocks, NEW full, NEW A, NEW F, NEW kind,
           Prologue(W, full, A, F, kind), kind \in {"prefill", "decode"}
    PROVE  MapsMoved
<1> DEFINE pm == InvalidP2S(W)
           sm == InvalidS2P(W)
           g  == Bumped(W)
<1>1. /\ phase = "served" /\ phase' = kind
      /\ gen' = g /\ mail' = mail /\ plist' = plist
  BY DEF Prologue
<1>2. Published = plist /\ Published' = plist
  BY <1>1 DEF Published
<1>3. /\ \A r : r \in Tracked <=>
              \/ r \in mail
              \/ r \in plist
              \/ \E b \in Bufs : r \in snap[b]
      /\ \A r : r \in Tracked' <=>
              \/ r \in mail
              \/ r \in plist
              \/ \E b \in Bufs : r \in snap'[b]
  <2>1. Tracked = InFlight \cup plist /\ Tracked' = InFlight' \cup plist
    BY <1>1 DEF Tracked
  <2>2. InFlight = mail \cup UNION {snap[b] : b \in Bufs}
    BY DEF InFlight
  <2>3. InFlight' = mail \cup UNION {snap'[b] : b \in Bufs}
    BY <1>1 DEF InFlight
  <2>4. \A r : r \in InFlight <=> r \in mail \/ \E b \in Bufs : r \in snap[b]
    BY <2>2
  <2>5. \A r : r \in InFlight' <=> r \in mail \/ \E b \in Bufs : r \in snap'[b]
    BY <2>3
  <2> QED BY <2>1, <2>4, <2>5
<1>t. /\ p2s \in P2SMaps /\ s2p \in S2PMaps /\ owner \in SUBSET Slots
      /\ snap \in [Bufs -> SUBSET Row]
      /\ fly \in [Bufs -> {"idle", "copying", "fenced"}]
  BY DEF StreamInv, TypeOK, P2SMaps, S2PMaps
<1>4. /\ pm \in P2SMaps /\ sm \in S2PMaps /\ g \in [Blocks -> Nat]
      /\ MapsAgree(pm, sm, owner, g, hot)
      /\ \A h \in owner : sm[h] = s2p[h]
      /\ \A r \in Tracked : g[r.blk] = r.gen => Current(r) /\ r.blk \notin W
      /\ \A r \in Tracked : g[r.blk] = r.gen => pm[r.blk] = Pending
  BY InvalidAgrees
<1>5. \A r \in Tracked : r.slot \in owner /\ sm[r.slot] = r.blk
  BY <1>4 DEF StreamInv, RowsOwn
<1> HIDE DEF pm, sm, g
<1>6. CASE ~PrologueOwns
  <2>1. p2s' = pm /\ s2p' = sm /\ UNCHANGED <<owner, fly, snap>>
    BY <1>6 DEF Prologue, pm, sm
  <2>2. \A b \in Bufs : /\ snap'[b] \subseteq snap[b]
                        /\ fly'[b] = "fenced" => fly[b] = "fenced"
                        /\ fly'[b] = "idle" => snap'[b] = {}
    BY <2>1 DEF StreamInv, RowsOwn
  <2>3. \A r : r \in Tracked' <=> r \in Tracked
    BY <2>1, <1>3
  <2>4. Tracked' \subseteq Tracked /\ \A r \in Tracked' :
            /\ r.slot \in owner' /\ s2p'[r.slot] = r.blk
            /\ gen'[r.blk] = r.gen => p2s'[r.blk] = Pending
    BY <2>1, <2>3, <1>1, <1>4, <1>5
  <2>5. MapsAgree(p2s', s2p', owner', gen', hot)
    BY <2>1, <1>1, <1>4
  <2> QED BY <2>1, <2>2, <2>4, <2>5, <1>t, <1>4 DEF MapsMoved
<1>7. CASE PrologueOwns
  <2> DEFINE rows == UNION {snap[b] : b \in Fenced}
  <2>0. /\ \A r : r \in rows <=> \E b \in Fenced : r \in snap[b]
        /\ Fenced \subseteq Bufs /\ \A b \in Fenced : fly[b] = "fenced"
    BY DEF Fenced
  <2> HIDE DEF rows
  <2>1. rows \subseteq Tracked /\ rows \in SUBSET Row
    BY <2>0, TrackedRows
  <2>2. \A r \in rows : r.slot \in Slots /\ sm[r.slot] = r.blk
    BY <2>1, <1>5, TrackedRows
  <2>3. EvictP2S(rows, pm, sm) = pm /\ EvictS2P(rows, sm) = sm
    BY <2>1, <2>2, <1>4, EvictNoop
  <2>4. /\ p2s' = PromoteP2S(rows, pm, g)
        /\ s2p' = PromoteS2P(rows, pm, sm, g)
        /\ owner' = owner \ Released(rows)
        /\ fly' = [b \in Bufs |-> IF b \in Fenced THEN "idle" ELSE fly[b]]
        /\ snap' = [b \in Bufs |-> IF b \in Fenced THEN {} ELSE snap[b]]
    <3>1. Consume(pm, sm, g) BY <1>7 DEF Prologue, pm, sm, g
    <3> QED BY <3>1, <2>3 DEF Consume, rows
  <2>5. RowsReady(rows, pm, sm, owner, g, hot)
    <3>1. ASSUME NEW r \in rows, g[r.blk] = r.gen
          PROVE  pm[r.blk] = Pending /\ hot[r.slot] = [blk |-> r.blk, gen |-> r.gen]
      <4>1. r \in Tracked /\ Current(r) BY <3>1, <2>1, <1>4
      <4>2. PICK b \in Bufs : fly[b] = "fenced" /\ r \in snap[b] BY <2>0
      <4> QED BY <3>1, <4>1, <4>2, <1>4 DEF StreamInv, RowsBytes
    <3>2. \A r, q \in rows : r.slot = q.slot => r = q
      BY <2>1 DEF StreamInv, RowsOwn
    <3>3. \A r, q \in rows :
            g[r.blk] = r.gen /\ g[q.blk] = q.gen /\ r.blk = q.blk => r = q
      BY <2>1, <1>4 DEF StreamInv, RowsOwn
    <3>4. \A r \in rows : r.slot \in owner /\ sm[r.slot] = r.blk
      BY <2>1, <1>5
    <3> QED BY <3>1, <3>2, <3>3, <3>4 DEF RowsReady
  <2>6. WalkReady(rows, pm, sm, owner, g, hot)
    BY <2>1, <2>5, <1>t, <1>4 DEF WalkReady
  <2>7. WalkDone(rows, pm, sm, owner, g, hot, p2s', s2p', owner')
    BY <2>4, <2>6, PromoteAgrees
  <2>8. \A b \in Bufs : /\ snap'[b] \subseteq snap[b]
                        /\ fly'[b] = "fenced" => fly[b] = "fenced"
                        /\ fly'[b] = "idle" => snap'[b] = {}
    BY <2>4 DEF StreamInv, RowsOwn
  <2>9. ASSUME NEW r \in Tracked'
        PROVE  r \in Tracked /\ r \notin rows
    <3>1. \A b \in Bufs : /\ mail \cap snap[b] = {}
                          /\ plist \cap (mail \cup snap[b]) = {}
      BY <1>2 DEF StreamInv, RowsOwn
    <3>2. snap[0] \cap snap[1] = {} BY DEF StreamInv, RowsOwn
    <3>3. CASE r \in mail BY <3>1, <3>3, <2>0, <1>3
    <3>4. CASE r \in plist BY <3>1, <3>4, <2>0, <1>3
    <3>5. CASE \E b \in Bufs : r \in snap'[b]
      <4>1. PICK b \in Bufs : r \in snap'[b] BY <3>5
      <4>2. b \notin Fenced /\ r \in snap[b] BY <4>1, <2>4
      <4>3. \A c \in Bufs : c # b => r \notin snap[c]
        BY <4>2, <3>2 DEF Bufs
      <4> QED BY <4>2, <4>3, <2>0, <1>3
    <3> QED BY <3>3, <3>4, <3>5, <1>3
  <2>10. ASSUME NEW r \in Tracked'
         PROVE  /\ r.slot \in owner' /\ s2p'[r.slot] = r.blk
                /\ gen'[r.blk] = r.gen => p2s'[r.blk] = Pending
    <3>1. r \in Tracked /\ r \notin rows /\ r.blk \in Blocks
      BY <2>9, TrackedRows DEF Row
    <3>2. r.slot \notin SlotsOf(rows)
      BY <3>1, <2>1 DEF SlotsOf, Assigned, StreamInv, RowsOwn
    <3>3. r.slot \in owner' /\ s2p'[r.slot] = r.blk
      BY <3>1, <3>2, <1>5, <2>7 DEF WalkDone
    <3>4. ASSUME g[r.blk] = r.gen PROVE p2s'[r.blk] = Pending
      <4>1. Current(r) /\ pm[r.blk] = Pending BY <3>1, <3>4, <1>4
      <4>2. \A q \in rows : q.blk = r.blk => g[r.blk] # q.gen
        BY <3>1, <3>4, <4>1, <2>1, <1>4 DEF StreamInv, RowsOwn
      <4>3. p2s'[r.blk] = pm[r.blk] BY <3>1, <4>2, <2>7 DEF WalkDone
      <4> QED BY <4>1, <4>3
    <3> QED BY <3>3, <3>4, <1>1
  <2>11. MapsAgree(p2s', s2p', owner', gen', hot)
    BY <2>7, <1>1 DEF WalkDone
  <2>12. /\ snap' \in [Bufs -> SUBSET Row]
         /\ fly' \in [Bufs -> {"idle", "copying", "fenced"}]
    BY <2>4, <1>t
  <2> QED BY <2>7, <2>8, <2>9, <2>10, <2>11, <2>12 DEF MapsMoved, WalkDone
<1> QED BY <1>6, <1>7

\* A rewritten page is neither valid in the pool nor current in any row; a
\* flushed page's pool copy is the current generation.
LEMMA StreamPrologue ==
    ASSUME StreamInv, Begin
    PROVE  StreamInv'
<1>a. PICK W \in SUBSET Blocks :
        \E full \in SUBSET W : \E A \in SUBSET W :
          \E F \in SUBSET staged : \E kind \in {"prefill", "decode"} :
            Prologue(W, full, A, F, kind)
  BY DEF Begin
<1>b. PICK full \in SUBSET W, A \in SUBSET W, F \in SUBSET staged,
           kind \in {"prefill", "decode"} : Prologue(W, full, A, F, kind)
  BY <1>a
<1>1. MapsMoved
  BY <1>b, PrologueMaps
<1>2. /\ phase = "served" /\ phase' \in {"prefill", "decode"}
      /\ F \subseteq (staged \cap complete) \ W
      /\ gen' = Bumped(W)
      /\ staged' = (staged \ F) \cup A
      /\ pool' = [b \in Blocks |-> IF b \in F THEN gen[b] ELSE pool[b]]
      /\ valid' = (valid \ W) \cup F
      /\ complete' = (complete \ W) \cup full
      /\ live' = live \cup W
      /\ decoded' = (decoded \/ (~Batch /\ kind = "decode"))
      /\ UNCHANGED <<fresh, hot, mail, par, elist, plist>>
  BY <1>b DEF Prologue
<1>t. TypeOK
  BY DEF StreamInv
<1>3. /\ Bumped(W) \in [Blocks -> Nat]
      /\ \A r \in Tracked : /\ r.gen <= Bumped(W)[r.blk]
                            /\ Bumped(W)[r.blk] = r.gen
                                 => Current(r) /\ r.blk \notin W
  BY InvalidAgrees
<1>4. Published = plist /\ Published' = plist
  BY <1>2 DEF Published
<1>5. TypeOK'
  <2>1. /\ staged' \subseteq Blocks /\ valid' \subseteq Blocks
        /\ complete' \subseteq live' /\ live' \subseteq Blocks
        /\ pool' \in [Blocks -> Nat] /\ decoded' \in BOOLEAN
    BY <1>2, <1>t DEF TypeOK
  <2> QED BY <1>1, <1>2, <1>3, <1>t, <2>1 DEF TypeOK, MapsMoved, P2SMaps, S2PMaps
<1>6. SettledInverse' /\ HotBytes'
  BY <1>1, <1>2 DEF MapsMoved, MapsAgree, SettledInverse, HotBytes
<1>7. RowsOwn'
  <2>1. ASSUME NEW r \in Tracked'
        PROVE  /\ r.slot \in owner' /\ s2p'[r.slot] = r.blk
               /\ r.gen <= gen'[r.blk]
               /\ gen'[r.blk] = r.gen => p2s'[r.blk] = Pending
    BY <1>1, <1>2, <1>3 DEF MapsMoved
  <2>2. \A b \in Bufs : /\ mail' \cap snap'[b] = {}
                        /\ Published' \cap (mail' \cup snap'[b]) = {}
                        /\ fly'[b] = "idle" => snap'[b] = {}
    BY <1>1, <1>2, <1>4 DEF MapsMoved, StreamInv, RowsOwn
  <2>3. snap'[0] \cap snap'[1] = {}
    BY <1>1 DEF MapsMoved, StreamInv, RowsOwn, Bufs
  <2>4. \A r, q \in Tracked' : r.slot = q.slot => r = q
    BY <1>1 DEF MapsMoved, StreamInv, RowsOwn
  <2>5. \A r, q \in Tracked' :
          gen'[r.blk] = r.gen /\ gen'[q.blk] = q.gen /\ r.blk = q.blk => r = q
    BY <1>1, <1>2, <1>3 DEF MapsMoved, StreamInv, RowsOwn
  <2> QED BY <2>1, <2>2, <2>3, <2>4, <2>5 DEF RowsOwn, Current
<1>8. RowsBytes'
  <2>1. ASSUME NEW b \in valid' PROVE pool'[b] = gen'[b]
    <3>1. b \in Blocks /\ b \notin W /\ (b \in F \/ b \in valid)
      BY <1>2, <1>t DEF TypeOK
    <3>2. gen'[b] = gen[b]
      BY <3>1, <1>2, <1>t DEF Bumped, TypeOK
    <3> QED BY <3>1, <3>2, <1>2 DEF StreamInv, RowsBytes
  <2>2. ASSUME NEW r \in Tracked', gen'[r.blk] = r.gen
        PROVE  r \in Tracked /\ Current(r) /\ pool'[r.blk] = r.gen
    <3>1. r \in Tracked /\ Current(r) /\ r.blk \in Blocks
      BY <2>2, <1>1, <1>2, <1>3, TrackedRows DEF MapsMoved, Row
    <3>2. pool[r.blk] = r.gen /\ gen[r.blk] = r.gen
      BY <3>1 DEF StreamInv, RowsBytes, Current
    <3> QED BY <3>1, <3>2, <1>2
  <2>3. ASSUME NEW b \in Bufs, fly'[b] = "fenced", NEW r \in snap'[b],
               gen'[r.blk] = r.gen
        PROVE  hot'[r.slot] = [blk |-> r.blk, gen |-> r.gen]
    <3>1. fly[b] = "fenced" /\ r \in snap[b] BY <2>3, <1>1 DEF MapsMoved
    <3>2. Current(r) BY <2>3, <3>1, <1>2, <1>3, TrackedRows
    <3> QED BY <3>1, <3>2, <1>2 DEF StreamInv, RowsBytes
  <2>4. ASSUME NEW r \in Published', gen'[r.blk] = r.gen
        PROVE  hot'[r.slot] = [blk |-> r.blk, gen |-> r.gen]
    <3>1. r \in Published BY <2>4, <1>4
    <3>2. Current(r) BY <2>4, <3>1, <1>2, <1>3, TrackedRows
    <3> QED BY <3>1, <3>2, <1>2 DEF StreamInv, RowsBytes
  <2> QED BY <2>1, <2>2, <2>3, <2>4 DEF RowsBytes, Current
<1> QED BY <1>5, <1>6, <1>7, <1>8 DEF StreamInv

\* k5_step in stream: the slots drawn are unclaimed, so the pages they held are
\* evicted in the same step; a copied page is published with the bytes just
\* written, a posted one is pending and its row holds the slot.
LEMMA StreamDecode ==
    ASSUME Plan = FALSE, StreamInv, Decode
    PROVE  StreamInv'
<1>t. TypeOK
  BY DEF StreamInv
<1>a. PICK sel \in SUBSET complete : K5Step(sel)
  BY DEF Decode
<1>b. /\ phase = "head" /\ phase' = "forward"
      /\ ClaimInstall(sel)
      /\ UNCHANGED <<gen, staged, pool, valid, complete, live, decoded,
                     snap, fly, par, elist, plist>>
  BY <1>a DEF K5Step, store
<1> DEFINE won(f)    == {b \in Claims(sel) : f[b] # NoSlot}
           used(f)   == {f[b] : b \in won(f)}
           copied(f) == won(f) \cap staged
<1>f. PICK f \in Draws(sel) : \E posted \in SUBSET (won(f) \ staged) :
        /\ p2s' = [b \in Blocks |->
                     CASE b \in EvictedAtClaim(used(f)) -> Absent
                       [] b \in copied(f) -> f[b]
                       [] b \in posted -> Pending
                       [] OTHER -> p2s[b]]
        /\ s2p' = [h \in Slots |->
                     IF \E b \in copied(f) \cup posted : f[b] = h
                     THEN CHOOSE b \in copied(f) \cup posted : f[b] = h
                     ELSE IF h \in used(f) THEN NoPage ELSE s2p[h]]
        /\ owner' = owner \cup {f[b] : b \in posted}
        /\ hot' = [h \in Slots |->
                     IF \E b \in copied(f) : f[b] = h
                     THEN LET b == CHOOSE c \in copied(f) : f[c] = h
                          IN [blk |-> b, gen |-> gen[b]]
                     ELSE hot[h]]
        /\ mail' = mail \cup {RowOf(b, f[b]) : b \in posted}
        /\ fresh' = Hits(sel) \cup used(f)
  BY <1>b DEF ClaimInstall
<1>c. PICK posted \in SUBSET (won(f) \ staged) :
        /\ p2s' = [b \in Blocks |->
                     CASE b \in EvictedAtClaim(used(f)) -> Absent
                       [] b \in copied(f) -> f[b]
                       [] b \in posted -> Pending
                       [] OTHER -> p2s[b]]
        /\ s2p' = [h \in Slots |->
                     IF \E b \in copied(f) \cup posted : f[b] = h
                     THEN CHOOSE b \in copied(f) \cup posted : f[b] = h
                     ELSE IF h \in used(f) THEN NoPage ELSE s2p[h]]
        /\ owner' = owner \cup {f[b] : b \in posted}
        /\ hot' = [h \in Slots |->
                     IF \E b \in copied(f) : f[b] = h
                     THEN LET b == CHOOSE c \in copied(f) : f[c] = h
                          IN [blk |-> b, gen |-> gen[b]]
                     ELSE hot[h]]
        /\ mail' = mail \cup {RowOf(b, f[b]) : b \in posted}
        /\ fresh' = Hits(sel) \cup used(f)
  BY <1>f
<1> DEFINE C == copied(f)
           U == used(f)
<1>1. /\ \A b \in C \cup posted : /\ b \in Blocks /\ p2s[b] = Absent
                                  /\ f[b] \in Slots /\ f[b] \notin owner
                                  /\ f[b] \in U
      /\ \A a, b \in C \cup posted : f[a] = f[b] => a = b
      /\ C \cap posted = {}
      /\ \A b \in posted : b \in valid
      /\ U \subseteq Slots /\ U \cap owner = {}
  <2>1. /\ f \in [Claims(sel) -> (Slots \ (owner \cup Hits(sel))) \cup {NoSlot}]
        /\ \A a, b \in Claims(sel) : f[a] = f[b] /\ f[a] # NoSlot => a = b
    BY DEF Draws
  <2>2. \A b \in Claims(sel) : /\ b \in Blocks /\ p2s[b] = Absent
                               /\ b \in staged \/ b \in valid
    BY <1>t DEF Claims, TypeOK
  <2>3. \A b \in won(f) : /\ b \in Claims(sel) /\ f[b] \in Slots
                          /\ f[b] \notin owner /\ f[b] \in U
    BY <2>1
  <2>4. C \subseteq won(f) /\ posted \subseteq won(f) \ staged /\ C \subseteq staged
    OBVIOUS
  <2> QED BY <2>1, <2>2, <2>3, <2>4
<1>2. /\ \A b \in C : /\ hot'[f[b]] = [blk |-> b, gen |-> gen[b]]
                      /\ s2p'[f[b]] = b
      /\ \A b \in posted : s2p'[f[b]] = b
      /\ \A h \in Slots : h \notin U => s2p'[h] = s2p[h] /\ hot'[h] = hot[h]
      /\ \A h \in U : \/ \E b \in C \cup posted : f[b] = h
                      \/ s2p'[h] = NoPage
  <2>1. ASSUME NEW b \in C \cup posted PROVE s2p'[f[b]] = b
    <3>1. (CHOOSE c \in C \cup posted : f[c] = f[b]) = b BY <1>1
    <3> QED BY <3>1, <1>1, <1>c
  <2>2. ASSUME NEW b \in C PROVE hot'[f[b]] = [blk |-> b, gen |-> gen[b]]
    <3>1. (CHOOSE c \in C : f[c] = f[b]) = b BY <1>1
    <3> QED BY <3>1, <1>1, <1>c
  <2>3. ASSUME NEW h \in Slots, h \notin U
        PROVE  s2p'[h] = s2p[h] /\ hot'[h] = hot[h]
    <3>1. ~ \E b \in C \cup posted : f[b] = h BY <2>3, <1>1
    <3> QED BY <3>1, <2>3, <1>c
  <2>4. ASSUME NEW h \in U, ~ \E b \in C \cup posted : f[b] = h
        PROVE  s2p'[h] = NoPage
    BY <2>4, <1>1, <1>c
  <2> QED BY <2>1, <2>2, <2>3, <2>4
<1>3. /\ owner' = owner \cup {f[b] : b \in posted}
      /\ mail' = mail \cup {RowOf(b, f[b]) : b \in posted}
      /\ fresh' \in SUBSET Slots
  BY <1>c, <1>1, <1>t DEF Hits, TypeOK
<1>4. \* an evicted page was advertised at its drawn slot
      \A b \in Blocks : b \in EvictedAtClaim(U) => p2s[b] \in U
  BY <1>1, TransportAssumption DEF EvictedAtClaim, StreamInv, SettledInverse
<1>5. /\ \A b \in C : p2s'[b] = f[b]
      /\ \A b \in posted : p2s'[b] = Pending
      /\ \A b \in Blocks : b \notin C \cup posted /\ p2s[b] \notin U => p2s'[b] = p2s[b]
      /\ \A b \in Blocks : p2s[b] \in U /\ s2p[p2s[b]] = b => p2s'[b] = Absent
  <2>1. \A b \in C \cup posted : b \in Blocks /\ b \notin EvictedAtClaim(U)
    BY <1>1, <1>4, TransportAssumption
  <2>2. \A b \in C : p2s'[b] = f[b] BY <2>1, <1>c
  <2>3. \A b \in posted : p2s'[b] = Pending BY <2>1, <1>1, <1>c
  <2>4. ASSUME NEW b \in Blocks, b \notin C \cup posted, p2s[b] \notin U
        PROVE  p2s'[b] = p2s[b]
    <3>1. b \notin EvictedAtClaim(U) BY <2>4, <1>4
    <3> QED BY <3>1, <2>4, <1>c
  <2>5. ASSUME NEW b \in Blocks, p2s[b] \in U, s2p[p2s[b]] = b
        PROVE  p2s'[b] = Absent
    <3>1. b \in EvictedAtClaim(used(f)) BY <2>5 DEF EvictedAtClaim
    <3>2. p2s'[b] = CASE b \in EvictedAtClaim(used(f)) -> Absent
                      [] b \in copied(f) -> f[b]
                      [] b \in posted -> Pending
                      [] OTHER -> p2s[b]
      BY <1>c
    <3>3. b \notin copied(f) /\ b \notin posted
      BY <2>5, <1>1, TransportAssumption
    <3> HIDE DEF used, copied
    <3> QED BY <3>1, <3>2, <3>3
  <2> QED BY <2>2, <2>3, <2>4, <2>5
<1> HIDE DEF C, U
<1>6. TypeOK'
  <2>1. p2s' \in [Blocks -> Slots \cup {Absent, Pending}]
    <3>1. \A b \in Blocks : p2s'[b] \in Slots \cup {Absent, Pending}
      BY <1>1, <1>c, <1>t DEF TypeOK, C, U
    <3> QED BY <3>1, <1>c
  <2>2. s2p' \in [Slots -> Blocks \cup {NoPage}]
    <3>1. ASSUME NEW h \in Slots PROVE s2p'[h] \in Blocks \cup {NoPage}
      <4>1. CASE \E b \in C \cup posted : f[b] = h
        <5>1. PICK b \in C \cup posted : f[b] = h BY <4>1
        <5>2. b \in Blocks BY <5>1, <1>1
        <5>3. s2p'[h] = b BY <5>1, <1>2
        <5> QED BY <5>2, <5>3
      <4>2. CASE ~ \E b \in C \cup posted : f[b] = h
        BY <4>2, <1>2, <1>t DEF TypeOK
      <4> QED BY <4>1, <4>2
    <3> QED BY <3>1, <1>c
  <2>3. hot' \in [Slots -> [blk : Blocks \cup {NoPage}, gen : Nat]]
    <3>1. ASSUME NEW h \in Slots
          PROVE  hot'[h] \in [blk : Blocks \cup {NoPage}, gen : Nat]
      <4>1. CASE \E b \in C : f[b] = h
        <5>1. PICK b \in C : f[b] = h BY <4>1
        <5>2. b \in Blocks /\ gen[b] \in Nat BY <5>1, <1>1, <1>t DEF TypeOK
        <5>3. hot'[h] = [blk |-> b, gen |-> gen[b]] BY <5>1, <1>2
        <5> QED BY <5>2, <5>3
      <4>2. CASE ~ \E b \in C : f[b] = h
        <5>1. hot'[h] = hot[h] BY <4>2, <1>c DEF C
        <5> QED BY <5>1, <1>t DEF TypeOK
      <4> QED BY <4>1, <4>2
    <3> QED BY <3>1, <1>c
  <2>4. mail' \subseteq Row /\ owner' \subseteq Slots
    BY <1>1, <1>3, <1>t DEF TypeOK, Row, RowOf
  <2> QED BY <1>b, <1>3, <1>t, <2>1, <2>2, <2>3, <2>4 DEF TypeOK
<1>7. SettledInverse'
  <2> SUFFICES ASSUME NEW h \in Slots \ owner', s2p'[h] # NoPage
               PROVE  p2s'[s2p'[h]] = h
    BY DEF SettledInverse
  <2>1. CASE h \in U
    <3>1. PICK b \in C \cup posted : f[b] = h BY <2>1, <1>2
    <3>2. b \in C BY <3>1, <1>3
    <3> QED BY <3>1, <3>2, <1>2, <1>5
  <2>2. CASE h \notin U
    <3>1. s2p'[h] = s2p[h] /\ h \notin owner BY <2>2, <1>2, <1>3
    <3>2. p2s[s2p[h]] = h /\ s2p[h] \in Blocks
      BY <3>1, <1>t DEF StreamInv, SettledInverse, TypeOK
    <3>3. s2p[h] \notin C \cup posted BY <3>2, <1>1, TransportAssumption
    <3> QED BY <2>2, <3>1, <3>2, <3>3, <1>5
  <2> QED BY <2>1, <2>2
<1>8. HotBytes'
  <2> SUFFICES ASSUME NEW b \in Blocks, p2s'[b] \in Slots
               PROVE  /\ p2s'[b] \notin owner' /\ s2p'[p2s'[b]] = b
                      /\ hot'[p2s'[b]] = [blk |-> b, gen |-> gen[b]]
    BY <1>b DEF HotBytes
  <2>1. CASE b \in C
    <3>1. f[b] \notin owner' BY <2>1, <1>1, <1>3
    <3> QED BY <2>1, <3>1, <1>2, <1>5
  <2>2. CASE b \notin C
    <3>1. b \notin posted BY <1>5, TransportAssumption
    <3>2. p2s[b] \notin U
      BY <1>1, <1>5, TransportAssumption DEF StreamInv, HotBytes
    <3>3. p2s'[b] = p2s[b] BY <2>2, <3>1, <3>2, <1>5
    <3>4. /\ p2s[b] \notin owner /\ s2p[p2s[b]] = b
          /\ hot[p2s[b]] = [blk |-> b, gen |-> gen[b]]
      BY <3>3 DEF StreamInv, HotBytes
    <3>5. p2s[b] \notin owner' BY <3>2, <3>4, <1>1, <1>3
    <3> QED BY <3>2, <3>3, <3>4, <3>5, <1>2
  <2> QED BY <2>1, <2>2
<1> DEFINE N == {RowOf(b, f[b]) : b \in posted}
<1>9. /\ Published' = {} /\ Tracked = InFlight
      /\ Tracked' = Tracked \cup N
      /\ \A b \in Bufs : snap[b] \subseteq Tracked
  <2>1. Published' = {} /\ Tracked = InFlight /\ Tracked' = InFlight'
    BY <1>b DEF Published, Tracked
  <2>2. InFlight' = mail' \cup UNION {snap[b] : b \in Bufs}
    BY <1>b DEF InFlight
  <2>3. InFlight = mail \cup UNION {snap[b] : b \in Bufs}
    BY DEF InFlight
  <2> QED BY <2>1, <2>2, <2>3, <1>3, TrackedRows
<1>10. /\ \A r \in Tracked : /\ r.blk \in Blocks /\ r.slot \in Slots
                             /\ r.slot \in owner /\ r.slot \notin U
                             /\ Current(r) => p2s[r.blk] = Pending
       /\ \A r \in N : \E b \in posted : r = [blk |-> b, gen |-> gen[b], slot |-> f[b]]
  BY TrackedRows, <1>1 DEF StreamInv, RowsOwn, Row, RowOf
<1>11. \A r \in N : /\ r.blk \in posted /\ r.blk \in Blocks /\ r.slot = f[r.blk]
                    /\ r.gen = gen[r.blk]
                    /\ r.slot \notin owner /\ r.slot \in owner'
  BY <1>1, <1>3, <1>10
<1> HIDE DEF N
<1>12. RowsOwn'
  <2>1. ASSUME NEW r \in Tracked'
        PROVE  /\ r.slot \in owner' /\ s2p'[r.slot] = r.blk
               /\ r.gen <= gen[r.blk]
               /\ Current(r) => p2s'[r.blk] = Pending
    <3>1. CASE r \in Tracked
      <4>1. r.slot \in owner' /\ s2p'[r.slot] = r.blk /\ r.gen <= gen[r.blk]
        BY <3>1, <1>2, <1>3, <1>10 DEF StreamInv, RowsOwn
      <4>2. ASSUME Current(r) PROVE p2s'[r.blk] = Pending
        <5>1. p2s[r.blk] = Pending /\ r.blk \in Blocks BY <3>1, <4>2, <1>10
        <5>2. Pending \notin U BY <1>1, TransportAssumption
        <5>3. r.blk \notin C \cup posted BY <5>1, <1>1
        <5> QED BY <5>1, <5>2, <5>3, <1>5
      <4> QED BY <4>1, <4>2
    <3>2. CASE r \in N
      <4>1. gen[r.blk] \in Nat BY <3>2, <1>11, <1>t DEF TypeOK
      <4> QED BY <3>2, <4>1, <1>2, <1>5, <1>11
    <3> QED BY <3>1, <3>2, <1>9
  <2>2. ASSUME NEW r \in Tracked', NEW q \in Tracked', r.slot = q.slot PROVE r = q
    <3>1. CASE r \in Tracked /\ q \in Tracked
      BY <3>1, <2>2 DEF StreamInv, RowsOwn
    <3>2. CASE r \in N /\ q \in N
      <4>1. r.blk = q.blk BY <3>2, <2>2, <1>1, <1>11
      <4> QED BY <3>2, <4>1, <1>10
    <3> QED BY <3>1, <3>2, <2>2, <1>9, <1>10, <1>11
  <2>3. ASSUME NEW r \in Tracked', NEW q \in Tracked', r.blk = q.blk,
               Current(r), Current(q)
        PROVE  r = q
    <3>1. CASE r \in Tracked /\ q \in Tracked
      BY <3>1, <2>3 DEF StreamInv, RowsOwn
    <3>2. CASE r \in N /\ q \in N
      BY <3>2, <2>3, <1>10
    <3>3. \A x \in Tracked, y \in N : Current(x) => x.blk # y.blk
      BY <1>1, <1>10, <1>11
    <3> QED BY <3>1, <3>2, <3>3, <2>3, <1>9
  <2>4. ASSUME NEW b \in Bufs
        PROVE  /\ mail' \cap snap[b] = {}
               /\ fly[b] = "idle" => snap[b] = {}
    <3>1. N \cap snap[b] = {} BY <1>9, <1>10, <1>11
    <3>2. mail' = mail \cup N BY <1>3 DEF N
    <3> QED BY <3>1, <3>2 DEF StreamInv, RowsOwn
  <2>5. snap[0] \cap snap[1] = {} BY DEF StreamInv, RowsOwn
  <2> QED BY <2>1, <2>2, <2>3, <2>4, <2>5, <1>b, <1>9 DEF RowsOwn, Current
<1>13. RowsBytes'
  <2>1. ASSUME NEW r \in Tracked', Current(r) PROVE pool[r.blk] = r.gen
    <3>1. CASE r \in Tracked BY <3>1, <2>1 DEF StreamInv, RowsBytes
    <3>2. CASE r \in N BY <3>2, <1>1, <1>11 DEF StreamInv, RowsBytes
    <3> QED BY <3>1, <3>2, <1>9
  <2>2. ASSUME NEW b \in Bufs, fly[b] = "fenced", NEW r \in snap[b], Current(r)
        PROVE  hot'[r.slot] = [blk |-> r.blk, gen |-> r.gen]
    <3>1. hot'[r.slot] = hot[r.slot] BY <1>2, <1>9, <1>10
    <3> QED BY <3>1, <2>2 DEF StreamInv, RowsBytes
  <2>3. \A b \in valid : pool[b] = gen[b] BY DEF StreamInv, RowsBytes
  <2> QED BY <2>1, <2>2, <2>3, <1>b, <1>9 DEF RowsBytes, Current
<1> QED BY <1>6, <1>7, <1>8, <1>12, <1>13 DEF StreamInv

LEMMA StreamStutter ==
    ASSUME StreamInv, UNCHANGED vars
    PROVE  StreamInv'
<1>1. UNCHANGED <<p2s, s2p, owner, fresh, gen, staged, pool, valid, complete,
                  live, decoded, hot, mail, snap, fly, par, elist, plist, phase>>
  BY DEF vars, maps, store, queue
<1>2. TypeOK' /\ SettledInverse' /\ HotBytes'
  BY <1>1 DEF StreamInv, TypeOK, SettledInverse, HotBytes
<1>3. Tracked' = Tracked /\ Published' = Published
  BY <1>1 DEF Tracked, InFlight, Published
<1> QED BY <1>1, <1>2, <1>3 DEF StreamInv, RowsOwn, RowsBytes, Current

\* In the stream schedule (LOCKS_TIER_SIDE=0) every step keeps StreamInv, for
\* any blocks, slots, capacities and both engines: advertised bytes are the
\* current ones at every instant, a row in flight holds its slot, and settled
\* slots are inverse to page2slot.
THEOREM StreamSafe ==
    ASSUME Plan = FALSE
    PROVE  Spec => []StreamInv
<1>1. Init => StreamInv
  BY StreamInit
<1>2. StreamInv /\ [Next]_vars => StreamInv'
  <2> SUFFICES ASSUME StreamInv, [Next]_vars PROVE StreamInv'
    OBVIOUS
  <2>1. CASE Service BY <2>1, StreamService
  <2>2. CASE Begin BY <2>2, StreamPrologue
  <2>3. CASE PrefillStep BY <2>3, StreamPhases
  <2>4. CASE Head BY <2>4, StreamHead
  <2>5. CASE Decode BY <2>5, StreamDecode
  <2>6. CASE EndStep BY <2>6, StreamPhases
  <2>7. CASE \E b \in Bufs : FenceFires(b) BY <2>7, StreamFence
  <2>8. CASE \E D \in SUBSET live : Finish(D) BY <2>8, StreamFinish
  <2>9. CASE UNCHANGED vars BY <2>9, StreamStutter
  <2> QED BY <2>1, <2>2, <2>3, <2>4, <2>5, <2>6, <2>7, <2>8, <2>9 DEF Next
<1> QED BY <1>1, <1>2, PTL DEF Spec

\* The reader's promise: whatever transports are in flight, a hot page a
\* decode reads is bitwise the page's current bytes (I2 of residency.py).
THEOREM StreamHotIsResidency ==
    ASSUME Plan = FALSE
    PROVE  Spec => []HotIsResidency
<1>1. StreamInv => HotIsResidency
  BY DEF StreamInv, HotBytes, HotIsResidency, TypeOK
<1> QED BY <1>1, StreamSafe, PTL

\* R3 of assert_maps_inverse: the reader's map and the transport's never
\* disagree on an advertised slot.
THEOREM StreamBackRef ==
    ASSUME Plan = FALSE
    PROVE  Spec => []AdvertisedBackRef
<1>1. StreamInv => AdvertisedBackRef
  BY DEF StreamInv, HotBytes, AdvertisedBackRef
<1> QED BY <1>1, StreamSafe, PTL

\* R1 of assert_maps_inverse, and the types it rests on.
THEOREM StreamSettled ==
    ASSUME Plan = FALSE
    PROVE  Spec => [](TypeOK /\ SettledInverse)
<1>1. StreamInv => TypeOK /\ SettledInverse
  BY DEF StreamInv
<1> QED BY <1>1, StreamSafe, PTL

\* No two rows in flight hold one slot, and no row is in two places: two
\* transports never write the same bytes.
THEOREM StreamClaims ==
    ASSUME Plan = FALSE
    PROVE  Spec => [](ClaimsDistinct /\ ClaimsHeld)
<1>1. StreamInv => ClaimsDistinct
  <2> SUFFICES ASSUME StreamInv PROVE ClaimsDistinct
    OBVIOUS
  <2>1. \A r, q \in Assigned(Tracked) : r.slot = q.slot => r = q
    BY DEF StreamInv, RowsOwn, Assigned
  <2>2. \A r \in Assigned(mail) : \A b \in Bufs : r \notin snap[b]
    BY DEF StreamInv, RowsOwn, Assigned
  <2>3. Assigned(snap[0]) \cap Assigned(snap[1]) = {}
    BY DEF StreamInv, RowsOwn, Assigned
  <2> QED BY <2>1, <2>2, <2>3 DEF ClaimsDistinct
<1>2. StreamInv => ClaimsHeld
  <2> SUFFICES ASSUME StreamInv, NEW r \in Assigned(InFlight)
               PROVE  r.slot \in owner
    BY DEF ClaimsHeld, SlotsOf
  <2>1. r \in Tracked BY DEF Tracked, Assigned
  <2> QED BY <2>1 DEF StreamInv, RowsOwn
<1> QED BY <1>1, <1>2, StreamSafe, PTL

\* Type correctness of the stream schedule.
THEOREM StreamTypes ==
    ASSUME Plan = FALSE
    PROVE  Spec => []TypeOK
<1>1. StreamInv => TypeOK
  BY DEF StreamInv
<1> QED BY <1>1, StreamSafe, PTL

\* R6 of assert_maps_inverse: a row with a slot holds the slot's owner word.
THEOREM StreamHeld ==
    ASSUME Plan = FALSE
    PROVE  Spec => []ClaimsHeld
<1>1. ClaimsDistinct /\ ClaimsHeld => ClaimsHeld
  OBVIOUS
<1> QED BY <1>1, StreamClaims, PTL

\* R4 of assert_maps_inverse: in the stream schedule no page is advertised at a
\* slot that a transfer may overwrite, whatever evictions are queued.
THEOREM StreamClaimedHidden ==
    ASSUME Plan = FALSE
    PROVE  Spec => []ClaimedHidden
<1>1. StreamInv => ClaimedHidden
  BY DEF StreamInv, TypeOK, HotBytes, ClaimedHidden
<1> QED BY <1>1, StreamSafe, PTL

\* R5 of assert_maps_inverse: a page whose current bytes are queued for
\* transport is not advertised.
THEOREM StreamIncomingHidden ==
    ASSUME Plan = FALSE
    PROVE  Spec => []IncomingHidden
<1>1. StreamInv => IncomingHidden
  <2> SUFFICES ASSUME StreamInv, NEW r \in InFlight, r.gen = gen[r.blk]
               PROVE  p2s[r.blk] \notin Slots
    BY DEF IncomingHidden
  <2>1. p2s[r.blk] = Pending
    BY DEF StreamInv, RowsOwn, Tracked, Current
  <2> QED BY <2>1, TransportAssumption
<1> QED BY <1>1, StreamSafe, PTL

-----------------------------------------------------------------------------
(* No leak at the batch engine *)

\* With PROMO1 the prologue of a batch engine releases what it consumes, and
\* nothing is left to the graph head.
TrackedInv == StreamInv /\ plist = {} /\ ClaimsTracked

\* A slot some row in flight holds.
Held(h) == \/ \E r \in mail : r.slot = h
           \/ \E b \in Bufs : \E r \in snap[b] : r.slot = h

\* Without a published list, no leak means that every claimed slot is held.
LEMMA HeldRows ==
    StreamInv /\ plist = {} => (ClaimsTracked <=> \A h \in owner : Held(h))
<1> SUFFICES ASSUME StreamInv, plist = {}
             PROVE  ClaimsTracked <=> \A h \in owner : Held(h)
  OBVIOUS
<1>1. Tracked = mail \cup UNION {snap[b] : b \in Bufs}
  BY DEF Tracked, InFlight
<1>2. \A r \in Tracked : r.slot # NoSlot
  BY TrackedRows
<1>3. SlotsOf(Tracked) = {r.slot : r \in Tracked}
  BY <1>2 DEF SlotsOf, Assigned
<1>4. \A h : h \in SlotsOf(Tracked) <=> Held(h)
  BY <1>1, <1>3 DEF Held
<1> QED BY <1>4 DEF ClaimsTracked

\* The service moves the mailbox to a snapshot whose last batch is applied.
LEMMA HeldService ==
    ASSUME Batch, Promo1, StreamInv, \A h \in owner : Held(h), Service
    PROVE  plist' = {} /\ \A h \in owner' : Held(h)'
<1>0. PrologueOwns
  BY DEF PrologueOwns
<1>1. /\ plist' = UNION {snap[b] : b \in {}}
      /\ ServiceBusy({}) \/ ServiceIssue({})
  BY <1>0 DEF Service
<1>2. CASE ServiceBusy({})
  <2>1. UNCHANGED <<owner, mail>> /\ snap' = [b \in Bufs |-> snap[b]]
    BY <1>2 DEF ServiceBusy
  <2> QED BY <1>1, <2>1 DEF Held
<1>3. CASE ServiceIssue({})
  <2>1. fly[par] = "idle" /\ par \in Bufs
    BY <1>3 DEF ServiceIssue, StreamInv, TypeOK
  <2>2. PICK f \in Assignments :
          /\ snap' = [b \in Bufs |-> IF b = par THEN Snapshot(f) ELSE snap[b]]
          /\ owner' = owner \cup Given(f)
    BY <1>3 DEF ServiceIssue
  <2>3. Snapshot(f) = mail /\ Given(f) = {}
    BY AssignNoop
  <2>4. snap[par] = {}
    BY <2>1 DEF StreamInv, RowsOwn
  <2>5. \A h \in owner : \E b \in Bufs : \E r \in snap'[b] : r.slot = h
    <3> SUFFICES ASSUME NEW h \in owner
                 PROVE  \E b \in Bufs : \E r \in snap'[b] : r.slot = h
      OBVIOUS
    <3>1. CASE \E r \in mail : r.slot = h
      BY <3>1, <2>1, <2>2, <2>3
    <3>2. CASE \E b \in Bufs : \E r \in snap[b] : r.slot = h
      <4>1. PICK b \in Bufs : \E r \in snap[b] : r.slot = h
        BY <3>2
      <4>2. b # par
        BY <4>1, <2>4
      <4> QED BY <4>1, <4>2, <2>2
    <3> QED BY <3>1, <3>2 DEF Held
  <2> QED BY <1>1, <2>2, <2>3, <2>5 DEF Held
<1> QED BY <1>1, <1>2, <1>3

\* The prologue releases the slots of the batch it applies, and no others.
LEMMA HeldPrologue ==
    ASSUME Batch, Promo1, StreamInv, \A h \in owner : Held(h), Begin
    PROVE  UNCHANGED plist /\ \A h \in owner' : Held(h)'
<1> DEFINE rows == UNION {snap[b] : b \in Fenced}
<1>1. /\ owner' = owner \ SlotsOf(rows)
      /\ snap' = [b \in Bufs |-> IF b \in Fenced THEN {} ELSE snap[b]]
      /\ UNCHANGED <<mail, plist>>
  BY DEF Begin, Prologue, PrologueOwns, Consume, Released
<1>2. \A b \in Fenced : \A r \in snap[b] : r.slot \in SlotsOf(rows)
  BY TrackedRows DEF SlotsOf, Assigned, Fenced
<1> HIDE DEF rows
<1>3. ASSUME NEW h \in owner'
      PROVE  Held(h)'
  <2>1. Held(h) /\ h \notin SlotsOf(rows)
    BY <1>1
  <2>2. ASSUME NEW b \in Bufs, NEW r \in snap[b], r.slot = h
        PROVE  r \in snap'[b]
    BY <2>1, <2>2, <1>1, <1>2
  <2> QED BY <2>1, <2>2, <1>1 DEF Held
<1> QED BY <1>1, <1>3

\* A claim of the decode step comes with its row.
LEMMA HeldDecode ==
    ASSUME Plan = FALSE, StreamInv, \A h \in owner : Held(h), Decode
    PROVE  UNCHANGED plist /\ \A h \in owner' : Held(h)'
<1>1. PICK sel \in SUBSET complete : ClaimInstall(sel) /\ UNCHANGED <<snap, plist>>
  BY DEF Decode, K5Step
<1>a. PICK f \in Draws(sel) :
        \E posted \in SUBSET ({b \in Claims(sel) : f[b] # NoSlot} \ staged) :
          /\ owner' = owner \cup {f[b] : b \in posted}
          /\ mail' = mail \cup {RowOf(b, f[b]) : b \in posted}
  BY <1>1 DEF ClaimInstall
<1>2. PICK posted \in SUBSET ({b \in Claims(sel) : f[b] # NoSlot} \ staged) :
        /\ owner' = owner \cup {f[b] : b \in posted}
        /\ mail' = mail \cup {RowOf(b, f[b]) : b \in posted}
  BY <1>a
<1>3. \A b \in posted : RowOf(b, f[b]).slot = f[b]
  BY DEF RowOf
<1> QED BY <1>1, <1>2, <1>3 DEF Held

\* At a batch engine with PROMO1 no claim leaks: every held owner word belongs
\* to a row whose promote will release it, through prefill-only steps, rewrites
\* and a busy transfer stream (K5Service.service, consume_fenced_prologue).
THEOREM StreamTracked ==
    ASSUME Plan = FALSE, Batch, Promo1
    PROVE  Spec => []ClaimsTracked
<1>1. Init => TrackedInv
  <2>1. Init => StreamInv
    BY StreamInit
  <2>2. Init => plist = {} /\ owner = {}
    BY DEF Init
  <2> QED BY <2>1, <2>2 DEF TrackedInv, ClaimsTracked
<1>0. (StreamInv /\ plist = {} => (ClaimsTracked <=> \A h \in owner : Held(h)))'
  BY HeldRows, PTL
<1>2. StreamInv /\ StreamInv' /\ TrackedInv /\ [Next]_vars => TrackedInv'
  <2> SUFFICES ASSUME StreamInv, StreamInv', TrackedInv, [Next]_vars
               PROVE  plist' = {} /\ \A h \in owner' : Held(h)'
    BY <1>0 DEF TrackedInv
  <2>0. plist = {} /\ \A h \in owner : Held(h)
    BY HeldRows DEF TrackedInv
  <2>1. CASE Service
    BY <2>0, <2>1, HeldService
  <2>2. CASE Begin
    BY <2>0, <2>2, HeldPrologue
  <2>3. CASE Decode
    BY <2>0, <2>3, HeldDecode
  <2>4. CASE UNCHANGED <<owner, mail, snap, plist>>
    BY <2>0, <2>4 DEF Held
  <2>5. CASE PrefillStep \/ EndStep \/ \E D \in SUBSET live : Finish(D)
    <3>1. UNCHANGED <<owner, mail, snap, plist>>
      BY <2>5 DEF PrefillStep, EndStep, Finish, maps, queue
    <3> QED BY <3>1, <2>4
  <2>6. CASE Head
    <3>1. UNCHANGED <<mail, snap, plist>> /\ owner' = owner \ Released({})
      BY <2>0, <2>6 DEF Head, queue
    <3>2. owner' = owner
      BY <3>1 DEF Released, SlotsOf, Assigned
    <3> QED BY <3>1, <3>2, <2>4
  <2>7. CASE \E b \in Bufs : FenceFires(b)
    <3>1. UNCHANGED <<owner, mail, snap, plist>>
      BY <2>7 DEF FenceFires, maps
    <3> QED BY <3>1, <2>4
  <2>8. CASE UNCHANGED vars
    <3>1. UNCHANGED <<owner, mail, snap, plist>>
      BY <2>8 DEF vars, maps, queue
    <3> QED BY <3>1, <2>4
  <2> QED BY <2>1, <2>2, <2>3, <2>5, <2>6, <2>7, <2>8 DEF Next
<1>3. TrackedInv => ClaimsTracked
  BY DEF TrackedInv
<1>4. TrackedInv => StreamInv
  BY DEF TrackedInv
<1> QED BY <1>1, <1>2, <1>3, <1>4, StreamSafe, PTL DEF Spec

=============================================================================
