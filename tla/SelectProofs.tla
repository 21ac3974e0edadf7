---------------------------- MODULE SelectProofs ----------------------------
(***************************************************************************)
(* Proofs about Select, for any number of pages, digits, chunks and        *)
(* scores: no step normalises by another step's maximum, and the finish of *)
(* the candidate route ranks exactly the keys of the boundary bin.         *)
(***************************************************************************)
EXTENDS Select, FiniteSetTheorems, TLAPS

-----------------------------------------------------------------------------
(* The published maxima.                                                   *)

Pcs == {"idle", "score", "scored", "declined", "select", "topb", "fused", "v2",
        "pmax", "nrm", "finish", "tau", "pick0", "compact", "tfinish",
        "keepscan", "offset", "scatter"}

\* A publish is armed from the score launch to the selection, on the hmax lane
\* only; whoever consumes it puts the maxima back to rest.
RestInv ==
  /\ pc \in Pcs /\ host.armed \in BOOLEAN /\ host.hm \in BOOLEAN
  /\ {"armed", "fold", "done", "hm"} \subseteq DOMAIN host /\ "hmax" \in DOMAIN dev
  /\ pc \in {"score", "scored", "declined"} => (host.armed <=> cfg.lane = "hmax")
  /\ pc \notin {"score", "scored", "declined", "select"} => ~host.armed
  /\ AtRest

\* What a CTA's end does to the control.
LEMMA RunEnds ==
  ASSUME NEW k, NEW z, NEW next, Run(k, z, next)
  PROVE  pc = k /\ pc' \in {k, next}
BY DEF Run, Launch

LEMMA RestInit == Init => RestInv
BY DEF Init, RestInv, AtRest, Pcs

\* A wipe leaves the maxima at rest when what is not armed is at rest.
LEMMA WipedRests ==
  ASSUME RestInv, pc \notin {"fused", "v2"}
  PROVE  Wiped.hmax = NoKey /\ "hmax" \in DOMAIN Wiped
BY DEF Wiped, RestInv, AtRest

LEMMA RestBegin ==
  ASSUME RestInv, Begin
  PROVE  RestInv'
<1>1. /\ dev' = Wiped /\ pc' = "score" /\ cfg' = cfg /\ pc \notin {"fused", "v2"}
      /\ host' = [host EXCEPT !.armed = cfg.lane = "hmax",
                              !.fold = IF cfg.lane = "fold" THEN ZS ELSE @]
  BY DEF Begin, Launch
<1>2. {"armed", "fold", "done", "hm"} \subseteq DOMAIN host' /\ host'.hm = host.hm
  BY <1>1 DEF RestInv
<1>3. host'.armed = (cfg.lane = "hmax")
  BY <1>1 DEF RestInv
<1>4. host'.armed \in BOOLEAN /\ (host'.armed <=> cfg'.lane = "hmax")
  BY <1>1, <1>3
<1>5. dev'.hmax = NoKey /\ "hmax" \in DOMAIN dev'
  BY <1>1, WipedRests
<1> QED BY <1>1, <1>2, <1>4, <1>5 DEF RestInv, AtRest, Pcs

LEMMA RestProfile ==
  ASSUME RestInv, Profile
  PROVE  RestInv'
<1>1. /\ dev' = Wiped /\ pc' = "select" /\ cfg' = cfg /\ pc \notin {"fused", "v2"}
      /\ host' = [host EXCEPT !.armed = FALSE]
  BY DEF Profile, Launch
<1>2. {"armed", "fold", "done", "hm"} \subseteq DOMAIN host' /\ host'.hm = host.hm
  BY <1>1 DEF RestInv
<1>3. host'.armed = FALSE
  BY <1>1 DEF RestInv
<1>5. dev'.hmax = NoKey /\ "hmax" \in DOMAIN dev'
  BY <1>1, WipedRests
<1> QED BY <1>1, <1>2, <1>3, <1>5 DEF RestInv, AtRest, Pcs

LEMMA RestScore ==
  ASSUME RestInv, NEW z, ScoreCta(z)
  PROVE  RestInv'
<1>1. pc = "score" /\ pc' \in {"score", "scored"} /\ UNCHANGED <<cfg, host>>
  BY RunEnds DEF ScoreCta
<1>2. "hmax" \in DOMAIN dev' /\ (cfg.lane # "hmax" => dev'.hmax = dev.hmax)
  BY DEF ScoreCta, RestInv
<1> QED BY <1>1, <1>2 DEF RestInv, AtRest, Pcs

LEMMA RestSelect ==
  ASSUME RestInv, Select
  PROVE  RestInv'
<1>1. /\ pc = "select" /\ cfg' = cfg /\ dev' = dev
      /\ host' = [host EXCEPT !.armed = FALSE, !.hm = host.armed, !.done = TRUE]
      /\ pc' \in {"nrm", "pmax", "v2", "fused"}
  BY DEF Select, Launch
<1>2. host.armed => pc' \in {"v2", "fused"}
  BY DEF Select, Launch, Split
<1>3. {"armed", "fold", "done", "hm"} \subseteq DOMAIN host'
  BY <1>1 DEF RestInv
<1>4. host'.armed = FALSE /\ host'.hm = host.armed
  BY <1>1 DEF RestInv
<1> QED BY <1>1, <1>2, <1>3, <1>4 DEF RestInv, AtRest, Pcs

LEMMA RestSelectMax ==
  ASSUME RestInv, SelectMax
  PROVE  RestInv'
<1>1. /\ pc = "select" /\ cfg' = cfg /\ dev' = Wiped /\ pc' = "topb"
      /\ host' = [host EXCEPT !.armed = FALSE]
  BY DEF SelectMax, Launch
<1>2. {"armed", "fold", "done", "hm"} \subseteq DOMAIN host'
  BY <1>1 DEF RestInv
<1>3. host'.armed = FALSE /\ host'.hm = host.hm
  BY <1>1 DEF RestInv
<1>4. dev'.hmax = NoKey /\ "hmax" \in DOMAIN dev'
  BY <1>1, WipedRests
<1> QED BY <1>1, <1>2, <1>3, <1>4 DEF RestInv, AtRest, Pcs

LEMMA RestSkip ==
  ASSUME RestInv, SkipTopb
  PROVE  RestInv'
<1>1. /\ pc = "topb" /\ cfg' = cfg /\ dev' = dev /\ pc' = "idle"
      /\ host' = [host EXCEPT !.done = FALSE]
  BY DEF SkipTopb
<1>2. {"armed", "fold", "done", "hm"} \subseteq DOMAIN host'
  BY <1>1 DEF RestInv
<1>3. host'.armed = host.armed /\ host'.hm = host.hm
  BY <1>1 DEF RestInv
<1> QED BY <1>1, <1>2, <1>3 DEF RestInv, AtRest, Pcs

\* The consumers of a publish put it back to rest.
LEMMA RestFused ==
  ASSUME RestInv, Fused \/ V2
  PROVE  RestInv'
<1>1. /\ pc \in {"fused", "v2"} /\ cfg' = cfg /\ dev' = Rested /\ host' = host
      /\ pc' \in {pc, "topb"} /\ \E k \in {"fused", "v2"} : Run(k, 0, "topb")
  BY RunEnds DEF Fused, V2
<1>2. dev'.hmax = NoKey /\ "hmax" \in DOMAIN dev'
  BY <1>1 DEF Rested, RestInv, AtRest
<1> QED BY <1>1, <1>2 DEF RestInv, AtRest, Pcs

\* The other kernels leave the maxima alone.
LEMMA RestOther ==
  ASSUME RestInv, pc \notin {"fused", "v2"}, UNCHANGED <<cfg, host>>,
         dev'.hmax = dev.hmax, "hmax" \in DOMAIN dev', pc' \in Pcs,
         pc' \in {"score", "scored", "declined"} => pc \in {"score", "scored", "declined"},
         pc \in {"score", "scored", "declined", "select"}
           => pc' \in {"score", "scored", "declined", "select"}
  PROVE  RestInv'
BY DEF RestInv, AtRest

LEMMA RestKernels ==
  ASSUME RestInv, NEW z,
         \/ Topb \/ Finish \/ TauKernel \/ Pick0 \/ TaucFinish \/ Offset
         \/ Pmax(z) \/ NrmHist(z) \/ Compact(z) \/ KeepScan(z) \/ Scatter(z)
  PROVE  RestInv'
<1>1. CASE Topb
  BY <1>1, RestOther DEF Topb, Pcs, RestInv
<1>2. CASE Finish
  BY <1>2, RunEnds, RestOther DEF Finish, Pcs, RestInv
<1>3. CASE TauKernel
  <2>1. dev'.hmax = dev.hmax /\ "hmax" \in DOMAIN dev'
    BY <1>3 DEF TauKernel, TauAll, TauCut, RestInv
  <2>2. /\ UNCHANGED <<cfg, host>>
        /\ Run("tau", 0, "keepscan")
    BY <1>3 DEF TauKernel
  <2> QED BY <2>1, <2>2, RunEnds, RestOther DEF Pcs
<1>4. CASE Pick0
  <2>1. dev'.hmax = dev.hmax /\ "hmax" \in DOMAIN dev'
    BY <1>4 DEF Pick0, Cleared, RestInv
  <2> QED BY <1>4, <2>1, RunEnds, RestOther DEF Pick0, Pcs
<1>5. CASE TaucFinish
  <2>1. dev'.hmax = dev.hmax /\ "hmax" \in DOMAIN dev'
    BY <1>5 DEF TaucFinish, TauCut, RestInv
  <2>2. /\ UNCHANGED <<cfg, host>>
        /\ Run("tfinish", 0, "keepscan")
    BY <1>5 DEF TaucFinish
  <2> QED BY <2>1, <2>2, RunEnds, RestOther DEF Pcs
<1>6. CASE Offset
  <2>1. dev'.hmax = dev.hmax /\ "hmax" \in DOMAIN dev'
    BY <1>6 DEF Offset, RestInv
  <2> QED BY <1>6, <2>1, RunEnds, RestOther DEF Offset, Pcs
<1>7. CASE Pmax(z)
  <2>1. dev'.hmax = dev.hmax /\ "hmax" \in DOMAIN dev'
    BY <1>7 DEF Pmax, RestInv
  <2> QED BY <1>7, <2>1, RunEnds, RestOther DEF Pmax, Pcs
<1>8. CASE NrmHist(z)
  <2>1. dev'.hmax = dev.hmax /\ "hmax" \in DOMAIN dev'
    BY <1>8 DEF NrmHist, RestInv
  <2> QED BY <1>8, <2>1, RunEnds, RestOther DEF NrmHist, Pcs
<1>9. CASE Compact(z)
  <2>1. dev'.hmax = dev.hmax /\ "hmax" \in DOMAIN dev'
    BY <1>9 DEF Compact, RestInv
  <2> QED BY <1>9, <2>1, RunEnds, RestOther DEF Compact, Pcs
<1>10. CASE KeepScan(z)
  <2>1. dev'.hmax = dev.hmax /\ "hmax" \in DOMAIN dev'
    BY <1>10 DEF KeepScan, RestInv
  <2> QED BY <1>10, <2>1, RunEnds, RestOther DEF KeepScan, Pcs
<1>11. CASE Scatter(z)
  BY <1>11, RunEnds, RestOther DEF Scatter, Pcs, RestInv
<1> QED BY <1>1, <1>2, <1>3, <1>4, <1>5, <1>6, <1>7, <1>8, <1>9, <1>10, <1>11

LEMMA RestStep == RestInv /\ [Next]_vars => RestInv'
<1> SUFFICES ASSUME RestInv, [Next]_vars PROVE RestInv'
  OBVIOUS
<1>1. CASE Begin \/ Profile
  BY <1>1, RestBegin, RestProfile
<1>2. CASE Consume \/ Decline
  BY <1>2, RestOther DEF Consume, Decline, Launch, Pcs, RestInv
<1>3. CASE Select \/ SelectMax \/ SkipTopb
  BY <1>3, RestSelect, RestSelectMax, RestSkip
<1>4. CASE Fused \/ V2
  BY <1>4, RestFused
<1>5. CASE Topb \/ Finish \/ TauKernel \/ Pick0 \/ TaucFinish \/ Offset
  BY <1>5, RestKernels
<1>6. CASE \E z \in left : ScoreCta(z)
  BY <1>6, RestScore
<1>7. CASE \E z \in left : Pmax(z) \/ NrmHist(z) \/ Compact(z) \/ KeepScan(z) \/ Scatter(z)
  BY <1>7, RestKernels
<1>8. CASE UNCHANGED vars
  BY <1>8 DEF vars, RestInv, AtRest
<1> QED BY <1>1, <1>2, <1>3, <1>4, <1>5, <1>6, <1>7, <1>8 DEF Next

\* Between two steps the published maxima are at rest, whatever route the steps
\* take, whether or not their publish is consumed (the _hmax_armed handshake of
\* rki4_score_only and rki4_select_only).
THEOREM SelectAtRest == Spec => []AtRest
<1>1. RestInv => AtRest
  BY DEF RestInv
<1> QED BY RestInit, RestStep, <1>1, PTL DEF Spec

-----------------------------------------------------------------------------
(* Finite sets of numbers in order.                                        *)

\* The rank of an element in a finite set of numbers is its place.
LEMMA Ranks ==
  ASSUME NEW P, P \subseteq Int, IsFiniteSet(P)
  PROVE  /\ Size(P) \in Nat
         /\ \A p \in P : Size({q \in P : q < p}) \in 0 .. Size(P) - 1
         /\ \A p, q \in P : Size({r \in P : r < p}) = Size({r \in P : r < q}) => p = q
         /\ \A i \in 0 .. Size(P) - 1 : \E p \in P : Size({q \in P : q < p}) = i
<1> DEFINE Low(p) == {q \in P : q < p}
           rank == [p \in P |-> Size(Low(p))]
           T == 0 .. Size(P) - 1
<1>1. Size(P) \in Nat
  BY FS_CardinalityType DEF Size
<1>2. ASSUME NEW p \in P
      PROVE  IsFiniteSet(Low(p)) /\ Size(Low(p)) \in Nat /\ Size(Low(p)) < Size(P)
  <2>1. /\ IsFiniteSet(Low(p)) /\ Cardinality(Low(p)) <= Cardinality(P)
        /\ Cardinality(P) = Cardinality(Low(p)) => P = Low(p)
    BY FS_Subset
  <2>2. P # Low(p)
    OBVIOUS
  <2>3. Cardinality(Low(p)) \in Nat
    BY <2>1, FS_CardinalityType
  <2> QED BY <1>1, <2>1, <2>2, <2>3 DEF Size
<1>3. ASSUME NEW p \in P, NEW q \in P, p < q
      PROVE  Size(Low(p)) < Size(Low(q))
  <2>0. p \in Int /\ q \in Int /\ \A r \in P : r \in Int
    OBVIOUS
  <2>1. Low(p) \subseteq Low(q) /\ p \in Low(q) /\ p \notin Low(p)
    <3>1. \A r \in P : r < p => r < q
      BY <1>3, <2>0
    <3>2. ~(p < p)
      BY <2>0
    <3> QED BY <1>3, <3>1, <3>2
  <2>2. IsFiniteSet(Low(q))
    BY <1>2
  <2>3. /\ Cardinality(Low(p)) <= Cardinality(Low(q))
        /\ Cardinality(Low(q)) = Cardinality(Low(p)) => Low(q) = Low(p)
    BY <2>1, <2>2, FS_Subset
  <2> QED BY <1>2, <2>1, <2>3 DEF Size
<1>4. \A p, q \in P : Size(Low(p)) = Size(Low(q)) => p = q
  <2> SUFFICES ASSUME NEW p \in P, NEW q \in P, Size(Low(p)) = Size(Low(q)) PROVE p = q
    OBVIOUS
  <2>1. p < q \/ q < p \/ p = q
    OBVIOUS
  <2> HIDE DEF Low
  <2>2. Size(Low(p)) \in Nat /\ Size(Low(q)) \in Nat
    BY <1>2
  <2> QED BY <1>3, <2>1, <2>2
<1>5. rank \in [P -> T]
  BY <1>1, <1>2
<1>6. rank \in Injection(P, T)
  BY <1>4, <1>5 DEF Injection, IsInjective
<1>7. IsFiniteSet(T) /\ Cardinality(T) = Size(P)
  <2>1. /\ IsFiniteSet(0 .. Size(P) - 1)
        /\ Cardinality(0 .. Size(P) - 1) = IF 0 > Size(P) - 1 THEN 0 ELSE Size(P) - 1 - 0 + 1
    BY <1>1, FS_Interval
  <2> QED BY <1>1, <2>1
<1>8. rank \in Surjection(P, T)
  BY <1>6, <1>7, FS_Injection DEF Size
<1>9. \A i \in T : \E p \in P : rank[p] = i
  BY <1>8 DEF Surjection
<1> QED BY <1>1, <1>2, <1>4, <1>9

\* The element of rank i.
Ranked(P, i) == CHOOSE p \in P : Size({q \in P : q < p}) = i

\* Where the elements of S are when P is laid out from at.
Places(P, at, S) == {i \in at .. (at + Size(P)) - 1 : Ranked(P, i - at) \in S}

\* As many elements in the order of their ranks, whatever is asked of them.
LEMMA RanksCount ==
  ASSUME NEW P, P \subseteq Int, IsFiniteSet(P), NEW at \in Nat, NEW S \in SUBSET P
  PROVE  Size(Places(P, at, S)) = Size(S)
<1> DEFINE Rank1(p) == Size({q \in P : q < p})
           At(i) == CHOOSE p \in P : Rank1(p) = i - at
           I == {i \in at .. (at + Size(P)) - 1 : At(i) \in S}
           f == [p \in S |-> at + Rank1(p)]
<1>1. /\ Size(P) \in Nat
      /\ \A p \in P : Rank1(p) \in 0 .. Size(P) - 1
      /\ \A p, q \in P : Rank1(p) = Rank1(q) => p = q
      /\ \A i \in 0 .. Size(P) - 1 : \E p \in P : Rank1(p) = i
  BY Ranks
<1> HIDE DEF Rank1
<1>2. ASSUME NEW i \in at .. (at + Size(P)) - 1
      PROVE  At(i) \in P /\ Rank1(At(i)) = i - at
  <2>1. i - at \in 0 .. Size(P) - 1
    BY <1>1
  <2>2. \E p \in P : Rank1(p) = i - at
    BY <1>1, <2>1
  <2> QED BY <2>2
<1>3. ASSUME NEW p \in S
      PROVE  at + Rank1(p) \in I
  <2>1. p \in P /\ Rank1(p) \in 0 .. Size(P) - 1
    BY <1>1
  <2>2. at + Rank1(p) \in at .. (at + Size(P)) - 1 /\ (at + Rank1(p)) - at = Rank1(p)
    BY <1>1, <2>1
  <2>3. At(at + Rank1(p)) = p
    BY <1>1, <1>2, <2>1, <2>2
  <2> QED BY <2>2, <2>3
<1> HIDE DEF At
<1>4. f \in [S -> I]
  BY <1>3
<1>5. \A p, q \in S : f[p] = f[q] => p = q
  <2> SUFFICES ASSUME NEW p \in S, NEW q \in S, f[p] = f[q] PROVE p = q
    OBVIOUS
  <2>1. at + Rank1(p) = at + Rank1(q)
    OBVIOUS
  <2>2. Rank1(p) \in Nat /\ Rank1(q) \in Nat /\ at \in Nat
    BY <1>1
  <2>3. \A x, y \in Nat : at + x = at + y => x = y
    BY <2>2
  <2>4. Rank1(p) = Rank1(q)
    BY ONLY <2>1, <2>2, <2>3, Zenon
  <2> QED BY <1>1, <2>4
<1>6. \A i \in I : \E p \in S : f[p] = i
  <2> SUFFICES ASSUME NEW i \in I PROVE \E p \in S : f[p] = i
    OBVIOUS
  <2>1. At(i) \in S /\ Rank1(At(i)) = i - at /\ i \in Int
    BY <1>1, <1>2
  <2>2. f[At(i)] = i
    BY <2>1
  <2> QED BY <2>1, <2>2
<1>7. f \in Bijection(S, I)
  BY <1>4, <1>5, <1>6 DEF Bijection, Injection, Surjection, IsInjective
<1>8. IsFiniteSet(S)
  BY FS_Subset
<1>9. Cardinality(I) = Cardinality(S)
  BY <1>7, <1>8, FS_Bijection DEF ExistsBijection
<1> QED BY <1>9 DEF Size, At, Rank1, Ranked, Places

-----------------------------------------------------------------------------
(* The boundary bin.                                                       *)

\* The selectable pages of chunks D, and those of them in the boundary bin.
Ranged(D) == {p \in Sel : (p - Sink) \div CW \in D}
Bin(D) == {p \in Ranged(D) : Digit(score[p], 0) = dev.state.prefix}

\* How often a key is among the first c entries of f, and among the pages P.
Listed(f, c, key) == Size({i \in 0 .. c - 1 : f[i] = key})
Scoring(P, key) == Size({p \in P : score[p] = key})

\* The rank buffer holds the keys of Bin(D), the second histogram counts them.
Collected(D) ==
  /\ dev.state.cand = Size(Bin(D))
  /\ \A key : Listed(dev.kbuf, dev.state.cand, key) = Scoring(Bin(D), key)
  /\ cfg.fx => dev.hist2 = Bump(Zero, [p \in Bin(D) |-> Digit(score[p], 1)], Bin(D))

Skipped == dev.state.done \/ KeepAll(n)

ShapeInv ==
  /\ turn \in Nat /\ req.n \in 0 .. PPad
  /\ {"state", "kbuf", "hist2"} \subseteq DOMAIN dev
  /\ {"cand", "prefix", "k", "done"} \subseteq DOMAIN dev.state
  /\ DOMAIN dev.kbuf = Pages /\ DOMAIN dev.hist2 = 0 .. Base - 1
  /\ pc \in Wide => left \subseteq Chunks

BinInv ==
  /\ ShapeInv
  /\ pc = "compact" /\ ~Skipped => Collected(Chunks \ left)
  /\ pc = "tfinish" /\ ~Skipped => Collected(Chunks)

\* Every selectable page is in one chunk, and its rank buffer entry exists.
LEMMA SelChunks ==
  ASSUME req.n \in 0 .. PPad
  PROVE  /\ Sel \subseteq Int /\ IsFiniteSet(Sel) /\ Size(Sel) <= PPad
         /\ \A p \in Sel : p - Sink \in Pages /\ (p - Sink) \div CW \in Chunks
<1>1. /\ Sink \in Nat /\ Window \in Nat /\ PPad \in Nat \ {0} /\ Z \in Nat \ {0}
  BY TopBAssumption, SelectAssumption
<1>2. Sel = Sink .. req.n - Window - 1 /\ req.n \in Nat /\ req.n <= PPad
  BY DEF Sel, n, Selectable, SelHi
<1>3. Sel \subseteq Int
  BY <1>1, <1>2
<1>4. IsFiniteSet(Sel) /\ Size(Sel) <= PPad
  <2>1. req.n - Window - 1 \in Int /\ Sink \in Int
    BY <1>1, <1>2
  <2>2. /\ IsFiniteSet(Sel)
        /\ Cardinality(Sel) = IF Sink > req.n - Window - 1 THEN 0
                              ELSE req.n - Window - 1 - Sink + 1
    BY <1>2, <2>1, FS_Interval
  <2> QED BY <1>1, <1>2, <2>2 DEF Size
<1>5. ASSUME NEW p \in Sel
      PROVE  p - Sink \in Pages
  BY <1>1, <1>2 DEF Pages
<1>6. ASSUME NEW x \in Pages
      PROVE  x \div CW \in Chunks
  <2>1. /\ CW \in Nat \ {0} /\ PPad <= Z * CW
    <3> DEFINE m == PPad + Z - 1
    <3>1. m \in Nat /\ m >= Z
      BY <1>1
    <3>2. m \div Z \in Nat /\ m = Z * (m \div Z) + (m % Z) /\ m % Z \in 0 .. Z - 1
      BY <1>1, <3>1
    <3>3. Z * (m \div Z) \in Int
      BY <1>1, <3>2
    <3>4. m \div Z # 0
      <4> SUFFICES ASSUME m \div Z = 0 PROVE FALSE
        OBVIOUS
      <4>1. Z * (m \div Z) = 0
        BY <1>1
      <4> QED BY <1>1, <3>1, <3>2, <4>1
    <3>5. CW = m \div Z
      BY DEF CW
    <3> QED BY <1>1, <3>2, <3>3, <3>4, <3>5
  <2> DEFINE d == x \div CW
  <2>2. x \in Nat /\ x < PPad
    BY <1>1 DEF Pages
  <2>3. d \in Nat /\ CW * d <= x
    BY <2>1, <2>2
  <2> HIDE DEF d
  <2>4. ASSUME d >= Z PROVE FALSE
    <3>1. CW * d >= CW * Z
      BY <1>1, <2>1, <2>3, <2>4
    <3>2. CW * Z = Z * CW /\ CW * Z \in Nat /\ CW * d \in Nat
      BY <1>1, <2>1, <2>3
    <3> QED BY <1>1, <2>1, <2>2, <2>3, <3>1, <3>2
  <2> QED BY <1>1, <2>3, <2>4 DEF Chunks, d
<1> QED BY <1>3, <1>4, <1>5, <1>6

\* Counting in two disjoint parts.
LEMMA SizeSplit ==
  ASSUME NEW S, NEW T, IsFiniteSet(S), IsFiniteSet(T), S \cap T = {}
  PROVE  /\ Size(S) \in Nat /\ Size(T) \in Nat /\ Size(S \cup T) = Size(S) + Size(T)
<1>1. Cardinality(S) \in Nat /\ Cardinality(T) \in Nat
  BY FS_CardinalityType
<1>2. Cardinality(S \cup T) = Cardinality(S) + Cardinality(T) - Cardinality(S \cap T)
  BY FS_Union
<1>3. Cardinality(S \cap T) = 0
  BY FS_EmptySet
<1> QED BY <1>1, <1>2, <1>3 DEF Size

\* What a CTA of the compaction finds.
LEMMA HitsBin ==
  ASSUME req.n \in 0 .. PPad, NEW z \in Chunks, NEW D, z \notin D
  PROVE  /\ Hits(z) \subseteq Int /\ IsFiniteSet(Hits(z)) /\ IsFiniteSet(Bin(D))
         /\ Bin(D \cup {z}) = Bin(D) \cup Hits(z) /\ Bin(D) \cap Hits(z) = {}
         /\ Size(Bin(D)) \in Nat /\ Size(Hits(z)) \in Nat
         /\ Size(Bin(D)) + Size(Hits(z)) = Size(Bin(D \cup {z}))
         /\ Size(Bin(D)) + Size(Hits(z)) <= PPad
<1>1. /\ Sel \subseteq Int /\ IsFiniteSet(Sel) /\ Size(Sel) <= PPad
      /\ \A p \in Sel : p - Sink \in Pages
  BY SelChunks
<1>2. Hits(z) = {p \in Sel : (p - Sink) \div CW = z /\ Digit(score[p], 0) = dev.state.prefix}
  BY <1>1 DEF Hits, Chunk
<1>3. Bin(D) = {p \in Sel : (p - Sink) \div CW \in D /\ Digit(score[p], 0) = dev.state.prefix}
  BY DEF Bin, Ranged
<1>4. Bin(D \cup {z}) = {p \in Sel : (p - Sink) \div CW \in D \cup {z}
                                      /\ Digit(score[p], 0) = dev.state.prefix}
  BY DEF Bin, Ranged
<1>5. /\ Bin(D \cup {z}) = Bin(D) \cup Hits(z) /\ Bin(D) \cap Hits(z) = {}
      /\ Hits(z) \subseteq Sel /\ Bin(D) \subseteq Sel
  BY <1>2, <1>3, <1>4
<1>6. IsFiniteSet(Hits(z)) /\ IsFiniteSet(Bin(D)) /\ IsFiniteSet(Bin(D \cup {z}))
  BY <1>1, <1>5, FS_Subset, FS_Union
<1>7. /\ Size(Bin(D)) \in Nat /\ Size(Hits(z)) \in Nat
      /\ Size(Bin(D) \cup Hits(z)) = Size(Bin(D)) + Size(Hits(z))
  BY <1>5, <1>6, SizeSplit
<1>8. Size(Bin(D \cup {z})) <= Size(Sel)
  BY <1>1, <1>5, FS_Subset DEF Size
<1>9. Size(Bin(D \cup {z})) \in Nat /\ Size(Sel) \in Nat /\ PPad \in Nat
  BY <1>1, <1>6, FS_CardinalityType, SelectAssumption DEF Size
<1>10. Size(Bin(D \cup {z})) <= PPad
  BY <1>1, <1>8, <1>9
<1>11. Size(Bin(D \cup {z})) = Size(Bin(D)) + Size(Hits(z))
  BY <1>5, <1>7
<1>12. Hits(z) \subseteq Int
  BY <1>1, <1>5
<1> QED BY <1>5, <1>6, <1>7, <1>10, <1>11, <1>12

\* Appending the keys of P behind the first at entries.
LEMMA Appended ==
  ASSUME NEW f, DOMAIN f = Pages, NEW P, P \subseteq Int, IsFiniteSet(P),
         NEW at \in Nat, at + Size(P) <= PPad, NEW key
  PROVE  Listed(Append2(f, P, at), at + Size(P), key) = Listed(f, at, key) + Scoring(P, key)
<1> DEFINE Rank1(p) == Size({q \in P : q < p})
           At(i) == Ranked(P, i - at)
           S == {p \in P : score[p] = key}
           g == Append2(f, P, at)
           J == Places(P, at, S)
           K == {i \in 0 .. at - 1 : f[i] = key}
<1>0. Size(P) \in Nat /\ \A i \in 0 .. Size(P) - 1 : \E p \in P : Rank1(p) = i
  BY Ranks
<1>7. Size(J) = Size(S)
  <2>1. S \in SUBSET P
    OBVIOUS
  <2> HIDE DEF S
  <2> QED BY <2>1, RanksCount
<1>2. \A i \in Pages :
        g[i] = IF i >= at /\ i < at + Size(P) THEN score[At(i)] ELSE f[i]
  BY DEF Append2, Ranked
<1> HIDE DEF Rank1
<1>1. ASSUME NEW i \in at .. (at + Size(P)) - 1
      PROVE  At(i) \in P
  <2>1. i - at \in 0 .. Size(P) - 1
    BY <1>0
  <2>2. \E p \in P : Rank1(p) = i - at
    BY <1>0, <2>1
  <2> QED BY <2>2 DEF Ranked, Rank1
<1>8. J = {i \in at .. (at + Size(P)) - 1 : At(i) \in S}
  BY DEF Places
<1> HIDE DEF At, g, J
<1>3. ASSUME NEW i \in 0 .. (at + Size(P)) - 1
      PROVE  /\ i < at => g[i] = f[i] /\ i \in 0 .. at - 1
             /\ i >= at => g[i] = score[At(i)] /\ i \in at .. (at + Size(P)) - 1
  <2>1. i \in Pages /\ i \in Nat
    BY <1>0, SelectAssumption DEF Pages
  <2> QED BY <1>0, <1>2, <2>1
<1>4. {i \in 0 .. (at + Size(P)) - 1 : g[i] = key} = K \cup J
  <2>1. ASSUME NEW i \in 0 .. (at + Size(P)) - 1, g[i] = key PROVE i \in K \cup J
    <3>1. i < at \/ i >= at
      BY <1>0
    <3> QED BY <1>1, <1>3, <1>8, <2>1, <3>1
  <2>2. ASSUME NEW i \in K PROVE i \in 0 .. (at + Size(P)) - 1 /\ g[i] = key
    <3>1. i \in 0 .. (at + Size(P)) - 1 /\ i < at /\ f[i] = key
      BY <1>0
    <3> QED BY <1>3, <3>1
  <2>3. ASSUME NEW i \in J PROVE i \in 0 .. (at + Size(P)) - 1 /\ g[i] = key
    <3>1. i \in 0 .. (at + Size(P)) - 1 /\ i >= at /\ At(i) \in S
      BY <1>0, <1>8
    <3> QED BY <1>3, <3>1
  <2> QED BY <2>1, <2>2, <2>3
<1>5. IsFiniteSet(K) /\ IsFiniteSet(J)
  <2>0. {0, at - 1, at, (at + Size(P)) - 1} \subseteq Int
    BY <1>0
  <2>1. IsFiniteSet(0 .. at - 1) /\ IsFiniteSet(at .. (at + Size(P)) - 1)
    BY <2>0, FS_Interval
  <2> QED BY <1>8, <2>1, FS_Subset
<1>6. K \cap J = {}
  BY <1>0, <1>8
<1>9. Size(K \cup J) = Size(K) + Size(J)
  BY <1>5, <1>6, SizeSplit
<1>10. Listed(g, at + Size(P), key) = Size(K \cup J)
  BY <1>4 DEF Listed
<1> QED BY <1>7, <1>9, <1>10 DEF g, Listed, Scoring

\* A CTA of the compaction adds its chunk's share of the bin.
LEMMA CompactCollects ==
  ASSUME ShapeInv, NEW z \in Chunks, NEW D, z \notin D, Collected(D), ~Skipped, Compact(z)
  PROVE  Collected(D \cup {z})'
<1> DEFINE H == Hits(z)
           B == Bin(D)
           at == dev.state.cand
<1>1. /\ H \subseteq Int /\ IsFiniteSet(H) /\ IsFiniteSet(B)
      /\ Bin(D \cup {z}) = B \cup H /\ B \cap H = {}
      /\ Size(B) \in Nat /\ Size(H) \in Nat
      /\ Size(B) + Size(H) = Size(Bin(D \cup {z})) /\ Size(B) + Size(H) <= PPad
  BY HitsBin DEF ShapeInv
<1>2. /\ UNCHANGED <<cfg, req, score>>
      /\ dev' = [dev EXCEPT
                   !.kbuf = Append2(@, H, at),
                   !.state.cand = @ + Size(H),
                   !.hist2 = IF cfg.fx THEN Bump(@, [p \in H |-> Digit(score[p], 1)], H) ELSE @]
  BY DEF Compact, Skipped
<1>3. /\ dev'.state.cand = at + Size(H) /\ dev'.state.prefix = dev.state.prefix
      /\ dev'.kbuf = Append2(dev.kbuf, H, at)
      /\ cfg.fx => dev'.hist2 = Bump(dev.hist2, [p \in H |-> Digit(score[p], 1)], H)
  BY <1>2 DEF ShapeInv
<1>4. Bin(D \cup {z})' = Bin(D \cup {z})
  BY <1>2, <1>3 DEF Bin, Ranged, Sel, Selectable, SelHi, n, CW
<1>5. at = Size(B) /\ at \in Nat
  BY <1>1 DEF Collected
<1>6. dev'.state.cand = Size(Bin(D \cup {z})')
  BY <1>1, <1>3, <1>4, <1>5
<1>7. ASSUME NEW key
      PROVE  Listed(dev'.kbuf, dev'.state.cand, key) = Scoring(Bin(D \cup {z}), key)
  <2>1. DOMAIN dev.kbuf = Pages
    BY DEF ShapeInv
  <2>2. Listed(dev.kbuf, at, key) = Scoring(B, key)
    BY DEF Collected
  <2>3. {p \in B \cup H : score[p] = key} = {p \in B : score[p] = key} \cup {p \in H : score[p] = key}
    OBVIOUS
  <2>4. /\ IsFiniteSet({p \in B : score[p] = key}) /\ IsFiniteSet({p \in H : score[p] = key})
        /\ {p \in B : score[p] = key} \cap {p \in H : score[p] = key} = {}
    BY <1>1, FS_Subset
  <2>5. Scoring(B \cup H, key) = Scoring(B, key) + Scoring(H, key)
    BY <2>3, <2>4, SizeSplit DEF Scoring
  <2> HIDE DEF H, B
  <2>6. at + Size(H) <= PPad /\ at \in Nat /\ H \subseteq Int /\ IsFiniteSet(H)
    BY <1>1, <1>5
  <2> HIDE DEF at
  <2>7. Listed(Append2(dev.kbuf, H, at), at + Size(H), key) = Listed(dev.kbuf, at, key) + Scoring(H, key)
    BY ONLY <2>1, <2>6, Appended, Zenon
  <2> QED BY <1>1, <1>3, <2>2, <2>5, <2>7
<1>9. ASSUME NEW key
      PROVE  Scoring(Bin(D \cup {z}), key)' = Scoring(Bin(D \cup {z}), key)
  BY <1>2, <1>4 DEF Scoring
<1>8. ASSUME cfg'.fx
      PROVE  dev'.hist2 = Bump(Zero, [p \in Bin(D \cup {z})' |-> Digit(score'[p], 1)], Bin(D \cup {z})')
  <2> DEFINE d(p) == Digit(score[p], 1)
             C(S, v) == Size({p \in S : d(p) = v})
             U == B \cup H
  <2>1. cfg.fx /\ dev'.hist2 = Bump(dev.hist2, [p \in H |-> d(p)], H)
    BY <1>2, <1>3, <1>8
  <2>2. dev.hist2 = Bump(Zero, [p \in B |-> d(p)], B)
    BY <2>1 DEF Collected
  <2>3. dev.hist2 = [v \in 0 .. Base - 1 |-> 0 + C(B, v)]
    <3>1. \A v : {p \in B : [q \in B |-> d(q)][p] = v} = {p \in B : d(p) = v}
      OBVIOUS
    <3>2. DOMAIN Zero = 0 .. Base - 1 /\ \A v \in 0 .. Base - 1 : Zero[v] = 0
      BY DEF Zero
    <3> HIDE DEF B, d
    <3> QED BY <2>2, <3>1, <3>2 DEF Bump
  <2>4. dev'.hist2 = [v \in 0 .. Base - 1 |-> (0 + C(B, v)) + C(H, v)]
    <3>1. \A v : {p \in H : [q \in H |-> d(q)][p] = v} = {p \in H : d(p) = v}
      OBVIOUS
    <3> HIDE DEF B, H, d
    <3> QED BY <2>1, <2>3, <3>1 DEF Bump
  <2>5. ASSUME NEW v PROVE (0 + C(B, v)) + C(H, v) = 0 + C(U, v)
    <3>1. {p \in U : d(p) = v} = {p \in B : d(p) = v} \cup {p \in H : d(p) = v}
      OBVIOUS
    <3>2. /\ IsFiniteSet({p \in B : d(p) = v}) /\ IsFiniteSet({p \in H : d(p) = v})
          /\ {p \in B : d(p) = v} \cap {p \in H : d(p) = v} = {}
      BY <1>1, FS_Subset
    <3>3. C(B, v) \in Nat /\ C(H, v) \in Nat /\ C(U, v) = C(B, v) + C(H, v)
      BY <3>1, <3>2, SizeSplit
    <3> HIDE DEF C
    <3> QED BY <3>3
  <2>6. Bump(Zero, [p \in U |-> d(p)], U) = [v \in 0 .. Base - 1 |-> 0 + C(U, v)]
    <3>1. \A v : {p \in U : [q \in U |-> d(q)][p] = v} = {p \in U : d(p) = v}
      OBVIOUS
    <3>2. DOMAIN Zero = 0 .. Base - 1 /\ \A v \in 0 .. Base - 1 : Zero[v] = 0
      BY DEF Zero
    <3> HIDE DEF U, d
    <3> QED BY <3>1, <3>2 DEF Bump
  <2>7. dev'.hist2 = Bump(Zero, [p \in U |-> d(p)], U)
    <3> HIDE DEF C, U, d, B, H
    <3> QED BY <2>4, <2>5, <2>6
  <2>8. Bin(D \cup {z})' = U
    BY <1>1, <1>4
  <2> QED BY <1>2, <2>7, <2>8
<1> QED BY <1>6, <1>7, <1>8, <1>9 DEF Collected

\* The CTAs still to run of a launch, and of a running kernel.
LEMMA LaunchLeft ==
  ASSUME NEW k, Launch(k)
  PROVE  pc' = k /\ (pc' \in Wide => left' = Chunks)
BY DEF Launch, Grid, Wide

LEMMA RunLeft ==
  ASSUME ShapeInv, NEW k, NEW z, NEW next, Run(k, z, next)
  PROVE  /\ pc = k /\ pc' \in {k, next} /\ (pc' \in Wide => left' \subseteq Chunks)
         /\ left # {z} => pc' = k /\ left' = left \ {z}
         /\ left = {z} => pc' = next /\ (pc' \in Wide => left' = Chunks)
<1>1. CASE left = {z}
  BY <1>1, LaunchLeft DEF Run
<1>2. CASE left # {z}
  BY <1>2 DEF Run, ShapeInv
<1> QED BY <1>1, <1>2

\* What leaves the scratch of the candidate route alone, leaves the bin alone.
LEMMA CollectedSame ==
  ASSUME NEW D, UNCHANGED <<cfg, req, score>>, dev'.state = dev.state,
         dev'.kbuf = dev.kbuf, dev'.hist2 = dev.hist2
  PROVE  Collected(D)' <=> Collected(D)
BY DEF Collected, Bin, Ranged, Sel, Selectable, SelHi, n, CW, Listed, Scoring, Zero, Bump

\* The shape of the scratch in the steps that write none of it, or all but it.
LEMMA ShapeKept ==
  ASSUME ShapeInv, turn' \in Nat, req'.n \in 0 .. PPad,
         {"state", "kbuf", "hist2"} \subseteq DOMAIN dev',
         {"cand", "prefix", "k", "done"} \subseteq DOMAIN dev'.state,
         DOMAIN dev'.kbuf = Pages, DOMAIN dev'.hist2 = 0 .. Base - 1,
         pc' \in Wide => left' \subseteq Chunks
  PROVE  ShapeInv'
BY DEF ShapeInv, Pages, Chunks

LEMMA BinElsewhere ==
  ASSUME ShapeInv', pc' \notin {"compact", "tfinish"}
  PROVE  BinInv'
BY DEF BinInv

LEMMA BinInit == Init => BinInv
<1> SUFFICES ASSUME Init PROVE BinInv
  OBVIOUS
<1>1. /\ pc = "idle" /\ turn = 0 /\ req.n = 0
      /\ dev.state = NoState /\ DOMAIN dev.kbuf = Pages /\ dev.hist2 = Zero
      /\ {"state", "kbuf", "hist2"} \subseteq DOMAIN dev
  BY DEF Init
<1>2. PPad \in Nat
  BY SelectAssumption
<1>3. ShapeInv
  BY <1>1, <1>2 DEF ShapeInv, NoState, Zero, Wide
<1> QED BY <1>1, <1>3 DEF BinInv

\* A step asks with page parameters its scratch was made for.
LEMMA DrawPages ==
  ASSUME NEW i \in 1 .. Len(Draws), NEW d \in Draws[i]
  PROVE  d.n \in 0 .. PPad
BY SelectAssumption

LEMMA BinBegin ==
  ASSUME BinInv, Begin \/ Profile
  PROVE  BinInv'
<1>0. ShapeInv /\ Len(Draws) \in Nat
  BY SelectAssumption DEF BinInv
<1>1. /\ dev' = Wiped /\ turn' = turn + 1 /\ pc' \in {"score", "select"}
  BY DEF Begin, Profile, Launch
<1>2. req'.n \in 0 .. PPad
  <2>1. CASE Begin
    <3>1. PICK d \in Draws[turn + 1] : req' = [n |-> d.n, b |-> d.b, low |-> d.low]
      BY <2>1 DEF Begin
    <3>2. turn + 1 \in 1 .. Len(Draws)
      BY <1>0, <2>1 DEF Begin, ShapeInv
    <3> QED BY <3>1, <3>2, DrawPages
  <2>2. CASE Profile
    <3>1. PICK d \in Draws[1] : req' = [n |-> d.n, b |-> d.b, low |-> d.low]
      BY <2>2 DEF Profile
    <3>2. 1 \in 1 .. Len(Draws)
      BY <1>0, SelectAssumption
    <3> QED BY <3>1, <3>2, DrawPages
  <2> QED BY <2>1, <2>2
<1>3. /\ Wiped.state = dev.state /\ Wiped.kbuf = dev.kbuf /\ Wiped.hist2 = dev.hist2
      /\ DOMAIN Wiped = DOMAIN dev
  BY DEF Wiped
<1>4. turn' \in Nat
  BY <1>0, <1>1 DEF ShapeInv
<1>5. ShapeInv'
  BY <1>0, <1>1, <1>2, <1>3, <1>4, ShapeKept DEF ShapeInv, Wide
<1> QED BY <1>1, <1>5, BinElsewhere

LEMMA BinPick ==
  ASSUME BinInv, Pick0
  PROVE  BinInv'
<1> DEFINE r == Round(Start(b), dev.hist)
           done == [Cleared EXCEPT !.tau = NoKey, !.cut = NoCut, !.state.done = TRUE]
           more == [Cleared EXCEPT !.state = [prefix |-> r.prefix, cand |-> 0, k |-> r.k,
                                              done |-> Whole(r)],
                                   !.tau = IF Whole(r) THEN Tau(r) ELSE @,
                                   !.cut = IF Whole(r) THEN NoCut ELSE @]
<1>0. ShapeInv
  BY DEF BinInv
<1>1. /\ Run("pick0", 0, "compact") /\ UNCHANGED <<cfg, turn, req, score>>
      /\ KeepAll(n) => dev' = done
      /\ ~KeepAll(n) => dev' = more
  BY DEF Pick0
<1>2. /\ {"state", "kbuf", "hist2"} \subseteq DOMAIN Cleared /\ Cleared.kbuf = dev.kbuf
      /\ Cleared.state = dev.state /\ DOMAIN Cleared.hist2 = 0 .. Base - 1
      /\ cfg.fx => Cleared.hist2 = Zero
  BY <1>0 DEF Cleared, ShapeInv, Zero
<1>3. /\ done.kbuf = dev.kbuf /\ done.hist2 = Cleared.hist2
      /\ {"state", "kbuf", "hist2"} \subseteq DOMAIN done
      /\ done.state = [dev.state EXCEPT !.done = TRUE]
  BY <1>2
<1>4. /\ more.kbuf = dev.kbuf /\ more.hist2 = Cleared.hist2
      /\ {"state", "kbuf", "hist2"} \subseteq DOMAIN more
      /\ more.state = [prefix |-> r.prefix, cand |-> 0, k |-> r.k, done |-> Whole(r)]
  <2> HIDE DEF r
  <2> QED BY <1>2
<1> HIDE DEF done, more, r
<1>5. /\ dev'.kbuf = dev.kbuf /\ dev'.hist2 = Cleared.hist2
      /\ {"state", "kbuf", "hist2"} \subseteq DOMAIN dev'
  BY <1>1, <1>3, <1>4
<1>6. {"cand", "prefix", "k", "done"} \subseteq DOMAIN dev'.state
  <2>1. CASE KeepAll(n)
    <3>1. dev'.state = [dev.state EXCEPT !.done = TRUE]
      BY <1>1, <1>3, <2>1
    <3> QED BY <1>0, <3>1 DEF ShapeInv
  <2>2. CASE ~KeepAll(n)
    <3>1. dev'.state = [prefix |-> r.prefix, cand |-> 0, k |-> r.k, done |-> Whole(r)]
      BY <1>1, <1>4, <2>2
    <3> QED BY <3>1
  <2> QED BY <2>1, <2>2
<1>7. /\ pc' \in {"pick0", "compact"} /\ (pc' \in Wide => left' \subseteq Chunks)
      /\ pc' = "compact" => left' = Chunks
  BY <1>0, <1>1, RunLeft DEF Wide
<1>8. ShapeInv'
  BY <1>0, <1>1, <1>2, <1>5, <1>6, <1>7, ShapeKept DEF ShapeInv
<1>9. ASSUME pc' = "compact", ~Skipped'
      PROVE  Collected(Chunks \ left)'
  <2>1. ~KeepAll(n)
    BY <1>1, <1>9 DEF Skipped, KeepAll, NSel, SelHi, n
  <2>2. dev'.state.cand = 0
    BY <1>1, <1>4, <2>1
  <2>3. left' = Chunks
    BY <1>7, <1>9
  <2>4. Chunks \ left' = {}
    BY <2>3
  <2>5. Bin(Chunks \ left)' = {}
    BY <2>3 DEF Bin, Ranged, Chunks
  <2>6. Size({}) = 0
    BY FS_EmptySet DEF Size
  <2>7. ASSUME NEW key PROVE Listed(dev'.kbuf, 0, key) = 0
    <3>1. {i \in 0 .. 0 - 1 : dev'.kbuf[i] = key} = {}
      OBVIOUS
    <3> QED BY <2>6, <3>1 DEF Listed
  <2>8. ASSUME NEW key PROVE Scoring(Bin(Chunks \ left), key)' = 0
    <3>1. {p \in Bin(Chunks \ left)' : score'[p] = key} = {}
      BY <2>5
    <3> QED BY <2>6, <3>1 DEF Scoring
  <2>9. ASSUME cfg.fx
        PROVE  dev'.hist2 = Bump(Zero, [p \in {} |-> Digit(score'[p], 1)], {})
    <3>1. dev'.hist2 = Zero
      BY <1>2, <1>5, <2>9
    <3>2. \A v : {p \in {} : [q \in {} |-> Digit(score'[q], 1)][p] = v} = {}
      OBVIOUS
    <3>3. Bump(Zero, [p \in {} |-> Digit(score'[p], 1)], {}) = [v \in 0 .. Base - 1 |-> 0 + 0]
      BY <2>6, <3>2 DEF Bump, Zero
    <3> QED BY <3>1, <3>3 DEF Zero
  <2> QED BY <1>1, <2>2, <2>5, <2>6, <2>7, <2>8, <2>9 DEF Collected
<1> QED BY <1>7, <1>8, <1>9 DEF BinInv

LEMMA BinCompact ==
  ASSUME BinInv, NEW z \in left, Compact(z)
  PROVE  BinInv'
<1>0. ShapeInv
  BY DEF BinInv
<1>1. /\ Run("compact", z, "tfinish") /\ UNCHANGED <<cfg, turn, req, score>>
      /\ Skipped => dev' = dev
  BY DEF Compact, Skipped
<1>2. /\ pc = "compact" /\ left \subseteq Chunks /\ z \in Chunks
      /\ pc' \in {"compact", "tfinish"} /\ (pc' \in Wide => left' \subseteq Chunks)
      /\ pc' = "compact" => left # {z} /\ left' = left \ {z}
      /\ pc' = "tfinish" => left = {z}
  BY <1>0, <1>1, RunLeft DEF ShapeInv, Wide
<1>3. /\ {"state", "kbuf", "hist2"} \subseteq DOMAIN dev'
      /\ {"cand", "prefix", "k", "done"} \subseteq DOMAIN dev'.state
      /\ DOMAIN dev'.kbuf = Pages /\ DOMAIN dev'.hist2 = 0 .. Base - 1
      /\ dev'.state.done = dev.state.done
  <2>1. CASE Skipped
    BY <1>0, <1>1, <2>1 DEF ShapeInv
  <2>2. CASE ~Skipped
    <3> DEFINE H == Hits(z)
    <3>1. dev' = [dev EXCEPT
                   !.kbuf = Append2(@, H, dev.state.cand),
                   !.state.cand = @ + Size(H),
                   !.hist2 = IF cfg.fx THEN Bump(@, [p \in H |-> Digit(score[p], 1)], H) ELSE @]
      BY <2>2 DEF Compact, Skipped
    <3>2. DOMAIN Append2(dev.kbuf, H, dev.state.cand) = Pages
      BY <1>0 DEF Append2, ShapeInv
    <3>3. DOMAIN Bump(dev.hist2, [p \in H |-> Digit(score[p], 1)], H) = 0 .. Base - 1
      BY <1>0 DEF Bump, ShapeInv
    <3> HIDE DEF H
    <3> QED BY <1>0, <3>1, <3>2, <3>3 DEF ShapeInv
  <2> QED BY <2>1, <2>2
<1>4. ShapeInv'
  BY <1>0, <1>1, <1>2, <1>3, ShapeKept DEF ShapeInv
<1>5. ASSUME NEW D, D = Chunks \ left, ~Skipped'
      PROVE  Collected(D \cup {z})'
  <2>1. ~Skipped
    BY <1>1, <1>3, <1>5 DEF Skipped, KeepAll, NSel, SelHi, n
  <2>2. Collected(D)
    BY <1>2, <1>5, <2>1 DEF BinInv
  <2>3. z \notin D
    BY <1>5
  <2> QED BY <1>0, <1>2, <2>1, <2>2, <2>3, CompactCollects
<1>6. ASSUME pc' = "compact", ~Skipped'
      PROVE  Collected(Chunks \ left)'
  <2>1. Chunks \ left' = (Chunks \ left) \cup {z}
    BY <1>2, <1>6
  <2>2. ASSUME NEW D, D = Chunks \ left, NEW E, E = D \cup {z} PROVE Collected(E)'
    BY <1>5, <1>6, <2>2
  <2> QED BY <2>1, <2>2
<1>7. ASSUME pc' = "tfinish", ~Skipped'
      PROVE  Collected(Chunks)'
  <2>1. Chunks = (Chunks \ left) \cup {z}
    BY <1>2, <1>7
  <2>2. ASSUME NEW D, D = Chunks \ left, NEW E, E = D \cup {z} PROVE Collected(E)'
    BY <1>5, <1>7, <2>2
  <2> QED BY <2>1, <2>2
<1> QED BY <1>2, <1>4, <1>6, <1>7 DEF BinInv


\* A step of the other kernels, and of the host, that leaves the scratch alone.
LEMMA BinKept ==
  ASSUME BinInv, UNCHANGED <<turn, req>>,
         {"state", "kbuf", "hist2"} \subseteq DOMAIN dev', dev'.state = dev.state,
         dev'.kbuf = dev.kbuf, dev'.hist2 = dev.hist2,
         pc' \notin {"compact", "tfinish"}, pc' \in Wide => left' \subseteq Chunks
  PROVE  BinInv'
<1>0. ShapeInv
  BY DEF BinInv
<1>1. ShapeInv'
  BY <1>0, ShapeKept DEF ShapeInv
<1> QED BY <1>1, BinElsewhere

LEMMA BinHost ==
  ASSUME BinInv, Consume \/ Decline \/ Select \/ SelectMax \/ SkipTopb \/ Topb
  PROVE  BinInv'
<1>0. {"state", "kbuf", "hist2"} \subseteq DOMAIN dev
  BY DEF BinInv, ShapeInv
<1>1. CASE Consume
  BY <1>0, <1>1, LaunchLeft, BinKept DEF Consume
<1>2. CASE Decline
  BY <1>0, <1>2, BinKept DEF Decline, Wide
<1>3. CASE Select
  <2>1. PICK k \in {"nrm", "pmax", "v2", "fused"} : Launch(k)
    BY <1>3 DEF Select
  <2>2. pc' = k /\ (pc' \in Wide => left' \subseteq Chunks)
    BY <2>1, LaunchLeft
  <2> QED BY <1>0, <1>3, <2>1, <2>2, BinKept DEF Select
<1>4. CASE SelectMax
  <2>1. /\ DOMAIN Wiped = DOMAIN dev /\ Wiped.state = dev.state
        /\ Wiped.kbuf = dev.kbuf /\ Wiped.hist2 = dev.hist2
    BY DEF Wiped
  <2> QED BY <1>0, <1>4, <2>1, LaunchLeft, BinKept DEF SelectMax
<1>5. CASE SkipTopb
  BY <1>0, <1>5, BinKept DEF SkipTopb, Wide
<1>6. CASE Topb
  BY <1>0, <1>6, BinKept DEF Topb, Wide
<1> QED BY <1>1, <1>2, <1>3, <1>4, <1>5, <1>6

LEMMA BinKernel ==
  ASSUME BinInv, NEW z,
         \/ Fused \/ V2 \/ Finish \/ TauKernel \/ Offset
         \/ ScoreCta(z) \/ Pmax(z) \/ NrmHist(z) \/ Scatter(z)
  PROVE  BinInv'
<1>0. ShapeInv /\ {"state", "kbuf", "hist2"} \subseteq DOMAIN dev
  BY DEF BinInv, ShapeInv
<1>1. /\ UNCHANGED <<turn, req>>
      /\ \E k, next, y : /\ Run(k, y, next)
                         /\ {k, next} \cap {"compact", "tfinish"} = {}
  <2>1. CASE NrmHist(z)
    <3>1. PICK next \in {"finish", "pick0", "tau"} : Run("nrm", z, next)
      BY <2>1 DEF NrmHist
    <3> QED BY <2>1, <3>1 DEF NrmHist
  <2>2. CASE Fused \/ V2
    BY <2>2 DEF Fused, V2
  <2>3. CASE Finish \/ TauKernel \/ Offset
    <3>1. PICK k \in {"finish", "tau", "offset"}, next \in {"topb", "keepscan", "scatter"} :
            Run(k, 0, next)
      BY <2>3 DEF Finish, TauKernel, Offset
    <3>2. UNCHANGED <<turn, req>>
      BY <2>3 DEF Finish, TauKernel, Offset
    <3> QED BY <3>1, <3>2
  <2>4. CASE ScoreCta(z) \/ Pmax(z) \/ Scatter(z)
    BY <2>4 DEF ScoreCta, Pmax, Scatter
  <2> QED BY <2>1, <2>2, <2>3, <2>4
<1>2. pc' \notin {"compact", "tfinish"} /\ (pc' \in Wide => left' \subseteq Chunks)
  BY <1>0, <1>1, RunLeft
<1>3. /\ DOMAIN dev' = DOMAIN dev /\ dev'.state = dev.state
      /\ dev'.kbuf = dev.kbuf /\ dev'.hist2 = dev.hist2
  <2>1. CASE Fused \/ V2
    <3>1. dev' = Rested
      BY <2>1 DEF Fused, V2
    <3> QED BY <3>1 DEF Rested
  <2>2. CASE Finish \/ Scatter(z)
    BY <2>2 DEF Finish, Scatter
  <2>3. CASE TauKernel
    BY <2>3 DEF TauKernel, TauAll, TauCut
  <2>4. CASE Offset
    BY <2>4 DEF Offset
  <2>5. CASE ScoreCta(z)
    BY <2>5 DEF ScoreCta
  <2>6. CASE Pmax(z)
    BY <2>6 DEF Pmax
  <2>7. CASE NrmHist(z)
    BY <2>7 DEF NrmHist
  <2> QED BY <2>1, <2>2, <2>3, <2>4, <2>5, <2>6, <2>7
<1> QED BY <1>0, <1>1, <1>2, <1>3, BinKept

\* The finish writes the threshold only.
LEMMA BinFinish ==
  ASSUME BinInv, TaucFinish
  PROVE  BinInv'
<1>0. ShapeInv
  BY DEF BinInv
<1>1. Run("tfinish", 0, "keepscan") /\ UNCHANGED <<cfg, turn, req, score>>
  BY DEF TaucFinish
<1>2. /\ DOMAIN dev' = DOMAIN dev /\ dev'.state = dev.state
      /\ dev'.kbuf = dev.kbuf /\ dev'.hist2 = dev.hist2
  BY DEF TaucFinish, TauCut
<1>3. /\ pc = "tfinish" /\ pc' \in {"tfinish", "keepscan"}
      /\ pc' \in Wide => left' \subseteq Chunks
  BY <1>0, <1>1, RunLeft
<1>4. ShapeInv'
  BY <1>0, <1>1, <1>2, <1>3, ShapeKept DEF ShapeInv
<1>5. ASSUME ~Skipped' PROVE Collected(Chunks)'
  <2>1. ~Skipped
    BY <1>1, <1>2, <1>5 DEF Skipped, KeepAll, NSel, SelHi, n
  <2>2. Collected(Chunks)
    BY <1>3, <2>1 DEF BinInv
  <2>3. ASSUME NEW D, D = Chunks PROVE Collected(D)'
    BY <1>1, <1>2, <2>2, <2>3, CollectedSame
  <2> QED BY <2>3 DEF Chunks
<1> QED BY <1>3, <1>4, <1>5 DEF BinInv

\* The buffer turns into the ranks of the kept pages after the finish.
LEMMA BinScan ==
  ASSUME BinInv, NEW z, KeepScan(z)
  PROVE  BinInv'
<1>0. ShapeInv
  BY DEF BinInv
<1>1. Run("keepscan", z, "offset") /\ UNCHANGED <<turn, req>>
  BY DEF KeepScan
<1>2. pc' \in {"keepscan", "offset"} /\ (pc' \in Wide => left' \subseteq Chunks)
  BY <1>0, <1>1, RunLeft
<1>3. /\ DOMAIN dev' = DOMAIN dev /\ dev'.state = dev.state
      /\ DOMAIN dev'.kbuf = Pages /\ dev'.hist2 = dev.hist2
  BY <1>0 DEF KeepScan, ShapeInv
<1>4. ShapeInv'
  BY <1>0, <1>1, <1>2, <1>3, ShapeKept DEF ShapeInv
<1> QED BY <1>2, <1>4, BinElsewhere

LEMMA BinStep == BinInv /\ [Next]_vars => BinInv'
<1> SUFFICES ASSUME BinInv, [Next]_vars PROVE BinInv'
  OBVIOUS
<1>1. CASE Begin \/ Profile
  BY <1>1, BinBegin
<1>2. CASE Consume \/ Decline \/ Select \/ SelectMax \/ SkipTopb \/ Topb
  BY <1>2, BinHost
<1>3. CASE Fused \/ V2 \/ Finish \/ TauKernel \/ Offset
  BY <1>3, BinKernel
<1>4. CASE Pick0 \/ TaucFinish
  BY <1>4, BinPick, BinFinish
<1>5. CASE \E z \in left : ScoreCta(z) \/ Pmax(z) \/ NrmHist(z) \/ Scatter(z)
  BY <1>5, BinKernel
<1>6. CASE \E z \in left : Compact(z) \/ KeepScan(z)
  BY <1>6, BinCompact, BinScan
<1>7. CASE UNCHANGED vars
  <2>1. ShapeInv'
    BY <1>7 DEF vars, BinInv, ShapeInv, Wide, Pages, Chunks
  <2>2. Skipped' <=> Skipped
    BY <1>7 DEF vars, Skipped, KeepAll, NSel, SelHi, n
  <2>3. ASSUME NEW D, Collected(D) PROVE Collected(D)'
    BY <1>7, <2>3, CollectedSame DEF vars
  <2>4. Chunks' = Chunks /\ pc' = pc /\ left' = left
    BY <1>7 DEF vars, Chunks
  <2>5. ASSUME pc = "compact", ~Skipped PROVE Collected(Chunks \ left)'
    <3>1. ASSUME NEW D, D = Chunks \ left PROVE Collected(D)'
      BY <2>3, <2>5, <3>1 DEF BinInv
    <3> QED BY <2>4, <3>1
  <2>6. ASSUME pc = "tfinish", ~Skipped PROVE Collected(Chunks)'
    <3>1. ASSUME NEW D, D = Chunks PROVE Collected(D)'
      BY <2>3, <2>6, <3>1 DEF BinInv
    <3> QED BY <2>4, <3>1
  <2> QED BY <2>1, <2>2, <2>4, <2>5, <2>6 DEF BinInv
<1> QED BY <1>1, <1>2, <1>3, <1>4, <1>5, <1>6, <1>7 DEF Next

LEMMA BinBoundary == BinInv => BoundaryBin
<1> SUFFICES ASSUME BinInv, pc = "tfinish", ~Skipped
             PROVE  LET bin == {p \in Sel : Digit(score[p], 0) = dev.state.prefix}
                        same(key) == Size({i \in Candidates : dev.kbuf[i] = key})
                                       = Size({p \in bin : score[p] = key})
                    IN  /\ dev.state.cand = Size(bin) /\ \A p \in bin : same(score[p])
                        /\ cfg.fx => dev.hist2 =
                                       Bump(Zero, [p \in bin |-> Digit(score[p], 1)], bin)
  BY DEF BoundaryBin, Skipped
<1> DEFINE bin == {p \in Sel : Digit(score[p], 0) = dev.state.prefix}
<1>1. Collected(Chunks)
  BY DEF BinInv
<1>2. Bin(Chunks) = bin
  BY SelChunks DEF BinInv, ShapeInv, Bin, Ranged
<1>3. ASSUME NEW key
      PROVE  Size({i \in Candidates : dev.kbuf[i] = key}) = Size({p \in bin : score[p] = key})
  BY <1>1, <1>2 DEF Collected, Listed, Scoring, Candidates
<1> HIDE DEF bin
<1>4. /\ dev.state.cand = Size(bin)
      /\ cfg.fx => dev.hist2 = Bump(Zero, [p \in bin |-> Digit(score[p], 1)], bin)
  BY <1>1, <1>2 DEF Collected
<1> QED BY <1>3, <1>4 DEF bin

\* The finish of the candidate route ranks the keys of the boundary bin, every
\* one as often as a page has it, and the second digits it starts from are
\* theirs, whatever the order of the compaction's CTAs (the shared append
\* counter of sel_tauc_compact; the borrowed rank buffer of sel_tauc_finish).
THEOREM SelectBoundaryBin == Spec => []BoundaryBin
BY BinInit, BinStep, BinBoundary, PTL DEF Spec
=============================================================================
