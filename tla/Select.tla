------------------------------- MODULE Select -------------------------------
(***************************************************************************)
(* Stage A of a decode step for one (request, kv-head): the score launch,  *)
(* the hand-over of its maxima, and the selection kernels the host routes  *)
(* to.  All kernels run on one stream; a kernel's CTAs run in any order    *)
(* and the next kernel starts when they have all ended.  The scratch       *)
(* buffers outlive the step and nobody clears them between steps.          *)
(***************************************************************************)
EXTENDS TopB, Radix

CONSTANTS
  PPad,      \* pages padded to a power of two
  Z, ZS,     \* chunks of the page-parallel kernels; CTAs of the score kernel
  Draws,     \* Draws[i]: the page parameters and scores of step i
  Configs    \* engine configurations: lane, combine, v2, split, fits, tauc, fx

ASSUME SelectAssumption ==
  /\ Z \in Nat \ {0} /\ ZS \in 1 .. Z /\ PPad \in Nat \ {0}
  /\ Inf < Pow(Digits)
  /\ Len(Draws) > 0
  /\ Draws \in Seq(SUBSET [n : 0 .. PPad, b : Nat, low : BOOLEAN,
                           raw : [0 .. PPad - 1 -> Int]])

VARIABLES
  cfg,       \* fixed at start-up
  turn,      \* steps begun, at most Len(Draws)
  req,       \* n, b and low, the small-batch routing of the step
  raw,       \* score_h
  host,      \* armed: _hmax_armed; fold: _fold_Zs; done: _topb_done; hm: has_hmax
  dev,       \* hmax and the split scratch (_ensure_split_scratch)
  score,     \* st.score
  out,       \* page_table and page_cnt
  pc, left   \* the running kernel and its CTAs still to run

vars == <<cfg, turn, req, raw, host, dev, score, out, pc, left>>

Pages == 0 .. PPad - 1
Chunks == 0 .. Z - 1
CW == (PPad + Z - 1) \div Z
Chunk(z) == {p \in Pages : p \div CW = z}
NoCut == PPad
n == req.n
b == Budget(n, req.b)
Sel == Selectable(n)
Scored == 0 .. SelHi(n) - 1

Zero == [v \in 0 .. Base - 1 |-> 0]
NoState == [prefix |-> 0, cand |-> 0, k |-> 0, done |-> FALSE]

Init ==
  /\ cfg \in Configs /\ turn = 0
  /\ req = [n |-> 0, b |-> 0, low |-> FALSE]
  /\ raw = [p \in Pages |-> 0]
  /\ host = [armed |-> FALSE, fold |-> 0, done |-> FALSE, hm |-> FALSE]
  /\ dev = [hmax |-> NoKey, pmax |-> [z \in Chunks |-> 0], hist |-> Zero,
            hist2 |-> Zero, state |-> NoState, kbuf |-> [p \in Pages |-> 0],
            tau |-> 0, cut |-> NoCut, cnt |-> [z \in Chunks |-> 0],
            off |-> [z \in Chunks |-> 0]]
  /\ score = [p \in Pages |-> 0]
  /\ out = [table |-> [i \in 0 .. MP - 1 |-> 0], cnt |-> 0]
  /\ pc = "idle" /\ left = {}

-----------------------------------------------------------------------------
(* Kernels *)

Wide == {"pmax", "nrm", "compact", "keepscan", "scatter"}
Grid(k) == IF k = "score" THEN 0 .. ZS - 1 ELSE IF k \in Wide THEN Chunks ELSE {0}
Launch(k) == pc' = k /\ left' = Grid(k)

\* CTA z of kernel k; the last one lets kernel next start.
Run(k, z, next) ==
  /\ pc = k /\ z \in left
  /\ IF left = {z} THEN Launch(next) ELSE pc' = pc /\ left' = left \ {z}

Bump(h, key, P) ==
  [v \in DOMAIN h |-> h[v] + Size({p \in P : key[p] = v})]

-----------------------------------------------------------------------------
(* Score launch (rki4_score_only) *)

\* A publish nobody consumed is wiped before the next launch.
Wiped == IF host.armed THEN [dev EXCEPT !.hmax = NoKey] ELSE dev

Begin ==
  /\ pc \in {"idle", "declined"} /\ turn < Len(Draws)
  /\ \E d \in Draws[turn + 1] :
       req' = [n |-> d.n, b |-> d.b, low |-> d.low] /\ raw' = d.raw
  /\ turn' = turn + 1
  /\ dev' = Wiped
  /\ host' = [host EXCEPT !.armed = cfg.lane = "hmax",
                          !.fold = IF cfg.lane = "fold" THEN ZS ELSE @]
  /\ Launch("score")
  /\ UNCHANGED <<cfg, score, out>>

\* The memory-profile pass: a narrow block table zeroes the scores and neither
\* publishes nor folds.
Profile ==
  /\ pc = "idle" /\ turn = 0
  /\ \E d \in Draws[1] : req' = [n |-> d.n, b |-> d.b, low |-> d.low]
  /\ raw' = [p \in Pages |-> 0]
  /\ turn' = turn + 1
  /\ dev' = Wiped
  /\ host' = [host EXCEPT !.armed = FALSE]
  /\ Launch("select")
  /\ UNCHANGED <<cfg, score, out>>

\* CTA z scores every ZS-th page; the fold epilogue stores its maximum and
\* clears the first histogram, the handshake epilogue raises the shared one.
ScoreCta(z) ==
  LET m == Highest(raw, {p \in Scored : p % ZS = z}) IN
  /\ Run("score", z, "scored")
  /\ dev' = [dev EXCEPT
               !.hmax = IF cfg.lane = "hmax" /\ m > @ THEN m ELSE @,
               !.pmax = IF cfg.lane = "fold" THEN [@ EXCEPT ![z] = m] ELSE @,
               !.hist = IF cfg.lane = "fold" /\ z = 0 THEN Zero ELSE @]
  /\ UNCHANGED <<cfg, turn, req, raw, host, score, out>>

\* The caller goes on to select, or (the prescored layer was not consumed)
\* leaves the publish behind and scores again later.
Consume ==
  /\ pc = "scored"
  /\ Launch("select")
  /\ UNCHANGED <<cfg, turn, req, raw, host, dev, score, out>>

Decline ==
  /\ pc = "scored" /\ cfg.lane = "hmax" /\ turn < Len(Draws)
  /\ pc' = "declined" /\ UNCHANGED left
  /\ UNCHANGED <<cfg, turn, req, raw, host, dev, score, out>>

-----------------------------------------------------------------------------
(* Routing (rki4_select_only, nrmtopb_select_cuda, sel_split_select_cuda) *)

Split == ~host.armed /\ (cfg.split \/ ~cfg.fits \/ req.low)
Global == ~cfg.fits \/ req.low       \* page-parallel finish
SlotsFolded == IF cfg.lane = "fold" THEN host.fold ELSE 0
Slots == IF SlotsFolded > 0 THEN SlotsFolded ELSE Z

Select ==
  /\ pc = "select" /\ cfg.combine = "nrm"
  /\ host' = [host EXCEPT !.armed = FALSE, !.hm = host.armed, !.done = TRUE]
  /\ Launch(IF Split THEN IF SlotsFolded > 0 THEN "nrm" ELSE "pmax"
            ELSE IF host.armed /\ cfg.v2 THEN "v2" ELSE "fused")
  /\ UNCHANGED <<cfg, turn, req, raw, dev, score, out>>

SelectMax ==
  /\ pc = "select" /\ cfg.combine = "max"
  /\ dev' = Wiped
  /\ host' = [host EXCEPT !.armed = FALSE]
  /\ score' = raw
  /\ Launch("topb")
  /\ UNCHANGED <<cfg, turn, req, raw, out>>

\* The adapter's own top-b call: a no-op when the fused consumer ran.
SkipTopb ==
  /\ pc = "topb" /\ host.done
  /\ host' = [host EXCEPT !.done = FALSE]
  /\ pc' = "idle" /\ UNCHANGED left
  /\ UNCHANGED <<cfg, turn, req, raw, dev, score, out>>

-----------------------------------------------------------------------------
(* One-CTA kernels: combine, threshold, exact-b, keep, compact *)

KeepPages(key, t) == IF KeepAll(n) THEN 0 .. n - 1 ELSE Forced(n) \cup Keeps(key, Sel, t)
Normalised(m) == [p \in Pages |-> IF p \in Scored THEN Combine(raw[p], m) ELSE score[p]]

Topb ==
  /\ pc = "topb" /\ ~host.done
  /\ out' = Table(KeepPages(score, Search(score, Sel, b)))
  /\ pc' = "idle" /\ UNCHANGED left
  /\ UNCHANGED <<cfg, turn, req, raw, host, dev, score>>

\* The maxima come from the handshake, which is put back to rest, or from a
\* sweep.
Maxima == IF host.hm THEN dev.hmax ELSE Highest(raw, Scored)
Unrested == dev
Rested == IF host.hm THEN [dev EXCEPT !.hmax = NoKey] ELSE dev

Fused ==
  /\ Run("fused", 0, "topb")
  /\ dev' = Rested
  /\ score' = Normalised(Maxima)
  /\ out' = Table(KeepPages(score', Search(score', Sel, b)))
  /\ UNCHANGED <<cfg, turn, req, raw, host>>

V2 ==
  /\ Run("v2", 0, "topb")
  /\ dev' = Rested
  /\ score' = Normalised(Maxima)
  /\ out' = Table(IF KeepAll(n) THEN 0 .. n - 1
                  ELSE KeepPages(score', SearchV2(score', Sel, b)))
  /\ UNCHANGED <<cfg, turn, req, raw, host>>

-----------------------------------------------------------------------------
(* The split chain *)

\* CTA z reduces its chunk; the first one clears the histogram.
Pmax(z) ==
  /\ Run("pmax", z, "nrm")
  /\ dev' = [dev EXCEPT !.pmax[z] = Highest(raw, Scored \cap Chunk(z)),
                        !.hist = IF z = 0 THEN Zero ELSE @]
  /\ UNCHANGED <<cfg, turn, req, raw, host, score, out>>

NrmHist(z) ==
  LET P == Scored \cap Chunk(z)
      m == Highest(dev.pmax, 0 .. Slots - 1)
  IN
  /\ Run("nrm", z, IF ~Global THEN "finish" ELSE IF cfg.tauc THEN "pick0" ELSE "tau")
  /\ score' = [p \in Pages |-> IF p \in P THEN Combine(raw[p], m) ELSE score[p]]
  /\ dev' = [dev EXCEPT !.hist = Bump(@, [p \in P |-> Digit(score'[p], 0)], P \cap Sel)]
  /\ UNCHANGED <<cfg, turn, req, raw, host, out>>

Finish ==
  /\ Run("finish", 0, "topb")
  /\ out' = Table(KeepPages(score, SearchFrom(score, Sel, b, dev.hist)))
  /\ UNCHANGED <<cfg, turn, req, raw, host, dev, score>>

\* sel_tau: the whole search in one CTA, published as a threshold and a cutoff.
TauCut(t) == [dev EXCEPT !.tau = t.tau, !.cut = Cutoff(score, Sel, t, NoCut)]
TauAll == [dev EXCEPT !.tau = NoKey, !.cut = NoCut]

TauKernel ==
  /\ Run("tau", 0, "keepscan")
  /\ dev' = IF KeepAll(n) THEN TauAll
            ELSE TauCut(Left(Deeper(score, Sel, Round(Start(b), dev.hist), FALSE)))
  /\ UNCHANGED <<cfg, turn, req, raw, host, score, out>>

\* TAUC: the first digit from the histogram; FINFIX also clears the second one.
Cleared == IF cfg.fx THEN [dev EXCEPT !.hist2 = Zero] ELSE dev

Pick0 ==
  LET r == Round(Start(b), dev.hist)
      d == Cleared
  IN
  /\ Run("pick0", 0, "compact")
  /\ dev' = IF KeepAll(n)
            THEN [d EXCEPT !.tau = NoKey, !.cut = NoCut, !.state.done = TRUE]
            ELSE [d EXCEPT !.state = [prefix |-> r.prefix, cand |-> 0, k |-> r.k,
                                      done |-> Whole(r)],
                           !.tau = IF Whole(r) THEN Tau(r) ELSE @,
                           !.cut = IF Whole(r) THEN NoCut ELSE @]
  /\ UNCHANGED <<cfg, turn, req, raw, host, score, out>>

\* CTA z appends the boundary bin's keys of its chunk of the selectable pages
\* to the rank buffer, not yet in use, and counts their second digits.
Hits(z) == {p \in Sel : p - Sink \in Chunk(z) /\ Digit(score[p], 0) = dev.state.prefix}
\* Mutant of Append2: a CTA appends where it did, not where the last one stopped.
AppendOwn(f, P, at) ==
  [i \in DOMAIN f |->
     IF i < Size(P) THEN score[CHOOSE p \in P : Size({q \in P : q < p}) = i] ELSE f[i]]
Append2(f, P, at) ==
  [i \in DOMAIN f |->
     IF i >= at /\ i < at + Size(P)
     THEN score[CHOOSE p \in P : Size({q \in P : q < p}) = i - at] ELSE f[i]]

Compact(z) ==
  /\ Run("compact", z, "tfinish")
  /\ dev' = IF KeepAll(n) \/ dev.state.done THEN dev
            ELSE [dev EXCEPT
                    !.kbuf = Append2(@, Hits(z), dev.state.cand),
                    !.state.cand = @ + Size(Hits(z)),
                    !.hist2 = IF cfg.fx
                              THEN Bump(@, [p \in Hits(z) |-> Digit(score[p], 1)], Hits(z))
                              ELSE @]
  /\ UNCHANGED <<cfg, turn, req, raw, host, score, out>>

Candidates == 0 .. dev.state.cand - 1
Picked == [prefix |-> dev.state.prefix, len |-> 1, k |-> dev.state.k, cb |-> -1]

TaucFinish ==
  LET r == IF cfg.fx THEN Round(Picked, dev.hist2) ELSE Picked IN
  /\ Run("tfinish", 0, "keepscan")
  /\ dev' = IF KeepAll(n) \/ dev.state.done THEN dev
            ELSE TauCut(Left(Deeper(dev.kbuf, Candidates, r, FALSE)))
  /\ UNCHANGED <<cfg, turn, req, raw, host, score, out>>

-----------------------------------------------------------------------------
(* Page-parallel compaction *)

KeptOf(z) ==
  {p \in Chunk(z) : /\ p < n
                    /\ \/ p \in Forced(n) \/ KeepAll(n)
                       \/ score[p] > dev.tau
                       \/ score[p] = dev.tau /\ p <= dev.cut}
Rank(P, p) == Size({q \in P : q <= p})

\* CTA z writes ranks within its chunk over the candidates.
KeepScan(z) ==
  /\ Run("keepscan", z, "offset")
  /\ dev' = [dev EXCEPT
               !.kbuf = [p \in Pages |-> IF p \in Chunk(z) THEN Rank(KeptOf(z), p) ELSE @[p]],
               !.cnt[z] = Size(KeptOf(z))]
  /\ out' = [out EXCEPT !.table =
               [i \in DOMAIN @ |-> IF i \in Chunk(z) THEN -1 ELSE @[i]]]
  /\ UNCHANGED <<cfg, turn, req, raw, host, score>>

Sum(f, P) == FoldFunctionOnSet(+, 0, f, P)

Offset ==
  /\ Run("offset", 0, "scatter")
  /\ dev' = [dev EXCEPT !.off = [z \in Chunks |-> Sum(dev.cnt, 0 .. z - 1)]]
  /\ out' = [out EXCEPT !.cnt = Sum(dev.cnt, Chunks)]
  /\ UNCHANGED <<cfg, turn, req, raw, host, score>>

\* A page was kept where its chunk's rank steps up.
Stepped(z) ==
  {p \in Chunk(z) : p < n /\ dev.kbuf[p] = 1 + (IF p - 1 \in Chunk(z) THEN dev.kbuf[p - 1] ELSE 0)}

Scatter(z) ==
  /\ Run("scatter", z, "topb")
  /\ out' = [out EXCEPT !.table =
               [i \in DOMAIN @ |->
                  IF \E p \in Stepped(z) : dev.off[z] + dev.kbuf[p] - 1 = i
                  THEN CHOOSE p \in Stepped(z) : dev.off[z] + dev.kbuf[p] - 1 = i
                  ELSE @[i]]]
  /\ UNCHANGED <<cfg, turn, req, raw, host, dev, score>>

-----------------------------------------------------------------------------

Next ==
  \/ Begin \/ Profile \/ Consume \/ Decline
  \/ Select \/ SelectMax \/ SkipTopb
  \/ Topb \/ Fused \/ V2 \/ Finish \/ TauKernel \/ Pick0 \/ TaucFinish \/ Offset
  \/ \E z \in left : \/ ScoreCta(z) \/ Pmax(z) \/ NrmHist(z) \/ Compact(z)
                     \/ KeepScan(z) \/ Scatter(z)

Spec == Init /\ [][Next]_vars

-----------------------------------------------------------------------------

\* Whatever route and leftovers, the step's page table is the exact top-b of
\* its own scores (the selection kernels' shared contract).
Asked == [n |-> req.n, b |-> req.b, raw |-> raw, combine |-> cfg.combine]
Served == INSTANCE PageSelection WITH
            ask <- Asked, answer <- IF pc = "idle" /\ turn > 0 THEN <<out>> ELSE <<>>
Selected == Served!Spec

\* The published maxima are at rest unless a score launch's publish is still
\* waiting to be consumed, so no step normalises by another step's maximum.
AtRest ==
  dev.hmax # NoKey =>
    \/ host.armed
    \/ pc \in {"fused", "v2"} /\ host.hm

\* When the TAUC finish starts, the borrowed rank buffer holds exactly the keys
\* of the boundary bin, and the second histogram counts them.
BoundaryBin ==
  pc = "tfinish" /\ ~dev.state.done /\ ~KeepAll(n) =>
    LET bin == {p \in Sel : Digit(score[p], 0) = dev.state.prefix}
        same(key) == Size({i \in Candidates : dev.kbuf[i] = key})
                       = Size({p \in bin : score[p] = key})
    IN  /\ dev.state.cand = Size(bin) /\ \A p \in bin : same(score[p])
        /\ cfg.fx => dev.hist2 = Bump(Zero, [p \in bin |-> Digit(score[p], 1)], bin)
=============================================================================
