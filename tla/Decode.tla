------------------------------- MODULE Decode -------------------------------
(***************************************************************************)
(* The decode of a layer, from the projection of the token to its output.  *)
(* Arm "lane": the host pipeline of an engine with the split-K launch of   *)
(* each layer (Lane over Attend).  Arm "ring": one CTA of the hand-written *)
(* CUDA kernels that stand in for the split kernel (Ring).                 *)
(***************************************************************************)
EXTENDS Integers

CONSTANTS
  Layers, Heads, Split, PpsMin, Page, MaxLen, Mcap,
  Confs, Prompt, MaxSteps, None,
  Depth, Groups, Team, MaxPages

VARIABLES
  arm,
  layer, len, launch, table, rows, staged, p2s, mail, mails, overflow,
  pc, pos, acc, part, ctr, out,
  conf, boot, steps, kind, reqs, at, scale, preroped, q, qrope, score, used,
  mark, proj, write, stash, armed, mql, nreq, failed,
  kern, depth, cnt, turn, sent, landed, ring, bars, sm

LN == INSTANCE Lane
RG == INSTANCE Ring

ASSUME RingAssumption == RG!RingConstants
ASSUME LaneAssumption == LN!AttendConstants /\ LN!LaneConstants

host == <<conf, boot, steps, kind, reqs, at, scale, preroped, q, qrope, score,
          used, mark, proj, write, stash, armed, mql, nreq, failed>>
onlyLane == <<host, layer, len, launch, table, rows, staged, p2s, mail, mails,
              overflow, pos, part, ctr, out>>
onlyRing == <<kern, depth, cnt, turn, sent, landed, ring, bars, sm>>
vars == <<arm, onlyLane, onlyRing, pc, acc>>

NoLane ==
  /\ conf = <<>> /\ boot = <<>> /\ steps = <<>> /\ kind = <<>> /\ reqs = <<>>
  /\ at = <<>> /\ scale = <<>> /\ preroped = <<>> /\ q = <<>> /\ qrope = <<>>
  /\ score = <<>> /\ used = <<>> /\ mark = <<>> /\ proj = <<>> /\ write = <<>>
  /\ stash = <<>> /\ armed = <<>> /\ mql = <<>> /\ nreq = <<>> /\ failed = <<>>
  /\ layer = <<>> /\ len = <<>> /\ launch = <<>> /\ table = <<>> /\ rows = <<>>
  /\ staged = <<>> /\ p2s = <<>> /\ mail = <<>> /\ mails = <<>> /\ overflow = <<>>
  /\ pos = <<>> /\ part = <<>> /\ ctr = <<>> /\ out = <<>>
NoRing ==
  /\ kern = <<>> /\ depth = <<>> /\ cnt = <<>> /\ turn = <<>> /\ sent = <<>> /\ landed = <<>>
  /\ ring = <<>> /\ bars = <<>> /\ sm = <<>>

Init ==
  \/ arm = "lane" /\ LN!Init /\ NoRing
  \/ arm = "ring" /\ RG!Init /\ NoLane

Next ==
  \/ arm = "lane" /\ LN!Next /\ UNCHANGED <<arm, onlyRing>>
  \/ arm = "ring" /\ RG!Next /\ UNCHANGED <<arm, onlyLane>>

Spec == Init /\ [][Next]_vars

-----------------------------------------------------------------------------

\* The output of a layer attends every selected page once and whole, the new
\* token's row included, and is zero for a padded row: whichever CTA wrote the
\* row, however partials and tickets interleave, whoever merges.
OutExact == (arm = "lane" /\ at = "decoded" /\ LN!Ours) => LN!OutExact

\* The score and the query of a decode are of this token and layer, roped once
\* (attn.py _absorbed_now: op and impl "agree BY CONSTRUCTION").
QOnce == arm = "lane" => LN!QOnce

\* A deferred projection, write or stash never outlives its layer, and no
\* assertion about a stale or mispaired one fires (fixc_flush, the K8d raise),
\* though the nonce they compare never advances.
Deferred == arm = "lane" => LN!Deferred

\* The mailbox holds each claim of the step once and nothing else, and the
\* claims beyond its capacity are reverted and latched (K8b).
MailExact == arm = "lane" => LN!MailExact

\* No warp reads a stage of the ring while a part of it is another page's or
\* still in flight, and the combine sees every page once.
RingExact == arm = "ring" => RG!RingExact
=============================================================================
