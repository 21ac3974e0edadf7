-------------------------------- MODULE Lane --------------------------------
(***************************************************************************)
(* The host pipeline of a forward pass, layer by layer: projection op, K/V *)
(* write hook, attention impl (select, then decode).  Two lanes defer the  *)
(* token's K/V write: the co lane (QFIRST_CO with FIX-C) to behind the     *)
(* select launch, the mem lane (K8d) into the decode kernel; each agrees   *)
(* with its later stages through process state, not arguments.             *)
(* What a rope must happen to exactly once is a number: "ropes".           *)
(***************************************************************************)
EXTENDS Attend

CONSTANTS
  Confs,     \* engines: [lane: "co" or "mem", norope, fmerge, graphs]
  Prompt,    \* tokens of the request before its first decode step
  MaxSteps,  \* bound on the forward passes served
  None

VARIABLES
  conf, boot, steps, kind, reqs, at,
  scale,     \* co: st._scale is set
  preroped,  \* st._q_preroped
  q,         \* how often the fused buffer's q is roped
  qrope,     \* st.q_rope; score: st.score_h; used: the decode's q argument
  score, used,
  mark,      \* _co_mark[l] is this step's nonce
  proj,      \* _fixc_proj, write: _fixc_write: the layer, or None
  write,
  stash,     \* tier._k8d_stash
  armed, mql, nreq,   \* tier._k8d_armed, _cur_mql, _cur_nreq
  failed     \* an assertion or a raise stopped the engine

\* The request fits in the bound on its tokens; None is no stash.
LaneConstants ==
  /\ Prompt \in Nat \ {0} /\ MaxSteps \in Nat
  /\ Prompt + MaxSteps <= MaxLen
  /\ Confs \subseteq [lane : {"co", "mem"}, norope : BOOLEAN, fmerge : BOOLEAN,
                      graphs : BOOLEAN]
  /\ None \notin [layer : LayerIds, ropes : Nat]

host == <<conf, boot, steps, kind, reqs, at, scale, preroped, q, qrope, score,
          used, mark, proj, write, stash, armed, mql, nreq, failed>>
cache == <<len, rows, staged, p2s, mail, mails, overflow>>
grid == <<launch, table, pc, pos, acc, part, ctr, out>>
vars == <<host, cache, layer, grid>>

CO == conf.lane = "co"
OneToken == kind \in {"decode", "capture"}    \* max_query_len = 1
Ours == kind \in {"decode", "mixed"}          \* the pass appends our token
Query(ropes) == [len |-> len, layer |-> layer, ropes |-> ropes]
NoQuery == [len |-> 0, layer |-> 0, ropes |-> 0]

Init ==
  /\ conf \in Confs
  /\ boot = "cold" /\ steps = 0 /\ kind = "dummy" /\ reqs = 0 /\ at = "idle"
  /\ scale = FALSE /\ preroped = FALSE
  /\ q = 0 /\ qrope = NoQuery /\ score = NoQuery /\ used = NoQuery
  /\ mark = [l \in LayerIds |-> FALSE]
  /\ proj = None /\ write = None /\ stash = None
  /\ armed = FALSE /\ mql = 0 /\ nreq = 0 /\ failed = FALSE
  /\ layer = 0 /\ len = Prompt
  /\ rows = [l \in LayerIds |-> [h \in Heads |-> 0 .. Prompt - 1]]
  /\ staged = IF CO THEN {} ELSE {TailPage}
  /\ p2s = [l \in LayerIds |-> [h \in Heads |-> [p \in PageIds |-> "none"]]]
  /\ mail = {} /\ mails = 0 /\ overflow = FALSE
  /\ GridInit

-----------------------------------------------------------------------------

\* The transport's service of the mailbox: its pending pages are in, or not.
Service ==
  /\ \E s \in {"hot", "none"} :
       p2s' = [l \in LayerIds |-> [h \in Heads |-> [p \in PageIds |->
                IF p2s[l][h][p] = "pending" THEN s ELSE p2s[l][h][p]]]]
  /\ mail' = {} /\ mails' = 0 /\ overflow' = FALSE

\* Staging: full pages may be flushed, the page of a new token has a block.
Stage ==
  \E flush \in {{}, {p \in staged : Complete(p)}} :
    staged' = (staged \ flush) \union {t \div Page : t \in len .. len' - 1}

\* tier.begin_step: the write hook's proof is set in every pass that has
\* metadata, capture included; the rest is skipped for a capture.
BeginStep(k, n) ==
  IF CO THEN UNCHANGED <<armed, mql, nreq, staged, p2s, mail, mails, overflow>>
  ELSE /\ mql' = (IF k \in {"decode", "capture"} THEN 1 ELSE 2)
       /\ nreq' = n /\ armed' = TRUE
       /\ IF k = "capture" THEN UNCHANGED <<staged, p2s, mail, mails, overflow>>
          ELSE Service /\ Stage

Enter(k, n) ==
  /\ at = "idle"
  /\ kind' = k /\ reqs' = n /\ at' = "op"
  /\ UNCHANGED <<conf, layer, rows, scale, preroped, q, qrope, score, used, mark,
                 proj, write, stash, failed, grid>>

\* Boot: passes without metadata (profiling, the piecewise capture group), and
\* in an engine with CUDA graphs the warm-up and capture of the decode graphs.
Dummy ==
  /\ boot # "serving" /\ Enter("dummy", 0)
  /\ UNCHANGED <<boot, steps, len, armed, mql, nreq, staged, p2s, mail, mails, overflow>>

Capture ==
  /\ boot # "serving" /\ conf.graphs /\ Enter("capture", 1)
  /\ boot' = "warm"
  /\ BeginStep("capture", 1)
  /\ UNCHANGED <<steps, len>>

\* A pass over requests: a decode (of one more, padded, row when n = 2), a
\* prefill of another request, or both mixed.  NOROPE serves one sequence.
Serve(k, n) ==
  /\ conf.graphs => boot # "cold"
  /\ steps < MaxSteps
  /\ conf.norope => n = 1
  /\ Enter(k, n)
  /\ boot' = "serving" /\ steps' = steps + 1
  /\ len' = IF k = "prefill" THEN len ELSE len + 1
  /\ BeginStep(k, n)

-----------------------------------------------------------------------------

\* fixc_arm_proj: one deferred projection at most.
ArmProj ==
  /\ proj' = layer
  /\ IF proj = None THEN at' = "hook" /\ UNCHANGED failed
     ELSE at' = "stopped" /\ failed' = TRUE

\* locks_co.qkv on a pure-decode pass, once the adapter has left the scale: q
\* stays unroped and is scored at once (the scorer's prelude ropes it into
\* q_rope), and the K/V projection is deferred.
Absorb ==
  /\ at = "op" /\ CO /\ OneToken /\ scale
  /\ ArmProj
  /\ preroped' = FALSE
  /\ q' = 0 /\ score' = Query(1) /\ qrope' = Query(1)
  /\ mark' = [mark EXCEPT ![layer] = TRUE]
  /\ UNCHANGED <<conf, boot, steps, kind, reqs, scale, used, write, stash, armed,
                 mql, nreq, cache, layer, grid>>

\* Any other pass, and the mem lane: projection and rope in place, except that
\* NOROPE ropes into buffers of its own.
Project ==
  /\ at = "op" /\ ~(CO /\ OneToken /\ scale)
  /\ q' = IF conf.norope THEN 0 ELSE 1
  /\ at' = "hook"
  /\ UNCHANGED <<conf, boot, steps, kind, reqs, scale, preroped, qrope, score, used,
                 mark, proj, write, stash, armed, mql, nreq, failed, cache, layer, grid>>

\* A K/V write; a pass that does not append to the request has slots of -1.
Written(ropes) ==
  IF Ours THEN [rows EXCEPT ![layer] = [h \in Heads |-> Put(rows[layer][h], ropes)]]
  ELSE rows

\* fixc_arm_write: the write pairs with the projection before it.
ArmWrite ==
  /\ write' = proj
  /\ IF write = None THEN at' = "forward" /\ UNCHANGED failed
     ELSE at' = "stopped" /\ failed' = TRUE

\* do_kv_cache_update of the fast variant.
HookCO ==
  /\ at = "hook" /\ CO
  /\ IF proj # None
     THEN ArmWrite /\ UNCHANGED rows
     ELSE at' = "forward" /\ rows' = Written(1) /\ UNCHANGED <<write, failed>>
  /\ UNCHANGED <<conf, boot, steps, kind, reqs, scale, preroped, q, qrope, score,
                 used, mark, proj, stash, armed, mql, nreq, len, staged, p2s, mail,
                 mails, overflow, layer, grid>>

\* Mutant of HookMem: the last layer's hook does not disarm.
HookMemArmed ==
  /\ at = "hook" /\ ~CO
  /\ IF stash # None THEN at' = "stopped" /\ failed' = TRUE /\ UNCHANGED <<rows, stash, armed>>
     ELSE /\ at' = "forward"
          /\ armed' = armed
          /\ IF armed /\ mql = 1 /\ nreq = 1
             THEN stash' = [layer |-> layer, ropes |-> q] /\ UNCHANGED rows
             ELSE rows' = Written(1) /\ UNCHANGED stash
          /\ UNCHANGED failed
  /\ UNCHANGED <<conf, boot, steps, kind, reqs, scale, preroped, q, qrope, score,
                 used, mark, proj, write, mql, nreq, len, staged, p2s, mail, mails,
                 overflow, layer, grid>>

\* do_kv_cache_update of the mem variant: stash the row when the decode kernel
\* of this layer is proven to consume it.
HookMem ==
  /\ at = "hook" /\ ~CO
  /\ IF stash # None THEN at' = "stopped" /\ failed' = TRUE /\ UNCHANGED <<rows, stash, armed>>
     ELSE /\ at' = "forward"
          /\ armed' = (armed /\ layer # Layers - 1)
          /\ IF armed /\ mql = 1 /\ nreq = 1
             THEN stash' = [layer |-> layer, ropes |-> q] /\ UNCHANGED rows
             ELSE rows' = Written(1) /\ UNCHANGED stash
          /\ UNCHANGED failed
  /\ UNCHANGED <<conf, boot, steps, kind, reqs, scale, preroped, q, qrope, score,
                 used, mark, proj, write, mql, nreq, len, staged, p2s, mail, mails,
                 overflow, layer, grid>>

-----------------------------------------------------------------------------

\* Mutant of Score: a lane that absorbs ropes whatever it is handed.
ScoreAlways(pre) ==
  LET absorbs == CO \/ conf.norope
      ropes == IF absorbs THEN q + 1 ELSE q
  IN /\ score' = Query(ropes)
     /\ qrope' = IF absorbs THEN Query(ropes) ELSE qrope

\* The scorer's prelude: a lane that absorbs the rope ropes q, unless told that
\* it is roped, and publishes it as q_rope.
Score(pre) ==
  LET absorbs == CO \/ conf.norope
      ropes == IF absorbs /\ ~pre THEN q + 1 ELSE q
  IN /\ score' = Query(ropes)
     /\ qrope' = IF absorbs /\ ~pre THEN Query(ropes) ELSE qrope

\* fixc_flush: the projection of K/V, roped by the write kernel behind it.
Flush ==
  /\ failed' = ~(proj = layer /\ write = layer)
  /\ proj' = None /\ write' = None
  /\ rows' = Written(q + 1)

\* _co_consume: the op of this layer has launched the score.
Consume == mark[layer] /\ mark' = [mark EXCEPT ![layer] = FALSE]

\* _rki4_select_adapter: with the op's mark, the score is done: select, then
\* flush the deferred projection and write behind it; else score here.
Select(pre) ==
  /\ scale' = (scale \/ CO)
  /\ preroped' = pre
  /\ \/ Consume /\ Flush /\ UNCHANGED <<score, qrope>>
     \/ ~mark[layer] /\ Score(pre) /\ UNCHANGED <<mark, failed, proj, write, rows>>

\* The tables Stage A may have selected for a head: pages in ascending order,
\* and its window has the last page.
Selected ==
  {t \in UNION {[1 .. n -> 0 .. TailPage] : n \in 1 .. TailPage + 1} :
     /\ \A i, j \in DOMAIN t : i < j => t[i] < t[j]
     /\ t[Len(t)] = TailPage}

\* mem_dynamic_decode: one row takes the K8 schedule, K5 claims absorbed.
K8(n) == ~CO /\ n = 1

\* decode_dispatch: the resident cache, merged by a kernel of its own.
Resident(n) == [NoLaunch EXCEPT !.reqs = n]

\* mem_decode_ptrsel: the stash of this layer, if any, goes along.
Tiered(n, scat) ==
  [reqs |-> n, scat |-> scat, fmerge |-> conf.fmerge, k5c |-> K8(n),
   ropes |-> IF ~scat THEN 0 ELSE IF conf.norope THEN stash.ropes + 1 ELSE stash.ropes]

\* The launch of the decode over n rows.
Decode(n) ==
  LET scat == K8(n) /\ stash # None /\ stash.layer = layer
  IN /\ stash' = IF scat THEN None ELSE stash
     /\ IF Ours /\ ~failed'
        THEN /\ at' = "decode"
             /\ \E picks \in [Heads -> Selected] :
                  Launch(IF CO THEN Resident(n) ELSE Tiered(n, scat), picks)
        ELSE at' = (IF failed' THEN "stopped" ELSE "decoded") /\ UNCHANGED grid

\* forward of a pure-decode pass.  The co lane takes q as unroped on every one.
ForwardDecode ==
  /\ at = "forward" /\ OneToken
  /\ LET absorbed == CO \/ conf.norope
     IN /\ Select(~absorbed)
        /\ used' = IF absorbed THEN qrope' ELSE Query(q)
        /\ Decode(reqs)
  /\ UNCHANGED <<conf, boot, steps, kind, reqs, q, armed, mql, nreq, len, staged,
                 p2s, mail, mails, overflow, layer>>

\* The batch split: the decode rows of a mixed pass, compacted.
ForwardMixed ==
  /\ at = "forward" /\ kind = "mixed"
  /\ Select(~conf.norope)
  /\ used' = IF conf.norope THEN qrope' ELSE Query(q)
  /\ Decode(1)
  /\ UNCHANGED <<conf, boot, steps, kind, reqs, q, armed, mql, nreq, len, staged,
                 p2s, mail, mails, overflow, layer>>

\* No decode rows.  A pass without metadata is delegated, and must find nothing
\* deferred.
ForwardDense ==
  /\ at = "forward" /\ kind \in {"prefill", "dummy"}
  /\ failed' = (kind = "dummy" /\ (proj # None \/ write # None))
  /\ at' = IF failed' THEN "stopped" ELSE "decoded"
  /\ UNCHANGED <<conf, boot, steps, kind, reqs, scale, preroped, q, qrope, score, used,
                 mark, proj, write, stash, armed, mql, nreq, cache, layer, grid>>

DecodeCTA ==
  /\ at = "decode" /\ \E u \in Units, sp \in Splits : CTA(u, sp)
  /\ UNCHANGED <<host, len, staged, layer, launch, table>>

EndDecode ==
  /\ at = "decode" /\ Done
  /\ IF launch.fmerge THEN UNCHANGED out ELSE Merge
  /\ at' = "decoded"
  /\ UNCHANGED <<conf, boot, steps, kind, reqs, scale, preroped, q, qrope, score, used,
                 mark, proj, write, stash, armed, mql, nreq, failed, cache, layer,
                 launch, table, pc, pos, acc, part, ctr>>

\* The next layer, or the end of the pass.
NextLayer ==
  /\ at = "decoded"
  /\ IF layer = Layers - 1 THEN at' = "idle" /\ layer' = 0
     ELSE at' = "op" /\ layer' = layer + 1
  /\ Reset
  /\ UNCHANGED <<conf, boot, steps, kind, reqs, scale, preroped, q, qrope, score, used,
                 mark, proj, write, stash, armed, mql, nreq, failed, cache>>

Next ==
  \/ Dummy \/ Capture
  \/ \E n \in Reqs : Serve("decode", n)
  \/ Serve("mixed", 2) \/ Serve("prefill", 1)
  \/ Absorb \/ Project \/ HookCO \/ HookMem
  \/ ForwardDecode \/ ForwardMixed \/ ForwardDense
  \/ DecodeCTA \/ EndDecode \/ NextLayer

-----------------------------------------------------------------------------

\* The score, and the query the decode reads, are of this token and this layer
\* and roped once.
QOnce ==
  (at \in {"decode", "decoded"} /\ Ours) => score = Query(1) /\ used = Query(1)

\* Between layers nothing is deferred and no mark is left; no guard fires.
Deferred ==
  /\ ~failed
  /\ at \in {"idle", "op"} =>
       /\ proj = None /\ write = None /\ stash = None
       /\ \A l \in LayerIds : ~mark[l]
=============================================================================
