------------------------------- MODULE Attend -------------------------------
(***************************************************************************)
(* One launch of the split-K sparse decode: per request row and kv-head a  *)
(* unit, per unit Split CTAs that walk contiguous chunks of its page table *)
(* and store partials, and their merge: the standalone kernel, or the last *)
(* CTA to take the unit's ticket (FMERGE).  The tiered kernel also absorbs *)
(* the deferred K/V write of the token (SCAT) and the K5 claims (K5C).     *)
(* A partial is the sequence of page values it summed; the page value is   *)
(* the page and which of its rows were in place.  Arithmetic is abstracted.*)
(***************************************************************************)
EXTENDS Integers, Sequences

CONSTANTS
  Layers,    \* decoder layers
  Heads,     \* kv-heads
  Split,     \* CTAs per unit
  PpsMin,    \* fewest pages per CTA
  Page,      \* tokens per page
  MaxLen,    \* bound: tokens of the request
  Mcap       \* rows of the K5 mailbox

VARIABLES
  layer,     \* the layer being decoded
  len,       \* seq_lens[0]; the row after it, when there is one, is padding
  launch,    \* the launch's arguments: reqs, scat, ropes, fmerge, k5c
  table,     \* page_table (with page_cnt): per unit, ascending logical pages
  rows,      \* rows[l][h]: tokens whose K and V are in place, K roped once
  staged,    \* pages with a staging block (vbo >= 0)
  p2s,       \* p2s[l][h][p] \in {"hot", "none" (-1), "pending" (-2)}
  mail,      \* the mailbox rows; mails = mail_cnt
  mails, overflow,
  pc, pos, acc, part,  \* per CTA: where, index into the table, m/l/acc, partial
  ctr,       \* fm_ctr: the units' tickets
  out        \* out rows: by split, the partials each is the sum of

AttendConstants ==
  /\ {Layers, Split, PpsMin, Page} \subseteq Nat \ {0}
  /\ {MaxLen, Mcap} \subseteq Nat

LayerIds == 0 .. Layers - 1
Reqs == 1 .. 2
Units == Reqs \X Heads
Splits == 0 .. Split - 1
Tokens == 0 .. MaxLen - 1
PageIds == 0 .. (MaxLen - 1) \div Page
NoLaunch == [reqs |-> 0, scat |-> FALSE, ropes |-> 0, fmerge |-> FALSE, k5c |-> FALSE]
Stale == << <<-1, {}>> >>      \* what an earlier layer's launch left in the buffers

TokensOf(p) == {t \in Tokens : t \div Page = p}
Complete(p) == (p + 1) * Page <= len
TailPage == (len - 1) \div Page

Cdiv(a, b) == (a + b - 1) \div b
Cnt(u) == Len(table[u])
Pps(u) == LET even == Cdiv(Cnt(u), Split) IN IF even > PpsMin THEN even ELSE PpsMin
Active(u) == Cdiv(Cnt(u), Pps(u))
Start(u, sp) == sp * Pps(u)
Stop(u, sp) == IF Start(u, sp) + Pps(u) < Cnt(u) THEN Start(u, sp) + Pps(u) ELSE Cnt(u)

\* A K/V row written for the token at len - 1 is the right one if K is roped once.
Put(set, ropes) == IF ropes = 1 THEN set \union {len - 1} ELSE set \ {len - 1}

Each(x) == [u \in Units |-> [sp \in Splits |-> x]]
NoTable == [u \in Units |-> <<>>]
NoOut == [u \in Units |-> [sp \in {0} |-> Stale]]

-----------------------------------------------------------------------------

\* The launch over grid (reqs, heads, Split) with the pages Stage A selected:
\* the request's last page among them, none for a padded row.
Launch(args, picks) ==
  /\ launch' = args
  /\ table' = [u \in Units |-> IF u[1] = 1 THEN picks[u[2]] ELSE <<>>]
  /\ pc' = [u \in Units |-> [sp \in Splits |-> IF u[1] <= args.reqs THEN "begin" ELSE "done"]]
  /\ UNCHANGED <<pos, acc, part, ctr, out>>

\* Mutant of TailMine: the position of the last page is off by one.
TailMineOff(u, sp) ==
  /\ Cnt(u) > 0
  /\ Start(u, sp) <= Cnt(u)
  /\ Cnt(u) < Start(u, sp) + Pps(u)

\* The CTA whose chunk ends the table holds the tail page.
TailMine(u, sp) ==
  /\ Cnt(u) > 0
  /\ Start(u, sp) <= Cnt(u) - 1
  /\ Cnt(u) - 1 < Start(u, sp) + Pps(u)

Scatter(u, sp) ==
  IF launch.scat /\ TailMine(u, sp)
  THEN rows' = [rows EXCEPT ![layer][u[2]] = Put(@, launch.ropes)]
  ELSE UNCHANGED rows

\* A CTA without pages returns at once; a padded row's first one writes zeros.
Begin(u, sp) ==
  /\ pc[u][sp] = "begin"
  /\ Scatter(u, sp)
  /\ IF Start(u, sp) >= Cnt(u)
     THEN /\ pc' = [pc EXCEPT ![u][sp] = "done"]
          /\ out' = IF launch.fmerge /\ Cnt(u) = 0 /\ sp = 0
                    THEN [out EXCEPT ![u] = <<>>] ELSE out
          /\ UNCHANGED pos
     ELSE /\ pc' = [pc EXCEPT ![u][sp] = "loop"]
          /\ pos' = [pos EXCEPT ![u][sp] = Start(u, sp)]
          /\ UNCHANGED out
  /\ UNCHANGED <<acc, part, ctr, p2s, mail, mails, overflow>>

\* Mutant of Claim: a claim beyond the mailbox is not reverted.
ClaimKept(h, p) ==
  IF launch.k5c /\ Complete(p) /\ p2s[layer][h][p] = "none" /\ p \notin staged
  THEN /\ mails' = mails + 1
       /\ p2s' = [p2s EXCEPT ![layer][h][p] = "pending"]
       /\ IF mails < Mcap THEN mail' = mail \union {<<layer, h, p>>} /\ UNCHANGED overflow
          ELSE overflow' = TRUE /\ UNCHANGED mail
  ELSE UNCHANGED <<p2s, mail, mails, overflow>>

\* The absorbed K5 claim of a missed page.  A staged page's claim is reverted
\* at once, and only this program reads this entry in the launch: no change.
Claim(h, p) ==
  IF launch.k5c /\ Complete(p) /\ p2s[layer][h][p] = "none" /\ p \notin staged
  THEN /\ mails' = mails + 1
       /\ IF mails < Mcap
          THEN /\ p2s' = [p2s EXCEPT ![layer][h][p] = "pending"]
               /\ mail' = mail \union {<<layer, h, p>>}
               /\ UNCHANGED overflow
          ELSE overflow' = TRUE /\ UNCHANGED <<p2s, mail>>
  ELSE UNCHANGED <<p2s, mail, mails, overflow>>

\* One page of the walk: rows past seq_len are masked off.
ReadPage(u, sp) ==
  /\ pc[u][sp] = "loop"
  /\ LET p == table[u][pos[u][sp] + 1]
         seen == {t \in TokensOf(p) : t < len /\ t \in rows[layer][u[2]]}
     IN /\ acc' = [acc EXCEPT ![u][sp] = Append(@, <<p, seen>>)]
        /\ Claim(u[2], p)
  /\ pos' = [pos EXCEPT ![u][sp] = @ + 1]
  /\ pc' = [pc EXCEPT ![u][sp] = IF pos[u][sp] + 1 = Stop(u, sp) THEN "store" ELSE "loop"]
  /\ UNCHANGED <<rows, part, ctr, out>>

\* The partial goes to memory before the ticket is drawn.
StorePartial(u, sp) ==
  /\ pc[u][sp] = "store"
  /\ part' = [part EXCEPT ![u][sp] = acc[u][sp]]
  /\ pc' = [pc EXCEPT ![u][sp] = IF launch.fmerge THEN "ticket" ELSE "done"]
  /\ UNCHANGED <<rows, pos, acc, ctr, out, p2s, mail, mails, overflow>>

\* The sum over the splits that have pages; none gives zeros.
Merged(u) == [sp \in 0 .. Active(u) - 1 |-> part[u][sp]]

\* FMERGE: the last CTA of the unit merges and zeroes the ticket.
Ticket(u, sp) ==
  /\ pc[u][sp] = "ticket"
  /\ IF ctr[u] = Active(u) - 1
     THEN ctr' = [ctr EXCEPT ![u] = 0] /\ out' = [out EXCEPT ![u] = Merged(u)]
     ELSE ctr' = [ctr EXCEPT ![u] = @ + 1] /\ UNCHANGED out
  /\ pc' = [pc EXCEPT ![u][sp] = "done"]
  /\ UNCHANGED <<rows, pos, acc, part, p2s, mail, mails, overflow>>

Done == \A u \in Units, sp \in Splits : pc[u][sp] = "done"

\* merge_splits_kernel, behind the split kernel on the stream.
Merge ==
  /\ Done
  /\ out' = [u \in Units |-> IF u[1] <= launch.reqs THEN Merged(u) ELSE out[u]]

CTA(u, sp) == Begin(u, sp) \/ ReadPage(u, sp) \/ StorePartial(u, sp) \/ Ticket(u, sp)

-----------------------------------------------------------------------------

GridInit ==
  /\ launch = NoLaunch /\ table = NoTable
  /\ pc = Each("done") /\ pos = Each(0) /\ acc = Each(<<>>) /\ part = Each(Stale)
  /\ ctr = [u \in Units |-> 0] /\ out = NoOut

\* What a launch finds is another layer's: only the tickets must be zero.
Reset ==
  /\ launch' = NoLaunch /\ table' = NoTable
  /\ pc' = Each("done") /\ pos' = Each(0) /\ acc' = Each(<<>>) /\ part' = Each(Stale)
  /\ out' = NoOut /\ UNCHANGED ctr

\* The page as the request's history says it must be read.
Whole(p) == <<p, {t \in TokensOf(p) : t < len}>>

\* What out row u is the sum of: every page of its table once and whole, and
\* nothing else.
Summands(u) == UNION {{sp} \X DOMAIN out[u][sp] : sp \in DOMAIN out[u]}
Value(u, a) == out[u][a[1]][a[2]]

OutExact ==
  \A u \in Units : u[1] <= launch.reqs =>
    /\ \A a \in Summands(u) : \E i \in 1 .. Cnt(u) : Value(u, a) = Whole(table[u][i])
    /\ \A i \in 1 .. Cnt(u) : \E a \in Summands(u) : \A b \in Summands(u) :
         Value(u, b) = Whole(table[u][i]) <=> b = a

MailExact ==
  /\ mail = {m \in LayerIds \X Heads \X PageIds : p2s[m[1]][m[2]][m[3]] = "pending"}
  /\ overflow <=> mails > Mcap
=============================================================================
