------------------------------ MODULE K5Probe ------------------------------
(***************************************************************************)
(* Inside one launch of the K5b victim-and-install kernel, for one         *)
(* (layer, kv-head).  Every miss is a program of its own; the programs     *)
(* share the CLOCK hand, the owner words, the slot epochs and the mailbox  *)
(* counter, and nothing else orders them.  A program draws candidate slots *)
(* from the hand, claims one by a compare-and-swap of its owner word, and  *)
(* reads the slot's epoch again before it believes the claim.  Stores are  *)
(* interleaved in program order.                                           *)
(*                                                                         *)
(* The kernel runs in three ways: "legacy" re-points slot2page at the      *)
(* claim, "plan" leaves that to the next graph head, and "eager" also      *)
(* copies pinned pages in the kernel.                                      *)
(***************************************************************************)
EXTENDS Integers, FiniteSets

CONSTANTS
  Blocks,    \* physical blocks of the kv-head
  S,         \* hot slots
  Margin,    \* probes past one lap of the hand (64 in the code)
  Mcap       \* rows of the mailbox

K5ProbeConstants ==
  -1 \notin Blocks /\ S \in Nat \ {0} /\ Margin \in Nat /\ Mcap \in Nat

VARIABLES
  mode,        \* "legacy", "plan" or "eager"
  misses,      \* the blocks of the launch's miss lists
  staged,      \* those with a staging slot; the others are read pinned
  hits,        \* history: the slots K5a touched, with their pages
  p2s, s2p, epoch, owner, hand, mail, overflow,
  hot,         \* the block whose bytes a slot holds
  pc, cand, tries,  \* per program: next statement, candidate slot, probes made
  ver,         \* rewrites of a block: none while the launch runs
  served       \* what the decode behind the launch reads

vars == <<ver, mode, misses, staged, hits, p2s, s2p, epoch, owner, hand, mail,
          overflow, hot, pc, cand, tries, served>>

Absent == -1
Pending == -2
Slots == 0 .. S - 1
Now == 1               \* the step clock of the launch; older epochs are 0

\* What K5a leaves: residency maps that are inverse, hits touched, misses
\* marked pending, and slots still owned by transfers of earlier steps.
Init ==
  /\ mode \in {"legacy", "plan", "eager"}
  /\ s2p \in [Slots -> Blocks \cup {Absent}]
  /\ \A a, b \in Slots : s2p[a] = s2p[b] /\ s2p[a] # Absent => a = b
  /\ misses \in SUBSET (Blocks \ {s2p[s] : s \in Slots}) /\ misses # {}
  /\ staged \in SUBSET misses
  /\ owner \in [Slots -> {0, Now}]
  /\ epoch \in [Slots -> {0, Now}]
  /\ \A s \in Slots : epoch[s] = Now => s2p[s] # Absent /\ owner[s] = 0
  /\ hits = {<<s, s2p[s]>> : s \in {t \in Slots : epoch[t] = Now}}
  /\ p2s = [b \in Blocks |->
              IF b \in misses THEN Pending
              ELSE IF \E s \in Slots : s2p[s] = b /\ owner[s] = 0
                   THEN CHOOSE s \in Slots : s2p[s] = b
                   ELSE IF \E s \in Slots : s2p[s] = b THEN Pending ELSE Absent]
  /\ hot = s2p
  /\ hand \in Slots /\ mail = {} /\ overflow = FALSE
  /\ pc = [b \in misses |-> "draw"]
  /\ cand = [b \in misses |-> Absent] /\ tries = [b \in misses |-> 0]
  /\ ver = [b \in Blocks |-> 0] /\ served = {}

-----------------------------------------------------------------------------
(* Bounded CLOCK probe, claim, verification *)

\* One lap and a margin; nothing for misses past the slot count, which the
\* model's launches never have.
Limit == S + Margin

Goto(b, l) == pc' = [pc EXCEPT ![b] = l]
Probed(b) == tries' = [tries EXCEPT ![b] = @ + 1]

Draw(b) ==
  /\ pc[b] = "draw" /\ tries[b] < Limit
  /\ cand' = [cand EXCEPT ![b] = hand]
  /\ hand' = (hand + 1) % S
  /\ IF epoch[hand] # Now THEN Goto(b, "cas") /\ UNCHANGED tries
                          ELSE Probed(b) /\ UNCHANGED pc
  /\ UNCHANGED <<ver, mode, misses, staged, hits, p2s, s2p, epoch, owner, mail,
                 overflow, hot, served>>

Cas(b) ==
  /\ pc[b] = "cas"
  /\ IF owner[cand[b]] = 0
     THEN /\ owner' = [owner EXCEPT ![cand[b]] = Now]
          /\ Goto(b, "verify") /\ UNCHANGED tries
     ELSE Goto(b, "draw") /\ Probed(b) /\ UNCHANGED owner
  /\ UNCHANGED <<ver, mode, misses, staged, hits, p2s, s2p, epoch, hand, mail,
                 overflow, hot, cand, served>>

\* Mutant: the swap alone is believed.
VerifySwap(b) ==
  /\ pc[b] = "verify"
  /\ Goto(b, IF mode = "plan" THEN "stamp" ELSE "evict")
  /\ UNCHANGED <<ver, mode, misses, staged, hits, p2s, s2p, epoch, owner, hand,
                 mail, overflow, hot, cand, tries, served>>

\* Between the draw and the swap another program may have installed into the
\* slot and let it go.
Verify(b) ==
  /\ pc[b] = "verify"
  /\ IF epoch[cand[b]] = Now
     THEN /\ owner' = [owner EXCEPT ![cand[b]] = 0]
          /\ Goto(b, "draw") /\ Probed(b)
     ELSE /\ Goto(b, IF mode = "plan" THEN "stamp" ELSE "evict")
          /\ UNCHANGED <<owner, tries>>
  /\ UNCHANGED <<ver, mode, misses, staged, hits, p2s, s2p, epoch, hand, mail,
                 overflow, hot, cand, served>>

\* Out of probes: the miss stays uncached.
GiveUp(b) ==
  /\ pc[b] = "draw" /\ tries[b] >= Limit
  /\ overflow' = TRUE
  /\ p2s' = [p2s EXCEPT ![b] = Absent]
  /\ Goto(b, "done")
  /\ UNCHANGED <<ver, mode, misses, staged, hits, s2p, epoch, owner, hand, mail, hot,
                 cand, tries, served>>

-----------------------------------------------------------------------------
(* Install *)

EvictOld(b) ==
  /\ pc[b] = "evict"
  /\ LET old == s2p[cand[b]] IN
       p2s' = IF old # Absent THEN [p2s EXCEPT ![old] = Absent] ELSE p2s
  /\ s2p' = [s2p EXCEPT ![cand[b]] = b]
  /\ Goto(b, "stamp")
  /\ UNCHANGED <<ver, mode, misses, staged, hits, epoch, owner, hand, mail, overflow,
                 hot, cand, tries, served>>

InKernel(b) == IF b \in staged THEN mode # "plan" ELSE mode = "eager"

Stamp(b) ==
  /\ pc[b] = "stamp"
  /\ epoch' = [epoch EXCEPT ![cand[b]] = Now]
  /\ Goto(b, IF InKernel(b) THEN "copy" ELSE IF b \in staged THEN "drop" ELSE "post")
  /\ UNCHANGED <<ver, mode, misses, staged, hits, p2s, s2p, owner, hand, mail,
                 overflow, hot, cand, tries, served>>

\* A staged page (or, eagerly, a pinned one) is copied, then advertised.
Copy(b) ==
  /\ pc[b] = "copy"
  /\ hot' = [hot EXCEPT ![cand[b]] = b]
  /\ Goto(b, "publish")
  /\ UNCHANGED <<ver, mode, misses, staged, hits, p2s, s2p, epoch, owner, hand, mail,
                 overflow, cand, tries, served>>

PublishPage(b) ==
  /\ pc[b] = "publish"
  /\ p2s' = [p2s EXCEPT ![b] = cand[b]]
  /\ Goto(b, "release")
  /\ UNCHANGED <<ver, mode, misses, staged, hits, s2p, epoch, owner, hand, mail,
                 overflow, hot, cand, tries, served>>

\* Mutant: a given-up claim undoes slot2page under the plan as well.
PostUndo(b) ==
  /\ pc[b] = "post"
  /\ IF Cardinality(mail) < Mcap
     THEN /\ mail' = mail \cup {<<b, cand[b]>>} /\ Goto(b, "done")
          /\ UNCHANGED <<overflow, p2s, s2p>>
     ELSE /\ overflow' = TRUE /\ p2s' = [p2s EXCEPT ![b] = Absent]
          /\ s2p' = [s2p EXCEPT ![cand[b]] = Absent]
          /\ Goto(b, "release") /\ UNCHANGED mail
  /\ UNCHANGED <<ver, mode, misses, staged, hits, epoch, owner, hand, hot, cand,
                 tries, served>>

\* A pinned page is posted to the mailbox and keeps its claim; without a row
\* left it is given up, and only the legacy claim has a slot2page to undo.
Post(b) ==
  /\ pc[b] = "post"
  /\ IF Cardinality(mail) < Mcap
     THEN /\ mail' = mail \cup {<<b, cand[b]>>}
          /\ Goto(b, "done")
          /\ UNCHANGED <<overflow, p2s, s2p>>
     ELSE /\ overflow' = TRUE
          /\ p2s' = [p2s EXCEPT ![b] = Absent]
          /\ s2p' = IF mode = "plan" THEN s2p
                    ELSE [s2p EXCEPT ![cand[b]] = Absent]
          /\ Goto(b, "release")
          /\ UNCHANGED mail
  /\ UNCHANGED <<ver, mode, misses, staged, hits, epoch, owner, hand, hot, cand, tries,
                 served>>

\* Under the plan a staged miss is not cached.
DropStaged(b) ==
  /\ pc[b] = "drop"
  /\ p2s' = [p2s EXCEPT ![b] = Absent]
  /\ Goto(b, "release")
  /\ UNCHANGED <<ver, mode, misses, staged, hits, s2p, epoch, owner, hand, mail,
                 overflow, hot, cand, tries, served>>

Release(b) ==
  /\ pc[b] = "release"
  /\ owner' = [owner EXCEPT ![cand[b]] = 0]
  /\ Goto(b, "done")
  /\ UNCHANGED <<ver, mode, misses, staged, hits, p2s, s2p, epoch, hand, mail,
                 overflow, hot, cand, tries, served>>

Program(b) == Draw(b) \/ Cas(b) \/ Verify(b) \/ GiveUp(b) \/ EvictOld(b)
                \/ Stamp(b) \/ Copy(b) \/ PublishPage(b) \/ Post(b)
                \/ DropStaged(b) \/ Release(b)

\* The decode behind the launch reads an advertised page from its slot and
\* any other in place.
Ended == \A b \in misses : pc[b] = "done"
Read(b) == <<0, b, IF p2s[b] >= 0 /\ hot[p2s[b]] # b THEN Absent ELSE ver[b]>>
DecodeReads ==
  /\ Ended /\ served = {}
  /\ served' = {Read(b) : b \in Blocks}
  /\ UNCHANGED <<ver, mode, misses, staged, hits, p2s, s2p, epoch, owner, hand, mail,
                 overflow, hot, pc, cand, tries>>

Next == DecodeReads \/ \E b \in misses : Program(b)

Spec == Init /\ [][Next]_vars

-----------------------------------------------------------------------------

\* No two programs believe they hold one slot, and no program holds a slot that
\* a hit, a posted transfer or a page the launch installed needs.
Holding(b) == pc[b] \in {"evict", "stamp", "copy", "publish", "drop", "post"}
ClaimExclusive ==
  /\ \A a, b \in misses : a # b /\ Holding(a) /\ Holding(b) => cand[a] # cand[b]
  /\ \A b \in misses : Holding(b) =>
       /\ owner[cand[b]] # 0
       /\ \A m \in mail : m[2] # cand[b]
       /\ \A h \in hits : h[1] # cand[b]
       /\ \A a \in misses \ {b} :
            pc[a] = "done" /\ p2s[a] = cand[a] => cand[a] # cand[b]

\* When the launch ends the maps are inverse on the slots nobody owns, the
\* hits are where they were, and what was posted still holds its slot.
Settled ==
  Ended =>
    /\ \A b \in Blocks : p2s[b] >= 0 => s2p[p2s[b]] = b /\ hot[p2s[b]] = b
    /\ \A h \in hits : p2s[h[2]] = h[1]
    /\ \A m \in mail : owner[m[2]] # 0 /\ p2s[m[1]] = Pending
    /\ \A b \in misses : p2s[b] = Pending => \E m \in mail : m[1] = b
=============================================================================
