------------------------------- MODULE ArmsProofs -------------------------------
(***************************************************************************)
(* Proofs about the tier as a whole, for any instance of its arms. First   *)
(* the K5 arm, for any blocks, slots, margin and mailbox, any state K5a    *)
(* may leave, and all three modes of the kernel: claims are exclusive, a   *)
(* launch leaves the maps settled, and the decode behind it reads the      *)
(* bytes of the pages it is given. Then the racing fetch-all: whichever    *)
(* way a landing is told, a slot whose flag says that a page has landed    *)
(* has that page's bytes. Last, with the invariants of the three arms,     *)
(* that the tier implements PageReads.                                     *)
(***************************************************************************)
EXTENDS ResidencyProofs

-----------------------------------------------------------------------------
(* The K5 install kernel                                                   *)

KBlocks == Pages["k5"]

Labels == {"draw", "cas", "verify", "evict", "stamp", "copy", "publish",
           "post", "drop", "release", "done"}

ProbeTypes ==
  /\ mode \in {"legacy", "plan", "eager"}
  /\ misses \subseteq KBlocks
  /\ p2s \in [KBlocks -> K5!Slots \cup {K5!Absent, K5!Pending}]
  /\ s2p \in [K5!Slots -> KBlocks \cup {K5!Absent}]
  /\ hot \in [K5!Slots -> KBlocks \cup {K5!Absent}]
  /\ epoch \in [K5!Slots -> {0, K5!Now}]
  /\ owner \in [K5!Slots -> {0, K5!Now}]
  /\ hand \in K5!Slots
  /\ pc \in [misses -> Labels]
  /\ cand \in [misses -> K5!Slots \cup {K5!Absent}]
  /\ tries \in [misses -> Nat]

\* From the swap that succeeds to the store that clears the word, a program
\* owns its candidate; no two own one slot.
Owns(b) == K5!Holding(b) \/ pc[b] \in {"verify", "release"}
Owned ==
  /\ \A b \in misses : pc[b] \in {"cas"} \/ Owns(b) => cand[b] \in K5!Slots
  /\ \A b \in misses : Owns(b) => owner[cand[b]] = K5!Now
  /\ \A a, b \in misses : a # b /\ Owns(a) /\ Owns(b) => cand[a] # cand[b]

\* A claim that was verified is of a slot whose epoch was old, until its own
\* stamp; so it is neither a hit's nor one this launch has installed into.
Verified ==
  /\ \A b \in misses : pc[b] \in {"evict", "stamp"} => epoch[cand[b]] # K5!Now
  /\ \A b \in misses : K5!Holding(b) => \A h \in hits : h[1] # cand[b]
  /\ \A a \in misses : p2s[a] \in K5!Slots =>
       /\ epoch[p2s[a]] = K5!Now
       /\ \A b \in misses \ {a} : K5!Holding(b) => cand[b] # p2s[a]

HitsKept ==
  \A h \in hits : /\ h[1] \in K5!Slots /\ h[2] \in KBlocks \ misses
                  /\ epoch[h[1]] = K5!Now
                  /\ p2s[h[2]] = h[1]

\* What was posted is still claimed and pending.
Posted ==
  \A m \in mail : /\ m[1] \in misses /\ m[2] \in K5!Slots
                  /\ owner[m[2]] = K5!Now /\ pc[m[1]] = "done"
                  /\ p2s[m[1]] = K5!Pending
                  /\ \A b \in misses : Owns(b) => cand[b] # m[2]

\* A miss is pending until it is published, dropped or given up.
StaysPending ==
  \A b \in misses :
    /\ pc[b] \notin {"release", "done"} => p2s[b] = K5!Pending
    /\ pc[b] = "release" => p2s[b] # K5!Pending
    /\ pc[b] = "done" /\ p2s[b] = K5!Pending => \E m \in mail : m[1] = b

\* slot2page names a miss only where that miss has claimed, and every block
\* once; the page a program installs is the one its slot names.
Named ==
  /\ \A s, t \in K5!Slots : s2p[s] = s2p[t] /\ s2p[s] # K5!Absent => s = t
  /\ \A s \in K5!Slots : s2p[s] \in misses =>
       /\ cand[s2p[s]] = s
       /\ pc[s2p[s]] \notin {"draw", "cas", "verify", "evict"}
       /\ pc[s2p[s]] # "stamp" => epoch[s] = K5!Now
  /\ \A b \in misses : pc[b] \in {"stamp", "copy", "publish", "post"} /\ mode # "plan" =>
       s2p[cand[b]] = b
  /\ \A b \in misses : pc[b] \in {"evict", "copy", "publish"} => mode # "plan"
  /\ \A b \in misses : pc[b] = "publish" => hot[cand[b]] = b

\* An advertised page is in the slot that names it.
Advertised ==
  \A b \in KBlocks : p2s[b] \in K5!Slots => s2p[p2s[b]] = b /\ hot[p2s[b]] = b

ProbeInv == /\ ProbeTypes /\ Owned /\ Verified /\ HitsKept /\ Posted
            /\ StaysPending /\ Named /\ Advertised

\* What the constants of the K5 arm are, and what its slots are.
LEMMA SlotFacts ==
    /\ HotSlots["k5"] \in Nat \ {0}
    /\ K5!Absent \notin K5!Slots /\ K5!Pending \notin K5!Slots
    /\ K5!Absent # K5!Pending /\ K5!Now # 0
    /\ K5!Absent \notin KBlocks
    /\ 0 \in K5!Slots
    /\ \A h \in K5!Slots : (h + 1) % HotSlots["k5"] \in K5!Slots
<1>1. HotSlots["k5"] \in Nat \ {0} /\ K5!Absent \notin KBlocks
  BY ArmsAssumption DEF K5!K5ProbeConstants, K5!Absent, KBlocks
<1>2. \A x \in Nat, n \in Nat \ {0} : x % n \in 0 .. n - 1
  OBVIOUS
<1> QED BY <1>1, <1>2 DEF K5!Slots, K5!Absent, K5!Pending, K5!Now

\* What K5a leaves is in the invariant.
LEMMA ProbeInit == K5!Init => ProbeInv
<1> SUFFICES ASSUME K5!Init PROVE ProbeInv
  OBVIOUS
<1> USE SlotFacts
<1>0. /\ s2p \in [K5!Slots -> KBlocks \cup {K5!Absent}]
      /\ misses \in SUBSET (KBlocks \ {s2p[s] : s \in K5!Slots})
  BY DEF K5!Init, KBlocks
<1>1. \A b \in KBlocks : /\ p2s[b] \in K5!Slots \cup {K5!Absent, K5!Pending}
                         /\ b \in misses => p2s[b] = K5!Pending
                         /\ p2s[b] \in K5!Slots => s2p[p2s[b]] = b
  BY <1>0 DEF K5!Init, KBlocks
<1>2. ProbeTypes
  BY <1>0, <1>1 DEF K5!Init, ProbeTypes, Labels, KBlocks
<1>3. HitsKept
  <2>a. hits = {<<s, s2p[s]>> : s \in {t \in K5!Slots : epoch[t] = K5!Now}}
    BY DEF K5!Init
  <2> SUFFICES ASSUME NEW s \in K5!Slots, epoch[s] = K5!Now
               PROVE  s2p[s] \in KBlocks \ misses /\ p2s[s2p[s]] = s
    BY <2>a DEF HitsKept
  <2>1. s2p[s] # K5!Absent /\ owner[s] = 0
    BY DEF K5!Init
  <2>2. s2p[s] \in KBlocks \ misses
    BY <1>0, <2>1
  <2>3. \A t \in K5!Slots : s2p[t] = s2p[s] => t = s
    BY <2>1 DEF K5!Init
  <2>4. (CHOOSE t \in K5!Slots : s2p[t] = s2p[s]) = s
    BY <2>3
  <2> QED BY <2>1, <2>2, <2>4 DEF K5!Init, KBlocks
<1>4. \A b \in misses : pc[b] = "draw"
  BY DEF K5!Init
<1>5. Owned /\ Posted
  BY <1>4 DEF K5!Init, Owned, Owns, K5!Holding, Posted
<1>9. Verified
  BY <1>0, <1>1, <1>4 DEF K5!Holding, Verified
<1>6. StaysPending
  BY <1>0, <1>1, <1>4 DEF StaysPending
<1>7. Named
  BY <1>0, <1>4 DEF K5!Init, Named
<1>8. Advertised
  BY <1>1 DEF Advertised, K5!Init
<1> QED BY <1>2, <1>3, <1>5, <1>6, <1>7, <1>8, <1>9 DEF ProbeInv

\* Drawing a candidate slot keeps the invariant.
LEMMA ProbeDraw ==
    ASSUME ProbeInv, NEW b \in misses, K5!Draw(b)
    PROVE  ProbeInv'
<1> USE SlotFacts DEF ProbeInv, K5!Goto, K5!Probed
<1>1. ProbeTypes'
  BY DEF K5!Draw, ProbeTypes, Labels, Owned
<1>2. Owned'
  BY DEF K5!Draw, Owned, Owns, K5!Holding, ProbeTypes, Posted
<1>3. Verified'
  BY DEF K5!Draw, Verified, K5!Holding, ProbeTypes, Owned, Owns
<1>4. HitsKept'
  BY DEF K5!Draw, HitsKept, ProbeTypes
<1>5. Posted'
  BY DEF K5!Draw, Posted, Owns, K5!Holding, ProbeTypes
<1>6. StaysPending'
  BY DEF K5!Draw, StaysPending, ProbeTypes
<1>7. Named'
  BY DEF K5!Draw, Named, ProbeTypes
<1>8. Advertised'
  BY DEF K5!Draw, Advertised, ProbeTypes
<1> QED BY <1>1, <1>2, <1>3, <1>4, <1>5, <1>6, <1>7, <1>8

\* The compare-and-swap of the owner word keeps it.
LEMMA ProbeCas ==
    ASSUME ProbeInv, NEW b \in misses, K5!Cas(b)
    PROVE  ProbeInv'
<1> USE SlotFacts DEF ProbeInv, K5!Goto, K5!Probed
<1>1. ProbeTypes'
  BY DEF K5!Cas, ProbeTypes, Labels, Owned
<1>2. Owned'
  BY DEF K5!Cas, Owned, Owns, K5!Holding, ProbeTypes, Posted
<1>3. Verified'
  BY DEF K5!Cas, Verified, K5!Holding, ProbeTypes, Owned, Owns
<1>4. HitsKept'
  BY DEF K5!Cas, HitsKept, ProbeTypes
<1>5. Posted'
  BY DEF K5!Cas, Posted, Owns, K5!Holding, ProbeTypes
<1>6. StaysPending'
  BY DEF K5!Cas, StaysPending, ProbeTypes
<1>7. Named'
  BY DEF K5!Cas, Named, ProbeTypes
<1>8. Advertised'
  BY DEF K5!Cas, Advertised, ProbeTypes
<1> QED BY <1>1, <1>2, <1>3, <1>4, <1>5, <1>6, <1>7, <1>8

\* Reading the epoch again keeps it.
LEMMA ProbeVerify ==
    ASSUME ProbeInv, NEW b \in misses, K5!Verify(b)
    PROVE  ProbeInv'
<1> USE SlotFacts DEF ProbeInv, K5!Goto, K5!Probed
<1>1. ProbeTypes'
  BY DEF K5!Verify, ProbeTypes, Labels, Owned
<1>2. Owned'
  BY DEF K5!Verify, Owned, Owns, K5!Holding, ProbeTypes, Posted
<1>3. Verified'
  BY DEF K5!Verify, Verified, K5!Holding, ProbeTypes, Owned, Owns, HitsKept
<1>4. HitsKept'
  BY DEF K5!Verify, HitsKept, ProbeTypes
<1>5. Posted'
  BY DEF K5!Verify, Posted, Owns, K5!Holding, ProbeTypes
<1>6. StaysPending'
  BY DEF K5!Verify, StaysPending, ProbeTypes
<1>7. Named'
  BY DEF K5!Verify, Named, ProbeTypes
<1>8. Advertised'
  BY DEF K5!Verify, Advertised, ProbeTypes
<1> QED BY <1>1, <1>2, <1>3, <1>4, <1>5, <1>6, <1>7, <1>8

\* Running out of probes keeps it.
LEMMA ProbeGiveUp ==
    ASSUME ProbeInv, NEW b \in misses, K5!GiveUp(b)
    PROVE  ProbeInv'
<1> USE SlotFacts DEF ProbeInv, K5!Goto, K5!Probed
<1>1. ProbeTypes'
  BY DEF K5!GiveUp, ProbeTypes, Labels, Owned
<1>2. Owned'
  BY DEF K5!GiveUp, Owned, Owns, K5!Holding, ProbeTypes, Posted
<1>3. Verified'
  BY DEF K5!GiveUp, Verified, K5!Holding, ProbeTypes, Owned, Owns
<1>4. HitsKept'
  BY DEF K5!GiveUp, HitsKept, ProbeTypes
<1>5. Posted'
  BY DEF K5!GiveUp, Posted, Owns, K5!Holding, ProbeTypes
<1>6. StaysPending'
  BY DEF K5!GiveUp, StaysPending, ProbeTypes
<1>7. Named'
  BY DEF K5!GiveUp, Named, ProbeTypes
<1>8. Advertised'
  BY DEF K5!GiveUp, Advertised, ProbeTypes
<1> QED BY <1>1, <1>2, <1>3, <1>4, <1>5, <1>6, <1>7, <1>8

\* Re-pointing slot2page keeps it.
LEMMA ProbeEvictOld ==
    ASSUME ProbeInv, NEW b \in misses, K5!EvictOld(b)
    PROVE  ProbeInv'
<1> USE SlotFacts DEF ProbeInv, K5!Goto, K5!Probed
<1> DEFINE c == cand[b]
           old == s2p[c]
<1>a. /\ pc[b] = "evict" /\ c \in K5!Slots /\ epoch[c] # K5!Now
      /\ b \in KBlocks /\ p2s[b] = K5!Pending /\ old \in KBlocks \cup {K5!Absent}
  BY DEF K5!EvictOld, Owned, Owns, K5!Holding, Verified, ProbeTypes, StaysPending
<1>b. /\ p2s' = IF old # K5!Absent THEN [p2s EXCEPT ![old] = K5!Absent] ELSE p2s
      /\ s2p' = [s2p EXCEPT ![c] = b]
      /\ pc' = [pc EXCEPT ![b] = "stamp"]
      /\ UNCHANGED <<mode, misses, staged, hits, epoch, owner, hand, mail, hot,
                     cand, tries>>
  BY DEF K5!EvictOld
<1>c. old \notin misses
  <2> SUFFICES ASSUME old \in misses PROVE FALSE
    OBVIOUS
  <2>1. cand[old] = c /\ pc[old] = "stamp"
    BY <1>a DEF Named
  <2>2. Owns(b) /\ Owns(old) /\ old # b
    BY <1>a, <2>1 DEF Owns, K5!Holding
  <2> QED BY <2>1, <2>2 DEF Owned
<1>d. \A h \in hits : h[2] # old
  <2> SUFFICES ASSUME NEW h \in hits, h[2] = old PROVE FALSE
    OBVIOUS
  <2>1. h[1] \in K5!Slots /\ h[2] \in KBlocks /\ p2s[h[2]] = h[1]
    BY DEF HitsKept
  <2>2. s2p[h[1]] = old /\ old # K5!Absent
    BY <2>1 DEF Advertised
  <2>3. h[1] = c
    BY <2>1, <2>2, <1>a DEF Named
  <2> QED BY <2>3, <1>a DEF Verified, K5!Holding
<1>e. \A s \in K5!Slots : s2p[s] # b
  BY <1>a DEF Named
<1>1. ProbeTypes'
  BY <1>a, <1>b DEF ProbeTypes, Labels
<1>2. Owned'
  BY <1>a, <1>b DEF Owned, Owns, K5!Holding, ProbeTypes
<1>3. Verified'
  BY <1>a, <1>b, <1>c DEF Verified, K5!Holding, ProbeTypes
<1>4. HitsKept'
  BY <1>b, <1>d DEF HitsKept, ProbeTypes
<1>5. Posted'
  BY <1>a, <1>b, <1>c DEF Posted, Owns, K5!Holding, ProbeTypes
<1>6. StaysPending'
  BY <1>a, <1>b, <1>c DEF StaysPending, ProbeTypes
<1>7. Named'
  <2>1. \A a \in misses \ {b} : pc[a] \in {"stamp", "copy", "publish", "post"} => cand[a] # c
    BY <1>a DEF Owned, Owns, K5!Holding
  <2>2. mode # "plan"
    BY <1>a DEF Named
  <2>3. \A s \in K5!Slots : s2p'[s] = IF s = c THEN b ELSE s2p[s]
    BY <1>a, <1>b DEF ProbeTypes
  <2>4. \A a \in misses : pc'[a] = IF a = b THEN "stamp" ELSE pc[a]
    BY <1>b DEF ProbeTypes
  <2>5. \A s \in K5!Slots : s2p'[s] \in misses =>
       /\ cand[s2p'[s]] = s
       /\ pc'[s2p'[s]] \notin {"draw", "cas", "verify", "evict"}
       /\ pc'[s2p'[s]] # "stamp" => epoch[s] = K5!Now
    BY <2>3, <2>4, <1>e DEF Named
  <2>6. \A s, t \in K5!Slots : s2p'[s] = s2p'[t] /\ s2p'[s] # K5!Absent => s = t
    BY <2>3, <1>e DEF Named
  <2>7. \A a \in misses : pc'[a] \in {"stamp", "copy", "publish", "post"} /\ mode # "plan" =>
          s2p'[cand[a]] = a
    <3> SUFFICES ASSUME NEW a \in misses, pc'[a] \in {"stamp", "copy", "publish", "post"},
                        mode # "plan"
                 PROVE  s2p'[cand[a]] = a
      OBVIOUS
    <3>1. CASE a = b BY <3>1, <2>3, <1>a
    <3>2. CASE a # b
      <4>1. cand[a] # c /\ s2p[cand[a]] = a /\ cand[a] \in K5!Slots
        BY <3>2, <2>1, <2>4 DEF Named, Owned, Owns, K5!Holding
      <4> QED BY <4>1, <2>3
    <3> QED BY <3>1, <3>2
  <2> QED BY <1>b, <2>2, <2>4, <2>5, <2>6, <2>7 DEF Named
<1>8. Advertised'
  BY <1>a, <1>b DEF Advertised, ProbeTypes
<1> QED BY <1>1, <1>2, <1>3, <1>4, <1>5, <1>6, <1>7, <1>8

\* Stamping the slot's epoch keeps it.
LEMMA ProbeStamp ==
    ASSUME ProbeInv, NEW b \in misses, K5!Stamp(b)
    PROVE  ProbeInv'
<1> USE SlotFacts DEF ProbeInv, K5!Goto, K5!Probed
<1>1. ProbeTypes'
  BY DEF K5!Stamp, ProbeTypes, Labels, Owned
<1>2. Owned'
  BY DEF K5!Stamp, Owned, Owns, K5!Holding, ProbeTypes, Posted
<1>3. Verified'
  BY DEF K5!Stamp, Verified, K5!Holding, ProbeTypes, Owned, Owns
<1>4. HitsKept'
  BY DEF K5!Stamp, HitsKept, ProbeTypes
<1>5. Posted'
  BY DEF K5!Stamp, Posted, Owns, K5!Holding, ProbeTypes
<1>6. StaysPending'
  BY DEF K5!Stamp, StaysPending, ProbeTypes
<1>7. Named'
  BY DEF K5!Stamp, K5!InKernel, Named, ProbeTypes, Owned, Owns, K5!Holding
<1>8. Advertised'
  BY DEF K5!Stamp, Advertised, ProbeTypes
<1> QED BY <1>1, <1>2, <1>3, <1>4, <1>5, <1>6, <1>7, <1>8

\* Copying the page into the slot keeps it.
LEMMA ProbeCopy ==
    ASSUME ProbeInv, NEW b \in misses, K5!Copy(b)
    PROVE  ProbeInv'
<1> USE SlotFacts DEF ProbeInv, K5!Goto, K5!Probed
<1>1. ProbeTypes'
  BY DEF K5!Copy, ProbeTypes, Labels, Owned
<1>2. Owned'
  BY DEF K5!Copy, Owned, Owns, K5!Holding, ProbeTypes, Posted
<1>3. Verified'
  BY DEF K5!Copy, Verified, K5!Holding, ProbeTypes, Owned, Owns
<1>4. HitsKept'
  BY DEF K5!Copy, HitsKept, ProbeTypes
<1>5. Posted'
  BY DEF K5!Copy, Posted, Owns, K5!Holding, ProbeTypes
<1>6. StaysPending'
  BY DEF K5!Copy, StaysPending, ProbeTypes
<1>7. Named'
  BY DEF K5!Copy, Named, ProbeTypes, Owned, Owns, K5!Holding
<1>8. Advertised'
  BY DEF K5!Copy, Advertised, ProbeTypes, Named, StaysPending, Owned, Owns, K5!Holding
<1> QED BY <1>1, <1>2, <1>3, <1>4, <1>5, <1>6, <1>7, <1>8

\* Advertising the page keeps it.
LEMMA ProbePublishPage ==
    ASSUME ProbeInv, NEW b \in misses, K5!PublishPage(b)
    PROVE  ProbeInv'
<1> USE SlotFacts DEF ProbeInv, K5!Goto, K5!Probed
<1>1. ProbeTypes'
  BY DEF K5!PublishPage, ProbeTypes, Labels, Owned
<1>2. Owned'
  BY DEF K5!PublishPage, Owned, Owns, K5!Holding, ProbeTypes, Posted
<1>3. Verified'
  BY DEF K5!PublishPage, Verified, K5!Holding, ProbeTypes, Owned, Owns, Named
<1>4. HitsKept'
  BY DEF K5!PublishPage, HitsKept, ProbeTypes
<1>5. Posted'
  BY DEF K5!PublishPage, Posted, Owns, K5!Holding, ProbeTypes
<1>6. StaysPending'
  BY DEF K5!PublishPage, StaysPending, ProbeTypes
<1>7. Named'
  BY DEF K5!PublishPage, Named, ProbeTypes
<1>8. Advertised'
  BY DEF K5!PublishPage, Advertised, ProbeTypes, Named, Owned, Owns, K5!Holding
<1> QED BY <1>1, <1>2, <1>3, <1>4, <1>5, <1>6, <1>7, <1>8

\* Posting to the mailbox, or undoing the claim, keeps it.
LEMMA ProbePost ==
    ASSUME ProbeInv, NEW b \in misses, K5!Post(b)
    PROVE  ProbeInv'
<1> USE SlotFacts DEF ProbeInv, K5!Goto, K5!Probed
<1>1. ProbeTypes'
  BY DEF K5!Post, ProbeTypes, Labels, Owned
<1>2. Owned'
  BY DEF K5!Post, Owned, Owns, K5!Holding, ProbeTypes, Posted
<1>3. Verified'
  BY DEF K5!Post, Verified, K5!Holding, ProbeTypes, Owned, Owns
<1>4. HitsKept'
  BY DEF K5!Post, HitsKept, ProbeTypes
<1>5. Posted'
  BY DEF K5!Post, Posted, Owned, Owns, K5!Holding, ProbeTypes, StaysPending
<1>6. StaysPending'
  <2>1. \/ /\ mail' = mail \cup {<<b, cand[b]>>}
           /\ pc' = [pc EXCEPT ![b] = "done"]
           /\ UNCHANGED p2s
        \/ /\ p2s' = [p2s EXCEPT ![b] = K5!Absent]
           /\ pc' = [pc EXCEPT ![b] = "release"]
           /\ UNCHANGED mail
    BY DEF K5!Post
  <2>2. CASE mail' = mail \cup {<<b, cand[b]>>}
    <3>1. <<b, cand[b]>> \in mail' /\ <<b, cand[b]>>[1] = b /\ mail \subseteq mail'
      BY <2>2
    <3> QED BY <2>1, <3>1 DEF K5!Post, StaysPending, ProbeTypes
  <2>3. CASE p2s' = [p2s EXCEPT ![b] = K5!Absent] /\ UNCHANGED mail
    BY <2>1, <2>3 DEF K5!Post, StaysPending, ProbeTypes
  <2> QED BY <2>1, <2>2, <2>3
<1>7. Named'
  BY DEF K5!Post, Named, ProbeTypes, Owned, Owns, K5!Holding
<1>8. Advertised'
  BY DEF K5!Post, Advertised, ProbeTypes, Named, StaysPending, Owned, Owns, K5!Holding
<1> QED BY <1>1, <1>2, <1>3, <1>4, <1>5, <1>6, <1>7, <1>8

\* Not caching a staged miss under the plan keeps it.
LEMMA ProbeDropStaged ==
    ASSUME ProbeInv, NEW b \in misses, K5!DropStaged(b)
    PROVE  ProbeInv'
<1> USE SlotFacts DEF ProbeInv, K5!Goto, K5!Probed
<1>1. ProbeTypes'
  BY DEF K5!DropStaged, ProbeTypes, Labels, Owned
<1>2. Owned'
  BY DEF K5!DropStaged, Owned, Owns, K5!Holding, ProbeTypes, Posted
<1>3. Verified'
  BY DEF K5!DropStaged, Verified, K5!Holding, ProbeTypes, Owned, Owns
<1>4. HitsKept'
  BY DEF K5!DropStaged, HitsKept, ProbeTypes
<1>5. Posted'
  BY DEF K5!DropStaged, Posted, Owns, K5!Holding, ProbeTypes
<1>6. StaysPending'
  BY DEF K5!DropStaged, StaysPending, ProbeTypes
<1>7. Named'
  BY DEF K5!DropStaged, Named, ProbeTypes
<1>8. Advertised'
  BY DEF K5!DropStaged, Advertised, ProbeTypes
<1> QED BY <1>1, <1>2, <1>3, <1>4, <1>5, <1>6, <1>7, <1>8

\* Letting the slot go keeps it.
LEMMA ProbeRelease ==
    ASSUME ProbeInv, NEW b \in misses, K5!Release(b)
    PROVE  ProbeInv'
<1> USE SlotFacts DEF ProbeInv, K5!Goto, K5!Probed
<1>1. ProbeTypes'
  BY DEF K5!Release, ProbeTypes, Labels, Owned
<1>2. Owned'
  BY DEF K5!Release, Owned, Owns, K5!Holding, ProbeTypes, Posted
<1>3. Verified'
  BY DEF K5!Release, Verified, K5!Holding, ProbeTypes, Owned, Owns
<1>4. HitsKept'
  BY DEF K5!Release, HitsKept, ProbeTypes
<1>5. Posted'
  BY DEF K5!Release, Posted, Owns, K5!Holding, ProbeTypes
<1>6. StaysPending'
  BY DEF K5!Release, StaysPending, ProbeTypes
<1>7. Named'
  BY DEF K5!Release, Named, ProbeTypes
<1>8. Advertised'
  BY DEF K5!Release, Advertised, ProbeTypes
<1> QED BY <1>1, <1>2, <1>3, <1>4, <1>5, <1>6, <1>7, <1>8

\* Every step of a launch, and the decode behind it, keeps the invariant.
LEMMA ProbeNext ==
    ASSUME ProbeInv, [K5!Next]_(K5!vars)
    PROVE  ProbeInv'
<1>1. CASE UNCHANGED K5!vars
  BY <1>1 DEF K5!vars, ProbeInv, ProbeTypes, Owned, Owns, K5!Holding, Verified,
              HitsKept, Posted, StaysPending, Named, Advertised
<1>2. CASE K5!DecodeReads
  BY <1>2 DEF K5!DecodeReads, ProbeInv, ProbeTypes, Owned, Owns, K5!Holding, Verified,
              HitsKept, Posted, StaysPending, Named, Advertised
<1>3. ASSUME NEW b \in misses, K5!Program(b) PROVE ProbeInv'
  BY <1>3, ProbeDraw, ProbeCas, ProbeVerify, ProbeGiveUp, ProbeEvictOld,
     ProbeStamp, ProbeCopy, ProbePublishPage, ProbePost, ProbeDropStaged,
     ProbeRelease DEF K5!Program
<1> QED BY <1>1, <1>2, <1>3 DEF K5!Next

\* Claims are exclusive in it.
LEMMA ProbeExclusive == ProbeInv => K5!ClaimExclusive
<1> USE SlotFacts DEF ProbeInv
<1> SUFFICES ASSUME ProbeInv PROVE K5!ClaimExclusive
  OBVIOUS
<1>1. \A b \in misses : K5!Holding(b) => Owns(b) /\ cand[b] \in K5!Slots
  BY DEF Owned, Owns
<1>2. \A a, b \in misses : a # b /\ K5!Holding(a) /\ K5!Holding(b) => cand[a] # cand[b]
  BY <1>1 DEF Owned
<1>3. ASSUME NEW b \in misses, K5!Holding(b)
      PROVE  /\ owner[cand[b]] # 0
             /\ \A m \in mail : m[2] # cand[b]
             /\ \A h \in hits : h[1] # cand[b]
  BY <1>1, <1>3 DEF Owned, Posted, Verified
<1>4. ASSUME NEW b \in misses, K5!Holding(b), NEW a \in misses \ {b}, p2s[a] = cand[a]
      PROVE  cand[a] # cand[b]
  BY <1>1, <1>4 DEF Verified
<1> QED BY <1>2, <1>3, <1>4 DEF K5!ClaimExclusive

\* An ended launch is settled in it.
LEMMA ProbeSettled == ProbeInv => K5!Settled
<1> USE SlotFacts DEF ProbeInv
<1> SUFFICES ASSUME ProbeInv, K5!Ended PROVE K5!Settled
  BY DEF K5!Settled
<1>1. \A b \in KBlocks : p2s[b] >= 0 => s2p[p2s[b]] = b /\ hot[p2s[b]] = b
  BY DEF ProbeTypes, Advertised, K5!Absent, K5!Pending
<1>2. \A h \in hits : p2s[h[2]] = h[1]
  BY DEF HitsKept
<1>3. \A m \in mail : owner[m[2]] # 0 /\ p2s[m[1]] = K5!Pending
  BY DEF Posted
<1>4. \A b \in misses : p2s[b] = K5!Pending => \E m \in mail : m[1] = b
  BY DEF StaysPending, K5!Ended
<1> QED BY <1>1, <1>2, <1>3, <1>4 DEF K5!Settled, KBlocks

\* The invariant of the K5 arm, in every engine that starts with it.
ArmK5 == arm = "k5" => ProbeInv

\* K5 arm: the inductive invariant holds throughout.
THEOREM ProbeSafe == Spec => []ArmK5
<1>1. Init => ArmK5
  BY ProbeInit DEF Init, ArmK5
<1>2. ArmK5 /\ [Next]_vars => ArmK5'
  <2> SUFFICES ASSUME ArmK5, [Next]_vars, arm' = "k5" PROVE ProbeInv'
    BY DEF ArmK5
  <2>1. arm = "k5" /\ [K5!Next]_(K5!vars)
    BY DEF Next, vars, K5!vars, onlyK5, maps
  <2> QED BY <2>1, ProbeNext DEF ArmK5
<1> QED BY <1>1, <1>2, PTL DEF Spec

\* No two install programs hold one slot, and none holds a slot that a hit, a
\* posted transfer or an installed page needs (_k5b_kernel's claim, re-check
\* and release, any number of programs).
THEOREM K5ClaimsExclusive == Spec => []ClaimExclusive
<1>1. ArmK5 => ClaimExclusive
  BY ProbeExclusive DEF ArmK5, ClaimExclusive
<1> QED BY <1>1, ProbeSafe, PTL

\* When a launch has ended, every advertised page is in the slot that names it,
\* no hit has lost its slot, and every pending page is in the mailbox with its
\* claim (_k5b_kernel, in the three modes).
THEOREM K5Settles == Spec => []Settled
<1>1. ArmK5 => Settled
  BY ProbeSettled DEF ArmK5, Settled
<1> QED BY <1>1, ProbeSafe, PTL


-----------------------------------------------------------------------------
(* Counting *)

FBlocks == Pages["fa1"]
FLayers == 0 .. L - 1
FRanks == 1 .. Lcap

\* What the constants of the fetch-all arm are.
LEMMA LandingFacts ==
    /\ FBlocks \subseteq Nat /\ IsFiniteSet(FBlocks)
    /\ L \in Nat \ {0} /\ Lcap \in Nat \ {0} /\ Streams \in Nat \ {0}
    /\ FRanks \subseteq FBlocks
    /\ Picks["fa1"] \subseteq SUBSET FBlocks
    /\ Writes \subseteq SUBSET FBlocks
    /\ FA1!Layers = FLayers /\ FA1!Ranks = FRanks /\ FA1!None = -1 /\ FA1!Torn = <<-1, -1>>
    /\ \A S : FA1!Cardinality(S) = Cardinality(S)
    /\ \A s \in FRanks : s \in Nat \ {0} /\ s # -1
    /\ \A b \in FBlocks : b \in Nat /\ b # -1
    /\ \A l \in FLayers : l \in Nat /\ FA1!Buf(l) \in FLayers
<1>1. \A S : FA1!IsFiniteSet(S) <=> IsFiniteSet(S)
  BY DEF IsFiniteSet, FA1!IsFiniteSet
<1>2. \A S : FA1!Cardinality(S) = Cardinality(S)
  BY DEF Cardinality, FA1!Cardinality
<1>3. /\ FBlocks \subseteq Nat /\ IsFiniteSet(FBlocks)
      /\ L \in Nat \ {0} /\ Lcap \in Nat \ {0} /\ Streams \in Nat \ {0}
      /\ FRanks \subseteq FBlocks
      /\ Picks["fa1"] \subseteq SUBSET FBlocks
      /\ Writes \subseteq SUBSET FBlocks
  BY <1>1, ArmsAssumption DEF FA1!LandingConstants, FBlocks, FRanks, FA1!Ranks
<1>4. \A l \in FLayers : l \in Nat /\ FA1!Buf(l) \in FLayers
  BY <1>3 DEF FLayers, FA1!Buf
<1>5. FA1!Layers = FLayers /\ FA1!Ranks = FRanks /\ FA1!None = -1 /\ FA1!Torn = <<-1, -1>>
  BY DEF FA1!Layers, FA1!Ranks, FA1!None, FA1!Torn, FLayers, FRanks
<1>6. \A s \in FRanks : s \in Nat \ {0} /\ s # -1
  BY <1>3 DEF FRanks
<1>7. \A b \in FBlocks : b \in Nat /\ b # -1
  BY <1>3
<1> QED BY <1>2, <1>3, <1>4, <1>5, <1>6, <1>7

\* The page table of the fetch-all arm lists the selected blocks, ascending.
LEMMA AscendingFA1 ==
    ASSUME NEW B \in SUBSET FBlocks
    PROVE  /\ FA1!Ascending(B) \in Seq(B)
           /\ \A i, j \in 1 .. Len(FA1!Ascending(B)) :
                i < j => FA1!Ascending(B)[i] < FA1!Ascending(B)[j]
<1>0. B \in SUBSET Nat /\ IsFiniteSet(B)
  BY LandingFacts, FS_Subset
<1>1. \A s \in [1 .. Cardinality(B) -> B] :
        (\A i, j \in DOMAIN s : i < j => s[i] < s[j]) <=> s \in Enumerations(B, Cardinality(B))
  BY DEF Enumerations
<1>2. \E s \in [1 .. Cardinality(B) -> B] : s \in Enumerations(B, Cardinality(B))
  BY <1>0, EnumerationExists DEF Enumerations
<1>3. FA1!Ascending(B) \in Enumerations(B, Cardinality(B))
  BY <1>1, <1>2, LandingFacts DEF FA1!Ascending
<1> QED BY <1>0, <1>3, EnumerationLists

-----------------------------------------------------------------------------
(* Counting: fa1_assign gives the n-th missing rank the n-th free slot *)

\* A set of m naturals has an n-th smallest, for every n up to m.
LEMMA NthExists ==
    ASSUME NEW S \in SUBSET Nat, IsFiniteSet(S), NEW n \in Nat \ {0}, n <= Cardinality(S)
    PROVE  /\ FA1!Nth(S, n) \in S
           /\ Cardinality({t \in S : t < FA1!Nth(S, n)}) = n - 1
<1>1. PICK s \in Enumerations(S, Cardinality(S)) : TRUE
  BY EnumerationExists
<1>2. /\ s \in Seq(S) /\ Len(s) = Cardinality(S) /\ Len(s) \in Nat
      /\ \A b \in S : \E i \in 1 .. Len(s) : s[i] = b
      /\ \A i, j \in 1 .. Len(s) : i < j => s[i] < s[j]
  BY EnumerationLists, FS_CardinalityType
<1>3. n \in 1 .. Len(s) /\ s[n] \in S
  BY <1>2
<1> DEFINE Below == {t \in S : t < s[n]}
           f == [i \in 1 .. n - 1 |-> s[i]]
<1>4. \A i \in 1 .. Len(s) : s[i] \in Nat
  <2>1. \A i \in 1 .. Len(s) : s[i] \in S
    BY <1>2
  <2> QED BY <2>1
<1>5. \A i \in 1 .. Len(s) : s[i] < s[n] <=> i < n
  <2> SUFFICES ASSUME NEW i \in 1 .. Len(s) PROVE s[i] < s[n] <=> i < n
    OBVIOUS
  <2>1. i < n => s[i] < s[n]
    BY <1>2, <1>3
  <2>2. n < i => s[n] < s[i]
    BY <1>2, <1>3
  <2>3. i \in Nat /\ s[i] \in Nat /\ s[n] \in Nat
    BY <1>3, <1>4
  <2> QED BY <2>1, <2>2, <2>3
<1>6. f \in Bijection(1 .. n - 1, Below)
  <2>1. \A i \in 1 .. n - 1 : i \in 1 .. Len(s) /\ i < n
    BY <1>2, <1>3
  <2>2. f \in [1 .. n - 1 -> Below]
    BY <2>1, <1>2, <1>5
  <2>3. ASSUME NEW i \in 1 .. n - 1, NEW j \in 1 .. n - 1, f[i] = f[j] PROVE i = j
    <3>1. s[i] = s[j] /\ s[i] \in Nat
      BY <2>1, <2>3, <1>4
    <3>2. ~ (i < j) /\ ~ (j < i)
      BY <2>1, <3>1, <1>2
    <3> QED BY <3>2
  <2>4. ASSUME NEW b \in Below PROVE \E i \in 1 .. n - 1 : f[i] = b
    <3>1. PICK i \in 1 .. Len(s) : s[i] = b
      BY <1>2
    <3>2. i \in 1 .. n - 1
      BY <3>1, <1>5
    <3> QED BY <3>1, <3>2
  <2> HIDE DEF f, Below
  <2> QED BY <2>2, <2>3, <2>4 DEF Bijection, Injection, Surjection, IsInjective
<1>7. Cardinality(Below) = n - 1
  <2>1. n - 1 \in Nat
    OBVIOUS
  <2> HIDE DEF f, Below
  <2> QED BY <2>1, <1>6, FS_CountingElements DEF ExistsBijection
<1>8. \A x : FA1!Cardinality(x) = Cardinality(x)
  BY LandingFacts
<1> QED BY <1>3, <1>7, <1>8 DEF FA1!Nth

\* The number of elements up to j grows with j.
LEMMA CountUpTo ==
    ASSUME NEW M \in SUBSET Nat, IsFiniteSet(M), NEW i \in M, NEW j \in M, i < j
    PROVE  /\ Cardinality({k \in M : k <= i}) \in Nat \ {0}
           /\ Cardinality({k \in M : k <= j}) \in Nat \ {0}
           /\ Cardinality({k \in M : k <= i}) # Cardinality({k \in M : k <= j})
<1> DEFINE A == {k \in M : k <= i}
           B == {k \in M : k <= j}
<1>1. A \in SUBSET M /\ B \in SUBSET M
  OBVIOUS
<1>2. A \in SUBSET B /\ j \in B /\ j \notin A /\ i \in A
  <2>1. i \in Nat /\ j \in Nat /\ \A k \in M : k \in Nat
    OBVIOUS
  <2>2. j \in B /\ i \in A
    BY <2>1
  <2>3. j \notin A
    BY <2>1
  <2>4. \A k \in M : k <= i => k <= j
    BY <2>1
  <2> QED BY <2>2, <2>3, <2>4
<1> HIDE DEF A, B
<1>3. IsFiniteSet(A) /\ IsFiniteSet(B)
  BY <1>1, FS_Subset
<1>4. Cardinality(A) \in Nat /\ Cardinality(B) \in Nat
  BY <1>3, FS_CardinalityType
<1>5. Cardinality(A) # 0 /\ Cardinality(B) # 0
  BY <1>2, <1>3, FS_EmptySet
<1>6. Cardinality(B) # Cardinality(A)
  BY <1>2, <1>3, FS_Subset
<1> QED BY <1>4, <1>5, <1>6 DEF A, B

\* A member of a finite set of numbers has a positive rank in it.
LEMMA CountPositive ==
    ASSUME NEW M \in SUBSET Nat, IsFiniteSet(M), NEW i \in M
    PROVE  Cardinality({k \in M : k <= i}) \in Nat \ {0}
<1> DEFINE A == {k \in M : k <= i}
<1>1. A \in SUBSET M /\ i \in A
  OBVIOUS
<1> HIDE DEF A
<1>2. IsFiniteSet(A) /\ Cardinality(A) \in Nat
  BY <1>1, FS_Subset, FS_CardinalityType
<1>3. Cardinality(A) # 0
  BY <1>1, <1>2, FS_EmptySet
<1> QED BY <1>2, <1>3 DEF A

\* Claims are free slots, one each.
LEMMA Claims ==
    ASSUME NEW l, NEW i \in FA1!Missing(l), NEW j \in FA1!Missing(l),
           FA1!Missing(l) \in SUBSET FRanks
    PROVE  /\ FA1!Claim(l, i) \in FA1!Free(l) \cup {-1}
           /\ FA1!Claim(l, i) = FA1!Claim(l, j) /\ FA1!Claim(l, i) # -1 => i = j
<1> DEFINE M == FA1!Missing(l)
           F == FA1!Free(l)
           n(k) == Cardinality({x \in M : x <= k})
<1>0. /\ FRanks \in SUBSET Nat /\ IsFiniteSet(FRanks)
      /\ M \in SUBSET FRanks /\ F \in SUBSET FRanks
  <2>1. F \in SUBSET FRanks
    BY LandingFacts DEF FA1!Free
  <2>2. FRanks \in SUBSET FBlocks /\ IsFiniteSet(FBlocks) /\ FBlocks \in SUBSET Nat
    BY LandingFacts
  <2> HIDE DEF M, F
  <2>3. IsFiniteSet(FRanks)
    BY <2>2, FS_Subset
  <2> QED BY <2>1, <2>2, <2>3 DEF M, F
<1>1. IsFiniteSet(M) /\ IsFiniteSet(F) /\ Cardinality(F) \in Nat
  <2> HIDE DEF M, F
  <2> QED BY <1>0, FS_Subset, FS_CardinalityType
<1>2. \A k : FA1!Claim(l, k) = IF n(k) > Cardinality(F) THEN -1 ELSE FA1!Nth(F, n(k))
  BY LandingFacts DEF FA1!Claim
<1>a. i \in M /\ j \in M
  OBVIOUS
<1> HIDE DEF M, F
<1>3. n(i) \in Nat \ {0} /\ n(j) \in Nat \ {0}
  BY <1>0, <1>1, <1>a, CountPositive
<1>4. i # j => n(i) # n(j)
  <2>0. i \in Nat /\ j \in Nat /\ M \in SUBSET Nat
    BY <1>0, <1>a
  <2>1. CASE i < j
    BY <2>0, <2>1, <1>1, <1>a, CountUpTo
  <2>2. CASE j < i
    BY <2>0, <2>2, <1>1, <1>a, CountUpTo
  <2> QED BY <2>0, <2>1, <2>2
<1> HIDE DEF n
<1>5. ASSUME NEW k \in {i, j}, ~ (n(k) > Cardinality(F))
      PROVE  /\ FA1!Nth(F, n(k)) \in F
             /\ Cardinality({t \in F : t < FA1!Nth(F, n(k))}) = n(k) - 1
  <2>1. n(k) \in Nat \ {0} /\ n(k) <= Cardinality(F) /\ F \in SUBSET Nat
    BY <1>0, <1>1, <1>3, <1>5
  <2> QED BY <2>1, <1>1, NthExists
<1>6. FA1!Claim(l, i) \in F \cup {-1}
  BY <1>2, <1>5
<1>7. ASSUME FA1!Claim(l, i) = FA1!Claim(l, j), FA1!Claim(l, i) # -1 PROVE i = j
  <2>1. ~ (n(i) > Cardinality(F)) /\ ~ (n(j) > Cardinality(F))
    BY <1>2, <1>7
  <2>2. FA1!Nth(F, n(i)) = FA1!Nth(F, n(j))
    BY <2>1, <1>2, <1>7
  <2>3. n(i) - 1 = n(j) - 1
    BY <2>1, <2>2, <1>5
  <2> QED BY <2>3, <1>3, <1>4
<1> QED BY <1>6, <1>7 DEF F

-----------------------------------------------------------------------------
(* The inductive invariant of the fetch-all arm; head and selection *)

Sides == {"idle", "forked", "assigning", "copying", "done"}

LandTypes ==
  /\ tells \in {"epoch", "tagged"} /\ deep \in BOOLEAN /\ clock \in Nat \ {0}
  /\ ver \in [FBlocks -> Nat] /\ gen \in [FBlocks -> Nat] /\ pinned \in [FBlocks -> Int]
  /\ staged \subseteq FBlocks /\ valid \subseteq FBlocks
  /\ at \in {"head", "select", "decode"} /\ layer \in FLayers /\ rank \in Nat \ {0}
  /\ side \in [FLayers -> Sides]
  /\ slotOf \in [FLayers -> [FRanks -> FRanks \cup {-1}]]
  /\ land \in [FLayers -> [FRanks -> Int \X Int]]
  /\ flag \in [FLayers -> [FRanks -> Int \X Int]]

\* Page tables are ascending.
PageTables ==
  /\ sel \in [FLayers -> Seq(FBlocks)]
  /\ \A l \in FLayers : \A i, j \in 1 .. Len(sel[l]) : i < j => sel[l][i] < sel[l][j]

\* A pinned copy that may be read is of this step, a page that is not staged
\* has one, and the last page, while incomplete, is staged.
Pinned ==
  /\ gen = ver
  /\ \A b \in valid : pinned[b] = ver[b]
  /\ \A b \in FBlocks : b \in staged \/ b \in valid
  /\ tail \in staged \cup {-1}

\* A fetch runs only when the ones before it on its stream are done; what the
\* main stream has reached is forked, what it has not is idle, and a step ends
\* with every fetch done.
Joined ==
  /\ \A l, k \in FLayers : side[l] \in {"assigning", "copying", "done"} /\ k < l
                            /\ FA1!StreamOf(k) = FA1!StreamOf(l) => side[k] \in {"idle", "done"}
  /\ at = "select" => \A l \in FLayers : side[l] = "idle" <=> l >= layer
  /\ at = "decode" => \A l \in FLayers : side[l] = "idle" <=> l > layer
  /\ at = "head" => \A l \in FLayers : side[l] \in {"idle", "done"}

\* The copies a fetch still has to finish.
Copies(l) == todo[l] \cup (IF side[l] = "copying" THEN busy[l] ELSE {})

Copying ==
  /\ DOMAIN todo = FLayers /\ DOMAIN busy = FLayers
  /\ \A l \in FLayers : side[l] \notin {"assigning", "copying"} => todo[l] = {} /\ busy[l] = {}
  /\ \A l \in FLayers : side[l] = "assigning" =>
       tells = "tagged" /\ \A e \in busy[l] : e[1] \in FRanks /\ e[2] \in FRanks \cup {-1}
  /\ \A l \in FLayers : side[l] = "copying" => todo[l] \cap busy[l] = {}
  /\ \A l \in FLayers : \A e \in Copies(l) :
       e[1] \in FRanks /\ e[2] \in valid /\ e = <<e[1], e[2]>>

\* Epoch flags: none is of a fetch that has not begun, and the slots that carry
\* the current layer's are complete.
OfEpoch ==
  tells = "epoch" =>
    /\ \A f \in FLayers, s \in FRanks :
         \/ flag[f][s][1] < clock * L
         \/ \E l \in FLayers : flag[f][s] = <<clock * L + l, -1>> /\ side[l] \in {"copying", "done"}
    /\ \A l \in FLayers : \A e \in Copies(l) : e[1] <= Len(sel[l]) /\ e[2] = sel[l][e[1]]
    /\ at = "decode" =>
         \A s \in FRanks :
           flag[FA1!Buf(layer)][s] = <<clock * L + layer, -1>> =>
             /\ s <= Len(sel[layer])
             /\ land[FA1!Buf(layer)][s] = <<sel[layer][s], ver[sel[layer][s]]>>
             /\ \A e \in Copies(layer) : e[1] # s

\* Tags: a slot that carries one and is not being overwritten has the bytes it
\* tells of; no two slots carry the same; and a fetch overwrites no slot the
\* layer wants, nor publishes a tag that is there.
OfTag ==
  tells = "tagged" =>
    /\ \A l \in FLayers, s \in FRanks :
         \/ flag[l][s] = <<-1, -1>>
         \/ side[l] = "copying" /\ \E e \in busy[l] : e[1] = s
         \/ land[l][s] = <<flag[l][s][2], flag[l][s][1]>>
    /\ \A l \in FLayers, s, t \in FRanks :
         flag[l][s] = flag[l][t] /\ flag[l][s] # <<-1, -1>> => s = t
    /\ \A l \in FLayers : \A e \in Copies(l) :
         /\ \A d \in Copies(l) : d # e => d[1] # e[1] /\ d[2] # e[2]
         /\ \A s \in FRanks : flag[l][s] # <<ver[e[2]], e[2]>>
         /\ \A j \in 1 .. Len(sel[l]) :
              j <= Lcap /\ sel[l][j] # tail /\ sel[l][j] \in valid =>
                flag[l][e[1]] # <<ver[sel[l][j]], sel[l][j]>>

\* What the decode program has read of the current page.
InRead ==
  /\ read[1] \in {"start", "slot", "land"}
  /\ read[1] # "start" => /\ at = "decode" /\ rank <= Len(sel[layer])
                          /\ sel[layer][rank] \notin staged
  /\ read[1] = "slot" /\ read[2] # -1 =>
       read[2] \in FRanks /\ rank <= Lcap /\ (tells = "epoch" => read[2] = rank)
  /\ read[1] = "land" =>
       /\ read[2] \in FRanks /\ rank <= Lcap /\ (tells = "epoch" => read[2] = rank)
       /\ flag[FA1!Buf(layer)][read[2]] = FA1!Flag(layer, sel[layer][rank])

LandInv == LandTypes /\ PageTables /\ Pinned /\ Joined /\ Copying /\ OfEpoch /\ OfTag /\ InRead

\* A freshly started (or warm) fetch-all arm is in the invariant.
LEMMA LandInit == FA1!Init => LandInv
<1> SUFFICES ASSUME FA1!Init PROVE LandInv
  OBVIOUS
<1> USE LandingFacts
<1>1. PICK warm \in BOOLEAN :
       /\ warm => tells = "tagged"
       /\ slotOf = [l \in FLayers |-> [j \in FRanks |-> IF warm THEN j ELSE -1]]
       /\ land = [f \in FLayers |-> [s \in FRanks |-> IF warm THEN <<s, 0>> ELSE <<-1, -1>>]]
       /\ flag = [f \in FLayers |-> [s \in FRanks |-> IF warm THEN <<0, s>> ELSE <<-1, -1>>]]
  BY DEF FA1!Init
<1>2. /\ tells \in {"epoch", "tagged"} /\ deep \in BOOLEAN /\ clock = 1
      /\ ver = [b \in FBlocks |-> 0] /\ gen = [b \in FBlocks |-> 0]
      /\ staged = {} /\ valid = FBlocks /\ tail = -1 /\ pinned = [b \in FBlocks |-> 0]
      /\ layer = 0 /\ at = "head"
      /\ sel = [l \in FLayers |-> <<>>] /\ rank = 1 /\ read = <<"start">>
      /\ side = [l \in FLayers |-> "idle"]
      /\ todo = [l \in FLayers |-> {}] /\ busy = [l \in FLayers |-> {}]
  BY DEF FA1!Init, FBlocks
<1>3. LandTypes
  <2>1. 0 \in FLayers
    BY DEF FLayers
  <2>2. /\ slotOf \in [FLayers -> [FRanks -> FRanks \cup {-1}]]
        /\ land \in [FLayers -> [FRanks -> Int \X Int]]
        /\ flag \in [FLayers -> [FRanks -> Int \X Int]]
    BY <1>1
  <2>3. side \in [FLayers -> Sides]
    BY <1>2 DEF Sides
  <2> QED BY <1>2, <2>1, <2>2, <2>3 DEF LandTypes
<1>4. PageTables
  <2>1. <<>> \in Seq(FBlocks) /\ Len(<<>>) = 0
    OBVIOUS
  <2> QED BY <1>2, <2>1 DEF PageTables
<1>5. Pinned /\ Joined
  BY <1>2 DEF Pinned, Joined
<1>6. \A l \in FLayers : Copies(l) = {}
  BY <1>2 DEF Copies
<1>7. Copying
  BY <1>2, <1>6 DEF Copying
<1>8. OfEpoch
  <2>1. \A f \in FLayers, s \in FRanks : tells = "epoch" => flag[f][s][1] = -1
    BY <1>1
  <2>2. clock * L = L
    BY <1>2
  <2> QED BY <2>1, <2>2, <1>2, <1>6 DEF OfEpoch
<1>9. OfTag
  <2>1. \A l \in FLayers, s \in FRanks :
          /\ flag[l][s] = IF warm THEN <<0, s>> ELSE <<-1, -1>>
          /\ land[l][s] = IF warm THEN <<s, 0>> ELSE <<-1, -1>>
    BY <1>1
  <2>2. \A l \in FLayers, s \in FRanks :
          flag[l][s] = <<-1, -1>> \/ land[l][s] = <<flag[l][s][2], flag[l][s][1]>>
    <3>1. CASE warm
      BY <3>1, <2>1
    <3>2. CASE ~warm
      BY <3>2, <2>1
    <3> QED BY <3>1, <3>2
  <2>3. \A l \in FLayers, s, t \in FRanks :
         flag[l][s] = flag[l][t] /\ flag[l][s] # <<-1, -1>> => s = t
    <3>1. CASE warm
      BY <3>1, <2>1
    <3>2. CASE ~warm
      BY <3>2, <2>1
    <3> QED BY <3>1, <3>2
  <2> QED BY <2>2, <2>3, <1>6 DEF OfTag
<1>10. InRead
  BY <1>2 DEF InRead
<1> QED BY <1>3, <1>4, <1>5, <1>7, <1>8, <1>9, <1>10 DEF LandInv

\* The step prologue and graph head keep it: the last step's copies are over.
LEMMA LandHead ==
    ASSUME LandInv, FA1!GraphHead
    PROVE  /\ LandInv' /\ served' = {}
           /\ \A b \in FBlocks : ver'[b] \in {ver[b], ver[b] + 1}
<1> USE LandingFacts DEF LandInv
<1>1. PICK W \in Writes, F \in SUBSET staged :
       /\ F \cap W = {}
       /\ ver' = [b \in FBlocks |-> IF b \in W THEN ver[b] + 1 ELSE ver[b]]
       /\ gen' = [b \in FBlocks |-> IF b \in W THEN gen[b] + 1 ELSE gen[b]]
       /\ valid' = (valid \ W) \cup F
       /\ staged' = (staged \cup W) \ F
       /\ pinned' = [b \in FBlocks |-> IF b \in F THEN ver[b] ELSE pinned[b]]
       /\ tail' \in W \cup {-1}
  BY DEF FA1!GraphHead, FA1!Bumped, FBlocks
<1>2. /\ at = "head" /\ clock' = clock + 1 /\ layer' = 0 /\ at' = "select" /\ served' = {}
      /\ side' = [l \in FLayers |-> "idle"] /\ sel' = [l \in FLayers |-> <<>>] /\ rank' = 1
      /\ UNCHANGED <<tells, deep, read, todo, busy, slotOf, land, flag>>
  BY DEF FA1!GraphHead
<1>3. LandTypes'
  <2>1. W \subseteq FBlocks /\ F \subseteq FBlocks /\ 0 \in FLayers
    BY DEF LandTypes, FLayers
  <2>2. ver' \in [FBlocks -> Nat] /\ gen' \in [FBlocks -> Nat] /\ pinned' \in [FBlocks -> Int]
    BY <1>1 DEF LandTypes
  <2>3. side' \in [FLayers -> Sides]
    BY <1>2 DEF Sides
  <2> QED BY <1>1, <1>2, <2>1, <2>2, <2>3 DEF LandTypes
<1>4. PageTables'
  <2>1. <<>> \in Seq(FBlocks) /\ Len(<<>>) = 0
    OBVIOUS
  <2> QED BY <1>2, <2>1 DEF PageTables
<1>5. Pinned'
  BY <1>1 DEF Pinned, LandTypes
<1>6. Joined'
  BY <1>2 DEF Joined
<1>7. \A l \in FLayers : todo[l] = {} /\ busy[l] = {} /\ side[l] \in {"idle", "done"}
  BY <1>2 DEF Copying, Joined
<1>8. \A l \in FLayers : Copies(l)' = {}
  BY <1>2, <1>7 DEF Copies
<1>9. Copying'
  BY <1>2, <1>7, <1>8 DEF Copying
<1>10. OfEpoch'
  <2>1. clock' * L = clock * L + L /\ clock * L \in Nat
    BY <1>2 DEF LandTypes
  <2>2. ASSUME tells = "epoch", NEW f \in FLayers, NEW s \in FRanks
        PROVE  flag[f][s][1] < clock' * L
    <3>1. CASE flag[f][s][1] < clock * L
      <4>1. flag[f][s] \in Int \X Int
        BY DEF LandTypes
      <4> QED BY <2>1, <3>1, <4>1
    <3>2. CASE \E l \in FLayers : flag[f][s] = <<clock * L + l, -1>>
      <4>1. PICK l \in FLayers : flag[f][s] = <<clock * L + l, -1>>
        BY <3>2
      <4>2. l \in Nat /\ l < L
        BY DEF FLayers
      <4> QED BY <2>1, <4>1, <4>2
    <3> QED BY <2>2, <3>1, <3>2 DEF OfEpoch
  <2> QED BY <1>2, <1>8, <2>2 DEF OfEpoch
<1>11. OfTag'
  BY <1>2, <1>7, <1>8 DEF OfTag
<1>12. InRead'
  BY <1>2 DEF InRead
<1>13. \A b \in FBlocks : ver'[b] \in {ver[b], ver[b] + 1}
  BY <1>1
<1> QED BY <1>2, <1>3, <1>4, <1>5, <1>6, <1>9, <1>10, <1>11, <1>12, <1>13

\* Selecting a layer's pages and forking its fetch keeps it.
LEMMA LandSelect ==
    ASSUME LandInv, FA1!Select
    PROVE  LandInv' /\ UNCHANGED <<ver, served>>
<1> USE LandingFacts DEF LandInv
<1>1. PICK B \in Picks["fa1"] : sel' = [sel EXCEPT ![layer] = FA1!Ascending(B)]
  BY DEF FA1!Select
<1>2. /\ at = "select" /\ rank' = 1 /\ read' = <<"start">>
      /\ side' = [side EXCEPT ![layer] = "forked"] /\ at' = "decode"
      /\ UNCHANGED <<tells, deep, clock, ver, gen, staged, valid, pinned, tail, layer, todo, busy,
                     slotOf, land, flag, served>>
  BY DEF FA1!Select, FA1!main
<1>3. /\ FA1!Ascending(B) \in Seq(FBlocks)
      /\ \A i, j \in 1 .. Len(FA1!Ascending(B)) : i < j => FA1!Ascending(B)[i] < FA1!Ascending(B)[j]
  <2>1. B \in SUBSET FBlocks
    OBVIOUS
  <2>2. FA1!Ascending(B) \in Seq(B)
    BY <2>1, AscendingFA1
  <2>3. FA1!Ascending(B) \in Seq(FBlocks)
    BY <2>1, <2>2
  <2> QED BY <2>1, <2>3, AscendingFA1
<1>4. layer \in FLayers /\ \A l \in FLayers : side'[l] = IF l = layer THEN "forked" ELSE side[l]
  BY <1>2 DEF LandTypes
<1>5. LandTypes'
  <2>1. side' \in [FLayers -> Sides]
    BY <1>2 DEF LandTypes, Sides
  <2> QED BY <1>2, <2>1 DEF LandTypes
<1>6. PageTables'
  <2>1. \A l \in FLayers : sel'[l] = IF l = layer THEN FA1!Ascending(B) ELSE sel[l]
    BY <1>1, <1>4 DEF PageTables
  <2>2. sel' \in [FLayers -> Seq(FBlocks)]
    BY <1>1, <1>3 DEF PageTables
  <2> QED BY <2>1, <2>2, <1>3 DEF PageTables
<1>7. Pinned'
  BY <1>2 DEF Pinned
<1>8. side[layer] = "idle" /\ todo[layer] = {} /\ busy[layer] = {}
  BY <1>2, <1>4 DEF Joined, Copying, FLayers
<1>9. Joined'
  <2>0. \A l \in FLayers : l \in Nat
    OBVIOUS
  <2>1. \A l \in FLayers : l > layer => side[l] = "idle"
    BY <1>2, <1>4, <2>0 DEF Joined
  <2>2. \A l, k \in FLayers : side'[l] \in {"assigning", "copying", "done"} /\ k < l
                            /\ FA1!StreamOf(k)' = FA1!StreamOf(l)' => side'[k] \in {"idle", "done"}
    <3> SUFFICES ASSUME NEW l \in FLayers, NEW k \in FLayers,
                        side'[l] \in {"assigning", "copying", "done"}, k < l,
                        FA1!StreamOf(k)' = FA1!StreamOf(l)'
                 PROVE  side'[k] \in {"idle", "done"}
      OBVIOUS
    <3>1. l # layer /\ side[l] = side'[l]
      BY <1>4
    <3>2. k # layer
      BY <2>1, <3>1
    <3>3. FA1!StreamOf(k) = FA1!StreamOf(l)
      BY <1>2 DEF FA1!StreamOf
    <3> QED BY <3>1, <3>2, <3>3, <1>4 DEF Joined
  <2>3. \A l \in FLayers : side'[l] = "idle" <=> l > layer
    BY <1>2, <1>4, <2>0 DEF Joined
  <2> QED BY <1>2, <2>2, <2>3 DEF Joined
<1>10. \A l \in FLayers : Copies(l)' = Copies(l) /\ Copies(layer) = {}
  BY <1>2, <1>4, <1>8 DEF Copies
<1>11. \A l \in FLayers : l # layer => sel'[l] = sel[l]
  BY <1>1 DEF PageTables
<1>12. Copying'
  BY <1>2, <1>4, <1>8, <1>10 DEF Copying
<1>13. OfEpoch'
  <2> SUFFICES ASSUME tells = "epoch" PROVE OfEpoch'
    BY <1>2 DEF OfEpoch
  <2>1. \A f \in FLayers, s \in FRanks :
         \/ flag[f][s][1] < clock * L
         \/ \E l \in FLayers : flag[f][s] = <<clock * L + l, -1>> /\ side'[l] \in {"copying", "done"}
    BY <1>4, <1>8 DEF OfEpoch
  <2>2. ASSUME NEW s \in FRanks, flag[FA1!Buf(layer)][s] = <<clock * L + layer, -1>> PROVE FALSE
    <3>0. FA1!Buf(layer) \in FLayers
      BY <1>4
    <3>1. clock * L \in Nat
      BY DEF LandTypes
    <3>2. CASE flag[FA1!Buf(layer)][s][1] < clock * L
      BY <2>2, <3>1, <3>2, <1>4
    <3>3. CASE \E l \in FLayers : flag[FA1!Buf(layer)][s] = <<clock * L + l, -1>>
                                  /\ side[l] \in {"copying", "done"}
      <4>1. PICK l \in FLayers : flag[FA1!Buf(layer)][s] = <<clock * L + l, -1>>
                                  /\ side[l] \in {"copying", "done"}
        BY <3>3
      <4>2. clock * L + l = clock * L + layer
        BY <4>1, <2>2
      <4>3. l = layer
        BY <4>2, <3>1, <1>4
      <4> QED BY <4>1, <4>3, <1>8
    <3> QED BY <3>0, <3>2, <3>3 DEF OfEpoch
  <2>3. \A l \in FLayers : \A e \in Copies(l)' : e[1] <= Len(sel'[l]) /\ e[2] = sel'[l][e[1]]
    BY <1>10, <1>11 DEF OfEpoch
  <2>4. FA1!Buf(layer)' = FA1!Buf(layer)
    BY <1>2 DEF FA1!Buf
  <2>5. UNCHANGED <<flag, clock, layer, tells>>
    BY <1>2
  <2>6. \A s \in FRanks : flag'[FA1!Buf(layer)'][s] # <<clock' * L + layer', -1>>
    BY ONLY <2>2, <2>4, <2>5
  <2>7. \A f \in FLayers, s \in FRanks :
         \/ flag'[f][s][1] < clock' * L
         \/ \E l \in FLayers : flag'[f][s] = <<clock' * L + l, -1>> /\ side'[l] \in {"copying", "done"}
    BY ONLY <2>1, <2>5
  <2> QED BY ONLY <2>3, <2>6, <2>7 DEF OfEpoch
<1>14. OfTag'
  <2>1. \A l \in FLayers : \A e \in Copies(l) : sel'[l] = sel[l]
    BY <1>10, <1>11
  <2> QED BY <1>2, <1>4, <1>8, <1>10, <2>1 DEF OfTag
<1>15. InRead'
  BY <1>2 DEF InRead
<1> QED BY <1>2, <1>5, <1>6, <1>7, <1>9, <1>12, <1>13, <1>14, <1>15

-----------------------------------------------------------------------------
(* The racing decode and the join *)

\* What an action that only reads, or moves the main stream, keeps.
Still == UNCHANGED <<tells, deep, clock, ver, gen, staged, valid, pinned, tail, sel, side, todo,
                     busy, slotOf, land, flag>>

\* Most of it depends only on what the decode does not write.
LEMMA LandStill ==
    ASSUME LandInv, Still
    PROVE  PageTables' /\ Pinned' /\ Copying' /\ OfTag'
           /\ (UNCHANGED layer /\ at' = "decode" => OfEpoch' \/ at # "decode")
           /\ (at' # "decode" => OfEpoch')
<1> USE DEF LandInv, Still
<1>1. \A l : Copies(l)' = Copies(l)
  BY DEF Copies
<1>2. PageTables' /\ Pinned'
  BY DEF PageTables, Pinned
<1>3. Copying'
  BY <1>1 DEF Copying
<1>4. OfTag'
  BY <1>1 DEF OfTag
<1>5. FA1!Buf(layer') = FA1!Buf(layer') /\ \A l : FA1!Buf(l)' = FA1!Buf(l')
  BY DEF FA1!Buf
<1>6. ASSUME UNCHANGED layer, at' = "decode", at = "decode" PROVE OfEpoch'
  BY <1>1, <1>6 DEF OfEpoch, FA1!Buf
<1>7. ASSUME at' # "decode" PROVE OfEpoch'
  BY <1>1, <1>7 DEF OfEpoch
<1> QED BY <1>2, <1>3, <1>4, <1>6, <1>7

\* A read of the page the program is at: every case reads the page's present bytes.
LEMMA LandRead ==
    ASSUME LandInv, FA1!Read
    PROVE  /\ LandInv' /\ ver' = ver
           /\ \/ served' = served
              \/ \E l \in FLayers, b \in FBlocks : served' = served \cup {<<l, b, ver[b]>>}
<1> USE LandingFacts DEF LandInv
<1> DEFINE p == sel[layer][rank]
<1>1. /\ at = "decode" /\ rank <= Len(sel[layer]) /\ Still /\ UNCHANGED <<at, layer>>
  BY DEF FA1!Read, FA1!ReadStaged, FA1!ReadSlot, FA1!ReadFlag, FA1!ReadLanding, FA1!Reading, FA1!main, Still
<1>2. layer \in FLayers /\ rank \in Nat \ {0} /\ p \in FBlocks
  BY <1>1 DEF LandTypes, PageTables
<1>3. PageTables' /\ Pinned' /\ Copying' /\ OfTag' /\ OfEpoch'
  BY <1>1, LandStill
<1>4. Joined'
  BY <1>1 DEF Joined, Still, FA1!StreamOf
<1>5. ASSUME rank' \in Nat \ {0} PROVE LandTypes'
  BY <1>1, <1>5 DEF LandTypes, Still
<1>6. p \notin staged => p \in valid /\ pinned[p] = ver[p] /\ p # tail
  BY <1>2 DEF Pinned
<1> HIDE DEF p
<1>12. ASSUME served' = served \cup {<<layer, p, ver[p]>>}, rank' = rank + 1, read' = <<"start">>
       PROVE  /\ LandInv' /\ ver' = ver
              /\ \E l \in FLayers, b \in FBlocks : served' = served \cup {<<l, b, ver[b]>>}
  <2>1. InRead'
    BY <1>12 DEF InRead
  <2>2. LandTypes'
    <3>1. rank' \in Nat \ {0}
      BY <1>2, <1>12
    <3> QED BY <3>1, <1>5
  <2>3. \E l \in FLayers, b \in FBlocks : served' = served \cup {<<l, b, ver[b]>>}
    BY <1>2, <1>12
  <2> QED BY <1>1, <1>3, <1>4, <2>1, <2>2, <2>3 DEF Still
<1>7. CASE FA1!ReadStaged
  <2>1. FA1!Got(p, <<p, ver[p]>>) = <<layer, p, ver[p]>>
    BY DEF FA1!Got
  <2>2. served' = served \cup {<<layer, p, ver[p]>>} /\ rank' = rank + 1 /\ read' = <<"start">>
    BY <1>7, <2>1 DEF FA1!ReadStaged, FA1!Page, FA1!NextRank, p
  <2> QED BY <1>12, <2>2
<1>8. CASE FA1!ReadSlot
  <2>1. /\ p \notin staged /\ UNCHANGED <<rank, served>>
        /\ read' = <<"slot", IF rank > Lcap THEN -1 ELSE IF tells = "epoch" THEN rank
                             ELSE slotOf[layer][rank]>>
    BY <1>8 DEF FA1!ReadSlot, FA1!Page, p
  <2>2. ASSUME rank <= Lcap PROVE rank \in FRanks /\ slotOf[layer][rank] \in FRanks \cup {-1}
    <3>1. rank \in FRanks
      BY <1>2, <2>2 DEF FRanks
    <3>2. slotOf[layer] \in [FRanks -> FRanks \cup {-1}]
      BY <1>2 DEF LandTypes
    <3> QED BY <3>1, <3>2
  <2>3. InRead'
    BY <1>1, <1>2, <2>1, <2>2 DEF InRead, Still, p
  <2> QED BY <1>1, <1>2, <1>3, <1>4, <1>5, <2>1, <2>3 DEF Still
<1>9. CASE FA1!ReadFlag
  <2>1. read[1] = "slot" /\ p \notin staged
    BY <1>9 DEF FA1!ReadFlag, InRead, p
  <2>2. CASE FA1!Landed(read[2])
    <3>1. read' = <<"land", read[2]>> /\ UNCHANGED <<rank, served>>
      BY <1>9, <2>2 DEF FA1!ReadFlag
    <3>2. read[2] # -1 /\ flag[FA1!Buf(layer)][read[2]] = FA1!Flag(layer, p)
      BY <2>2 DEF FA1!Landed, FA1!Page, p
    <3>3. read[2] \in FRanks /\ rank <= Lcap /\ (tells = "epoch" => read[2] = rank)
      BY <2>1, <3>2 DEF InRead
    <3>4. FA1!Buf(layer)' = FA1!Buf(layer) /\ FA1!Flag(layer, p)' = FA1!Flag(layer, p)
      BY <1>1, <3>1 DEF FA1!Buf, FA1!Flag, FA1!Epoch, FA1!Want, Still, p
    <3>5. InRead'
      BY <1>1, <2>1, <3>1, <3>2, <3>3, <3>4 DEF InRead, Still, p
    <3> QED BY <1>1, <1>2, <1>3, <1>4, <1>5, <3>1, <3>5 DEF Still
  <2>3. CASE ~FA1!Landed(read[2])
    <3>1. FA1!Got(p, <<p, pinned[p]>>) = <<layer, p, ver[p]>>
      BY <1>6, <2>1 DEF FA1!Got
    <3>2. served' = served \cup {<<layer, p, ver[p]>>} /\ rank' = rank + 1 /\ read' = <<"start">>
      BY <1>9, <2>3, <3>1 DEF FA1!ReadFlag, FA1!Page, FA1!NextRank, p
    <3> QED BY <1>12, <3>2
  <2> QED BY <2>2, <2>3
<1>10. CASE FA1!ReadLanding
  <2>1. read[1] = "land"
    BY <1>10 DEF FA1!ReadLanding
  <2>2. /\ p \notin staged /\ read[2] \in FRanks /\ rank <= Lcap /\ (tells = "epoch" => read[2] = rank)
        /\ flag[FA1!Buf(layer)][read[2]] = FA1!Flag(layer, p)
    BY <2>1 DEF InRead, p
  <2>3. land[FA1!Buf(layer)][read[2]] = <<p, ver[p]>>
    <3>1. CASE tells = "epoch"
      <4>1. FA1!Flag(layer, p) = <<clock * L + layer, -1>>
        BY <3>1 DEF FA1!Flag, FA1!Epoch
      <4> QED BY <1>1, <2>2, <3>1, <4>1 DEF OfEpoch, p
    <3>2. CASE tells = "tagged"
      <4>1. FA1!Flag(layer, p) = <<ver[p], p>> /\ FA1!Buf(layer) = layer
        BY <3>2 DEF FA1!Flag, FA1!Want, Pinned, FA1!Buf
      <4>2. flag[layer][read[2]] = <<ver[p], p>> /\ p # -1
        BY <4>1, <2>2, <1>2
      <4>3. ASSUME side[layer] = "copying", NEW e \in busy[layer], e[1] = read[2] PROVE FALSE
        <5>1. e \in Copies(layer)
          BY <4>3 DEF Copies
        <5>2. rank \in 1 .. Len(sel[layer]) /\ p # tail /\ p \in valid
          <6>1. Len(sel[layer]) \in Nat
            BY <1>2 DEF PageTables
          <6> QED BY <6>1, <1>1, <1>2, <1>6, <2>2
        <5> QED BY <1>2, <2>2, <3>2, <4>2, <4>3, <5>1, <5>2 DEF OfTag, p
      <4>4. land[layer][read[2]] = <<flag[layer][read[2]][2], flag[layer][read[2]][1]>>
        <5>1. flag[layer][read[2]] # <<-1, -1>>
          BY <4>2
        <5> QED BY <1>2, <2>2, <3>2, <4>3, <5>1 DEF OfTag
      <4> QED BY <4>1, <4>2, <4>4
    <3> QED BY <3>1, <3>2 DEF LandTypes
  <2>4. FA1!Got(p, land[FA1!Buf(layer)][read[2]]) = <<layer, p, ver[p]>>
    BY <2>3 DEF FA1!Got
  <2>5. served' = served \cup {<<layer, p, ver[p]>>} /\ rank' = rank + 1 /\ read' = <<"start">>
    BY <1>10, <2>4 DEF FA1!ReadLanding, FA1!Page, FA1!NextRank, p
  <2> QED BY <1>12, <2>5
<1> QED BY <1>7, <1>8, <1>9, <1>10 DEF FA1!Read

\* A layer's stream is that of the layer Streams before it.
LEMMA SameStream ==
    ASSUME NEW k \in Nat, NEW S \in Nat \ {0}
    PROVE  (k + S) % S = k % S
<1> DEFINE q == k \div S
           r == k % S
           q2 == (k + S) \div S
           r2 == (k + S) % S
<1>1. k = q * S + r /\ r \in 0 .. S - 1 /\ q \in Int
  OBVIOUS
<1>2. k + S = q2 * S + r2 /\ r2 \in 0 .. S - 1 /\ q2 \in Int
  OBVIOUS
<1> HIDE DEF q, r, q2, r2
<1>3. r \in Int /\ r2 \in Int /\ 0 <= r /\ r < S /\ 0 <= r2 /\ r2 < S
  BY <1>1, <1>2
<1>4. (q + 1 - q2) * S = r2 - r
  <2>1. q * S + r + S = q2 * S + r2
    BY <1>1, <1>2
  <2> QED BY <1>1, <1>2, <1>3, <2>1
<1>5. q + 1 - q2 < 1
  <2> SUFFICES ASSUME q + 1 - q2 >= 1 PROVE FALSE
    BY <1>1, <1>2
  <2>1. (q + 1 - q2) * S >= S
    BY <1>1, <1>2
  <2> QED BY <1>3, <2>1, <1>4
<1>6. q + 1 - q2 > -1
  <2> SUFFICES ASSUME q + 1 - q2 <= -1 PROVE FALSE
    BY <1>1, <1>2
  <2>1. (q + 1 - q2) * S <= -S
    BY <1>1, <1>2
  <2> QED BY <1>3, <2>1, <1>4
<1>7. r2 = r
  BY <1>1, <1>2, <1>3, <1>4, <1>5, <1>6
<1> QED BY <1>7 DEF r, r2

\* When the last layer closes, every fetch of the step is done: those the join
\* waits for are, and a stream runs its fetches in order.
LEMMA AllDone ==
    ASSUME LandInv, at = "decode", layer = L - 1, \A k \in FA1!Waits(layer) : side[k] = "done"
    PROVE  \A k \in FLayers : side[k] = "done"
<1> USE LandingFacts DEF LandInv
<1>1. layer \in FLayers /\ \A l \in FLayers : side[l] # "idle"
  BY DEF Joined, FLayers, LandTypes
<1>2. CASE tells = "epoch"
  <2>1. side[layer] = "done"
    BY <1>2 DEF FA1!Waits
  <2>2. \A k \in FLayers : FA1!StreamOf(k) = 0
    BY <1>2 DEF FA1!StreamOf
  <2>3. \A k \in FLayers : k < layer \/ k = layer
    BY DEF FLayers
  <2> QED BY <1>1, <2>1, <2>2, <2>3 DEF Joined
<1>3. CASE tells = "tagged"
  <2> SUFFICES ASSUME {k \in FLayers : side[k] # "done"} # {} PROVE FALSE
    OBVIOUS
  <2> DEFINE T == {n \in Nat : n \in FLayers /\ side[(L - 1) - n] # "done"}
  <2>1. T \in SUBSET Nat /\ T # {}
    <3>1. PICK k \in FLayers : side[k] # "done"
      OBVIOUS
    <3>2. (L - 1) - k \in FLayers /\ (L - 1) - k \in Nat /\ (L - 1) - ((L - 1) - k) = k
      BY DEF FLayers
    <3>3. (L - 1) - k \in T
      BY <3>1, <3>2
    <3> QED BY <3>3
  <2>2. PICK n \in T : \A y \in T : n <= y
    BY <2>1, Least
  <2> DEFINE k == (L - 1) - n
  <2>3. n \in Nat /\ n \in FLayers /\ k \in FLayers /\ side[k] # "done"
    BY DEF FLayers
  <2>4. \A j \in FLayers : j > k => side[j] = "done"
    <3> SUFFICES ASSUME NEW j \in FLayers, j > k, side[j] # "done" PROVE FALSE
      OBVIOUS
    <3>1. (L - 1) - j \in FLayers /\ (L - 1) - j \in Nat /\ (L - 1) - ((L - 1) - j) = j
      BY DEF FLayers
    <3>2. (L - 1) - j \in T
      BY <3>1
    <3>3. n <= (L - 1) - j
      BY <3>2, <2>2
    <3> QED BY <3>3, <2>3, <3>1
  <2> HIDE DEF k, T
  <2>5. FA1!Waits(layer) = {i \in FLayers : i >= L - Streams}
    BY <1>3 DEF FA1!Waits
  <2>6. k < L - Streams
    <3>1. ~ (k >= L - Streams)
      BY <2>3, <2>5
    <3>2. k \in Int /\ L \in Int /\ Streams \in Int
      BY <2>3
    <3> QED BY <3>1, <3>2
  <2>7. k + Streams \in FLayers /\ k + Streams > k
    BY <2>3, <2>6 DEF FLayers
  <2>8. FA1!StreamOf(k + Streams) = FA1!StreamOf(k)
    BY <1>3, <2>3, SameStream DEF FA1!StreamOf
  <2>9. side[k + Streams] = "done"
    BY <2>4, <2>7
  <2> QED BY <1>1, <2>3, <2>7, <2>8, <2>9 DEF Joined
<1> QED BY <1>2, <1>3 DEF LandTypes

\* Closing a layer keeps it: the last join of a step waits for every fetch.
LEMMA LandJoin ==
    ASSUME LandInv, FA1!Join
    PROVE  LandInv' /\ UNCHANGED <<ver, served>>
<1> USE LandingFacts DEF LandInv
<1>1. /\ at = "decode" /\ rank > Len(sel[layer])
      /\ \A l \in FA1!Waits(layer) : side[l] = "done"
      /\ IF layer = L - 1 THEN at' = "head" /\ UNCHANGED layer
                          ELSE at' = "select" /\ layer' = layer + 1
      /\ Still /\ UNCHANGED <<rank, read, served>>
  BY DEF FA1!Join, FA1!main, Still
<1>2. layer \in FLayers /\ rank \in Nat \ {0} /\ Len(sel[layer]) \in Nat
  BY DEF LandTypes, PageTables
<1>3. PageTables' /\ Pinned' /\ Copying' /\ OfTag' /\ OfEpoch'
  BY <1>1, LandStill
<1>4. LandTypes'
  <2>1. layer' \in FLayers /\ at' \in {"head", "select", "decode"}
    <3>1. CASE layer = L - 1
      BY <3>1, <1>1, <1>2
    <3>2. CASE layer # L - 1
      <4>1. layer + 1 \in FLayers
        BY <3>2, <1>2 DEF FLayers
      <4> QED BY <3>2, <4>1, <1>1
    <3> QED BY <3>1, <3>2
  <2> QED BY <1>1, <2>1 DEF LandTypes, Still
<1>5. InRead'
  <2>1. read = <<"start">> \/ read[1] = "start"
    BY <1>1, <1>2 DEF InRead
  <2> QED BY <1>1, <2>1 DEF InRead
<1>6. Joined'
  <2>1. UNCHANGED side /\ \A l : FA1!StreamOf(l)' = FA1!StreamOf(l')
    BY <1>1 DEF Still, FA1!StreamOf
  <2>2. \A l, k \in FLayers : side'[l] \in {"assigning", "copying", "done"} /\ k < l
                            /\ FA1!StreamOf(k)' = FA1!StreamOf(l)' => side'[k] \in {"idle", "done"}
    BY <1>1 DEF Still, FA1!StreamOf, Joined
  <2>3. CASE layer = L - 1
    <3>1. \A l \in FLayers : side[l] = "done"
      BY <1>1, <2>3, AllDone
    <3> QED BY <1>1, <2>1, <2>2, <2>3, <3>1 DEF Joined
  <2>4. CASE layer # L - 1
    <3>1. \A l \in FLayers : side[l] = "idle" <=> l >= layer + 1
      <4>1. \A l \in FLayers : l \in Int /\ (l > layer <=> l >= layer + 1)
        BY <1>2 DEF FLayers
      <4> QED BY <4>1, <1>1 DEF Joined
    <3> QED BY <1>1, <2>1, <2>2, <2>4, <3>1 DEF Joined
  <2> QED BY <2>3, <2>4
<1> QED BY <1>1, <1>3, <1>4, <1>5, <1>6 DEF Still

-----------------------------------------------------------------------------
(* Starting a fetch *)

\* What the side streams leave alone.
Aside == UNCHANGED <<tells, deep, clock, ver, gen, staged, valid, pinned, tail, layer, at, sel,
                     rank, read, served>>

\* Most of it depends only on what the side streams do not write.
LEMMA LandAside ==
    ASSUME LandInv, Aside
    PROVE  /\ PageTables' /\ Pinned'
           /\ \A l : FA1!Buf(l)' = FA1!Buf(l') /\ FA1!StreamOf(l)' = FA1!StreamOf(l')
           /\ UNCHANGED flag => InRead'
<1> USE DEF LandInv, Aside
<1>1. PageTables' /\ Pinned'
  BY DEF PageTables, Pinned
<1>2. \A l : FA1!Buf(l)' = FA1!Buf(l') /\ FA1!StreamOf(l)' = FA1!StreamOf(l')
  BY DEF FA1!Buf, FA1!StreamOf
<1>3. ASSUME UNCHANGED flag PROVE InRead'
  BY <1>3 DEF InRead, FA1!Buf, FA1!Flag, FA1!Epoch, FA1!Want
<1> QED BY <1>1, <1>2, <1>3

\* A fetch that begins to run, or ends.
LEMMA SideMoves ==
    ASSUME LandInv, Aside, NEW l \in FLayers, NEW v \in {"assigning", "copying", "done"},
           side' = [side EXCEPT ![l] = v],
           \/ side[l] = "forked" /\ FA1!Turn(l)
           \/ side[l] \in {"assigning", "copying"}
    PROVE  /\ side' \in [FLayers -> Sides]
           /\ \A k \in FLayers : side'[k] = IF k = l THEN v ELSE side[k]
           /\ Joined'
<1> USE LandingFacts DEF LandInv
<1>1. /\ side' \in [FLayers -> Sides]
      /\ \A k \in FLayers : side'[k] = IF k = l THEN v ELSE side[k]
  BY DEF LandTypes, Sides
<1>2. \A k \in FLayers : k < l /\ FA1!StreamOf(k) = FA1!StreamOf(l) => side[k] \in {"idle", "done"}
  BY DEF FA1!Turn, Joined
<1>3. side[l] \notin {"idle", "done"}
  OBVIOUS
<1>4. ASSUME NEW i \in FLayers, NEW k \in FLayers, side'[i] \in {"assigning", "copying", "done"},
             k < i, FA1!StreamOf(k)' = FA1!StreamOf(i)'
      PROVE  side'[k] \in {"idle", "done"}
  <2>0. FA1!StreamOf(k) = FA1!StreamOf(i)
    BY <1>4 DEF Aside, FA1!StreamOf
  <2>1. CASE i = l
    BY <2>0, <2>1, <1>1, <1>2, <1>4
  <2>2. CASE i # l
    <3>1. side[i] \in {"assigning", "copying", "done"}
      BY <2>2, <1>1, <1>4
    <3>2. side[k] \in {"idle", "done"}
      BY <3>1, <2>0, <1>4 DEF Joined
    <3> QED BY <3>2, <1>1, <1>3
  <2> QED BY <2>1, <2>2
<1>5. at # "head"
  BY <1>3 DEF Joined
<1>6. \A k \in FLayers : side'[k] = "idle" <=> side[k] = "idle"
  BY <1>1, <1>3
<1> QED BY <1>1, <1>4, <1>5, <1>6 DEF Joined, Aside, LandTypes

\* Starting an epoch fetch keeps it.
LEMMA LandFetchAll ==
    ASSUME LandInv, NEW l \in FLayers, FA1!FetchAll(l)
    PROVE  LandInv' /\ UNCHANGED <<ver, served>>
<1> USE LandingFacts DEF LandInv
<1>1. /\ tells = "epoch" /\ side[l] = "forked" /\ FA1!Turn(l)
      /\ todo' = [todo EXCEPT ![l] = {<<j, sel[l][j]>> :
                    j \in {i \in 1 .. FA1!Count(l) : FA1!Landable(sel[l][i])}}]
      /\ side' = [side EXCEPT ![l] = "copying"]
      /\ Aside /\ UNCHANGED <<busy, slotOf, land, flag>>
  BY DEF FA1!FetchAll, FA1!main, Aside
<1>2. /\ side' \in [FLayers -> Sides]
      /\ \A k \in FLayers : side'[k] = IF k = l THEN "copying" ELSE side[k]
      /\ Joined'
  BY <1>1, SideMoves
<1>3. PageTables' /\ Pinned' /\ InRead' /\ \A k : FA1!Buf(k)' = FA1!Buf(k')
  BY <1>1, LandAside
<1>4. LandTypes'
  BY <1>1, <1>2 DEF LandTypes, Aside
<1>5. busy[l] = {} /\ todo[l] = {} /\ DOMAIN todo = FLayers
  BY <1>1 DEF Copying
<1>6. /\ \A e \in todo'[l] : /\ e[1] \in FRanks /\ e[2] \in valid /\ e = <<e[1], e[2]>>
                             /\ e[1] <= Len(sel[l]) /\ e[2] = sel[l][e[1]]
      /\ \A k \in FLayers : k # l => todo'[k] = todo[k]
      /\ DOMAIN todo' = FLayers
  <2>0. todo'[l] = {<<j, sel[l][j]>> : j \in {i \in 1 .. FA1!Count(l) : FA1!Landable(sel[l][i])}}
    BY <1>1, <1>5
  <2>1. Len(sel[l]) \in Nat
    BY DEF PageTables
  <2>2. \A j \in 1 .. FA1!Count(l) : j \in FRanks /\ j <= Len(sel[l])
    BY <2>1 DEF FA1!Count, FRanks
  <2> QED BY <2>0, <2>2, <1>1, <1>5 DEF FA1!Landable
<1>7. \A k \in FLayers : Copies(k)' = IF k = l THEN todo'[l] ELSE Copies(k)
  BY <1>1, <1>2, <1>5, <1>6 DEF Copies
<1>8. Copying'
  BY <1>1, <1>2, <1>5, <1>6, <1>7 DEF Copying, Aside
<1>9. OfEpoch'
  <2>1. \A f \in FLayers, s \in FRanks :
         \/ flag[f][s][1] < clock * L
         \/ \E k \in FLayers : flag[f][s] = <<clock * L + k, -1>> /\ side'[k] \in {"copying", "done"}
    BY <1>1, <1>2 DEF OfEpoch
  <2>2. \A k \in FLayers : \A e \in Copies(k)' : e[1] <= Len(sel[k]) /\ e[2] = sel[k][e[1]]
    BY <1>1, <1>6, <1>7 DEF OfEpoch
  <2>3. ASSUME NEW s \in FRanks, at = "decode",
               flag[FA1!Buf(layer)][s] = <<clock * L + layer, -1>>
        PROVE  /\ s <= Len(sel[layer])
               /\ land[FA1!Buf(layer)][s] = <<sel[layer][s], ver[sel[layer][s]]>>
               /\ \A e \in Copies(layer)' : e[1] # s
    <3>1. /\ s <= Len(sel[layer])
          /\ land[FA1!Buf(layer)][s] = <<sel[layer][s], ver[sel[layer][s]]>>
          /\ \A e \in Copies(layer) : e[1] # s
      BY <1>1, <2>3 DEF OfEpoch
    <3>2. CASE layer # l
      <4>1. \A k \in FLayers : k = layer => Copies(k)' = Copies(k)
        BY <3>2, <1>7
      <4> QED BY <3>1, <4>1, <1>1 DEF LandTypes, Aside
    <3>3. CASE layer = l
      <4>0. clock * L \in Nat /\ FA1!Buf(layer) \in FLayers /\ layer \in Nat
        BY DEF LandTypes
      <4>1. flag[FA1!Buf(layer)][s][1] = clock * L + layer
        BY <2>3
      <4>2. PICK k \in FLayers : flag[FA1!Buf(layer)][s] = <<clock * L + k, -1>>
                                 /\ side[k] \in {"copying", "done"}
        BY <4>0, <4>1, <1>1 DEF OfEpoch
      <4>3. clock * L + k = clock * L + layer
        BY <4>2, <2>3
      <4>4. k = layer
        BY <4>0, <4>3
      <4> QED BY <4>2, <4>4, <3>3, <1>1
    <3> QED BY <3>2, <3>3
  <2> QED BY <1>1, <1>3, <2>1, <2>2, <2>3 DEF OfEpoch, Aside
<1>10. OfTag'
  BY <1>1 DEF OfTag, Aside
<1> QED BY <1>1, <1>2, <1>3, <1>4, <1>8, <1>9, <1>10 DEF Aside

\* fa1_assign: the copies it plans go to slots no wanted page has, a slot each,
\* for pages no slot has.
LEMMA AssignPlan ==
    ASSUME LandInv, tells = "tagged", NEW l \in FLayers,
           NEW C, C = {<<FA1!Claim(l, j), sel[l][j]>> : j \in {i \in FA1!Missing(l) : FA1!Claim(l, i) # -1}}
    PROVE  /\ \A e \in C : e[1] \in FRanks /\ e[2] \in valid /\ e = <<e[1], e[2]>>
           /\ \A e, d \in C : d # e => d[1] # e[1] /\ d[2] # e[2]
           /\ \A e \in C, s \in FRanks : flag[l][s] # <<ver[e[2]], e[2]>>
           /\ \A e \in C, j \in 1 .. Len(sel[l]) :
                j <= Lcap /\ sel[l][j] # tail /\ sel[l][j] \in valid =>
                  flag[l][e[1]] # <<ver[sel[l][j]], sel[l][j]>>
<1> USE LandingFacts DEF LandInv
<1>0. Len(sel[l]) \in Nat /\ sel[l] \in Seq(FBlocks) /\ gen = ver
  BY DEF PageTables, Pinned
<1>1. /\ \A j \in 1 .. FA1!Count(l) : j \in FRanks /\ j \in 1 .. Len(sel[l])
      /\ \A j \in 1 .. Len(sel[l]) : j <= Lcap => j \in 1 .. FA1!Count(l)
  BY <1>0 DEF FA1!Count, FRanks
<1>2. FA1!Wanted(l) = {j \in 1 .. FA1!Count(l) : sel[l][j] # tail /\ sel[l][j] \in valid}
  BY DEF FA1!Wanted, FA1!Landable
<1>3. FA1!Missing(l) \in SUBSET FRanks /\ FA1!Missing(l) \subseteq FA1!Wanted(l)
  BY <1>1, <1>2 DEF FA1!Missing
\* A page some slot has is matched, by a slot that has it.
<1>4. \A j : IF \E s \in FRanks : flag[l][s] = <<ver[sel[l][j]], sel[l][j]>>
             THEN /\ FA1!Match(l, j) \in FRanks
                  /\ flag[l][FA1!Match(l, j)] = <<ver[sel[l][j]], sel[l][j]>>
             ELSE FA1!Match(l, j) = -1
  <2> SUFFICES ASSUME NEW j
               PROVE  IF \E s \in FRanks : flag[l][s] = <<ver[sel[l][j]], sel[l][j]>>
                      THEN /\ FA1!Match(l, j) \in FRanks
                           /\ flag[l][FA1!Match(l, j)] = <<ver[sel[l][j]], sel[l][j]>>
                      ELSE FA1!Match(l, j) = -1
    OBVIOUS
  <2> DEFINE S == {s \in FRanks : flag[l][s] = <<ver[sel[l][j]], sel[l][j]>>}
  <2>1. FA1!Match(l, j) = IF S = {} THEN -1 ELSE CHOOSE s \in S : \A t \in S : s <= t
    BY <1>0 DEF FA1!Match, FA1!Want
  <2>2. S \in SUBSET Nat
    OBVIOUS
  <2> HIDE DEF S
  <2>3. ASSUME S # {} PROVE FA1!Match(l, j) \in S
    <3>1. \E s \in S : \A t \in S : s <= t
      BY <2>2, <2>3, Least
    <3> QED BY <2>1, <2>3, <3>1
  <2> QED BY <2>1, <2>3 DEF S
<1>5. \A i \in FA1!Missing(l) : \A s \in FRanks : flag[l][s] # <<ver[sel[l][i]], sel[l][i]>>
  BY <1>4 DEF FA1!Missing
<1>6. \A i \in FA1!Missing(l) : FA1!Claim(l, i) \in FA1!Free(l) \cup {-1}
  BY <1>3, Claims
<1>7. \A i, j \in FA1!Missing(l) : FA1!Claim(l, i) = FA1!Claim(l, j) /\ FA1!Claim(l, i) # -1 => i = j
  BY <1>3, Claims
<1>8. ASSUME NEW i \in 1 .. Len(sel[l]), NEW j \in 1 .. Len(sel[l]), sel[l][i] = sel[l][j]
      PROVE  i = j
  <2>1. i \in Nat /\ j \in Nat /\ sel[l][i] \in Nat
    <3>1. sel[l][i] \in FBlocks /\ i \in Nat /\ j \in Nat
      BY <1>0
    <3> QED BY <3>1
  <2>2. ~ (i < j) /\ ~ (j < i)
    BY <2>1, <1>8 DEF PageTables
  <2> QED BY <2>1, <2>2
<1>9. \A i \in FA1!Missing(l) : i \in 1 .. Len(sel[l]) /\ i \in FA1!Wanted(l)
  BY <1>1, <1>2, <1>3
<1>10. ASSUME NEW s \in FA1!Free(l), NEW j \in FA1!Wanted(l)
       PROVE  flag[l][s] # <<ver[sel[l][j]], sel[l][j]>>
  <2> SUFFICES ASSUME flag[l][s] = <<ver[sel[l][j]], sel[l][j]>> PROVE FALSE
    OBVIOUS
  <2>1. s \in FRanks /\ s \notin FA1!Used(l)
    BY DEF FA1!Free
  <2>2. FA1!Match(l, j) \in FRanks /\ flag[l][FA1!Match(l, j)] = <<ver[sel[l][j]], sel[l][j]>>
    BY <2>1, <1>4
  <2>3. FA1!Match(l, j) = s
    <3>1. sel[l][j] \in FBlocks /\ sel[l][j] # -1
      BY <1>1, <1>2, <1>0
    <3>2. flag[l][s] # <<-1, -1>>
      BY <3>1
    <3>3. \A t, u \in FRanks : flag[l][t] = flag[l][u] /\ flag[l][t] # <<-1, -1>> => t = u
      BY DEF OfTag
    <3> QED BY <2>1, <2>2, <3>2, <3>3
  <2>4. s \in FA1!Used(l)
    BY <2>1, <2>3 DEF FA1!Used
  <2> QED BY <2>1, <2>4
<1>11. ASSUME NEW e \in C
       PROVE  \E i \in FA1!Missing(l) : /\ e = <<FA1!Claim(l, i), sel[l][i]>>
                                        /\ FA1!Claim(l, i) \in FA1!Free(l) /\ FA1!Claim(l, i) # -1
  BY <1>6
<1>12. FA1!Free(l) \subseteq FRanks
  BY DEF FA1!Free
<1>13. \A e \in C : e[1] \in FRanks /\ e[2] \in valid /\ e = <<e[1], e[2]>>
  BY <1>2, <1>9, <1>11, <1>12
<1>14. \A e, d \in C : d # e => d[1] # e[1] /\ d[2] # e[2]
  <2> SUFFICES ASSUME NEW e \in C, NEW d \in C, d[1] = e[1] \/ d[2] = e[2] PROVE d = e
    OBVIOUS
  <2>1. PICK i \in FA1!Missing(l) : e = <<FA1!Claim(l, i), sel[l][i]>> /\ FA1!Claim(l, i) # -1
    BY <1>11
  <2>2. PICK j \in FA1!Missing(l) : d = <<FA1!Claim(l, j), sel[l][j]>> /\ FA1!Claim(l, j) # -1
    BY <1>11
  <2>3. i = j
    BY <2>1, <2>2, <1>7, <1>8, <1>9
  <2> QED BY <2>1, <2>2, <2>3
<1>15. \A e \in C, s \in FRanks : flag[l][s] # <<ver[e[2]], e[2]>>
  BY <1>5, <1>11
<1>16. \A e \in C, j \in 1 .. Len(sel[l]) :
         j <= Lcap /\ sel[l][j] # tail /\ sel[l][j] \in valid =>
           flag[l][e[1]] # <<ver[sel[l][j]], sel[l][j]>>
  <2> SUFFICES ASSUME NEW e \in C, NEW j \in 1 .. Len(sel[l]),
                      j <= Lcap, sel[l][j] # tail, sel[l][j] \in valid
               PROVE  flag[l][e[1]] # <<ver[sel[l][j]], sel[l][j]>>
    OBVIOUS
  <2>1. j \in FA1!Wanted(l)
    BY <1>1, <1>2
  <2>2. e[1] \in FA1!Free(l)
    BY <1>11
  <2> QED BY <2>1, <2>2, <1>10
<1> QED BY <1>13, <1>14, <1>15, <1>16

\* Deciding the slots of a tagged fetch keeps it.
LEMMA LandAssign ==
    ASSUME LandInv, NEW l \in FLayers, FA1!Assign(l)
    PROVE  LandInv' /\ UNCHANGED <<ver, served>>
<1> USE LandingFacts DEF LandInv
<1> DEFINE C == {<<FA1!Claim(l, j), sel[l][j]>> : j \in {i \in FA1!Missing(l) : FA1!Claim(l, i) # -1}}
           A == {<<j, FA1!Assigned(l, j)>> : j \in FRanks}
<1>1. /\ tells = "tagged" /\ side[l] = "forked" /\ FA1!Turn(l)
      /\ todo' = [todo EXCEPT ![l] = C] /\ busy' = [busy EXCEPT ![l] = A]
      /\ side' = [side EXCEPT ![l] = "assigning"]
      /\ Aside /\ UNCHANGED <<slotOf, land, flag>>
  BY DEF FA1!Assign, FA1!main, Aside
<1>2. /\ side' \in [FLayers -> Sides]
      /\ \A k \in FLayers : side'[k] = IF k = l THEN "assigning" ELSE side[k]
      /\ Joined'
  BY <1>1, SideMoves
<1>3. PageTables' /\ Pinned' /\ InRead'
  BY <1>1, LandAside
<1>4. LandTypes'
  BY <1>1, <1>2 DEF LandTypes, Aside
<1>5. \A e \in A : e[1] \in FRanks /\ e[2] \in FRanks \cup {-1}
  <2> SUFFICES ASSUME NEW j \in FRanks PROVE FA1!Assigned(l, j) \in FRanks \cup {-1}
    OBVIOUS
  <2>1. FA1!Match(l, j) \in FRanks \cup {-1}
    <3> DEFINE S == {s \in FRanks : flag[l][s] = FA1!Want(sel[l][j])}
    <3>1. FA1!Match(l, j) = IF S = {} THEN -1 ELSE CHOOSE s \in S : \A t \in S : s <= t
      BY DEF FA1!Match
    <3>2. S \in SUBSET Nat /\ S \subseteq FRanks
      OBVIOUS
    <3> HIDE DEF S
    <3>3. S # {} => \E s \in S : \A t \in S : s <= t
      BY <3>2, Least
    <3> QED BY <3>1, <3>2, <3>3
  <2>2. FA1!Missing(l) \in SUBSET FRanks
    <3>1. Len(sel[l]) \in Nat
      BY DEF PageTables
    <3> QED BY <3>1 DEF FA1!Missing, FA1!Wanted, FA1!Count, FRanks
  <2>3. j \in FA1!Missing(l) => FA1!Claim(l, j) \in FRanks \cup {-1}
    BY <2>2, Claims DEF FA1!Free
  <2> QED BY <2>1, <2>3 DEF FA1!Assigned, FA1!Missing
<1>6. /\ \A e \in C : e[1] \in FRanks /\ e[2] \in valid /\ e = <<e[1], e[2]>>
      /\ \A e, d \in C : d # e => d[1] # e[1] /\ d[2] # e[2]
      /\ \A e \in C, s \in FRanks : flag[l][s] # <<ver[e[2]], e[2]>>
      /\ \A e \in C, j \in 1 .. Len(sel[l]) :
           j <= Lcap /\ sel[l][j] # tail /\ sel[l][j] \in valid =>
             flag[l][e[1]] # <<ver[sel[l][j]], sel[l][j]>>
  BY <1>1, AssignPlan
<1> HIDE DEF C, A
<1>7. /\ DOMAIN todo' = FLayers /\ DOMAIN busy' = FLayers /\ todo'[l] = C /\ busy'[l] = A
      /\ \A k \in FLayers : k # l => todo'[k] = todo[k] /\ busy'[k] = busy[k]
  BY <1>1 DEF Copying
<1>8. \A k \in FLayers : Copies(k)' = IF k = l THEN C ELSE Copies(k)
  BY <1>2, <1>7 DEF Copies
<1>9. Copying'
  BY <1>1, <1>2, <1>5, <1>6, <1>7, <1>8 DEF Copying, Aside
<1>10. OfEpoch'
  BY <1>1 DEF OfEpoch, Aside
<1>11. OfTag'
  <2>1. \A k \in FLayers, s \in FRanks :
         \/ flag[k][s] = <<-1, -1>>
         \/ side'[k] = "copying" /\ \E e \in busy'[k] : e[1] = s
         \/ land[k][s] = <<flag[k][s][2], flag[k][s][1]>>
    BY <1>1, <1>2, <1>7 DEF OfTag
  <2>2. ASSUME NEW k \in FLayers, NEW e \in Copies(k)'
        PROVE  /\ \A d \in Copies(k)' : d # e => d[1] # e[1] /\ d[2] # e[2]
               /\ \A s \in FRanks : flag[k][s] # <<ver[e[2]], e[2]>>
               /\ \A j \in 1 .. Len(sel[k]) :
                    j <= Lcap /\ sel[k][j] # tail /\ sel[k][j] \in valid =>
                      flag[k][e[1]] # <<ver[sel[k][j]], sel[k][j]>>
    <3>1. CASE k = l
      BY <2>2, <3>1, <1>6, <1>8
    <3>2. CASE k # l
      BY <2>2, <3>2, <1>1, <1>8 DEF OfTag
    <3> QED BY <3>1, <3>2
  <2> QED BY <1>1, <2>1, <2>2 DEF OfTag, Aside
<1> QED BY <1>1, <1>2, <1>3, <1>4, <1>9, <1>10, <1>11 DEF Aside

-----------------------------------------------------------------------------
(* The copies *)

\* A store to slot_of keeps it.
LEMMA LandStore ==
    ASSUME LandInv, NEW l \in FLayers, FA1!StoreSlotOf(l)
    PROVE  LandInv' /\ UNCHANGED <<ver, served>>
<1> USE LandingFacts DEF LandInv
<1>1. PICK e \in busy[l] :
        /\ slotOf' = [slotOf EXCEPT ![l][e[1]] = e[2]]
        /\ busy' = [busy EXCEPT ![l] = busy[l] \ {e}]
        /\ side' = IF busy[l] = {e} THEN [side EXCEPT ![l] = "copying"] ELSE side
  BY DEF FA1!StoreSlotOf
<1>2. side[l] = "assigning" /\ Aside /\ UNCHANGED <<todo, land, flag>>
  BY DEF FA1!StoreSlotOf, FA1!main, Aside
<1>3. /\ side' \in [FLayers -> Sides]
      /\ \A k \in FLayers : side'[k] = IF k = l /\ busy[l] = {e} THEN "copying" ELSE side[k]
      /\ Joined'
  <2>1. CASE busy[l] = {e}
    BY <1>1, <1>2, <2>1, SideMoves
  <2>2. CASE busy[l] # {e}
    <3>1. side' = side
      BY <1>1, <2>2
    <3>2. Joined'
      BY <3>1, <1>2, LandAside DEF Joined, Aside
    <3> QED BY <3>1, <3>2, <2>2 DEF LandTypes
  <2> QED BY <2>1, <2>2
<1>4. PageTables' /\ Pinned' /\ InRead'
  BY <1>2, LandAside
<1>5. e[1] \in FRanks /\ e[2] \in FRanks \cup {-1} /\ tells = "tagged"
  BY <1>2 DEF Copying
<1>6. LandTypes'
  <2>1. slotOf' \in [FLayers -> [FRanks -> FRanks \cup {-1}]]
    BY <1>1, <1>5 DEF LandTypes
  <2> QED BY <2>1, <1>2, <1>3 DEF LandTypes, Aside
<1>7. /\ DOMAIN busy' = FLayers /\ busy'[l] = busy[l] \ {e}
      /\ \A k \in FLayers : k # l => busy'[k] = busy[k]
      /\ side'[l] = "copying" => busy'[l] = {}
  <2>1. /\ DOMAIN busy' = FLayers /\ busy'[l] = busy[l] \ {e}
        /\ \A k \in FLayers : k # l => busy'[k] = busy[k]
    BY <1>1 DEF Copying
  <2>2. side'[l] = "copying" => busy[l] = {e}
    BY <1>2, <1>3
  <2> QED BY <2>1, <2>2
<1>8. \A k \in FLayers : Copies(k)' = Copies(k)
  BY <1>2, <1>3, <1>7 DEF Copies
<1>9. Copying'
  <2>1. \A k \in FLayers : side'[k] \notin {"assigning", "copying"} => todo'[k] = {} /\ busy'[k] = {}
    BY <1>2, <1>3, <1>7 DEF Copying
  <2>2. \A k \in FLayers : side'[k] = "assigning" =>
          \A f \in busy'[k] : f[1] \in FRanks /\ f[2] \in FRanks \cup {-1}
    BY <1>2, <1>3, <1>7 DEF Copying
  <2>3. \A k \in FLayers : side'[k] = "copying" => todo'[k] \cap busy'[k] = {}
    BY <1>2, <1>3, <1>7 DEF Copying
  <2> QED BY <1>2, <1>5, <1>7, <1>8, <2>1, <2>2, <2>3 DEF Copying, Aside
<1>10. OfEpoch'
  BY <1>2, <1>5 DEF OfEpoch, Aside
<1>11. OfTag'
  <2>1. \A k \in FLayers, s \in FRanks :
         \/ flag[k][s] = <<-1, -1>>
         \/ side'[k] = "copying" /\ \E f \in busy'[k] : f[1] = s
         \/ land[k][s] = <<flag[k][s][2], flag[k][s][1]>>
    BY <1>2, <1>3, <1>5, <1>7 DEF OfTag
  <2> QED BY <2>1, <1>2, <1>8 DEF OfTag, Aside
<1> QED BY <1>2, <1>3, <1>4, <1>6, <1>9, <1>10, <1>11 DEF Aside

\* While the current layer's slots carry its epoch, no other fetch writes them.
LEMMA EpochAlone ==
    ASSUME LandInv, tells = "epoch", at = "decode", NEW s \in FRanks,
           flag[FA1!Buf(layer)][s] = <<clock * L + layer, -1>>,
           NEW l \in FLayers, side[l] = "copying"
    PROVE  l = layer
<1> USE LandingFacts DEF LandInv
<1>0. clock * L \in Nat /\ layer \in FLayers /\ layer \in Nat /\ FA1!Buf(layer) \in FLayers
  BY DEF LandTypes
<1>1. flag[FA1!Buf(layer)][s][1] = clock * L + layer
  OBVIOUS
<1>a. \A f \in FLayers, t \in FRanks :
         \/ flag[f][t][1] < clock * L
         \/ \E k \in FLayers : flag[f][t] = <<clock * L + k, -1>> /\ side[k] \in {"copying", "done"}
  BY DEF OfEpoch
<1>b. \/ flag[FA1!Buf(layer)][s][1] < clock * L
      \/ \E k \in FLayers : flag[FA1!Buf(layer)][s] = <<clock * L + k, -1>>
                             /\ side[k] \in {"copying", "done"}
  BY ONLY <1>a, <1>0, s \in FRanks
<1>c. ~ (flag[FA1!Buf(layer)][s][1] < clock * L)
  BY ONLY <1>0, <1>1
<1>2. PICK k \in FLayers : flag[FA1!Buf(layer)][s] = <<clock * L + k, -1>>
                           /\ side[k] \in {"copying", "done"}
  BY ONLY <1>b, <1>c
<1>3. k = layer
  <2>1. clock * L + k = clock * L + layer
    BY <1>2
  <2>2. k \in Nat
    OBVIOUS
  <2> QED BY <2>1, <2>2, <1>0
<1>4. \A i, j \in FLayers : FA1!StreamOf(i) = FA1!StreamOf(j)
  BY DEF FA1!StreamOf
<1>5. ~ (l < layer)
  BY <1>0, <1>2, <1>3, <1>4 DEF Joined
<1>6. ~ (l > layer)
  BY DEF Joined
<1> QED BY <1>0, <1>5, <1>6

\* The first store of a copy keeps it.
LEMMA LandBegin ==
    ASSUME LandInv, NEW l \in FLayers, FA1!BeginCopy(l)
    PROVE  LandInv' /\ UNCHANGED <<ver, served>>
<1> USE LandingFacts DEF LandInv
<1>1. PICK e \in todo[l] :
       /\ land' = [land EXCEPT ![FA1!Buf(l)][e[1]] = <<-1, -1>>]
       /\ todo' = [todo EXCEPT ![l] = todo[l] \ {e}]
       /\ busy' = [busy EXCEPT ![l] = busy[l] \cup {e}]
  BY DEF FA1!BeginCopy
<1>2. side[l] = "copying" /\ Aside /\ UNCHANGED <<side, slotOf, flag>>
  BY DEF FA1!BeginCopy, FA1!main, Aside
<1>3. e \in Copies(l) /\ e[1] \in FRanks /\ e[2] \in valid /\ FA1!Buf(l) \in FLayers
  <2>1. e \in Copies(l)
    BY DEF Copies
  <2> QED BY <2>1 DEF Copying
<1>4. PageTables' /\ Pinned' /\ InRead' /\ Joined' /\ \A k : FA1!Buf(k)' = FA1!Buf(k')
  BY <1>2, LandAside DEF Joined, Aside
<1>5. /\ land' \in [FLayers -> [FRanks -> Int \X Int]]
      /\ \A f \in FLayers, s \in FRanks :
           land'[f][s] = IF f = FA1!Buf(l) /\ s = e[1] THEN <<-1, -1>> ELSE land[f][s]
  BY <1>1, <1>3 DEF LandTypes
<1>6. LandTypes'
  BY <1>2, <1>5 DEF LandTypes, Aside
<1>7. /\ DOMAIN todo' = FLayers /\ DOMAIN busy' = FLayers
      /\ todo'[l] = todo[l] \ {e} /\ busy'[l] = busy[l] \cup {e}
      /\ \A k \in FLayers : k # l => todo'[k] = todo[k] /\ busy'[k] = busy[k]
  BY <1>1 DEF Copying
<1>8. \A k \in FLayers : Copies(k)' = Copies(k)
  <2>1. Copies(l)' = Copies(l)
    BY <1>2, <1>7 DEF Copies
  <2>2. \A k \in FLayers : k # l => Copies(k)' = Copies(k)
    BY <1>2, <1>7 DEF Copies
  <2> QED BY <2>1, <2>2
<1>9. Copying'
  <2>1. \A k \in FLayers : side'[k] \notin {"assigning", "copying"} => todo'[k] = {} /\ busy'[k] = {}
    BY <1>2, <1>7 DEF Copying
  <2>2. \A k \in FLayers : side'[k] = "assigning" =>
          tells = "tagged" /\ \A f \in busy'[k] : f[1] \in FRanks /\ f[2] \in FRanks \cup {-1}
    BY <1>2, <1>7 DEF Copying
  <2>3. \A k \in FLayers : side'[k] = "copying" => todo'[k] \cap busy'[k] = {}
    BY <1>2, <1>7 DEF Copying
  <2> QED BY <1>2, <1>7, <1>8, <2>1, <2>2, <2>3 DEF Copying, Aside
<1>10. OfEpoch'
  <2> SUFFICES ASSUME tells = "epoch" PROVE OfEpoch'
    BY <1>2 DEF OfEpoch, Aside
  <2>1. ASSUME NEW s \in FRanks, at = "decode",
               flag[FA1!Buf(layer)][s] = <<clock * L + layer, -1>>
        PROVE  /\ s <= Len(sel[layer])
               /\ land'[FA1!Buf(layer)][s] = <<sel[layer][s], ver[sel[layer][s]]>>
               /\ \A k \in FLayers : k = layer => \A d \in Copies(k)' : d[1] # s
    <3>1. /\ s <= Len(sel[layer])
          /\ land[FA1!Buf(layer)][s] = <<sel[layer][s], ver[sel[layer][s]]>>
          /\ \A d \in Copies(layer) : d[1] # s
      BY <2>1 DEF OfEpoch
    <3>2. l = layer
      BY <2>1, <1>2, EpochAlone
    <3>3. e[1] # s
      BY <3>1, <3>2, <1>3
    <3>4. FA1!Buf(layer) \in FLayers
      BY <3>2
    <3> QED BY <3>1, <3>3, <3>4, <1>5, <1>8
  <2>2. \A k \in FLayers : \A d \in Copies(k)' : d[1] <= Len(sel[k]) /\ d[2] = sel[k][d[1]]
    BY <1>8 DEF OfEpoch
  <2>3. layer \in FLayers
    BY DEF LandTypes
  <2> QED BY <1>2, <1>4, <2>1, <2>2, <2>3 DEF OfEpoch, Aside
<1>11. OfTag'
  <2> SUFFICES ASSUME tells = "tagged" PROVE OfTag'
    BY <1>2 DEF OfTag, Aside
  <2>1. ASSUME NEW k \in FLayers, NEW s \in FRanks
        PROVE  \/ flag[k][s] = <<-1, -1>>
               \/ side[k] = "copying" /\ \E d \in busy'[k] : d[1] = s
               \/ land'[k][s] = <<flag[k][s][2], flag[k][s][1]>>
    <3>0. FA1!Buf(l) = l
      BY DEF FA1!Buf
    <3>1. CASE k = l /\ s = e[1]
      BY <3>1, <1>2, <1>7
    <3>2. CASE ~ (k = l /\ s = e[1])
      <4>1. land'[k][s] = land[k][s]
        BY <3>0, <3>2, <1>5
      <4>2. busy[k] \subseteq busy'[k]
        BY <1>7
      <4> QED BY <4>1, <4>2 DEF OfTag
    <3> QED BY <3>1, <3>2
  <2> QED BY <2>1, <1>2, <1>8 DEF OfTag, Aside
<1> QED BY <1>2, <1>4, <1>6, <1>9, <1>10, <1>11 DEF Aside

\* The tail event of a fetch keeps it.
LEMMA LandTail ==
    ASSUME LandInv, NEW l \in FLayers, FA1!TailEvent(l)
    PROVE  LandInv' /\ UNCHANGED <<ver, served>>
<1> USE LandingFacts DEF LandInv
<1>1. /\ side[l] = "copying" /\ todo[l] = {} /\ busy[l] = {}
      /\ side' = [side EXCEPT ![l] = "done"]
      /\ Aside /\ UNCHANGED <<todo, busy, slotOf, land, flag>>
  BY DEF FA1!TailEvent, FA1!main, Aside
<1>2. /\ side' \in [FLayers -> Sides]
      /\ \A k \in FLayers : side'[k] = IF k = l THEN "done" ELSE side[k]
      /\ Joined'
  BY <1>1, SideMoves
<1>3. PageTables' /\ Pinned' /\ InRead' /\ \A k : FA1!Buf(k)' = FA1!Buf(k')
  BY <1>1, LandAside
<1>4. LandTypes'
  BY <1>1, <1>2 DEF LandTypes, Aside
<1>5. \A k \in FLayers : Copies(k)' = Copies(k)
  BY <1>1, <1>2 DEF Copies
<1>6. Copying'
  BY <1>1, <1>2, <1>5 DEF Copying, Aside
<1>7. OfEpoch'
  <2>1. \A f \in FLayers, s \in FRanks : tells = "epoch" =>
         \/ flag[f][s][1] < clock * L
         \/ \E k \in FLayers : flag[f][s] = <<clock * L + k, -1>> /\ side'[k] \in {"copying", "done"}
    BY <1>2 DEF OfEpoch
  <2>2. layer \in FLayers /\ layer' = layer
    BY <1>1 DEF LandTypes, Aside
  <2>3. \A k \in FLayers : \A e \in Copies(k)' : tells = "epoch" =>
           e[1] <= Len(sel[k]) /\ e[2] = sel[k][e[1]]
    BY <1>5 DEF OfEpoch
  <2> QED BY <1>1, <1>3, <1>5, <2>1, <2>2, <2>3 DEF OfEpoch, Aside
<1>8. OfTag'
  <2>1. \A k \in FLayers, s \in FRanks : tells = "tagged" =>
         \/ flag[k][s] = <<-1, -1>>
         \/ side'[k] = "copying" /\ \E e \in busy[k] : e[1] = s
         \/ land[k][s] = <<flag[k][s][2], flag[k][s][1]>>
    BY <1>1, <1>2 DEF OfTag
  <2> QED BY <1>1, <1>5, <2>1 DEF OfTag, Aside
<1> QED BY <1>1, <1>2, <1>3, <1>4, <1>6, <1>7, <1>8 DEF Aside

\* The last store of a copy and its flag keep it.
LEMMA LandPublish ==
    ASSUME LandInv, NEW l \in FLayers, FA1!Publish(l)
    PROVE  LandInv' /\ UNCHANGED <<ver, served>>
<1> USE LandingFacts DEF LandInv
<1>1. PICK e \in busy[l] :
       /\ land' = [land EXCEPT ![FA1!Buf(l)][e[1]] = <<e[2], pinned[e[2]]>>]
       /\ flag' = [flag EXCEPT ![FA1!Buf(l)][e[1]] = FA1!Flag(l, e[2])]
       /\ busy' = [busy EXCEPT ![l] = busy[l] \ {e}]
  BY DEF FA1!Publish
<1>2. side[l] = "copying" /\ Aside /\ UNCHANGED <<side, todo, slotOf>>
  BY DEF FA1!Publish, FA1!main, Aside
<1>3. /\ e \in Copies(l) /\ e[1] \in FRanks /\ e[2] \in valid /\ e[2] \in FBlocks /\ e = <<e[1], e[2]>>
      /\ FA1!Buf(l) \in FLayers /\ l \in Nat
      /\ pinned[e[2]] = ver[e[2]] /\ ver[e[2]] \in Nat /\ e[2] \in Int /\ e \notin todo[l]
  <2>1. e \in Copies(l)
    BY <1>2 DEF Copies
  <2>2. e[1] \in FRanks /\ e[2] \in valid /\ e = <<e[1], e[2]>> /\ e \notin todo[l]
    BY <2>1, <1>2 DEF Copying
  <2>3. e[2] \in FBlocks
    BY <2>2 DEF LandTypes
  <2> QED BY <2>1, <2>2, <2>3 DEF Pinned, LandTypes
<1> DEFINE fl == IF tells = "epoch" THEN <<clock * L + l, -1>> ELSE <<ver[e[2]], e[2]>>
<1>4. FA1!Flag(l, e[2]) = fl /\ fl \in Int \X Int
  <2>1. clock * L \in Nat
    BY DEF LandTypes
  <2>2. FA1!Flag(l, e[2]) = fl
    BY DEF FA1!Flag, FA1!Epoch, FA1!Want, Pinned
  <2> QED BY <2>1, <2>2, <1>3
<1>5. /\ land' \in [FLayers -> [FRanks -> Int \X Int]]
      /\ \A f \in FLayers, s \in FRanks :
           land'[f][s] = IF f = FA1!Buf(l) /\ s = e[1] THEN <<e[2], ver[e[2]]>> ELSE land[f][s]
  BY <1>1, <1>3 DEF LandTypes
<1> HIDE DEF fl
<1>6. /\ flag' \in [FLayers -> [FRanks -> Int \X Int]]
      /\ \A f \in FLayers, s \in FRanks :
           flag'[f][s] = IF f = FA1!Buf(l) /\ s = e[1] THEN fl ELSE flag[f][s]
  BY <1>1, <1>3, <1>4 DEF LandTypes
<1>7. PageTables' /\ Pinned' /\ Joined' /\ \A k : FA1!Buf(k)' = FA1!Buf(k')
  BY <1>2, LandAside DEF Joined, Aside
<1>8. LandTypes'
  BY <1>2, <1>5, <1>6 DEF LandTypes, Aside
<1>9. /\ DOMAIN busy' = FLayers /\ busy'[l] = busy[l] \ {e}
      /\ \A k \in FLayers : k # l => busy'[k] = busy[k]
  BY <1>1 DEF Copying
<1>10. Copies(l)' = Copies(l) \ {e} /\ \A k \in FLayers : k # l => Copies(k)' = Copies(k)
  <2>1. Copies(l)' = Copies(l) \ {e}
    BY <1>2, <1>3, <1>9 DEF Copies
  <2>2. \A k \in FLayers : k # l => Copies(k)' = Copies(k)
    BY <1>2, <1>9 DEF Copies
  <2> QED BY <2>1, <2>2
<1>11. Copying'
  <2>1. \A k \in FLayers : side'[k] \notin {"assigning", "copying"} => todo'[k] = {} /\ busy'[k] = {}
    BY <1>2, <1>9 DEF Copying
  <2>2. \A k \in FLayers : side'[k] = "assigning" =>
          tells = "tagged" /\ \A f \in busy'[k] : f[1] \in FRanks /\ f[2] \in FRanks \cup {-1}
    BY <1>2, <1>9 DEF Copying
  <2>3. \A k \in FLayers : side'[k] = "copying" => todo'[k] \cap busy'[k] = {}
    BY <1>2, <1>9 DEF Copying
  <2>4. \A k \in FLayers : \A d \in Copies(k)' : d[1] \in FRanks /\ d[2] \in valid /\ d = <<d[1], d[2]>>
    BY <1>10 DEF Copying
  <2> QED BY <1>2, <1>9, <2>1, <2>2, <2>3, <2>4 DEF Copying, Aside
<1>12. OfEpoch'
  <2> SUFFICES ASSUME tells = "epoch" PROVE OfEpoch'
    BY <1>2 DEF OfEpoch, Aside
  <2>0. fl = <<clock * L + l, -1>> /\ clock * L \in Nat /\ layer \in FLayers /\ layer \in Nat
    BY DEF fl, LandTypes
  <2>1. \A f \in FLayers, s \in FRanks :
         \/ flag'[f][s][1] < clock * L
         \/ \E k \in FLayers : flag'[f][s] = <<clock * L + k, -1>> /\ side[k] \in {"copying", "done"}
    <3> SUFFICES ASSUME NEW f \in FLayers, NEW s \in FRanks
                 PROVE  \/ flag'[f][s][1] < clock * L
                        \/ \E k \in FLayers : flag'[f][s] = <<clock * L + k, -1>>
                                              /\ side[k] \in {"copying", "done"}
      OBVIOUS
    <3>1. CASE f = FA1!Buf(l) /\ s = e[1]
      BY <3>1, <2>0, <1>2, <1>6
    <3>2. CASE ~ (f = FA1!Buf(l) /\ s = e[1])
      <4>1. flag'[f][s] = flag[f][s]
        BY <3>2, <1>6
      <4> QED BY <4>1 DEF OfEpoch
    <3> QED BY <3>1, <3>2
  <2>2. \A k \in FLayers : \A d \in Copies(k)' : d[1] <= Len(sel[k]) /\ d[2] = sel[k][d[1]]
    BY <1>10 DEF OfEpoch
  <2>3. ASSUME NEW s \in FRanks, at = "decode",
               flag'[FA1!Buf(layer)][s] = <<clock * L + layer, -1>>
        PROVE  /\ s <= Len(sel[layer])
               /\ land'[FA1!Buf(layer)][s] = <<sel[layer][s], ver[sel[layer][s]]>>
               /\ \A k \in FLayers : k = layer => \A d \in Copies(k)' : d[1] # s
    <3>0. FA1!Buf(layer) \in FLayers
      BY <2>0
    <3>1. CASE FA1!Buf(layer) = FA1!Buf(l) /\ s = e[1]
      <4>1. clock * L + l = clock * L + layer
        BY <3>0, <3>1, <2>0, <2>3, <1>6
      <4>2. l = layer
        BY <4>1, <2>0, <1>3
      <4>3. s <= Len(sel[layer]) /\ e[2] = sel[layer][s]
        BY <4>2, <3>1, <1>3 DEF OfEpoch
      <4>4. land'[FA1!Buf(layer)][s] = <<e[2], ver[e[2]]>>
        BY <3>0, <3>1, <1>5
      <4>5. \A d \in Copies(l) : d[1] = s => d = e
        <5> SUFFICES ASSUME NEW d \in Copies(l), d[1] = s PROVE d = e
          OBVIOUS
        <5>1. d = <<d[1], d[2]>> /\ d[2] = sel[l][d[1]]
          BY DEF Copying, OfEpoch
        <5> QED BY <5>1, <4>2, <4>3, <3>1, <1>3
      <4> QED BY <4>2, <4>3, <4>4, <4>5, <1>10
    <3>2. CASE ~ (FA1!Buf(layer) = FA1!Buf(l) /\ s = e[1])
      <4>1. /\ flag[FA1!Buf(layer)][s] = <<clock * L + layer, -1>>
            /\ land'[FA1!Buf(layer)][s] = land[FA1!Buf(layer)][s]
        BY <3>0, <3>2, <2>3, <1>5, <1>6
      <4>2. /\ s <= Len(sel[layer])
            /\ land[FA1!Buf(layer)][s] = <<sel[layer][s], ver[sel[layer][s]]>>
            /\ \A d \in Copies(layer) : d[1] # s
        BY <4>1, <2>3 DEF OfEpoch
      <4>3. \A k \in FLayers : Copies(k)' \subseteq Copies(k)
        BY <1>10
      <4> QED BY <4>1, <4>2, <4>3, <2>0
    <3> QED BY <3>1, <3>2
  <2>4. FA1!Buf(layer)' = FA1!Buf(layer) /\ layer' = layer /\ at' = at /\ clock' = clock
        /\ ver' = ver /\ sel' = sel /\ side' = side /\ tells' = tells
    BY <1>2 DEF Aside, FA1!Buf
  <2>5. at = "decode" => \A s \in FRanks :
           flag'[FA1!Buf(layer)][s] = <<clock * L + layer, -1>> =>
             /\ s <= Len(sel[layer])
             /\ land'[FA1!Buf(layer)][s] = <<sel[layer][s], ver[sel[layer][s]]>>
             /\ \A d \in Copies(layer)' : d[1] # s
    <3> SUFFICES ASSUME at = "decode", NEW s \in FRanks,
                        flag'[FA1!Buf(layer)][s] = <<clock * L + layer, -1>>
                 PROVE  /\ s <= Len(sel[layer])
                        /\ land'[FA1!Buf(layer)][s] = <<sel[layer][s], ver[sel[layer][s]]>>
                        /\ \A d \in Copies(layer)' : d[1] # s
      OBVIOUS
    <3>1. /\ s <= Len(sel[layer])
          /\ land'[FA1!Buf(layer)][s] = <<sel[layer][s], ver[sel[layer][s]]>>
          /\ \A k \in FLayers : k = layer => \A d \in Copies(k)' : d[1] # s
      BY <2>3
    <3>2. \A d \in Copies(layer)' : d[1] # s
      BY ONLY <3>1, <2>0, <2>4 DEF Copies
    <3> QED BY ONLY <3>1, <3>2
  <2> QED BY <2>4, <2>1, <2>2, <2>5 DEF OfEpoch
<1>13. OfTag'
  <2> SUFFICES ASSUME tells = "tagged" PROVE OfTag'
    BY <1>2 DEF OfTag, Aside
  <2>0. FA1!Buf(l) = l /\ fl = <<ver[e[2]], e[2]>> /\ e[2] # -1
    BY <1>3 DEF FA1!Buf, fl
  <2>a. /\ \A d \in Copies(l) : d # e => d[1] # e[1] /\ d[2] # e[2]
        /\ \A s \in FRanks : flag[l][s] # <<ver[e[2]], e[2]>>
    BY <1>3 DEF OfTag
  <2>1. ASSUME NEW k \in FLayers, NEW s \in FRanks
        PROVE  \/ flag'[k][s] = <<-1, -1>>
               \/ side[k] = "copying" /\ \E d \in busy'[k] : d[1] = s
               \/ land'[k][s] = <<flag'[k][s][2], flag'[k][s][1]>>
    <3>1. CASE k = l /\ s = e[1]
      <4>1. land'[k][s] = <<e[2], ver[e[2]]>> /\ flag'[k][s] = <<ver[e[2]], e[2]>>
        BY <3>1, <2>0, <1>5, <1>6
      <4> QED BY <4>1
    <3>2. CASE ~ (k = l /\ s = e[1])
      <4>1. land'[k][s] = land[k][s] /\ flag'[k][s] = flag[k][s]
        BY <3>2, <2>0, <1>5, <1>6
      <4>2. \A d \in busy[k] : d[1] = s => d \in busy'[k]
        BY <3>2, <1>9
      <4> QED BY <4>1, <4>2 DEF OfTag
    <3> QED BY <3>1, <3>2
  <2>2. ASSUME NEW k \in FLayers, NEW s \in FRanks, NEW t \in FRanks,
               flag'[k][s] = flag'[k][t], flag'[k][s] # <<-1, -1>>
        PROVE  s = t
    <3>1. CASE k # l
      <4>1. flag'[k][s] = flag[k][s] /\ flag'[k][t] = flag[k][t]
        BY <3>1, <2>0, <1>6
      <4> QED BY <4>1, <2>2 DEF OfTag
    <3>2. CASE k = l /\ s = e[1] /\ t # e[1]
      <4>1. flag'[k][s] = <<ver[e[2]], e[2]>> /\ flag'[k][t] = flag[l][t]
        BY <3>2, <2>0, <1>6
      <4> QED BY <4>1, <2>2, <2>a
    <3>3. CASE k = l /\ t = e[1] /\ s # e[1]
      <4>1. flag'[k][t] = <<ver[e[2]], e[2]>> /\ flag'[k][s] = flag[l][s]
        BY <3>3, <2>0, <1>6
      <4> QED BY <4>1, <2>2, <2>a
    <3>4. CASE k = l /\ s # e[1] /\ t # e[1]
      <4>1. flag'[k][s] = flag[k][s] /\ flag'[k][t] = flag[k][t]
        BY <3>4, <2>0, <1>6
      <4> QED BY <4>1, <2>2 DEF OfTag
    <3> QED BY <3>1, <3>2, <3>3, <3>4
  <2>3. ASSUME NEW k \in FLayers, NEW d \in Copies(k)'
        PROVE  /\ \A c \in Copies(k)' : c # d => c[1] # d[1] /\ c[2] # d[2]
               /\ \A s \in FRanks : flag'[k][s] # <<ver[d[2]], d[2]>>
               /\ \A j \in 1 .. Len(sel[k]) :
                    j <= Lcap /\ sel[k][j] # tail /\ sel[k][j] \in valid =>
                      flag'[k][d[1]] # <<ver[sel[k][j]], sel[k][j]>>
    <3>0. d \in Copies(k) /\ d[1] \in FRanks /\ Copies(k)' \subseteq Copies(k)
      <4>1. Copies(k)' \subseteq Copies(k)
        BY <1>10
      <4> QED BY <4>1, <2>3 DEF Copying
    <3>1. /\ \A c \in Copies(k) : c # d => c[1] # d[1] /\ c[2] # d[2]
          /\ \A s \in FRanks : flag[k][s] # <<ver[d[2]], d[2]>>
          /\ \A j \in 1 .. Len(sel[k]) :
               j <= Lcap /\ sel[k][j] # tail /\ sel[k][j] \in valid =>
                 flag[k][d[1]] # <<ver[sel[k][j]], sel[k][j]>>
      BY <3>0 DEF OfTag
    <3>2. k = l => d[1] # e[1] /\ d[2] # e[2]
      BY <2>3, <3>0, <1>10, <2>a
    <3>3. flag'[k][d[1]] = flag[k][d[1]]
      BY <3>0, <3>2, <2>0, <1>6
    <3>4. \A s \in FRanks : flag'[k][s] # <<ver[d[2]], d[2]>>
      <4> SUFFICES ASSUME NEW s \in FRanks PROVE flag'[k][s] # <<ver[d[2]], d[2]>>
        OBVIOUS
      <4>1. CASE k = l /\ s = e[1]
        <5>1. flag'[k][s] = <<ver[e[2]], e[2]>>
          BY <4>1, <2>0, <1>6
        <5> QED BY <5>1, <4>1, <3>2
      <4>2. CASE ~ (k = l /\ s = e[1])
        <5>1. flag'[k][s] = flag[k][s]
          BY <4>2, <2>0, <1>6
        <5> QED BY <5>1, <3>1
      <4> QED BY <4>1, <4>2
    <3> QED BY <3>0, <3>1, <3>3, <3>4
  <2> QED BY <1>2, <2>1, <2>2, <2>3 DEF OfTag, Aside
<1>14. InRead'
  <2>1. ASSUME read[1] = "land"
        PROVE  flag'[FA1!Buf(layer)][read[2]] = flag[FA1!Buf(layer)][read[2]]
    <3> DEFINE p == sel[layer][rank]
    <3>0. /\ at = "decode" /\ rank <= Len(sel[layer]) /\ p \notin staged
          /\ read[2] \in FRanks /\ rank <= Lcap /\ (tells = "epoch" => read[2] = rank)
          /\ flag[FA1!Buf(layer)][read[2]] = FA1!Flag(layer, p)
      BY <2>1 DEF InRead
    <3>1. layer \in FLayers /\ FA1!Buf(layer) \in FLayers /\ rank \in Nat \ {0}
          /\ Len(sel[layer]) \in Nat /\ sel[layer] \in Seq(FBlocks)
      BY DEF LandTypes, PageTables
    <3> SUFFICES ASSUME FA1!Buf(layer) = FA1!Buf(l), read[2] = e[1] PROVE FALSE
      BY <3>0, <3>1, <1>6
    <3>2. CASE tells = "epoch"
      <4>1. flag[FA1!Buf(layer)][read[2]] = <<clock * L + layer, -1>>
        BY <3>0, <3>2 DEF FA1!Flag, FA1!Epoch
      <4>2. l = layer
        BY <4>1, <3>0, <3>2, <1>2, EpochAlone
      <4> QED BY <4>1, <4>2, <3>0, <3>2, <1>3 DEF OfEpoch
    <3>3. CASE tells = "tagged"
      <4>1. l = layer /\ flag[l][e[1]] = <<ver[p], p>>
        BY <3>0, <3>3 DEF FA1!Buf, FA1!Flag, FA1!Want, Pinned
      <4>2. rank \in 1 .. Len(sel[layer]) /\ p \in FBlocks
        BY <3>0, <3>1
      <4>3. p # tail /\ p \in valid
        BY <4>2, <3>0 DEF Pinned
      <4> QED BY <4>1, <4>2, <4>3, <3>0, <3>3, <1>3 DEF OfTag
    <3> QED BY <3>2, <3>3 DEF LandTypes
  <2>2. FA1!Buf(layer)' = FA1!Buf(layer)
        /\ FA1!Flag(layer, sel[layer][rank])' = FA1!Flag(layer, sel[layer][rank])
    BY <1>2 DEF FA1!Buf, FA1!Flag, FA1!Epoch, FA1!Want, Aside
  <2> QED BY <2>1, <2>2, <1>2 DEF InRead, Aside
<1> QED BY <1>2, <1>7, <1>8, <1>11, <1>12, <1>13, <1>14 DEF Aside

\* What a step of this arm does to what the decode reads, beside the invariant.
LEMMA LandNext ==
    ASSUME LandInv, FA1!Next
    PROVE  /\ LandInv'
           /\ \/ /\ served' = {}
                 /\ \A b \in FBlocks : ver'[b] \in {ver[b], ver[b] + 1}
              \/ UNCHANGED <<ver, served>>
              \/ /\ ver' = ver
                 /\ \E l \in FLayers, b \in FBlocks : served' = served \cup {<<l, b, ver[b]>>}
<1>1. CASE FA1!GraphHead
  BY <1>1, LandHead
<1>2. CASE FA1!Select
  BY <1>2, LandSelect
<1>3. CASE FA1!Read
  BY <1>3, LandRead
<1>4. CASE FA1!Join
  BY <1>4, LandJoin
<1>5. ASSUME NEW l \in FLayers, FA1!Fetch(l) PROVE LandInv' /\ UNCHANGED <<ver, served>>
  BY <1>5, LandFetchAll, LandAssign, LandStore, LandBegin, LandPublish, LandTail DEF FA1!Fetch
<1>6. FA1!Layers = FLayers
  BY LandingFacts
<1> QED BY <1>1, <1>2, <1>3, <1>4, <1>5, <1>6 DEF FA1!Next, FA1!Main, FA1!Side

-----------------------------------------------------------------------------
(* Whatever the arm *)

ArmFA1 == arm = "fa1" => LandInv

\* A step that moves no variable of the fetch-all arm keeps its invariant.
LEMMA LandIdle ==
    ASSUME LandInv, UNCHANGED FA1!vars
    PROVE  LandInv'
<1> USE DEF LandInv
<1>0. UNCHANGED <<tells, deep, clock, ver, gen, staged, valid, pinned, tail, layer, at,
                  sel, rank, read, side, todo, busy, slotOf, land, flag, served>>
  BY DEF FA1!vars
<1>1. LandTypes' /\ PageTables' /\ Pinned'
  BY <1>0 DEF LandTypes, PageTables, Pinned
<1>2. Joined' /\ Copying'
  BY <1>0 DEF Joined, Copying, Copies, FA1!StreamOf
<1>3. OfEpoch' /\ OfTag'
  BY <1>0 DEF OfEpoch, OfTag, Copies, FA1!Buf
<1>4. InRead'
  BY <1>0 DEF InRead, FA1!Buf, FA1!Flag, FA1!Epoch, FA1!Want
<1> QED BY <1>1, <1>2, <1>3, <1>4

\* FA1 arm: the inductive invariant holds throughout.  In particular a slot whose
\* flag is the one the decode of a layer looks for holds that page's bytes as
\* they are in this step (fa1_fetch, fa1_assign, invalidate_written).
THEOREM LandingSafe == Spec => []ArmFA1
<1>1. Init => ArmFA1
  BY LandInit DEF Init, ArmFA1
<1>2. ArmFA1 /\ [Next]_vars => ArmFA1'
  <2> SUFFICES ASSUME ArmFA1, [Next]_vars, arm' = "fa1" PROVE LandInv'
    BY DEF ArmFA1
  <2>1. CASE arm = "fa1" /\ FA1!Next
    BY <2>1, LandNext DEF ArmFA1
  <2>2. CASE UNCHANGED vars
    <3>1. arm = "fa1" /\ UNCHANGED FA1!vars
      BY <2>2 DEF vars, FA1!vars, onlyFA1, steps
    <3> QED BY <3>1, LandIdle DEF ArmFA1
  <2> QED BY <2>1, <2>2 DEF Next
<1> QED BY <1>1, <1>2, PTL DEF Spec

-----------------------------------------------------------------------------
(* The refinement of PageReads *)

\* The version of every page, whichever arm the engine has.
Version == [b \in AllPages |-> IF b \in Pages[arm] THEN ver[b] ELSE 0]

\* What a step of any arm does to what the decode has read.
Renews(B) == /\ served' = {}
             /\ ver \in [B -> Nat] /\ ver' \in [B -> Nat]
             /\ \A b \in B : ver'[b] \in {ver[b], ver[b] + 1}
Serves(B) == /\ ver' = ver /\ served \subseteq served'
             /\ \A x \in served' \ served :
                  \E l \in 0 .. L + Reqs, b \in B : x = <<l, b, ver[b]>>

\* A step of an arm whose pages are B is one of the two, or changes neither.
Answers(B) == Renews(B) \/ Serves(B) \/ UNCHANGED <<ver, served>>

\* Each of them is a step of PageReads.
LEMMA ArmReads ==
    ASSUME arm \in {"fa1", "lru", "k5"}, arm' = arm, Answers(Pages[arm])
    PROVE  [PR!Next]_<<Version, served>>
<1>1. Pages[arm] \subseteq AllPages
  BY ArmsAssumption DEF AllPages
<1>2. Version' = [b \in AllPages |-> IF b \in Pages[arm] THEN ver'[b] ELSE 0]
  BY DEF Version
<1>3. CASE Renews(Pages[arm])
  <2>1. Version' \in [AllPages -> Nat]
    BY <1>2, <1>3 DEF Renews
  <2>2. \A b \in AllPages : Version'[b] \in {Version[b], Version[b] + 1}
    BY <1>2, <1>3 DEF Renews, Version
  <2> QED BY <1>3, <2>1, <2>2 DEF Renews, PR!Next, PR!NewStep, Version
<1>4. CASE Serves(Pages[arm])
  <2>1. Version' = Version
    BY <1>2, <1>4 DEF Serves, Version
  <2>2. \A x \in served' \ served :
          \E l \in 0 .. L + Reqs, b \in AllPages : x = <<l, b, Version[b]>>
    <3> SUFFICES ASSUME NEW x \in served' \ served
                 PROVE  \E l \in 0 .. L + Reqs, b \in AllPages : x = <<l, b, Version[b]>>
      OBVIOUS
    <3>1. PICK l \in 0 .. L + Reqs, b \in Pages[arm] : x = <<l, b, ver[b]>>
      BY <1>4 DEF Serves
    <3>2. b \in AllPages /\ Version[b] = ver[b]
      BY <1>1 DEF Version
    <3> QED BY <3>1, <3>2
  <2> QED BY <1>4, <2>1, <2>2 DEF Serves, PR!Next, PR!Serve, Version
<1>5. CASE UNCHANGED <<ver, served>>
  BY <1>2, <1>5 DEF Version
<1> QED BY <1>3, <1>4, <1>5 DEF Answers

\* The fetch-all arm answers with its own pages.
LEMMA LandAnswers ==
    ASSUME LandInv, FA1!Next
    PROVE  Answers(Pages["fa1"])
<1>0. Reqs \in Nat /\ L \in Nat /\ FLayers \subseteq 0 .. L + Reqs
  BY LandingFacts, ResidencyFacts DEF FLayers
<1>1. CASE /\ served' = {} /\ \A b \in FBlocks : ver'[b] \in {ver[b], ver[b] + 1}
  <2>1. ver \in [FBlocks -> Nat]
    BY DEF LandInv, LandTypes
  <2>2. ver' \in [FBlocks -> Nat]
    BY LandNext DEF LandInv, LandTypes
  <2> QED BY <1>1, <2>1, <2>2 DEF Answers, Renews, FBlocks
<1>2. CASE UNCHANGED <<ver, served>>
  BY <1>2 DEF Answers
<1>3. ASSUME ver' = ver, NEW l \in FLayers, NEW b \in FBlocks,
             served' = served \cup {<<l, b, ver[b]>>}
      PROVE  Answers(Pages["fa1"])
  BY <1>0, <1>3 DEF Answers, Serves, FBlocks
<1> QED BY <1>1, <1>2, <1>3, LandNext

\* So does the LRU arm.
LEMMA ResAnswers ==
    ASSUME ResInv, LRU!Next
    PROVE  Answers(Pages["lru"])
<1>0. Reqs \in Nat /\ L \in Nat /\ RRows \subseteq 0 .. L + Reqs
  BY LandingFacts, ResidencyFacts DEF RRows
<1>1. CASE /\ served' = {} /\ \A b \in RBlocks : ver'[b] \in {ver[b], ver[b] + 1}
  <2>1. ver \in [RBlocks -> Nat]
    BY DEF ResInv, ResTypes, MapTypes
  <2>2. ver' \in [RBlocks -> Nat]
    BY ResNext DEF ResInv, ResTypes, MapTypes
  <2> QED BY <1>1, <2>1, <2>2 DEF Answers, Renews, RBlocks
<1>2. CASE UNCHANGED <<ver, served>>
  BY <1>2 DEF Answers
<1>3. CASE /\ ver' = ver /\ served = {}
           /\ \A x \in served' : \E r \in RRows, b \in RBlocks : x = <<r, b, ver[b]>>
  BY <1>0, <1>3 DEF Answers, Serves, RBlocks
<1> QED BY <1>1, <1>2, <1>3, ResNext

\* And the decode behind a launch of the K5 kernel.
LEMMA ProbeAnswers ==
    ASSUME ProbeInv, K5!Next
    PROVE  Answers(Pages["k5"])
<1>1. CASE K5!DecodeReads
  <2>1. \A b \in KBlocks : K5!Read(b) = <<0, b, ver[b]>>
    <3> SUFFICES ASSUME NEW b \in KBlocks, p2s[b] >= 0 PROVE hot[p2s[b]] = b
      BY DEF K5!Read
    <3>1. p2s[b] \in K5!Slots
      BY DEF ProbeInv, ProbeTypes, K5!Absent, K5!Pending
    <3> QED BY <3>1 DEF ProbeInv, Advertised
  <2>2. served' = {K5!Read(b) : b \in KBlocks} /\ ver' = ver /\ served = {}
    BY <1>1 DEF K5!DecodeReads, KBlocks
  <2>3. 0 \in 0 .. L + Reqs
    BY LandingFacts, ResidencyFacts
  <2> QED BY <2>1, <2>2, <2>3 DEF Answers, Serves, KBlocks
<1>2. ASSUME NEW b \in misses, K5!Program(b) PROVE UNCHANGED <<ver, served>>
  BY <1>2 DEF K5!Program, K5!Draw, K5!Cas, K5!Verify, K5!GiveUp, K5!EvictOld, K5!Stamp,
              K5!Copy, K5!PublishPage, K5!Post, K5!DropStaged, K5!Release
<1> QED BY <1>1, <1>2 DEF K5!Next, Answers

ArmsInv == arm \in {"fa1", "lru", "k5"} /\ ArmFA1 /\ ArmLRU /\ ArmK5

\* An engine starts with one of the three arms and keeps it.
LEMMA ArmKept == Spec => [](arm \in {"fa1", "lru", "k5"})
<1>1. Init => arm \in {"fa1", "lru", "k5"}
  BY DEF Init
<1>2. arm \in {"fa1", "lru", "k5"} /\ [Next]_vars => (arm \in {"fa1", "lru", "k5"})'
  BY DEF Next, vars
<1> QED BY <1>1, <1>2, PTL DEF Spec

\* The tier implements PageReads: whatever the arm, and whatever its caches,
\* copies and rewrites do, the decode reads every selected page as it is in this
\* step (fa1_decode, fetch_pages, _k5b_kernel and the decode behind each).
THEOREM TierReads == Spec => Reads
<1>1. Init => PR!Init
  <2> SUFFICES ASSUME Init PROVE PR!Init
    OBVIOUS
  <2>1. ver = [b \in Pages[arm] |-> 0] /\ served = {}
    BY DEF Init, FA1!Init, LRU!Init, K5!Init
  <2>2. Version = [b \in AllPages |-> 0]
    BY <2>1 DEF Version
  <2> QED BY <2>1, <2>2 DEF PR!Init, Version
<1>2. ArmsInv /\ [Next]_vars => [PR!Next]_<<Version, served>>
  <2> SUFFICES ASSUME ArmsInv, [Next]_vars PROVE [PR!Next]_<<Version, served>>
    OBVIOUS
  <2>1. arm' = arm
    BY DEF Next, vars
  <2>2. Answers(Pages[arm])
    <3>1. CASE arm = "fa1" /\ FA1!Next
      BY <3>1, LandAnswers DEF ArmsInv, ArmFA1
    <3>2. CASE arm = "lru" /\ LRU!Next
      BY <3>2, ResAnswers DEF ArmsInv, ArmLRU
    <3>3. CASE arm = "k5" /\ K5!Next
      BY <3>3, ProbeAnswers DEF ArmsInv, ArmK5
    <3>4. CASE UNCHANGED vars
      BY <3>4 DEF vars, Answers
    <3> QED BY <3>1, <3>2, <3>3, <3>4 DEF Next
  <2> QED BY <2>1, <2>2, ArmReads DEF ArmsInv
<1>3. Spec => []ArmsInv
  BY ArmKept, LandingSafe, ResidencySafe, ProbeSafe, PTL DEF ArmsInv
<1>4. ArmsInv /\ [Next]_vars => [PR!Next]_<<[b \in AllPages |-> IF b \in Pages[arm] THEN ver[b] ELSE 0], served>>
  BY <1>2 DEF Version
<1> QED BY <1>1, <1>3, <1>4, PTL DEF Spec, Reads, PR!Spec

=============================================================================
