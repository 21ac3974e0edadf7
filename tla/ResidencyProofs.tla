------------------------------- MODULE ResidencyProofs -------------------------------
(***************************************************************************)
(* Proofs about the LRU arm, for any number of requests, blocks, slots,    *)
(* steps and any page tables and rewrites: the maps are inverse, a step    *)
(* whose pages fit decodes from the hot buffer, and eviction takes the     *)
(* oldest. The lemmas about finite sets of numbers and about lists come    *)
(* first; ArmsProofs uses them as well.                                    *)
(***************************************************************************)
EXTENDS Arms, Sequences, FiniteSetTheorems, FunctionTheorems,
        WellFoundedInduction, TLAPS

-----------------------------------------------------------------------------
(* Finite sets of numbers, and lists *)

\* The least-number principle for a set, from the library's for a relation.
LEMMA LeastByRelation ==
    ASSUME NEW T \in SUBSET Nat, NEW R,
           \E x \in T : \A y \in T : ~ (<<y, x>> \in R),
           \A x, y \in Nat : y < x => <<y, x>> \in R
    PROVE  \E x \in T : \A y \in T : x <= y
<1>1. PICK x \in T : \A y \in T : ~ (<<y, x>> \in R)
  OBVIOUS
<1>2. ASSUME NEW y \in T PROVE x <= y
  <2>1. ~ (<<y, x>> \in R)
    BY <1>1
  <2>2. x \in Nat /\ y \in Nat
    OBVIOUS
  <2>3. ~ (y < x)
    BY <2>1, <2>2
  <2> QED BY <2>2, <2>3
<1> QED BY <1>2

\* A non-empty set of naturals has a least element.
LEMMA Least ==
    ASSUME NEW T \in SUBSET Nat, T # {}
    PROVE  \E x \in T : \A y \in T : x <= y
<1>1. \E x \in T : \A y \in T : ~ (<<y, x>> \in OpToRel(<, Nat))
  BY NatLessThanWellFounded, WFMin, Zenon
<1>2. \A x, y \in Nat : y < x => <<y, x>> \in OpToRel(<, Nat)
  BY DEF OpToRel
<1> QED BY <1>1, <1>2, LeastByRelation, Zenon

\* Induction for a set of naturals.
LEMMA SetInduction ==
    ASSUME NEW T \in SUBSET Nat, 0 \in T, \A n \in T : n + 1 \in T
    PROVE  \A n \in Nat : n \in T
<1> SUFFICES ASSUME Nat \ T # {} PROVE FALSE
  OBVIOUS
<1>1. PICK x \in Nat \ T : \A y \in Nat \ T : x <= y
  BY Least
<1>2. x - 1 \in Nat /\ x - 1 \in T
  BY <1>1
<1>3. (x - 1) + 1 \in T
  BY <1>2
<1> QED BY <1>1, <1>3

\* The strictly ascending enumerations of a set.
Enumerations(B, n) ==
    {s \in [1 .. n -> B] : \A i, j \in 1 .. n : i < j => s[i] < s[j]}

\* Every finite set of naturals has one.
LEMMA EnumerationExists ==
    ASSUME NEW B \in SUBSET Nat, IsFiniteSet(B)
    PROVE  Enumerations(B, Cardinality(B)) # {}
<1> DEFINE T == {n \in Nat : \A C \in SUBSET Nat :
                   IsFiniteSet(C) /\ Cardinality(C) = n => Enumerations(C, n) # {}}
<1>1. 0 \in T
  <2>1. \A C : [i \in 1 .. 0 |-> 0] \in Enumerations(C, 0)
    BY DEF Enumerations
  <2> QED BY <2>1
<1>2. ASSUME NEW n \in T PROVE n + 1 \in T
  <2> SUFFICES ASSUME NEW C \in SUBSET Nat, IsFiniteSet(C), Cardinality(C) = n + 1
               PROVE  Enumerations(C, n + 1) # {}
    OBVIOUS
  <2>0. n \in Nat
    OBVIOUS
  <2>1. C # {}
    BY <2>0, FS_EmptySet
  <2>2. PICK m \in C : \A y \in C : m <= y
    BY <2>1, Least
  <2>3. IsFiniteSet(C \ {m}) /\ Cardinality(C \ {m}) = n
    <3>1. /\ IsFiniteSet(C \ {m})
          /\ Cardinality(C \ {m}) = IF m \in C THEN Cardinality(C) - 1 ELSE Cardinality(C)
      BY FS_RemoveElement, Zenon
    <3> QED BY <3>1, <2>0, <2>2
  <2>4. PICK s \in Enumerations(C \ {m}, n) : TRUE
    BY <2>3
  <2> DEFINE t == [i \in 1 .. n + 1 |-> IF i = 1 THEN m ELSE s[i - 1]]
  <2>5. \A i \in 1 .. n + 1 : i # 1 => i - 1 \in 1 .. n /\ s[i - 1] \in C /\ s[i - 1] > m
    <3> SUFFICES ASSUME NEW i \in 1 .. n + 1, i # 1
                 PROVE  i - 1 \in 1 .. n /\ s[i - 1] \in C /\ s[i - 1] > m
      OBVIOUS
    <3>1. i - 1 \in 1 .. n
      BY <2>0
    <3>2. s[i - 1] \in C \ {m}
      BY <3>1, <2>4 DEF Enumerations
    <3>3. m <= s[i - 1] /\ m # s[i - 1] /\ m \in Nat /\ s[i - 1] \in Nat
      BY <3>2, <2>2
    <3> QED BY <3>1, <3>2, <3>3
  <2>6. t \in [1 .. n + 1 -> C]
    BY <2>5
  <2>7. ASSUME NEW i \in 1 .. n + 1, NEW j \in 1 .. n + 1, i < j PROVE t[i] < t[j]
    <3>1. CASE i = 1
      BY <3>1, <2>5, <2>7
    <3>2. CASE i # 1
      <4>1. i - 1 \in 1 .. n /\ j - 1 \in 1 .. n /\ i - 1 < j - 1
        BY <3>2, <2>7
      <4> QED BY <4>1, <3>2, <2>7, <2>4 DEF Enumerations
    <3> QED BY <3>1, <3>2
  <2> HIDE DEF t
  <2> QED BY <2>6, <2>7 DEF Enumerations
<1>0. T \in SUBSET Nat
  OBVIOUS
<1>3. \A n \in Nat : n \in T
  <2> HIDE DEF T
  <2> QED BY <1>0, <1>1, <1>2, SetInduction
<1> QED BY <1>3, FS_CardinalityType

\* It lists every element once.
LEMMA EnumerationLists ==
    ASSUME NEW B \in SUBSET Nat, IsFiniteSet(B),
           NEW s \in Enumerations(B, Cardinality(B))
    PROVE  /\ s \in Seq(B) /\ Len(s) = Cardinality(B)
           /\ \A b \in B : \E i \in 1 .. Len(s) : s[i] = b
           /\ \A i, j \in 1 .. Len(s) : i < j => s[i] < s[j]
<1> DEFINE n == Cardinality(B)
<1>1. n \in Nat /\ s \in [1 .. n -> B]
  BY FS_CardinalityType DEF Enumerations
<1>2. s \in Injection(1 .. n, B)
  <2>1. ASSUME NEW i \in 1 .. n, NEW j \in 1 .. n, s[i] = s[j] PROVE i = j
    <3>0. s[i] \in B
      BY <1>1
    <3>1. s[i] \in Nat
      BY <3>0
    <3>3. i \in Int /\ j \in Int
      BY <1>1
    <3>2. ~(i < j) /\ ~(j < i)
      BY <3>1, <2>1 DEF Enumerations
    <3> QED BY <3>3, <3>2
  <2> QED BY <1>1, <2>1 DEF Injection, IsInjective
<1>3. Cardinality(1 .. n) = n
  BY <1>1, FS_Interval
<1>4. s \in Surjection(1 .. n, B)
  BY <1>2, <1>3, FS_Injection
<1>5. \A b \in B : \E i \in 1 .. n : s[i] = b
  BY <1>4 DEF Surjection
<1>6. s \in Seq(B) /\ Len(s) = n
  BY <1>1
<1> QED BY <1>5, <1>6 DEF Enumerations

\* The cardinality the LRU arm counts with is the library's.
LEMMA CardinalityLRU == \A S : LRU!Cardinality(S) = Cardinality(S)
BY DEF Cardinality, LRU!Cardinality

\* The page table of the LRU arm lists the selected blocks, ascending.
LEMMA AscendingLRU ==
    ASSUME NEW B \in SUBSET Nat, IsFiniteSet(B)
    PROVE  /\ LRU!Ascending(B) \in Seq(B) /\ Len(LRU!Ascending(B)) = Cardinality(B)
           /\ \A b \in B : \E i \in 1 .. Len(LRU!Ascending(B)) : LRU!Ascending(B)[i] = b
           /\ \A i, j \in 1 .. Len(LRU!Ascending(B)) :
                i < j => LRU!Ascending(B)[i] < LRU!Ascending(B)[j]
<1>1. Cardinality(B) \in Nat
  BY FS_CardinalityType
<1>2. \A s \in [1 .. Cardinality(B) -> B] :
        (\A i, j \in DOMAIN s : i < j => s[i] < s[j]) <=> s \in Enumerations(B, Cardinality(B))
  BY DEF Enumerations
<1>3. \E s \in [1 .. Cardinality(B) -> B] : s \in Enumerations(B, Cardinality(B))
  BY EnumerationExists DEF Enumerations
<1>4. LRU!Ascending(B) \in Enumerations(B, Cardinality(B))
  BY <1>2, <1>3, CardinalityLRU DEF LRU!Ascending
<1> QED BY <1>4, EnumerationLists

-----------------------------------------------------------------------------
(* A list of lists, laid end to end: flatten[i] is the first i of them. *)

Laid(ss, g, i) == IF i = 1 THEN ss[i] ELSE g[i - 1] \o ss[i]
Flattens(ss, k, g) == g = [i \in 1 .. k |-> Laid(ss, g, i)]

\* A list of lists can be laid end to end.
LEMMA FlattenExists ==
    ASSUME NEW ss, NEW n \in Nat
    PROVE  \E g : Flattens(ss, n, g)
<1> DEFINE T == {k \in Nat : \E g : Flattens(ss, k, g)}
<1>1. 0 \in T
  <2>1. \A g : [i \in 1 .. 0 |-> Laid(ss, g, i)] = <<>>
    OBVIOUS
  <2>2. Flattens(ss, 0, <<>>)
    BY <2>1 DEF Flattens
  <2> QED BY <2>2
<1>2. ASSUME NEW k \in T PROVE k + 1 \in T
  <2>1. PICK g : Flattens(ss, k, g)
    OBVIOUS
  <2> DEFINE e == [i \in 1 .. k + 1 |-> IF i <= k THEN g[i] ELSE Laid(ss, g, i)]
  <2>2. k \in Nat
    OBVIOUS
  <2>3. \A i \in 1 .. k : e[i] = g[i]
    BY <2>2
  <2>4. \A i \in 1 .. k + 1 : Laid(ss, e, i) = Laid(ss, g, i)
    <3>1. \A i \in 1 .. k + 1 : i # 1 => i - 1 \in 1 .. k
      BY <2>2
    <3> HIDE DEF e
    <3> QED BY <2>3, <3>1 DEF Laid
  <2>5. \A i \in 1 .. k : g[i] = Laid(ss, g, i)
    BY <2>1 DEF Flattens
  <2>6. e = [i \in 1 .. k + 1 |-> Laid(ss, e, i)]
    <3>1. \A i \in 1 .. k + 1 : e[i] = Laid(ss, e, i)
      <4>1. \A i \in 1 .. k + 1 : e[i] = Laid(ss, g, i)
        BY <2>2, <2>5
      <4> HIDE DEF e
      <4> QED BY <4>1, <2>4
    <3>2. e = [i \in 1 .. k + 1 |-> e[i]]
      OBVIOUS
    <3> HIDE DEF e
    <3> QED BY <3>1, <3>2
  <2> HIDE DEF e
  <2>7. Flattens(ss, k + 1, e)
    BY <2>6 DEF Flattens
  <2> QED BY <2>2, <2>7
<1> HIDE DEF T
<1>3. n \in T
  BY <1>1, <1>2, SetInduction DEF T
<1> QED BY <1>3 DEF T

\* The elements of a list.
Elements(w) == {w[j] : j \in 1 .. Len(w)}

\* The elements of two lists laid end to end.
LEMMA LaidElements ==
    ASSUME NEW X, NEW p \in Seq(X), NEW q \in Seq(X)
    PROVE  Elements(p \o q) = Elements(p) \cup Elements(q)
<1>1. /\ Len(p \o q) = Len(p) + Len(q) /\ Len(p) \in Nat /\ Len(q) \in Nat
      /\ \A j \in 1 .. Len(p) : (p \o q)[j] = p[j]
      /\ \A j \in 1 .. Len(q) : (p \o q)[Len(p) + j] = q[j]
  OBVIOUS
<1>2. \A j \in 1 .. Len(q) : Len(p) + j \in 1 .. Len(p \o q)
  BY <1>1
<1>3. \A j \in 1 .. Len(p) : j \in 1 .. Len(p \o q)
  BY <1>1
<1>4. ASSUME NEW j \in 1 .. Len(p \o q)
      PROVE  (p \o q)[j] \in Elements(p) \cup Elements(q)
  <2>1. CASE j <= Len(p)
    <3>1. j \in 1 .. Len(p)
      BY <2>1, <1>1
    <3> QED BY <3>1, <1>1 DEF Elements
  <2>2. CASE j > Len(p)
    <3>1. j - Len(p) \in 1 .. Len(q) /\ Len(p) + (j - Len(p)) = j
      BY <2>2, <1>1
    <3>2. (p \o q)[Len(p) + (j - Len(p))] = q[j - Len(p)]
      BY <3>1, <1>1
    <3> QED BY <3>1, <3>2 DEF Elements
  <2> QED BY <2>1, <2>2, <1>1
<1>5. ASSUME NEW j \in 1 .. Len(p) PROVE p[j] \in Elements(p \o q)
  BY <1>1, <1>3 DEF Elements
<1>6. ASSUME NEW j \in 1 .. Len(q) PROVE q[j] \in Elements(p \o q)
  BY <1>1, <1>2 DEF Elements
<1>7. \A w, x : x \in Elements(w) <=> \E j \in 1 .. Len(w) : w[j] = x
  BY DEF Elements
<1> QED BY <1>4, <1>5, <1>6, <1>7

\* What laying n lists of at most M elements end to end gives.
LEMMA FlattenLRU ==
    ASSUME NEW X, NEW n \in Nat \ {0}, NEW M \in Nat, NEW ss \in [1 .. n -> Seq(X)],
           \A i \in 1 .. n : Len(ss[i]) <= M
    PROVE  /\ LRU!FlattenSeq(ss) \in Seq(X) /\ Len(LRU!FlattenSeq(ss)) <= n * M
           /\ Elements(LRU!FlattenSeq(ss)) = UNION {Elements(ss[i]) : i \in 1 .. n}
<1> DEFINE f == CHOOSE g : Flattens(ss, n, g)
           Good(i) == /\ f[i] \in Seq(X) /\ Len(f[i]) <= i * M
                      /\ Elements(f[i]) = UNION {Elements(ss[h]) : h \in 1 .. i}
           T == {k \in Nat : k + 1 <= n => Good(k + 1)}
<1>1. Flattens(ss, n, f)
  BY FlattenExists
<1> HIDE DEF f
<1>2. \A i \in 1 .. n : f[i] = Laid(ss, f, i)
  BY <1>1 DEF Flattens
<1>3. 0 \in T
  <2>1. f[1] = ss[1]
    BY <1>2 DEF Laid
  <2>3. ss[1] \in Seq(X) /\ Len(ss[1]) <= M
    OBVIOUS
  <2>4. 1 * M = M
    OBVIOUS
  <2>5. Elements(ss[1]) = UNION {Elements(ss[h]) : h \in 1 .. 1}
    <3>1. 1 .. 1 = {1}
      OBVIOUS
    <3> QED BY <3>1
  <2>6. Good(1)
    BY <2>1, <2>3, <2>4, <2>5
  <2>7. 0 + 1 = 1
    OBVIOUS
  <2>9. 0 + 1 <= n => Good(0 + 1)
    <3> HIDE DEF Good
    <3> QED BY <2>7, <2>6
  <2> QED BY <2>9
<1>4. ASSUME NEW k \in T PROVE k + 1 \in T
  <2>0. k \in Nat
    OBVIOUS
  <2> SUFFICES ASSUME (k + 1) + 1 <= n PROVE Good((k + 1) + 1)
    BY <2>0
  <2>1. Good(k + 1)
    BY <2>0
  <2>2. f[(k + 1) + 1] = f[k + 1] \o ss[(k + 1) + 1]
    <3>1. (k + 1) + 1 \in 1 .. n /\ (k + 1) + 1 # 1 /\ ((k + 1) + 1) - 1 = k + 1
      BY <2>0
    <3>2. f[(k + 1) + 1] = Laid(ss, f, (k + 1) + 1)
      BY <3>1, <1>2
    <3> QED BY <3>1, <3>2 DEF Laid
  <2> DEFINE p == f[k + 1]
             q == ss[(k + 1) + 1]
  <2>3. p \in Seq(X) /\ q \in Seq(X) /\ Len(q) <= M /\ Len(p) <= (k + 1) * M
    BY <2>0, <2>1
  <2>4. Len(p \o q) = Len(p) + Len(q) /\ p \o q \in Seq(X)
    BY <2>3
  <2>5. ((k + 1) + 1) * M = (k + 1) * M + M
    BY <2>0
  <2>6. Len(p \o q) <= ((k + 1) + 1) * M
    <3> HIDE DEF p, q
    <3>1. Len(p) \in Nat /\ Len(q) \in Nat /\ (k + 1) * M \in Nat
      BY <2>0, <2>3
    <3> QED BY <3>1, <2>3, <2>4, <2>5
  <2>7. Elements(p \o q) = Elements(p) \cup Elements(q)
    BY <2>3, LaidElements
  <2>8. \A h : h \in 1 .. (k + 1) + 1 <=> h \in 1 .. k + 1 \/ h = (k + 1) + 1
    BY <2>0
  <2>9. UNION {Elements(ss[h]) : h \in 1 .. (k + 1) + 1}
          = (UNION {Elements(ss[h]) : h \in 1 .. k + 1}) \cup Elements(ss[(k + 1) + 1])
    BY <2>8
  <2> HIDE DEF p, q
  <2>10. Elements(f[(k + 1) + 1]) = UNION {Elements(ss[h]) : h \in 1 .. (k + 1) + 1}
    BY <2>1, <2>2, <2>7, <2>9 DEF p, q
  <2>11. f[(k + 1) + 1] \in Seq(X) /\ Len(f[(k + 1) + 1]) <= ((k + 1) + 1) * M
    BY <2>2, <2>4, <2>6 DEF p, q
  <2> QED BY <2>10, <2>11
<1>5. T \in SUBSET Nat
  OBVIOUS
<1>6. n - 1 \in T
  <2>1. n - 1 \in Nat
    OBVIOUS
  <2> HIDE DEF T
  <2> QED BY <2>1, <1>3, <1>4, <1>5, SetInduction
<1>7. Good(n)
  <2>1. (n - 1) + 1 = n
    OBVIOUS
  <2>2. (n - 1) + 1 <= n => Good((n - 1) + 1)
    BY <1>6
  <2> HIDE DEF Good
  <2> QED BY <2>1, <2>2
<1>8. LRU!FlattenSeq(ss) = f[n]
  <2>1. Len(ss) = n
    OBVIOUS
  <2> QED BY <2>1 DEF LRU!FlattenSeq, f, Flattens, Laid
<1> QED BY <1>7, <1>8

-----------------------------------------------------------------------------
(* The inductive invariant, the step prologue and the miss-diff *)

RBlocks == Pages["lru"]
RSlots == 1 .. HotSlots["lru"]
RRows == 1 .. Reqs
FCAP == Reqs * MaxSel

\* What the constants of the LRU arm are.
LEMMA ResidencyFacts ==
    /\ RBlocks \subseteq Nat /\ IsFiniteSet(RBlocks)
    /\ HotSlots["lru"] \in Nat \ {0} /\ Reqs \in Nat \ {0} /\ MaxSel \in Nat \ {0}
    /\ FCAP \in Nat
    /\ Picks["lru"] \subseteq SUBSET RBlocks
    /\ \A B \in Picks["lru"] : Cardinality(B) <= MaxSel
    /\ Writes \subseteq SUBSET RBlocks
    /\ LRU!Slots = RSlots /\ LRU!Rows = RRows /\ LRU!None = -1 /\ LRU!FCAP = FCAP
    /\ \A S : LRU!Cardinality(S) = Cardinality(S)
    /\ \A s \in RSlots : s \in Nat \ {0} /\ s # -1
    /\ \A b \in RBlocks : b \in Nat /\ b # -1
<1>1. \A S : LRU!IsFiniteSet(S) <=> IsFiniteSet(S)
  BY DEF IsFiniteSet, LRU!IsFiniteSet
<1>2. /\ RBlocks \subseteq Nat /\ IsFiniteSet(RBlocks)
      /\ HotSlots["lru"] \in Nat \ {0} /\ Reqs \in Nat \ {0} /\ MaxSel \in Nat \ {0}
      /\ Picks["lru"] \subseteq SUBSET RBlocks
      /\ \A B \in Picks["lru"] : Cardinality(B) <= MaxSel
      /\ Writes \subseteq SUBSET RBlocks
  BY <1>1, CardinalityLRU, ArmsAssumption DEF LRU!ResidencyConstants, RBlocks
<1>3. FCAP \in Nat
  BY <1>2 DEF FCAP
<1> QED BY <1>2, <1>3, CardinalityLRU
        DEF LRU!Slots, LRU!Rows, LRU!None, LRU!FCAP, FCAP, RSlots, RRows

\* The complete pages this step selected.
Chosen == {b \in LRU!Selected : b \notin partial}
PageAt(i) == miss[i][2]

MapTypes ==
  /\ at \in {"prologue", "diff", "victims", "fetch"}
  /\ ver \in [RBlocks -> Nat] /\ pinned \in [RBlocks -> Nat \cup {-1}]
  /\ staged \subseteq RBlocks /\ valid \subseteq RBlocks /\ partial \subseteq RBlocks
  /\ p2s \in [RBlocks -> RSlots \cup {-1}] /\ s2p \in [RSlots -> RBlocks \cup {-1}]
  /\ lru \in [RSlots -> Nat] /\ clock \in Nat \ {0}
  /\ hot \in [RSlots -> (RBlocks \cup {-1}) \X (Nat \cup {-1})]
  /\ used \in [RBlocks -> Nat]
ListTypes ==
  /\ sel \in [RRows -> Seq(RBlocks)]
  /\ miss \in Seq(RRows \X RBlocks) /\ victim \in Seq(RSlots \cup {-1})
  /\ Len(miss) <= FCAP
  /\ pos = Len(victim) + 1 /\ Len(victim) <= Len(miss)
ResTypes == MapTypes /\ ListTypes

\* Where the step is, and what it has built so far.
Phases ==
  /\ at # "prologue" => served = {}
  /\ at \in {"prologue", "diff"} => miss = <<>>
  /\ at = "fetch" => Len(victim) = Len(miss)
  /\ at # "fetch" => todo = {} /\ dma = {}
  /\ todo \subseteq {i \in 1 .. Len(victim) : victim[i] # -1}
  /\ \A e \in dma : e[1] \in valid /\ e[2] \in RSlots /\ p2s[e[1]] = e[2]
                    /\ e = <<e[1], e[2]>>

\* A pinned copy that may be read is of this step; what is not staged has one.
Current ==
  /\ \A b \in valid : pinned[b] = ver[b]
  /\ \A b \in RBlocks : b \in staged \/ b \in valid

Inverses ==
  /\ \A b \in RBlocks : p2s[b] # -1 => s2p[p2s[b]] = b
  /\ \A s \in RSlots : s2p[s] # -1 => p2s[s2p[s]] = s

\* A slot's clock is the step that last selected its page.
Recent ==
  /\ \A b \in RBlocks : p2s[b] # -1 => used[b] = lru[p2s[b]]
  /\ \A s \in RSlots : lru[s] <= clock
  /\ \A b \in partial : p2s[b] = -1

\* In the walk: every miss was selected; what was selected carries this step's
\* clock, so the walk takes no slot of it; a slot with this step's clock holds a
\* selected page; and a selected page is resident or still ahead of the walk,
\* unless the slots do not suffice.
Walk ==
  at \in {"victims", "fetch"} =>
    /\ \A i \in 1 .. Len(miss) : PageAt(i) \in Chosen
    /\ \A b \in Chosen : used[b] = clock
    /\ \A s \in RSlots : lru[s] = clock => s2p[s] \in Chosen
    /\ \A i \in 1 .. Len(victim) : victim[i] # -1 => p2s[PageAt(i)] = victim[i]
    /\ Cardinality(Chosen) <= HotSlots["lru"] =>
         \A b \in Chosen : p2s[b] # -1 \/ \E i \in pos .. Len(miss) : PageAt(i) = b

\* The slot of a resident page has its bytes, or they are on their way.
Filled ==
  \A b \in RBlocks : p2s[b] # -1 =>
    \/ hot[p2s[b]] = <<b, ver[b]>>
    \/ at = "victims" /\ \E i \in 1 .. Len(victim) : victim[i] = p2s[b] /\ PageAt(i) = b
    \/ at = "fetch" /\ \/ \E i \in todo : victim[i] = p2s[b] /\ PageAt(i) = b
                       \/ <<b, p2s[b]>> \in dma

ResInv == ResTypes /\ Phases /\ Current /\ Inverses /\ Recent /\ Walk /\ Filled

\* A freshly started LRU arm is in the invariant.
LEMMA ResInit == LRU!Init => ResInv
<1> SUFFICES ASSUME LRU!Init PROVE ResInv
  OBVIOUS
<1> USE ResidencyFacts
<1>1. MapTypes /\ ListTypes
  <2>1. <<>> \in Seq(RBlocks) /\ <<>> \in Seq(RRows \X RBlocks) /\ <<>> \in Seq(RSlots \cup {-1}) /\ Len(<<>>) = 0
    OBVIOUS
  <2> QED BY <2>1 DEF LRU!Init, MapTypes, ListTypes, RBlocks
<1>2. Phases
  BY DEF LRU!Init, Phases
<1>3. Current /\ Inverses /\ Recent /\ Walk /\ Filled
  BY DEF LRU!Init, Current, Inverses, Recent, Walk, Filled, RBlocks
<1> QED BY <1>1, <1>2, <1>3 DEF ResInv, ResTypes

\* begin_step keeps it: it drops what the step rewrites, and ticks the clock.
LEMMA ResBegin ==
    ASSUME ResInv, LRU!BeginStep
    PROVE  ResInv'
<1> USE ResidencyFacts DEF ResInv, ResTypes
<1>1. PICK W \in Writes, F \in SUBSET staged, P \in SUBSET RBlocks :
       /\ F \cap W = {} /\ P \subseteq W
       /\ ver' = [b \in RBlocks |-> IF b \in W THEN ver[b] + 1 ELSE ver[b]]
       /\ p2s' = LRU!InvalidP2S(W) /\ s2p' = LRU!InvalidS2P(W)
       /\ valid' = (valid \ W) \cup F
       /\ staged' = (staged \cup W) \ F
       /\ pinned' = [b \in RBlocks |-> IF b \in F THEN ver[b] ELSE pinned[b]]
       /\ partial' = P
  BY DEF LRU!BeginStep, RBlocks
<1>2. /\ at = "prologue" /\ at' = "diff" /\ served' = {}
      /\ UNCHANGED <<fetch, lru, clock, hot, sel, miss, pos, victim, overflow,
                     todo, dma, used>>
  BY DEF LRU!BeginStep
<1>3. /\ W \subseteq RBlocks /\ F \subseteq RBlocks
      /\ \A b \in RBlocks : p2s'[b] = IF b \in W THEN -1 ELSE p2s[b]
      /\ \A s \in RSlots : s2p'[s] = IF \E b \in W : p2s[b] = s THEN -1 ELSE s2p[s]
      /\ p2s' \in [RBlocks -> RSlots \cup {-1}] /\ s2p' \in [RSlots -> RBlocks \cup {-1}]
  BY <1>1 DEF MapTypes, LRU!InvalidP2S, LRU!InvalidS2P, RBlocks
<1>4. ResTypes'
  <2>1. /\ ver' \in [RBlocks -> Nat] /\ pinned' \in [RBlocks -> Nat \cup {-1}]
        /\ staged' \subseteq RBlocks /\ valid' \subseteq RBlocks /\ partial' \subseteq RBlocks
    BY <1>1, <1>3 DEF MapTypes
  <2>2. MapTypes'
    BY <1>2, <1>3, <2>1 DEF MapTypes
  <2>3. ListTypes'
    BY <1>2 DEF ListTypes
  <2> QED BY <2>2, <2>3
<1>5. Phases'
  BY <1>2 DEF Phases
<1>6. Current'
  BY <1>1, <1>3 DEF Current, MapTypes
<1>7. Inverses'
  <2>1. \A b \in RBlocks, c \in W : p2s[b] = p2s[c] /\ p2s[b] # -1 => b = c
    BY <1>3 DEF Inverses
  <2>2. ASSUME NEW b \in RBlocks, p2s'[b] # -1 PROVE s2p'[p2s'[b]] = b
    <3>1. b \notin W /\ p2s'[b] = p2s[b] /\ p2s[b] \in RSlots /\ s2p[p2s[b]] = b
      BY <2>2, <1>3 DEF Inverses, MapTypes
    <3> QED BY <3>1, <2>1, <1>3
  <2>3. ASSUME NEW s \in RSlots, s2p'[s] # -1 PROVE p2s'[s2p'[s]] = s
    <3>1. s2p'[s] = s2p[s] /\ p2s[s2p[s]] = s /\ s2p[s] \in RBlocks /\ s2p[s] \notin W
      BY <2>3, <1>3 DEF Inverses, MapTypes
    <3> QED BY <3>1, <1>3
  <2> QED BY <2>2, <2>3 DEF Inverses
<1>8. Recent'
  BY <1>1, <1>2, <1>3 DEF Recent
<1>9. Walk'
  BY <1>2 DEF Walk
<1>10. Filled'
  BY <1>1, <1>2, <1>3 DEF Filled, MapTypes
<1> QED BY <1>4, <1>5, <1>6, <1>7, <1>8, <1>9, <1>10

\* What the launch of _miss_diff_kernel leaves: the tables, and the misses of
\* every request, at most MaxSel each.
LEMMA ListedMisses ==
    ASSUME NEW T \in [RRows -> Picks["lru"]],
           sel' = [r \in LRU!Rows |-> LRU!Ascending(T[r])],
           miss' = LRU!FlattenSeq([r \in LRU!Rows |-> LRU!MissesOf(r, T[r])])
    PROVE  /\ sel' \in [RRows -> Seq(RBlocks)]
           /\ LRU!Selected' = UNION {T[r] : r \in RRows}
           /\ miss' \in Seq(RRows \X RBlocks) /\ Len(miss') <= FCAP
           /\ Elements(miss')
                = UNION {{<<r, b>> : b \in {c \in T[r] : c \notin partial /\ p2s[c] = -1}} :
                           r \in RRows}
<1> USE ResidencyFacts
<1> DEFINE M(r) == {b \in T[r] : b \notin partial /\ p2s[b] = -1}
           ss == [r \in RRows |-> LRU!MissesOf(r, T[r])]
<1>1. ASSUME NEW r \in RRows
      PROVE  /\ T[r] \in SUBSET RBlocks /\ IsFiniteSet(T[r]) /\ Cardinality(T[r]) <= MaxSel
             /\ M(r) \in SUBSET RBlocks /\ IsFiniteSet(M(r)) /\ Cardinality(M(r)) <= MaxSel
  <2>1. T[r] \in SUBSET RBlocks /\ Cardinality(T[r]) <= MaxSel
    OBVIOUS
  <2>2. IsFiniteSet(T[r])
    BY <2>1, FS_Subset
  <2>3. M(r) \in SUBSET T[r]
    OBVIOUS
  <2>4. IsFiniteSet(M(r)) /\ Cardinality(M(r)) <= Cardinality(T[r])
    <3> HIDE DEF M
    <3> QED BY <2>2, <2>3, FS_Subset
  <2>5. Cardinality(M(r)) \in Nat /\ Cardinality(T[r]) \in Nat
    BY <2>2, <2>4, FS_CardinalityType
  <2> HIDE DEF M
  <2> QED BY <2>1, <2>2, <2>3, <2>4, <2>5
<1>2. ASSUME NEW r \in RRows
      PROVE  sel'[r] \in Seq(RBlocks) /\ {sel'[r][i] : i \in DOMAIN sel'[r]} = T[r]
  <2>1. sel'[r] = LRU!Ascending(T[r])
    OBVIOUS
  <2>2. T[r] \in SUBSET Nat
    BY <1>1
  <2>3. /\ sel'[r] \in Seq(T[r])
        /\ \A b \in T[r] : \E i \in 1 .. Len(sel'[r]) : sel'[r][i] = b
    BY <2>1, <2>2, <1>1, AscendingLRU
  <2>4. ASSUME NEW w \in Seq(T[r]), \A b \in T[r] : \E i \in 1 .. Len(w) : w[i] = b
        PROVE  w \in Seq(RBlocks) /\ {w[i] : i \in DOMAIN w} = T[r]
    <3>1. DOMAIN w = 1 .. Len(w) /\ \A i \in 1 .. Len(w) : w[i] \in T[r]
      OBVIOUS
    <3>2. {w[i] : i \in DOMAIN w} = T[r]
      BY ONLY <3>1, <2>4
    <3>3. T[r] \subseteq RBlocks
      BY <1>1
    <3>4. w \in Seq(RBlocks)
      BY ONLY <3>3, w \in Seq(T[r])
    <3> QED BY ONLY <3>2, <3>4
  <2> QED BY ONLY <2>3, <2>4
<1>3. sel' \in [RRows -> Seq(RBlocks)]
  BY <1>2
<1>4. LRU!Selected' = UNION {T[r] : r \in RRows}
  <2>1. LRU!Selected' = UNION {{sel'[r][i] : i \in DOMAIN sel'[r]} : r \in RRows}
    BY DEF LRU!Selected
  <2> HIDE DEF M, ss
  <2>2. \A r \in RRows : {sel'[r][i] : i \in DOMAIN sel'[r]} = T[r]
    BY <1>2
  <2> QED BY <2>1, <2>2
<1>5. ASSUME NEW r \in RRows
      PROVE  /\ ss[r] \in Seq(RRows \X RBlocks) /\ Len(ss[r]) <= MaxSel
             /\ Elements(ss[r]) = {<<r, b>> : b \in M(r)}
  <2> DEFINE A == LRU!Ascending(M(r))
  <2>1. ss[r] = [i \in DOMAIN A |-> <<r, A[i]>>]
    BY DEF LRU!MissesOf, LRU!Complete
  <2>2. M(r) \in SUBSET Nat
    BY <1>1
  <2>3. /\ A \in Seq(M(r)) /\ Len(A) = Cardinality(M(r))
        /\ \A b \in M(r) : \E i \in 1 .. Len(A) : A[i] = b
    <3> HIDE DEF M
    <3> QED BY <2>2, <1>1, AscendingLRU
  <2> HIDE DEF M, A, ss
  <2>4. DOMAIN A = 1 .. Len(A) /\ Len(A) \in Nat /\ \A i \in 1 .. Len(A) : A[i] \in M(r)
    BY <2>3
  <2>5. ss[r] \in Seq(RRows \X RBlocks) /\ Len(ss[r]) = Len(A)
    BY <2>1, <2>4, <1>1
  <2>6. Elements(ss[r]) = {<<r, b>> : b \in M(r)}
    BY <2>1, <2>3, <2>4, <2>5 DEF Elements
  <2> QED BY <2>3, <2>5, <2>6, <1>1
<1>6. ss \in [1 .. Reqs -> Seq(RRows \X RBlocks)]
  BY <1>5 DEF RRows
<1>7. miss' = LRU!FlattenSeq(ss)
  OBVIOUS
<1> HIDE DEF ss, M
<1>8. /\ miss' \in Seq(RRows \X RBlocks) /\ Len(miss') <= FCAP
      /\ Elements(miss') = UNION {Elements(ss[r]) : r \in 1 .. Reqs}
  <2>1. \A i \in 1 .. Reqs : Len(ss[i]) <= MaxSel
    BY <1>5 DEF RRows
  <2>2. Reqs \in Nat \ {0} /\ MaxSel \in Nat
    OBVIOUS
  <2>3. /\ LRU!FlattenSeq(ss) \in Seq(RRows \X RBlocks) /\ Len(LRU!FlattenSeq(ss)) <= Reqs * MaxSel
        /\ Elements(LRU!FlattenSeq(ss)) = UNION {Elements(ss[i]) : i \in 1 .. Reqs}
    BY ONLY <1>6, <2>1, <2>2, FlattenLRU
  <2> QED BY <1>7, <2>3 DEF FCAP
<1>9. UNION {Elements(ss[r]) : r \in 1 .. Reqs} = UNION {{<<r, b>> : b \in M(r)} : r \in RRows}
  BY <1>5 DEF RRows
<1> QED BY <1>3, <1>4, <1>8, <1>9 DEF M

\* The miss-diff kernel keeps it: it touches the hits and lists the misses.
LEMMA ResMissDiff ==
    ASSUME ResInv, LRU!MissDiff
    PROVE  ResInv'
<1> USE ResidencyFacts DEF ResInv, ResTypes
<1>1. PICK T \in [RRows -> Picks["lru"]] :
       /\ sel' = [r \in LRU!Rows |-> LRU!Ascending(T[r])]
       /\ miss' = LRU!FlattenSeq([r \in LRU!Rows |-> LRU!MissesOf(r, T[r])])
       /\ lru' = LRU!Touches(UNION {T[r] : r \in LRU!Rows})
       /\ used' = [b \in RBlocks |->
                     IF b \in UNION {T[r] : r \in LRU!Rows} /\ LRU!Complete(b)
                     THEN clock + 1 ELSE used[b]]
  BY DEF LRU!MissDiff, RBlocks
<1>2. /\ at = "diff" /\ at' = "victims" /\ clock' = clock + 1 /\ pos' = 1 /\ victim' = <<>>
      /\ UNCHANGED <<fetch, ver, staged, valid, pinned, partial, p2s, s2p, hot, overflow,
                     todo, dma, served>>
  BY DEF LRU!MissDiff, LRU!bytes
<1> DEFINE picked == UNION {T[r] : r \in RRows}
<1>3. /\ sel' \in [RRows -> Seq(RBlocks)]
      /\ LRU!Selected' = picked
      /\ miss' \in Seq(RRows \X RBlocks) /\ Len(miss') <= FCAP
      /\ Elements(miss')
                = UNION {{<<r, b>> : b \in {c \in T[r] : c \notin partial /\ p2s[c] = -1}} :
                           r \in RRows}
  BY <1>1, ListedMisses
<1>4. picked \subseteq RBlocks
  OBVIOUS
<1>5. \A s \in RSlots : lru'[s] = IF \E b \in picked : b \notin partial /\ p2s[b] # -1 /\ p2s[b] = s
                                  THEN clock + 1 ELSE lru[s]
  BY <1>1 DEF LRU!Touches, LRU!Hit, LRU!Complete
<1>6. \A b \in RBlocks : used'[b] = IF b \in picked /\ b \notin partial THEN clock + 1 ELSE used[b]
  BY <1>1 DEF LRU!Complete
<1>7. Chosen' = {b \in picked : b \notin partial}
  BY <1>2, <1>3 DEF Chosen
<1>8. lru' \in [RSlots -> Nat] /\ used' \in [RBlocks -> Nat]
  BY <1>1 DEF LRU!Touches, MapTypes
<1>9. /\ \A i \in 1 .. Len(miss') : miss'[i][2] \in picked /\ miss'[i][2] \notin partial
      /\ \A b \in picked : b \notin partial /\ p2s[b] = -1 =>
           \E i \in 1 .. Len(miss') : miss'[i][2] = b
  <2>1. \A i \in 1 .. Len(miss') : miss'[i] \in Elements(miss')
    BY DEF Elements
  <2>2. \A x \in Elements(miss') : x[2] \in picked /\ x[2] \notin partial
    BY <1>3
  <2>3. ASSUME NEW b \in picked, b \notin partial, p2s[b] = -1
        PROVE  \E i \in 1 .. Len(miss') : miss'[i][2] = b
    <3>1. PICK r \in RRows : b \in T[r]
      OBVIOUS
    <3>2. <<r, b>> \in Elements(miss')
      BY <3>1, <2>3, <1>3
    <3>3. PICK i \in 1 .. Len(miss') : miss'[i] = <<r, b>>
      BY <3>2 DEF Elements
    <3> QED BY <3>3
  <2> QED BY <2>1, <2>2, <2>3
<1> HIDE DEF picked
<1>10. ResTypes'
  <2>1. MapTypes'
    BY <1>2, <1>8 DEF MapTypes
  <2>2. Len(<<>>) = 0 /\ <<>> \in Seq(RSlots \cup {-1}) /\ Len(miss') \in Nat
    BY <1>3
  <2>3. ListTypes'
    BY <1>2, <1>3, <2>2 DEF ListTypes
  <2> QED BY <2>1, <2>3
<1>11. Phases'
  BY <1>2 DEF Phases
<1>12. Current' /\ Inverses'
  BY <1>2 DEF Current, Inverses
<1>13. Recent'
  <2>1. ASSUME NEW b \in RBlocks, p2s[b] # -1 PROVE used'[b] = lru'[p2s[b]]
    <3>1. p2s[b] \in RSlots /\ b \notin partial
      BY <2>1 DEF MapTypes, Recent
    <3>2. \A c \in picked : p2s[c] = p2s[b] => c = b
      BY <2>1, <1>4 DEF Inverses
    <3> QED BY <2>1, <3>1, <3>2, <1>5, <1>6 DEF Recent
  <2>2. \A s \in RSlots : lru'[s] <= clock'
    BY <1>2, <1>5 DEF Recent, MapTypes
  <2> QED BY <2>1, <2>2, <1>2 DEF Recent
<1>14. Walk'
  <2>1. \A i \in 1 .. Len(miss') : PageAt(i)' \in Chosen'
    BY <1>7, <1>9 DEF PageAt
  <2>2. \A b \in Chosen' : used'[b] = clock'
    BY <1>2, <1>4, <1>6, <1>7
  <2>3. \A s \in RSlots : lru'[s] = clock' => s2p'[s] \in Chosen'
    <3> SUFFICES ASSUME NEW s \in RSlots, lru'[s] = clock'
                 PROVE  s2p[s] \in Chosen'
      BY <1>2
    <3>1. lru[s] # clock + 1
      BY DEF Recent, MapTypes
    <3>2. PICK b \in picked : b \notin partial /\ p2s[b] # -1 /\ p2s[b] = s
      BY <3>1, <1>2, <1>5
    <3> QED BY <3>2, <1>4, <1>7 DEF Inverses
  <2>4. \A b \in Chosen' : p2s'[b] # -1 \/ \E i \in pos' .. Len(miss') : PageAt(i)' = b
    BY <1>2, <1>7, <1>9 DEF PageAt
  <2>5. 1 .. Len(victim') = {}
    BY <1>2
  <2> QED BY <2>1, <2>2, <2>3, <2>4, <2>5 DEF Walk
<1>15. Filled'
  BY <1>2 DEF Filled, Phases
<1> QED BY <1>10, <1>11, <1>12, <1>13, <1>14, <1>15

-----------------------------------------------------------------------------
(* The walk of the misses *)

\* While some slot was not touched in this step, select_victims finds the oldest.
LEMMA OldestExists ==
    ASSUME lru \in [RSlots -> Nat], LRU!Candidates # {}
    PROVE  /\ LRU!Oldest \in RSlots /\ lru[LRU!Oldest] < clock
           /\ \A t \in LRU!Candidates \ {LRU!Oldest} :
                lru[LRU!Oldest] < lru[t] \/ (lru[LRU!Oldest] = lru[t] /\ LRU!Oldest < t)
<1> USE ResidencyFacts
<1>0. LRU!Candidates = {s \in RSlots : lru[s] < clock}
  BY DEF LRU!Candidates
<1> DEFINE Clocks == {lru[s] : s \in LRU!Candidates}
<1>1. Clocks \in SUBSET Nat /\ Clocks # {}
  BY <1>0
<1>2. PICK m \in Clocks : \A y \in Clocks : m <= y
  BY <1>1, Least
<1> DEFINE First == {s \in LRU!Candidates : lru[s] = m}
<1>3. First \in SUBSET Nat /\ First # {}
  BY <1>0
<1>4. PICK h \in First : \A y \in First : h <= y
  BY <1>3, Least
<1>5. h \in LRU!Candidates
  OBVIOUS
<1>6. ASSUME NEW t \in LRU!Candidates \ {h}
      PROVE  lru[h] < lru[t] \/ (lru[h] = lru[t] /\ h < t)
  <2>1. t \in RSlots /\ h \in RSlots /\ t \in Nat /\ h \in Nat /\ lru[t] \in Nat /\ lru[h] = m /\ m <= lru[t]
    BY <1>0, <1>2, <1>5
  <2>2. CASE lru[t] = m
    BY <2>1, <2>2, <1>4
  <2>3. CASE lru[t] # m
    BY <2>1, <2>3
  <2> QED BY <2>2, <2>3
<1> HIDE DEF Clocks, First
<1>7. \E s \in LRU!Candidates :
        \A t \in LRU!Candidates \ {s} : lru[s] < lru[t] \/ (lru[s] = lru[t] /\ s < t)
  BY <1>5, <1>6
<1>8. /\ LRU!Oldest \in LRU!Candidates
      /\ \A t \in LRU!Candidates \ {LRU!Oldest} :
                lru[LRU!Oldest] < lru[t] \/ (lru[LRU!Oldest] = lru[t] /\ LRU!Oldest < t)
  BY <1>7 DEF LRU!Oldest
<1> QED BY <1>8, <1>0

\* While the walk has a selected page to place, some slot is free of this
\* step's pages, if the slots suffice for them.
LEMMA SlotLeft ==
    ASSUME ResInv, at = "victims", Cardinality(Chosen) <= HotSlots["lru"],
           NEW b \in Chosen, p2s[b] = -1
    PROVE  LRU!Candidates # {}
<1> SUFFICES ASSUME LRU!Candidates = {} PROVE FALSE
  OBVIOUS
<1> USE ResidencyFacts DEF ResInv, ResTypes
<1> DEFINE f == [s \in RSlots |-> s2p[s]]
<1>1. Chosen \in SUBSET RBlocks
  BY DEF Chosen, LRU!Selected, ListTypes
<1>2. IsFiniteSet(Chosen)
  BY <1>1, FS_Subset
<1>3. \A s \in RSlots : lru[s] = clock
  <2> SUFFICES ASSUME NEW s \in RSlots PROVE lru[s] = clock
    OBVIOUS
  <2>1. lru[s] \in Nat /\ clock \in Nat /\ lru[s] <= clock
    BY DEF Recent, MapTypes
  <2>2. ~ (lru[s] < clock)
    BY DEF LRU!Candidates
  <2> QED BY <2>1, <2>2
<1>4. \A s \in RSlots : s2p[s] \in Chosen /\ p2s[s2p[s]] = s
  BY <1>1, <1>3 DEF Walk, Inverses
<1>5. f \in Injection(RSlots, Chosen)
  BY <1>4 DEF Injection, IsInjective
<1>6. Cardinality(RSlots) = HotSlots["lru"]
  <2>1. Cardinality(RSlots) = IF 1 > HotSlots["lru"] THEN 0 ELSE HotSlots["lru"] - 1 + 1
    <3>1. 1 \in Int /\ HotSlots["lru"] \in Int
      OBVIOUS
    <3> QED BY ONLY <3>1, FS_Interval DEF RSlots
  <2> QED BY <2>1
<1>7. /\ Cardinality(RSlots) <= Cardinality(Chosen)
      /\ Cardinality(RSlots) = Cardinality(Chosen) <=> f \in Surjection(RSlots, Chosen)
  BY <1>2, <1>5, FS_Injection
<1>8. Cardinality(Chosen) \in Nat
  BY <1>2, FS_CardinalityType
<1>9. f \in Surjection(RSlots, Chosen)
  BY <1>6, <1>7, <1>8
<1>10. PICK s \in RSlots : s2p[s] = b
  BY <1>9 DEF Surjection
<1> QED BY <1>4, <1>10

\* The victims of the walk so far and one more.
LEMMA AppendFacts ==
    ASSUME NEW V, NEW w \in Seq(V), NEW x \in V
    PROVE  /\ Append(w, x) \in Seq(V) /\ Len(Append(w, x)) = Len(w) + 1
           /\ Append(w, x)[Len(w) + 1] = x
           /\ \A i \in 1 .. Len(w) : Append(w, x)[i] = w[i]
           /\ \A i \in 1 .. Len(w) + 1 : i \in 1 .. Len(w) \/ i = Len(w) + 1
OBVIOUS

\* A miss that finds no victim keeps the invariant.
LEMMA ResNoVictim ==
    ASSUME ResInv, LRU!NoVictim
    PROVE  ResInv'
<1> USE ResidencyFacts DEF ResInv, ResTypes
<1>1. /\ at = "victims" /\ pos <= Len(miss)
      /\ p2s[PageAt(pos)] # -1 \/ LRU!Candidates = {}
      /\ victim' = Append(victim, -1) /\ pos' = pos + 1
      /\ UNCHANGED <<fetch, at, ver, staged, valid, pinned, partial, p2s, s2p, lru, clock,
                     hot, sel, miss, todo, dma, served, used>>
  BY DEF LRU!NoVictim, LRU!Walking, LRU!bytes, LRU!maps, LRU!Page, PageAt
<1>2. /\ victim \in Seq(RSlots \cup {-1}) /\ Len(victim) \in Nat /\ pos = Len(victim) + 1
      /\ Len(miss) \in Nat
  BY DEF ListTypes
<1>3. /\ victim' \in Seq(RSlots \cup {-1}) /\ Len(victim') = Len(victim) + 1
      /\ victim'[Len(victim) + 1] = -1
      /\ \A i \in 1 .. Len(victim) : victim'[i] = victim[i]
      /\ \A i \in 1 .. Len(victim') : i \in 1 .. Len(victim) \/ i = Len(victim) + 1
  BY <1>1, <1>2, AppendFacts
<1>4. ResTypes'
  <2>1. MapTypes'
    BY <1>1 DEF MapTypes
  <2>2. ListTypes'
    BY <1>1, <1>2, <1>3 DEF ListTypes
  <2> QED BY <2>1, <2>2
<1>5. Phases'
  BY <1>1, <1>2, <1>3 DEF Phases
<1>6. Current' /\ Inverses' /\ Recent'
  BY <1>1 DEF Current, Inverses, Recent
<1>7. LRU!Selected' = LRU!Selected /\ Chosen' = Chosen /\ PageAt(pos) \in Chosen
  <2>1. LRU!Selected' = LRU!Selected
    BY <1>1 DEF LRU!Selected
  <2>2. pos \in 1 .. Len(miss)
    BY <1>1, <1>2
  <2> QED BY <2>1, <2>2, <1>1 DEF Chosen, Walk
<1>8. Walk'
  <2>1. \A i \in 1 .. Len(miss') : PageAt(i)' \in Chosen'
    BY <1>1, <1>7 DEF Walk, PageAt
  <2>2. \A b \in Chosen' : used'[b] = clock'
    BY <1>1, <1>7 DEF Walk
  <2>3. \A s \in RSlots : lru'[s] = clock' => s2p'[s] \in Chosen'
    BY <1>1, <1>7 DEF Walk
  <2>4. \A i \in 1 .. Len(victim') : victim'[i] # -1 => p2s'[PageAt(i)'] = victim'[i]
    BY <1>1, <1>3 DEF Walk, PageAt
  <2>5. ASSUME Cardinality(Chosen) <= HotSlots["lru"], NEW b \in Chosen
        PROVE  p2s[b] # -1 \/ \E i \in pos' .. Len(miss) : PageAt(i) = b
    <3>1. p2s[b] # -1 \/ \E i \in pos .. Len(miss) : PageAt(i) = b
      BY <1>1, <2>5 DEF Walk
    <3>2. p2s[PageAt(pos)] # -1
      BY <1>1, <1>7, <2>5, SlotLeft
    <3>3. \A i \in pos .. Len(miss) : i = pos \/ i \in pos' .. Len(miss)
      BY <1>1, <1>2
    <3> QED BY <3>1, <3>2, <3>3
  <2>6. PageAt(1)' = PageAt(1) /\ \A i : miss'[i][2] = PageAt(i)
    BY <1>1 DEF PageAt
  <2> QED BY <2>1, <2>2, <2>3, <2>4, <2>5, <2>6, <1>1, <1>7 DEF Walk, PageAt
<1>9. Filled'
  <2>1. \A i \in 1 .. Len(victim) : i \in 1 .. Len(victim')
    BY <1>2, <1>3
  <2> QED BY <1>1, <1>3, <2>1 DEF Filled, PageAt
<1> QED BY <1>4, <1>5, <1>6, <1>8, <1>9

\* A miss that takes a slot keeps it, and takes the one least recently selected.
LEMMA ResInstall ==
    ASSUME ResInv, LRU!Install
    PROVE  ResInv' /\ LRU!OldestEvicted
<1> USE ResidencyFacts DEF ResInv, ResTypes
<1> DEFINE b == PageAt(pos)
           h == LRU!Oldest
<1>1. /\ at = "victims" /\ pos <= Len(miss)
      /\ p2s[b] = -1 /\ LRU!Candidates # {}
      /\ p2s' = [c \in RBlocks |-> IF c = b THEN h ELSE IF c = s2p[h] THEN -1 ELSE p2s[c]]
      /\ s2p' = [s2p EXCEPT ![h] = b]
      /\ lru' = [lru EXCEPT ![h] = clock]
      /\ victim' = Append(victim, h) /\ pos' = pos + 1
      /\ UNCHANGED <<fetch, at, ver, staged, valid, pinned, partial, clock,
                     hot, sel, miss, overflow, todo, dma, served, used>>
  BY DEF LRU!Install, LRU!Walking, LRU!bytes, LRU!Page, PageAt, RBlocks
<1>2. /\ victim \in Seq(RSlots \cup {-1}) /\ Len(victim) \in Nat /\ pos = Len(victim) + 1
      /\ Len(miss) \in Nat
  BY DEF ListTypes
<1>3. /\ h \in RSlots /\ lru[h] < clock
      /\ \A t \in LRU!Candidates \ {h} : lru[h] < lru[t] \/ (lru[h] = lru[t] /\ h < t)
  BY <1>1, OldestExists DEF MapTypes
<1> HIDE DEF h
<1>4. pos \in 1 .. Len(miss) /\ b \in Chosen /\ b \in RBlocks
  <2>1. pos \in 1 .. Len(miss)
    BY <1>1, <1>2
  <2>2. miss[pos] \in RRows \X RBlocks
    BY <2>1 DEF ListTypes
  <2> QED BY <2>1, <2>2, <1>1 DEF Walk, PageAt
<1> HIDE DEF b
<1>5. /\ victim' \in Seq(RSlots \cup {-1}) /\ Len(victim') = Len(victim) + 1
      /\ victim'[Len(victim) + 1] = h
      /\ \A i \in 1 .. Len(victim) : victim'[i] = victim[i]
      /\ \A i \in 1 .. Len(victim') : i \in 1 .. Len(victim) \/ i = Len(victim) + 1
  BY <1>1, <1>2, <1>3, AppendFacts
<1>6. /\ p2s' \in [RBlocks -> RSlots \cup {-1}]
      /\ \A c \in RBlocks : p2s'[c] = IF c = b THEN h ELSE IF c = s2p[h] THEN -1 ELSE p2s[c]
      /\ s2p' \in [RSlots -> RBlocks \cup {-1}]
      /\ \A s \in RSlots : s2p'[s] = IF s = h THEN b ELSE s2p[s]
      /\ lru' \in [RSlots -> Nat]
      /\ \A s \in RSlots : lru'[s] = IF s = h THEN clock ELSE lru[s]
  BY <1>1, <1>3, <1>4 DEF MapTypes
<1>7. ResTypes'
  <2>1. MapTypes'
    BY <1>1, <1>6 DEF MapTypes
  <2>2. ListTypes'
    BY <1>1, <1>2, <1>5 DEF ListTypes
  <2> QED BY <2>1, <2>2
<1>8. Phases'
  BY <1>1, <1>2, <1>5 DEF Phases
<1>9. Current'
  BY <1>1 DEF Current
\* Who keeps a slot, keeps another one.
<1>10. \A c \in RBlocks : c # b /\ p2s'[c] # -1 => p2s'[c] = p2s[c] /\ p2s[c] # -1 /\ p2s[c] # h
                                                    /\ p2s[c] \in RSlots
  BY <1>3, <1>6 DEF Inverses, MapTypes
<1>11. Inverses'
  <2>1. ASSUME NEW c \in RBlocks, p2s'[c] # -1 PROVE s2p'[p2s'[c]] = c
    <3>1. CASE c = b
      BY <3>1, <1>3, <1>6
    <3>2. CASE c # b
      <4>1. p2s'[c] = p2s[c] /\ p2s[c] # -1 /\ p2s[c] # h /\ p2s[c] \in RSlots
        BY <3>2, <2>1, <1>10
      <4>2. s2p[p2s[c]] = c
        BY <4>1 DEF Inverses
      <4> QED BY <4>1, <4>2, <1>6
    <3> QED BY <3>1, <3>2
  <2>2. ASSUME NEW s \in RSlots, s2p'[s] # -1 PROVE p2s'[s2p'[s]] = s
    <3>1. CASE s = h
      BY <3>1, <1>3, <1>4, <1>6
    <3>2. CASE s # h
      <4>1. s2p'[s] = s2p[s] /\ s2p[s] # -1 /\ s2p[s] \in RBlocks /\ p2s[s2p[s]] = s
        BY <3>2, <2>2, <1>6 DEF Inverses, MapTypes
      <4>2. s2p[s] # b
        BY <4>1, <1>1, <1>4
      <4>3. s2p[s] # s2p[h]
        BY <4>1, <1>3, <3>2 DEF Inverses
      <4> QED BY <4>1, <4>2, <4>3, <1>6
    <3> QED BY <3>1, <3>2
  <2> QED BY <2>1, <2>2 DEF Inverses
<1>12. used[b] = clock /\ b \notin partial
  BY <1>1, <1>4 DEF Walk, Chosen
<1>13. Recent'
  <2>1. ASSUME NEW c \in RBlocks, p2s'[c] # -1 PROVE used'[c] = lru'[p2s'[c]]
    <3>1. CASE c = b
      BY <3>1, <1>1, <1>3, <1>6, <1>12
    <3>2. CASE c # b
      BY <3>2, <2>1, <1>1, <1>6, <1>10 DEF Recent
    <3> QED BY <3>1, <3>2
  <2>2. \A s \in RSlots : lru'[s] <= clock'
    BY <1>1, <1>6 DEF Recent, MapTypes
  <2>3. \A c \in partial : p2s'[c] = -1
    BY <1>6, <1>12 DEF Recent, MapTypes
  <2> QED BY <2>1, <2>2, <2>3, <1>1 DEF Recent
<1>14. /\ LRU!Selected' = LRU!Selected /\ Chosen' = Chosen
       /\ \A c : c \in Chosen => c \in RBlocks
  <2>1. LRU!Selected' = LRU!Selected
    BY <1>1 DEF LRU!Selected
  <2>2. Chosen \in SUBSET RBlocks
    BY DEF Chosen, LRU!Selected, ListTypes
  <2> QED BY <2>1, <2>2, <1>1 DEF Chosen
\* No page of this step loses its slot.
<1>15. \A c \in Chosen : p2s[c] # -1 => p2s'[c] = p2s[c]
  <2> SUFFICES ASSUME NEW c \in Chosen, p2s[c] # -1, c = s2p[h] PROVE FALSE
    BY <1>1, <1>6, <1>14
  <2>1. p2s[c] = h
    BY <1>3, <1>14 DEF Inverses
  <2>2. used[c] = clock /\ used[c] = lru[h]
    BY <2>1, <1>1, <1>14 DEF Walk, Recent
  <2> QED BY <2>2, <1>3 DEF MapTypes
<1>16. Walk'
  <2>1. \A i \in 1 .. Len(miss') : PageAt(i)' \in Chosen'
    BY <1>1, <1>14 DEF Walk, PageAt
  <2>2. \A c \in Chosen' : used'[c] = clock'
    BY <1>1, <1>14 DEF Walk
  <2>3. \A s \in RSlots : lru'[s] = clock' => s2p'[s] \in Chosen'
    BY <1>1, <1>4, <1>6, <1>14 DEF Walk
  <2>4. ASSUME NEW i \in 1 .. Len(victim'), victim'[i] # -1
        PROVE  p2s'[PageAt(i)] = victim'[i]
    <3>1. CASE i = Len(victim) + 1
      BY <3>1, <1>2, <1>4, <1>5, <1>6 DEF b
    <3>2. CASE i \in 1 .. Len(victim)
      <4>1. i \in 1 .. Len(miss)
        BY <3>2, <1>1, <1>2
      <4>2. PageAt(i) \in Chosen /\ p2s[PageAt(i)] = victim[i] /\ victim'[i] = victim[i]
        BY <4>1, <3>2, <2>4, <1>1, <1>5 DEF Walk
      <4> QED BY <4>2, <2>4, <1>15
    <3> QED BY <3>1, <3>2, <1>5
  <2>5. ASSUME Cardinality(Chosen) <= HotSlots["lru"], NEW c \in Chosen
        PROVE  p2s'[c] # -1 \/ \E i \in pos' .. Len(miss) : PageAt(i) = c
    <3>1. p2s[c] # -1 \/ \E i \in pos .. Len(miss) : PageAt(i) = c
      BY <1>1, <2>5 DEF Walk
    <3>2. p2s'[PageAt(pos)] # -1
      BY <1>3, <1>4, <1>6 DEF b
    <3>3. \A i \in pos .. Len(miss) : i = pos \/ i \in pos' .. Len(miss)
      BY <1>1, <1>2
    <3>4. p2s[c] # -1 => p2s'[c] # -1
      BY <1>15
    <3> QED BY <3>1, <3>2, <3>3, <3>4
  <2>6. \A i : miss'[i][2] = PageAt(i)
    BY <1>1 DEF PageAt
  <2> QED BY <2>1, <2>2, <2>3, <2>4, <2>5, <2>6, <1>1, <1>14 DEF Walk, PageAt
<1>17. Filled'
  <2> SUFFICES ASSUME NEW c \in RBlocks, p2s'[c] # -1
               PROVE  \/ hot[p2s'[c]] = <<c, ver[c]>>
                      \/ \E i \in 1 .. Len(victim') : victim'[i] = p2s'[c] /\ PageAt(i) = c
    BY <1>1 DEF Filled, PageAt
  <2>1. CASE c = b
    <3>1. Len(victim) + 1 \in 1 .. Len(victim') /\ victim'[Len(victim) + 1] = h
      BY <1>2, <1>5
    <3> QED BY <3>1, <2>1, <1>2, <1>4, <1>6 DEF b
  <2>2. CASE c # b
    <3>1. p2s'[c] = p2s[c] /\ p2s[c] # -1
      BY <2>2, <1>10
    <3>2. \A i \in 1 .. Len(victim) : i \in 1 .. Len(victim')
      BY <1>2, <1>5
    <3> QED BY <3>1, <3>2, <1>1, <1>5 DEF Filled
  <2> QED BY <2>1, <2>2
<1>18. LRU!OldestEvicted
  <2> SUFFICES ASSUME NEW d \in RBlocks, NEW c \in RBlocks,
                      p2s[d] # -1, p2s'[d] = -1, p2s'[c] # -1, c # b
               PROVE  used[d] <= used[c]
    BY DEF LRU!OldestEvicted, LRU!Page, PageAt, b, RBlocks
  <2>1. d = s2p[h] /\ p2s[d] = h /\ used[d] = lru[h]
    BY <1>3, <1>6 DEF Inverses, Recent
  <2>2. p2s[c] \in RSlots /\ p2s[c] # h /\ used[c] = lru[p2s[c]]
    BY <1>10 DEF Recent
  <2>3. p2s[c] \in LRU!Candidates => lru[h] <= lru[p2s[c]]
    BY <2>2, <1>3 DEF MapTypes
  <2>4. p2s[c] \notin LRU!Candidates => lru[h] <= lru[p2s[c]]
    BY <2>2, <1>3 DEF LRU!Candidates, MapTypes
  <2> QED BY <2>1, <2>2, <2>3, <2>4
<1> QED BY <1>7, <1>8, <1>9, <1>11, <1>13, <1>16, <1>17, <1>18

-----------------------------------------------------------------------------
(* The fetch, the decode, and the theorems *)

\* Handing the plan to the fetch keeps it.
LEMMA ResFetchKernel ==
    ASSUME ResInv, LRU!FetchKernel
    PROVE  ResInv'
<1> USE ResidencyFacts DEF ResInv, ResTypes
<1>1. /\ at = "victims" /\ pos > Len(miss)
      /\ todo' = LRU!Listed /\ at' = "fetch"
      /\ UNCHANGED <<fetch, ver, staged, valid, pinned, partial, p2s, s2p, lru, clock,
                     hot, sel, miss, pos, victim, overflow, dma, served, used>>
  BY DEF LRU!FetchKernel, LRU!PlanDone, LRU!bytes, LRU!maps
<1>2. /\ victim \in Seq(RSlots \cup {-1}) /\ Len(victim) \in Nat /\ Len(miss) \in Nat
      /\ Len(victim) = Len(miss) /\ DOMAIN victim = 1 .. Len(victim)
  BY <1>1 DEF ListTypes
<1>3. LRU!Installed = {i \in 1 .. Len(victim) : victim[i] # -1}
  BY <1>2 DEF LRU!Installed
<1>4. LRU!Listed = LRU!Installed
  <2> SUFFICES ASSUME NEW i \in LRU!Installed
               PROVE  Cardinality({j \in LRU!Installed : j <= i}) <= FCAP
    BY DEF LRU!Listed
  <2> DEFINE J == {j \in LRU!Installed : j <= i}
             n == Len(victim)
  <2>1. IsFiniteSet(1 .. n) /\ Cardinality(1 .. n) <= n
    <3>1. 1 \in Int /\ n \in Int /\ n >= 0
      BY <1>2
    <3>2. IsFiniteSet(1 .. n) /\ Cardinality(1 .. n) = IF 1 > n THEN 0 ELSE n - 1 + 1
      BY ONLY <3>1, FS_Interval
    <3> QED BY <3>1, <3>2
  <2>2. J \in SUBSET (1 .. n)
    BY <1>3
  <2> HIDE DEF J, n
  <2>3. IsFiniteSet(J) /\ Cardinality(J) <= Cardinality(1 .. n)
    BY <2>1, <2>2, FS_Subset
  <2>4. Cardinality(J) \in Nat /\ Cardinality(1 .. n) \in Nat /\ n \in Nat
    BY <2>1, <2>3, <1>2, FS_CardinalityType DEF n
  <2>5. n <= FCAP
    BY <1>2 DEF n, ListTypes
  <2> QED BY <2>1, <2>3, <2>4, <2>5 DEF J
<1>5. ResTypes'
  <2>1. MapTypes'
    BY <1>1 DEF MapTypes
  <2>2. ListTypes'
    BY <1>1 DEF ListTypes
  <2> QED BY <2>1, <2>2
<1>6. Phases'
  BY <1>1, <1>2, <1>3, <1>4 DEF Phases
<1>7. Current' /\ Inverses' /\ Recent'
  BY <1>1 DEF Current, Inverses, Recent
<1>8. LRU!Selected' = LRU!Selected /\ Chosen' = Chosen
  BY <1>1 DEF Chosen, LRU!Selected
<1>9. Walk'
  BY <1>1, <1>8 DEF Walk, PageAt
<1>10. Filled'
  BY <1>1, <1>2, <1>3, <1>4 DEF Filled, PageAt
<1> QED BY <1>5, <1>6, <1>7, <1>9, <1>10

-----------------------------------------------------------------------------
(* build_dma_plan *)

\* n continues the run that begins at i.
Runs(i, n) == \A m \in i + 1 .. n : LRU!Follows(m)

\* Within a run blocks and slots are consecutive.
LEMMA RunRow ==
    ASSUME ResInv, NEW i \in 1 .. Len(victim), Len(victim) = Len(miss), LRU!Flushed(i),
           NEW k \in i .. Len(miss), Runs(i, k)
    PROVE  /\ LRU!Flushed(k)
           /\ PageAt(k) = PageAt(i) + (k - i) /\ victim[k] = victim[i] + (k - i)
<1> USE ResidencyFacts DEF ResInv, ResTypes
<1> DEFINE T == {d \in Nat : i + d <= k =>
                   /\ LRU!Flushed(i + d)
                   /\ PageAt(i + d) = PageAt(i) + d /\ victim[i + d] = victim[i] + d}
<1>0. i \in Nat /\ k \in Nat /\ Len(miss) \in Nat
  BY DEF ListTypes
<1>1. ASSUME NEW j \in 1 .. Len(miss) PROVE PageAt(j) \in Nat /\ victim[j] \in Int
  <2>1. miss[j] \in RRows \X RBlocks /\ victim[j] \in RSlots \cup {-1}
    BY DEF ListTypes
  <2>2. PageAt(j) \in RBlocks
    BY <2>1 DEF PageAt
  <2>3. \A v \in RSlots \cup {-1} : v \in Int
    BY DEF RSlots
  <2> QED BY <2>1, <2>2, <2>3
<1>2. 0 \in T
  <2>1. i + 0 = i /\ PageAt(i) \in Nat /\ victim[i] \in Int
    BY <1>0, <1>1
  <2> QED BY <2>1
<1>3. ASSUME NEW d \in T PROVE d + 1 \in T
  <2> SUFFICES ASSUME i + (d + 1) <= k
               PROVE  /\ LRU!Flushed(i + (d + 1))
                      /\ PageAt(i + (d + 1)) = PageAt(i) + (d + 1)
                      /\ victim[i + (d + 1)] = victim[i] + (d + 1)
    OBVIOUS
  <2>1. d \in Nat
    OBVIOUS
  <2>2. /\ LRU!Flushed(i + d)
        /\ PageAt(i + d) = PageAt(i) + d /\ victim[i + d] = victim[i] + d
    BY <2>1, <1>0
  <2>3. i + (d + 1) \in i + 1 .. k /\ (i + (d + 1)) - 1 = i + d
    BY <2>1, <1>0
  <2>4. LRU!Follows(i + (d + 1))
    BY <2>3 DEF Runs
  <2>5. /\ LRU!Flushed(i + (d + 1))
        /\ miss[i + (d + 1)] = <<miss[i + d][1], PageAt(i + d) + 1>>
        /\ victim[i + (d + 1)] = victim[i + d] + 1
    BY <2>3, <2>4 DEF LRU!Follows, LRU!Page, PageAt
  <2>6. PageAt(i + (d + 1)) = PageAt(i + d) + 1
    BY <2>5 DEF PageAt
  <2>7. i \in 1 .. Len(miss) /\ PageAt(i) \in Nat /\ victim[i] \in Int
    BY <1>1
  <2> HIDE DEF T
  <2>8. PageAt(i + (d + 1)) = PageAt(i) + (d + 1)
    <3>1. PageAt(i + (d + 1)) = (PageAt(i) + d) + 1
      BY <2>2, <2>6
    <3> QED BY ONLY <3>1, <2>1, <2>7
  <2>9. victim[i + (d + 1)] = victim[i] + (d + 1)
    <3>1. victim[i + (d + 1)] = (victim[i] + d) + 1
      BY <2>2, <2>5
    <3> QED BY ONLY <3>1, <2>1, <2>7
  <2> QED BY <2>5, <2>8, <2>9
<1>4. k - i \in Nat /\ i + (k - i) = k
  BY <1>0
<1>5. k - i \in T
  <2>1. T \in SUBSET Nat
    OBVIOUS
  <2> HIDE DEF T
  <2> QED BY <2>1, <1>2, <1>3, <1>4, SetInduction
<1>6. i + (k - i) <= k =>
        /\ LRU!Flushed(i + (k - i))
        /\ PageAt(i + (k - i)) = PageAt(i) + (k - i) /\ victim[i + (k - i)] = victim[i] + (k - i)
  BY <1>5
<1> QED BY <1>0, <1>4, <1>6

\* Every flushed miss is in the run of some first miss.
LEMMA RunStart ==
    ASSUME ResInv, NEW n \in 1 .. Len(victim), Len(victim) = Len(miss), LRU!Flushed(n)
    PROVE  \E i \in 1 .. n : LRU!Flushed(i) /\ ~LRU!Follows(i) /\ Runs(i, n)
<1> USE ResidencyFacts DEF ResInv, ResTypes
<1> DEFINE T == {i \in 1 .. n : Runs(i, n)}
<1>0. n \in Nat
  OBVIOUS
<1>1. T \in SUBSET Nat /\ T # {}
  <2>1. n \in T
    BY <1>0 DEF Runs
  <2> QED BY <2>1
<1>2. PICK i \in T : \A y \in T : i <= y
  BY <1>1, Least
<1>3. i \in 1 .. n /\ i \in Nat /\ Runs(i, n)
  OBVIOUS
<1>4. LRU!Flushed(i)
  <2>1. CASE i = n
    BY <2>1
  <2>2. CASE i # n
    <3>1. i + 1 \in i + 1 .. n /\ (i + 1) - 1 = i
      BY <2>2, <1>0, <1>3
    <3>2. LRU!Follows(i + 1)
      BY <3>1, <1>3 DEF Runs
    <3> QED BY <3>1, <3>2 DEF LRU!Follows
  <2> QED BY <2>1, <2>2
<1>5. ~LRU!Follows(i)
  <2> SUFFICES ASSUME LRU!Follows(i) PROVE FALSE
    OBVIOUS
  <2>1. i > 1
    BY DEF LRU!Follows
  <2>2. i - 1 \in 1 .. n /\ \A m \in (i - 1) + 1 .. n : m = i \/ m \in i + 1 .. n
    BY <2>1, <1>0, <1>3
  <2>3. Runs(i - 1, n)
    BY <2>2, <1>3 DEF Runs
  <2> QED BY <2>2, <2>3, <1>2, <1>3
<1> QED BY <1>3, <1>4, <1>5

\* The plan's rows are the flushed misses, each with its victim slot.
LEMMA PlanRows ==
    ASSUME ResInv, Len(victim) = Len(miss)
    PROVE  LRU!Plan = {<<PageAt(n), victim[n]>> : n \in {m \in 1 .. Len(victim) : LRU!Flushed(m)}}
<1> USE ResidencyFacts DEF ResInv, ResTypes
<1>0. DOMAIN victim = 1 .. Len(victim) /\ Len(victim) \in Nat
  BY DEF ListTypes
<1>1. ASSUME NEW i \in 1 .. Len(victim), LRU!Flushed(i)
      PROVE  LRU!RunRows(i) = {<<PageAt(k), victim[k]>> : k \in {n \in i .. Len(miss) : Runs(i, n)}}
  <2>1. LRU!RunRows(i) = {<<PageAt(i) + (k - i), victim[i] + (k - i)>> :
                            k \in {n \in i .. Len(miss) : Runs(i, n)}}
    BY DEF LRU!RunRows, LRU!Page, PageAt, Runs
  <2>2. \A k \in {n \in i .. Len(miss) : Runs(i, n)} :
          PageAt(k) = PageAt(i) + (k - i) /\ victim[k] = victim[i] + (k - i)
    BY <1>1, RunRow
  <2> QED BY <2>1, <2>2
<1>2. ASSUME NEW e \in LRU!Plan
      PROVE  \E n \in 1 .. Len(victim) : LRU!Flushed(n) /\ e = <<PageAt(n), victim[n]>>
  <2>1. PICK i \in 1 .. Len(victim) : LRU!Flushed(i) /\ e \in LRU!RunRows(i)
    BY <1>0 DEF LRU!Plan
  <2>2. PICK k \in i .. Len(miss) : Runs(i, k) /\ e = <<PageAt(k), victim[k]>>
    BY <2>1, <1>1
  <2>3. LRU!Flushed(k) /\ k \in 1 .. Len(victim)
    <3>1. k \in 1 .. Len(victim)
      BY <1>0
    <3> QED BY <3>1, <2>1, <2>2, RunRow
  <2> QED BY <2>2, <2>3
<1>3. ASSUME NEW n \in 1 .. Len(victim), LRU!Flushed(n)
      PROVE  <<PageAt(n), victim[n]>> \in LRU!Plan
  <2>1. PICK i \in 1 .. n : LRU!Flushed(i) /\ ~LRU!Follows(i) /\ Runs(i, n)
    BY <1>3, RunStart
  <2>2. i \in 1 .. Len(victim) /\ n \in i .. Len(miss)
    BY <1>0
  <2>3. <<PageAt(n), victim[n]>> \in LRU!RunRows(i)
    BY <2>1, <2>2, <1>1
  <2> QED BY <2>1, <2>2, <2>3, <1>0 DEF LRU!Plan
<1> QED BY <1>2, <1>3

\* Issuing a run of copies keeps it.
LEMMA ResIssueDma ==
    ASSUME ResInv, LRU!IssueDma
    PROVE  ResInv'
<1> USE ResidencyFacts DEF ResInv, ResTypes
<1>1. /\ at = "victims" /\ pos > Len(miss)
      /\ dma' = LRU!Plan /\ at' = "fetch"
      /\ todo' = IF LRU!HasStaged THEN LRU!Installed ELSE {}
      /\ UNCHANGED <<fetch, ver, staged, valid, pinned, partial, p2s, s2p, lru, clock,
                     hot, sel, miss, pos, victim, overflow, served, used>>
  BY DEF LRU!IssueDma, LRU!PlanDone, LRU!bytes, LRU!maps
<1>2. /\ victim \in Seq(RSlots \cup {-1}) /\ Len(victim) \in Nat /\ Len(miss) \in Nat
      /\ Len(victim) = Len(miss) /\ DOMAIN victim = 1 .. Len(victim)
  BY <1>1 DEF ListTypes
<1>3. LRU!Installed = {i \in 1 .. Len(victim) : victim[i] # -1}
  BY <1>2 DEF LRU!Installed
<1>4. dma' = {<<PageAt(n), victim[n]>> : n \in {m \in 1 .. Len(victim) : LRU!Flushed(m)}}
  BY <1>1, <1>2, PlanRows
<1>5. \A n \in 1 .. Len(victim) : LRU!Flushed(n) <=> victim[n] # -1 /\ PageAt(n) \in valid
  BY DEF LRU!Flushed, LRU!Page, PageAt
<1>6. ResTypes'
  <2>1. MapTypes'
    BY <1>1 DEF MapTypes
  <2>2. ListTypes'
    BY <1>1 DEF ListTypes
  <2> QED BY <2>1, <2>2
<1>7. \A e \in dma' : e[1] \in valid /\ e[2] \in RSlots /\ p2s[e[1]] = e[2] /\ e = <<e[1], e[2]>>
  <2> SUFFICES ASSUME NEW n \in 1 .. Len(victim), LRU!Flushed(n)
               PROVE  PageAt(n) \in valid /\ victim[n] \in RSlots /\ p2s[PageAt(n)] = victim[n]
    BY <1>4
  <2>1. victim[n] \in RSlots \cup {-1}
    BY <1>2
  <2> QED BY <2>1, <1>1, <1>5 DEF Walk
<1>8. Phases'
  BY <1>1, <1>2, <1>3, <1>7 DEF Phases
<1>9. Current' /\ Inverses' /\ Recent'
  BY <1>1 DEF Current, Inverses, Recent
<1>10. LRU!Selected' = LRU!Selected /\ Chosen' = Chosen
  BY <1>1 DEF Chosen, LRU!Selected
<1>11. Walk'
  BY <1>1, <1>10 DEF Walk, PageAt
<1>12. Filled'
  <2> SUFFICES ASSUME NEW b \in RBlocks, p2s[b] # -1,
                      NEW i \in 1 .. Len(victim), victim[i] = p2s[b], PageAt(i) = b
               PROVE  \/ \E j \in todo' : victim[j] = p2s[b] /\ PageAt(j) = b
                      \/ <<b, p2s[b]>> \in dma'
    BY <1>1 DEF Filled, PageAt
  <2>1. CASE b \in valid
    BY <2>1, <1>4, <1>5
  <2>2. CASE b \notin valid
    <3>1. LRU!HasStaged
      BY <2>2, <1>3 DEF LRU!HasStaged, LRU!Page, PageAt
    <3> QED BY <3>1, <1>1, <1>3
  <2> QED BY <2>1, <2>2
<1> QED BY <1>6, <1>8, <1>9, <1>11, <1>12

\* A copy that lands keeps it.
LEMMA ResDmaRow ==
    ASSUME ResInv, LRU!DmaRow
    PROVE  ResInv'
<1> USE ResidencyFacts DEF ResInv, ResTypes
<1>1. PICK e \in dma : hot' = [hot EXCEPT ![e[2]] = <<e[1], pinned[e[1]]>>] /\ dma' = dma \ {e}
  BY DEF LRU!DmaRow
<1>2. UNCHANGED <<fetch, at, ver, staged, valid, pinned, partial, p2s, s2p, lru, clock, sel,
                  miss, pos, victim, overflow, todo, served, used>>
  BY DEF LRU!DmaRow, LRU!bytes, LRU!maps
<1>3. /\ at = "fetch" /\ e[1] \in valid /\ e[1] \in RBlocks /\ e[2] \in RSlots /\ p2s[e[1]] = e[2]
      /\ e = <<e[1], e[2]>>
  BY DEF Phases, MapTypes
<1>4. pinned[e[1]] = ver[e[1]] /\ ver[e[1]] \in Nat
  BY <1>3 DEF Current, MapTypes
<1>5. /\ hot' \in [RSlots -> (RBlocks \cup {-1}) \X (Nat \cup {-1})]
      /\ \A s \in RSlots : hot'[s] = IF s = e[2] THEN <<e[1], ver[e[1]]>> ELSE hot[s]
  BY <1>1, <1>3, <1>4 DEF MapTypes
<1>6. ResTypes'
  <2>1. MapTypes'
    BY <1>2, <1>5 DEF MapTypes
  <2>2. ListTypes'
    BY <1>2 DEF ListTypes
  <2> QED BY <2>1, <2>2
<1>7. Phases' /\ Current' /\ Inverses' /\ Recent'
  BY <1>1, <1>2, <1>3 DEF Phases, Current, Inverses, Recent
<1>8. LRU!Selected' = LRU!Selected /\ Chosen' = Chosen
  BY <1>2 DEF Chosen, LRU!Selected
<1>9. Walk'
  BY <1>2, <1>8 DEF Walk, PageAt
<1>10. Filled'
  <2> SUFFICES ASSUME NEW b \in RBlocks, p2s[b] # -1
               PROVE  \/ hot'[p2s[b]] = <<b, ver[b]>>
                      \/ \E i \in todo : victim[i] = p2s[b] /\ PageAt(i) = b
                      \/ <<b, p2s[b]>> \in dma'
    BY <1>2, <1>3 DEF Filled, PageAt
  <2>1. CASE p2s[b] = e[2]
    <3>1. b = e[1]
      BY <2>1, <1>3 DEF Inverses
    <3> QED BY <3>1, <2>1, <1>3, <1>5
  <2>2. CASE p2s[b] # e[2]
    <3>1. p2s[b] \in RSlots /\ <<b, p2s[b]>> # e
      BY <2>2, <1>3 DEF MapTypes
    <3> QED BY <3>1, <2>2, <1>1, <1>3, <1>5 DEF Filled
  <2> QED BY <2>1, <2>2
<1> QED BY <1>6, <1>7, <1>9, <1>10

\* Fetching a page in the kernel keeps it.
LEMMA ResFetchPage ==
    ASSUME ResInv, LRU!FetchPage
    PROVE  ResInv'
<1> USE ResidencyFacts DEF ResInv, ResTypes
<1>1. PICK i \in todo :
       /\ todo' = todo \ {i}
       /\ hot' = [hot EXCEPT ![victim[i]] =
            <<PageAt(i), IF LRU!FromStaging(PageAt(i)) THEN ver[PageAt(i)] ELSE pinned[PageAt(i)]>>]
       /\ pinned' = IF LRU!FromStaging(PageAt(i)) THEN [pinned EXCEPT ![PageAt(i)] = ver[PageAt(i)]]
                                                  ELSE pinned
       /\ valid' = IF LRU!FromStaging(PageAt(i)) THEN valid \cup {PageAt(i)} ELSE valid
  BY DEF LRU!FetchPage, LRU!Page, PageAt
<1> DEFINE b == PageAt(i)
           h == victim[i]
<1>2. UNCHANGED <<fetch, at, ver, staged, partial, p2s, s2p, lru, clock, sel,
                  miss, pos, victim, overflow, dma, served, used>>
  BY DEF LRU!FetchPage, LRU!maps
<1>3. at = "fetch" /\ i \in 1 .. Len(victim) /\ h # -1 /\ h \in RSlots /\ b \in RBlocks /\ p2s[b] = h
  <2>1. at = "fetch" /\ i \in 1 .. Len(victim) /\ h # -1
    BY DEF Phases
  <2>2. i \in 1 .. Len(miss)
    BY <2>1 DEF ListTypes
  <2>3. miss[i] \in RRows \X RBlocks /\ victim[i] \in RSlots \cup {-1}
    BY <2>1, <2>2 DEF ListTypes
  <2> QED BY <2>1, <2>3 DEF PageAt, Walk
<1>4. (IF LRU!FromStaging(b) THEN ver[b] ELSE pinned[b]) = ver[b] /\ ver[b] \in Nat
  BY <1>3 DEF LRU!FromStaging, Current, MapTypes
<1> HIDE DEF b, h
<1>5. /\ hot' \in [RSlots -> (RBlocks \cup {-1}) \X (Nat \cup {-1})]
      /\ \A s \in RSlots : hot'[s] = IF s = h THEN <<b, ver[b]>> ELSE hot[s]
  BY <1>1, <1>3, <1>4 DEF MapTypes, b, h
<1>6. /\ pinned' \in [RBlocks -> Nat \cup {-1}] /\ valid \subseteq valid' /\ valid' \subseteq RBlocks
      /\ \A c \in valid' : c \in valid \/ (c = b /\ pinned'[b] = ver[b])
      /\ \A c \in RBlocks : c # b => pinned'[c] = pinned[c]
      /\ b \in valid => pinned' = pinned \/ pinned'[b] = ver[b]
  <2>1. pinned' = (IF LRU!FromStaging(b) THEN [pinned EXCEPT ![b] = ver[b]] ELSE pinned)
        /\ valid' = (IF LRU!FromStaging(b) THEN valid \cup {b} ELSE valid)
    BY <1>1 DEF b
  <2> QED BY <2>1, <1>3, <1>4 DEF MapTypes
<1>7. ResTypes'
  <2>1. MapTypes'
    BY <1>2, <1>5, <1>6 DEF MapTypes
  <2>2. ListTypes'
    BY <1>2 DEF ListTypes
  <2> QED BY <2>1, <2>2
<1>8. Phases'
  BY <1>1, <1>2, <1>3, <1>6 DEF Phases
<1>9. Current'
  BY <1>2, <1>6 DEF Current, MapTypes
<1>10. Inverses' /\ Recent'
  BY <1>2 DEF Inverses, Recent
<1>11. LRU!Selected' = LRU!Selected /\ Chosen' = Chosen
  BY <1>2 DEF Chosen, LRU!Selected
<1>12. Walk'
  BY <1>2, <1>11 DEF Walk, PageAt
<1>13. Filled'
  <2> SUFFICES ASSUME NEW c \in RBlocks, p2s[c] # -1
               PROVE  \/ hot'[p2s[c]] = <<c, ver[c]>>
                      \/ \E j \in todo' : victim[j] = p2s[c] /\ PageAt(j) = c
                      \/ <<c, p2s[c]>> \in dma
    BY <1>2, <1>3 DEF Filled, PageAt
  <2>1. CASE p2s[c] = h
    <3>1. c = b
      BY <2>1, <1>3 DEF Inverses
    <3> QED BY <3>1, <2>1, <1>3, <1>5
  <2>2. CASE p2s[c] # h
    <3>1. p2s[c] \in RSlots
      BY <2>2 DEF MapTypes
    <3>2. hot'[p2s[c]] = hot[p2s[c]]
      BY <3>1, <2>2, <1>5
    <3>3. \A j \in todo : victim[j] = p2s[c] => j \in todo'
      BY <2>2, <1>1 DEF h
    <3> QED BY <3>2, <3>3, <1>3 DEF Filled
  <2> QED BY <2>1, <2>2
<1> QED BY <1>7, <1>8, <1>9, <1>10, <1>12, <1>13

\* The decode leaves the maps, and reads every selected page as it is.
LEMMA ResDecode ==
    ASSUME ResInv, LRU!Decode
    PROVE  /\ ResInv' /\ served = {} /\ ver' = ver
           /\ \A x \in served' : \E r \in RRows, b \in RBlocks : x = <<r, b, ver[b]>>
<1> USE ResidencyFacts DEF ResInv, ResTypes
<1>1. /\ at = "fetch" /\ todo = {} /\ dma = {}
      /\ served' = UNION {{LRU!Read(r, sel[r][i]) : i \in DOMAIN sel[r]} : r \in RRows}
      /\ at' = "prologue" /\ miss' = <<>> /\ pos' = 1 /\ victim' = <<>>
      /\ sel' = [r \in RRows |-> <<>>]
      /\ UNCHANGED <<fetch, ver, staged, valid, pinned, partial, p2s, s2p, lru, clock, hot,
                     overflow, todo, dma, used>>
  BY DEF LRU!Decode, LRU!Fetched, LRU!bytes, LRU!maps
<1>2. ResTypes'
  <2>1. MapTypes'
    BY <1>1 DEF MapTypes
  <2>2. /\ <<>> \in Seq(RBlocks) /\ <<>> \in Seq(RRows \X RBlocks) /\ <<>> \in Seq(RSlots \cup {-1})
        /\ Len(<<>>) = 0
    OBVIOUS
  <2>3. ListTypes'
    BY <1>1, <2>2 DEF ListTypes
  <2> QED BY <2>1, <2>3
<1>3. Phases' /\ Current' /\ Inverses' /\ Recent' /\ Walk'
  BY <1>1 DEF Phases, Current, Inverses, Recent, Walk
<1>4. \A b \in RBlocks : p2s[b] # -1 => hot[p2s[b]] = <<b, ver[b]>>
  BY <1>1 DEF Filled
<1>5. Filled'
  BY <1>1, <1>4 DEF Filled
<1>6. ASSUME NEW r \in RRows, NEW i \in DOMAIN sel[r]
      PROVE  sel[r][i] \in RBlocks /\ LRU!Read(r, sel[r][i]) = <<r, sel[r][i], ver[sel[r][i]]>>
  <2>1. sel[r][i] \in RBlocks
    BY DEF ListTypes
  <2>2. LRU!Source(sel[r][i]) = <<sel[r][i], ver[sel[r][i]]>>
    BY <2>1, <1>4 DEF LRU!Source, LRU!Hit, Current
  <2> QED BY <2>1, <2>2 DEF LRU!Read
<1>7. \A x \in served' : \E r \in RRows, b \in RBlocks : x = <<r, b, ver[b]>>
  BY <1>1, <1>6
<1>8. served = {}
  BY <1>1 DEF Phases
<1> QED BY <1>1, <1>2, <1>3, <1>5, <1>7, <1>8

\* What a step of the gather does to what the decode reads, beside the invariant.
LEMMA ResNext ==
    ASSUME ResInv, LRU!Next
    PROVE  /\ ResInv' /\ LRU!OldestEvicted
           /\ \/ /\ served' = {}
                 /\ \A b \in RBlocks : ver'[b] \in {ver[b], ver[b] + 1}
              \/ UNCHANGED <<ver, served>>
              \/ /\ ver' = ver /\ served = {}
                 /\ \A x \in served' : \E r \in RRows, b \in RBlocks : x = <<r, b, ver[b]>>
<1>1. CASE LRU!BeginStep
  <2>1. /\ at = "prologue" /\ served' = {}
        /\ \A b \in RBlocks : ver'[b] \in {ver[b], ver[b] + 1}
    BY <1>1 DEF LRU!BeginStep, RBlocks
  <2> QED BY <1>1, <2>1, ResBegin DEF LRU!OldestEvicted
<1>2. CASE LRU!MissDiff
  <2>1. UNCHANGED <<ver, served>> /\ at = "diff"
    BY <1>2 DEF LRU!MissDiff, LRU!bytes
  <2> QED BY <1>2, <2>1, ResMissDiff DEF LRU!OldestEvicted
<1>3. CASE LRU!NoVictim
  <2>1. UNCHANGED <<ver, served, p2s>>
    BY <1>3 DEF LRU!NoVictim, LRU!bytes, LRU!maps
  <2> QED BY <1>3, <2>1, ResNoVictim DEF LRU!OldestEvicted
<1>4. CASE LRU!Install
  <2>1. UNCHANGED <<ver, served>>
    BY <1>4 DEF LRU!Install, LRU!bytes
  <2> QED BY <1>4, <2>1, ResInstall
<1>5. CASE LRU!FetchKernel
  <2>1. UNCHANGED <<ver, served, p2s>>
    BY <1>5 DEF LRU!FetchKernel, LRU!bytes, LRU!maps
  <2> QED BY <1>5, <2>1, ResFetchKernel DEF LRU!OldestEvicted
<1>6. CASE LRU!IssueDma
  <2>1. UNCHANGED <<ver, served, p2s>>
    BY <1>6 DEF LRU!IssueDma, LRU!bytes, LRU!maps
  <2> QED BY <1>6, <2>1, ResIssueDma DEF LRU!OldestEvicted
<1>7. CASE LRU!DmaRow
  <2>1. UNCHANGED <<ver, served, p2s>>
    BY <1>7 DEF LRU!DmaRow, LRU!bytes, LRU!maps
  <2> QED BY <1>7, <2>1, ResDmaRow DEF LRU!OldestEvicted
<1>8. CASE LRU!FetchPage
  <2>1. UNCHANGED <<ver, served, p2s>>
    BY <1>8 DEF LRU!FetchPage, LRU!maps
  <2> QED BY <1>8, <2>1, ResFetchPage DEF LRU!OldestEvicted
<1>9. CASE LRU!Decode
  <2>1. UNCHANGED p2s
    BY <1>9 DEF LRU!Decode, LRU!maps
  <2> QED BY <1>9, <2>1, ResDecode DEF LRU!OldestEvicted
<1> QED BY <1>1, <1>2, <1>3, <1>4, <1>5, <1>6, <1>7, <1>8, <1>9 DEF LRU!Next

\* The maps are inverse.
LEMMA ResMaps == ResInv => LRU!MapsInverse
BY ResidencyFacts DEF ResInv, Inverses, LRU!MapsInverse, RBlocks

\* When the walk has ended and the slots suffice, what was selected is resident.
LEMMA ResFits == ResInv => LRU!FitsResident
<1> SUFFICES ASSUME ResInv, LRU!Fetched,
                    LRU!Cardinality({b \in LRU!Selected : LRU!Complete(b)}) <= HotSlots["lru"],
                    NEW b \in LRU!Selected, LRU!Complete(b)
             PROVE  p2s[b] # LRU!None
  BY DEF LRU!FitsResident
<1> USE ResidencyFacts DEF ResInv, ResTypes
<1>1. Chosen = {c \in LRU!Selected : LRU!Complete(c)}
  BY DEF Chosen, LRU!Complete
<1>2. at = "fetch" /\ b \in Chosen /\ Cardinality(Chosen) <= HotSlots["lru"]
  BY <1>1 DEF LRU!Fetched
<1>3. p2s[b] # -1 \/ \E i \in pos .. Len(miss) : PageAt(i) = b
  BY <1>2 DEF Walk
<1>4. pos = Len(miss) + 1 /\ Len(miss) \in Nat
  BY <1>2 DEF Phases, ListTypes
<1> QED BY <1>3, <1>4

ArmLRU == arm = "lru" => ResInv

\* The same of a step of any arm.
LEMMA LRUStep ==
    ASSUME ArmLRU, [Next]_vars
    PROVE  ArmLRU' /\ (arm = "lru" => LRU!OldestEvicted)
<1>1. CASE arm = "lru" /\ LRU!Next /\ UNCHANGED arm
  BY <1>1, ResNext DEF ArmLRU
<1>2. CASE arm # "lru" /\ UNCHANGED arm
  BY <1>2 DEF ArmLRU
<1>3. CASE UNCHANGED vars
  <2>0. UNCHANGED <<arm, at, ver, staged, valid, pinned, partial, p2s, s2p, lru, clock, hot, sel,
                    miss, pos, victim, todo, dma, served, used>>
    BY <1>3 DEF vars, steps, maps, onlyLRU
  <2>1. arm = "lru" => ResInv'
    <3> SUFFICES ASSUME ResInv PROVE ResInv'
      BY <2>0 DEF ArmLRU
    <3> USE DEF ResInv, ResTypes
    <3>1. MapTypes'
      BY <2>0 DEF MapTypes
    <3>2. ListTypes'
      BY <2>0 DEF ListTypes
    <3>3. Phases' /\ Current' /\ Inverses' /\ Recent'
      BY <2>0 DEF Phases, Current, Inverses, Recent
    <3>4. Chosen' = Chosen
      BY <2>0 DEF Chosen, LRU!Selected
    <3>5. Walk' /\ Filled'
      BY <2>0, <3>4 DEF Walk, Filled, PageAt
    <3> QED BY <3>1, <3>2, <3>3, <3>5
  <2> QED BY <2>1, <1>3 DEF ArmLRU, vars, maps, LRU!OldestEvicted
<1> QED BY <1>1, <1>2, <1>3 DEF Next

\* LRU arm: the inductive invariant holds throughout.
THEOREM ResidencySafe == Spec => []ArmLRU
<1>1. Init => ArmLRU
  BY ResInit DEF Init, ArmLRU
<1>2. ArmLRU /\ [Next]_vars => ArmLRU'
  BY LRUStep
<1> QED BY <1>1, <1>2, PTL DEF Spec

\* LRU arm: page2slot and slot2page stay mutual inverses (I3), whatever the page
\* tables, rewrites and capacities (residency.py: select_victims,
\* invalidate_written).
THEOREM LRUMapsInverse == Spec => []MapsInverse
<1>1. ArmLRU => MapsInverse
  BY ResMaps DEF ArmLRU, MapsInverse
<1> QED BY <1>1, ResidencySafe, PTL

\* LRU arm: a step whose complete pages fit the slots decodes from the hot buffer
\* alone (select_victims never takes the slot of a hit or of an earlier miss).
THEOREM LRUFitsResident == Spec => []FitsResident
<1>1. ArmLRU => FitsResident
  BY ResFits DEF ArmLRU, FitsResident
<1> QED BY <1>1, ResidencySafe, PTL

\* LRU arm: a miss takes the slot of a page only when no page selected less
\* recently has one, across steps and requests (select_victims).
THEOREM LRUEvictsOldest == Spec => EvictsOldest
<1>1. ArmLRU /\ [Next]_vars => [arm = "lru" => LRU!OldestEvicted]_vars
  BY LRUStep
<1> QED BY <1>1, ResidencySafe, PTL DEF Spec, EvictsOldest
=============================================================================
