------------------------- MODULE SessionTreeProofs -------------------------
(***************************************************************************)
(* Proofs about SessionTree, for any number of files, entries and          *)
(* setbacks: first what the branch of an entry is and what taking entries  *)
(* out of a file in order gives, then what the operations of a manager do  *)
(* to a conversation, then the invariant that ties the memory of the       *)
(* manager, its file and the history of each entry.                        *)
(***************************************************************************)
EXTENDS SessionTree, FiniteSetTheorems, SequenceTheorems,
        WellFoundedInduction, TLAPS

-----------------------------------------------------------------------------
(* The least of some naturals *)

Below == {ss \in Nat \X Nat : ss[1] < ss[2]}

\* Every set of naturals that has an element has a least one.
LEMMA LeastOf ==
  ASSUME NEW S \in SUBSET Nat, S # {}
  PROVE  \E x \in S : \A y \in S : x <= y
<1>1. IsWellFoundedOn(Below, Nat)
  BY NatLessThanWellFounded DEF OpToRel, Below
<1>2. PICK x \in S : \A y \in S : ~(<<y, x>> \in Below)
  BY <1>1, WFMin
<1>3. ASSUME NEW y \in S PROVE x <= y
  <2>1. <<y, x>> \in Below <=> y < x
    BY DEF Below
  <2> QED
    BY <1>2, <2>1
<1> QED
  BY <1>2, <1>3

-----------------------------------------------------------------------------
(* The branch of an entry *)

Closed(T, S) == \A k \in S : Parents(T, k) \subseteq S

\* The branch of an entry lies before it, holds it and is closed.
LEMMA LineageClosed ==
  ASSUME NEW T, NEW i \in Nat \ {0}
  PROVE  /\ Lineage(T, i) \in SUBSET (1 .. i) /\ i \in Lineage(T, i)
         /\ Closed(T, Lineage(T, i))
         /\ \A S \in SUBSET (1 .. i) : i \in S /\ Closed(T, S) => Lineage(T, i) \subseteq S
<1>1. Lineage(T, i) \in SUBSET (1 .. i) /\ i \in Lineage(T, i)
  BY DEF Lineage
<1>2. \A S \in SUBSET (1 .. i) : i \in S /\ Closed(T, S) => Lineage(T, i) \subseteq S
  BY DEF Lineage, Closed
<1>3. ASSUME NEW k \in Lineage(T, i), NEW j \in Parents(T, k) PROVE j \in Lineage(T, i)
  <2>1. j \in 1 .. i
    BY <1>1 DEF Parents
  <2>2. ASSUME NEW S \in SUBSET (1 .. i), i \in S, Closed(T, S) PROVE j \in S
    BY <1>2, <2>2 DEF Closed
  <2> QED
    BY <2>1, <2>2 DEF Lineage, Closed
<1> QED
  BY <1>1, <1>2, <1>3 DEF Closed

\* It depends on nothing but the entries up to this one.
LEMMA LineageSame ==
  ASSUME NEW T, NEW U, NEW i \in Nat \ {0},
         \A j \in 1 .. i : T[j].id = U[j].id /\ T[j].parent = U[j].parent
  PROVE  Lineage(T, i) = Lineage(U, i)
<1>1. \A k \in 1 .. i : Parents(T, k) = Parents(U, k)
  BY DEF Parents
<1>2. \A S \in SUBSET (1 .. i) : Closed(T, S) <=> Closed(U, S)
  BY <1>1 DEF Closed
<1>3. Lineage(T, i) \subseteq Lineage(U, i)
  BY <1>2, LineageClosed
<1>4. Lineage(U, i) \subseteq Lineage(T, i)
  BY <1>2, LineageClosed
<1> QED
  BY <1>3, <1>4

\* A root is its own branch.
LEMMA LineageRoot ==
  ASSUME NEW T, NEW i \in Nat \ {0}, Parents(T, i) = {}
  PROVE  Lineage(T, i) = {i}
<1>1. {i} \in SUBSET (1 .. i) /\ Closed(T, {i})
  BY DEF Closed
<1> QED
  BY <1>1, LineageClosed

\* Any other entry adds itself to the branch of its parent.
LEMMA LineageStep ==
  ASSUME NEW T, NEW i \in Nat \ {0}, NEW p, Parents(T, i) = {p}
  PROVE  /\ p \in 1 .. i - 1
         /\ Lineage(T, i) = {i} \cup Lineage(T, p)
<1>1. p \in 1 .. i - 1 /\ p \in Nat \ {0}
  BY DEF Parents
<1>2. Lineage(T, i) \subseteq {i} \cup Lineage(T, p)
  <2> DEFINE S == {i} \cup Lineage(T, p)
  <2>1. S \in SUBSET (1 .. i) /\ i \in S
    BY <1>1, LineageClosed
  <2>2. Closed(T, S)
    BY <1>1, LineageClosed DEF Closed
  <2> QED
    BY <2>1, <2>2, LineageClosed
<1>3. Lineage(T, p) \subseteq Lineage(T, i)
  <2> DEFINE S == Lineage(T, i) \cap (1 .. p)
  <2>1. S \in SUBSET (1 .. p) /\ p \in S
    BY <1>1, LineageClosed DEF Closed
  <2>2. Closed(T, S)
    <3> SUFFICES ASSUME NEW k \in S, NEW j \in Parents(T, k) PROVE j \in S
      BY DEF Closed
    <3>1. j \in Lineage(T, i)
      BY LineageClosed DEF Closed
    <3>2. j \in 1 .. p
      BY <1>1 DEF Parents
    <3> QED
      BY <3>1, <3>2
  <2> QED
    BY <1>1, <2>1, <2>2, LineageClosed
<1> QED
  BY <1>1, <1>2, <1>3, LineageClosed

\* No entry has two parents.
Unbranched(T, n) ==
  \A k \in 1 .. n : \A j, l \in Parents(T, k) : j = l

\* The branch of an entry of a branch is the part of that branch up to it.
LEMMA Ancestors ==
  ASSUME NEW T, NEW n \in Nat, Unbranched(T, n),
         NEW i \in 1 .. n, NEW p \in Lineage(T, i)
  PROVE  Lineage(T, p) = Lineage(T, i) \cap (1 .. p)
<1> DEFINE Wrong == {k \in 1 .. n : \E q \in Lineage(T, k) :
                       Lineage(T, q) # Lineage(T, k) \cap (1 .. q)}
<1>1. SUFFICES Wrong = {}
  OBVIOUS
<1>2. SUFFICES ASSUME Wrong # {} PROVE FALSE
  OBVIOUS
<1>3. PICK k \in Wrong : \A y \in Wrong : k <= y
  <2>1. Wrong \in SUBSET Nat
    OBVIOUS
  <2> HIDE DEF Wrong
  <2> QED
    BY <1>2, <2>1, LeastOf
<1>4. k \in 1 .. n /\ k \in Nat \ {0}
  OBVIOUS
<1>5. PICK q \in Lineage(T, k) : Lineage(T, q) # Lineage(T, k) \cap (1 .. q)
  OBVIOUS
<1>6. q \in 1 .. k /\ q \in Nat \ {0}
  BY <1>4, LineageClosed
<1>7. q # k
  BY <1>4, <1>5, LineageClosed
<1>8. CASE Parents(T, k) = {}
  BY <1>4, <1>7, <1>8, LineageRoot
<1>9. CASE Parents(T, k) # {}
  <2>0. PICK r : r \in Parents(T, k)
    BY <1>9
  <2>1. Parents(T, k) = {r}
    <3>1. \A j \in Parents(T, k) : j = r
      BY <1>4, <2>0 DEF Unbranched
    <3> QED
      BY <2>0, <3>1
  <2>2. r \in 1 .. k - 1 /\ Lineage(T, k) = {k} \cup Lineage(T, r)
    BY <1>4, <2>1, LineageStep
  <2>3. r \in 1 .. n /\ r \notin Wrong
    BY <1>3, <1>4, <2>2
  <2>4. q \in Lineage(T, r)
    BY <1>7, <2>2
  <2>5. Lineage(T, q) = Lineage(T, r) \cap (1 .. q)
    BY <2>3, <2>4
  <2>6. k \notin 1 .. q
    BY <1>4, <1>6, <1>7
  <2> QED
    BY <1>5, <2>2, <2>5, <2>6
<1> QED
  BY <1>8, <1>9


\* Ids rise along a file.
Rising(T) ==
  /\ \A k \in DOMAIN T : T[k].id \in Nat \ {0}
  /\ \A j, k \in DOMAIN T : j < k => T[j].id < T[k].id

\* So an id names one entry, and an entry has one parent at most.
LEMMA RisingDistinct ==
  ASSUME NEW T, NEW n \in Nat, DOMAIN T = 1 .. n, Rising(T)
  PROVE  /\ \A j, k \in 1 .. n : T[j].id = T[k].id => j = k
         /\ Unbranched(T, n)
<1>1. ASSUME NEW j \in 1 .. n, NEW k \in 1 .. n, T[j].id = T[k].id PROVE j = k
  <2>1. T[j].id \in Nat /\ T[k].id \in Nat
    BY DEF Rising
  <2>2. ~(j < k) /\ ~(k < j)
    BY <1>1, <2>1 DEF Rising
  <2> QED
    BY <2>2
<1>2. ASSUME NEW k \in 1 .. n, NEW j \in Parents(T, k), NEW l \in Parents(T, k) PROVE j = l
  <2>1. j \in 1 .. n /\ l \in 1 .. n /\ T[j].id = T[l].id
    BY DEF Parents
  <2> QED
    BY <1>1, <2>1
<1> QED
  BY <1>1, <1>2 DEF Unbranched

\* Each entry hangs on the one before it.
Chain(U) ==
  \A k \in DOMAIN U : U[k].parent = IF k = 1 THEN 0 ELSE U[k - 1].id

\* Then everything up to an entry is its branch.
LEMMA ChainLineage ==
  ASSUME NEW U, NEW n \in Nat, DOMAIN U = 1 .. n, Rising(U), Chain(U), NEW i \in 1 .. n
  PROVE  Lineage(U, i) = 1 .. i
<1> DEFINE Wrong == {k \in 1 .. n : Lineage(U, k) # 1 .. k}
<1>1. SUFFICES ASSUME Wrong # {} PROVE FALSE
  OBVIOUS
<1>2. PICK k \in Wrong : \A y \in Wrong : k <= y
  <2>1. Wrong \in SUBSET Nat
    OBVIOUS
  <2> HIDE DEF Wrong
  <2> QED
    BY <1>1, <2>1, LeastOf
<1>3. k \in 1 .. n /\ k \in Nat \ {0}
  OBVIOUS
<1>4. CASE k = 1
  <2>1. Parents(U, k) = {}
    BY <1>4 DEF Parents
  <2>2. Lineage(U, k) = {k}
    BY <1>3, <2>1, LineageRoot
  <2>3. 1 .. k = {k}
    BY <1>4
  <2> QED
    BY <2>2, <2>3
<1>5. CASE k # 1
  <2>0. k - 1 \in 1 .. n
    BY <1>3, <1>5
  <2>1. Parents(U, k) = {k - 1}
    <3>1. U[k].parent = U[k - 1].id
      BY <1>3, <1>5 DEF Chain
    <3>2. k - 1 \in Parents(U, k)
      BY <1>3, <2>0, <3>1 DEF Parents
    <3>3. \A j \in Parents(U, k) : j = k - 1
      BY <1>3, <3>2, RisingDistinct DEF Unbranched
    <3> QED
      BY <3>2, <3>3
  <2>2. Lineage(U, k) = {k} \cup Lineage(U, k - 1)
    BY <1>3, <2>1, LineageStep
  <2>3. k - 1 \notin Wrong
    BY <1>2, <1>3
  <2>4. Lineage(U, k - 1) = 1 .. k - 1
    BY <2>0, <2>3
  <2>5. {k} \cup (1 .. k - 1) = 1 .. k
    BY <1>3
  <2> QED
    BY <2>2, <2>4, <2>5
<1> QED
  BY <1>4, <1>5

-----------------------------------------------------------------------------
(* Some places of a file, in order *)

Rank(P, p) == Cardinality(P \cap (1 .. p))
At(P, k) == CHOOSE p \in P : Rank(P, p) = k

\* At and Rank number the places of a finite set, from the least on.
LEMMA Ranked ==
  ASSUME NEW m \in Nat, NEW P \in SUBSET (1 .. m)
  PROVE  /\ Cardinality(P) \in Nat
         /\ \A p \in P : Rank(P, p) \in 1 .. Cardinality(P) /\ At(P, Rank(P, p)) = p
         /\ \A k \in 1 .. Cardinality(P) : At(P, k) \in P /\ Rank(P, At(P, k)) = k
         /\ \A k, l \in 1 .. Cardinality(P) : k < l => At(P, k) < At(P, l)
<1> DEFINE n == Cardinality(P)
<1>1. IsFiniteSet(P) /\ n \in Nat
  <2>1. IsFiniteSet(1 .. m)
    BY FS_Interval
  <2> QED
    BY <2>1, FS_Subset, FS_CardinalityType
<1>2. \A k : (\E p \in P : Rank(P, p) = k) => At(P, k) \in P /\ Rank(P, At(P, k)) = k
  BY DEF At
<1>3. \A p : Rank(P, p) \in Nat /\ Rank(P, p) <= n
  <2> TAKE p
  <2>1. P \cap (1 .. p) \in SUBSET P
    OBVIOUS
  <2> QED
    BY <1>1, <2>1, FS_Subset, FS_CardinalityType DEF Rank
<1>4. ASSUME NEW p \in P, NEW q \in P, q < p PROVE Rank(P, q) < Rank(P, p)
  <2>1. P \cap (1 .. q) \in SUBSET (P \cap (1 .. p))
    BY <1>4
  <2>2. p \in P \cap (1 .. p) /\ p \notin P \cap (1 .. q)
    BY <1>4
  <2>3. IsFiniteSet(P \cap (1 .. p))
    BY <1>1, FS_Subset
  <2>4. Rank(P, q) <= Rank(P, p) /\ Rank(P, q) # Rank(P, p)
    BY <2>1, <2>2, <2>3, FS_Subset DEF Rank
  <2> QED
    BY <1>3, <2>4
<1>5. ASSUME NEW p \in P PROVE Rank(P, p) \in 1 .. n
  <2>1. p \in P \cap (1 .. p)
    OBVIOUS
  <2>2. IsFiniteSet(P \cap (1 .. p)) /\ P \cap (1 .. p) # {}
    BY <1>1, <2>1, FS_Subset
  <2>3. Rank(P, p) # 0
    BY <2>2, FS_EmptySet DEF Rank
  <2> QED
    BY <1>1, <1>3, <2>3
<1>6. ASSUME NEW p \in P, NEW q \in P, Rank(P, p) = Rank(P, q) PROVE p = q
  <2>1. p \in Nat /\ q \in Nat /\ Rank(P, p) \in Nat /\ Rank(P, q) \in Nat
    BY <1>3
  <2>2. ~(p < q) /\ ~(q < p)
    BY <1>4, <1>6, <2>1
  <2> QED
    BY <2>1, <2>2
<1>7. ASSUME NEW k \in 1 .. n PROVE \E p \in P : Rank(P, p) = k
  <2> DEFINE f == [p \in P |-> Rank(P, p)]
  <2>1. f \in [P -> 1 .. n]
    BY <1>5
  <2>2. f \in Injection(P, 1 .. n)
    BY <1>6, <2>1 DEF Injection, IsInjective
  <2>3. IsFiniteSet(1 .. n) /\ Cardinality(1 .. n) = n
    BY <1>1, FS_Interval
  <2>4. f \in Surjection(P, 1 .. n)
    BY <1>1, <2>2, <2>3, FS_Injection
  <2> QED
    BY <2>4 DEF Surjection
<1>8. ASSUME NEW k \in 1 .. n PROVE At(P, k) \in P /\ Rank(P, At(P, k)) = k
  BY <1>2, <1>7
<1>9. ASSUME NEW p \in P PROVE At(P, Rank(P, p)) = p
  BY <1>5, <1>6, <1>8
<1>10. ASSUME NEW k \in 1 .. n, NEW l \in 1 .. n, k < l PROVE At(P, k) < At(P, l)
  <2>0. At(P, k) \in P /\ At(P, l) \in P
    BY <1>8
  <2>a. \A p \in P : p \in Nat
    OBVIOUS
  <2>1. At(P, k) \in P /\ At(P, l) \in P /\ At(P, k) \in Nat /\ At(P, l) \in Nat
    BY <2>0, <2>a
  <2>2. At(P, k) # At(P, l) /\ ~(At(P, l) < At(P, k))
    BY <1>4, <1>8, <1>10, <2>1
  <2> QED
    BY <2>1, <2>2
<1> QED
  BY <1>1, <1>5, <1>8, <1>9, <1>10

\* The places up to the one numbered m are those numbered 1 to m.
LEMMA FirstPlaces ==
  ASSUME NEW n \in Nat, NEW P \in SUBSET (1 .. n), NEW m \in 1 .. Cardinality(P)
  PROVE  P \cap (1 .. At(P, m)) = {At(P, k) : k \in 1 .. m}
<1>1. Cardinality(P) \in Nat /\ m \in Nat
  BY Ranked
<1>2. ASSUME NEW k \in 1 .. m PROVE At(P, k) \in P \cap (1 .. At(P, m))
  <2>1. k \in 1 .. Cardinality(P) /\ (k < m \/ k = m)
    BY <1>1
  <2>2. At(P, k) \in P /\ At(P, m) \in P
    BY <2>1, Ranked
  <2>3. At(P, k) \in 1 .. n /\ At(P, m) \in 1 .. n
    BY <2>2
  <2>4. At(P, k) < At(P, m) \/ At(P, k) = At(P, m)
    BY <2>1, Ranked
  <2> QED
    BY <2>2, <2>3, <2>4
<1>3. ASSUME NEW p \in P \cap (1 .. At(P, m)) PROVE \E k \in 1 .. m : p = At(P, k)
  <2>1. Rank(P, p) \in 1 .. Cardinality(P) /\ At(P, Rank(P, p)) = p
    BY Ranked
  <2>2. ~(m < Rank(P, p))
    <3>1. SUFFICES ASSUME m < Rank(P, p) PROVE FALSE
      OBVIOUS
    <3>2. At(P, m) < At(P, Rank(P, p))
      BY <2>1, <3>1, Ranked
    <3>3. At(P, m) \in P
      BY Ranked
    <3>4. \A q \in P : q \in Nat
      OBVIOUS
    <3>5. At(P, m) \in Nat
      BY <3>3, <3>4
    <3>6. p \in 1 .. At(P, m) /\ At(P, m) < p
      BY <2>1, <3>2
    <3> QED
      BY <3>5, <3>6
  <2> QED
    BY <1>1, <2>1, <2>2
<1> QED
  BY <1>2, <1>3

-----------------------------------------------------------------------------
(* What a conversation is, and what keeps it                               *)

Kinds == {"assistant", "other", "label", "unlabel"}
Entry == [kind : Kinds, id : Nat, parent : Nat, target : Nat]

\* What is read on the way to an entry.
Read(T, i) == {T[j].id : j \in Conversation(T, i)}

\* The ids of the first entries.
IdsUpTo(T, i) == {T[j].id : j \in 1 .. i}

LEMMA SameIds ==
  ASSUME NEW T, NEW U, NEW i, \A j \in 1 .. i : T[j].id = U[j].id
  PROVE  IdsUpTo(T, i) = IdsUpTo(U, i)
BY DEF IdsUpTo

\* Entries with ids below n, each read with what h says was said before it.
Sound(T, n, h) ==
  /\ Rising(T)
  /\ \A k \in DOMAIN T : T[k].id < n
  /\ \A k \in DOMAIN T : h[T[k].id] = Read(T, k)

LEMMA EntryTypes ==
  ASSUME NEW T \in Seq(Entry)
  PROVE  /\ Len(T) \in Nat /\ DOMAIN T = 1 .. Len(T)
         /\ \A k \in 1 .. Len(T) : /\ T[k] \in Entry /\ T[k].id \in Nat
                                   /\ T[k].parent \in Nat /\ T[k].target \in Nat
                                   /\ T[k].kind \in Kinds
<1>1. Len(T) \in Nat /\ DOMAIN T = 1 .. Len(T)
  BY LenProperties
<1>2. \A k \in 1 .. Len(T) : T[k] \in Entry
  BY ElementOfSeq
<1> QED
  BY <1>1, <1>2 DEF Entry

LEMMA ReadSame ==
  ASSUME NEW T, NEW U, NEW i \in Nat \ {0}, \A j \in 1 .. i : T[j] = U[j]
  PROVE  Read(T, i) = Read(U, i)
<1>1. Lineage(T, i) = Lineage(U, i)
  BY LineageSame
<1>2. Lineage(T, i) \in SUBSET (1 .. i)
  BY LineageClosed
<1>3. Conversation(T, i) = Conversation(U, i) /\ Conversation(T, i) \in SUBSET (1 .. i)
  BY <1>1, <1>2 DEF Conversation
<1> QED
  BY <1>3 DEF Read

\* New ids and what is said with them change nothing for the entries there are.
LEMMA SoundCarried ==
  ASSUME NEW T \in Seq(Entry), NEW n \in Nat, NEW m \in Nat, n <= m, NEW g, NEW h,
         Sound(T, n, h), \A x \in 1 .. n - 1 : g[x] = h[x]
  PROVE  Sound(T, m, g)
<1>1. \A k \in DOMAIN T : T[k].id \in Nat \ {0} /\ T[k].id < n
  BY DEF Sound, Rising
<1>2. \A k \in DOMAIN T : T[k].id < m /\ T[k].id \in 1 .. n - 1
  BY <1>1
<1> QED
  BY <1>2 DEF Sound

\* A file that breaks off keeps what was said before the break.
LEMMA SoundPrefix ==
  ASSUME NEW T \in Seq(Entry), NEW n, NEW h, NEW k \in 0 .. Len(T)
  PROVE  /\ SubSeq(T, 1, k) \in Seq(Entry)
         /\ Sound(T, n, h) => Sound(SubSeq(T, 1, k), n, h)
<1> DEFINE U == SubSeq(T, 1, k)
<1>1. Len(T) \in Nat /\ DOMAIN T = 1 .. Len(T)
  BY EntryTypes
<1>2. /\ U \in Seq(Entry) /\ Len(U) = k
      /\ \A j \in 1 .. k : U[j] = T[j]
  <2>1. \A j \in 1 .. k : T[j] \in Entry
    BY <1>1, EntryTypes
  <2>2. /\ U \in Seq(Entry) /\ Len(U) = IF 1 <= k THEN k - 1 + 1 ELSE 0
        /\ \A j \in 1 .. k - 1 + 1 : U[j] = T[1 + j - 1]
    BY <1>1, <2>1, SubSeqProperties
  <2> QED
    BY <1>1, <2>2
<1>3. DOMAIN U = 1 .. k
  BY <1>2, EntryTypes
<1> HIDE DEF U
<1>4. ASSUME Sound(T, n, h), NEW i \in 1 .. k PROVE h[U[i].id] = Read(U, i)
  <2>1. i \in DOMAIN T /\ i \in Nat \ {0} /\ \A j \in 1 .. i : T[j] = U[j]
    BY <1>1, <1>2
  <2> QED
    BY <1>2, <1>4, <2>1, ReadSame DEF Sound
<1>5. Sound(T, n, h) => Sound(U, n, h)
  BY <1>1, <1>2, <1>3, <1>4 DEF Sound, Rising
<1> QED
  BY <1>2, <1>5 DEF U

\* A new entry is read with what was said up to the entry it hangs on.
LEMMA SoundAppend ==
  ASSUME NEW T \in Seq(Entry), NEW n \in Nat \ {0}, NEW h, Sound(T, n, h),
         NEW e \in Entry, e.id = n, e.parent \in Ids(T) \cup {0},
         h[n] = (IF e.parent = 0 THEN {} ELSE h[e.parent])
                   \cup (IF IsLabel(e) THEN {} ELSE {n})
  PROVE  Sound(Append(T, e), n + 1, h)
<1> DEFINE U == Append(T, e)
           l == Len(T)
<1>1. l \in Nat /\ DOMAIN T = 1 .. l
  BY EntryTypes
<1>2. /\ U \in Seq(Entry) /\ Len(U) = l + 1
      /\ \A j \in 1 .. l : U[j] = T[j]
      /\ U[l + 1] = e
  BY AppendProperties
<1>3. DOMAIN U = 1 .. l + 1
  BY <1>2, EntryTypes
<1> HIDE DEF U, l
<1>4. \A j \in 1 .. l : U[j].id \in Nat \ {0} /\ U[j].id < n
  BY <1>1, <1>2 DEF Sound, Rising
<1>5. Rising(U) /\ \A j \in DOMAIN U : U[j].id < n + 1
  BY <1>1, <1>2, <1>3, <1>4 DEF Sound, Rising
<1>6. ASSUME NEW i \in 1 .. l PROVE h[U[i].id] = Read(U, i)
  <2>1. i \in DOMAIN T /\ i \in Nat \ {0} /\ \A j \in 1 .. i : T[j] = U[j]
    BY <1>1, <1>2
  <2> QED
    BY <2>1, ReadSame DEF Sound
<1>7. h[U[l + 1].id] = Read(U, l + 1)
  <2>0. l + 1 \in Nat \ {0}
    BY <1>1
  <2>1. CASE e.parent = 0
    <3>1. Parents(U, l + 1) = {}
      BY <1>1, <1>2, <1>4, <2>1 DEF Parents
    <3>2. Lineage(U, l + 1) = {l + 1}
      BY <2>0, <3>1, LineageRoot
    <3>3. Read(U, l + 1) = IF IsLabel(e) THEN {} ELSE {n}
      BY <1>2, <3>2 DEF Read, Conversation
    <3> QED
      BY <1>2, <2>1, <3>3
  <2>2. CASE e.parent # 0
    <3>1. PICK p \in 1 .. l : T[p].id = e.parent
      BY <1>1, <2>2 DEF Ids
    <3>2. Parents(U, l + 1) = {p}
      <4>1. p \in Parents(U, l + 1)
        BY <1>1, <1>2, <3>1 DEF Parents
      <4>2. l + 1 \in 1 .. l + 1 /\ Unbranched(U, l + 1)
        BY <1>1, <1>3, <1>5, <2>0, RisingDistinct
      <4>3. \A j \in Parents(U, l + 1) : j = p
        BY <4>1, <4>2 DEF Unbranched
      <4> QED
        BY <4>1, <4>3
    <3>3. Lineage(U, l + 1) = {l + 1} \cup Lineage(U, p)
      BY <2>0, <3>2, LineageStep
    <3>4. Read(U, l + 1) = Read(U, p) \cup (IF IsLabel(e) THEN {} ELSE {n})
      BY <1>2, <3>3 DEF Read, Conversation
    <3>5. h[e.parent] = Read(U, p)
      BY <1>2, <1>6, <3>1
    <3> QED
      BY <1>2, <2>2, <3>4, <3>5
  <2> QED
    BY <2>1, <2>2
<1>8. \A k \in DOMAIN U : h[U[k].id] = Read(U, k)
  <2>1. \A k \in DOMAIN U : k \in 1 .. l \/ k = l + 1
    BY <1>1, <1>3
  <2> QED
    BY <1>6, <1>7, <2>1
<1> QED
  BY <1>5, <1>8 DEF U, Sound

-----------------------------------------------------------------------------
(* What a fork makes of a branch                                           *)

LEMMA InOrderTypes ==
  ASSUME NEW T \in Seq(Entry), NEW P \in SUBSET (1 .. Len(T))
  PROVE  /\ Cardinality(P) \in Nat
         /\ InOrder(T, P) \in Seq(Entry) /\ Len(InOrder(T, P)) = Cardinality(P)
         /\ \A k \in 1 .. Cardinality(P) :
              At(P, k) \in P /\ InOrder(T, P)[k] = T[At(P, k)]
<1> DEFINE n == Cardinality(P)
<1>1. Len(T) \in Nat
  BY EntryTypes
<1>2. n \in Nat /\ \A k \in 1 .. n : At(P, k) \in P
  BY <1>1, Ranked
<1> HIDE DEF n
<1>3. InOrder(T, P) = [k \in 1 .. n |-> T[At(P, k)]]
  BY DEF InOrder, At, Rank, n
<1>4. \A k \in 1 .. n : T[At(P, k)] \in Entry
  BY <1>2, EntryTypes
<1>5. InOrder(T, P) \in [1 .. n -> Entry]
  BY <1>3, <1>4
<1>6. InOrder(T, P) \in Seq(Entry)
  BY <1>2, <1>5, SeqDef
<1>7. DOMAIN InOrder(T, P) = 1 .. n
  BY <1>3
<1>8. Len(InOrder(T, P)) = n
  BY <1>2, <1>6, <1>7, LenProperties
<1> QED
  BY <1>2, <1>3, <1>6, <1>8 DEF n

LEMMA ConversationPlaces ==
  ASSUME NEW T \in Seq(Entry), NEW i \in 1 .. Len(T)
  PROVE  Conversation(T, i) \in SUBSET (1 .. Len(T))
<1>1. Len(T) \in Nat /\ i \in Nat \ {0}
  BY EntryTypes
<1>2. Lineage(T, i) \in SUBSET (1 .. i)
  BY <1>1, LineageClosed
<1> QED
  BY <1>1, <1>2 DEF Conversation

\* The entries of a branch without labels, read as h says.
Told(kept, n, h) ==
  /\ Rising(kept)
  /\ \A k \in DOMAIN kept : /\ ~IsLabel(kept[k]) /\ kept[k].id < n
                            /\ h[kept[k].id] = IdsUpTo(kept, k)

\* Labels with new ids behind them; g says of each what h says of the last entry.
Behind(labels, kept, n, g, h) ==
  /\ \A k \in 1 .. Len(labels) :
       /\ labels[k].kind = "label" /\ labels[k].id = n + k - 1
       /\ labels[k].parent = IF k > 1 THEN n + k - 2 ELSE Last(kept).id
       /\ g[n + k - 1] = IF Last(kept).id = 0 THEN {} ELSE h[Last(kept).id]
  /\ Len(labels) # 0 => Len(kept) # 0

Agree(g, h, n) == \A x \in 1 .. n - 1 : g[x] = h[x]

\* What is taken out of a sound conversation: the entries of the branch, labels
\* aside, each known to be read with those before it.
LEMMA BranchSound ==
  ASSUME NEW T \in Seq(Entry), NEW n, NEW h, Sound(T, n, h), NEW i \in 1 .. Len(T),
         NEW kept, kept = InOrder(T, Conversation(T, i))
  PROVE  kept \in Seq(Entry) /\ Told(kept, n, h)
<1> DEFINE P == Conversation(T, i)
           m == Cardinality(P)
           N == Len(T)
<1>1. N \in Nat /\ DOMAIN T = 1 .. N /\ P \in SUBSET (1 .. N)
  BY EntryTypes, ConversationPlaces
<1>2. /\ m \in Nat /\ kept \in Seq(Entry) /\ Len(kept) = m
      /\ \A k \in 1 .. m : At(P, k) \in P /\ kept[k] = T[At(P, k)]
  BY <1>1, InOrderTypes
<1>3. DOMAIN kept = 1 .. m
  BY <1>2, EntryTypes
<1>4. \A k, l \in 1 .. m : k < l => At(P, k) < At(P, l)
  BY <1>1, Ranked
<1>5. \A p \in P : p \in Lineage(T, i) /\ ~IsLabel(T[p])
  BY DEF Conversation
<1>6. Unbranched(T, N)
  BY <1>1, RisingDistinct DEF Sound
<1>7. ASSUME NEW p \in P PROVE Conversation(T, p) = P \cap (1 .. p)
  <2>1. Lineage(T, p) = Lineage(T, i) \cap (1 .. p)
    BY <1>1, <1>5, <1>6, Ancestors
  <2> QED
    BY <2>1 DEF Conversation
<1>8. ASSUME NEW k \in 1 .. m PROVE h[kept[k].id] = IdsUpTo(kept, k)
  <2>1. At(P, k) \in P /\ At(P, k) \in DOMAIN T /\ kept[k] = T[At(P, k)]
    BY <1>1, <1>2
  <2>2. h[kept[k].id] = {T[q].id : q \in Conversation(T, At(P, k))}
    BY <2>1 DEF Sound, Read
  <2>3. Conversation(T, At(P, k)) = P \cap (1 .. At(P, k))
    BY <1>7, <2>1
  <2>4. P \cap (1 .. At(P, k)) = {At(P, j) : j \in 1 .. k}
    BY <1>1, FirstPlaces
  <2>5. h[kept[k].id] = {T[At(P, j)].id : j \in 1 .. k}
    BY <2>2, <2>3, <2>4
  <2>6. \A j \in 1 .. k : kept[j].id = T[At(P, j)].id
    BY <1>2
  <2> QED
    BY <2>5, <2>6 DEF IdsUpTo
<1> HIDE DEF P, m, N
<1>9. \A k \in 1 .. m : /\ ~IsLabel(kept[k])
                        /\ kept[k].id < n /\ kept[k].id \in Nat \ {0}
  BY <1>1, <1>2, <1>5 DEF Sound, Rising
<1>10. \A k, l \in 1 .. m : k < l => kept[k].id < kept[l].id
  BY <1>1, <1>2, <1>4 DEF Sound, Rising
<1> QED
  BY <1>2, <1>3, <1>8, <1>9, <1>10 DEF Rising, Told

LEMMA RechainedTypes ==
  ASSUME NEW kept \in Seq(Entry)
  PROVE  /\ Rechained(kept) \in Seq(Entry) /\ Len(Rechained(kept)) = Len(kept)
         /\ \A k \in 1 .. Len(kept) :
              /\ Rechained(kept)[k].id = kept[k].id
              /\ Rechained(kept)[k].kind = kept[k].kind
              /\ Rechained(kept)[k].parent = IF k = 1 THEN 0 ELSE kept[k - 1].id
<1> DEFINE n == Len(kept)
           new(k) == [kept[k] EXCEPT !.parent = IF k = 1 THEN 0 ELSE kept[k - 1].id]
<1>1. n \in Nat /\ DOMAIN kept = 1 .. n
  BY EntryTypes
<1>2. ASSUME NEW k \in 1 .. n
      PROVE  /\ new(k) \in Entry
             /\ new(k).id = kept[k].id /\ new(k).kind = kept[k].kind
             /\ new(k).parent = IF k = 1 THEN 0 ELSE kept[k - 1].id
  <2>1. kept[k] \in Entry
    BY EntryTypes
  <2>2. (IF k = 1 THEN 0 ELSE kept[k - 1].id) \in Nat
    <3>1. k # 1 => k - 1 \in 1 .. n
      BY <1>1
    <3> QED
      BY <3>1, EntryTypes
  <2> QED
    BY <2>1, <2>2 DEF Entry
<1>3. Rechained(kept) = [k \in 1 .. n |-> new(k)]
  BY <1>1 DEF Rechained
<1> HIDE DEF n, new
<1>4. Rechained(kept) \in [1 .. n -> Entry]
  BY <1>2, <1>3
<1>5. Rechained(kept) \in Seq(Entry)
  BY <1>1, <1>4, SeqDef
<1>6. DOMAIN Rechained(kept) = 1 .. n
  BY <1>3
<1>7. Len(Rechained(kept)) = n
  BY <1>1, <1>5, <1>6, LenProperties
<1> QED
  BY <1>2, <1>3, <1>5, <1>7 DEF n

LEMMA RelabelledTypes ==
  ASSUME NEW kept \in Seq(Entry), NEW L, nextId \in Nat
  PROVE  LET labels == Relabelled(kept, L) IN
         /\ labels \in Seq(Entry) /\ Len(labels) \in Nat
         /\ \A k \in 1 .. Len(labels) :
              /\ labels[k].kind = "label" /\ labels[k].id = nextId + k - 1
              /\ labels[k].parent = IF k > 1 THEN nextId + k - 2 ELSE Last(kept).id
         /\ Len(labels) # 0 => Len(kept) # 0
<1> DEFINE Q == {k \in DOMAIN kept : kept[k].id \in L}
           targets == InOrder(kept, Q)
           m == Cardinality(Q)
           new(k) == [kind |-> "label", id |-> nextId + k - 1, target |-> targets[k].id,
                      parent |-> IF k > 1 THEN nextId + k - 2 ELSE Last(kept).id]
           labels == Relabelled(kept, L)
<1>1. /\ Len(kept) \in Nat /\ DOMAIN kept = 1 .. Len(kept)
      /\ \A k \in 1 .. Len(kept) : kept[k].id \in Nat
  BY EntryTypes
<1>2. Q \in SUBSET (1 .. Len(kept))
  BY <1>1
<1> HIDE DEF Q
<1>3. /\ m \in Nat /\ targets \in Seq(Entry) /\ Len(targets) = m
      /\ \A k \in 1 .. m : At(Q, k) \in Q
  BY <1>2, InOrderTypes
<1>4. DOMAIN targets = 1 .. m /\ \A k \in 1 .. m : targets[k].id \in Nat
  BY <1>3, EntryTypes
<1>5. m # 0 => Len(kept) # 0
  <2>1. m # 0 => \E q \in Q : TRUE
    BY <1>3
  <2> QED
    BY <1>1, <1>2, <2>1
<1> HIDE DEF targets, m
<1>6. ASSUME NEW k \in 1 .. m PROVE new(k) \in Entry
  <2>1. k \in Nat /\ k >= 1 /\ m # 0
    BY <1>3
  <2>2. Last(kept).id \in Nat
    BY <1>1, <1>5, <2>1 DEF Last
  <2>3. nextId + k - 1 \in Nat /\ (k > 1 => nextId + k - 2 \in Nat)
    BY <2>1
  <2>4. (IF k > 1 THEN nextId + k - 2 ELSE Last(kept).id) \in Nat
    BY <2>2, <2>3
  <2> QED
    BY <1>4, <2>3, <2>4 DEF Entry, Kinds
<1>7. labels = [k \in 1 .. m |-> new(k)]
  BY <1>4 DEF Relabelled, targets, Q
<1>8. \A k \in 1 .. m :
        /\ labels[k].kind = "label" /\ labels[k].id = nextId + k - 1
        /\ labels[k].parent = IF k > 1 THEN nextId + k - 2 ELSE Last(kept).id
  BY <1>7
<1> HIDE DEF new
<1>9. labels \in [1 .. m -> Entry] /\ DOMAIN labels = 1 .. m
  BY <1>6, <1>7
<1> HIDE DEF labels
<1>10. labels \in Seq(Entry)
  BY <1>3, <1>9, SeqDef
<1>11. Len(labels) = m
  BY <1>3, <1>9, <1>10, LenProperties
<1> QED
  BY <1>3, <1>5, <1>8, <1>10, <1>11 DEF labels

\* The entries of a branch, chained anew, with its labels behind them: all of
\* them are read with the entries of the branch up to them.
LEMMA ForkSound ==
  ASSUME NEW kept \in Seq(Entry), NEW labels \in Seq(Entry), NEW n \in Nat \ {0},
         NEW g, NEW h,
         Told(kept, n, h), Behind(labels, kept, n, g, h), Agree(g, h, n)
  PROVE  /\ Rechained(kept) \o labels \in Seq(Entry)
         /\ Sound(Rechained(kept) \o labels, n + Len(labels), g)
<1> DEFINE a == Len(kept)
           b == Len(labels)
           U == Rechained(kept)
           copy == Rechained(kept) \o labels
<1>t. /\ Rising(kept)
      /\ \A k \in DOMAIN kept : /\ ~IsLabel(kept[k]) /\ kept[k].id < n
                                /\ h[kept[k].id] = IdsUpTo(kept, k)
  BY DEF Told
<1>b. /\ \A k \in 1 .. Len(labels) :
           /\ labels[k].kind = "label" /\ labels[k].id = n + k - 1
           /\ labels[k].parent = IF k > 1 THEN n + k - 2 ELSE Last(kept).id
           /\ g[n + k - 1] = IF Last(kept).id = 0 THEN {} ELSE h[Last(kept).id]
      /\ Len(labels) # 0 => Len(kept) # 0
  BY DEF Behind
<1>1. a \in Nat /\ b \in Nat /\ DOMAIN kept = 1 .. a /\ DOMAIN labels = 1 .. b
  BY EntryTypes
<1>2. /\ U \in Seq(Entry) /\ Len(U) = a
      /\ \A k \in 1 .. a :
           /\ U[k].id = kept[k].id /\ U[k].kind = kept[k].kind
           /\ U[k].parent = IF k = 1 THEN 0 ELSE kept[k - 1].id
  BY RechainedTypes
<1> HIDE DEF U
<1>3. /\ copy \in Seq(Entry) /\ Len(copy) = a + b
      /\ \A k \in 1 .. a + b : copy[k] = IF k <= a THEN U[k] ELSE labels[k - a]
  <2>1. copy = U \o labels
    BY DEF U
  <2>2. /\ U \o labels \in Seq(Entry) /\ Len(U \o labels) = Len(U) + Len(labels)
        /\ \A k \in 1 .. Len(U) + Len(labels) :
             (U \o labels)[k] = IF k <= Len(U) THEN U[k] ELSE labels[k - Len(U)]
    <3>1. U \in Seq(Entry)
      BY <1>2
    <3> QED
      BY <3>1, labels \in Seq(Entry), ConcatProperties
  <2> QED
    BY <1>2, <2>1, <2>2
<1> HIDE DEF copy
<1>4. DOMAIN copy = 1 .. a + b
  BY <1>3, EntryTypes
<1>5. \A k \in 1 .. a : /\ copy[k].id = kept[k].id
                        /\ copy[k].id \in Nat \ {0} /\ copy[k].id < n
                        /\ ~IsLabel(copy[k])
                        /\ copy[k].parent = IF k = 1 THEN 0 ELSE kept[k - 1].id
  <2> TAKE k \in 1 .. a
  <2>1. copy[k] = U[k]
    BY <1>1, <1>3
  <2>2. /\ U[k].id = kept[k].id /\ U[k].kind = kept[k].kind
        /\ U[k].parent = IF k = 1 THEN 0 ELSE kept[k - 1].id
    BY <1>2
  <2>3. ~IsLabel(kept[k]) /\ kept[k].id < n /\ kept[k].id \in Nat \ {0}
    BY <1>1, <1>t DEF Rising
  <2> QED
    BY <2>1, <2>2, <2>3 DEF IsLabel
<1>6. \A k \in 1 .. a + b : k \in 1 .. a \/ k - a \in 1 .. b
  BY <1>1
<1>7. ASSUME NEW k \in 1 .. a + b, k - a \in 1 .. b
      PROVE  /\ copy[k].id = n + (k - a) - 1 /\ IsLabel(copy[k])
             /\ copy[k].parent = IF k - a > 1 THEN n + (k - a) - 2 ELSE kept[a].id
             /\ a \in 1 .. a
  <2>1. copy[k] = labels[k - a]
    BY <1>1, <1>3, <1>7
  <2>2. b # 0
    BY <1>1, <1>7
  <2>3. a # 0
    BY <1>b, <2>2
  <2>4. /\ labels[k - a].kind = "label" /\ labels[k - a].id = n + (k - a) - 1
        /\ labels[k - a].parent = IF k - a > 1 THEN n + (k - a) - 2 ELSE Last(kept).id
    BY <1>b, <1>7
  <2> QED
    BY <1>1, <2>1, <2>3, <2>4 DEF Last, IsLabel
<1> HIDE DEF a, b
<1>8. \A k \in 1 .. a + b : copy[k].id \in Nat \ {0} /\ copy[k].id < n + b
  <2> TAKE k \in 1 .. a + b
  <2>1. CASE k \in 1 .. a
    <3>1. copy[k].id \in Nat \ {0} /\ copy[k].id < n
      BY <1>5, <2>1
    <3>2. \A x, y, z \in Nat : x < y => x < y + z
      OBVIOUS
    <3> QED
      BY <1>1, <3>1, <3>2
  <2>2. CASE k - a \in 1 .. b
    <3>1. copy[k].id = n + (k - a) - 1
      BY <1>7, <2>2
    <3>2. k - a \in Nat /\ 1 <= k - a /\ k - a <= b
      BY <1>1, <2>2
    <3> QED
      BY <1>1, <3>1, <3>2
  <2> QED
    BY <1>6, <2>1, <2>2
<1>9. ASSUME NEW j \in 1 .. a + b, NEW k \in 1 .. a + b, j < k
      PROVE  copy[j].id < copy[k].id
  <2>1. CASE k \in 1 .. a
    <3>1. j \in 1 .. a
      BY <1>1, <1>9, <2>1
    <3> QED
      BY <1>1, <1>t, <1>5, <1>9, <2>1, <3>1 DEF Rising
  <2>2. CASE k - a \in 1 .. b
    <3>1. copy[k].id = n + (k - a) - 1
      BY <1>7, <2>2
    <3>2. CASE j \in 1 .. a
      <4>1. copy[j].id \in Nat \ {0} /\ copy[j].id < n
        BY <1>5, <3>2
      <4>2. k - a \in Nat /\ 1 <= k - a
        BY <1>1, <2>2
      <4>3. n <= copy[k].id
        <5>1. \A y, z \in Nat : 1 <= z => y <= y + z - 1
          OBVIOUS
        <5> QED
          BY <3>1, <4>2, <5>1
      <4>4. copy[k].id \in Nat
        BY <1>8
      <4> QED
        BY <4>1, <4>3, <4>4
    <3>3. CASE j - a \in 1 .. b
      <4>1. copy[j].id = n + (j - a) - 1
        BY <1>7, <3>3
      <4> QED
        BY <1>1, <1>9, <3>1, <4>1
    <3> QED
      BY <1>6, <3>2, <3>3
  <2> QED
    BY <1>6, <2>1, <2>2
<1>10. Rising(copy)
  BY <1>4, <1>8, <1>9 DEF Rising
<1>11. ASSUME NEW k \in 1 .. a + b
       PROVE  copy[k].parent = IF k = 1 THEN 0 ELSE copy[k - 1].id
  <2>1. CASE k \in 1 .. a
    <3>1. k # 1 => k - 1 \in 1 .. a
      BY <1>1, <2>1
    <3> QED
      BY <1>5, <2>1, <3>1
  <2>2. CASE k - a \in 1 .. b
    <3>1. /\ copy[k].parent = IF k - a > 1 THEN n + (k - a) - 2 ELSE kept[a].id
          /\ a \in 1 .. a
      BY <1>7, <2>2
    <3>2. k # 1 /\ k - 1 \in 1 .. a + b
      BY <1>1, <2>2, <3>1
    <3>3. CASE k - a > 1
      <4>1. (k - 1) - a \in 1 .. b
        BY <1>1, <2>2, <3>3
      <4>2. copy[k - 1].id = n + ((k - 1) - a) - 1
        BY <1>7, <3>2, <4>1
      <4> QED
        BY <1>1, <3>1, <3>2, <3>3, <4>2
    <3>4. CASE ~(k - a > 1)
      <4>1. k - 1 = a
        BY <1>1, <2>2, <3>4
      <4>2. copy[k - 1].id = kept[a].id
        BY <1>5, <3>1, <4>1
      <4> QED
        BY <3>1, <3>2, <3>4, <4>2
    <3> QED
      BY <3>3, <3>4
  <2> QED
    BY <1>6, <2>1, <2>2
<1>12. Chain(copy)
  BY <1>4, <1>11 DEF Chain
<1>13. ASSUME NEW k \in 1 .. a + b PROVE Lineage(copy, k) = 1 .. k
  <2>1. a + b \in Nat
    BY <1>1
  <2> QED
    BY <1>4, <1>10, <1>12, <2>1, ChainLineage
<1>14. ASSUME NEW k \in 1 .. a + b PROVE g[copy[k].id] = Read(copy, k)
  <2>1. Conversation(copy, k) = {j \in 1 .. k : ~IsLabel(copy[j])}
    BY <1>13 DEF Conversation
  <2>2. CASE k \in 1 .. a
    <3>1. \A j \in 1 .. k : j \in 1 .. a
      BY <1>1, <2>2
    <3>2. Conversation(copy, k) = 1 .. k
      BY <1>5, <2>1, <3>1
    <3>0. \A j \in 1 .. k : copy[j].id = kept[j].id
      BY <1>5, <3>1
    <3>3. Read(copy, k) = IdsUpTo(kept, k)
      <4>1. Read(copy, k) = IdsUpTo(copy, k)
        BY <3>2 DEF Read, IdsUpTo
      <4> QED
        BY <3>0, <4>1, SameIds
    <3>4. g[copy[k].id] = h[kept[k].id]
      <4>1. copy[k].id \in 1 .. n - 1 /\ copy[k].id = kept[k].id
        BY <1>5, <2>2
      <4> QED
        BY <4>1 DEF Agree
    <3> QED
      BY <1>1, <1>t, <2>2, <3>3, <3>4
  <2>3. CASE k - a \in 1 .. b
    <3>1. /\ copy[k].id = n + (k - a) - 1 /\ a \in 1 .. a
      BY <1>7, <2>3
    <3>2. Conversation(copy, k) = 1 .. a
      <4>1. \A j \in 1 .. k : j \in 1 .. a + b
        BY <1>1
      <4>2. \A j \in 1 .. a : j \in 1 .. k
        BY <1>1, <2>3
      <4>3. \A j \in 1 .. k : IsLabel(copy[j]) <=> j \notin 1 .. a
        BY <1>5, <1>6, <1>7, <4>1
      <4> QED
        BY <2>1, <4>2, <4>3
    <3>0. \A j \in 1 .. a : copy[j].id = kept[j].id
      BY <1>5
    <3>3. Read(copy, k) = IdsUpTo(kept, a)
      <4>1. Read(copy, k) = IdsUpTo(copy, a)
        BY <3>2 DEF Read, IdsUpTo
      <4> QED
        BY <3>0, <4>1, SameIds
    <3>4. g[n + (k - a) - 1] = h[kept[a].id]
      <4>1. g[n + (k - a) - 1] = IF Last(kept).id = 0 THEN {} ELSE h[Last(kept).id]
        BY <1>b, <2>3 DEF b
      <4>2. Last(kept) = kept[a]
        BY DEF Last, a
      <4>3. kept[a].id # 0
        BY <1>5, <3>1
      <4> QED
        BY <4>1, <4>2, <4>3
    <3>5. h[kept[a].id] = IdsUpTo(kept, a)
      BY <1>1, <1>t, <3>1
    <3> QED
      BY <3>1, <3>3, <3>4, <3>5
  <2> QED
    BY <1>6, <2>2, <2>3
<1>15. Sound(copy, n + b, g)
  BY <1>4, <1>8, <1>10, <1>14 DEF Sound
<1> QED
  BY <1>3, <1>15 DEF b, copy

-----------------------------------------------------------------------------
(* Files                                                                   *)

Lines(es) == <<Header>> \o es
Contents == {<<>>} \cup {Lines(es) : es \in Seq(Entry)}
FileState ==
  [exists : BOOLEAN, lines : Contents, end : {"newline", "piece", "line"}]

LEMMA LinesOf ==
  ASSUME NEW es \in Seq(Entry)
  PROVE  /\ Lines(es) \in Contents
         /\ Lines(es) # <<>> /\ Head(Lines(es)) = Header /\ Tail(Lines(es)) = es
         /\ Len(Lines(es)) = Len(es) + 1
<1> DEFINE Any == Entry \cup {Header}
<1>1. es \in Seq(Any) /\ <<Header>> \in Seq(Any) /\ Len(<<Header>>) = 1
  <2>1. es \in Seq(Any)
    BY SeqMonotonic
  <2> QED
    BY <2>1
<1> HIDE DEF Any
<1>2. /\ Lines(es) \in Seq(Any) /\ Len(Lines(es)) = 1 + Len(es)
      /\ \A i \in 1 .. 1 + Len(es) :
           Lines(es)[i] = IF i <= 1 THEN <<Header>>[i] ELSE es[i - 1]
  BY <1>1, ConcatProperties DEF Lines
<1>3. Len(es) \in Nat
  BY EntryTypes
<1>4. Lines(es) # <<>> /\ Lines(es)[1] = Header
  BY <1>2, <1>3, EmptySeq
<1>5. Head(Lines(es)) = Header
  BY <1>2, <1>4
<1>6. /\ Tail(Lines(es)) \in Seq(Any) /\ Len(Tail(Lines(es))) = Len(es)
      /\ \A i \in 1 .. Len(es) : Tail(Lines(es))[i] = es[i]
  <2>1. /\ Tail(Lines(es)) \in Seq(Any) /\ Len(Tail(Lines(es))) = Len(Lines(es)) - 1
        /\ \A i \in 1 .. Len(Tail(Lines(es))) : Tail(Lines(es))[i] = Lines(es)[i + 1]
    BY <1>2, <1>4, HeadTailProperties
  <2> QED
    BY <1>2, <1>3, <2>1
<1>7. Tail(Lines(es)) = es
  BY <1>1, <1>6, SeqEqual
<1>8. Len(Lines(es)) = Len(es) + 1
  BY <1>2, <1>3
<1> QED
  BY <1>4, <1>5, <1>7, <1>8 DEF Contents

LEMMA ContentsOf ==
  ASSUME NEW lines \in Contents, lines # <<>>
  PROVE  Tail(lines) \in Seq(Entry) /\ lines = Lines(Tail(lines)) /\ Head(lines) = Header
<1>1. PICK es \in Seq(Entry) : lines = Lines(es)
  BY DEF Contents
<1> QED
  BY <1>1, LinesOf

LEMMA LinesAppend ==
  ASSUME NEW es \in Seq(Entry), NEW e \in Entry
  PROVE  Append(Lines(es), e) = Lines(Append(es, e)) /\ Append(es, e) \in Seq(Entry)
<1> DEFINE Any == Entry \cup {Header}
<1>1. Append(es, e) \in Seq(Entry)
  BY AppendProperties
<1>2. /\ es \in Seq(Any) /\ e \in Any /\ <<e>> \in Seq(Any)
      /\ <<Header>> \in Seq(Any) /\ Append(es, e) = es \o <<e>>
  <2>1. es \in Seq(Any)
    BY SeqMonotonic
  <2>2. Append(es, e) = es \o <<e>>
    BY AppendIsConcat
  <2> QED
    BY <2>1, <2>2
<1> HIDE DEF Any
<1>3. Lines(es) \in Seq(Any)
  BY <1>2, ConcatProperties DEF Lines
<1>4. Append(Lines(es), e) = Lines(es) \o <<e>>
  BY <1>2, <1>3, AppendIsConcat
<1>5. (<<Header>> \o es) \o <<e>> = <<Header>> \o (es \o <<e>>)
  BY <1>2, ConcatAssociative
<1> QED
  BY <1>1, <1>2, <1>4, <1>5 DEF Lines

\* Whole lines of a file that breaks off.
LEMMA LinesPrefix ==
  ASSUME NEW es \in Seq(Entry), NEW k \in 0 .. Len(es)
  PROVE  /\ SubSeq(Lines(es), 1, 0) = <<>>
         /\ SubSeq(Lines(es), 1, k + 1) = Lines(SubSeq(es, 1, k))
<1>1. Len(es) \in Nat /\ SubSeq(es, 1, k) \in Seq(Entry)
  BY EntryTypes, SoundPrefix
<1>2. SubSeq(Lines(es), 1, 0) = <<>>
  BY SubSeqEmpty
<1>3. SubSeq(Lines(es), 1, k + 1) = Lines(SubSeq(es, 1, k))
  <2> DEFINE Any == Entry \cup {Header}
             pre == SubSeq(es, 1, k)
  <2>1. es \in Seq(Any) /\ pre \in Seq(Any) /\ <<Header>> \in Seq(Any) /\ Len(<<Header>>) = 1
    <3>1. es \in Seq(Any) /\ pre \in Seq(Any)
      BY <1>1, SeqMonotonic
    <3> QED
      BY <3>1
  <2>2. Len(pre) = k /\ \A i \in 1 .. k : pre[i] = es[i]
    <3>1. \A i \in 1 .. k : es[i] \in Entry
      BY <1>1, EntryTypes
    <3>2. /\ Len(pre) = IF 1 <= k THEN k - 1 + 1 ELSE 0
          /\ \A i \in 1 .. k - 1 + 1 : pre[i] = es[1 + i - 1]
      BY <1>1, <3>1, SubSeqProperties
    <3> QED
      BY <1>1, <3>2
  <2> HIDE DEF Any, pre
  <2>3. /\ Lines(es) \in Seq(Any) /\ Len(Lines(es)) = 1 + Len(es)
        /\ \A i \in 1 .. 1 + Len(es) :
             Lines(es)[i] = IF i <= 1 THEN <<Header>>[i] ELSE es[i - 1]
    BY <2>1, ConcatProperties DEF Lines
  <2>4. /\ Lines(pre) \in Seq(Any) /\ Len(Lines(pre)) = 1 + k
        /\ \A i \in 1 .. 1 + k :
             Lines(pre)[i] = IF i <= 1 THEN <<Header>>[i] ELSE pre[i - 1]
    BY <2>1, <2>2, ConcatProperties DEF Lines
  <2>5. /\ SubSeq(Lines(es), 1, k + 1) \in Seq(Any)
        /\ Len(SubSeq(Lines(es), 1, k + 1)) = k + 1
        /\ \A i \in 1 .. k + 1 : SubSeq(Lines(es), 1, k + 1)[i] = Lines(es)[i]
    <3>1. \A i \in 1 .. k + 1 : Lines(es)[i] \in Any
      <4>1. \A i \in 1 .. k + 1 : i \in 1 .. Len(Lines(es))
        BY <1>1, <2>3
      <4> QED
        BY <2>3, <4>1, ElementOfSeq
    <3>2. /\ SubSeq(Lines(es), 1, k + 1) \in Seq(Any)
          /\ Len(SubSeq(Lines(es), 1, k + 1)) = IF 1 <= k + 1 THEN k + 1 - 1 + 1 ELSE 0
          /\ \A i \in 1 .. k + 1 - 1 + 1 :
               SubSeq(Lines(es), 1, k + 1)[i] = Lines(es)[1 + i - 1]
      BY <1>1, <3>1, SubSeqProperties
    <3> QED
      BY <1>1, <3>2
  <2>6. \A i \in 1 .. k + 1 : SubSeq(Lines(es), 1, k + 1)[i] = Lines(pre)[i]
    <3> TAKE i \in 1 .. k + 1
    <3>1. CASE i <= 1
      BY <1>1, <2>3, <2>4, <2>5, <3>1
    <3>2. CASE ~(i <= 1)
      <4>1. i - 1 \in 1 .. k
        BY <1>1, <3>2
      <4>2. Lines(es)[i] = es[i - 1] /\ Lines(pre)[i] = pre[i - 1]
        BY <1>1, <2>3, <2>4, <3>2
      <4> QED
        BY <2>2, <2>5, <4>1, <4>2
    <3> QED
      BY <3>1, <3>2
  <2>7. 1 + k = k + 1
    BY <1>1
  <2>8. SubSeq(Lines(es), 1, k + 1) = Lines(pre)
    BY <2>4, <2>5, <2>6, <2>7, SeqEqual
  <2> QED
    BY <2>8 DEF pre
<1> QED
  BY <1>2, <1>3

\* Appending does not touch what is there.
LEMMA AppendPrefix ==
  ASSUME NEW es \in Seq(Entry), NEW e \in Entry, NEW k \in 0 .. Len(es)
  PROVE  SubSeq(Append(es, e), 1, k) = SubSeq(es, 1, k)
<1>1. Len(es) \in Nat
  BY EntryTypes
<1>2. \A i \in 1 .. k : es[i] \in Entry /\ Append(es, e)[i] = es[i]
  BY <1>1, EntryTypes, AppendProperties
<1>3. /\ SubSeq(es, 1, k) \in Seq(Entry)
      /\ Len(SubSeq(es, 1, k)) = IF 1 <= k THEN k - 1 + 1 ELSE 0
      /\ \A i \in 1 .. k - 1 + 1 : SubSeq(es, 1, k)[i] = es[1 + i - 1]
  BY <1>1, <1>2, SubSeqProperties
<1>4. /\ SubSeq(Append(es, e), 1, k) \in Seq(Entry)
      /\ Len(SubSeq(Append(es, e), 1, k)) = IF 1 <= k THEN k - 1 + 1 ELSE 0
      /\ \A i \in 1 .. k - 1 + 1 : SubSeq(Append(es, e), 1, k)[i] = Append(es, e)[1 + i - 1]
  BY <1>1, <1>2, SubSeqProperties
<1>5. /\ Len(SubSeq(es, 1, k)) = k /\ Len(SubSeq(Append(es, e), 1, k)) = k
      /\ \A i \in 1 .. k : SubSeq(es, 1, k)[i] = SubSeq(Append(es, e), 1, k)[i]
  BY <1>1, <1>2, <1>3, <1>4
<1> QED
  BY <1>3, <1>4, <1>5, SeqEqual

-----------------------------------------------------------------------------
(* The invariant                                                           *)

Typed ==
  /\ disk \in [Files -> FileState]
  /\ running \in BOOLEAN /\ flushed \in BOOLEAN /\ piece \in BOOLEAN
  /\ running => current \in Files
  /\ memory \in Seq(Entry) /\ leaf \in Nat
  /\ nextId \in 1 .. MaxEntries + 1
  /\ said = [x \in 1 .. MaxEntries |-> said[x]]

\* Once the manager knows its file to be written, the file ends with a newline
\* or with the piece of the last append, and it holds what memory holds.
Filed ==
  /\ piece => running /\ flushed
  /\ running /\ flushed =>
       /\ disk[current].exists /\ disk[current].lines # <<>>
       /\ disk[current].end = IF piece THEN "piece" ELSE "newline"
       /\ current \notin spoiled => Loaded(disk[current]) = memory

\* Every conversation that is not spoiled is sound, in memory and on disk.
MemorySound ==
  running /\ current \notin spoiled =>
    Sound(memory, nextId, said) /\ leaf \in Ids(memory) \cup {0}

FilesSound ==
  \A f \in Files \ spoiled : disk[f].lines # <<>> => Sound(Loaded(disk[f]), nextId, said)

TreeInv == Typed /\ Filed /\ MemorySound /\ FilesSound

LEMMA InitInv == Init => TreeInv
<1> SUFFICES ASSUME Init PROVE TreeInv
  OBVIOUS
<1>1. MaxEntries \in Nat
  BY TreeAssumption
<1>2. Missing \in FileState
  BY DEF Missing, FileState, Contents
<1>3. <<>> \in Seq(Entry)
  BY EmptySeq
<1>4. said = [x \in 1 .. MaxEntries |-> said[x]]
  BY DEF Init
<1>5. disk \in [Files -> FileState]
  BY <1>2 DEF Init
<1>6. nextId \in 1 .. MaxEntries + 1
  BY <1>1 DEF Init
<1>7. Typed
  BY <1>3, <1>4, <1>5, <1>6 DEF Init, Typed
<1>8. Filed /\ MemorySound
  BY DEF Init, Filed, MemorySound
<1>9. FilesSound
  BY DEF Init, FilesSound, Missing
<1> QED
  BY <1>7, <1>8, <1>9 DEF TreeInv

\* What was said before the entries there are does not change.
HistoryGrows ==
  /\ nextId' \in 1 .. MaxEntries + 1 /\ nextId <= nextId'
  /\ said' = [x \in 1 .. MaxEntries |-> said'[x]]
  /\ \A x \in 1 .. nextId - 1 : said'[x] = said[x]

LEMMA SameHistory ==
  ASSUME Typed, UNCHANGED <<nextId, said>>
  PROVE  HistoryGrows
<1>1. nextId \in Nat
  BY TreeAssumption DEF Typed
<1> QED
  BY <1>1 DEF Typed, HistoryGrows

LEMMA Carried ==
  ASSUME Typed, HistoryGrows, NEW T \in Seq(Entry), Sound(T, nextId, said)
  PROVE  Sound(T, nextId', said')
<1>1. nextId \in Nat /\ nextId' \in Nat
  BY TreeAssumption DEF Typed, HistoryGrows
<1> QED
  BY <1>1, SoundCarried DEF HistoryGrows

LEMMA FileTypes ==
  ASSUME NEW lines \in Contents, NEW end \in {"newline", "piece", "line"}
  PROVE  /\ File(lines, end) \in FileState
         /\ File(lines, end).exists /\ File(lines, end).lines = lines
         /\ File(lines, end).end = end
BY DEF File, FileState

LEMMA ValidFiles ==
  ASSUME NEW file \in FileState
  PROVE  /\ file.lines \in Contents /\ file.exists \in BOOLEAN
         /\ file.end \in {"newline", "piece", "line"}
         /\ Valid(file) <=> file.lines # <<>>
         /\ file.lines # <<>> => /\ Loaded(file) \in Seq(Entry)
                                 /\ file.lines = Lines(Loaded(file))
<1>1. /\ file.lines \in Contents /\ file.exists \in BOOLEAN
      /\ file.end \in {"newline", "piece", "line"}
  BY DEF FileState
<1> QED
  BY <1>1, ContentsOf DEF Valid, Loaded

\* Files stay sound when their lines stay, or go, or are sound again.
LEMMA FilesCarried ==
  ASSUME TreeInv, HistoryGrows, spoiled \subseteq spoiled',
         \A g \in Files \ spoiled' :
           \/ disk'[g].lines = disk[g].lines
           \/ disk'[g].lines = <<>>
           \/ Sound(Tail(disk'[g].lines), nextId', said')
  PROVE  FilesSound'
<1> SUFFICES ASSUME NEW g \in Files \ spoiled', disk'[g].lines # <<>>
             PROVE  Sound(Tail(disk'[g].lines), nextId', said')
  BY DEF FilesSound, Loaded
<1>1. ASSUME disk'[g].lines = disk[g].lines
      PROVE  Sound(Tail(disk'[g].lines), nextId', said')
  <2>1. Sound(Loaded(disk[g]), nextId, said)
    BY <1>1 DEF TreeInv, FilesSound
  <2>2. Loaded(disk[g]) \in Seq(Entry)
    BY <1>1, ValidFiles DEF TreeInv, Typed
  <2>3. Typed
    BY DEF TreeInv
  <2>4. Sound(Loaded(disk[g]), nextId', said')
    BY <2>1, <2>2, <2>3, Carried
  <2> QED
    BY <1>1, <2>4 DEF Loaded
<1> QED
  BY <1>1

\* A write to a new file that stops leaves whole lines of it.
LEMMA CreatedPartly ==
  ASSUME NEW es \in Seq(Entry), NEW partial \in PartlyCreated(Lines(es))
  PROVE  /\ partial \in FileState
         /\ \/ partial.lines = <<>>
            \/ \E k \in 0 .. Len(es) - 1 : partial.lines = Lines(SubSeq(es, 1, k))
<1>1. PICK k \in 0 .. Len(Lines(es)) - 1, end \in {"newline", "piece"} :
        partial = File(SubSeq(Lines(es), 1, k), end)
  BY DEF PartlyCreated
<1>2. Len(es) \in Nat /\ Len(Lines(es)) = Len(es) + 1
  BY EntryTypes, LinesOf
<1>3. CASE k = 0
  <2>1. SubSeq(Lines(es), 1, k) = <<>>
    BY <1>2, <1>3, LinesPrefix
  <2>2. \A lines \in Contents :
          File(lines, end) \in FileState /\ File(lines, end).lines = lines
    <3>1. end \in {"newline", "piece", "line"}
      OBVIOUS
    <3> QED
      BY <3>1, FileTypes
  <2>3. <<>> \in Contents
    BY DEF Contents
  <2> QED
    BY <1>1, <2>1, <2>2, <2>3
<1>4. CASE k # 0
  <2>1. k - 1 \in 0 .. Len(es) - 1 /\ k - 1 \in 0 .. Len(es) /\ (k - 1) + 1 = k
    BY <1>2, <1>4
  <2>2. SubSeq(Lines(es), 1, k) = Lines(SubSeq(es, 1, k - 1))
    BY <2>1, LinesPrefix
  <2>3. SubSeq(es, 1, k - 1) \in Seq(Entry)
    BY <2>1, SoundPrefix
  <2>4. SubSeq(Lines(es), 1, k) \in Contents
    BY <2>2, <2>3, LinesOf
  <2>5. /\ File(SubSeq(Lines(es), 1, k), end) \in FileState
        /\ File(SubSeq(Lines(es), 1, k), end).lines = SubSeq(Lines(es), 1, k)
    <3>1. end \in {"newline", "piece", "line"}
      OBVIOUS
    <3>2. \A lines \in Contents :
            File(lines, end) \in FileState /\ File(lines, end).lines = lines
      BY <3>1, FileTypes
    <3> QED
      BY <2>4, <3>2
  <2> QED
    BY <1>1, <2>1, <2>2, <2>5
<1> QED
  BY <1>3, <1>4

-----------------------------------------------------------------------------
(* Appending                                                               *)

NewEntry(e) ==
  /\ e \in Entry /\ e.id = nextId
  /\ current \notin spoiled => e.parent \in Ids(memory) \cup {0}

LEMMA EntryGrows ==
  ASSUME TreeInv, running, nextId =< MaxEntries, NEW e, NewEntry(e),
         nextId' = nextId + 1, said' = [said EXCEPT ![nextId] = SaidBy(e)]
  PROVE  /\ HistoryGrows
         /\ current \notin spoiled => Sound(Append(memory, e), nextId', said')
<1>1. nextId \in Nat \ {0} /\ MaxEntries \in Nat
  BY TreeAssumption DEF TreeInv, Typed
<1>2. said = [x \in 1 .. MaxEntries |-> said[x]] /\ nextId \in 1 .. MaxEntries
  BY <1>1 DEF TreeInv, Typed
<1>3. /\ said' = [x \in 1 .. MaxEntries |-> said'[x]]
      /\ \A x \in 1 .. MaxEntries : said'[x] = IF x = nextId THEN SaidBy(e) ELSE said[x]
  <2> DEFINE D == 1 .. MaxEntries
  <2>1. said = [x \in D |-> said[x]] /\ nextId \in D
    BY <1>2
  <2> HIDE DEF D
  <2>2. said' = [x \in D |-> IF x = nextId THEN SaidBy(e) ELSE said[x]]
    BY <2>1
  <2>3. \A x \in D : said'[x] = IF x = nextId THEN SaidBy(e) ELSE said[x]
    BY <2>2
  <2>4. said' = [x \in D |-> said'[x]]
    BY <2>2
  <2> QED
    BY <2>3, <2>4 DEF D
<1>4. \A x \in 1 .. nextId - 1 : x \in 1 .. MaxEntries /\ x # nextId
  BY <1>1
<1>5. nextId' \in 1 .. MaxEntries + 1 /\ nextId <= nextId'
  BY <1>1
<1>6. HistoryGrows
  BY <1>3, <1>4, <1>5 DEF HistoryGrows
<1>7. ASSUME current \notin spoiled PROVE Sound(Append(memory, e), nextId', said')
  <2>1. /\ Sound(memory, nextId, said) /\ memory \in Seq(Entry)
        /\ e \in Entry /\ e.id = nextId /\ e.parent \in Ids(memory) \cup {0}
    BY <1>7 DEF TreeInv, MemorySound, Typed, NewEntry
  <2>2. Sound(memory, nextId, said')
    <3>1. \A x \in 1 .. nextId - 1 : said'[x] = said[x]
      BY <1>3, <1>4
    <3>2. nextId \in Nat /\ nextId <= nextId
      BY <1>1
    <3>3. Sound(memory, nextId, said) /\ memory \in Seq(Entry)
      BY <2>1
    <3> QED
      BY <3>1, <3>2, <3>3, SoundCarried
  <2>3. said'[nextId] = SaidBy(e)
    BY <1>2, <1>3
  <2>4. e.parent # 0 => said[e.parent] = said'[e.parent]
    <3>1. SUFFICES ASSUME e.parent # 0 PROVE said[e.parent] = said'[e.parent]
      OBVIOUS
    <3>2. PICK k \in DOMAIN memory : memory[k].id = e.parent
      BY <2>1, <3>1 DEF Ids
    <3>3. e.parent \in Nat \ {0} /\ e.parent < nextId
      BY <2>1, <3>2 DEF Sound, Rising
    <3>4. e.parent \in 1 .. nextId - 1
      BY <1>1, <3>3
    <3> QED
      BY <1>3, <1>4, <3>4
  <2>5. said'[nextId] = (IF e.parent = 0 THEN {} ELSE said'[e.parent])
                           \cup (IF IsLabel(e) THEN {} ELSE {nextId})
    BY <2>1, <2>3, <2>4 DEF SaidBy, Before
  <2> QED
    BY <1>1, <2>1, <2>2, <2>5, SoundAppend
<1> QED
  BY <1>6, <1>7

LEMMA AppendedTypes ==
  ASSUME TreeInv, running, NEW e \in Entry
  PROVE  /\ Append(memory, e) \in Seq(Entry) /\ Append(memory, e) # <<>>
         /\ Last(Append(memory, e)) = e
<1>1. memory \in Seq(Entry) /\ Len(memory) \in Nat
  BY EntryTypes DEF TreeInv, Typed
<1>2. /\ Append(memory, e) \in Seq(Entry) /\ Append(memory, e) # <<>>
      /\ Len(Append(memory, e)) = Len(memory) + 1
      /\ Append(memory, e)[Len(memory) + 1] = e
  BY <1>1, AppendProperties
<1> QED
  BY <1>2 DEF Last

\* What the file of a manager that knows it to be written is.
LEMMA FlushedFile ==
  ASSUME TreeInv, running
  PROVE  /\ current \in Files /\ disk[current] \in FileState
         /\ piece => flushed
         /\ flushed =>
              /\ disk[current].exists /\ disk[current].lines # <<>>
              /\ disk[current].end = IF piece THEN "piece" ELSE "newline"
              /\ current \notin spoiled => disk[current].lines = Lines(memory)
<1>1. current \in Files /\ disk[current] \in FileState
  BY DEF TreeInv, Typed
<1>2. ASSUME flushed
      PROVE  /\ disk[current].exists /\ disk[current].lines # <<>>
             /\ disk[current].end = IF piece THEN "piece" ELSE "newline"
             /\ current \notin spoiled => disk[current].lines = Lines(memory)
  BY <1>1, <1>2, ValidFiles DEF TreeInv, Filed
<1> QED
  BY <1>1, <1>2 DEF TreeInv, Filed

\* The file once the entries are written.
LEMMA Written ==
  ASSUME TreeInv, running, NEW e \in Entry, NEW entries, entries = Append(memory, e)
  PROVE  /\ Persisted(entries) \in FileState
         /\ Deferred(entries) => Persisted(entries) = disk[current] /\ ~flushed
         /\ ~Deferred(entries) =>
              /\ Persisted(entries).exists /\ Persisted(entries).lines # <<>>
              /\ Persisted(entries).end = "newline"
              /\ ~piece /\ current \notin spoiled => Persisted(entries).lines = Lines(entries)
<1>1. entries \in Seq(Entry) /\ Last(entries) = e
  BY AppendedTypes
<1>2. CASE Deferred(entries)
  BY <1>2, FlushedFile DEF Persisted, Deferred
<1>3. CASE ~Deferred(entries) /\ FirstWrite(entries)
  <2>1. Persisted(entries) = File(Lines(entries), "newline")
    BY <1>3 DEF Persisted, Lines
  <2>2. Lines(entries) \in Contents /\ Lines(entries) # <<>>
    BY <1>1, LinesOf
  <2>3. /\ File(Lines(entries), "newline") \in FileState
        /\ File(Lines(entries), "newline").exists
        /\ File(Lines(entries), "newline").lines = Lines(entries)
        /\ File(Lines(entries), "newline").end = "newline"
    BY <2>2, FileTypes
  <2> QED
    BY <1>3, <2>1, <2>2, <2>3
<1>4. CASE ~Deferred(entries) /\ ~FirstWrite(entries)
  <2>1. flushed
    BY <1>4 DEF Deferred, FirstWrite
  <2>2. Persisted(entries) = Appended(disk[current], e)
    BY <1>1, <1>4 DEF Persisted
  <2>3. disk[current].lines \in Contents /\ disk[current].lines # <<>>
    BY <2>1, FlushedFile, ValidFiles
  <2>4. CASE piece
    <3>1. Appended(disk[current], e) = File(disk[current].lines, "newline")
      BY <2>1, <2>4, FlushedFile DEF Appended, Joined
    <3> QED
      BY <1>4, <2>2, <2>3, <2>4, <3>1, FileTypes
  <2>5. CASE ~piece
    <3>1. Appended(disk[current], e) = File(Append(disk[current].lines, e), "newline")
      BY <2>1, <2>5, FlushedFile DEF Appended
    <3>2. PICK es \in Seq(Entry) : disk[current].lines = Lines(es)
      BY <2>3, ContentsOf
    <3>3. Append(disk[current].lines, e) = Lines(Append(es, e)) /\ Append(es, e) \in Seq(Entry)
      BY <3>2, LinesAppend
    <3>4. Append(disk[current].lines, e) \in Contents /\ Append(disk[current].lines, e) # <<>>
      BY <3>3, LinesOf
    <3>5. ASSUME current \notin spoiled PROVE Append(disk[current].lines, e) = Lines(entries)
      <4>1. disk[current].lines = Lines(memory) /\ memory \in Seq(Entry)
        BY <2>1, <3>5, FlushedFile DEF TreeInv, Typed
      <4> QED
        BY <4>1, LinesAppend
    <3>6. \A lines \in Contents :
            /\ File(lines, "newline") \in FileState
            /\ File(lines, "newline").exists
            /\ File(lines, "newline").lines = lines
            /\ File(lines, "newline").end = "newline"
      BY FileTypes
    <3>7. /\ Persisted(entries) \in FileState /\ Persisted(entries).exists
          /\ Persisted(entries).lines = Append(disk[current].lines, e)
          /\ Persisted(entries).end = "newline"
      BY <2>2, <3>1, <3>4, <3>6
    <3> QED
      BY <1>4, <3>4, <3>5, <3>7
  <2> QED
    BY <2>4, <2>5
<1> QED
  BY <1>2, <1>3, <1>4

\* The file when the write stops: as it was, a beginning of what it was to be,
\* or all of it but the last newline.
LEMMA WrittenPartly ==
  ASSUME TreeInv, running, NEW e \in Entry, NEW entries, entries = Append(memory, e)
  PROVE  /\ \A partial \in PartlyPersisted(entries) :
              /\ partial \in FileState
              /\ flushed => /\ partial.exists /\ partial.lines = disk[current].lines
                            /\ partial.end \in {"newline", "piece"}
              /\ ~flushed => \/ partial.lines = <<>>
                             \/ \E k \in 0 .. Len(memory) :
                                  partial.lines = Lines(SubSeq(memory, 1, k))
         /\ \A partial \in Unterminated(entries) :
              /\ partial \in FileState /\ ~piece
              /\ partial.lines = Persisted(entries).lines
<1>1. memory \in Seq(Entry) /\ Len(memory) \in Nat
  BY EntryTypes DEF TreeInv, Typed
<1>2. /\ entries \in Seq(Entry) /\ Last(entries) = e /\ Len(entries) = Len(memory) + 1
  BY <1>1, AppendedTypes, AppendProperties
<1>3. ASSUME NEW partial \in PartlyPersisted(entries), flushed
      PROVE  /\ partial \in FileState
             /\ partial.exists /\ partial.lines = disk[current].lines
             /\ partial.end \in {"newline", "piece"}
  <2>1. partial \in PartlyAppended(disk[current])
    BY <1>3 DEF PartlyPersisted, FirstWrite, Deferred
  <2>2. /\ disk[current].exists /\ disk[current].end \in {"newline", "piece"}
        /\ disk[current] \in FileState /\ disk[current].lines \in Contents
    BY <1>3, FlushedFile, ValidFiles
  <2>3. Joined(disk[current]) = disk[current].lines
    BY <2>2 DEF Joined
  <2>4. CASE partial = disk[current]
    BY <2>2, <2>4
  <2>5. CASE partial = File(disk[current].lines, "piece")
    BY <2>2, <2>5, FileTypes
  <2> QED
    BY <2>1, <2>3, <2>4, <2>5 DEF PartlyAppended
<1>4. ASSUME NEW partial \in PartlyPersisted(entries), ~flushed
      PROVE  /\ partial \in FileState
             /\ \/ partial.lines = <<>>
                \/ \E k \in 0 .. Len(memory) : partial.lines = Lines(SubSeq(memory, 1, k))
  <2>1. partial = Missing \/ partial \in PartlyCreated(Lines(entries))
    BY <1>4 DEF PartlyPersisted, FirstWrite, Deferred, Lines
  <2>2. CASE partial = Missing
    BY <2>2 DEF Missing, FileState, Contents
  <2>3. CASE partial \in PartlyCreated(Lines(entries))
    <3>1. /\ partial \in FileState
          /\ \/ partial.lines = <<>>
             \/ \E k \in 0 .. Len(entries) - 1 : partial.lines = Lines(SubSeq(entries, 1, k))
      BY <1>2, <2>3, CreatedPartly
    <3>2. ASSUME NEW k \in 0 .. Len(entries) - 1
          PROVE  k \in 0 .. Len(memory) /\ SubSeq(entries, 1, k) = SubSeq(memory, 1, k)
      BY <1>1, <1>2, AppendPrefix
    <3> QED
      BY <3>1, <3>2
  <2> QED
    BY <2>1, <2>2, <2>3
<1>5. ASSUME NEW partial \in Unterminated(entries)
      PROVE  /\ partial \in FileState /\ ~piece
             /\ partial.lines = Persisted(entries).lines
  <2>1. /\ partial = File(Persisted(entries).lines, "line")
        /\ FirstWrite(entries) \/ disk[current].end = "newline"
    BY <1>5 DEF Unterminated
  <2>2. Persisted(entries).lines \in Contents
    BY Written, ValidFiles
  <2>3. ~piece
    BY <2>1, FlushedFile DEF FirstWrite
  <2> QED
    BY <2>1, <2>2, <2>3, FileTypes
<1> QED
  BY <1>3, <1>4, <1>5

LEMMA WriteKeeps ==
  ASSUME TreeInv, HistoryGrows, running, NEW file \in FileState, Becomes(file),
         current \notin spoiled' =>
           \/ file.lines = disk[current].lines
           \/ file.lines = <<>>
           \/ Sound(Tail(file.lines), nextId', said')
  PROVE  /\ disk' \in [Files -> FileState] /\ disk'[current] = file
         /\ FilesSound' /\ spoiled \subseteq spoiled'
         /\ piece /\ file # disk[current] => current \in spoiled'
<1>1. current \in Files /\ disk \in [Files -> FileState]
  BY DEF TreeInv, Typed
<1>2. /\ disk' = [disk EXCEPT ![current] = file]
      /\ spoiled' = IF piece /\ file # disk[current] THEN spoiled \cup {current} ELSE spoiled
  BY DEF Becomes
<1>3. disk' \in [Files -> FileState] /\ disk'[current] = file
  BY <1>1, <1>2
<1>4. spoiled \subseteq spoiled' /\ (piece /\ file # disk[current] => current \in spoiled')
  BY <1>2
<1>5. \A g \in Files : g # current => disk'[g] = disk[g]
  BY <1>1, <1>2
<1>6. FilesSound'
  <2>1. ASSUME NEW g \in Files \ spoiled'
        PROVE  \/ disk'[g].lines = disk[g].lines
               \/ disk'[g].lines = <<>>
               \/ Sound(Tail(disk'[g].lines), nextId', said')
    BY <1>3, <1>5
  <2> QED
    BY <1>4, <2>1, FilesCarried
<1> QED
  BY <1>3, <1>4, <1>6

LEMMA AppendSucceedsKeeps ==
  ASSUME TreeInv, running, nextId =< MaxEntries, NEW e, NewEntry(e), AppendSucceeds(e)
  PROVE  TreeInv'
<1> DEFINE entries == Append(memory, e)
           file == Persisted(entries)
<1>1. /\ Becomes(file) /\ piece' = (piece /\ Deferred(entries))
      /\ flushed' = ~Deferred(entries) /\ memory' = entries /\ leaf' = e.id
      /\ nextId' = nextId + 1 /\ said' = [said EXCEPT ![nextId] = SaidBy(e)]
      /\ running' = running /\ current' = current
  BY DEF AppendSucceeds, Activate
<1>2. e \in Entry /\ e.id = nextId /\ nextId \in Nat
  BY DEF NewEntry, Entry
<1>3. /\ HistoryGrows
      /\ current \notin spoiled => Sound(entries, nextId', said')
  BY <1>1, EntryGrows
<1>4. entries \in Seq(Entry) /\ entries # <<>> /\ Last(entries) = e
  BY <1>2, AppendedTypes
<1>5. /\ file \in FileState
      /\ Deferred(entries) => file = disk[current] /\ ~flushed
      /\ ~Deferred(entries) =>
           /\ file.exists /\ file.lines # <<>> /\ file.end = "newline"
           /\ ~piece /\ current \notin spoiled => file.lines = Lines(entries)
  BY <1>2, Written
<1>6. Tail(Lines(entries)) = entries
  BY <1>4, LinesOf
<1> HIDE DEF entries, file
<1>7. piece => flushed /\ ~Deferred(entries) /\ disk[current].end = "piece"
  BY <1>5, FlushedFile
<1>8. current \notin spoiled' => current \notin spoiled /\ (piece => file = disk[current])
  BY <1>1 DEF Becomes
<1>9. current \notin spoiled' /\ ~Deferred(entries) => file.lines = Lines(entries)
  BY <1>5, <1>7, <1>8
<1>10. /\ disk' \in [Files -> FileState] /\ disk'[current] = file
       /\ FilesSound' /\ spoiled \subseteq spoiled'
  <2>1. current \notin spoiled' =>
           \/ file.lines = disk[current].lines
           \/ file.lines = <<>>
           \/ Sound(Tail(file.lines), nextId', said')
    BY <1>3, <1>5, <1>6, <1>8, <1>9
  <2> QED
    BY <1>1, <1>3, <1>5, <2>1, WriteKeeps
<1>11. Typed'
  <2>1. running' \in BOOLEAN /\ (running' => current' \in Files)
    BY <1>1 DEF TreeInv, Typed
  <2>2. flushed' \in BOOLEAN /\ piece' \in BOOLEAN
    BY <1>1
  <2>3. memory' \in Seq(Entry) /\ leaf' \in Nat
    BY <1>1, <1>2, <1>4
  <2>4. nextId' \in 1 .. MaxEntries + 1 /\ said' = [x \in 1 .. MaxEntries |-> said'[x]]
    BY <1>3 DEF HistoryGrows
  <2> QED
    BY <1>10, <2>1, <2>2, <2>3, <2>4 DEF Typed
<1>12. Filed'
  <2>1. ~piece'
    BY <1>1, <1>7
  <2>2. ASSUME flushed'
        PROVE  /\ disk'[current'].exists /\ disk'[current'].lines # <<>>
               /\ disk'[current'].end = "newline"
               /\ current' \notin spoiled' => Loaded(disk'[current']) = memory'
    <3>1. ~Deferred(entries) /\ disk'[current'] = file
      BY <1>1, <1>10, <2>2
    <3>2. current \notin spoiled' => Tail(file.lines) = entries
      BY <1>6, <1>9, <3>1
    <3> QED
      BY <1>1, <1>5, <3>1, <3>2 DEF Loaded
  <2> QED
    BY <2>1, <2>2 DEF Filed
<1>13. MemorySound'
  <2>1. e.id \in Ids(entries)
    <3>1. Len(entries) \in DOMAIN entries
      BY <1>4, EmptySeq, EntryTypes
    <3> QED
      BY <1>4, <3>1 DEF Ids, Last
  <2> QED
    BY <1>1, <1>3, <1>8, <2>1 DEF MemorySound
<1> QED
  BY <1>10, <1>11, <1>12, <1>13 DEF TreeInv

\* The beginning of a conversation is sound with it.
LEMMA PrefixSound ==
  ASSUME TreeInv, running, HistoryGrows, current \notin spoiled,
         NEW k \in 0 .. Len(memory), NEW lines, lines = Lines(SubSeq(memory, 1, k))
  PROVE  Sound(Tail(lines), nextId', said')
<1>1. memory \in Seq(Entry) /\ Sound(memory, nextId, said) /\ Typed
  BY DEF TreeInv, MemorySound, Typed
<1>2. SubSeq(memory, 1, k) \in Seq(Entry) /\ Sound(SubSeq(memory, 1, k), nextId, said)
  BY <1>1, SoundPrefix
<1>3. Sound(SubSeq(memory, 1, k), nextId', said')
  BY <1>1, <1>2, Carried
<1> QED
  BY <1>2, <1>3, LinesOf

LEMMA AppendFailsKeeps ==
  ASSUME TreeInv, running, nextId =< MaxEntries, NEW e, NewEntry(e), NEW from, from = e.parent,
         AppendFails(e, from)
  PROVE  TreeInv'
<1> DEFINE entries == Append(memory, e)
<1>1. /\ leaf' = from /\ memory' = memory /\ running' = running /\ current' = current
      /\ flushed' = flushed /\ nextId' = nextId /\ said' = said
  BY DEF AppendFails, RolledBack
<1>2. e \in Entry /\ from \in Nat /\ Typed
  BY DEF NewEntry, Entry, TreeInv
<1>3. HistoryGrows
  BY <1>1, <1>2, SameHistory
<1>4. ASSUME disk' \in [Files -> FileState], piece' \in BOOLEAN PROVE Typed'
  BY <1>1, <1>2, <1>4 DEF Typed
<1>5. ASSUME spoiled \subseteq spoiled' PROVE MemorySound'
  <2>1. current \notin spoiled => from \in Ids(memory) \cup {0}
    BY DEF NewEntry
  <2> QED
    BY <1>1, <1>5, <2>1 DEF TreeInv, MemorySound
<1>6. CASE UNCHANGED <<disk, setbacks, piece, spoiled>>
  <2>1. Typed'
    BY <1>4, <1>6, <1>2 DEF Typed
  <2>2. Filed'
    BY <1>1, <1>6 DEF TreeInv, Filed
  <2>3. MemorySound' /\ FilesSound'
    BY <1>1, <1>5, <1>6 DEF TreeInv, FilesSound
  <2> QED
    BY <2>1, <2>2, <2>3 DEF TreeInv
<1>7. CASE \E partial \in PartlyPersisted(entries) :
             /\ Becomes(partial)
             /\ piece' = (flushed /\ partial.end # "newline")
  <2>1. PICK partial \in PartlyPersisted(entries) :
             /\ Becomes(partial)
             /\ piece' = (flushed /\ partial.end # "newline")
    BY <1>7
  <2>2. /\ partial \in FileState
        /\ flushed => /\ partial.exists /\ partial.lines = disk[current].lines
                      /\ partial.end \in {"newline", "piece"}
        /\ ~flushed => \/ partial.lines = <<>>
                       \/ \E k \in 0 .. Len(memory) :
                            partial.lines = Lines(SubSeq(memory, 1, k))
    BY <1>2, WrittenPartly
  <2>3. spoiled \subseteq spoiled'
    BY <2>1 DEF Becomes
  <2>4. current \notin spoiled' =>
           \/ partial.lines = disk[current].lines
           \/ partial.lines = <<>>
           \/ Sound(Tail(partial.lines), nextId', said')
    BY <1>3, <2>2, <2>3, PrefixSound
  <2>5. /\ disk' \in [Files -> FileState] /\ disk'[current] = partial /\ FilesSound'
    BY <1>3, <2>1, <2>2, <2>4, WriteKeeps
  <2>6. Typed'
    BY <1>4, <2>1, <2>5
  <2>7. Filed'
    <3>1. piece' => running' /\ flushed'
      BY <1>1, <2>1
    <3>2. ASSUME flushed'
          PROVE  /\ disk'[current'].exists /\ disk'[current'].lines # <<>>
                 /\ disk'[current'].end = IF piece' THEN "piece" ELSE "newline"
                 /\ current' \notin spoiled' => Loaded(disk'[current']) = memory'
      <4>1. flushed /\ disk'[current'] = partial
        BY <1>1, <2>5, <3>2
      <4>2. partial.lines = disk[current].lines /\ disk[current].lines # <<>>
        BY <2>2, <4>1, FlushedFile
      <4>3. current \notin spoiled' => Tail(partial.lines) = memory
        BY <2>3, <4>1, <4>2 DEF TreeInv, Filed, Loaded
      <4>4. partial.end = IF piece' THEN "piece" ELSE "newline"
        BY <2>1, <2>2, <4>1
      <4> QED
        BY <1>1, <2>2, <4>1, <4>2, <4>3, <4>4 DEF Loaded
    <3> QED
      BY <3>1, <3>2 DEF Filed
  <2>8. MemorySound'
    BY <1>5, <2>3
  <2> QED
    BY <2>5, <2>6, <2>7, <2>8 DEF TreeInv
<1> QED
  BY <1>6, <1>7 DEF AppendFails

\* What is left when the process ends: its files.
LEMMA DieKeeps ==
  ASSUME Die, HistoryGrows, disk' \in [Files -> FileState], FilesSound'
  PROVE  TreeInv'
<1>1. Typed'
  <2>1. <<>> \in Seq(Entry)
    BY EmptySeq
  <2> QED
    BY <2>1 DEF Die, HistoryGrows, Typed
<1>2. Filed' /\ MemorySound'
  BY DEF Die, Filed, MemorySound
<1> QED
  BY <1>1, <1>2 DEF TreeInv

LEMMA AppendDiesKeeps ==
  ASSUME TreeInv, running, nextId =< MaxEntries, NEW e, NewEntry(e), AppendDies(e)
  PROVE  TreeInv'
<1> DEFINE entries == Append(memory, e)
<1>1. /\ ~Deferred(entries) /\ Die
      /\ nextId' = nextId + 1 /\ said' = [said EXCEPT ![nextId] = SaidBy(e)]
  BY DEF AppendDies
<1>2. PICK partial \in PartlyPersisted(entries) \cup Unterminated(entries) : Becomes(partial)
  BY DEF AppendDies
<1>3. /\ HistoryGrows
      /\ current \notin spoiled => Sound(entries, nextId', said')
  BY <1>1, EntryGrows
<1>4. e \in Entry
  BY DEF NewEntry
<1>5. spoiled \subseteq spoiled'
  BY <1>2 DEF Becomes
<1>6. CASE partial \in PartlyPersisted(entries)
  <2>1. /\ partial \in FileState
        /\ flushed => partial.lines = disk[current].lines
        /\ ~flushed => \/ partial.lines = <<>>
                       \/ \E k \in 0 .. Len(memory) :
                            partial.lines = Lines(SubSeq(memory, 1, k))
    BY <1>4, <1>6, WrittenPartly
  <2>2. current \notin spoiled' =>
           \/ partial.lines = disk[current].lines
           \/ partial.lines = <<>>
           \/ Sound(Tail(partial.lines), nextId', said')
    BY <1>3, <1>5, <2>1, PrefixSound DEF TreeInv, Typed
  <2>3. disk' \in [Files -> FileState] /\ FilesSound'
    BY <1>2, <1>3, <2>1, <2>2, WriteKeeps
  <2> QED
    BY <1>1, <1>3, <2>3, DieKeeps
<1>7. CASE partial \in Unterminated(entries)
  <2>1. /\ partial \in FileState /\ ~piece
        /\ partial.lines = Persisted(entries).lines
    BY <1>4, <1>7, WrittenPartly
  <2>2. current \notin spoiled => Persisted(entries).lines = Lines(entries)
    BY <1>1, <1>4, <2>1, Written
  <2>3. Tail(Lines(entries)) = entries
    BY <1>4, AppendedTypes, LinesOf
  <2>4. current \notin spoiled' => Sound(Tail(partial.lines), nextId', said')
    BY <1>3, <1>5, <2>1, <2>2, <2>3
  <2>5. disk' \in [Files -> FileState] /\ FilesSound'
    BY <1>2, <1>3, <2>1, <2>4, WriteKeeps
  <2> QED
    BY <1>1, <1>3, <2>5, DieKeeps
<1> QED
  BY <1>2, <1>6, <1>7

LEMMA AppendEntryKeeps ==
  ASSUME TreeInv, NEW kind \in Kinds, NEW parent \in Nat, NEW target \in Nat,
         running /\ current \notin spoiled => parent \in Ids(memory) \cup {0},
         AppendEntry(kind, parent, target)
  PROVE  TreeInv'
<1> DEFINE e == [kind |-> kind, id |-> nextId, parent |-> parent, target |-> target]
<1>1. /\ running /\ nextId =< MaxEntries
      /\ AppendSucceeds(e) \/ AppendFails(e, parent) \/ AppendDies(e)
  BY DEF AppendEntry
<1>2. NewEntry(e) /\ parent = e.parent
  <2>1. nextId \in Nat
    BY TreeAssumption DEF TreeInv, Typed
  <2>2. e \in Entry
    BY <2>1 DEF Entry
  <2> QED
    BY <1>1, <2>2 DEF NewEntry
<1> HIDE DEF e
<1> QED
  BY <1>1, <1>2, AppendSucceedsKeeps, AppendFailsKeeps, AppendDiesKeeps

LEMMA IdTypes == ASSUME TreeInv PROVE Ids(memory) \subseteq Nat
<1>1. memory \in Seq(Entry)
  BY DEF TreeInv, Typed
<1> QED
  BY <1>1, EntryTypes DEF Ids

\* Nothing is written, and the leaf goes to an entry or to none.
LEMMA MoveLeafKeeps == ASSUME TreeInv, MoveLeaf PROVE TreeInv'
<1>1. /\ leaf' \in Ids(memory) \cup {0}
      /\ UNCHANGED <<disk, running, current, memory, flushed, nextId, said, piece, spoiled>>
  BY DEF MoveLeaf, historyVars
<1>2. leaf' \in Nat
  BY <1>1, IdTypes
<1>3. Typed'
  BY <1>1, <1>2 DEF TreeInv, Typed
<1>4. Filed'
  BY <1>1 DEF TreeInv, Filed
<1>5. MemorySound' /\ FilesSound'
  BY <1>1 DEF TreeInv, MemorySound, FilesSound
<1> QED
  BY <1>3, <1>4, <1>5 DEF TreeInv

LEMMA QuitKeeps == ASSUME TreeInv, Quit PROVE TreeInv'
<1>1. Die /\ UNCHANGED <<disk, nextId, said, spoiled>>
  BY DEF Quit
<1>2. Typed /\ HistoryGrows
  BY <1>1, SameHistory DEF TreeInv
<1>3. disk' \in [Files -> FileState] /\ FilesSound'
  BY <1>1 DEF TreeInv, Typed, FilesSound
<1> QED
  BY <1>1, <1>2, <1>3, DieKeeps

LEMMA NewSessionKeeps == ASSUME TreeInv, NewSession PROVE TreeInv'
<1>1. /\ current' \in Files /\ running' = TRUE /\ memory' = <<>> /\ leaf' = 0
      /\ flushed' = FALSE /\ piece' = FALSE
      /\ UNCHANGED <<disk, nextId, said, spoiled>>
  BY DEF NewSession, Fresh
<1>2. <<>> \in Seq(Entry) /\ Len(<<>>) = 0
  BY EmptySeq
<1>3. Typed'
  BY <1>1, <1>2 DEF TreeInv, Typed
<1>4. Filed'
  BY <1>1 DEF Filed
<1>5. MemorySound'
  <2>1. Sound(<<>>, nextId', said')
    BY DEF Sound, Rising
  <2> QED
    BY <1>1, <2>1 DEF MemorySound
<1>6. FilesSound'
  BY <1>1 DEF TreeInv, FilesSound
<1> QED
  BY <1>3, <1>4, <1>5, <1>6 DEF TreeInv

\* Opening leaves the entries of a session as they are.
LEMMA EndedFile ==
  ASSUME NEW file \in FileState, Empty(file) \/ Valid(file)
  PROVE  /\ Ended(file) \in FileState /\ Ended(file).exists
         /\ Ended(file).lines # <<>> /\ Ended(file).end = "newline"
         /\ Valid(file) => Ended(file).lines = file.lines
         /\ Empty(file) => Loaded(Ended(file)) = <<>>
<1>1. \A lines \in Contents :
        /\ File(lines, "newline") \in FileState /\ File(lines, "newline").exists
        /\ File(lines, "newline").lines = lines
        /\ File(lines, "newline").end = "newline"
  BY FileTypes
<1>2. CASE Empty(file)
  <2>1. <<Header>> = Lines(<<>>) /\ <<>> \in Seq(Entry)
    <3>1. <<>> \in Seq(Entry)
      BY EmptySeq
    <3>2. <<Header>> \in Seq({Header})
      OBVIOUS
    <3> QED
      BY <3>1, <3>2, ConcatEmptySeq DEF Lines
  <2>2. Lines(<<>>) \in Contents /\ Lines(<<>>) # <<>> /\ Tail(Lines(<<>>)) = <<>>
    BY <2>1, LinesOf
  <2>3. Ended(file) = File(Lines(<<>>), "newline")
    BY <1>2, <2>1 DEF Ended
  <2>4. ~Valid(file)
    BY <1>2 DEF Empty, Valid
  <2> QED
    BY <1>1, <2>2, <2>3, <2>4 DEF Loaded
<1>3. CASE ~Empty(file)
  <2>1. file.lines \in Contents /\ file.lines # <<>>
    BY <1>3, ValidFiles
  <2>2. Ended(file) = File(file.lines, "newline")
    BY <1>3 DEF Ended
  <2> QED
    BY <1>1, <1>3, <2>1, <2>2
<1> QED
  BY <1>2, <1>3

LEMMA OpenKeeps == ASSUME TreeInv, Open PROVE TreeInv'
<1>1. PICK f \in Files :
        /\ disk[f].exists /\ (Empty(disk[f]) \/ Valid(disk[f]))
        /\ disk' = [disk EXCEPT ![f] = Ended(disk[f])]
        /\ current' = f
        /\ memory' = Loaded(Ended(disk[f]))
        /\ leaf' = IF memory' = <<>> THEN 0 ELSE Last(memory').id
  BY DEF Open
<1>2. /\ ~running /\ running' = TRUE /\ flushed' = TRUE
      /\ UNCHANGED <<nextId, said, piece, spoiled>>
  BY DEF Open, historyVars
<1>3. Typed /\ HistoryGrows
  BY <1>2, SameHistory DEF TreeInv
<1>4. disk \in [Files -> FileState] /\ disk[f] \in FileState
  BY <1>3 DEF Typed
<1>5. /\ Ended(disk[f]) \in FileState /\ Ended(disk[f]).exists
      /\ Ended(disk[f]).lines # <<>> /\ Ended(disk[f]).end = "newline"
      /\ Valid(disk[f]) => Ended(disk[f]).lines = disk[f].lines
      /\ Empty(disk[f]) => Loaded(Ended(disk[f])) = <<>>
  BY <1>1, <1>4, EndedFile
<1>6. disk' \in [Files -> FileState] /\ disk'[f] = Ended(disk[f])
  BY <1>1, <1>4, <1>5
<1>7. \A g \in Files : g # f => disk'[g] = disk[g]
  BY <1>1, <1>4
<1>8. memory' \in Seq(Entry)
  BY <1>1, <1>5, ValidFiles
<1>9. Len(memory') \in Nat /\ (memory' # <<>> => Len(memory') \in DOMAIN memory')
  BY <1>8, EmptySeq, EntryTypes
<1>10. leaf' \in Ids(memory') \cup {0} /\ leaf' \in Nat
  <2>1. CASE memory' = <<>>
    BY <1>1, <2>1
  <2>2. CASE memory' # <<>>
    <3>1. leaf' = memory'[Len(memory')].id /\ Len(memory') \in DOMAIN memory'
      BY <1>1, <1>9, <2>2 DEF Last
    <3>2. leaf' \in Ids(memory')
      BY <3>1 DEF Ids
    <3>3. leaf' \in Nat
      BY <1>8, <3>1, EntryTypes
    <3> QED
      BY <3>2, <3>3
  <2> QED
    BY <2>1, <2>2
<1>11. Typed'
  BY <1>1, <1>2, <1>3, <1>6, <1>8, <1>10 DEF Typed
<1>12. ~piece'
  BY <1>2 DEF TreeInv, Filed
<1>13. Filed'
  BY <1>1, <1>5, <1>6, <1>12 DEF Filed
<1>14. f \notin spoiled => Sound(memory', nextId', said')
  <2>1. CASE Empty(disk[f])
    <3>1. memory' = <<>>
      BY <1>1, <1>5, <2>1
    <3>2. Sound(<<>>, nextId', said')
      BY DEF Sound, Rising
    <3> QED
      BY <3>1, <3>2
  <2>2. CASE Valid(disk[f])
    <3>1. memory' = Loaded(disk[f]) /\ disk[f].lines # <<>>
      BY <1>1, <1>5, <2>2 DEF Loaded
    <3>2. f \notin spoiled => Sound(Loaded(disk[f]), nextId, said)
      BY <3>1 DEF TreeInv, FilesSound
    <3> QED
      BY <1>2, <3>1, <3>2
  <2> QED
    BY <1>1, <2>1, <2>2
<1>15. MemorySound'
  BY <1>1, <1>2, <1>10, <1>14 DEF MemorySound
<1>16. FilesSound'
  <2>1. ASSUME NEW g \in Files \ spoiled'
        PROVE  \/ disk'[g].lines = disk[g].lines
               \/ Sound(Tail(disk'[g].lines), nextId', said')
    <3>1. CASE g = f
      BY <1>1, <1>2, <1>6, <1>14, <3>1 DEF Loaded
    <3>2. CASE g # f
      BY <1>7, <3>2
    <3> QED
      BY <3>1, <3>2
  <2>2. spoiled \subseteq spoiled'
    BY <1>2
  <2> QED
    BY <1>3, <2>1, <2>2, FilesCarried
<1> QED
  BY <1>11, <1>13, <1>15, <1>16 DEF TreeInv

LEMMA HeaderKeeps == ASSUME TreeInv, PersistNewSessionHeader PROVE TreeInv'
<1> DEFINE lines == Lines(memory)
<1>1. /\ running /\ ~flushed /\ UNCHANGED <<nextId, said, piece, spoiled>>
      /\ Typed /\ memory \in Seq(Entry) /\ current \in Files
      /\ disk \in [Files -> FileState]
  BY DEF PersistNewSessionHeader, historyVars, TreeInv, Typed
<1>2. HistoryGrows /\ ~piece /\ ~piece'
  BY <1>1, SameHistory DEF TreeInv, Filed
<1>3. ASSUME NEW file \in FileState, disk' = [disk EXCEPT ![current] = file],
             \/ file.lines = lines
             \/ file.lines = <<>>
             \/ \E k \in 0 .. Len(memory) : file.lines = Lines(SubSeq(memory, 1, k))
      PROVE  disk' \in [Files -> FileState] /\ disk'[current] = file /\ FilesSound'
  <2>1. Becomes(file)
    BY <1>1, <1>2, <1>3 DEF Becomes
  <2>2. current \notin spoiled' =>
           \/ file.lines = disk[current].lines
           \/ file.lines = <<>>
           \/ Sound(Tail(file.lines), nextId', said')
    <3>1. SUFFICES ASSUME current \notin spoiled, file.lines # <<>>
                   PROVE  Sound(Tail(file.lines), nextId', said')
      BY <1>1
    <3>2. CASE file.lines = lines
      <4>1. Sound(memory, nextId', said')
        BY <1>1, <3>1 DEF TreeInv, MemorySound
      <4> QED
        BY <1>1, <3>2, <4>1, LinesOf
    <3>3. CASE \E k \in 0 .. Len(memory) : file.lines = Lines(SubSeq(memory, 1, k))
      BY <1>1, <1>2, <3>1, <3>3, PrefixSound
    <3> QED
      BY <1>3, <3>1, <3>2, <3>3
  <2> QED
    BY <1>1, <1>2, <2>1, <2>2, WriteKeeps
<1>4. CASE /\ disk' = [disk EXCEPT ![current] = File(lines, "newline")]
           /\ flushed' = TRUE
           /\ UNCHANGED <<running, current, memory, leaf, setbacks>>
  <2>1. /\ lines \in Contents /\ lines # <<>> /\ Tail(lines) = memory
    BY <1>1, LinesOf
  <2>2. /\ File(lines, "newline") \in FileState /\ File(lines, "newline").exists
        /\ File(lines, "newline").lines = lines
        /\ File(lines, "newline").end = "newline"
    BY <2>1, FileTypes
  <2>3. /\ disk' \in [Files -> FileState] /\ disk'[current] = File(lines, "newline")
        /\ FilesSound'
    BY <1>3, <1>4, <2>2
  <2>4. Typed'
    BY <1>1, <1>4, <2>3 DEF Typed
  <2>5. Filed'
    BY <1>2, <1>4, <2>1, <2>2, <2>3 DEF Filed, Loaded
  <2>6. MemorySound'
    BY <1>1, <1>4 DEF TreeInv, MemorySound
  <2> QED
    BY <2>3, <2>4, <2>5, <2>6 DEF TreeInv
<1>5. CASE /\ \E partial \in PartlyCreated(lines) :
                disk' = [disk EXCEPT ![current] = partial]
           /\ WriteFails \/ Die
  <2>1. PICK partial \in PartlyCreated(lines) : disk' = [disk EXCEPT ![current] = partial]
    BY <1>5
  <2>2. /\ partial \in FileState
        /\ \/ partial.lines = <<>>
           \/ \E k \in 0 .. Len(memory) - 1 : partial.lines = Lines(SubSeq(memory, 1, k))
    BY <1>1, <2>1, CreatedPartly
  <2>3. \A k \in 0 .. Len(memory) - 1 : k \in 0 .. Len(memory)
    BY <1>1, EntryTypes
  <2>4. disk' \in [Files -> FileState] /\ FilesSound'
    BY <1>3, <2>1, <2>2, <2>3
  <2>5. CASE WriteFails
    <3>1. UNCHANGED <<running, current, memory, leaf, flushed>>
      BY <2>5 DEF WriteFails, manager
    <3>2. Typed'
      BY <1>1, <2>4, <3>1 DEF Typed
    <3>3. Filed' /\ MemorySound'
      BY <1>1, <1>2, <3>1 DEF TreeInv, Filed, MemorySound
    <3> QED
      BY <2>4, <3>2, <3>3 DEF TreeInv
  <2>6. CASE Die
    BY <1>2, <2>4, <2>6, DieKeeps
  <2> QED
    BY <1>5, <2>5, <2>6
<1> QED
  BY <1>4, <1>5 DEF PersistNewSessionHeader, Lines

-----------------------------------------------------------------------------
(* Forking                                                                 *)

KeptOf(T, i) == InOrder(T, Conversation(T, i))
LabelsOf(T, i) == Relabelled(KeptOf(T, i), Labelled(T))
CopyOf(T, i) == Rechained(KeptOf(T, i)) \o LabelsOf(T, i)

\* What a fork writes is a conversation, and a sound one if its source is.
LEMMA ForkCopy ==
  ASSUME Typed, NEW T \in Seq(Entry), NEW i \in DOMAIN T,
         nextId' = nextId + Len(LabelsOf(T, i)), nextId' =< MaxEntries + 1,
         said' = [x \in DOMAIN said |-> IF x \in Ids(LabelsOf(T, i))
                                       THEN Before(Last(KeptOf(T, i)).id) ELSE said[x]]
  PROVE  /\ HistoryGrows
         /\ CopyOf(T, i) \in Seq(Entry)
         /\ Sound(T, nextId, said) => Sound(CopyOf(T, i), nextId', said')
<1> DEFINE kept == KeptOf(T, i)
           labels == LabelsOf(T, i)
<1>1. /\ nextId \in Nat \ {0} /\ MaxEntries \in Nat
      /\ said = [x \in 1 .. MaxEntries |-> said[x]]
  BY TreeAssumption DEF Typed
<1>2. i \in 1 .. Len(T)
  BY EntryTypes
<1>3. kept \in Seq(Entry)
  BY <1>2, ConversationPlaces, InOrderTypes DEF KeptOf
<1>4. /\ labels \in Seq(Entry) /\ Len(labels) \in Nat
      /\ \A k \in 1 .. Len(labels) :
           /\ labels[k].kind = "label" /\ labels[k].id = nextId + k - 1
           /\ labels[k].parent = IF k > 1 THEN nextId + k - 2 ELSE Last(kept).id
      /\ Len(labels) # 0 => Len(kept) # 0
  BY <1>1, <1>3, RelabelledTypes DEF LabelsOf
<1>a. /\ nextId' = nextId + Len(labels) /\ nextId' =< MaxEntries + 1
      /\ said' = [x \in DOMAIN said |->
                    IF x \in Ids(labels) THEN Before(Last(kept).id) ELSE said[x]]
  OBVIOUS
<1>b. kept = InOrder(T, Conversation(T, i))
  BY DEF KeptOf
<1> HIDE DEF kept, labels
<1>5. DOMAIN labels = 1 .. Len(labels)
  BY <1>4, EntryTypes
<1>6. /\ said' = [x \in 1 .. MaxEntries |-> said'[x]]
      /\ \A x \in 1 .. MaxEntries :
           said'[x] = IF x \in Ids(labels) THEN Before(Last(kept).id) ELSE said[x]
  <2> DEFINE D == 1 .. MaxEntries
  <2>1. DOMAIN said = D
    BY <1>1
  <2> HIDE DEF D
  <2>2. said' = [x \in D |-> IF x \in Ids(labels) THEN Before(Last(kept).id) ELSE said[x]]
    BY <1>a, <2>1
  <2>3. /\ \A x \in D : said'[x] = IF x \in Ids(labels) THEN Before(Last(kept).id) ELSE said[x]
        /\ DOMAIN said' = D /\ said' = [x \in D |-> said'[x]]
    BY <2>2
  <2> QED
    BY <2>3 DEF D
<1>7. nextId' \in 1 .. MaxEntries + 1 /\ nextId <= nextId'
  BY <1>1, <1>4, <1>a
<1>8. ASSUME NEW x \in 1 .. nextId - 1 PROVE said'[x] = said[x]
  <2>1. x \in 1 .. MaxEntries
    BY <1>1, <1>7
  <2>2. x \notin Ids(labels)
    <3>1. ASSUME NEW k \in 1 .. Len(labels) PROVE labels[k].id # x
      <4>1. labels[k].id = nextId + k - 1
        BY <1>4
      <4> QED
        BY <1>1, <1>4, <4>1
    <3> QED
      BY <1>5, <3>1 DEF Ids
  <2> QED
    BY <1>6, <2>1, <2>2
<1>9. HistoryGrows
  BY <1>6, <1>7, <1>8 DEF HistoryGrows
<1>10. ASSUME NEW k \in 1 .. Len(labels)
       PROVE  said'[nextId + k - 1] = IF Last(kept).id = 0 THEN {} ELSE said[Last(kept).id]
  <2>1. nextId + k - 1 \in 1 .. MaxEntries
    BY <1>1, <1>4, <1>7, <1>a
  <2>2. nextId + k - 1 \in Ids(labels)
    BY <1>4, <1>5 DEF Ids
  <2> QED
    BY <1>6, <2>1, <2>2 DEF Before
<1>11. Rechained(kept) \o labels \in Seq(Entry)
  BY <1>3, <1>4, RechainedTypes, ConcatProperties
<1>12. ASSUME Sound(T, nextId, said)
       PROVE  Sound(Rechained(kept) \o labels, nextId + Len(labels), said')
  <2>1. Told(kept, nextId, said)
    BY <1>2, <1>12, <1>b, BranchSound
  <2>2. Behind(labels, kept, nextId, said', said)
    BY <1>4, <1>10 DEF Behind
  <2>3. Agree(said', said, nextId)
    BY <1>8 DEF Agree
  <2> QED
    BY <1>1, <1>3, <1>4, <2>1, <2>2, <2>3, ForkSound
<1> QED
  BY <1>9, <1>11, <1>12, <1>a DEF CopyOf, kept, labels

LEMMA ForkKeeps == ASSUME TreeInv, Fork PROVE TreeInv'
<1>1. running /\ disk[current].exists /\ Valid(disk[current])
  BY DEF Fork
<1> DEFINE source == Loaded(disk[current])
           kept(i) == InOrder(source, Conversation(source, i))
           labels(i) == Relabelled(kept(i), Labelled(source))
           copyOf(i) == Rechained(kept(i)) \o labels(i)
           opened == [disk EXCEPT ![current] = Ended(disk[current])]
<1>2. PICK i \in DOMAIN source, f \in Fresh :
       /\ nextId' = nextId + Len(labels(i)) /\ nextId' =< MaxEntries + 1
       /\ said' = [x \in DOMAIN said |->
                     IF x \in Ids(labels(i)) THEN Before(Last(kept(i)).id) ELSE said[x]]
       /\ \/ /\ disk' = IF HasAssistant(copyOf(i))
                        THEN [opened EXCEPT ![f] = File(<<Header>> \o copyOf(i), "newline")]
                        ELSE opened
             /\ current' = f /\ memory' = copyOf(i) /\ flushed' = HasAssistant(copyOf(i))
             /\ leaf' = IF copyOf(i) = <<>> THEN 0 ELSE Last(copyOf(i)).id
             /\ UNCHANGED <<running, setbacks>>
          \/ /\ HasAssistant(copyOf(i))
             /\ \E partial \in PartlyCreated(<<Header>> \o copyOf(i)) :
                  disk' = [opened EXCEPT ![f] = partial]
             /\ WriteFails \/ Die
       /\ piece' = FALSE
       /\ spoiled' = IF current \in spoiled THEN spoiled \cup {f} ELSE spoiled
  BY DEF Fork
<1> DEFINE copy == copyOf(i)
<1>3. /\ Typed /\ current \in Files /\ disk \in [Files -> FileState]
      /\ disk[current] \in FileState
  BY <1>1 DEF TreeInv, Typed
<1>4. source \in Seq(Entry) /\ disk[current].lines # <<>>
  BY <1>1, <1>3, ValidFiles
<1>5. f \in Files /\ f # current
  BY DEF Fresh
<1>6. /\ HistoryGrows /\ copy \in Seq(Entry)
      /\ Sound(source, nextId, said) => Sound(copy, nextId', said')
  BY <1>2, <1>3, <1>4, ForkCopy DEF CopyOf, LabelsOf, KeptOf
<1>7. current \notin spoiled => Sound(copy, nextId', said')
  BY <1>3, <1>4, <1>6 DEF TreeInv, FilesSound
<1>8. /\ Ended(disk[current]) \in FileState /\ Ended(disk[current]).exists
      /\ Ended(disk[current]).end = "newline"
      /\ Ended(disk[current]).lines = disk[current].lines
  BY <1>1, <1>3, EndedFile
<1>9. /\ opened \in [Files -> FileState] /\ opened[current] = Ended(disk[current])
      /\ \A g \in Files : opened[g].lines = disk[g].lines
  BY <1>3, <1>8
<1>10. spoiled \subseteq spoiled' /\ (f \notin spoiled' => current \notin spoiled)
       /\ (current \notin spoiled' => current \notin spoiled)
  BY <1>2
<1> DEFINE written == HasAssistant(copy)
<1>11. /\ \/ /\ disk' = IF written THEN [opened EXCEPT ![f] = File(Lines(copy), "newline")]
                        ELSE opened
             /\ current' = f /\ memory' = copy /\ flushed' = written
             /\ leaf' = IF copy = <<>> THEN 0 ELSE Last(copy).id
             /\ UNCHANGED <<running, setbacks>>
          \/ /\ \E partial \in PartlyCreated(Lines(copy)) :
                  disk' = [opened EXCEPT ![f] = partial]
             /\ WriteFails \/ Die
       /\ piece' = FALSE
  BY <1>2 DEF Lines
<1>12. written \in BOOLEAN
  BY DEF HasAssistant
<1> HIDE DEF copy, opened, written, source, copyOf, kept, labels
<1>13. Lines(copy) \in Contents /\ Lines(copy) # <<>> /\ Tail(Lines(copy)) = copy
  BY <1>6, LinesOf
<1>14. ASSUME NEW file \in FileState, disk' = [opened EXCEPT ![f] = file],
              \/ file.lines = <<>>
              \/ current \notin spoiled => Sound(Tail(file.lines), nextId', said')
       PROVE  /\ disk' \in [Files -> FileState] /\ disk'[f] = file
              /\ disk'[current] = Ended(disk[current]) /\ FilesSound'
  <2>1. /\ disk' \in [Files -> FileState] /\ disk'[f] = file
        /\ disk'[current] = Ended(disk[current])
        /\ \A g \in Files : g # f => disk'[g] = opened[g]
    BY <1>3, <1>5, <1>9, <1>14
  <2>2. \A g \in Files \ spoiled' :
           \/ disk'[g].lines = disk[g].lines
           \/ disk'[g].lines = <<>>
           \/ Sound(Tail(disk'[g].lines), nextId', said')
    BY <1>9, <1>10, <1>14, <2>1
  <2> QED
    BY <1>6, <1>10, <2>1, <2>2, FilesCarried
<1>15. CASE /\ disk' = IF written THEN [opened EXCEPT ![f] = File(Lines(copy), "newline")]
                       ELSE opened
            /\ current' = f /\ memory' = copy /\ flushed' = written
            /\ leaf' = IF copy = <<>> THEN 0 ELSE Last(copy).id
            /\ UNCHANGED <<running, setbacks>>
  <2>1. /\ File(Lines(copy), "newline") \in FileState /\ File(Lines(copy), "newline").exists
        /\ File(Lines(copy), "newline").lines = Lines(copy)
        /\ File(Lines(copy), "newline").end = "newline"
    BY <1>13, FileTypes
  <2>2. ASSUME written
        PROVE  /\ disk' \in [Files -> FileState] /\ disk'[f] = File(Lines(copy), "newline")
               /\ FilesSound'
    <3>1. disk' = [opened EXCEPT ![f] = File(Lines(copy), "newline")]
      BY <1>15, <2>2
    <3>2. current \notin spoiled =>
            Sound(Tail(File(Lines(copy), "newline").lines), nextId', said')
      BY <1>7, <1>13, <2>1
    <3> QED
      BY <1>14, <2>1, <3>1, <3>2
  <2>3. ASSUME ~written PROVE disk' \in [Files -> FileState] /\ FilesSound'
    <3>1. disk' = opened
      BY <1>15, <2>3
    <3>2. \A g \in Files \ spoiled' : disk'[g].lines = disk[g].lines
      BY <1>9, <3>1
    <3> QED
      BY <1>6, <1>9, <1>10, <3>1, <3>2, FilesCarried
  <2>4. leaf' \in Ids(copy) \cup {0} /\ leaf' \in Nat
    <3>1. CASE copy = <<>>
      BY <1>15, <3>1
    <3>2. CASE copy # <<>>
      <4>1. Len(copy) \in DOMAIN copy
        BY <1>6, <3>2, EmptySeq, EntryTypes
      <4>2. leaf' = copy[Len(copy)].id
        BY <1>15, <3>2 DEF Last
      <4>3. leaf' \in Ids(copy)
        BY <4>1, <4>2 DEF Ids
      <4>4. leaf' \in Nat
        BY <1>6, <4>1, <4>2, EntryTypes
      <4> QED
        BY <4>3, <4>4
    <3> QED
      BY <3>1, <3>2
  <2>5. Typed'
    <3>1. disk' \in [Files -> FileState]
      BY <2>2, <2>3
    <3>2. /\ running' \in BOOLEAN /\ flushed' \in BOOLEAN /\ piece' \in BOOLEAN
          /\ current' \in Files
      BY <1>1, <1>3, <1>5, <1>11, <1>12, <1>15 DEF Typed
    <3> QED
      BY <1>6, <1>15, <2>4, <3>1, <3>2 DEF Typed, HistoryGrows
  <2>6. Filed'
    <3>1. ~piece'
      BY <1>11
    <3>2. ASSUME flushed'
          PROVE  /\ disk'[current'].exists /\ disk'[current'].lines # <<>>
                 /\ disk'[current'].end = "newline"
                 /\ Loaded(disk'[current']) = memory'
      <4>1. written /\ disk'[current'] = File(Lines(copy), "newline")
        BY <1>15, <2>2, <3>2
      <4> QED
        BY <1>13, <1>15, <2>1, <4>1 DEF Loaded
    <3> QED
      BY <3>1, <3>2 DEF Filed
  <2>7. MemorySound'
    BY <1>7, <1>10, <1>15, <2>4 DEF MemorySound
  <2> QED
    BY <2>2, <2>3, <2>5, <2>6, <2>7 DEF TreeInv
<1>16. CASE /\ \E partial \in PartlyCreated(Lines(copy)) :
                  disk' = [opened EXCEPT ![f] = partial]
            /\ WriteFails \/ Die
  <2>1. PICK partial \in PartlyCreated(Lines(copy)) : disk' = [opened EXCEPT ![f] = partial]
    BY <1>16
  <2>2. /\ partial \in FileState
        /\ \/ partial.lines = <<>>
           \/ \E k \in 0 .. Len(copy) - 1 : partial.lines = Lines(SubSeq(copy, 1, k))
    BY <1>6, <2>1, CreatedPartly
  <2>3. \/ partial.lines = <<>>
        \/ current \notin spoiled => Sound(Tail(partial.lines), nextId', said')
    <3>1. SUFFICES ASSUME NEW k \in 0 .. Len(copy) - 1, current \notin spoiled,
                          partial.lines = Lines(SubSeq(copy, 1, k))
                   PROVE  Sound(Tail(partial.lines), nextId', said')
      BY <2>2
    <3>2. k \in 0 .. Len(copy)
      BY <1>6, EntryTypes
    <3>3. SubSeq(copy, 1, k) \in Seq(Entry) /\ Sound(SubSeq(copy, 1, k), nextId', said')
      BY <1>6, <1>7, <3>1, <3>2, SoundPrefix
    <3> QED
      BY <3>1, <3>3, LinesOf
  <2>4. /\ disk' \in [Files -> FileState] /\ disk'[current] = Ended(disk[current])
        /\ FilesSound'
    BY <1>14, <2>1, <2>2, <2>3
  <2>5. CASE Die
    BY <1>6, <2>4, <2>5, DieKeeps
  <2>6. CASE WriteFails
    <3>1. UNCHANGED <<running, current, memory, leaf, flushed>>
      BY <2>6 DEF WriteFails, manager
    <3>2. Typed'
      BY <1>3, <1>6, <1>11, <2>4, <3>1 DEF Typed, HistoryGrows
    <3>3. Filed'
      <4>1. current' \notin spoiled' /\ flushed' => Loaded(disk'[current']) = memory'
        BY <1>1, <1>8, <1>10, <2>4, <3>1 DEF TreeInv, Filed, Loaded
      <4>2. /\ disk'[current'].exists /\ disk'[current'].lines # <<>>
            /\ disk'[current'].end = "newline" /\ ~piece'
        BY <1>4, <1>8, <1>11, <2>4, <3>1
      <4> QED
        BY <4>1, <4>2 DEF Filed
    <3>4. MemorySound'
      <4>1. ASSUME current \notin spoiled' PROVE Sound(memory, nextId', said')
        <5>1. Sound(memory, nextId, said) /\ memory \in Seq(Entry)
          BY <1>1, <1>3, <1>10, <4>1 DEF TreeInv, MemorySound, Typed
        <5> QED
          BY <1>3, <1>6, <5>1, Carried
      <4> QED
        BY <1>10, <3>1, <4>1 DEF TreeInv, MemorySound
    <3> QED
      BY <2>4, <3>2, <3>3, <3>4 DEF TreeInv
  <2> QED
    BY <1>16, <2>5, <2>6
<1> QED
  BY <1>11, <1>15, <1>16

-----------------------------------------------------------------------------
(* Every step                                                              *)

LEMMA NextInv == TreeInv /\ [Next]_vars => TreeInv'
<1> SUFFICES ASSUME TreeInv, [Next]_vars PROVE TreeInv'
  OBVIOUS
<1>1. CASE AppendMessage
  <2>1. PICK kind \in {"assistant", "other"} : AppendEntry(kind, leaf, 0)
    BY <1>1 DEF AppendMessage
  <2>2. kind \in Kinds /\ leaf \in Nat
    BY DEF Kinds, TreeInv, Typed
  <2>3. running /\ current \notin spoiled => leaf \in Ids(memory) \cup {0}
    BY DEF TreeInv, MemorySound
  <2> QED
    BY <2>1, <2>2, <2>3, AppendEntryKeeps
<1>2. CASE AppendLabelChange
  <2>1. PICK target \in Ids(memory) :
          AppendEntry(IF target \in Labelled(memory) THEN "unlabel" ELSE "label", leaf, target)
    BY <1>2 DEF AppendLabelChange
  <2>2. target \in Nat /\ leaf \in Nat
    BY IdTypes DEF TreeInv, Typed
  <2>3. (IF target \in Labelled(memory) THEN "unlabel" ELSE "label") \in Kinds
    BY DEF Kinds
  <2>4. running /\ current \notin spoiled => leaf \in Ids(memory) \cup {0}
    BY DEF TreeInv, MemorySound
  <2> QED
    BY <2>1, <2>2, <2>3, <2>4, AppendEntryKeeps
<1>3. CASE BranchWithSummary
  <2>1. PICK from \in Ids(memory) \cup {0} : AppendEntry("other", from, 0)
    BY <1>3 DEF BranchWithSummary
  <2>2. "other" \in Kinds /\ from \in Nat
    BY IdTypes DEF Kinds
  <2> QED
    BY <2>1, <2>2, AppendEntryKeeps
<1>4. CASE MoveLeaf
  BY <1>4, MoveLeafKeeps
<1>5. CASE PersistNewSessionHeader
  BY <1>5, HeaderKeeps
<1>6. CASE NewSession
  BY <1>6, NewSessionKeeps
<1>7. CASE Open
  BY <1>7, OpenKeeps
<1>8. CASE Quit
  BY <1>8, QuitKeeps
<1>9. CASE Fork
  BY <1>9, ForkKeeps
<1>10. CASE UNCHANGED vars
  <2>1. UNCHANGED <<disk, running, current, memory, leaf, flushed, nextId, said,
                    piece, spoiled>>
    BY <1>10 DEF vars, manager, historyVars
  <2> QED
    BY <2>1 DEF TreeInv, Typed, Filed, MemorySound, FilesSound
<1> QED
  BY <1>1, <1>2, <1>3, <1>4, <1>5, <1>6, <1>7, <1>8, <1>9, <1>10 DEF Next

THEOREM Invariance == Spec => []TreeInv
<1> QED
  BY InitInv, NextInv, PTL DEF Spec

\* What was acknowledged is what a restart would read: whatever the number of
\* entries, files and setbacks, memory and a file that is known to be written
\* agree entry by entry, unless an entry went onto a piece of a line.
THEOREM MemoryIsFileHolds == Spec => []MemoryIsFile
<1>1. TreeInv => MemoryIsFile
  <2> SUFFICES ASSUME TreeInv, running, flushed, current \notin spoiled
               PROVE  Valid(disk[current]) /\ Loaded(disk[current]) = memory
    BY DEF MemoryIsFile
  <2> QED
    BY FlushedFile, ValidFiles DEF TreeInv, Filed
<1> QED
  BY <1>1, Invariance, PTL

\* A branch is read as it was said, however long it is, however often it was
\* forked and relabelled and wherever a crash or a failed write broke a file off.
THEOREM ConversationKeptHolds == Spec => []ConversationKept
<1>1. TreeInv => ConversationKept
  <2> SUFFICES ASSUME TreeInv, NEW f \in Files \ spoiled, Valid(disk[f]),
                      NEW i \in DOMAIN Loaded(disk[f])
               PROVE  said[Loaded(disk[f])[i].id] =
                        {Loaded(disk[f])[j].id : j \in Conversation(Loaded(disk[f]), i)}
    BY DEF ConversationKept
  <2>1. disk[f].lines # <<>>
    BY DEF Valid
  <2> QED
    BY <2>1 DEF TreeInv, FilesSound, Sound, Read
<1> QED
  BY <1>1, Invariance, PTL

=============================================================================
