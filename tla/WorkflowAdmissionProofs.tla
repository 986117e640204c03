---------------------- MODULE WorkflowAdmissionProofs ----------------------
(***************************************************************************)
(* Proofs about WorkflowAdmission for any runs, calls, ceilings and limits *)
(* and any raise threshold: first what one operation does to a semaphore,  *)
(* then the invariant that ties the two semaphores of a call to its phase  *)
(* and the ceiling of the pool to its members.                             *)
(***************************************************************************)
EXTENDS WorkflowAdmission, FiniteSetTheorems, SequenceTheorems,
        WellFoundedInduction, TLAPS

-----------------------------------------------------------------------------
(* The least of some naturals *)

Below == {ss \in Nat \X Nat : ss[1] < ss[2]}

LEMMA LeastOf ==
  ASSUME NEW S \in SUBSET Nat, S # {}
  PROVE  Min(S) \in S /\ \A x \in S : Min(S) <= x
<1>1. IsWellFoundedOn(Below, Nat)
  BY NatLessThanWellFounded DEF OpToRel, Below
<1>2. PICK x \in S : \A y \in S : ~(<<y, x>> \in Below)
  BY <1>1, WFMin
<1>3. ASSUME NEW y \in S PROVE x <= y
  <2>1. <<y, x>> \in Below <=> y < x
    BY DEF Below
  <2> QED
    BY <1>2, <2>1
<1> QED
  BY <1>2, <1>3 DEF Min

-----------------------------------------------------------------------------
(* A queue without some of its elements *)

Distinct(q) == \A i, j \in 1..Len(q) : q[i] = q[j] => i = j

\* Leaving a queue keeps its order free of repetitions, and removes only those.
LEMMA WithoutKeeps ==
  ASSUME NEW q \in Seq(Calls), Distinct(q), NEW C
  PROVE  /\ Without(q, C) \in Seq(Calls) /\ Distinct(Without(q, C))
         /\ Range(Without(q, C)) = Range(q) \ C
<1> DEFINE keep == {i \in 1..Len(q) : q[i] \notin C}
           n == Cardinality(keep)
           rank(i) == Cardinality(keep \cap (1..i))
           at(k) == CHOOSE i \in keep : rank(i) = k
           w == Without(q, C)
<1>1. Len(q) \in Nat /\ keep \subseteq 1..Len(q) /\ IsFiniteSet(keep) /\ n \in Nat
  <2>1. Len(q) \in Nat /\ keep \in SUBSET (1..Len(q))
    BY LenProperties
  <2>2. IsFiniteSet(1..Len(q))
    BY <2>1, FS_Interval
  <2>3. IsFiniteSet(keep)
    BY <2>1, <2>2, FS_Subset
  <2> QED
    BY <2>1, <2>3, FS_CardinalityType
<1>2. w = [k \in 1..n |-> q[at(k)]]
  BY DEF Without
<1>3. \A i : i \in keep <=> i \in 1..Len(q) /\ q[i] \notin C
  OBVIOUS
<1>r. \A i : rank(i) = Cardinality(keep \cap (1..i))
  OBVIOUS
<1>a. \A k : (\E i \in keep : rank(i) = k) => at(k) \in keep /\ rank(at(k)) = k
  OBVIOUS
<1> HIDE DEF keep, w, rank, at
<1>4. ASSUME NEW i \in keep
      PROVE  rank(i) \in 1..n /\ (\A j \in keep : j < i => rank(j) < rank(i))
  <2>1. i \in 1..Len(q) /\ i \in Nat /\ i \in keep \cap (1..i)
    BY <1>1
  <2>2. \A j : /\ IsFiniteSet(keep \cap (1..j)) /\ rank(j) \in Nat /\ rank(j) <= n
    <3> TAKE j
    <3>1. keep \cap (1..j) \in SUBSET keep
      OBVIOUS
    <3> QED
      BY <1>1, <1>r, <3>1, FS_Subset, FS_CardinalityType
  <2>3. rank(i) # 0
    <3>1. keep \cap (1..i) # {}
      BY <2>1
    <3> QED
      BY <2>2, <1>r, <3>1, FS_EmptySet
  <2>4. ASSUME NEW j \in keep, j < i PROVE rank(j) < rank(i)
    <3>1. keep \cap (1..j) \in SUBSET (keep \cap (1..i)) /\ i \notin keep \cap (1..j)
      BY <1>1, <2>1, <2>4
    <3>2. rank(j) <= rank(i) /\ rank(j) # rank(i)
      BY <2>1, <2>2, <1>r, <3>1, FS_Subset
    <3>3. rank(i) \in Nat /\ rank(j) \in Nat
      BY <2>2
    <3> QED
      BY <3>2, <3>3
  <2>5. rank(i) \in Nat /\ rank(i) <= n
    BY <2>2
  <2>6. rank(i) \in 1..n
    BY <1>1, <2>3, <2>5
  <2> QED
    BY <2>4, <2>6
<1>5. \A k \in 1..n : \E i \in keep : rank(i) = k
  <2> DEFINE f == [i \in keep |-> rank(i)]
  <2>1. f \in [keep -> 1..n]
    BY <1>4
  <2>2. \A i, j \in keep : rank(i) = rank(j) => i = j
    <3> SUFFICES ASSUME NEW i \in keep, NEW j \in keep, i # j PROVE rank(i) # rank(j)
      OBVIOUS
    <3>1. i \in Int /\ j \in Int /\ rank(i) \in Int /\ rank(j) \in Int
      BY <1>1, <1>4
    <3>2. rank(i) < rank(j) \/ rank(j) < rank(i)
      BY <1>4, <3>1
    <3> QED
      BY <3>1, <3>2
  <2>3. f \in Injection(keep, 1..n)
    BY <2>1, <2>2 DEF Injection, IsInjective
  <2>4. IsFiniteSet(1..n) /\ Cardinality(1..n) = n
    BY <1>1, FS_Interval
  <2>5. f \in Surjection(keep, 1..n)
    BY <1>1, <2>3, <2>4, FS_Injection
  <2> QED
    BY <2>5 DEF Surjection
<1>6. ASSUME NEW k \in 1..n PROVE at(k) \in keep /\ rank(at(k)) = k
  BY <1>5, <1>a
<1>7. ASSUME NEW i \in keep PROVE at(rank(i)) = i
  <2>1. at(rank(i)) \in keep /\ rank(at(rank(i))) = rank(i)
    BY <1>4, <1>6
  <2>2. at(rank(i)) \in Int /\ i \in Int
    <3>1. \A j \in keep : j \in Int
      BY <1>1
    <3> QED
      BY <2>1, <3>1
  <2>4. rank(i) \in Int
    BY <1>4
  <2>3. ~(at(rank(i)) < i) /\ ~(i < at(rank(i)))
    BY <1>4, <2>1, <2>2, <2>4
  <2> QED
    BY <2>2, <2>3
<1>8. w \in Seq(Calls) /\ Len(w) = n /\ \A k \in 1..n : w[k] = q[at(k)]
  <2>1. ASSUME NEW k \in 1..n PROVE q[at(k)] \in Calls
    BY <1>1, <1>6, ElementOfSeq
  <2>2. w \in [1..n -> Calls]
    BY <1>2, <2>1
  <2>3. w \in Seq(Calls)
    BY <1>1, <2>2, SeqDef
  <2>4. DOMAIN w = 1..n /\ DOMAIN w = 1..Len(w) /\ Len(w) \in Nat
    BY <1>2, <2>3, LenProperties
  <2> QED
    BY <1>1, <1>2, <2>3, <2>4
<1>9. Distinct(w)
  <2> SUFFICES ASSUME NEW i \in 1..n, NEW j \in 1..n, w[i] = w[j]
               PROVE  i = j
    BY <1>8 DEF Distinct
  <2>1. at(i) = at(j)
    BY <1>1, <1>6, <1>8 DEF Distinct
  <2> QED
    BY <1>6, <2>1
<1>10. Range(w) = Range(q) \ C
  <2>1. DOMAIN w = 1..n /\ DOMAIN q = 1..Len(q)
    BY <1>2, LenProperties
  <2>2. ASSUME NEW x \in Range(w) PROVE x \in Range(q) \ C
    BY <1>1, <1>3, <1>6, <1>8, <2>1, <2>2 DEF Range
  <2>3. ASSUME NEW x \in Range(q) \ C PROVE x \in Range(w)
    <3>1. PICK i \in 1..Len(q) : q[i] = x
      BY <2>1 DEF Range
    <3>2. i \in keep
      BY <1>3, <3>1
    <3>3. rank(i) \in 1..n /\ w[rank(i)] = q[at(rank(i))]
      BY <1>4, <1>8, <3>2
    <3>4. w[rank(i)] = x
      BY <1>7, <3>1, <3>2, <3>3
    <3> QED
      BY <2>1, <3>3, <3>4 DEF Range
  <2> QED
    BY <2>2, <2>3
<1> QED
  BY <1>8, <1>9, <1>10 DEF w

-----------------------------------------------------------------------------
(* One semaphore *)

Queued(s) == Range(s.waiters)

SemType ==
  [limit : Nat \ {0}, ceiling : Nat \ {0}, disposed : BOOLEAN, successes : Nat,
   current : SUBSET Calls, cooling : BOOLEAN, wakeup : BOOLEAN, active : Nat,
   admitted : SUBSET Calls, waiters : Seq(Calls)]

SemShape(s) ==
  /\ s \in SemType
  /\ s.limit <= s.ceiling
  /\ s.active = Cardinality(s.admitted)
  /\ Distinct(s.waiters) /\ Queued(s) \cap s.admitted = {}

SemOK(s) == SemShape(s) /\ Served(s)

\* t is s after some of the waiters have been admitted, within the limit of t.
Admitted(s, t) ==
  /\ s.admitted \subseteq t.admitted
  /\ t.admitted \subseteq s.admitted \cup Queued(s)
  /\ Queued(t) \subseteq Queued(s)
  /\ t.admitted = s.admitted \/ Cardinality(t.admitted) <= t.limit

\* What leaves the slots and the queue alone.
SameCalls(s, t) ==
  t.active = s.active /\ t.admitted = s.admitted /\ t.waiters = s.waiters

LEMMA QueuedElements ==
  ASSUME NEW s, SemShape(s)
  PROVE  /\ Len(s.waiters) \in Nat
         /\ \A x : x \in Queued(s) <=> \E i \in 1..Len(s.waiters) : x = s.waiters[i]
         /\ Queued(s) \subseteq Calls
         /\ s.waiters = << >> <=> Queued(s) = {}
<1>1. s.waiters \in Seq(Calls)
  BY DEF SemShape, SemType
<1>2. DOMAIN s.waiters = 1..Len(s.waiters) /\ Len(s.waiters) \in Nat
  BY <1>1, LenProperties
<1>3. \A x : x \in Queued(s) <=> \E i \in 1..Len(s.waiters) : x = s.waiters[i]
  BY <1>2 DEF Queued, Range
<1>4. Queued(s) \subseteq Calls
  BY <1>1, <1>3, ElementOfSeq
<1>5. s.waiters = << >> <=> Len(s.waiters) = 0
  BY <1>1, EmptySeq
<1>6. Queued(s) = {} <=> Len(s.waiters) = 0
  <2>1. ASSUME Len(s.waiters) # 0 PROVE Queued(s) # {}
    <3>1. 1 \in 1..Len(s.waiters)
      BY <1>2, <2>1
    <3> QED
      BY <1>3, <3>1
  <2>2. ASSUME Len(s.waiters) = 0 PROVE Queued(s) = {}
    <3>1. \A i \in 1..Len(s.waiters) : FALSE
      BY <2>2
    <3> QED
      BY <1>3, <3>1
  <2> QED
    BY <2>1, <2>2
<1> QED
  BY <1>2, <1>3, <1>4, <1>5, <1>6

LEMMA SlotsFinite ==
  ASSUME AdmissionAssumption, NEW s, SemShape(s)
  PROVE  IsFiniteSet(s.admitted) /\ s.active \in Nat
BY FS_Subset DEF AdmissionAssumption, SemShape, SemType

\* A queue cut in two.
LEMMA SplitQueue ==
  ASSUME NEW q \in Seq(Calls), NEW n \in 0..Len(q)
  PROVE  /\ SubSeq(q, 1, n) \in Seq(Calls) /\ Len(SubSeq(q, 1, n)) = n
         /\ \A i \in 1..n : SubSeq(q, 1, n)[i] = q[i]
         /\ SubSeq(q, n + 1, Len(q)) \in Seq(Calls)
         /\ Len(SubSeq(q, n + 1, Len(q))) = Len(q) - n
         /\ \A i \in 1..(Len(q) - n) : SubSeq(q, n + 1, Len(q))[i] = q[n + i]
<1>1. Len(q) \in Nat /\ n \in Nat /\ n <= Len(q)
  BY LenProperties
<1>2. \A i \in 1..Len(q) : q[i] \in Calls
  BY ElementOfSeq
<1>3. /\ SubSeq(q, 1, n) \in Seq(Calls)
      /\ Len(SubSeq(q, 1, n)) = IF 1 <= n THEN n - 1 + 1 ELSE 0
      /\ \A i \in 1..(n - 1 + 1) : SubSeq(q, 1, n)[i] = q[1 + i - 1]
  <2>1. 1 \in Int /\ n \in Int /\ \A i \in 1..n : q[i] \in Calls
    BY <1>1, <1>2
  <2> QED
    BY <2>1, SubSeqProperties, SMTT(30)
<1>4. /\ SubSeq(q, n + 1, Len(q)) \in Seq(Calls)
      /\ Len(SubSeq(q, n + 1, Len(q))) =
           IF n + 1 <= Len(q) THEN Len(q) - (n + 1) + 1 ELSE 0
      /\ \A i \in 1..(Len(q) - (n + 1) + 1) :
           SubSeq(q, n + 1, Len(q))[i] = q[n + 1 + i - 1]
  <2>1. n + 1 \in Int /\ Len(q) \in Int /\ \A i \in (n + 1)..Len(q) : q[i] \in Calls
    BY <1>1, <1>2
  <2> QED
    BY <2>1, SubSeqProperties, SMTT(30)
<1> QED
  BY <1>1, <1>3, <1>4

\* A drain hands the free slots to the first waiters and leaves no one waiting
\* beside a free slot without a timer.
LEMMA DrainKeeps ==
  ASSUME AdmissionAssumption, NEW s, SemShape(s)
  PROVE  /\ SemOK(Drain(s)) /\ Admitted(s, Drain(s))
         /\ Drain(s).limit = s.limit /\ Drain(s).ceiling = s.ceiling
         /\ Drain(s).disposed = s.disposed
<1> DEFINE room == s.limit - s.active
           n == IF s.active >= s.limit THEN 0 ELSE Min({room, Len(s.waiters)})
           t == Drain(s)
           head == SubSeq(s.waiters, 1, n)
           tail == SubSeq(s.waiters, n + 1, Len(s.waiters))
<1>1. /\ s \in SemType /\ s.waiters \in Seq(Calls) /\ Len(s.waiters) \in Nat
      /\ room \in Int /\ s.active \in Nat /\ s.limit \in Nat
      /\ s.active = Cardinality(s.admitted) /\ IsFiniteSet(s.admitted)
  <2>1. s \in SemType /\ s.active = Cardinality(s.admitted)
    BY DEF SemShape
  <2>2. s.waiters \in Seq(Calls) /\ s.active \in Nat /\ s.limit \in Nat
    BY <2>1 DEF SemType
  <2>3. Len(s.waiters) \in Nat
    BY <2>2, LenProperties
  <2> QED
    BY <2>1, <2>2, <2>3, SlotsFinite
<1>2. CASE s.disposed
  BY <1>2 DEF Drain, SemOK, Served, Admitted
<1>3. CASE ~s.disposed /\ s.cooling
  <2>1. t = [s EXCEPT !.wakeup = TRUE]
    BY <1>3 DEF Drain
  <2>2. SemShape(t) /\ Served(t) /\ t.limit = s.limit /\ t.ceiling = s.ceiling
        /\ t.disposed = s.disposed /\ SameCalls(s, t)
    BY <1>1, <2>1 DEF SemShape, SemType, Served, Queued, SameCalls
  <2> QED
    BY <2>2 DEF SemOK, Admitted, SameCalls, Queued
<1>4. CASE ~s.disposed /\ ~s.cooling
  <2>1. /\ n \in 0..Len(s.waiters) /\ n \in Nat
        /\ s.active >= s.limit => n = 0
        /\ s.active < s.limit => n <= room /\ (n = room \/ n = Len(s.waiters))
    <3>1. Min({room, Len(s.waiters)}) =
            IF room <= Len(s.waiters) THEN room ELSE Len(s.waiters)
      BY <1>1 DEF Min
    <3> QED
      BY <1>1, <3>1
  <2>2. t = [s EXCEPT !.active = s.active + n, !.admitted = s.admitted \cup Range(head),
                      !.waiters = tail]
    BY <1>4 DEF Drain
  <2> HIDE DEF n, t
  <2>3. /\ head \in Seq(Calls) /\ Len(head) = n
        /\ \A i \in 1..n : head[i] = s.waiters[i]
        /\ tail \in Seq(Calls) /\ Len(tail) = Len(s.waiters) - n
        /\ \A i \in 1..(Len(s.waiters) - n) : tail[i] = s.waiters[n + i]
    BY <1>1, <2>1, SplitQueue
  <2> HIDE DEF head, tail
  <2>4. /\ \A x : x \in Range(head) <=> \E i \in 1..n : x = s.waiters[i]
        /\ \A x : x \in Range(tail) <=> \E i \in (n + 1)..Len(s.waiters) : x = s.waiters[i]
    <3>1. DOMAIN head = 1..n /\ DOMAIN tail = 1..(Len(s.waiters) - n)
      BY <2>3, LenProperties
    <3>2. \A x : x \in Range(head) <=> \E i \in 1..n : x = s.waiters[i]
      <4>1. \A x : x \in Range(head) <=> \E i \in 1..n : x = head[i]
        BY <3>1 DEF Range
      <4>2. \A i \in 1..n : head[i] = s.waiters[i]
        BY <2>3
      <4> QED
        BY <4>1, <4>2, Zenon
    <3>3. \A x : x \in Range(tail) <=> \E i \in 1..(Len(s.waiters) - n) : x = s.waiters[n + i]
      <4>1. \A x : x \in Range(tail) <=> \E i \in 1..(Len(s.waiters) - n) : x = tail[i]
        BY <3>1 DEF Range
      <4>2. \A i \in 1..(Len(s.waiters) - n) : tail[i] = s.waiters[n + i]
        BY <2>3
      <4> QED
        BY <4>1, <4>2, Zenon
    <3>4. ASSUME NEW i \in (n + 1)..Len(s.waiters)
          PROVE  i - n \in 1..(Len(s.waiters) - n) /\ n + (i - n) = i
      BY <1>1, <2>1
    <3>5. ASSUME NEW i \in 1..(Len(s.waiters) - n)
          PROVE  n + i \in (n + 1)..Len(s.waiters)
      BY <1>1, <2>1
    <3>6. \A x : (\E i \in 1..(Len(s.waiters) - n) : x = s.waiters[n + i]) <=>
                 (\E i \in (n + 1)..Len(s.waiters) : x = s.waiters[i])
      BY <3>4, <3>5
    <3> QED
      BY <3>2, <3>3, <3>6
  <2>5. /\ Range(head) \subseteq Queued(s) /\ Range(tail) \subseteq Queued(s)
        /\ Range(head) \cap Range(tail) = {}
        /\ Distinct(tail)
    <3>1. \A i, j \in 1..Len(s.waiters) : s.waiters[i] = s.waiters[j] => i = j
      BY DEF SemShape, Distinct
    <3>2. /\ \A i \in 1..n : i \in 1..Len(s.waiters)
          /\ \A i \in (n + 1)..Len(s.waiters) : i \in 1..Len(s.waiters)
          /\ \A i \in 1..n : \A j \in (n + 1)..Len(s.waiters) : i # j
      BY <1>1, <2>1
    <3>3. Range(head) \subseteq Queued(s) /\ Range(tail) \subseteq Queued(s)
      BY <2>4, <3>2, QueuedElements
    <3>4. Range(head) \cap Range(tail) = {}
      <4> SUFFICES ASSUME NEW x \in Range(head) \cap Range(tail) PROVE FALSE
        OBVIOUS
      <4>1. PICK i \in 1..n : x = s.waiters[i]
        BY <2>4
      <4>2. PICK j \in (n + 1)..Len(s.waiters) : x = s.waiters[j]
        BY <2>4
      <4> QED
        BY <3>1, <3>2, <4>1, <4>2
    <3>5. Distinct(tail)
      <4> SUFFICES ASSUME NEW i \in 1..(Len(s.waiters) - n), NEW j \in 1..(Len(s.waiters) - n),
                          tail[i] = tail[j]
                   PROVE  i = j
        BY <2>3 DEF Distinct
      <4>1. n + i \in 1..Len(s.waiters)
        BY <1>1, <2>1
      <4>3. n + j \in 1..Len(s.waiters)
        BY <1>1, <2>1
      <4>2. n + i = n + j
        BY <2>3, <3>1, <4>1, <4>3
      <4> QED
        BY <2>1, <4>2
    <3> QED
      BY <3>3, <3>4, <3>5
  <2>6. IsFiniteSet(Range(head)) /\ Cardinality(Range(head)) = n
    <3> DEFINE f == [i \in 1..n |-> s.waiters[i]]
    <3>0. f \in [1..n -> Range(head)]
      BY <2>4
    <3>1. f \in Surjection(1..n, Range(head))
      BY <2>4, <3>0 DEF Surjection
    <3>2. f \in Injection(1..n, Range(head))
      <4>1. \A i \in 1..n : i \in 1..Len(s.waiters)
        BY <1>1, <2>1
      <4> QED
        BY <3>0, <4>1 DEF Injection, IsInjective, SemShape, Distinct
    <3>3. IsFiniteSet(1..n) /\ Cardinality(1..n) = n
      BY <1>1, <2>1, FS_Interval
    <3> QED
      BY <3>1, <3>2, <3>3, FS_Surjection
  <2>7. Cardinality(s.admitted \cup Range(head)) = s.active + n
    <3>1. s.admitted \cap Range(head) = {}
      BY <2>5 DEF SemShape
    <3>2. Cardinality(s.admitted \cap Range(head)) = 0
      BY <3>1, FS_EmptySet
    <3>3. Cardinality(s.admitted \cup Range(head)) =
            Cardinality(s.admitted) + Cardinality(Range(head))
              - Cardinality(s.admitted \cap Range(head))
      BY <1>1, <2>6, FS_Union
    <3> QED
      BY <1>1, <2>1, <2>6, <3>2, <3>3
  <2>8. /\ t.limit = s.limit /\ t.ceiling = s.ceiling /\ t.disposed = s.disposed
        /\ t.active = s.active + n /\ t.admitted = s.admitted \cup Range(head)
        /\ t.waiters = tail /\ t.cooling = s.cooling
        /\ t \in SemType
    <3>0. Range(head) \subseteq Calls
      BY <2>5, QueuedElements
    <3>1. s.active + n \in Nat /\ s.admitted \cup Range(head) \in SUBSET Calls
      BY <1>1, <2>1, <3>0 DEF SemType
    <3> QED
      BY <1>1, <2>2, <2>3, <3>1 DEF SemType
  <2>9. SemShape(t)
    BY <2>5, <2>7, <2>8 DEF SemShape, Queued
  <2>10. Served(t)
    <3> SUFFICES ASSUME t.waiters # << >> PROVE t.active >= t.limit
      BY DEF Served
    <3>1. n # Len(s.waiters)
      BY <1>1, <2>1, <2>3, <2>8, EmptySeq
    <3> QED
      BY <1>1, <2>1, <2>8, <3>1
  <2>11. t.admitted = s.admitted \/ Cardinality(t.admitted) <= t.limit
    <3>1. CASE n = 0
      BY <1>1, <2>6, <2>8, <3>1, FS_EmptySet
    <3>2. CASE n # 0
      BY <1>1, <2>1, <2>7, <2>8, <3>2
    <3> QED
      BY <3>1, <3>2
  <2> QED
    BY <2>5, <2>8, <2>9, <2>10, <2>11 DEF SemOK, Admitted, Queued, t
<1> QED
  BY <1>2, <1>3, <1>4

\* A change of anything but slots and queue, then a drain, is a drain.
LEMMA AdmittedThrough ==
  ASSUME NEW s, NEW u, NEW t, SameCalls(s, u), Admitted(u, t)
  PROVE  Admitted(s, t)
BY DEF SameCalls, Admitted, Queued

LEMMA AdmittedSame ==
  ASSUME NEW s, NEW t, SameCalls(s, t)
  PROVE  Admitted(s, t) /\ Queued(t) = Queued(s)
BY DEF SameCalls, Admitted, Queued

LEMMA NewKeeps ==
  ASSUME NEW limit \in Nat \ {0}
  PROVE  LET s == NewSemaphore(limit)
         IN  SemOK(s) /\ s.ceiling = limit /\ s.admitted = {} /\ Queued(s) = {}
<1> DEFINE s == NewSemaphore(limit)
<1>1. /\ s.limit = limit /\ s.ceiling = limit /\ s.admitted = {} /\ s.active = 0
      /\ s.waiters = << >>
  BY DEF NewSemaphore
<1>2. s \in SemType
  BY DEF NewSemaphore, SemType
<1>3. Queued(s) = {}
  BY <1>1 DEF Queued, Range
<1>4. Distinct(s.waiters)
  BY <1>1 DEF Distinct
<1>5. Cardinality({}) = 0
  BY FS_EmptySet
<1> HIDE DEF s
<1>6. SemOK(s)
  BY <1>1, <1>2, <1>3, <1>4, <1>5 DEF SemOK, SemShape, Served
<1> QED
  BY <1>1, <1>3, <1>6 DEF s

\* A new ceiling caps the limit before anyone is admitted under it.
LEMMA SetCeilingKeeps ==
  ASSUME AdmissionAssumption, NEW s, SemOK(s), NEW ceiling \in Nat \ {0}
  PROVE  LET t == SetCeiling(s, ceiling)
         IN  SemOK(t) /\ Admitted(s, t) /\ t.ceiling = ceiling
<1> DEFINE t == SetCeiling(s, ceiling)
           limit == IF s.limit = s.ceiling THEN ceiling ELSE Min({s.limit, ceiling})
           u == [s EXCEPT !.ceiling = ceiling, !.limit = limit,
                          !.current = {}, !.successes = 0]
<1>1. s \in SemType /\ s.limit \in Nat \ {0} /\ SemShape(s)
  BY DEF SemOK, SemShape, SemType
<1>2. CASE ceiling = s.ceiling
  <2>1. t = s
    BY <1>2 DEF SetCeiling
  <2> QED
    BY <1>2, <2>1, AdmittedSame DEF SameCalls
<1>3. CASE ceiling # s.ceiling
  <2>1. t = Drain(u)
    BY <1>3 DEF SetCeiling
  <2>2. limit \in Nat \ {0} /\ limit <= ceiling
    <3>1. Min({s.limit, ceiling}) = IF s.limit <= ceiling THEN s.limit ELSE ceiling
      BY <1>1 DEF Min
    <3> QED
      BY <1>1, <3>1
  <2> HIDE DEF limit
  <2>3. /\ u \in SemType /\ u.limit = limit /\ u.ceiling = ceiling /\ SameCalls(s, u)
    BY <1>1, <2>2 DEF SemType, SameCalls
  <2> HIDE DEF u, t
  <2>4. SemShape(u)
    BY <1>1, <2>2, <2>3 DEF SemShape, SameCalls, Queued
  <2>5. SemOK(Drain(u)) /\ Admitted(u, Drain(u)) /\ Drain(u).ceiling = u.ceiling
    BY <2>4, DrainKeeps
  <2> QED
    BY <2>1, <2>3, <2>5, AdmittedThrough DEF t
<1> QED
  BY <1>2, <1>3

\* Admissions by a report of a runner, or by the clock.
Kept(s, t) == SemOK(t) /\ Admitted(s, t) /\ t.ceiling = s.ceiling

LEMMA SampleKeeps ==
  ASSUME NEW s, SemOK(s), NEW c \in Calls
  PROVE  Kept(s, Sample(s, c)) /\ SameCalls(s, Sample(s, c))
<1> DEFINE t == Sample(s, c)
<1>1. /\ t \in SemType /\ t.limit = s.limit /\ t.ceiling = s.ceiling
      /\ t.disposed = s.disposed /\ t.wakeup = s.wakeup /\ SameCalls(s, t)
  BY DEF Sample, SemOK, SemShape, SemType, SameCalls
<1> HIDE DEF t
<1>2. SemOK(t)
  BY <1>1 DEF SemOK, SemShape, SameCalls, Queued, Served
<1> QED
  BY <1>1, <1>2, AdmittedSame DEF Kept, t

LEMMA ThrottleKeeps ==
  ASSUME NEW s, SemOK(s), NEW c \in Calls, NEW delayed \in BOOLEAN
  PROVE  Kept(s, Throttle(s, c, delayed))
<1> DEFINE t == Throttle(s, c, delayed)
           lower == Max({1, (s.limit * 3) \div 4})
<1>1. CASE s.disposed
  <2>1. t = s
    BY <1>1 DEF Throttle
  <2> QED
    BY <2>1, AdmittedSame DEF Kept, SameCalls
<1>2. CASE ~s.disposed
  <2>1. s.limit \in Nat \ {0} /\ s.ceiling \in Nat /\ s.limit <= s.ceiling
    BY DEF SemOK, SemShape, SemType
  <2>2. lower \in Nat \ {0} /\ lower <= s.limit
    <3>1. (s.limit * 3) \div 4 \in Int /\ (s.limit * 3) \div 4 <= s.limit
      BY <2>1
    <3> DEFINE cut == (s.limit * 3) \div 4
    <3> HIDE DEF cut
    <3>2. Max({1, cut}) = IF 1 <= cut THEN cut ELSE 1
      BY <3>1 DEF Max, cut
    <3> QED
      BY <2>1, <3>1, <3>2 DEF cut
  <2> HIDE DEF lower
  <2>3. /\ t \in SemType /\ t.limit \in {s.limit, lower} /\ t.ceiling = s.ceiling
        /\ t.wakeup /\ SameCalls(s, t)
    BY <1>2, <2>2 DEF Throttle, SemOK, SemShape, SemType, SameCalls, lower
  <2> HIDE DEF t
  <2>4. t.limit <= t.ceiling
    BY <2>1, <2>2, <2>3
  <2>5. SemOK(t)
    BY <2>3, <2>4 DEF SemOK, SemShape, SameCalls, Queued, Served
  <2> QED
    BY <2>3, <2>5, AdmittedSame DEF Kept, t
<1> QED
  BY <1>1, <1>2

LEMMA SucceededKeeps ==
  ASSUME AdmissionAssumption, NEW s, SemOK(s), NEW c \in Calls
  PROVE  Kept(s, Succeeded(s, c))
<1> DEFINE t == Succeeded(s, c)
<1>0. s \in SemType /\ s.limit \in Nat \ {0} /\ s.ceiling \in Nat /\ s.successes \in Nat
      /\ RaiseAfter \in Nat
  BY DEF SemOK, SemShape, SemType, AdmissionAssumption
<1>1. CASE s.disposed \/ c \notin s.current
  <2>1. t = s
    BY <1>1 DEF Succeeded
  <2> QED
    BY <2>1, AdmittedSame DEF Kept, SameCalls
<1>2. CASE ~(s.disposed \/ c \notin s.current) /\ CanRaise(s)
  <2> DEFINE more == s.limit + 1
             u == [s EXCEPT !.limit = more, !.successes = 0]
  <2>1. t = Drain(u)
    BY <1>2 DEF Succeeded
  <2>0. more \in Nat \ {0} /\ more <= s.ceiling
    BY <1>0, <1>2 DEF CanRaise
  <2> HIDE DEF more
  <2>2. u \in SemType /\ u.limit = more /\ u.ceiling = s.ceiling /\ SameCalls(s, u)
    BY <1>0, <2>0 DEF SemType, SameCalls
  <2>3. u.limit <= u.ceiling
    BY <2>0, <2>2
  <2> HIDE DEF u, t
  <2>4. SemShape(u)
    BY <2>2, <2>3 DEF SemOK, SemShape, SameCalls, Queued
  <2> QED
    BY <2>1, <2>2, <2>4, DrainKeeps, AdmittedThrough DEF Kept, t
<1>3. CASE ~(s.disposed \/ c \notin s.current) /\ ~CanRaise(s)
  <2> DEFINE more == Min({s.successes + 1, RaiseAfter})
  <2>1. t = [s EXCEPT !.successes = more]
    BY <1>3 DEF Succeeded
  <2>2. more \in Nat
    BY <1>0 DEF Min
  <2> HIDE DEF more
  <2>3. /\ t \in SemType /\ t.limit = s.limit /\ t.ceiling = s.ceiling
        /\ t.disposed = s.disposed /\ t.wakeup = s.wakeup /\ SameCalls(s, t)
    BY <1>0, <2>1, <2>2 DEF SemType, SameCalls
  <2> HIDE DEF t
  <2>4. SemOK(t)
    BY <2>3 DEF SemOK, SemShape, SameCalls, Queued, Served
  <2> QED
    BY <2>3, <2>4, AdmittedSame DEF Kept, t
<1> QED
  BY <1>1, <1>2, <1>3

LEMMA ClockKeeps ==
  ASSUME AdmissionAssumption, NEW s, SemOK(s)
  PROVE  Kept(s, CooldownEnds(s)) /\ Kept(s, Wakeup(s))
<1>0. s \in SemType /\ SemShape(s)
  BY DEF SemOK, SemShape
<1>1. Kept(s, CooldownEnds(s))
  <2> DEFINE t == CooldownEnds(s)
  <2>1. /\ t \in SemType /\ t.limit = s.limit /\ t.ceiling = s.ceiling
        /\ t.disposed = s.disposed /\ t.wakeup = s.wakeup /\ SameCalls(s, t)
    BY <1>0 DEF CooldownEnds, SemType, SameCalls
  <2> HIDE DEF t
  <2>2. SemOK(t)
    BY <2>1 DEF SemOK, SemShape, SameCalls, Queued, Served
  <2> QED
    BY <2>1, <2>2, AdmittedSame DEF Kept, t
<1>2. Kept(s, Wakeup(s))
  <2> DEFINE u == [s EXCEPT !.wakeup = FALSE]
  <2>1. u \in SemType /\ u.limit = s.limit /\ u.ceiling = s.ceiling /\ SameCalls(s, u)
    BY <1>0 DEF SemType, SameCalls
  <2>2. Wakeup(s) = Drain(u)
    BY DEF Wakeup
  <2> HIDE DEF u
  <2>3. SemShape(u)
    BY <1>0, <2>1 DEF SemShape, SameCalls, Queued
  <2> QED
    BY <2>1, <2>2, <2>3, DrainKeeps, AdmittedThrough DEF Kept
<1> QED
  BY <1>1, <1>2

\* A call that asks takes a slot within the limit, or the last place in the queue.
LEMMA AcquireKeeps ==
  ASSUME AdmissionAssumption, NEW s, SemOK(s), NEW c \in Calls,
         c \notin s.admitted, c \notin Queued(s)
  PROVE  LET t == Acquire(s, c)
         IN  /\ SemOK(t) /\ t.ceiling = s.ceiling
             /\ s.admitted \subseteq t.admitted
             /\ t.admitted \subseteq s.admitted \cup {c}
             /\ Queued(t) \subseteq Queued(s) \cup {c}
             /\ t.admitted = s.admitted \/ Cardinality(t.admitted) <= t.limit
<1> DEFINE t == Acquire(s, c)
<1>0. /\ s \in SemType /\ SemShape(s) /\ Served(s) /\ s.active \in Nat
      /\ s.limit \in Nat /\ s.waiters \in Seq(Calls)
      /\ IsFiniteSet(s.admitted) /\ s.active = Cardinality(s.admitted)
  BY SlotsFinite DEF SemOK, SemShape, SemType
<1>1. CASE Admits(s)
  <2>1. t = [s EXCEPT !.active = s.active + 1, !.admitted = s.admitted \cup {c}]
    BY <1>1 DEF Acquire
  <2>2. Cardinality(s.admitted \cup {c}) = s.active + 1
    BY <1>0, FS_AddElement
  <2> DEFINE more == s.active + 1
             slots == s.admitted \cup {c}
  <2>a. more \in Nat /\ slots \in SUBSET Calls
    BY <1>0 DEF SemType
  <2> HIDE DEF more, slots
  <2>b. t = [s EXCEPT !.active = more, !.admitted = slots]
    BY <2>1 DEF more, slots
  <2>c. /\ t \in SemType /\ t.limit = s.limit /\ t.ceiling = s.ceiling
        /\ t.active = more /\ t.admitted = slots /\ t.waiters = s.waiters
    BY <1>0, <2>a, <2>b DEF SemType
  <2>3. /\ t \in SemType /\ t.limit = s.limit /\ t.ceiling = s.ceiling
        /\ t.active = s.active + 1 /\ t.admitted = s.admitted \cup {c}
        /\ t.waiters = s.waiters /\ s.active + 1 \in Nat
    BY <2>a, <2>c DEF more, slots
  <2>4. s.active + 1 <= s.limit /\ s.waiters = << >>
    BY <1>0, <1>1 DEF Admits
  <2> HIDE DEF t
  <2>5. SemOK(t)
    <3>1. Queued(t) \cap t.admitted = {}
      BY <1>0, <2>3 DEF SemShape, Queued
    <3>2. Distinct(t.waiters) /\ t.limit <= t.ceiling
      BY <1>0, <2>3 DEF SemShape
    <3>3. t.waiters = << >> /\ t.active = Cardinality(t.admitted)
      BY <2>2, <2>3, <2>4
    <3> QED
      BY <2>3, <3>1, <3>2, <3>3 DEF SemOK, SemShape, Served
  <2> QED
    BY <2>2, <2>3, <2>4, <2>5 DEF Queued, t
<1>2. CASE ~Admits(s)
  <2> DEFINE q == Append(s.waiters, c)
  <2>1. t = [s EXCEPT !.waiters = q, !.wakeup = s.wakeup \/ s.cooling]
    BY <1>2 DEF Acquire
  <2>2. /\ q \in Seq(Calls) /\ Len(q) = Len(s.waiters) + 1 /\ Len(s.waiters) \in Nat
        /\ \A i \in 1..Len(s.waiters) : q[i] = s.waiters[i]
        /\ q[Len(s.waiters) + 1] = c
    BY <1>0, AppendProperties, LenProperties
  <2>3. Distinct(q)
    <3>1. \A i \in 1..Len(s.waiters) : s.waiters[i] # c
      BY <1>0, QueuedElements
    <3>2. \A i, j \in 1..Len(s.waiters) : s.waiters[i] = s.waiters[j] => i = j
      BY <1>0 DEF SemShape, Distinct
    <3> SUFFICES ASSUME NEW i \in 1..Len(q), NEW j \in 1..Len(q), q[i] = q[j] PROVE i = j
      BY DEF Distinct
    <3> DEFINE n == Len(s.waiters)
    <3>3. i \in 1..(n + 1) /\ j \in 1..(n + 1) /\ n \in Nat
      BY <2>2
    <3> HIDE DEF n
    <3>4. (i \in 1..n \/ i = n + 1) /\ (j \in 1..n \/ j = n + 1)
      BY <3>3
    <3> QED
      BY <2>2, <3>1, <3>2, <3>4 DEF n
  <2>4. Range(q) \subseteq Queued(s) \cup {c}
    <3>1. DOMAIN q = 1..(Len(s.waiters) + 1)
      BY <2>2, LenProperties
    <3>2. \A i \in 1..Len(s.waiters) : s.waiters[i] \in Queued(s)
      BY <1>0, QueuedElements
    <3> QED
      BY <2>2, <3>1, <3>2 DEF Range
  <2> HIDE DEF q
  <2>5. /\ t \in SemType /\ t.limit = s.limit /\ t.ceiling = s.ceiling
        /\ t.disposed = s.disposed /\ t.active = s.active /\ t.admitted = s.admitted
        /\ t.waiters = q /\ (t.wakeup <=> s.wakeup \/ s.cooling)
    BY <1>0, <2>1, <2>2 DEF SemType
  <2> HIDE DEF t
  <2>6. Served(t)
    BY <1>0, <1>2, <2>5 DEF Served, Admits
  <2>7. Queued(t) \cap t.admitted = {}
    BY <1>0, <2>4, <2>5 DEF Queued, SemShape
  <2>8. SemShape(t)
    BY <1>0, <2>3, <2>5, <2>7 DEF SemShape
  <2> QED
    BY <2>4, <2>5, <2>6, <2>8 DEF SemOK, Queued, t
<1> QED
  BY <1>1, <1>2

\* A slot given back is free once, and goes to the first waiter.
LEMMA ReleaseKeeps ==
  ASSUME AdmissionAssumption, NEW s, SemOK(s), NEW c \in Calls
  PROVE  LET t == Release(s, c)
         IN  /\ SemOK(t) /\ t.ceiling = s.ceiling
             /\ s.admitted \ {c} \subseteq t.admitted
             /\ t.admitted \subseteq (s.admitted \ {c}) \cup Queued(s)
             /\ Queued(t) \subseteq Queued(s)
             /\ t.admitted \subseteq s.admitted \/ Cardinality(t.admitted) <= t.limit
<1> DEFINE t == Release(s, c)
<1>0. /\ s \in SemType /\ SemShape(s) /\ s.active \in Nat
      /\ IsFiniteSet(s.admitted) /\ s.active = Cardinality(s.admitted)
  BY SlotsFinite DEF SemOK, SemShape, SemType
<1>1. CASE c \notin s.admitted
  <2>1. t = s
    BY <1>1 DEF Release
  <2> QED
    BY <1>1, <2>1
<1>2. CASE c \in s.admitted
  <2> DEFINE u == [s EXCEPT !.active = Max({0, s.active - 1}),
                            !.admitted = s.admitted \ {c}]
  <2>1. t = Drain(u)
    BY <1>2 DEF Release
  <2>2. /\ Cardinality(s.admitted \ {c}) = s.active - 1
        /\ s.active - 1 \in Nat
    <3>1. IsFiniteSet(s.admitted \ {c})
      BY <1>0, FS_RemoveElement
    <3>2. Cardinality(s.admitted \ {c}) = Cardinality(s.admitted) - 1
      BY <1>0, <1>2, FS_RemoveElement
    <3>3. Cardinality(s.admitted \ {c}) \in Nat
      BY <3>1, FS_CardinalityType
    <3> QED
      BY <1>0, <3>2, <3>3
  <2>3. Max({0, s.active - 1}) = s.active - 1
    BY <2>2 DEF Max
  <2>4. /\ u \in SemType /\ u.limit = s.limit /\ u.ceiling = s.ceiling
        /\ u.active = s.active - 1 /\ u.admitted = s.admitted \ {c}
        /\ u.waiters = s.waiters
    BY <1>0, <2>2, <2>3 DEF SemType
  <2> HIDE DEF u, t
  <2>5. SemShape(u) /\ Queued(u) = Queued(s)
    BY <1>0, <2>2, <2>4 DEF SemShape, Queued
  <2>6. SemOK(t) /\ Admitted(u, t) /\ t.ceiling = u.ceiling
    BY <2>1, <2>5, DrainKeeps
  <2> QED
    BY <2>4, <2>5, <2>6 DEF Admitted, t
<1> QED
  BY <1>1, <1>2

\* Those who leave the queue only leave the queue.
LEMMA LeaveKeeps ==
  ASSUME NEW s, SemOK(s), NEW C
  PROVE  LET t == Leave(s, C)
         IN  /\ SemOK(t) /\ t.ceiling = s.ceiling /\ t.admitted = s.admitted
             /\ t.active = s.active /\ Queued(t) = Queued(s) \ C
<1> DEFINE t == Leave(s, C)
           q == Without(s.waiters, C)
<1>0. s \in SemType /\ SemShape(s) /\ s.waiters \in Seq(Calls) /\ Distinct(s.waiters)
  BY DEF SemOK, SemShape, SemType
<1>1. q \in Seq(Calls) /\ Distinct(q) /\ Range(q) = Queued(s) \ C
  BY <1>0, WithoutKeeps DEF Queued
<1>2. t = [s EXCEPT !.waiters = q]
  BY DEF Leave
<1> HIDE DEF q
<1>3. /\ t \in SemType /\ t.limit = s.limit /\ t.ceiling = s.ceiling
      /\ t.disposed = s.disposed /\ t.wakeup = s.wakeup /\ t.active = s.active
      /\ t.admitted = s.admitted /\ t.waiters = q
  BY <1>0, <1>1, <1>2 DEF SemType
<1> HIDE DEF t
<1>4. Queued(t) = Queued(s) \ C
  BY <1>1, <1>3 DEF Queued
<1>5. SemShape(t)
  BY <1>0, <1>1, <1>3, <1>4 DEF SemShape
<1>6. t.waiters # << >> => s.waiters # << >>
  <2>1. t.waiters = << >> <=> Queued(t) = {}
    BY <1>5, QueuedElements
  <2>2. s.waiters = << >> <=> Queued(s) = {}
    BY <1>0, QueuedElements
  <2> QED
    BY <1>4, <2>1, <2>2
<1>7. SemOK(t)
  BY <1>3, <1>5, <1>6 DEF SemOK, Served
<1> QED
  BY <1>3, <1>4, <1>7 DEF t

\* A run that aborts takes the slots of its waiting calls from its own semaphore,
\* on which nobody waits any more.
LEMMA GiveUpKeeps ==
  ASSUME AdmissionAssumption, NEW s, SemOK(s), Queued(s) = {}, NEW held \in SUBSET s.admitted
  PROVE  LET t == GiveUp(s, held)
         IN  SemOK(t) /\ t.admitted = s.admitted \ held /\ Queued(t) = {}
<1> DEFINE n == s.active - Cardinality(held)
           t == GiveUp(s, held)
<1>0. /\ s \in SemType /\ SemShape(s) /\ s.active \in Nat
      /\ IsFiniteSet(s.admitted) /\ s.active = Cardinality(s.admitted)
      /\ s.waiters = << >>
  BY SlotsFinite, QueuedElements DEF SemOK, SemShape, SemType
<1>1. IsFiniteSet(held) /\ IsFiniteSet(s.admitted \ held)
  BY <1>0, FS_Subset
<1>2. n = Cardinality(s.admitted \ held) /\ n \in Nat
  <2>1. (s.admitted \ held) \cap held = {} /\ (s.admitted \ held) \cup held = s.admitted
    OBVIOUS
  <2>2. Cardinality((s.admitted \ held) \cap held) = 0
    BY <2>1, FS_EmptySet
  <2>3. Cardinality((s.admitted \ held) \cup held) =
          Cardinality(s.admitted \ held) + Cardinality(held)
            - Cardinality((s.admitted \ held) \cap held)
    BY <1>1, FS_Union
  <2>4. Cardinality(s.admitted \ held) \in Nat /\ Cardinality(held) \in Nat
    BY <1>1, FS_CardinalityType
  <2>5. Cardinality((s.admitted \ held) \cup held) = s.active
    BY <1>0, <2>1
  <2> QED
    BY <2>2, <2>3, <2>4, <2>5
<1>e. t = [s EXCEPT !.active = n, !.admitted = s.admitted \ held]
  BY DEF GiveUp
<1> HIDE DEF n, t
<1>3. /\ t \in SemType /\ t.limit = s.limit /\ t.ceiling = s.ceiling
      /\ t.active = n /\ t.admitted = s.admitted \ held /\ t.waiters = s.waiters
  BY <1>0, <1>2, <1>e DEF SemType
<1>4. SemOK(t)
  BY <1>0, <1>2, <1>3 DEF SemOK, SemShape, Queued, Served
<1> QED
  BY <1>3, <1>4 DEF Queued, t

\* A semaphore on which nobody waits may be parked, and one may be disposed of.
LEMMA ParkKeeps ==
  ASSUME NEW s, SemOK(s), Queued(s) = {}
  PROVE  /\ SemOK(Park(s)) /\ Park(s).admitted = s.admitted /\ Queued(Park(s)) = {}
         /\ SemOK(Dispose(s)) /\ Dispose(s).admitted = s.admitted /\ Queued(Dispose(s)) = {}
<1>0. s \in SemType /\ SemShape(s) /\ s.waiters = << >>
  BY QueuedElements DEF SemOK, SemShape
<1>1. /\ Park(s) \in SemType /\ Park(s).limit = s.limit /\ Park(s).ceiling = s.ceiling
      /\ SameCalls(s, Park(s))
  BY <1>0 DEF Park, SemType, SameCalls
<1>2. /\ Dispose(s) \in SemType /\ Dispose(s).limit = s.limit
      /\ Dispose(s).ceiling = s.ceiling /\ SameCalls(s, Dispose(s))
  BY <1>0 DEF Dispose, SemType, SameCalls
<1> QED
  BY <1>0, <1>1, <1>2 DEF SemOK, SemShape, SameCalls, Queued, Served

-----------------------------------------------------------------------------
(* The system *)

Waiting == {"own", "shared", "run"}

TypeInv ==
  /\ run \in [Runs -> {"idle", "running", "closing"}]
  /\ phase \in [Calls -> {"idle", "own", "shared", "run", "hung"}]
  /\ DOMAIN own = Runs
  /\ pooled \in BOOLEAN
  /\ members \subseteq Runs \cup Calls

\* Who waits for the shared semaphore, or holds a slot of it, is in a phase
\* that will give it back.
SharedInv ==
  /\ SemOK(shared)
  /\ \A c \in Queued(shared) : phase[c] = "shared"
  /\ \A c \in shared.admitted : phase[c] \in {"shared", "run", "hung"}
  /\ \A c \in Calls : phase[c] \in {"run", "hung"} => c \in shared.admitted

OwnOK(r, s) ==
  /\ SemOK(s)
  /\ \A c \in Queued(s) : RunOf[c] = r /\ phase[c] = "own"
  /\ \A c \in s.admitted : RunOf[c] = r /\ phase[c] \in Waiting

\* Who works or hangs keeps the pool, and the pool has the ceiling of its members.
LeaseInv ==
  /\ \A c \in Calls : phase[c] \in Waiting => run[RunOf[c]] # "idle"
  /\ \A c \in Calls : phase[c] = "hung" => c \in members
  /\ \A r \in Runs : run[r] # "idle" => r \in members
  /\ members # {} => pooled /\ shared.ceiling = PoolCeiling(members)

AdmissionInv ==
  TypeInv /\ SharedInv /\ (\A r \in Runs : OwnOK(r, own[r])) /\ LeaseInv

-----------------------------------------------------------------------------
(* The pool *)

LEMMA PoolCeilingOf ==
  ASSUME AdmissionAssumption, NEW M \in SUBSET (Runs \cup Calls), M # {}
  PROVE  /\ PoolCeiling(M) \in Nat \ {0}
         /\ \A m \in M : PoolCeiling(M) <= CeilingOf(m)
         /\ \E m \in M : PoolCeiling(M) = CeilingOf(m)
<1> DEFINE S == {CeilingOf(m) : m \in M}
<1>1. \A m \in M : CeilingOf(m) \in Nat \ {0}
  BY DEF CeilingOf, AdmissionAssumption
<1>2. S \in SUBSET Nat /\ S # {}
  BY <1>1
<1>3. Min(S) \in S /\ \A x \in S : Min(S) <= x
  BY <1>2, LeastOf
<1>4. PoolCeiling(M) = Min(S)
  BY DEF PoolCeiling
<1>5. \A x : x \in S <=> \E m \in M : x = CeilingOf(m)
  OBVIOUS
<1> HIDE DEF S
<1>6. PoolCeiling(M) \in S /\ \A x \in S : PoolCeiling(M) <= x
  BY <1>3, <1>4
<1> QED
  BY <1>1, <1>5, <1>6

\* Who leaves does not make the ceiling smaller.
LEMMA PoolCeilingGrows ==
  ASSUME AdmissionAssumption, NEW M \in SUBSET (Runs \cup Calls),
         NEW N \in SUBSET M, N # {}
  PROVE  PoolCeiling(M) <= PoolCeiling(N)
<1>1. N \in SUBSET (Runs \cup Calls) /\ M # {}
  OBVIOUS
<1>2. PICK m \in N : PoolCeiling(N) = CeilingOf(m)
  BY <1>1, PoolCeilingOf
<1>3. PoolCeiling(M) <= CeilingOf(m)
  BY <1>1, PoolCeilingOf
<1> QED
  BY <1>2, <1>3

LEMMA PoolIdle ==
  ASSUME AdmissionAssumption, AdmissionInv, members = {}
  PROVE  shared.admitted = {} /\ Queued(shared) = {}
<1>1. \A c \in Queued(shared) \cup shared.admitted : c \in Calls
  BY QueuedElements DEF AdmissionInv, SharedInv, SemOK, SemShape, SemType
<1>2. \A c \in Calls : RunOf[c] \in Runs
  BY DEF AdmissionAssumption
<1>3. \A c \in Calls : phase[c] \in {"own", "shared", "run", "hung"} =>
                         c \in members \/ RunOf[c] \in members
  BY <1>2 DEF AdmissionInv, LeaseInv, Waiting
<1> QED
  BY <1>1, <1>3 DEF AdmissionInv, SharedInv

LEMMA TakeLeaseKeeps ==
  ASSUME AdmissionAssumption, AdmissionInv, NEW m \in Runs \cup Calls,
         NEW expired \in BOOLEAN, TakeLease(m, expired)
  PROVE  /\ members' = members \cup {m} /\ pooled' = TRUE
         /\ SemOK(shared') /\ Admitted(shared, shared')
         /\ shared'.ceiling = PoolCeiling(members')
<1> DEFINE replaced == ~pooled \/ (members = {} /\ expired)
           s == IF replaced THEN NewSemaphore(CeilingOf(m)) ELSE shared
           new == members \cup {m}
<1>1. members' = new /\ pooled' = TRUE /\ shared' = SetCeiling(s, PoolCeiling(new))
  BY DEF TakeLease
<1>2. new \in SUBSET (Runs \cup Calls) /\ new # {}
  BY DEF AdmissionInv, TypeInv
<1>3. PoolCeiling(new) \in Nat \ {0}
  BY <1>2, PoolCeilingOf
<1>4. CeilingOf(m) \in Nat \ {0}
  BY DEF CeilingOf, AdmissionAssumption
<1>5. SemOK(shared)
  BY DEF AdmissionInv, SharedInv
<1>6. CASE replaced
  <2>1. members = {}
    BY <1>6 DEF AdmissionInv, LeaseInv
  <2>2. shared.admitted = {} /\ Queued(shared) = {}
    BY <2>1, PoolIdle
  <2>3. s = NewSemaphore(CeilingOf(m))
    BY <1>6
  <2>4. SemOK(s) /\ s.admitted = {} /\ Queued(s) = {}
    BY <1>4, <2>3, NewKeeps
  <2> HIDE DEF s, new
  <2>5. /\ SemOK(shared') /\ Admitted(s, shared')
        /\ shared'.ceiling = PoolCeiling(new)
    BY <1>1, <1>3, <2>4, SetCeilingKeeps
  <2>6. Admitted(shared, shared')
    BY <2>2, <2>4, <2>5 DEF Admitted
  <2> QED
    BY <1>1, <2>5, <2>6 DEF new
<1>7. CASE ~replaced
  <2>1. s = shared
    BY <1>7
  <2> HIDE DEF s, new
  <2>2. /\ SemOK(shared') /\ Admitted(shared, shared')
        /\ shared'.ceiling = PoolCeiling(new)
    BY <1>1, <1>3, <1>5, <2>1, SetCeilingKeeps
  <2> QED
    BY <1>1, <2>2 DEF new
<1> QED
  BY <1>6, <1>7

LEMMA DropLeaseKeeps ==
  ASSUME AdmissionAssumption, AdmissionInv, NEW m \in members,
         NEW s, SemOK(s), s.ceiling = shared.ceiling,
         members \ {m} = {} => Queued(s) = {}, DropLease(s, m)
  PROVE  /\ members' = members \ {m} /\ pooled' \in BOOLEAN
         /\ SemOK(shared')
         /\ s.admitted \subseteq shared'.admitted
         /\ shared'.admitted \subseteq s.admitted \cup Queued(s)
         /\ Queued(shared') \subseteq Queued(s)
         /\ members' # {} => pooled' /\ shared'.ceiling = PoolCeiling(members')
         /\ \/ shared'.admitted = s.admitted
            \/ Cardinality(shared'.admitted) <= PoolCeiling(members')
<1> DEFINE rest == members \ {m}
<1>1. members' = rest /\ rest \in SUBSET (Runs \cup Calls)
  BY DEF DropLease, AdmissionInv, TypeInv
<1>2. pooled \in BOOLEAN /\ pooled
  BY DEF AdmissionInv, TypeInv, LeaseInv
<1>3. CASE rest # {}
  <2>1. shared' = SetCeiling(s, PoolCeiling(rest)) /\ pooled' = pooled
    BY <1>1, <1>3 DEF DropLease
  <2>2. PoolCeiling(rest) \in Nat \ {0}
    BY <1>1, <1>3, PoolCeilingOf
  <2> HIDE DEF rest
  <2>3. /\ SemOK(shared') /\ Admitted(s, shared')
        /\ shared'.ceiling = PoolCeiling(rest)
    BY <2>1, <2>2, SetCeilingKeeps
  <2>4. \/ shared'.admitted = s.admitted
        \/ Cardinality(shared'.admitted) <= PoolCeiling(rest)
    <3>1. /\ shared'.limit \in Nat /\ shared'.ceiling \in Nat
          /\ shared'.limit <= shared'.ceiling
          /\ shared'.active = Cardinality(shared'.admitted) /\ shared'.active \in Nat
      BY <2>3 DEF SemOK, SemShape, SemType
    <3> QED
      BY <2>3, <3>1 DEF Admitted
  <2> QED
    BY <1>1, <1>2, <2>1, <2>3, <2>4 DEF Admitted, rest
<1>4. CASE rest = {}
  <2>1. Queued(s) = {}
    BY <1>4
  <2>2. \/ shared' = Park(s) /\ pooled' = pooled
        \/ shared' = Dispose(s) /\ pooled' = FALSE
    BY <1>1, <1>4 DEF DropLease
  <2>3. SemOK(shared') /\ shared'.admitted = s.admitted /\ Queued(shared') = {}
    BY <2>1, <2>2, ParkKeeps
  <2> QED
    BY <1>1, <1>2, <1>4, <2>1, <2>2, <2>3
<1> QED
  BY <1>3, <1>4

-----------------------------------------------------------------------------
(* The steps *)

\* No call is admitted beyond the smallest ceiling attached.
HostStep ==
  \/ shared'.admitted \subseteq shared.admitted
  \/ Cardinality(shared'.admitted) <= PoolCeiling(members')

LEMMA Known ==
  ASSUME AdmissionAssumption, AdmissionInv
  PROVE  /\ \A c \in Calls : RunOf[c] \in Runs
         /\ Queued(shared) \subseteq Calls /\ shared.admitted \subseteq Calls
         /\ Queued(shared) \cap shared.admitted = {}
         /\ \A r \in Runs : /\ Queued(own[r]) \subseteq Calls
                            /\ own[r].admitted \subseteq Calls
                            /\ Queued(own[r]) \cap own[r].admitted = {}
         /\ \A c \in Calls : phase[c] \in Waiting \cup {"hung"} => members # {}
<1>1. \A c \in Calls : RunOf[c] \in Runs
  BY DEF AdmissionAssumption
<1>2. \A s : SemOK(s) => /\ Queued(s) \subseteq Calls /\ s.admitted \subseteq Calls
                         /\ Queued(s) \cap s.admitted = {}
  BY QueuedElements DEF SemOK, SemShape, SemType
<1>3. \A c \in Calls : phase[c] \in Waiting \cup {"hung"} => members # {}
  BY <1>1 DEF AdmissionInv, LeaseInv
<1> QED
  BY <1>1, <1>2, <1>3 DEF AdmissionInv, SharedInv, OwnOK

LEMMA WithinLimit ==
  ASSUME AdmissionAssumption, NEW s, SemOK(s), Cardinality(s.admitted) <= s.limit
  PROVE  Cardinality(s.admitted) <= s.ceiling
<1>1. /\ s.limit \in Nat /\ s.ceiling \in Nat /\ s.limit <= s.ceiling
      /\ Cardinality(s.admitted) \in Nat
  BY DEF SemOK, SemShape, SemType
<1> QED
  BY <1>1

\* Reports of a runner and ticks of the clock.
LEMMA KeptSteps ==
  ASSUME AdmissionAssumption, AdmissionInv, Kept(shared, shared'),
         DOMAIN own' = Runs, \A r \in Runs : own'[r] = own[r] \/ Kept(own[r], own'[r]),
         UNCHANGED <<run, phase, pooled, members>>
  PROVE  AdmissionInv' /\ HostStep
<1>1. TypeInv'
  BY DEF AdmissionInv, TypeInv
<1>2. SharedInv'
  <2>1. SemOK(shared') /\ Admitted(shared, shared')
    BY DEF Kept
  <2> QED
    BY <2>1 DEF AdmissionInv, SharedInv, Admitted
<1>3. \A r \in Runs : OwnOK(r, own[r])'
  <2> SUFFICES ASSUME NEW r \in Runs PROVE OwnOK(r, own[r])'
    OBVIOUS
  <2>1. OwnOK(r, own[r])
    BY DEF AdmissionInv
  <2>2. CASE own'[r] = own[r]
    BY <2>1, <2>2 DEF OwnOK
  <2>3. CASE Kept(own[r], own'[r])
    BY <2>1, <2>3 DEF OwnOK, Kept, Admitted, Waiting
  <2> QED
    BY <2>2, <2>3
<1>4. LeaseInv'
  BY DEF AdmissionInv, LeaseInv, Kept
<1>5. HostStep
  <2>1. CASE members = {}
    BY <2>1, PoolIdle DEF HostStep, Kept, Admitted
  <2>2. CASE members # {}
    <3>1. shared'.ceiling = PoolCeiling(members')
      BY <2>2 DEF AdmissionInv, LeaseInv, Kept
    <3>2. SemOK(shared') /\ Admitted(shared, shared')
      BY DEF Kept
    <3> QED
      BY <3>1, <3>2, WithinLimit DEF HostStep, Admitted
  <2> QED
    BY <2>1, <2>2
<1> QED
  BY <1>1, <1>2, <1>3, <1>4, <1>5 DEF AdmissionInv

LEMMA KeptItself ==
  ASSUME NEW s, SemOK(s)
  PROVE  Kept(s, s)
BY AdmittedSame DEF Kept, SameCalls

LEMMA KeptSample ==
  ASSUME NEW s, NEW t, Kept(s, t), NEW c \in Calls
  PROVE  Kept(s, Sample(t, c))
<1> DEFINE u == Sample(t, c)
<1>1. SemOK(t) /\ Admitted(s, t) /\ t.ceiling = s.ceiling
  BY DEF Kept
<1>2. Kept(t, u) /\ SameCalls(t, u)
  BY <1>1, SampleKeeps
<1>3. u.limit = t.limit
  BY <1>1 DEF Sample, SemOK, SemShape, SemType
<1> HIDE DEF u
<1>4. Admitted(s, u)
  BY <1>1, <1>2, <1>3 DEF Admitted, SameCalls, Queued
<1> QED
  BY <1>1, <1>2, <1>4 DEF Kept, u

LEMMA ReportSteps ==
  ASSUME AdmissionAssumption, AdmissionInv, NEW c \in Calls,
         RequestStarted(c) \/ RequestSucceeded(c)
           \/ \E delayed \in BOOLEAN : RequestRateLimited(c, delayed)
  PROVE  AdmissionInv' /\ HostStep
<1> DEFINE r == RunOf[c]
<1>0. /\ r \in Runs /\ SemOK(shared) /\ SemOK(own[r]) /\ DOMAIN own = Runs
  BY Known DEF AdmissionInv, SharedInv, OwnOK, TypeInv
<1>1. ASSUME RequestStarted(c)
      PROVE  /\ Kept(shared, shared') /\ UNCHANGED <<run, phase, pooled, members>>
             /\ own' = [own EXCEPT ![r] = IF HasOwn(c) THEN Sample(own[r], c) ELSE own[r]]
             /\ Kept(own[r], Sample(own[r], c))
  <2>1. /\ shared' = Sample(shared, c) /\ UNCHANGED <<run, phase, pooled, members>>
        /\ own' = [own EXCEPT ![r] = IF HasOwn(c) THEN Sample(own[r], c) ELSE own[r]]
    BY <1>1 DEF RequestStarted, UpdateBoth
  <2> QED
    BY <1>0, <2>1, SampleKeeps
<1>2. ASSUME RequestSucceeded(c)
      PROVE  LET t == Sample(Succeeded(own[r], c), c)
             IN  /\ Kept(shared, shared') /\ UNCHANGED <<run, phase, pooled, members>>
                 /\ own' = [own EXCEPT ![r] = IF HasOwn(c) THEN t ELSE own[r]]
                 /\ Kept(own[r], t)
  <2>1. /\ shared' = Sample(Succeeded(shared, c), c)
        /\ UNCHANGED <<run, phase, pooled, members>>
        /\ own' = [own EXCEPT ![r] = IF HasOwn(c) THEN Sample(Succeeded(own[r], c), c)
                                     ELSE own[r]]
    BY <1>2 DEF RequestSucceeded, UpdateBoth
  <2> QED
    BY <1>0, <2>1, SucceededKeeps, KeptSample
<1>3. ASSUME NEW delayed \in BOOLEAN, RequestRateLimited(c, delayed)
      PROVE  LET t == Sample(Throttle(own[r], c, delayed), c)
             IN  /\ Kept(shared, shared') /\ UNCHANGED <<run, phase, pooled, members>>
                 /\ own' = [own EXCEPT ![r] = IF HasOwn(c) THEN t ELSE own[r]]
                 /\ Kept(own[r], t)
  <2>1. /\ shared' = Sample(Throttle(shared, c, delayed), c)
        /\ UNCHANGED <<run, phase, pooled, members>>
        /\ own' = [own EXCEPT ![r] = IF HasOwn(c)
                                     THEN Sample(Throttle(own[r], c, delayed), c)
                                     ELSE own[r]]
    BY <1>3 DEF RequestRateLimited, UpdateBoth
  <2> QED
    BY <1>0, <2>1, ThrottleKeeps, KeptSample
<1>4. PICK t : /\ Kept(shared, shared') /\ UNCHANGED <<run, phase, pooled, members>>
               /\ own' = [own EXCEPT ![r] = IF HasOwn(c) THEN t ELSE own[r]]
               /\ Kept(own[r], t)
  BY <1>1, <1>2, <1>3
<1>5. DOMAIN own' = Runs /\ \A q \in Runs : own'[q] = own[q] \/ Kept(own[q], own'[q])
  BY <1>0, <1>4
<1> QED
  BY <1>4, <1>5, KeptSteps

LEMMA ClockSteps ==
  ASSUME AdmissionAssumption, AdmissionInv, SharedClock \/ \E r \in Runs : OwnClock(r)
  PROVE  AdmissionInv' /\ HostStep
<1>0. DOMAIN own = Runs /\ SemOK(shared) /\ \A r \in Runs : SemOK(own[r])
  BY DEF AdmissionInv, SharedInv, OwnOK, TypeInv
<1>1. CASE SharedClock
  <2>1. Kept(shared, shared')
    BY <1>0, <1>1, ClockKeeps DEF SharedClock
  <2> QED
    BY <1>0, <1>1, <2>1, KeptSteps DEF SharedClock
<1>2. ASSUME NEW r \in Runs, OwnClock(r) PROVE AdmissionInv' /\ HostStep
  <2>1. PICK t : own' = [own EXCEPT ![r] = t] /\ Kept(own[r], t)
    BY <1>0, <1>2, ClockKeeps DEF OwnClock
  <2>2. DOMAIN own' = Runs /\ \A q \in Runs : own'[q] = own[q] \/ Kept(own[q], own'[q])
    BY <1>0, <2>1
  <2>3. Kept(shared, shared') /\ UNCHANGED <<run, phase, pooled, members>>
    BY <1>0, <1>2, KeptItself DEF OwnClock
  <2> QED
    BY <2>2, <2>3, KeptSteps
<1> QED
  BY <1>1, <1>2

\* A call of a run that is under way asks the shared semaphore.
LEMMA QueueShared ==
  ASSUME AdmissionAssumption, AdmissionInv, NEW c \in Calls,
         run[RunOf[c]] # "idle", phase[c] \in {"idle", "own"},
         \A r \in Runs : c \notin Queued(own[r]),
         phase' = [phase EXCEPT ![c] = "shared"], shared' = Acquire(shared, c),
         UNCHANGED <<run, own, pooled, members>>
  PROVE  AdmissionInv' /\ HostStep
<1>1. /\ SemOK(shared)
      /\ phase \in [Calls -> {"idle", "own", "shared", "run", "hung"}]
      /\ c \notin shared.admitted /\ c \notin Queued(shared)
  BY DEF AdmissionInv, SharedInv, TypeInv
<1>2. /\ SemOK(shared') /\ shared'.ceiling = shared.ceiling
      /\ shared.admitted \subseteq shared'.admitted
      /\ shared'.admitted \subseteq shared.admitted \cup {c}
      /\ Queued(shared') \subseteq Queued(shared) \cup {c}
      /\ \/ shared'.admitted = shared.admitted
         \/ Cardinality(shared'.admitted) <= shared'.limit
  BY <1>1, AcquireKeeps
<1>3. TypeInv'
  BY <1>1 DEF AdmissionInv, TypeInv
<1>4. SharedInv'
  BY <1>1, <1>2, Known DEF AdmissionInv, SharedInv
<1>5. \A r \in Runs : OwnOK(r, own[r])'
  BY <1>1, Known DEF AdmissionInv, OwnOK, Waiting
<1>6. LeaseInv'
  BY <1>1, <1>2 DEF AdmissionInv, LeaseInv, Waiting
<1>7. members' # {}
  BY Known DEF AdmissionInv, LeaseInv
<1>8. HostStep
  BY <1>2, <1>6, <1>7, WithinLimit DEF LeaseInv, HostStep
<1> QED
  BY <1>3, <1>4, <1>5, <1>6, <1>8 DEF AdmissionInv

LEMMA StartCallStep ==
  ASSUME AdmissionAssumption, AdmissionInv, NEW c \in Calls, StartCall(c)
  PROVE  AdmissionInv' /\ HostStep
<1> DEFINE r == RunOf[c]
<1>0. /\ r \in Runs /\ run[r] = "running" /\ phase[c] = "idle"
      /\ UNCHANGED <<run, pooled, members>>
  BY Known DEF StartCall
<1>1. /\ SemOK(shared) /\ SemOK(own[r]) /\ DOMAIN own = Runs
      /\ phase \in [Calls -> {"idle", "own", "shared", "run", "hung"}]
  BY <1>0 DEF AdmissionInv, SharedInv, OwnOK, TypeInv
<1>2. /\ c \notin shared.admitted /\ c \notin Queued(shared)
      /\ \A q \in Runs : c \notin own[q].admitted /\ c \notin Queued(own[q])
  BY <1>0 DEF AdmissionInv, SharedInv, OwnOK, Waiting
<1>3. CASE HasOwn(c)
  <2>1. /\ phase' = [phase EXCEPT ![c] = "own"] /\ shared' = shared
        /\ own' = [own EXCEPT ![r] = Acquire(own[r], c)]
    BY <1>3 DEF StartCall
  <2> DEFINE t == Acquire(own[r], c)
  <2>2. /\ SemOK(t) /\ t.admitted \subseteq own[r].admitted \cup {c}
        /\ Queued(t) \subseteq Queued(own[r]) \cup {c}
    BY <1>0, <1>1, <1>2, AcquireKeeps
  <2> HIDE DEF t
  <2>3. own'[r] = t /\ \A q \in Runs \ {r} : own'[q] = own[q]
    BY <1>0, <1>1, <2>1 DEF t
  <2>4. TypeInv' /\ LeaseInv'
    <3>1. TypeInv'
      BY <1>0, <1>1, <2>1 DEF AdmissionInv, TypeInv
    <3>2. LeaseInv'
      BY <1>0, <1>1, <2>1 DEF AdmissionInv, LeaseInv, Waiting
    <3> QED
      BY <3>1, <3>2
  <2>5. SharedInv'
    BY <1>0, <1>1, <1>2, <2>1, Known DEF AdmissionInv, SharedInv
  <2>6. ASSUME NEW q \in Runs PROVE OwnOK(q, own[q])'
    <3>1. OwnOK(q, own[q])
      BY DEF AdmissionInv
    <3>2. CASE q = r
      BY <1>0, <1>1, <1>2, <2>1, <2>2, <2>3, <3>1, <3>2, Known DEF OwnOK, Waiting
    <3>3. CASE q # r
      BY <1>0, <1>1, <1>2, <2>1, <2>3, <3>1, <3>3, Known DEF OwnOK, Waiting
    <3> QED
      BY <3>2, <3>3
  <2> QED
    BY <2>1, <2>4, <2>5, <2>6 DEF AdmissionInv, HostStep
<1>4. CASE ~HasOwn(c)
  <2>1. /\ phase' = [phase EXCEPT ![c] = "shared"] /\ own' = own
        /\ shared' = Acquire(shared, c)
    BY <1>4 DEF StartCall
  <2>2. \A q \in Runs : c \notin own[q].admitted /\ c \notin Queued(own[q])
    BY <1>2
  <2> QED
    BY <1>0, <1>1, <1>2, <2>1, QueueShared
<1> QED
  BY <1>3, <1>4

LEMMA AcquireSharedStep ==
  ASSUME AdmissionAssumption, AdmissionInv, NEW c \in Calls, AcquireShared(c)
  PROVE  AdmissionInv' /\ HostStep
<1>1. /\ phase[c] = "own" /\ c \in own[RunOf[c]].admitted
      /\ phase' = [phase EXCEPT ![c] = "shared"] /\ shared' = Acquire(shared, c)
      /\ UNCHANGED <<run, own, pooled, members>>
  BY DEF AcquireShared
<1>2. run[RunOf[c]] # "idle"
  BY <1>1 DEF AdmissionInv, LeaseInv, Waiting
<1>3. \A r \in Runs : c \notin Queued(own[r])
  BY <1>1, Known DEF AdmissionInv, OwnOK
<1> QED
  BY <1>1, <1>2, <1>3, QueueShared

LEMMA StartRunnerStep ==
  ASSUME AdmissionAssumption, AdmissionInv, NEW c \in Calls, StartRunner(c)
  PROVE  AdmissionInv' /\ HostStep
<1> DEFINE r == RunOf[c]
<1>1. /\ phase[c] = "shared" /\ c \in shared.admitted
      /\ phase' = [phase EXCEPT ![c] = "run"] /\ shared' = Sample(shared, c)
      /\ own' = [own EXCEPT ![r] = IF HasOwn(c) THEN Sample(own[r], c) ELSE own[r]]
      /\ UNCHANGED <<run, pooled, members>>
  BY DEF StartRunner
<1>2. /\ r \in Runs /\ SemOK(shared) /\ SemOK(own[r]) /\ DOMAIN own = Runs
      /\ phase \in [Calls -> {"idle", "own", "shared", "run", "hung"}]
  BY Known DEF AdmissionInv, SharedInv, OwnOK, TypeInv
<1>3. Kept(shared, shared') /\ SameCalls(shared, shared')
  BY <1>1, <1>2, SampleKeeps
<1>4. TypeInv'
  BY <1>1, <1>2 DEF AdmissionInv, TypeInv
<1>5. SharedInv'
  BY <1>1, <1>2, <1>3, Known DEF AdmissionInv, SharedInv, Kept, SameCalls, Queued
<1>6. ASSUME NEW q \in Runs PROVE OwnOK(q, own[q])'
  <2>1. OwnOK(q, own[q])
    BY DEF AdmissionInv
  <2>2. SemOK(own'[q]) /\ SameCalls(own[q], own'[q])
    <3>1. SemOK(own[q]) /\ SameCalls(own[q], own[q])
      BY <2>1 DEF OwnOK, SameCalls
    <3>2. SemOK(Sample(own[q], c)) /\ SameCalls(own[q], Sample(own[q], c))
      BY <3>1, SampleKeeps DEF Kept
    <3> QED
      BY <1>1, <1>2, <3>1, <3>2
  <2>3. Queued(own'[q]) = Queued(own[q]) /\ own'[q].admitted = own[q].admitted
    BY <2>2 DEF SameCalls, Queued
  <2> QED
    BY <1>1, <1>2, <2>1, <2>2, <2>3, Known DEF OwnOK, Waiting
<1>7. LeaseInv'
  BY <1>1, <1>2, <1>3 DEF AdmissionInv, LeaseInv, Waiting, Kept
<1> QED
  BY <1>3, <1>4, <1>5, <1>6, <1>7 DEF AdmissionInv, HostStep, SameCalls

LEMMA GiveBackStep ==
  ASSUME AdmissionAssumption, AdmissionInv, NEW c \in Calls, EndCall(c) \/ EndAborted(c)
  PROVE  AdmissionInv' /\ HostStep
<1> DEFINE r == RunOf[c]
           t == Release(own[r], c)
<1>1. /\ phase' = [phase EXCEPT ![c] = "idle"] /\ shared' = Release(shared, c)
      /\ own' = [own EXCEPT ![r] = t] /\ UNCHANGED <<run, pooled, members>>
      /\ phase[c] \in Waiting
  BY DEF EndCall, EndAborted, GiveBack, Waiting
<1>2. /\ r \in Runs /\ SemOK(shared) /\ SemOK(own[r]) /\ DOMAIN own = Runs
      /\ phase \in [Calls -> {"idle", "own", "shared", "run", "hung"}]
  BY Known DEF AdmissionInv, SharedInv, OwnOK, TypeInv
<1>3. c \notin Queued(shared) /\ \A q \in Runs : c \notin Queued(own[q])
  <2>1. \/ phase[c] = "own" /\ c \in own[r].admitted
        \/ phase[c] \in {"shared", "run"} /\ c \in shared.admitted
    BY DEF EndCall, EndAborted, AdmissionInv, SharedInv
  <2> QED
    BY <1>2, <2>1, Known DEF AdmissionInv, SharedInv, OwnOK
<1>4. /\ SemOK(shared') /\ shared'.ceiling = shared.ceiling
      /\ shared.admitted \ {c} \subseteq shared'.admitted
      /\ shared'.admitted \subseteq (shared.admitted \ {c}) \cup Queued(shared)
      /\ Queued(shared') \subseteq Queued(shared)
      /\ \/ shared'.admitted \subseteq shared.admitted
         \/ Cardinality(shared'.admitted) <= shared'.limit
  BY <1>1, <1>2, ReleaseKeeps
<1>5. /\ SemOK(t) /\ t.admitted \subseteq (own[r].admitted \ {c}) \cup Queued(own[r])
      /\ Queued(t) \subseteq Queued(own[r])
  BY <1>2, ReleaseKeeps
<1> HIDE DEF t
<1>6. TypeInv'
  BY <1>1, <1>2 DEF AdmissionInv, TypeInv
<1>7. SharedInv'
  BY <1>1, <1>2, <1>3, <1>4, Known DEF AdmissionInv, SharedInv
<1>8. ASSUME NEW q \in Runs PROVE OwnOK(q, own[q])'
  <2>1. OwnOK(q, own[q])
    BY DEF AdmissionInv
  <2>2. CASE q = r
    <3>1. own'[q] = t
      BY <1>1, <1>2, <2>2
    <3> QED
      BY <1>1, <1>2, <1>3, <1>5, <2>1, <2>2, <3>1, Known DEF OwnOK, Waiting
  <2>3. CASE q # r
    <3>1. own'[q] = own[q]
      BY <1>1, <1>2, <2>3
    <3> QED
      BY <1>1, <1>2, <1>3, <2>1, <2>3, <3>1, Known DEF OwnOK, Waiting
  <2> QED
    BY <2>2, <2>3
<1>9. LeaseInv'
  BY <1>1, <1>2, <1>4 DEF AdmissionInv, LeaseInv, Waiting
<1>10. HostStep
  <2>1. members' # {} /\ pooled' /\ shared'.ceiling = PoolCeiling(members')
    BY <1>1, <1>9, Known DEF LeaseInv
  <2> QED
    BY <1>4, <2>1, WithinLimit DEF HostStep
<1> QED
  BY <1>6, <1>7, <1>8, <1>9, <1>10 DEF AdmissionInv

LEMMA StartRunStep ==
  ASSUME AdmissionAssumption, AdmissionInv, NEW r \in Runs, StartRun(r)
  PROVE  AdmissionInv' /\ HostStep
<1> DEFINE limit == Min({Ceiling[r], OwnLimit[r]})
           t == NewSemaphore(limit)
<1>1. /\ run[r] = "idle" /\ run' = [run EXCEPT ![r] = "running"]
      /\ own' = [own EXCEPT ![r] = t] /\ phase' = phase
      /\ \E expired \in BOOLEAN : TakeLease(r, expired)
  BY DEF StartRun
<1>2. limit \in Nat \ {0}
  <2>1. {Ceiling[r], OwnLimit[r]} \in SUBSET Nat /\ {Ceiling[r], OwnLimit[r]} # {}
        /\ 0 \notin {Ceiling[r], OwnLimit[r]}
    BY DEF AdmissionAssumption
  <2>2. limit \in {Ceiling[r], OwnLimit[r]}
    BY <2>1, LeastOf
  <2> QED
    BY <2>1, <2>2
<1>3. SemOK(t) /\ t.admitted = {} /\ Queued(t) = {}
  BY <1>2, NewKeeps
<1> HIDE DEF t, limit
<1>4. /\ members' = members \cup {r} /\ pooled' = TRUE
      /\ SemOK(shared') /\ Admitted(shared, shared')
      /\ shared'.ceiling = PoolCeiling(members')
  BY <1>1, TakeLeaseKeeps
<1>5. DOMAIN own = Runs /\ run \in [Runs -> {"idle", "running", "closing"}]
  BY DEF AdmissionInv, TypeInv
<1>6. TypeInv'
  BY <1>1, <1>4, <1>5 DEF AdmissionInv, TypeInv
<1>7. SharedInv'
  BY <1>1, <1>4 DEF AdmissionInv, SharedInv, Admitted
<1>8. ASSUME NEW q \in Runs PROVE OwnOK(q, own[q])'
  <2>1. OwnOK(q, own[q])
    BY DEF AdmissionInv
  <2>2. own'[q] = IF q = r THEN t ELSE own[q]
    BY <1>1, <1>5
  <2> QED
    BY <1>1, <1>3, <2>1, <2>2 DEF OwnOK
<1>9. LeaseInv'
  BY <1>1, <1>4, <1>5, Known DEF AdmissionInv, LeaseInv
<1>10. HostStep
  BY <1>4, WithinLimit DEF HostStep, Admitted
<1> QED
  BY <1>6, <1>7, <1>8, <1>9, <1>10 DEF AdmissionInv

LEMMA HangStep ==
  ASSUME AdmissionAssumption, AdmissionInv, NEW c \in Calls, Hang(c)
  PROVE  AdmissionInv' /\ HostStep
<1> DEFINE r == RunOf[c]
           t == Release(own[r], c)
<1>1. /\ phase[c] = "run" /\ phase' = [phase EXCEPT ![c] = "hung"]
      /\ TakeLease(c, FALSE) /\ own' = [own EXCEPT ![r] = t] /\ run' = run
  BY DEF Hang
<1>2. /\ r \in Runs /\ SemOK(own[r]) /\ DOMAIN own = Runs
      /\ phase \in [Calls -> {"idle", "own", "shared", "run", "hung"}]
  BY Known DEF AdmissionInv, OwnOK, TypeInv
<1>3. /\ members' = members \cup {c} /\ pooled' = TRUE
      /\ SemOK(shared') /\ Admitted(shared, shared')
      /\ shared'.ceiling = PoolCeiling(members')
  BY <1>1, TakeLeaseKeeps
<1>4. /\ SemOK(t) /\ t.admitted \subseteq (own[r].admitted \ {c}) \cup Queued(own[r])
      /\ Queued(t) \subseteq Queued(own[r])
  BY <1>2, ReleaseKeeps
<1> HIDE DEF t
<1>5. c \in shared.admitted /\ c \notin Queued(shared)
      /\ \A q \in Runs : c \notin Queued(own[q])
  BY <1>1, Known DEF AdmissionInv, SharedInv, OwnOK
<1>6. TypeInv'
  BY <1>1, <1>2, <1>3 DEF AdmissionInv, TypeInv
<1>7. SharedInv'
  BY <1>1, <1>2, <1>3, <1>5, Known DEF AdmissionInv, SharedInv, Admitted
<1>8. ASSUME NEW q \in Runs PROVE OwnOK(q, own[q])'
  <2>1. OwnOK(q, own[q])
    BY DEF AdmissionInv
  <2>2. CASE q = r
    <3>1. own'[q] = t
      BY <1>1, <1>2, <2>2
    <3> QED
      BY <1>1, <1>2, <1>4, <1>5, <2>1, <2>2, <3>1, Known DEF OwnOK, Waiting
  <2>3. CASE q # r
    <3>1. own'[q] = own[q]
      BY <1>1, <1>2, <2>3
    <3> QED
      BY <1>1, <1>2, <1>5, <2>1, <2>3, <3>1, Known DEF OwnOK, Waiting
  <2> QED
    BY <2>2, <2>3
<1>9. LeaseInv'
  BY <1>1, <1>2, <1>3 DEF AdmissionInv, LeaseInv, Waiting
<1>10. HostStep
  BY <1>3, WithinLimit DEF HostStep, Admitted
<1> QED
  BY <1>6, <1>7, <1>8, <1>9, <1>10 DEF AdmissionInv

LEMMA RunnerSettlesStep ==
  ASSUME AdmissionAssumption, AdmissionInv, NEW c \in Calls, RunnerSettles(c)
  PROVE  AdmissionInv' /\ HostStep
<1> DEFINE s == Release(shared, c)
<1>1. /\ phase[c] = "hung" /\ phase' = [phase EXCEPT ![c] = "idle"]
      /\ DropLease(s, c) /\ UNCHANGED <<run, own>>
  BY DEF RunnerSettles
<1>2. /\ SemOK(shared) /\ c \in members /\ c \notin Runs
      /\ phase \in [Calls -> {"idle", "own", "shared", "run", "hung"}]
      /\ shared.ceiling = PoolCeiling(members)
      /\ members \in SUBSET (Runs \cup Calls)
  BY <1>1 DEF AdmissionInv, SharedInv, LeaseInv, TypeInv, AdmissionAssumption
<1>3. /\ SemOK(s) /\ s.ceiling = shared.ceiling
      /\ shared.admitted \ {c} \subseteq s.admitted
      /\ s.admitted \subseteq (shared.admitted \ {c}) \cup Queued(shared)
      /\ Queued(s) \subseteq Queued(shared)
      /\ s.admitted \subseteq shared.admitted \/ Cardinality(s.admitted) <= s.limit
  BY <1>2, ReleaseKeeps
<1>4. members \ {c} = {} => Queued(shared) = {}
  <2>1. \A d \in Queued(shared) : d \in Calls /\ RunOf[d] \in Runs /\ RunOf[d] \in members
    BY Known DEF AdmissionInv, SharedInv, LeaseInv, Waiting
  <2> QED
    BY <1>2, <2>1
<1>5. c \notin Queued(shared) /\ \A q \in Runs : c \notin Queued(own[q]) /\ c \notin own[q].admitted
  BY <1>1, Known DEF AdmissionInv, SharedInv, OwnOK, Waiting
<1> HIDE DEF s
<1>6. /\ members' = members \ {c} /\ pooled' \in BOOLEAN /\ SemOK(shared')
      /\ s.admitted \subseteq shared'.admitted
      /\ shared'.admitted \subseteq s.admitted \cup Queued(s)
      /\ Queued(shared') \subseteq Queued(s)
      /\ members' # {} => pooled' /\ shared'.ceiling = PoolCeiling(members')
      /\ \/ shared'.admitted = s.admitted
         \/ Cardinality(shared'.admitted) <= PoolCeiling(members')
  <2>1. members \ {c} = {} => Queued(s) = {}
    BY <1>3, <1>4
  <2> QED
    BY <1>1, <1>2, <1>3, <2>1, DropLeaseKeeps
<1>7. TypeInv'
  BY <1>1, <1>2, <1>6 DEF AdmissionInv, TypeInv
<1>8. SharedInv'
  BY <1>1, <1>2, <1>3, <1>5, <1>6, Known DEF AdmissionInv, SharedInv
<1>9. \A q \in Runs : OwnOK(q, own[q])'
  BY <1>1, <1>2, <1>5, Known DEF AdmissionInv, OwnOK, Waiting
<1>10. LeaseInv'
  BY <1>1, <1>2, <1>6 DEF AdmissionInv, LeaseInv, Waiting
<1>11. HostStep
  <2>1. CASE s.admitted \subseteq shared.admitted
    BY <1>6, <2>1 DEF HostStep
  <2>2. CASE Cardinality(s.admitted) <= s.limit /\ members' # {}
    <3>1. Cardinality(s.admitted) <= PoolCeiling(members)
      BY <1>2, <1>3, <2>2, WithinLimit
    <3>2. PoolCeiling(members) <= PoolCeiling(members')
      BY <1>2, <1>6, <2>2, PoolCeilingGrows
    <3>3. PoolCeiling(members) \in Nat /\ PoolCeiling(members') \in Nat
      BY <1>2, <1>6, <2>2, PoolCeilingOf
    <3>4. Cardinality(s.admitted) \in Nat
      BY <1>3 DEF SemOK, SemShape, SemType
    <3>5. Cardinality(s.admitted) <= PoolCeiling(members')
      BY <3>1, <3>2, <3>3, <3>4
    <3> QED
      BY <1>6, <3>5 DEF HostStep
  <2>3. CASE members' = {}
    BY <1>3, <1>4, <1>6, <2>3 DEF HostStep
  <2> QED
    BY <1>3, <2>1, <2>2, <2>3
<1> QED
  BY <1>7, <1>8, <1>9, <1>10, <1>11 DEF AdmissionInv

LEMMA AbortRunStep ==
  ASSUME AdmissionAssumption, AdmissionInv, NEW r \in Runs, AbortRun(r)
  PROVE  AdmissionInv' /\ HostStep
<1> DEFINE waiting == {c \in CallsOf(r) : \/ c \in Range(own[r].waiters)
                                          \/ c \in Range(shared.waiters)}
           held == waiting \cap own[r].admitted
           u == Leave(own[r], waiting)
           t == GiveUp(u, held)
<1>1. /\ run[r] = "running" /\ run' = [run EXCEPT ![r] = "closing"]
      /\ phase' = [c \in Calls |-> IF c \in waiting THEN "idle" ELSE phase[c]]
      /\ own' = [own EXCEPT ![r] = t]
      /\ shared' = Leave(shared, waiting) /\ UNCHANGED <<pooled, members>>
  BY DEF AbortRun
<1>2. /\ SemOK(shared) /\ OwnOK(r, own[r]) /\ SemOK(own[r]) /\ DOMAIN own = Runs
      /\ run \in [Runs -> {"idle", "running", "closing"}]
      /\ phase \in [Calls -> {"idle", "own", "shared", "run", "hung"}]
  BY DEF AdmissionInv, SharedInv, OwnOK, TypeInv
<1>3. waiting \in SUBSET Calls /\ held \in SUBSET own[r].admitted
  BY DEF CallsOf
<1>w. \A c : c \in waiting <=> /\ c \in Calls /\ RunOf[c] = r
                               /\ c \in Queued(own[r]) \/ c \in Queued(shared)
  BY DEF CallsOf, Queued
<1>4. /\ SemOK(shared') /\ shared'.ceiling = shared.ceiling
      /\ shared'.admitted = shared.admitted
      /\ Queued(shared') = Queued(shared) \ waiting
  BY <1>1, <1>2, LeaveKeeps
<1>5. SemOK(t) /\ t.admitted = own[r].admitted \ held /\ Queued(t) = {}
  <2>1. SemOK(u) /\ u.admitted = own[r].admitted /\ Queued(u) = Queued(own[r]) \ waiting
    BY <1>2, LeaveKeeps
  <2>2. Queued(u) = {}
    BY <1>2, <1>w, <2>1, Known DEF OwnOK
  <2> HIDE DEF u
  <2>3. held \in SUBSET u.admitted
    BY <1>3, <2>1
  <2> HIDE DEF held
  <2> QED
    BY <2>1, <2>2, <2>3, GiveUpKeeps
<1>6. \A c \in waiting : /\ RunOf[c] = r /\ phase[c] \in {"own", "shared"}
                         /\ c \notin shared.admitted
                         /\ c \in own[r].admitted => c \in held
  BY <1>2, <1>w, Known DEF AdmissionInv, SharedInv, OwnOK
<1> HIDE DEF waiting, held, t
<1>7. TypeInv'
  BY <1>1, <1>2, <1>3 DEF AdmissionInv, TypeInv
<1>8. SharedInv'
  BY <1>1, <1>2, <1>3, <1>4, <1>6, <1>w, Known DEF AdmissionInv, SharedInv
<1>9. ASSUME NEW q \in Runs PROVE OwnOK(q, own[q])'
  <2>1. OwnOK(q, own[q])
    BY DEF AdmissionInv
  <2>2. CASE q = r
    <3>1. own'[q] = t
      BY <1>1, <1>2, <2>2
    <3> QED
      BY <1>1, <1>2, <1>5, <1>6, <2>1, <2>2, <3>1, Known DEF OwnOK
  <2>3. CASE q # r
    <3>1. own'[q] = own[q]
      BY <1>1, <1>2, <2>3
    <3> QED
      BY <1>1, <1>2, <1>6, <2>1, <2>3, <3>1, Known DEF OwnOK
  <2> QED
    BY <2>2, <2>3
<1>10. LeaseInv'
  BY <1>1, <1>2, <1>4, Known DEF AdmissionInv, LeaseInv, Waiting
<1>11. HostStep
  BY <1>4 DEF HostStep
<1> QED
  BY <1>7, <1>8, <1>9, <1>10, <1>11 DEF AdmissionInv

LEMMA EndRunStep ==
  ASSUME AdmissionAssumption, AdmissionInv, NEW r \in Runs, EndRun(r)
  PROVE  AdmissionInv' /\ HostStep
<1> DEFINE t == Dispose(own[r])
<1>1. /\ run[r] # "idle" /\ Busy(r) = {} /\ run' = [run EXCEPT ![r] = "idle"]
      /\ own' = [own EXCEPT ![r] = t] /\ DropLease(shared, r) /\ phase' = phase
  BY DEF EndRun
<1>2. /\ SemOK(shared) /\ OwnOK(r, own[r]) /\ DOMAIN own = Runs
      /\ run \in [Runs -> {"idle", "running", "closing"}]
      /\ phase \in [Calls -> {"idle", "own", "shared", "run", "hung"}]
      /\ r \in members /\ r \notin Calls /\ members \in SUBSET (Runs \cup Calls)
  BY <1>1 DEF AdmissionInv, SharedInv, OwnOK, LeaseInv, TypeInv, AdmissionAssumption
<1>3. \A c \in Calls : phase[c] \in Waiting => RunOf[c] # r
  BY <1>1 DEF Busy, CallsOf, Waiting
<1>4. Queued(own[r]) = {}
  BY <1>2, <1>3, Known DEF OwnOK, Waiting
<1>5. SemOK(t) /\ t.admitted = own[r].admitted /\ Queued(t) = {}
  BY <1>2, <1>4, ParkKeeps DEF OwnOK
<1> HIDE DEF t
<1>6. members \ {r} = {} => Queued(shared) = {}
  <2>1. \A d \in Queued(shared) : RunOf[d] # r /\ RunOf[d] \in members
    BY <1>3, Known DEF AdmissionInv, SharedInv, LeaseInv, Waiting
  <2> QED
    BY <2>1
<1>7. /\ members' = members \ {r} /\ pooled' \in BOOLEAN /\ SemOK(shared')
      /\ shared.admitted \subseteq shared'.admitted
      /\ shared'.admitted \subseteq shared.admitted \cup Queued(shared)
      /\ Queued(shared') \subseteq Queued(shared)
      /\ members' # {} => pooled' /\ shared'.ceiling = PoolCeiling(members')
      /\ \/ shared'.admitted = shared.admitted
         \/ Cardinality(shared'.admitted) <= PoolCeiling(members')
  BY <1>1, <1>2, <1>6, DropLeaseKeeps
<1>8. TypeInv'
  BY <1>1, <1>2, <1>7 DEF AdmissionInv, TypeInv
<1>9. SharedInv'
  BY <1>1, <1>7 DEF AdmissionInv, SharedInv
<1>10. ASSUME NEW q \in Runs PROVE OwnOK(q, own[q])'
  <2>1. OwnOK(q, own[q])
    BY DEF AdmissionInv
  <2>2. own'[q] = IF q = r THEN t ELSE own[q]
    BY <1>1, <1>2
  <2> QED
    BY <1>1, <1>5, <2>1, <2>2 DEF OwnOK
<1>11. LeaseInv'
  BY <1>1, <1>2, <1>3, <1>7, Known DEF AdmissionInv, LeaseInv
<1>12. HostStep
  BY <1>7 DEF HostStep
<1> QED
  BY <1>8, <1>9, <1>10, <1>11, <1>12 DEF AdmissionInv

-----------------------------------------------------------------------------
(* The theorems *)

LEMMA AdmissionInit ==
  ASSUME AdmissionAssumption, Init
  PROVE  AdmissionInv
<1>1. SemOK(shared) /\ shared.admitted = {} /\ Queued(shared) = {}
  BY NewKeeps DEF Init
<1>2. ASSUME NEW r \in Runs PROVE OwnOK(r, own[r])
  <2>1. own[r] = NewSemaphore(OwnLimit[r]) /\ OwnLimit[r] \in Nat \ {0}
    BY DEF Init, AdmissionAssumption
  <2>2. SemOK(own[r]) /\ own[r].admitted = {} /\ Queued(own[r]) = {}
    BY <2>1, NewKeeps
  <2> QED
    BY <2>2 DEF OwnOK
<1>3. TypeInv
  BY DEF Init, TypeInv
<1>4. SharedInv
  BY <1>1 DEF Init, SharedInv
<1>5. LeaseInv
  BY DEF Init, LeaseInv, Waiting, AdmissionAssumption
<1> QED
  BY <1>2, <1>3, <1>4, <1>5 DEF AdmissionInv

LEMMA AdmissionStep ==
  ASSUME AdmissionAssumption, AdmissionInv, [Next]_vars
  PROVE  AdmissionInv' /\ HostStep
<1>1. ASSUME NEW c \in Calls, CallStep(c) PROVE AdmissionInv' /\ HostStep
  <2>1. CASE StartCall(c)
    BY <2>1, StartCallStep
  <2>2. CASE AcquireShared(c)
    BY <2>2, AcquireSharedStep
  <2>3. CASE StartRunner(c)
    BY <2>3, StartRunnerStep
  <2>4. CASE RequestStarted(c) \/ RequestSucceeded(c)
               \/ \E delayed \in BOOLEAN : RequestRateLimited(c, delayed)
    BY <2>4, ReportSteps
  <2>5. CASE EndCall(c) \/ EndAborted(c)
    BY <2>5, GiveBackStep
  <2>6. CASE RunnerSettles(c)
    BY <2>6, RunnerSettlesStep
  <2>7. CASE Hang(c)
    BY <2>7, HangStep
  <2> QED
    BY <1>1, <2>1, <2>2, <2>3, <2>4, <2>5, <2>6, <2>7 DEF CallStep, EndsCall
<1>2. ASSUME NEW r \in Runs, StartRun(r) \/ AbortRun(r) \/ EndRun(r) \/ OwnClock(r)
      PROVE  AdmissionInv' /\ HostStep
  BY <1>2, StartRunStep, AbortRunStep, EndRunStep, ClockSteps
<1>3. CASE SharedClock
  BY <1>3, ClockSteps
<1>4. CASE UNCHANGED vars
  <2>1. TypeInv' /\ SharedInv' /\ LeaseInv'
    BY <1>4 DEF vars, AdmissionInv, TypeInv, SharedInv, LeaseInv
  <2>2. \A r \in Runs : OwnOK(r, own[r])'
    BY <1>4 DEF vars, AdmissionInv, OwnOK
  <2> QED
    BY <1>4, <2>1, <2>2 DEF vars, AdmissionInv, HostStep
<1> QED
  BY <1>1, <1>2, <1>3, <1>4 DEF Next

LEMMA AdmissionHolds ==
  ASSUME AdmissionAssumption
  PROVE  Spec => []AdmissionInv /\ [][HostStep]_vars
<1>1. Init => AdmissionInv
  BY AdmissionInit
<1>2. AdmissionInv /\ [Next]_vars => AdmissionInv' /\ HostStep
  BY AdmissionStep
<1> QED
  BY <1>1, <1>2, PTL DEF Spec

\* No path out of a call leaks a slot or gives one back twice: at every moment
\* the calls that count as active are those that still use their slot.
THEOREM SlotsAccountedHolds == Spec => []SlotsAccounted
<1>1. AdmissionInv => SlotsAccounted
  BY DEF AdmissionInv, SharedInv, OwnOK, SemOK, SemShape, SlotsAccounted, Waiting
<1> QED
  BY <1>1, AdmissionAssumption, AdmissionHolds, PTL

\* No interleaving of 429s, aborts, ceilings and releases leaves a call waiting
\* beside a free slot with no timer to hand it out.
THEOREM NoLostWakeupHolds == Spec => []NoLostWakeup
<1>1. AdmissionInv => NoLostWakeup
  BY DEF AdmissionInv, SharedInv, OwnOK, SemOK, NoLostWakeup
<1> QED
  BY <1>1, AdmissionAssumption, AdmissionHolds, PTL

\* Whatever runs and hung runners come and go, and however often the pool is
\* replaced, nobody is admitted beyond the smallest ceiling attached.
THEOREM HostCeilingHolds == Spec => HostCeiling
<1>1. AdmissionInv => Using = shared.admitted
  <2> SUFFICES ASSUME AdmissionInv PROVE Using = shared.admitted
    OBVIOUS
  <2> QED
    BY DEF AdmissionInv, SharedInv, Using
<1>2. AdmissionInv /\ AdmissionInv' /\ HostStep =>
        Using' \subseteq Using \/ Cardinality(Using') =< PoolCeiling(members')
  <2>1. AdmissionInv' => Using' = shared'.admitted
    BY DEF AdmissionInv, SharedInv, Using
  <2> QED
    BY <1>1, <2>1 DEF HostStep
<1>3. AdmissionInv /\ AdmissionInv' /\ [HostStep]_vars =>
        [Using' \subseteq Using \/ Cardinality(Using') =< PoolCeiling(members')]_vars
  BY <1>2
<1> QED
  BY <1>3, AdmissionAssumption, AdmissionHolds, PTL DEF HostCeiling

=============================================================================
