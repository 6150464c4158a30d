------------------------ MODULE ProcessListsProofs --------------------------
(***************************************************************************)
(* Facts about the lists of processes, for lists of any length.            *)
(***************************************************************************)
EXTENDS ProcessLists, SequencesExt, FiniteSetTheorems, SequenceTheorems, TLAPS

\* The positions up to and including i, whose number is the rank of i.
UpTo(positions, i) == {j \in positions : j <= i}

\* Ranking the positions is a bijection onto 1..n, so that every k in 1..n is
\* the rank of exactly one position.
LEMMA RankIsBijection ==
    ASSUME NEW positions \in SUBSET Nat, IsFiniteSet(positions)
    PROVE  [i \in positions |-> Cardinality(UpTo(positions, i))]
             \in Bijection(positions, 1..Cardinality(positions))
<1> DEFINE n == Cardinality(positions)
           rank == [i \in positions |-> Cardinality(UpTo(positions, i))]
<1>1. n \in Nat
  BY FS_CardinalityType
<1>2. ASSUME NEW i \in positions
      PROVE  /\ IsFiniteSet(UpTo(positions, i))
             /\ rank[i] \in 1..n
  <2>1. UpTo(positions, i) \in SUBSET positions /\ i \in UpTo(positions, i)
    BY DEF UpTo
  <2>2. IsFiniteSet(UpTo(positions, i)) /\ Cardinality(UpTo(positions, i)) <= n
    BY <2>1, FS_Subset
  <2>3. Cardinality(UpTo(positions, i)) \in Nat /\ Cardinality(UpTo(positions, i)) # 0
    BY <2>1, <2>2, FS_CardinalityType, FS_EmptySet
  <2> QED BY <1>1, <2>2, <2>3
<1>3. ASSUME NEW i \in positions, NEW j \in positions, i < j
      PROVE  rank[i] # rank[j]
  <2>0. \A k \in positions : k \in Nat
    OBVIOUS
  <2>1. UpTo(positions, i) \in SUBSET UpTo(positions, j)
    <3> SUFFICES ASSUME NEW k \in positions, k <= i
                 PROVE  k <= j
      BY DEF UpTo
    <3>1. k \in Nat /\ i \in Nat /\ j \in Nat
      BY <2>0
    <3> QED BY <1>3, <3>1
  <2>2. j \in UpTo(positions, j) /\ j \notin UpTo(positions, i)
    BY <1>3 DEF UpTo
  <2> QED BY <1>2, <2>1, <2>2, FS_Subset
<1>4. rank \in [positions -> 1..n]
  BY <1>2
<1>5. rank \in Injection(positions, 1..n)
  <2> SUFFICES ASSUME NEW i \in positions, NEW j \in positions, rank[i] = rank[j]
               PROVE  i = j
    BY <1>4 DEF Injection, IsInjective
  <2>1. i \in Nat /\ j \in Nat /\ ~(i < j) /\ ~(j < i)
    BY <1>3
  <2> QED BY <2>1
<1>6. IsFiniteSet(1..n) /\ Cardinality(1..n) = n
  BY <1>1, FS_Interval
<1>7. rank \in Surjection(positions, 1..n)
  BY <1>5, <1>6, FS_Injection
<1> QED BY <1>5, <1>7 DEF Bijection

\* Kth finds a position for every rank, and every position is found, once.
LEMMA KthIsPosition ==
    ASSUME NEW positions \in SUBSET Nat, IsFiniteSet(positions)
    PROVE  /\ \A k \in 1..Cardinality(positions) : Kth(positions, k) \in positions
           /\ \A i \in positions : \E k \in 1..Cardinality(positions) :
                Kth(positions, k) = i
           /\ \A k, l \in 1..Cardinality(positions) :
                Kth(positions, k) = Kth(positions, l) => k = l
<1> DEFINE n == Cardinality(positions)
           rank == [i \in positions |-> Cardinality(UpTo(positions, i))]
<1>1. rank \in Bijection(positions, 1..n)
  BY RankIsBijection
<1>2. ASSUME NEW k \in 1..n
      PROVE  /\ Kth(positions, k) \in positions
             /\ rank[Kth(positions, k)] = k
  <2>1. \E i \in positions : Cardinality(UpTo(positions, i)) = k
    BY <1>1 DEF Bijection, Surjection
  <2>2. Kth(positions, k) = CHOOSE i \in positions : Cardinality(UpTo(positions, i)) = k
    BY DEF Kth, UpTo
  <2> QED BY <2>1, <2>2
<1>3. ASSUME NEW i \in positions
      PROVE  \E k \in 1..n : Kth(positions, k) = i
  <2>1. rank[i] \in 1..n
    BY <1>1 DEF Bijection, Injection
  <2>2. rank[Kth(positions, rank[i])] = rank[i] /\ Kth(positions, rank[i]) \in positions
    BY <1>2, <2>1
  <2>3. Kth(positions, rank[i]) = i
    BY <1>1, <2>2 DEF Bijection, Injection, IsInjective
  <2> QED BY <2>1, <2>3
<1> QED BY <1>2, <1>3

\* The k-th position grows with k.
LEMMA KthGrows ==
    ASSUME NEW positions \in SUBSET Nat, IsFiniteSet(positions),
           NEW k \in 1..Cardinality(positions), NEW l \in 1..Cardinality(positions), k < l
    PROVE  Kth(positions, k) < Kth(positions, l)
<1>1. Kth(positions, k) \in positions /\ Kth(positions, l) \in positions
  BY KthIsPosition
<1>2. /\ Cardinality(UpTo(positions, Kth(positions, k))) = k
      /\ Cardinality(UpTo(positions, Kth(positions, l))) = l
  <2>1. \A m \in 1..Cardinality(positions) :
          \E i \in positions : Cardinality({j \in positions : j <= i}) = m
    <3>1. \A m \in 1..Cardinality(positions) :
          \E i \in positions : Cardinality(UpTo(positions, i)) = m
      BY RankIsBijection DEF Bijection, Surjection
    <3> QED BY <3>1 DEF UpTo
  <2> QED BY <2>1 DEF Kth, UpTo
<1>3. ASSUME NEW i \in positions, NEW j \in positions, i >= j,
             Cardinality(UpTo(positions, i)) = k, Cardinality(UpTo(positions, j)) = l
      PROVE  FALSE
  <2>1. \A m \in positions : m \in Nat
    OBVIOUS
  <2>2. UpTo(positions, j) \subseteq UpTo(positions, i)
    <3>1. i \in Nat /\ j \in Nat
      BY <2>1
    <3>2. ASSUME NEW m \in positions, m <= j
          PROVE  m <= i
      BY <1>3, <2>1, <3>1, <3>2
    <3> QED BY <3>2 DEF UpTo
  <2>3. IsFiniteSet(UpTo(positions, i))
    BY FS_Subset DEF UpTo
  <2>4. l <= k
    BY <1>3, <2>2, <2>3, FS_Subset
  <2>5. Cardinality(positions) \in Nat
    BY FS_CardinalityType
  <2> QED BY <2>4, <2>5
<1>4. Kth(positions, k) \in Nat /\ Kth(positions, l) \in Nat
  BY <1>1
<1>5. ~(Kth(positions, k) >= Kth(positions, l))
  <2> DEFINE i == Kth(positions, k)
             j == Kth(positions, l)
  <2>1. i \in positions /\ j \in positions
    BY <1>1
  <2>2. Cardinality(UpTo(positions, i)) = k /\ Cardinality(UpTo(positions, j)) = l
    BY <1>2
  <2> HIDE DEF i, j
  <2>3. ~(i >= j)
    BY <1>3, <2>1, <2>2
  <2> QED BY <2>3 DEF i, j
<1> QED BY <1>4, <1>5

\* remove_not_present() leaves a list of present processes, no longer than it
\* was, with every present process it held.
LEMMA SurvivorsProperties ==
    ASSUME NEW S, NEW list \in Seq(S), NEW present
    PROVE  /\ Survivors(list, present) \in Seq(S \cap present)
           /\ Len(Survivors(list, present)) <= Len(list)
           /\ \A i \in DOMAIN list : list[i] \in present =>
                \E k \in DOMAIN Survivors(list, present) :
                    Survivors(list, present)[k] = list[i]
<1> DEFINE kept == {i \in DOMAIN list : list[i] \in present}
           n == Cardinality(kept)
           result == Survivors(list, present)
<1>1. /\ DOMAIN list = 1..Len(list) /\ Len(list) \in Nat
      /\ \A i \in DOMAIN list : list[i] \in S
  BY LenProperties, ElementOfSeq
<1>2. IsFiniteSet(1..Len(list)) /\ Cardinality(1..Len(list)) = Len(list)
  BY <1>1, FS_Interval
<1>3. IsFiniteSet(kept) /\ n <= Len(list) /\ kept \in SUBSET Nat
  BY <1>1, <1>2, FS_Subset
<1>4. n \in Nat
  BY <1>3, FS_CardinalityType
<1>5. result = [k \in 1..n |-> list[Kth(kept, k)]]
  BY DEF Survivors, Select
<1>6. /\ \A k \in 1..n : Kth(kept, k) \in kept
      /\ \A i \in kept : \E k \in 1..n : Kth(kept, k) = i
  BY <1>3, KthIsPosition
<1>7. result \in [1..n -> S \cap present]
  BY <1>1, <1>5, <1>6
<1>8. result \in Seq(S \cap present) /\ Len(result) = n
  <2> HIDE DEF n, result
  <2>1. result \in Seq(S \cap present)
    BY <1>4, <1>7, SeqDef
  <2>2. Len(result) \in Nat /\ 1..Len(result) = 1..n
    BY <1>7, <2>1, LenProperties
  <2> QED BY <1>4, <2>1, <2>2
<1>9. \A i \in DOMAIN list : list[i] \in present => \E k \in DOMAIN result : result[k] = list[i]
  BY <1>5, <1>6, <1>7
<1> QED BY <1>3, <1>8, <1>9

\* add_to_list() of any processes leaves a list of the present ones among them
\* behind the list it was given.
LEMMA AddToListType ==
    ASSUME NEW S, NEW list \in Seq(S), NEW T, NEW added \in Seq(T), NEW present
    PROVE  AddToList(list, added, present) \in Seq(S \cup (T \cap present))
<1>1. Survivors(added, present) \in Seq(T \cap present)
  BY SurvivorsProperties
<1>2. /\ list \in Seq(S \cup (T \cap present))
      /\ Survivors(added, present) \in Seq(S \cup (T \cap present))
  BY <1>1, SeqMonotonic
<1> QED BY <1>2, ConcatProperties DEF AddToList

-----------------------------------------------------------------------------
(* Induction along the positions of a list.  The property is a set, so     *)
(* that the theorem can be instantiated without a predicate parameter.     *)

LEMMA LeastPosition ==
    ASSUME NEW positions \in SUBSET Nat, IsFiniteSet(positions), positions # {}
    PROVE  \E i \in positions : \A j \in positions : i <= j
<1>1. Cardinality(positions) \in Nat /\ Cardinality(positions) # 0
  BY FS_CardinalityType, FS_EmptySet
<1>2. PICK i \in positions : Cardinality(UpTo(positions, i)) = 1
  <2>1. 1 \in 1..Cardinality(positions)
    BY <1>1
  <2> QED BY <2>1, RankIsBijection DEF Bijection, Surjection
<1>3. IsFiniteSet(UpTo(positions, i))
  BY FS_Subset DEF UpTo
<1>4. PICK only : UpTo(positions, i) = {only}
  BY <1>2, <1>3, FS_Singleton
<1>5. ASSUME NEW j \in positions
      PROVE  i <= j
  <2>1. i \in Nat /\ j \in Nat /\ i \in UpTo(positions, i)
    BY DEF UpTo
  <2>2. CASE j < i
    <3>1. j \in UpTo(positions, i)
      BY <2>1, <2>2 DEF UpTo
    <3> QED BY <1>4, <2>1, <2>2, <3>1
  <2> QED BY <2>1, <2>2
<1> QED BY <1>5

LEMMA PositionInduction ==
    ASSUME NEW n \in Nat, NEW holds,
           0 \in holds,
           \A k \in 0..(n - 1) : k \in holds => k + 1 \in holds
    PROVE  \A k \in 0..n : k \in holds
<1> DEFINE fails == (0..n) \ holds
<1> SUFFICES ASSUME fails # {} PROVE FALSE
  OBVIOUS
<1>1. fails \in SUBSET (0..n) /\ fails \in SUBSET Nat
  OBVIOUS
<1>2. IsFiniteSet(fails)
  <2>1. IsFiniteSet(0..n)
    BY FS_Interval
  <2> HIDE DEF fails
  <2> QED BY <1>1, <2>1, FS_Subset
<1>3. PICK k \in fails : \A j \in fails : k <= j
  <2> HIDE DEF fails
  <2> QED BY <1>1, <1>2, LeastPosition
<1>4. k \in 1..n /\ k - 1 \in 0..(n - 1) /\ k - 1 \notin fails
  BY <1>3
<1> QED BY <1>3, <1>4

\* joined[i] is the concatenation of the first i sequences.
Concatenates(joined, seqs, n) ==
    \A i \in 1..n : joined[i] = IF i = 1 THEN seqs[i] ELSE joined[i - 1] \o seqs[i]

\* The list of the waiters of several semaphores, woken in turn, is built by
\* concatenating one list after the other.
LEMMA FlattenSeqRecursion ==
    ASSUME NEW S, NEW n \in Nat \ {0}, NEW seqs \in [1..n -> Seq(S)]
    PROVE  \E f \in [1..n -> Seq(S)] :
             f[n] = FlattenSeq(seqs) /\ Concatenates(f, seqs, n)
<1> DEFINE Step(f, i) == IF i = 1 THEN seqs[i] ELSE f[i - 1] \o seqs[i]
           Flat(f, k) == f \in [1..k -> Seq(S)] /\ \A i \in 1..k : f[i] = Step(f, i)
           holds == {k \in 0..n : \E f : Flat(f, k)}
<1>1. 0 \in holds
  <2>1. Flat([i \in 1..0 |-> <<>>], 0)
    OBVIOUS
  <2>2. \E f : Flat(f, 0)
    BY <2>1
  <2> HIDE DEF Flat
  <2> QED BY <2>2
<1>2. ASSUME NEW k \in 0..(n - 1), k \in holds
      PROVE  k + 1 \in holds
  <2>1. PICK f : Flat(f, k)
    BY <1>2
  <2> DEFINE last == IF k = 0 THEN seqs[1] ELSE f[k] \o seqs[k + 1]
             g == [i \in 1..(k + 1) |-> IF i = k + 1 THEN last ELSE f[i]]
  <2>2. last \in Seq(S)
    <3>1. CASE k = 0
      BY <3>1
    <3>2. CASE k # 0
      <4>1. f[k] \in Seq(S) /\ seqs[k + 1] \in Seq(S)
        BY <2>1, <3>2
      <4> QED BY <3>2, <4>1, ConcatProperties
    <3> QED BY <3>1, <3>2
  <2>3. g \in [1..(k + 1) -> Seq(S)]
    <3> HIDE DEF last
    <3> QED BY <2>1, <2>2
  <2>4. ASSUME NEW i \in 1..(k + 1)
        PROVE  g[i] = Step(g, i)
    <3>1. CASE i = k + 1
      <4>1. g[i] = last
        BY <3>1
      <4>2. k # 0 => g[k] = f[k]
        OBVIOUS
      <4> QED BY <3>1, <4>1, <4>2
    <3>2. CASE i # k + 1
      <4>1. i \in 1..k
        BY <3>2
      <4>2. f[i] = Step(f, i)
        BY <2>1, <4>1
      <4>3. g[i] = f[i]
        BY <3>2
      <4>4. i # 1 => g[i - 1] = f[i - 1]
        BY <4>1
      <4> QED BY <4>2, <4>3, <4>4
    <3> QED BY <3>1, <3>2
  <2>5. Flat(g, k + 1)
    BY <2>3, <2>4
  <2>6. \E h : Flat(h, k + 1)
    BY <2>5
  <2> HIDE DEF Flat
  <2> QED BY <2>6
<1>3. n \in holds
  <2> HIDE DEF holds
  <2>1. \A k \in 0..n : k \in holds
    BY <1>1, <1>2, PositionInduction
  <2> QED BY <2>1
<1>4. Len(seqs) = n
  OBVIOUS
<1> DEFINE flat == CHOOSE f : f = [i \in 1..n |-> Step(f, i)]
<1>5. flat = [i \in 1..n |-> Step(flat, i)]
  <2>1. PICK f : Flat(f, n)
    BY <1>3
  <2>2. f = [i \in 1..n |-> Step(f, i)]
    BY <2>1
  <2> HIDE DEF Step
  <2> QED BY <2>2
<1>6. FlattenSeq(seqs) = flat[n]
  BY <1>4 DEF FlattenSeq
<1>7. \A i \in 1..n : flat[i] = Step(flat, i)
  <2> HIDE DEF flat, Step
  <2> QED BY <1>5
<1>8. flat \in [1..n -> Seq(S)]
  <2>1. PICK f : Flat(f, n)
    BY <1>3
  <2> DEFINE same == {k \in 0..n : k = 0 \/ flat[k] = f[k]}
  <2>2. ASSUME NEW k \in 0..(n - 1), k \in same
        PROVE  k + 1 \in same
    <3> HIDE DEF flat
    <3>0. k + 1 \in 1..n
      OBVIOUS
    <3>1. flat[k + 1] = Step(flat, k + 1) /\ f[k + 1] = Step(f, k + 1)
      <4>1. \A i \in 1..n : f[i] = Step(f, i)
        BY <2>1
      <4> HIDE DEF Step, Flat
      <4> QED BY <1>7, <3>0, <4>1
    <3>2. flat[k + 1] = f[k + 1]
      <4>1. CASE k = 0
        BY <3>1, <4>1
      <4>2. CASE k # 0
        <5>1. flat[k] = f[k] /\ k + 1 # 1 /\ (k + 1) - 1 = k
          BY <2>2, <4>2
        <5> QED BY <3>1, <5>1
      <4> QED BY <4>1, <4>2
    <3>3. k + 1 \in 0..n
      OBVIOUS
    <3> QED BY <3>2, <3>3, Zenon
  <2>3. \A k \in 1..n : flat[k] = f[k]
    <3>1. 0 \in same
      OBVIOUS
    <3> HIDE DEF same
    <3>2. \A k \in 0..n : k \in same
      BY <2>2, <3>1, PositionInduction
    <3> USE DEF same
    <3> HIDE DEF flat, Flat
    <3> QED BY <3>2
  <2>4. flat = [i \in 1..n |-> Step(flat, i)]
    BY <1>5
  <2> HIDE DEF flat, Step
  <2>5. DOMAIN flat = 1..n
    BY <2>4
  <2>6. \A k \in 1..n : flat[k] \in Seq(S)
    BY <2>1, <2>3
  <2>7. flat = [k \in 1..n |-> flat[k]]
    BY <2>4
  <2> QED BY <2>6, <2>7
<1> HIDE DEF flat
<1> QED BY <1>6, <1>7, <1>8 DEF Step, Concatenates

\* Waking the waiters of several semaphores in turn wakes processes only.
LEMMA FlattenSeqType ==
    ASSUME NEW S, NEW n \in Nat \ {0}, NEW seqs \in [1..n -> Seq(S)]
    PROVE  FlattenSeq(seqs) \in Seq(S)
<1>1. PICK f \in [1..n -> Seq(S)] : f[n] = FlattenSeq(seqs)
  BY FlattenSeqRecursion
<1>2. f[n] \in Seq(S)
  OBVIOUS
<1> QED BY <1>1, <1>2

-----------------------------------------------------------------------------
(* The members of a list, each of them once.                               *)

LEMMA EmptyMembers == Range(<<>>) = {} /\ IsInjective(<<>>)
BY DEF Range, IsInjective

LEMMA SingleMember ==
    ASSUME NEW p
    PROVE  /\ <<p>> \in Seq({p}) /\ Range(<<p>>) = {p}
           /\ IsInjective(<<p>>)
BY DEF Range, IsInjective

LEMMA ConcatMembers ==
    ASSUME NEW S, NEW front \in Seq(S), NEW back \in Seq(S)
    PROVE  /\ front \o back \in Seq(S)
           /\ Range(front \o back) = Range(front) \cup Range(back)
           /\ IsInjective(front) /\ IsInjective(back) /\ Range(front) \cap Range(back) = {}
                => IsInjective(front \o back)
<1> DEFINE m == Len(front)
           n == Len(back)
           list == front \o back
<1>1. /\ m \in Nat /\ n \in Nat /\ DOMAIN front = 1..m /\ DOMAIN back = 1..n
      /\ list \in Seq(S) /\ DOMAIN list = 1..(m + n)
      /\ \A i \in 1..(m + n) : list[i] = IF i <= m THEN front[i] ELSE back[i - m]
  <2>1. list \in Seq(S) /\ Len(list) = m + n
    BY ConcatProperties
  <2>2. DOMAIN list = 1..(m + n)
    BY <2>1, LenProperties
  <2> QED BY <2>1, <2>2, ConcatProperties, LenProperties
<1> HIDE DEF m, n, list
<1>2. ASSUME IsInjective(front), IsInjective(back), Range(front) \cap Range(back) = {},
             NEW i \in 1..(m + n), NEW j \in 1..(m + n), i <= j, list[i] = list[j]
      PROVE  i = j
  <2>1. CASE j <= m
    <3>1. i \in 1..m /\ j \in 1..m /\ list[i] = front[i] /\ list[j] = front[j]
      BY <1>1, <1>2, <2>1
    <3> QED BY <1>1, <1>2, <3>1 DEF IsInjective
  <2>2. CASE i <= m /\ ~(j <= m)
    <3>1. i \in 1..m /\ j - m \in 1..n /\ list[i] = front[i] /\ list[j] = back[j - m]
      BY <1>1, <2>2
    <3>2. front[i] \in Range(front) /\ back[j - m] \in Range(back)
      BY <1>1, <3>1 DEF Range
    <3> QED BY <1>2, <3>1, <3>2
  <2>3. CASE ~(i <= m)
    <3>1. /\ i - m \in 1..n /\ j - m \in 1..n
          /\ list[i] = back[i - m] /\ list[j] = back[j - m]
      BY <1>1, <1>2, <2>3
    <3>2. i - m = j - m
      BY <1>1, <1>2, <3>1 DEF IsInjective
    <3> QED BY <1>1, <3>2
  <2> QED BY <1>1, <2>1, <2>2, <2>3
<1>3. ASSUME IsInjective(front), IsInjective(back), Range(front) \cap Range(back) = {}
      PROVE  IsInjective(list)
  <2> SUFFICES ASSUME NEW i \in 1..(m + n), NEW j \in 1..(m + n), list[i] = list[j]
               PROVE  i = j
    BY <1>1 DEF IsInjective
  <2>1. i <= j \/ j <= i
    BY <1>1
  <2> QED BY <1>2, <1>3, <2>1
<1>4. Range(list) = Range(front) \cup Range(back)
  BY RangeConcatenation DEF list
<1> QED BY <1>1, <1>3, <1>4 DEF list

LEMMA AppendMembers ==
    ASSUME NEW S, NEW list \in Seq(S), NEW p \in S
    PROVE  /\ Append(list, p) \in Seq(S)
           /\ Range(Append(list, p)) = Range(list) \cup {p}
           /\ IsInjective(list) /\ p \notin Range(list) => IsInjective(Append(list, p))
<1> DEFINE new == <<p>>
<1>1. Append(list, p) = list \o new
  BY AppendIsConcat
<1>2. new \in Seq(S) /\ Range(new) = {p} /\ IsInjective(new)
  BY SingleMember
<1>3. p \notin Range(list) => Range(list) \cap {p} = {}
  OBVIOUS
<1> HIDE DEF new
<1> QED BY <1>1, <1>2, <1>3, ConcatMembers

\* remove_not_present() keeps exactly the present members.
LEMMA SurvivorsMembers ==
    ASSUME NEW S, NEW list \in Seq(S), NEW present
    PROVE  /\ Survivors(list, present) \in Seq(S)
           /\ Range(Survivors(list, present)) = Range(list) \cap present
           /\ IsInjective(list) => IsInjective(Survivors(list, present))
<1> DEFINE kept == {i \in DOMAIN list : list[i] \in present}
           n == Cardinality(kept)
           result == Survivors(list, present)
<1>1. DOMAIN list = 1..Len(list) /\ Len(list) \in Nat
  BY LenProperties
<1>2. IsFiniteSet(1..Len(list))
  BY <1>1, FS_Interval
<1>3. IsFiniteSet(kept) /\ kept \in SUBSET Nat
  BY <1>1, <1>2, FS_Subset
<1>4. result = [k \in 1..n |-> list[Kth(kept, k)]]
  BY DEF Survivors, Select
<1>5. /\ \A k \in 1..n : Kth(kept, k) \in kept
      /\ \A i \in kept : \E k \in 1..n : Kth(kept, k) = i
      /\ \A k, l \in 1..n : Kth(kept, k) = Kth(kept, l) => k = l
  BY <1>3, KthIsPosition
<1>6. result \in Seq(S)
  <2>1. Seq(S \cap present) \subseteq Seq(S)
    BY SeqMonotonic
  <2> QED BY <2>1, SurvivorsProperties
<1> HIDE DEF n
<1>7. Range(result) = Range(list) \cap present
  <2>1. \A k \in 1..n : result[k] \in Range(list) \cap present
    BY <1>4, <1>5 DEF Range
  <2>2. \A i \in DOMAIN list : list[i] \in present => \E k \in 1..n : result[k] = list[i]
    BY <1>4, <1>5
  <2>3. DOMAIN result = 1..n
    BY <1>4
  <2> HIDE DEF result, kept
  <2> QED BY <2>1, <2>2, <2>3 DEF Range
<1>8. ASSUME IsInjective(list)
      PROVE  IsInjective(result)
  <2> SUFFICES ASSUME NEW k \in 1..n, NEW l \in 1..n, result[k] = result[l]
               PROVE  k = l
    BY <1>4 DEF IsInjective
  <2>1. list[Kth(kept, k)] = list[Kth(kept, l)]
    BY <1>4
  <2>2. Kth(kept, k) \in DOMAIN list /\ Kth(kept, l) \in DOMAIN list
    BY <1>5
  <2>3. Kth(kept, k) = Kth(kept, l)
    BY <1>8, <2>1, <2>2 DEF IsInjective
  <2> QED BY <1>5, <2>3
<1> QED BY <1>6, <1>7, <1>8

\* add_to_list() adds the present ones.
LEMMA AddToListMembers ==
    ASSUME NEW S, NEW list \in Seq(S), NEW added \in Seq(S), NEW present
    PROVE  /\ AddToList(list, added, present) \in Seq(S)
           /\ Range(AddToList(list, added, present)) = Range(list) \cup (Range(added) \cap present)
           /\ IsInjective(list) /\ IsInjective(added) /\ Range(list) \cap Range(added) = {}
                => IsInjective(AddToList(list, added, present))
<1> DEFINE back == Survivors(added, present)
<1>1. /\ back \in Seq(S) /\ Range(back) = Range(added) \cap present
      /\ IsInjective(added) => IsInjective(back)
  BY SurvivorsMembers
<1>2. AddToList(list, added, present) = list \o back
  BY DEF AddToList
<1> HIDE DEF back
<1>3. Range(list) \cap Range(added) = {} => Range(list) \cap Range(back) = {}
  BY <1>1
<1> QED BY <1>1, <1>2, <1>3, ConcatMembers

\* What is left of a list when its first entries are taken.
LEMMA SuffixMembers ==
    ASSUME NEW S, NEW list \in Seq(S), NEW m \in 0..Len(list)
    PROVE  /\ SubSeq(list, m + 1, Len(list)) \in Seq(S)
           /\ Range(SubSeq(list, m + 1, Len(list))) = {list[i] : i \in (m + 1)..Len(list)}
           /\ IsInjective(list) => IsInjective(SubSeq(list, m + 1, Len(list)))
<1> DEFINE n == Len(list)
           rest == SubSeq(list, m + 1, n)
<1>1. n \in Nat /\ DOMAIN list = 1..n /\ list \in [1..n -> S]
  BY LenProperties
<1>2. /\ rest \in Seq(S)
      /\ Len(rest) = IF m + 1 <= n THEN n - (m + 1) + 1 ELSE 0
      /\ \A i \in 1..(n - (m + 1) + 1) : rest[i] = list[(m + 1) + i - 1]
  <2>1. m + 1 \in Int /\ n \in Int /\ \A i \in (m + 1)..n : list[i] \in S
    BY <1>1
  <2> HIDE DEF n
  <2> QED BY <2>1, SubSeqProperties
<1>3. Len(rest) = n - m /\ \A i \in 1..(n - m) : rest[i] = list[m + i]
  <2>1. m \in Nat /\ m <= n
    BY <1>1
  <2> HIDE DEF n, rest
  <2> QED BY <1>1, <1>2, <2>1
<1>4. DOMAIN rest = 1..(n - m)
  BY <1>2, <1>3, LenProperties
<1> HIDE DEF rest
<1>5. Range(rest) = {list[i] : i \in (m + 1)..n}
  <2>1. \A i \in 1..(n - m) : m + i \in (m + 1)..n
    BY <1>1
  <2>2. \A i \in (m + 1)..n : i - m \in 1..(n - m) /\ m + (i - m) = i
    BY <1>1
  <2>3. \A i \in 1..(n - m) : rest[i] \in {list[j] : j \in (m + 1)..n}
    BY <1>3, <2>1
  <2>4. \A i \in (m + 1)..n : \E j \in 1..(n - m) : rest[j] = list[i]
    BY <1>3, <2>2
  <2> HIDE DEF n
  <2> QED BY <1>4, <2>3, <2>4 DEF Range
<1>6. ASSUME IsInjective(list)
      PROVE  IsInjective(rest)
  <2> SUFFICES ASSUME NEW i \in 1..(n - m), NEW j \in 1..(n - m), rest[i] = rest[j]
               PROVE  i = j
    BY <1>4 DEF IsInjective
  <2>1. m + i \in DOMAIN list /\ m + j \in DOMAIN list
    BY <1>1
  <2>2. m + i = m + j
    BY <1>3, <1>6, <2>1 DEF IsInjective
  <2> QED BY <2>2
<1> QED BY <1>2, <1>5, <1>6 DEF rest

\* The lists of several semaphores in one: no process is in it twice when the
\* lists share none.
LEMMA FlattenSeqMembers ==
    ASSUME NEW S, NEW n \in Nat \ {0}, NEW seqs \in [1..n -> Seq(S)]
    PROVE  /\ FlattenSeq(seqs) \in Seq(S)
           /\ Range(FlattenSeq(seqs)) = UNION {Range(seqs[k]) : k \in 1..n}
           /\ /\ \A k \in 1..n : IsInjective(seqs[k])
              /\ \A k, l \in 1..n : k # l => Range(seqs[k]) \cap Range(seqs[l]) = {}
              => IsInjective(FlattenSeq(seqs))
<1> DEFINE Apart == /\ \A k \in 1..n : IsInjective(seqs[k])
                    /\ \A k, l \in 1..n : k # l => Range(seqs[k]) \cap Range(seqs[l]) = {}
           Upto(k) == UNION {Range(seqs[i]) : i \in 1..k}
<1>1. PICK f \in [1..n -> Seq(S)] :
        f[n] = FlattenSeq(seqs) /\ Concatenates(f, seqs, n)
  BY FlattenSeqRecursion
<1> DEFINE Good(k) == /\ Range(f[k]) = Upto(k)
                      /\ Apart => IsInjective(f[k])
           good == {k \in 0..n : k = 0 \/ Good(k)}
<1>2. ASSUME NEW k \in 0..(n - 1), k \in good
      PROVE  k + 1 \in good
  <2>1. k + 1 \in 1..n /\ k + 1 \in 0..n
    OBVIOUS
  <2>2. CASE k = 0
    <3>1. f[1] = seqs[1]
      BY <1>1, <2>1, <2>2 DEF Concatenates
    <3>2. Upto(1) = Range(seqs[1])
      <4>1. 1..1 = {1}
        OBVIOUS
      <4> QED BY <4>1
    <3>3. Good(1)
      <4> HIDE DEF Upto
      <4> QED BY <2>1, <2>2, <3>1, <3>2
    <3> HIDE DEF Good
    <3> QED BY <2>1, <2>2, <3>3
  <2>3. CASE k # 0
    <3>1. k \in 1..n /\ Good(k)
      <4> HIDE DEF Good
      <4> QED BY <1>2, <2>3
    <3>2. f[k + 1] = f[k] \o seqs[k + 1]
      <4>1. k + 1 # 1 /\ (k + 1) - 1 = k
        BY <2>3
      <4>2. f[k + 1] = IF k + 1 = 1 THEN seqs[k + 1] ELSE f[(k + 1) - 1] \o seqs[k + 1]
        BY <1>1, <2>1, Zenon DEF Concatenates
      <4> QED BY <4>1, <4>2, Zenon
    <3>3. f[k] \in Seq(S) /\ seqs[k + 1] \in Seq(S)
      BY <2>1, <3>1
    <3>4. Upto(k + 1) = Upto(k) \cup Range(seqs[k + 1])
      <4>1. 1..(k + 1) = (1..k) \cup {k + 1}
        OBVIOUS
      <4> QED BY <4>1
    <3>5. Apart => Upto(k) \cap Range(seqs[k + 1]) = {}
      <4> SUFFICES ASSUME Apart, NEW i \in 1..k
                   PROVE  Range(seqs[i]) \cap Range(seqs[k + 1]) = {}
        BY Zenon
      <4>1. i \in 1..n /\ i # k + 1
        <5>1. k \in Nat /\ k + 1 <= n /\ n \in Nat
          BY <2>1
        <5> HIDE DEF Good, good, Apart, Upto
        <5> QED BY <5>1
      <4> QED BY <2>1, <4>1
    <3>6. /\ Range(f[k + 1]) = Range(f[k]) \cup Range(seqs[k + 1])
          /\ IsInjective(f[k]) /\ IsInjective(seqs[k + 1]) /\ Range(f[k]) \cap Range(seqs[k + 1]) = {}
               => IsInjective(f[k + 1])
      BY <3>2, <3>3, ConcatMembers
    <3>7. Apart => IsInjective(seqs[k + 1])
      BY <2>1
    <3>8. Good(k + 1)
      <4> HIDE DEF Apart, Upto
      <4> QED BY <3>1, <3>4, <3>5, <3>6, <3>7
    <3> HIDE DEF Good
    <3> QED BY <2>1, <3>8
  <2> QED BY <2>2, <2>3
<1>3. Good(n)
  <2>1. 0 \in good
    OBVIOUS
  <2> HIDE DEF good
  <2>2. \A k \in 0..n : k \in good
    BY <1>2, <2>1, PositionInduction
  <2> USE DEF good
  <2> HIDE DEF Good
  <2> QED BY <2>2
<1> QED BY <1>1, <1>3

=============================================================================
