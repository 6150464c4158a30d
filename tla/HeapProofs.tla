----------------------------- MODULE HeapProofs ------------------------------
(***************************************************************************)
(* Proofs about Heap: the zones tile the heap, the list of free zones is   *)
(* ordered and coalesced, and malloc() and free() implement Allocator, for *)
(* every size of the heap and of its descriptor and every legal sequence   *)
(* of calls.                                                               *)
(***************************************************************************)
EXTENDS Heap, ProcessListsProofs

-----------------------------------------------------------------------------
(* Multiples, and rounding up to them.                                     *)

Multiple(n, unit) == \E k \in Int : n = k * unit

LEMMA Distributes ==
    ASSUME NEW k \in Int, NEW l \in Int, NEW unit \in Int
    PROVE  (k + l) * unit = k * unit + l * unit /\ (k - l) * unit = k * unit - l * unit
OBVIOUS

LEMMA MultipleSum ==
    ASSUME NEW unit \in Nat, NEW m \in Int, NEW n \in Int, Multiple(m, unit), Multiple(n, unit)
    PROVE  Multiple(m + n, unit) /\ Multiple(m - n, unit)
<1>1. PICK k \in Int : m = k * unit
  BY DEF Multiple
<1>2. PICK l \in Int : n = l * unit
  BY DEF Multiple
<1>3. (k + l) * unit = k * unit + l * unit /\ (k - l) * unit = k * unit - l * unit
  BY Distributes
<1>4. m + n = (k + l) * unit /\ m - n = (k - l) * unit
  BY <1>1, <1>2, <1>3
<1>5. k + l \in Int /\ k - l \in Int
  OBVIOUS
<1> QED BY <1>4, <1>5 DEF Multiple

LEMMA Division ==
    ASSUME NEW unit \in Nat \ {0}, NEW n \in Int
    PROVE  /\ n \div unit \in Int /\ n % unit \in 0..(unit - 1)
           /\ n = (n \div unit) * unit + (n % unit)
<1>1. n \div unit \in Int
  OBVIOUS
<1>2. n % unit \in 0..(unit - 1)
  OBVIOUS
<1>3. n = unit * (n \div unit) + (n % unit)
  OBVIOUS
<1>4. unit * (n \div unit) = (n \div unit) * unit
  BY <1>1
<1> QED BY <1>1, <1>2, <1>3, <1>4

LEMMA MultipleOfMultiple ==
    ASSUME NEW unit \in Nat, NEW step \in Int, NEW n \in Int,
           Multiple(step, unit), Multiple(n, step)
    PROVE  Multiple(n, unit)
<1>1. PICK k \in Int : step = k * unit
  BY DEF Multiple
<1>2. PICK l \in Int : n = l * step
  BY DEF Multiple
<1>3. n = (l * k) * unit /\ l * k \in Int
  BY <1>1, <1>2
<1> QED BY <1>3 DEF Multiple

LEMMA RemainderOfMultiple ==
    ASSUME NEW unit \in Nat \ {0}, NEW n \in Nat
    PROVE  Multiple(n, unit) <=> n % unit = 0
<1>1. n = (n \div unit) * unit + (n % unit) /\ n % unit \in 0..(unit - 1) /\ n \div unit \in Int
  BY Division
<1>2. ASSUME n % unit = 0 PROVE Multiple(n, unit)
  BY <1>1, <1>2 DEF Multiple
<1>3. ASSUME Multiple(n, unit) PROVE n % unit = 0
  <2>1. PICK k \in Int : n = k * unit
    BY <1>3 DEF Multiple
  <2> DEFINE d == k - (n \div unit)
  <2>2. d * unit = n % unit /\ d \in Int
    BY <1>1, <2>1
  <2> HIDE DEF d
  <2>3. d = 0
    <3>1. d >= 1 => d * unit >= unit
      BY <2>2
    <3>2. d <= -1 => d * unit <= -unit
      BY <2>2
    <3> QED BY <1>1, <2>2, <3>1, <3>2
  <2> QED BY <2>2, <2>3
<1> QED BY <1>2, <1>3

LEMMA Monotone ==
    ASSUME NEW unit \in Nat \ {0}, NEW k \in Int, NEW l \in Int
    PROVE  k * unit < l * unit => k + 1 <= l
<1> SUFFICES ASSUME l <= k PROVE l * unit <= k * unit
  <2>1. k * unit \in Int /\ l * unit \in Int
    OBVIOUS
  <2> QED BY <2>1
<1> DEFINE d == k - l
<1>1. d * unit = k * unit - l * unit /\ d \in Nat
  BY Distributes
<1>2. d * unit >= 0
  <2> HIDE DEF d
  <2> QED BY <1>1
<1>3. k * unit \in Int /\ l * unit \in Int
  OBVIOUS
<1> HIDE DEF d
<1> QED BY <1>1, <1>2, <1>3

LEMMA SmallRemainder ==
    ASSUME NEW unit \in Nat \ {0}, NEW n \in 0..(unit - 1)
    PROVE  n % unit = n
<1>1. n = (n \div unit) * unit + (n % unit) /\ n % unit \in 0..(unit - 1) /\ n \div unit \in Int
  BY Division
<1> DEFINE q == n \div unit
<1>2. q < 1
  <2> HIDE DEF q
  <2>1. q * unit < 1 * unit /\ q \in Int
    BY <1>1 DEF q
  <2> QED BY <2>1, Monotone
<1>3. 0 < q + 1
  <2>1. 0 * unit < (q + 1) * unit
    <3>1. (q + 1) * unit = q * unit + unit
      BY <1>1, Distributes
    <3>2. q * unit \in Int
      BY <1>1
    <3> HIDE DEF q
    <3> QED BY <1>1, <3>1, <3>2 DEF q
  <2>2. q + 1 \in Int
    BY <1>1
  <2> HIDE DEF q
  <2>3. 0 + 1 <= q + 1
    BY <2>1, <2>2, Monotone
  <2> QED BY <1>1, <2>2, <2>3 DEF q
<1>4. q = 0
  BY <1>1, <1>2, <1>3
<1> QED BY <1>1, <1>4

LEMMA DifferenceExact ==
    ASSUME NEW m \in Nat, NEW n \in Nat, n <= m, m - n < WORD
    PROVE  Minus(m, n) = m - n
<1> DEFINE d == m - n
<1>1. WORD \in Nat \ {0} /\ d \in 0..(WORD - 1)
  BY HeapAssumption
<1> HIDE DEF d
<1>2. d % WORD = d
  BY <1>1, SmallRemainder
<1> QED BY <1>2 DEF d, Minus

\* Whatever is rounded up is a multiple.
LEMMA RoundUpType ==
    ASSUME NEW unit \in Nat \ {0}, NEW n \in Nat
    PROVE  RoundUp(n, unit) \in Nat /\ Multiple(RoundUp(n, unit), unit)
<1>1. CASE n % unit = 0
  <2>1. RoundUp(n, unit) = n
    BY <1>1 DEF RoundUp
  <2> QED BY <1>1, <2>1, RemainderOfMultiple
<1>2. CASE n % unit # 0
  <2> DEFINE m == (n + unit - 1) % WORD
             q == m \div unit
  <2>1. RoundUp(n, unit) = q * unit
    BY <1>2 DEF RoundUp
  <2>2. WORD \in Nat \ {0}
    BY HeapAssumption
  <2>3. m \in 0..(WORD - 1)
    BY <2>2, Division
  <2> HIDE DEF m
  <2>4. q \in Int /\ m = q * unit + (m % unit) /\ m % unit \in 0..(unit - 1)
    BY <2>2, <2>3, Division
  <2>5. q >= 0
    <3>1. (q + 1) * unit = q * unit + unit
      BY <2>4, Distributes
    <3>2. 0 * unit < (q + 1) * unit
      <4>1. q * unit \in Int
        BY <2>4
      <4> HIDE DEF q
      <4> QED BY <2>3, <2>4, <3>1, <4>1
    <3>3. q + 1 \in Int
      BY <2>4
    <3> HIDE DEF q
    <3>4. 0 + 1 <= q + 1
      BY <3>2, <3>3, Monotone
    <3> QED BY <2>4, <3>4
  <2> HIDE DEF q
  <2>6. q * unit \in Nat
    BY <2>4, <2>5
  <2> QED BY <2>1, <2>4, <2>6 DEF Multiple
<1> QED BY <1>1, <1>2

\* Without wrapping around, the result is the next multiple.
LEMMA RoundUpExact ==
    ASSUME NEW unit \in Nat \ {0}, NEW n \in Nat, n + unit <= WORD
    PROVE  /\ n <= RoundUp(n, unit) /\ RoundUp(n, unit) < n + unit
           /\ \A m \in Int : Multiple(m, unit) /\ n <= m => RoundUp(n, unit) <= m
<1>1. CASE n % unit = 0
  <2>1. RoundUp(n, unit) = n
    BY <1>1 DEF RoundUp
  <2> QED BY <2>1
<1>2. CASE n % unit # 0
  <2> DEFINE m == n + unit - 1
             q == m \div unit
  <2>1. WORD \in Nat \ {0} /\ m \in 0..(WORD - 1)
    BY HeapAssumption
  <2>2. m % WORD = m
    <3> HIDE DEF m
    <3> QED BY <2>1, SmallRemainder
  <2>3. RoundUp(n, unit) = q * unit
    BY <1>2, <2>2 DEF RoundUp
  <2>4. q \in Int /\ m = q * unit + (m % unit) /\ m % unit \in 0..(unit - 1)
    BY <2>1, Division
  <2> HIDE DEF q
  <2>5. q * unit \in Int
    BY <2>4
  <2>6. n <= q * unit /\ q * unit < n + unit
    <3> DEFINE r == m % unit
    <3>1. m = q * unit + r /\ r \in 0..(unit - 1) /\ m = n + unit - 1
      BY <2>4
    <3> HIDE DEF r, m
    <3> QED BY <2>5, <3>1
  <2>7. ASSUME NEW other \in Int, Multiple(other, unit), n <= other
        PROVE  q * unit <= other
    <3>1. PICK k \in Int : other = k * unit
      BY <2>7 DEF Multiple
    <3>2. (k + 1) * unit = k * unit + unit
      BY <3>1, Distributes
    <3>3. q * unit < (k + 1) * unit
      BY <2>5, <2>6, <2>7, <3>1, <3>2
    <3>4. q + 1 <= k + 1
      BY <2>4, <3>3, Monotone
    <3>5. k < q => k + 1 <= q
      BY <2>4
    <3>6. q <= k
      BY <2>4, <3>4
    <3> QED
      <4>1. CASE k * unit < q * unit
        <5>1. k + 1 <= q
          BY <2>4, <4>1, Monotone
        <5> QED BY <2>4, <3>6, <5>1
      <4>2. CASE ~(k * unit < q * unit)
        <5>1. k * unit \in Int
          BY <3>1, <2>7
        <5> QED BY <2>5, <3>1, <4>2, <5>1
      <4> QED BY <4>1, <4>2
  <2> QED BY <2>3, <2>6, <2>7
<1> QED BY <1>1, <1>2

-----------------------------------------------------------------------------
(* Lists of zones.                                                         *)

ZoneType == [start : Nat, size : Nat]

LIMIT == HEAP_START + HEAP_SIZE

ZoneOK(zone) ==
    /\ zone \in ZoneType
    /\ HEAP_START <= zone.start /\ Data(zone) < LIMIT /\ End(zone) <= LIMIT
    /\ Multiple(zone.start, DESCRIPTOR) /\ Multiple(zone.size, DESCRIPTOR)

\* The zones are in the order of their addresses and do not touch.
ListOK(list) ==
    /\ list \in Seq(ZoneType)
    /\ \A k \in DOMAIN list : ZoneOK(list[k])
    /\ \A j, k \in DOMAIN list : j < k => End(list[j]) < list[k].start

In(zone, a) == zone.start <= a /\ a < End(zone)
Covers(list, a) == \E k \in DOMAIN list : In(list[k], a)

LEMMA Constants ==
    /\ DESCRIPTOR \in Nat \ {0} /\ HEAP_START \in Nat \ {0} /\ HEAP_SIZE \in Nat
    /\ HEAP_SIZE > DESCRIPTOR /\ LIMIT \in Nat /\ WORD \in Nat \ {0} /\ LIMIT <= WORD
    /\ Multiple(HEAP_START, DESCRIPTOR) /\ Multiple(HEAP_SIZE, DESCRIPTOR)
    /\ Multiple(DESCRIPTOR, DESCRIPTOR)
<1>1. /\ DESCRIPTOR \in Nat \ {0} /\ HEAP_START \in Nat \ {0} /\ HEAP_SIZE \in Nat
      /\ HEAP_SIZE > DESCRIPTOR /\ LIMIT \in Nat /\ WORD \in Nat \ {0} /\ LIMIT <= WORD
  BY HeapAssumption DEF LIMIT
<1>2. Multiple(HEAP_START, DESCRIPTOR) /\ Multiple(HEAP_SIZE, DESCRIPTOR)
  BY <1>1, HeapAssumption, RemainderOfMultiple
<1>3. DESCRIPTOR = 1 * DESCRIPTOR
  BY <1>1
<1>4. Multiple(DESCRIPTOR, DESCRIPTOR)
  BY <1>3 DEF Multiple
<1> QED BY <1>1, <1>2, <1>4

LEMMA ZoneBounds ==
    ASSUME NEW zone, ZoneOK(zone)
    PROVE  /\ zone.start \in Nat /\ zone.size \in Nat
           /\ Data(zone) = zone.start + DESCRIPTOR
           /\ End(zone) = zone.start + DESCRIPTOR + zone.size
           /\ Data(zone) \in Nat /\ End(zone) \in Nat /\ zone.start < End(zone)
           /\ zone.start < LIMIT
BY Constants DEF ZoneOK, ZoneType, Data, End

LEMMA ZoneEnds ==
    ASSUME NEW zone, ZoneOK(zone)
    PROVE  Multiple(Data(zone), DESCRIPTOR) /\ Multiple(End(zone), DESCRIPTOR)
<1> DEFINE start == zone.start
           size == zone.size
<1>1. start \in Nat /\ size \in Nat /\ Data(zone) = start + DESCRIPTOR
  BY ZoneBounds
<1>2. Multiple(start, DESCRIPTOR) /\ Multiple(size, DESCRIPTOR)
  BY DEF ZoneOK
<1>3. End(zone) = (start + DESCRIPTOR) + size
  BY ZoneBounds
<1> HIDE DEF start, size
<1>4. Multiple(start + DESCRIPTOR, DESCRIPTOR) /\ start + DESCRIPTOR \in Int
  BY <1>1, <1>2, Constants, MultipleSum
<1>5. Multiple((start + DESCRIPTOR) + size, DESCRIPTOR)
  BY <1>1, <1>2, <1>4, Constants, MultipleSum
<1> QED BY <1>1, <1>3, <1>4, <1>5

\* The list with other zones in the place of those between i and j.
Splice(list, i, middle, j) == SubSeq(list, 1, i) \o middle \o SubSeq(list, j, Len(list))

IsSplice(list, i, middle, j, spliced) ==
    /\ spliced \in Seq(ZoneType) /\ Len(spliced) = i + Len(middle) + (Len(list) - j + 1)
    /\ \A k \in 1..i : spliced[k] = list[k]
    /\ \A k \in 1..Len(middle) : spliced[i + k] = middle[k]
    /\ \A k \in j..Len(list) : spliced[i + Len(middle) + 1 + (k - j)] = list[k]

LEMMA Spliced ==
    ASSUME NEW list \in Seq(ZoneType), NEW middle \in Seq(ZoneType),
           NEW i \in Nat, NEW j \in Nat, i < j, j <= Len(list) + 1
    PROVE  IsSplice(list, i, middle, j, Splice(list, i, middle, j))
<1> DEFINE S == ZoneType
           m == Len(middle)
           n == Len(list)
           front == SubSeq(list, 1, i)
           back == SubSeq(list, j, n)
           joined == front \o middle
           spliced == joined \o back
<1>1. /\ n \in Nat /\ m \in Nat /\ i \in Nat /\ i <= n /\ j \in Nat /\ i + 1 <= j /\ j <= n + 1
      /\ \A k \in 1..n : list[k] \in S
  OBVIOUS
<1> HIDE DEF n, S
<1>2. front \in Seq(S) /\ Len(front) = i /\ \A k \in 1..i : front[k] = list[k]
  <2>1. 1 \in Int /\ i \in Int /\ \A k \in 1..i : list[k] \in S
    BY <1>1
  <2>2. /\ front \in Seq(S) /\ Len(front) = IF 1 <= i THEN i - 1 + 1 ELSE 0
        /\ \A k \in 1..(i - 1 + 1) : front[k] = list[1 + k - 1]
    <3> HIDE DEF front
    <3> QED BY <2>1, SubSeqProperties DEF front
  <2> HIDE DEF front
  <2> QED BY <1>1, <2>2
<1>3. /\ back \in Seq(S) /\ Len(back) = n - j + 1
      /\ \A k \in 1..(n - j + 1) : back[k] = list[j + k - 1]
  <2>1. j \in Int /\ n \in Int /\ \A k \in j..n : list[k] \in S
    BY <1>1
  <2>2. /\ back \in Seq(S) /\ Len(back) = IF j <= n THEN n - j + 1 ELSE 0
        /\ \A k \in 1..(n - j + 1) : back[k] = list[j + k - 1]
    <3> HIDE DEF back
    <3> QED BY <2>1, SubSeqProperties DEF back
  <2> HIDE DEF back
  <2> QED BY <1>1, <2>2
<1> HIDE DEF front, back
<1>4. /\ joined \in Seq(S) /\ Len(joined) = i + m
      /\ \A k \in 1..(i + m) : joined[k] = IF k <= i THEN front[k] ELSE middle[k - i]
  <2>1. middle \in Seq(S)
    BY DEF S
  <2> QED BY <1>2, <2>1, ConcatProperties
<1> HIDE DEF joined
<1>5. /\ spliced \in Seq(S) /\ Len(spliced) = i + m + (n - j + 1)
      /\ \A k \in 1..(i + m + (n - j + 1)) :
           spliced[k] = IF k <= i + m THEN joined[k] ELSE back[k - (i + m)]
  <2>1. /\ spliced \in Seq(S) /\ Len(spliced) = Len(joined) + Len(back)
        /\ \A k \in 1..(Len(joined) + Len(back)) :
             spliced[k] = IF k <= Len(joined) THEN joined[k] ELSE back[k - Len(joined)]
    BY <1>3, <1>4, ConcatProperties
  <2>2. Len(joined) = i + m /\ Len(back) = n - j + 1
    BY <1>3, <1>4
  <2> HIDE DEF spliced
  <2> QED BY <2>1, <2>2
<1> HIDE DEF spliced, m
<1>6. ASSUME NEW k \in 1..i PROVE spliced[k] = list[k]
  <2>1. k \in 1..(i + m + (n - j + 1)) /\ k \in 1..(i + m) /\ k <= i + m /\ k <= i
    BY <1>1
  <2>2. spliced[k] = joined[k] /\ joined[k] = front[k]
    BY <1>4, <1>5, <2>1
  <2> QED BY <1>2, <2>2
<1>7. ASSUME NEW k \in 1..m PROVE spliced[i + k] = middle[k]
  <2>1. /\ i + k \in 1..(i + m + (n - j + 1)) /\ i + k \in 1..(i + m) /\ i + k <= i + m
        /\ ~(i + k <= i) /\ (i + k) - i = k
    BY <1>1
  <2>2. spliced[i + k] = joined[i + k] /\ joined[i + k] = middle[(i + k) - i]
    BY <1>4, <1>5, <2>1
  <2> QED BY <2>1, <2>2
<1>8. ASSUME NEW k \in j..n PROVE spliced[i + m + 1 + (k - j)] = list[k]
  <2> DEFINE l == i + m + 1 + (k - j)
  <2>1. /\ l \in 1..(i + m + (n - j + 1)) /\ ~(l <= i + m)
        /\ l - (i + m) \in 1..(n - j + 1) /\ j + (l - (i + m)) - 1 = k
    BY <1>1
  <2> HIDE DEF l
  <2>2. spliced[l] = back[l - (i + m)]
    BY <1>5, <2>1
  <2>3. back[l - (i + m)] = list[j + (l - (i + m)) - 1]
    BY <1>3, <2>1
  <2> QED BY <2>1, <2>2, <2>3 DEF l
<1>9. spliced = Splice(list, i, middle, j)
  BY DEF spliced, joined, front, back, n, Splice
<1>10. m = Len(middle) /\ n = Len(list)
  BY DEF m, n
<1> QED BY <1>5, <1>6, <1>7, <1>8, <1>9, <1>10 DEF IsSplice, S

\* A list stays good when the new zones fit between the old ones.
LEMMA SplicedOK ==
    ASSUME NEW list, ListOK(list), NEW middle, ListOK(middle),
           NEW i \in Nat, NEW j \in Nat, i < j, j <= Len(list) + 1,
           \A k \in 1..i : \A l \in DOMAIN middle : End(list[k]) < middle[l].start,
           \A k \in j..Len(list) : \A l \in DOMAIN middle : End(middle[l]) < list[k].start
    PROVE  /\ ListOK(Splice(list, i, middle, j))
           /\ \A a : Covers(Splice(list, i, middle, j), a) <=>
                \/ Covers(middle, a)
                \/ \E k \in 1..i : In(list[k], a)
                \/ \E k \in j..Len(list) : In(list[k], a)
<1> DEFINE n == Len(list)
           m == Len(middle)
           spliced == Splice(list, i, middle, j)
<1>1. /\ list \in Seq(ZoneType) /\ middle \in Seq(ZoneType)
      /\ n \in Nat /\ m \in Nat /\ DOMAIN list = 1..n /\ DOMAIN middle = 1..m
      /\ i \in Nat /\ i <= n /\ j \in Nat /\ i + 1 <= j /\ j <= n + 1
  BY DEF ListOK
<1>2. /\ spliced \in Seq(ZoneType) /\ Len(spliced) = i + m + (n - j + 1)
      /\ \A k \in 1..i : spliced[k] = list[k]
      /\ \A k \in 1..m : spliced[i + k] = middle[k]
      /\ \A k \in j..n : spliced[i + m + 1 + (k - j)] = list[k]
  <2>1. IsSplice(list, i, middle, j, spliced)
    <3>1. i <= Len(list) /\ i < j /\ j <= Len(list) + 1
      BY <1>1 DEF n
    <3> QED BY <1>1, <3>1, Spliced DEF spliced
  <2> HIDE DEF spliced
  <2> QED BY <2>1 DEF IsSplice, n, m
<1> HIDE DEF spliced, n, m
<1>3. DOMAIN spliced = 1..(i + m + (n - j + 1))
  BY <1>2
<1>4. ASSUME NEW x \in DOMAIN spliced
      PROVE  \/ x \in 1..i /\ x \in 1..n /\ spliced[x] = list[x]
             \/ x - i \in 1..m /\ spliced[x] = middle[x - i]
             \/ /\ x - (i + m + 1) + j \in j..n /\ x - (i + m + 1) + j \in 1..n
                /\ spliced[x] = list[x - (i + m + 1) + j]
  <2>1. CASE x <= i
    <3>1. x \in 1..i /\ x \in 1..n
      BY <1>1, <1>3, <2>1
    <3> QED BY <1>2, <3>1
  <2>2. CASE i < x /\ x <= i + m
    <3>1. x - i \in 1..m /\ i + (x - i) = x
      BY <1>1, <1>3, <2>2
    <3>2. spliced[i + (x - i)] = middle[x - i]
      BY <1>2, <3>1
    <3> QED BY <3>1, <3>2
  <2>3. CASE i + m < x
    <3> DEFINE k == x - (i + m + 1) + j
    <3>1. k \in j..n /\ k \in 1..n /\ i + m + 1 + (k - j) = x
      BY <1>1, <1>3, <2>3
    <3> HIDE DEF k
    <3>2. spliced[i + m + 1 + (k - j)] = list[k]
      BY <1>2, <3>1
    <3>3. spliced[x] = list[k]
      BY <3>1, <3>2
    <3> QED BY <3>1, <3>3 DEF k
  <2>4. x <= i \/ (i < x /\ x <= i + m) \/ i + m < x
    BY <1>1, <1>3
  <2> QED BY <2>1, <2>2, <2>3, <2>4
<1>5. \A k \in 1..n : ZoneOK(list[k])
  BY <1>1 DEF ListOK
<1>6. \A l \in 1..m : ZoneOK(middle[l])
  BY <1>1 DEF ListOK
<1>7. \A x \in DOMAIN spliced : ZoneOK(spliced[x])
  BY <1>4, <1>5, <1>6
<1>8. ASSUME NEW x \in DOMAIN spliced, NEW y \in DOMAIN spliced, x < y
      PROVE  End(spliced[x]) < spliced[y].start
  <2> DEFINE kx == x - (i + m + 1) + j
             ky == y - (i + m + 1) + j
  <2>1. \A k, l \in 1..n : k < l => End(list[k]) < list[l].start
    BY <1>1 DEF ListOK
  <2>2. \A k, l \in 1..m : k < l => End(middle[k]) < middle[l].start
    BY <1>1 DEF ListOK
  <2>3. \A k \in 1..i : \A l \in 1..m : End(list[k]) < middle[l].start
    BY <1>1
  <2>4. \A k \in j..n : \A l \in 1..m : End(middle[l]) < list[k].start
    BY <1>1 DEF n
  <2>5. x \in Int /\ y \in Int
    BY <1>3
  <2>6. CASE x \in 1..i /\ x \in 1..n /\ spliced[x] = list[x]
    <3>1. CASE y \in 1..i /\ y \in 1..n /\ spliced[y] = list[y]
      BY <1>8, <2>1, <2>6, <3>1
    <3>2. CASE y - i \in 1..m /\ spliced[y] = middle[y - i]
      BY <2>3, <2>6, <3>2
    <3>3. CASE ky \in j..n /\ ky \in 1..n /\ spliced[y] = list[ky]
      <4>1. x < ky
        <5> HIDE DEF ky
        <5> QED BY <1>1, <2>5, <2>6, <3>3
      <4> HIDE DEF ky
      <4> QED BY <2>1, <2>6, <3>3, <4>1
    <3> QED BY <1>4, <3>1, <3>2, <3>3
  <2>7. CASE x - i \in 1..m /\ spliced[x] = middle[x - i]
    <3>1. CASE y \in 1..i /\ y \in 1..n /\ spliced[y] = list[y]
      BY <1>1, <1>8, <2>5, <2>7, <3>1
    <3>2. CASE y - i \in 1..m /\ spliced[y] = middle[y - i]
      <4>1. x - i < y - i
        BY <1>1, <1>8, <2>5
      <4> QED BY <2>2, <2>7, <3>2, <4>1
    <3>3. CASE ky \in j..n /\ ky \in 1..n /\ spliced[y] = list[ky]
      <4> HIDE DEF ky
      <4> QED BY <2>4, <2>7, <3>3
    <3> QED BY <1>4, <3>1, <3>2, <3>3
  <2>8. CASE kx \in j..n /\ kx \in 1..n /\ spliced[x] = list[kx]
    <3>1. CASE y \in 1..i /\ y \in 1..n /\ spliced[y] = list[y]
      BY <1>1, <1>8, <2>5, <2>8, <3>1
    <3>2. CASE y - i \in 1..m /\ spliced[y] = middle[y - i]
      BY <1>1, <1>8, <2>5, <2>8, <3>2
    <3>3. CASE ky \in j..n /\ ky \in 1..n /\ spliced[y] = list[ky]
      <4>1. kx < ky
        BY <1>1, <1>8, <2>5
      <4> HIDE DEF kx, ky
      <4> QED BY <2>1, <2>8, <3>3, <4>1
    <3> QED BY <1>4, <3>1, <3>2, <3>3
  <2> QED BY <1>4, <2>6, <2>7, <2>8
<1>9. ListOK(spliced)
  BY <1>2, <1>7, <1>8 DEF ListOK
<1>10. ASSUME NEW a
       PROVE  Covers(spliced, a) <=> \/ Covers(middle, a)
                                     \/ \E k \in 1..i : In(list[k], a)
                                     \/ \E k \in j..n : In(list[k], a)
  <2>1. ASSUME Covers(spliced, a)
        PROVE  \/ Covers(middle, a)
               \/ \E k \in 1..i : In(list[k], a)
               \/ \E k \in j..n : In(list[k], a)
    <3>1. PICK x \in DOMAIN spliced : In(spliced[x], a)
      BY <2>1 DEF Covers
    <3>2. CASE x \in 1..i /\ spliced[x] = list[x]
      BY <3>1, <3>2
    <3>3. CASE x - i \in 1..m /\ spliced[x] = middle[x - i]
      BY <1>1, <3>1, <3>3 DEF Covers
    <3>4. CASE x - (i + m + 1) + j \in j..n /\ spliced[x] = list[x - (i + m + 1) + j]
      BY <3>1, <3>4
    <3> QED BY <1>4, <3>2, <3>3, <3>4
  <2>2. ASSUME Covers(middle, a) PROVE Covers(spliced, a)
    <3>1. PICK l \in 1..m : In(middle[l], a)
      BY <1>1, <2>2 DEF Covers
    <3>2. i + l \in DOMAIN spliced
      BY <1>1, <1>3
    <3> QED BY <1>2, <3>1, <3>2 DEF Covers
  <2>3. ASSUME NEW k \in 1..i, In(list[k], a) PROVE Covers(spliced, a)
    <3>1. k \in DOMAIN spliced
      BY <1>1, <1>3
    <3> QED BY <1>2, <2>3, <3>1 DEF Covers
  <2>4. ASSUME NEW k \in j..n, In(list[k], a) PROVE Covers(spliced, a)
    <3>1. i + m + 1 + (k - j) \in DOMAIN spliced
      BY <1>1, <1>3
    <3>2. In(spliced[i + m + 1 + (k - j)], a)
      BY <1>2, <2>4
    <3> QED BY <3>1, <3>2 DEF Covers
  <2> QED BY <2>1, <2>2, <2>3, <2>4
<1> QED BY <1>9, <1>10 DEF spliced, n

LEMMA Inserted ==
    ASSUME NEW list, ListOK(list), NEW zone, ZoneOK(zone),
           NEW i \in Nat, NEW j \in Nat, i < j, j <= Len(list) + 1,
           \A k \in 1..i : End(list[k]) < zone.start,
           \A k \in j..Len(list) : End(zone) < list[k].start
    PROVE  /\ ListOK(Splice(list, i, <<zone>>, j))
           /\ \A a : Covers(Splice(list, i, <<zone>>, j), a) <=>
                \/ In(zone, a)
                \/ \E k \in 1..i : In(list[k], a)
                \/ \E k \in j..Len(list) : In(list[k], a)
<1> DEFINE middle == <<zone>>
<1>1. zone \in ZoneType
  BY DEF ZoneOK
<1>2. middle \in Seq(ZoneType) /\ DOMAIN middle = {1} /\ middle[1] = zone
  BY <1>1
<1> HIDE DEF middle
<1>3. ListOK(middle) /\ \A a : Covers(middle, a) <=> In(zone, a)
  BY <1>2 DEF ListOK, Covers
<1>4. /\ \A k \in 1..i : \A l \in DOMAIN middle : End(list[k]) < middle[l].start
      /\ \A k \in j..Len(list) : \A l \in DOMAIN middle : End(middle[l]) < list[k].start
  BY <1>2
<1>5. /\ ListOK(Splice(list, i, middle, j))
      /\ \A a : Covers(Splice(list, i, middle, j), a) <=>
           \/ Covers(middle, a)
           \/ \E k \in 1..i : In(list[k], a)
           \/ \E k \in j..Len(list) : In(list[k], a)
  BY <1>3, <1>4, SplicedOK
<1> QED BY <1>3, <1>5 DEF middle

LEMMA Removed ==
    ASSUME NEW list, ListOK(list),
           NEW i \in Nat, NEW j \in Nat, i < j, j <= Len(list) + 1
    PROVE  /\ ListOK(Splice(list, i, <<>>, j))
           /\ \A a : Covers(Splice(list, i, <<>>, j), a) <=>
                \/ \E k \in 1..i : In(list[k], a)
                \/ \E k \in j..Len(list) : In(list[k], a)
<1> DEFINE middle == <<>>
<1>1. middle \in Seq(ZoneType) /\ DOMAIN middle = {}
  OBVIOUS
<1> HIDE DEF middle
<1>2. ListOK(middle) /\ \A a : ~Covers(middle, a)
  BY <1>1 DEF ListOK, Covers
<1>3. /\ \A k \in 1..i : \A l \in DOMAIN middle : End(list[k]) < middle[l].start
      /\ \A k \in j..Len(list) : \A l \in DOMAIN middle : End(middle[l]) < list[k].start
  BY <1>1
<1>4. /\ ListOK(Splice(list, i, middle, j))
      /\ \A a : Covers(Splice(list, i, middle, j), a) <=>
           \/ Covers(middle, a)
           \/ \E k \in 1..i : In(list[k], a)
           \/ \E k \in j..Len(list) : In(list[k], a)
  BY <1>2, <1>3, SplicedOK
<1> QED BY <1>2, <1>4 DEF middle

\* The least of some places of a list is one of them.
LEMMA LeastPlace ==
    ASSUME NEW n \in Nat, NEW places \in SUBSET (0..n), places # {}
    PROVE  Min(places) \in places /\ \A k \in places : Min(places) <= k
<1>1. IsFiniteSet(0..n)
  BY FS_Interval
<1>2. IsFiniteSet(places)
  BY <1>1, FS_Subset
<1>3. places \in SUBSET Nat
  OBVIOUS
<1> QED BY <1>2, <1>3, LeastPosition DEF Min

-----------------------------------------------------------------------------
(* internal_free().                                                        *)

\* The bytes from start join the free ones, and the list stays good.
LEMMA InternalFreeOK ==
    ASSUME NEW list, ListOK(list), NEW start \in Nat, NEW n \in Nat \ {0},
           Multiple(start, DESCRIPTOR), Multiple(n, DESCRIPTOR),
           HEAP_START <= start, start + DESCRIPTOR < LIMIT, start + n <= LIMIT,
           \A a \in start..(start + n - 1) : ~Covers(list, a)
    PROVE  /\ ListOK(InternalFree(list, start, n))
           /\ \A a \in Int : Covers(InternalFree(list, start, n), a) <=>
                Covers(list, a) \/ (start <= a /\ a < start + n)
<1> DEFINE m == Len(list)
           places == {k \in 0..Len(list) : k < Len(list) => list[k + 1].start >= start}
           before == Min(places)
           joinsLast == before > 0 /\ End(list[before]) = start
           joinsNext == before < Len(list) /\ start + n = list[before + 1].start
           first == IF joinsLast THEN list[before].start ELSE start
           end == IF joinsNext THEN End(list[before + 1]) ELSE start + n
           i == IF joinsLast THEN before - 1 ELSE before
           j == IF joinsNext THEN before + 2 ELSE before + 1
           zone == Zone(first, end - first - DESCRIPTOR)
<1>1. n >= DESCRIPTOR
  <2>1. PICK k \in Int : n = k * DESCRIPTOR
    BY DEF Multiple
  <2>2. 0 * DESCRIPTOR < k * DESCRIPTOR
    BY <2>1, Constants
  <2>3. 0 + 1 <= k
    BY <2>1, <2>2, Constants, Monotone
  <2>4. k * DESCRIPTOR >= DESCRIPTOR
    BY <2>1, <2>3, Constants
  <2> QED BY <2>1, <2>4
<1>2. InternalFree(list, start, n) = Splice(list, i, <<zone>>, j)
  <2>1. ~(n = 0 \/ ~(joinsLast \/ joinsNext \/ n >= DESCRIPTOR))
    BY <1>1
  <2>2. InternalFree(list, start, n) =
          IF n = 0 \/ ~(joinsLast \/ joinsNext \/ n >= DESCRIPTOR) THEN list
          ELSE SubSeq(list, 1, i) \o <<zone>> \o SubSeq(list, j, Len(list))
    BY DEF InternalFree
  <2> HIDE DEF joinsLast, joinsNext, i, j, zone
  <2> QED BY <2>1, <2>2 DEF Splice
<1>3. m \in Nat /\ DOMAIN list = 1..m /\ \A k \in 1..m : ZoneOK(list[k])
  BY DEF ListOK
<1>4. \A k, l \in 1..m : k < l => End(list[k]) < list[l].start
  BY <1>3 DEF ListOK
<1>5. before \in places /\ \A k \in places : before <= k
  <2>1. places \in SUBSET (0..m) /\ m \in places
    BY <1>3
  <2> HIDE DEF places, m
  <2> QED BY <1>3, <2>1, LeastPlace
<1>6. before \in 0..m /\ (before < m => list[before + 1].start >= start)
  BY <1>5
<1>7. ASSUME NEW k \in 1..before PROVE k \in 1..m /\ list[k].start < start
  <2>1. k \in 1..m /\ k - 1 \in 0..m /\ k - 1 < m /\ ~(before <= k - 1) /\ (k - 1) + 1 = k
    BY <1>3, <1>6
  <2>2. k - 1 \notin places
    <3> HIDE DEF places, before
    <3> QED BY <1>5, <2>1
  <2>3. ~(list[k].start >= start)
    BY <2>1, <2>2
  <2>4. list[k].start \in Nat
    BY <1>3, <2>1, ZoneBounds
  <2> QED BY <2>1, <2>3, <2>4
<1>8. \A a \in Int : \A k \in 1..m : In(list[k], a) => ~(start <= a /\ a < start + n)
  <2> SUFFICES ASSUME NEW a \in Int, start <= a, a < start + n, NEW k \in 1..m, In(list[k], a)
               PROVE  FALSE
    OBVIOUS
  <2>1. Covers(list, a)
    BY <1>3 DEF Covers
  <2>2. a \in start..(start + n - 1)
    OBVIOUS
  <2> QED BY <2>1, <2>2
<1> HIDE DEF places, before, m
<1>9. ASSUME NEW k \in 1..before PROVE End(list[k]) <= start
  <2>1. k \in 1..m /\ list[k].start < start /\ list[k].start \in Nat /\ End(list[k]) \in Nat
    BY <1>3, <1>7, ZoneBounds
  <2>2. ~In(list[k], start)
    BY <1>8, <2>1
  <2> QED BY <2>1, <2>2 DEF In
<1>10. ASSUME NEW k \in (before + 1)..m
       PROVE  k \in 1..m /\ start + n <= list[k].start
  <2>1. k \in 1..m /\ before < m /\ before + 1 \in 1..m /\ k \in Nat
    BY <1>3, <1>6
  <2>2. /\ list[k].start \in Nat /\ End(list[k]) \in Nat /\ list[k].start < End(list[k])
        /\ list[before + 1].start \in Nat /\ End(list[before + 1]) \in Nat
        /\ list[before + 1].start < End(list[before + 1])
    BY <1>3, <2>1, ZoneBounds
  <2>3. start <= list[k].start
    <3>1. CASE k = before + 1
      BY <1>6, <2>1, <2>2, <3>1
    <3>2. CASE before + 1 < k
      <4>1. End(list[before + 1]) < list[k].start
        BY <1>4, <2>1, <3>2
      <4> QED BY <1>6, <2>1, <2>2, <4>1
    <3>3. k = before + 1 \/ before + 1 < k
      BY <1>6, <2>1
    <3> QED BY <3>1, <3>2, <3>3
  <2>4. In(list[k], list[k].start)
    BY <2>2 DEF In
  <2>5. ~(list[k].start < start + n)
    BY <1>8, <2>1, <2>2, <2>3, <2>4
  <2> QED BY <2>1, <2>2, <2>5
<1>11. ASSUME joinsLast
       PROVE  /\ before \in 1..m /\ before \in 1..before /\ End(list[before]) = start
              /\ ZoneOK(list[before]) /\ list[before].start < start
  <2>1. before \in 1..m /\ before \in 1..before
    BY <1>3, <1>6, <1>11
  <2> QED BY <1>3, <1>7, <1>11, <2>1
<1>12. ASSUME joinsNext
       PROVE  /\ before + 1 \in 1..m /\ before + 1 \in (before + 1)..m
              /\ ZoneOK(list[before + 1]) /\ start + n = list[before + 1].start
  <2>1. before + 1 \in 1..m /\ before + 1 \in (before + 1)..m
    BY <1>3, <1>6, <1>12 DEF m
  <2> QED BY <1>3, <1>12, <2>1
<1> HIDE DEF joinsLast, joinsNext
<1>13. first \in Nat /\ first <= start /\ HEAP_START <= first /\ Multiple(first, DESCRIPTOR)
  <2>1. CASE joinsLast
    <3>1. first = list[before].start
      BY <2>1
    <3>2. ZoneOK(list[before]) /\ list[before].start < start
      BY <1>11, <2>1
    <3>3. list[before].start \in Nat
      BY <3>2, ZoneBounds
    <3> QED BY <3>1, <3>2, <3>3 DEF ZoneOK
  <2>2. CASE ~joinsLast
    <3>1. first = start
      BY <2>2
    <3> QED BY <3>1
  <2> QED BY <2>1, <2>2
<1>14. end \in Nat /\ start + n <= end /\ end <= LIMIT /\ Multiple(end, DESCRIPTOR)
  <2>1. CASE joinsNext
    <3> DEFINE next == list[before + 1]
    <3>1. end = End(next)
      BY <2>1
    <3>2. ZoneOK(next) /\ start + n = next.start
      BY <1>12, <2>1
    <3> HIDE DEF next
    <3>3. /\ next.start \in Nat /\ next.size \in Nat /\ End(next) \in Nat
          /\ End(next) = next.start + DESCRIPTOR + next.size /\ next.start < End(next)
      BY <3>2, ZoneBounds
    <3>4. Multiple(next.start, DESCRIPTOR) /\ Multiple(next.size, DESCRIPTOR) /\ End(next) <= LIMIT
      BY <3>2 DEF ZoneOK
    <3>5. Multiple(End(next), DESCRIPTOR)
      BY <3>2, ZoneEnds
    <3> HIDE DEF end
    <3> QED BY <3>1, <3>2, <3>3, <3>4, <3>5
  <2>2. CASE ~joinsNext
    <3>1. end = start + n
      BY <2>2
    <3>2. Multiple(start + n, DESCRIPTOR)
      BY Constants, MultipleSum
    <3> HIDE DEF end
    <3> QED BY <3>1, <3>2
  <2> QED BY <2>1, <2>2
<1> HIDE DEF first, end
<1>15. ZoneOK(zone) /\ zone.start = first /\ End(zone) = end
  <2>1. zone.start = first /\ zone.size = end - first - DESCRIPTOR
    BY DEF Zone
  <2>2. zone \in ZoneType
    BY <1>1, <1>13, <1>14, Constants DEF Zone, ZoneType
  <2> HIDE DEF zone
  <2>3. Data(zone) = first + DESCRIPTOR /\ End(zone) = end
    BY <1>13, <1>14, <2>1, Constants DEF Data, End
  <2>4. Multiple(end - first, DESCRIPTOR)
    BY <1>13, <1>14, Constants, MultipleSum
  <2>5. Multiple(end - first - DESCRIPTOR, DESCRIPTOR)
    BY <1>13, <1>14, <2>4, Constants, MultipleSum
  <2>6. first + DESCRIPTOR < LIMIT
    BY <1>13, Constants
  <2> QED BY <1>13, <1>14, <2>1, <2>2, <2>3, <2>5, <2>6 DEF ZoneOK
<1> HIDE DEF zone
<1>16. i \in Nat /\ j \in Nat /\ i < j /\ j <= m + 1
  <2>1. i \in Nat /\ i <= before
    <3>1. CASE joinsLast
      <4>1. i = before - 1 /\ before \in 1..m
        BY <1>11, <3>1
      <4> QED BY <4>1
    <3>2. CASE ~joinsLast
      BY <1>6, <3>2
    <3> QED BY <3>1, <3>2
  <2>2. j \in Nat /\ before < j /\ j <= m + 1
    <3>1. CASE joinsNext
      <4>1. j = before + 2 /\ before + 1 \in 1..m
        BY <1>12, <3>1
      <4> HIDE DEF j
      <4> QED BY <1>3, <1>6, <4>1
    <3>2. CASE ~joinsNext
      <4>1. j = before + 1
        BY <3>2
      <4> QED BY <1>3, <1>6, <4>1
    <3> QED BY <3>1, <3>2
  <2> QED BY <1>6, <2>1, <2>2
<1>17. ASSUME NEW k \in 1..i PROVE k \in 1..before /\ End(list[k]) < first
  <2>1. CASE joinsLast
    <3>1. before \in 1..m /\ i = before - 1 /\ first = list[before].start
      BY <1>11, <2>1 DEF first
    <3>2. k \in 1..before /\ k \in 1..m /\ k < before
      BY <1>3, <3>1
    <3> QED BY <1>4, <3>1, <3>2
  <2>2. CASE ~joinsLast
    <3>1. i = before /\ first = start
      BY <2>2 DEF first
    <3>2. k \in 1..before /\ k \in 1..m /\ before \in 1..m /\ End(list[k]) <= start /\ k \in Nat
      BY <1>3, <1>6, <1>9, <3>1
    <3>3. End(list[k]) \in Nat /\ list[before].start \in Nat /\ list[before].start < start
      BY <1>3, <1>7, <3>2, ZoneBounds
    <3>4. CASE k = before
      <4>1. End(list[before]) # start
        BY <1>6, <2>2, <3>2 DEF joinsLast
      <4> QED BY <3>1, <3>2, <3>3, <3>4, <4>1
    <3>5. CASE k < before
      <4>1. End(list[k]) < list[before].start
        BY <1>4, <3>2, <3>5
      <4> QED BY <3>1, <3>2, <3>3, <4>1
    <3> QED BY <1>6, <3>2, <3>4, <3>5
  <2> QED BY <2>1, <2>2
<1>18. ASSUME NEW k \in j..m PROVE k \in (before + 1)..m /\ end < list[k].start
  <2>1. CASE joinsNext
    <3>1. before + 1 \in 1..m /\ j = before + 2 /\ end = End(list[before + 1])
      BY <1>12, <2>1 DEF end
    <3>2. k \in (before + 1)..m /\ k \in 1..m /\ before + 1 < k
      BY <1>3, <1>6, <3>1
    <3> QED BY <1>4, <3>1, <3>2
  <2>2. CASE ~joinsNext
    <3>1. j = before + 1 /\ end = start + n
      BY <2>2 DEF end
    <3>2. /\ k \in (before + 1)..m /\ k \in 1..m /\ start + n <= list[k].start
          /\ before < m /\ before + 1 \in 1..m /\ k \in Nat
      BY <1>3, <1>6, <1>10, <3>1
    <3>3. list[k].start \in Nat /\ ZoneOK(list[before + 1])
      BY <1>3, <3>2, ZoneBounds
    <3>4. CASE k = before + 1
      <4>1. start + n # list[before + 1].start
        BY <2>2, <3>2 DEF joinsNext, m
      <4> QED BY <3>1, <3>2, <3>3, <3>4, <4>1
    <3>5. CASE before + 1 < k
      <4>1. End(list[before + 1]) < list[k].start
        BY <1>4, <3>2, <3>5
      <4>2. before + 1 \in (before + 1)..m
        BY <1>3, <1>6, <3>2
      <4>3. start + n <= list[before + 1].start
        BY <1>10, <4>2
      <4>4. /\ End(list[before + 1]) \in Nat /\ list[before + 1].start \in Nat
            /\ list[before + 1].start < End(list[before + 1])
        BY <3>3, ZoneBounds
      <4> QED BY <3>1, <3>2, <3>3, <4>1, <4>3, <4>4
    <3> QED BY <1>6, <3>2, <3>4, <3>5
  <2> QED BY <2>1, <2>2
<1>19. i = before \/ (joinsLast /\ i = before - 1)
  <2>1. CASE joinsLast
    BY <2>1
  <2>2. CASE ~joinsLast
    BY <2>2
  <2> QED BY <2>1, <2>2
<1>20. j = before + 1 \/ (joinsNext /\ j = before + 2)
  <2>1. CASE joinsNext
    BY <2>1
  <2>2. CASE ~joinsNext
    BY <2>2
  <2> QED BY <2>1, <2>2
<1> HIDE DEF i, j
<1>21. /\ ListOK(Splice(list, i, <<zone>>, j))
       /\ \A a : Covers(Splice(list, i, <<zone>>, j), a) <=>
            \/ In(zone, a)
            \/ \E k \in 1..i : In(list[k], a)
            \/ \E k \in j..m : In(list[k], a)
  <2>1. /\ \A k \in 1..i : End(list[k]) < zone.start
        /\ \A k \in j..Len(list) : End(zone) < list[k].start
    BY <1>15, <1>17, <1>18 DEF m
  <2>2. j <= Len(list) + 1
    BY <1>16 DEF m
  <2> QED BY <1>15, <1>16, <2>1, <2>2, Inserted DEF m
<1>22. ASSUME NEW a \in Int
       PROVE  (\/ In(zone, a)
               \/ \E k \in 1..i : In(list[k], a)
               \/ \E k \in j..m : In(list[k], a))
              <=> Covers(list, a) \/ (start <= a /\ a < start + n)
  <2>1. In(zone, a) <=> first <= a /\ a < end
    BY <1>15 DEF In
  <2>2. ASSUME NEW k \in 1..i, In(list[k], a) PROVE Covers(list, a)
    <3>1. k \in 1..m
      BY <1>7, <1>17
    <3> QED BY <1>3, <2>2, <3>1 DEF Covers
  <2>3. ASSUME NEW k \in j..m, In(list[k], a) PROVE Covers(list, a)
    <3>1. k \in 1..m
      BY <1>10, <1>18
    <3> QED BY <1>3, <2>3, <3>1 DEF Covers
  <2>4. ASSUME In(zone, a), a < start PROVE Covers(list, a)
    <3>1. CASE joinsLast
      <4>1. /\ before \in 1..m /\ ZoneOK(list[before]) /\ first = list[before].start
            /\ End(list[before]) = start
        BY <1>11, <3>1 DEF first
      <4>2. In(list[before], a)
        BY <2>1, <2>4, <4>1 DEF In
      <4> QED BY <1>3, <4>1, <4>2 DEF Covers
    <3>2. CASE ~joinsLast
      <4>1. first = start
        BY <3>2 DEF first
      <4> QED BY <2>1, <2>4, <4>1
    <3> QED BY <3>1, <3>2
  <2>5. ASSUME In(zone, a), ~(a < start + n) PROVE Covers(list, a)
    <3>1. CASE joinsNext
      <4>1. /\ before + 1 \in 1..m /\ end = End(list[before + 1])
            /\ start + n = list[before + 1].start
        BY <1>12, <3>1 DEF end
      <4>2. In(list[before + 1], a)
        BY <2>1, <2>5, <4>1 DEF In
      <4> QED BY <1>3, <4>1, <4>2 DEF Covers
    <3>2. CASE ~joinsNext
      <4>1. end = start + n
        BY <3>2 DEF end
      <4> QED BY <2>1, <2>5, <4>1
    <3> QED BY <3>1, <3>2
  <2>6. ASSUME start <= a, a < start + n PROVE In(zone, a)
    BY <1>13, <1>14, <2>1, <2>6
  <2>7. ASSUME Covers(list, a)
        PROVE  \/ In(zone, a)
               \/ \E k \in 1..i : In(list[k], a)
               \/ \E k \in j..m : In(list[k], a)
    <3>1. PICK k \in 1..m : In(list[k], a)
      BY <1>3, <2>7 DEF Covers
    <3>2. CASE k <= i
      <4>1. k \in 1..i
        BY <1>16, <3>2
      <4> QED BY <3>1, <4>1
    <3>3. CASE j <= k
      <4>1. k \in j..m
        BY <1>3, <1>16, <3>3
      <4> QED BY <3>1, <4>1
    <3>4. CASE ~(k <= i) /\ ~(j <= k)
      <4>1. (k = before /\ joinsLast) \/ (k = before + 1 /\ joinsNext)
        BY <1>6, <1>19, <1>20, <3>4
      <4>2. CASE k = before /\ joinsLast
        <5>1. /\ first = list[k].start /\ End(list[k]) = start
          BY <1>11, <4>2 DEF first
        <5> QED BY <1>13, <1>14, <2>1, <3>1, <5>1 DEF In
      <4>3. CASE k = before + 1 /\ joinsNext
        <5>1. end = End(list[k]) /\ start + n = list[k].start
          BY <1>12, <4>3 DEF end
        <5> QED BY <1>13, <1>14, <2>1, <3>1, <5>1 DEF In
      <4> QED BY <4>1, <4>2, <4>3
    <3> QED BY <3>2, <3>3, <3>4
  <2> QED BY <2>2, <2>3, <2>4, <2>5, <2>6, <2>7
<1> QED BY <1>2, <1>21, <1>22

-----------------------------------------------------------------------------
(* malloc(): the zone that is cut out of a free one.                       *)

\* The free bytes are those of the zone and those that stay free.
CutOut(list, cut) ==
    /\ ZoneOK(cut.zone) /\ ListOK(cut.list)
    /\ \A a \in Int : Covers(list, a) <=> (In(cut.zone, a) \/ Covers(cut.list, a))
    /\ \A a \in Int : ~(In(cut.zone, a) /\ Covers(cut.list, a))

\* A byte of one zone of the list is in no other.
LEMMA Others ==
    ASSUME NEW list, ListOK(list), NEW k \in DOMAIN list, NEW a \in Int
    PROVE  LET elsewhere == (\E l \in 1..(k - 1) : In(list[l], a))
                              \/ (\E l \in (k + 1)..Len(list) : In(list[l], a))
           IN  /\ Covers(list, a) <=> (In(list[k], a) \/ elsewhere)
               /\ ~(In(list[k], a) /\ elsewhere)
<1> DEFINE m == Len(list)
           elsewhere == (\E l \in 1..(k - 1) : In(list[l], a))
                          \/ (\E l \in (k + 1)..m : In(list[l], a))
<1>1. m \in Nat /\ DOMAIN list = 1..m /\ k \in 1..m
  BY DEF ListOK
<1>2. ASSUME NEW l \in 1..m, NEW o \in 1..m, l < o
      PROVE  ~(In(list[l], a) /\ In(list[o], a))
  <2>1. End(list[l]) < list[o].start /\ ZoneOK(list[l]) /\ ZoneOK(list[o])
    BY <1>1, <1>2 DEF ListOK
  <2>2. End(list[l]) \in Nat /\ list[o].start \in Nat
    BY <2>1, ZoneBounds
  <2> QED BY <2>1, <2>2 DEF In
<1> HIDE DEF m
<1>3. ASSUME elsewhere PROVE Covers(list, a) /\ ~In(list[k], a)
  <2>1. CASE \E l \in 1..(k - 1) : In(list[l], a)
    <3>1. PICK l \in 1..(k - 1) : In(list[l], a)
      BY <2>1
    <3>2. l \in 1..m /\ l < k
      BY <1>1
    <3> QED BY <1>1, <1>2, <3>1, <3>2 DEF Covers
  <2>2. CASE \E l \in (k + 1)..m : In(list[l], a)
    <3>1. PICK l \in (k + 1)..m : In(list[l], a)
      BY <2>2
    <3>2. l \in 1..m /\ k < l
      BY <1>1
    <3> QED BY <1>1, <1>2, <3>1, <3>2 DEF Covers
  <2> QED BY <1>3, <2>1, <2>2
<1>4. ASSUME Covers(list, a) PROVE In(list[k], a) \/ elsewhere
  <2>1. PICK l \in 1..m : In(list[l], a)
    BY <1>1, <1>4 DEF Covers
  <2>2. l = k \/ l \in 1..(k - 1) \/ l \in (k + 1)..m
    BY <1>1
  <2> QED BY <2>1, <2>2
<1>5. In(list[k], a) => Covers(list, a)
  BY DEF Covers
<1> QED BY <1>3, <1>4, <1>5 DEF m

LEMMA TakenOK ==
    ASSUME NEW list, ListOK(list), NEW n \in Nat, Multiple(n, DESCRIPTOR),
           FittingZones(list, n) # {}
    PROVE  /\ CutOut(list, Taken(list, n))
           /\ n <= Taken(list, n).zone.size
           /\ Taken(list, n).zone.size < n + 2 * DESCRIPTOR
<1> DEFINE m == Len(list)
           k == Min(FittingZones(list, n))
           old == list[k]
           split == old.size - n >= 2 * DESCRIPTOR
           zone == Zone(old.start, IF split THEN n ELSE old.size)
           rest == Zone(End(zone), End(old) - End(zone) - DESCRIPTOR)
           left == Taken(list, n).list
<1>1. m \in Nat /\ DOMAIN list = 1..m
  BY DEF ListOK
<1>2. k \in 1..m /\ k \in DOMAIN list /\ old.size >= n
  <2>1. FittingZones(list, n) \in SUBSET (0..m)
    BY <1>1 DEF FittingZones
  <2>2. k \in FittingZones(list, n)
    <3> HIDE DEF m
    <3> QED BY <1>1, <2>1, LeastPlace
  <2> HIDE DEF k, m
  <2> QED BY <1>1, <2>2 DEF FittingZones
<1>3. Taken(list, n).zone = zone
  BY DEF Taken
<1>4. left = SubSeq(list, 1, k - 1) \o (IF split THEN <<rest>> ELSE <<>>)
               \o SubSeq(list, k + 1, Len(list))
  BY DEF Taken
<1> HIDE DEF k, m, left
<1>5. ZoneOK(old)
  BY <1>2 DEF ListOK
<1> DEFINE start == old.start
           size == old.size
<1>6. /\ start \in Nat /\ size \in Nat /\ End(old) = start + DESCRIPTOR + size
      /\ HEAP_START <= start /\ start + DESCRIPTOR < LIMIT /\ start + DESCRIPTOR + size <= LIMIT
      /\ Multiple(start, DESCRIPTOR) /\ Multiple(size, DESCRIPTOR) /\ size >= n
      /\ Data(old) = start + DESCRIPTOR
  BY <1>2, <1>5, ZoneBounds DEF ZoneOK
<1>7. ASSUME NEW l \in 1..(k - 1) PROVE End(list[l]) < start /\ l \in DOMAIN list
  <2>1. l \in DOMAIN list /\ l < k
    BY <1>1, <1>2
  <2> QED BY <1>2, <2>1 DEF ListOK
<1>8. ASSUME NEW l \in (k + 1)..Len(list) PROVE End(old) < list[l].start /\ l \in DOMAIN list
  <2>1. l \in DOMAIN list /\ k < l
    BY <1>1, <1>2 DEF m
  <2> QED BY <1>2, <2>1 DEF ListOK
<1>9. k - 1 \in Nat /\ k + 1 \in Nat /\ k - 1 < k + 1 /\ k + 1 <= Len(list) + 1
  BY <1>1, <1>2 DEF m
<1>10. CASE split
  <2>1. zone = Zone(start, n) /\ left = Splice(list, k - 1, <<rest>>, k + 1)
    BY <1>4, <1>10 DEF Splice
  <2>2. zone \in ZoneType /\ zone.start = start /\ zone.size = n
    BY <1>6, <2>1 DEF Zone, ZoneType
  <2> DEFINE middle == start + DESCRIPTOR + n
             room == size - n - DESCRIPTOR
  <2>3. room \in Nat /\ room >= DESCRIPTOR /\ middle \in Nat
    BY <1>6, <1>10, Constants DEF split
  <2>4. Data(zone) = start + DESCRIPTOR /\ End(zone) = middle
    <3> HIDE DEF zone
    <3> QED BY <2>2 DEF Data, End
  <2>5. rest = Zone(middle, room)
    <3>1. End(old) - End(zone) - DESCRIPTOR = room
      BY <1>6, <2>4, Constants
    <3> QED BY <2>4, <3>1
  <2>6. rest \in ZoneType /\ rest.start = middle /\ rest.size = room
    BY <2>3, <2>5 DEF Zone, ZoneType
  <2> HIDE DEF zone, rest
  <2>7. Data(rest) = middle + DESCRIPTOR /\ End(rest) = End(old)
    BY <1>6, <2>3, <2>6, Constants DEF Data, End
  <2>8. ZoneOK(zone)
    BY <1>6, <2>2, <2>4, Constants DEF ZoneOK
  <2>9. ZoneOK(rest)
    <3>1. Multiple(middle, DESCRIPTOR)
      BY <2>4, <2>8, ZoneEnds
    <3>2. Multiple(size - n, DESCRIPTOR) /\ size - n \in Int
      <4> HIDE DEF size
      <4> QED BY <1>6, Constants, MultipleSum
    <3>3. Multiple(room, DESCRIPTOR)
      <4> HIDE DEF size
      <4> QED BY <3>2, Constants, MultipleSum
    <3>4. HEAP_START <= middle /\ middle + DESCRIPTOR < LIMIT
      BY <1>6, <2>3, Constants
    <3> HIDE DEF middle, room
    <3> QED BY <1>6, <2>6, <2>7, <3>1, <3>3, <3>4 DEF ZoneOK
  <2>10. /\ ListOK(left)
         /\ \A a : Covers(left, a) <=>
              \/ In(rest, a)
              \/ \E l \in 1..(k - 1) : In(list[l], a)
              \/ \E l \in (k + 1)..Len(list) : In(list[l], a)
    <3>1. \A l \in 1..(k - 1) : End(list[l]) < rest.start
      <4> TAKE l \in 1..(k - 1)
      <4>1. End(list[l]) < start /\ ZoneOK(list[l])
        BY <1>7 DEF ListOK
      <4>2. End(list[l]) \in Nat
        BY <4>1, ZoneBounds
      <4> QED BY <1>6, <2>6, <4>1, <4>2, Constants
    <3>2. \A l \in (k + 1)..Len(list) : End(rest) < list[l].start
      BY <1>8, <2>7
    <3> QED BY <1>9, <2>1, <2>9, <3>1, <3>2, Inserted
  <2>11. ASSUME NEW a \in Int
         PROVE  (In(old, a) <=> In(zone, a) \/ In(rest, a)) /\ ~(In(zone, a) /\ In(rest, a))
    BY <1>6, <2>2, <2>3, <2>4, <2>6, <2>7, Constants DEF In
  <2>12. ASSUME NEW a \in Int
         PROVE  /\ Covers(list, a) <=> (In(zone, a) \/ Covers(left, a))
                /\ ~(In(zone, a) /\ Covers(left, a))
    BY <1>2, <2>10, <2>11, Others
  <2>13. n <= zone.size /\ zone.size < n + 2 * DESCRIPTOR
    BY <2>2, Constants
  <2> QED BY <1>3, <2>8, <2>10, <2>12, <2>13 DEF CutOut, left
<1>11. CASE ~split
  <2>1. zone = Zone(start, size) /\ left = Splice(list, k - 1, <<>>, k + 1)
    BY <1>4, <1>11 DEF Splice
  <2>2. zone = old
    BY <1>5, <2>1 DEF Zone, ZoneOK, ZoneType
  <2> HIDE DEF zone, rest
  <2>3. /\ ListOK(left)
        /\ \A a : Covers(left, a) <=>
             \/ \E l \in 1..(k - 1) : In(list[l], a)
             \/ \E l \in (k + 1)..Len(list) : In(list[l], a)
    BY <1>9, <2>1, Removed
  <2>4. ASSUME NEW a \in Int
        PROVE  /\ Covers(list, a) <=> (In(zone, a) \/ Covers(left, a))
               /\ ~(In(zone, a) /\ Covers(left, a))
    BY <1>2, <2>2, <2>3, Others
  <2>5. n <= size /\ size < n + 2 * DESCRIPTOR
    BY <1>6, <1>11, Constants DEF split
  <2> QED BY <1>3, <1>5, <2>2, <2>3, <2>4, <2>5 DEF CutOut, left
<1> QED BY <1>10, <1>11

\* A part of the zone may be given back.
LEMMA GivenBack ==
    ASSUME NEW list, NEW taken, CutOut(list, taken), NEW zone, ZoneOK(zone),
           NEW start \in Nat, NEW n \in Nat \ {0},
           Multiple(start, DESCRIPTOR), Multiple(n, DESCRIPTOR),
           HEAP_START <= start, start + DESCRIPTOR < LIMIT, start + n <= LIMIT,
           \A a \in Int : /\ In(taken.zone, a) <=> (In(zone, a) \/ (start <= a /\ a < start + n))
                          /\ ~(In(zone, a) /\ start <= a /\ a < start + n)
    PROVE  CutOut(list, [zone |-> zone, list |-> InternalFree(taken.list, start, n)])
<1> DEFINE left == InternalFree(taken.list, start, n)
           cut == [zone |-> zone, list |-> left]
<1>1. ListOK(taken.list)
  BY DEF CutOut
<1>2. \A a \in start..(start + n - 1) : ~Covers(taken.list, a)
  BY DEF CutOut
<1>3. /\ ListOK(left)
      /\ \A a \in Int : Covers(left, a) <=> (Covers(taken.list, a) \/ (start <= a /\ a < start + n))
  BY <1>1, <1>2, InternalFreeOK
<1> HIDE DEF left
<1>4. cut.zone = zone /\ cut.list = left
  OBVIOUS
<1> HIDE DEF cut
<1>5. ASSUME NEW a \in Int
      PROVE  /\ Covers(list, a) <=> (In(zone, a) \/ Covers(left, a))
             /\ ~(In(zone, a) /\ Covers(left, a))
  BY <1>3 DEF CutOut
<1>6. CutOut(list, cut)
  BY <1>3, <1>4, <1>5 DEF CutOut
<1> QED BY <1>6 DEF cut, left

\* The first aligned address of the zone, and the length of what comes before.
LEMMA AlignedAddress ==
    ASSUME NEW address \in Nat, Multiple(address, DESCRIPTOR), NEW alignment \in Nat \ {0},
           alignment % DESCRIPTOR = 0 \/ DESCRIPTOR % alignment = 0,
           address + alignment <= WORD
    PROVE  LET data == RoundUp(address, alignment)
           IN  /\ data \in Nat /\ address <= data /\ data < address + alignment
               /\ data % alignment = 0 /\ Multiple(data, DESCRIPTOR)
<1> DEFINE data == RoundUp(address, alignment)
<1>1. data \in Nat /\ Multiple(data, alignment)
  BY RoundUpType
<1>2. /\ address <= data /\ data < address + alignment
      /\ \A m \in Int : Multiple(m, alignment) /\ address <= m => data <= m
  BY RoundUpExact
<1> HIDE DEF data
<1>3. data % alignment = 0
  BY <1>1, RemainderOfMultiple
<1>4. Multiple(data, DESCRIPTOR)
  <2>1. CASE alignment % DESCRIPTOR = 0
    <3>1. Multiple(alignment, DESCRIPTOR)
      BY <2>1, Constants, RemainderOfMultiple
    <3>2. DESCRIPTOR \in Nat /\ alignment \in Int /\ data \in Int
      BY <1>1, Constants
    <3> QED BY <1>1, <3>1, <3>2, MultipleOfMultiple
  <2>2. CASE DESCRIPTOR % alignment = 0
    <3>1. Multiple(DESCRIPTOR, alignment)
      BY <2>2, Constants, RemainderOfMultiple
    <3>2. DESCRIPTOR \in Int /\ alignment \in Nat /\ address \in Int
      BY Constants
    <3>3. Multiple(address, alignment)
      BY <3>1, <3>2, MultipleOfMultiple
    <3>4. data <= address
      BY <1>2, <3>2, <3>3
    <3>5. data = address
      BY <1>1, <1>2, <3>4
    <3> QED BY <3>5
  <2> QED BY <2>1, <2>2
<1> QED BY <1>1, <1>2, <1>3, <1>4 DEF data

LEMMA FrontTrimmedOK ==
    ASSUME NEW list, NEW taken, CutOut(list, taken), NEW room \in Nat,
           NEW alignment \in Nat \ {0},
           alignment % DESCRIPTOR = 0 \/ DESCRIPTOR % alignment = 0,
           taken.zone.size >= room + alignment + DESCRIPTOR
    PROVE  /\ CutOut(list, FrontTrimmed(taken, alignment))
           /\ room <= FrontTrimmed(taken, alignment).zone.size
           /\ Data(FrontTrimmed(taken, alignment).zone) % alignment = 0
<1> DEFINE old == taken.zone
           start == old.start
           size == old.size
           data == RoundUp(Data(old), alignment)
           zone == Zone(data - DESCRIPTOR, Minus(End(old), data))
           x == data - DESCRIPTOR - start
           result == FrontTrimmed(taken, alignment)
<1>1. ZoneOK(old) /\ ListOK(taken.list)
  BY DEF CutOut
<1>2. /\ start \in Nat /\ size \in Nat /\ End(old) = start + DESCRIPTOR + size
      /\ HEAP_START <= start /\ start + DESCRIPTOR < LIMIT /\ start + DESCRIPTOR + size <= LIMIT
      /\ Multiple(start, DESCRIPTOR) /\ Multiple(size, DESCRIPTOR)
      /\ Data(old) = start + DESCRIPTOR
      /\ Data(old) \in Nat /\ Multiple(Data(old), DESCRIPTOR) /\ Multiple(End(old), DESCRIPTOR)
      /\ End(old) \in Nat /\ size >= room + alignment + DESCRIPTOR
  BY <1>1, ZoneBounds, ZoneEnds DEF ZoneOK
<1>3. Data(old) + alignment <= WORD
  <2> HIDE DEF old, start, size
  <2> QED BY <1>2, Constants
<1>4. /\ data \in Nat /\ Data(old) <= data /\ data < Data(old) + alignment
      /\ data % alignment = 0 /\ Multiple(data, DESCRIPTOR)
  <2> HIDE DEF old, start, size
  <2> QED BY <1>2, <1>3, AlignedAddress
<1>5. result = [zone |-> zone, list |-> InternalFree(taken.list, start, x)]
  BY DEF FrontTrimmed
<1> HIDE DEF old, start, size, data, result
<1>11. Minus(End(old), data) = End(old) - data
  <2>1. data <= End(old) /\ End(old) <= LIMIT /\ End(old) \in Nat /\ data \in Nat
    BY <1>2, <1>4, Constants
  <2>2. End(old) - data < WORD
    BY <1>2, <2>1, <1>4, Constants
  <2> QED BY <2>1, <2>2, DifferenceExact
<1>6. /\ zone \in ZoneType /\ zone.start = data - DESCRIPTOR /\ zone.size = End(old) - data
      /\ zone.size \in Nat /\ zone.start \in Nat
  BY <1>2, <1>4, <1>11, Constants DEF Zone, ZoneType
<1> HIDE DEF zone
<1>7. Data(zone) = data /\ End(zone) = End(old)
  BY <1>2, <1>4, <1>6, Constants DEF Data, End
<1>8. ZoneOK(zone)
  <2>1. Multiple(data - DESCRIPTOR, DESCRIPTOR) /\ data - DESCRIPTOR \in Int
    BY <1>4, Constants, MultipleSum
  <2>2. Multiple(End(old) - data, DESCRIPTOR)
    BY <1>2, <1>4, MultipleSum, Constants
  <2>3. HEAP_START <= data - DESCRIPTOR /\ data < LIMIT /\ End(old) <= LIMIT
    BY <1>2, <1>4, Constants
  <2> QED BY <1>6, <1>7, <2>1, <2>2, <2>3 DEF ZoneOK
<1>9. room <= zone.size /\ Data(zone) % alignment = 0
  BY <1>2, <1>4, <1>6, <1>7, Constants
<1>10. CutOut(list, result)
  <2>1. x \in Nat /\ Multiple(x, DESCRIPTOR)
    <3>1. Multiple(data - DESCRIPTOR, DESCRIPTOR) /\ data - DESCRIPTOR \in Int
      BY <1>4, Constants, MultipleSum
    <3>2. Multiple(data - DESCRIPTOR - start, DESCRIPTOR)
      BY <1>2, <3>1, Constants, MultipleSum
    <3> QED BY <1>2, <1>4, <3>2, Constants
  <2>2. CASE x = 0
    <3>1. zone.start = start /\ zone.size = size
      BY <1>2, <1>4, <1>6, <2>2, Constants
    <3>2. zone = old
      <4>1. old \in ZoneType
        BY <1>1 DEF ZoneOK
      <4> QED BY <1>6, <3>1, <4>1 DEF ZoneType, start, size
    <3>3. InternalFree(taken.list, start, x) = taken.list
      <4> HIDE DEF x
      <4> QED BY <2>2 DEF InternalFree
    <3>4. result.zone = taken.zone /\ result.list = taken.list
      BY <1>5, <3>2, <3>3 DEF old
    <3> QED BY <3>4 DEF CutOut
  <2>3. CASE x # 0
    <3>1. start + DESCRIPTOR < LIMIT /\ start + x <= LIMIT
      BY <1>2, <1>4, Constants
    <3>2. ASSUME NEW a \in Int
          PROVE  /\ In(old, a) <=> (In(zone, a) \/ (start <= a /\ a < start + x))
                 /\ ~(In(zone, a) /\ start <= a /\ a < start + x)
      <4>1. In(old, a) <=> start <= a /\ a < End(old)
        BY DEF In, start
      <4>2. In(zone, a) <=> start + x <= a /\ a < End(old)
        BY <1>2, <1>4, <1>6, <1>7, Constants DEF In
      <4>3. start + x <= End(old)
        BY <1>2, <1>4, Constants
      <4> HIDE DEF x
      <4> QED BY <1>2, <2>1, <4>1, <4>2, <4>3
    <3> HIDE DEF x
    <3>3. CutOut(list, [zone |-> zone, list |-> InternalFree(taken.list, start, x)])
      <4>1. x \in Nat \ {0}
        BY <2>1, <2>3
      <4>2. \A a \in Int : /\ In(taken.zone, a) <=> (In(zone, a) \/ (start <= a /\ a < start + x))
                           /\ ~(In(zone, a) /\ start <= a /\ a < start + x)
        BY <3>2 DEF old
      <4> QED BY <1>2, <1>8, <2>1, <3>1, <4>1, <4>2, GivenBack
    <3> QED BY <1>5, <3>3
  <2> QED BY <2>2, <2>3
<1> QED BY <1>5, <1>9, <1>10 DEF result

LEMMA BackTrimmedOK ==
    ASSUME NEW list, NEW taken, CutOut(list, taken), NEW room \in Nat,
           Multiple(room, DESCRIPTOR), room <= taken.zone.size
    PROVE  /\ CutOut(list, BackTrimmed(taken, room))
           /\ room <= BackTrimmed(taken, room).zone.size
           /\ BackTrimmed(taken, room).zone.size < room + 2 * DESCRIPTOR
           /\ Data(BackTrimmed(taken, room).zone) = Data(taken.zone)
<1> DEFINE old == taken.zone
           start == old.start
           size == old.size
           zone == Zone(start, room)
           middle == Data(old) + room
           result == BackTrimmed(taken, room)
<1>1. ZoneOK(old) /\ ListOK(taken.list)
  BY DEF CutOut
<1>2. /\ start \in Nat /\ size \in Nat /\ End(old) = start + DESCRIPTOR + size
      /\ HEAP_START <= start /\ start + DESCRIPTOR < LIMIT /\ start + DESCRIPTOR + size <= LIMIT
      /\ Multiple(start, DESCRIPTOR) /\ Multiple(size, DESCRIPTOR)
      /\ Data(old) = start + DESCRIPTOR
      /\ Data(old) \in Nat /\ Multiple(Data(old), DESCRIPTOR) /\ room <= size
  BY <1>1, ZoneBounds, ZoneEnds DEF ZoneOK
<1>5. Minus(size, room) = size - room
  <2> HIDE DEF old, start, size
  <2>1. size - room < WORD
    BY <1>2, Constants
  <2> QED BY <1>2, <2>1, DifferenceExact
<1>3. CASE size - room >= 2 * DESCRIPTOR
  <2>1. result = [zone |-> zone, list |-> InternalFree(taken.list, middle, size - room)]
    BY <1>3, <1>5 DEF BackTrimmed
  <2> HIDE DEF old, start, size, result
  <2>2. zone \in ZoneType /\ zone.start = start /\ zone.size = room
    BY <1>2 DEF Zone, ZoneType
  <2> HIDE DEF zone
  <2>3. Data(zone) = start + DESCRIPTOR /\ End(zone) = middle
    BY <1>2, <2>2, Constants DEF Data, End
  <2>4. ZoneOK(zone)
    <3>1. middle <= LIMIT
      BY <1>2, Constants
    <3> QED BY <1>2, <2>2, <2>3, <3>1 DEF ZoneOK
  <2>5. /\ middle \in Nat /\ size - room \in Nat \ {0} /\ HEAP_START <= middle
        /\ middle + DESCRIPTOR < LIMIT /\ middle + (size - room) <= LIMIT
    BY <1>2, <1>3, Constants
  <2>6. Multiple(middle, DESCRIPTOR) /\ Multiple(size - room, DESCRIPTOR)
    BY <1>2, Constants, MultipleSum
  <2>7. ASSUME NEW a \in Int
        PROVE  /\ In(old, a) <=> (In(zone, a) \/ (middle <= a /\ a < middle + (size - room)))
               /\ ~(In(zone, a) /\ middle <= a /\ a < middle + (size - room))
    <3>1. In(old, a) <=> start <= a /\ a < End(old)
      BY DEF In, start
    <3>2. In(zone, a) <=> start <= a /\ a < middle
      BY <2>2, <2>3 DEF In
    <3>3. start <= middle /\ middle + (size - room) = End(old) /\ middle <= End(old)
      BY <1>2, <1>3, Constants
    <3> HIDE DEF middle
    <3> QED BY <1>2, <1>3, <2>5, <3>1, <3>2, <3>3
  <2>8. CutOut(list, [zone |-> zone, list |-> InternalFree(taken.list, middle, size - room)])
    <3> DEFINE n == size - room
    <3>1. \A a \in Int : /\ In(taken.zone, a) <=> (In(zone, a) \/ (middle <= a /\ a < middle + n))
                         /\ ~(In(zone, a) /\ middle <= a /\ a < middle + n)
      BY <2>7 DEF old
    <3> HIDE DEF n, middle
    <3>2. n \in Nat \ {0} /\ middle + n <= LIMIT /\ Multiple(n, DESCRIPTOR)
      BY <2>5, <2>6 DEF n
    <3>3. CutOut(list, [zone |-> zone, list |-> InternalFree(taken.list, middle, n)])
      BY <2>4, <2>5, <2>6, <3>1, <3>2, GivenBack
    <3> QED BY <3>3 DEF n
  <2>9. room < room + 2 * DESCRIPTOR
    BY Constants
  <2> QED BY <1>2, <2>1, <2>2, <2>3, <2>8, <2>9 DEF result, old
<1>4. CASE ~(size - room >= 2 * DESCRIPTOR)
  <2>1. result = taken
    BY <1>4, <1>5 DEF BackTrimmed
  <2>2. size < room + 2 * DESCRIPTOR
    <3> HIDE DEF size
    <3> QED BY <1>2, <1>4, Constants
  <2> QED BY <1>2, <2>1, <2>2
<1> QED BY <1>3, <1>4

-----------------------------------------------------------------------------
(* The inductive invariant: free and used zones lie in the heap, share no  *)
(* byte and leave none out.                                                *)

Tiling ==
    /\ \A zone \in used : \A a \in Int : ~(In(zone, a) /\ Covers(freemem, a))
    /\ \A y, z \in used : \A a \in Int : In(y, a) /\ In(z, a) => y = z
    /\ \A a \in Arena : Covers(freemem, a) \/ \E zone \in used : In(zone, a)

Inv ==
    /\ ListOK(freemem)
    /\ \A zone \in used : ZoneOK(zone)
    /\ Tiling
    /\ reply.address \in Arena \cup {NULL}
    /\ cleared \subseteq 0..(WORD - 1)

\* What malloc(dim, a) may be asked.  The alignment and sizeof() are powers of
\* two, and the size is not so close to 2^64 that the second rounding wraps
\* around: the code notices only that the first addition did.
RequestsFit ==
    /\ 0 \notin Alignments
    /\ \A size \in Sizes, alignment \in Alignments :
         LET dim == RoundUp(size, DESCRIPTOR)
         IN  IsPowerOfTwo(alignment) =>
               /\ alignment % DESCRIPTOR = 0 \/ DESCRIPTOR % alignment = 0
               /\ \/ (dim + alignment + DESCRIPTOR) % WORD < dim
                  \/ dim + alignment + 2 * DESCRIPTOR <= WORD

LEMMA ArenaBytes ==
    /\ Arena = HEAP_START..(LIMIT - 1) /\ Arena \subseteq Int
    /\ \A a \in Int : a \in Arena <=> HEAP_START <= a /\ a < LIMIT
    /\ \A zone : ZoneOK(zone) =>
         /\ Bytes(zone) \subseteq Arena /\ Data(zone) \in Arena /\ zone.start \in Arena
         /\ \A a \in Int : a \in Bytes(zone) <=> In(zone, a)
<1>1. Arena = HEAP_START..(LIMIT - 1)
  <2>1. HEAP_START + (HEAP_SIZE - 1) = (HEAP_START + HEAP_SIZE) - 1
    BY Constants
  <2> QED BY <2>1 DEF Arena, LIMIT
<1>2. /\ Arena \subseteq Int
      /\ \A a \in Int : a \in Arena <=> HEAP_START <= a /\ a < LIMIT
  BY <1>1, Constants
<1>3. ASSUME NEW zone, ZoneOK(zone)
      PROVE  /\ Bytes(zone) \subseteq Arena /\ Data(zone) \in Arena /\ zone.start \in Arena
             /\ \A a \in Int : a \in Bytes(zone) <=> In(zone, a)
  <2>1. /\ zone.start \in Nat /\ End(zone) \in Nat /\ Data(zone) \in Nat
        /\ zone.start < LIMIT /\ Data(zone) = zone.start + DESCRIPTOR
    BY <1>3, ZoneBounds
  <2>2. HEAP_START <= zone.start /\ Data(zone) < LIMIT /\ End(zone) <= LIMIT
    BY <1>3 DEF ZoneOK
  <2>3. \A a \in Int : a \in Bytes(zone) <=> In(zone, a)
    BY <2>1 DEF Bytes, In
  <2>4. Bytes(zone) \subseteq Arena
    BY <1>1, <2>1, <2>2, Constants DEF Bytes
  <2>5. Data(zone) \in Arena /\ zone.start \in Arena
    BY <1>2, <2>1, <2>2, Constants
  <2> QED BY <2>3, <2>4, <2>5
<1> QED BY <1>1, <1>2, <1>3

LEMMA InitInv == Init => Inv
<1> SUFFICES ASSUME Init PROVE Inv
  OBVIOUS
<1> DEFINE zone == Zone(HEAP_START, HEAP_SIZE - DESCRIPTOR)
<1>1. HEAP_SIZE - DESCRIPTOR \in Nat
  BY Constants
<1>2. /\ zone \in ZoneType /\ zone.start = HEAP_START /\ zone.size = HEAP_SIZE - DESCRIPTOR
      /\ Data(zone) = HEAP_START + DESCRIPTOR /\ End(zone) = LIMIT
  <2>1. zone \in ZoneType /\ zone.start = HEAP_START /\ zone.size = HEAP_SIZE - DESCRIPTOR
    BY <1>1, Constants DEF Zone, ZoneType
  <2> HIDE DEF zone
  <2> QED BY <2>1, Constants DEF Data, End, LIMIT
<1>3. freemem = <<zone>> /\ used = {} /\ reply.address = NULL /\ cleared = {}
  BY DEF Init
<1> HIDE DEF zone
<1>4. ZoneOK(zone)
  <2>1. Multiple(HEAP_SIZE - DESCRIPTOR, DESCRIPTOR)
    BY Constants, MultipleSum
  <2> QED BY <1>2, <2>1, Constants DEF ZoneOK, LIMIT
<1>5. ListOK(freemem) /\ \A a : Covers(freemem, a) <=> In(zone, a)
  BY <1>2, <1>3, <1>4 DEF ListOK, Covers
<1>6. \A a \in Arena : Covers(freemem, a)
  BY <1>2, <1>5, ArenaBytes DEF In
<1> QED BY <1>3, <1>5, <1>6 DEF Inv, Tiling

\* What malloc() hands out was free, and everything else stays what it was.
LEMMA GrantInv ==
    ASSUME Inv, NEW size, NEW alignment, NEW taken, CutOut(freemem, taken),
           Grant(size, alignment, taken), cleared' \subseteq 0..(WORD - 1)
    PROVE  Inv'
<1>1. /\ freemem' = taken.list /\ used' = used \cup {taken.zone}
      /\ reply'.address = Data(taken.zone)
  BY DEF Grant
<1>2. ZoneOK(taken.zone) /\ ListOK(taken.list)
  BY DEF CutOut
<1>3. \A a \in Int : /\ Covers(freemem, a) <=> (In(taken.zone, a) \/ Covers(taken.list, a))
                     /\ ~(In(taken.zone, a) /\ Covers(taken.list, a))
  BY DEF CutOut
<1>4. ListOK(freemem)' /\ (\A zone \in used : ZoneOK(zone))'
  BY <1>1, <1>2 DEF Inv
<1>5. \A zone \in used' : \A a \in Int : ~(In(zone, a) /\ Covers(freemem', a))
  BY <1>1, <1>3 DEF Inv, Tiling
<1>6. \A y, z \in used' : \A a \in Int : In(y, a) /\ In(z, a) => y = z
  BY <1>1, <1>3 DEF Inv, Tiling
<1>7. ASSUME NEW a \in Arena
      PROVE  Covers(freemem', a) \/ \E zone \in used' : In(zone, a)
  BY <1>1, <1>3, ArenaBytes DEF Inv, Tiling
<1>8. (reply.address \in Arena \cup {NULL})'
  BY <1>1, <1>2, ArenaBytes DEF Arena
<1>9. Tiling'
  BY <1>5, <1>6, <1>7 DEF Tiling, Arena, In, End, Data, Covers
<1> QED BY <1>4, <1>8, <1>9 DEF Inv

LEMMA RefuseInv ==
    ASSUME Inv, NEW size, NEW alignment, Refuse(size, alignment),
           cleared' \subseteq 0..(WORD - 1)
    PROVE  Inv'
<1>1. freemem' = freemem /\ used' = used /\ reply'.address = NULL
  BY DEF Refuse
<1>2. ListOK(freemem)' /\ (\A zone \in used : ZoneOK(zone))'
  BY <1>1 DEF Inv
<1>3. Tiling'
  BY <1>1 DEF Inv, Tiling
<1> QED BY <1>1, <1>2, <1>3 DEF Inv

LEMMA FreeInv ==
    ASSUME Inv, NEW zone \in used, Free(zone)
    PROVE  Inv'
<1> DEFINE start == zone.start
           n == zone.size + DESCRIPTOR
<1>1. /\ freemem' = InternalFree(freemem, start, n) /\ used' = used \ {zone}
      /\ reply' = reply /\ cleared' = cleared
  BY DEF Free
<1>2. ZoneOK(zone) /\ ListOK(freemem)
  BY DEF Inv
<1>3. /\ start \in Nat /\ n \in Nat \ {0} /\ End(zone) = start + n /\ zone.size \in Nat
      /\ HEAP_START <= start /\ start + DESCRIPTOR < LIMIT /\ start + n <= LIMIT
      /\ Multiple(start, DESCRIPTOR)
  BY <1>2, ZoneBounds, Constants DEF ZoneOK
<1>4. Multiple(n, DESCRIPTOR)
  <2> DEFINE size == zone.size
  <2>1. size \in Nat /\ Multiple(size, DESCRIPTOR)
    BY <1>2, <1>3 DEF ZoneOK
  <2> HIDE DEF size
  <2>2. Multiple(size + DESCRIPTOR, DESCRIPTOR)
    BY <2>1, Constants, MultipleSum
  <2> QED BY <2>2 DEF size
<1> HIDE DEF n
<1>5. \A a \in Int : In(zone, a) <=> start <= a /\ a < start + n
  BY <1>3 DEF In
<1> HIDE DEF start
<1>6. \A a \in start..(start + n - 1) : ~Covers(freemem, a)
  BY <1>3, <1>5 DEF Inv, Tiling
<1>7. /\ ListOK(freemem')
      /\ \A a \in Int : Covers(freemem', a) <=> (Covers(freemem, a) \/ In(zone, a))
  BY <1>1, <1>2, <1>3, <1>4, <1>5, <1>6, InternalFreeOK
<1>8. \A other \in used' : \A a \in Int : ~(In(other, a) /\ Covers(freemem', a))
  BY <1>1, <1>7 DEF Inv, Tiling
<1>9. \A y, z \in used' : \A a \in Int : In(y, a) /\ In(z, a) => y = z
  BY <1>1 DEF Inv, Tiling
<1>10. \A a \in Arena : Covers(freemem', a) \/ \E other \in used' : In(other, a)
  BY <1>1, <1>7, ArenaBytes DEF Inv, Tiling
<1>11. Tiling'
  BY <1>8, <1>9, <1>10 DEF Tiling, Arena, In, End, Data, Covers
<1> QED BY <1>1, <1>7, <1>11 DEF Inv, ListOK

-----------------------------------------------------------------------------
(* The steps.                                                              *)

LEMMA ClearType ==
    ASSUME NEW address, NEW size, Clear(address, size)
    PROVE  cleared' \subseteq 0..(WORD - 1)
BY DEF Clear

LEMMA MallocInv ==
    ASSUME Inv, NEW size \in Sizes, Malloc(size)
    PROVE  Inv'
<1> DEFINE n == RoundUp(size, DESCRIPTOR)
<1>1. size \in Nat
  BY HeapAssumption
<1>2. n \in Nat /\ Multiple(n, DESCRIPTOR)
  BY <1>1, Constants, RoundUpType
<1> HIDE DEF n
<1>3. CASE FittingZones(freemem, n) = {}
  <2>1. Refuse(size, 0) /\ Clear(NULL, size)
    BY <1>3 DEF Malloc, n
  <2> QED BY <2>1, ClearType, RefuseInv
<1>4. CASE FittingZones(freemem, n) # {}
  <2>1. Grant(size, 0, Taken(freemem, n)) /\ Clear(Data(Taken(freemem, n).zone), size)
    BY <1>4 DEF Malloc, n
  <2>2. CutOut(freemem, Taken(freemem, n))
    BY <1>2, <1>4, TakenOK DEF Inv
  <2> QED BY <2>1, <2>2, ClearType, GrantInv
<1> QED BY <1>3, <1>4

\* The aligned zone that is cut for a request: sizes, alignment, and no loss.
LEMMA AlignedCut ==
    ASSUME RequestsFit, ListOK(freemem), NEW size \in Sizes, NEW alignment \in Alignments,
           IsPowerOfTwo(alignment),
           ~((RoundUp(size, DESCRIPTOR) + alignment + DESCRIPTOR) % WORD < RoundUp(size, DESCRIPTOR))
    PROVE  LET dim == RoundUp(size, DESCRIPTOR)
               newdim == (dim + alignment + DESCRIPTOR) % WORD
               n == RoundUp(newdim, DESCRIPTOR)
               taken == Taken(freemem, n)
               cut == BackTrimmed(FrontTrimmed(taken, alignment), dim)
           IN  /\ dim \in Nat /\ newdim = dim + alignment + DESCRIPTOR /\ n \in Nat /\ newdim <= n
               /\ \A m \in Int : Multiple(m, DESCRIPTOR) /\ newdim <= m => n <= m
               /\ FittingZones(freemem, n) # {} =>
                    /\ CutOut(freemem, cut)
                    /\ dim <= cut.zone.size /\ cut.zone.size < dim + 2 * DESCRIPTOR
                    /\ Data(cut.zone) % alignment = 0
<1> DEFINE dim == RoundUp(size, DESCRIPTOR)
           newdim == (dim + alignment + DESCRIPTOR) % WORD
           n == RoundUp(newdim, DESCRIPTOR)
           taken == Taken(freemem, n)
           trimmed == FrontTrimmed(taken, alignment)
           cut == BackTrimmed(trimmed, dim)
<1>1. size \in Nat /\ alignment \in Nat \ {0}
  BY HeapAssumption DEF RequestsFit
<1>2. dim \in Nat /\ Multiple(dim, DESCRIPTOR)
  BY <1>1, Constants, RoundUpType
<1>3. /\ alignment % DESCRIPTOR = 0 \/ DESCRIPTOR % alignment = 0
      /\ dim + alignment + 2 * DESCRIPTOR <= WORD
  <2>1. /\ alignment % DESCRIPTOR = 0 \/ DESCRIPTOR % alignment = 0
        /\ \/ newdim < dim
           \/ dim + alignment + 2 * DESCRIPTOR <= WORD
    BY DEF RequestsFit
  <2>2. ~(newdim < dim)
    OBVIOUS
  <2> HIDE DEF newdim, dim
  <2> QED BY <2>1, <2>2
<1> HIDE DEF dim
<1>4. newdim = dim + alignment + DESCRIPTOR
  <2> DEFINE sum == dim + alignment + DESCRIPTOR
  <2>1. sum \in 0..(WORD - 1)
    BY <1>1, <1>2, <1>3, Constants
  <2> HIDE DEF sum
  <2>2. sum % WORD = sum
    BY <2>1, Constants, SmallRemainder
  <2> QED BY <2>2 DEF sum
<1> HIDE DEF newdim
<1>5. newdim \in Nat /\ newdim + DESCRIPTOR <= WORD
  BY <1>1, <1>2, <1>3, <1>4, Constants
<1>6. /\ n \in Nat /\ Multiple(n, DESCRIPTOR) /\ newdim <= n
      /\ \A m \in Int : Multiple(m, DESCRIPTOR) /\ newdim <= m => n <= m
  BY <1>5, Constants, RoundUpType, RoundUpExact
<1> HIDE DEF n
<1>7. ASSUME FittingZones(freemem, n) # {}
      PROVE  /\ CutOut(freemem, cut)
             /\ dim <= cut.zone.size /\ cut.zone.size < dim + 2 * DESCRIPTOR
             /\ Data(cut.zone) % alignment = 0
  <2>1. CutOut(freemem, taken) /\ n <= taken.zone.size
    BY <1>6, <1>7, TakenOK
  <2>2. taken.zone.size \in Nat
    BY <2>1, ZoneBounds DEF CutOut
  <2> HIDE DEF taken
  <2>3. taken.zone.size >= dim + alignment + DESCRIPTOR
    <3> DEFINE room == taken.zone.size
    <3>1. room \in Nat /\ n <= room
      BY <2>1, <2>2
    <3> HIDE DEF room
    <3>2. room >= dim + alignment + DESCRIPTOR
      BY <1>1, <1>2, <1>4, <1>6, <3>1, Constants
    <3> QED BY <3>2 DEF room
  <2>4. /\ CutOut(freemem, trimmed) /\ dim <= trimmed.zone.size
        /\ Data(trimmed.zone) % alignment = 0
    BY <1>1, <1>2, <1>3, <2>1, <2>3, FrontTrimmedOK
  <2> HIDE DEF trimmed
  <2>5. /\ CutOut(freemem, cut) /\ dim <= cut.zone.size /\ cut.zone.size < dim + 2 * DESCRIPTOR
        /\ Data(cut.zone) = Data(trimmed.zone)
    BY <1>2, <2>4, BackTrimmedOK
  <2> QED BY <2>4, <2>5
<1> QED BY <1>2, <1>4, <1>6, <1>7 DEF dim, newdim, n

LEMMA MallocAlignedInv ==
    ASSUME RequestsFit, Inv, NEW size \in Sizes, NEW alignment \in Alignments,
           MallocAligned(size, alignment)
    PROVE  Inv'
<1> DEFINE dim == RoundUp(size, DESCRIPTOR)
           newdim == (dim + alignment + DESCRIPTOR) % WORD
           n == RoundUp(newdim, DESCRIPTOR)
           taken == Taken(freemem, n)
           cut == BackTrimmed(FrontTrimmed(taken, alignment), dim)
<1>1. CASE ~IsPowerOfTwo(alignment) \/ newdim < dim
  <2>1. Refuse(size, alignment) /\ cleared' = {}
    BY <1>1 DEF MallocAligned
  <2> QED BY <2>1, RefuseInv
<1>2. CASE ~(~IsPowerOfTwo(alignment) \/ newdim < dim)
  <2>1. CASE FittingZones(freemem, n) = {}
    <3>1. Refuse(size, alignment) /\ Clear(NULL, newdim)
      BY <1>2, <2>1 DEF MallocAligned
    <3> QED BY <3>1, ClearType, RefuseInv
  <2>2. CASE FittingZones(freemem, n) # {}
    <3>1. Grant(size, alignment, cut) /\ Clear(Data(taken.zone), newdim)
      BY <1>2, <2>2 DEF MallocAligned
    <3>2. CutOut(freemem, cut)
      <4>1. ListOK(freemem) /\ IsPowerOfTwo(alignment) /\ ~(newdim < dim)
        BY <1>2 DEF Inv
      <4> QED BY <2>2, <4>1, AlignedCut
    <3> HIDE DEF cut, taken, newdim
    <3> QED BY <3>1, <3>2, ClearType, GrantInv
  <2> QED BY <2>1, <2>2
<1> QED BY <1>1, <1>2

LEMMA NextInv ==
    ASSUME RequestsFit, Inv, [Next]_vars
    PROVE  Inv'
<1>1. ASSUME NEW size \in Sizes, Malloc(size) PROVE Inv'
  BY <1>1, MallocInv
<1>2. ASSUME NEW size \in Sizes, NEW alignment \in Alignments, MallocAligned(size, alignment)
      PROVE  Inv'
  BY <1>2, MallocAlignedInv
<1>3. ASSUME NEW zone \in used, Free(zone) PROVE Inv'
  BY <1>3, FreeInv
<1>4. CASE UNCHANGED vars
  BY <1>4 DEF vars, Inv, Tiling
<1> QED BY <1>1, <1>2, <1>3, <1>4 DEF Next

-----------------------------------------------------------------------------
(* What the invariant means.                                               *)

LEMMA InvZonesOK == Inv => ZonesOK
<1> SUFFICES ASSUME Inv PROVE ZonesOK
  OBVIOUS
<1>1. ListOK(freemem) /\ \A k \in DOMAIN freemem : ZoneOK(freemem[k])
  BY DEF Inv, ListOK
<1>2. \A zone : ZoneOK(zone) => zone \in [start : Arena, size : Nat]
  <2> SUFFICES ASSUME NEW zone, ZoneOK(zone) PROVE zone \in [start : Arena, size : Nat]
    OBVIOUS
  <2>1. zone.start \in Arena /\ zone \in ZoneType
    BY ArenaBytes DEF ZoneOK
  <2> QED BY <2>1 DEF ZoneType
<1>3. freemem \in Seq([start : Arena, size : Nat])
  <2> DEFINE S == [start : Arena, size : Nat]
  <2>1. freemem \in Seq(ZoneType) /\ \A k \in DOMAIN freemem : freemem[k] \in S
    BY <1>1, <1>2 DEF ListOK
  <2> HIDE DEF S
  <2>2. Len(freemem) \in Nat /\ DOMAIN freemem = 1..Len(freemem) /\ freemem \in [1..Len(freemem) -> S]
    BY <2>1
  <2>3. freemem \in Seq(S)
    BY <2>2
  <2> QED BY <2>3 DEF S
<1>4. TypeOK
  BY <1>2, <1>3 DEF TypeOK, Inv
<1>5. \A k \in DOMAIN freemem : ZoneOK(freemem[k])
  BY <1>1
<1>6. ASSUME NEW a \in Arena
      PROVE  Cardinality({zone \in FreeZones \cup used : a \in Bytes(zone)}) = 1
  <2> DEFINE holders == {zone \in FreeZones \cup used : a \in Bytes(zone)}
  <2>1. a \in Int
    BY ArenaBytes
  <2>2. \A zone \in FreeZones \cup used : ZoneOK(zone) /\ (a \in Bytes(zone) <=> In(zone, a))
    <3>1. \A zone \in FreeZones \cup used : ZoneOK(zone)
      BY <1>5 DEF FreeZones, Inv
    <3> QED BY <2>1, <3>1, ArenaBytes
  <2>3. ASSUME NEW y \in holders, NEW z \in holders PROVE y = z
    <3>1. /\ y \in FreeZones \cup used /\ z \in FreeZones \cup used /\ In(y, a) /\ In(z, a)
          /\ ZoneOK(y) /\ ZoneOK(z)
      BY <2>2
    <3>2. CASE y \in used /\ z \in used
      BY <2>1, <3>1, <3>2 DEF Inv, Tiling
    <3>3. CASE y \in FreeZones /\ z \in used
      <4>1. Covers(freemem, a)
        BY <3>1, <3>3 DEF FreeZones, Covers
      <4> QED BY <2>1, <3>1, <3>3, <4>1 DEF Inv, Tiling
    <3>4. CASE y \in used /\ z \in FreeZones
      <4>1. Covers(freemem, a)
        BY <3>1, <3>4 DEF FreeZones, Covers
      <4> QED BY <2>1, <3>1, <3>4, <4>1 DEF Inv, Tiling
    <3>5. CASE y \in FreeZones /\ z \in FreeZones
      <4>1. PICK k \in DOMAIN freemem : y = freemem[k]
        BY <3>5 DEF FreeZones
      <4>2. PICK l \in DOMAIN freemem : z = freemem[l]
        BY <3>5 DEF FreeZones
      <4>3. /\ End(y) \in Nat /\ y.start \in Nat /\ End(z) \in Nat /\ z.start \in Nat
            /\ k \in Int /\ l \in Int
        BY <1>1, <3>1, <4>1, <4>2, ZoneBounds DEF ListOK
      <4>4. ~(k < l)
        BY <1>1, <2>1, <3>1, <4>1, <4>2, <4>3 DEF ListOK, In
      <4>5. ~(l < k)
        BY <1>1, <2>1, <3>1, <4>1, <4>2, <4>3 DEF ListOK, In
      <4>6. k = l
        BY <4>3, <4>4, <4>5
      <4> QED BY <4>1, <4>2, <4>6
    <3> QED BY <3>1, <3>2, <3>3, <3>4, <3>5
  <2>4. PICK zone : zone \in holders
    <3>1. CASE Covers(freemem, a)
      <4>1. PICK k \in DOMAIN freemem : In(freemem[k], a)
        BY <3>1 DEF Covers
      <4>2. freemem[k] \in FreeZones
        BY <4>1 DEF FreeZones
      <4> QED BY <2>2, <4>1, <4>2
    <3>2. CASE \E other \in used : In(other, a)
      BY <2>2, <3>2
    <3> QED BY <3>1, <3>2 DEF Inv, Tiling
  <2>5. holders = {zone}
    BY <2>3, <2>4
  <2> HIDE DEF holders
  <2>6. Cardinality(holders) = 1
    BY <2>5, FS_Singleton
  <2> QED BY <2>6 DEF holders
<1> QED BY <1>4, <1>6 DEF ZonesOK, Tiles

LEMMA InvFreeListOK == Inv => FreeListOK
<1> SUFFICES ASSUME Inv PROVE FreeListOK
  OBVIOUS
<1> DEFINE m == Len(freemem)
<1>1. /\ m \in Nat /\ DOMAIN freemem = 1..m /\ freemem \in Seq(ZoneType)
      /\ \A k \in 1..m : ZoneOK(freemem[k])
      /\ \A j, k \in 1..m : j < k => End(freemem[j]) < freemem[k].start
  BY DEF Inv, ListOK
<1>2. Coalesced
  <2> SUFFICES ASSUME NEW k \in 1..(m - 1) PROVE End(freemem[k]) < freemem[k + 1].start
    BY DEF Coalesced
  <2>1. k \in 1..m /\ k + 1 \in 1..m /\ k < k + 1
    BY <1>1
  <2> QED BY <1>1, <2>1
<1>3. ASSUME used = {} PROVE freemem = <<Zone(HEAP_START, HEAP_SIZE - DESCRIPTOR)>>
  <2>1. \A a \in Arena : Covers(freemem, a)
    BY <1>3 DEF Inv, Tiling
  <2>2. HEAP_START \in Arena
    <3>1. HEAP_START \in Int /\ HEAP_START < LIMIT
      BY Constants DEF LIMIT
    <3> QED BY <3>1, ArenaBytes
  <2>3. PICK k \in 1..m : In(freemem[k], HEAP_START)
    BY <1>1, <2>1, <2>2 DEF Covers
  <2> DEFINE zone == freemem[k]
             start == zone.start
             size == zone.size
             end == End(zone)
  <2>4. /\ ZoneOK(zone) /\ start \in Nat /\ size \in Nat /\ end = start + DESCRIPTOR + size
        /\ end \in Nat /\ start < end
    BY <1>1, ZoneBounds
  <2>5. HEAP_START <= start /\ end <= LIMIT /\ zone \in ZoneType
    BY <2>4 DEF ZoneOK
  <2>6. start = HEAP_START
    <3>1. start <= HEAP_START
      BY <2>3 DEF In
    <3> HIDE DEF start
    <3> QED BY <2>4, <2>5, <3>1, Constants
  <2> HIDE DEF m
  <2>7. ASSUME NEW l \in 1..m PROVE ~(l < k)
    <3>1. ZoneOK(freemem[l]) /\ (l < k => End(freemem[l]) < start)
      BY <1>1
    <3>2. End(freemem[l]) \in Nat /\ HEAP_START <= freemem[l].start
          /\ freemem[l].start < End(freemem[l]) /\ freemem[l].start \in Nat
      BY <3>1, ZoneBounds DEF ZoneOK
    <3> HIDE DEF start
    <3> QED BY <2>6, <3>1, <3>2, Constants
  <2>8. end = LIMIT
    <3> SUFFICES ASSUME end # LIMIT PROVE FALSE
      OBVIOUS
    <3>1. end < LIMIT /\ HEAP_START <= end
      <4> HIDE DEF start, end
      <4> QED BY <2>4, <2>5, <2>6, Constants
    <3>2. end \in Arena /\ end \in Int
      BY <2>4, <3>1, ArenaBytes
    <3>3. PICK l \in 1..m : In(freemem[l], end)
      BY <1>1, <2>1, <3>2 DEF Covers
    <3>4. ~In(zone, end)
      BY <2>4 DEF In
    <3>5. l # k
      BY <3>3, <3>4
    <3>6. k < l
      BY <1>1, <2>7, <3>5
    <3>7. end < freemem[l].start /\ freemem[l].start \in Nat
      BY <1>1, <3>6, ZoneBounds
    <3> HIDE DEF end
    <3> QED BY <2>4, <3>3, <3>7 DEF In
  <2>9. ASSUME NEW l \in 1..m PROVE ~(k < l)
    <3>1. ZoneOK(freemem[l]) /\ (k < l => end < freemem[l].start)
      BY <1>1
    <3>2. freemem[l].start \in Nat /\ freemem[l].start < LIMIT
      BY <3>1, ZoneBounds
    <3> HIDE DEF end
    <3> QED BY <2>8, <3>1, <3>2, Constants
  <2>10. m = 1 /\ k = 1
    <3>1. 1 \in 1..m /\ m \in 1..m
      BY <1>1
    <3>2. ~(1 < k) /\ ~(k < m)
      BY <2>7, <2>9, <3>1
    <3> QED BY <1>1, <3>2
  <2>11. size = HEAP_SIZE - DESCRIPTOR
    <3> HIDE DEF start, end, size
    <3> QED BY <2>4, <2>6, <2>8, Constants DEF LIMIT
  <2>12. zone = Zone(HEAP_START, HEAP_SIZE - DESCRIPTOR)
    BY <2>5, <2>6, <2>11 DEF ZoneType, Zone
  <2>13. Len(freemem) = 1 /\ freemem[1] = Zone(HEAP_START, HEAP_SIZE - DESCRIPTOR)
    BY <2>10, <2>12 DEF m
  <2> DEFINE whole == Zone(HEAP_START, HEAP_SIZE - DESCRIPTOR)
  <2>14. whole \in ZoneType
    BY <2>5, <2>12
  <2> HIDE DEF zone, whole
  <2>15. /\ <<whole>> \in Seq(ZoneType) /\ Len(<<whole>>) = 1
         /\ <<whole>>[1] = whole
    BY <2>14
  <2>16. Len(freemem) = Len(<<whole>>) /\ \A l \in 1..Len(freemem) : freemem[l] = <<whole>>[l]
    BY <2>13, <2>15 DEF whole
  <2>17. freemem = <<whole>>
    BY <1>1, <2>15, <2>16, SeqEqual
  <2> QED BY <2>17 DEF whole
<1> QED BY <1>2, <1>3 DEF FreeListOK, WholeAgain

\* In every reachable state, for every heap and every request that RequestsFit
\* allows, the zones of the free list and those in use lie in the heap and
\* each byte belongs to exactly one: malloc(), malloc(dim, a) and free() give
\* nothing out twice and lose nothing.
THEOREM HeapIsTiled == ASSUME RequestsFit PROVE Spec => []ZonesOK
<1>1. Inv /\ [Next]_vars => Inv'
  BY NextInv
<1> QED BY <1>1, InitInv, InvZonesOK, PTL DEF Spec

\* The free list is always in the order of the addresses, no two of its zones
\* touch, and it is one zone again once everything is freed: internal_free()
\* leaves no fragmentation behind, in whatever order zones are freed.
THEOREM FreeListIsCoalesced == ASSUME RequestsFit PROVE Spec => []FreeListOK
<1>1. Inv /\ [Next]_vars => Inv'
  BY NextInv
<1> QED BY <1>1, InitInv, InvFreeListOK, PTL DEF Spec

-----------------------------------------------------------------------------
(* The heap implements Allocator.                                          *)

Block(zone) == [address |-> Data(zone), size |-> zone.size]
Answer == [room |-> RoundUp(reply.asked, DESCRIPTOR),
           alignment |-> reply.alignment, address |-> reply.address]

LEMMA ExtentIsBytes ==
    ASSUME NEW zone, ZoneOK(zone)
    PROVE  Promise!Extent(Block(zone)) = Bytes(zone)
<1> DEFINE start == zone.start
           size == zone.size
<1>1. start \in Nat /\ size \in Nat /\ Data(zone) = start + DESCRIPTOR
  BY ZoneBounds
<1>2. End(zone) = start + DESCRIPTOR + size
  BY ZoneBounds
<1>3. Block(zone).address = Data(zone) /\ Block(zone).size = size
  BY DEF Block
<1>4. Promise!Extent(Block(zone)) = (Data(zone) - DESCRIPTOR)..(Data(zone) + size - 1)
  BY <1>3 DEF Promise!Extent
<1> HIDE DEF size
<1>5. Bytes(zone) = start..(End(zone) - 1)
  BY DEF Bytes
<1> HIDE DEF start
<1>6. Data(zone) - DESCRIPTOR = start /\ Data(zone) + size - 1 = End(zone) - 1
  BY <1>1, <1>2, Constants
<1> QED BY <1>4, <1>5, <1>6

LEMMA BusyIsUsed ==
    ASSUME Inv, NEW a \in Arena
    PROVE  a \in Promise!Busy <=> ~Covers(freemem, a)
<1>1. Promise!Busy = UNION {Promise!Extent(b) : b \in {Block(zone) : zone \in used}}
  BY DEF Promise!Busy, Block
<1>2. a \in Promise!Busy <=> \E zone \in used : a \in Promise!Extent(Block(zone))
  BY <1>1
<1>3. a \in Promise!Busy <=> \E zone \in used : In(zone, a)
  BY <1>2, ExtentIsBytes, ArenaBytes DEF Inv
<1>4. a \in Int
  BY ArenaBytes
<1> QED BY <1>3, <1>4 DEF Inv, Tiling

LEMMA GrantRefines ==
    ASSUME Inv, NEW size, NEW alignment \in Nat, NEW taken, CutOut(freemem, taken),
           Grant(size, alignment, taken), RoundUp(size, DESCRIPTOR) \in Nat,
           RoundUp(size, DESCRIPTOR) <= taken.zone.size,
           taken.zone.size < RoundUp(size, DESCRIPTOR) + 2 * DESCRIPTOR,
           alignment > 0 => Data(taken.zone) % alignment = 0
    PROVE  Promise!Next
<1> DEFINE room == RoundUp(size, DESCRIPTOR)
           b == Block(taken.zone)
           blocks == {Block(zone) : zone \in used}
<1>1. /\ used' = used \cup {taken.zone} /\ Answer'.room = room
      /\ Answer'.alignment = alignment /\ Answer'.address = Data(taken.zone)
      /\ Answer' = [room |-> room, alignment |-> alignment, address |-> Data(taken.zone)]
  BY DEF Grant, Answer
<1>2. ZoneOK(taken.zone) /\ taken.zone.size \in Nat
  BY ZoneBounds DEF CutOut
<1>3. Data(taken.zone) \in Arena
  BY <1>2, ArenaBytes
<1>4. taken.zone.size \in room..(room + 2 * DESCRIPTOR)
  <2> DEFINE given == taken.zone.size
  <2>1. given \in Nat /\ room <= given /\ given < room + 2 * DESCRIPTOR /\ room \in Nat
    BY <1>2
  <2> HIDE DEF given, room
  <2> QED BY <2>1, Constants DEF given
<1>5. Promise!Extent(b) \subseteq Arena \ Promise!Busy
  <2> SUFFICES ASSUME NEW a \in Bytes(taken.zone) PROVE a \in Arena /\ a \notin Promise!Busy
    BY <1>2, ExtentIsBytes
  <2>1. a \in Arena /\ a \in Int
    BY <1>2, ArenaBytes
  <2>2. In(taken.zone, a)
    BY <1>2, <2>1, ArenaBytes
  <2>3. Covers(freemem, a)
    BY <2>1, <2>2 DEF CutOut
  <2> QED BY <2>1, <2>3, BusyIsUsed
<1>6. {Block(zone) : zone \in used'} = blocks \cup {b}
  BY <1>1
<1>7. Promise!Aligned(Data(taken.zone), alignment)
  BY DEF Promise!Aligned
<1> HIDE DEF room
<1>8. Promise!Allocate(room, alignment)
  <2>1. Promise!Extent(Block(taken.zone)) \subseteq Arena \ Promise!Busy
    BY <1>5
  <2>2. b = [address |-> Data(taken.zone), size |-> taken.zone.size]
    BY DEF Block
  <2>3. {[address |-> Data(zone), size |-> zone.size] : zone \in used}'
          = {[address |-> Data(zone), size |-> zone.size] : zone \in used} \cup {b}
    BY <1>6 DEF Block, Data
  <2> QED BY <1>1, <1>3, <1>4, <1>5, <1>7, <2>2, <2>3 DEF Promise!Allocate, Answer
<1>9. Answer'.room = room /\ Answer'.alignment = alignment
  BY <1>1
<1>10. Promise!Allocate(Answer'.room, Answer'.alignment)
  BY <1>8, <1>9 DEF Promise!Allocate
<1> QED BY <1>10 DEF Promise!Next, Answer

\* A run of free bytes lies in one zone, because the free zones do not touch.
LEMMA FreeRun ==
    ASSUME Inv, NEW a \in Arena, NEW size \in Nat,
           a..(a + DESCRIPTOR + size - 1) \subseteq Arena \ Promise!Busy
    PROVE  \E k \in DOMAIN freemem : size <= freemem[k].size
<1> DEFINE m == Len(freemem)
           limit == a + DESCRIPTOR + size
<1>1. a \in Int /\ limit \in Int /\ a < limit
  BY ArenaBytes, Constants
<1>2. ASSUME NEW c \in Int, a <= c, c < limit
      PROVE  Covers(freemem, c)
  <2>1. c \in a..(a + DESCRIPTOR + size - 1)
    BY <1>1, <1>2, Constants
  <2> QED BY <2>1, BusyIsUsed
<1> HIDE DEF limit
<1>3. /\ m \in Nat /\ DOMAIN freemem = 1..m /\ \A k \in 1..m : ZoneOK(freemem[k])
      /\ \A j, k \in 1..m : j < k => End(freemem[j]) < freemem[k].start
  BY DEF Inv, ListOK
<1>4. PICK k \in 1..m : In(freemem[k], a)
  BY <1>1, <1>2, <1>3 DEF Covers
<1> DEFINE zone == freemem[k]
           start == zone.start
           end == End(zone)
<1>5. /\ start \in Nat /\ zone.size \in Nat /\ end = start + DESCRIPTOR + zone.size /\ end \in Nat
      /\ start <= a /\ a < end
  BY <1>3, <1>4, ZoneBounds DEF In
<1> HIDE DEF m
<1>6. limit <= end
  <2> SUFFICES ASSUME end < limit PROVE FALSE
    <3> HIDE DEF end
    <3> QED BY <1>1, <1>5
  <2>1. Covers(freemem, end)
    <3> HIDE DEF end, start
    <3> QED BY <1>1, <1>2, <1>5
  <2>2. PICK l \in 1..m : In(freemem[l], end)
    BY <1>3, <2>1 DEF Covers
  <2>3. /\ ZoneOK(freemem[l]) /\ freemem[l].start \in Nat /\ End(freemem[l]) \in Nat
        /\ freemem[l].start <= end /\ end < End(freemem[l])
    BY <1>3, <2>2, ZoneBounds DEF In
  <2>4. CASE k < l
    <3>1. end < freemem[l].start
      BY <1>3, <2>4
    <3> HIDE DEF end
    <3> QED BY <1>5, <2>3, <3>1
  <2>5. CASE l < k
    <3>1. End(freemem[l]) < start
      BY <1>3, <2>5
    <3> HIDE DEF end, start
    <3> QED BY <1>1, <1>5, <2>3, <3>1
  <2>6. CASE l = k
    <3>1. end < end
      BY <2>3, <2>6
    <3> HIDE DEF end
    <3> QED BY <1>5, <3>1
  <2>7. k < l \/ l < k \/ l = k
    BY <1>3
  <2> QED BY <2>4, <2>5, <2>6, <2>7
<1> DEFINE room == zone.size
<1>7. size <= room
  <2> HIDE DEF start, end, room
  <2>1. room \in Nat /\ end = start + DESCRIPTOR + room
    BY <1>5 DEF room
  <2> QED BY <1>1, <1>5, <1>6, <2>1, Constants DEF limit
<1> QED BY <1>3, <1>7

LEMMA RefuseRefines ==
    ASSUME NEW size, NEW alignment, Refuse(size, alignment),
           Promise!Fits(RoundUp(size, DESCRIPTOR) + Promise!Slack(alignment)) =>
             alignment \notin {0} \cup {other \in Alignments : IsPowerOfTwo(other)}
    PROVE  Promise!Next
<1> DEFINE room == RoundUp(size, DESCRIPTOR)
<1>1. /\ Answer' = [room |-> room, alignment |-> alignment, address |-> NULL]
      /\ Answer'.room = room /\ Answer'.alignment = alignment /\ used' = used
  BY DEF Refuse, Answer
<1> HIDE DEF room
<1>2. Promise!Refuse(room, alignment)
  <2>1. Promise!Fits(room + Promise!Slack(alignment)) =>
             alignment \notin {0} \cup {other \in Alignments : IsPowerOfTwo(other)}
    BY DEF room
  <2>2. {[address |-> Data(zone), size |-> zone.size] : zone \in used}'
          = {[address |-> Data(zone), size |-> zone.size] : zone \in used}
    BY <1>1 DEF Data
  <2> QED BY <1>1, <2>1, <2>2 DEF Promise!Refuse, Answer
<1>3. Promise!Refuse(Answer'.room, Answer'.alignment)
  BY <1>1, <1>2
<1> QED BY <1>3 DEF Promise!Next, Answer

LEMMA FreeRefines ==
    ASSUME Inv, NEW zone \in used, Free(zone)
    PROVE  Promise!Next
<1> DEFINE b == Block(zone)
           blocks == {Block(other) : other \in used}
<1>1. used' = used \ {zone} /\ reply' = reply
  BY DEF Free
<1>2. ASSUME NEW other \in used, Block(other) = b PROVE other = zone
  <2>1. ZoneOK(other) /\ ZoneOK(zone)
    BY DEF Inv
  <2>2. Data(other) = Data(zone) /\ other.size = zone.size
    BY <1>2 DEF Block
  <2>3. other.start \in Nat /\ zone.start \in Nat /\ other \in ZoneType /\ zone \in ZoneType
    BY <2>1, ZoneBounds DEF ZoneOK
  <2>4. other.start = zone.start
    BY <2>2, <2>3, Constants DEF Data
  <2> QED BY <2>2, <2>3, <2>4 DEF ZoneType
<1>3. {Block(other) : other \in used'} = blocks \ {b}
  BY <1>1, <1>2
<1>4. b \in blocks
  OBVIOUS
<1>5. {[address |-> Data(other), size |-> other.size] : other \in used}'
        = {[address |-> Data(other), size |-> other.size] : other \in used} \ {b}
  BY <1>3 DEF Block, Data
<1>6. b \in {[address |-> Data(other), size |-> other.size] : other \in used}
  BY <1>4 DEF Block
<1> HIDE DEF b
<1>7. Promise!Release(b)
  BY <1>1, <1>5 DEF Promise!Release
<1> QED BY <1>6, <1>7 DEF Promise!Next

LEMMA MallocRefines ==
    ASSUME Inv, NEW size \in Sizes, Malloc(size)
    PROVE  Promise!Next
<1> DEFINE n == RoundUp(size, DESCRIPTOR)
<1>1. size \in Nat
  BY HeapAssumption
<1>2. n \in Nat /\ Multiple(n, DESCRIPTOR)
  BY <1>1, Constants, RoundUpType
<1>3. CASE FittingZones(freemem, n) = {}
  <2>1. Refuse(size, 0)
    BY <1>3 DEF Malloc
  <2> HIDE DEF n
  <2>2. Promise!Slack(0) = 0 /\ n + 0 = n
    BY <1>2 DEF Promise!Slack
  <2>3. ~Promise!Fits(n + Promise!Slack(0))
    <3> SUFFICES ASSUME Promise!Fits(n) PROVE FALSE
      BY <2>2
    <3>1. PICK a \in Arena : a..(a + DESCRIPTOR + n - 1) \subseteq Arena \ Promise!Busy
      BY DEF Promise!Fits
    <3>2. \E k \in DOMAIN freemem : n <= freemem[k].size
      BY <1>2, <3>1, FreeRun
    <3> QED BY <1>3, <3>2 DEF FittingZones
  <2> QED BY <2>1, <2>3, RefuseRefines DEF n
<1>4. CASE FittingZones(freemem, n) # {}
  <2>1. Grant(size, 0, Taken(freemem, n))
    BY <1>4 DEF Malloc
  <2>2. /\ CutOut(freemem, Taken(freemem, n)) /\ n <= Taken(freemem, n).zone.size
        /\ Taken(freemem, n).zone.size < n + 2 * DESCRIPTOR
    <3> HIDE DEF n
    <3> QED BY <1>2, <1>4, TakenOK DEF Inv
  <2>3. 0 \in Nat /\ ~(0 > 0)
    OBVIOUS
  <2> QED BY <1>2, <2>1, <2>2, <2>3, GrantRefines
<1> QED BY <1>3, <1>4

LEMMA MallocAlignedRefines ==
    ASSUME RequestsFit, Inv, NEW size \in Sizes, NEW alignment \in Alignments,
           MallocAligned(size, alignment)
    PROVE  Promise!Next
<1> DEFINE dim == RoundUp(size, DESCRIPTOR)
           newdim == (dim + alignment + DESCRIPTOR) % WORD
           n == RoundUp(newdim, DESCRIPTOR)
           taken == Taken(freemem, n)
           cut == BackTrimmed(FrontTrimmed(taken, alignment), dim)
<1>1. size \in Nat /\ alignment \in Nat \ {0} /\ ListOK(freemem)
  BY HeapAssumption DEF RequestsFit, Inv
<1>2. dim \in Nat
  BY <1>1, Constants, RoundUpType
<1>3. Promise!Slack(alignment) = alignment + DESCRIPTOR
  BY <1>1 DEF Promise!Slack
<1>4. ASSUME NEW a \in Arena, NEW room \in Nat,
             a..(a + DESCRIPTOR + room - 1) \subseteq Arena \ Promise!Busy
      PROVE  /\ \E k \in DOMAIN freemem : room <= freemem[k].size
             /\ room < WORD
  <2>1. PICK k \in DOMAIN freemem : room <= freemem[k].size
    BY <1>4, FreeRun
  <2>2. ZoneOK(freemem[k])
    BY <1>1 DEF ListOK
  <2>3. /\ freemem[k].size \in Nat /\ freemem[k].start \in Nat /\ End(freemem[k]) <= LIMIT
        /\ End(freemem[k]) = freemem[k].start + DESCRIPTOR + freemem[k].size
    BY <2>2, ZoneBounds DEF ZoneOK
  <2>4. room < WORD
    BY <2>1, <2>3, Constants
  <2> QED BY <2>1, <2>4
<1>5. CASE ~IsPowerOfTwo(alignment)
  <2>1. Refuse(size, alignment)
    BY <1>5 DEF MallocAligned
  <2>2. alignment \notin {0} \cup {other \in Alignments : IsPowerOfTwo(other)}
    BY <1>1, <1>5
  <2> QED BY <2>1, <2>2, RefuseRefines
<1>6. CASE IsPowerOfTwo(alignment) /\ newdim < dim
  <2>1. Refuse(size, alignment)
    BY <1>6 DEF MallocAligned
  <2> DEFINE sum == dim + alignment + DESCRIPTOR
  <2>2. ~(sum < WORD)
    <3> SUFFICES ASSUME sum < WORD PROVE FALSE
      OBVIOUS
    <3>1. sum \in 0..(WORD - 1) /\ dim <= sum
      BY <1>1, <1>2, Constants
    <3>2. sum % WORD = newdim
      OBVIOUS
    <3> HIDE DEF sum, newdim, dim
    <3>3. newdim = sum
      BY <3>1, <3>2, Constants, SmallRemainder
    <3> QED BY <1>2, <1>6, <3>1, <3>3
  <2>3. ~Promise!Fits(dim + Promise!Slack(alignment))
    <3> SUFFICES ASSUME Promise!Fits(dim + (alignment + DESCRIPTOR)) PROVE FALSE
      BY <1>3
    <3> DEFINE room == dim + (alignment + DESCRIPTOR)
    <3>1. room \in Nat /\ room = sum /\ ~(room < WORD)
      BY <1>1, <1>2, <2>2, Constants
    <3>2. PICK a \in Arena : a..(a + DESCRIPTOR + room - 1) \subseteq Arena \ Promise!Busy
      BY DEF Promise!Fits
    <3> HIDE DEF room
    <3> QED BY <1>4, <3>1, <3>2
  <2> QED BY <2>1, <2>3, RefuseRefines
<1>7. CASE IsPowerOfTwo(alignment) /\ ~(newdim < dim)
  <2>1. /\ newdim = dim + alignment + DESCRIPTOR /\ n \in Nat /\ newdim <= n
        /\ \A m \in Int : Multiple(m, DESCRIPTOR) /\ newdim <= m => n <= m
        /\ FittingZones(freemem, n) # {} =>
             /\ CutOut(freemem, cut)
             /\ dim <= cut.zone.size /\ cut.zone.size < dim + 2 * DESCRIPTOR
             /\ Data(cut.zone) % alignment = 0
    BY <1>1, <1>7, AlignedCut
  <2>2. CASE FittingZones(freemem, n) = {}
    <3>1. Refuse(size, alignment)
      BY <1>7, <2>2 DEF MallocAligned
    <3>2. ~Promise!Fits(dim + Promise!Slack(alignment))
      <4> SUFFICES ASSUME Promise!Fits(dim + (alignment + DESCRIPTOR)) PROVE FALSE
        BY <1>3
      <4> DEFINE room == dim + (alignment + DESCRIPTOR)
      <4> HIDE DEF newdim, dim, n
      <4>1. room \in Nat /\ room = newdim
        BY <1>1, <1>2, <2>1, Constants
      <4>2. PICK a \in Arena : a..(a + DESCRIPTOR + room - 1) \subseteq Arena \ Promise!Busy
        BY DEF Promise!Fits
      <4> HIDE DEF room
      <4>3. PICK k \in DOMAIN freemem : room <= freemem[k].size
        BY <1>4, <4>1, <4>2
      <4> DEFINE held == freemem[k].size
      <4>4. held \in Nat /\ Multiple(held, DESCRIPTOR)
        <5>1. ZoneOK(freemem[k])
          BY <1>1 DEF ListOK
        <5> QED BY <5>1, ZoneBounds DEF ZoneOK
      <4>5. n <= held
        <5>1. held \in Int /\ newdim <= held
          BY <4>1, <4>3, <4>4
        <5> HIDE DEF held
        <5> QED BY <2>1, <4>4, <5>1
      <4> QED BY <2>2, <4>3, <4>5 DEF FittingZones
    <3> QED BY <3>1, <3>2, RefuseRefines
  <2>3. CASE FittingZones(freemem, n) # {}
    <3>1. Grant(size, alignment, cut)
      BY <1>7, <2>3 DEF MallocAligned
    <3>2. /\ CutOut(freemem, cut) /\ dim <= cut.zone.size /\ cut.zone.size < dim + 2 * DESCRIPTOR
          /\ Data(cut.zone) % alignment = 0 /\ alignment \in Nat
      BY <1>1, <2>1, <2>3
    <3> HIDE DEF cut, taken, n, newdim
    <3> QED BY <1>2, <3>1, <3>2, GrantRefines
  <2> QED BY <2>2, <2>3
<1> QED BY <1>5, <1>6, <1>7

LEMMA InitRefines == Init => Promise!Init
<1> SUFFICES ASSUME Init PROVE Promise!Init
  OBVIOUS
<1>1. RoundUp(0, DESCRIPTOR) = 0
  <2>1. 0 = 0 * DESCRIPTOR /\ 0 \in Int /\ 0 \in Nat
    BY Constants
  <2>2. 0 % DESCRIPTOR = 0
    BY <2>1, Constants, RemainderOfMultiple DEF Multiple
  <2> QED BY <2>2 DEF RoundUp
<1>2. used = {} /\ reply.asked = 0 /\ reply.alignment = 0 /\ reply.address = NULL
  BY DEF Init
<1> QED BY <1>1, <1>2 DEF Promise!Init

LEMMA StepRefines ==
    ASSUME RequestsFit, Inv, [Next]_vars
    PROVE  [Promise!Next]_(Promise!vars)
<1>1. ASSUME NEW size \in Sizes, Malloc(size) PROVE Promise!Next
  BY <1>1, MallocRefines
<1>2. ASSUME NEW size \in Sizes, NEW alignment \in Alignments, MallocAligned(size, alignment)
      PROVE  Promise!Next
  BY <1>2, MallocAlignedRefines
<1>3. ASSUME NEW zone \in used, Free(zone) PROVE Promise!Next
  BY <1>3, FreeRefines
<1>4. CASE UNCHANGED vars
  <2>1. used' = used /\ reply' = reply
    BY <1>4 DEF vars
  <2> QED BY <2>1 DEF Promise!vars
<1> QED BY <1>1, <1>2, <1>3, <1>4 DEF Next

\* malloc(), malloc(dim, a) and free() implement Allocator: each step gives out
\* free memory of the size and the alignment asked for, or refuses because no
\* run of free bytes could hold the request, or takes a block back.
THEOREM HeapImplementsAllocator == ASSUME RequestsFit PROVE Spec => AllocatorSpec
<1>1. Inv /\ [Next]_vars => Inv'
  BY NextInv
<1>2. Inv /\ [Next]_vars => [Promise!Next]_(Promise!vars)
  BY StepRefines
<1> QED BY <1>1, <1>2, InitInv, InitRefines, PTL DEF Spec, AllocatorSpec, Promise!Spec

=============================================================================
