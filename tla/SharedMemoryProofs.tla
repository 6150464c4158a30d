------------------------- MODULE SharedMemoryProofs -------------------------
(***************************************************************************)
(* Proofs about SharedMemory: the memories are counted, mapped, orphaned   *)
(* and ended as their users see them, and no frame is lost, whichever      *)
(* process dies, detaches or waits, and in which order.                    *)
(***************************************************************************)
EXTENDS SharedMemory, ProcessListsProofs

Memory == [is_present : BOOLEAN, orphan : BOOLEAN, owner_id : Pid \cup {NoProcess},
           users : Nat, frames : Seq(Frames), waiting : Seq(Pid)]
Memories == [array : [Shmid -> Memory], free : Seq(Frames), blocked : SUBSET Pid]
Entry == [id : Shmid, page : Nat]

\* Every memory that may be asked for fits where the last one is attached: the
\* window of the source, of 2^32 bytes less the heap and the stacks, is not
\* filled.  An attach that does not fit counts a user that never leaves.
AttachesFit == \A npages \in PageCounts : MAX_PAGE + npages <= WINDOW

-----------------------------------------------------------------------------
(* The fold over a history, one memory after the other.                    *)

\* ended[k] is what the memories are after the first k entries.
Abandons(ended, memories, p) ==
    /\ ended[0] = memories
    /\ \A k \in 1..Len(shmem_history[p]) :
         LET id == shmem_history[p][k].id
         IN  ended[k] = Left(Orphaned(ended[k - 1], p, id), id)

LEMMA GreatestIsMax ==
    ASSUME NEW s \in SUBSET Int, NEW k \in s, \A i \in s : k >= i
    PROVE  Max(s) = k
<1>1. Max(s) \in s /\ \A i \in s : Max(s) >= i
  BY DEF Max
<1>2. Max(s) >= k /\ k >= Max(s) /\ k \in Int /\ Max(s) \in Int
  BY <1>1
<1> QED BY <1>2

LEMMA AbandonedRecursion ==
    ASSUME NEW memories, NEW p, NEW T, shmem_history[p] \in Seq(T)
    PROVE  \E ended : /\ Abandons(ended, memories, p)
                      /\ ended[Len(shmem_history[p])] = Abandoned(memories, p)
<1> DEFINE h == shmem_history[p]
           n == Len(h)
           After(m, k) == Left(Orphaned(m, p, h[k].id), h[k].id)
           Step(f, s) == IF s = {} THEN memories ELSE After(f[s \ {Max(s)}], Max(s))
           Folds(f, k) == f = [s \in SUBSET (1..k) |-> Step(f, s)]
           fold == CHOOSE f : f = [s \in SUBSET (1..n) |-> Step(f, s)]
<1>1. n \in Nat /\ DOMAIN h = 1..n
  OBVIOUS
<1>2. Abandoned(memories, p) = fold[1..n]
  BY <1>1 DEF Abandoned, FoldLeft, MapThenFoldSet
<1> DEFINE holds == {k \in 0..n : \E f : Folds(f, k)}
<1>3. 0 \in holds
  <2>1. Folds([s \in SUBSET (1..0) |-> memories], 0)
    <3>1. \A s \in SUBSET (1..0) : s = {}
      OBVIOUS
    <3> HIDE DEF After
    <3> QED BY <3>1
  <2>2. \E f : Folds(f, 0)
    BY <2>1
  <2> HIDE DEF Folds
  <2> QED BY <1>1, <2>2
<1>4. ASSUME NEW k \in 0..(n - 1), k \in holds
      PROVE  k + 1 \in holds
  <2>1. PICK f : Folds(f, k)
    BY <1>4
  <2> DEFINE g == [s \in SUBSET (1..(k + 1)) |->
                     IF k + 1 \in s THEN After(f[s \ {k + 1}], k + 1) ELSE f[s]]
  <2> HIDE DEF After
  <2>2. \A s \in SUBSET (1..k) : s \in SUBSET (1..(k + 1)) /\ k + 1 \notin s
    BY <1>1
  <2>3. \A s \in SUBSET (1..k) : g[s] = f[s] /\ f[s] = Step(f, s)
    BY <2>1, <2>2
  <2>4. ASSUME NEW s \in SUBSET (1..(k + 1)) PROVE g[s] = Step(g, s)
    <3>1. CASE k + 1 \in s
      <4>1. Max(s) = k + 1
        <5>1. s \in SUBSET Int /\ k + 1 \in s /\ \A i \in s : k + 1 >= i
          BY <1>1, <3>1
        <5> QED BY <5>1, GreatestIsMax
      <4>2. s \ {k + 1} \in SUBSET (1..k)
        <5>1. \A i \in 1..(k + 1) : i # k + 1 => i \in 1..k
          BY <1>1
        <5> HIDE DEF g
        <5> QED BY <5>1
      <4>3. g[s \ {k + 1}] = f[s \ {k + 1}]
        BY <2>3, <4>2
      <4>4. g[s] = After(f[s \ {k + 1}], k + 1)
        BY <3>1
      <4>5. Step(g, s) = After(g[s \ {k + 1}], k + 1)
        <5> HIDE DEF g
        <5> QED BY <3>1, <4>1
      <4> QED BY <4>3, <4>4, <4>5
    <3>2. CASE k + 1 \notin s
      <4>1. s \in SUBSET (1..k) /\ s \ {Max(s)} \in SUBSET (1..k)
        <5>1. \A i \in 1..(k + 1) : i # k + 1 => i \in 1..k
          BY <1>1
        <5> QED BY <3>2, <5>1
      <4>2. g[s] = Step(f, s) /\ g[s \ {Max(s)}] = f[s \ {Max(s)}]
        BY <2>3, <4>1
      <4> HIDE DEF g
      <4> QED BY <4>2
    <3> QED BY <3>1, <3>2
  <2>5. g = [s \in SUBSET (1..(k + 1)) |-> g[s]]
    OBVIOUS
  <2>6. Folds(g, k + 1)
    <3> HIDE DEF g, Step
    <3> QED BY <2>4, <2>5
  <2>7. \E other : Folds(other, k + 1)
    BY <2>6
  <2> HIDE DEF Folds
  <2> QED BY <1>1, <2>7
<1>5. \E f : Folds(f, n)
  <2>1. n \in 0..n
    BY <1>1
  <2>2. n \in holds
    <3> HIDE DEF holds, n
    <3>1. \A k \in 0..n : k \in holds
      BY <1>1, <1>3, <1>4, PositionInduction
    <3> QED BY <2>1, <3>1
  <2> QED BY <2>2
<1>6. fold = [s \in SUBSET (1..n) |-> Step(fold, s)]
  <2> HIDE DEF Step
  <2> QED BY <1>5
<1>7. \A s \in SUBSET (1..n) : fold[s] = Step(fold, s)
  <2> HIDE DEF Step, fold
  <2> QED BY <1>6
<1> DEFINE ended == [k \in 0..n |-> fold[1..k]]
<1> HIDE DEF fold, After
<1>8. ended[0] = memories
  <2>1. 1..0 = {} /\ {} \in SUBSET (1..n) /\ 0 \in 0..n
    BY <1>1
  <2> QED BY <1>7, <2>1
<1>9. ASSUME NEW k \in 1..n PROVE ended[k] = After(ended[k - 1], k)
  <2>1. /\ 1..k \in SUBSET (1..n) /\ 1..k # {} /\ (1..k) \ {k} = 1..(k - 1)
        /\ k \in 0..n /\ k - 1 \in 0..n
    BY <1>1
  <2>2. Max(1..k) = k
    <3>1. 1..k \in SUBSET Int /\ k \in 1..k /\ \A i \in 1..k : k >= i
      BY <1>1
    <3> QED BY <3>1, GreatestIsMax
  <2> QED BY <1>7, <2>1, <2>2
<1>10. ended[n] = Abandoned(memories, p)
  BY <1>1, <1>2
<1> HIDE DEF ended
<1> QED BY <1>8, <1>9, <1>10 DEF Abandons, After

-----------------------------------------------------------------------------
(* What holds of the memories, in the middle of destroy_process() too.     *)

\* The processes of who[id] have the memory attached.
Counted(m, who) ==
    \A id \in Shmid :
        /\ m.array[id].users >= Cardinality(who[id])
        /\ AttachesFit => m.array[id].users = Cardinality(who[id])
        /\ m.array[id].is_present => Len(m.array[id].frames) \in PageCounts
        /\ ~m.array[id].is_present => m.array[id].users = 0 /\ m.array[id].frames = <<>>

\* No frame is lost, none is in two places.
Conserved(m) ==
    /\ IsInjective(m.free)
    /\ \A id \in Shmid : /\ IsInjective(m.array[id].frames)
                         /\ Range(m.array[id].frames) \cap Range(m.free) = {}
    /\ \A id, other \in Shmid :
         id # other => Range(m.array[id].frames) \cap Range(m.array[other].frames) = {}
    /\ \A f \in Frames :
         f \in Range(m.free) \/ \E id \in Shmid : f \in Range(m.array[id].frames)

\* A process waits for one memory at a time, and is blocked if it is alive.
WaitersOK(m, alive) ==
    /\ m.blocked \subseteq alive
    /\ \A id \in Shmid : m.array[id].is_present =>
         \A p \in Range(m.array[id].waiting) :
            /\ p \in alive => p \in m.blocked
            /\ \A other \in Shmid :
                 m.array[other].is_present /\ p \in Range(m.array[other].waiting) => other = id

MemoriesOK(m, who, alive) ==
    m \in Memories /\ Counted(m, who) /\ Conserved(m) /\ WaitersOK(m, alive)

\* An orphan has users; between two steps of destroy_process() one may not.
OrphansUsed(m, but) ==
    \A id \in Shmid \ but : m.array[id].is_present /\ m.array[id].orphan => m.array[id].users > 0

\* What memories can become while processes leave them.
Later(m, n) ==
    /\ n.blocked \subseteq m.blocked
    /\ \A id \in Shmid :
         /\ n.array[id].is_present =>
              /\ m.array[id].is_present
              /\ n.array[id].frames = m.array[id].frames
              /\ n.array[id].waiting = m.array[id].waiting
         /\ m.array[id].is_present /\ ~n.array[id].is_present =>
              Range(m.array[id].waiting) \cap n.blocked = {}

LEMMA LaterIsTransitive ==
    ASSUME NEW l, NEW m, NEW n, Later(l, m), Later(m, n)
    PROVE  Later(l, n)
BY DEF Later

LEMMA NothingIsLater == ASSUME NEW m PROVE Later(m, m)
BY DEF Later

LEMMA ReverseMembers ==
    ASSUME NEW S, NEW list \in Seq(S)
    PROVE  /\ Reverse(list) \in Seq(S) /\ Len(Reverse(list)) = Len(list)
           /\ Range(Reverse(list)) = Range(list)
           /\ IsInjective(list) => IsInjective(Reverse(list))
<1> DEFINE n == Len(list)
           back == [i \in 1..n |-> list[(n - i) + 1]]
<1>1. /\ n \in Nat /\ DOMAIN list = 1..n /\ \A i \in 1..n : list[i] \in S
      /\ \A i \in 1..n : (n - i) + 1 \in 1..n /\ (n - ((n - i) + 1)) + 1 = i
  OBVIOUS
<1>2. Reverse(list) = back /\ DOMAIN back = 1..n /\ back \in [1..n -> S]
  BY <1>1 DEF Reverse
<1>3. back \in Seq(S) /\ Len(back) = n
  <2> HIDE DEF back, n
  <2> QED BY <1>1, <1>2
<1>4. \A i \in 1..n : back[i] = list[(n - i) + 1] /\ list[i] = back[(n - i) + 1]
  BY <1>1
<1> HIDE DEF back, n
<1>5. Range(back) = Range(list)
  <2>1. ASSUME NEW x \in Range(back) PROVE x \in Range(list)
    <3>1. PICK i \in 1..n : x = back[i]
      BY <1>2, <2>1 DEF Range
    <3> QED BY <1>1, <1>4, <3>1 DEF Range
  <2>2. ASSUME NEW x \in Range(list) PROVE x \in Range(back)
    <3>1. PICK i \in 1..n : x = list[i]
      BY <1>1, <2>2 DEF Range
    <3> QED BY <1>1, <1>2, <1>4, <3>1 DEF Range
  <2> QED BY <2>1, <2>2
<1>6. ASSUME IsInjective(list) PROVE IsInjective(back)
  <2> SUFFICES ASSUME NEW i \in 1..n, NEW j \in 1..n, back[i] = back[j] PROVE i = j
    BY <1>2 DEF IsInjective
  <2>1. (n - i) + 1 = (n - j) + 1
    BY <1>1, <1>4, <1>6 DEF IsInjective
  <2> QED BY <1>1, <2>1
<1> QED BY <1>2, <1>3, <1>5, <1>6 DEF n

\* shm_destroy(), field by field.
LEMMA DestroyedAt ==
    ASSUME NEW m \in Memories, NEW id \in Shmid
    PROVE  LET n == Destroyed(m, id)
           IN  /\ n \in Memories
               /\ n.free = Reverse(m.array[id].frames) \o m.free
               /\ n.blocked = m.blocked \ Range(m.array[id].waiting)
               /\ ~n.array[id].is_present /\ n.array[id].frames = <<>>
               /\ n.array[id].waiting = <<>> /\ n.array[id].users = m.array[id].users
               /\ \A other \in Shmid : other # id => n.array[other] = m.array[other]
<1> DEFINE ended == [m.array[id] EXCEPT !.is_present = FALSE, !.frames = <<>>, !.waiting = <<>>]
           array == [m.array EXCEPT ![id] = ended]
           free == Reverse(m.array[id].frames) \o m.free
           blocked_left == m.blocked \ ToSet(m.array[id].waiting)
<1>1. /\ m.array \in [Shmid -> Memory] /\ m.free \in Seq(Frames) /\ m.blocked \in SUBSET Pid
      /\ m.array[id] \in Memory
  BY DEF Memories
<1>2. /\ ended \in Memory /\ ~ended.is_present /\ ended.frames = <<>> /\ ended.waiting = <<>>
      /\ ended.users = m.array[id].users
  <2>1. <<>> \in Seq(Frames) /\ <<>> \in Seq(Pid)
    OBVIOUS
  <2> QED BY <1>1, <2>1 DEF Memory
<1>3. free \in Seq(Frames)
  BY <1>1, ReverseMembers, ConcatMembers DEF Memory
<1>4. Destroyed(m, id) = [m EXCEPT !.array = array, !.free = free, !.blocked = blocked_left]
  BY <1>1 DEF Destroyed, Memories
<1> HIDE DEF ended, free
<1>5. /\ array \in [Shmid -> Memory] /\ array[id] = ended
      /\ \A other \in Shmid : other # id => array[other] = m.array[other]
  BY <1>1, <1>2
<1>6. blocked_left \in SUBSET Pid /\ blocked_left = m.blocked \ Range(m.array[id].waiting)
  BY <1>1 DEF ToSet, Range
<1> HIDE DEF array, blocked_left
<1>7. /\ Destroyed(m, id) \in Memories
      /\ Destroyed(m, id).array = array /\ Destroyed(m, id).free = free
      /\ Destroyed(m, id).blocked = blocked_left
  BY <1>1, <1>3, <1>4, <1>5, <1>6 DEF Memories
<1> QED BY <1>2, <1>5, <1>6, <1>7 DEF free

\* A memory that ends gives its frames back and wakes those who wait for it.
LEMMA DestroyedOK ==
    ASSUME NEW m, NEW who, NEW alive, NEW id \in Shmid, MemoriesOK(m, who, alive),
           OrphansUsed(m, {id}), m.array[id].is_present, m.array[id].users = 0
    PROVE  /\ MemoriesOK(Destroyed(m, id), who, alive)
           /\ OrphansUsed(Destroyed(m, id), {})
           /\ Later(m, Destroyed(m, id))
<1> DEFINE n == Destroyed(m, id)
<1>1. /\ m \in Memories /\ n \in Memories
      /\ n.free = Reverse(m.array[id].frames) \o m.free
      /\ n.blocked = m.blocked \ Range(m.array[id].waiting)
      /\ ~n.array[id].is_present /\ n.array[id].frames = <<>>
      /\ n.array[id].waiting = <<>> /\ n.array[id].users = 0
      /\ \A other \in Shmid : other # id => n.array[other] = m.array[other]
  BY DestroyedAt DEF MemoriesOK
<1> HIDE DEF n
<1>2. m.array[id].frames \in Seq(Frames) /\ m.free \in Seq(Frames)
  BY <1>1 DEF Memories, Memory
<1>3. Counted(n, who)
  BY <1>1 DEF MemoriesOK, Counted
<1>4. Conserved(n)
  <2> DEFINE frames == m.array[id].frames
  <2>1. /\ Reverse(frames) \in Seq(Frames) /\ Range(Reverse(frames)) = Range(frames)
        /\ IsInjective(Reverse(frames)) /\ IsInjective(m.free)
        /\ Range(frames) \cap Range(m.free) = {}
    BY <1>2, ReverseMembers DEF MemoriesOK, Conserved
  <2>2. IsInjective(n.free) /\ Range(n.free) = Range(frames) \cup Range(m.free)
    BY <1>1, <1>2, <2>1, ConcatMembers
  <2>3. Range(n.array[id].frames) = {} /\ IsInjective(n.array[id].frames)
    BY <1>1, EmptyMembers
  <2> HIDE DEF frames
  <2>4. ASSUME NEW other \in Shmid, other # id
        PROVE  /\ n.array[other].frames = m.array[other].frames
               /\ IsInjective(m.array[other].frames)
               /\ Range(m.array[other].frames) \cap Range(frames) = {}
               /\ Range(m.array[other].frames) \cap Range(m.free) = {}
    BY <1>1, <2>4 DEF MemoriesOK, Conserved, frames
  <2>5. \A other \in Shmid : /\ IsInjective(n.array[other].frames)
                             /\ Range(n.array[other].frames) \cap Range(n.free) = {}
    BY <2>2, <2>3, <2>4
  <2>6. \A a, b \in Shmid :
          a # b => Range(n.array[a].frames) \cap Range(n.array[b].frames) = {}
    <3> SUFFICES ASSUME NEW a \in Shmid, NEW b \in Shmid, a # b
                 PROVE  Range(n.array[a].frames) \cap Range(n.array[b].frames) = {}
      OBVIOUS
    <3>1. CASE a = id \/ b = id
      BY <2>3, <3>1
    <3>2. CASE a # id /\ b # id
      BY <2>4, <3>2 DEF MemoriesOK, Conserved
    <3> QED BY <3>1, <3>2
  <2>7. ASSUME NEW f \in Frames
        PROVE  f \in Range(n.free) \/ \E other \in Shmid : f \in Range(n.array[other].frames)
    <3>1. f \in Range(m.free) \/ \E other \in Shmid : f \in Range(m.array[other].frames)
      BY DEF MemoriesOK, Conserved
    <3>2. CASE f \in Range(frames) \/ f \in Range(m.free)
      BY <2>2, <3>2
    <3>3. CASE \E other \in Shmid : other # id /\ f \in Range(m.array[other].frames)
      BY <2>4, <3>3
    <3> QED BY <3>1, <3>2, <3>3 DEF frames
  <2> QED BY <2>2, <2>5, <2>6, <2>7 DEF Conserved
<1>5. WaitersOK(n, alive)
  <2>1. n.blocked \subseteq alive
    BY <1>1 DEF MemoriesOK, WaitersOK
  <2>2. ASSUME NEW other \in Shmid, n.array[other].is_present,
               NEW p \in Range(n.array[other].waiting)
        PROVE  /\ p \in alive => p \in n.blocked
               /\ \A another \in Shmid :
                    n.array[another].is_present /\ p \in Range(n.array[another].waiting)
                      => another = other
    <3>1. other # id /\ n.array[other] = m.array[other]
      BY <1>1, <2>2
    <3>2. /\ p \in alive => p \in m.blocked
          /\ \A another \in Shmid :
               m.array[another].is_present /\ p \in Range(m.array[another].waiting)
                 => another = other
      BY <2>2, <3>1 DEF MemoriesOK, WaitersOK
    <3>3. p \notin Range(m.array[id].waiting)
      BY <3>1, <3>2
    <3> QED BY <1>1, <3>2, <3>3
  <2> QED BY <2>1, <2>2 DEF WaitersOK
<1>6. OrphansUsed(n, {})
  BY <1>1 DEF OrphansUsed
<1>7. Later(m, n)
  BY <1>1 DEF Later
<1> QED BY <1>1, <1>3, <1>4, <1>5, <1>6, <1>7 DEF MemoriesOK, n

LEMMA UsersAt ==
    ASSUME NEW m \in Memories, NEW id \in Shmid, NEW users \in Nat
    PROVE  LET n == [m EXCEPT !.array[id].users = users]
           IN  /\ n \in Memories /\ n.free = m.free /\ n.blocked = m.blocked
               /\ n.array[id].users = users
               /\ n.array[id].is_present = m.array[id].is_present
               /\ n.array[id].orphan = m.array[id].orphan
               /\ n.array[id].frames = m.array[id].frames
               /\ n.array[id].waiting = m.array[id].waiting
               /\ \A other \in Shmid : other # id => n.array[other] = m.array[other]
<1> DEFINE memory == [m.array[id] EXCEPT !.users = users]
           array == [m.array EXCEPT ![id] = memory]
<1>1. m.array \in [Shmid -> Memory] /\ m.array[id] \in Memory
  BY DEF Memories
<1>2. /\ memory \in Memory /\ memory.users = users
      /\ memory.is_present = m.array[id].is_present /\ memory.orphan = m.array[id].orphan
      /\ memory.frames = m.array[id].frames /\ memory.waiting = m.array[id].waiting
  BY <1>1 DEF Memory
<1> HIDE DEF memory
<1>3. /\ array \in [Shmid -> Memory] /\ array[id] = memory
      /\ \A other \in Shmid : other # id => array[other] = m.array[other]
  BY <1>1, <1>2
<1>4. [m EXCEPT !.array[id].users = users] = [m EXCEPT !.array = array]
  BY DEF memory
<1> HIDE DEF array
<1> QED BY <1>2, <1>3, <1>4 DEF Memories

\* A change of the users of one memory, or of its owner, changes no frame and
\* no waiter.
SameContents(m, n) ==
    /\ n \in Memories /\ n.free = m.free /\ n.blocked = m.blocked
    /\ \A id \in Shmid : /\ n.array[id].is_present = m.array[id].is_present
                         /\ n.array[id].frames = m.array[id].frames
                         /\ n.array[id].waiting = m.array[id].waiting

LEMMA SameContentsOK ==
    ASSUME NEW m, NEW n, NEW alive, SameContents(m, n), Conserved(m), WaitersOK(m, alive)
    PROVE  Conserved(n) /\ WaitersOK(n, alive) /\ Later(m, n)
<1>1. Conserved(n)
  BY DEF SameContents, Conserved
<1>2. WaitersOK(n, alive)
  BY DEF SameContents, WaitersOK
<1>3. Later(m, n)
  BY DEF SameContents, Later
<1> QED BY <1>1, <1>2, <1>3

WithUser(who, id, p) == [who EXCEPT ![id] = @ \cup {p}]
WithoutUser(who, id, p) == [who EXCEPT ![id] = @ \ {p}]

LEMMA PidIsFinite == IsFiniteSet(Pid) /\ Cardinality(Pid) = MAX_PROCESS_NUMBER
<1>1. Pid = 0..(MAX_PROCESS_NUMBER - 1) /\ MAX_PROCESS_NUMBER \in Nat \ {0}
  BY SharedMemoryAssumption DEF Pid
<1> QED BY <1>1, FS_Interval

LEMMA LeftOK ==
    ASSUME NEW m, NEW who \in [Shmid -> SUBSET Pid], NEW alive, NEW id \in Shmid,
           MemoriesOK(m, who, alive), OrphansUsed(m, {id}), NEW p \in who[id]
    PROVE  /\ MemoriesOK(Left(m, id), WithoutUser(who, id, p), alive)
           /\ OrphansUsed(Left(m, id), {})
           /\ Later(m, Left(m, id))
<1> DEFINE users == m.array[id].users - 1
           n == [m EXCEPT !.array[id].users = users]
           fewer == WithoutUser(who, id, p)
<1>1. m \in Memories /\ m.array[id].users \in Nat
  BY DEF MemoriesOK, Memories, Memory
<1>2. /\ IsFiniteSet(who[id]) /\ Cardinality(who[id]) \in Nat
      /\ Cardinality(who[id] \ {p}) = Cardinality(who[id]) - 1
      /\ Cardinality(who[id] \ {p}) \in Nat
  <2>1. IsFiniteSet(who[id])
    BY PidIsFinite, FS_Subset
  <2> QED BY <2>1, FS_RemoveElement, FS_CardinalityType
<1>3. /\ m.array[id].users >= Cardinality(who[id])
      /\ AttachesFit => m.array[id].users = Cardinality(who[id])
      /\ users \in Nat
  <2>1. /\ m.array[id].users >= Cardinality(who[id])
        /\ AttachesFit => m.array[id].users = Cardinality(who[id])
    BY DEF MemoriesOK, Counted
  <2> QED BY <1>1, <1>2, <2>1
<1>4. m.array[id].is_present
  BY <1>2, <1>3 DEF MemoriesOK, Counted
<1>5. /\ n \in Memories /\ n.free = m.free /\ n.blocked = m.blocked
      /\ n.array[id].users = users /\ n.array[id].is_present
      /\ n.array[id].orphan = m.array[id].orphan
      /\ n.array[id].frames = m.array[id].frames
      /\ n.array[id].waiting = m.array[id].waiting
      /\ \A other \in Shmid : other # id => n.array[other] = m.array[other]
  <2> HIDE DEF users
  <2> QED BY <1>1, <1>3, <1>4, UsersAt
<1>6. Left(m, id) = IF users = 0 /\ (n.array[id].waiting # <<>> \/ n.array[id].orphan)
                    THEN Destroyed(n, id) ELSE n
  <2>1. Left(m, id) = IF n.array[id].users = 0
                         /\ (n.array[id].waiting # <<>> \/ n.array[id].orphan)
                      THEN Destroyed(n, id) ELSE n
    BY DEF Left
  <2> HIDE DEF n
  <2> QED BY <1>5, <2>1
<1> HIDE DEF n
<1>7. /\ fewer[id] = who[id] \ {p}
      /\ \A other \in Shmid : other # id => fewer[other] = who[other]
      /\ users >= Cardinality(fewer[id])
      /\ AttachesFit => users = Cardinality(fewer[id])
  <2>1. /\ fewer[id] = who[id] \ {p}
        /\ \A other \in Shmid : other # id => fewer[other] = who[other]
    BY DEF WithoutUser
  <2> HIDE DEF fewer
  <2> QED BY <1>1, <1>2, <1>3, <2>1
<1> HIDE DEF fewer, users
<1>8. SameContents(m, n)
  <2> SUFFICES ASSUME NEW other \in Shmid
               PROVE  /\ n.array[other].is_present = m.array[other].is_present
                      /\ n.array[other].frames = m.array[other].frames
                      /\ n.array[other].waiting = m.array[other].waiting
    BY <1>5 DEF SameContents
  <2>1. CASE other = id
    <3>1. n.array[id].is_present = m.array[id].is_present
      BY <1>1, <1>3, UsersAt DEF n
    <3> QED BY <1>5, <2>1, <3>1
  <2>2. CASE other # id
    BY <1>5, <2>2
  <2> QED BY <2>1, <2>2
<1>9. Conserved(n) /\ WaitersOK(n, alive) /\ Later(m, n)
  BY <1>8, SameContentsOK DEF MemoriesOK
<1>10. Counted(n, fewer)
  <2> SUFFICES ASSUME NEW other \in Shmid
               PROVE  /\ n.array[other].users >= Cardinality(fewer[other])
                      /\ AttachesFit => n.array[other].users = Cardinality(fewer[other])
                      /\ n.array[other].is_present => Len(n.array[other].frames) \in PageCounts
                      /\ ~n.array[other].is_present =>
                           n.array[other].users = 0 /\ n.array[other].frames = <<>>
    BY DEF Counted
  <2>1. CASE other = id
    <3>1. Len(m.array[id].frames) \in PageCounts
      BY <1>4 DEF MemoriesOK, Counted
    <3> QED BY <1>5, <1>7, <2>1, <3>1
  <2>2. CASE other # id
    BY <1>5, <1>7, <2>2 DEF MemoriesOK, Counted
  <2> QED BY <2>1, <2>2
<1>11. MemoriesOK(n, fewer, alive)
  BY <1>5, <1>9, <1>10 DEF MemoriesOK
<1>12. OrphansUsed(n, {id})
  BY <1>5 DEF OrphansUsed
<1>13. CASE users = 0 /\ (n.array[id].waiting # <<>> \/ n.array[id].orphan)
  <2>1. Left(m, id) = Destroyed(n, id) /\ n.array[id].users = 0
    BY <1>5, <1>6, <1>13
  <2>2. /\ MemoriesOK(Destroyed(n, id), fewer, alive)
        /\ OrphansUsed(Destroyed(n, id), {}) /\ Later(n, Destroyed(n, id))
    BY <1>5, <1>11, <1>12, <2>1, DestroyedOK
  <2> QED BY <1>9, <2>1, <2>2, LaterIsTransitive DEF fewer
<1>14. CASE ~(users = 0 /\ (n.array[id].waiting # <<>> \/ n.array[id].orphan))
  <2>1. Left(m, id) = n
    BY <1>6, <1>14
  <2>2. ASSUME n.array[id].orphan PROVE n.array[id].users > 0
    <3>1. users # 0
      BY <1>14, <2>2
    <3> QED BY <1>3, <1>5, <3>1
  <2>3. OrphansUsed(n, {})
    BY <1>12, <2>2 DEF OrphansUsed
  <2> QED BY <1>9, <1>11, <2>1, <2>3 DEF fewer
<1> QED BY <1>13, <1>14

LEMMA OrphanedOK ==
    ASSUME NEW m, NEW who, NEW alive, NEW id \in Shmid, NEW p,
           MemoriesOK(m, who, alive), OrphansUsed(m, {})
    PROVE  /\ MemoriesOK(Orphaned(m, p, id), who, alive)
           /\ OrphansUsed(Orphaned(m, p, id), {id})
           /\ Later(m, Orphaned(m, p, id))
<1>1. CASE m.array[id].owner_id # p
  <2>1. Orphaned(m, p, id) = m
    BY <1>1 DEF Orphaned
  <2> QED BY <2>1, NothingIsLater DEF OrphansUsed
<1>2. CASE m.array[id].owner_id = p
  <2> DEFINE memory == [m.array[id] EXCEPT !.orphan = TRUE, !.owner_id = NoProcess]
             array == [m.array EXCEPT ![id] = memory]
             n == [m EXCEPT !.array = array]
  <2>1. m \in Memories /\ m.array \in [Shmid -> Memory] /\ m.array[id] \in Memory
    BY DEF MemoriesOK, Memories
  <2>2. /\ memory \in Memory /\ memory.users = m.array[id].users
        /\ memory.is_present = m.array[id].is_present
        /\ memory.frames = m.array[id].frames /\ memory.waiting = m.array[id].waiting
    BY <2>1 DEF Memory
  <2>3. Orphaned(m, p, id) = n
    BY <1>2 DEF Orphaned
  <2> HIDE DEF memory
  <2>4. /\ array \in [Shmid -> Memory] /\ array[id] = memory
        /\ \A other \in Shmid : other # id => array[other] = m.array[other]
    BY <2>1, <2>2
  <2> HIDE DEF array
  <2>5. n \in Memories /\ n.array = array /\ n.free = m.free /\ n.blocked = m.blocked
    BY <2>1, <2>4 DEF Memories
  <2> HIDE DEF n
  <2>6. \A other \in Shmid : /\ n.array[other].users = m.array[other].users
                             /\ n.array[other].is_present = m.array[other].is_present
                             /\ n.array[other].frames = m.array[other].frames
                             /\ n.array[other].waiting = m.array[other].waiting
    BY <2>2, <2>4, <2>5
  <2>7. SameContents(m, n)
    BY <2>5, <2>6 DEF SameContents
  <2>8. Counted(n, who)
    BY <2>6 DEF MemoriesOK, Counted
  <2>9. OrphansUsed(n, {id})
    BY <2>4, <2>5 DEF OrphansUsed
  <2> QED BY <2>3, <2>5, <2>7, <2>8, <2>9, SameContentsOK DEF MemoriesOK
<1> QED BY <1>1, <1>2

\* destroy_process() makes a process leave all that it has attached.
LEMMA AbandonedOK ==
    ASSUME NEW m, NEW who \in [Shmid -> SUBSET Pid], NEW alive, NEW p \in Pid,
           shmem_history[p] \in Seq(Entry),
           \A j, k \in DOMAIN shmem_history[p] :
             j < k => shmem_history[p][j].id # shmem_history[p][k].id,
           \A id \in Shmid :
             p \in who[id] <=> \E k \in DOMAIN shmem_history[p] : shmem_history[p][k].id = id,
           MemoriesOK(m, who, alive), OrphansUsed(m, {})
    PROVE  /\ MemoriesOK(Abandoned(m, p), [id \in Shmid |-> who[id] \ {p}], alive)
           /\ OrphansUsed(Abandoned(m, p), {})
           /\ Later(m, Abandoned(m, p))
<1> DEFINE h == shmem_history[p]
           n == Len(h)
           After(k) == [id \in Shmid |->
                          IF \E j \in 1..k : h[j].id = id THEN who[id] \ {p} ELSE who[id]]
<1>1. n \in Nat /\ DOMAIN h = 1..n /\ \A k \in 1..n : h[k].id \in Shmid
  <2>1. n \in Nat /\ DOMAIN h = 1..n /\ \A k \in 1..n : h[k] \in Entry
    OBVIOUS
  <2> HIDE DEF h
  <2> QED BY <2>1 DEF Entry
<1>2. PICK ended : Abandons(ended, m, p) /\ ended[n] = Abandoned(m, p)
  BY AbandonedRecursion
<1> DEFINE Good(k) == /\ MemoriesOK(ended[k], After(k), alive)
                      /\ OrphansUsed(ended[k], {}) /\ Later(m, ended[k])
           good == {k \in 0..n : Good(k)}
<1>3. 0 \in good
  <2>1. After(0) = who
    OBVIOUS
  <2>2. ended[0] = m
    BY <1>2 DEF Abandons
  <2> HIDE DEF After
  <2>3. Good(0)
    BY <2>1, <2>2, NothingIsLater
  <2> QED BY <1>1, <2>3
<1>4. ASSUME NEW k \in 0..(n - 1), k \in good
      PROVE  k + 1 \in good
  <2> DEFINE id == h[k + 1].id
             orphaned == Orphaned(ended[k], p, id)
  <2>1. k + 1 \in 1..n /\ k + 1 \in 0..n /\ (k + 1) - 1 = k /\ k \in Nat
    BY <1>1
  <2>2. id \in Shmid /\ p \in who[id] /\ \A j \in 1..k : h[j].id # id
    <3>1. \A j \in 1..k : j \in 1..n /\ j < k + 1
      BY <1>1, <2>1
    <3> QED BY <1>1, <2>1, <3>1
  <2>3. ended[k + 1] = Left(orphaned, id)
    BY <1>2, <2>1 DEF Abandons
  <2>4. After(k) \in [Shmid -> SUBSET Pid] /\ p \in After(k)[id]
    BY <2>2
  <2>5. After(k + 1) = WithoutUser(After(k), id, p)
    <3>1. \A other \in Shmid : (\E j \in 1..(k + 1) : h[j].id = other)
                                 <=> ((\E j \in 1..k : h[j].id = other) \/ other = id)
      <4>1. \A j \in 1..(k + 1) : j \in 1..k \/ j = k + 1
        BY <2>1
      <4>2. \A j \in 1..k : j \in 1..(k + 1)
        BY <2>1
      <4>3. k + 1 \in 1..(k + 1)
        BY <2>1
      <4> HIDE DEF h
      <4> QED BY <4>1, <4>2, <4>3
    <3>2. \A other \in Shmid : After(k + 1)[other] =
            IF other = id THEN After(k)[id] \ {p} ELSE After(k)[other]
      <4> HIDE DEF h
      <4>1. \A other \in Shmid : After(k + 1)[other] =
              IF (\E j \in 1..k : h[j].id = other) \/ other = id
              THEN who[other] \ {p} ELSE who[other]
        BY <3>1
      <4> QED BY <2>2, <4>1
    <3>3. DOMAIN After(k + 1) = Shmid /\ After(k + 1) = [other \in Shmid |-> After(k + 1)[other]]
      OBVIOUS
    <3> HIDE DEF After, id
    <3>4. WithoutUser(After(k), id, p) =
            [other \in Shmid |-> IF other = id THEN After(k)[id] \ {p} ELSE After(k)[other]]
      BY <2>4 DEF WithoutUser
    <3>5. [other \in Shmid |-> After(k + 1)[other]] =
            [other \in Shmid |-> IF other = id THEN After(k)[id] \ {p} ELSE After(k)[other]]
      BY <3>2
    <3> QED BY <3>3, <3>4, <3>5
  <2> HIDE DEF After, id
  <2>6. /\ MemoriesOK(orphaned, After(k), alive) /\ OrphansUsed(orphaned, {id})
        /\ Later(ended[k], orphaned)
    BY <1>4, <2>2, OrphanedOK
  <2> HIDE DEF orphaned
  <2>7. /\ MemoriesOK(Left(orphaned, id), WithoutUser(After(k), id, p), alive)
        /\ OrphansUsed(Left(orphaned, id), {})
        /\ Later(orphaned, Left(orphaned, id))
    BY <2>2, <2>4, <2>6, LeftOK
  <2>8. Later(m, Left(orphaned, id))
    BY <1>4, <2>6, <2>7, LaterIsTransitive
  <2>9. Good(k + 1)
    BY <2>3, <2>5, <2>7, <2>8
  <2> HIDE DEF Good
  <2> QED BY <2>1, <2>9
<1>5. Good(n)
  <2>1. n \in 0..n
    BY <1>1
  <2>2. n \in good
    <3> HIDE DEF good, n
    <3>1. \A k \in 0..n : k \in good
      BY <1>1, <1>3, <1>4, PositionInduction
    <3> QED BY <2>1, <3>1
  <2> QED BY <2>2
<1>6. After(n) = [id \in Shmid |-> who[id] \ {p}]
  <2>1. \A id \in Shmid : (\E j \in 1..n : h[j].id = id) <=> p \in who[id]
    BY <1>1
  <2>2. \A id \in Shmid : p \notin who[id] => who[id] \ {p} = who[id]
    OBVIOUS
  <2> HIDE DEF h, n
  <2> QED BY <2>1, <2>2
<1> HIDE DEF After
<1> QED BY <1>2, <1>5, <1>6

-----------------------------------------------------------------------------
(* The inductive invariant.                                                *)

Who == [id \in Shmid |-> Users(id)]

StateTypes ==
    /\ present \in SUBSET Pid
    /\ shmem_history \in [Pid -> Seq(Entry)]
    /\ status \in {"running", "undefined"}

\* A process has a memory attached once, and each one where the one attached
\* before it ends, with a page between.
Ordered(histories) ==
    \A p \in Pid : \A j, k \in DOMAIN histories[p] : j < k =>
        LET later == histories[p][j]
            earlier == histories[p][k]
        IN  /\ later.id # earlier.id
            /\ earlier.page + Len(shm_array[earlier.id].frames) + 1 <= later.page

HistoriesOK == Ordered(shmem_history)

Inv ==
    /\ StateTypes
    /\ HistoriesOK
    /\ MemoriesOK(Now, Who, present)
    /\ OrphansUsed(Now, {})

LEMMA BecomesNow ==
    ASSUME NEW n \in Memories, Become(n)
    PROVE  Now' = n /\ shm_array' = n.array /\ free_frames' = n.free /\ blocked' = n.blocked
BY DEF Become, Now, Memories

LEMMA InvFollows ==
    ASSUME NEW n, Become(n), MemoriesOK(n, Who', present'), OrphansUsed(n, {}),
           StateTypes', HistoriesOK'
    PROVE  Inv'
<1>1. Now' = n
  BY BecomesNow DEF MemoriesOK
<1> QED BY <1>1 DEF Inv

\* Who has a memory attached, from the histories.
LEMMA WhoIs ==
    ASSUME StateTypes
    PROVE  /\ Who \in [Shmid -> SUBSET Pid]
           /\ \A p \in Pid : shmem_history[p] \in Seq(Entry)
           /\ \A p \in Pid : \A k \in DOMAIN shmem_history[p] :
                shmem_history[p][k] \in Entry /\ shmem_history[p][k].id \in Shmid
           /\ \A id \in Shmid, p \in Pid :
                p \in Who[id] <=> \E k \in DOMAIN shmem_history[p] : shmem_history[p][k].id = id
<1>1. \A p \in Pid : shmem_history[p] \in Seq(Entry)
  BY DEF StateTypes
<1>2. \A p \in Pid : \A k \in DOMAIN shmem_history[p] : shmem_history[p][k] \in Entry
  BY <1>1
<1>3. \A e \in Entry : e.id \in Shmid
  BY DEF Entry
<1> QED BY <1>1, <1>2, <1>3 DEF Who, Users

\* A memory that is attached has not ended.
LEMMA AttachedIsPresent ==
    ASSUME NEW m, NEW who \in [Shmid -> SUBSET Pid], NEW alive, MemoriesOK(m, who, alive),
           NEW id \in Shmid, who[id] # {}
    PROVE  m.array[id].is_present /\ m.array[id].users > 0
<1>1. IsFiniteSet(who[id]) /\ Cardinality(who[id]) \in Nat /\ Cardinality(who[id]) # 0
  <2>1. IsFiniteSet(who[id])
    BY PidIsFinite, FS_Subset
  <2> QED BY <2>1, FS_CardinalityType, FS_EmptySet
<1>2. m.array[id].users \in Nat /\ m.array[id].users >= Cardinality(who[id])
  BY DEF MemoriesOK, Memories, Memory, Counted
<1>3. m.array[id].users > 0
  BY <1>1, <1>2
<1> QED BY <1>3 DEF MemoriesOK, Counted

\* The places of what stays attached stay good.
LEMMA HistoriesStay ==
    ASSUME Inv, StateTypes',
           NEW n, shm_array' = n.array, NEW alive, MemoriesOK(n, Who', alive),
           \A id \in Shmid : n.array[id].is_present /\ shm_array[id].is_present =>
             Len(n.array[id].frames) = Len(shm_array[id].frames),
           \A id \in Shmid : Who'[id] \subseteq Who[id],
           Ordered(shmem_history')
    PROVE  HistoriesOK'
<1> SUFFICES ASSUME NEW q \in Pid, NEW j \in DOMAIN shmem_history'[q],
                    NEW k \in DOMAIN shmem_history'[q], j < k
             PROVE  /\ shmem_history'[q][j].id # shmem_history'[q][k].id
                    /\ shmem_history'[q][k].page
                         + Len(shm_array'[shmem_history'[q][k].id].frames) + 1
                         <= shmem_history'[q][j].page
  BY DEF HistoriesOK, Ordered
<1> DEFINE id == shmem_history'[q][k].id
<1>1. id \in Shmid
  <2>1. shmem_history'[q] \in Seq(Entry)
    BY DEF StateTypes
  <2>2. shmem_history'[q][k] \in Entry
    BY <2>1
  <2> QED BY <2>2 DEF Entry
<1>2. q \in Who'[id] /\ Who' \in [Shmid -> SUBSET Pid]
  BY <1>1 DEF Who, Users
<1>3. q \in Who[id] /\ Who \in [Shmid -> SUBSET Pid]
  BY <1>1, <1>2, WhoIs DEF Inv
<1>4. n.array[id].is_present
  BY <1>1, <1>2, AttachedIsPresent
<1>5. shm_array[id].is_present
  <2>1. MemoriesOK(Now, Who, present)
    BY DEF Inv
  <2>2. Now.array[id].is_present
    BY <1>1, <1>3, <2>1, AttachedIsPresent
  <2> QED BY <2>2 DEF Now
<1>6. Len(shm_array'[id].frames) = Len(shm_array[id].frames)
  BY <1>1, <1>4, <1>5
<1> QED BY <1>6 DEF Ordered

\* What every step must do: keep the invariant, and wake whoever waits for a
\* memory that ends.
EndsWell ==
    \A id \in Shmid : shm_array[id].is_present /\ ~shm_array'[id].is_present
                        => Range(shm_array[id].waiting) \cap blocked' = {}

StepOK == Inv' /\ EndsWell

\* From now on m is the state of the memories that the step starts from, which
\* may count the user of an attach that fails.
Starts(m) ==
    /\ MemoriesOK(m, Who, present) /\ OrphansUsed(m, {})
    /\ \A id \in Shmid : /\ m.array[id].is_present = shm_array[id].is_present
                         /\ m.array[id].frames = shm_array[id].frames
                         /\ m.array[id].waiting = shm_array[id].waiting

LEMMA NowStarts == Inv => Starts(Now)
BY DEF Inv, Starts, Now

LEMMA DieOK ==
    ASSUME Inv, NEW m, Starts(m), NEW p \in present, Die(m, p), UNCHANGED status
    PROVE  StepOK
<1> DEFINE after == Abandoned(m, p)
           n == [after EXCEPT !.blocked = @ \ {p}]
           left == [id \in Shmid |-> Who[id] \ {p}]
<1>1. /\ p \in Pid /\ StateTypes /\ Who \in [Shmid -> SUBSET Pid]
      /\ shmem_history \in [Pid -> Seq(Entry)]
      /\ \A id \in Shmid, q \in Pid :
           q \in Who[id] <=> \E k \in DOMAIN shmem_history[q] : shmem_history[q][k].id = id
  BY WhoIs DEF Inv, StateTypes
<1>2. /\ MemoriesOK(after, left, present) /\ OrphansUsed(after, {}) /\ Later(m, after)
  <2>1. \A j, k \in DOMAIN shmem_history[p] :
          j < k => shmem_history[p][j].id # shmem_history[p][k].id
    BY <1>1 DEF Inv, HistoriesOK, Ordered
  <2>2. /\ shmem_history[p] \in Seq(Entry)
        /\ \A id \in Shmid :
             p \in Who[id] <=> \E k \in DOMAIN shmem_history[p] : shmem_history[p][k].id = id
        /\ MemoriesOK(m, Who, present) /\ OrphansUsed(m, {})
    BY <1>1 DEF Starts
  <2> HIDE DEF after, left
  <2> QED BY <1>1, <2>1, <2>2, AbandonedOK DEF after, left
<1>3. /\ Become(n) /\ present' = present \ {p}
      /\ shmem_history' = [shmem_history EXCEPT ![p] = <<>>]
  BY DEF Die
<1> HIDE DEF after
<1>4. /\ n \in Memories /\ n.array = after.array /\ n.free = after.free
      /\ n.blocked = after.blocked \ {p}
  BY <1>2 DEF MemoriesOK, Memories
<1> HIDE DEF n
<1>5. /\ shmem_history' \in [Pid -> Seq(Entry)] /\ shmem_history'[p] = <<>>
      /\ \A q \in Pid : q # p => shmem_history'[q] = shmem_history[q]
  BY <1>1, <1>3
<1>6. StateTypes'
  BY <1>1, <1>3, <1>5 DEF StateTypes
<1>7. Who' = left
  <2>1. ASSUME NEW id \in Shmid PROVE Users(id)' = Users(id) \ {p}
    <3>1. \A q \in Pid : q # p => (q \in Users(id)' <=> q \in Users(id))
      BY <1>5 DEF Users
    <3>2. p \notin Users(id)'
      BY <1>5 DEF Users
    <3>3. Users(id)' \subseteq Pid /\ Users(id) \subseteq Pid
      BY DEF Users
    <3> QED BY <3>1, <3>2, <3>3
  <2> QED BY <2>1 DEF Who
<1>8. Counted(n, left) /\ Conserved(n) /\ OrphansUsed(n, {})
  BY <1>2, <1>4 DEF MemoriesOK, Counted, Conserved, OrphansUsed
<1>9. WaitersOK(n, present')
  BY <1>2, <1>3, <1>4 DEF MemoriesOK, WaitersOK
<1>10. MemoriesOK(n, Who', present')
  BY <1>4, <1>7, <1>8, <1>9 DEF MemoriesOK
<1>11. shm_array' = n.array /\ blocked' = n.blocked
  BY <1>3, <1>4, BecomesNow
<1>12. \A id \in Shmid :
         /\ n.array[id].is_present /\ shm_array[id].is_present =>
              n.array[id].frames = shm_array[id].frames
         /\ shm_array[id].is_present /\ ~n.array[id].is_present =>
              Range(shm_array[id].waiting) \cap n.blocked = {}
  BY <1>2, <1>4 DEF Starts, Later
<1> HIDE DEF left
<1>13. HistoriesOK'
  <2>1. \A id \in Shmid : n.array[id].is_present /\ shm_array[id].is_present =>
          Len(n.array[id].frames) = Len(shm_array[id].frames)
    BY <1>12
  <2>2. Ordered(shmem_history')
    <3>1. \A q \in Pid : shmem_history'[q] = shmem_history[q] \/ DOMAIN shmem_history'[q] = {}
      BY <1>5
    <3> QED BY <3>1 DEF Inv, HistoriesOK, Ordered
  <2>3. \A id \in Shmid : Who'[id] \subseteq Who[id]
    BY <1>7 DEF left
  <2> QED BY <1>6, <1>10, <1>11, <2>1, <2>2, <2>3, HistoriesStay
<1>14. EndsWell
  BY <1>11, <1>12 DEF EndsWell
<1> QED BY <1>3, <1>6, <1>8, <1>10, <1>13, <1>14, InvFollows DEF StepOK

LEMMA DestroyProcessOK ==
    ASSUME Inv, NEW p \in Pid, destroy_process(p)
    PROVE  StepOK
BY NowStarts, DieOK DEF destroy_process

-----------------------------------------------------------------------------
(* Where a memory is in a history, and the history without it.             *)

LEMMA LeastIsMin ==
    ASSUME NEW s \in SUBSET Nat, IsFiniteSet(s), s # {}
    PROVE  Min(s) \in s /\ \A i \in s : Min(s) <= i
<1>1. \E i \in s : \A j \in s : i <= j
  BY LeastPosition
<1> QED BY <1>1 DEF Min

LEMMA PlaceIsEntry ==
    ASSUME NEW history \in Seq(Entry), NEW id
    PROVE  LET attached == \E k \in DOMAIN history : history[k].id = id
           IN  /\ Place(history, id) # 0 <=> attached
               /\ attached => /\ Place(history, id) \in DOMAIN history
                              /\ history[Place(history, id)].id = id
<1> DEFINE places == {k \in DOMAIN history : history[k].id = id}
<1>1. DOMAIN history = 1..Len(history) /\ Len(history) \in Nat
  OBVIOUS
<1>2. CASE places = {}
  <2>1. Place(history, id) = 0
    BY <1>2 DEF Place
  <2> QED BY <1>2, <2>1
<1>3. CASE places # {}
  <2>1. places \in SUBSET Nat /\ IsFiniteSet(places)
    <3>1. places \subseteq 1..Len(history) /\ IsFiniteSet(1..Len(history))
      BY <1>1, FS_Interval
    <3> QED BY <1>1, <3>1, FS_Subset
  <2>2. Place(history, id) = Min(places)
    BY <1>3 DEF Place
  <2> HIDE DEF places
  <2>3. Place(history, id) \in places
    BY <1>3, <2>1, <2>2, LeastIsMin
  <2> QED BY <1>1, <2>3 DEF places
<1> QED BY <1>2, <1>3

LEMMA RemovedAt ==
    ASSUME NEW S, NEW list \in Seq(S), NEW i \in DOMAIN list
    PROVE  /\ RemoveAt(list, i) \in Seq(S) /\ Len(RemoveAt(list, i)) = Len(list) - 1
           /\ \A k \in 1..(Len(list) - 1) :
                RemoveAt(list, i)[k] = IF k < i THEN list[k] ELSE list[k + 1]
<1> DEFINE n == Len(list)
           front == SubSeq(list, 1, i - 1)
           back == SubSeq(list, i + 1, n)
<1>1. n \in Nat /\ i \in 1..n /\ \A k \in 1..n : list[k] \in S
  OBVIOUS
<1> HIDE DEF n
<1>2. /\ front \in Seq(S) /\ Len(front) = i - 1
      /\ \A k \in 1..(i - 1) : front[k] = list[k]
  <2>1. 1 \in Int /\ i - 1 \in Int /\ \A k \in 1..(i - 1) : list[k] \in S
    BY <1>1
  <2>2. /\ front \in Seq(S) /\ Len(front) = IF 1 <= i - 1 THEN (i - 1) - 1 + 1 ELSE 0
        /\ \A k \in 1..((i - 1) - 1 + 1) : front[k] = list[1 + k - 1]
    <3> HIDE DEF front
    <3> QED BY <2>1, SubSeqProperties DEF front
  <2> HIDE DEF front
  <2> QED BY <1>1, <2>2
<1>3. /\ back \in Seq(S) /\ Len(back) = n - i
      /\ \A k \in 1..(n - i) : back[k] = list[i + k]
  <2>1. i + 1 \in Int /\ n \in Int /\ \A k \in (i + 1)..n : list[k] \in S
    BY <1>1
  <2>2. /\ back \in Seq(S) /\ Len(back) = IF i + 1 <= n THEN n - (i + 1) + 1 ELSE 0
        /\ \A k \in 1..(n - (i + 1) + 1) : back[k] = list[(i + 1) + k - 1]
    <3> HIDE DEF back
    <3> QED BY <2>1, SubSeqProperties DEF back
  <2> HIDE DEF back
  <2> QED BY <1>1, <2>2
<1> HIDE DEF front, back
<1>4. RemoveAt(list, i) = front \o back
  BY DEF RemoveAt, front, back, n
<1>5. /\ front \o back \in Seq(S) /\ Len(front \o back) = Len(front) + Len(back)
      /\ \A k \in 1..(Len(front) + Len(back)) :
           (front \o back)[k] = IF k <= Len(front) THEN front[k] ELSE back[k - Len(front)]
  BY <1>2, <1>3, ConcatProperties
<1>6. ASSUME NEW k \in 1..(n - 1)
      PROVE  (front \o back)[k] = IF k < i THEN list[k] ELSE list[k + 1]
  <2>1. (front \o back)[k] = IF k <= i - 1 THEN front[k] ELSE back[k - (i - 1)]
    <3>1. k \in 1..((i - 1) + (n - i))
      BY <1>1
    <3>2. Len(front) = i - 1 /\ Len(back) = n - i
      BY <1>2, <1>3
    <3> QED BY <1>5, <3>1, <3>2
  <2>2. CASE k < i
    BY <1>1, <1>2, <2>1, <2>2
  <2>3. CASE ~(k < i)
    <3>1. k - (i - 1) \in 1..(n - i) /\ i + (k - (i - 1)) = k + 1 /\ ~(k <= i - 1)
      BY <1>1, <2>3
    <3>2. back[k - (i - 1)] = list[i + (k - (i - 1))]
      BY <1>3, <3>1
    <3>3. back[k - (i - 1)] = list[k + 1]
      BY <3>1, <3>2
    <3>4. (front \o back)[k] = back[k - (i - 1)]
      BY <2>1, <3>1
    <3> QED BY <2>3, <3>3, <3>4
  <2> QED BY <2>2, <2>3
<1>7. Len(front \o back) = n - 1
  BY <1>1, <1>2, <1>3, <1>5
<1>8. \A k \in 1..(n - 1) : (front \o back)[k] = IF k < i THEN list[k] ELSE list[k + 1]
  BY <1>6
<1>9. n = Len(list)
  BY DEF n
<1> QED BY <1>4, <1>5, <1>7, <1>8, <1>9

-----------------------------------------------------------------------------
(* shm_attach().                                                           *)

LEMMA AttachedIsUser ==
    ASSUME Inv, NEW p \in Pid, NEW id \in Shmid
    PROVE  /\ Attached(p, id) <=> p \in Who[id]
           /\ Attached(p, id) =>
                /\ Place(shmem_history[p], id) \in DOMAIN shmem_history[p]
                /\ shmem_history[p][Place(shmem_history[p], id)].id = id
<1>1. /\ shmem_history[p] \in Seq(Entry)
      /\ p \in Who[id] <=> \E k \in DOMAIN shmem_history[p] : shmem_history[p][k].id = id
  BY WhoIs DEF Inv
<1> QED BY <1>1, PlaceIsEntry DEF Attached

\* Counting one user more.
LEMMA CountedUp ==
    ASSUME Inv, NEW id \in Shmid, shm_array[id].is_present
    PROVE  LET n == [Now EXCEPT !.array[id].users = @ + 1]
           IN  /\ SameContents(Now, n) /\ Later(Now, n) /\ OrphansUsed(n, {})
               /\ Conserved(n) /\ WaitersOK(n, present)
               /\ n.array[id].users = shm_array[id].users + 1
               /\ \A other \in Shmid : other # id => n.array[other] = shm_array[other]
<1> DEFINE users == shm_array[id].users + 1
           n == [Now EXCEPT !.array[id].users = users]
<1>1. /\ Now \in Memories /\ Now.array = shm_array /\ shm_array[id].users \in Nat
      /\ users \in Nat /\ users > 0
  <2>1. Now \in Memories /\ Now.array = shm_array
    BY DEF Inv, MemoriesOK, Now
  <2>2. shm_array[id].users \in Nat
    BY <2>1 DEF Memories, Memory
  <2> QED BY <2>1, <2>2
<1>2. n = [Now EXCEPT !.array[id].users = @ + 1]
  BY DEF Now
<1> HIDE DEF users
<1>3. /\ n \in Memories /\ n.free = Now.free /\ n.blocked = Now.blocked
      /\ n.array[id].users = users
      /\ n.array[id].is_present = Now.array[id].is_present
      /\ n.array[id].frames = Now.array[id].frames
      /\ n.array[id].waiting = Now.array[id].waiting
      /\ \A other \in Shmid : other # id => n.array[other] = Now.array[other]
  BY <1>1, UsersAt
<1> HIDE DEF n
<1>4. \A other \in Shmid : /\ n.array[other].is_present = Now.array[other].is_present
                           /\ n.array[other].frames = Now.array[other].frames
                           /\ n.array[other].waiting = Now.array[other].waiting
  <2> SUFFICES ASSUME NEW other \in Shmid
               PROVE  /\ n.array[other].is_present = Now.array[other].is_present
                      /\ n.array[other].frames = Now.array[other].frames
                      /\ n.array[other].waiting = Now.array[other].waiting
    OBVIOUS
  <2>1. CASE other = id
    BY <1>3, <2>1
  <2>2. CASE other # id
    BY <1>3, <2>2
  <2> QED BY <2>1, <2>2
<1>5. SameContents(Now, n)
  BY <1>3, <1>4 DEF SameContents
<1>6. Conserved(n) /\ WaitersOK(n, present) /\ Later(Now, n)
  BY <1>5, SameContentsOK DEF Inv, MemoriesOK
<1>7. OrphansUsed(n, {})
  BY <1>1, <1>3 DEF Inv, OrphansUsed
<1> QED BY <1>1, <1>2, <1>3, <1>5, <1>6, <1>7 DEF users

LEMMA AttachPageIsNat ==
    ASSUME Inv, NEW p \in Pid
    PROVE  /\ AttachPage(p) \in Nat
           /\ \A k \in DOMAIN shmem_history[p] :
                shmem_history[p][k].page + Len(shm_array[shmem_history[p][k].id].frames) + 1
                  <= AttachPage(p)
<1> DEFINE h == shmem_history[p]
           end(k) == h[k].page + Len(shm_array[h[k].id].frames) + 1
<1>1. /\ h \in Seq(Entry) /\ DOMAIN h = 1..Len(h) /\ Len(h) \in Nat
      /\ \A k \in DOMAIN h : h[k].page \in Nat /\ h[k].id \in Shmid
  <2>1. h \in Seq(Entry) /\ \A k \in DOMAIN h : h[k] \in Entry
    BY WhoIs DEF Inv
  <2> HIDE DEF h
  <2> QED BY <2>1 DEF Entry
<1>2. \A id \in Shmid : Len(shm_array[id].frames) \in Nat
  <2>1. Now.array = shm_array /\ Now \in Memories
    BY DEF Now, Inv, MemoriesOK
  <2>2. \A id \in Shmid : shm_array[id].frames \in Seq(Frames)
    BY <2>1 DEF Memories, Memory
  <2> QED BY <2>2
<1>3. \A k \in DOMAIN h : end(k) \in Nat
  <2> HIDE DEF h
  <2> QED BY <1>1, <1>2
<1>4. \A j, k \in DOMAIN h : j < k => end(k) <= h[j].page
  BY DEF Inv, HistoriesOK, Ordered
<1>5. CASE h = <<>>
  BY <1>5 DEF AttachPage
<1>6. CASE h # <<>>
  <2>1. 1 \in DOMAIN h /\ AttachPage(p) = end(1)
    BY <1>1, <1>6 DEF AttachPage
  <2>2. ASSUME NEW k \in DOMAIN h PROVE end(k) <= end(1)
    <3>1. CASE k = 1
      BY <1>3, <3>1
    <3>2. CASE k # 1
      <4>1. 1 < k
        BY <1>1, <3>2
      <4>2. end(k) <= h[1].page
        BY <1>4, <2>1, <4>1
      <4>3. h[1].page \in Nat /\ Len(shm_array[h[1].id].frames) \in Nat /\ end(k) \in Nat
        BY <1>1, <1>2, <1>3, <2>1
      <4> HIDE DEF h
      <4>4. h[1].page <= end(1)
        BY <4>3
      <4> QED BY <1>3, <2>1, <4>2, <4>3, <4>4
    <3> QED BY <3>1, <3>2
  <2> QED BY <1>3, <2>1, <2>2
<1> QED BY <1>5, <1>6

LEMMA ShmAttachOK ==
    ASSUME Inv, NEW p \in Pid, NEW id \in Shmid, shm_attach(p, id)
    PROVE  StepOK
<1> DEFINE memory == shm_array[id]
           n == [Now EXCEPT !.array[id].users = @ + 1]
           entry == [id |-> id, page |-> AttachPage(p)]
           h == shmem_history[p]
<1>1. /\ p \in present /\ memory.is_present /\ p \notin Who[id]
      /\ AttachPage(p) <= MAX_PAGE /\ AttachPage(p) \in Nat /\ UNCHANGED status
  BY AttachedIsUser, AttachPageIsNat DEF shm_attach, Caller
<1>2. /\ SameContents(Now, n) /\ Later(Now, n) /\ OrphansUsed(n, {})
      /\ Conserved(n) /\ WaitersOK(n, present)
      /\ n.array[id].users = memory.users + 1
      /\ \A other \in Shmid : other # id => n.array[other] = shm_array[other]
  BY <1>1, CountedUp
<1>3. /\ n \in Memories
      /\ \A other \in Shmid : /\ n.array[other].is_present = shm_array[other].is_present
                              /\ n.array[other].frames = shm_array[other].frames
                              /\ n.array[other].waiting = shm_array[other].waiting
  BY <1>2 DEF SameContents, Now
<1>4. /\ Who \in [Shmid -> SUBSET Pid] /\ IsFiniteSet(Who[id]) /\ Cardinality(Who[id]) \in Nat
      /\ memory.users \in Nat /\ Len(memory.frames) \in PageCounts
  <2>1. Who \in [Shmid -> SUBSET Pid]
    BY WhoIs DEF Inv
  <2>2. IsFiniteSet(Who[id])
    BY <2>1, PidIsFinite, FS_Subset
  <2>3. Now \in Memories /\ Now.array = shm_array
    BY DEF Now, Inv, MemoriesOK
  <2>4. memory.users \in Nat
    BY <2>3 DEF Memories, Memory
  <2>5. Len(memory.frames) \in PageCounts
    BY <1>1, <2>3 DEF Inv, MemoriesOK, Counted
  <2> QED BY <2>1, <2>2, <2>4, <2>5, FS_CardinalityType
<1>5. /\ memory.users >= Cardinality(Who[id])
      /\ AttachesFit => memory.users = Cardinality(Who[id])
      /\ \A other \in Shmid :
           /\ shm_array[other].users >= Cardinality(Who[other])
           /\ AttachesFit => shm_array[other].users = Cardinality(Who[other])
           /\ shm_array[other].is_present => Len(shm_array[other].frames) \in PageCounts
           /\ ~shm_array[other].is_present =>
                shm_array[other].users = 0 /\ shm_array[other].frames = <<>>
  <2>1. Counted(Now, Who) /\ Now.array = shm_array
    BY DEF Now, Inv, MemoriesOK
  <2> QED BY <2>1 DEF Counted
<1>6. IF AttachPage(p) + Len(memory.frames) > WINDOW
      THEN Die(n, p)
      ELSE /\ Become(n) /\ UNCHANGED present
           /\ shmem_history' = [shmem_history EXCEPT ![p] = <<entry>> \o h]
  BY DEF shm_attach
<1> HIDE DEF n, memory
<1>7. CASE AttachPage(p) + Len(memory.frames) > WINDOW
  <2>1. ~AttachesFit
    <3>1. WINDOW \in Nat /\ MAX_PAGE \in Nat /\ Len(memory.frames) \in Nat
      BY <1>4, SharedMemoryAssumption
    <3>2. ~(MAX_PAGE + Len(memory.frames) <= WINDOW)
      BY <1>1, <1>7, <3>1
    <3> QED BY <1>4, <3>2 DEF AttachesFit
  <2>2. Counted(n, Who)
    <3> SUFFICES ASSUME NEW other \in Shmid
                 PROVE  /\ n.array[other].users >= Cardinality(Who[other])
                        /\ n.array[other].is_present => Len(n.array[other].frames) \in PageCounts
                        /\ ~n.array[other].is_present =>
                             n.array[other].users = 0 /\ n.array[other].frames = <<>>
      BY <2>1 DEF Counted
    <3>1. CASE other = id
      <4>1. n.array[id].users >= Cardinality(Who[id])
        BY <1>2, <1>4, <1>5
      <4>2. n.array[id].is_present /\ Len(n.array[id].frames) \in PageCounts
        BY <1>1, <1>3, <1>4 DEF memory
      <4> QED BY <3>1, <4>1, <4>2
    <3>2. CASE other # id
      BY <1>2, <1>5, <3>2
    <3> QED BY <3>1, <3>2
  <2>3. Starts(n)
    BY <1>2, <1>3, <2>2 DEF Starts, MemoriesOK
  <2> QED BY <1>1, <1>6, <1>7, <2>3, DieOK
<1>8. CASE ~(AttachPage(p) + Len(memory.frames) > WINDOW)
  <2> DEFINE who == WithUser(Who, id, p)
             new == <<entry>> \o h
  <2>1. /\ Become(n) /\ present' = present /\ shmem_history' = [shmem_history EXCEPT ![p] = new]
    BY <1>6, <1>8
  <2>2. /\ shmem_history \in [Pid -> Seq(Entry)] /\ h \in Seq(Entry) /\ Len(h) \in Nat
        /\ DOMAIN h = 1..Len(h) /\ entry \in Entry
    <3>1. shmem_history \in [Pid -> Seq(Entry)] /\ h \in Seq(Entry)
      BY DEF Inv, StateTypes
    <3>2. entry \in Entry
      BY <1>1 DEF Entry
    <3> QED BY <3>1, <3>2
  <2> HIDE DEF h, entry
  <2>3. /\ new \in Seq(Entry) /\ Len(new) = Len(h) + 1 /\ DOMAIN new = 1..(Len(h) + 1)
        /\ new[1] = entry /\ \A k \in 2..(Len(h) + 1) : new[k] = h[k - 1]
    BY <2>2
  <2> HIDE DEF new
  <2>4. /\ shmem_history' \in [Pid -> Seq(Entry)] /\ shmem_history'[p] = new
        /\ \A q \in Pid : q # p => shmem_history'[q] = shmem_history[q]
    BY <2>1, <2>2, <2>3
  <2>5. StateTypes'
    BY <1>1, <2>1, <2>4 DEF StateTypes, Inv
  <2>6. Who' = who
    <3>1. ASSUME NEW other \in Shmid, NEW q \in Pid
          PROVE  q \in Users(other)' <=> q \in Users(other) \/ (other = id /\ q = p)
      <4>1. CASE q # p
        BY <2>4, <4>1 DEF Users
      <4>2. CASE q = p
        <5>1. q \in Users(other)' <=> \E k \in DOMAIN new : new[k].id = other
          BY <2>4, <4>2 DEF Users
        <5>2. q \in Users(other) <=> \E k \in DOMAIN h : h[k].id = other
          BY <4>2 DEF Users, h
        <5>3. entry.id = id
          BY DEF entry
        <5>4. ASSUME NEW k \in DOMAIN new
              PROVE  k = 1 \/ (k - 1 \in DOMAIN h /\ new[k] = h[k - 1])
          <6>1. k = 1 \/ (k \in 2..(Len(h) + 1) /\ k - 1 \in 1..Len(h))
            BY <2>2, <2>3
          <6> QED BY <2>2, <2>3, <6>1
        <5>5. ASSUME NEW k \in DOMAIN h
              PROVE  k + 1 \in DOMAIN new /\ new[k + 1] = h[k]
          <6>1. k + 1 \in 2..(Len(h) + 1) /\ k + 1 \in 1..(Len(h) + 1) /\ (k + 1) - 1 = k
            BY <2>2
          <6> QED BY <2>3, <6>1
        <5>6. 1 \in DOMAIN new
          BY <2>2, <2>3
        <5> QED BY <2>3, <4>2, <5>1, <5>2, <5>3, <5>4, <5>5, <5>6
      <4> QED BY <4>1, <4>2
    <3>2. ASSUME NEW other \in Shmid
          PROVE  Users(other)' = IF other = id THEN Users(id) \cup {p} ELSE Users(other)
      <4>1. Users(other)' \subseteq Pid /\ Users(other) \subseteq Pid
        BY DEF Users
      <4>2. CASE other = id
        BY <3>1, <4>1, <4>2
      <4>3. CASE other # id
        BY <3>1, <4>1, <4>3
      <4> QED BY <4>2, <4>3
    <3>3. Who' = [other \in Shmid |-> IF other = id THEN Users(id) \cup {p} ELSE Users(other)]
      BY <3>2 DEF Who
    <3> QED BY <3>3 DEF Who, WithUser
  <2>7. /\ who \in [Shmid -> SUBSET Pid] /\ Cardinality(who[id]) = Cardinality(Who[id]) + 1
        /\ \A other \in Shmid : other # id => who[other] = Who[other]
    <3>1. /\ who[id] = Who[id] \cup {p} /\ who \in [Shmid -> SUBSET Pid]
          /\ \A other \in Shmid : other # id => who[other] = Who[other]
      BY <1>4 DEF WithUser
    <3>2. Cardinality(Who[id] \cup {p}) = Cardinality(Who[id]) + 1
      BY <1>1, <1>4, FS_AddElement
    <3> QED BY <3>1, <3>2
  <2> HIDE DEF who
  <2>8. Counted(n, who)
    <3> SUFFICES ASSUME NEW other \in Shmid
                 PROVE  /\ n.array[other].users >= Cardinality(who[other])
                        /\ AttachesFit => n.array[other].users = Cardinality(who[other])
                        /\ n.array[other].is_present => Len(n.array[other].frames) \in PageCounts
                        /\ ~n.array[other].is_present =>
                             n.array[other].users = 0 /\ n.array[other].frames = <<>>
      BY DEF Counted
    <3>1. CASE other = id
      <4>1. /\ n.array[id].users >= Cardinality(who[id])
            /\ AttachesFit => n.array[id].users = Cardinality(who[id])
        BY <1>2, <1>4, <1>5, <2>7
      <4>2. n.array[id].is_present /\ Len(n.array[id].frames) \in PageCounts
        BY <1>1, <1>3, <1>4 DEF memory
      <4> QED BY <3>1, <4>1, <4>2
    <3>2. CASE other # id
      BY <1>2, <1>5, <2>7, <3>2
    <3> QED BY <3>1, <3>2
  <2>9. MemoriesOK(n, Who', present')
    BY <1>2, <1>3, <2>1, <2>6, <2>8 DEF MemoriesOK
  <2>10. shm_array' = n.array /\ blocked' = n.blocked
    BY <1>3, <2>1, BecomesNow
  <2>11. HistoriesOK'
    <3> DEFINE end(e) == e.page + Len(shm_array[e.id].frames) + 1
    <3>1. \A other \in Shmid : shm_array'[other].frames = shm_array[other].frames
      BY <1>3, <2>10
    <3>2. \A q \in Pid : \A k \in DOMAIN shmem_history[q] : shmem_history[q][k].id \in Shmid
      BY WhoIs DEF Inv
    <3>3. \A q \in Pid : \A j, k \in DOMAIN shmem_history[q] : j < k =>
             /\ shmem_history[q][j].id # shmem_history[q][k].id
             /\ end(shmem_history[q][k]) <= shmem_history[q][j].page
      BY DEF Inv, HistoriesOK, Ordered
    <3>4. entry.page = AttachPage(p) /\ entry.id = id
      BY DEF entry
    <3>5. \A k \in DOMAIN h : h[k].id # id /\ end(h[k]) <= AttachPage(p)
      BY <1>1, AttachPageIsNat, WhoIs DEF h, Inv
    <3> SUFFICES ASSUME NEW q \in Pid, NEW j \in DOMAIN shmem_history'[q],
                        NEW k \in DOMAIN shmem_history'[q], j < k
                 PROVE  /\ shmem_history'[q][j].id # shmem_history'[q][k].id
                        /\ shmem_history'[q][k].page
                             + Len(shm_array'[shmem_history'[q][k].id].frames) + 1
                             <= shmem_history'[q][j].page
      BY DEF HistoriesOK, Ordered
    <3>6. ASSUME NEW e, e.id \in Shmid
          PROVE  e.page + Len(shm_array'[e.id].frames) + 1 = end(e)
      BY <3>1, <3>6
    <3>7. CASE q # p
      <4>1. shmem_history'[q] = shmem_history[q]
        BY <2>4, <3>7
      <4> HIDE DEF end
      <4> QED BY <3>2, <3>3, <3>6, <4>1
    <3>8. CASE q = p
      <4>1. /\ j \in 1..(Len(h) + 1) /\ k \in 2..(Len(h) + 1) /\ k - 1 \in DOMAIN h
            /\ new[k] = h[k - 1] /\ shmem_history'[q] = new
        BY <2>2, <2>3, <2>4, <3>8
      <4>2. h[k - 1].id \in Shmid
        BY <3>2, <4>1 DEF h
      <4>3. CASE j = 1
        <5> HIDE DEF end
        <5>1. new[j] = entry
          BY <2>3, <4>3
        <5> QED BY <3>4, <3>5, <3>6, <4>1, <4>2, <5>1
      <4>4. CASE j # 1
        <5> HIDE DEF end
        <5>1. j - 1 \in DOMAIN h /\ new[j] = h[j - 1] /\ j - 1 < k - 1
          <6>1. /\ j \in 2..(Len(h) + 1) /\ j - 1 \in 1..Len(h) /\ j - 1 < k - 1
            BY <2>2, <4>1, <4>4
          <6> QED BY <2>2, <2>3, <6>1
        <5>2. /\ h[j - 1].id # h[k - 1].id
              /\ end(h[k - 1]) <= h[j - 1].page
          BY <3>3, <4>1, <5>1 DEF h
        <5> QED BY <3>6, <4>1, <4>2, <5>1, <5>2
      <4> QED BY <4>3, <4>4
    <3> QED BY <3>7, <3>8
  <2>12. EndsWell
    BY <1>3, <2>10 DEF EndsWell
  <2> QED BY <1>2, <2>1, <2>5, <2>9, <2>11, <2>12, InvFollows DEF StepOK
<1> QED BY <1>7, <1>8

-----------------------------------------------------------------------------
(* shm_detach() and shm_wait_and_destroy().                                *)

LEMMA DetachedHistories ==
    ASSUME Inv, NEW p \in Pid, NEW id \in Shmid, Attached(p, id),
           shmem_history' = [shmem_history EXCEPT ![p] = RemoveAt(@, Place(@, id))]
    PROVE  /\ shmem_history' \in [Pid -> Seq(Entry)]
           /\ Who' = WithoutUser(Who, id, p)
           /\ Ordered(shmem_history')
<1> DEFINE h == shmem_history[p]
           i == Place(h, id)
           rest == RemoveAt(h, i)
           moved(k) == IF k < i THEN k ELSE k + 1
<1>1. /\ h \in Seq(Entry) /\ DOMAIN h = 1..Len(h) /\ Len(h) \in Nat
      /\ i \in DOMAIN h /\ h[i].id = id
      /\ shmem_history \in [Pid -> Seq(Entry)]
      /\ shmem_history' = [shmem_history EXCEPT ![p] = rest]
  <2>1. shmem_history \in [Pid -> Seq(Entry)]
    BY DEF Inv, StateTypes
  <2> QED BY <2>1, AttachedIsUser
<1>2. \A j, k \in DOMAIN h : j < k =>
        /\ h[j].id # h[k].id
        /\ h[k].page + Len(shm_array[h[k].id].frames) + 1 <= h[j].page
  BY DEF Inv, HistoriesOK, Ordered
<1>3. \A k \in DOMAIN h : k # i => h[k].id # id
  <2> SUFFICES ASSUME NEW k \in DOMAIN h, k # i PROVE h[k].id # id
    OBVIOUS
  <2> HIDE DEF h, i
  <2>1. k < i \/ i < k
    BY <1>1
  <2> QED BY <1>1, <1>2, <2>1
<1>4. Who \in [Shmid -> SUBSET Pid]
  BY WhoIs DEF Inv
<1> HIDE DEF h, i
<1>5. /\ rest \in Seq(Entry) /\ DOMAIN rest = 1..(Len(h) - 1)
      /\ \A k \in 1..(Len(h) - 1) : moved(k) \in DOMAIN h /\ moved(k) # i /\ rest[k] = h[moved(k)]
      /\ \A j, k \in 1..(Len(h) - 1) : j < k => moved(j) < moved(k)
      /\ \A l \in DOMAIN h : l # i => \E k \in 1..(Len(h) - 1) : moved(k) = l
  <2>1. /\ rest \in Seq(Entry) /\ Len(rest) = Len(h) - 1
        /\ \A k \in 1..(Len(h) - 1) : rest[k] = IF k < i THEN h[k] ELSE h[k + 1]
    BY <1>1, RemovedAt
  <2> HIDE DEF rest
  <2>2. \A k \in 1..(Len(h) - 1) : moved(k) \in DOMAIN h /\ moved(k) # i /\ rest[k] = h[moved(k)]
    BY <1>1, <2>1
  <2>3. \A j, k \in 1..(Len(h) - 1) : j < k => moved(j) < moved(k)
    BY <1>1
  <2>4. ASSUME NEW l \in DOMAIN h, l # i
        PROVE  \E k \in 1..(Len(h) - 1) : moved(k) = l
    <3>1. CASE l < i
      <4>1. l \in 1..(Len(h) - 1) /\ moved(l) = l
        BY <1>1, <3>1
      <4> QED BY <4>1
    <3>2. CASE ~(l < i)
      <4>1. l - 1 \in 1..(Len(h) - 1) /\ moved(l - 1) = l
        BY <1>1, <2>4, <3>2
      <4> QED BY <4>1
    <3> QED BY <3>1, <3>2
  <2>5. DOMAIN rest = 1..(Len(h) - 1)
    BY <2>1
  <2> QED BY <2>1, <2>2, <2>3, <2>4, <2>5
<1> HIDE DEF rest, moved
<1>6. /\ shmem_history' \in [Pid -> Seq(Entry)] /\ shmem_history'[p] = rest
      /\ \A q \in Pid : q # p => shmem_history'[q] = shmem_history[q]
  BY <1>1, <1>5
<1>7. Who' = WithoutUser(Who, id, p)
  <2>1. ASSUME NEW other \in Shmid, NEW q \in Pid
        PROVE  q \in Users(other)' <=> q \in Users(other) /\ ~(other = id /\ q = p)
    <3>1. CASE q # p
      BY <1>6, <3>1 DEF Users
    <3>2. CASE q = p
      <4>1. q \in Users(other)' <=> \E k \in 1..(Len(h) - 1) : h[moved(k)].id = other
        <5>1. q \in Users(other)' <=> \E k \in DOMAIN rest : rest[k].id = other
          BY <1>6, <3>2 DEF Users
        <5> QED BY <1>5, <5>1
      <4>2. q \in Users(other) <=> \E k \in DOMAIN h : h[k].id = other
        BY <3>2 DEF Users, h
      <4>3. CASE other = id
        BY <1>3, <1>5, <3>2, <4>1, <4>3
      <4>4. CASE other # id
        <5>1. \A k \in DOMAIN h : h[k].id = other => k # i
          BY <1>1, <4>4
        <5>2. ASSUME NEW l \in DOMAIN h, h[l].id = other
              PROVE  \E k \in 1..(Len(h) - 1) : h[moved(k)].id = other
          BY <1>5, <5>1, <5>2
        <5> QED BY <1>5, <4>1, <4>2, <4>4, <5>2
      <4> QED BY <4>3, <4>4
    <3> QED BY <3>1, <3>2
  <2>2. ASSUME NEW other \in Shmid
        PROVE  Users(other)' = IF other = id THEN Users(id) \ {p} ELSE Users(other)
    <3>1. Users(other)' \subseteq Pid /\ Users(other) \subseteq Pid
      BY DEF Users
    <3>2. CASE other = id
      BY <2>1, <3>1, <3>2
    <3>3. CASE other # id
      BY <2>1, <3>1, <3>3
    <3> QED BY <3>2, <3>3
  <2>3. Who' = [other \in Shmid |-> IF other = id THEN Users(id) \ {p} ELSE Users(other)]
    BY <2>2 DEF Who
  <2> QED BY <2>3 DEF Who, WithoutUser
<1>8. Ordered(shmem_history')
  <2> SUFFICES ASSUME NEW q \in Pid, NEW j \in DOMAIN shmem_history'[q],
                      NEW k \in DOMAIN shmem_history'[q], j < k
               PROVE  /\ shmem_history'[q][j].id # shmem_history'[q][k].id
                      /\ shmem_history'[q][k].page
                           + Len(shm_array[shmem_history'[q][k].id].frames) + 1
                           <= shmem_history'[q][j].page
    BY DEF Ordered
  <2>1. CASE q # p
    BY <1>6, <2>1 DEF Inv, HistoriesOK, Ordered
  <2>2. CASE q = p
    <3>1. j \in 1..(Len(h) - 1) /\ k \in 1..(Len(h) - 1) /\ shmem_history'[q] = rest
      BY <1>5, <1>6, <2>2
    <3>2. /\ rest[j] = h[moved(j)] /\ rest[k] = h[moved(k)] /\ moved(j) < moved(k)
          /\ moved(j) \in DOMAIN h /\ moved(k) \in DOMAIN h
      BY <1>5, <3>1
    <3> QED BY <1>2, <3>1, <3>2
  <2> QED BY <2>1, <2>2
<1> QED BY <1>6, <1>7, <1>8

\* A call that leaves the processes alone, and every history as it was or
\* without one memory.
LEMMA LeaversOK ==
    ASSUME Inv, NEW n, Become(n), UNCHANGED <<present, status>>,
           MemoriesOK(n, Who', present), OrphansUsed(n, {}),
           shmem_history' \in [Pid -> Seq(Entry)], Ordered(shmem_history'),
           \A id \in Shmid : Who'[id] \subseteq Who[id],
           \A id \in Shmid :
             /\ n.array[id].is_present =>
                  shm_array[id].is_present /\ n.array[id].frames = shm_array[id].frames
             /\ shm_array[id].is_present /\ ~n.array[id].is_present =>
                  Range(shm_array[id].waiting) \cap n.blocked = {}
    PROVE  StepOK
<1>1. StateTypes'
  BY DEF StateTypes, Inv
<1>2. shm_array' = n.array /\ blocked' = n.blocked
  BY BecomesNow DEF MemoriesOK
<1>3. MemoriesOK(n, Who', present')
  OBVIOUS
<1>4. \A id \in Shmid : n.array[id].is_present /\ shm_array[id].is_present =>
        Len(n.array[id].frames) = Len(shm_array[id].frames)
  OBVIOUS
<1>5. HistoriesOK'
  BY <1>1, <1>2, <1>4, HistoriesStay
<1>6. EndsWell
  BY <1>2 DEF EndsWell
<1> QED BY <1>1, <1>3, <1>5, <1>6, InvFollows DEF StepOK

LEMMA LaterStarts ==
    ASSUME Inv, NEW n, Later(Now, n)
    PROVE  \A id \in Shmid :
             /\ n.array[id].is_present =>
                  /\ shm_array[id].is_present /\ n.array[id].frames = shm_array[id].frames
                  /\ n.array[id].waiting = shm_array[id].waiting
             /\ shm_array[id].is_present /\ ~n.array[id].is_present =>
                  Range(shm_array[id].waiting) \cap n.blocked = {}
BY DEF Later, Now

LEMMA DetachedOK ==
    ASSUME Inv, NEW p \in Pid, NEW id \in Shmid, Attached(p, id)
    PROVE  /\ MemoriesOK(Left(Now, id), WithoutUser(Who, id, p), present)
           /\ OrphansUsed(Left(Now, id), {})
           /\ Later(Now, Left(Now, id))
<1>1. Who \in [Shmid -> SUBSET Pid] /\ p \in Who[id]
  BY AttachedIsUser, WhoIs DEF Inv
<1>2. MemoriesOK(Now, Who, present) /\ OrphansUsed(Now, {id})
  BY DEF Inv, OrphansUsed
<1> QED BY <1>1, <1>2, LeftOK

LEMMA ShmDetachOK ==
    ASSUME Inv, NEW p \in Pid, NEW id \in Shmid, shm_detach(p, id)
    PROVE  StepOK
<1> DEFINE n == Left(Now, id)
<1>1. /\ Attached(p, id) /\ Become(n) /\ UNCHANGED <<present, status>>
      /\ shmem_history' = [shmem_history EXCEPT ![p] = RemoveAt(@, Place(@, id))]
  BY DEF shm_detach
<1>2. /\ shmem_history' \in [Pid -> Seq(Entry)] /\ Ordered(shmem_history')
      /\ Who' = WithoutUser(Who, id, p)
  BY <1>1, DetachedHistories
<1>3. MemoriesOK(n, Who', present) /\ OrphansUsed(n, {}) /\ Later(Now, n)
  BY <1>1, <1>2, DetachedOK
<1> HIDE DEF n
<1>4. \A other \in Shmid : Who'[other] \subseteq Who[other]
  <2>1. Who \in [Shmid -> SUBSET Pid]
    BY WhoIs DEF Inv
  <2> QED BY <1>2, <2>1 DEF WithoutUser
<1> QED BY <1>1, <1>2, <1>3, <1>4, LaterStarts, LeaversOK

\* The caller of shm_wait_and_destroy() joins those who wait.
Joined(m, id, p) == [m EXCEPT !.array[id].waiting = Append(@, p), !.blocked = @ \cup {p}]

LEMMA WaitingAt ==
    ASSUME NEW m \in Memories, NEW id \in Shmid, NEW p \in Pid
    PROVE  LET n == Joined(m, id, p)
           IN  /\ n \in Memories /\ n.free = m.free /\ n.blocked = m.blocked \cup {p}
               /\ Range(n.array[id].waiting) = Range(m.array[id].waiting) \cup {p}
               /\ \A other \in Shmid :
                    /\ n.array[other].is_present = m.array[other].is_present
                    /\ n.array[other].orphan = m.array[other].orphan
                    /\ n.array[other].users = m.array[other].users
                    /\ n.array[other].frames = m.array[other].frames
                    /\ other # id => n.array[other].waiting = m.array[other].waiting
<1> DEFINE waiting == Append(m.array[id].waiting, p)
           memory == [m.array[id] EXCEPT !.waiting = waiting]
           array == [m.array EXCEPT ![id] = memory]
           more == m.blocked \cup {p}
           n == [m EXCEPT !.array = array, !.blocked = more]
<1>1. /\ m.array \in [Shmid -> Memory] /\ m.array[id] \in Memory /\ m.blocked \in SUBSET Pid
      /\ m.free \in Seq(Frames) /\ m.array[id].waiting \in Seq(Pid)
  BY DEF Memories, Memory
<1>2. waiting \in Seq(Pid) /\ Range(waiting) = Range(m.array[id].waiting) \cup {p}
  BY <1>1, AppendMembers
<1>3. Joined(m, id, p) = n
  BY <1>1 DEF Memories, Joined
<1> HIDE DEF waiting
<1>4. /\ memory \in Memory /\ memory.waiting = waiting
      /\ memory.users = m.array[id].users /\ memory.frames = m.array[id].frames
      /\ memory.is_present = m.array[id].is_present /\ memory.orphan = m.array[id].orphan
  BY <1>1, <1>2 DEF Memory
<1> HIDE DEF memory
<1>5. /\ array \in [Shmid -> Memory] /\ array[id] = memory
      /\ \A other \in Shmid : other # id => array[other] = m.array[other]
  BY <1>1, <1>4
<1> HIDE DEF array
<1>6. n \in Memories /\ n.array = array /\ n.free = m.free /\ n.blocked = more
  BY <1>1, <1>5 DEF Memories
<1> HIDE DEF n
<1>7. \A other \in Shmid :
        /\ n.array[other].is_present = m.array[other].is_present
        /\ n.array[other].orphan = m.array[other].orphan
        /\ n.array[other].users = m.array[other].users
        /\ n.array[other].frames = m.array[other].frames
        /\ other # id => n.array[other].waiting = m.array[other].waiting
  BY <1>4, <1>5, <1>6
<1> QED BY <1>2, <1>3, <1>4, <1>5, <1>6, <1>7

LEMMA ShmWaitAndDestroyOK ==
    ASSUME Inv, NEW p \in Pid, NEW id \in Shmid, shm_wait_and_destroy(p, id)
    PROVE  StepOK
<1>1. p \in present /\ p \notin blocked /\ shm_array[id].is_present /\ UNCHANGED <<present, status>>
  BY DEF shm_wait_and_destroy, Caller
<1>2. /\ shmem_history \in [Pid -> Seq(Entry)] /\ Ordered(shmem_history)
      /\ MemoriesOK(Now, Who, present) /\ OrphansUsed(Now, {})
      /\ Now.array = shm_array /\ Now.blocked = blocked
  BY DEF Inv, StateTypes, HistoriesOK, Now
<1>3. CASE shm_array[id].users = 0
  <2> DEFINE n == Destroyed(Now, id)
  <2>1. Become(n) /\ shmem_history' = shmem_history
    BY <1>3 DEF shm_wait_and_destroy
  <2>2. Who' = Who
    BY <2>1 DEF Who, Users
  <2>3. MemoriesOK(n, Who, present) /\ OrphansUsed(n, {}) /\ Later(Now, n)
    <3>1. OrphansUsed(Now, {id}) /\ Now.array[id].is_present /\ Now.array[id].users = 0
      BY <1>1, <1>2, <1>3 DEF OrphansUsed
    <3> QED BY <1>2, <3>1, DestroyedOK
  <2> HIDE DEF n
  <2> QED BY <1>1, <1>2, <2>1, <2>2, <2>3, LaterStarts, LeaversOK
<1>4. CASE shm_array[id].users # 0
  <2> DEFINE d == IF Attached(p, id) THEN Left(Now, id) ELSE Now
             n == Joined(d, id, p)
  <2>1. /\ Become(n)
        /\ shmem_history' = IF Attached(p, id)
                            THEN [shmem_history EXCEPT ![p] = RemoveAt(@, Place(@, id))]
                            ELSE shmem_history
    BY <1>4 DEF shm_wait_and_destroy, Joined
  <2>2. /\ shmem_history' \in [Pid -> Seq(Entry)] /\ Ordered(shmem_history')
        /\ MemoriesOK(d, Who', present) /\ OrphansUsed(d, {}) /\ Later(Now, d)
        /\ \A other \in Shmid : Who'[other] \subseteq Who[other]
    <3>1. CASE Attached(p, id)
      <4>1. /\ shmem_history' = [shmem_history EXCEPT ![p] = RemoveAt(@, Place(@, id))]
            /\ d = Left(Now, id)
        BY <2>1, <3>1
      <4>2. /\ shmem_history' \in [Pid -> Seq(Entry)] /\ Ordered(shmem_history')
            /\ Who' = WithoutUser(Who, id, p)
        BY <3>1, <4>1, DetachedHistories
      <4>3. Who \in [Shmid -> SUBSET Pid]
        BY WhoIs DEF Inv
      <4>4. \A other \in Shmid : Who'[other] \subseteq Who[other]
        BY <4>2, <4>3 DEF WithoutUser
      <4> HIDE DEF d
      <4> QED BY <3>1, <4>1, <4>2, <4>4, DetachedOK
    <3>2. CASE ~Attached(p, id)
      <4>1. shmem_history' = shmem_history /\ d = Now
        BY <2>1, <3>2
      <4>2. Who' = Who
        BY <4>1 DEF Who, Users
      <4> HIDE DEF d
      <4> QED BY <1>2, <4>1, <4>2, NothingIsLater
    <3> QED BY <3>1, <3>2
  <2> HIDE DEF d
  <2>3. d \in Memories
    BY <2>2 DEF MemoriesOK
  <2>4. /\ n \in Memories /\ n.free = d.free /\ n.blocked = d.blocked \cup {p}
        /\ Range(n.array[id].waiting) = Range(d.array[id].waiting) \cup {p}
        /\ \A other \in Shmid :
             /\ n.array[other].is_present = d.array[other].is_present
             /\ n.array[other].orphan = d.array[other].orphan
             /\ n.array[other].users = d.array[other].users
             /\ n.array[other].frames = d.array[other].frames
             /\ other # id => n.array[other].waiting = d.array[other].waiting
    BY <2>3, WaitingAt
  <2> HIDE DEF n
  <2>5. Counted(n, Who') /\ Conserved(n) /\ OrphansUsed(n, {})
    <3>1. Counted(n, Who') /\ OrphansUsed(n, {})
      BY <2>2, <2>4 DEF MemoriesOK, Counted, OrphansUsed
    <3>2. Conserved(n)
      BY <2>2, <2>4 DEF MemoriesOK, Conserved
    <3> QED BY <3>1, <3>2
  <2>6. \A other \in Shmid :
          /\ d.array[other].is_present =>
               /\ shm_array[other].is_present /\ d.array[other].frames = shm_array[other].frames
               /\ d.array[other].waiting = shm_array[other].waiting
          /\ shm_array[other].is_present /\ ~d.array[other].is_present =>
               Range(shm_array[other].waiting) \cap d.blocked = {}
    BY <2>2, LaterStarts
  <2>7. \A other \in Shmid :
          shm_array[other].is_present => p \notin Range(shm_array[other].waiting)
    BY <1>1, <1>2 DEF MemoriesOK, WaitersOK
  <2>8. WaitersOK(n, present)
    <3>1. n.blocked \subseteq present
      BY <1>1, <2>2, <2>4 DEF MemoriesOK, WaitersOK
    <3>2. ASSUME NEW other \in Shmid, n.array[other].is_present,
                 NEW q \in Range(n.array[other].waiting)
          PROVE  q \in Range(d.array[other].waiting) \/ (q = p /\ other = id)
      <4>1. CASE other = id
        BY <2>4, <3>2, <4>1
      <4>2. CASE other # id
        BY <2>4, <3>2, <4>2
      <4> QED BY <4>1, <4>2
    <3>3. ASSUME NEW other \in Shmid, n.array[other].is_present
          PROVE  p \notin Range(d.array[other].waiting)
      BY <2>4, <2>6, <2>7, <3>3
    <3>4. ASSUME NEW other \in Shmid, n.array[other].is_present,
                 NEW q \in Range(n.array[other].waiting)
          PROVE  /\ q \in present => q \in n.blocked
                 /\ \A another \in Shmid :
                      n.array[another].is_present /\ q \in Range(n.array[another].waiting)
                        => another = other
      <4>1. CASE q = p
        BY <2>4, <3>2, <3>3, <3>4, <4>1
      <4>2. CASE q # p
        <5>1. q \in Range(d.array[other].waiting) /\ d.array[other].is_present
          BY <2>4, <3>2, <3>4, <4>2
        <5>2. \A another \in Shmid :
                n.array[another].is_present /\ q \in Range(n.array[another].waiting)
                  => d.array[another].is_present /\ q \in Range(d.array[another].waiting)
          BY <2>4, <3>2, <4>2
        <5> QED BY <2>2, <2>4, <5>1, <5>2 DEF MemoriesOK, WaitersOK
      <4> QED BY <4>1, <4>2
    <3> QED BY <3>1, <3>4 DEF WaitersOK
  <2>9. MemoriesOK(n, Who', present)
    BY <2>4, <2>5, <2>8 DEF MemoriesOK
  <2>10. \A other \in Shmid :
           /\ n.array[other].is_present =>
                shm_array[other].is_present /\ n.array[other].frames = shm_array[other].frames
           /\ shm_array[other].is_present /\ ~n.array[other].is_present =>
                Range(shm_array[other].waiting) \cap n.blocked = {}
    BY <2>4, <2>6, <2>7
  <2> QED BY <1>1, <2>1, <2>2, <2>5, <2>9, <2>10, LeaversOK
<1> QED BY <1>3, <1>4

-----------------------------------------------------------------------------
(* create_process(), the undefined steps, and shm_get().                   *)

\* A step that leaves the memories alone: the processes it adds are in no
\* waiting list of a memory that is present.
LEMMA NoMemoryChanges ==
    ASSUME Inv, UNCHANGED <<blocked, shm_array, shmem_history, free_frames>>,
           present \subseteq present', present' \in SUBSET Pid,
           status' \in {"running", "undefined"},
           \A q \in present' \ present : \A id \in Shmid :
             shm_array[id].is_present => q \notin Range(shm_array[id].waiting)
    PROVE  StepOK
<1>1. Now' = Now /\ Who' = Who /\ Now.blocked = blocked /\ Now.array = shm_array
  BY DEF Now, Who, Users
<1>2. StateTypes' /\ HistoriesOK'
  BY DEF Inv, StateTypes, HistoriesOK, Ordered
<1>3. WaitersOK(Now, present')
  BY <1>1 DEF Inv, MemoriesOK, WaitersOK
<1>4. MemoriesOK(Now', Who', present') /\ OrphansUsed(Now', {})
  BY <1>1, <1>3 DEF Inv, MemoriesOK
<1>5. Inv'
  BY <1>2, <1>4 DEF Inv
<1> QED BY <1>5 DEF StepOK, EndsWell

LEMMA UndefinedOK == ASSUME Inv, Undefined PROVE StepOK
<1>1. present \in SUBSET Pid
  BY DEF Inv, StateTypes
<1> QED BY <1>1, NoMemoryChanges DEF Undefined

LEMMA CreateProcessOK ==
    ASSUME Inv, NEW p \in Pid, create_process(p)
    PROVE  StepOK
<1>1. CASE \E id \in Shmid : shm_array[id].is_present /\ p \in ToSet(shm_array[id].waiting)
  BY <1>1, UndefinedOK DEF create_process
<1>2. CASE ~\E id \in Shmid : shm_array[id].is_present /\ p \in ToSet(shm_array[id].waiting)
  <2>1. /\ present' = present \cup {p}
        /\ UNCHANGED <<blocked, shm_array, shmem_history, free_frames, status>>
    BY <1>2 DEF create_process
  <2>2. present \in SUBSET Pid /\ status \in {"running", "undefined"}
    BY DEF Inv, StateTypes
  <2>3. \A id \in Shmid : shm_array[id].is_present => p \notin Range(shm_array[id].waiting)
    BY <1>2 DEF ToSet, Range
  <2> QED BY <2>1, <2>2, <2>3, NoMemoryChanges
<1> QED BY <1>1, <1>2

\* The first frames of the free list.
LEMMA PrefixMembers ==
    ASSUME NEW S, NEW list \in Seq(S), NEW m \in 0..Len(list)
    PROVE  /\ SubSeq(list, 1, m) \in Seq(S) /\ Len(SubSeq(list, 1, m)) = m
           /\ Range(SubSeq(list, 1, m)) = {list[i] : i \in 1..m}
           /\ IsInjective(list) => IsInjective(SubSeq(list, 1, m))
<1> DEFINE front == SubSeq(list, 1, m)
<1>1. /\ DOMAIN list = 1..Len(list) /\ Len(list) \in Nat /\ m \in Nat /\ m <= Len(list)
      /\ \A i \in 1..m : i \in DOMAIN list /\ list[i] \in S
  OBVIOUS
<1>2. /\ front \in Seq(S) /\ Len(front) = IF 1 <= m THEN m - 1 + 1 ELSE 0
      /\ \A i \in 1..(m - 1 + 1) : front[i] = list[1 + i - 1]
  <2>1. 1 \in Int /\ m \in Int
    BY <1>1
  <2> HIDE DEF front
  <2> QED BY <1>1, <2>1, SubSeqProperties DEF front
<1> HIDE DEF front
<1>3. front \in Seq(S) /\ Len(front) = m /\ \A i \in 1..m : front[i] = list[i]
  BY <1>1, <1>2
<1>4. DOMAIN front = 1..m
  BY <1>3
<1>5. Range(front) = {list[i] : i \in 1..m}
  BY <1>3, <1>4 DEF Range
<1>6. IsInjective(list) => IsInjective(front)
  BY <1>1, <1>3, <1>4 DEF IsInjective
<1> QED BY <1>3, <1>5, <1>6 DEF front

LEMMA ShmGetOK ==
    ASSUME Inv, NEW p \in Pid, NEW npages \in PageCounts, shm_get(p, npages)
    PROVE  StepOK
<1> DEFINE absent == {id \in Shmid : ~shm_array[id].is_present}
           id == Min(absent)
           frames == Reverse(SubSeq(free_frames, 1, npages))
           rest == SubSeq(free_frames, npages + 1, Len(free_frames))
           memory == [is_present |-> TRUE, orphan |-> FALSE, owner_id |-> p,
                      users |-> 0, waiting |-> <<>>, frames |-> frames]
           array == [shm_array EXCEPT ![id] = memory]
           n == [array |-> array, free |-> rest, blocked |-> blocked]
<1>1. CASE absent = {} \/ npages > Len(free_frames)
  <2>1. Undefined
    BY <1>1 DEF shm_get
  <2> QED BY <2>1, UndefinedOK
<1>2. CASE ~(absent = {} \/ npages > Len(free_frames))
  <2>1. /\ shm_array' = array /\ free_frames' = rest
        /\ UNCHANGED <<present, blocked, shmem_history, status>>
    BY <1>2 DEF shm_get
  <2>2. id \in Shmid /\ ~shm_array[id].is_present
    <3>1. Shmid = 0..(MAX_SHAREDMEMORY_NUMBER - 1) /\ MAX_SHAREDMEMORY_NUMBER \in Nat
      BY SharedMemoryAssumption DEF Shmid
    <3>2. absent \in SUBSET Nat /\ IsFiniteSet(absent)
      <4>1. absent \subseteq Shmid /\ IsFiniteSet(Shmid)
        BY <3>1, FS_Interval
      <4> QED BY <3>1, <4>1, FS_Subset
    <3>3. id \in absent
      <4> HIDE DEF absent
      <4> QED BY <1>2, <3>2, LeastIsMin
    <3> QED BY <3>3
  <2>3. /\ MemoriesOK(Now, Who, present) /\ OrphansUsed(Now, {})
        /\ Now.array = shm_array /\ Now.free = free_frames /\ Now.blocked = blocked
        /\ shm_array \in [Shmid -> Memory] /\ free_frames \in Seq(Frames)
        /\ blocked \in SUBSET Pid
    <3>1. MemoriesOK(Now, Who, present) /\ OrphansUsed(Now, {}) /\ Now \in Memories
      BY DEF Inv, MemoriesOK
    <3>2. Now.array = shm_array /\ Now.free = free_frames /\ Now.blocked = blocked
      BY DEF Now
    <3> QED BY <3>1, <3>2 DEF Memories
  <2>4. /\ npages \in Nat /\ npages \in 0..Len(free_frames) /\ Len(free_frames) \in Nat
    BY <1>2, <2>3, SharedMemoryAssumption
  <2>5. /\ frames \in Seq(Frames) /\ Len(frames) = npages
        /\ Range(frames) = {free_frames[i] : i \in 1..npages}
        /\ IsInjective(free_frames) => IsInjective(frames)
    <3> DEFINE front == SubSeq(free_frames, 1, npages)
    <3>1. /\ front \in Seq(Frames) /\ Len(front) = npages
          /\ Range(front) = {free_frames[i] : i \in 1..npages}
          /\ IsInjective(free_frames) => IsInjective(front)
      BY <2>3, <2>4, PrefixMembers
    <3>2. frames = Reverse(front)
      OBVIOUS
    <3> HIDE DEF front, frames
    <3> QED BY <3>1, <3>2, ReverseMembers
  <2>6. /\ rest \in Seq(Frames)
        /\ Range(rest) = {free_frames[i] : i \in (npages + 1)..Len(free_frames)}
        /\ IsInjective(free_frames) => IsInjective(rest)
    BY <2>3, <2>4, SuffixMembers
  <2> HIDE DEF id, frames, rest
  <2>7. /\ memory \in Memory /\ memory.users = 0 /\ memory.waiting = <<>>
        /\ memory.frames = frames /\ memory.is_present /\ ~memory.orphan
    <3>1. <<>> \in Seq(Pid)
      OBVIOUS
    <3> QED BY <2>5, <3>1 DEF Memory
  <2> HIDE DEF memory
  <2>8. /\ array \in [Shmid -> Memory] /\ array[id] = memory
        /\ \A other \in Shmid : other # id => array[other] = shm_array[other]
    BY <2>2, <2>3, <2>7
  <2> HIDE DEF array
  <2>9. /\ n \in Memories /\ n.array = array /\ n.free = rest /\ n.blocked = blocked
        /\ Become(n)
    BY <2>1, <2>3, <2>6, <2>8 DEF Memories, Become
  <2> HIDE DEF n
  <2>10. Who' = Who /\ Who \in [Shmid -> SUBSET Pid] /\ Who[id] = {}
    <3>1. Who' = Who
      BY <2>1 DEF Who, Users
    <3>2. Who \in [Shmid -> SUBSET Pid]
      BY WhoIs DEF Inv
    <3>3. Who[id] = {}
      BY <2>2, <2>3, <3>2, AttachedIsPresent
    <3> QED BY <3>1, <3>2, <3>3
  <2>11. Counted(n, Who)
    <3> SUFFICES ASSUME NEW other \in Shmid
                 PROVE  /\ n.array[other].users >= Cardinality(Who[other])
                        /\ AttachesFit => n.array[other].users = Cardinality(Who[other])
                        /\ n.array[other].is_present => Len(n.array[other].frames) \in PageCounts
                        /\ ~n.array[other].is_present =>
                             n.array[other].users = 0 /\ n.array[other].frames = <<>>
      BY DEF Counted
    <3>1. CASE other = id
      <4>1. Cardinality(Who[id]) = 0
        BY <2>10, FS_EmptySet
      <4>2. n.array[id].users = 0 /\ n.array[id].is_present
            /\ Len(n.array[id].frames) \in PageCounts
        BY <2>5, <2>7, <2>8, <2>9
      <4> QED BY <3>1, <4>1, <4>2
    <3>2. CASE other # id
      BY <2>3, <2>8, <2>9, <3>2 DEF MemoriesOK, Counted
    <3> QED BY <3>1, <3>2
  <2>12. Conserved(n)
    <3>1. /\ IsInjective(free_frames)
          /\ \A other \in Shmid : /\ IsInjective(shm_array[other].frames)
                                  /\ Range(shm_array[other].frames) \cap Range(free_frames) = {}
          /\ \A a, b \in Shmid :
               a # b => Range(shm_array[a].frames) \cap Range(shm_array[b].frames) = {}
          /\ \A f \in Frames :
               f \in Range(free_frames) \/ \E other \in Shmid : f \in Range(shm_array[other].frames)
      BY <2>3 DEF MemoriesOK, Conserved
    <3>2. Range(shm_array[id].frames) = {}
      <4>1. shm_array[id].frames = <<>>
        BY <2>2, <2>3 DEF MemoriesOK, Counted
      <4> QED BY <4>1, EmptyMembers
    <3>3. DOMAIN free_frames = 1..Len(free_frames)
      BY <2>3
    <3>4. /\ Range(frames) \cup Range(rest) = Range(free_frames)
          /\ Range(frames) \cap Range(rest) = {}
      <4>1. \A i \in 1..npages : i \in DOMAIN free_frames
        BY <2>4, <3>3
      <4>2. \A i \in (npages + 1)..Len(free_frames) : i \in DOMAIN free_frames
        BY <2>4, <3>3
      <4>3. \A i \in DOMAIN free_frames :
              i \in 1..npages \/ i \in (npages + 1)..Len(free_frames)
        BY <2>4, <3>3
      <4>4. \A i \in 1..npages : \A j \in (npages + 1)..Len(free_frames) : i # j
        BY <2>4
      <4>5. \A i, j \in DOMAIN free_frames : free_frames[i] = free_frames[j] => i = j
        BY <3>1 DEF IsInjective
      <4>6. Range(free_frames) = {free_frames[i] : i \in DOMAIN free_frames}
        BY DEF Range
      <4>7. Range(frames) \cup Range(rest) = Range(free_frames)
        BY <2>5, <2>6, <4>1, <4>2, <4>3, <4>6
      <4>8. Range(frames) \cap Range(rest) = {}
        BY <2>5, <2>6, <4>1, <4>2, <4>4, <4>5
      <4> QED BY <4>7, <4>8
    <3>5. n.array[id].frames = frames /\ n.free = rest
          /\ \A other \in Shmid : other # id => n.array[other].frames = shm_array[other].frames
      BY <2>7, <2>8, <2>9
    <3>6. IsInjective(frames) /\ IsInjective(rest)
      BY <2>5, <2>6, <3>1
    <3>7. \A other \in Shmid : /\ IsInjective(n.array[other].frames)
                               /\ Range(n.array[other].frames) \cap Range(n.free) = {}
      <4> SUFFICES ASSUME NEW other \in Shmid
                   PROVE  /\ IsInjective(n.array[other].frames)
                          /\ Range(n.array[other].frames) \cap Range(n.free) = {}
        OBVIOUS
      <4>1. CASE other = id
        BY <3>4, <3>5, <3>6, <4>1
      <4>2. CASE other # id
        BY <3>1, <3>4, <3>5, <4>2
      <4> QED BY <4>1, <4>2
    <3>8. \A a, b \in Shmid :
            a # b => Range(n.array[a].frames) \cap Range(n.array[b].frames) = {}
      <4> SUFFICES ASSUME NEW a \in Shmid, NEW b \in Shmid, a # b
                   PROVE  Range(n.array[a].frames) \cap Range(n.array[b].frames) = {}
        OBVIOUS
      <4>1. CASE a = id
        BY <3>1, <3>4, <3>5, <4>1
      <4>2. CASE b = id
        BY <3>1, <3>4, <3>5, <4>2
      <4>3. CASE a # id /\ b # id
        BY <3>1, <3>5, <4>3
      <4> QED BY <4>1, <4>2, <4>3
    <3>9. ASSUME NEW f \in Frames
          PROVE  f \in Range(n.free) \/ \E other \in Shmid : f \in Range(n.array[other].frames)
      <4>1. CASE f \in Range(free_frames)
        BY <2>2, <3>4, <3>5, <4>1
      <4>2. CASE \E other \in Shmid : f \in Range(shm_array[other].frames)
        <5>1. PICK other \in Shmid : f \in Range(shm_array[other].frames)
          BY <4>2
        <5>2. other # id
          BY <3>2, <5>1
        <5> QED BY <3>5, <5>1, <5>2
      <4> QED BY <3>1, <4>1, <4>2
    <3> QED BY <3>5, <3>6, <3>7, <3>8, <3>9 DEF Conserved
  <2>13. WaitersOK(n, present)
    <3>1. \A other \in Shmid : \A q \in Range(n.array[other].waiting) :
            other # id /\ n.array[other] = shm_array[other]
      <4>1. Range(n.array[id].waiting) = {}
        BY <2>7, <2>8, <2>9, EmptyMembers
      <4> QED BY <2>8, <2>9, <4>1
    <3> QED BY <2>3, <2>9, <3>1 DEF MemoriesOK, WaitersOK
  <2>14. OrphansUsed(n, {})
    BY <2>3, <2>7, <2>8, <2>9 DEF OrphansUsed
  <2>15. StateTypes'
    BY <2>1 DEF Inv, StateTypes
  <2>16. HistoriesOK'
    <3> SUFFICES ASSUME NEW q \in Pid, NEW j \in DOMAIN shmem_history[q],
                        NEW k \in DOMAIN shmem_history[q], j < k
                 PROVE  /\ shmem_history[q][j].id # shmem_history[q][k].id
                        /\ shmem_history[q][k].page
                             + Len(array[shmem_history[q][k].id].frames) + 1
                             <= shmem_history[q][j].page
      BY <2>1 DEF HistoriesOK, Ordered
    <3>1. shmem_history[q][k].id \in Shmid /\ q \in Who[shmem_history[q][k].id]
      BY WhoIs DEF Inv
    <3>2. array[shmem_history[q][k].id] = shm_array[shmem_history[q][k].id]
      BY <2>8, <2>10, <3>1
    <3> QED BY <3>2 DEF Inv, HistoriesOK, Ordered
  <2>17. EndsWell
    BY <2>1, <2>7, <2>8 DEF EndsWell
  <2>18. MemoriesOK(n, Who', present')
    BY <2>1, <2>9, <2>10, <2>11, <2>12, <2>13 DEF MemoriesOK
  <2> QED BY <2>9, <2>14, <2>15, <2>16, <2>17, <2>18, InvFollows DEF StepOK
<1> QED BY <1>1, <1>2

-----------------------------------------------------------------------------
(* The theorems.                                                           *)

LEMMA InitInv == Init => Inv
<1> SUFFICES ASSUME Init PROVE Inv
  OBVIOUS
<1>1. /\ free_frames \in Seq(Frames) /\ IsInjective(free_frames)
      /\ Range(free_frames) = Frames
  <2> DEFINE c == Cardinality(Frames)
  <2>1. IsFiniteSet(Frames) /\ c \in Nat /\ ExistsBijection(1..c, Frames)
    BY SharedMemoryAssumption, FS_CardinalityType
  <2>2. PICK f \in [1..c -> Frames] : IsInjective(f)
    BY <2>1 DEF ExistsBijection, Bijection, Injection
  <2>3. /\ free_frames \in [1..c -> Frames] /\ IsInjective(free_frames)
    <3>1. free_frames = CHOOSE g \in [1..c -> Frames] : IsInjective(g)
      BY DEF Init, SetToSeq
    <3> QED BY <2>2, <3>1
  <2>4. free_frames \in Injection(1..c, Frames)
    BY <2>3 DEF Injection
  <2>5. IsFiniteSet(1..c) /\ Cardinality(1..c) = c
    BY <2>1, FS_Interval
  <2>6. free_frames \in Surjection(1..c, Frames)
    BY <2>1, <2>4, <2>5, FS_Injection
  <2>7. Range(free_frames) = Frames
    BY <2>3, <2>6 DEF Surjection, Range
  <2>8. free_frames \in Seq(Frames)
    BY <2>1, <2>3
  <2> QED BY <2>3, <2>7, <2>8
<1>2. /\ shm_array = [id \in Shmid |->
           [is_present |-> FALSE, orphan |-> FALSE, owner_id |-> 0,
            users |-> 0, frames |-> <<>>, waiting |-> <<>>]]
      /\ shmem_history = [p \in Pid |-> <<>>] /\ blocked = {}
      /\ present \in SUBSET Pid /\ status = "running"
  BY DEF Init
<1>3. \A id \in Shmid : /\ ~shm_array[id].is_present /\ shm_array[id].users = 0
                        /\ shm_array[id].frames = <<>> /\ shm_array[id].waiting = <<>>
  BY <1>2
<1>4. StateTypes /\ HistoriesOK
  <2>1. \A p \in Pid : DOMAIN shmem_history[p] = {}
    BY <1>2
  <2>2. <<>> \in Seq(Entry)
    OBVIOUS
  <2>3. StateTypes
    BY <1>2, <2>2 DEF StateTypes
  <2> QED BY <2>1, <2>3 DEF HistoriesOK, Ordered
<1>5. Now \in Memories /\ Now.array = shm_array /\ Now.free = free_frames /\ Now.blocked = {}
  <2>1. 0 \in Pid
    BY SharedMemoryAssumption DEF Pid
  <2>2. shm_array \in [Shmid -> Memory]
    <3>1. <<>> \in Seq(Frames) /\ <<>> \in Seq(Pid)
      OBVIOUS
    <3> QED BY <1>2, <2>1, <3>1 DEF Memory
  <2> QED BY <1>1, <1>2, <2>2 DEF Now, Memories
<1>6. \A id \in Shmid : Who[id] = {}
  BY <1>2 DEF Who, Users
<1>7. Counted(Now, Who)
  <2>1. \A id \in Shmid : Cardinality(Who[id]) = 0
    BY <1>6, FS_EmptySet
  <2>2. \A id \in Shmid : /\ Now.array[id].users = 0 /\ ~Now.array[id].is_present
                          /\ Now.array[id].frames = <<>>
    BY <1>3, <1>5
  <2> QED BY <2>1, <2>2 DEF Counted
<1>8. Conserved(Now)
  BY <1>1, <1>3, <1>5, EmptyMembers DEF Conserved
<1>9. WaitersOK(Now, present) /\ OrphansUsed(Now, {})
  BY <1>3, <1>5 DEF WaitersOK, OrphansUsed
<1> QED BY <1>4, <1>5, <1>7, <1>8, <1>9 DEF Inv, MemoriesOK

LEMMA NextOK == ASSUME Inv, [Next]_vars PROVE StepOK
<1>1. CASE Next
  <2>1. ASSUME NEW p \in Pid, NEW npages \in PageCounts, shm_get(p, npages)
        PROVE  StepOK
    BY <2>1, ShmGetOK
  <2>2. ASSUME NEW p \in Pid, NEW id \in Shmid, shm_attach(p, id)
        PROVE  StepOK
    BY <2>2, ShmAttachOK
  <2>3. ASSUME NEW p \in Pid, NEW id \in Shmid, shm_detach(p, id)
        PROVE  StepOK
    BY <2>3, ShmDetachOK
  <2>4. ASSUME NEW p \in Pid, NEW id \in Shmid, shm_wait_and_destroy(p, id)
        PROVE  StepOK
    BY <2>4, ShmWaitAndDestroyOK
  <2>5. ASSUME NEW p \in Pid, destroy_process(p) PROVE StepOK
    BY <2>5, DestroyProcessOK
  <2>6. ASSUME NEW p \in Pid, create_process(p) PROVE StepOK
    BY <2>6, CreateProcessOK
  <2> QED BY <1>1, <2>1, <2>2, <2>3, <2>4, <2>5, <2>6 DEF Next
<1>2. CASE UNCHANGED vars
  <2>1. present \in SUBSET Pid /\ status \in {"running", "undefined"}
    BY DEF Inv, StateTypes
  <2> QED BY <1>2, <2>1, NoMemoryChanges DEF vars
<1> QED BY <1>1, <1>2

LEMMA Invariance == Spec => []Inv
<1>1. Inv /\ [Next]_vars => Inv'
  BY NextOK DEF StepOK
<1> QED BY <1>1, InitInv, PTL DEF Spec

\* Every frame is in the free list or in one memory, once, whatever processes
\* get, end and abandon, and in whatever order the frames come back.
THEOREM FramesAreConserved == Spec => []FramesConserved
<1>1. ASSUME Inv PROVE FramesConserved
  <2>1. Conserved(Now) /\ Now.free = free_frames /\ Now.array = shm_array
    BY <1>1 DEF Inv, MemoriesOK, Now
  <2>2. \A id \in Shmid : ToSet(shm_array[id].frames) = Range(shm_array[id].frames)
    BY DEF ToSet, Range
  <2>3. ToSet(free_frames) = Range(free_frames)
    BY DEF ToSet, Range
  <2>4. /\ free_frames \in Seq(Frames) /\ Range(free_frames) \subseteq Frames
        /\ \A id \in Shmid : Range(shm_array[id].frames) \subseteq Frames
    <3>1. Now \in Memories
      BY <1>1 DEF Inv, MemoriesOK
    <3>2. free_frames \in Seq(Frames) /\ \A id \in Shmid : shm_array[id].frames \in Seq(Frames)
      BY <2>1, <3>1 DEF Memories, Memory
    <3>3. ASSUME NEW list \in Seq(Frames) PROVE Range(list) \subseteq Frames
      BY DEF Range
    <3> QED BY <3>2, <3>3
  <2>5. ToSet(free_frames) \cup UNION {ToSet(shm_array[id].frames) : id \in Shmid} = Frames
    BY <2>1, <2>2, <2>3, <2>4 DEF Conserved
  <2> QED BY <2>1, <2>2, <2>3, <2>5 DEF Conserved, FramesConserved
<1> QED BY <1>1, Invariance, PTL

\* An orphan that is present has users, even when its owner dies in the
\* middle of its own history.
THEOREM OrphansHaveUsers == Spec => []OrphansAreUsed
<1>1. Inv => OrphansAreUsed
  BY DEF Inv, OrphansUsed, OrphansAreUsed, Now
<1> QED BY <1>1, Invariance, PTL

\* Two memories that a process has attached share no page, whatever it
\* detached in between.
THEOREM MemoriesAreMappedApart == Spec => []MappedApart
<1>1. ASSUME Inv, NEW p \in Pid, NEW j \in DOMAIN shmem_history[p],
             NEW k \in DOMAIN shmem_history[p], j # k
      PROVE  LET Pages(e) == e.page..(e.page + Len(shm_array[e.id].frames) - 1)
             IN  Pages(shmem_history[p][j]) \cap Pages(shmem_history[p][k]) = {}
  <2> DEFINE a == shmem_history[p][j]
             b == shmem_history[p][k]
             la == Len(shm_array[a.id].frames)
             lb == Len(shm_array[b.id].frames)
  <2>1. a \in Entry /\ b \in Entry /\ j \in Nat /\ k \in Nat
    <3>1. shmem_history[p] \in Seq(Entry)
      BY <1>1, WhoIs DEF Inv
    <3> QED BY <3>1
  <2>2. a.page \in Nat /\ b.page \in Nat /\ la \in Nat /\ lb \in Nat
    <3>1. a.page \in Nat /\ b.page \in Nat /\ a.id \in Shmid /\ b.id \in Shmid
      <4> HIDE DEF a, b
      <4> QED BY <2>1 DEF Entry
    <3>2. \A id \in Shmid : shm_array[id].frames \in Seq(Frames)
      BY <1>1 DEF Inv, MemoriesOK, Memories, Memory, Now
    <3> HIDE DEF a, b
    <3> QED BY <3>1, <3>2
  <2>3. b.page + lb + 1 <= a.page \/ a.page + la + 1 <= b.page
    <3>1. j < k \/ k < j
      BY <1>1, <2>1
    <3> QED BY <1>1, <3>1 DEF Inv, HistoriesOK, Ordered
  <2> HIDE DEF a, b, la, lb
  <2>4. (a.page..(a.page + la - 1)) \cap (b.page..(b.page + lb - 1)) = {}
    BY <2>2, <2>3
  <2> QED BY <2>4 DEF a, b, la, lb
<1>2. Inv => MappedApart
  BY <1>1 DEF MappedApart
<1> QED BY <1>2, Invariance, PTL

\* Whoever waits for a memory is ready in the step that ends it: the waiter
\* is in no other list, so nothing else blocks it.
THEOREM WaitersAreWoken == Spec => EndWakesWaiters
<1>1. Inv /\ [Next]_vars =>
        [\A id \in Shmid : shm_array[id].is_present /\ ~shm_array'[id].is_present
                             => ToSet(shm_array[id].waiting) \cap blocked' = {}]_vars
  BY NextOK DEF StepOK, EndsWell, ToSet, Range
<1> QED BY <1>1, Invariance, PTL DEF Spec, EndWakesWaiters

\* The count of users by which the code ends a memory is the number of the
\* processes that have it attached, and none has an ended one, as long as no
\* attach fails for want of room.
THEOREM UsersAreCounted == ASSUME AttachesFit PROVE Spec => []UsersOK
<1>1. ASSUME Inv PROVE UsersOK
  <2>1. /\ MemoriesOK(Now, Who, present) /\ Now.array = shm_array /\ Now.blocked = blocked
        /\ Now.free = free_frames /\ StateTypes /\ Who \in [Shmid -> SUBSET Pid]
    BY <1>1, WhoIs DEF Inv, Now
  <2>2. \A id \in Shmid : Who[id] = Users(id)
    BY DEF Who
  <2>3. \A id \in Shmid : shm_array[id].users = Cardinality(Users(id))
    BY <2>1, <2>2 DEF MemoriesOK, Counted
  <2>4. \A id \in Shmid : Users(id) # {} => shm_array[id].is_present
    BY <2>1, <2>2, AttachedIsPresent
  <2>5. \A id \in Shmid : shm_array[id].users \in 0..MAX_PROCESS_NUMBER
    <3> SUFFICES ASSUME NEW id \in Shmid PROVE shm_array[id].users \in 0..MAX_PROCESS_NUMBER
      OBVIOUS
    <3>1. /\ Users(id) \in SUBSET Pid /\ IsFiniteSet(Pid)
          /\ Cardinality(Pid) = MAX_PROCESS_NUMBER /\ MAX_PROCESS_NUMBER \in Nat
      BY PidIsFinite, SharedMemoryAssumption DEF Users
    <3>2. /\ IsFiniteSet(Users(id)) /\ Cardinality(Users(id)) <= MAX_PROCESS_NUMBER
          /\ Cardinality(Users(id)) \in Nat
      BY <3>1, FS_Subset, FS_CardinalityType
    <3> QED BY <2>3, <3>1, <3>2
  <2>6. TypeOK
    <3> DEFINE Record == [is_present : BOOLEAN, orphan : BOOLEAN, owner_id : Pid \cup {NoProcess},
                          users : 0..MAX_PROCESS_NUMBER,
                          frames : Seq(Frames), waiting : Seq(Pid)]
    <3>1. /\ shm_array \in [Shmid -> Memory] /\ free_frames \in Seq(Frames)
          /\ blocked \subseteq present
      BY <2>1 DEF MemoriesOK, Memories, WaitersOK
    <3>2. shm_array \in [Shmid -> Record]
      <4>1. ASSUME NEW id \in Shmid PROVE shm_array[id] \in Record
        <5>1. shm_array[id] \in Memory /\ shm_array[id].users \in 0..MAX_PROCESS_NUMBER
          BY <2>5, <3>1
        <5> QED BY <5>1 DEF Memory
      <4> HIDE DEF Record
      <4> QED BY <3>1, <4>1
    <3> QED BY <2>1, <3>1, <3>2 DEF TypeOK, StateTypes, Entry
  <2> QED BY <2>3, <2>4, <2>6 DEF UsersOK, UsersCounted, MappedIsPresent
<1>2. Inv => UsersOK
  BY <1>1
<1> QED BY <1>2, Invariance, PTL

=============================================================================
