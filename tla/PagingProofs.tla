---------------------------- MODULE PagingProofs ----------------------------
(***************************************************************************)
(* Proofs about the page tables of Paging, as the loops of ProcessMemory    *)
(* use them: for every number of frames, levels and entries, and any        *)
(* memory map.                                                              *)
(*                                                                           *)
(* What is proved of memory is said with a ghost that the code does not     *)
(* keep. use gives each frame its role: "free", "used" by one root, at one  *)
(* level and one index (a table, or at level 0 a page), or "lost" (given    *)
(* to no root: the frames of the kernel, and what a failed call leaves      *)
(* behind). pg gives each root the leaf entries of its tables as a          *)
(* function of the index. Forest relates them to memory: the used frames    *)
(* form one tree below each root, each at its place and linked by one       *)
(* entry, present_entries counts the entries of each, pg is what the        *)
(* leaves hold, and the free frames are the list.                           *)
(*                                                                           *)
(* The lemmas follow the code from below: one entry set, a frame taken or   *)
(* given back, a table added or removed, then the walks and loops of        *)
(* map(), extend() and unmap() and of the functions that call them, each    *)
(* with all its results.                                                    *)
(***************************************************************************)
EXTENDS ProcessMemory, ProcessListsProofs

(* The loops of the model.  Every one of them is a fold; c names the loop *)
(* and what it does not change.                                            *)

\* One level of the walk of map() and extend(), which adds the tables that are
\* missing.
EnsureStep(c, s, k) ==
    IF s.table = NULL \/ c.index[k] \notin Index THEN [s EXCEPT !.table = NULL]
    ELSE IF IsPresent(s.memory, s.table, c.index[k])
    THEN [s EXCEPT !.table = s.memory.table[s.table][c.index[k]].frame]
    ELSE LET new == table_alloc(s.memory)
         IN  [table |-> new.frame,
              memory |-> set_entry(new.memory, s.table, c.index[k], new.frame,
                                   (c.flags \cap {RW, USER}) \cup {PRESENT})]

\* gen_addr of each caller of map().
Given(gen, m, page) ==
    CASE gen.kind = "fresh" -> frame_alloc(m)
      [] gen.kind = "copy" -> copy_segment(m, page, gen.header)
      [] OTHER -> [memory |-> m, frame |-> virtual_to_phisical(m, page, gen.root)]

\* One page of the loop of map().
MapStep(c, s, i) ==
    IF s.result # "ok" THEN s
    ELSE MapPage(s.memory, c.root, LoopIndex(c.page, i), c.flags,
                 Given(c.gen, s.memory, PageAt(LoopIndex(c.page, i))))

\* One level of the loop of unmap() that gives empty tables back.
RemoveStep(c, m, k) ==
    IF k = 1 THEN set_entry(m, c.tables[1], c.index[1], NULL, {})
    ELSE IF m.word[c.tables[k - 1]] # 0 THEN m
    ELSE set_entry(free_table(m, c.tables[k - 1]), c.tables[k], c.index[k], NULL, {})

Dispose(c, m, f) == IF c.free THEN free_frame(m, f) ELSE m

\* One page of the loop of unmap().
UnmapStep(c, s, i) ==
    LET index == LoopIndex(c.page, i)
        tables == Walk(s.memory, c.root, index)
    IN  IF s.result # "ok" THEN s
        ELSE IF tables[1] = NULL \/ ~IsPresent(s.memory, tables[1], index[1])
        THEN [s EXCEPT !.result = "error"]
        ELSE [s EXCEPT !.memory =
                RemovePage(Dispose(c, s.memory, s.memory.table[tables[1]][index[1]].frame),
                           tables, index)]

\* One table of destroy_paging_root().
DestroyStep(c, m, t) ==
    free_table(IF t.level = 1
               THEN FoldLeft(LAMBDA r, n : set_entry(r, t.table, n - 1, NULL, {}), m,
                             [n \in 1..ENTRIES |-> n])
               ELSE m, t.table)

CopyMap(m, page, count, flags, root, header) ==
    map(m, page, count, flags, root, LAMBDA r, p : copy_segment(r, p, header))

FatherMap(m, page, count, flags, root, father) ==
    map(m, page, count, flags, root,
        LAMBDA r, p : [memory |-> r, frame |-> virtual_to_phisical(r, p, father)])

\* One segment of load_module().
LoadStep(c, s, i) ==
    LET header == c.headers[s.ph_addr]
        region == SegmentRegion(c.level, header)
        mapped == CopyMap(s.memory, region.page, region.count, region.flags, c.root, header)
    IN  IF s.result # "ok" \/ ~header.load THEN s
        ELSE [memory |-> mapped.memory, result |-> mapped.result,
              ph_addr |-> s.ph_addr + 1,
              history |-> IF mapped.result = "ok" THEN <<region>> \o s.history
                          ELSE s.history]

\* One region of the loop of fork() that maps the pages of the father.
ShareStep(c, s, region) ==
    IF s.result # "ok" THEN s
    ELSE FatherMap(s.memory, region.page, region.count, region.flags, c.root, c.father)

\* One region of the loops of destroy_process().
UnmappedStep(c, m, region) ==
    IF c.free THEN unmap(m, region.page, region.count, c.root, free_frame).memory
    ELSE unmap(m, region.page, region.count, c.root, Keep).memory

\* One frame of the list of free frames.
FreeStep(c, list, n) ==
    LET next == IF list = <<>> THEN c.memory.first_free_frame_index
                ELSE c.memory.word[list[Len(list)]]
    IN  IF next < FRAME_COUNT /\ Len(list) = n - 1 THEN Append(list, next) ELSE list

Child(m, k, y, i) ==
    [level |-> k, frame |-> m.table[y.frame][i].frame,
     index |-> [l \in (k + 1)..LEVELS |-> IF l = k + 1 THEN i ELSE y.index[l]]]

\* One level of the walk of all the entries below a root.
BelowStep(c, s, k) ==
    {Child(c.memory, k, e[1], e[2]) : e \in {e \in s \X Index : IsPresent(c.memory, e[1].frame, e[2])}}

Do(c, s, x) ==
    CASE c.kind = "ensure"  -> EnsureStep(c, s, x)
      [] c.kind = "map"     -> MapStep(c, s, x)
      [] c.kind = "remove"  -> RemoveStep(c, s, x)
      [] c.kind = "unmap"   -> UnmapStep(c, s, x)
      [] c.kind = "destroy" -> DestroyStep(c, s, x)
      [] c.kind = "add"     -> add_pages(s, x)
      [] c.kind = "load"    -> LoadStep(c, s, x)
      [] c.kind = "share"   -> ShareStep(c, s, x)
      [] c.kind = "release" -> UnmappedStep(c, s, x)
      [] c.kind = "end"     -> ReleasePages(s, x)
      [] c.kind = "free"    -> FreeStep(c, s, x)
      [] c.kind = "below"   -> BelowStep(c, s, x)

\* The loop itself: Do folded over what it goes through.
Loop(c, base, seq) == FoldLeft(LAMBDA s, x : Do(c, s, x), base, seq)

\* states[k] is what the loop has after its first k rounds.
Rounds(states, c, base, seq) ==
    /\ states[0] = base
    /\ \A k \in 1..Len(seq) : states[k] = Do(c, states[k - 1], seq[k])

\* An element of a set that is not below any other is its Max.
LEMMA GreatestIsMax ==
    ASSUME NEW s \in SUBSET Int, NEW k \in s, \A i \in s : k >= i
    PROVE  Max(s) = k
<1>1. Max(s) \in s /\ \A i \in s : Max(s) >= i
  BY DEF Max
<1>2. Max(s) >= k /\ k >= Max(s) /\ k \in Int /\ Max(s) \in Int
  BY <1>1
<1> QED BY <1>2

\* Every loop goes through states, the first its base, each made by Do of the
\* one before, the last its result. A proof about a loop is then an induction
\* over these states (PositionInduction).
LEMMA LoopUnfolds ==
    ASSUME NEW c, NEW base, NEW T, NEW seq \in Seq(T)
    PROVE  \E states : /\ Rounds(states, c, base, seq)
                       /\ states[Len(seq)] = Loop(c, base, seq)
<1> DEFINE n == Len(seq)
           After(m, k) == Do(c, m, seq[k])
           Step(f, s) == IF s = {} THEN base ELSE After(f[s \ {Max(s)}], Max(s))
           Folds(f, k) == f = [s \in SUBSET (1..k) |-> Step(f, s)]
           fold == CHOOSE f : f = [s \in SUBSET (1..n) |-> Step(f, s)]
           result == Loop(c, base, seq)
<1>1. n \in Nat /\ DOMAIN seq = 1..n
  OBVIOUS
<1>2. result = fold[1..n]
  BY <1>1 DEF Loop, FoldLeft, MapThenFoldSet
<1> HIDE DEF result
<1> DEFINE holds == {k \in 0..n : \E f : Folds(f, k)}
<1>3. 0 \in holds
  <2>1. Folds([s \in SUBSET (1..0) |-> base], 0)
    <3>1. \A s \in SUBSET (1..0) : s = {}
      OBVIOUS
    <3> HIDE DEF After
    <3> QED BY <3>1
  <2>2. \E f : Folds(f, 0)
    BY <2>1
  <2> HIDE DEF Folds
  <2> QED BY <1>1, <2>2
<1>4. ASSUME NEW k \in 0..(n - 1), k \in holds
      PROVE  k + 1 \in holds
  <2>1. PICK f : Folds(f, k)
    BY <1>4
  <2> DEFINE g == [s \in SUBSET (1..(k + 1)) |->
                     IF k + 1 \in s THEN After(f[s \ {k + 1}], k + 1) ELSE f[s]]
  <2> HIDE DEF After
  <2>2. \A s \in SUBSET (1..k) : s \in SUBSET (1..(k + 1)) /\ k + 1 \notin s
    BY <1>1
  <2>3. \A s \in SUBSET (1..k) : g[s] = f[s] /\ f[s] = Step(f, s)
    BY <2>1, <2>2
  <2>4. ASSUME NEW s \in SUBSET (1..(k + 1)) PROVE g[s] = Step(g, s)
    <3>1. CASE k + 1 \in s
      <4>1. Max(s) = k + 1
        <5>1. s \in SUBSET Int /\ k + 1 \in s /\ \A i \in s : k + 1 >= i
          BY <1>1, <3>1
        <5> QED BY <5>1, GreatestIsMax
      <4>2. s \ {k + 1} \in SUBSET (1..k)
        <5>1. \A i \in 1..(k + 1) : i # k + 1 => i \in 1..k
          BY <1>1
        <5> HIDE DEF g
        <5> QED BY <5>1
      <4>3. g[s \ {k + 1}] = f[s \ {k + 1}]
        BY <2>3, <4>2
      <4>4. g[s] = After(f[s \ {k + 1}], k + 1)
        BY <3>1
      <4>5. Step(g, s) = After(g[s \ {k + 1}], k + 1)
        <5> HIDE DEF g
        <5> QED BY <3>1, <4>1
      <4> QED BY <4>3, <4>4, <4>5
    <3>2. CASE k + 1 \notin s
      <4>1. s \in SUBSET (1..k) /\ s \ {Max(s)} \in SUBSET (1..k)
        <5>1. \A i \in 1..(k + 1) : i # k + 1 => i \in 1..k
          BY <1>1
        <5> QED BY <3>2, <5>1
      <4>2. g[s] = Step(f, s) /\ g[s \ {Max(s)}] = f[s \ {Max(s)}]
        BY <2>3, <4>1
      <4> HIDE DEF g
      <4> QED BY <4>2
    <3> QED BY <3>1, <3>2
  <2>5. g = [s \in SUBSET (1..(k + 1)) |-> g[s]]
    OBVIOUS
  <2>6. Folds(g, k + 1)
    <3> HIDE DEF g, Step
    <3> QED BY <2>4, <2>5
  <2>7. \E other : Folds(other, k + 1)
    BY <2>6
  <2> HIDE DEF Folds
  <2> QED BY <1>1, <2>7
<1>5. \E f : Folds(f, n)
  <2>1. n \in 0..n
    BY <1>1
  <2>2. n \in holds
    <3> HIDE DEF holds, n
    <3>1. \A k \in 0..n : k \in holds
      BY <1>1, <1>3, <1>4, PositionInduction
    <3> QED BY <2>1, <3>1
  <2> QED BY <2>2
<1>6. fold = [s \in SUBSET (1..n) |-> Step(fold, s)]
  <2> HIDE DEF Step
  <2> QED BY <1>5
<1>7. \A s \in SUBSET (1..n) : fold[s] = Step(fold, s)
  <2> HIDE DEF Step, fold
  <2> QED BY <1>6
<1> DEFINE states == [k \in 0..n |-> fold[1..k]]
<1> HIDE DEF fold, After
<1>8. states[0] = base
  <2>1. 1..0 = {} /\ {} \in SUBSET (1..n) /\ 0 \in 0..n
    BY <1>1
  <2> QED BY <1>7, <2>1
<1>9. ASSUME NEW k \in 1..n PROVE states[k] = After(states[k - 1], k)
  <2>1. /\ 1..k \in SUBSET (1..n) /\ 1..k # {} /\ (1..k) \ {k} = 1..(k - 1)
        /\ k \in 0..n /\ k - 1 \in 0..n
    <3> HIDE DEF n, states
    <3>1. n \in Nat /\ k \in Nat /\ k >= 1 /\ k <= n
      BY <1>1
    <3>2. \A i : i \in (1..k) \ {k} <=> i \in 1..(k - 1)
      BY <3>1
    <3>3. \A i \in 1..k : i \in 1..n
      BY <3>1
    <3>4. k \in 1..k /\ k \in 0..n /\ k - 1 \in 0..n
      BY <3>1
    <3> QED BY <3>2, <3>3, <3>4
  <2>2. Max(1..k) = k
    <3>1. 1..k \in SUBSET Int /\ k \in 1..k /\ \A i \in 1..k : k >= i
      BY <1>1
    <3> QED BY <3>1, GreatestIsMax
  <2> QED BY <1>7, <2>1, <2>2
<1>10. states[n] = result
  BY <1>1, <1>2
<1>11. \E other : Rounds(other, c, base, seq) /\ other[n] = result
  <2> HIDE DEF states
  <2> QED BY <1>8, <1>9, <1>10 DEF Rounds, After
<1> QED BY <1>11, Zenon DEF result

\* An index for each level, as the hardware takes them from an address.
Idx == [1..LEVELS -> Index]

\* The pages outside the part of the tables that is shared with the kernel.
Unshared == {a \in Idx : a[LEVELS] # 0}

\* Two indexes that lead to the same table of level k.
SameAbove(a, b, k) == \A j \in (k + 1)..LEVELS : a[j] = b[j]

\* What a frame is for: a used one is a table of some level, or of level 0 a
\* page, at an index below the root of a process; a lost one belongs to nobody.
Role == [kind : {"free", "lost", "used"}, root : Frame, level : 0..LEVELS, index : Idx]

\* Frame f is below root r, at level k, on the way to index a.
At(use, f, r, k, a) ==
    /\ f \in Frame /\ use[f].kind = "used"
    /\ use[f].root = r /\ use[f].level = k /\ SameAbove(use[f].index, a, k)

\* list is the list of free frames.
Linked(m, list) ==
    /\ m.free_frames = Len(list)
    /\ m.first_free_frame_index = IF list = <<>> THEN FRAME_COUNT ELSE list[1]
    /\ \A i \in 1..Len(list) :
         m.word[list[i]] = IF i = Len(list) THEN FRAME_COUNT ELSE list[i + 1]

\* The list of free frames holds the frames whose role is free, each once.
FreeOK(m, use) ==
    \E list \in Seq(Frame) :
        /\ Linked(m, list)
        /\ IsInjective(list)
        /\ Range(list) = {f \in Frame : use[f].kind = "free"}

EntriesOf(m, f) == {i \in Index : IsPresent(m, f, i)}

PageMaps == [Frame -> [Unshared -> Entry]]

ForestTypes(m, use, pg, roots) ==
    /\ m \in Memory /\ use \in [Frame -> Role] /\ roots \subseteq Frame
    /\ pg \in PageMaps
    /\ \A f \in Frame : use[f].kind = "used" =>
         use[f].index \in Unshared /\ use[f].root \in roots
    /\ \A f \in Frame : f < kernel_frames /\ use[f].kind # "lost" =>
         f = identity_l4_table /\ use[f].kind = "used" /\ use[f].level = LEVELS

RootsOK(m, use, roots) ==
    /\ identity_l4_table \in roots
    /\ \A i \in Index : m.table[identity_l3_table][i] = Absent
    /\ \A r \in roots :
         /\ use[r].kind = "used" /\ use[r].root = r /\ use[r].level = LEVELS
         /\ m.table[r][0] = [frame |-> identity_l3_table, flags |-> {PRESENT, RW}]

\* No two frames are at the same place.
Placed(use) ==
    \A f, g \in Frame :
        use[f].kind = "used" /\ At(use, g, use[f].root, use[f].level, use[f].index) => f = g

\* A present entry of a table leads to the frame that is at that place, one
\* level down.
Down(m, use) ==
    \A f \in Frame, a \in Unshared :
        /\ use[f].kind = "used" /\ use[f].level > 1
        /\ SameAbove(use[f].index, a, use[f].level)
        /\ IsPresent(m, f, a[use[f].level])
        => At(use, m.table[f][a[use[f].level]].frame, use[f].root, use[f].level - 1, a)

\* Each frame that is no root is what an entry of the table above it leads to.
Up(m, use) ==
    \A f \in Frame : use[f].kind = "used" /\ use[f].level < LEVELS =>
        \E g \in Frame :
            LET i == use[f].index[use[f].level + 1]
            IN  /\ At(use, g, use[f].root, use[f].level + 1, use[f].index)
                /\ IsPresent(m, g, i) /\ m.table[g][i].frame = f

\* pg is what the tables of the last level hold, and where there is none,
\* nothing.
Leaves(m, use, pg) ==
    /\ \A f \in Frame, a \in Unshared :
         use[f].kind = "used" /\ use[f].level = 1 /\ SameAbove(use[f].index, a, 1) =>
           pg[use[f].root][a] = m.table[f][a[1]]
    /\ \A r \in Frame, a \in Unshared :
         pg[r][a] # Absent => \E f \in Frame : At(use, f, r, 1, a)

\* present_entries of a table is the number of its present entries, and the
\* entries that are not present are empty.
Counts(m, use) ==
    \A f \in Frame : use[f].kind = "used" /\ use[f].level > 0 =>
        /\ m.word[f] = Cardinality(EntriesOf(m, f))
        /\ \A i \in Index : ~IsPresent(m, f, i) => m.table[f][i] = Absent

\* What relates memory to use and pg, for the roots in use.
Forest(m, use, pg, roots) ==
    /\ ForestTypes(m, use, pg, roots) /\ FreeOK(m, use) /\ RootsOK(m, use, roots)
    /\ Placed(use) /\ Down(m, use) /\ Up(m, use) /\ Leaves(m, use, pg) /\ Counts(m, use)

\* No table is empty, but for the one of level but at index a below root r.
Filled(m, use, r, but, a) ==
    \A f \in Frame :
        use[f].kind = "used" /\ use[f].level \in 1..(LEVELS - 1) =>
            m.word[f] # 0 \/ At(use, f, r, but, a)

-----------------------------------------------------------------------------
(* One entry, one frame.                                                   *)

\* The sets of entries of a table are finite.
LEMMA IndexIsFinite == ASSUME NEW s \in SUBSET Index PROVE IsFiniteSet(s) /\ Cardinality(s) \in Nat
<1>1. IsFiniteSet(Index)
  <2>1. 0 \in Int /\ ENTRIES - 1 \in Int
    BY PagingAssumption
  <2> QED BY <2>1, FS_Interval DEF Index
<1> QED BY <1>1, FS_Subset, FS_CardinalityType

\* The frames are finite in number, and the three that the kernel names are
\* among them.
LEMMA FrameIsFinite ==
    /\ IsFiniteSet(Frame) /\ Cardinality(Frame) = FRAME_COUNT
    /\ Frame \subseteq Nat /\ NULL \in Frame /\ FRAME_COUNT \notin Frame
    /\ identity_l4_table \in Frame /\ identity_l3_table \in Frame
<1>1. FRAME_COUNT \in Nat /\ kernel_frames \in Nat /\ kernel_frames >= 3 /\ FRAME_COUNT > kernel_frames
  BY PagingAssumption
<1>2. 0 \in Int /\ FRAME_COUNT - 1 \in Int
  BY <1>1
<1>3. IsFiniteSet(0..(FRAME_COUNT - 1)) /\ Cardinality(0..(FRAME_COUNT - 1)) = FRAME_COUNT
  BY <1>1, <1>2, FS_Interval
<1> QED BY <1>1, <1>3 DEF Frame, NULL, identity_l4_table, identity_l3_table

\* What is used of LEVELS and ENTRIES.
LEMMA LevelsFact == LEVELS \in Nat /\ LEVELS >= 2 /\ ENTRIES \in Nat /\ ENTRIES >= 2 /\ 0 \in Index
BY PagingAssumption DEF Index

\* A list that holds no frame twice is no longer than memory.
LEMMA InjectiveLength ==
    ASSUME NEW list \in Seq(Frame), IsInjective(list)
    PROVE  Len(list) \in 0..FRAME_COUNT
<1>1. list \in Injection(1..Len(list), Frame)
  BY DEF IsInjective, Injection
<1>2. Cardinality(1..Len(list)) <= FRAME_COUNT
  BY <1>1, FrameIsFinite, FS_Injection
<1>3. 1 \in Int /\ Len(list) \in Int /\ Len(list) \in Nat
  OBVIOUS
<1>4. Cardinality(1..Len(list)) = Len(list)
  BY <1>3, FS_Interval
<1>5. FRAME_COUNT \in Int BY PagingAssumption
<1> QED BY <1>2, <1>3, <1>4, <1>5

\* What set_entry() leaves alone, what it does, and that it counts.
EntrySet(m, n, t, i, entry) ==
    /\ n \in Memory
    /\ n.first_free_frame_index = m.first_free_frame_index /\ n.free_frames = m.free_frames
    /\ n.data = m.data
    /\ \A f \in Frame \ {t} : n.word[f] = m.word[f]
    /\ \A f \in Frame : \A j \in Index :
         n.table[f][j] = IF f = t /\ j = i THEN entry ELSE m.table[f][j]
    /\ m.word[t] = Cardinality(EntriesOf(m, t)) => n.word[t] = Cardinality(EntriesOf(n, t))

\* The types of the fields of memory, one by one.
LEMMA MemoryFields ==
    ASSUME NEW m \in Memory
    PROVE  /\ m.first_free_frame_index \in Frame \cup {FRAME_COUNT}
           /\ m.free_frames \in 0..FRAME_COUNT
           /\ m.word \in [Frame -> Int] /\ m.table \in [Frame -> [Index -> Entry]]
           /\ m.data \in [Frame -> Seq(Int)]
           /\ \A f \in Frame : m.word[f] \in Int /\ m.table[f] \in [Index -> Entry]
           /\ \A f \in Frame : \A i \in Index :
                /\ m.table[f][i] \in Entry /\ m.table[f][i].frame \in Frame
                /\ m.table[f][i].flags \in SUBSET {PRESENT, RW, USER}
<1>1. /\ m.word \in [Frame -> Int] /\ m.table \in [Frame -> [Index -> Entry]]
      /\ m.first_free_frame_index \in Frame \cup {FRAME_COUNT}
      /\ m.free_frames \in 0..FRAME_COUNT /\ m.data \in [Frame -> Seq(Int)]
  BY DEF Memory
<1>2. \A e \in Entry : e.frame \in Frame /\ e.flags \in SUBSET {PRESENT, RW, USER}
  BY DEF Entry
<1> QED BY <1>1, <1>2

\* set_entry() keeps present_entries the number of present entries, for any
\* entry it replaces.
LEMMA SetEntryFacts ==
    ASSUME NEW m \in Memory, NEW t \in Frame, NEW i \in Index, NEW frame \in Frame,
           NEW flags \in SUBSET {PRESENT, RW, USER}
    PROVE  EntrySet(m, set_entry(m, t, i, frame, flags), t, i, [frame |-> frame, flags |-> flags])
<1> DEFINE entry == [frame |-> frame, flags |-> flags]
           n == set_entry(m, t, i, frame, flags)
           w == IF PRESENT \in flags /\ ~IsPresent(m, t, i) THEN m.word[t] + 1
                ELSE IF PRESENT \notin flags /\ IsPresent(m, t, i) THEN m.word[t] - 1
                ELSE m.word[t]
<1>1. entry \in Entry
  BY DEF Entry
<1>2. /\ n.first_free_frame_index = m.first_free_frame_index /\ n.free_frames = m.free_frames
      /\ n.data = m.data
      /\ n.table = [m.table EXCEPT ![t][i] = entry]
      /\ n.word = [m.word EXCEPT ![t] = w]
  BY DEF set_entry, Memory
<1>3. w \in Int
  BY MemoryFields
<1>4. n.table \in [Frame -> [Index -> Entry]] /\ n.word \in [Frame -> Int]
  <2> HIDE DEF n, w, entry
  <2> QED BY <1>1, <1>2, <1>3, MemoryFields
<1>5. n \in Memory
  <2> DEFINE word == [m.word EXCEPT ![t] = w]
             table == [m.table EXCEPT ![t][i] = entry]
  <2>1. n = [m EXCEPT !.table = table, !.word = word]
    BY DEF set_entry, Memory
  <2>2. word \in [Frame -> Int] /\ table \in [Frame -> [Index -> Entry]]
    <3> HIDE DEF n, word, table
    <3> QED BY <1>2, <1>4 DEF word, table
  <2> HIDE DEF n, word, table
  <2> QED BY <2>1, <2>2 DEF Memory
<1>6. \A f \in Frame : \A j \in Index :
        n.table[f][j] = IF f = t /\ j = i THEN entry ELSE m.table[f][j]
  <2> HIDE DEF n, entry
  <2> QED BY <1>2, MemoryFields
<1>7. \A f \in Frame \ {t} : n.word[f] = m.word[f]
  <2> HIDE DEF n, w
  <2> QED BY <1>2, MemoryFields
<1>8. ASSUME m.word[t] = Cardinality(EntriesOf(m, t)) PROVE n.word[t] = Cardinality(EntriesOf(n, t))
  <2> DEFINE before == EntriesOf(m, t)
             after == EntriesOf(n, t)
  <2>1. \A j \in Index : j \in after <=> IF j = i THEN PRESENT \in flags ELSE j \in before
    <3> HIDE DEF n
    <3> QED BY <1>6 DEF EntriesOf, IsPresent
  <2>2. before \in SUBSET Index /\ after \in SUBSET Index /\ (i \in before <=> IsPresent(m, t, i))
    BY DEF EntriesOf
  <2>3. n.word[t] = w
    <3> HIDE DEF n, w
    <3> QED BY <1>2, MemoryFields
  <2>4. IsFiniteSet(before) /\ Cardinality(before) \in Nat
    BY <2>2, IndexIsFinite
  <2> HIDE DEF n, before, after
  <2>5. CASE PRESENT \in flags
    <3>1. after = before \cup {i}
      BY <2>1, <2>2, <2>5
    <3>2. Cardinality(after) = IF i \in before THEN Cardinality(before) ELSE Cardinality(before) + 1
      BY <3>1, <2>4, FS_AddElement
    <3> QED BY <3>2, <2>2, <2>3, <2>5, <1>8 DEF before, after
  <2>6. CASE PRESENT \notin flags
    <3>1. after = before \ {i}
      BY <2>1, <2>2, <2>6
    <3>2. Cardinality(after) = IF i \in before THEN Cardinality(before) - 1 ELSE Cardinality(before)
      BY <3>1, <2>4, FS_RemoveElement
    <3> QED BY <3>2, <2>2, <2>3, <2>6, <1>8 DEF before, after
  <2> QED BY <2>5, <2>6
<1> HIDE DEF n, entry
<1>9. EntrySet(m, n, t, i, entry)
  BY <1>2, <1>5, <1>6, <1>7, <1>8 DEF EntrySet
<1> QED BY <1>9 DEF n, entry

-----------------------------------------------------------------------------

\* frame f is taken from the list, or put on it.
Relabelled(use, f, kind) == [use EXCEPT ![f].kind = kind]

\* What changes of use where one frame takes another role.
LEMMA RelabelledFacts ==
    ASSUME NEW use \in [Frame -> Role], NEW f \in Frame, NEW kind \in {"free", "lost", "used"}
    PROVE  /\ Relabelled(use, f, kind) \in [Frame -> Role]
           /\ \A g \in Frame \ {f} : Relabelled(use, f, kind)[g] = use[g]
           /\ Relabelled(use, f, kind)[f].kind = kind
<1>1. use[f] \in Role
  OBVIOUS
<1>2. [use[f] EXCEPT !.kind = kind] \in Role /\ [use[f] EXCEPT !.kind = kind].kind = kind
  BY <1>1 DEF Role
<1>3. Relabelled(use, f, kind) = [use EXCEPT ![f] = [use[f] EXCEPT !.kind = kind]]
  BY DEF Relabelled
<1> DEFINE role == [use[f] EXCEPT !.kind = kind]
<1> HIDE DEF role
<1> QED BY <1>2, <1>3 DEF role

\* frame_alloc() takes the first frame of the list, or fails and does nothing.
LEMMA AllocFacts ==
    ASSUME NEW m \in Memory, NEW use \in [Frame -> Role], FreeOK(m, use),
           \A f \in Frame : f < kernel_frames => use[f].kind # "free"
    PROVE  LET f == frame_alloc(m).frame
               n == frame_alloc(m).memory
           IN  \/ f = NULL /\ n = m
               \/ /\ f \in Frame \ {NULL} /\ use[f].kind = "free"
                  /\ FreeOK(n, Relabelled(use, f, "lost"))
                  /\ n \in Memory /\ n.table = m.table /\ n.data = m.data /\ n.word[f] = 0
                  /\ \A g \in Frame \ {f} : n.word[g] = m.word[g]
<1> DEFINE f == m.first_free_frame_index
           n == [m EXCEPT !.first_free_frame_index = m.word[f],
                          !.word[f] = 0, !.free_frames = @ - 1]
<1>1. PICK list \in Seq(Frame) : /\ Linked(m, list) /\ IsInjective(list)
                                 /\ Range(list) = {g \in Frame : use[g].kind = "free"}
  BY DEF FreeOK
<1>2. CASE list = <<>>
  <2>1. f = FRAME_COUNT /\ FRAME_COUNT \in Nat
    BY <1>1, <1>2, PagingAssumption DEF Linked
  <2>2. frame_alloc(m) = [memory |-> m, frame |-> NULL]
    BY <2>1 DEF frame_alloc
  <2> QED BY <2>2
<1>3. CASE list # <<>>
  <2>1. /\ f = list[1] /\ Len(list) \in Nat /\ Len(list) >= 1 /\ 1 \in DOMAIN list /\ f \in Frame
        /\ f \in Range(list)
    BY <1>1, <1>3 DEF Linked, Range
  <2>2. f < FRAME_COUNT /\ f \in Nat /\ kernel_frames \in Nat /\ kernel_frames > 0
    BY <2>1, PagingAssumption DEF Frame
  <2>3. use[f].kind = "free" /\ f # NULL
    <3> HIDE DEF f
    <3>1. use[f].kind = "free"
      BY <1>1, <2>1
    <3> QED BY <2>1, <2>2, <3>1 DEF NULL
  <2>4. frame_alloc(m) = [frame |-> f, memory |-> n]
    <3>1. ~(f >= FRAME_COUNT)
      <4> HIDE DEF f
      <4> QED BY <2>2, PagingAssumption
    <3> QED BY <3>1, Zenon DEF frame_alloc
  <2> DEFINE rest == Tail(list)
  <2>5. /\ rest \in Seq(Frame) /\ Len(rest) = Len(list) - 1
        /\ \A i \in 1..Len(rest) : rest[i] = list[i + 1]
    BY <2>1
  <2>6. /\ n.first_free_frame_index = m.word[f] /\ n.free_frames = m.free_frames - 1
        /\ n.word = [m.word EXCEPT ![f] = 0] /\ n.table = m.table /\ n.data = m.data
    BY DEF Memory
  <2>7. m.word[f] = IF rest = <<>> THEN FRAME_COUNT ELSE rest[1]
    <3>1. m.word[list[1]] = IF 1 = Len(list) THEN FRAME_COUNT ELSE list[2]
      <4>1. 1 \in 1..Len(list) /\ 1 + 1 = 2
        BY <2>1
      <4> HIDE DEF rest, f
      <4> QED BY <1>1, <4>1 DEF Linked
    <3>2. rest = <<>> <=> Len(rest) = 0
      <4> HIDE DEF rest
      <4> QED BY <2>5
    <3>3. rest # <<>> => rest[1] = list[2]
      <4>1. rest # <<>> => 1 \in 1..Len(rest)
        BY <3>2, <2>5
      <4> HIDE DEF rest
      <4> QED BY <4>1, <2>5
    <3>4. Len(list) = 1 <=> Len(rest) = 0
      BY <2>1, <2>5
    <3> HIDE DEF rest, f
    <3> QED BY <2>1, <3>1, <3>2, <3>3, <3>4
  <2>8. m.word[f] \in Frame \cup {FRAME_COUNT}
    <3>1. rest # <<>> => rest[1] \in Frame
      BY <2>5
    <3> QED BY <2>7, <3>1
  <2>9. n \in Memory
    <3> DEFINE first == m.word[f]
               word == [m.word EXCEPT ![f] = 0]
               count == m.free_frames - 1
    <3>1. n = [m EXCEPT !.first_free_frame_index = first, !.word = word, !.free_frames = count]
      BY DEF Memory
    <3>2. n.free_frames \in 0..FRAME_COUNT
      BY <1>1, <2>1, <2>6, MemoryFields, PagingAssumption DEF Linked
    <3>3. n.word \in [Frame -> Int]
      <4> HIDE DEF n, f
      <4> QED BY <2>1, <2>6, MemoryFields
    <3>4. first \in Frame \cup {FRAME_COUNT} /\ word \in [Frame -> Int] /\ count \in 0..FRAME_COUNT
      <4> HIDE DEF n
      <4> QED BY <2>6, <2>8, <3>2, <3>3
    <3> HIDE DEF n, f, first, word, count
    <3> QED BY <3>1, <3>4 DEF Memory
  <2>10. n.word[f] = 0 /\ \A g \in Frame \ {f} : n.word[g] = m.word[g]
    <3> HIDE DEF n, f
    <3> QED BY <2>1, <2>6, MemoryFields
  <2>11. \A i \in 1..Len(rest) : rest[i] \in Frame \ {f} /\ rest[i] = list[i + 1] /\ i + 1 \in DOMAIN list
    <3>1. ASSUME NEW i \in 1..Len(rest) PROVE rest[i] \in Frame \ {f}
      <4>1. i + 1 \in DOMAIN list /\ i + 1 # 1
        BY <2>1, <2>5
      <4>2. rest[i] = list[i + 1]
        BY <2>5
      <4>3. list[i + 1] # list[1]
        BY <1>1, <2>1, <4>1 DEF IsInjective
      <4>4. list[i + 1] \in Frame
        BY <4>1
      <4> QED BY <2>1, <4>2, <4>3, <4>4
    <3>2. \A i \in 1..Len(rest) : i + 1 \in DOMAIN list
      BY <2>1, <2>5
    <3> HIDE DEF rest, f
    <3> QED BY <2>5, <3>1, <3>2
  <2>12. Linked(n, rest)
    <3>1. n.free_frames = Len(rest)
      BY <1>1, <2>5, <2>6 DEF Linked
    <3>2. ASSUME NEW i \in 1..Len(rest)
          PROVE  n.word[rest[i]] = IF i = Len(rest) THEN FRAME_COUNT ELSE rest[i + 1]
      <4>1. n.word[rest[i]] = m.word[list[i + 1]]
        <5> HIDE DEF n, rest, f
        <5> QED BY <2>10, <2>11
      <4>2. i + 1 \in 1..Len(list) /\ (i = Len(rest) <=> i + 1 = Len(list))
        BY <2>5, <2>1
      <4>3. m.word[list[i + 1]] = IF i + 1 = Len(list) THEN FRAME_COUNT ELSE list[i + 2]
        BY <1>1, <4>2 DEF Linked
      <4>4. i # Len(rest) => rest[i + 1] = list[i + 2]
        <5>1. i # Len(rest) => i + 1 \in 1..Len(rest) /\ (i + 1) + 1 = i + 2
          <6> HIDE DEF rest
          <6> QED BY <2>5, <2>1
        <5> HIDE DEF rest
        <5> QED BY <5>1, <2>5
      <4> HIDE DEF n, rest
      <4> QED BY <4>1, <4>2, <4>3, <4>4
    <3> HIDE DEF n, rest, f
    <3> QED BY <2>6, <2>7, <3>1, <3>2 DEF Linked
  <2>13. IsInjective(rest)
    <3>1. \A i, j \in 1..Len(rest) : rest[i] = rest[j] => i = j
      <4>1. \A i, j \in 1..Len(list) : list[i] = list[j] => i = j
        BY <1>1 DEF IsInjective
      <4>2. \A i \in 1..Len(rest) : i + 1 \in 1..Len(list) /\ i \in Int
        BY <2>1, <2>5
      <4> HIDE DEF rest
      <4>3. ASSUME NEW i \in 1..Len(rest), NEW j \in 1..Len(rest), rest[i] = rest[j]
            PROVE  i = j
        <5>1. i + 1 = j + 1
          BY <4>1, <4>2, <4>3, <2>5
        <5> QED BY <5>1, <4>2
      <4> QED BY <4>3
    <3>2. DOMAIN rest = 1..Len(rest) BY <2>5
    <3> HIDE DEF rest
    <3> QED BY <3>1, <3>2 DEF IsInjective
  <2>14. Range(rest) = Range(list) \ {f}
    <3>1. ASSUME NEW g \in Range(rest) PROVE g \in Range(list) \ {f}
      <4> HIDE DEF rest, f
      <4>1. PICK i \in 1..Len(rest) : rest[i] = g
        BY <3>1, <2>5 DEF Range
      <4> QED BY <4>1, <2>11 DEF Range
    <3>2. ASSUME NEW g \in Range(list) \ {f} PROVE g \in Range(rest)
      <4>1. PICK i \in 1..Len(list) : list[i] = g
        BY <3>2 DEF Range
      <4>2. i # 1
        BY <2>1, <3>2, <4>1
      <4>3. i - 1 \in 1..Len(rest) /\ (i - 1) + 1 = i
        BY <2>1, <2>5, <4>2
      <4>4. rest[i - 1] = g /\ i - 1 \in DOMAIN rest
        BY <2>5, <4>1, <4>3
      <4> QED BY <4>4 DEF Range
    <3> QED BY <3>1, <3>2
  <2>15. FreeOK(n, Relabelled(use, f, "lost"))
    <3>1. Range(rest) = {g \in Frame : Relabelled(use, f, "lost")[g].kind = "free"}
      <4> DEFINE new == Relabelled(use, f, "lost")
      <4>1. new[f].kind = "lost" /\ \A g \in Frame \ {f} : new[g] = use[g]
        BY <2>1, RelabelledFacts
      <4> HIDE DEF rest, f, new
      <4>2. \A g \in Frame : new[g].kind = "free" <=> use[g].kind = "free" /\ g # f
        BY <4>1
      <4>3. \A g : g \in Range(rest) <=> g \in Frame /\ use[g].kind = "free" /\ g # f
        BY <1>1, <2>14
      <4> QED BY <4>2, <4>3 DEF new
    <3> HIDE DEF rest, f, n
    <3> QED BY <2>5, <2>12, <2>13, <3>1 DEF FreeOK
  <2> HIDE DEF n, f
  <2>16. frame_alloc(m).frame = f /\ frame_alloc(m).memory = n
    BY <2>4
  <2> QED BY <2>1, <2>3, <2>16, <2>6, <2>9, <2>10, <2>15
<1> QED BY <1>2, <1>3

\* free_frame() puts a frame on the list, which is still a list of the free
\* frames.
LEMMA FreeFacts ==
    ASSUME NEW m \in Memory, NEW use \in [Frame -> Role], FreeOK(m, use),
           NEW f \in Frame, f >= kernel_frames, use[f].kind # "free"
    PROVE  LET n == free_frame(m, f)
           IN  /\ n \in Memory /\ FreeOK(n, Relabelled(use, f, "free"))
               /\ n.table = m.table
               /\ \A g \in Frame \ {f} : n.word[g] = m.word[g] /\ n.data[g] = m.data[g]
<1> DEFINE n == free_frame(m, f)
           word == [m.word EXCEPT ![f] = m.first_free_frame_index]
           data == [m.data EXCEPT ![f] = <<>>]
           count == m.free_frames + 1
<1>1. PICK list \in Seq(Frame) : /\ Linked(m, list) /\ IsInjective(list)
                                 /\ Range(list) = {g \in Frame : use[g].kind = "free"}
  BY DEF FreeOK
<1>2. n = [m EXCEPT !.word = word, !.data = data, !.first_free_frame_index = f, !.free_frames = count]
  <2>1. ~(f < kernel_frames)
    BY FrameIsFinite, PagingAssumption
  <2> QED BY <2>1 DEF free_frame, Memory
<1>3. /\ n.first_free_frame_index = f /\ n.free_frames = m.free_frames + 1
      /\ n.word = word /\ n.table = m.table /\ n.data = data
  <2> HIDE DEF n, word, data
  <2> QED BY <1>2 DEF Memory
<1> DEFINE new == <<f>> \o list
<1>4. f \notin Range(list)
  BY <1>1
<1>5. <<f>> \in Seq(Frame) /\ Len(<<f>>) = 1
  OBVIOUS
<1>6. /\ new \in Seq(Frame) /\ Range(new) = {f} \cup Range(list) /\ IsInjective(new)
  <2> DEFINE front == <<f>>
  <2>1. front \in Seq(Frame) /\ Range(front) = {f} /\ IsInjective(front)
    <3>1. <<f>> \in Seq(Frame)
      OBVIOUS
    <3> QED BY <3>1, SingleMember
  <2>2. new = front \o list
    OBVIOUS
  <2> HIDE DEF front, new
  <2> QED BY <1>1, <1>4, <2>1, <2>2, ConcatMembers
<1>7. /\ Len(list) \in Nat /\ Len(new) = Len(list) + 1 /\ new[1] = f /\ new # <<>>
      /\ \A i \in 1..Len(list) : new[i + 1] = list[i] /\ list[i] \in Range(list) /\ list[i] \in Frame
  BY <1>5 DEF Range
<1> HIDE DEF new
<1>8. \A g \in Frame \ {f} : word[g] = m.word[g] /\ data[g] = m.data[g]
  BY MemoryFields
<1>9. word[f] = m.first_free_frame_index
  BY MemoryFields
<1>10. n \in Memory
  <2>1. word \in [Frame -> Int]
    <3>1. FRAME_COUNT \in Int /\ \A g \in Frame : g \in Int
      BY FrameIsFinite, PagingAssumption
    <3>2. m.first_free_frame_index \in Int
      <4> HIDE DEF n, word, data, count, new
      <4> QED BY <3>1, MemoryFields
    <3> QED BY <3>2, MemoryFields
  <2>2. data \in [Frame -> Seq(Int)]
    <3>1. <<>> \in Seq(Int)
      OBVIOUS
    <3> QED BY <3>1, MemoryFields
  <2>3. count \in 0..FRAME_COUNT
    <3>1. Len(new) \in 0..FRAME_COUNT
      BY <1>6, InjectiveLength
    <3>2. count = Len(new)
      BY <1>1, <1>7 DEF Linked
    <3> QED BY <3>1, <3>2
  <2> HIDE DEF word, data, count, n
  <2> QED BY <1>2, <2>1, <2>2, <2>3 DEF Memory
<1>11. Linked(n, new)
  <2>1. ASSUME NEW i \in 1..Len(new)
        PROVE  n.word[new[i]] = IF i = Len(new) THEN FRAME_COUNT ELSE new[i + 1]
    <3> HIDE DEF word, data, n
    <3>1. CASE i = 1
      <4>1. n.word[new[i]] = m.first_free_frame_index
        BY <1>3, <1>7, <1>9, <3>1
      <4>2. list = <<>> <=> Len(list) = 0
        OBVIOUS
      <4>3. Len(list) # 0 => 1 \in 1..Len(list)
        BY <1>7
      <4> QED BY <1>1, <1>7, <3>1, <4>1, <4>2, <4>3 DEF Linked
    <3>2. CASE i # 1
      <4>1. i - 1 \in 1..Len(list) /\ (i - 1) + 1 = i
        BY <1>7, <3>2
      <4>2. new[i] = list[i - 1] /\ list[i - 1] \in Frame \ {f}
        BY <1>4, <1>7, <4>1
      <4>3. n.word[new[i]] = m.word[list[i - 1]]
        BY <1>3, <1>8, <4>2
      <4>4. m.word[list[i - 1]] = IF i - 1 = Len(list) THEN FRAME_COUNT ELSE list[i]
        BY <1>1, <4>1 DEF Linked
      <4>5. i # Len(new) => i \in 1..Len(list)
        BY <1>7, <3>2
      <4>6. i = Len(new) <=> i - 1 = Len(list)
        BY <1>7, <4>1
      <4> QED BY <1>7, <4>3, <4>4, <4>5, <4>6
    <3> QED BY <3>1, <3>2
  <2>2. n.free_frames = Len(new)
    BY <1>1, <1>3, <1>7 DEF Linked
  <2> HIDE DEF word, data, n
  <2> QED BY <1>3, <1>7, <2>1, <2>2 DEF Linked
<1>12. Range(new) = {g \in Frame : Relabelled(use, f, "free")[g].kind = "free"}
  <2> DEFINE role == Relabelled(use, f, "free")
  <2>1. role[f].kind = "free" /\ \A g \in Frame \ {f} : role[g] = use[g]
    BY RelabelledFacts
  <2> HIDE DEF role
  <2>2. \A g \in Frame : role[g].kind = "free" <=> use[g].kind = "free" \/ g = f
    BY <2>1
  <2>3. \A g : g \in Range(new) <=> g \in Frame /\ (use[g].kind = "free" \/ g = f)
    BY <1>1, <1>6
  <2> QED BY <2>2, <2>3 DEF role
<1> HIDE DEF word, data, n
<1>13. FreeOK(n, Relabelled(use, f, "free"))
  BY <1>6, <1>11, <1>12 DEF FreeOK
<1>14. \A g \in Frame \ {f} : n.word[g] = m.word[g] /\ n.data[g] = m.data[g]
  BY <1>3, <1>8
<1> QED BY <1>3, <1>10, <1>13, <1>14 DEF n

\* A new table is empty.
LEMMA TableAllocFacts ==
    ASSUME NEW m \in Memory, NEW use \in [Frame -> Role], FreeOK(m, use),
           \A f \in Frame : f < kernel_frames => use[f].kind # "free"
    PROVE  LET f == table_alloc(m).frame
               n == table_alloc(m).memory
           IN  \/ f = NULL /\ n = m
               \/ /\ f \in Frame \ {NULL} /\ use[f].kind = "free"
                  /\ FreeOK(n, Relabelled(use, f, "lost"))
                  /\ n \in Memory /\ n.data = m.data /\ n.word[f] = 0
                  /\ \A i \in Index : n.table[f][i] = Absent
                  /\ \A g \in Frame \ {f} : n.word[g] = m.word[g] /\ n.table[g] = m.table[g]
<1> DEFINE f == frame_alloc(m).frame
           o == frame_alloc(m).memory
           table == [o.table EXCEPT ![f] = [i \in Index |-> Absent]]
           word == [o.word EXCEPT ![f] = 0]
           n == table_alloc(m).memory
<1>1. CASE f = NULL /\ o = m
  BY <1>1 DEF table_alloc
<1>2. CASE /\ f \in Frame \ {NULL} /\ use[f].kind = "free"
           /\ FreeOK(o, Relabelled(use, f, "lost"))
           /\ o \in Memory /\ o.table = m.table /\ o.data = m.data /\ o.word[f] = 0
           /\ \A g \in Frame \ {f} : o.word[g] = m.word[g]
  <2>1. table_alloc(m).frame = f /\ n = [o EXCEPT !.table = table, !.word = word]
    <3>1. f # NULL
      BY <1>2
    <3>2. table_alloc(m) = [frame_alloc(m) EXCEPT !.memory.table[f] = [i \in Index |-> Absent],
                                                  !.memory.word[f] = 0]
      BY <3>1, Zenon DEF table_alloc
    <3>3. frame_alloc(m) = [frame |-> f, memory |-> o]
      BY <3>1 DEF frame_alloc
    <3> DEFINE new == [[frame |-> f, memory |-> o]
                         EXCEPT !.memory.table[f] = [i \in Index |-> Absent], !.memory.word[f] = 0]
    <3>4. new.frame = f /\ new.memory = [o EXCEPT !.table = table, !.word = word]
      <4> HIDE DEF f, o
      <4> QED BY <1>2 DEF Memory
    <3>5. table_alloc(m) = new
      <4> HIDE DEF f, o
      <4> QED BY <3>2, <3>3
    <3> HIDE DEF f, o, new, table, word
    <3> QED BY <3>4, <3>5
  <2> HIDE DEF f, o, n
  <2>2. Absent \in Entry
    BY FrameIsFinite DEF Absent, Entry
  <2>3. word \in [Frame -> Int] /\ table \in [Frame -> [Index -> Entry]]
    BY <1>2, <2>2, MemoryFields
  <2>4. word[f] = 0 /\ \A i \in Index : table[f][i] = Absent
    BY <1>2, MemoryFields
  <2>5. \A g \in Frame \ {f} : word[g] = m.word[g] /\ table[g] = m.table[g]
    BY <1>2, MemoryFields
  <2> HIDE DEF word, table
  <2>6. n \in Memory
    BY <1>2, <2>1, <2>3 DEF Memory
  <2>7. /\ n.word = word /\ n.table = table /\ n.data = o.data
        /\ n.free_frames = o.free_frames /\ n.first_free_frame_index = o.first_free_frame_index
    BY <1>2, <2>1 DEF Memory
  <2>8. n.word = o.word
    <3>1. \A g \in Frame : word[g] = o.word[g]
      BY <1>2, <2>4, <2>5
    <3>2. o.word \in [Frame -> Int]
      BY <1>2, MemoryFields
    <3> QED BY <2>3, <2>7, <3>1, <3>2
  <2>9. FreeOK(n, Relabelled(use, f, "lost"))
    BY <1>2, <2>7, <2>8 DEF FreeOK, Linked
  <2> QED BY <1>2, <2>1, <2>4, <2>5, <2>6, <2>7, <2>9 DEF n
<1> HIDE DEF f, o
<1>3. \/ f = NULL /\ o = m
      \/ /\ f \in Frame \ {NULL} /\ use[f].kind = "free"
         /\ FreeOK(o, Relabelled(use, f, "lost"))
         /\ o \in Memory /\ o.table = m.table /\ o.data = m.data /\ o.word[f] = 0
         /\ \A g \in Frame \ {f} : o.word[g] = m.word[g]
  BY AllocFacts DEF f, o
<1> QED BY <1>1, <1>2, <1>3

\* SameAbove is an equivalence for each level, coarser for a higher one.
LEMMA PlaceFacts ==
    /\ \A a, k : SameAbove(a, a, k)
    /\ \A a, b, k : SameAbove(a, b, k) => SameAbove(b, a, k)
    /\ \A a, b, c, k : SameAbove(a, b, k) /\ SameAbove(b, c, k) => SameAbove(a, c, k)
    /\ \A k \in 0..LEVELS : \A l \in k..LEVELS : \A a, b : SameAbove(a, b, k) => SameAbove(a, b, l)
    /\ \A k \in 1..LEVELS : \A a, b :
         SameAbove(a, b, k - 1) <=> SameAbove(a, b, k) /\ a[k] = b[k]
    /\ \A a, b : SameAbove(a, b, LEVELS)
    /\ \A a, b \in Idx : SameAbove(a, b, 0) => a = b
<1>1. \A k \in 0..LEVELS : \A l \in k..LEVELS : \A a, b : SameAbove(a, b, k) => SameAbove(a, b, l)
  BY LevelsFact DEF SameAbove
<1>2. ASSUME NEW k \in 1..LEVELS, NEW a, NEW b
      PROVE  SameAbove(a, b, k - 1) <=> SameAbove(a, b, k) /\ a[k] = b[k]
  <2>1. \A j : j \in ((k - 1) + 1)..LEVELS <=> j = k \/ j \in (k + 1)..LEVELS
    BY LevelsFact
  <2> QED BY <2>1 DEF SameAbove
<1>3. \A a, b : SameAbove(a, b, LEVELS)
  BY LevelsFact DEF SameAbove
<1>4. ASSUME NEW a \in Idx, NEW b \in Idx, SameAbove(a, b, 0) PROVE a = b
  <2>1. \A j \in 1..LEVELS : a[j] = b[j]
    BY <1>4, LevelsFact DEF SameAbove
  <2>2. a = [j \in 1..LEVELS |-> a[j]] /\ b = [j \in 1..LEVELS |-> b[j]]
    BY DEF Idx
  <2>3. [j \in 1..LEVELS |-> a[j]] = [j \in 1..LEVELS |-> b[j]]
    BY <2>1
  <2> QED BY <2>2, <2>3, Zenon
<1>5. \A a, k : SameAbove(a, a, k)
  BY DEF SameAbove
<1>6. \A a, b, k : SameAbove(a, b, k) => SameAbove(b, a, k)
  BY DEF SameAbove
<1>7. \A a, b, c, k : SameAbove(a, b, k) /\ SameAbove(b, c, k) => SameAbove(a, c, k)
  BY DEF SameAbove
<1> QED BY <1>1, <1>2, <1>3, <1>4, <1>5, <1>6, <1>7, Zenon

\* The list of free frames stands where its words do.
LEMMA ListKept ==
    ASSUME NEW m, NEW n, NEW use, NEW other, FreeOK(m, use),
           n.first_free_frame_index = m.first_free_frame_index, n.free_frames = m.free_frames,
           \A f \in Frame : other[f].kind = "free" <=> use[f].kind = "free",
           \A f \in Frame : use[f].kind = "free" => n.word[f] = m.word[f]
    PROVE  FreeOK(n, other)
<1>1. PICK list \in Seq(Frame) : /\ Linked(m, list) /\ IsInjective(list)
                                 /\ Range(list) = {f \in Frame : use[f].kind = "free"}
  BY DEF FreeOK
<1>2. Range(list) = {f \in Frame : other[f].kind = "free"}
  BY <1>1
<1>3. \A i \in 1..Len(list) : n.word[list[i]] = m.word[list[i]]
  <2>1. \A i \in 1..Len(list) : list[i] \in Range(list)
    BY DEF Range
  <2> QED BY <1>1, <2>1
<1>4. Linked(n, list)
  BY <1>1, <1>3 DEF Linked
<1> QED BY <1>1, <1>2, <1>4 DEF FreeOK

\* What the uses of frames and their tables have in common before and after a
\* step that moves no table.
TablesKept(m, n, use, other) ==
    /\ \A f \in Frame : other[f].kind = "used" => use[f].kind = "used" /\ other[f] = use[f]
    /\ \A f \in Frame : use[f].kind = "used" /\ use[f].level > 0 =>
         /\ other[f] = use[f] /\ n.table[f] = m.table[f] /\ n.word[f] = m.word[f]
    /\ n.table[identity_l3_table] = m.table[identity_l3_table]

\* A step that moves no table and writes no entry keeps the forest.
LEMMA TablesKeptForest ==
    ASSUME NEW m, NEW use, NEW pg, NEW roots, Forest(m, use, pg, roots),
           NEW n \in Memory, NEW other \in [Frame -> Role], FreeOK(n, other),
           TablesKept(m, n, use, other),
           \A f \in Frame : f < kernel_frames => other[f] = use[f]
    PROVE  /\ Forest(n, other, pg, roots)
           /\ \A r, but, a : but \in Nat \ {0} /\ Filled(m, use, r, but, a) =>
                               Filled(n, other, r, but, a)
<1> USE DEF Forest
<1>1. \A f \in Frame : use[f] \in Role /\ use[f].level \in Nat
  BY LevelsFact DEF ForestTypes, Role
<1>2. \A f, r, k, a : At(other, f, r, k, a) => At(use, f, r, k, a)
  BY DEF TablesKept, At
<1>3. \A f, r, k, a : k > 0 /\ At(use, f, r, k, a) => At(other, f, r, k, a)
  BY DEF TablesKept, At
<1>4. ForestTypes(n, other, pg, roots)
  <2>1. \A f \in Frame : other[f].kind = "used" => other[f].index \in Unshared /\ other[f].root \in roots
    BY DEF ForestTypes, TablesKept
  <2>2. \A f \in Frame : f < kernel_frames /\ other[f].kind # "lost" =>
          f = identity_l4_table /\ other[f].kind = "used" /\ other[f].level = LEVELS
    BY DEF ForestTypes
  <2> QED BY <2>1, <2>2 DEF ForestTypes
<1>5. RootsOK(n, other, roots)
  <2>1. ASSUME NEW r \in roots
        PROVE  /\ other[r].kind = "used" /\ other[r].root = r /\ other[r].level = LEVELS
               /\ n.table[r][0] = [frame |-> identity_l3_table, flags |-> {PRESENT, RW}]
    <3>1. r \in Frame /\ use[r].kind = "used" /\ use[r].level > 0
      BY LevelsFact DEF ForestTypes, RootsOK
    <3> QED BY <3>1 DEF TablesKept, RootsOK
  <2>2. \A i \in Index : n.table[identity_l3_table][i] = Absent
    BY DEF TablesKept, RootsOK
  <2> QED BY <2>1, <2>2 DEF RootsOK
<1>6. Placed(other)
  BY <1>2 DEF Placed, TablesKept
<1>7. Down(n, other)
  <2> SUFFICES ASSUME NEW f \in Frame, NEW a \in Unshared, other[f].kind = "used", other[f].level > 1,
                      SameAbove(other[f].index, a, other[f].level), IsPresent(n, f, a[other[f].level])
               PROVE  At(other, n.table[f][a[other[f].level]].frame, other[f].root, other[f].level - 1, a)
    BY DEF Down
  <2>1. use[f].kind = "used" /\ other[f] = use[f] /\ n.table[f] = m.table[f]
    BY <1>1 DEF TablesKept
  <2>2. At(use, m.table[f][a[use[f].level]].frame, use[f].root, use[f].level - 1, a)
    BY <2>1 DEF Down, IsPresent
  <2>3. use[f].level - 1 > 0
    BY <1>1, <2>1
  <2> QED BY <1>3, <2>1, <2>2, <2>3
<1>8. Up(n, other)
  <2> SUFFICES ASSUME NEW f \in Frame, other[f].kind = "used", other[f].level < LEVELS
               PROVE  \E g \in Frame :
                        LET i == other[f].index[other[f].level + 1]
                        IN  /\ At(other, g, other[f].root, other[f].level + 1, other[f].index)
                            /\ IsPresent(n, g, i) /\ n.table[g][i].frame = f
    BY DEF Up
  <2>1. use[f].kind = "used" /\ other[f] = use[f]
    BY DEF TablesKept
  <2> DEFINE i == use[f].index[use[f].level + 1]
  <2>2. PICK g \in Frame : /\ At(use, g, use[f].root, use[f].level + 1, use[f].index)
                           /\ IsPresent(m, g, i) /\ m.table[g][i].frame = f
    BY <2>1 DEF Up
  <2>3. use[f].level + 1 > 0 /\ use[f].level \in Nat
    BY <1>1
  <2>4. use[g].kind = "used" /\ use[g].level > 0 /\ n.table[g] = m.table[g]
    BY <2>2, <2>3 DEF At, TablesKept
  <2> QED BY <1>3, <2>1, <2>2, <2>3, <2>4 DEF IsPresent
<1>9. Leaves(n, other, pg)
  <2>1. \A f \in Frame : other[f].kind = "used" /\ other[f].level = 1 =>
          use[f].kind = "used" /\ use[f] = other[f] /\ n.table[f] = m.table[f]
    BY DEF TablesKept
  <2> QED BY <1>3, <2>1 DEF Leaves
<1>10. Counts(n, other)
  <2>1. \A f \in Frame : other[f].kind = "used" /\ other[f].level > 0 =>
          /\ use[f].kind = "used" /\ use[f] = other[f]
          /\ n.table[f] = m.table[f] /\ n.word[f] = m.word[f]
    BY DEF TablesKept
  <2>2. \A f \in Frame : n.table[f] = m.table[f] => EntriesOf(n, f) = EntriesOf(m, f)
    BY DEF IsPresent, EntriesOf
  <2> QED BY <2>1, <2>2 DEF Counts, IsPresent
<1>11. ASSUME NEW r, NEW but \in Nat \ {0}, NEW a, Filled(m, use, r, but, a)
       PROVE  Filled(n, other, r, but, a)
  BY <1>1, <1>3, <1>11, LevelsFact DEF Filled, TablesKept
<1> QED BY <1>4, <1>5, <1>6, <1>7, <1>8, <1>9, <1>10, <1>11

\* What a forest says of each frame.
LEMMA ForestFacts ==
    ASSUME NEW m, NEW use, NEW pg, NEW roots, Forest(m, use, pg, roots)
    PROVE  /\ m \in Memory /\ use \in [Frame -> Role]
           /\ \A f \in Frame : /\ use[f] \in Role /\ use[f].level \in 0..LEVELS
                               /\ use[f].index \in Idx /\ use[f].root \in Frame
                               /\ use[f].kind \in {"free", "lost", "used"}
           /\ \A f \in Frame : f < kernel_frames => use[f].kind # "free"
           /\ \A f \in Frame : use[f].kind = "used" =>
                /\ f # NULL /\ f # identity_l3_table
                /\ At(use, f, use[f].root, use[f].level, use[f].index)
                /\ use[f].level < LEVELS => f >= kernel_frames
                /\ use[f].level = LEVELS => f = use[f].root
           /\ use[identity_l3_table].kind = "lost"
           /\ \A r \in roots : r \in Frame /\ \A a : At(use, r, r, LEVELS, a)
<1> USE DEF Forest
<1>1. \A f \in Frame : /\ use[f] \in Role /\ use[f].level \in 0..LEVELS
                       /\ use[f].index \in Idx /\ use[f].root \in Frame
                       /\ use[f].kind \in {"free", "lost", "used"}
  BY DEF ForestTypes, Role
<1>2. \A f \in Frame : f < kernel_frames => use[f].kind # "free"
  BY DEF ForestTypes
<1>3. use[identity_l3_table].kind = "lost" /\ use[NULL].kind = "lost"
  <2>1. NULL \in Frame /\ identity_l3_table \in Frame /\ NULL < kernel_frames /\ identity_l3_table < kernel_frames
    BY FrameIsFinite, PagingAssumption DEF NULL, identity_l3_table
  <2> QED BY <2>1 DEF ForestTypes, NULL, identity_l3_table, identity_l4_table
<1>4. \A r \in roots : r \in Frame /\ \A a : At(use, r, r, LEVELS, a)
  BY PlaceFacts DEF ForestTypes, RootsOK, At
<1>5. ASSUME NEW f \in Frame, use[f].kind = "used"
      PROVE  /\ f # NULL /\ f # identity_l3_table
             /\ At(use, f, use[f].root, use[f].level, use[f].index)
             /\ use[f].level < LEVELS => f >= kernel_frames
             /\ use[f].level = LEVELS => f = use[f].root
  <2>1. f # NULL /\ f # identity_l3_table
    BY <1>3, <1>5
  <2>2. At(use, f, use[f].root, use[f].level, use[f].index)
    BY <1>5, PlaceFacts DEF At
  <2>3. ASSUME use[f].level < LEVELS PROVE f >= kernel_frames
    <3>1. ~(f < kernel_frames)
      BY <1>1, <1>5, <2>3, LevelsFact DEF ForestTypes
    <3> QED BY <3>1, FrameIsFinite, PagingAssumption
  <2>4. ASSUME use[f].level = LEVELS PROVE f = use[f].root
    <3>1. use[f].root \in roots
      BY <1>5 DEF ForestTypes
    <3>2. At(use, use[f].root, use[f].root, LEVELS, use[f].index)
      BY <1>4, <3>1
    <3> QED BY <1>5, <2>4, <3>1, <3>2, <1>4 DEF Placed
  <2> QED BY <2>1, <2>2, <2>3, <2>4
<1>6. m \in Memory /\ use \in [Frame -> Role]
  BY DEF ForestTypes
<1> QED BY <1>1, <1>2, <1>3, <1>4, <1>5, <1>6

\* One table at a place, under the one table above it.
LEMMA PlacesAreApart ==
    ASSUME NEW m, NEW use, NEW pg, NEW roots, Forest(m, use, pg, roots)
    PROVE  /\ \A f, g, r, k, a : At(use, f, r, k, a) /\ At(use, g, r, k, a) => f = g
           /\ \A f, r, k : \A a \in Unshared :
                At(use, f, r, k, a) /\ k > 1 /\ IsPresent(m, f, a[k]) =>
                  At(use, m.table[f][a[k]].frame, r, k - 1, a)
           /\ \A g, r, k, a : At(use, g, r, k, a) /\ k < LEVELS =>
                \E f \in Frame : /\ At(use, f, r, k + 1, a) /\ IsPresent(m, f, a[k + 1])
                                 /\ m.table[f][a[k + 1]].frame = g
           /\ \A f, r, a, b, k : SameAbove(a, b, k) /\ At(use, f, r, k, a) => At(use, f, r, k, b)
<1> USE DEF Forest
<1>1. \A f, r, a, b, k : SameAbove(a, b, k) /\ At(use, f, r, k, a) => At(use, f, r, k, b)
  BY PlaceFacts DEF At
<1>2. ASSUME NEW f, NEW g, NEW r, NEW k, NEW a, At(use, f, r, k, a), At(use, g, r, k, a)
      PROVE  f = g
  <2>1. SameAbove(use[g].index, use[f].index, k)
    BY <1>2, PlaceFacts DEF At
  <2>2. At(use, g, use[f].root, use[f].level, use[f].index)
    BY <1>2, <2>1 DEF At
  <2> QED BY <1>2, <2>2 DEF At, Placed
<1>3. ASSUME NEW f, NEW r, NEW k, NEW a \in Unshared,
             At(use, f, r, k, a), k > 1, IsPresent(m, f, a[k])
      PROVE  At(use, m.table[f][a[k]].frame, r, k - 1, a)
  BY <1>3 DEF At, Down
<1>4. ASSUME NEW g, NEW r, NEW k, NEW a, At(use, g, r, k, a), k < LEVELS
      PROVE  \E f \in Frame : /\ At(use, f, r, k + 1, a) /\ IsPresent(m, f, a[k + 1])
                              /\ m.table[f][a[k + 1]].frame = g
  <2>1. g \in Frame /\ use[g].kind = "used" /\ use[g].level = k /\ use[g].root = r
        /\ SameAbove(use[g].index, a, k) /\ k \in 0..LEVELS
    BY <1>4, ForestFacts DEF At
  <2>2. PICK f \in Frame : LET i == use[g].index[k + 1]
                           IN  /\ At(use, f, r, k + 1, use[g].index)
                               /\ IsPresent(m, f, i) /\ m.table[f][i].frame = g
    BY <1>4, <2>1 DEF Up
  <2>3. k + 1 \in 1..LEVELS /\ (k + 1) - 1 = k
    BY <1>4, <2>1, LevelsFact
  <2>4. use[g].index[k + 1] = a[k + 1] /\ SameAbove(use[g].index, a, k + 1)
    BY <2>1, <2>3, PlaceFacts
  <2>5. At(use, f, r, k + 1, a)
    BY <1>1, <2>2, <2>4
  <2> QED BY <2>2, <2>4, <2>5
<1> QED BY <1>1, <1>2, <1>3, <1>4

-----------------------------------------------------------------------------
(* Frames taken and given back.                                            *)

\* A frame is taken by nobody in particular: by frame_alloc() in gen_addr.
LEMMA FrameTaken ==
    ASSUME NEW m, NEW use, NEW pg, NEW roots, Forest(m, use, pg, roots)
    PROVE  LET f == frame_alloc(m).frame
               n == frame_alloc(m).memory
               other == Relabelled(use, f, "lost")
           IN  \/ f = NULL /\ n = m
               \/ /\ f \in Frame \ {NULL} /\ f >= kernel_frames /\ use[f].kind = "free"
                  /\ Forest(n, other, pg, roots)
                  /\ n.data = m.data
                  /\ \A r, but, a : but \in Nat \ {0} /\ Filled(m, use, r, but, a) =>
                                      Filled(n, other, r, but, a)
<1> DEFINE f == frame_alloc(m).frame
           n == frame_alloc(m).memory
           other == Relabelled(use, f, "lost")
<1>1. /\ m \in Memory /\ use \in [Frame -> Role] /\ FreeOK(m, use)
      /\ \A g \in Frame : g < kernel_frames => use[g].kind # "free"
  BY ForestFacts DEF Forest
<1>2. \/ f = NULL /\ n = m
      \/ /\ f \in Frame \ {NULL} /\ use[f].kind = "free"
         /\ FreeOK(n, other) /\ n \in Memory /\ n.table = m.table /\ n.data = m.data
         /\ \A g \in Frame \ {f} : n.word[g] = m.word[g]
  BY <1>1, AllocFacts
<1> HIDE DEF f, n
<1>3. CASE f = NULL /\ n = m
  BY <1>3 DEF f, n
<1>4. CASE /\ f \in Frame \ {NULL} /\ use[f].kind = "free"
           /\ FreeOK(n, other) /\ n \in Memory /\ n.table = m.table /\ n.data = m.data
           /\ \A g \in Frame \ {f} : n.word[g] = m.word[g]
  <2>1. /\ other \in [Frame -> Role] /\ \A g \in Frame \ {f} : other[g] = use[g]
        /\ other[f].kind = "lost"
    BY <1>1, <1>4, RelabelledFacts
  <2>2. f >= kernel_frames
    BY <1>1, <1>4, FrameIsFinite, PagingAssumption
  <2> HIDE DEF other
  <2>3. TablesKept(m, n, use, other)
    BY <1>4, <2>1 DEF TablesKept
  <2>4. \A g \in Frame : g < kernel_frames => other[g] = use[g]
    BY <1>1, <1>4, <2>1
  <2>5. /\ Forest(n, other, pg, roots)
        /\ \A r, but, a : but \in Nat \ {0} /\ Filled(m, use, r, but, a) =>
                            Filled(n, other, r, but, a)
    BY <1>4, <2>1, <2>3, <2>4, TablesKeptForest
  <2> QED BY <1>4, <2>2, <2>5 DEF f, n, other
<1> QED BY <1>2, <1>3, <1>4

\* A page of a process may be freed while a table still shows it.
LEMMA FrameFreed ==
    ASSUME NEW m, NEW use, NEW pg, NEW roots, Forest(m, use, pg, roots),
           NEW f \in Frame, f >= kernel_frames, use[f].kind # "free",
           use[f].kind = "used" => use[f].level = 0
    PROVE  LET n == free_frame(m, f)
               other == Relabelled(use, f, "free")
           IN  /\ Forest(n, other, pg, roots)
               /\ \A g \in Frame \ {f} : n.data[g] = m.data[g]
               /\ \A r, but, a : but \in Nat \ {0} /\ Filled(m, use, r, but, a) =>
                                   Filled(n, other, r, but, a)
<1> DEFINE n == free_frame(m, f)
           other == Relabelled(use, f, "free")
<1>1. m \in Memory /\ use \in [Frame -> Role] /\ FreeOK(m, use)
  BY ForestFacts DEF Forest
<1>2. /\ n \in Memory /\ FreeOK(n, other) /\ n.table = m.table
      /\ \A g \in Frame \ {f} : n.word[g] = m.word[g] /\ n.data[g] = m.data[g]
  BY <1>1, FreeFacts
<1>3. /\ other \in [Frame -> Role] /\ \A g \in Frame \ {f} : other[g] = use[g]
      /\ other[f].kind = "free"
  BY <1>1, RelabelledFacts
<1> HIDE DEF n, other
<1>4. TablesKept(m, n, use, other)
  <2>1. \A g \in Frame : other[g].kind = "used" => g # f
    BY <1>3
  <2>2. \A g \in Frame : use[g].kind = "used" /\ use[g].level > 0 => g # f
    OBVIOUS
  <2> QED BY <1>2, <1>3, <2>1, <2>2 DEF TablesKept
<1>5. \A g \in Frame : g < kernel_frames => other[g] = use[g]
  <2>1. \A g \in Frame : g < kernel_frames => g # f
    <3>1. kernel_frames \in Int /\ f \in Int
      BY FrameIsFinite, PagingAssumption
    <3> QED BY <3>1
  <2> QED BY <1>3, <2>1
<1>6. /\ Forest(n, other, pg, roots)
      /\ \A r, but, a : but \in Nat \ {0} /\ Filled(m, use, r, but, a) =>
                          Filled(n, other, r, but, a)
  BY <1>2, <1>3, <1>4, <1>5, TablesKeptForest
<1> QED BY <1>2, <1>6 DEF n, other

\* unmap() can tell an empty table by its present_entries.
LEMMA WordsCount ==
    ASSUME NEW m, NEW use, Counts(m, use)
    PROVE  \A f \in Frame : use[f].kind = "used" /\ use[f].level > 0 =>
             (m.word[f] = 0 <=> \A i \in Index : ~IsPresent(m, f, i))
<1> SUFFICES ASSUME NEW f \in Frame, use[f].kind = "used", use[f].level > 0
             PROVE  m.word[f] = 0 <=> \A i \in Index : ~IsPresent(m, f, i)
  OBVIOUS
<1>1. m.word[f] = Cardinality(EntriesOf(m, f))
  BY DEF Counts
<1>2. EntriesOf(m, f) \in SUBSET Index
  BY DEF EntriesOf
<1>3. IsFiniteSet(EntriesOf(m, f))
  BY <1>2, IndexIsFinite
<1>4. Cardinality(EntriesOf(m, f)) = 0 <=> EntriesOf(m, f) = {}
  BY <1>3, FS_EmptySet
<1> QED BY <1>1, <1>4 DEF EntriesOf

\* What is used of an index outside the part shared with the kernel.
LEMMA IndexFacts ==
    ASSUME NEW a \in Unshared
    PROVE  a \in Idx /\ (\A k \in 1..LEVELS : a[k] \in Index) /\ a[LEVELS] # 0
BY DEF Unshared, Idx

\* The role of a frame that becomes a table or a page at a place.
Placing(use, g, r, k, a) ==
    [use EXCEPT ![g] = [kind |-> "used", root |-> r, level |-> k, index |-> a]]

\* What changes of use where a frame takes a place: what is at every other
\* place stays.
LEMMA PlacingFacts ==
    ASSUME NEW use \in [Frame -> Role], NEW g \in Frame, NEW r \in Frame, NEW k \in 0..LEVELS,
           NEW a \in Idx, use[g].kind # "used"
    PROVE  /\ Placing(use, g, r, k, a) \in [Frame -> Role]
           /\ \A f \in Frame \ {g} : Placing(use, g, r, k, a)[f] = use[f]
           /\ LET role == Placing(use, g, r, k, a)[g]
              IN  role.kind = "used" /\ role.root = r /\ role.level = k /\ role.index = a
           /\ \A f, q, l, b : At(Placing(use, g, r, k, a), f, q, l, b) <=>
                At(use, f, q, l, b) \/ (f = g /\ q = r /\ l = k /\ SameAbove(a, b, k))
<1> DEFINE role == [kind |-> "used", root |-> r, level |-> k, index |-> a]
           other == Placing(use, g, r, k, a)
<1>1. role \in Role /\ role.kind = "used" /\ role.root = r /\ role.level = k /\ role.index = a
  BY DEF Role
<1> HIDE DEF role
<1>2. other = [use EXCEPT ![g] = role]
  BY DEF Placing, role
<1>3. other \in [Frame -> Role] /\ other[g] = role /\ \A f \in Frame \ {g} : other[f] = use[f]
  BY <1>1, <1>2
<1> HIDE DEF other
<1>4. ASSUME NEW f, NEW q, NEW l, NEW b
      PROVE  At(other, f, q, l, b) <=>
                At(use, f, q, l, b) \/ (f = g /\ q = r /\ l = k /\ SameAbove(a, b, k))
  <2>1. CASE f = g
    BY <1>1, <1>3, <2>1 DEF At
  <2>2. CASE f # g
    BY <1>3, <2>2 DEF At
  <2> QED BY <2>1, <2>2
<1> QED BY <1>1, <1>3, <1>4 DEF other

-----------------------------------------------------------------------------
(* A table is added below one that has no entry there.                     *)

\* The step of map() that adds a table keeps the forest; the new table is the
\* only empty one.
LEMMA TableAdded ==
    ASSUME NEW m, NEW use, NEW pg, NEW roots, Forest(m, use, pg, roots),
           NEW a \in Unshared, NEW k \in 2..LEVELS, NEW f, NEW r,
           At(use, f, r, k, a), ~IsPresent(m, f, a[k]),
           NEW flags \in SUBSET {PRESENT, RW, USER}, PRESENT \in flags,
           table_alloc(m).frame # NULL
    PROVE  LET g == table_alloc(m).frame
               n == set_entry(table_alloc(m).memory, f, a[k], g, flags)
               other == Placing(use, g, r, k - 1, a)
           IN  /\ g \in Frame /\ use[g].kind = "free"
               /\ Forest(n, other, pg, roots)
               /\ n.data = m.data
               /\ n.table[f][a[k]] = [frame |-> g, flags |-> flags]
               /\ Filled(m, use, r, k, a) => Filled(n, other, r, k - 1, a)
<1> DEFINE g == table_alloc(m).frame
           o == table_alloc(m).memory
           n == set_entry(o, f, a[k], g, flags)
           other == Placing(use, g, r, k - 1, a)
           entry == [frame |-> g, flags |-> flags]
<1>1. /\ m \in Memory /\ use \in [Frame -> Role] /\ FreeOK(m, use)
      /\ \A h \in Frame : h < kernel_frames => use[h].kind # "free"
  BY ForestFacts DEF Forest
<1>2. /\ g \in Frame \ {NULL} /\ use[g].kind = "free" /\ FreeOK(o, Relabelled(use, g, "lost"))
      /\ o \in Memory /\ o.data = m.data /\ o.word[g] = 0
      /\ \A i \in Index : o.table[g][i] = Absent
      /\ \A h \in Frame \ {g} : o.word[h] = m.word[h] /\ o.table[h] = m.table[h]
  BY <1>1, TableAllocFacts
<1>3. /\ f \in Frame /\ use[f].kind = "used" /\ use[f].level = k /\ use[f].root = r
      /\ r \in roots /\ r \in Frame /\ SameAbove(use[f].index, a, k) /\ f # g
  BY <1>2 DEF At, Forest, ForestTypes
<1>4. a \in Idx /\ a[k] \in Index /\ k \in 1..LEVELS /\ k - 1 \in 0..LEVELS /\ k - 1 \in 1..LEVELS
      /\ k \in Nat /\ k > 1
  BY IndexFacts, LevelsFact
<1> HIDE DEF g, o
<1>5. EntrySet(o, n, f, a[k], entry)
  BY <1>2, <1>3, <1>4, SetEntryFacts
<1> HIDE DEF n
<1>6. /\ other \in [Frame -> Role] /\ \A h \in Frame \ {g} : other[h] = use[h]
      /\ other[g].kind = "used" /\ other[g].root = r /\ other[g].level = k - 1 /\ other[g].index = a
      /\ \A h, q, l, b : At(other, h, q, l, b) <=>
           At(use, h, q, l, b) \/ (h = g /\ q = r /\ l = k - 1 /\ SameAbove(a, b, k - 1))
  BY <1>1, <1>2, <1>3, <1>4, PlacingFacts
<1> HIDE DEF other
<1>7. entry.frame = g /\ entry.flags = flags
  OBVIOUS
<1> HIDE DEF entry
<1>8. /\ \A h \in Frame \ {g} : \A i \in Index :
           n.table[h][i] = IF h = f /\ i = a[k] THEN entry ELSE m.table[h][i]
      /\ \A i \in Index : n.table[g][i] = Absent
  BY <1>2, <1>3, <1>5 DEF EntrySet
<1>9. \A h \in Frame \ {g} : \A i \in Index :
        IsPresent(n, h, i) <=> (h = f /\ i = a[k]) \/ IsPresent(m, h, i)
  BY <1>7, <1>8 DEF IsPresent
<1>10. \A i \in Index : ~IsPresent(n, g, i)
  BY <1>8 DEF IsPresent, Absent
<1>11. \A h, l, b : ~At(use, h, r, k - 1, b) \/ ~SameAbove(a, b, k - 1)
  <2> SUFFICES ASSUME NEW h, NEW b, At(use, h, r, k - 1, b), SameAbove(a, b, k - 1)
               PROVE  FALSE
    OBVIOUS
  <2>1. At(use, h, r, k - 1, a)
    BY PlacesAreApart, PlaceFacts
  <2>2. PICK e \in Frame : At(use, e, r, (k - 1) + 1, a) /\ IsPresent(m, e, a[(k - 1) + 1])
    BY <2>1, <1>4, PlacesAreApart, LevelsFact
  <2>3. (k - 1) + 1 = k
    BY <1>4
  <2>4. e = f
    BY <2>2, <2>3, PlacesAreApart
  <2> QED BY <2>2, <2>3, <2>4
<1>12. ForestTypes(n, other, pg, roots)
  <2>1. n \in Memory
    BY <1>5 DEF EntrySet
  <2>2. \A h \in Frame : other[h].kind = "used" => other[h].index \in Unshared /\ other[h].root \in roots
    BY <1>3, <1>6 DEF Forest, ForestTypes
  <2>3. \A h \in Frame : h < kernel_frames /\ other[h].kind # "lost" =>
          h = identity_l4_table /\ other[h].kind = "used" /\ other[h].level = LEVELS
    <3>1. ~(g < kernel_frames)
      BY <1>1, <1>2
    <3> QED BY <1>6, <3>1 DEF Forest, ForestTypes
  <2> QED BY <1>6, <2>1, <2>2, <2>3 DEF Forest, ForestTypes
<1>13. FreeOK(n, other)
  <2> DEFINE lost == Relabelled(use, g, "lost")
  <2>1. lost[g].kind = "lost" /\ \A h \in Frame \ {g} : lost[h] = use[h]
    BY <1>1, <1>2, RelabelledFacts
  <2> HIDE DEF lost
  <2>2. \A h \in Frame : other[h].kind = "free" <=> lost[h].kind = "free"
    BY <1>6, <2>1
  <2>3. \A h \in Frame : lost[h].kind = "free" => n.word[h] = o.word[h]
    BY <1>3, <1>5, <2>1 DEF EntrySet
  <2>4. n.first_free_frame_index = o.first_free_frame_index /\ n.free_frames = o.free_frames
    BY <1>5 DEF EntrySet
  <2>5. FreeOK(o, lost)
    BY <1>2 DEF lost
  <2> QED BY <2>2, <2>3, <2>4, <2>5, ListKept
<1>14. RootsOK(n, other, roots)
  <2>1. \A i \in Index : n.table[identity_l3_table][i] = m.table[identity_l3_table][i]
    <3>1. use[identity_l3_table].kind = "lost" /\ identity_l3_table \in Frame
      BY ForestFacts, FrameIsFinite
    <3> QED BY <1>2, <1>3, <1>8, <3>1
  <2>2. ASSUME NEW q \in roots
        PROVE  /\ other[q].kind = "used" /\ other[q].root = q /\ other[q].level = LEVELS
               /\ n.table[q][0] = [frame |-> identity_l3_table, flags |-> {PRESENT, RW}]
    <3>1. /\ q \in Frame /\ use[q].kind = "used" /\ use[q].root = q /\ use[q].level = LEVELS
          /\ m.table[q][0] = [frame |-> identity_l3_table, flags |-> {PRESENT, RW}]
      BY DEF Forest, ForestTypes, RootsOK
    <3>2. q # g
      BY <1>2, <3>1
    <3>3. ~(q = f /\ 0 = a[k])
      BY <1>3, <3>1, IndexFacts
    <3>4. n.table[q][0] = m.table[q][0]
      BY <1>8, <3>1, <3>2, <3>3, LevelsFact
    <3> QED BY <1>6, <3>1, <3>2, <3>4
  <2> QED BY <2>1, <2>2 DEF Forest, RootsOK
<1>15. Placed(other)
  <2> SUFFICES ASSUME NEW h \in Frame, NEW e \in Frame, other[h].kind = "used",
                      At(other, e, other[h].root, other[h].level, other[h].index)
               PROVE  h = e
    BY DEF Placed
  <2>1. CASE h = g
    BY <1>6, <1>11, <2>1, PlaceFacts
  <2>2. CASE h # g
    <3>1. other[h] = use[h] /\ At(use, h, use[h].root, use[h].level, use[h].index)
      BY <1>6, <2>2, ForestFacts
    <3>2. CASE e = g
      <4>1. ~At(use, g, use[h].root, use[h].level, use[h].index)
        BY <1>2 DEF At
      <4>2. use[h].root = r /\ use[h].level = k - 1 /\ SameAbove(a, use[h].index, k - 1)
        BY <1>6, <3>1, <3>2, <4>1
      <4> QED BY <1>11, <3>1, <4>2
    <3>3. CASE e # g
      BY <1>6, <3>1, <3>3, PlacesAreApart
    <3> QED BY <3>2, <3>3
  <2> QED BY <2>1, <2>2
<1>16. Down(n, other)
  <2> SUFFICES ASSUME NEW h \in Frame, NEW b \in Unshared, other[h].kind = "used", other[h].level > 1,
                      SameAbove(other[h].index, b, other[h].level), IsPresent(n, h, b[other[h].level])
               PROVE  At(other, n.table[h][b[other[h].level]].frame, other[h].root, other[h].level - 1, b)
    BY DEF Down
  <2>1. other[h].level \in 1..LEVELS /\ b[other[h].level] \in Index
    <3>1. other[h].level \in 0..LEVELS
      BY <1>6 DEF Role
    <3>2. other[h].level \in 1..LEVELS
      BY <3>1
    <3> QED BY <3>2, IndexFacts
  <2>2. h # g
    BY <1>10, <2>1
  <2>3. other[h] = use[h] /\ At(use, h, use[h].root, use[h].level, b)
    <3>1. other[h] = use[h]
      BY <1>6, <2>2
    <3> QED BY <3>1 DEF At
  <2>4. CASE h = f /\ b[k] = a[k]
    <3>1. SameAbove(a, b, k)
      BY <1>3, <2>3, <2>4, PlaceFacts DEF At
    <3>2. SameAbove(a, b, k - 1)
      BY <1>4, <2>4, <3>1, PlaceFacts
    <3>3. n.table[h][b[k]].frame = g
      BY <1>2, <1>3, <1>4, <1>7, <1>8, <2>4
    <3> QED BY <1>3, <1>6, <2>3, <2>4, <3>2, <3>3
  <2>5. CASE ~(h = f /\ b[k] = a[k])
    <3>1. n.table[h][b[use[h].level]] = m.table[h][b[use[h].level]] /\ IsPresent(m, h, b[use[h].level])
      BY <1>3, <1>8, <1>9, <2>1, <2>2, <2>3, <2>5
    <3>2. At(use, m.table[h][b[use[h].level]].frame, use[h].root, use[h].level - 1, b)
      BY <2>3, <3>1, PlacesAreApart
    <3> QED BY <1>6, <2>3, <3>1, <3>2
  <2> QED BY <2>4, <2>5
<1>17. Up(n, other)
  <2> SUFFICES ASSUME NEW h \in Frame, other[h].kind = "used", other[h].level < LEVELS
               PROVE  \E e \in Frame :
                        LET i == other[h].index[other[h].level + 1]
                        IN  /\ At(other, e, other[h].root, other[h].level + 1, other[h].index)
                            /\ IsPresent(n, e, i) /\ n.table[e][i].frame = h
    BY DEF Up
  <2>1. CASE h = g
    <3>1. other[h].level + 1 = k /\ other[h].index = a /\ other[h].root = r
      BY <1>4, <1>6, <2>1
    <3>2. At(other, f, r, k, a)
      BY <1>6
    <3>3. IsPresent(n, f, a[k]) /\ n.table[f][a[k]].frame = g
      BY <1>3, <1>4, <1>7, <1>8, <1>9
    <3> QED BY <1>3, <2>1, <3>1, <3>2, <3>3
  <2>2. CASE h # g
    <3>1. other[h] = use[h] /\ At(use, h, use[h].root, use[h].level, use[h].index)
          /\ use[h].level + 1 \in 1..LEVELS /\ use[h].index \in Idx
      BY <1>6, <2>2, ForestFacts, LevelsFact
    <3> DEFINE i == use[h].index[use[h].level + 1]
    <3>2. PICK e \in Frame : /\ At(use, e, use[h].root, use[h].level + 1, use[h].index)
                             /\ IsPresent(m, e, i) /\ m.table[e][i].frame = h
      BY <2>2, <3>1, PlacesAreApart
    <3>3. e # g /\ i \in Index
      BY <1>2, <3>1, <3>2 DEF At, Idx
    <3>4. ~(e = f /\ i = a[k])
      BY <3>2
    <3>5. IsPresent(n, e, i) /\ n.table[e][i].frame = h
      BY <1>8, <1>9, <3>2, <3>3, <3>4
    <3> QED BY <1>6, <3>1, <3>2, <3>5
  <2> QED BY <2>1, <2>2
<1>18. Leaves(n, other, pg)
  <2>1. ASSUME NEW h \in Frame, NEW b \in Unshared, other[h].kind = "used", other[h].level = 1,
               SameAbove(other[h].index, b, 1)
        PROVE  pg[other[h].root][b] = n.table[h][b[1]]
    <3>1. b[1] \in Index
      BY IndexFacts, LevelsFact
    <3>2. CASE h = g
      <4>1. k - 1 = 1 /\ other[h].root = r /\ SameAbove(a, b, k - 1)
        BY <1>6, <2>1, <3>2
      <4>2. ~ \E e \in Frame : At(use, e, r, 1, b)
        BY <1>11, <4>1
      <4>3. pg[r][b] = Absent
        BY <1>3, <4>2 DEF Forest, Leaves
      <4> QED BY <1>8, <3>1, <3>2, <4>1, <4>3
    <3>3. CASE h # g
      <4>1. other[h] = use[h] /\ h # f
        BY <1>3, <1>4, <1>6, <2>1, <3>3
      <4> QED BY <1>8, <2>1, <3>1, <3>3, <4>1 DEF Forest, Leaves
    <3> QED BY <3>2, <3>3
  <2>2. ASSUME NEW q \in Frame, NEW b \in Unshared, pg[q][b] # Absent
        PROVE  \E h \in Frame : At(other, h, q, 1, b)
    BY <1>6, <2>2 DEF Forest, Leaves
  <2> QED BY <2>1, <2>2 DEF Leaves
<1>19. Counts(n, other)
  <2> SUFFICES ASSUME NEW h \in Frame, other[h].kind = "used", other[h].level > 0
               PROVE  /\ n.word[h] = Cardinality(EntriesOf(n, h))
                      /\ \A i \in Index : ~IsPresent(n, h, i) => n.table[h][i] = Absent
    BY DEF Counts
  <2>1. CASE h = g
    <3>1. n.word[g] = 0
      BY <1>2, <1>3, <1>5 DEF EntrySet
    <3>2. EntriesOf(n, g) = {}
      BY <1>10 DEF EntriesOf
    <3> QED BY <1>8, <2>1, <3>1, <3>2, FS_EmptySet
  <2>2. CASE h # g
    <3>1. other[h] = use[h]
      BY <1>6, <2>2
    <3>2. /\ m.word[h] = Cardinality(EntriesOf(m, h))
          /\ \A i \in Index : ~IsPresent(m, h, i) => m.table[h][i] = Absent
      BY <3>1 DEF Forest, Counts
    <3>3. \A i \in Index : ~IsPresent(n, h, i) => n.table[h][i] = Absent
      BY <1>8, <1>9, <2>2, <3>2
    <3>4. o.word[h] = m.word[h] /\ EntriesOf(o, h) = EntriesOf(m, h)
      BY <1>2, <2>2 DEF EntriesOf, IsPresent
    <3>5. CASE h = f
      BY <1>5, <3>2, <3>3, <3>4, <3>5 DEF EntrySet
    <3>6. CASE h # f
      <4>1. EntriesOf(n, h) = EntriesOf(m, h)
        BY <1>9, <2>2, <3>6 DEF EntriesOf
      <4>2. n.word[h] = m.word[h]
        BY <1>5, <3>4, <3>6 DEF EntrySet
      <4> QED BY <3>2, <3>3, <4>1, <4>2
    <3> QED BY <3>5, <3>6
  <2> QED BY <2>1, <2>2
<1>20. ASSUME Filled(m, use, r, k, a) PROVE Filled(n, other, r, k - 1, a)
  <2> SUFFICES ASSUME NEW h \in Frame, other[h].kind = "used", other[h].level \in 1..(LEVELS - 1)
               PROVE  n.word[h] # 0 \/ At(other, h, r, k - 1, a)
    BY DEF Filled
  <2>1. CASE h = g
    BY <1>6, <2>1, PlaceFacts
  <2>2. CASE h = f
    <3>1. other[h].level > 0
      OBVIOUS
    <3> QED BY <1>3, <1>4, <1>9, <1>19, <2>2, <3>1, WordsCount
  <2>3. CASE h # g /\ h # f
    <3>1. other[h] = use[h] /\ n.word[h] = m.word[h]
      BY <1>2, <1>5, <1>6, <2>3 DEF EntrySet
    <3>2. ~At(use, h, r, k, a)
      BY <2>3, PlacesAreApart
    <3> QED BY <1>20, <3>1, <3>2 DEF Filled
  <2> QED BY <2>1, <2>2, <2>3
<1>21. Forest(n, other, pg, roots)
  BY <1>12, <1>13, <1>14, <1>15, <1>16, <1>17, <1>18, <1>19 DEF Forest
<1>22. n.data = m.data
  BY <1>2, <1>5 DEF EntrySet
<1>23. n.table[f][a[k]] = entry
  BY <1>3, <1>4, <1>8
<1> QED BY <1>2, <1>20, <1>21, <1>22, <1>23 DEF g, o, n, other, entry

\* What is mapped at index a below root r.
Mapping(pg, r, a, entry) == [pg EXCEPT ![r] = [pg[r] EXCEPT ![a] = entry]]

\* What changes of pg where an index takes another entry.
LEMMA MappingFacts ==
    ASSUME NEW pg \in PageMaps, NEW r \in Frame, NEW a \in Unshared,
           NEW entry \in Entry
    PROVE  /\ Mapping(pg, r, a, entry) \in PageMaps
           /\ \A q \in Frame, b \in Unshared :
                Mapping(pg, r, a, entry)[q][b] = IF q = r /\ b = a THEN entry ELSE pg[q][b]
           /\ \A q \in Frame \ {r} : Mapping(pg, r, a, entry)[q] = pg[q]
BY DEF Mapping, PageMaps

\* An entry of a lowest table is set: nothing else changes.
LEMMA LeafSet ==
    ASSUME NEW m, NEW use, NEW pg, NEW roots, Forest(m, use, pg, roots),
           NEW a \in Unshared, NEW f, NEW r, At(use, f, r, 1, a),
           NEW frame \in Frame, NEW flags \in SUBSET {PRESENT, RW, USER},
           NEW n, n = set_entry(m, f, a[1], frame, flags),
           PRESENT \notin flags => flags = {} /\ frame = NULL,
           NEW other \in [Frame -> Role],
           \A h \in Frame : other[h].kind = "free" <=> use[h].kind = "free",
           \A h \in Frame : use[h].kind = "used" => other[h] = use[h],
           \A h \in Frame : other[h].kind = "used" /\ use[h].kind # "used" =>
             /\ other[h].level = 0 /\ other[h].index = a /\ other[h].root = r
             /\ h = frame /\ PRESENT \in flags /\ h >= kernel_frames,
           PRESENT \notin flags => \A h : ~At(use, h, r, 0, a),
           \A h \in Frame : other[h].kind = "used" /\ use[h].kind # "used" => ~IsPresent(m, f, a[1]),
           IsPresent(m, f, a[1]) => \A h : ~At(use, h, r, 0, a)
    PROVE  /\ Forest(n, other, Mapping(pg, r, a, [frame |-> frame, flags |-> flags]), roots)
           /\ n.data = m.data
           /\ Filled(m, use, r, IF PRESENT \in flags THEN 1 ELSE LEVELS, a) =>
                Filled(n, other, r, IF PRESENT \in flags THEN LEVELS ELSE 1, a)
<1> DEFINE entry == [frame |-> frame, flags |-> flags]
           new == Mapping(pg, r, a, entry)
<1>1. /\ m \in Memory /\ use \in [Frame -> Role] /\ FreeOK(m, use)
      /\ f \in Frame /\ use[f].kind = "used" /\ use[f].level = 1 /\ use[f].root = r
      /\ r \in roots /\ r \in Frame /\ SameAbove(use[f].index, a, 1)
  BY ForestFacts DEF Forest, ForestTypes, At
<1>2. a \in Idx /\ a[1] \in Index /\ 1 \in 1..LEVELS /\ 1 # LEVELS
  BY IndexFacts, LevelsFact
<1>3. EntrySet(m, n, f, a[1], entry)
  BY <1>1, <1>2, SetEntryFacts
<1>4. entry \in Entry /\ entry.frame = frame /\ entry.flags = flags
      /\ (PRESENT \notin flags => entry = Absent)
  BY DEF Entry, Absent
<1>5. pg \in PageMaps
  BY DEF Forest, ForestTypes
<1> HIDE DEF entry
<1>6. /\ new \in PageMaps
      /\ \A q \in Frame, b \in Unshared : new[q][b] = IF q = r /\ b = a THEN entry ELSE pg[q][b]
  <2>1. r \in Frame /\ entry \in Entry
    BY <1>1, <1>4
  <2> HIDE DEF new
  <2>2. new = Mapping(pg, r, a, entry)
    BY DEF new
  <2> QED BY <1>5, <2>1, <2>2, MappingFacts
<1> HIDE DEF new
<1>7. \A h \in Frame : \A i \in Index :
        n.table[h][i] = IF h = f /\ i = a[1] THEN entry ELSE m.table[h][i]
  BY <1>3 DEF EntrySet
<1>8. \A h \in Frame : \A i \in Index : ~(h = f /\ i = a[1]) => (IsPresent(n, h, i) <=> IsPresent(m, h, i))
  BY <1>7 DEF IsPresent
<1>9. IsPresent(n, f, a[1]) <=> PRESENT \in flags
  BY <1>1, <1>2, <1>4, <1>7 DEF IsPresent
<1>10. \A h, q, l, b : At(use, h, q, l, b) => At(other, h, q, l, b)
  BY DEF At
<1>11. \A h, q, l, b : At(other, h, q, l, b) /\ l # 0 => At(use, h, q, l, b)
  BY DEF At
<1>12. ForestTypes(n, other, new, roots)
  <2>1. n \in Memory
    BY <1>3 DEF EntrySet
  <2>2. ASSUME NEW h \in Frame, other[h].kind = "used"
        PROVE  other[h].index \in Unshared /\ other[h].root \in roots
    BY <1>1, <2>2 DEF Forest, ForestTypes
  <2>3. ASSUME NEW h \in Frame, h < kernel_frames, other[h].kind # "lost"
        PROVE  h = identity_l4_table /\ other[h].kind = "used" /\ other[h].level = LEVELS
    <3>1. ~(h >= kernel_frames)
      BY <2>3, FrameIsFinite, PagingAssumption
    <3>2. use[h].kind # "lost"
      <4>1. other[h].kind \in {"free", "used"}
        BY <2>3 DEF Role
      <4> QED BY <3>1, <4>1
    <3> QED BY <2>3, <3>2 DEF Forest, ForestTypes
  <2> QED BY <1>6, <2>1, <2>2, <2>3 DEF Forest, ForestTypes
<1>13. FreeOK(n, other)
  <2>1. \A h \in Frame : use[h].kind = "free" => n.word[h] = m.word[h]
    BY <1>1, <1>3 DEF EntrySet
  <2>2. n.first_free_frame_index = m.first_free_frame_index /\ n.free_frames = m.free_frames
    BY <1>3 DEF EntrySet
  <2> QED BY <1>1, <2>1, <2>2, ListKept
<1>14. RootsOK(n, other, roots)
  <2>1. \A i \in Index : n.table[identity_l3_table][i] = m.table[identity_l3_table][i]
    <3>1. use[identity_l3_table].kind = "lost" /\ identity_l3_table \in Frame
      BY ForestFacts, FrameIsFinite
    <3> QED BY <1>1, <1>7, <3>1
  <2>2. ASSUME NEW q \in roots
        PROVE  /\ other[q].kind = "used" /\ other[q].root = q /\ other[q].level = LEVELS
               /\ n.table[q][0] = [frame |-> identity_l3_table, flags |-> {PRESENT, RW}]
    <3>1. /\ q \in Frame /\ use[q].kind = "used" /\ use[q].root = q /\ use[q].level = LEVELS
          /\ m.table[q][0] = [frame |-> identity_l3_table, flags |-> {PRESENT, RW}]
      BY DEF Forest, ForestTypes, RootsOK
    <3>2. n.table[q][0] = m.table[q][0]
      BY <1>1, <1>2, <1>7, <3>1, LevelsFact
    <3> QED BY <3>1, <3>2
  <2>3. identity_l4_table \in roots /\ \A i \in Index : m.table[identity_l3_table][i] = Absent
    BY DEF Forest, RootsOK
  <2> QED BY <2>1, <2>2, <2>3 DEF RootsOK
<1>15. Placed(other)
  <2>1. ASSUME NEW h \in Frame, NEW e, other[h].kind = "used", use[h].kind # "used",
               At(use, e, r, 0, a)
        PROVE  FALSE
    <3>1. PICK d \in Frame : At(use, d, r, 0 + 1, a) /\ IsPresent(m, d, a[0 + 1])
      BY <2>1, LevelsFact, PlacesAreApart
    <3>2. d = f
      BY <3>1, PlacesAreApart
    <3> QED BY <2>1, <3>1, <3>2
  <2> SUFFICES ASSUME NEW h \in Frame, NEW e \in Frame, other[h].kind = "used",
                      At(other, e, other[h].root, other[h].level, other[h].index)
               PROVE  h = e
    BY DEF Placed
  <2>2. CASE use[h].kind = "used" /\ use[e].kind = "used"
    <3>1. At(use, h, other[h].root, other[h].level, other[h].index)
      BY <2>2, ForestFacts
    <3>2. At(use, e, other[h].root, other[h].level, other[h].index)
      BY <2>2 DEF At
    <3> QED BY <3>1, <3>2, PlacesAreApart
  <2>3. CASE use[h].kind = "used" /\ use[e].kind # "used"
    <3>1. other[e].kind = "used" /\ other[e].root = r /\ other[e].level = 0 /\ other[e].index = a
          /\ other[h] = use[h] /\ use[h].root = r /\ use[h].level = 0 /\ SameAbove(a, use[h].index, 0)
      BY <2>3 DEF At
    <3>2. At(use, h, r, 0, a)
      BY <2>3, <3>1, PlaceFacts DEF At
    <3> QED BY <2>1, <2>3, <3>1, <3>2
  <2>4. CASE use[h].kind # "used" /\ use[e].kind = "used"
    <3>1. At(use, e, r, 0, a)
      BY <2>4 DEF At
    <3> QED BY <2>1, <2>4, <3>1
  <2>5. CASE use[h].kind # "used" /\ use[e].kind # "used"
    BY <2>5 DEF At
  <2> QED BY <2>2, <2>3, <2>4, <2>5
<1>16. Down(n, other)
  <2> SUFFICES ASSUME NEW h \in Frame, NEW b \in Unshared, other[h].kind = "used", other[h].level > 1,
                      SameAbove(other[h].index, b, other[h].level), IsPresent(n, h, b[other[h].level])
               PROVE  At(other, n.table[h][b[other[h].level]].frame, other[h].root, other[h].level - 1, b)
    BY DEF Down
  <2>1. other[h] = use[h] /\ use[h].kind = "used" /\ h # f
    BY <1>1
  <2>2. use[h].level \in 1..LEVELS /\ b[use[h].level] \in Index
    <3>1. use[h].level \in 0..LEVELS
      BY ForestFacts
    <3>2. use[h].level \in 1..LEVELS
      BY <2>1, <3>1
    <3> QED BY <3>2, IndexFacts
  <2>3. n.table[h][b[use[h].level]] = m.table[h][b[use[h].level]] /\ IsPresent(m, h, b[use[h].level])
    BY <1>7, <1>8, <2>1, <2>2
  <2> QED BY <1>10, <2>1, <2>3 DEF Forest, Down
<1>17. Up(n, other)
  <2> SUFFICES ASSUME NEW h \in Frame, other[h].kind = "used", other[h].level < LEVELS
               PROVE  \E e \in Frame :
                        LET i == other[h].index[other[h].level + 1]
                        IN  /\ At(other, e, other[h].root, other[h].level + 1, other[h].index)
                            /\ IsPresent(n, e, i) /\ n.table[e][i].frame = h
    BY DEF Up
  <2>1. CASE use[h].kind # "used"
    <3>1. /\ other[h].level + 1 = 1 /\ other[h].index = a /\ other[h].root = r /\ h = frame
          /\ PRESENT \in flags
      BY <2>1
    <3>2. IsPresent(n, f, a[1]) /\ n.table[f][a[1]].frame = h
      BY <1>1, <1>2, <1>4, <1>7, <1>9, <3>1
    <3> QED BY <1>1, <1>10, <3>1, <3>2
  <2>2. CASE use[h].kind = "used"
    <3>1. other[h] = use[h] /\ use[h].level \in 0..LEVELS /\ use[h].index \in Idx
          /\ At(use, h, use[h].root, use[h].level, use[h].index)
      BY <2>2, ForestFacts
    <3> DEFINE i == use[h].index[use[h].level + 1]
    <3>2. PICK e \in Frame : /\ At(use, e, use[h].root, use[h].level + 1, use[h].index)
                             /\ IsPresent(m, e, i) /\ m.table[e][i].frame = h
      BY <3>1, PlacesAreApart
    <3>3. i \in Index
      BY <3>1, LevelsFact DEF Idx
    <3>4. ~(e = f /\ i = a[1])
      <4> SUFFICES ASSUME e = f, i = a[1] PROVE FALSE
        OBVIOUS
      <4>1. use[h].level = 0 /\ use[h].root = r
        <5>1. use[e].level = use[h].level + 1 /\ use[e].root = use[h].root
          BY <3>2 DEF At
        <5>2. use[h].level \in Int
          BY <3>1, LevelsFact
        <5>3. 1 = use[h].level + 1 /\ use[h].root = r
          BY <1>1, <5>1
        <5> QED BY <5>2, <5>3
      <4>2. SameAbove(use[h].index, a, 1)
        BY <1>1, <3>2, <4>1, PlaceFacts DEF At
      <4>3. SameAbove(use[h].index, a, 1 - 1)
        BY <1>2, <4>1, <4>2, PlaceFacts
      <4>4. At(use, h, r, 0, a)
        BY <2>2, <4>1, <4>3 DEF At
      <4> QED BY <3>2, <4>4
    <3>5. IsPresent(n, e, i) /\ n.table[e][i].frame = h
      BY <1>7, <1>8, <3>2, <3>3, <3>4
    <3> QED BY <1>10, <3>1, <3>2, <3>5
  <2> QED BY <2>1, <2>2
<1>18. Leaves(n, other, new)
  <2>1. ASSUME NEW h \in Frame, NEW b \in Unshared, other[h].kind = "used", other[h].level = 1,
               SameAbove(other[h].index, b, 1)
        PROVE  new[other[h].root][b] = n.table[h][b[1]]
    <3>1. b[1] \in Index /\ other[h] = use[h] /\ use[h].kind = "used" /\ use[h].root \in Frame /\ b \in Idx
      BY <2>1, IndexFacts, LevelsFact, ForestFacts
    <3>2. CASE use[h].root = r /\ b = a
      <4>1. At(use, h, r, 1, a)
        BY <2>1, <3>1, <3>2 DEF At
      <4>2. h = f
        BY <4>1, PlacesAreApart
      <4> QED BY <1>1, <1>6, <1>7, <3>1, <3>2, <4>2
    <3>3. CASE ~(use[h].root = r /\ b = a)
      <4>1. ~(h = f /\ b[1] = a[1])
        <5> SUFFICES ASSUME h = f, b[1] = a[1] PROVE FALSE
          OBVIOUS
        <5>1. SameAbove(a, b, 1) /\ use[h].root = r
          BY <1>1, <2>1, <3>1, PlaceFacts
        <5>2. SameAbove(a, b, 1 - 1)
          BY <1>2, <5>1, PlaceFacts
        <5>3. a = b
          BY <1>2, <3>1, <5>2, PlaceFacts
        <5> QED BY <3>3, <5>1, <5>3
      <4>2. pg[use[h].root][b] = m.table[h][b[1]]
        BY <2>1, <3>1 DEF Forest, Leaves
      <4> QED BY <1>6, <1>7, <3>1, <3>3, <4>1, <4>2
    <3> QED BY <3>2, <3>3
  <2>2. ASSUME NEW q \in Frame, NEW b \in Unshared, new[q][b] # Absent
        PROVE  \E h \in Frame : At(other, h, q, 1, b)
    <3>1. CASE q = r /\ b = a
      BY <1>1, <1>10, <3>1
    <3>2. CASE ~(q = r /\ b = a)
      BY <1>6, <1>10, <2>2, <3>2 DEF Forest, Leaves
    <3> QED BY <3>1, <3>2
  <2> QED BY <2>1, <2>2 DEF Leaves
<1>19. Counts(n, other)
  <2> SUFFICES ASSUME NEW h \in Frame, other[h].kind = "used", other[h].level > 0
               PROVE  /\ n.word[h] = Cardinality(EntriesOf(n, h))
                      /\ \A i \in Index : ~IsPresent(n, h, i) => n.table[h][i] = Absent
    BY DEF Counts
  <2>1. other[h] = use[h] /\ use[h].kind = "used"
    OBVIOUS
  <2>2. /\ m.word[h] = Cardinality(EntriesOf(m, h))
        /\ \A i \in Index : ~IsPresent(m, h, i) => m.table[h][i] = Absent
    BY <2>1 DEF Forest, Counts
  <2>3. \A i \in Index : ~IsPresent(n, h, i) => n.table[h][i] = Absent
    BY <1>4, <1>7, <1>8, <1>9, <2>2
  <2>4. CASE h = f
    BY <1>3, <2>2, <2>3, <2>4 DEF EntrySet
  <2>5. CASE h # f
    <3>1. EntriesOf(n, h) = EntriesOf(m, h)
      BY <1>8, <2>5 DEF EntriesOf
    <3>2. n.word[h] = m.word[h]
      BY <1>3, <2>5 DEF EntrySet
    <3> QED BY <2>2, <2>3, <3>1, <3>2
  <2> QED BY <2>4, <2>5
<1>20. ASSUME Filled(m, use, r, IF PRESENT \in flags THEN 1 ELSE LEVELS, a)
       PROVE  Filled(n, other, r, IF PRESENT \in flags THEN LEVELS ELSE 1, a)
  <2> SUFFICES ASSUME NEW h \in Frame, other[h].kind = "used", other[h].level \in 1..(LEVELS - 1)
               PROVE  n.word[h] # 0 \/ At(other, h, r, IF PRESENT \in flags THEN LEVELS ELSE 1, a)
    BY DEF Filled
  <2>1. other[h] = use[h] /\ use[h].kind = "used" /\ other[h].level > 0
    OBVIOUS
  <2>2. CASE h = f
    <3>1. CASE PRESENT \in flags
      BY <1>1, <1>2, <1>9, <1>19, <2>1, <2>2, <3>1, WordsCount
    <3>2. CASE PRESENT \notin flags
      BY <1>1, <1>10, <2>2, <3>2
    <3> QED BY <3>1, <3>2
  <2>3. CASE h # f
    <3>1. n.word[h] = m.word[h]
      BY <1>3, <2>3 DEF EntrySet
    <3>2. ~At(use, h, r, 1, a)
      BY <2>3, PlacesAreApart
    <3>3. ~At(use, h, r, LEVELS, a)
      <4>1. use[h].level \in Int /\ use[h].level # LEVELS
        BY <2>1, LevelsFact
      <4> QED BY <4>1 DEF At
    <3> QED BY <1>20, <2>1, <3>1, <3>2, <3>3 DEF Filled
  <2> QED BY <2>2, <2>3
<1>21. Forest(n, other, new, roots)
  BY <1>12, <1>13, <1>14, <1>15, <1>16, <1>17, <1>18, <1>19 DEF Forest
<1>22. n.data = m.data
  BY <1>3 DEF EntrySet
<1> QED BY <1>20, <1>21, <1>22 DEF new, entry

-----------------------------------------------------------------------------
(* An empty table is given back.                                           *)

\* The step of unmap() that gives an empty table back keeps the forest; the
\* table above may now be the empty one.
LEMMA TableDropped ==
    ASSUME NEW m, NEW use, NEW pg, NEW roots, Forest(m, use, pg, roots),
           NEW a \in Unshared, NEW k \in 1..(LEVELS - 1), NEW f, NEW g, NEW r,
           At(use, g, r, k, a), At(use, f, r, k + 1, a), m.word[g] = 0
    PROVE  LET n == set_entry(free_table(m, g), f, a[k + 1], NULL, {})
               other == Relabelled(use, g, "free")
           IN  /\ Forest(n, other, pg, roots)
               /\ \A h \in Frame \ {g} : n.data[h] = m.data[h]
               /\ Filled(m, use, r, k, a) => Filled(n, other, r, k + 1, a)
<1> DEFINE o == free_table(m, g)
           n == set_entry(o, f, a[k + 1], NULL, {})
           other == Relabelled(use, g, "free")
<1>1. /\ m \in Memory /\ use \in [Frame -> Role] /\ FreeOK(m, use)
      /\ f \in Frame /\ use[f].kind = "used" /\ use[f].level = k + 1 /\ use[f].root = r
      /\ g \in Frame /\ use[g].kind = "used" /\ use[g].level = k /\ use[g].root = r
      /\ SameAbove(use[f].index, a, k + 1) /\ SameAbove(use[g].index, a, k)
      /\ r \in roots /\ r \in Frame
  BY ForestFacts DEF Forest, ForestTypes, At
<1>2. a \in Idx /\ a[k + 1] \in Index /\ k \in Nat /\ k > 0 /\ k + 1 \in 1..LEVELS /\ k < LEVELS
      /\ k # k + 1 /\ (k + 1) - 1 = k /\ k \in 1..LEVELS /\ k + 1 > 1
  BY IndexFacts, LevelsFact
<1>3. g >= kernel_frames /\ f # g /\ o = free_frame(m, g)
  <2>1. g >= kernel_frames
    BY <1>1, <1>2, ForestFacts
  <2> QED BY <1>1, <1>2, <2>1 DEF free_table
<1>4. /\ o \in Memory /\ FreeOK(o, other) /\ o.table = m.table
      /\ \A h \in Frame \ {g} : o.word[h] = m.word[h] /\ o.data[h] = m.data[h]
  <2>1. use[g].kind # "free"
    BY <1>1
  <2> QED BY <1>1, <1>3, <2>1, FreeFacts
<1>5. /\ other \in [Frame -> Role] /\ \A h \in Frame \ {g} : other[h] = use[h]
      /\ other[g].kind = "free"
  BY <1>1, RelabelledFacts
<1> HIDE DEF o, other
<1>6. NULL \in Frame /\ {} \in SUBSET {PRESENT, RW, USER}
  BY FrameIsFinite
<1>7. EntrySet(o, n, f, a[k + 1], Absent)
  BY <1>1, <1>2, <1>4, <1>6, SetEntryFacts DEF Absent
<1> HIDE DEF n
<1>8. \A h \in Frame : \A i \in Index :
        n.table[h][i] = IF h = f /\ i = a[k + 1] THEN Absent ELSE m.table[h][i]
  BY <1>4, <1>7 DEF EntrySet
<1>9. \A h \in Frame : \A i \in Index :
        IsPresent(n, h, i) <=> ~(h = f /\ i = a[k + 1]) /\ IsPresent(m, h, i)
  BY <1>8 DEF IsPresent, Absent
<1>10. \A h, q, l, b : At(other, h, q, l, b) <=> h # g /\ At(use, h, q, l, b)
  BY <1>1, <1>5 DEF At
<1>11. \A i \in Index : ~IsPresent(m, g, i) /\ m.table[g][i] = Absent
  <2>1. use[g].level > 0
    BY <1>1, <1>2
  <2>2. \A i \in Index : ~IsPresent(m, g, i)
    BY <1>1, <2>1, WordsCount DEF Forest
  <2> QED BY <1>1, <2>1, <2>2 DEF Forest, Counts
<1>12. m.table[f][a[k + 1]].frame = g
  <2>1. PICK h \in Frame : At(use, h, r, k + 1, a) /\ m.table[h][a[k + 1]].frame = g
    BY <1>2, PlacesAreApart
  <2> QED BY <2>1, PlacesAreApart
<1>13. ForestTypes(n, other, pg, roots)
  <2>1. n \in Memory
    BY <1>7 DEF EntrySet
  <2>2. \A h \in Frame : other[h].kind = "used" => other[h].index \in Unshared /\ other[h].root \in roots
    BY <1>5 DEF Forest, ForestTypes
  <2>3. \A h \in Frame : h < kernel_frames /\ other[h].kind # "lost" =>
          h = identity_l4_table /\ other[h].kind = "used" /\ other[h].level = LEVELS
    <3>1. ~(g < kernel_frames)
      <4>1. g \in Int /\ kernel_frames \in Int
        BY <1>1, FrameIsFinite, PagingAssumption
      <4> QED BY <1>3, <4>1
    <3> QED BY <1>5, <3>1 DEF Forest, ForestTypes
  <2> QED BY <1>5, <2>1, <2>2, <2>3 DEF Forest, ForestTypes
<1>14. FreeOK(n, other)
  <2>1. \A h \in Frame : other[h].kind = "free" => n.word[h] = o.word[h]
    BY <1>1, <1>3, <1>5, <1>7 DEF EntrySet
  <2>2. n.first_free_frame_index = o.first_free_frame_index /\ n.free_frames = o.free_frames
    BY <1>7 DEF EntrySet
  <2> QED BY <1>4, <2>1, <2>2, ListKept
<1>15. RootsOK(n, other, roots)
  <2>1. \A i \in Index : n.table[identity_l3_table][i] = m.table[identity_l3_table][i]
    <3>1. use[identity_l3_table].kind = "lost" /\ identity_l3_table \in Frame
      BY ForestFacts, FrameIsFinite
    <3> QED BY <1>1, <1>8, <3>1
  <2>2. ASSUME NEW q \in roots
        PROVE  /\ other[q].kind = "used" /\ other[q].root = q /\ other[q].level = LEVELS
               /\ n.table[q][0] = [frame |-> identity_l3_table, flags |-> {PRESENT, RW}]
    <3>1. /\ q \in Frame /\ use[q].kind = "used" /\ use[q].root = q /\ use[q].level = LEVELS
          /\ m.table[q][0] = [frame |-> identity_l3_table, flags |-> {PRESENT, RW}]
      BY DEF Forest, ForestTypes, RootsOK
    <3>2. q # g
      BY <1>1, <1>2, <3>1
    <3>3. ~(q = f /\ 0 = a[k + 1])
      BY <1>1, <3>1, IndexFacts
    <3>4. n.table[q][0] = m.table[q][0]
      BY <1>8, <3>1, <3>3, LevelsFact
    <3> QED BY <1>5, <3>1, <3>2, <3>4
  <2> QED BY <2>1, <2>2 DEF Forest, RootsOK
<1>16. Placed(other)
  BY <1>5, <1>10 DEF Forest, Placed
<1>17. Down(n, other)
  <2> SUFFICES ASSUME NEW h \in Frame, NEW b \in Unshared, other[h].kind = "used", other[h].level > 1,
                      SameAbove(other[h].index, b, other[h].level), IsPresent(n, h, b[other[h].level])
               PROVE  At(other, n.table[h][b[other[h].level]].frame, other[h].root, other[h].level - 1, b)
    BY DEF Down
  <2>1. other[h] = use[h] /\ use[h].kind = "used" /\ h # g
    BY <1>5
  <2>2. use[h].level \in 1..LEVELS /\ b[use[h].level] \in Index /\ At(use, h, use[h].root, use[h].level, b)
    <3>1. use[h].level \in 0..LEVELS
      BY ForestFacts
    <3>2. use[h].level \in 1..LEVELS
      BY <2>1, <3>1
    <3> QED BY <2>1, <3>2, IndexFacts DEF At
  <2>3. ~(h = f /\ b[use[h].level] = a[k + 1]) /\ IsPresent(m, h, b[use[h].level])
    BY <1>9, <2>1, <2>2
  <2>4. n.table[h][b[use[h].level]] = m.table[h][b[use[h].level]]
    BY <1>8, <2>2, <2>3
  <2>5. At(use, m.table[h][b[use[h].level]].frame, use[h].root, use[h].level - 1, b)
    BY <2>1, <2>2, <2>3, PlacesAreApart
  <2>6. m.table[h][b[use[h].level]].frame # g
    <3> SUFFICES ASSUME m.table[h][b[use[h].level]].frame = g PROVE FALSE
      OBVIOUS
    <3>1. use[h].root = r /\ k = use[h].level - 1 /\ SameAbove(use[g].index, b, k)
      BY <1>1, <2>5 DEF At
    <3>2. use[h].level = k + 1
      BY <1>2, <2>2, <3>1, LevelsFact
    <3>3. SameAbove(b, a, k) /\ SameAbove(b, a, (k + 1) - 1)
      BY <1>1, <1>2, <3>1, PlaceFacts
    <3>4. SameAbove(b, a, k + 1) /\ b[k + 1] = a[k + 1]
      BY <1>2, <3>3, PlaceFacts
    <3>5. At(use, h, r, k + 1, a)
      BY <2>2, <3>1, <3>2, <3>4, PlacesAreApart
    <3>6. h = f
      BY <3>5, PlacesAreApart
    <3> QED BY <2>3, <3>2, <3>4, <3>6
  <2> QED BY <1>10, <2>1, <2>4, <2>5, <2>6
<1>18. Up(n, other)
  <2> SUFFICES ASSUME NEW h \in Frame, other[h].kind = "used", other[h].level < LEVELS
               PROVE  \E e \in Frame :
                        LET i == other[h].index[other[h].level + 1]
                        IN  /\ At(other, e, other[h].root, other[h].level + 1, other[h].index)
                            /\ IsPresent(n, e, i) /\ n.table[e][i].frame = h
    BY DEF Up
  <2>1. other[h] = use[h] /\ use[h].kind = "used" /\ h # g
    BY <1>5
  <2>2. use[h].level \in 0..LEVELS /\ use[h].index \in Idx
        /\ At(use, h, use[h].root, use[h].level, use[h].index)
    BY <2>1, ForestFacts
  <2> DEFINE i == use[h].index[use[h].level + 1]
  <2>3. PICK e \in Frame : /\ At(use, e, use[h].root, use[h].level + 1, use[h].index)
                           /\ IsPresent(m, e, i) /\ m.table[e][i].frame = h
    BY <2>1, <2>2, PlacesAreApart
  <2>4. i \in Index
    BY <2>1, <2>2, LevelsFact DEF Idx
  <2>5. e # g /\ ~(e = f /\ i = a[k + 1])
    BY <1>11, <1>12, <2>1, <2>3, <2>4
  <2>6. IsPresent(n, e, i) /\ n.table[e][i].frame = h
    BY <1>8, <1>9, <2>3, <2>4, <2>5
  <2> QED BY <1>10, <2>1, <2>3, <2>5, <2>6
<1>19. Leaves(n, other, pg)
  <2>1. ASSUME NEW h \in Frame, NEW b \in Unshared, other[h].kind = "used", other[h].level = 1,
               SameAbove(other[h].index, b, 1)
        PROVE  pg[other[h].root][b] = n.table[h][b[1]]
    <3>1. b[1] \in Index /\ other[h] = use[h] /\ h # f
      BY <1>1, <1>2, <1>5, <2>1, IndexFacts, LevelsFact
    <3> QED BY <1>8, <2>1, <3>1 DEF Forest, Leaves
  <2>2. ASSUME NEW q \in Frame, NEW b \in Unshared, pg[q][b] # Absent
        PROVE  \E h \in Frame : At(other, h, q, 1, b)
    <3>1. PICK h \in Frame : At(use, h, q, 1, b)
      BY <2>2 DEF Forest, Leaves
    <3>2. pg[q][b] = m.table[h][b[1]]
      BY <3>1 DEF Forest, Leaves, At
    <3>3. b[1] \in Index
      BY IndexFacts, LevelsFact
    <3>4. h # g
      BY <1>11, <2>2, <3>2, <3>3
    <3> QED BY <1>10, <3>1, <3>4
  <2> QED BY <2>1, <2>2 DEF Leaves
<1>20. Counts(n, other)
  <2> SUFFICES ASSUME NEW h \in Frame, other[h].kind = "used", other[h].level > 0
               PROVE  /\ n.word[h] = Cardinality(EntriesOf(n, h))
                      /\ \A i \in Index : ~IsPresent(n, h, i) => n.table[h][i] = Absent
    BY DEF Counts
  <2>1. other[h] = use[h] /\ h # g
    BY <1>5
  <2>2. /\ m.word[h] = Cardinality(EntriesOf(m, h))
        /\ \A i \in Index : ~IsPresent(m, h, i) => m.table[h][i] = Absent
    BY <2>1 DEF Forest, Counts
  <2>3. \A i \in Index : ~IsPresent(n, h, i) => n.table[h][i] = Absent
    BY <1>8, <1>9, <2>2
  <2>4. o.word[h] = m.word[h] /\ EntriesOf(o, h) = EntriesOf(m, h)
    BY <1>4, <2>1 DEF EntriesOf, IsPresent
  <2>5. CASE h = f
    BY <1>7, <2>2, <2>3, <2>4, <2>5 DEF EntrySet
  <2>6. CASE h # f
    <3>1. EntriesOf(n, h) = EntriesOf(m, h)
      BY <1>9, <2>6 DEF EntriesOf
    <3>2. n.word[h] = m.word[h]
      BY <1>7, <2>4, <2>6 DEF EntrySet
    <3> QED BY <2>2, <2>3, <3>1, <3>2
  <2> QED BY <2>5, <2>6
<1>21. ASSUME Filled(m, use, r, k, a) PROVE Filled(n, other, r, k + 1, a)
  <2> SUFFICES ASSUME NEW h \in Frame, other[h].kind = "used", other[h].level \in 1..(LEVELS - 1)
               PROVE  n.word[h] # 0 \/ At(other, h, r, k + 1, a)
    BY DEF Filled
  <2>1. other[h] = use[h] /\ h # g
    BY <1>5
  <2>2. CASE h = f
    BY <1>3, <1>10, <2>2
  <2>3. CASE h # f
    <3>1. n.word[h] = m.word[h]
      BY <1>4, <1>7, <2>1, <2>3 DEF EntrySet
    <3>2. ~At(use, h, r, k, a)
      BY <2>1, PlacesAreApart
    <3> QED BY <1>21, <2>1, <3>1, <3>2 DEF Filled
  <2> QED BY <2>2, <2>3
<1>22. Forest(n, other, pg, roots)
  BY <1>13, <1>14, <1>15, <1>16, <1>17, <1>18, <1>19, <1>20 DEF Forest
<1>23. \A h \in Frame \ {g} : n.data[h] = m.data[h]
  BY <1>4, <1>7 DEF EntrySet
<1> QED BY <1>21, <1>22, <1>23 DEF o, n, other

\* No table below a root is empty.
Full(m, use) ==
    \A f \in Frame : use[f].kind = "used" /\ use[f].level \in 1..(LEVELS - 1) => m.word[f] # 0

\* That no table is empty, said in two ways.
LEMMA FullIsFilled ==
    ASSUME NEW m, NEW use, NEW r, NEW a
    PROVE  Full(m, use) <=> Filled(m, use, r, LEVELS, a)
<1>1. \A f : use[f].level \in 1..(LEVELS - 1) => ~At(use, f, r, LEVELS, a)
  BY LevelsFact DEF At
<1> QED BY <1>1 DEF Full, Filled

\* What a forest says of a root.
LEMMA RootFacts ==
    ASSUME NEW m, NEW use, NEW pg, NEW roots, Forest(m, use, pg, roots), NEW r \in roots
    PROVE  /\ r \in Frame /\ use[r].kind = "used" /\ use[r].root = r /\ use[r].level = LEVELS
           /\ m.table[r][0] = [frame |-> identity_l3_table, flags |-> {PRESENT, RW}]
           /\ r # identity_l4_table => r >= kernel_frames
<1>1. /\ r \in Frame /\ use[r].kind = "used" /\ use[r].root = r /\ use[r].level = LEVELS
      /\ m.table[r][0] = [frame |-> identity_l3_table, flags |-> {PRESENT, RW}]
  BY DEF Forest, ForestTypes, RootsOK
<1>2. r < kernel_frames => r = identity_l4_table
  BY <1>1 DEF Forest, ForestTypes
<1>3. r \in Int /\ kernel_frames \in Int
  BY <1>1, FrameIsFinite, PagingAssumption
<1> QED BY <1>1, <1>2, <1>3

\* A new root shares the part of the kernel.
LEMMA RootAdded ==
    ASSUME NEW m, NEW use, NEW pg, NEW roots, Forest(m, use, pg, roots),
           NEW source \in roots, NEW a \in Unshared,
           table_alloc(m).frame # NULL
    PROVE  LET g == table_alloc(m).frame
               n == CopyShared(table_alloc(m).memory, g, source)
               other == Placing(use, g, g, LEVELS, a)
           IN  /\ g \in Frame /\ use[g].kind = "free" /\ g \notin roots
               /\ Forest(n, other, pg, roots \cup {g})
               /\ n.data = m.data
               /\ Full(m, use) => Full(n, other)
               /\ \A b \in Unshared : pg[g][b] = Absent
<1> DEFINE g == table_alloc(m).frame
           o == table_alloc(m).memory
           n == CopyShared(o, g, source)
           other == Placing(use, g, g, LEVELS, a)
           entry == [frame |-> identity_l3_table, flags |-> {PRESENT, RW}]
<1>1. /\ m \in Memory /\ use \in [Frame -> Role] /\ FreeOK(m, use)
      /\ \A h \in Frame : h < kernel_frames => use[h].kind # "free"
  BY ForestFacts DEF Forest
<1>2. /\ g \in Frame \ {NULL} /\ use[g].kind = "free" /\ FreeOK(o, Relabelled(use, g, "lost"))
      /\ o \in Memory /\ o.data = m.data /\ o.word[g] = 0
      /\ \A i \in Index : o.table[g][i] = Absent
      /\ \A h \in Frame \ {g} : o.word[h] = m.word[h] /\ o.table[h] = m.table[h]
  BY <1>1, TableAllocFacts
<1> HIDE DEF g, o
<1>3. source \in Frame /\ source # g /\ o.table[source][0] = entry /\ g \notin roots
  <2>1. /\ source \in Frame /\ use[source].kind = "used"
        /\ m.table[source][0] = [frame |-> identity_l3_table, flags |-> {PRESENT, RW}]
    BY DEF Forest, ForestTypes, RootsOK
  <2>2. \A q \in roots : use[q].kind = "used"
    BY DEF Forest, RootsOK
  <2> QED BY <1>2, <2>1, <2>2
<1>4. n = set_entry(o, g, 0, identity_l3_table, {PRESENT, RW})
  BY <1>3 DEF CopyShared
<1>5. identity_l3_table \in Frame /\ {PRESENT, RW} \in SUBSET {PRESENT, RW, USER} /\ 0 \in Index
  BY FrameIsFinite, LevelsFact
<1>6. EntrySet(o, n, g, 0, entry)
  BY <1>2, <1>4, <1>5, SetEntryFacts
<1> HIDE DEF n
<1>7. a \in Idx /\ LEVELS \in 0..LEVELS /\ LEVELS \in Nat /\ LEVELS > 1
  BY IndexFacts, LevelsFact
<1>8. /\ other \in [Frame -> Role] /\ \A h \in Frame \ {g} : other[h] = use[h]
      /\ other[g].kind = "used" /\ other[g].root = g /\ other[g].level = LEVELS /\ other[g].index = a
      /\ \A h, q, l, b : At(other, h, q, l, b) <=>
           At(use, h, q, l, b) \/ (h = g /\ q = g /\ l = LEVELS /\ SameAbove(a, b, LEVELS))
  BY <1>1, <1>2, <1>7, PlacingFacts
<1> HIDE DEF other
<1>9. entry.frame = identity_l3_table /\ entry.flags = {PRESENT, RW}
  OBVIOUS
<1> HIDE DEF entry
<1>10. /\ \A h \in Frame \ {g} : \A i \in Index : n.table[h][i] = m.table[h][i]
       /\ n.table[g][0] = entry
       /\ \A i \in Index \ {0} : n.table[g][i] = Absent
  BY <1>2, <1>5, <1>6 DEF EntrySet
<1>11. /\ \A h \in Frame \ {g} : \A i \in Index : IsPresent(n, h, i) <=> IsPresent(m, h, i)
       /\ \A i \in Index \ {0} : ~IsPresent(n, g, i)
       /\ IsPresent(n, g, 0)
  BY <1>9, <1>10 DEF IsPresent, Absent
<1>12. \A h \in Frame : use[h].kind = "used" => use[h].root # g
  BY <1>3 DEF Forest, ForestTypes
<1>13. ForestTypes(n, other, pg, roots \cup {g})
  <2>1. n \in Memory
    BY <1>6 DEF EntrySet
  <2>2. \A h \in Frame : other[h].kind = "used" => other[h].index \in Unshared /\ other[h].root \in roots \cup {g}
    BY <1>8 DEF Forest, ForestTypes
  <2>3. \A h \in Frame : h < kernel_frames /\ other[h].kind # "lost" =>
          h = identity_l4_table /\ other[h].kind = "used" /\ other[h].level = LEVELS
    <3>1. ~(g < kernel_frames)
      BY <1>1, <1>2
    <3> QED BY <1>8, <3>1 DEF Forest, ForestTypes
  <2> QED BY <1>2, <1>8, <2>1, <2>2, <2>3 DEF Forest, ForestTypes
<1>14. FreeOK(n, other)
  <2> DEFINE lost == Relabelled(use, g, "lost")
  <2>1. lost[g].kind = "lost" /\ \A h \in Frame \ {g} : lost[h] = use[h]
    BY <1>1, <1>2, RelabelledFacts
  <2> HIDE DEF lost
  <2>2. \A h \in Frame : other[h].kind = "free" <=> lost[h].kind = "free"
    BY <1>8, <2>1
  <2>3. \A h \in Frame : lost[h].kind = "free" => n.word[h] = o.word[h]
    BY <1>6, <2>1 DEF EntrySet
  <2>4. n.first_free_frame_index = o.first_free_frame_index /\ n.free_frames = o.free_frames
    BY <1>6 DEF EntrySet
  <2>5. FreeOK(o, lost)
    BY <1>2 DEF lost
  <2> QED BY <2>2, <2>3, <2>4, <2>5, ListKept
<1>15. RootsOK(n, other, roots \cup {g})
  <2>1. \A i \in Index : n.table[identity_l3_table][i] = m.table[identity_l3_table][i]
    <3>1. use[identity_l3_table].kind = "lost" /\ identity_l3_table \in Frame
      BY ForestFacts, FrameIsFinite
    <3> QED BY <1>2, <1>10, <3>1
  <2>2. ASSUME NEW q \in roots
        PROVE  /\ other[q].kind = "used" /\ other[q].root = q /\ other[q].level = LEVELS
               /\ n.table[q][0] = [frame |-> identity_l3_table, flags |-> {PRESENT, RW}]
    <3>1. q # g /\ q \in Frame
      BY <1>3, RootFacts
    <3>2. n.table[q][0] = m.table[q][0]
      BY <1>5, <1>10, <3>1
    <3>3. /\ use[q].kind = "used" /\ use[q].root = q /\ use[q].level = LEVELS
          /\ m.table[q][0] = [frame |-> identity_l3_table, flags |-> {PRESENT, RW}]
      BY DEF Forest, RootsOK
    <3> QED BY <1>8, <3>1, <3>2, <3>3
  <2> QED BY <1>8, <1>10, <2>1, <2>2 DEF Forest, RootsOK, entry
<1>16. Placed(other)
  <2> SUFFICES ASSUME NEW h \in Frame, NEW e \in Frame, other[h].kind = "used",
                      At(other, e, other[h].root, other[h].level, other[h].index)
               PROVE  h = e
    BY DEF Placed
  <2>1. CASE h = g
    BY <1>8, <1>12, <2>1 DEF At
  <2>2. CASE h # g
    <3>1. other[h] = use[h] /\ At(use, h, use[h].root, use[h].level, use[h].index)
      BY <1>8, <2>2, ForestFacts
    <3>2. At(use, e, use[h].root, use[h].level, use[h].index)
      BY <1>8, <1>12, <2>2, <3>1
    <3> QED BY <3>1, <3>2, PlacesAreApart
  <2> QED BY <2>1, <2>2
<1>17. Down(n, other)
  <2> SUFFICES ASSUME NEW h \in Frame, NEW b \in Unshared, other[h].kind = "used", other[h].level > 1,
                      SameAbove(other[h].index, b, other[h].level), IsPresent(n, h, b[other[h].level])
               PROVE  At(other, n.table[h][b[other[h].level]].frame, other[h].root, other[h].level - 1, b)
    BY DEF Down
  <2>1. other[h].level \in 1..LEVELS /\ b[other[h].level] \in Index
    <3>1. other[h].level \in 0..LEVELS
      BY <1>8 DEF Role
    <3>2. other[h].level \in 1..LEVELS
      BY <3>1
    <3> QED BY <3>2, IndexFacts
  <2>2. h # g
    <3>1. b[LEVELS] # 0
      BY IndexFacts
    <3> QED BY <1>8, <1>11, <2>1, <3>1
  <2>3. other[h] = use[h] /\ use[h].kind = "used" /\ IsPresent(m, h, b[use[h].level])
        /\ n.table[h][b[use[h].level]] = m.table[h][b[use[h].level]]
    BY <1>8, <1>10, <1>11, <2>1, <2>2
  <2>4. At(use, m.table[h][b[use[h].level]].frame, use[h].root, use[h].level - 1, b)
    BY <2>3 DEF Forest, Down
  <2> QED BY <1>8, <2>3, <2>4
<1>18. Up(n, other)
  <2> SUFFICES ASSUME NEW h \in Frame, other[h].kind = "used", other[h].level < LEVELS
               PROVE  \E e \in Frame :
                        LET i == other[h].index[other[h].level + 1]
                        IN  /\ At(other, e, other[h].root, other[h].level + 1, other[h].index)
                            /\ IsPresent(n, e, i) /\ n.table[e][i].frame = h
    BY DEF Up
  <2>1. h # g /\ other[h] = use[h] /\ use[h].kind = "used"
    BY <1>7, <1>8
  <2>2. use[h].level \in 0..LEVELS /\ use[h].index \in Idx
        /\ At(use, h, use[h].root, use[h].level, use[h].index)
    BY <2>1, ForestFacts
  <2> DEFINE i == use[h].index[use[h].level + 1]
  <2>3. PICK e \in Frame : /\ At(use, e, use[h].root, use[h].level + 1, use[h].index)
                           /\ IsPresent(m, e, i) /\ m.table[e][i].frame = h
    BY <2>1, <2>2, PlacesAreApart
  <2>4. i \in Index
    BY <2>1, <2>2, LevelsFact DEF Idx
  <2>5. e # g
    BY <1>2, <2>3 DEF At
  <2>6. IsPresent(n, e, i) /\ n.table[e][i].frame = h
    BY <1>10, <1>11, <2>3, <2>4, <2>5
  <2> QED BY <1>8, <2>1, <2>3, <2>6
<1>19. Leaves(n, other, pg)
  <2>1. ASSUME NEW h \in Frame, NEW b \in Unshared, other[h].kind = "used", other[h].level = 1,
               SameAbove(other[h].index, b, 1)
        PROVE  pg[other[h].root][b] = n.table[h][b[1]]
    <3>1. b[1] \in Index
      BY IndexFacts, LevelsFact
    <3>2. h # g /\ other[h] = use[h]
      BY <1>7, <1>8, <2>1
    <3> QED BY <1>10, <2>1, <3>1, <3>2 DEF Forest, Leaves
  <2>2. ASSUME NEW q \in Frame, NEW b \in Unshared, pg[q][b] # Absent
        PROVE  \E h \in Frame : At(other, h, q, 1, b)
    BY <1>8, <2>2 DEF Forest, Leaves
  <2> QED BY <2>1, <2>2 DEF Leaves
<1>20. Counts(n, other)
  <2> SUFFICES ASSUME NEW h \in Frame, other[h].kind = "used", other[h].level > 0
               PROVE  /\ n.word[h] = Cardinality(EntriesOf(n, h))
                      /\ \A i \in Index : ~IsPresent(n, h, i) => n.table[h][i] = Absent
    BY DEF Counts
  <2>1. CASE h = g
    <3>1. EntriesOf(o, g) = {}
      BY <1>2 DEF EntriesOf, IsPresent, Absent
    <3>2. o.word[g] = Cardinality(EntriesOf(o, g))
      BY <1>2, <3>1, FS_EmptySet
    <3> QED BY <1>6, <1>10, <1>11, <2>1, <3>2 DEF EntrySet
  <2>2. CASE h # g
    <3>1. other[h] = use[h]
      BY <1>8, <2>2
    <3>2. /\ m.word[h] = Cardinality(EntriesOf(m, h))
          /\ \A i \in Index : ~IsPresent(m, h, i) => m.table[h][i] = Absent
      BY <3>1 DEF Forest, Counts
    <3>3. EntriesOf(n, h) = EntriesOf(m, h)
      BY <1>11, <2>2 DEF EntriesOf
    <3>4. n.word[h] = m.word[h]
      BY <1>2, <1>6, <2>2 DEF EntrySet
    <3> QED BY <1>10, <1>11, <2>2, <3>2, <3>3, <3>4
  <2> QED BY <2>1, <2>2
<1>21. ASSUME Full(m, use) PROVE Full(n, other)
  <2> SUFFICES ASSUME NEW h \in Frame, other[h].kind = "used", other[h].level \in 1..(LEVELS - 1)
               PROVE  n.word[h] # 0
    BY DEF Full
  <2>1. h # g
    BY <1>7, <1>8
  <2>2. n.word[h] = m.word[h] /\ other[h] = use[h]
    BY <1>2, <1>6, <1>8, <2>1 DEF EntrySet
  <2> QED BY <1>21, <2>2 DEF Full
<1>22. Forest(n, other, pg, roots \cup {g})
  BY <1>13, <1>14, <1>15, <1>16, <1>17, <1>18, <1>19, <1>20 DEF Forest
<1>23. n.data = m.data
  BY <1>2, <1>6 DEF EntrySet
<1>24. ASSUME NEW b \in Unshared PROVE pg[g][b] = Absent
  <2>1. \A h : ~At(use, h, g, 1, b)
    BY <1>12 DEF At
  <2> QED BY <1>2, <2>1 DEF Forest, Leaves
<1> QED BY <1>2, <1>3, <1>21, <1>22, <1>23, <1>24 DEF g, o, n, other

\* Copying the part of the kernel writes no data.
LEMMA RootKeepsData ==
    ASSUME NEW m, NEW use, NEW pg, NEW roots, Forest(m, use, pg, roots),
           NEW source \in roots, NEW a \in Unshared,
           table_alloc(m).frame # NULL
    PROVE  CopyShared(table_alloc(m).memory, table_alloc(m).frame, source).data = m.data
BY RootAdded

-----------------------------------------------------------------------------
(* A root that has nothing below it is given back.                         *)

\* destroy_paging_root() gives the frame of a root back.
LEMMA RootDropped ==
    ASSUME NEW m, NEW use, NEW pg, NEW roots, Forest(m, use, pg, roots),
           NEW r \in roots, r # identity_l4_table,
           \A f \in Frame : use[f].kind = "used" /\ use[f].root = r => f = r
    PROVE  LET n == free_table(set_entry(m, r, 0, NULL, {}), r)
               other == Relabelled(use, r, "free")
           IN  /\ Forest(n, other, pg, roots \ {r})
               /\ \A h \in Frame \ {r} : n.data[h] = m.data[h]
               /\ Full(m, use) => Full(n, other)
<1> DEFINE o == set_entry(m, r, 0, NULL, {})
           n == free_table(o, r)
           other == Relabelled(use, r, "free")
<1>1. /\ m \in Memory /\ use \in [Frame -> Role] /\ FreeOK(m, use)
      /\ r \in Frame /\ use[r].kind = "used" /\ use[r].root = r /\ use[r].level = LEVELS
      /\ r >= kernel_frames
      /\ \A h \in Frame : h < kernel_frames => use[h].kind # "free"
  BY ForestFacts, RootFacts DEF Forest
<1>2. NULL \in Frame /\ {} \in SUBSET {PRESENT, RW, USER} /\ 0 \in Index
  BY FrameIsFinite, LevelsFact
<1>3. EntrySet(m, o, r, 0, Absent)
  BY <1>1, <1>2, SetEntryFacts DEF Absent
<1> HIDE DEF o
<1>4. \A h \in Frame : \A i \in Index :
        o.table[h][i] = IF h = r /\ i = 0 THEN Absent ELSE m.table[h][i]
  BY <1>3 DEF EntrySet
<1>5. ASSUME NEW i \in Index PROVE ~IsPresent(o, r, i)
  <2>1. CASE i = 0
    BY <1>1, <1>2, <1>4, <2>1 DEF IsPresent, Absent
  <2>2. CASE i # 0
    <3> SUFFICES ASSUME IsPresent(m, r, i) PROVE FALSE
      BY <1>1, <1>4, <2>2 DEF IsPresent
    <3> DEFINE b == [j \in 1..LEVELS |-> i]
    <3>1. b \in Unshared /\ b[LEVELS] = i
      BY <2>2, LevelsFact DEF Unshared, Idx
    <3> HIDE DEF b
    <3>2. At(use, r, r, LEVELS, b)
      BY ForestFacts
    <3>3. At(use, m.table[r][i].frame, r, LEVELS - 1, b)
      BY <3>1, <3>2, PlacesAreApart, LevelsFact
    <3>4. m.table[r][i].frame = r
      BY <3>3 DEF At
    <3> QED BY <1>1, <3>3, <3>4, LevelsFact DEF At
  <2> QED BY <2>1, <2>2
<1>6. o.word[r] = 0
  <2>1. m.word[r] = Cardinality(EntriesOf(m, r))
    BY <1>1, LevelsFact DEF Forest, Counts
  <2>2. o.word[r] = Cardinality(EntriesOf(o, r))
    BY <1>3, <2>1 DEF EntrySet
  <2>3. EntriesOf(o, r) = {}
    BY <1>5 DEF EntriesOf
  <2> QED BY <2>2, <2>3, FS_EmptySet
<1>7. n = free_frame(o, r)
  BY <1>6 DEF free_table
<1>8. FreeOK(o, use)
  <2>1. \A h \in Frame : use[h].kind = "free" => o.word[h] = m.word[h]
    BY <1>1, <1>3 DEF EntrySet
  <2>2. o.first_free_frame_index = m.first_free_frame_index /\ o.free_frames = m.free_frames
    BY <1>3 DEF EntrySet
  <2> QED BY <1>1, <2>1, <2>2, ListKept
<1>9. /\ n \in Memory /\ FreeOK(n, other) /\ n.table = o.table
      /\ \A h \in Frame \ {r} : n.word[h] = o.word[h] /\ n.data[h] = o.data[h]
  <2>1. use[r].kind # "free" /\ o \in Memory
    BY <1>1, <1>3 DEF EntrySet
  <2> QED BY <1>1, <1>7, <1>8, <2>1, FreeFacts
<1>10. /\ other \in [Frame -> Role] /\ \A h \in Frame \ {r} : other[h] = use[h]
       /\ other[r].kind = "free"
  BY <1>1, RelabelledFacts
<1> HIDE DEF n, other
<1>11. \A h, q, l, b : At(other, h, q, l, b) <=> h # r /\ At(use, h, q, l, b)
  BY <1>1, <1>10 DEF At
<1>12. /\ \A h \in Frame \ {r} : n.word[h] = m.word[h] /\ n.data[h] = m.data[h]
       /\ \A h \in Frame \ {r} : \A i \in Index : n.table[h][i] = m.table[h][i]
       /\ \A h \in Frame \ {r} : \A i \in Index : IsPresent(n, h, i) <=> IsPresent(m, h, i)
  BY <1>3, <1>4, <1>9 DEF EntrySet, IsPresent
<1>13. \A h \in Frame \ {r} : use[h].kind = "used" => use[h].root # r
  OBVIOUS
<1>14. ForestTypes(n, other, pg, roots \ {r})
  <2>1. \A h \in Frame : other[h].kind = "used" => other[h].index \in Unshared /\ other[h].root \in roots \ {r}
    BY <1>10, <1>13 DEF Forest, ForestTypes
  <2>2. \A h \in Frame : h < kernel_frames /\ other[h].kind # "lost" =>
          h = identity_l4_table /\ other[h].kind = "used" /\ other[h].level = LEVELS
    <3>1. ~(r < kernel_frames)
      <4>1. r \in Int /\ kernel_frames \in Int
        BY <1>1, FrameIsFinite, PagingAssumption
      <4> QED BY <1>1, <4>1
    <3> QED BY <1>10, <3>1 DEF Forest, ForestTypes
  <2> QED BY <1>9, <1>10, <2>1, <2>2 DEF Forest, ForestTypes
<1>15. RootsOK(n, other, roots \ {r})
  <2>1. \A i \in Index : n.table[identity_l3_table][i] = Absent
    <3>1. use[identity_l3_table].kind = "lost" /\ identity_l3_table \in Frame
      BY ForestFacts, FrameIsFinite
    <3>2. identity_l3_table # r
      BY <1>1, <3>1
    <3> QED BY <1>12, <3>1, <3>2 DEF Forest, RootsOK
  <2>2. ASSUME NEW q \in roots \ {r}
        PROVE  /\ other[q].kind = "used" /\ other[q].root = q /\ other[q].level = LEVELS
               /\ n.table[q][0] = [frame |-> identity_l3_table, flags |-> {PRESENT, RW}]
    <3>1. q \in roots /\ q # r
      OBVIOUS
    <3>2. /\ q \in Frame /\ use[q].kind = "used" /\ use[q].root = q /\ use[q].level = LEVELS
          /\ m.table[q][0] = [frame |-> identity_l3_table, flags |-> {PRESENT, RW}]
      BY <3>1 DEF Forest, ForestTypes, RootsOK
    <3> QED BY <1>2, <1>10, <1>12, <3>1, <3>2
  <2>3. identity_l4_table \in roots \ {r}
    BY DEF Forest, RootsOK
  <2> QED BY <2>1, <2>2, <2>3 DEF RootsOK
<1>16. Placed(other)
  BY <1>10, <1>11 DEF Forest, Placed
<1>17. Down(n, other)
  <2> SUFFICES ASSUME NEW h \in Frame, NEW b \in Unshared, other[h].kind = "used", other[h].level > 1,
                      SameAbove(other[h].index, b, other[h].level), IsPresent(n, h, b[other[h].level])
               PROVE  At(other, n.table[h][b[other[h].level]].frame, other[h].root, other[h].level - 1, b)
    BY DEF Down
  <2>1. h # r /\ other[h] = use[h] /\ use[h].kind = "used"
    BY <1>10
  <2>2. b[use[h].level] \in Index /\ use[h].level \in 1..LEVELS
    <3>1. use[h].level \in 0..LEVELS
      BY ForestFacts
    <3>2. use[h].level \in 1..LEVELS
      BY <2>1, <3>1
    <3> QED BY <3>2, IndexFacts
  <2>3. At(use, m.table[h][b[use[h].level]].frame, use[h].root, use[h].level - 1, b)
    BY <1>12, <2>1, <2>2 DEF Forest, Down
  <2>4. m.table[h][b[use[h].level]].frame # r
    <3>1. use[h].root # r
      BY <1>13, <2>1
    <3> QED BY <1>1, <2>3, <3>1 DEF At
  <2> QED BY <1>11, <1>12, <2>1, <2>2, <2>3, <2>4
<1>18. Up(n, other)
  <2> SUFFICES ASSUME NEW h \in Frame, other[h].kind = "used", other[h].level < LEVELS
               PROVE  \E e \in Frame :
                        LET i == other[h].index[other[h].level + 1]
                        IN  /\ At(other, e, other[h].root, other[h].level + 1, other[h].index)
                            /\ IsPresent(n, e, i) /\ n.table[e][i].frame = h
    BY DEF Up
  <2>1. h # r /\ other[h] = use[h] /\ use[h].kind = "used"
    BY <1>10
  <2>2. use[h].level \in 0..LEVELS /\ use[h].index \in Idx
        /\ At(use, h, use[h].root, use[h].level, use[h].index)
    BY <2>1, ForestFacts
  <2> DEFINE i == use[h].index[use[h].level + 1]
  <2>3. PICK e \in Frame : /\ At(use, e, use[h].root, use[h].level + 1, use[h].index)
                           /\ IsPresent(m, e, i) /\ m.table[e][i].frame = h
    BY <2>1, <2>2, PlacesAreApart
  <2>4. i \in Index
    BY <2>1, <2>2, LevelsFact DEF Idx
  <2>5. e # r
    BY <1>1, <1>13, <2>1, <2>3 DEF At
  <2>6. IsPresent(n, e, i) /\ n.table[e][i].frame = h
    BY <1>12, <2>3, <2>4, <2>5
  <2> QED BY <1>11, <2>1, <2>3, <2>5, <2>6
<1>19. Leaves(n, other, pg)
  <2>1. ASSUME NEW h \in Frame, NEW b \in Unshared, other[h].kind = "used", other[h].level = 1,
               SameAbove(other[h].index, b, 1)
        PROVE  pg[other[h].root][b] = n.table[h][b[1]]
    <3>1. b[1] \in Index
      BY IndexFacts, LevelsFact
    <3>2. h # r /\ other[h] = use[h]
      BY <1>10, <2>1
    <3> QED BY <1>12, <2>1, <3>1, <3>2 DEF Forest, Leaves
  <2>2. ASSUME NEW q \in Frame, NEW b \in Unshared, pg[q][b] # Absent
        PROVE  \E h \in Frame : At(other, h, q, 1, b)
    <3>1. PICK h \in Frame : At(use, h, q, 1, b)
      BY <2>2 DEF Forest, Leaves
    <3>2. h # r
      BY <1>1, <3>1, LevelsFact DEF At
    <3> QED BY <1>11, <3>1, <3>2
  <2> QED BY <2>1, <2>2 DEF Leaves
<1>20. Counts(n, other)
  <2> SUFFICES ASSUME NEW h \in Frame, other[h].kind = "used", other[h].level > 0
               PROVE  /\ n.word[h] = Cardinality(EntriesOf(n, h))
                      /\ \A i \in Index : ~IsPresent(n, h, i) => n.table[h][i] = Absent
    BY DEF Counts
  <2>1. h # r /\ other[h] = use[h]
    BY <1>10
  <2>2. EntriesOf(n, h) = EntriesOf(m, h)
    BY <1>12, <2>1 DEF EntriesOf
  <2> QED BY <1>12, <2>1, <2>2 DEF Forest, Counts
<1>21. Full(m, use) => Full(n, other)
  BY <1>10, <1>12 DEF Full
<1>22. Forest(n, other, pg, roots \ {r})
  BY <1>9, <1>14, <1>15, <1>16, <1>17, <1>18, <1>19, <1>20 DEF Forest
<1> QED BY <1>12, <1>21, <1>22 DEF n, o, other

-----------------------------------------------------------------------------
(* A root is given up with what is below it.                               *)

\* The frames below r have no use any more.
Forgotten(use, r) ==
    [f \in Frame |-> IF use[f].kind = "used" /\ use[f].root = r
                     THEN [use[f] EXCEPT !.kind = "lost"] ELSE use[f]]

\* Nothing is mapped below r.
Bare(pg, r) == [pg EXCEPT ![r] = [a \in Unshared |-> Absent]]

\* What changes of use where a root is forgotten.
LEMMA ForgottenFacts ==
    ASSUME NEW use \in [Frame -> Role], NEW r
    PROVE  /\ Forgotten(use, r) \in [Frame -> Role]
           /\ \A f \in Frame : use[f].kind = "used" /\ use[f].root = r => Forgotten(use, r)[f].kind = "lost"
           /\ \A f \in Frame : ~(use[f].kind = "used" /\ use[f].root = r) => Forgotten(use, r)[f] = use[f]
<1> DEFINE Gone(f) == use[f].kind = "used" /\ use[f].root = r
<1>1. \A f \in Frame : Gone(f) => [use[f] EXCEPT !.kind = "lost"] \in Role /\ [use[f] EXCEPT !.kind = "lost"].kind = "lost"
  BY DEF Role
<1> QED BY <1>1 DEF Forgotten

\* What changes of pg where nothing is mapped below a root.
LEMMA BareFacts ==
    ASSUME NEW pg \in PageMaps, NEW r \in Frame
    PROVE  /\ Bare(pg, r) \in PageMaps
           /\ \A q \in Frame \ {r} : Bare(pg, r)[q] = pg[q]
           /\ \A a \in Unshared : Bare(pg, r)[r][a] = Absent
<1>1. Absent \in Entry BY FrameIsFinite DEF Absent, Entry
<1> QED BY <1>1 DEF Bare, PageMaps

\* Where create_process() gives up, what it built below its root stays what it
\* is, but nobody can reach it.
LEMMA RootLost ==
    ASSUME NEW m, NEW use, NEW pg, NEW roots, Forest(m, use, pg, roots),
           NEW r \in roots, r # identity_l4_table
    PROVE  /\ Forest(m, Forgotten(use, r), Bare(pg, r), roots \ {r})
           /\ Full(m, use) => Full(m, Forgotten(use, r))
<1> DEFINE Gone(f) == use[f].kind = "used" /\ use[f].root = r
           other == Forgotten(use, r)
           new == Bare(pg, r)
<1>1. /\ m \in Memory /\ use \in [Frame -> Role] /\ FreeOK(m, use) /\ r \in Frame /\ pg \in PageMaps
  BY ForestFacts DEF Forest, ForestTypes
<1>3. /\ other \in [Frame -> Role]
      /\ \A f \in Frame : Gone(f) => other[f].kind = "lost"
      /\ \A f \in Frame : ~Gone(f) => other[f] = use[f]
  BY <1>1, ForgottenFacts
<1>5. /\ new \in PageMaps
      /\ \A q \in Frame \ {r} : new[q] = pg[q]
      /\ \A a \in Unshared : new[r][a] = Absent
  BY <1>1, BareFacts
<1> HIDE DEF other, new
<1>6. \A h, q, l, b : At(other, h, q, l, b) <=> q # r /\ At(use, h, q, l, b)
  <2> SUFFICES ASSUME NEW h \in Frame, NEW q, NEW l, NEW b
               PROVE  At(other, h, q, l, b) <=> q # r /\ At(use, h, q, l, b)
    BY DEF At
  <2>1. CASE Gone(h)
    BY <1>3, <2>1 DEF At
  <2>2. CASE ~Gone(h)
    BY <1>3, <2>2 DEF At
  <2> QED BY <2>1, <2>2
<1>7. \A f \in Frame : other[f].kind = "used" => use[f].kind = "used" /\ use[f].root # r /\ other[f] = use[f]
  BY <1>3
<1>8. \A f \in Frame : other[f].kind = "free" <=> use[f].kind = "free"
  BY <1>3
<1>9. FreeOK(m, other)
  BY <1>1, <1>8, ListKept
<1>10. ForestTypes(m, other, new, roots \ {r})
  <2>1. \A f \in Frame : other[f].kind = "used" => other[f].index \in Unshared /\ other[f].root \in roots \ {r}
    BY <1>7 DEF Forest, ForestTypes
  <2>2. \A f \in Frame : other[f].kind # "lost" => other[f] = use[f]
    BY <1>3
  <2>3. roots \ {r} \subseteq Frame
    BY DEF Forest, ForestTypes
  <2> QED BY <1>1, <1>3, <1>5, <2>1, <2>2, <2>3 DEF Forest, ForestTypes
<1>11. RootsOK(m, other, roots \ {r})
  <2>1. ASSUME NEW q \in roots \ {r}
        PROVE  /\ other[q].kind = "used" /\ other[q].root = q /\ other[q].level = LEVELS
               /\ m.table[q][0] = [frame |-> identity_l3_table, flags |-> {PRESENT, RW}]
    <3>1. /\ q \in Frame /\ use[q].kind = "used" /\ use[q].root = q /\ use[q].level = LEVELS
          /\ m.table[q][0] = [frame |-> identity_l3_table, flags |-> {PRESENT, RW}]
      BY DEF Forest, ForestTypes, RootsOK
    <3> QED BY <1>3, <3>1
  <2> QED BY <2>1 DEF Forest, RootsOK
<1>12. Placed(other)
  BY <1>6, <1>7 DEF Forest, Placed
<1>13. Down(m, other)
  BY <1>6, <1>7 DEF Forest, Down
<1>14. Up(m, other)
  BY <1>6, <1>7 DEF Forest, Up
<1>15. Leaves(m, other, new)
  <2>1. ASSUME NEW h \in Frame, NEW b \in Unshared, other[h].kind = "used", other[h].level = 1,
               SameAbove(other[h].index, b, 1)
        PROVE  new[other[h].root][b] = m.table[h][b[1]]
    <3>1. use[h].root \in Frame
      BY ForestFacts
    <3> QED BY <1>5, <1>7, <2>1, <3>1 DEF Forest, Leaves
  <2>2. ASSUME NEW q \in Frame, NEW b \in Unshared, new[q][b] # Absent
        PROVE  \E h \in Frame : At(other, h, q, 1, b)
    <3>1. q # r
      BY <1>5, <2>2
    <3> QED BY <1>5, <1>6, <2>2, <3>1 DEF Forest, Leaves
  <2> QED BY <2>1, <2>2 DEF Leaves
<1>16. Counts(m, other)
  BY <1>7 DEF Forest, Counts
<1>17. Full(m, use) => Full(m, other)
  BY <1>7 DEF Full
<1>18. Forest(m, other, new, roots \ {r})
  BY <1>9, <1>10, <1>11, <1>12, <1>13, <1>14, <1>15, <1>16 DEF Forest
<1> QED BY <1>17, <1>18 DEF other, new

-----------------------------------------------------------------------------
(* The walk of map().                                                      *)

\* Frames change from free to tables below root r, no others.
Grown(use, other, r) ==
    \A f \in Frame :
        /\ use[f].kind # "free" => other[f] = use[f]
        /\ use[f].kind = "free" /\ other[f].kind # "free" =>
             other[f].kind = "used" /\ other[f].root = r /\ other[f].level > 0

\* A table that has an entry is not the empty one.
LEMMA PresentIsFull ==
    ASSUME NEW m, NEW use, NEW pg, NEW roots, Forest(m, use, pg, roots),
           NEW t, NEW r, NEW k \in 1..LEVELS, NEW a, NEW i \in Index,
           At(use, t, r, k, a), IsPresent(m, t, i), Filled(m, use, r, k, a)
    PROVE  Full(m, use)
<1>1. t \in Frame /\ use[t].kind = "used" /\ use[t].level > 0
  BY DEF At
<1>2. m.word[t] # 0
  BY <1>1, WordsCount DEF Forest
<1>3. \A f : At(use, f, r, k, a) => f = t
  BY PlacesAreApart
<1> QED BY <1>2, <1>3 DEF Full, Filled

\* The walk of map() is a loop over the levels.
LEMMA EnsureUnfolds ==
    ASSUME NEW m, NEW r, NEW a, NEW flags
    PROVE  \E states :
             /\ states[0] = [memory |-> m, table |-> r]
             /\ \A j \in 1..(LEVELS - 1) :
                  states[j] = EnsureStep([kind |-> "ensure", index |-> a, flags |-> flags],
                                         states[j - 1], LEVELS + 1 - j)
             /\ states[LEVELS - 1] = EnsureTables(m, r, a, flags)
<1> DEFINE c == [kind |-> "ensure", index |-> a, flags |-> flags]
           base == [memory |-> m, table |-> r]
           Body(s, k) ==
            IF s.table = NULL \/ a[k] \notin Index THEN [s EXCEPT !.table = NULL]
            ELSE IF IsPresent(s.memory, s.table, a[k])
            THEN [s EXCEPT !.table = s.memory.table[s.table][a[k]].frame]
            ELSE LET new == table_alloc(s.memory)
                 IN  [table |-> new.frame,
                      memory |-> set_entry(new.memory, s.table, a[k], new.frame,
                                           (flags \cap {RW, USER}) \cup {PRESENT})]
<1>1. \A s, k : Do(c, s, k) = Body(s, k)
  BY DEF Do, EnsureStep
<1>2. EnsureTables(m, r, a, flags) = Loop(c, base, FromRoot)
  <2> DEFINE P(f) == f = [s \in SUBSET DOMAIN FromRoot |->
                            IF s = {} THEN base ELSE Body(f[s \ {Max(s)}], FromRoot[Max(s)])]
             Q(f) == f = [s \in SUBSET DOMAIN FromRoot |->
                            IF s = {} THEN base ELSE Do(c, f[s \ {Max(s)}], FromRoot[Max(s)])]
  <2>1. EnsureTables(m, r, a, flags) = (CHOOSE f : P(f))[DOMAIN FromRoot]
    BY Zenon DEF EnsureTables, FoldLeft, MapThenFoldSet
  <2>2. Loop(c, base, FromRoot) = (CHOOSE f : Q(f))[DOMAIN FromRoot]
    BY Zenon DEF Loop, FoldLeft, MapThenFoldSet
  <2>3. \A f : P(f) <=> Q(f)
    <3> HIDE DEF Body, c, base
    <3> QED BY <1>1
  <2>4. (CHOOSE f : P(f)) = (CHOOSE f : Q(f))
    <3> HIDE DEF P, Q
    <3> QED BY <2>3, Zenon
  <2> HIDE DEF P, Q, c, base
  <2> QED BY <2>1, <2>2, <2>4, Zenon
<1>3. FromRoot \in Seq(Int) /\ Len(FromRoot) = LEVELS - 1
      /\ \A j \in 1..(LEVELS - 1) : FromRoot[j] = LEVELS + 1 - j
  BY LevelsFact DEF FromRoot
<1>4. \A s, k : Do(c, s, k) = EnsureStep(c, s, k)
  BY DEF Do
<1> HIDE DEF c, base
<1>5. PICK states : Rounds(states, c, base, FromRoot) /\ states[Len(FromRoot)] = Loop(c, base, FromRoot)
  BY <1>3, LoopUnfolds
<1>6. /\ states[0] = base
      /\ \A j \in 1..(LEVELS - 1) : states[j] = EnsureStep(c, states[j - 1], LEVELS + 1 - j)
      /\ states[LEVELS - 1] = EnsureTables(m, r, a, flags)
  BY <1>2, <1>3, <1>4, <1>5 DEF Rounds
<1> QED BY <1>6 DEF c, base

\* Grown, for two steps.
LEMMA GrownTwice ==
    ASSUME NEW use, NEW middle, NEW other, NEW r, Grown(use, middle, r), Grown(middle, other, r)
    PROVE  Grown(use, other, r)
BY DEF Grown

\* The table of level k on the way to index a below root r is t.
Reached(m, use, pg, roots, r, k, a, t) ==
    /\ Forest(m, use, pg, roots)
    /\ At(use, t, r, k, a) /\ Filled(m, use, r, k, a)

\* One level of the walk: there is a table, or one is added, or no frame is
\* left.
LEMMA EnsureRound ==
    ASSUME NEW c, NEW s, NEW use, NEW pg, NEW roots, NEW r,
           NEW k \in 2..LEVELS, c.index \in Unshared,
           Reached(s.memory, use, pg, roots, r, k, c.index, s.table)
    PROVE  LET n == EnsureStep(c, s, k)
           IN  n.table = NULL \/ \E other :
                 /\ Reached(n.memory, other, pg, roots, r, k - 1, c.index, n.table)
                 /\ Grown(use, other, r) /\ n.memory.data = s.memory.data
<1> DEFINE n == EnsureStep(c, s, k)
           m == s.memory
           t == s.table
           a == c.index
           flags == (c.flags \cap {RW, USER}) \cup {PRESENT}
           Goal(last) ==
             /\ Reached(n.memory, last, pg, roots, r, k - 1, a, n.table)
             /\ Grown(use, last, r) /\ n.memory.data = m.data
<1>1. Forest(m, use, pg, roots) /\ At(use, t, r, k, a) /\ Filled(m, use, r, k, a)
  BY DEF Reached
<1>2. t \in Frame /\ t # NULL /\ a[k] \in Index /\ k > 1 /\ k \in 1..LEVELS /\ a \in Unshared
  <2>1. t \in Frame /\ use[t].kind = "used"
    BY <1>1 DEF At
  <2>2. t # NULL
    BY <1>1, <2>1, ForestFacts
  <2>3. k \in 1..LEVELS /\ k > 1
    BY LevelsFact
  <2> QED BY <2>1, <2>2, <2>3, IndexFacts
<1>3. CASE IsPresent(m, t, a[k])
  <2>1. n.table = m.table[t][a[k]].frame /\ n.memory = m
    BY <1>2, <1>3 DEF EnsureStep
  <2>2. At(use, n.table, r, k - 1, a)
    BY <1>1, <1>2, <1>3, <2>1, PlacesAreApart
  <2>3. Filled(m, use, r, k - 1, a)
    <3>1. Full(m, use)
      BY <1>1, <1>2, <1>3, PresentIsFull
    <3> QED BY <3>1 DEF Full, Filled
  <2>4. Goal(use)
    BY <1>1, <2>1, <2>2, <2>3 DEF Reached, Grown
  <2> QED BY <2>4
<1>4. CASE ~IsPresent(m, t, a[k])
  <2> DEFINE g == table_alloc(m).frame
             other == Placing(use, g, r, k - 1, a)
  <2>1. n.table = g /\ n.memory = set_entry(table_alloc(m).memory, t, a[k], g, flags)
    BY <1>2, <1>4 DEF EnsureStep
  <2>2. CASE g = NULL
    BY <2>1, <2>2
  <2>3. CASE g # NULL
    <3>1. flags \in SUBSET {PRESENT, RW, USER} /\ PRESENT \in flags
      OBVIOUS
    <3> HIDE DEF flags, n, m, t, a
    <3>2. /\ g \in Frame /\ use[g].kind = "free"
          /\ Forest(n.memory, other, pg, roots) /\ n.memory.data = m.data
          /\ Filled(n.memory, other, r, k - 1, a)
      <4>1. LET h == table_alloc(m).frame
                q == set_entry(table_alloc(m).memory, t, a[k], h, flags)
                new == Placing(use, h, r, k - 1, a)
            IN  /\ h \in Frame /\ use[h].kind = "free"
                /\ Forest(q, new, pg, roots)
                /\ q.data = m.data
                /\ q.table[t][a[k]] = [frame |-> h, flags |-> flags]
                /\ Filled(m, use, r, k, a) => Filled(q, new, r, k - 1, a)
        BY <1>1, <1>2, <1>4, <2>3, <3>1, TableAdded
      <4> QED BY <1>1, <2>1, <4>1
    <3>3. use \in [Frame -> Role] /\ r \in Frame /\ k - 1 \in 0..LEVELS /\ a \in Idx /\ k - 1 > 0
      <4>1. r \in Frame /\ use \in [Frame -> Role]
        BY <1>1, ForestFacts DEF At
      <4>2. k - 1 \in 0..LEVELS /\ k - 1 > 0
        BY LevelsFact
      <4> QED BY <4>1, <4>2, <1>2, IndexFacts
    <3>4. /\ \A f \in Frame \ {g} : other[f] = use[f]
          /\ other[g].kind = "used" /\ other[g].root = r /\ other[g].level = k - 1
          /\ other[g].index = a
      BY <3>2, <3>3, PlacingFacts
    <3> HIDE DEF other, g
    <3>5. Grown(use, other, r)
      BY <3>2, <3>3, <3>4 DEF Grown
    <3>6. At(other, g, r, k - 1, a)
      BY <3>2, <3>4, PlaceFacts DEF At
    <3>7. Reached(n.memory, other, pg, roots, r, k - 1, a, n.table)
      BY <2>1, <3>2, <3>6 DEF Reached
    <3>8. \E last :
             /\ Reached(n.memory, last, pg, roots, r, k - 1, a, n.table)
             /\ Grown(use, last, r) /\ n.memory.data = m.data
      BY <3>2, <3>5, <3>7
    <3> QED BY <3>8 DEF n, m, a
  <2> QED BY <2>2, <2>3
<1> QED BY <1>3, <1>4

\* The walk of map() leads to the lowest table on the way to an index, or to
\* NULL where a table could not be allocated.
LEMMA TablesEnsured ==
    ASSUME NEW m, NEW use, NEW pg, NEW roots, Forest(m, use, pg, roots), Full(m, use),
           NEW r \in roots, NEW a \in Unshared, NEW flags
    PROVE  LET n == EnsureTables(m, r, a, flags)
           IN  n.table = NULL \/ \E other :
                 /\ Reached(n.memory, other, pg, roots, r, 1, a, n.table)
                 /\ Grown(use, other, r) /\ n.memory.data = m.data
<1> DEFINE c == [kind |-> "ensure", index |-> a, flags |-> flags]
<1>1. PICK states :
             /\ states[0] = [memory |-> m, table |-> r]
             /\ \A j \in 1..(LEVELS - 1) :
                  states[j] = EnsureStep([kind |-> "ensure", index |-> a, flags |-> flags],
                                         states[j - 1], LEVELS + 1 - j)
             /\ states[LEVELS - 1] = EnsureTables(m, r, a, flags)
  BY EnsureUnfolds
<1> DEFINE Good(j) ==
             states[j].table = NULL \/ \E other :
               /\ Reached(states[j].memory, other, pg, roots, r, LEVELS - j, a, states[j].table)
               /\ Grown(use, other, r) /\ states[j].memory.data = m.data
           holds == {j \in 0..(LEVELS - 1) : Good(j)}
<1>2. 0 \in holds
  <2>1. At(use, r, r, LEVELS, a)
    BY ForestFacts
  <2>2. Filled(m, use, r, LEVELS, a)
    BY FullIsFilled
  <2>3. LEVELS - 0 = LEVELS /\ 0 \in 0..(LEVELS - 1)
    BY LevelsFact
  <2>4. states[0].memory = m /\ states[0].table = r
    BY <1>1
  <2>5. Grown(use, use, r)
    BY DEF Grown
  <2>6. Reached(states[0].memory, use, pg, roots, r, LEVELS - 0, a, states[0].table)
    BY <2>1, <2>2, <2>3, <2>4 DEF Reached
  <2>7. Good(0)
    BY <2>4, <2>5, <2>6
  <2> HIDE DEF Good
  <2> QED BY <2>3, <2>7
<1>3. ASSUME NEW j \in 0..(LEVELS - 2), j \in holds
      PROVE  j + 1 \in holds
  <2>1. /\ j + 1 \in 1..(LEVELS - 1) /\ j + 1 \in 0..(LEVELS - 1) /\ (j + 1) - 1 = j
        /\ LEVELS + 1 - (j + 1) = LEVELS - j /\ LEVELS - j \in 2..LEVELS
        /\ (LEVELS - j) - 1 = LEVELS - (j + 1)
    BY LevelsFact
  <2>2. states[j + 1] = EnsureStep(c, states[j], LEVELS - j)
    BY <1>1, <2>1
  <2>3. c.index = a
    OBVIOUS
  <2> HIDE DEF c
  <2>0. c.index \in Unshared
    BY <2>3
  <2>4. CASE states[j].table = NULL
    <3>1. states[j + 1].table = NULL
      BY <2>2, <2>4 DEF EnsureStep
    <3> QED BY <2>1, <3>1
  <2>5. CASE states[j].table # NULL
    <3>1. PICK other :
             /\ Reached(states[j].memory, other, pg, roots, r, LEVELS - j, a, states[j].table)
             /\ Grown(use, other, r) /\ states[j].memory.data = m.data
      BY <1>3, <2>5
    <3>2. states[j + 1].table = NULL \/ \E last :
                 /\ Reached(states[j + 1].memory, last, pg, roots, r, (LEVELS - j) - 1, a, states[j + 1].table)
                 /\ Grown(other, last, r) /\ states[j + 1].memory.data = states[j].memory.data
      <4>1. Reached(states[j].memory, other, pg, roots, r, LEVELS - j, c.index, states[j].table)
        BY <2>3, <3>1
      <4>2. LET n == EnsureStep(c, states[j], LEVELS - j)
            IN  n.table = NULL \/ \E last :
                 /\ Reached(n.memory, last, pg, roots, r, (LEVELS - j) - 1, c.index, n.table)
                 /\ Grown(other, last, r) /\ n.memory.data = states[j].memory.data
        BY <2>0, <2>1, <4>1, EnsureRound
      <4> QED BY <2>2, <2>3, <4>2
    <3>3. Good(j + 1)
      BY <2>1, <3>1, <3>2, GrownTwice
    <3> HIDE DEF Good
    <3> QED BY <2>1, <3>3
  <2> QED BY <2>4, <2>5
<1>4. LEVELS - 1 \in holds
  <2> HIDE DEF holds
  <2>1. LEVELS - 1 \in Nat /\ (LEVELS - 1) - 1 = LEVELS - 2 /\ LEVELS - 1 \in 0..(LEVELS - 1)
    BY LevelsFact
  <2>2. \A j \in 0..(LEVELS - 1) : j \in holds
    BY <1>2, <1>3, <2>1, PositionInduction
  <2> QED BY <2>1, <2>2
<1>5. LEVELS - (LEVELS - 1) = 1
  BY LevelsFact
<1>6. Good(LEVELS - 1)
  BY <1>4
<1> QED BY <1>1, <1>5, <1>6

-----------------------------------------------------------------------------
(* The recursive functions.                                                *)

\* f is what n steps from base give.
Steps(f, n, V, base, next) ==
    f \in [0..n -> V] /\ f[0] = base /\ \A k \in 1..n : f[k] = next[k][f[k - 1]]

\* A finite recursion defines a function. The prover has no theorem of the
\* library for it (they take the step as an operator); this one, about
\* functions, is enough for Span, IndexOf, PageAt and Walk.
LEMMA PrimitiveRecursion ==
    ASSUME NEW n \in Nat, NEW V, NEW base \in V, NEW next \in [1..n -> [V -> V]]
    PROVE  \E f : Steps(f, n, V, base, next)
<1> DEFINE Follows(f, j) == f \in [0..j -> V] /\ f[0] = base /\ \A k \in 1..j : f[k] = next[k][f[k - 1]]
           holds == {j \in 0..n : \E f : Follows(f, j)}
<1>1. 0 \in holds
  <2>1. Follows([k \in 0..0 |-> base], 0)
    OBVIOUS
  <2>2. \E f : Follows(f, 0)
    BY <2>1
  <2> HIDE DEF Follows
  <2> QED BY <2>2
<1>2. ASSUME NEW j \in 0..(n - 1), j \in holds
      PROVE  j + 1 \in holds
  <2>1. PICK f : Follows(f, j)
    BY <1>2
  <2> DEFINE g == [k \in 0..(j + 1) |-> IF k = j + 1 THEN next[j + 1][f[j]] ELSE f[k]]
  <2>2. j \in Nat /\ j + 1 \in 1..n /\ j + 1 \in 0..n /\ (j + 1) - 1 = j
    OBVIOUS
  <2>3. next[j + 1][f[j]] \in V
    <3>1. f[j] \in V
      BY <2>1, <2>2
    <3> QED BY <2>2, <3>1
  <2>4. g \in [0..(j + 1) -> V]
    BY <2>1, <2>2, <2>3
  <2>5. \A k \in 0..j : g[k] = f[k]
    BY <2>2
  <2>6. g[j + 1] = next[j + 1][f[j]]
    BY <2>2
  <2> HIDE DEF g
  <2>7. ASSUME NEW k \in 1..(j + 1) PROVE g[k] = next[k][g[k - 1]]
    <3>1. CASE k = j + 1
      <4>1. g[k - 1] = f[j]
        BY <2>2, <2>5, <3>1
      <4> QED BY <2>6, <3>1, <4>1
    <3>2. CASE k # j + 1
      <4>1. k \in 1..j /\ k - 1 \in 0..j /\ k \in 0..j
        BY <2>2, <3>2
      <4> QED BY <2>1, <2>5, <4>1
    <3> QED BY <3>1, <3>2
  <2>8. g[0] = base
    BY <2>1, <2>2, <2>5
  <2>9. Follows(g, j + 1)
    BY <2>4, <2>7, <2>8
  <2> HIDE DEF Follows
  <2> QED BY <2>2, <2>9
<1>3. \A k \in 0..n : k \in holds
  <2> HIDE DEF holds
  <2> QED BY <1>1, <1>2, PositionInduction
<1>4. PICK f : Follows(f, n)
  BY <1>3
<1> QED BY <1>4 DEF Steps

\* The recursion of Span.
LEMMA SpanFacts ==
    /\ Span \in [0..LEVELS -> Nat \ {0}]
    /\ Span[0] = 1
    /\ \A k \in 1..LEVELS : Span[k] = ENTRIES * Span[k - 1]
<1> DEFINE next == [k \in 1..LEVELS |-> [v \in Nat \ {0} |-> ENTRIES * v]]
<1>1. next \in [1..LEVELS -> [Nat \ {0} -> Nat \ {0}]]
  <2>1. \A v \in Nat \ {0} : ENTRIES * v \in Nat \ {0}
    BY LevelsFact
  <2> QED BY <2>1
<1>2. \A v \in Nat \ {0}, k \in 1..LEVELS : next[k][v] = ENTRIES * v
  OBVIOUS
<1>3. LEVELS \in Nat /\ 1 \in Nat \ {0}
  BY LevelsFact
<1> HIDE DEF next
<1>4. PICK f \in [0..LEVELS -> Nat \ {0}] : f[0] = 1 /\ \A k \in 1..LEVELS : f[k] = next[k][f[k - 1]]
  <2>1. \E f : Steps(f, LEVELS, Nat \ {0}, 1, next)
    BY <1>1, <1>3, PrimitiveRecursion
  <2> QED BY <2>1 DEF Steps
<1>5. \A k \in 1..LEVELS : f[k] = ENTRIES * f[k - 1]
  <2> SUFFICES ASSUME NEW k \in 1..LEVELS PROVE f[k] = ENTRIES * f[k - 1]
    OBVIOUS
  <2>1. k - 1 \in 0..LEVELS
    BY LevelsFact
  <2> QED BY <1>2, <1>4, <2>1
<1>6. f = [k \in 0..LEVELS |-> IF k = 0 THEN 1 ELSE ENTRIES * f[k - 1]]
  <2>1. \A k \in 0..LEVELS : f[k] = IF k = 0 THEN 1 ELSE ENTRIES * f[k - 1]
    BY <1>3, <1>4, <1>5
  <2>2. f = [k \in 0..LEVELS |-> f[k]]
    OBVIOUS
  <2> QED BY <2>1, <2>2
<1> DEFINE P(g) == g = [k \in 0..LEVELS |-> IF k = 0 THEN 1 ELSE ENTRIES * g[k - 1]]
<1>7. P(Span)
  <2>1. \E g : P(g)
    BY <1>6
  <2>2. Span = CHOOSE g : P(g)
    BY Zenon DEF Span
  <2> HIDE DEF P
  <2> QED BY <2>1, <2>2
<1>8. Span[0] = 1 /\ \A k \in 1..LEVELS : Span[k] = ENTRIES * Span[k - 1]
  BY <1>3, <1>7
<1> DEFINE holds == {k \in 0..LEVELS : Span[k] \in Nat \ {0}}
<1>9. 0 \in holds
  BY <1>3, <1>8
<1>10. ASSUME NEW k \in 0..(LEVELS - 1), k \in holds PROVE k + 1 \in holds
  <2>1. k + 1 \in 1..LEVELS /\ (k + 1) - 1 = k /\ k + 1 \in 0..LEVELS
    BY <1>3
  <2>2. Span[k + 1] = ENTRIES * Span[k] /\ Span[k] \in Nat \ {0}
    BY <1>8, <1>10, <2>1
  <2>3. Span[k + 1] \in Nat \ {0}
    BY <2>2, LevelsFact
  <2> QED BY <2>1, <2>3
<1>11. \A k \in 0..LEVELS : k \in holds
  <2> HIDE DEF holds
  <2> QED BY <1>3, <1>9, <1>10, PositionInduction
<1>12. Span \in [0..LEVELS -> Nat \ {0}]
  BY <1>7, <1>11
<1> QED BY <1>8, <1>12

\* Quotient and remainder are unique.
LEMMA DivUnique ==
    ASSUME NEW p \in Int, NEW n \in Nat \ {0}, NEW q \in Int, NEW r \in Int,
           p = q * n + r, 0 <= r, r < n
    PROVE  p % n = r /\ p \div n = q
<1> DEFINE d == p \div n
           e == p % n
<1>1. p = n * d + e /\ d \in Int /\ e \in Int /\ 0 <= e /\ e < n
  OBVIOUS
<1> HIDE DEF d, e
<1>2. n * (q - d) = e - r
  BY <1>1
<1>3. \A x \in Int : x >= 1 => n * x >= n
  OBVIOUS
<1>4. \A x \in Int : x <= -1 => n * x <= -n
  OBVIOUS
<1>5. q - d = 0
  <2> DEFINE x == q - d
  <2>1. x \in Int /\ n * x = e - r
    BY <1>1, <1>2
  <2> HIDE DEF x
  <2>2. ~(x >= 1) /\ ~(x <= -1)
    BY <1>1, <1>3, <1>4, <2>1
  <2>3. x = 0
    BY <2>1, <2>2
  <2> QED BY <2>3 DEF x
<1>6. q = d
  BY <1>1, <1>5
<1>7. e = r
  BY <1>1, <1>6
<1> QED BY <1>6, <1>7 DEF d, e

-----------------------------------------------------------------------------
(* Pages and their indexes.                                                *)

\* The indexes of a page are in range.
LEMMA IndexOfType ==
    ASSUME NEW page \in Nat
    PROVE  /\ IndexOf(page) \in Idx
           /\ \A k \in 1..LEVELS : IndexOf(page)[k] = (page \div Span[k - 1]) % ENTRIES
<1>1. \A k \in 1..LEVELS : Span[k - 1] \in Nat \ {0}
  <2>1. \A k \in 1..LEVELS : k - 1 \in 0..LEVELS
    BY LevelsFact
  <2> QED BY <2>1, SpanFacts
<1>2. \A k \in 1..LEVELS : (page \div Span[k - 1]) % ENTRIES \in Index
  <2> SUFFICES ASSUME NEW k \in 1..LEVELS PROVE (page \div Span[k - 1]) % ENTRIES \in Index
    OBVIOUS
  <2> DEFINE s == Span[k - 1]
  <2>1. s \in Nat \ {0}
    BY <1>1
  <2> HIDE DEF s
  <2>2. page \div s \in Int
    BY <2>1
  <2>3. \A q \in Int : q % ENTRIES \in 0..(ENTRIES - 1)
    BY LevelsFact
  <2> QED BY <2>2, <2>3 DEF Index, s
<1> QED BY <1>2 DEF IndexOf, Idx

\* The recursion of PageAt.
LEMMA SumFacts ==
    ASSUME NEW a \in Idx
    PROVE  \E sum : /\ sum \in [0..LEVELS -> Int] /\ sum[0] = 0 /\ sum[LEVELS] = PageAt(a)
                    /\ \A k \in 1..LEVELS : sum[k] = sum[k - 1] + a[k] * Span[k - 1]
<1> DEFINE next == [k \in 1..LEVELS |-> [v \in Int |-> v + a[k] * Span[k - 1]]]
           P(g) == g = [k \in 0..LEVELS |-> IF k = 0 THEN 0 ELSE g[k - 1] + a[k] * Span[k - 1]]
<1>1. LEVELS \in Nat /\ 0 \in Int
  BY LevelsFact
<1>2. \A k \in 1..LEVELS : a[k] * Span[k - 1] \in Int
  <2> SUFFICES ASSUME NEW k \in 1..LEVELS PROVE a[k] * Span[k - 1] \in Int
    OBVIOUS
  <2>1. k - 1 \in 0..LEVELS /\ a[k] \in Int
    BY LevelsFact DEF Idx, Index
  <2>2. Span[k - 1] \in Int
    BY <2>1, SpanFacts
  <2> QED BY <2>1, <2>2
<1>3. next \in [1..LEVELS -> [Int -> Int]]
  BY <1>2
<1>4. \A k \in 1..LEVELS : \A v \in Int : next[k][v] = v + a[k] * Span[k - 1]
  OBVIOUS
<1> HIDE DEF next
<1>5. PICK f : Steps(f, LEVELS, Int, 0, next)
  BY <1>1, <1>3, PrimitiveRecursion
<1>6. \A k \in 1..LEVELS : f[k] = f[k - 1] + a[k] * Span[k - 1]
  <2> SUFFICES ASSUME NEW k \in 1..LEVELS PROVE f[k] = f[k - 1] + a[k] * Span[k - 1]
    OBVIOUS
  <2>1. k - 1 \in 0..LEVELS
    BY LevelsFact
  <2>2. f[k - 1] \in Int /\ f[k] = next[k][f[k - 1]]
    BY <1>5, <2>1 DEF Steps
  <2> QED BY <1>4, <2>2
<1>7. P(f)
  <2>1. \A k \in 0..LEVELS : f[k] = IF k = 0 THEN 0 ELSE f[k - 1] + a[k] * Span[k - 1]
    BY <1>1, <1>5, <1>6 DEF Steps
  <2>2. f = [k \in 0..LEVELS |-> f[k]]
    BY <1>5 DEF Steps
  <2> QED BY <2>1, <2>2
<1> DEFINE sum == CHOOSE g : P(g)
<1>8. P(sum)
  <2>1. \E g : P(g)
    BY <1>7
  <2> HIDE DEF P
  <2> QED BY <2>1
<1>9. PageAt(a) = sum[LEVELS]
  BY Zenon DEF PageAt
<1> HIDE DEF sum
<1>10. sum[0] = 0 /\ DOMAIN sum = 0..LEVELS /\ \A k \in 1..LEVELS : sum[k] = sum[k - 1] + a[k] * Span[k - 1]
  BY <1>1, <1>8
<1> DEFINE holds == {k \in 0..LEVELS : sum[k] \in Int}
<1>11. 0 \in holds
  BY <1>1, <1>10
<1>12. ASSUME NEW k \in 0..(LEVELS - 1), k \in holds PROVE k + 1 \in holds
  <2>1. k + 1 \in 1..LEVELS /\ (k + 1) - 1 = k /\ k + 1 \in 0..LEVELS
    BY <1>1
  <2>2. sum[k + 1] = sum[k] + a[k + 1] * Span[k] /\ a[k + 1] * Span[k] \in Int
    BY <1>2, <1>10, <2>1
  <2>3. sum[k + 1] \in Int
    BY <1>12, <2>2
  <2> QED BY <2>1, <2>3
<1>13. \A k \in 0..LEVELS : k \in holds
  <2> HIDE DEF holds
  <2> QED BY <1>1, <1>11, <1>12, PositionInduction
<1>14. sum \in [0..LEVELS -> Int]
  <2>1. sum = [k \in 0..LEVELS |-> sum[k]]
    BY <1>8
  <2> QED BY <1>13, <2>1
<1> QED BY <1>9, <1>10, <1>14

\* The indexes of a page lead back to the page.
LEMMA PageAtIndexOf ==
    ASSUME NEW page \in Page
    PROVE  PageAt(IndexOf(page)) = page
<1> DEFINE a == IndexOf(page)
<1>1. page \in Nat /\ LEVELS \in 0..LEVELS /\ page < Span[LEVELS] /\ LEVELS \in Nat
  <2>1. LEVELS \in 0..LEVELS /\ LEVELS \in Nat
    BY LevelsFact
  <2>2. Span[LEVELS] \in Nat
    BY <2>1, SpanFacts
  <2> QED BY <2>1, <2>2 DEF Page
<1>2. a \in Idx /\ \A k \in 1..LEVELS : a[k] = (page \div Span[k - 1]) % ENTRIES
  BY <1>1, IndexOfType
<1> HIDE DEF a
<1>3. PICK sum : /\ sum \in [0..LEVELS -> Int] /\ sum[0] = 0 /\ sum[LEVELS] = PageAt(a)
                 /\ \A k \in 1..LEVELS : sum[k] = sum[k - 1] + a[k] * Span[k - 1]
  BY <1>2, SumFacts
<1> DEFINE holds == {k \in 0..LEVELS : sum[k] = page % Span[k]}
<1>4. 0 \in holds
  <2>1. page % 1 = 0
    BY <1>1, DivUnique
  <2> QED BY <1>1, <1>3, <2>1, SpanFacts
<1>5. ASSUME NEW k \in 0..(LEVELS - 1), k \in holds PROVE k + 1 \in holds
  <2>1. k + 1 \in 1..LEVELS /\ (k + 1) - 1 = k /\ k + 1 \in 0..LEVELS /\ k \in 0..LEVELS
    BY <1>1
  <2> DEFINE s == Span[k]
             q == page \div s
             r == page % s
             d == q % ENTRIES
             e == q \div ENTRIES
  <2>2. s \in Nat \ {0} /\ Span[k + 1] = ENTRIES * s
    BY <2>1, SpanFacts
  <2> HIDE DEF s
  <2>3. page = s * q + r /\ q \in Int /\ r \in Int /\ 0 <= r /\ r < s
    BY <1>1, <2>2
  <2>4. sum[k + 1] = r + d * s
    <3>1. sum[k + 1] = sum[k] + a[k + 1] * Span[k] /\ a[k + 1] = (page \div Span[k]) % ENTRIES
      BY <1>2, <1>3, <2>1
    <3>2. sum[k] = r
      BY <1>5 DEF s
    <3> QED BY <3>1, <3>2 DEF s
  <2> HIDE DEF q, r
  <2>5. q = ENTRIES * e + d /\ e \in Int /\ d \in Int /\ 0 <= d /\ d <= ENTRIES - 1
    BY <2>3, LevelsFact
  <2> HIDE DEF d, e
  <2>6. ENTRIES * s \in Nat \ {0} /\ ENTRIES \in Nat /\ s \in Nat
    BY <2>2, LevelsFact
  <2>7. d * s + r \in Int /\ 0 <= d * s + r /\ d * s + r < ENTRIES * s
    <3>1. d * s \in Int /\ 0 <= d * s
      BY <2>5, <2>6
    <3>2. d * s <= (ENTRIES - 1) * s
      <4>1. \A x \in Nat : x * s >= 0
        BY <2>6
      <4>2. (ENTRIES - 1) - d \in Nat
        BY <2>5, <2>6
      <4>3. ((ENTRIES - 1) - d) * s >= 0
        BY <4>1, <4>2
      <4>4. ((ENTRIES - 1) - d) * s = (ENTRIES - 1) * s - d * s
        BY <2>5, <2>6
      <4>5. (ENTRIES - 1) * s \in Int
        BY <2>6
      <4> QED BY <3>1, <4>3, <4>4, <4>5
    <3>3. (ENTRIES - 1) * s = ENTRIES * s - s
      BY <2>6
    <3> QED BY <2>3, <2>6, <3>1, <3>2, <3>3
  <2>8. page = e * (ENTRIES * s) + (d * s + r)
    <3>1. s * q = s * (ENTRIES * e) + s * d
      BY <2>5, <2>6
    <3>2. s * (ENTRIES * e) = e * (ENTRIES * s)
      BY <2>5, <2>6
    <3>3. s * d = d * s
      BY <2>5, <2>6
    <3>4. s * d \in Int /\ e * (ENTRIES * s) \in Int
      BY <2>5, <2>6
    <3> QED BY <2>3, <3>1, <3>2, <3>3, <3>4
  <2>9. page % (ENTRIES * s) = d * s + r
    <3> DEFINE n == ENTRIES * s
               t == d * s + r
    <3>1. page \in Int /\ n \in Nat \ {0} /\ e \in Int /\ t \in Int /\ page = e * n + t /\ 0 <= t /\ t < n
      BY <1>1, <2>5, <2>6, <2>7, <2>8
    <3> HIDE DEF n, t
    <3>2. page % n = t
      BY <3>1, DivUnique
    <3> QED BY <3>2 DEF n, t
  <2>10. d * s + r = r + d * s
    BY <2>3, <2>5, <2>6
  <2> QED BY <2>1, <2>2, <2>4, <2>9, <2>10
<1>6. \A k \in 0..LEVELS : k \in holds
  <2> HIDE DEF holds
  <2> QED BY <1>1, <1>4, <1>5, PositionInduction
<1>7. sum[LEVELS] = page % Span[LEVELS]
  BY <1>1, <1>6
<1>8. page % Span[LEVELS] = page
  <2> DEFINE n == Span[LEVELS]
  <2>1. n \in Nat \ {0} /\ page < n
    BY <1>1, SpanFacts
  <2> HIDE DEF n
  <2>2. page = 0 * n + page
    BY <1>1, <2>1
  <2>3. page % n = page
    BY <1>1, <2>1, <2>2, DivUnique
  <2> QED BY <2>3 DEF n
<1> QED BY <1>3, <1>7, <1>8 DEF a

\* No two pages have the same indexes.
LEMMA IndexesApart ==
    ASSUME NEW page \in Page, NEW other \in Page, IndexOf(page) = IndexOf(other)
    PROVE  page = other
BY PageAtIndexOf

\* The pages from 0x8000000000 on are outside the part shared with the kernel.
LEMMA UnsharedPages ==
    ASSUME NEW page \in Page, page >= Span[LEVELS - 1]
    PROVE  IndexOf(page) \in Unshared
<1> DEFINE s == Span[LEVELS - 1]
           q == page \div s
           r == page % s
<1>1. LEVELS \in 1..LEVELS /\ LEVELS - 1 \in 0..LEVELS /\ LEVELS \in 0..LEVELS
  BY LevelsFact
<1>2. s \in Nat \ {0} /\ Span[LEVELS] = ENTRIES * s /\ Span[LEVELS] \in Nat
  BY <1>1, SpanFacts
<1>3. page \in Nat /\ page < ENTRIES * s /\ page >= s
  BY <1>2 DEF Page
<1> HIDE DEF s
<1>4. page = s * q + r /\ q \in Int /\ r \in Int /\ 0 <= r /\ r < s
  BY <1>2, <1>3
<1> HIDE DEF q, r
<1>5. q >= 1
  <2>1. \A x \in Int : x <= 0 => s * x <= 0
    BY <1>2
  <2> QED BY <1>2, <1>3, <1>4, <2>1
<1>6. q <= ENTRIES - 1
  <2>1. \A x \in Int : x >= 0 => s * x >= 0
    BY <1>2
  <2>2. s * (q - ENTRIES) = s * q - ENTRIES * s /\ ENTRIES * s \in Int /\ s * q \in Int
    BY <1>2, <1>4, LevelsFact
  <2>3. ~(q - ENTRIES >= 0)
    <3> DEFINE x == q - ENTRIES
    <3>1. x \in Int /\ s * x = s * q - ENTRIES * s
      BY <1>4, <2>2, LevelsFact
    <3> HIDE DEF x
    <3>2. s * x < 0
      <4> DEFINE u == s * q
                 v == ENTRIES * s
      <4>1. page \in Int /\ u \in Int /\ v \in Int /\ page = u + r /\ page < v /\ s * x = u - v
        BY <1>3, <1>4, <2>2, <3>1
      <4> HIDE DEF u, v
      <4>2. r \in Int /\ 0 <= r
        BY <1>4
      <4>3. u - v < 0
        BY <4>1, <4>2
      <4>4. s \in Int /\ x \in Int
        BY <1>2, <3>1
      <4> QED BY <4>1, <4>3, <4>4
    <3>3. ~(x >= 0)
      <4>1. s \in Int /\ x \in Int /\ (x >= 0 => s * x >= 0)
        BY <1>2, <2>1, <3>1
      <4>2. s * x \in Int
        BY <4>1
      <4> QED BY <3>2, <4>1, <4>2
    <3> QED BY <3>3 DEF x
  <2> QED BY <1>4, <2>3, LevelsFact
<1>7. q % ENTRIES = q
  BY <1>4, <1>5, <1>6, LevelsFact
<1>8. IndexOf(page) \in Idx /\ IndexOf(page)[LEVELS] = q % ENTRIES
  BY <1>1, <1>3, IndexOfType DEF q, s
<1> QED BY <1>5, <1>4, <1>7, <1>8 DEF Unshared

\* The first round of a loop is at the page where the region begins.
LEMMA FirstIndex ==
    ASSUME NEW page \in Nat
    PROVE  LoopIndex(page, 0) = IndexOf(page)
<1>1. IndexOf(page) \in Idx
  BY IndexOfType
<1>2. ASSUME NEW k \in 1..LEVELS PROVE LoopIndex(page, 0)[k] = IndexOf(page)[k]
  <2> DEFINE i == IndexOf(page)[k]
             s == Span[k - 1]
  <2>1. i \in Int /\ 0 <= i /\ i <= ENTRIES - 1
    BY <1>1, LevelsFact DEF Idx, Index
  <2>2. s \in Nat \ {0}
    <3>1. k - 1 \in 0..LEVELS
      BY LevelsFact
    <3> QED BY <3>1, SpanFacts
  <2> HIDE DEF i, s
  <2>3. 0 \div s = 0
    <3>1. 0 = 0 * s + 0
      BY <2>2
    <3> QED BY <2>2, <3>1, DivUnique
  <2>4. i % ENTRIES = i
    BY <2>1, LevelsFact
  <2>5. i + 0 = i
    BY <2>1
  <2> QED BY <2>3, <2>4, <2>5 DEF LoopIndex, i, s
<1> QED BY <1>1, <1>2 DEF LoopIndex, Idx

-----------------------------------------------------------------------------
(* The walk down the tables.                                               *)

\* The recursion of Walk.
LEMMA WalkSteps ==
    ASSUME NEW m \in Memory, NEW r \in Frame, NEW a \in Idx
    PROVE  /\ Walk(m, r, a)[LEVELS] = r
           /\ \A k \in 1..(LEVELS - 1) :
                LET above == Walk(m, r, a)[k + 1]
                IN  Walk(m, r, a)[k] =
                      IF above = NULL \/ ~IsPresent(m, above, a[k + 1]) THEN NULL
                      ELSE m.table[above][a[k + 1]].frame
<1> DEFINE n == LEVELS - 1
           Under(above, k) == IF above = NULL \/ ~IsPresent(m, above, a[k + 1]) THEN NULL
                              ELSE m.table[above][a[k + 1]].frame
           next == [j \in 1..n |-> [f \in Frame |-> Under(f, LEVELS - j)]]
           P(g) == g = [k \in 1..LEVELS |->
                          IF k = LEVELS THEN r
                          ELSE LET above == g[k + 1]
                               IN  IF above = NULL \/ ~IsPresent(m, above, a[k + 1]) THEN NULL
                                   ELSE m.table[above][a[k + 1]].frame]
<1>1. n \in Nat /\ LEVELS \in Nat /\ n = LEVELS - 1
  BY LevelsFact
<1> HIDE DEF n
<1>2. ASSUME NEW f \in Frame, NEW k \in 1..n PROVE Under(f, k) \in Frame
  <2>1. k + 1 \in 1..LEVELS /\ a[k + 1] \in Index
    BY <1>1 DEF Idx
  <2> QED BY <2>1, MemoryFields, FrameIsFinite
<1>3. next \in [1..n -> [Frame -> Frame]]
  <2>1. \A j \in 1..n : LEVELS - j \in 1..n
    BY <1>1
  <2> HIDE DEF Under
  <2> QED BY <1>2, <2>1
<1>4. \A j \in 1..n : \A f \in Frame : next[j][f] = Under(f, LEVELS - j)
  OBVIOUS
<1> HIDE DEF next, Under
<1>5. PICK f : Steps(f, n, Frame, r, next)
  BY <1>1, <1>3, PrimitiveRecursion
<1> DEFINE g == [k \in 1..LEVELS |-> f[LEVELS - k]]
<1>6. ASSUME NEW k \in 1..LEVELS
      PROVE  g[k] = IF k = LEVELS THEN r ELSE Under(g[k + 1], k)
  <2>1. CASE k = LEVELS
    <3>1. LEVELS - k = 0
      BY <1>1, <2>1
    <3> QED BY <1>5, <2>1, <3>1 DEF Steps
  <2>2. CASE k # LEVELS
    <3> DEFINE j == LEVELS - k
    <3>1. j \in 1..n /\ j - 1 \in 0..n /\ k + 1 \in 1..LEVELS /\ LEVELS - (k + 1) = j - 1 /\ LEVELS - j = k
      BY <1>1, <2>2
    <3>2. g[k] = f[j] /\ g[k + 1] = f[j - 1]
      BY <3>1
    <3> HIDE DEF j, g
    <3>3. f[j] = next[j][f[j - 1]] /\ f[j - 1] \in Frame
      BY <1>5, <3>1 DEF Steps
    <3>4. next[j][f[j - 1]] = Under(f[j - 1], k)
      BY <1>4, <3>1, <3>3
    <3> QED BY <2>2, <3>2, <3>3, <3>4
  <2> QED BY <2>1, <2>2
<1>7. P(g)
  <2>1. g = [k \in 1..LEVELS |-> g[k]]
    OBVIOUS
  <2> HIDE DEF g
  <2>2. g = [k \in 1..LEVELS |-> IF k = LEVELS THEN r ELSE Under(g[k + 1], k)]
    BY <1>6, <2>1
  <2> QED BY <2>2 DEF Under
<1>8. P(Walk(m, r, a))
  <2>1. \E h : P(h)
    BY <1>7
  <2>2. Walk(m, r, a) = CHOOSE h : P(h)
    BY Zenon DEF Walk
  <2> HIDE DEF P
  <2> QED BY <2>1, <2>2
<1> DEFINE w == Walk(m, r, a)
<1> HIDE DEF w
<1>9. P(w)
  BY <1>8 DEF w
<1>10. w[LEVELS] = r
  <2>1. LEVELS \in 1..LEVELS
    BY LevelsFact
  <2> QED BY <1>9, <2>1
<1>11. ASSUME NEW k \in 1..(LEVELS - 1) PROVE w[k] = Under(w[k + 1], k)
  <2>1. k \in 1..LEVELS /\ k # LEVELS
    BY <1>1
  <2> QED BY <1>9, <2>1 DEF Under
<1> QED BY <1>10, <1>11 DEF w, Under

\* The walk down the tables finds at each level the table that is there.
LEMMA WalkFacts ==
    ASSUME NEW m, NEW use, NEW pg, NEW roots, Forest(m, use, pg, roots),
           NEW r \in roots, NEW a \in Unshared
    PROVE  \A k \in 1..LEVELS :
             IF Walk(m, r, a)[k] = NULL THEN \A f : ~At(use, f, r, k, a)
             ELSE At(use, Walk(m, r, a)[k], r, k, a)
<1> DEFINE w == Walk(m, r, a)
           Good(k) == IF w[k] = NULL THEN \A f : ~At(use, f, r, k, a) ELSE At(use, w[k], r, k, a)
<1>1. m \in Memory /\ r \in Frame /\ a \in Idx /\ At(use, r, r, LEVELS, a) /\ r # NULL
  BY ForestFacts, RootFacts, IndexFacts
<1>2. /\ w[LEVELS] = r
      /\ \A k \in 1..(LEVELS - 1) :
           w[k] = IF w[k + 1] = NULL \/ ~IsPresent(m, w[k + 1], a[k + 1]) THEN NULL
                  ELSE m.table[w[k + 1]][a[k + 1]].frame
  BY <1>1, WalkSteps
<1> HIDE DEF w
<1>3. LEVELS \in Nat /\ LEVELS >= 2
  BY LevelsFact
<1>4. ASSUME NEW k \in 1..(LEVELS - 1), Good(k + 1) PROVE Good(k)
  <2>1. k + 1 \in 1..LEVELS /\ k + 1 > 1 /\ (k + 1) - 1 = k /\ k < LEVELS
    BY <1>3
  <2>2. CASE w[k + 1] = NULL
    <3>1. w[k] = NULL
      BY <1>2, <2>2
    <3>2. \A f : ~At(use, f, r, k, a)
      BY <1>4, <2>1, <2>2, PlacesAreApart
    <3> QED BY <3>1, <3>2
  <2>3. CASE w[k + 1] # NULL /\ ~IsPresent(m, w[k + 1], a[k + 1])
    <3>1. w[k] = NULL /\ At(use, w[k + 1], r, k + 1, a)
      BY <1>2, <1>4, <2>3
    <3>2. \A f : ~At(use, f, r, k, a)
      BY <2>1, <2>3, <3>1, PlacesAreApart
    <3> QED BY <3>1, <3>2
  <2>4. CASE w[k + 1] # NULL /\ IsPresent(m, w[k + 1], a[k + 1])
    <3>1. w[k] = m.table[w[k + 1]][a[k + 1]].frame /\ At(use, w[k + 1], r, k + 1, a)
      BY <1>2, <1>4, <2>4
    <3>2. At(use, w[k], r, k, a)
      <4>1. \A f : At(use, f, r, k + 1, a) /\ k + 1 > 1 /\ IsPresent(m, f, a[k + 1]) =>
                  At(use, m.table[f][a[k + 1]].frame, r, (k + 1) - 1, a)
        BY PlacesAreApart
      <4> QED BY <2>1, <2>4, <3>1, <4>1
    <3>3. w[k] # NULL
      BY <3>2, ForestFacts DEF At
    <3> QED BY <3>2, <3>3
  <2> QED BY <2>2, <2>3, <2>4
<1> DEFINE holds == {j \in 0..(LEVELS - 1) : Good(LEVELS - j)}
<1>5. 0 \in holds
  <2>1. LEVELS - 0 = LEVELS /\ 0 \in 0..(LEVELS - 1)
    BY <1>3
  <2>2. Good(LEVELS)
    BY <1>1, <1>2
  <2> HIDE DEF Good
  <2> QED BY <2>1, <2>2
<1>6. ASSUME NEW j \in 0..(LEVELS - 2), j \in holds PROVE j + 1 \in holds
  <2>1. /\ LEVELS - (j + 1) \in 1..(LEVELS - 1) /\ (LEVELS - (j + 1)) + 1 = LEVELS - j
        /\ j + 1 \in 0..(LEVELS - 1)
    BY <1>3
  <2> HIDE DEF Good
  <2>2. Good(LEVELS - j)
    BY <1>6
  <2> QED BY <1>4, <2>1, <2>2
<1>7. \A j \in 0..(LEVELS - 1) : j \in holds
  <2> HIDE DEF holds
  <2>1. LEVELS - 1 \in Nat /\ (LEVELS - 1) - 1 = LEVELS - 2
    BY <1>3
  <2> QED BY <1>5, <1>6, <2>1, PositionInduction
<1>8. \A k \in 1..LEVELS : Good(k)
  <2> SUFFICES ASSUME NEW k \in 1..LEVELS PROVE Good(k)
    OBVIOUS
  <2>1. LEVELS - k \in 0..(LEVELS - 1) /\ LEVELS - (LEVELS - k) = k
    BY <1>3
  <2> HIDE DEF Good
  <2> QED BY <1>7, <2>1
<1> QED BY <1>8 DEF w

\* What is mapped at an index is what the walk finds there.
LEMMA MappedFacts ==
    ASSUME NEW m, NEW use, NEW pg, NEW roots, Forest(m, use, pg, roots),
           NEW r \in roots, NEW a \in Unshared
    PROVE  LET t == Walk(m, r, a)[1]
           IN  /\ t # NULL => At(use, t, r, 1, a) /\ pg[r][a] = m.table[t][a[1]]
               /\ pg[r][a] # Absent <=> t # NULL /\ IsPresent(m, t, a[1])
               /\ pg[r][a] # Absent <=> PRESENT \in pg[r][a].flags
<1> DEFINE t == Walk(m, r, a)[1]
<1>1. IF t = NULL THEN \A f : ~At(use, f, r, 1, a) ELSE At(use, t, r, 1, a)
  <2>1. 1 \in 1..LEVELS
    BY LevelsFact
  <2> QED BY <2>1, WalkFacts
<1> HIDE DEF t
<1>2. r \in Frame /\ a[1] \in Index
  <2>1. 1 \in 1..LEVELS
    BY LevelsFact
  <2> QED BY <2>1, RootFacts, IndexFacts
<1>3. Absent.flags = {} /\ PRESENT \notin Absent.flags
  BY DEF Absent
<1>4. CASE t = NULL
  <2>1. pg[r][a] = Absent
    BY <1>1, <1>2, <1>4 DEF Forest, Leaves
  <2> QED BY <1>3, <1>4, <2>1 DEF t
<1>5. CASE t # NULL
  <2>1. At(use, t, r, 1, a)
    BY <1>1, <1>5
  <2>2. pg[r][a] = m.table[t][a[1]]
    BY <2>1 DEF Forest, Leaves, At
  <2>3. ~IsPresent(m, t, a[1]) => m.table[t][a[1]] = Absent
    BY <1>2, <2>1 DEF Forest, Counts, At
  <2>4. IsPresent(m, t, a[1]) <=> PRESENT \in pg[r][a].flags
    BY <2>2 DEF IsPresent
  <2> QED BY <1>3, <1>5, <2>1, <2>2, <2>3, <2>4 DEF t
<1> QED BY <1>4, <1>5

-----------------------------------------------------------------------------
(* What gen_addr gives.                                                    *)

\* A program header, of the types it has.
HeaderOK(header) ==
    header \in [load : BOOLEAN, vaddr : Nat, memsz : Nat, offset : Nat, filesz : Nat, writable : BOOLEAN]

\* A gen_addr of one of the callers of map().
GenOK(gen, roots) ==
    \/ gen.kind = "fresh"
    \/ gen.kind = "copy" /\ HeaderOK(gen.header)
    \/ gen.kind = "father" /\ gen.root \in roots

\* What the frame that gen gives for index a is, or what it holds.
Content(gen, pg, a, frame, data) ==
    /\ gen.kind = "copy" => data[frame] = SegmentBytes(PageAt(a), gen.header)
    /\ gen.kind = "father" => frame = pg[gen.root][a].frame /\ pg[gen.root][a] # Absent

\* What copy_segment() writes are bytes.
LEMMA SegmentBytesType ==
    ASSUME NEW page \in Nat, NEW header, HeaderOK(header)
    PROVE  SegmentBytes(page, header) \in Seq(Int)
<1> DEFINE page_offset == header.vaddr % PAGE_SIZE
           src == (header.offset - page_offset) + (page * PAGE_SIZE - (header.vaddr - page_offset))
           mod_end == header.offset + header.filesz
           tocopy == IF src > mod_end THEN 0
                     ELSE IF mod_end - src < PAGE_SIZE THEN mod_end - src ELSE PAGE_SIZE
           bytes == [b \in 1..PAGE_SIZE |-> IF b <= tocopy THEN src + b ELSE 0]
<1>1. header.vaddr \in Nat /\ header.offset \in Nat /\ header.filesz \in Nat
  BY DEF HeaderOK
<1>2. PAGE_SIZE \in Nat \ {0}
  BY LayoutAssumption
<1>3. page_offset \in Int /\ page * PAGE_SIZE \in Int
  BY <1>1, <1>2
<1>4. src \in Int
  <2> HIDE DEF page_offset
  <2> DEFINE p == page * PAGE_SIZE
  <2>1. p \in Int
    BY <1>3
  <2> HIDE DEF p
  <2>2. (header.offset - page_offset) + (p - (header.vaddr - page_offset)) \in Int
    BY <1>1, <1>3, <2>1
  <2> QED BY <2>2 DEF p
<1> HIDE DEF src, tocopy
<1>5. bytes \in Seq(Int)
  <2>1. \A b \in 1..PAGE_SIZE : (IF b <= tocopy THEN src + b ELSE 0) \in Int
    BY <1>4
  <2> QED BY <1>2, <2>1
<1> QED BY <1>5 DEF SegmentBytes, src, tocopy

\* The bytes of a frame are written.
WithData(m, f, bytes) == [m EXCEPT !.data = [m.data EXCEPT ![f] = bytes]]

\* Writing the bytes of a frame keeps the forest.
LEMMA DataSet ==
    ASSUME NEW m, NEW use, NEW pg, NEW roots, Forest(m, use, pg, roots),
           NEW f \in Frame, NEW bytes \in Seq(Int)
    PROVE  LET n == WithData(m, f, bytes)
           IN  /\ Forest(n, use, pg, roots)
               /\ \A r, but, a : but \in Nat \ {0} /\ Filled(m, use, r, but, a) =>
                                   Filled(n, use, r, but, a)
               /\ n.data[f] = bytes /\ \A g \in Frame \ {f} : n.data[g] = m.data[g]
<1> DEFINE d == [m.data EXCEPT ![f] = bytes]
           n == [m EXCEPT !.data = d]
<1>1. m \in Memory /\ use \in [Frame -> Role] /\ m.data \in [Frame -> Seq(Int)] /\ FreeOK(m, use)
  BY ForestFacts, MemoryFields DEF Forest
<1>2. d \in [Frame -> Seq(Int)] /\ d[f] = bytes /\ \A g \in Frame \ {f} : d[g] = m.data[g]
  BY <1>1
<1> HIDE DEF d
<1>3. /\ n \in Memory /\ n.data = d /\ n.table = m.table /\ n.word = m.word
      /\ n.first_free_frame_index = m.first_free_frame_index /\ n.free_frames = m.free_frames
  BY <1>1, <1>2 DEF Memory
<1> HIDE DEF n
<1>4. FreeOK(n, use)
  BY <1>1, <1>3 DEF FreeOK, Linked
<1>5. TablesKept(m, n, use, use)
  BY <1>3 DEF TablesKept
<1>6. /\ Forest(n, use, pg, roots)
      /\ \A r, but, a : but \in Nat \ {0} /\ Filled(m, use, r, but, a) => Filled(n, use, r, but, a)
  BY <1>1, <1>3, <1>4, <1>5, TablesKeptForest
<1> QED BY <1>2, <1>3, <1>6 DEF n, d, WithData

\* What gen_addr leaves: the frame it gave is lost until it is mapped.
Gave(m, use, pg, roots, gen, a, n, mid, f) ==
    /\ Forest(n, mid, pg, roots) /\ Full(n, mid) /\ f \in Frame
    /\ \A g \in Frame : use[g].kind # "free" => mid[g] = use[g] /\ n.data[g] = m.data[g]
    /\ \A g \in Frame : use[g].kind = "free" /\ mid[g].kind # "free" =>
         g = f /\ f # NULL /\ gen.kind # "father"
    /\ gen.kind # "father" /\ f # NULL =>
         f >= kernel_frames /\ use[f].kind = "free" /\ mid[f].kind = "lost"
    /\ f = NULL => n = m /\ mid = use
    /\ f # NULL => Content(gen, pg, a, f, n.data)

\* That no table is empty, kept.
LEMMA FullKept ==
    ASSUME NEW m, NEW use, NEW n, NEW other, Full(m, use),
           \A r, but, a : but \in Nat \ {0} /\ Filled(m, use, r, but, a) => Filled(n, other, r, but, a)
    PROVE  Full(n, other)
<1>1. LEVELS \in Nat \ {0}
  BY LevelsFact
<1>2. Filled(m, use, 0, LEVELS, 0)
  BY FullIsFilled
<1>3. Filled(n, other, 0, LEVELS, 0)
  BY <1>1, <1>2
<1> QED BY <1>3, FullIsFilled

\* What gen_addr leaves where it allocates a frame.
LEMMA FrameGiven ==
    ASSUME NEW m, NEW use, NEW pg, NEW roots, Forest(m, use, pg, roots), Full(m, use),
           NEW a, NEW gen, gen.kind = "fresh"
    PROVE  \E mid : Gave(m, use, pg, roots, gen, a, frame_alloc(m).memory, mid, frame_alloc(m).frame)
<1> DEFINE f == frame_alloc(m).frame
           n == frame_alloc(m).memory
           mid == Relabelled(use, f, "lost")
<1>1. \/ f = NULL /\ n = m
      \/ /\ f \in Frame \ {NULL} /\ f >= kernel_frames /\ use[f].kind = "free"
         /\ Forest(n, mid, pg, roots)
         /\ n.data = m.data
         /\ \A r, but, b : but \in Nat \ {0} /\ Filled(m, use, r, but, b) => Filled(n, mid, r, but, b)
  BY FrameTaken
<1> HIDE DEF f, n
<1>2. CASE f = NULL /\ n = m
  <2>1. Gave(m, use, pg, roots, gen, a, n, use, f)
    BY <1>2, FrameIsFinite DEF Gave
  <2> QED BY <2>1 DEF f, n
<1>3. CASE f # NULL
  <2>1. use \in [Frame -> Role] /\ f \in Frame
    BY <1>1, <1>3, ForestFacts
  <2>2. /\ \A g \in Frame \ {f} : mid[g] = use[g]
        /\ mid[f].kind = "lost"
    BY <2>1, RelabelledFacts
  <2> HIDE DEF mid
  <2>3. Full(n, mid)
    BY <1>1, <1>3, FullKept
  <2>4. Content(gen, pg, a, f, n.data)
    BY DEF Content
  <2>5. Gave(m, use, pg, roots, gen, a, n, mid, f)
    BY <1>1, <1>3, <2>1, <2>2, <2>3, <2>4 DEF Gave
  <2> QED BY <2>5 DEF f, n
<1> QED BY <1>1, <1>2, <1>3

\* What gen_addr leaves, for each caller of map().
LEMMA GivenFacts ==
    ASSUME NEW m, NEW use, NEW pg, NEW roots, Forest(m, use, pg, roots), Full(m, use),
           NEW a \in Unshared, NEW gen, GenOK(gen, roots), PageAt(a) \in Nat,
           gen.kind = "father" => IndexOf(PageAt(a)) = a
    PROVE  LET given == Given(gen, m, PageAt(a))
           IN  \E mid : Gave(m, use, pg, roots, gen, a, given.memory, mid, given.frame)
<1> DEFINE given == Given(gen, m, PageAt(a))
<1>1. CASE gen.kind = "fresh"
  <2>1. given = frame_alloc(m)
    BY <1>1 DEF Given
  <2> QED BY <1>1, <2>1, FrameGiven
<1>2. CASE gen.kind = "copy"
  <2> DEFINE fresh == [kind |-> "fresh"]
             new == frame_alloc(m)
             bytes == SegmentBytes(PageAt(a), gen.header)
  <2>1. PICK mid : Gave(m, use, pg, roots, fresh, a, new.memory, mid, new.frame)
    <3>1. fresh.kind = "fresh"
      OBVIOUS
    <3> HIDE DEF fresh
    <3> QED BY <3>1, FrameGiven
  <2>2. fresh.kind # "father"
    OBVIOUS
  <2> HIDE DEF fresh
  <2>3. given = copy_segment(m, PageAt(a), gen.header)
    BY <1>2 DEF Given
  <2>4. CASE new.frame = NULL
    <3>1. given = new
      BY <2>3, <2>4 DEF copy_segment
    <3>2. Gave(m, use, pg, roots, gen, a, new.memory, mid, new.frame)
      BY <1>2, <2>1, <2>2, <2>4 DEF Gave
    <3> QED BY <3>1, <3>2
  <2>5. CASE new.frame # NULL
    <3> DEFINE f == new.frame
               n == WithData(new.memory, f, bytes)
    <3>1. given.frame = f /\ given.memory = n
      <4>1. given = [new EXCEPT !.memory.data[f] = bytes]
        BY <2>3, <2>5 DEF copy_segment
      <4>2. new = [frame |-> m.first_free_frame_index,
                   memory |-> [m EXCEPT !.first_free_frame_index = m.word[m.first_free_frame_index],
                                        !.word[m.first_free_frame_index] = 0, !.free_frames = @ - 1]]
        BY <2>5 DEF frame_alloc
      <4> HIDE DEF bytes
      <4> DEFINE x == [m EXCEPT !.first_free_frame_index = m.word[m.first_free_frame_index],
                                        !.word[m.first_free_frame_index] = 0, !.free_frames = @ - 1]
                 y == m.first_free_frame_index
      <4>3. new = [frame |-> y, memory |-> x]
        BY <4>2
      <4> HIDE DEF x, y, new
      <4> QED BY <4>1, <4>3 DEF WithData
    <3>2. bytes \in Seq(Int)
      BY <1>2, SegmentBytesType DEF GenOK
    <3>3. Forest(new.memory, mid, pg, roots) /\ Full(new.memory, mid) /\ f \in Frame
      BY <2>1 DEF Gave
    <3> HIDE DEF bytes, new
    <3>4. /\ Forest(n, mid, pg, roots)
          /\ \A r, but, b : but \in Nat \ {0} /\ Filled(new.memory, mid, r, but, b) =>
                              Filled(n, mid, r, but, b)
          /\ n.data[f] = bytes /\ \A g \in Frame \ {f} : n.data[g] = new.memory.data[g]
      BY <3>2, <3>3, DataSet
    <3> HIDE DEF n
    <3>5. Full(n, mid)
      BY <3>3, <3>4, FullKept
    <3>6. Content(gen, pg, a, f, n.data)
      BY <1>2, <3>4 DEF Content, bytes
    <3>7. /\ use[f].kind = "free" /\ mid[f].kind = "lost" /\ f >= kernel_frames
          /\ \A g \in Frame : use[g].kind # "free" => mid[g] = use[g] /\ new.memory.data[g] = m.data[g]
          /\ \A g \in Frame : use[g].kind = "free" /\ mid[g].kind # "free" => g = f
      BY <2>1, <2>2, <2>5 DEF Gave
    <3>8. Gave(m, use, pg, roots, gen, a, n, mid, f)
      BY <1>2, <2>5, <3>3, <3>4, <3>5, <3>6, <3>7 DEF Gave
    <3> QED BY <3>1, <3>8
  <2> QED BY <2>4, <2>5
<1>3. CASE gen.kind = "father"
  <2> DEFINE t == Walk(m, gen.root, a)[1]
             f == IF t = NULL \/ ~IsPresent(m, t, a[1]) THEN NULL ELSE m.table[t][a[1]].frame
  <2>1. gen.root \in roots
    BY <1>3 DEF GenOK
  <2>2. given.memory = m /\ given.frame = f
    <3>1. given = [memory |-> m, frame |-> virtual_to_phisical(m, PageAt(a), gen.root)]
      BY <1>3 DEF Given
    <3>2. virtual_to_phisical(m, PageAt(a), gen.root) = f
      BY <1>3 DEF virtual_to_phisical
    <3> HIDE DEF f
    <3> QED BY <3>1, <3>2
  <2>3. /\ t # NULL => At(use, t, gen.root, 1, a) /\ pg[gen.root][a] = m.table[t][a[1]]
        /\ pg[gen.root][a] # Absent <=> t # NULL /\ IsPresent(m, t, a[1])
    BY <2>1, MappedFacts
  <2> HIDE DEF t
  <2>4. f \in Frame
    <3>1. t # NULL => t \in Frame /\ a[1] \in Index
      <4>1. 1 \in 1..LEVELS
        BY LevelsFact
      <4> QED BY <2>3, <4>1, IndexFacts DEF At
    <3>2. m \in Memory
      BY ForestFacts
    <3> QED BY <3>1, <3>2, MemoryFields, FrameIsFinite
  <2>5. f # NULL => f = pg[gen.root][a].frame /\ pg[gen.root][a] # Absent
    BY <2>3
  <2> HIDE DEF f
  <2>6. Gave(m, use, pg, roots, gen, a, m, use, f)
    BY <1>3, <2>4, <2>5 DEF Gave, Content
  <2> QED BY <2>2, <2>6
<1> QED BY <1>1, <1>2, <1>3 DEF GenOK

-----------------------------------------------------------------------------
(* What map() does to the frames.                                          *)

\* Frames change from free to tables below r, or to its pages at the indexes of
\* own.
Taken(use, other, r, own) ==
    \A f \in Frame :
        /\ use[f].kind # "free" => other[f] = use[f]
        /\ use[f].kind = "free" /\ other[f].kind # "free" =>
             /\ other[f].kind = "used" /\ other[f].root = r
             /\ other[f].level > 0 \/ (other[f].level = 0 /\ other[f].index \in own)

\* Frames change from free to something below r, or are lost: what a failed
\* call leaves.
Wasted(use, other, r) ==
    \A f \in Frame :
        /\ use[f].kind # "free" => other[f] = use[f]
        /\ use[f].kind = "free" /\ other[f].kind # "free" =>
             other[f].kind = "lost" \/ (other[f].kind = "used" /\ other[f].root = r)

\* What is in the frames in use stays.
DataKept(m, n, use) == \A f \in Frame : use[f].kind # "free" => n.data[f] = m.data[f]

\* The flags that map() sets in an entry.
MapFlags(flags) == (flags \cap {RW, USER}) \cup {PRESENT}

\* The pages that map() gives to r: those of the father stay with the family.
OwnIndex(gen, a) == IF gen.kind = "father" THEN {} ELSE {a}

\* What one page of the loop gives.
PageResult(m, use, pg, roots, r, a, flags, gen, frame, n) ==
    LET entry == [frame |-> frame, flags |-> MapFlags(flags)]
    IN  /\ n.result \in {"ok", "error", "fault"}
        /\ n.result = "error" => \E other :
             /\ Forest(n.memory, other, pg, roots) /\ Full(n.memory, other)
             /\ Wasted(use, other, r) /\ DataKept(m, n.memory, use)
        /\ n.result = "ok" =>
             /\ pg[r][a] = Absent /\ frame # NULL
             /\ Content(gen, pg, a, frame, n.memory.data)
             /\ \E other :
                  /\ Forest(n.memory, other, Mapping(pg, r, a, entry), roots)
                  /\ Full(n.memory, other) /\ DataKept(m, n.memory, use)
                  /\ Taken(use, other, r, OwnIndex(gen, a))
                  /\ gen.kind # "father" => At(other, frame, r, 0, a)

\* One page of map(): it is mapped, or it was mapped already, or no frame is
\* left.
LEMMA PageMapped ==
    ASSUME NEW m, NEW use, NEW pg, NEW roots, Forest(m, use, pg, roots), Full(m, use),
           NEW r \in roots, NEW a \in Unshared, NEW flags, NEW gen, NEW given, NEW mid,
           Gave(m, use, pg, roots, gen, a, given.memory, mid, given.frame)
    PROVE  PageResult(m, use, pg, roots, r, a, flags, gen, given.frame, MapPage(m, r, a, flags, given))
<1> DEFINE n == MapPage(m, r, a, flags, given)
           entry == [frame |-> given.frame, flags |-> MapFlags(flags)]
           walk == EnsureTables(given.memory, r, a, flags)
           g == given.frame
<1>1. /\ Forest(given.memory, mid, pg, roots) /\ Full(given.memory, mid) /\ g \in Frame
      /\ \A h \in Frame : use[h].kind # "free" => mid[h] = use[h] /\ given.memory.data[h] = m.data[h]
      /\ \A h \in Frame : use[h].kind = "free" /\ mid[h].kind # "free" =>
           h = g /\ g # NULL /\ gen.kind # "father"
      /\ gen.kind # "father" /\ g # NULL =>
           g >= kernel_frames /\ use[g].kind = "free" /\ mid[g].kind = "lost"
      /\ g # NULL => Content(gen, pg, a, g, given.memory.data)
  BY DEF Gave
<1>2. walk.table = NULL \/ \E other :
        /\ Reached(walk.memory, other, pg, roots, r, 1, a, walk.table)
        /\ Grown(mid, other, r) /\ walk.memory.data = given.memory.data
  BY <1>1, TablesEnsured
<1>3. n = IF g = NULL THEN [memory |-> given.memory, result |-> "error"]
          ELSE IF walk.table = NULL THEN [memory |-> walk.memory, result |-> "fault"]
          ELSE IF IsPresent(walk.memory, walk.table, a[1])
          THEN [memory |-> walk.memory, result |-> "error"]
          ELSE [memory |-> set_entry(walk.memory, walk.table, a[1], g, MapFlags(flags)),
                result |-> "ok"]
  BY DEF MapPage, MapFlags
<1> HIDE DEF n, walk
<1>4. CASE g = NULL
  <2>1. n.memory = given.memory /\ n.result = "error"
    BY <1>3, <1>4
  <2>2. Wasted(use, mid, r) /\ DataKept(m, n.memory, use)
    BY <1>1, <1>4, <2>1 DEF Wasted, DataKept
  <2> QED BY <1>1, <2>1, <2>2 DEF n, PageResult
<1>5. CASE g # NULL /\ walk.table = NULL
  <2>1. n.result = "fault"
    BY <1>3, <1>5
  <2> QED BY <2>1 DEF n, PageResult
<1>6. CASE g # NULL /\ walk.table # NULL
  <2> DEFINE t == walk.table
             w == walk.memory
  <2>1. PICK next : /\ Reached(w, next, pg, roots, r, 1, a, t)
                    /\ Grown(mid, next, r) /\ w.data = given.memory.data
    BY <1>2, <1>6
  <2>2. Forest(w, next, pg, roots) /\ At(next, t, r, 1, a) /\ Filled(w, next, r, 1, a) /\ t \in Frame
    BY <2>1 DEF Reached, At
  <2>3. 1 \in 1..LEVELS /\ a[1] \in Index /\ LEVELS \in Nat
    <3>1. 1 \in 1..LEVELS /\ LEVELS \in Nat
      BY LevelsFact
    <3> QED BY <3>1, IndexFacts
  <2>4. /\ \A h \in Frame : use[h].kind # "free" => next[h] = use[h]
        /\ \A h \in Frame : use[h].kind = "free" /\ next[h].kind # "free" =>
             \/ h = g /\ next[h].kind = "lost" /\ gen.kind # "father"
             \/ next[h].kind = "used" /\ next[h].root = r /\ next[h].level > 0
    <3> SUFFICES ASSUME NEW h \in Frame
                 PROVE  /\ use[h].kind # "free" => next[h] = use[h]
                        /\ use[h].kind = "free" /\ next[h].kind # "free" =>
                             \/ h = g /\ next[h].kind = "lost" /\ gen.kind # "father"
                             \/ next[h].kind = "used" /\ next[h].root = r /\ next[h].level > 0
      OBVIOUS
    <3>1. mid[h].kind # "free" => next[h] = mid[h]
      BY <2>1 DEF Grown
    <3>2. mid[h].kind = "free" /\ next[h].kind # "free" =>
            next[h].kind = "used" /\ next[h].root = r /\ next[h].level > 0
      BY <2>1 DEF Grown
    <3>3. use[h].kind # "free" => mid[h] = use[h]
      BY <1>1
    <3>4. use[h].kind = "free" /\ mid[h].kind # "free" => h = g /\ mid[h].kind = "lost" /\ gen.kind # "father"
      BY <1>1
    <3> QED BY <3>1, <3>2, <3>3, <3>4
  <2>5. \A h \in Frame : use[h].kind # "free" => w.data[h] = m.data[h]
    BY <1>1, <2>1
  <2>6. CASE IsPresent(w, t, a[1])
    <3>1. n.memory = w /\ n.result = "error"
      BY <1>3, <1>6, <2>6
    <3>2. Full(w, next)
      BY <2>2, <2>3, <2>6, PresentIsFull
    <3>3. Wasted(use, next, r) /\ DataKept(m, n.memory, use)
      BY <2>4, <2>5, <3>1 DEF Wasted, DataKept
    <3> QED BY <2>2, <3>1, <3>2, <3>3 DEF n, PageResult
  <2>7. CASE ~IsPresent(w, t, a[1])
    <3> DEFINE q == set_entry(w, t, a[1], g, MapFlags(flags))
               other == IF gen.kind = "father" THEN next ELSE Placing(next, g, r, 0, a)
    <3>1. n.memory = q /\ n.result = "ok"
      BY <1>3, <1>6, <2>7
    <3>2. MapFlags(flags) \in SUBSET {PRESENT, RW, USER} /\ PRESENT \in MapFlags(flags)
      BY DEF MapFlags
    <3>3. /\ other \in [Frame -> Role]
          /\ \A h \in Frame : h # g => other[h] = next[h]
          /\ gen.kind = "father" => other = next
          /\ gen.kind # "father" =>
               /\ next[g].kind = "lost" /\ g >= kernel_frames
               /\ other[g].kind = "used" /\ other[g].level = 0 /\ other[g].index = a /\ other[g].root = r
               /\ At(other, g, r, 0, a)
      <4>1. next \in [Frame -> Role] /\ r \in Frame /\ 0 \in 0..LEVELS /\ a \in Idx
        <5>1. 0 \in 0..LEVELS
          BY <2>3
        <5> QED BY <2>2, <5>1, ForestFacts, RootFacts, IndexFacts
      <4>2. CASE gen.kind = "father"
        BY <4>1, <4>2
      <4>3. CASE gen.kind # "father"
        <5>1. next[g].kind = "lost" /\ g >= kernel_frames
          <6>1. mid[g].kind = "lost" /\ g >= kernel_frames
            BY <1>1, <1>6, <4>3
          <6>2. mid[g].kind # "free" => next[g] = mid[g]
            BY <1>1, <2>1 DEF Grown
          <6> QED BY <6>1, <6>2
        <5>2. other = Placing(next, g, r, 0, a)
          BY <4>3
        <5> HIDE DEF other
        <5>3. /\ other \in [Frame -> Role]
              /\ \A h \in Frame \ {g} : other[h] = next[h]
              /\ other[g].kind = "used" /\ other[g].root = r /\ other[g].level = 0 /\ other[g].index = a
          BY <1>1, <4>1, <5>1, <5>2, PlacingFacts
        <5>4. At(other, g, r, 0, a)
          BY <1>1, <5>3, PlaceFacts DEF At
        <5> QED BY <4>3, <5>1, <5>3, <5>4
      <4> QED BY <4>2, <4>3
    <3> HIDE DEF other
    <3>4. /\ \A h \in Frame : other[h].kind = "free" <=> next[h].kind = "free"
          /\ \A h \in Frame : next[h].kind = "used" => other[h] = next[h]
          /\ \A h \in Frame : other[h].kind = "used" /\ next[h].kind # "used" =>
               /\ other[h].level = 0 /\ other[h].index = a /\ other[h].root = r
               /\ h = g /\ h >= kernel_frames
      BY <3>3
    <3>5. /\ Forest(q, other, Mapping(pg, r, a, entry), roots)
          /\ q.data = w.data
          /\ Filled(w, next, r, 1, a) => Filled(q, other, r, LEVELS, a)
      <4> DEFINE fl == MapFlags(flags)
      <4>1. fl \in SUBSET {PRESENT, RW, USER} /\ PRESENT \in fl
        BY <3>2
      <4>2. q = set_entry(w, t, a[1], g, fl)
        OBVIOUS
      <4> HIDE DEF fl, q, t, w
      <4>21. /\ Forest(w, next, pg, roots) /\ At(next, t, r, 1, a) /\ a \in Unshared /\ g \in Frame
             /\ other \in [Frame -> Role] /\ ~IsPresent(w, t, a[1])
        BY <1>1, <2>2, <2>7, <3>3
      <4>3. /\ Forest(q, other, Mapping(pg, r, a, [frame |-> g, flags |-> fl]), roots)
            /\ q.data = w.data
            /\ Filled(w, next, r, IF PRESENT \in fl THEN 1 ELSE LEVELS, a) =>
                 Filled(q, other, r, IF PRESENT \in fl THEN LEVELS ELSE 1, a)
        BY ONLY <3>4, <4>1, <4>2, <4>21, LeafSet
      <4> QED BY <4>1, <4>3 DEF fl
    <3>6. Full(q, other)
      BY <2>2, <3>5, FullIsFilled
    <3>7. pg[r][a] = Absent
      <4>1. pg[r][a] = w.table[t][a[1]]
        BY <2>2 DEF Forest, Leaves, At
      <4>2. w.table[t][a[1]] = Absent
        BY <2>2, <2>3, <2>7 DEF Forest, Counts, At
      <4> QED BY <4>1, <4>2
    <3>8. Taken(use, other, r, OwnIndex(gen, a))
      <4> SUFFICES ASSUME NEW h \in Frame
                   PROVE  /\ use[h].kind # "free" => other[h] = use[h]
                          /\ use[h].kind = "free" /\ other[h].kind # "free" =>
                               /\ other[h].kind = "used" /\ other[h].root = r
                               /\ \/ other[h].level > 0
                                  \/ other[h].level = 0 /\ other[h].index \in OwnIndex(gen, a)
        BY DEF Taken
      <4>1. CASE h # g \/ gen.kind = "father"
        BY <2>4, <3>3, <4>1
      <4>2. CASE h = g /\ gen.kind # "father"
        <5>1. use[h].kind = "free"
          BY <1>1, <1>6, <4>2
        <5>2. OwnIndex(gen, a) = {a}
          BY <4>2 DEF OwnIndex
        <5> QED BY <3>3, <4>2, <5>1, <5>2
      <4> QED BY <4>1, <4>2
    <3>9. DataKept(m, n.memory, use) /\ Content(gen, pg, a, g, n.memory.data)
      <4>1. n.memory.data = given.memory.data
        BY <2>1, <3>1, <3>5
      <4>2. DataKept(m, n.memory, use)
        BY <1>1, <4>1 DEF DataKept
      <4> QED BY <1>1, <1>6, <4>1, <4>2
    <3> HIDE DEF q
    <3>10. \E last :
             /\ Forest(n.memory, last, Mapping(pg, r, a, entry), roots)
             /\ Full(n.memory, last) /\ DataKept(m, n.memory, use)
             /\ Taken(use, last, r, OwnIndex(gen, a))
             /\ gen.kind # "father" => At(last, g, r, 0, a)
      BY <3>1, <3>3, <3>5, <3>6, <3>8, <3>9
    <3> QED BY <1>6, <3>1, <3>7, <3>9, <3>10 DEF n, PageResult
  <2> QED BY <2>6, <2>7
<1> QED BY <1>4, <1>5, <1>6

\* The indexes that the first k rounds of a loop go through.
IndexesTo(page, k) == {LoopIndex(page, i) : i \in 0..(k - 1)}

\* The pages of a region have indexes of their own, outside the part shared
\* with the kernel.
LoopFits(page, count) ==
    \A i \in 0..(count - 1) :
        LET a == LoopIndex(page, i)
        IN  a \in Unshared /\ PageAt(a) \in Nat /\ IndexOf(PageAt(a)) = a

\* After k pages: s is the region, n, other and new what m, use and pg became.
Spread(m, use, pg, roots, s, n, other, new, k) ==
    /\ Forest(n, other, new, roots) /\ Full(n, other) /\ DataKept(m, n, use)
    /\ Taken(use, other, s.root, IF s.gen.kind = "father" THEN {} ELSE IndexesTo(s.page, k))
    /\ IndexesTo(s.page, k) \subseteq Unshared
    /\ \A q \in Frame \ {s.root} : new[q] = pg[q]
    /\ \A a \in Unshared \ IndexesTo(s.page, k) : new[s.root][a] = pg[s.root][a]
    /\ \A a \in IndexesTo(s.page, k) :
         /\ pg[s.root][a] = Absent
         /\ new[s.root][a].flags = MapFlags(s.flags) /\ new[s.root][a].frame # NULL
         /\ Content(s.gen, pg, a, new[s.root][a].frame, n.data)
         /\ s.gen.kind # "father" => At(other, new[s.root][a].frame, s.root, 0, a)
    /\ \A i, j \in 0..(k - 1) : LoopIndex(s.page, i) = LoopIndex(s.page, j) => i = j

\* What a loop that fails leaves: the other address spaces are as they were,
\* and what was taken is below r or lost.
Broken(m, use, pg, roots, r, n) ==
    \E other, new :
        /\ Forest(n, other, new, roots) /\ Full(n, other) /\ DataKept(m, n, use)
        /\ Wasted(use, other, r)
        /\ \A q \in Frame \ {r} : new[q] = pg[q]

\* Taken, for two steps.
LEMMA TakenThenTaken ==
    ASSUME NEW use, NEW middle, NEW other, NEW r, NEW own, NEW more,
           Taken(use, middle, r, own), Taken(middle, other, r, more)
    PROVE  Taken(use, other, r, own \cup more)
BY DEF Taken

\* A step that fails after others that did not.
LEMMA TakenThenWasted ==
    ASSUME NEW use, NEW middle, NEW other, NEW r, NEW own,
           Taken(use, middle, r, own), Wasted(middle, other, r)
    PROVE  Wasted(use, other, r)
BY DEF Taken, Wasted

\* DataKept, for two steps.
LEMMA DataKeptTwice ==
    ASSUME NEW m, NEW middle, NEW n, NEW use, NEW other, NEW r, NEW own,
           DataKept(m, middle, use), DataKept(middle, n, other), Taken(use, other, r, own)
    PROVE  DataKept(m, n, use)
BY DEF DataKept, Taken

\* One round of the loop of map(): the page is mapped at an index that had
\* none, or the loop ends.
LEMMA SpreadRound ==
    ASSUME NEW m, NEW use, NEW pg, NEW roots, NEW s, NEW n, NEW other, NEW new, NEW k \in Nat,
           Spread(m, use, pg, roots, s, n, other, new, k),
           s.root \in roots, GenOK(s.gen, roots), s.gen.kind = "father" => s.gen.root # s.root,
           NEW a, a = LoopIndex(s.page, k), a \in Unshared, PageAt(a) \in Nat, IndexOf(PageAt(a)) = a,
           NEW next, next = MapPage(n, s.root, a, s.flags, Given(s.gen, n, PageAt(a)))
    PROVE  /\ next.result \in {"ok", "error", "fault"}
           /\ next.result = "error" => Broken(m, use, pg, roots, s.root, next.memory)
           /\ next.result = "ok" => \E last, newer :
                Spread(m, use, pg, roots, s, next.memory, last, newer, k + 1)
<1> DEFINE r == s.root
           gen == s.gen
           given == Given(gen, n, PageAt(a))
           entry == [frame |-> given.frame, flags |-> MapFlags(s.flags)]
           own == IF gen.kind = "father" THEN {} ELSE IndexesTo(s.page, k)
<1>1. /\ Forest(n, other, new, roots) /\ Full(n, other) /\ DataKept(m, n, use)
      /\ Taken(use, other, r, own)
      /\ IndexesTo(s.page, k) \subseteq Unshared
      /\ \A q \in Frame \ {r} : new[q] = pg[q]
      /\ \A b \in Unshared \ IndexesTo(s.page, k) : new[r][b] = pg[r][b]
      /\ \A b \in IndexesTo(s.page, k) :
           /\ pg[r][b] = Absent
           /\ new[r][b].flags = MapFlags(s.flags) /\ new[r][b].frame # NULL
           /\ Content(gen, pg, b, new[r][b].frame, n.data)
           /\ gen.kind # "father" => At(other, new[r][b].frame, r, 0, b)
      /\ \A i, j \in 0..(k - 1) : LoopIndex(s.page, i) = LoopIndex(s.page, j) => i = j
  BY DEF Spread
<1>2. r \in Frame /\ (gen.kind = "father" => gen.root \in Frame \ {r})
  BY <1>1, RootFacts DEF GenOK
<1>3. PICK mid : Gave(n, other, new, roots, gen, a, given.memory, mid, given.frame)
  BY <1>1, GivenFacts
<1>4. /\ next.result \in {"ok", "error", "fault"}
      /\ next.result = "error" => \E last :
           /\ Forest(next.memory, last, new, roots) /\ Full(next.memory, last)
           /\ Wasted(other, last, r) /\ DataKept(n, next.memory, other)
      /\ next.result = "ok" =>
           /\ new[r][a] = Absent /\ given.frame # NULL
           /\ Content(gen, new, a, given.frame, next.memory.data)
           /\ \E last :
                /\ Forest(next.memory, last, Mapping(new, r, a, entry), roots)
                /\ Full(next.memory, last) /\ DataKept(n, next.memory, other)
                /\ Taken(other, last, r, OwnIndex(gen, a))
                /\ gen.kind # "father" => At(last, given.frame, r, 0, a)
  <2> HIDE DEF r, gen, given, own
  <2>1. next = MapPage(n, r, a, s.flags, given)
    BY DEF r, gen, given
  <2>2. r \in roots
    BY DEF r
  <2>3. PageResult(n, other, new, roots, r, a, s.flags, gen, given.frame, MapPage(n, r, a, s.flags, given))
    BY <1>1, <1>3, <2>2, PageMapped
  <2> HIDE DEF entry
  <2>4. PageResult(n, other, new, roots, r, a, s.flags, gen, given.frame, next)
    BY <2>1, <2>3
  <2> QED BY <2>4 DEF PageResult, entry
<1>5. given.frame \in Frame /\ MapFlags(s.flags) \in SUBSET {PRESENT, RW, USER}
      /\ PRESENT \in MapFlags(s.flags)
  BY <1>3 DEF Gave, MapFlags
<1> HIDE DEF given
<1>6. CASE next.result = "error"
  <2>1. PICK last :
           /\ Forest(next.memory, last, new, roots) /\ Full(next.memory, last)
           /\ Wasted(other, last, r) /\ DataKept(n, next.memory, other)
    BY <1>4, <1>6
  <2>2. Wasted(use, last, r) /\ DataKept(m, next.memory, use)
    <3> HIDE DEF r, own
    <3> QED BY <1>1, <2>1, TakenThenWasted, DataKeptTwice
  <2>3. Broken(m, use, pg, roots, r, next.memory)
    BY <1>1, <2>1, <2>2 DEF Broken
  <2> QED BY <1>6, <2>3
<1>7. CASE next.result = "ok"
  <2> DEFINE newer == Mapping(new, r, a, entry)
  <2>1. PICK last :
           /\ Forest(next.memory, last, newer, roots)
           /\ Full(next.memory, last) /\ DataKept(n, next.memory, other)
           /\ Taken(other, last, r, OwnIndex(gen, a))
           /\ gen.kind # "father" => At(last, given.frame, r, 0, a)
    BY <1>4, <1>7
  <2>2. new[r][a] = Absent /\ given.frame # NULL /\ Content(gen, new, a, given.frame, next.memory.data)
    BY <1>4, <1>7
  <2>3. a \notin IndexesTo(s.page, k)
    <3>1. PRESENT \notin Absent.flags
      BY DEF Absent
    <3> QED BY <1>1, <1>5, <2>2, <3>1
  <2>4. pg[r][a] = Absent
    BY <1>1, <2>2, <2>3
  <2>5. /\ \A q \in Frame \ {r} : newer[q] = new[q]
        /\ \A b \in Unshared : newer[r][b] = IF b = a THEN entry ELSE new[r][b]
    <3>1. new \in PageMaps
      BY <1>1 DEF Forest, ForestTypes
    <3>2. entry \in Entry
      BY <1>5 DEF Entry
    <3> HIDE DEF entry, newer
    <3>3. newer = Mapping(new, r, a, entry)
      BY DEF newer
    <3>4. /\ \A q \in Frame, b \in Unshared :
                newer[q][b] = IF q = r /\ b = a THEN entry ELSE new[q][b]
          /\ \A q \in Frame \ {r} : newer[q] = new[q]
      BY <1>2, <3>1, <3>2, <3>3, MappingFacts
    <3> QED BY <1>2, <3>4
  <2>6. entry.frame = given.frame /\ entry.flags = MapFlags(s.flags)
    OBVIOUS
  <2> HIDE DEF newer, entry
  <2>7. IndexesTo(s.page, k + 1) = IndexesTo(s.page, k) \cup {a}
    <3>1. \A i : i \in 0..((k + 1) - 1) <=> i \in 0..(k - 1) \/ i = k
      OBVIOUS
    <3> QED BY <3>1 DEF IndexesTo
  <2>8. Taken(use, last, r, IF gen.kind = "father" THEN {} ELSE IndexesTo(s.page, k + 1))
    <3>1. Taken(use, last, r, own \cup OwnIndex(gen, a))
      <4> HIDE DEF own, r, gen
      <4> QED BY <1>1, <2>1, TakenThenTaken
    <3>2. own \cup OwnIndex(gen, a) = IF gen.kind = "father" THEN {} ELSE IndexesTo(s.page, k + 1)
      BY <2>7 DEF OwnIndex
    <3> QED BY <3>1, <3>2
  <2>9. DataKept(m, next.memory, use)
    <3> HIDE DEF own, r
    <3> QED BY <1>1, <2>1, DataKeptTwice
  <2>10. ASSUME NEW b \in IndexesTo(s.page, k + 1), b \in Unshared
         PROVE  /\ pg[r][b] = Absent
                /\ newer[r][b].flags = MapFlags(s.flags) /\ newer[r][b].frame # NULL
                /\ Content(gen, pg, b, newer[r][b].frame, next.memory.data)
                /\ gen.kind # "father" => At(last, newer[r][b].frame, r, 0, b)
    <3>1. CASE b = a
      <4>1. newer[r][b] = entry
        BY <2>5, <2>10, <3>1
      <4>2. Content(gen, pg, a, given.frame, next.memory.data)
        <5>1. gen.kind = "father" => new[gen.root] = pg[gen.root]
          BY <1>1, <1>2
        <5> QED BY <2>2, <5>1 DEF Content
      <4> QED BY <2>1, <2>2, <2>4, <2>6, <3>1, <4>1, <4>2
    <3>2. CASE b # a
      <4>1. b \in IndexesTo(s.page, k) /\ newer[r][b] = new[r][b]
        BY <2>5, <2>7, <2>10, <3>2
      <4>2. gen.kind # "father" => At(last, newer[r][b].frame, r, 0, b) /\ next.memory.data[newer[r][b].frame] = n.data[newer[r][b].frame]
        <5> SUFFICES ASSUME gen.kind # "father"
                     PROVE  /\ At(last, newer[r][b].frame, r, 0, b)
                            /\ next.memory.data[newer[r][b].frame] = n.data[newer[r][b].frame]
          OBVIOUS
        <5> DEFINE f == newer[r][b].frame
        <5>1. At(other, f, r, 0, b)
          BY <1>1, <4>1
        <5> HIDE DEF f
        <5>2. f \in Frame /\ other[f].kind = "used"
          BY <5>1 DEF At
        <5>3. last[f] = other[f]
          BY <2>1, <5>2 DEF Taken
        <5>4. next.memory.data[f] = n.data[f]
          BY <2>1, <5>2 DEF DataKept
        <5>5. At(last, f, r, 0, b)
          BY <5>1, <5>3 DEF At
        <5> QED BY <5>4, <5>5 DEF f
      <4>3. Content(gen, pg, b, newer[r][b].frame, next.memory.data)
        <5>1. Content(gen, pg, b, newer[r][b].frame, n.data)
          BY <1>1, <4>1
        <5> QED BY <4>2, <5>1 DEF Content
      <4> QED BY <1>1, <4>1, <4>2, <4>3
    <3> QED BY <3>1, <3>2
  <2>11. IndexesTo(s.page, k + 1) \subseteq Unshared
    BY <1>1, <2>7
  <2>12. \A i, j \in 0..((k + 1) - 1) : LoopIndex(s.page, i) = LoopIndex(s.page, j) => i = j
    <3>1. \A i \in 0..(k - 1) : LoopIndex(s.page, i) # a
      BY <2>3 DEF IndexesTo
    <3>2. \A i : i \in 0..((k + 1) - 1) => i \in 0..(k - 1) \/ i = k
      OBVIOUS
    <3> QED BY <1>1, <3>1, <3>2
  <2>13. \A q \in Frame \ {r} : newer[q] = pg[q]
    BY <1>1, <2>5
  <2>14. \A b \in Unshared \ IndexesTo(s.page, k + 1) : newer[r][b] = pg[r][b]
    BY <1>1, <2>5, <2>7
  <2>15. Spread(m, use, pg, roots, s, next.memory, last, newer, k + 1)
    BY <2>1, <2>8, <2>9, <2>10, <2>11, <2>12, <2>13, <2>14 DEF Spread
  <2> QED BY <1>7, <2>15
<1> QED BY <1>4, <1>6, <1>7

\* The loop of map(), with gen for gen_addr.
MapLoop(page, count, flags, root, gen, m) ==
    Loop([kind |-> "map", page |-> page, flags |-> flags, root |-> root, gen |-> gen],
         [memory |-> m, result |-> "ok"], Counting(count))

FreshGen == [kind |-> "fresh"]
CopyGen(header) == [kind |-> "copy", header |-> header]
FatherGen(root) == [kind |-> "father", root |-> root]

\* map() with frames of its own, as add_pages() and the page fault handler call
\* it.
LEMMA FreshIsLoop ==
    ASSUME NEW m, NEW root, NEW page, NEW flags, NEW count
    PROVE  map(m, page, count, flags, root, Fresh) = MapLoop(page, count, flags, root, FreshGen, m)
<1> DEFINE c == [kind |-> "map", page |-> page, flags |-> flags, root |-> root, gen |-> FreshGen]
           base == [memory |-> m, result |-> "ok"]
           seq == Counting(count)
           Step(s, i) == IF s.result # "ok" THEN s
                         ELSE MapPage(s.memory, root, LoopIndex(page, i), flags, frame_alloc(s.memory))
           P(f) == f = [s \in SUBSET DOMAIN seq |-> IF s = {} THEN base ELSE Step(f[s \ {Max(s)}], seq[Max(s)])]
           Q(f) == f = [s \in SUBSET DOMAIN seq |-> IF s = {} THEN base ELSE Do(c, f[s \ {Max(s)}], seq[Max(s)])]
<1>1. map(m, page, count, flags, root, Fresh) = (CHOOSE f : P(f))[DOMAIN seq]
  BY Zenon DEF map, FoldLeft, MapThenFoldSet, Fresh
<1>2. Loop(c, base, seq) = (CHOOSE f : Q(f))[DOMAIN seq]
  BY Zenon DEF Loop, FoldLeft, MapThenFoldSet
<1>3. \A f : P(f) <=> Q(f)
  <2>1. \A s, x : Do(c, s, x) = Step(s, x)
    BY DEF Do, MapStep, Given, FreshGen
  <2> HIDE DEF Step, base, seq, c
  <2> QED BY <2>1
<1>4. (CHOOSE f : P(f)) = (CHOOSE f : Q(f))
  <2> HIDE DEF P, Q
  <2> QED BY <1>3, Zenon
<1>5. Loop(c, base, seq) = MapLoop(page, count, flags, root, FreshGen, m)
  BY Zenon DEF MapLoop
<1> HIDE DEF P, Q, c, base
<1> QED BY <1>1, <1>2, <1>4, <1>5, Zenon

\* map() with copy_segment(), as load_module() calls it.
LEMMA CopyIsLoop ==
    ASSUME NEW m, NEW root, NEW page, NEW flags, NEW count, NEW header
    PROVE  CopyMap(m, page, count, flags, root, header)
             = MapLoop(page, count, flags, root, CopyGen(header), m)
<1> DEFINE c == [kind |-> "map", page |-> page, flags |-> flags, root |-> root, gen |-> CopyGen(header)]
           base == [memory |-> m, result |-> "ok"]
           seq == Counting(count)
           Step(s, i) == IF s.result # "ok" THEN s
                         ELSE MapPage(s.memory, root, LoopIndex(page, i), flags,
                                      copy_segment(s.memory, PageAt(LoopIndex(page, i)), header))
           P(f) == f = [s \in SUBSET DOMAIN seq |-> IF s = {} THEN base ELSE Step(f[s \ {Max(s)}], seq[Max(s)])]
           Q(f) == f = [s \in SUBSET DOMAIN seq |-> IF s = {} THEN base ELSE Do(c, f[s \ {Max(s)}], seq[Max(s)])]
<1>1. CopyMap(m, page, count, flags, root, header)
        = (CHOOSE f : P(f))[DOMAIN seq]
  BY Zenon DEF CopyMap, map, FoldLeft, MapThenFoldSet
<1>2. Loop(c, base, seq) = (CHOOSE f : Q(f))[DOMAIN seq]
  BY Zenon DEF Loop, FoldLeft, MapThenFoldSet
<1>3. \A f : P(f) <=> Q(f)
  <2>1. \A s, x : Do(c, s, x) = Step(s, x)
    BY DEF Do, MapStep, Given, CopyGen
  <2> HIDE DEF Step, base, seq, c
  <2> QED BY <2>1
<1>4. (CHOOSE f : P(f)) = (CHOOSE f : Q(f))
  <2> HIDE DEF P, Q
  <2> QED BY <1>3, Zenon
<1>5. Loop(c, base, seq) = MapLoop(page, count, flags, root, CopyGen(header), m)
  BY Zenon DEF MapLoop
<1> HIDE DEF P, Q, c, base
<1> QED BY <1>1, <1>2, <1>4, <1>5, Zenon

\* map() with the frames of the father, as fork() calls it.
LEMMA FatherIsLoop ==
    ASSUME NEW m, NEW root, NEW page, NEW flags, NEW count, NEW father
    PROVE  FatherMap(m, page, count, flags, root, father)
             = MapLoop(page, count, flags, root, FatherGen(father), m)
<1> DEFINE c == [kind |-> "map", page |-> page, flags |-> flags, root |-> root, gen |-> FatherGen(father)]
           base == [memory |-> m, result |-> "ok"]
           seq == Counting(count)
           Step(s, i) == IF s.result # "ok" THEN s
                         ELSE MapPage(s.memory, root, LoopIndex(page, i), flags,
                                [memory |-> s.memory,
                                 frame |-> virtual_to_phisical(s.memory, PageAt(LoopIndex(page, i)), father)])
           P(f) == f = [s \in SUBSET DOMAIN seq |-> IF s = {} THEN base ELSE Step(f[s \ {Max(s)}], seq[Max(s)])]
           Q(f) == f = [s \in SUBSET DOMAIN seq |-> IF s = {} THEN base ELSE Do(c, f[s \ {Max(s)}], seq[Max(s)])]
<1>1. FatherMap(m, page, count, flags, root, father)
        = (CHOOSE f : P(f))[DOMAIN seq]
  BY Zenon DEF FatherMap, map, FoldLeft, MapThenFoldSet
<1>2. Loop(c, base, seq) = (CHOOSE f : Q(f))[DOMAIN seq]
  BY Zenon DEF Loop, FoldLeft, MapThenFoldSet
<1>3. \A f : P(f) <=> Q(f)
  <2>1. \A s, x : Do(c, s, x) = Step(s, x)
    BY DEF Do, MapStep, Given, FatherGen
  <2> HIDE DEF Step, base, seq, c
  <2> QED BY <2>1
<1>4. (CHOOSE f : P(f)) = (CHOOSE f : Q(f))
  <2> HIDE DEF P, Q
  <2> QED BY <1>3, Zenon
<1>5. Loop(c, base, seq) = MapLoop(page, count, flags, root, FatherGen(father), m)
  BY Zenon DEF MapLoop
<1> HIDE DEF P, Q, c, base
<1> QED BY <1>1, <1>2, <1>4, <1>5, Zenon

\* The rounds of a loop over n pages.
LEMMA CountingFacts ==
    ASSUME NEW count \in Nat
    PROVE  /\ Counting(count) \in Seq(Int) /\ Len(Counting(count)) = count
           /\ \A k \in 1..count : Counting(count)[k] = k - 1
BY DEF Counting

\* The loop of map(), whatever gives the frames.
LEMMA MapLoopFacts ==
    ASSUME NEW m, NEW use, NEW pg, NEW roots, Forest(m, use, pg, roots), Full(m, use),
           NEW s, s.root \in roots, GenOK(s.gen, roots), s.gen.kind = "father" => s.gen.root # s.root,
           NEW count \in Nat, LoopFits(s.page, count),
           NEW n, n = MapLoop(s.page, count, s.flags, s.root, s.gen, m)
    PROVE  /\ n.result \in {"ok", "error", "fault"}
           /\ n.result = "error" => Broken(m, use, pg, roots, s.root, n.memory)
           /\ n.result = "ok" => \E other, new :
                Spread(m, use, pg, roots, s, n.memory, other, new, count)
<1> DEFINE c == [kind |-> "map", page |-> s.page, flags |-> s.flags, root |-> s.root, gen |-> s.gen]
           base == [memory |-> m, result |-> "ok"]
           Good(t, k) ==
             /\ t.result \in {"ok", "error", "fault"}
             /\ t.result = "error" => Broken(m, use, pg, roots, s.root, t.memory)
             /\ t.result = "ok" => \E other, new : Spread(m, use, pg, roots, s, t.memory, other, new, k)
<1>1. PICK states : Rounds(states, c, base, Counting(count)) /\ states[count] = n
  <2>1. \E states : /\ Rounds(states, c, base, Counting(count))
                    /\ states[Len(Counting(count))] = Loop(c, base, Counting(count))
    <3> HIDE DEF c, base
    <3> QED BY CountingFacts, LoopUnfolds
  <2>2. n = Loop(c, base, Counting(count))
    BY Zenon DEF MapLoop
  <2> HIDE DEF c, base
  <2> QED BY <2>1, <2>2, CountingFacts
<1>2. /\ states[0] = base
      /\ \A k \in 1..count : states[k] = MapStep(c, states[k - 1], k - 1)
  <2>1. \A t, k : Do(c, t, k) = MapStep(c, t, k)
    BY DEF Do
  <2> HIDE DEF c, base
  <2> QED BY <1>1, <2>1, CountingFacts DEF Rounds
<1>3. \A t, k : MapStep(c, t, k) =
        IF t.result # "ok" THEN t
        ELSE MapPage(t.memory, s.root, LoopIndex(s.page, k), s.flags,
                     Given(s.gen, t.memory, PageAt(LoopIndex(s.page, k))))
  BY DEF MapStep
<1> DEFINE holds == {k \in 0..count : Good(states[k], k)}
<1>4. 0 \in holds
  <2>1. IndexesTo(s.page, 0) = {}
    BY DEF IndexesTo
  <2>2. Spread(m, use, pg, roots, s, m, use, pg, 0)
    BY <2>1 DEF Spread, DataKept, Taken
  <2>3. \E other, new : Spread(m, use, pg, roots, s, m, other, new, 0)
    BY <2>2
  <2>4. states[0].memory = m /\ states[0].result = "ok"
    BY <1>2
  <2> QED BY <2>3, <2>4
<1>5. ASSUME NEW k \in 0..(count - 1), k \in holds PROVE k + 1 \in holds
  <2> DEFINE t == states[k]
             next == states[k + 1]
  <2>1. /\ k + 1 \in 1..count /\ (k + 1) - 1 = k /\ k \in Nat /\ k + 1 \in 0..count
    OBVIOUS
  <2>2. next = MapStep(c, t, k)
    <3> HIDE DEF c
    <3> QED BY <1>2, <2>1
  <2>3. Good(t, k)
    BY <1>5
  <2> HIDE DEF t, next
  <2>4. CASE t.result # "ok"
    BY <1>3, <2>1, <2>2, <2>3, <2>4 DEF next
  <2>5. CASE t.result = "ok"
    <3> DEFINE a == LoopIndex(s.page, k)
    <3>1. a \in Unshared /\ PageAt(a) \in Nat /\ IndexOf(PageAt(a)) = a
      BY <2>1 DEF LoopFits
    <3>2. next = MapPage(t.memory, s.root, a, s.flags, Given(s.gen, t.memory, PageAt(a)))
      BY <1>3, <2>2, <2>5
    <3> HIDE DEF a
    <3>3. PICK other, new : Spread(m, use, pg, roots, s, t.memory, other, new, k)
      BY <2>3, <2>5
    <3>4. a = LoopIndex(s.page, k)
      BY DEF a
    <3>5. /\ next.result \in {"ok", "error", "fault"}
          /\ next.result = "error" => Broken(m, use, pg, roots, s.root, next.memory)
          /\ next.result = "ok" => \E last, newer :
                Spread(m, use, pg, roots, s, next.memory, last, newer, k + 1)
      BY <2>1, <3>1, <3>2, <3>3, <3>4, SpreadRound
    <3> QED BY <2>1, <3>5 DEF next
  <2> QED BY <2>4, <2>5
<1>6. count \in holds
  <2> HIDE DEF holds
  <2>1. \A k \in 0..count : k \in holds
    BY <1>4, <1>5, PositionInduction
  <2> QED BY <2>1
<1> QED BY <1>1, <1>6

\* What is left of use when only frames of root r were given back: its tables,
\* and its pages at the indexes of gone.
Released(use, other, r, gone) ==
    \A f \in Frame :
        \/ other[f] = use[f]
        \/ /\ other[f].kind = "free" /\ use[f].kind = "used" /\ use[f].root = r
           /\ use[f].level \in 1..(LEVELS - 1) \/ (use[f].level = 0 /\ use[f].index \in gone)

\* What is in the frames that are still in use stays.
DataLeft(m, n, other) == \A f \in Frame : other[f].kind # "free" => n.data[f] = m.data[f]

\* unmap() gives tables back in a loop over the levels.
LEMMA RemoveUnfolds ==
    ASSUME NEW m, NEW tables, NEW a
    PROVE  \E states :
             /\ states[0] = m
             /\ \A k \in 1..LEVELS :
                  states[k] = RemoveStep([kind |-> "remove", tables |-> tables, index |-> a],
                                         states[k - 1], k)
             /\ states[LEVELS] = RemovePage(m, tables, a)
<1> DEFINE c == [kind |-> "remove", tables |-> tables, index |-> a]
           seq == [k \in 1..LEVELS |-> k]
           Body(s, k) ==
            IF k = 1 THEN set_entry(s, tables[1], a[1], NULL, {})
            ELSE IF s.word[tables[k - 1]] # 0 THEN s
            ELSE set_entry(free_table(s, tables[k - 1]), tables[k], a[k], NULL, {})
<1>1. \A s, k : Do(c, s, k) = Body(s, k)
  BY DEF Do, RemoveStep
<1>2. RemovePage(m, tables, a) = Loop(c, m, seq)
  <2> DEFINE P(f) == f = [s \in SUBSET DOMAIN seq |->
                            IF s = {} THEN m ELSE Body(f[s \ {Max(s)}], seq[Max(s)])]
             Q(f) == f = [s \in SUBSET DOMAIN seq |->
                            IF s = {} THEN m ELSE Do(c, f[s \ {Max(s)}], seq[Max(s)])]
  <2>1. RemovePage(m, tables, a) = (CHOOSE f : P(f))[DOMAIN seq]
    BY Zenon DEF RemovePage, FoldLeft, MapThenFoldSet
  <2>2. Loop(c, m, seq) = (CHOOSE f : Q(f))[DOMAIN seq]
    BY Zenon DEF Loop, FoldLeft, MapThenFoldSet
  <2>3. \A f : P(f) <=> Q(f)
    <3> HIDE DEF Body, c, seq
    <3> QED BY <1>1
  <2>4. (CHOOSE f : P(f)) = (CHOOSE f : Q(f))
    <3> HIDE DEF P, Q
    <3> QED BY <2>3, Zenon
  <2> HIDE DEF P, Q, c, seq
  <2> QED BY <2>1, <2>2, <2>4, Zenon
<1>3. seq \in Seq(Int) /\ Len(seq) = LEVELS /\ \A k \in 1..LEVELS : seq[k] = k
  BY LevelsFact
<1>4. \A s, k : Do(c, s, k) = RemoveStep(c, s, k)
  BY DEF Do
<1> HIDE DEF c, seq
<1>5. PICK states : Rounds(states, c, m, seq) /\ states[Len(seq)] = Loop(c, m, seq)
  BY <1>3, LoopUnfolds
<1>6. /\ states[0] = m
      /\ \A k \in 1..LEVELS : states[k] = RemoveStep(c, states[k - 1], k)
      /\ states[LEVELS] = RemovePage(m, tables, a)
  BY <1>2, <1>3, <1>4, <1>5 DEF Rounds
<1> QED BY <1>6 DEF c

\* After the entry of the page and k - 1 emptied tables were cleared.
Cleared(m, use, new, roots, r, a, tables, n, other, k) ==
    /\ Forest(n, other, new, roots) /\ Filled(n, other, r, k, a)
    /\ \A j \in k..LEVELS : At(other, tables[j], r, j, a)
    /\ Released(use, other, r, {}) /\ DataLeft(m, n, other)

\* One level of that loop: the table is not empty, or it is given back.
LEMMA RemoveRound ==
    ASSUME NEW m, NEW use, NEW new, NEW roots, NEW r, NEW a \in Unshared, NEW tables,
           NEW n, NEW other, NEW k \in 1..(LEVELS - 1),
           Cleared(m, use, new, roots, r, a, tables, n, other, k),
           NEW next,
           next = IF n.word[tables[k]] # 0 THEN n
                  ELSE set_entry(free_table(n, tables[k]), tables[k + 1], a[k + 1], NULL, {})
    PROVE  \E last : Cleared(m, use, new, roots, r, a, tables, next, last, k + 1)
<1> DEFINE g == tables[k]
           f == tables[k + 1]
<1>1. k \in Nat /\ k + 1 \in 2..LEVELS /\ k \in 1..LEVELS /\ LEVELS \in Nat
      /\ \A j \in (k + 1)..LEVELS : j \in k..LEVELS /\ j # k
  BY LevelsFact
<1>2. At(other, g, r, k, a) /\ At(other, f, r, k + 1, a)
  BY <1>1 DEF Cleared
<1>3. Forest(n, other, new, roots) /\ Filled(n, other, r, k, a)
  BY DEF Cleared
<1>4. CASE n.word[g] # 0
  <2>1. \A h : At(other, h, r, k, a) => h = g
    BY <1>2, <1>3, PlacesAreApart
  <2>2. Full(n, other)
    BY <1>3, <1>4, <2>1 DEF Full, Filled
  <2>3. Filled(n, other, r, k + 1, a)
    BY <2>2 DEF Full, Filled
  <2>4. Cleared(m, use, new, roots, r, a, tables, next, other, k + 1)
    BY <1>1, <1>4, <2>3 DEF Cleared
  <2> QED BY <2>4
<1>5. CASE n.word[g] = 0
  <2> DEFINE last == Relabelled(other, g, "free")
  <2>1. /\ Forest(next, last, new, roots)
        /\ \A h \in Frame \ {g} : next.data[h] = n.data[h]
        /\ Filled(next, last, r, k + 1, a)
    <3> HIDE DEF g, f
    <3>1. next = set_entry(free_table(n, g), f, a[k + 1], NULL, {})
      BY <1>5 DEF g, f
    <3> QED BY <1>2, <1>3, <1>5, <3>1, TableDropped
  <2>2. g \in Frame /\ other \in [Frame -> Role] /\ other[g].kind = "used" /\ other[g].root = r
        /\ other[g].level = k
    BY <1>2, <1>3, ForestFacts DEF At
  <2>3. last[g].kind = "free" /\ \A h \in Frame \ {g} : last[h] = other[h]
    <3> HIDE DEF g
    <3> QED BY <2>2, RelabelledFacts
  <2> HIDE DEF last
  <2>4. \A j \in (k + 1)..LEVELS : At(last, tables[j], r, j, a)
    <3> SUFFICES ASSUME NEW j \in (k + 1)..LEVELS PROVE At(last, tables[j], r, j, a)
      OBVIOUS
    <3>1. At(other, tables[j], r, j, a) /\ j # k
      BY <1>1 DEF Cleared
    <3>2. tables[j] # g
      BY <2>2, <3>1 DEF At
    <3> QED BY <2>3, <3>1, <3>2 DEF At
  <2>5. Released(use, last, r, {})
    <3> SUFFICES ASSUME NEW h \in Frame
                 PROVE  \/ last[h] = use[h]
                        \/ /\ last[h].kind = "free" /\ use[h].kind = "used" /\ use[h].root = r
                           /\ use[h].level \in 1..(LEVELS - 1) \/ (use[h].level = 0 /\ use[h].index \in {})
      BY DEF Released
    <3>1. other[h] = use[h] \/ (/\ other[h].kind = "free" /\ use[h].kind = "used" /\ use[h].root = r
                                /\ use[h].level \in 1..(LEVELS - 1))
      BY DEF Cleared, Released
    <3>2. CASE h = g
      BY <2>2, <2>3, <3>1, <3>2
    <3>3. CASE h # g
      BY <2>3, <3>1, <3>3
    <3> QED BY <3>2, <3>3
  <2>6. DataLeft(m, next, last)
    BY <2>1, <2>3 DEF DataLeft, Cleared
  <2>7. Cleared(m, use, new, roots, r, a, tables, next, last, k + 1)
    BY <2>1, <2>4, <2>5, <2>6 DEF Cleared
  <2> QED BY <2>7
<1> QED BY <1>4, <1>5

\* unmap() clears the entry of a page.
LEMMA LeafCleared ==
    ASSUME NEW m, NEW use, NEW pg, NEW roots, Forest(m, use, pg, roots),
           NEW a \in Unshared, NEW t, NEW r, At(use, t, r, 1, a),
           \A h : ~At(use, h, r, 0, a)
    PROVE  LET q == set_entry(m, t, a[1], NULL, {})
           IN  /\ Forest(q, use, Mapping(pg, r, a, [frame |-> NULL, flags |-> {}]), roots)
               /\ q.data = m.data
               /\ Filled(m, use, r, LEVELS, a) => Filled(q, use, r, 1, a)
<1> DEFINE q == set_entry(m, t, a[1], NULL, {})
           none == {}
<1>1. use \in [Frame -> Role] /\ NULL \in Frame
  BY ForestFacts, FrameIsFinite
<1>2. PRESENT \notin none /\ none \in SUBSET {PRESENT, RW, USER} /\ q = set_entry(m, t, a[1], NULL, none)
  OBVIOUS
<1>3. PRESENT \notin none => none = {} /\ NULL = NULL
  OBVIOUS
<1> HIDE DEF q, none
<1>4. /\ Forest(q, use, Mapping(pg, r, a, [frame |-> NULL, flags |-> none]), roots)
      /\ q.data = m.data
      /\ Filled(m, use, r, IF PRESENT \in none THEN 1 ELSE LEVELS, a) =>
            Filled(q, use, r, IF PRESENT \in none THEN LEVELS ELSE 1, a)
  BY <1>1, <1>2, <1>3, LeafSet
<1> QED BY <1>2, <1>4 DEF q, none

\* A page is unmapped and every table that this leaves empty is given back.
LEMMA PageRemoved ==
    ASSUME NEW m, NEW use, NEW pg, NEW roots, Forest(m, use, pg, roots), Full(m, use),
           NEW r \in roots, NEW a \in Unshared, NEW tables,
           \A k \in 1..LEVELS : At(use, tables[k], r, k, a),
           \A h : ~At(use, h, r, 0, a)
    PROVE  LET n == RemovePage(m, tables, a)
           IN  \E other :
                 /\ Forest(n, other, Mapping(pg, r, a, Absent), roots) /\ Full(n, other)
                 /\ Released(use, other, r, {}) /\ DataLeft(m, n, other)
<1> DEFINE c == [kind |-> "remove", tables |-> tables, index |-> a]
           new == Mapping(pg, r, a, Absent)
           Good(s, k) == \E other : Cleared(m, use, new, roots, r, a, tables, s, other, k)
<1>1. PICK states :
        /\ states[0] = m
        /\ \A k \in 1..LEVELS : states[k] = RemoveStep(c, states[k - 1], k)
        /\ states[LEVELS] = RemovePage(m, tables, a)
  BY RemoveUnfolds
<1>2. LEVELS \in Nat /\ 1 \in 1..LEVELS /\ LEVELS >= 2
  BY LevelsFact
<1>3. Good(states[1], 1)
  <2> DEFINE n == set_entry(m, tables[1], a[1], NULL, {})
  <2>1. states[1] = n
    <3>1. states[1] = RemoveStep(c, states[0], 1)
      BY <1>1, <1>2
    <3> QED BY <1>1, <3>1 DEF RemoveStep
  <2>2. Absent = [frame |-> NULL, flags |-> {}] /\ NULL \in Frame
    BY FrameIsFinite DEF Absent
  <2>3. use \in [Frame -> Role] /\ At(use, tables[1], r, 1, a)
    BY <1>2, ForestFacts
  <2>4. Filled(m, use, r, LEVELS, a)
    BY FullIsFilled
  <2> HIDE DEF new
  <2>5. /\ Forest(n, use, Mapping(pg, r, a, [frame |-> NULL, flags |-> {}]), roots)
        /\ n.data = m.data
        /\ Filled(m, use, r, LEVELS, a) => Filled(n, use, r, 1, a)
    <3> DEFINE t == tables[1]
    <3> HIDE DEF t
    <3>1. At(use, t, r, 1, a)
      BY <2>3 DEF t
    <3>2. /\ Forest(set_entry(m, t, a[1], NULL, {}), use, Mapping(pg, r, a, [frame |-> NULL, flags |-> {}]), roots)
          /\ set_entry(m, t, a[1], NULL, {}).data = m.data
          /\ Filled(m, use, r, LEVELS, a) => Filled(set_entry(m, t, a[1], NULL, {}), use, r, 1, a)
      BY <3>1, LeafCleared
    <3> QED BY <3>2 DEF t
  <2>6. Cleared(m, use, new, roots, r, a, tables, n, use, 1)
    <3> HIDE DEF n
    <3>1. Forest(n, use, new, roots)
      BY <2>2, <2>5 DEF new
    <3> QED BY <2>4, <2>5, <3>1 DEF Cleared, Released, DataLeft
  <2> QED BY <2>1, <2>6
<1> DEFINE top == LEVELS - 1
           holds == {k \in 0..top : Good(states[k + 1], k + 1)}
<1>4. 0 \in holds
  <2> HIDE DEF Good
  <2> QED BY <1>2, <1>3
<1>5. ASSUME NEW k \in 0..(top - 1), k \in holds PROVE k + 1 \in holds
  <2> HIDE DEF new
  <2>1. k + 1 \in 1..(LEVELS - 1) /\ k + 2 \in 1..LEVELS /\ (k + 2) - 1 = k + 1 /\ (k + 1) + 1 = k + 2
        /\ k + 2 # 1 /\ k + 1 \in 0..top
    BY <1>2
  <2>2. PICK other : Cleared(m, use, new, roots, r, a, tables, states[k + 1], other, k + 1)
    BY <1>5
  <2>3. states[k + 2] = RemoveStep(c, states[k + 1], k + 2)
    <3> HIDE DEF c
    <3> QED BY <1>1, <2>1
  <2>4. states[k + 2] =
          IF states[k + 1].word[tables[k + 1]] # 0 THEN states[k + 1]
          ELSE set_entry(free_table(states[k + 1], tables[k + 1]), tables[k + 2], a[k + 2], NULL, {})
    BY <2>1, <2>3 DEF RemoveStep
  <2>5. \E last : Cleared(m, use, new, roots, r, a, tables, states[k + 2], last, k + 2)
    BY <2>1, <2>2, <2>4, RemoveRound
  <2> QED BY <2>1, <2>5
<1>6. Good(states[LEVELS], LEVELS)
  <2>1. top \in Nat /\ top \in 0..top /\ top + 1 = LEVELS
    BY <1>2
  <2>2. top \in holds
    <3> HIDE DEF holds, top
    <3>1. \A k \in 0..top : k \in holds
      BY <1>4, <1>5, <2>1, PositionInduction
    <3> QED BY <2>1, <3>1
  <2> QED BY <2>1, <2>2
<1>7. PICK other : Cleared(m, use, new, roots, r, a, tables, RemovePage(m, tables, a), other, LEVELS)
  BY <1>1, <1>6
<1> HIDE DEF new
<1>8. Full(RemovePage(m, tables, a), other)
  BY <1>7, FullIsFilled DEF Cleared
<1>9. \E last :
        /\ Forest(RemovePage(m, tables, a), last, new, roots) /\ Full(RemovePage(m, tables, a), last)
        /\ Released(use, last, r, {}) /\ DataLeft(m, RemovePage(m, tables, a), last)
  BY <1>7, <1>8 DEF Cleared
<1> QED BY <1>9 DEF new

\* The loop of unmap(), which frees the frames or does not.
UnmapLoop(page, count, root, free, m) ==
    Loop([kind |-> "unmap", page |-> page, root |-> root, free |-> free],
         [memory |-> m, result |-> "ok"], Counting(count))

\* unmap() with free_frame(), for the pages that are the process's own.
LEMMA FreeIsLoop ==
    ASSUME NEW m, NEW root, NEW page, NEW count
    PROVE  unmap(m, page, count, root, free_frame) = UnmapLoop(page, count, root, TRUE, m)
<1> DEFINE c == [kind |-> "unmap", page |-> page, root |-> root, free |-> TRUE]
           base == [memory |-> m, result |-> "ok"]
           seq == Counting(count)
           Step(s, i) ==
            LET index == LoopIndex(page, i)
                tables == Walk(s.memory, root, index)
            IN  IF s.result # "ok" THEN s
                ELSE IF tables[1] = NULL \/ ~IsPresent(s.memory, tables[1], index[1])
                THEN [s EXCEPT !.result = "error"]
                ELSE [s EXCEPT !.memory =
                        RemovePage(free_frame(s.memory, s.memory.table[tables[1]][index[1]].frame),
                                   tables, index)]
           P(f) == f = [s \in SUBSET DOMAIN seq |-> IF s = {} THEN base ELSE Step(f[s \ {Max(s)}], seq[Max(s)])]
           Q(f) == f = [s \in SUBSET DOMAIN seq |-> IF s = {} THEN base ELSE Do(c, f[s \ {Max(s)}], seq[Max(s)])]
<1>1. unmap(m, page, count, root, free_frame) = (CHOOSE f : P(f))[DOMAIN seq]
  BY Zenon DEF unmap, FoldLeft, MapThenFoldSet
<1>2. Loop(c, base, seq) = (CHOOSE f : Q(f))[DOMAIN seq]
  BY Zenon DEF Loop, FoldLeft, MapThenFoldSet
<1>3. \A f : P(f) <=> Q(f)
  <2>1. \A s, x : Do(c, s, x) = Step(s, x)
    BY DEF Do, UnmapStep, Dispose
  <2> HIDE DEF Step, base, seq, c
  <2> QED BY <2>1
<1>4. (CHOOSE f : P(f)) = (CHOOSE f : Q(f))
  <2> HIDE DEF P, Q
  <2> QED BY <1>3, Zenon
<1>5. Loop(c, base, seq) = UnmapLoop(page, count, root, TRUE, m)
  BY Zenon DEF UnmapLoop
<1> HIDE DEF P, Q, c, base
<1> QED BY <1>1, <1>2, <1>4, <1>5, Zenon

\* unmap() that frees nothing, for the pages of the father.
LEMMA KeepIsLoop ==
    ASSUME NEW m, NEW root, NEW page, NEW count
    PROVE  unmap(m, page, count, root, Keep) = UnmapLoop(page, count, root, FALSE, m)
<1> DEFINE c == [kind |-> "unmap", page |-> page, root |-> root, free |-> FALSE]
           base == [memory |-> m, result |-> "ok"]
           seq == Counting(count)
           Step(s, i) ==
            LET index == LoopIndex(page, i)
                tables == Walk(s.memory, root, index)
            IN  IF s.result # "ok" THEN s
                ELSE IF tables[1] = NULL \/ ~IsPresent(s.memory, tables[1], index[1])
                THEN [s EXCEPT !.result = "error"]
                ELSE [s EXCEPT !.memory = RemovePage(s.memory, tables, index)]
           P(f) == f = [s \in SUBSET DOMAIN seq |-> IF s = {} THEN base ELSE Step(f[s \ {Max(s)}], seq[Max(s)])]
           Q(f) == f = [s \in SUBSET DOMAIN seq |-> IF s = {} THEN base ELSE Do(c, f[s \ {Max(s)}], seq[Max(s)])]
<1>1. unmap(m, page, count, root, Keep) = (CHOOSE f : P(f))[DOMAIN seq]
  BY Zenon DEF unmap, FoldLeft, MapThenFoldSet, Keep
<1>2. Loop(c, base, seq) = (CHOOSE f : Q(f))[DOMAIN seq]
  BY Zenon DEF Loop, FoldLeft, MapThenFoldSet
<1>3. \A f : P(f) <=> Q(f)
  <2>1. \A s, x : Do(c, s, x) = Step(s, x)
    BY DEF Do, UnmapStep, Dispose
  <2> HIDE DEF Step, base, seq, c
  <2> QED BY <2>1
<1>4. (CHOOSE f : P(f)) = (CHOOSE f : Q(f))
  <2> HIDE DEF P, Q
  <2> QED BY <1>3, Zenon
<1>5. Loop(c, base, seq) = UnmapLoop(page, count, root, FALSE, m)
  BY Zenon DEF UnmapLoop
<1> HIDE DEF P, Q, c, base
<1> QED BY <1>1, <1>2, <1>4, <1>5, Zenon

\* What unmap() may be asked for: pages that are mapped, and whose frames belong
\* to the process if they are to be freed.
Unmappable(use, pg, r, page, count, free) ==
    /\ LoopFits(page, count)
    /\ \A i, j \in 0..(count - 1) : LoopIndex(page, i) = LoopIndex(page, j) => i = j
    /\ \A a \in IndexesTo(page, count) :
         /\ pg[r][a] # Absent
         /\ IF free THEN At(use, pg[r][a].frame, r, 0, a) ELSE \A h : ~At(use, h, r, 0, a)

\* After the pages of gone were unmapped.
Unmapped(m, use, pg, roots, r, gone, n, other, new) ==
    /\ Forest(n, other, new, roots) /\ Full(n, other)
    /\ Released(use, other, r, gone) /\ DataLeft(m, n, other)
    /\ \A q \in Frame \ {r} : new[q] = pg[q]
    /\ \A a \in Unshared : new[r][a] = IF a \in gone THEN Absent ELSE pg[r][a]

\* Released, for two steps.
LEMMA ReleasedTwice ==
    ASSUME NEW use, NEW middle, NEW other, NEW r, NEW gone, NEW more,
           Released(use, middle, r, gone), Released(middle, other, r, more)
    PROVE  Released(use, other, r, gone \cup more)
<1> SUFFICES ASSUME NEW f \in Frame
             PROVE  \/ other[f] = use[f]
                    \/ /\ other[f].kind = "free" /\ use[f].kind = "used" /\ use[f].root = r
                       /\ \/ use[f].level \in 1..(LEVELS - 1)
                          \/ (use[f].level = 0 /\ use[f].index \in gone \cup more)
  BY DEF Released
<1> DEFINE low == 1..(LEVELS - 1)
<1>1. \/ middle[f] = use[f]
      \/ /\ middle[f].kind = "free" /\ use[f].kind = "used" /\ use[f].root = r
         /\ use[f].level \in low \/ (use[f].level = 0 /\ use[f].index \in gone)
  BY DEF Released
<1>2. \/ other[f] = middle[f]
      \/ /\ other[f].kind = "free" /\ middle[f].kind = "used" /\ middle[f].root = r
         /\ middle[f].level \in low \/ (middle[f].level = 0 /\ middle[f].index \in more)
  BY DEF Released
<1> HIDE DEF low
<1>3. \/ other[f] = use[f]
      \/ /\ other[f].kind = "free" /\ use[f].kind = "used" /\ use[f].root = r
         /\ \/ use[f].level \in low
            \/ (use[f].level = 0 /\ use[f].index \in gone \cup more)
  BY <1>1, <1>2
<1> QED BY <1>3 DEF low

\* DataLeft, for two steps.
LEMMA DataLeftTwice ==
    ASSUME NEW m, NEW middle, NEW n, NEW use, NEW other, NEW r, NEW gone,
           DataLeft(m, middle, use), DataLeft(middle, n, other), Released(use, other, r, gone)
    PROVE  DataLeft(m, n, other)
BY DEF DataLeft, Released

\* What one round of the loop of unmap() leaves.
PageGone(m, use, pg, roots, r, a, c) ==
    LET tables == Walk(m, r, a)
        n == RemovePage(Dispose(c, m, m.table[tables[1]][a[1]].frame), tables, a)
    IN  /\ tables[1] # NULL /\ IsPresent(m, tables[1], a[1])
        /\ \E other :
             /\ Forest(n, other, Mapping(pg, r, a, Absent), roots) /\ Full(n, other)
             /\ Released(use, other, r, {a}) /\ DataLeft(m, n, other)

\* One page of the loop of unmap().
LEMMA PageUnmapped ==
    ASSUME NEW m, NEW use, NEW pg, NEW roots, Forest(m, use, pg, roots), Full(m, use),
           NEW r \in roots, NEW a \in Unshared, NEW free \in BOOLEAN,
           pg[r][a] # Absent,
           IF free THEN At(use, pg[r][a].frame, r, 0, a) ELSE \A h : ~At(use, h, r, 0, a),
           NEW c, c.free = free
    PROVE  PageGone(m, use, pg, roots, r, a, c)
<1> DEFINE tables == Walk(m, r, a)
           t == tables[1]
           g == m.table[t][a[1]].frame
           freed == Dispose(c, m, g)
<1>1. t # NULL /\ IsPresent(m, t, a[1]) /\ At(use, t, r, 1, a) /\ pg[r][a] = m.table[t][a[1]]
  BY MappedFacts
<1>2. g = pg[r][a].frame
  BY <1>1
<1>3. LEVELS \in Nat /\ LEVELS >= 2 /\ r \in Frame /\ use \in [Frame -> Role]
  BY LevelsFact, RootFacts, ForestFacts
<1>4. \A k \in 1..LEVELS : At(use, tables[k], r, k, a)
  <2> DEFINE none == {k \in 0..(LEVELS - 1) : tables[k + 1] # NULL}
  <2>1. 0 \in none
    BY <1>1, <1>3
  <2>2. ASSUME NEW k \in 0..((LEVELS - 1) - 1), k \in none PROVE k + 1 \in none
    <3>1. k + 1 \in 1..(LEVELS - 1) /\ k + 1 \in 0..(LEVELS - 1) /\ k + 1 + 1 = k + 2
      BY <1>3
    <3>2. a \in Idx /\ m \in Memory
      BY ForestFacts DEF Unshared
    <3>3. tables[k + 1] = IF tables[k + 2] = NULL \/ ~IsPresent(m, tables[k + 2], a[k + 2]) THEN NULL
                          ELSE m.table[tables[k + 2]][a[k + 2]].frame
      <4> HIDE DEF tables
      <4>1. \A j \in 1..(LEVELS - 1) :
              tables[j] = IF tables[j + 1] = NULL \/ ~IsPresent(m, tables[j + 1], a[j + 1]) THEN NULL
                          ELSE m.table[tables[j + 1]][a[j + 1]].frame
        BY <1>3, <3>2, WalkSteps DEF tables
      <4> QED BY <3>1, <4>1
    <3> HIDE DEF tables
    <3>4. tables[k + 2] # NULL
      BY <2>2, <3>3
    <3> QED BY <3>1, <3>4
  <2>3. \A k \in 0..(LEVELS - 1) : k \in none
    <3> HIDE DEF none
    <3> QED BY <1>3, <2>1, <2>2, PositionInduction
  <2>4. \A k \in 1..LEVELS : tables[k] # NULL
    <3> HIDE DEF tables
    <3> SUFFICES ASSUME NEW k \in 1..LEVELS PROVE tables[k] # NULL
      OBVIOUS
    <3>1. k - 1 \in 0..(LEVELS - 1) /\ (k - 1) + 1 = k
      BY <1>3
    <3>2. tables[(k - 1) + 1] # NULL
      BY <2>3, <3>1
    <3> QED BY <3>1, <3>2
  <2>5. \A k \in 1..LEVELS :
           IF tables[k] = NULL THEN \A f : ~At(use, f, r, k, a) ELSE At(use, tables[k], r, k, a)
    BY WalkFacts
  <2> HIDE DEF tables
  <2> QED BY <2>4, <2>5
<1>5. CASE ~free
  <2>1. freed = m
    BY <1>5 DEF Dispose
  <2>2. \A h : ~At(use, h, r, 0, a)
    BY <1>5
  <2> HIDE DEF tables, freed, t, g
  <2>3. PICK other :
           /\ Forest(RemovePage(m, tables, a), other, Mapping(pg, r, a, Absent), roots)
           /\ Full(RemovePage(m, tables, a), other)
           /\ Released(use, other, r, {}) /\ DataLeft(m, RemovePage(m, tables, a), other)
    BY <1>4, <2>2, PageRemoved
  <2>4. Released(use, other, r, {a})
    BY <2>3 DEF Released
  <2>5. t # NULL /\ IsPresent(m, t, a[1])
    BY <1>1
  <2> QED BY <2>1, <2>3, <2>4, <2>5 DEF tables, freed, t, g, PageGone
<1>6. CASE free
  <2> DEFINE mid == Relabelled(use, g, "free")
  <2>1. At(use, g, r, 0, a)
    BY <1>2, <1>6
  <2>2. g \in Frame /\ use[g].kind = "used" /\ use[g].level = 0 /\ use[g].root = r
        /\ SameAbove(use[g].index, a, 0)
    BY <2>1 DEF At
  <2>3. g >= kernel_frames
    <3> HIDE DEF g
    <3> QED BY <1>3, <2>2, ForestFacts
  <2>4. freed = free_frame(m, g)
    BY <1>6 DEF Dispose
  <2>5. use[g].index = a
    <3> HIDE DEF g
    <3>1. use[g].index \in Idx /\ a \in Idx
      BY <2>2, ForestFacts DEF Unshared
    <3> QED BY <2>2, <3>1, PlaceFacts
  <2> HIDE DEF tables, freed, t, g
  <2>6. /\ Forest(freed, mid, pg, roots)
        /\ \A h \in Frame \ {g} : freed.data[h] = m.data[h]
        /\ \A q, but, b : but \in Nat \ {0} /\ Filled(m, use, q, but, b) => Filled(freed, mid, q, but, b)
    BY <2>2, <2>3, <2>4, FrameFreed
  <2>7. Full(freed, mid)
    BY <2>6, FullKept
  <2>8. mid[g].kind = "free" /\ \A h \in Frame \ {g} : mid[h] = use[h]
    BY <1>3, <2>2, RelabelledFacts
  <2> HIDE DEF mid
  <2>9. \A k \in 1..LEVELS : At(mid, tables[k], r, k, a)
    <3> SUFFICES ASSUME NEW k \in 1..LEVELS PROVE At(mid, tables[k], r, k, a)
      OBVIOUS
    <3>1. At(use, tables[k], r, k, a) /\ k # 0
      BY <1>4
    <3>2. tables[k] # g
      BY <2>2, <3>1 DEF At
    <3> QED BY <2>8, <3>1, <3>2 DEF At
  <2>10. \A h : ~At(mid, h, r, 0, a)
    <3> SUFFICES ASSUME NEW h, At(mid, h, r, 0, a) PROVE FALSE
      OBVIOUS
    <3>1. h \in Frame /\ h # g
      BY <2>8 DEF At
    <3>2. At(use, h, r, 0, a)
      BY <2>8, <3>1 DEF At
    <3> QED BY <2>1, <3>1, <3>2, PlacesAreApart
  <2>11. PICK other :
           /\ Forest(RemovePage(freed, tables, a), other, Mapping(pg, r, a, Absent), roots)
           /\ Full(RemovePage(freed, tables, a), other)
           /\ Released(mid, other, r, {}) /\ DataLeft(freed, RemovePage(freed, tables, a), other)
    BY <2>6, <2>7, <2>9, <2>10, PageRemoved
  <2>12. Released(use, mid, r, {a})
    BY <2>2, <2>5, <2>8 DEF Released
  <2>13. Released(use, other, r, {a})
    <3>1. Released(use, other, r, {a} \cup {})
      BY <2>11, <2>12, ReleasedTwice
    <3> QED BY <3>1
  <2>14. DataLeft(m, freed, mid)
    BY <2>6, <2>8 DEF DataLeft
  <2>15. DataLeft(m, RemovePage(freed, tables, a), other)
    BY <2>11, <2>14, DataLeftTwice
  <2>16. t # NULL /\ IsPresent(m, t, a[1])
    BY <1>1
  <2>17. \E last :
           /\ Forest(RemovePage(freed, tables, a), last, Mapping(pg, r, a, Absent), roots)
           /\ Full(RemovePage(freed, tables, a), last)
           /\ Released(use, last, r, {a}) /\ DataLeft(m, RemovePage(freed, tables, a), last)
    BY <2>11, <2>13, <2>15
  <2> QED BY <2>16, <2>17 DEF tables, freed, t, g, PageGone
<1> QED BY <1>5, <1>6

\* What k rounds of the loop of unmap() leave: none fails.
Unmapping(m, use, pg, roots, r, page, k, n) ==
    /\ n = [memory |-> n.memory, result |-> "ok"]
    /\ \E other, new : Unmapped(m, use, pg, roots, r, IndexesTo(page, k), n.memory, other, new)

\* One round of the loop of unmap().
LEMMA UnmapRound ==
    ASSUME NEW m, NEW use, NEW pg, NEW roots, NEW r \in roots, NEW page, NEW count \in Nat,
           NEW free \in BOOLEAN, NEW k \in 0..(count - 1),
           Unmappable(use, pg, r, page, count, free), pg \in PageMaps,
           NEW c, c.page = page, c.root = r, c.free = free,
           NEW s, Unmapping(m, use, pg, roots, r, page, k, s)
    PROVE  Unmapping(m, use, pg, roots, r, page, k + 1, UnmapStep(c, s, k))
<1> DEFINE a == LoopIndex(page, k)
           tables == Walk(s.memory, r, a)
           q == RemovePage(Dispose(c, s.memory, s.memory.table[tables[1]][a[1]].frame), tables, a)
<1>1. a \in Unshared /\ a \in IndexesTo(page, count) /\ a \notin IndexesTo(page, k)
  <2>1. k \in Nat /\ k \in 0..(count - 1) /\ \A i \in 0..(k - 1) : i \in 0..(count - 1) /\ i # k
    OBVIOUS
  <2> QED BY <2>1 DEF Unmappable, LoopFits, IndexesTo
<1>0. s = [memory |-> s.memory, result |-> "ok"] /\ s.result = "ok"
  <2>1. s = [memory |-> s.memory, result |-> "ok"]
    BY DEF Unmapping
  <2> QED BY <2>1
<1>20. PICK other, new : Unmapped(m, use, pg, roots, r, IndexesTo(page, k), s.memory, other, new)
  BY DEF Unmapping
<1>2. /\ Forest(s.memory, other, new, roots) /\ Full(s.memory, other)
      /\ Released(use, other, r, IndexesTo(page, k)) /\ DataLeft(m, s.memory, other)
      /\ \A w \in Frame \ {r} : new[w] = pg[w]
      /\ \A b \in Unshared : new[r][b] = IF b \in IndexesTo(page, k) THEN Absent ELSE pg[r][b]
  BY <1>20 DEF Unmapped
<1>3. r \in Frame /\ new \in PageMaps
  BY <1>2, RootFacts DEF Forest, ForestTypes
<1> HIDE DEF a
<1>4. new[r][a] = pg[r][a] /\ pg[r][a] # Absent
  BY <1>1, <1>2 DEF Unmappable
<1>5. IF free THEN At(other, new[r][a].frame, r, 0, a) ELSE \A h : ~At(other, h, r, 0, a)
  <2>1. CASE free
    <3> DEFINE g == pg[r][a].frame
    <3>1. At(use, g, r, 0, a)
      BY <1>1, <2>1 DEF Unmappable
    <3> HIDE DEF g
    <3>2. g \in Frame /\ use[g].kind = "used" /\ use[g].level = 0 /\ SameAbove(use[g].index, a, 0)
      BY <3>1 DEF At
    <3>3. use[g].index \notin IndexesTo(page, k)
      <4>1. use[g].index \in Unshared \/ use[g].index \notin IndexesTo(page, k)
        BY <1>1, <1>2 DEF Unmapped, Unmappable, LoopFits, IndexesTo
      <4>2. a \in Idx
        BY <1>1 DEF Unshared
      <4>3. use[g].index \in Unshared => use[g].index = a
        BY <3>2, <4>2, PlaceFacts DEF Unshared
      <4> QED BY <1>1, <4>1, <4>3
    <3>4. other[g] = use[g]
      BY <1>2, <3>2, <3>3, LevelsFact DEF Released
    <3>5. At(other, g, r, 0, a)
      BY <3>1, <3>4 DEF At
    <3> QED BY <1>4, <2>1, <3>5 DEF g
  <2>2. CASE ~free
    <3>1. \A h : ~At(use, h, r, 0, a)
      BY <1>1, <2>2 DEF Unmappable
    <3>2. \A h \in Frame : other[h].kind = "used" => other[h] = use[h]
      BY <1>2 DEF Released
    <3> QED BY <2>2, <3>1, <3>2 DEF At
  <2> QED BY <2>1, <2>2
<1>6. /\ tables[1] # NULL /\ IsPresent(s.memory, tables[1], a[1])
      /\ \E last :
           /\ Forest(q, last, Mapping(new, r, a, Absent), roots) /\ Full(q, last)
           /\ Released(other, last, r, {a}) /\ DataLeft(s.memory, q, last)
  <2>1. PageGone(s.memory, other, new, roots, r, a, c)
    BY <1>1, <1>2, <1>4, <1>5, PageUnmapped
  <2> QED BY <2>1 DEF PageGone
<1>7. UnmapStep(c, s, k) = [s EXCEPT !.memory = q]
  BY <1>0, <1>6 DEF UnmapStep, a
<1> HIDE DEF q, tables
<1>8. UnmapStep(c, s, k) = [memory |-> q, result |-> "ok"]
  <2>1. s = [memory |-> s.memory, result |-> "ok"]
    BY <1>0
  <2>2. [s EXCEPT !.memory = q] = [memory |-> q, result |-> "ok"]
    BY <2>1
  <2> QED BY <1>7, <2>2
<1>9. PICK last :
        /\ Forest(q, last, Mapping(new, r, a, Absent), roots) /\ Full(q, last)
        /\ Released(other, last, r, {a}) /\ DataLeft(s.memory, q, last)
  BY <1>6
<1> DEFINE newer == Mapping(new, r, a, Absent)
<1>10. /\ \A w \in Frame, b \in Unshared :
             newer[w][b] = IF w = r /\ b = a THEN Absent ELSE new[w][b]
       /\ \A w \in Frame \ {r} : newer[w] = new[w]
  <2>1. Absent \in Entry
    BY FrameIsFinite DEF Absent, Entry
  <2> QED BY <1>1, <1>3, <2>1, MappingFacts
<1> HIDE DEF newer
<1>11. IndexesTo(page, k + 1) = IndexesTo(page, k) \cup {a}
  <2>1. \A i : i \in 0..((k + 1) - 1) <=> i \in 0..(k - 1) \/ i = k
    OBVIOUS
  <2> QED BY <2>1 DEF IndexesTo, a
<1>12. Unmapped(m, use, pg, roots, r, IndexesTo(page, k + 1), q, last, newer)
  <2>1. Forest(q, last, newer, roots)
    BY <1>9 DEF newer
  <2>2. Released(use, last, r, IndexesTo(page, k + 1))
    BY <1>2, <1>9, <1>11, ReleasedTwice
  <2>3. DataLeft(m, q, last)
    BY <1>2, <1>9, DataLeftTwice
  <2>4. \A w \in Frame \ {r} : newer[w] = pg[w]
    BY <1>2, <1>10
  <2>5. \A b \in Unshared : newer[r][b] = IF b \in IndexesTo(page, k + 1) THEN Absent ELSE pg[r][b]
    BY <1>2, <1>3, <1>10, <1>11
  <2> QED BY <1>9, <2>1, <2>2, <2>3, <2>4, <2>5 DEF Unmapped
<1>13. \E z, newest : Unmapped(m, use, pg, roots, r, IndexesTo(page, k + 1), q, z, newest)
  BY <1>12
<1>14. /\ [memory |-> q, result |-> "ok"].memory = q
  OBVIOUS
<1> QED BY <1>8, <1>13, <1>14 DEF Unmapping

\* The loop of unmap(): the pages are unmapped, and their frames given back or
\* left, as asked.
LEMMA UnmapLoopFacts ==
    ASSUME NEW m, NEW use, NEW pg, NEW roots, Forest(m, use, pg, roots), Full(m, use),
           NEW r \in roots, NEW page, NEW count \in Nat, NEW free \in BOOLEAN,
           Unmappable(use, pg, r, page, count, free)
    PROVE  \E other, new :
             Unmapped(m, use, pg, roots, r, IndexesTo(page, count),
                      UnmapLoop(page, count, r, free, m).memory, other, new)
<1> DEFINE c == [kind |-> "unmap", page |-> page, root |-> r, free |-> free]
           base == [memory |-> m, result |-> "ok"]
<1>1. PICK states : /\ Rounds(states, c, base, Counting(count))
                    /\ states[count] = UnmapLoop(page, count, r, free, m)
  <2>1. \E states : /\ Rounds(states, c, base, Counting(count))
                    /\ states[Len(Counting(count))] = Loop(c, base, Counting(count))
    <3> HIDE DEF c, base
    <3> QED BY CountingFacts, LoopUnfolds
  <2>2. UnmapLoop(page, count, r, free, m) = Loop(c, base, Counting(count))
    BY Zenon DEF UnmapLoop
  <2> HIDE DEF c, base
  <2> QED BY <2>1, <2>2, CountingFacts
<1>2. /\ states[0] = base
      /\ \A k \in 1..count : states[k] = UnmapStep(c, states[k - 1], k - 1)
  <2>1. \A t, k : Do(c, t, k) = UnmapStep(c, t, k)
    BY DEF Do
  <2> HIDE DEF c, base
  <2> QED BY <1>1, <2>1, CountingFacts DEF Rounds
<1>3. c.page = page /\ c.root = r /\ c.free = free
  OBVIOUS
<1>4. pg \in PageMaps
  BY DEF Forest, ForestTypes
<1> DEFINE holds == {k \in 0..count : Unmapping(m, use, pg, roots, r, page, k, states[k])}
<1>5. 0 \in holds
  <2>1. IndexesTo(page, 0) = {}
    BY DEF IndexesTo
  <2>2. Unmapped(m, use, pg, roots, r, IndexesTo(page, 0), m, use, pg)
    BY <2>1 DEF Unmapped, DataLeft, Released
  <2>3. states[0].memory = m /\ states[0] = [memory |-> states[0].memory, result |-> "ok"]
    BY <1>2
  <2>4. \E other, new : Unmapped(m, use, pg, roots, r, IndexesTo(page, 0), m, other, new)
    BY <2>2
  <2> QED BY <2>3, <2>4 DEF Unmapping
<1> HIDE DEF c
<1>6. ASSUME NEW k \in 0..(count - 1), k \in holds PROVE k + 1 \in holds
  <2>1. k + 1 \in 1..count /\ k + 1 \in 0..count /\ (k + 1) - 1 = k
    OBVIOUS
  <2>2. states[k + 1] = UnmapStep(c, states[k], k)
    BY <1>2, <2>1
  <2>3. Unmapping(m, use, pg, roots, r, page, k, states[k])
    BY <1>6
  <2>4. Unmapping(m, use, pg, roots, r, page, k + 1, UnmapStep(c, states[k], k))
    BY <1>3, <1>4, <2>3, UnmapRound
  <2> QED BY <2>1, <2>2, <2>4
<1>7. count \in holds
  <2> HIDE DEF holds
  <2>1. \A k \in 0..count : k \in holds
    BY <1>5, <1>6, PositionInduction
  <2> QED BY <2>1
<1> QED BY <1>1, <1>7 DEF Unmapping

\* An entry of a mapping history.
RegionType == [page : Nat, count : Nat, flags : SUBSET {RW, USER}]

\* No region has the page that separates the stack from the system stack.
OffGap(g) == \A i \in 0..(g.count - 1) : g.page + i # stack_top - 1
InPages(g) == \A i \in 0..(g.count - 1) : g.page + i \in Page

\* A region that the kernel maps: it lies in memory, outside the part shared
\* with the kernel.
RegionOK(g) ==
    /\ g \in RegionType /\ LoopFits(g.page, g.count) /\ InPages(g) /\ OffGap(g)
    /\ \A i \in 0..(g.count - 1) : LoopIndex(g.page, i) = IndexOf(g.page + i)

RegionIndexes(g) == IndexesTo(g.page, g.count)

\* row is what the tables of a process map: the regions of a history that are in D.
Held(row, h, D) ==
    /\ \A n \in D : RegionOK(h[n])
    /\ \A a \in Unshared : row[a] # Absent <=> \E n \in D : a \in RegionIndexes(h[n])
    /\ \A n \in D : \A a \in RegionIndexes(h[n]) : row[a].flags = MapFlags(h[n].flags)
    /\ \A n, o \in D : RegionIndexes(h[n]) \cap RegionIndexes(h[o]) # {} => n = o
    /\ \A n \in D : \A i, j \in 0..(h[n].count - 1) :
         LoopIndex(h[n].page, i) = LoopIndex(h[n].page, j) => i = j

\* The frames of these regions belong to the process with this root, or none does.
Mine(use, row, r, h, D) ==
    \A n \in D : \A a \in RegionIndexes(h[n]) : At(use, row[a].frame, r, 0, a)
NotMine(use, r, h, D) ==
    \A n \in D : \A a \in RegionIndexes(h[n]) : \A x : ~At(use, x, r, 0, a)

\* Who owns the frames of a region stays, whichever regions these are.
StillMine(use, row, other, after, r, h, D) ==
    \A B \in SUBSET D :
        /\ Mine(use, row, r, h, B) => Mine(other, after, r, h, B)
        /\ NotMine(use, r, h, B) => NotMine(other, r, h, B)

\* What is used of a region.
LEMMA RegionFacts ==
    ASSUME NEW g, RegionOK(g)
    PROVE  /\ RegionIndexes(g) \subseteq Unshared /\ g.count \in Nat /\ g.page \in Nat
           /\ g.flags \in SUBSET {RW, USER} /\ LoopFits(g.page, g.count)
           /\ RegionIndexes(g) = IndexesTo(g.page, g.count)
BY DEF RegionOK, RegionIndexes, IndexesTo, LoopFits, RegionType

\* A frame that is a page of a process is mapped there.
LEMMA PageIsLeaf ==
    ASSUME NEW m, NEW use, NEW pg, NEW roots, Forest(m, use, pg, roots),
           NEW f, NEW r, NEW a \in Unshared, At(use, f, r, 0, a)
    PROVE  pg[r][a].frame = f /\ pg[r][a] # Absent
<1>1. 0 < LEVELS /\ 0 + 1 = 1
  BY LevelsFact
<1>2. PICK t \in Frame : At(use, t, r, 1, a) /\ IsPresent(m, t, a[1]) /\ m.table[t][a[1]].frame = f
  BY <1>1, PlacesAreApart
<1>3. use[t].kind = "used" /\ use[t].level = 1 /\ use[t].root = r /\ SameAbove(use[t].index, a, 1)
  BY <1>2 DEF At
<1>4. pg[r][a] = m.table[t][a[1]]
  BY <1>2, <1>3 DEF Forest, Leaves
<1>5. PRESENT \notin Absent.flags
  BY DEF Absent
<1> QED BY <1>2, <1>4, <1>5 DEF IsPresent

\* A region that is mapped is added to what the tables hold.
LEMMA HeldSpread ==
    ASSUME NEW m, NEW use, NEW pg, NEW roots, Forest(m, use, pg, roots),
           NEW s, NEW q, NEW last, NEW newer, NEW h, NEW D, NEW n, n \notin D,
           Held(pg[s.root], h, D), RegionOK(h[n]),
           s.page = h[n].page, s.flags = h[n].flags, NEW count, count = h[n].count,
           Spread(m, use, pg, roots, s, q, last, newer, count)
    PROVE  Held(newer[s.root], h, D \cup {n})
<1> DEFINE r == s.root
           gone == RegionIndexes(h[n])
           row == pg[r]
           after == newer[r]
<1>1. gone = IndexesTo(s.page, count) /\ gone \subseteq Unshared
  BY RegionFacts
<1>2. /\ \A a \in Unshared \ gone : after[a] = row[a]
      /\ \A a \in gone : row[a] = Absent /\ after[a].flags = MapFlags(s.flags)
      /\ \A i, j \in 0..(count - 1) : LoopIndex(s.page, i) = LoopIndex(s.page, j) => i = j
  BY <1>1 DEF Spread
<1>3. \A a \in gone : after[a] # Absent
  BY <1>2 DEF Absent, MapFlags
<1>4. \A o \in D : RegionIndexes(h[o]) \subseteq Unshared /\ RegionIndexes(h[o]) \cap gone = {}
  <2> SUFFICES ASSUME NEW o \in D
               PROVE  RegionIndexes(h[o]) \subseteq Unshared /\ RegionIndexes(h[o]) \cap gone = {}
    OBVIOUS
  <2>1. RegionIndexes(h[o]) \subseteq Unshared
    BY RegionFacts DEF Held
  <2>2. \A a \in RegionIndexes(h[o]) : row[a] # Absent
    BY <2>1 DEF Held
  <2> QED BY <1>2, <2>1, <2>2
<1> DEFINE E == D \cup {n}
<1>5. \A o \in E : RegionOK(h[o])
  BY DEF Held
<1>6. ASSUME NEW a \in Unshared
      PROVE  after[a] # Absent <=> \E o \in E : a \in RegionIndexes(h[o])
  <2>1. CASE a \in gone
    BY <1>3, <2>1
  <2>2. CASE a \notin gone
    <3>1. after[a] = row[a]
      BY <1>2, <2>2
    <3> QED BY <2>2, <3>1 DEF Held
  <2> QED BY <2>1, <2>2
<1>7. ASSUME NEW o \in E, NEW a \in RegionIndexes(h[o])
      PROVE  after[a].flags = MapFlags(h[o].flags)
  <2>1. CASE o = n
    BY <1>2, <2>1
  <2>2. CASE o \in D
    <3>1. after[a] = row[a]
      BY <1>2, <1>4, <2>2
    <3> QED BY <2>2, <3>1 DEF Held
  <2> QED BY <2>1, <2>2
<1>8. ASSUME NEW o \in E, NEW z \in E, RegionIndexes(h[o]) \cap RegionIndexes(h[z]) # {}
      PROVE  o = z
  BY <1>4, <1>8 DEF Held
<1>9. \A o \in E : \A i, j \in 0..(h[o].count - 1) :
         LoopIndex(h[o].page, i) = LoopIndex(h[o].page, j) => i = j
  BY <1>2 DEF Held
<1> QED BY <1>5, <1>6, <1>7, <1>8, <1>9 DEF Held

\* The frames that map() allocates belong to the process, those of the father
\* do not.
LEMMA MineSpread ==
    ASSUME NEW m, NEW use, NEW pg, NEW roots, Forest(m, use, pg, roots),
           NEW s, NEW q, NEW last, NEW newer, NEW h, NEW D, NEW n, n \notin D,
           Held(pg[s.root], h, D), RegionOK(h[n]),
           s.page = h[n].page, s.flags = h[n].flags, NEW count, count = h[n].count,
           Spread(m, use, pg, roots, s, q, last, newer, count)
    PROVE  /\ StillMine(use, pg[s.root], last, newer[s.root], s.root, h, D)
           /\ s.gen.kind # "father" => Mine(last, newer[s.root], s.root, h, {n})
           /\ s.gen.kind = "father" => NotMine(last, s.root, h, {n})
<1> DEFINE r == s.root
           gone == RegionIndexes(h[n])
           row == pg[r]
           after == newer[r]
<1>1. gone = IndexesTo(s.page, count) /\ gone \subseteq Unshared
  BY RegionFacts
<1>2. /\ \A a \in Unshared \ gone : after[a] = row[a]
      /\ \A a \in gone : row[a] = Absent
      /\ \A a \in gone : s.gen.kind # "father" => At(last, after[a].frame, r, 0, a)
      /\ Taken(use, last, r, IF s.gen.kind = "father" THEN {} ELSE gone)
  BY <1>1 DEF Spread
<1>3. \A o \in D : RegionIndexes(h[o]) \subseteq Unshared /\ RegionIndexes(h[o]) \cap gone = {}
  <2> SUFFICES ASSUME NEW o \in D
               PROVE  RegionIndexes(h[o]) \subseteq Unshared /\ RegionIndexes(h[o]) \cap gone = {}
    OBVIOUS
  <2>1. RegionIndexes(h[o]) \subseteq Unshared
    BY RegionFacts DEF Held
  <2>2. \A a \in RegionIndexes(h[o]) : row[a] # Absent
    BY <2>1 DEF Held
  <2> QED BY <1>2, <2>1, <2>2
<1>4. ASSUME NEW a \in Unshared, NEW x, At(last, x, r, 0, a), a \notin gone \/ s.gen.kind = "father"
      PROVE  At(use, x, r, 0, a)
  <2>1. x \in Frame /\ last[x].kind = "used" /\ last[x].level = 0 /\ SameAbove(last[x].index, a, 0)
    BY <1>4 DEF At
  <2>2. CASE use[x].kind # "free"
    <3>1. last[x] = use[x]
      BY <1>2, <2>1, <2>2 DEF Taken
    <3> QED BY <1>4, <3>1 DEF At
  <2>3. CASE use[x].kind = "free"
    <3>1. s.gen.kind # "father" /\ last[x].index \in gone
      BY <1>2, <2>1, <2>3 DEF Taken
    <3>2. last[x].index \in Idx /\ a \in Idx
      BY <1>1, <3>1 DEF Unshared
    <3>3. last[x].index = a
      BY <2>1, <3>2, PlaceFacts
    <3> QED BY <1>4, <3>1, <3>3
  <2> QED BY <2>2, <2>3
<1>5. ASSUME NEW B \in SUBSET D, Mine(use, row, r, h, B)
      PROVE  Mine(last, after, r, h, B)
  <2> SUFFICES ASSUME NEW o \in B, NEW a \in RegionIndexes(h[o])
               PROVE  At(last, after[a].frame, r, 0, a)
    BY DEF Mine
  <2>1. after[a] = row[a] /\ At(use, row[a].frame, r, 0, a)
    BY <1>2, <1>3, <1>5 DEF Mine
  <2> DEFINE x == row[a].frame
  <2>2. At(use, x, r, 0, a)
    BY <2>1
  <2> HIDE DEF x
  <2>3. last[x] = use[x]
    BY <1>2, <2>2 DEF Taken, At
  <2>4. At(last, x, r, 0, a)
    BY <2>2, <2>3 DEF At
  <2> QED BY <2>1, <2>4 DEF x
<1>6. ASSUME NEW B \in SUBSET D, NotMine(use, r, h, B)
      PROVE  NotMine(last, r, h, B)
  <2> SUFFICES ASSUME NEW o \in B, NEW a \in RegionIndexes(h[o]), NEW x, At(last, x, r, 0, a)
               PROVE  FALSE
    BY DEF NotMine
  <2>1. a \in Unshared /\ a \notin gone
    BY <1>3
  <2>2. At(use, x, r, 0, a)
    BY <1>4, <2>1
  <2> QED BY <1>6, <2>2 DEF NotMine
<1>7. s.gen.kind # "father" => Mine(last, after, r, h, {n})
  BY <1>2 DEF Mine
<1>8. ASSUME s.gen.kind = "father" PROVE NotMine(last, r, h, {n})
  <2> SUFFICES ASSUME NEW a \in gone, NEW x, At(last, x, r, 0, a)
               PROVE  FALSE
    BY DEF NotMine
  <2>1. At(use, x, r, 0, a)
    BY <1>1, <1>4, <1>8
  <2>2. pg[r][a] # Absent
    BY <1>1, <2>1, PageIsLeaf
  <2> QED BY <1>2, <2>2
<1> QED BY <1>5, <1>6, <1>7, <1>8 DEF StillMine

\* A region that is unmapped is taken from what the tables hold.
LEMMA HeldUnmapped ==
    ASSUME NEW m, NEW use, NEW pg, NEW roots, NEW r,
           NEW q, NEW last, NEW newer, NEW h, NEW D, NEW n \in D,
           Held(pg[r], h, D),
           Unmapped(m, use, pg, roots, r, RegionIndexes(h[n]), q, last, newer)
    PROVE  /\ Held(newer[r], h, D \ {n})
           /\ StillMine(use, pg[r], last, newer[r], r, h, D \ {n})
<1> DEFINE gone == RegionIndexes(h[n])
           row == pg[r]
           after == newer[r]
           E == D \ {n}
<1>1. gone \subseteq Unshared /\ \A o \in D : RegionIndexes(h[o]) \subseteq Unshared
  BY RegionFacts DEF Held
<1>2. /\ \A a \in Unshared : after[a] = IF a \in gone THEN Absent ELSE row[a]
      /\ Released(use, last, r, gone)
  BY DEF Unmapped
<1>3. \A o \in E : RegionIndexes(h[o]) \cap gone = {}
  BY DEF Held
<1>4. Held(after, h, E)
  <2>1. ASSUME NEW a \in Unshared
        PROVE  after[a] # Absent <=> \E o \in E : a \in RegionIndexes(h[o])
    <3>1. CASE a \in gone
      BY <1>2, <1>3, <3>1
    <3>2. CASE a \notin gone
      <4>1. after[a] = row[a]
        BY <1>2, <3>2
      <4> QED BY <3>2, <4>1 DEF Held
    <3> QED BY <3>1, <3>2
  <2>2. ASSUME NEW o \in E, NEW a \in RegionIndexes(h[o])
        PROVE  after[a].flags = MapFlags(h[o].flags)
    <3>1. after[a] = row[a]
      BY <1>1, <1>2, <1>3
    <3> QED BY <3>1 DEF Held
  <2> HIDE DEF after
  <2> QED BY <2>1, <2>2 DEF Held
<1>5. ASSUME NEW B \in SUBSET E, Mine(use, row, r, h, B) PROVE Mine(last, after, r, h, B)
  <2> SUFFICES ASSUME NEW o \in B, NEW a \in RegionIndexes(h[o])
               PROVE  At(last, after[a].frame, r, 0, a)
    BY DEF Mine
  <2>1. a \in Unshared /\ a \notin gone
    BY <1>1, <1>3
  <2>2. after[a] = row[a] /\ At(use, row[a].frame, r, 0, a)
    BY <1>2, <1>5, <2>1 DEF Mine
  <2> DEFINE x == row[a].frame
  <2>3. At(use, x, r, 0, a)
    BY <2>2
  <2> HIDE DEF x
  <2>4. x \in Frame /\ use[x].level = 0 /\ SameAbove(use[x].index, a, 0) /\ 0 \notin 1..(LEVELS - 1)
    BY <2>3, LevelsFact DEF At
  <2>5. use[x].index \in gone => use[x].index = a
    <3>1. gone \subseteq Idx /\ a \in Idx
      BY <1>1, <2>1 DEF Unshared
    <3> QED BY <2>4, <3>1, PlaceFacts
  <2>6. last[x] = use[x]
    BY <1>2, <2>1, <2>4, <2>5 DEF Released
  <2>7. At(last, x, r, 0, a)
    BY <2>3, <2>6 DEF At
  <2> QED BY <2>2, <2>7 DEF x
<1>6. ASSUME NEW B \in SUBSET E, NotMine(use, r, h, B) PROVE NotMine(last, r, h, B)
  <2>1. \A x \in Frame : last[x].kind = "used" => last[x] = use[x]
    BY <1>2 DEF Released
  <2> QED BY <1>6, <2>1 DEF NotMine, At
<1> QED BY <1>4, <1>5, <1>6 DEF StillMine

\* What a history holds can be unmapped.
LEMMA UnmappableRegion ==
    ASSUME NEW use, NEW row, NEW pg, NEW r, row = pg[r], NEW h, NEW D, NEW n \in D, Held(row, h, D),
           NEW free \in BOOLEAN, IF free THEN Mine(use, row, r, h, {n}) ELSE NotMine(use, r, h, {n})
    PROVE  Unmappable(use, pg, r, h[n].page, h[n].count, free)
<1>1. RegionIndexes(h[n]) = IndexesTo(h[n].page, h[n].count) /\ LoopFits(h[n].page, h[n].count)
      /\ RegionIndexes(h[n]) \subseteq Unshared
  BY RegionFacts DEF Held
<1>2. \A a \in RegionIndexes(h[n]) : row[a] # Absent
  BY <1>1 DEF Held
<1>3. \A i, j \in 0..(h[n].count - 1) : LoopIndex(h[n].page, i) = LoopIndex(h[n].page, j) => i = j
  BY DEF Held
<1> QED BY <1>1, <1>2, <1>3 DEF Unmappable, Mine, NotMine

\* The same regions at other places of another history.
LEMMA HeldMoved ==
    ASSUME NEW use, NEW row, NEW r, NEW h, NEW i \in Int, NEW j \in Int, NEW g, NEW d \in Int,
           \A n \in i..j : g[n + d] = h[n]
    PROVE  /\ Held(row, h, i..j) => Held(row, g, (i + d)..(j + d))
           /\ Mine(use, row, r, h, i..j) => Mine(use, row, r, g, (i + d)..(j + d))
           /\ NotMine(use, r, h, i..j) => NotMine(use, r, g, (i + d)..(j + d))
<1> DEFINE D == i..j
           E == (i + d)..(j + d)
<1>1. \A z \in E : \E n \in D : z = n + d /\ g[z] = h[n]
  <2> SUFFICES ASSUME NEW z \in E PROVE \E n \in D : z = n + d /\ g[z] = h[n]
    OBVIOUS
  <2>1. z - d \in D /\ z = (z - d) + d
    OBVIOUS
  <2> QED BY <2>1
<1>2. \A n \in D : n + d \in E /\ g[n + d] = h[n]
  OBVIOUS
<1> HIDE DEF D
<1>3. ASSUME Held(row, h, D) PROVE Held(row, g, E)
  <2> HIDE DEF E
  <2>1. \A z \in E : RegionOK(g[z])
    BY <1>1, <1>3 DEF Held
  <2>2. \A a \in Unshared : row[a] # Absent <=> \E z \in E : a \in RegionIndexes(g[z])
    BY <1>1, <1>2, <1>3 DEF Held
  <2>3. \A z \in E : \A a \in RegionIndexes(g[z]) : row[a].flags = MapFlags(g[z].flags)
    BY <1>1, <1>3 DEF Held
  <2>4. \A y, z \in E : RegionIndexes(g[y]) \cap RegionIndexes(g[z]) # {} => y = z
    BY <1>1, <1>3 DEF Held
  <2>5. \A z \in E : \A x, y \in 0..(g[z].count - 1) :
          LoopIndex(g[z].page, x) = LoopIndex(g[z].page, y) => x = y
    BY <1>1, <1>3 DEF Held
  <2> QED BY <2>1, <2>2, <2>3, <2>4, <2>5 DEF Held
<1>4. Mine(use, row, r, h, D) => Mine(use, row, r, g, E)
  <2> HIDE DEF E
  <2> QED BY <1>1 DEF Mine
<1>5. NotMine(use, r, h, D) => NotMine(use, r, g, E)
  <2> HIDE DEF E
  <2> QED BY <1>1 DEF NotMine
<1> QED BY <1>3, <1>4, <1>5 DEF D

\* What is mapped for a process is what its two histories say; own says whether
\* the frames of the second are its own.
Shape(use, row, r, private, mapping, own) ==
    LET h == private \o mapping
        first == 1..Len(private)
        others == (Len(private) + 1)..(Len(private) + Len(mapping))
    IN  /\ Held(row, h, 1..(Len(private) + Len(mapping)))
        /\ Mine(use, row, r, h, first)
        /\ IF own THEN Mine(use, row, r, h, others) ELSE NotMine(use, r, h, others)

\* The type of a mapping history.
Histories == Seq(RegionType)

\* A region mapped for a process goes to the front of its private history.
LEMMA SpreadShape ==
    ASSUME NEW m, NEW use, NEW pg, NEW roots, Forest(m, use, pg, roots),
           NEW private \in Histories, NEW mapping \in Histories, NEW own,
           NEW region, RegionOK(region), NEW s, NEW q, NEW last, NEW newer,
           Shape(use, pg[s.root], s.root, private, mapping, own),
           s.page = region.page, s.flags = region.flags, s.gen.kind # "father",
           Spread(m, use, pg, roots, s, q, last, newer, region.count)
    PROVE  Shape(last, newer[s.root], s.root, <<region>> \o private, mapping, own)
<1> DEFINE r == s.root
           h == private \o mapping
           g == <<region>> \o h
           p == Len(private)
           t == Len(mapping)
           row == pg[r]
           after == newer[r]
<1>1. /\ p \in Nat /\ t \in Nat /\ h \in Seq(RegionType) /\ Len(h) = p + t
      /\ region \in RegionType /\ g \in Seq(RegionType)
      /\ g = (<<region>> \o private) \o mapping /\ Len(<<region>> \o private) = p + 1
      /\ g[1] = region /\ \A n \in 1..(p + t) : g[n + 1] = h[n]
  BY DEF Histories, RegionOK
<1>2. /\ Held(row, h, 1..(p + t)) /\ Mine(use, row, r, h, 1..p)
      /\ IF own THEN Mine(use, row, r, h, (p + 1)..(p + t)) ELSE NotMine(use, r, h, (p + 1)..(p + t))
  BY DEF Shape
<1> HIDE DEF h, g, p, t, row, after, r
<1>3. 1 + 1 = 2 /\ p + 1 + 1 = p + 2 /\ p \in Int /\ p + t \in Int /\ p + 1 \in Int /\ 1 \in Int
  BY <1>1
<1>4. Held(row, g, 2..(p + t + 1))
  <2>1. Held(row, g, (1 + 1)..(p + t + 1))
    BY <1>1, <1>2, <1>3, HeldMoved
  <2> QED BY <1>3, <2>1
<1>5. Mine(use, row, r, g, 2..(p + 1))
  <2>1. \A n \in 1..p : g[n + 1] = h[n]
    <3> SUFFICES ASSUME NEW n \in 1..p PROVE g[n + 1] = h[n]
      OBVIOUS
    <3>1. n \in 1..(p + t)
      BY ONLY <1>1
    <3> QED BY ONLY <1>1, <3>1
  <2>2. Mine(use, row, r, g, (1 + 1)..(p + 1))
    BY <1>2, <1>3, <2>1, HeldMoved
  <2> QED BY <1>3, <2>2
<1>6. IF own THEN Mine(use, row, r, g, (p + 2)..(p + t + 1)) ELSE NotMine(use, r, g, (p + 2)..(p + t + 1))
  <2>1. \A n \in (p + 1)..(p + t) : g[n + 1] = h[n]
    <3> SUFFICES ASSUME NEW n \in (p + 1)..(p + t) PROVE g[n + 1] = h[n]
      OBVIOUS
    <3>1. n \in 1..(p + t)
      BY ONLY <1>1
    <3> QED BY ONLY <1>1, <3>1
  <2>2. /\ Mine(use, row, r, h, (p + 1)..(p + t)) => Mine(use, row, r, g, (p + 1 + 1)..(p + t + 1))
        /\ NotMine(use, r, h, (p + 1)..(p + t)) => NotMine(use, r, g, (p + 1 + 1)..(p + t + 1))
    BY <1>3, <2>1, HeldMoved
  <2> QED BY <1>2, <1>3, <2>2
<1> DEFINE D == 2..(p + t + 1)
<1>7. /\ D \cup {1} = 1..(p + 1 + t) /\ 1 \notin D
      /\ 2..(p + 1) \in SUBSET D /\ (p + 2)..(p + t + 1) \in SUBSET D
      /\ 2..(p + 1) \cup {1} = 1..(p + 1)
      /\ (p + 2)..(p + t + 1) = (p + 1 + 1)..(p + 1 + t)
  BY <1>1
<1> HIDE DEF D
<1>8. Held(row, g, D) /\ row = pg[s.root] /\ r = s.root
  BY <1>4 DEF D, row, r
<1>15. /\ RegionOK(g[1]) /\ s.page = g[1].page /\ s.flags = g[1].flags
       /\ Spread(m, use, pg, roots, s, q, last, newer, g[1].count)
       /\ Held(pg[s.root], g, D) /\ 1 \notin D
  BY <1>1, <1>7, <1>8
<1>9. Held(newer[s.root], g, D \cup {1})
  BY <1>15, HeldSpread
<1>16. /\ StillMine(use, pg[s.root], last, newer[s.root], s.root, g, D)
       /\ Mine(last, newer[s.root], s.root, g, {1})
  BY <1>15, MineSpread
<1>10. /\ \A B \in SUBSET D : Mine(use, pg[s.root], s.root, g, B) => Mine(last, newer[s.root], s.root, g, B)
       /\ \A B \in SUBSET D : NotMine(use, s.root, g, B) => NotMine(last, s.root, g, B)
       /\ Mine(last, newer[s.root], s.root, g, {1})
  BY <1>16 DEF StillMine
<1>11. Mine(last, after, r, g, 1..(p + 1))
  <2>1. Mine(last, after, r, g, 2..(p + 1)) /\ Mine(last, after, r, g, {1})
    BY <1>5, <1>7, <1>8, <1>10 DEF after
  <2>2. Mine(last, after, r, g, 2..(p + 1) \cup {1})
    BY <2>1 DEF Mine
  <2> QED BY <1>7, <2>2
<1>12. IF own THEN Mine(last, after, r, g, (p + 1 + 1)..(p + 1 + t))
              ELSE NotMine(last, r, g, (p + 1 + 1)..(p + 1 + t))
  BY <1>6, <1>7, <1>8, <1>10 DEF after
<1>13. Held(after, g, 1..(p + 1 + t))
  BY <1>7, <1>9, <1>8 DEF after
<1>14. g = (<<region>> \o private) \o mapping /\ Len(<<region>> \o private) = p + 1 /\ Len(mapping) = t
  BY <1>1 DEF t
<1> QED BY <1>11, <1>12, <1>13, <1>14, <1>8 DEF Shape, after

\* For a process that loads a module, what was mapped goes to the history that
\* forks share.
LEMMA ShapeMoved ==
    ASSUME NEW use, NEW row, NEW r, NEW h \in Histories, Shape(use, row, r, h, <<>>, TRUE)
    PROVE  Shape(use, row, r, <<>>, h, TRUE)
<1>1. h \o <<>> = h /\ <<>> \o h = h /\ Len(<<>>) = 0 /\ Len(h) \in Nat /\ Len(h) + 0 = Len(h)
      /\ 0 + Len(h) = Len(h) /\ 0 + 1 = 1 /\ 1..0 = {}
  BY DEF Histories
<1> QED BY <1>1 DEF Shape, Mine

\* What a call adds to one address space.
Extended(m, use, pg, roots, r, n, other, new) ==
    /\ Forest(n, other, new, roots) /\ Full(n, other) /\ DataKept(m, n, use)
    /\ Taken(use, other, r, Unshared)
    /\ \A q \in Frame \ {r} : new[q] = pg[q]
    /\ \A a \in Unshared : pg[r][a] # Absent => new[r][a] = pg[r][a]

\* A loop of map() adds to one address space.
LEMMA SpreadExtends ==
    ASSUME NEW m, NEW use, NEW pg, NEW roots, NEW s, NEW n, NEW other, NEW new, NEW k,
           Spread(m, use, pg, roots, s, n, other, new, k)
    PROVE  Extended(m, use, pg, roots, s.root, n, other, new)
<1>1. Taken(use, other, s.root, IF s.gen.kind = "father" THEN {} ELSE IndexesTo(s.page, k))
      /\ IndexesTo(s.page, k) \subseteq Unshared
  BY DEF Spread
<1>2. Taken(use, other, s.root, Unshared)
  BY <1>1 DEF Taken
<1>3. \A a \in Unshared : pg[s.root][a] # Absent => new[s.root][a] = pg[s.root][a]
  BY DEF Spread
<1> QED BY <1>2, <1>3 DEF Spread, Extended

\* Extended, for two calls.
LEMMA ExtendedTwice ==
    ASSUME NEW m, NEW use, NEW pg, NEW roots, NEW r, NEW mid, NEW middle, NEW between,
           Extended(m, use, pg, roots, r, mid, middle, between),
           NEW n, NEW other, NEW new,
           Extended(mid, middle, between, roots, r, n, other, new)
    PROVE  Extended(m, use, pg, roots, r, n, other, new)
<1>1. Taken(use, other, r, Unshared \cup Unshared)
  BY TakenThenTaken DEF Extended
<1>2. Taken(use, other, r, Unshared)
  BY <1>1
<1>3. DataKept(m, n, use)
  BY DataKeptTwice DEF Extended
<1> QED BY <1>2, <1>3 DEF Extended

\* regions, the last one first.
Reversed(h, regions, k) ==
    h \in Histories /\ Len(h) = k /\ \A j \in 1..k : h[j] = regions[k + 1 - j]

\* n is what add_pages() leaves when private is what was added before.
Added(m, use, pg, roots, r, private, mapping, own, n) ==
    /\ n = [memory |-> n.memory, root |-> r, result |-> "ok", history |-> private]
    /\ \E other, new :
         /\ Extended(m, use, pg, roots, r, n.memory, other, new)
         /\ Shape(other, new[r], r, private, mapping, own)

\* add_pages() maps a region and records it.
LEMMA PagesAdded ==
    ASSUME NEW m, NEW use, NEW pg, NEW roots, NEW r \in roots,
           NEW private \in Histories, NEW mapping \in Histories, NEW own,
           NEW region, RegionOK(region), NEW s,
           Added(m, use, pg, roots, r, private, mapping, own, s),
           NEW n, n = add_pages(s, region), n.result = "ok"
    PROVE  Added(m, use, pg, roots, r, <<region>> \o private, mapping, own, n)
<1> DEFINE c == [root |-> r, page |-> region.page, flags |-> region.flags, gen |-> FreshGen]
           q == MapLoop(region.page, region.count, region.flags, r, FreshGen, s.memory)
<1>1. s = [memory |-> s.memory, root |-> r, result |-> "ok", history |-> private]
      /\ s.result = "ok" /\ s.root = r /\ s.history = private
  <2>1. s = [memory |-> s.memory, root |-> r, result |-> "ok", history |-> private]
    BY DEF Added
  <2> QED BY <2>1
<1>2. PICK mid, between :
        /\ Extended(m, use, pg, roots, r, s.memory, mid, between)
        /\ Shape(mid, between[r], r, private, mapping, own)
  BY DEF Added
<1>3. q = map(s.memory, region.page, region.count, region.flags, r, Fresh)
  BY FreshIsLoop
<1>4. /\ n = [s EXCEPT !.memory = q.memory, !.result = q.result,
                       !.history = IF q.result = "ok" THEN <<region>> \o @ ELSE @]
  <2> HIDE DEF q
  <2> QED BY <1>1, <1>3 DEF add_pages
<1> HIDE DEF q
<1>5. q.result = "ok"
      /\ n = [memory |-> q.memory, root |-> r, result |-> "ok", history |-> <<region>> \o private]
  <2>1. n.result = q.result
    BY <1>1, <1>4
  <2>2. q.result = "ok"
    BY <2>1
  <2>3. n = [s EXCEPT !.memory = q.memory, !.result = q.result, !.history = <<region>> \o private]
    BY <1>1, <1>4, <2>2
  <2>4. n = [memory |-> q.memory, root |-> r, result |-> q.result, history |-> <<region>> \o private]
    BY <1>1, <2>3
  <2> QED BY <2>2, <2>4
<1>6. /\ c.root = r /\ c.page = region.page /\ c.flags = region.flags /\ c.gen = FreshGen
      /\ c.gen.kind = "fresh"
  BY DEF FreshGen
<1> HIDE DEF c
<1>7. \E last, newer : Spread(s.memory, mid, between, roots, c, q.memory, last, newer, region.count)
  <2>1. Forest(s.memory, mid, between, roots) /\ Full(s.memory, mid)
    BY <1>2 DEF Extended
  <2>2. c.root \in roots /\ GenOK(c.gen, roots) /\ c.gen.kind # "father"
    BY <1>6 DEF GenOK
  <2>3. region.count \in Nat /\ LoopFits(c.page, region.count)
    BY <1>6, RegionFacts
  <2>4. q = MapLoop(c.page, region.count, c.flags, c.root, c.gen, s.memory)
    BY <1>6 DEF q
  <2> QED BY <1>5, <2>1, <2>2, <2>3, <2>4, MapLoopFacts
<1>8. PICK last, newer : Spread(s.memory, mid, between, roots, c, q.memory, last, newer, region.count)
  BY <1>7
<1>9. Extended(s.memory, mid, between, roots, r, q.memory, last, newer)
  BY <1>6, <1>8, SpreadExtends
<1>10. Extended(m, use, pg, roots, r, q.memory, last, newer)
  BY <1>2, <1>9, ExtendedTwice
<1>11. Shape(last, newer[r], r, <<region>> \o private, mapping, own)
  <2>1. Forest(s.memory, mid, between, roots)
    BY <1>2 DEF Extended
  <2>2. Shape(mid, between[c.root], c.root, private, mapping, own)
    BY <1>2, <1>6
  <2>3. c.page = region.page /\ c.flags = region.flags /\ c.gen.kind # "father"
    BY <1>6
  <2>4. Shape(last, newer[c.root], c.root, <<region>> \o private, mapping, own)
    BY <1>8, <2>1, <2>2, <2>3, SpreadShape
  <2> QED BY <1>6, <2>4
<1>12. n.memory = q.memory
  BY <1>5
<1>13. \E z, w : /\ Extended(m, use, pg, roots, r, n.memory, z, w)
                 /\ Shape(z, w[r], r, <<region>> \o private, mapping, own)
  BY <1>10, <1>11, <1>12
<1> QED BY <1>5, <1>12, <1>13 DEF Added

\* create_process() adds its regions in a loop.
LEMMA AddIsLoop ==
    ASSUME NEW base, NEW regions
    PROVE  FoldLeft(add_pages, base, regions) = Loop([kind |-> "add"], base, regions)
<1> DEFINE c == [kind |-> "add"]
           seq == regions
           P(f) == f = [s \in SUBSET DOMAIN seq |-> IF s = {} THEN base ELSE add_pages(f[s \ {Max(s)}], seq[Max(s)])]
           Q(f) == f = [s \in SUBSET DOMAIN seq |-> IF s = {} THEN base ELSE Do(c, f[s \ {Max(s)}], seq[Max(s)])]
<1>1. FoldLeft(add_pages, base, regions) = (CHOOSE f : P(f))[DOMAIN seq]
  BY Zenon DEF FoldLeft, MapThenFoldSet
<1>2. Loop(c, base, seq) = (CHOOSE f : Q(f))[DOMAIN seq]
  BY Zenon DEF Loop, FoldLeft, MapThenFoldSet
<1>3. \A f : P(f) <=> Q(f)
  <2>1. \A s, x : Do(c, s, x) = add_pages(s, x)
    BY DEF Do
  <2> HIDE DEF c
  <2> QED BY <2>1
<1>4. (CHOOSE f : P(f)) = (CHOOSE f : Q(f))
  <2> HIDE DEF P, Q
  <2> QED BY <1>3, Zenon
<1>5. Loop(c, base, seq) = Loop([kind |-> "add"], base, regions)
  OBVIOUS
<1> HIDE DEF P, Q, c
<1> QED BY <1>1, <1>2, <1>4, <1>5, Zenon

\* The regions that create_process() adds.
LEMMA RegionsAdded ==
    ASSUME NEW m, NEW use, NEW pg, NEW roots, Forest(m, use, pg, roots), Full(m, use),
           NEW r \in roots, NEW mapping \in Histories, NEW own,
           Shape(use, pg[r], r, <<>>, mapping, own),
           NEW regions \in Histories, \A k \in 1..Len(regions) : RegionOK(regions[k]),
           NEW n,
           n = FoldLeft(add_pages, [memory |-> m, root |-> r, result |-> "ok", history |-> <<>>], regions),
           n.result = "ok"
    PROVE  \E h : /\ Reversed(h, regions, Len(regions))
                  /\ Added(m, use, pg, roots, r, h, mapping, own, n)
<1> DEFINE c == [kind |-> "add"]
           base == [memory |-> m, root |-> r, result |-> "ok", history |-> <<>>]
           size == Len(regions)
           Good(t, k) == t.result = "ok" =>
             \E h : Reversed(h, regions, k) /\ Added(m, use, pg, roots, r, h, mapping, own, t)
<1>1. size \in Nat /\ \A k \in 1..size : regions[k] \in RegionType
  BY DEF Histories
<1>2. PICK states : Rounds(states, c, base, regions) /\ states[size] = n
  <2>1. \E states : /\ Rounds(states, c, base, regions)
                    /\ states[Len(regions)] = Loop(c, base, regions)
    <3> HIDE DEF c, base
    <3> QED BY LoopUnfolds DEF Histories
  <2>2. n = Loop(c, base, regions)
    BY AddIsLoop
  <2> HIDE DEF c, base
  <2> QED BY <2>1, <2>2
<1>3. /\ states[0] = base
      /\ \A k \in 1..size : states[k] = add_pages(states[k - 1], regions[k])
  <2>1. \A t, k : Do(c, t, k) = add_pages(t, k)
    BY DEF Do
  <2> HIDE DEF c, base
  <2> QED BY <1>2, <2>1 DEF Rounds
<1> DEFINE holds == {k \in 0..size : Good(states[k], k)}
<1>4. 0 \in holds
  <2>1. Reversed(<<>>, regions, 0)
    BY DEF Reversed, Histories
  <2>2. Extended(m, use, pg, roots, r, m, use, pg)
    BY DEF Extended, DataKept, Taken
  <2>3. \E other, new : /\ Extended(m, use, pg, roots, r, m, other, new)
                        /\ Shape(other, new[r], r, <<>>, mapping, own)
    BY <2>2
  <2>4. base = [memory |-> base.memory, root |-> r, result |-> "ok", history |-> <<>>] /\ base.memory = m
    OBVIOUS
  <2> HIDE DEF base
  <2>5. Added(m, use, pg, roots, r, <<>>, mapping, own, base)
    BY <2>3, <2>4 DEF Added
  <2>6. Good(base, 0)
    BY <2>1, <2>5
  <2> QED BY <1>1, <1>3, <2>6
<1>5. ASSUME NEW k \in 0..(size - 1), k \in holds PROVE k + 1 \in holds
  <2>1. k + 1 \in 1..size /\ k + 1 \in 0..size /\ (k + 1) - 1 = k
    BY <1>1
  <2>2. states[k + 1] = add_pages(states[k], regions[k + 1])
    <3> HIDE DEF base
    <3> QED BY <1>3, <2>1
  <2>3. ASSUME states[k + 1].result = "ok"
        PROVE  \E h : /\ Reversed(h, regions, k + 1)
                      /\ Added(m, use, pg, roots, r, h, mapping, own, states[k + 1])
    <3>1. states[k].result = "ok"
      <4>1. states[k].result # "ok" => states[k + 1] = states[k]
        BY <2>2 DEF add_pages
      <4> QED BY <2>3, <4>1
    <3>2. PICK h : Reversed(h, regions, k) /\ Added(m, use, pg, roots, r, h, mapping, own, states[k])
      BY <1>5, <3>1
    <3> DEFINE region == regions[k + 1]
               g == <<region>> \o h
    <3>3. RegionOK(region) /\ region \in RegionType
      BY <1>1, <2>1
    <3>4. Reversed(g, regions, k + 1)
      <4>1. h \in Seq(RegionType) /\ Len(h) = k /\ \A j \in 1..k : h[j] = regions[k + 1 - j]
        BY <3>2 DEF Reversed, Histories
      <4>2. g \in Seq(RegionType) /\ Len(g) = k + 1 /\ g[1] = region
            /\ \A j \in 1..k : g[j + 1] = h[j]
        <5> HIDE DEF region
        <5> QED BY <3>3, <4>1
      <4>3. ASSUME NEW j \in 1..(k + 1) PROVE g[j] = regions[k + 1 + 1 - j]
        <5>1. CASE j = 1
          <6>1. k + 1 + 1 - j = k + 1
            BY <5>1
          <6> HIDE DEF g
          <6> QED BY <4>2, <5>1, <6>1 DEF region
        <5>2. CASE j # 1
          <6>1. j - 1 \in 1..k /\ (j - 1) + 1 = j /\ k + 1 - (j - 1) = k + 1 + 1 - j
            BY <5>2
          <6>2. g[(j - 1) + 1] = h[j - 1] /\ h[j - 1] = regions[k + 1 - (j - 1)]
            <7> HIDE DEF g
            <7> QED BY <4>1, <4>2, <6>1
          <6> HIDE DEF g
          <6> QED BY <6>1, <6>2
        <5> QED BY <5>1, <5>2
      <4> HIDE DEF g
      <4> QED BY <4>2, <4>3 DEF Reversed, Histories
    <3>5. h \in Histories
      BY <3>2 DEF Reversed
    <3>6. Added(m, use, pg, roots, r, g, mapping, own, states[k + 1])
      <4> HIDE DEF region
      <4>1. states[k + 1] = add_pages(states[k], region)
        BY <2>2 DEF region
      <4> QED BY <2>3, <3>2, <3>3, <3>5, <4>1, PagesAdded
    <3> HIDE DEF g
    <3> QED BY <3>4, <3>6
  <2> QED BY <2>1, <2>3
<1>6. size \in holds
  <2> HIDE DEF holds, size
  <2>1. \A k \in 0..size : k \in holds
    BY <1>1, <1>4, <1>5, PositionInduction
  <2> QED BY <1>1, <2>1
<1> QED BY <1>2, <1>6

\* A program header.
Header == [load : BOOLEAN, vaddr : Nat, memsz : Nat, offset : Nat, filesz : Nat, writable : BOOLEAN]

\* Every segment to load is a region that can be mapped.
HeadersOK(level, headers) ==
    /\ headers \in Seq(Header)
    /\ \A n \in DOMAIN headers : headers[n].load => RegionOK(SegmentRegion(level, headers[n]))

\* The frames of the first k segments hold what the file has for them.
Image(data, row, level, headers, k) ==
    \A n \in 1..k :
        /\ headers[n].load
        /\ \A a \in RegionIndexes(SegmentRegion(level, headers[n])) :
             data[row[a].frame] = SegmentBytes(PageAt(a), headers[n])

\* The segments of h are loaded, the last one first.
Segments(h, level, headers) ==
    /\ h \in Histories /\ Len(h) <= Len(headers)
    /\ \A j \in 1..Len(h) : h[j] = SegmentRegion(level, headers[Len(h) + 1 - j])

\* What load_module() leaves after the segments of h.
Loaded(m, use, pg, roots, r, level, headers, h, t) ==
    /\ t = [memory |-> t.memory, result |-> "ok", ph_addr |-> Len(h) + 1, history |-> h]
    /\ Segments(h, level, headers)
    /\ \E other, new :
         /\ Extended(m, use, pg, roots, r, t.memory, other, new)
         /\ Shape(other, new[r], r, h, <<>>, TRUE)
         /\ Image(t.memory.data, new[r], level, headers, Len(h))

\* A call that fails after others that did not.
LEMMA ExtendedThenBroken ==
    ASSUME NEW m, NEW use, NEW pg, NEW roots, NEW r, NEW mid, NEW middle, NEW between,
           Extended(m, use, pg, roots, r, mid, middle, between),
           NEW n, Broken(mid, middle, between, roots, r, n)
    PROVE  Broken(m, use, pg, roots, r, n)
<1>1. PICK other, new :
        /\ Forest(n, other, new, roots) /\ Full(n, other) /\ DataKept(mid, n, middle)
        /\ Wasted(middle, other, r)
        /\ \A q \in Frame \ {r} : new[q] = between[q]
  BY DEF Broken
<1>2. Wasted(use, other, r)
  BY <1>1, TakenThenWasted DEF Extended
<1>3. DataKept(m, n, use)
  BY <1>1, DataKeptTwice DEF Extended
<1>4. \A q \in Frame \ {r} : new[q] = pg[q]
  BY <1>1 DEF Extended
<1> QED BY <1>1, <1>2, <1>3, <1>4 DEF Broken

\* load_module() is a loop over the program headers.
LEMMA LoadIsLoop ==
    ASSUME NEW m, NEW root, NEW level, NEW headers
    PROVE  load_module(m, root, level, headers) =
             Loop([kind |-> "load", root |-> root, level |-> level, headers |-> headers],
                  [memory |-> m, result |-> "ok", ph_addr |-> 1, history |-> <<>>], headers)
<1> DEFINE c == [kind |-> "load", root |-> root, level |-> level, headers |-> headers]
           base == [memory |-> m, result |-> "ok", ph_addr |-> 1, history |-> <<>>]
           Step(s, i) ==
            LET header == headers[s.ph_addr]
                region == SegmentRegion(level, header)
                mapped == CopyMap(s.memory, region.page, region.count, region.flags, root, header)
            IN  IF s.result # "ok" \/ ~header.load THEN s
                ELSE [memory |-> mapped.memory, result |-> mapped.result,
                      ph_addr |-> s.ph_addr + 1,
                      history |-> IF mapped.result = "ok" THEN <<region>> \o s.history
                                  ELSE s.history]
           P(f) == f = [s \in SUBSET DOMAIN headers |-> IF s = {} THEN base ELSE Step(f[s \ {Max(s)}], headers[Max(s)])]
           Q(f) == f = [s \in SUBSET DOMAIN headers |-> IF s = {} THEN base ELSE Do(c, f[s \ {Max(s)}], headers[Max(s)])]
<1>1. load_module(m, root, level, headers) = (CHOOSE f : P(f))[DOMAIN headers]
  BY Zenon DEF load_module, FoldLeft, MapThenFoldSet, CopyMap
<1>2. Loop(c, base, headers) = (CHOOSE f : Q(f))[DOMAIN headers]
  BY Zenon DEF Loop, FoldLeft, MapThenFoldSet
<1>3. \A f : P(f) <=> Q(f)
  <2>1. \A s, x : Do(c, s, x) = LoadStep(c, s, x)
    BY DEF Do
  <2>2. \A s, x : LoadStep(c, s, x) = Step(s, x)
    BY DEF LoadStep
  <2> HIDE DEF Step, base, c
  <2> QED BY <2>1, <2>2
<1>4. (CHOOSE f : P(f)) = (CHOOSE f : Q(f))
  <2> HIDE DEF P, Q
  <2> QED BY <1>3, Zenon
<1> HIDE DEF P, Q, c, base
<1>5. load_module(m, root, level, headers) = Loop(c, base, headers)
  BY <1>1, <1>2, <1>4, Zenon
<1> QED BY <1>5 DEF c, base

\* One round of that loop, with the result of map().
LoadNext(s, header, region, q) ==
    IF s.result # "ok" \/ ~header.load THEN s
    ELSE [memory |-> q.memory, result |-> q.result, ph_addr |-> s.ph_addr + 1,
          history |-> IF q.result = "ok" THEN <<region>> \o s.history ELSE s.history]

\* One round of that loop, in these words.
LEMMA LoadStepFacts ==
    ASSUME NEW c, NEW s, NEW i, NEW header, header = c.headers[s.ph_addr],
           NEW region, region = SegmentRegion(c.level, header),
           NEW q, q = MapLoop(region.page, region.count, region.flags, c.root, CopyGen(header), s.memory)
    PROVE  LoadStep(c, s, i) = LoadNext(s, header, region, q)
<1>1. q = CopyMap(s.memory, region.page, region.count, region.flags, c.root, header)
  BY CopyIsLoop
<1>2. LoadStep(c, s, i) =
        LET mapped == CopyMap(s.memory, region.page, region.count, region.flags, c.root, header)
        IN IF s.result # "ok" \/ ~header.load THEN s
             ELSE [memory |-> mapped.memory, result |-> mapped.result, ph_addr |-> s.ph_addr + 1,
                   history |-> IF mapped.result = "ok" THEN <<region>> \o s.history ELSE s.history]
  BY DEF LoadStep
<1> QED BY <1>1, <1>2 DEF LoadNext

\* What k rounds of that loop leave: it ends at the first header that is not to
\* be loaded.
Loading(m, use, pg, roots, r, level, headers, k, t) ==
    /\ t.result \in {"ok", "error", "fault"}
    /\ t.result = "error" => Broken(m, use, pg, roots, r, t.memory)
    /\ t.result = "ok" => \E h :
         /\ Loaded(m, use, pg, roots, r, level, headers, h, t)
         /\ Len(h) <= k /\ (Len(h) = k \/ ~headers[Len(h) + 1].load)

\* What mapping one segment leaves.
SegmentResult(m, use, pg, roots, r, level, headers, h, w, region, q) ==
    /\ q.result \in {"ok", "error", "fault"}
    /\ q.result = "error" => Broken(m, use, pg, roots, r, q.memory)
    /\ q.result = "ok" =>
         Loaded(m, use, pg, roots, r, level, headers, <<region>> \o h,
                [memory |-> q.memory, result |-> "ok", ph_addr |-> w + 1,
                 history |-> <<region>> \o h])

\* One segment is loaded: its pages hold the bytes of the file and zeros.
LEMMA SegmentLoaded ==
    ASSUME NEW m, NEW use, NEW pg, NEW roots, NEW r \in roots, NEW level, NEW headers,
           HeadersOK(level, headers), NEW h, NEW t,
           Loaded(m, use, pg, roots, r, level, headers, h, t),
           NEW w, w = Len(h) + 1, w \in 1..Len(headers), headers[w].load,
           NEW region, region = SegmentRegion(level, headers[w]),
           NEW q, q = MapLoop(region.page, region.count, region.flags, r, CopyGen(headers[w]), t.memory)
    PROVE  SegmentResult(m, use, pg, roots, r, level, headers, h, w, region, q)
<1> DEFINE gen == CopyGen(headers[w])
           c == [root |-> r, page |-> region.page, flags |-> region.flags, gen |-> gen]
           g == <<region>> \o h
           n == [memory |-> q.memory, result |-> "ok", ph_addr |-> w + 1, history |-> g]
<1>1. PICK mid, between :
        /\ Extended(m, use, pg, roots, r, t.memory, mid, between)
        /\ Shape(mid, between[r], r, h, <<>>, TRUE)
        /\ Image(t.memory.data, between[r], level, headers, Len(h))
  BY DEF Loaded
<1>2. /\ h \in Seq(RegionType) /\ Len(h) \in Nat /\ Len(h) <= Len(headers)
      /\ \A j \in 1..Len(h) : h[j] = SegmentRegion(level, headers[Len(h) + 1 - j])
      /\ h \in Histories
  BY DEF Loaded, Segments, Histories
<1>3. /\ c.root = r /\ c.page = region.page /\ c.flags = region.flags /\ c.gen = gen
      /\ c.gen.kind = "copy" /\ c.gen.header = headers[w]
  BY DEF CopyGen
<1>4. headers[w] \in Header /\ RegionOK(region) /\ region \in RegionType
  BY DEF HeadersOK, RegionOK
<1> HIDE DEF c, gen
<1>5. /\ q.result \in {"ok", "error", "fault"}
      /\ q.result = "error" => Broken(t.memory, mid, between, roots, c.root, q.memory)
      /\ q.result = "ok" => \E last, newer :
           Spread(t.memory, mid, between, roots, c, q.memory, last, newer, region.count)
  <2>1. Forest(t.memory, mid, between, roots) /\ Full(t.memory, mid)
    BY <1>1 DEF Extended
  <2>2. c.root \in roots /\ GenOK(c.gen, roots) /\ c.gen.kind # "father"
    BY <1>3, <1>4 DEF GenOK, HeaderOK, Header
  <2>3. region.count \in Nat /\ LoopFits(c.page, region.count)
    BY <1>3, <1>4, RegionFacts
  <2>4. q = MapLoop(c.page, region.count, c.flags, c.root, c.gen, t.memory)
    BY <1>3 DEF gen
  <2> QED BY <2>1, <2>2, <2>3, <2>4, MapLoopFacts
<1>6. q.result = "error" => Broken(m, use, pg, roots, r, q.memory)
  BY <1>1, <1>3, <1>5, ExtendedThenBroken
<1>7. ASSUME q.result = "ok" PROVE Loaded(m, use, pg, roots, r, level, headers, g, n)
  <2>1. PICK last, newer : Spread(t.memory, mid, between, roots, c, q.memory, last, newer, region.count)
    BY <1>5, <1>7
  <2>2. Extended(t.memory, mid, between, roots, r, q.memory, last, newer)
    BY <1>3, <2>1, SpreadExtends
  <2>3. Extended(m, use, pg, roots, r, q.memory, last, newer)
    BY <1>1, <2>2, ExtendedTwice
  <2>4. Shape(last, newer[r], r, g, <<>>, TRUE)
    <3>1. Forest(t.memory, mid, between, roots)
      BY <1>1 DEF Extended
    <3>2. Shape(mid, between[c.root], c.root, h, <<>>, TRUE)
      BY <1>1, <1>3
    <3>3. c.page = region.page /\ c.flags = region.flags /\ c.gen.kind # "father"
      BY <1>3
    <3>4. <<>> \in Histories
      BY DEF Histories
    <3>5. Shape(last, newer[c.root], c.root, <<region>> \o h, <<>>, TRUE)
      BY <1>2, <1>4, <2>1, <3>1, <3>2, <3>3, <3>4, SpreadShape
    <3> QED BY <1>3, <3>5
  <2>5. g \in Seq(RegionType) /\ Len(g) = Len(h) + 1 /\ g[1] = region /\ \A j \in 1..Len(h) : g[j + 1] = h[j]
    BY <1>2, <1>4
  <2>6. Segments(g, level, headers)
    <3>1. ASSUME NEW j \in 1..Len(g) PROVE g[j] = SegmentRegion(level, headers[Len(g) + 1 - j])
      <4>1. CASE j = 1
        <5>1. Len(g) + 1 - j = w
          BY <1>2, <2>5, <4>1
        <5> HIDE DEF g
        <5> QED BY <2>5, <4>1, <5>1
      <4>2. CASE j # 1
        <5>1. j - 1 \in 1..Len(h) /\ (j - 1) + 1 = j /\ Len(h) + 1 - (j - 1) = Len(g) + 1 - j
          BY <1>2, <2>5, <4>2
        <5>2. g[(j - 1) + 1] = h[j - 1] /\ h[j - 1] = SegmentRegion(level, headers[Len(h) + 1 - (j - 1)])
          <6> HIDE DEF g
          <6> QED BY <1>2, <2>5, <5>1
        <5> HIDE DEF g
        <5> QED BY <5>1, <5>2
      <4> QED BY <4>1, <4>2
    <3>2. Len(g) <= Len(headers)
      BY <2>5
    <3> HIDE DEF g
    <3> QED BY <2>5, <3>1, <3>2 DEF Segments, Histories
  <2>7. Image(q.memory.data, newer[r], level, headers, Len(g))
    <3> SUFFICES ASSUME NEW j \in 1..w
                 PROVE  /\ headers[j].load
                        /\ \A a \in RegionIndexes(SegmentRegion(level, headers[j])) :
                             q.memory.data[newer[r][a].frame] = SegmentBytes(PageAt(a), headers[j])
      BY <2>5 DEF Image
    <3>1. CASE j = w
      <4>1. RegionIndexes(region) = IndexesTo(c.page, region.count)
        BY <1>3 DEF RegionIndexes
      <4>2. \A a \in RegionIndexes(region) : Content(c.gen, between, a, newer[r][a].frame, q.memory.data)
        BY <1>3, <2>1, <4>1 DEF Spread
      <4>3. \A a \in RegionIndexes(region) :
              q.memory.data[newer[r][a].frame] = SegmentBytes(PageAt(a), headers[w])
        BY <1>3, <4>2 DEF Content
      <4> QED BY <3>1, <4>3
    <3>2. CASE j # w
      <4>1. j \in 1..Len(h)
        BY <1>2, <3>2
      <4>2. headers[j].load
        BY <1>1, <4>1 DEF Image
      <4> SUFFICES ASSUME NEW a \in RegionIndexes(SegmentRegion(level, headers[j]))
                   PROVE  q.memory.data[newer[r][a].frame] = SegmentBytes(PageAt(a), headers[j])
        BY <4>2
      <4>3. t.memory.data[between[r][a].frame] = SegmentBytes(PageAt(a), headers[j])
        BY <1>1, <4>1 DEF Image
      <4>4. \E o \in 1..Len(h) : a \in RegionIndexes(h[o])
        <5>1. Len(h) + 1 - j \in 1..Len(h) /\ Len(h) + 1 - (Len(h) + 1 - j) = j
          BY <1>2, <4>1
        <5>2. h[Len(h) + 1 - j] = SegmentRegion(level, headers[j])
          BY <1>2, <5>1
        <5> QED BY <5>1, <5>2
      <4>5. At(mid, between[r][a].frame, r, 0, a) /\ a \in Unshared /\ between[r][a] # Absent
        <5>1. h \o <<>> = h /\ Len(<<>>) = 0 /\ Len(h) + 0 = Len(h)
          BY <1>2
        <5>2. Held(between[r], h, 1..Len(h)) /\ Mine(mid, between[r], r, h, 1..Len(h))
          BY <1>1, <5>1 DEF Shape
        <5>3. a \in Unshared
          BY <4>4, <5>2, RegionFacts DEF Held
        <5> QED BY <4>4, <5>2, <5>3 DEF Held, Mine
      <4>6. newer[r][a] = between[r][a]
        BY <2>2, <4>5 DEF Extended
      <4>7. q.memory.data[between[r][a].frame] = t.memory.data[between[r][a].frame]
        <5> DEFINE x == between[r][a].frame
        <5>1. x \in Frame /\ mid[x].kind = "used"
          BY <4>5 DEF At
        <5> HIDE DEF x
        <5>2. q.memory.data[x] = t.memory.data[x]
          BY <2>2, <5>1 DEF Extended, DataKept
        <5> QED BY <5>2 DEF x
      <4> QED BY <4>3, <4>6, <4>7
    <3> QED BY <3>1, <3>2
  <2>8. n = [memory |-> n.memory, result |-> "ok", ph_addr |-> Len(g) + 1, history |-> g] /\ n.memory = q.memory
    BY <2>5
  <2>9. \E z, x :
         /\ Extended(m, use, pg, roots, r, q.memory, z, x)
         /\ Shape(z, x[r], r, g, <<>>, TRUE)
         /\ Image(q.memory.data, x[r], level, headers, Len(g))
    BY <2>3, <2>4, <2>7
  <2> HIDE DEF n, g
  <2> QED BY <2>6, <2>8, <2>9 DEF Loaded
<1> QED BY <1>5, <1>6, <1>7 DEF SegmentResult

\* load_module() leaves the segments before the first header that is not to be
\* loaded, or fails.
LEMMA ModuleLoaded ==
    ASSUME NEW m, NEW use, NEW pg, NEW roots, Forest(m, use, pg, roots), Full(m, use),
           NEW r \in roots, NEW level, NEW headers, HeadersOK(level, headers),
           Shape(use, pg[r], r, <<>>, <<>>, TRUE)
    PROVE  Loading(m, use, pg, roots, r, level, headers, Len(headers), load_module(m, r, level, headers))
<1> DEFINE c == [kind |-> "load", root |-> r, level |-> level, headers |-> headers]
           base == [memory |-> m, result |-> "ok", ph_addr |-> 1, history |-> <<>>]
           size == Len(headers)
           result == load_module(m, r, level, headers)
<1>1. size \in Nat /\ headers \in Seq(Header) /\ DOMAIN headers = 1..size
  BY DEF HeadersOK
<1>2. PICK states : Rounds(states, c, base, headers) /\ states[size] = result
  <2>1. \E states : /\ Rounds(states, c, base, headers)
                    /\ states[Len(headers)] = Loop(c, base, headers)
    <3> HIDE DEF c, base
    <3> QED BY <1>1, LoopUnfolds
  <2>2. result = Loop(c, base, headers)
    BY LoadIsLoop
  <2> HIDE DEF c, base, result
  <2> QED BY <2>1, <2>2
<1>3. /\ states[0] = base
      /\ \A k \in 1..size : states[k] = LoadStep(c, states[k - 1], headers[k])
  <2>1. \A t, x : Do(c, t, x) = LoadStep(c, t, x)
    BY DEF Do
  <2> HIDE DEF c, base
  <2> QED BY <1>2, <2>1 DEF Rounds
<1>4. c.root = r /\ c.level = level /\ c.headers = headers
  OBVIOUS
<1> DEFINE holds == {k \in 0..size : Loading(m, use, pg, roots, r, level, headers, k, states[k])}
<1>5. 0 \in holds
  <2>1. Extended(m, use, pg, roots, r, m, use, pg)
    BY DEF Extended, DataKept, Taken
  <2>2. base = [memory |-> base.memory, result |-> "ok", ph_addr |-> Len(<<>>) + 1, history |-> <<>>]
        /\ base.memory = m /\ base.result = "ok"
    OBVIOUS
  <2>3. Image(m.data, pg[r], level, headers, Len(<<>>)) /\ Segments(<<>>, level, headers)
    BY <1>1 DEF Image, Segments, Histories
  <2> HIDE DEF base
  <2>4. \E other, new :
         /\ Extended(m, use, pg, roots, r, base.memory, other, new)
         /\ Shape(other, new[r], r, <<>>, <<>>, TRUE)
         /\ Image(base.memory.data, new[r], level, headers, Len(<<>>))
    BY <2>1, <2>2, <2>3
  <2>5. Loaded(m, use, pg, roots, r, level, headers, <<>>, base)
    BY <2>2, <2>3, <2>4 DEF Loaded
  <2>6. Loading(m, use, pg, roots, r, level, headers, 0, base)
    BY <2>2, <2>5 DEF Loading
  <2> QED BY <1>1, <1>3, <2>6
<1> HIDE DEF c
<1>6. ASSUME NEW k \in 0..(size - 1), k \in holds PROVE k + 1 \in holds
  <2> DEFINE t == states[k]
             next == states[k + 1]
  <2>1. k \in Nat /\ k + 1 \in 1..size /\ k + 1 \in 0..size /\ (k + 1) - 1 = k
    BY <1>1
  <2>2. next = LoadStep(c, t, headers[k + 1])
    <3> HIDE DEF base
    <3> QED BY <1>3, <2>1
  <2>3. Loading(m, use, pg, roots, r, level, headers, k, t)
    BY <1>6
  <2> HIDE DEF t, next
  <2> DEFINE header == headers[t.ph_addr]
             region == SegmentRegion(level, header)
             q == MapLoop(region.page, region.count, region.flags, r, CopyGen(header), t.memory)
  <2>4. next = IF t.result # "ok" \/ ~header.load THEN t
               ELSE [memory |-> q.memory, result |-> q.result, ph_addr |-> t.ph_addr + 1,
                     history |-> IF q.result = "ok" THEN <<region>> \o t.history ELSE t.history]
    <3> HIDE DEF header, region, q
    <3>1. header = c.headers[t.ph_addr] /\ region = SegmentRegion(c.level, header)
          /\ q = MapLoop(region.page, region.count, region.flags, c.root, CopyGen(header), t.memory)
      BY <1>4 DEF header, region, q
    <3>2. LoadStep(c, t, headers[k + 1]) = LoadNext(t, header, region, q)
      BY <3>1, LoadStepFacts
    <3> QED BY <2>2, <3>2 DEF LoadNext
  <2>5. CASE t.result # "ok"
    <3>1. next = t
      BY <2>4, <2>5
    <3>2. Loading(m, use, pg, roots, r, level, headers, k + 1, t)
      BY <2>3, <2>5 DEF Loading
    <3> QED BY <2>1, <3>1, <3>2 DEF next
  <2>6. CASE t.result = "ok"
    <3>1. PICK h : /\ Loaded(m, use, pg, roots, r, level, headers, h, t)
                   /\ Len(h) <= k /\ (Len(h) = k \/ ~headers[Len(h) + 1].load)
      BY <2>3, <2>6 DEF Loading
    <3>2. t = [memory |-> t.memory, result |-> "ok", ph_addr |-> Len(h) + 1, history |-> h]
          /\ h \in Histories
      BY <3>1 DEF Loaded, Segments
    <3>3. t.ph_addr = Len(h) + 1 /\ t.history = h
      BY <3>2
    <3>4. Len(h) \in Nat
      BY <3>2 DEF Histories
    <3>5. CASE ~header.load
      <4>1. next = t
        BY <2>4, <3>5
      <4>2. Len(h) <= k + 1 /\ ~headers[Len(h) + 1].load
        BY <2>1, <3>1, <3>3, <3>4, <3>5
      <4>3. Loading(m, use, pg, roots, r, level, headers, k + 1, t)
        BY <2>6, <3>1, <4>2 DEF Loading
      <4> QED BY <2>1, <4>1, <4>3 DEF next
    <3>6. CASE header.load
      <4>1. Len(h) = k /\ t.ph_addr = k + 1
        BY <3>1, <3>3, <3>5, <3>6
      <4> DEFINE w == k + 1
      <4>2. w = Len(h) + 1 /\ w \in 1..Len(headers) /\ header = headers[w] /\ headers[w].load
        BY <2>1, <3>6, <4>1
      <4> HIDE DEF header
      <4>3. region = SegmentRegion(level, headers[w])
            /\ q = MapLoop(region.page, region.count, region.flags, r, CopyGen(headers[w]), t.memory)
        BY <4>2
      <4> HIDE DEF region, q, w
      <4>4. /\ q.result \in {"ok", "error", "fault"}
            /\ q.result = "error" => Broken(m, use, pg, roots, r, q.memory)
            /\ q.result = "ok" =>
                 Loaded(m, use, pg, roots, r, level, headers, <<region>> \o h,
                        [memory |-> q.memory, result |-> "ok", ph_addr |-> w + 1,
                         history |-> <<region>> \o h])
        <5>1. SegmentResult(m, use, pg, roots, r, level, headers, h, w, region, q)
          BY <3>1, <4>2, <4>3, SegmentLoaded
        <5> QED BY <5>1 DEF SegmentResult
      <4>5. next = [memory |-> q.memory, result |-> q.result, ph_addr |-> w + 1,
                    history |-> IF q.result = "ok" THEN <<region>> \o h ELSE h]
        BY <2>4, <2>6, <3>3, <3>6, <4>1, <4>2
      <4>6. next.result = q.result /\ next.memory = q.memory
        BY <4>5
      <4>7. ASSUME q.result = "ok"
            PROVE  \E g : /\ Loaded(m, use, pg, roots, r, level, headers, g, next)
                          /\ Len(g) <= k + 1 /\ (Len(g) = k + 1 \/ ~headers[Len(g) + 1].load)
        <5> DEFINE g == <<region>> \o h
        <5>1. Loaded(m, use, pg, roots, r, level, headers, g, next)
          BY <4>4, <4>5, <4>7
        <5>2. Len(g) = k + 1
          <6>1. h \in Seq(RegionType)
            BY <3>2 DEF Histories
          <6> QED BY <4>1, <6>1
        <5> HIDE DEF g
        <5> QED BY <2>1, <5>1, <5>2
      <4>8. Loading(m, use, pg, roots, r, level, headers, k + 1, next)
        BY <4>4, <4>6, <4>7 DEF Loading
      <4> QED BY <2>1, <4>8 DEF next
    <3> QED BY <3>5, <3>6
  <2> QED BY <2>5, <2>6
<1>7. size \in holds
  <2> HIDE DEF holds, size
  <2>1. \A k \in 0..size : k \in holds
    BY <1>1, <1>5, <1>6, PositionInduction
  <2> QED BY <1>1, <2>1
<1> QED BY <1>2, <1>7

\* fork() maps the pages of its father in a loop over his regions.
LEMMA ShareIsLoop ==
    ASSUME NEW m, NEW root, NEW father, NEW regions
    PROVE  map_shared(m, root, father, regions) =
             Loop([kind |-> "share", root |-> root, father |-> father],
                  [memory |-> m, result |-> "ok"], regions)
<1> DEFINE c == [kind |-> "share", root |-> root, father |-> father]
           base == [memory |-> m, result |-> "ok"]
           Step(s, region) ==
             IF s.result # "ok" THEN s
             ELSE FatherMap(s.memory, region.page, region.count, region.flags, root, father)
           P(f) == f = [s \in SUBSET DOMAIN regions |-> IF s = {} THEN base ELSE Step(f[s \ {Max(s)}], regions[Max(s)])]
           Q(f) == f = [s \in SUBSET DOMAIN regions |-> IF s = {} THEN base ELSE Do(c, f[s \ {Max(s)}], regions[Max(s)])]
<1>1. map_shared(m, root, father, regions) = (CHOOSE f : P(f))[DOMAIN regions]
  BY Zenon DEF map_shared, FoldLeft, MapThenFoldSet, FatherMap
<1>2. Loop(c, base, regions) = (CHOOSE f : Q(f))[DOMAIN regions]
  BY Zenon DEF Loop, FoldLeft, MapThenFoldSet
<1>3. \A f : P(f) <=> Q(f)
  <2>1. \A s, x : Do(c, s, x) = Step(s, x)
    BY DEF Do, ShareStep
  <2> HIDE DEF Step, base, c
  <2> QED BY <2>1
<1>4. (CHOOSE f : P(f)) = (CHOOSE f : Q(f))
  <2> HIDE DEF P, Q
  <2> QED BY <1>3, Zenon
<1> HIDE DEF P, Q, c, base
<1>5. map_shared(m, root, father, regions) = Loop(c, base, regions)
  BY <1>1, <1>2, <1>4, Zenon
<1> QED BY <1>5 DEF c, base

\* Two rows show the same frames for the regions of D.
SameFrames(row, other, h, D) ==
    \A n \in D : \A a \in RegionIndexes(h[n]) : other[a] # Absent /\ row[a].frame = other[a].frame

\* What k rounds of that loop leave: the child shows the frames of the father,
\* and owns none of them.
Shared(m, use, pg, roots, r, father, regions, k, t) ==
    t.result = "ok" => \E other, new :
        /\ Extended(m, use, pg, roots, r, t.memory, other, new)
        /\ Held(new[r], regions, 1..k) /\ NotMine(other, r, regions, 1..k)
        /\ SameFrames(new[r], pg[father], regions, 1..k)

\* One round of that loop.
LEMMA ShareRound ==
    ASSUME NEW m, NEW use, NEW pg, NEW roots, NEW r \in roots, NEW father \in roots, father # r,
           NEW regions \in Histories, \A n \in 1..Len(regions) : RegionOK(regions[n]),
           NEW k \in 0..(Len(regions) - 1), NEW t, t.result = "ok",
           Shared(m, use, pg, roots, r, father, regions, k, t),
           NEW region, region = regions[k + 1],
           NEW q, q = MapLoop(region.page, region.count, region.flags, r, FatherGen(father), t.memory)
    PROVE  Shared(m, use, pg, roots, r, father, regions, k + 1, q)
<1> SUFFICES ASSUME q.result = "ok"
             PROVE  \E other, new :
                      /\ Extended(m, use, pg, roots, r, q.memory, other, new)
                      /\ Held(new[r], regions, 1..(k + 1)) /\ NotMine(other, r, regions, 1..(k + 1))
                      /\ SameFrames(new[r], pg[father], regions, 1..(k + 1))
  BY DEF Shared
<1> DEFINE gen == FatherGen(father)
           c == [root |-> r, page |-> region.page, flags |-> region.flags, gen |-> gen]
           D == 1..k
           w == k + 1
<1>1. PICK mid, between :
        /\ Extended(m, use, pg, roots, r, t.memory, mid, between)
        /\ Held(between[r], regions, D) /\ NotMine(mid, r, regions, D)
        /\ SameFrames(between[r], pg[father], regions, D)
  BY DEF Shared
<1>2. /\ k \in Nat /\ Len(regions) \in Nat /\ w \in 1..Len(regions) /\ D \cup {w} = 1..w /\ w \notin D
      /\ \A n \in D : n \in 1..Len(regions)
  BY DEF Histories
<1>3. /\ c.root = r /\ c.page = region.page /\ c.flags = region.flags /\ c.gen = gen
      /\ c.gen.kind = "father" /\ c.gen.root = father
  BY DEF FatherGen
<1>4. region = regions[w] /\ RegionOK(region) /\ father \in Frame
  BY <1>1, <1>2, RootFacts DEF Extended
<1> HIDE DEF c, gen, D, w
<1>5. \E last, newer : Spread(t.memory, mid, between, roots, c, q.memory, last, newer, region.count)
  <2>1. Forest(t.memory, mid, between, roots) /\ Full(t.memory, mid)
    BY <1>1 DEF Extended
  <2>2. c.root \in roots /\ GenOK(c.gen, roots) /\ c.gen.root # c.root
    BY <1>3 DEF GenOK
  <2>3. region.count \in Nat /\ LoopFits(c.page, region.count)
    BY <1>3, <1>4, RegionFacts
  <2>4. q = MapLoop(c.page, region.count, c.flags, c.root, c.gen, t.memory)
    BY <1>3 DEF gen
  <2> QED BY <2>1, <2>2, <2>3, <2>4, MapLoopFacts
<1>6. PICK last, newer : Spread(t.memory, mid, between, roots, c, q.memory, last, newer, region.count)
  BY <1>5
<1>7. Extended(t.memory, mid, between, roots, r, q.memory, last, newer)
  BY <1>3, <1>6, SpreadExtends
<1>8. Extended(m, use, pg, roots, r, q.memory, last, newer)
  BY <1>1, <1>7, ExtendedTwice
<1>9. /\ RegionOK(regions[w]) /\ c.page = regions[w].page /\ c.flags = regions[w].flags
      /\ Spread(t.memory, mid, between, roots, c, q.memory, last, newer, regions[w].count)
      /\ Held(between[c.root], regions, D) /\ w \notin D
      /\ Forest(t.memory, mid, between, roots)
  BY <1>1, <1>2, <1>3, <1>4, <1>6 DEF Extended
<1>10. Held(newer[c.root], regions, D \cup {w})
  BY <1>9, HeldSpread
<1>11. /\ StillMine(mid, between[c.root], last, newer[c.root], c.root, regions, D)
       /\ NotMine(last, c.root, regions, {w})
  BY <1>3, <1>9, MineSpread
<1>12. NotMine(last, r, regions, D \cup {w})
  <2>1. NotMine(last, r, regions, D)
    BY <1>1, <1>3, <1>11 DEF StillMine
  <2> QED BY <1>3, <1>11, <2>1 DEF NotMine
<1>13. SameFrames(newer[r], pg[father], regions, D \cup {w})
  <2> SUFFICES ASSUME NEW n \in D \cup {w}, NEW a \in RegionIndexes(regions[n])
               PROVE  pg[father][a] # Absent /\ newer[r][a].frame = pg[father][a].frame
    BY DEF SameFrames
  <2>1. CASE n = w
    <3>1. RegionIndexes(regions[w]) = IndexesTo(c.page, regions[w].count)
      BY <1>9 DEF RegionIndexes
    <3>2. Content(c.gen, between, a, newer[r][a].frame, q.memory.data)
      BY <1>3, <1>9, <2>1, <3>1 DEF Spread
    <3>3. newer[r][a].frame = between[father][a].frame /\ between[father][a] # Absent
      BY <1>3, <3>2 DEF Content
    <3>4. between[father] = pg[father]
      BY <1>1, <1>4 DEF Extended
    <3> QED BY <3>3, <3>4
  <2>2. CASE n \in D
    <3>1. a \in Unshared /\ between[r][a] # Absent
      BY <1>1, <2>2, RegionFacts DEF Held
    <3>2. newer[r][a] = between[r][a]
      BY <1>7, <3>1 DEF Extended
    <3> QED BY <1>1, <2>2, <3>2 DEF SameFrames
  <2> QED BY <2>1, <2>2
<1> QED BY <1>2, <1>3, <1>8, <1>10, <1>12, <1>13 DEF w

\* fork() leaves the child with the frames of the father at the pages of the
\* father.
LEMMA RegionsShared ==
    ASSUME NEW m, NEW use, NEW pg, NEW roots, Forest(m, use, pg, roots), Full(m, use),
           NEW r \in roots, NEW father \in roots, father # r,
           \A a \in Unshared : pg[r][a] = Absent,
           NEW regions \in Histories, \A n \in 1..Len(regions) : RegionOK(regions[n]),
           NEW n, n = map_shared(m, r, father, regions), n.result = "ok"
    PROVE  \E other, new :
             /\ Extended(m, use, pg, roots, r, n.memory, other, new)
             /\ Shape(other, new[r], r, <<>>, regions, FALSE)
             /\ SameFrames(new[r], pg[father], regions, 1..Len(regions))
<1> DEFINE c == [kind |-> "share", root |-> r, father |-> father]
           base == [memory |-> m, result |-> "ok"]
           size == Len(regions)
<1>1. size \in Nat /\ regions \in Seq(RegionType)
  BY DEF Histories
<1>2. PICK states : Rounds(states, c, base, regions) /\ states[size] = n
  <2>1. \E states : /\ Rounds(states, c, base, regions)
                    /\ states[Len(regions)] = Loop(c, base, regions)
    <3> HIDE DEF c, base
    <3> QED BY <1>1, LoopUnfolds
  <2>2. n = Loop(c, base, regions)
    BY ShareIsLoop
  <2> HIDE DEF c, base
  <2> QED BY <2>1, <2>2
<1>3. /\ states[0] = base
      /\ \A k \in 1..size : states[k] = ShareStep(c, states[k - 1], regions[k])
  <2>1. \A t, x : Do(c, t, x) = ShareStep(c, t, x)
    BY DEF Do
  <2> HIDE DEF c, base
  <2> QED BY <1>2, <2>1 DEF Rounds
<1>4. \A t, x : ShareStep(c, t, x) =
        IF t.result # "ok" THEN t
        ELSE MapLoop(x.page, x.count, x.flags, r, FatherGen(father), t.memory)
  <2>1. \A t, x : ShareStep(c, t, x) =
          IF t.result # "ok" THEN t
          ELSE FatherMap(t.memory, x.page, x.count, x.flags, r, father)
    BY DEF ShareStep
  <2> HIDE DEF c
  <2> QED BY <2>1, FatherIsLoop
<1> DEFINE holds == {k \in 0..size : Shared(m, use, pg, roots, r, father, regions, k, states[k])}
<1>5. 0 \in holds
  <2>1. Extended(m, use, pg, roots, r, m, use, pg)
    BY DEF Extended, DataKept, Taken
  <2>2. Held(pg[r], regions, 1..0) /\ NotMine(use, r, regions, 1..0)
        /\ SameFrames(pg[r], pg[father], regions, 1..0)
    <3>1. 1..0 = {}
      OBVIOUS
    <3> QED BY <3>1 DEF Held, NotMine, SameFrames
  <2>3. states[0].memory = m
    BY <1>3
  <2>4. \E other, new :
        /\ Extended(m, use, pg, roots, r, states[0].memory, other, new)
        /\ Held(new[r], regions, 1..0) /\ NotMine(other, r, regions, 1..0)
        /\ SameFrames(new[r], pg[father], regions, 1..0)
    BY <2>1, <2>2, <2>3
  <2> QED BY <1>1, <2>4 DEF Shared
<1> HIDE DEF c, base
<1>6. ASSUME NEW k \in 0..(size - 1), k \in holds PROVE k + 1 \in holds
  <2>1. k + 1 \in 1..size /\ k + 1 \in 0..size /\ (k + 1) - 1 = k
    BY <1>1
  <2>2. states[k + 1] = ShareStep(c, states[k], regions[k + 1])
    BY <1>3, <2>1
  <2>3. Shared(m, use, pg, roots, r, father, regions, k, states[k])
    BY <1>6
  <2>4. CASE states[k].result # "ok"
    <3>1. states[k + 1].result # "ok"
      BY <1>4, <2>2, <2>4
    <3> QED BY <2>1, <3>1 DEF Shared
  <2>5. CASE states[k].result = "ok"
    <3> DEFINE region == regions[k + 1]
    <3>1. states[k + 1] = MapLoop(region.page, region.count, region.flags, r, FatherGen(father), states[k].memory)
      BY <1>4, <2>2, <2>5
    <3> HIDE DEF region
    <3>2. region = regions[k + 1] /\ k \in 0..(Len(regions) - 1)
      BY DEF region
    <3>3. Shared(m, use, pg, roots, r, father, regions, k + 1, states[k + 1])
      BY <2>3, <2>5, <3>1, <3>2, ShareRound
    <3> QED BY <2>1, <3>3
  <2> QED BY <2>4, <2>5
<1>7. size \in holds
  <2> HIDE DEF holds, size
  <2>1. \A k \in 0..size : k \in holds
    BY <1>1, <1>5, <1>6, PositionInduction
  <2> QED BY <1>1, <2>1
<1>8. PICK other, new :
        /\ Extended(m, use, pg, roots, r, n.memory, other, new)
        /\ Held(new[r], regions, 1..size) /\ NotMine(other, r, regions, 1..size)
        /\ SameFrames(new[r], pg[father], regions, 1..size)
  BY <1>2, <1>7 DEF Shared
<1>9. Shape(other, new[r], r, <<>>, regions, FALSE)
  <2>1. <<>> \o regions = regions /\ Len(<<>>) = 0 /\ 0 + size = size /\ 0 + 1 = 1 /\ 1..0 = {}
    BY <1>1
  <2> QED BY <1>8, <2>1 DEF Shape, Mine
<1> QED BY <1>8, <1>9

-----------------------------------------------------------------------------
(* When no frame is left.                                                  *)

\* The list of free frames is empty, or the code takes it to be.
Exhausted(m) == m.first_free_frame_index >= FRAME_COUNT

\* frame_alloc() fails where no frame is left, whatever else memory holds.
LEMMA ExhaustedAlloc ==
    ASSUME NEW m, Exhausted(m)
    PROVE  frame_alloc(m) = [memory |-> m, frame |-> NULL]
BY DEF frame_alloc, Exhausted

\* So does gen_addr.
LEMMA ExhaustedGiven ==
    ASSUME NEW m, Exhausted(m), NEW gen, gen.kind \in {"fresh", "copy"}, NEW page
    PROVE  Given(gen, m, page) = [memory |-> m, frame |-> NULL]
<1>1. frame_alloc(m) = [memory |-> m, frame |-> NULL]
  BY ExhaustedAlloc
<1>2. copy_segment(m, page, gen.header) = [memory |-> m, frame |-> NULL]
  BY <1>1 DEF copy_segment
<1> QED BY <1>1, <1>2 DEF Given

\* The map() of a page that no frame is left for changes nothing.
LEMMA ExhaustedMap ==
    ASSUME NEW m, Exhausted(m), NEW gen, gen.kind \in {"fresh", "copy"}, NEW page, NEW flags,
           NEW root, NEW count \in Nat
    PROVE  LET n == MapLoop(page, count, flags, root, gen, m)
           IN  n.memory = m /\ n.result = IF count = 0 THEN "ok" ELSE "error"
<1> DEFINE c == [kind |-> "map", page |-> page, flags |-> flags, root |-> root, gen |-> gen]
           base == [memory |-> m, result |-> "ok"]
           failed == [memory |-> m, result |-> "error"]
           seq == Counting(count)
<1>1. seq \in Seq(Int) /\ Len(seq) = count
  BY CountingFacts
<1>2. PICK states : Rounds(states, c, base, seq) /\ states[Len(seq)] = Loop(c, base, seq)
  <2> HIDE DEF c, base, seq
  <2> QED BY <1>1, LoopUnfolds
<1>3. states[count] = MapLoop(page, count, flags, root, gen, m)
  BY <1>1, <1>2 DEF MapLoop
<1>4. c.kind = "map" /\ c.gen = gen
  OBVIOUS
<1> HIDE DEF c, seq
<1>5. states[0] = base /\ \A k \in 1..count : states[k] = MapStep(c, states[k - 1], seq[k])
  <2>1. \A s, x : Do(c, s, x) = MapStep(c, s, x)
    BY <1>4 DEF Do
  <2> QED BY <1>1, <1>2, <2>1 DEF Rounds
<1>6. \A x : MapStep(c, base, x) = failed
  <2> TAKE x
  <2> DEFINE index == LoopIndex(c.page, x)
             given == Given(c.gen, m, PageAt(index))
  <2>1. given = [memory |-> m, frame |-> NULL]
    BY <1>4, ExhaustedGiven
  <2>2. MapStep(c, base, x) = MapPage(m, c.root, index, c.flags, given)
    BY DEF MapStep
  <2> HIDE DEF given, index
  <2>3. MapPage(m, c.root, index, c.flags, given) = [memory |-> given.memory, result |-> "error"]
    BY <2>1 DEF MapPage
  <2> QED BY <2>1, <2>2, <2>3
<1>7. \A x : MapStep(c, failed, x) = failed
  BY DEF MapStep
<1> DEFINE holds == {k \in 0..count : states[k] = IF k = 0 THEN base ELSE failed}
<1>8. 0 \in holds
  BY <1>5
<1>9. ASSUME NEW k \in 0..(count - 1), k \in holds PROVE k + 1 \in holds
  <2>1. k + 1 \in 1..count /\ (k + 1) - 1 = k /\ k + 1 \in 0..count /\ k + 1 # 0
    OBVIOUS
  <2>2. states[k + 1] = MapStep(c, states[k], seq[k + 1])
    <3> HIDE DEF base, holds
    <3> QED BY <1>5, <2>1
  <2>3. states[k] = base \/ states[k] = failed
    BY <1>9
  <2>4. states[k + 1] = failed
    <3> HIDE DEF base, failed, holds
    <3> QED BY <1>6, <1>7, <2>2, <2>3
  <2> QED BY <2>1, <2>4
<1>10. count \in holds
  <2> HIDE DEF holds
  <2>1. \A k \in 0..count : k \in holds
    BY <1>8, <1>9, PositionInduction
  <2> QED BY <2>1
<1>11. states[count] = IF count = 0 THEN base ELSE failed
  BY <1>10
<1> QED BY <1>3, <1>11

\* load_module() fails where no frame is left, or has nothing to load.
LEMMA ExhaustedLoad ==
    ASSUME NEW m, Exhausted(m), NEW root, NEW level, NEW headers, HeadersOK(level, headers)
    PROVE  LET n == load_module(m, root, level, headers)
           IN  n.memory = m /\ n.result \in {"ok", "error"}
<1> DEFINE c == [kind |-> "load", root |-> root, level |-> level, headers |-> headers]
           base == [memory |-> m, result |-> "ok", ph_addr |-> 1, history |-> <<>>]
           size == Len(headers)
           Good(t, k) == /\ t.memory = m /\ t.result \in {"ok", "error"}
                         /\ t.result = "ok" => t.ph_addr \in 1..(k + 1)
<1>1. size \in Nat /\ headers \in Seq(Header) /\ DOMAIN headers = 1..size
  BY DEF HeadersOK
<1>2. PICK states : Rounds(states, c, base, headers) /\ states[size] = load_module(m, root, level, headers)
  <2>1. \E states : /\ Rounds(states, c, base, headers)
                    /\ states[Len(headers)] = Loop(c, base, headers)
    <3> HIDE DEF c, base
    <3> QED BY <1>1, LoopUnfolds
  <2>2. load_module(m, root, level, headers) = Loop(c, base, headers)
    BY LoadIsLoop
  <2> HIDE DEF c, base
  <2> QED BY <2>1, <2>2
<1>3. c.kind = "load" /\ c.level = level /\ c.root = root /\ c.headers = headers
  OBVIOUS
<1> HIDE DEF c
<1>4. states[0] = base /\ \A k \in 1..size : states[k] = LoadStep(c, states[k - 1], headers[k])
  <2>1. \A s, x : Do(c, s, x) = LoadStep(c, s, x)
    BY <1>3 DEF Do
  <2> QED BY <1>2, <2>1 DEF Rounds
<1> DEFINE holds == {k \in 0..size : Good(states[k], k)}
<1>5. 0 \in holds
  BY <1>1, <1>4
<1>6. ASSUME NEW k \in 0..(size - 1), k \in holds PROVE k + 1 \in holds
  <2> DEFINE t == states[k]
             next == states[k + 1]
  <2>1. k \in Nat /\ k + 1 \in 1..size /\ k + 1 \in 0..size /\ (k + 1) - 1 = k
    BY <1>1
  <2>2. next = LoadStep(c, t, headers[k + 1])
    <3> HIDE DEF base
    <3> QED BY <1>4, <2>1
  <2>3. Good(t, k)
    BY <1>6
  <2> HIDE DEF t, next
  <2> DEFINE header == headers[t.ph_addr]
             region == SegmentRegion(level, header)
             gen == CopyGen(header)
             q == MapLoop(region.page, region.count, region.flags, root, gen, t.memory)
  <2>4. next = LoadNext(t, header, region, q)
    <3> HIDE DEF header, region, q
    <3>1. header = c.headers[t.ph_addr] /\ region = SegmentRegion(c.level, header)
          /\ q = MapLoop(region.page, region.count, region.flags, c.root, CopyGen(header), t.memory)
      BY <1>3 DEF header, region, q, gen
    <3> QED BY <2>2, <3>1, LoadStepFacts
  <2>5. CASE t.result # "ok" \/ ~header.load
    <3>1. next = t
      <4> HIDE DEF header, region, q
      <4> QED BY <2>4, <2>5 DEF LoadNext
    <3>2. Good(next, k + 1)
      BY <2>1, <2>3, <3>1
    <3> QED BY <2>1, <3>2 DEF next
  <2>6. CASE t.result = "ok" /\ header.load
    <3>1. t.ph_addr \in 1..size /\ t.ph_addr \in 1..(k + 1) /\ t.memory = m
      BY <1>1, <2>1, <2>3, <2>6
    <3>2. region.count \in Nat
      <4>1. RegionOK(region)
        BY <1>1, <2>6, <3>1 DEF HeadersOK
      <4> HIDE DEF region
      <4> QED BY <4>1, RegionFacts
    <3>3. gen.kind = "copy"
      BY DEF CopyGen
    <3> HIDE DEF gen, region
    <3>4. q.memory = m /\ q.result \in {"ok", "error"}
      BY <3>1, <3>2, <3>3, ExhaustedMap
    <3> HIDE DEF q, header
    <3>5. next = [memory |-> q.memory, result |-> q.result, ph_addr |-> t.ph_addr + 1,
                  history |-> IF q.result = "ok" THEN <<region>> \o t.history ELSE t.history]
      BY <2>4, <2>6 DEF LoadNext
    <3>6. next.memory = m /\ next.result \in {"ok", "error"} /\ next.ph_addr = t.ph_addr + 1
      BY <3>4, <3>5
    <3>7. Good(next, k + 1)
      BY <2>1, <3>1, <3>6
    <3> QED BY <2>1, <3>7 DEF next
  <2> QED BY <2>5, <2>6
<1>7. size \in holds
  <2> HIDE DEF holds, size
  <2>1. \A k \in 0..size : k \in holds
    BY <1>1, <1>5, <1>6, PositionInduction
  <2> QED BY <1>1, <2>1
<1> QED BY <1>2, <1>7

\* create_process() fails where no frame is left: its first region has a page.
LEMMA ExhaustedAdd ==
    ASSUME NEW m, Exhausted(m), NEW root, NEW regions \in Histories, Len(regions) > 0,
           regions[1].count \in Nat \ {0}
    PROVE  FoldLeft(add_pages, [memory |-> m, root |-> root, result |-> "ok", history |-> <<>>],
                    regions).result = "error"
<1> DEFINE c == [kind |-> "add"]
           base == [memory |-> m, root |-> root, result |-> "ok", history |-> <<>>]
           size == Len(regions)
           region == regions[1]
           holds == {k \in 0..size : k = 0 \/ TRUE}
<1>1. size \in Nat /\ size >= 1
  BY DEF Histories
<1>2. PICK states : Rounds(states, c, base, regions) /\ states[size] = FoldLeft(add_pages, base, regions)
  <2>1. \E states : /\ Rounds(states, c, base, regions)
                    /\ states[Len(regions)] = Loop(c, base, regions)
    <3> HIDE DEF c, base
    <3> QED BY LoopUnfolds DEF Histories
  <2>2. FoldLeft(add_pages, base, regions) = Loop(c, base, regions)
    BY AddIsLoop
  <2> HIDE DEF c, base
  <2> QED BY <2>1, <2>2
<1>3. /\ states[0] = base
      /\ \A k \in 1..size : states[k] = add_pages(states[k - 1], regions[k])
  <2>1. \A t, k : Do(c, t, k) = add_pages(t, k)
    BY DEF Do
  <2> HIDE DEF c, base
  <2> QED BY <1>2, <2>1 DEF Rounds
<1>4. states[1].result = "error"
  <2>1. states[1] = add_pages(base, region)
    <3>1. 1 \in 1..size /\ 1 - 1 = 0
      BY <1>1
    <3> HIDE DEF base
    <3> QED BY <1>3, <3>1
  <2> DEFINE mapped == map(m, region.page, region.count, region.flags, root, Fresh)
  <2>2. mapped = MapLoop(region.page, region.count, region.flags, root, FreshGen, m)
    <3> HIDE DEF region
    <3> QED BY FreshIsLoop
  <2>3. mapped.result = "error"
    <3>1. FreshGen.kind = "fresh"
      BY DEF FreshGen
    <3> HIDE DEF mapped, region
    <3>2. region.count \in Nat /\ region.count # 0
      BY DEF region
    <3> QED BY <2>2, <3>1, <3>2, ExhaustedMap
  <2> HIDE DEF mapped
  <2>4. add_pages(base, region) = [base EXCEPT !.memory = mapped.memory, !.result = mapped.result,
                       !.history = IF mapped.result = "ok" THEN <<region>> \o @ ELSE @]
    BY DEF add_pages, mapped
  <2> QED BY <2>1, <2>3, <2>4
<1> HIDE DEF base
<1> DEFINE bad == {k \in 0..(size - 1) : states[k + 1].result = "error"}
<1>5. 0 \in bad
  BY <1>1, <1>4
<1>6. ASSUME NEW k \in 0..(size - 2), k \in bad PROVE k + 1 \in bad
  <2>1. k + 1 + 1 \in 1..size /\ (k + 1 + 1) - 1 = k + 1 /\ k + 1 \in 0..(size - 1)
    BY <1>1
  <2>2. states[k + 1 + 1] = add_pages(states[k + 1], regions[k + 1 + 1])
    BY <1>3, <2>1
  <2>3. states[k + 1].result = "error"
    BY <1>6
  <2>4. states[k + 1 + 1] = states[k + 1]
    BY <2>2, <2>3 DEF add_pages
  <2> QED BY <2>1, <2>3, <2>4
<1>7. size - 1 \in bad
  <2> HIDE DEF bad, size
  <2>1. size - 1 \in Nat /\ (size - 1) - 1 = size - 2
    BY <1>1
  <2>2. \A k \in 0..(size - 1) : k \in bad
    BY <1>5, <1>6, <2>1, PositionInduction
  <2> QED BY <2>1, <2>2
<1> QED BY <1>1, <1>2, <1>7 DEF base

-----------------------------------------------------------------------------
(* Taking the pages of a process down.                                     *)

\* destroy_process() unmaps and frees in a loop over a history.
LEMMA FreesAreLoop ==
    ASSUME NEW m, NEW root, NEW regions
    PROVE  unmap_all(m, root, regions, free_frame) =
             Loop([kind |-> "release", root |-> root, free |-> TRUE], m, regions)
<1> DEFINE c == [kind |-> "release", root |-> root, free |-> TRUE]
           Step(s, region) == unmap(s, region.page, region.count, root, free_frame).memory
           P(f) == f = [s \in SUBSET DOMAIN regions |-> IF s = {} THEN m ELSE Step(f[s \ {Max(s)}], regions[Max(s)])]
           Q(f) == f = [s \in SUBSET DOMAIN regions |-> IF s = {} THEN m ELSE Do(c, f[s \ {Max(s)}], regions[Max(s)])]
<1>1. unmap_all(m, root, regions, free_frame) = (CHOOSE f : P(f))[DOMAIN regions]
  BY Zenon DEF unmap_all, FoldLeft, MapThenFoldSet
<1>2. Loop(c, m, regions) = (CHOOSE f : Q(f))[DOMAIN regions]
  BY Zenon DEF Loop, FoldLeft, MapThenFoldSet
<1>3. \A f : P(f) <=> Q(f)
  <2>1. \A s, x : Do(c, s, x) = Step(s, x)
    BY DEF Do, UnmappedStep
  <2> HIDE DEF Step, c
  <2> QED BY <2>1
<1>4. (CHOOSE f : P(f)) = (CHOOSE f : Q(f))
  <2> HIDE DEF P, Q
  <2> QED BY <1>3, Zenon
<1> HIDE DEF P, Q, c
<1>5. unmap_all(m, root, regions, free_frame) = Loop(c, m, regions)
  BY <1>1, <1>2, <1>4, Zenon
<1> QED BY <1>5 DEF c

\* For a child it only unmaps what its father owns.
LEMMA KeepsAreLoop ==
    ASSUME NEW m, NEW root, NEW regions
    PROVE  unmap_all(m, root, regions, Keep) =
             Loop([kind |-> "release", root |-> root, free |-> FALSE], m, regions)
<1> DEFINE c == [kind |-> "release", root |-> root, free |-> FALSE]
           Step(s, region) == unmap(s, region.page, region.count, root, Keep).memory
           P(f) == f = [s \in SUBSET DOMAIN regions |-> IF s = {} THEN m ELSE Step(f[s \ {Max(s)}], regions[Max(s)])]
           Q(f) == f = [s \in SUBSET DOMAIN regions |-> IF s = {} THEN m ELSE Do(c, f[s \ {Max(s)}], regions[Max(s)])]
<1>1. unmap_all(m, root, regions, Keep) = (CHOOSE f : P(f))[DOMAIN regions]
  BY Zenon DEF unmap_all, FoldLeft, MapThenFoldSet
<1>2. Loop(c, m, regions) = (CHOOSE f : Q(f))[DOMAIN regions]
  BY Zenon DEF Loop, FoldLeft, MapThenFoldSet
<1>3. \A f : P(f) <=> Q(f)
  <2>1. \A s, x : Do(c, s, x) = Step(s, x)
    BY DEF Do, UnmappedStep
  <2> HIDE DEF Step, c
  <2> QED BY <2>1
<1>4. (CHOOSE f : P(f)) = (CHOOSE f : Q(f))
  <2> HIDE DEF P, Q
  <2> QED BY <1>3, Zenon
<1> HIDE DEF P, Q, c
<1>5. unmap_all(m, root, regions, Keep) = Loop(c, m, regions)
  BY <1>1, <1>2, <1>4, Zenon
<1> QED BY <1>5 DEF c

\* Some pages of the process with root r are gone, the tables they left empty too.
Emptied(m, use, pg, roots, r, n, other, new) ==
    /\ Forest(n, other, new, roots) /\ Full(n, other)
    /\ Released(use, other, r, Unshared) /\ DataLeft(m, n, other)
    /\ \A q \in Frame \ {r} : new[q] = pg[q]

\* Emptied, for two steps.
LEMMA EmptiedTwice ==
    ASSUME NEW m, NEW use, NEW pg, NEW roots, NEW r, NEW mid, NEW middle, NEW between,
           Emptied(m, use, pg, roots, r, mid, middle, between),
           NEW n, NEW other, NEW new, Emptied(mid, middle, between, roots, r, n, other, new)
    PROVE  Emptied(m, use, pg, roots, r, n, other, new)
<1>1. Released(use, other, r, Unshared \cup Unshared)
  BY ReleasedTwice DEF Emptied
<1>2. Released(use, other, r, Unshared)
  BY <1>1
<1>3. DataLeft(m, n, other)
  BY DataLeftTwice DEF Emptied
<1> QED BY <1>2, <1>3 DEF Emptied

\* StillMine, for two steps.
LEMMA StillMineTwice ==
    ASSUME NEW use, NEW row, NEW middle, NEW between, NEW other, NEW after, NEW r, NEW h,
           NEW D, NEW E \in SUBSET D,
           StillMine(use, row, middle, between, r, h, D),
           StillMine(middle, between, other, after, r, h, E)
    PROVE  StillMine(use, row, other, after, r, h, E)
BY DEF StillMine

\* The regions of h from first on are left, those before it are gone.
Leaving(m, use, pg, roots, r, h, first, last, n) ==
    \E other, new :
        /\ Emptied(m, use, pg, roots, r, n, other, new)
        /\ Held(new[r], h, first..last)
        /\ StillMine(use, pg[r], other, new[r], r, h, first..last)

\* One round of the loop: the first region that is left is unmapped.
LEMMA RegionUnmapped ==
    ASSUME NEW m, NEW use, NEW pg, NEW roots, NEW r \in roots, NEW h,
           NEW first \in Nat, NEW last \in Nat, first <= last,
           NEW n, Leaving(m, use, pg, roots, r, h, first, last, n),
           NEW free \in BOOLEAN,
           IF free THEN Mine(use, pg[r], r, h, {first}) ELSE NotMine(use, r, h, {first})
    PROVE  Leaving(m, use, pg, roots, r, h, first + 1, last,
                   UnmapLoop(h[first].page, h[first].count, r, free, n).memory)
<1>1. PICK middle, between :
        /\ Emptied(m, use, pg, roots, r, n, middle, between)
        /\ Held(between[r], h, first..last)
        /\ StillMine(use, pg[r], middle, between[r], r, h, first..last)
  BY DEF Leaving
<1> DEFINE D == first..last
           E == (first + 1)..last
           q == UnmapLoop(h[first].page, h[first].count, r, free, n).memory
<1>2. first \in D /\ {first} \in SUBSET D /\ E = D \ {first} /\ E \in SUBSET D
  OBVIOUS
<1>3. Held(between[r], h, D) /\ StillMine(use, pg[r], middle, between[r], r, h, D)
  BY <1>1
<1> HIDE DEF D, E
<1>4. IF free THEN Mine(middle, between[r], r, h, {first}) ELSE NotMine(middle, r, h, {first})
  BY <1>2, <1>3 DEF StillMine
<1>5. Unmappable(middle, between, r, h[first].page, h[first].count, free)
  BY <1>2, <1>3, <1>4, UnmappableRegion
<1>6. RegionOK(h[first])
  BY <1>2, <1>3 DEF Held
<1>7. h[first].count \in Nat /\ RegionIndexes(h[first]) = IndexesTo(h[first].page, h[first].count)
      /\ RegionIndexes(h[first]) \subseteq Unshared
  BY <1>6, RegionFacts
<1>8. Forest(n, middle, between, roots) /\ Full(n, middle)
  BY <1>1 DEF Emptied
<1>9. PICK other, new :
        Unmapped(n, middle, between, roots, r, IndexesTo(h[first].page, h[first].count), q, other, new)
  BY <1>5, <1>7, <1>8, UnmapLoopFacts DEF q
<1> HIDE DEF q
<1>10. Held(new[r], h, E) /\ StillMine(middle, between[r], other, new[r], r, h, E)
  <2>1. Unmapped(n, middle, between, roots, r, RegionIndexes(h[first]), q, other, new)
    BY <1>7, <1>9
  <2> QED BY <1>2, <1>3, <2>1, HeldUnmapped
<1>11. StillMine(use, pg[r], other, new[r], r, h, E)
  BY <1>2, <1>3, <1>10, StillMineTwice
<1>12. Emptied(n, middle, between, roots, r, q, other, new)
  <2>1. Released(middle, other, r, Unshared)
    BY <1>7, <1>9 DEF Unmapped, Released
  <2> QED BY <1>9, <2>1 DEF Unmapped, Emptied
<1>13. Emptied(m, use, pg, roots, r, q, other, new)
  BY <1>1, <1>12, EmptiedTwice
<1>14. Held(new[r], h, (first + 1)..last) /\ StillMine(use, pg[r], other, new[r], r, h, (first + 1)..last)
  BY <1>10, <1>11 DEF E
<1>15. \E z, w : /\ Emptied(m, use, pg, roots, r, q, z, w)
                 /\ Held(w[r], h, (first + 1)..last)
                 /\ StillMine(use, pg[r], z, w[r], r, h, (first + 1)..last)
  BY <1>13, <1>14
<1> QED BY <1>15 DEF Leaving, q

\* unmap_all() of the regions of list, which are in h from d + 1 on.
LEMMA RegionsUnmapped ==
    ASSUME NEW m, NEW use, NEW pg, NEW roots, NEW r \in roots,
           NEW h, NEW d \in Nat, NEW list \in Histories, NEW last \in Nat, d + Len(list) <= last,
           \A k \in 1..Len(list) : h[d + k] = list[k],
           NEW n, Leaving(m, use, pg, roots, r, h, d + 1, last, n),
           NEW free \in BOOLEAN,
           IF free THEN Mine(use, pg[r], r, h, (d + 1)..(d + Len(list)))
                   ELSE NotMine(use, r, h, (d + 1)..(d + Len(list)))
    PROVE  Leaving(m, use, pg, roots, r, h, d + Len(list) + 1, last,
                   Loop([kind |-> "release", root |-> r, free |-> free], n, list))
<1> DEFINE c == [kind |-> "release", root |-> r, free |-> free]
           size == Len(list)
<1>1. size \in Nat /\ list \in Seq(RegionType)
  BY DEF Histories
<1>2. PICK states : Rounds(states, c, n, list) /\ states[size] = Loop(c, n, list)
  <2>1. \E states : /\ Rounds(states, c, n, list)
                    /\ states[Len(list)] = Loop(c, n, list)
    <3> HIDE DEF c
    <3> QED BY <1>1, LoopUnfolds
  <2> QED BY <2>1
<1>3. c.kind = "release" /\ c.root = r /\ c.free = free
  OBVIOUS
<1> HIDE DEF c
<1>4. states[0] = n
      /\ \A k \in 1..size : states[k] = UnmapLoop(list[k].page, list[k].count, r, free, states[k - 1]).memory
  <2>1. \A s, x : Do(c, s, x) = UnmapLoop(x.page, x.count, r, free, s).memory
    <3> TAKE s, x
    <3>1. Do(c, s, x) = UnmappedStep(c, s, x)
      BY <1>3 DEF Do
    <3>2. unmap(s, x.page, x.count, r, free_frame) = UnmapLoop(x.page, x.count, r, TRUE, s)
      BY FreeIsLoop
    <3>3. unmap(s, x.page, x.count, r, Keep) = UnmapLoop(x.page, x.count, r, FALSE, s)
      BY KeepIsLoop
    <3>4. UnmappedStep(c, s, x) = IF free THEN unmap(s, x.page, x.count, r, free_frame).memory
                                  ELSE unmap(s, x.page, x.count, r, Keep).memory
      BY <1>3 DEF UnmappedStep
    <3>5. CASE free = TRUE
      BY <3>1, <3>2, <3>4, <3>5
    <3>6. CASE free = FALSE
      BY <3>1, <3>3, <3>4, <3>6
    <3> QED BY <3>5, <3>6
  <2> QED BY <1>2, <2>1 DEF Rounds
<1> DEFINE Good(k) == Leaving(m, use, pg, roots, r, h, d + k + 1, last, states[k])
           holds == {k \in 0..size : Good(k)}
<1>5. 0 \in holds
  <2>1. d + 0 + 1 = d + 1
    OBVIOUS
  <2>2. Good(0)
    BY <1>4, <2>1
  <2> HIDE DEF Good
  <2> QED BY <1>1, <2>2
<1>6. ASSUME NEW k \in 0..(size - 1), k \in holds PROVE k + 1 \in holds
  <2> DEFINE first == d + k + 1
  <2>1. /\ k + 1 \in 1..size /\ k + 1 \in 0..size /\ (k + 1) - 1 = k
        /\ first \in Nat /\ first <= last /\ first = d + (k + 1)
        /\ first + 1 = d + (k + 1) + 1 /\ first \in (d + 1)..(d + size)
    BY <1>1
  <2>2. states[k + 1] = UnmapLoop(list[k + 1].page, list[k + 1].count, r, free, states[k]).memory
    BY <1>4, <2>1
  <2>3. Leaving(m, use, pg, roots, r, h, first, last, states[k])
    BY <1>6
  <2>4. h[first] = list[k + 1]
    BY <2>1
  <2> HIDE DEF first, Good, holds
  <2>5. IF free THEN Mine(use, pg[r], r, h, {first}) ELSE NotMine(use, r, h, {first})
    BY <2>1 DEF Mine, NotMine
  <2>6. Leaving(m, use, pg, roots, r, h, first + 1, last,
                UnmapLoop(h[first].page, h[first].count, r, free, states[k]).memory)
    BY <2>1, <2>3, <2>5, RegionUnmapped
  <2>7. Leaving(m, use, pg, roots, r, h, d + (k + 1) + 1, last, states[k + 1])
    BY <2>1, <2>2, <2>4, <2>6
  <2>8. Good(k + 1)
    BY <2>7 DEF Good
  <2> QED BY <2>1, <2>8 DEF holds
<1>7. size \in holds
  <2> HIDE DEF holds, size
  <2>1. \A k \in 0..size : k \in holds
    BY <1>1, <1>5, <1>6, PositionInduction
  <2> QED BY <1>1, <2>1
<1>8. Leaving(m, use, pg, roots, r, h, d + size + 1, last, states[size])
  BY <1>7
<1> QED BY <1>2, <1>8 DEF c

\* A process that maps nothing has no table but its root.
LEMMA RootIsBare ==
    ASSUME NEW m, NEW use, NEW pg, NEW roots, Forest(m, use, pg, roots), Full(m, use),
           NEW r \in roots, \A a \in Unshared : pg[r][a] = Absent
    PROVE  /\ \A f \in Frame : use[f].kind = "used" /\ use[f].root = r => f = r
           /\ \A i \in Index : i # 0 => ~IsPresent(m, r, i)
<1> DEFINE None(k) == \A f \in Frame : use[f].kind = "used" /\ use[f].root = r => use[f].level # k
           holds == {k \in 0..(LEVELS - 1) : None(k)}
<1>1. LEVELS \in Nat /\ LEVELS >= 2 /\ 0 \in Index
  BY LevelsFact
<1>2. \A f \in Frame : use[f].kind = "used" =>
        use[f].index \in Unshared /\ At(use, f, use[f].root, use[f].level, use[f].index)
  BY ForestFacts DEF Forest, ForestTypes
<1>3. 0 \in holds
  <2>1. None(0)
    <3> SUFFICES ASSUME NEW f \in Frame, use[f].kind = "used", use[f].root = r, use[f].level = 0
                 PROVE  FALSE
      OBVIOUS
    <3>1. use[f].index \in Unshared /\ At(use, f, r, 0, use[f].index)
      BY <1>2
    <3>2. pg[r][use[f].index] # Absent
      BY <3>1, PageIsLeaf
    <3> QED BY <3>1, <3>2
  <2> HIDE DEF None
  <2> QED BY <1>1, <2>1
\* A present entry of a table of level k has something of level k - 1 below it.
<1>4. ASSUME NEW f \in Frame, use[f].kind = "used", use[f].root = r, NEW k \in 1..LEVELS,
             use[f].level = k, NEW i \in Index, IsPresent(m, f, i), k = LEVELS => i # 0,
             k - 1 \in holds
      PROVE  FALSE
  <2> DEFINE index == use[f].index
             a == [index EXCEPT ![k] = i]
  <2>1. index \in Idx /\ index[LEVELS] # 0
    BY <1>2, <1>4 DEF Unshared
  <2>2. a \in Idx /\ a[k] = i /\ \A j \in 1..LEVELS : j # k => a[j] = index[j]
    BY <1>1, <2>1 DEF Idx
  <2>3. a \in Unshared
    <3> HIDE DEF a, index
    <3>1. LEVELS \in 1..LEVELS
      BY <1>1
    <3>2. a[LEVELS] # 0
      BY <1>4, <2>1, <2>2, <3>1
    <3> QED BY <2>2, <3>2 DEF Unshared
  <2>4. SameAbove(index, a, k)
    BY <1>1, <2>2 DEF SameAbove
  <2> HIDE DEF a
  <2>5. CASE k = 1
    <3>1. pg[r][a] = m.table[f][a[1]]
      BY <1>4, <2>3, <2>4, <2>5 DEF Forest, Leaves
    <3>2. m.table[f][i] # Absent
      BY <1>4 DEF IsPresent, Absent
    <3> QED BY <2>2, <2>3, <2>5, <3>1, <3>2
  <2>6. CASE k # 1
    <3>1. k > 1
      BY <2>6
    <3>2. At(use, m.table[f][i].frame, r, k - 1, a)
      BY <1>4, <2>2, <2>3, <2>4, <3>1 DEF Forest, Down
    <3> QED BY <1>4, <3>2 DEF At
  <2> QED BY <2>5, <2>6
<1>5. ASSUME NEW k \in 0..(LEVELS - 2), k \in holds PROVE k + 1 \in holds
  <2>1. k + 1 \in 1..LEVELS /\ k + 1 \in 0..(LEVELS - 1) /\ k + 1 \in 1..(LEVELS - 1)
        /\ k + 1 # LEVELS /\ (k + 1) - 1 = k
    BY <1>1
  <2>2. None(k + 1)
    <3> SUFFICES ASSUME NEW f \in Frame, use[f].kind = "used", use[f].root = r, use[f].level = k + 1
                 PROVE  FALSE
      OBVIOUS
    <3>1. \A i \in Index : ~IsPresent(m, f, i)
      <4> HIDE DEF holds
      <4> QED BY <1>4, <1>5, <2>1
    <3>2. m.word[f] = 0
      BY <2>1, <3>1, WordsCount DEF Forest
    <3>3. m.word[f] # 0
      BY <2>1 DEF Full
    <3> QED BY <3>2, <3>3
  <2> HIDE DEF None
  <2> QED BY <2>1, <2>2
<1>6. \A k \in 0..(LEVELS - 1) : k \in holds
  <2> HIDE DEF holds
  <2>1. LEVELS - 1 \in Nat /\ (LEVELS - 1) - 1 = LEVELS - 2
    BY <1>1
  <2> QED BY <1>3, <1>5, <2>1, PositionInduction
<1>7. ASSUME NEW f \in Frame, use[f].kind = "used", use[f].root = r PROVE f = r
  <2>1. use[f].level \in 0..LEVELS
    BY ForestFacts
  <2>2. use[f].level = LEVELS
    <3>1. use[f].level \in 0..(LEVELS - 1) => FALSE
      BY <1>6, <1>7
    <3> QED BY <1>1, <2>1, <3>1
  <2> QED BY <1>7, <2>2, ForestFacts
<1>8. ASSUME NEW i \in Index, i # 0, IsPresent(m, r, i) PROVE FALSE
  <2>1. r \in Frame /\ use[r].kind = "used" /\ use[r].root = r /\ use[r].level = LEVELS
    BY RootFacts
  <2>2. LEVELS \in 1..LEVELS /\ LEVELS - 1 \in 0..(LEVELS - 1)
    BY <1>1
  <2>3. LEVELS - 1 \in holds
    BY <1>6, <2>2
  <2> HIDE DEF holds
  <2> QED BY <1>4, <1>8, <2>1, <2>2, <2>3
<1> QED BY <1>7, <1>8

\* destroy_paging_trie() finds no table below a root with no entry but the
\* shared one.
LEMMA NothingBelow ==
    ASSUME NEW m \in Memory, NEW r \in Frame, \A i \in Index : i # 0 => ~IsPresent(m, r, i)
    PROVE  TablesBelow(m, r) = <<>>
<1> DEFINE T == [table : Frame, level : Nat]
           V == [Frame -> Seq(T)]
           base == [t \in Frame |-> <<>>]
           Part(k, v, t, n) ==
             IF ~IsPresent(m, t, n - 1) \/ (k = LEVELS /\ n = 1) THEN <<>>
             ELSE Append(v[m.table[t][n - 1].frame],
                         [table |-> m.table[t][n - 1].frame, level |-> k - 1])
           Row(k, v) == [t \in Frame |-> FlattenSeq([n \in 1..ENTRIES |-> Part(k, v, t, n)])]
           next == [j \in 1..(LEVELS - 1) |-> [v \in V |-> Row(j + 1, v)]]
           P(g) == g = [k \in 1..LEVELS |->
                          [t \in Frame |->
                             IF k = 1 THEN <<>>
                             ELSE FlattenSeq([n \in 1..ENTRIES |->
                                    IF ~IsPresent(m, t, n - 1) \/ (k = LEVELS /\ n = 1) THEN <<>>
                                    ELSE Append(g[k - 1][m.table[t][n - 1].frame],
                                                [table |-> m.table[t][n - 1].frame, level |-> k - 1])])]]
<1>1. LEVELS \in Nat /\ LEVELS >= 2 /\ ENTRIES \in Nat \ {0} /\ 0 \in Index
      /\ \A n \in 1..ENTRIES : n - 1 \in Index
  BY LevelsFact DEF Index
<1>2. base \in V
  OBVIOUS
<1>3. \A k \in 2..LEVELS, v \in V : Row(k, v) \in V
  <2> SUFFICES ASSUME NEW k \in 2..LEVELS, NEW v \in V, NEW t \in Frame
               PROVE  FlattenSeq([n \in 1..ENTRIES |-> Part(k, v, t, n)]) \in Seq(T)
    BY Zenon
  <2>1. ASSUME NEW n \in 1..ENTRIES PROVE Part(k, v, t, n) \in Seq(T)
    <3> DEFINE f == m.table[t][n - 1].frame
               x == [table |-> f, level |-> k - 1]
    <3>1. f \in Frame
      BY <1>1, MemoryFields
    <3> HIDE DEF f
    <3>2. k - 1 \in Nat
      BY <1>1
    <3>3. x \in T
      BY <3>1, <3>2
    <3> HIDE DEF x, T
    <3>4. v[f] \in Seq(T)
      BY <3>1
    <3>5. Append(v[f], x) \in Seq(T)
      BY <3>3, <3>4
    <3>6. Part(k, v, t, n) = IF ~IsPresent(m, t, n - 1) \/ (k = LEVELS /\ n = 1) THEN <<>>
                             ELSE Append(v[f], x)
      BY Zenon DEF x, f
    <3> HIDE DEF Part
    <3> QED BY <3>5, <3>6
  <2> HIDE DEF Part, T
  <2>2. [n \in 1..ENTRIES |-> Part(k, v, t, n)] \in [1..ENTRIES -> Seq(T)]
    BY <2>1
  <2> QED BY <1>1, <2>2, FlattenSeqType
<1> HIDE DEF V, Row, base
<1>4. next \in [1..(LEVELS - 1) -> [V -> V]]
  <2>1. \A j \in 1..(LEVELS - 1) : j + 1 \in 2..LEVELS
    BY <1>1
  <2> QED BY <1>3, <2>1
<1>5. \A j \in 1..(LEVELS - 1) : \A v \in V : next[j][v] = Row(j + 1, v)
  OBVIOUS
<1> HIDE DEF next
<1>6. PICK f : Steps(f, LEVELS - 1, V, base, next)
  <2>1. LEVELS - 1 \in Nat
    BY <1>1
  <2> QED BY <1>2, <1>4, <2>1, PrimitiveRecursion
<1> DEFINE g == [k \in 1..LEVELS |-> f[k - 1]]
<1>7. ASSUME NEW k \in 1..LEVELS PROVE g[k] = IF k = 1 THEN base ELSE Row(k, g[k - 1])
  <2>1. CASE k = 1
    BY <1>6, <2>1 DEF Steps
  <2>2. CASE k # 1
    <3>1. k - 1 \in 1..LEVELS /\ k - 1 \in 1..(LEVELS - 1) /\ (k - 1) - 1 \in 0..(LEVELS - 1)
          /\ (k - 1) + 1 = k
      BY <1>1, <2>2
    <3>2. g[k] = f[k - 1] /\ g[k - 1] = f[(k - 1) - 1]
      BY <3>1
    <3> HIDE DEF g
    <3>3. f[k - 1] = next[k - 1][f[(k - 1) - 1]] /\ f[(k - 1) - 1] \in V
      BY <1>6, <3>1 DEF Steps
    <3>4. next[k - 1][f[(k - 1) - 1]] = Row(k, f[(k - 1) - 1])
      BY <1>5, <3>1, <3>3
    <3> QED BY <2>2, <3>2, <3>3, <3>4
  <2> QED BY <2>1, <2>2
<1>8. P(g)
  <2>1. g = [k \in 1..LEVELS |-> g[k]]
    OBVIOUS
  <2> HIDE DEF g
  <2>2. ASSUME NEW k \in 1..LEVELS
        PROVE  g[k] = [t \in Frame |-> IF k = 1 THEN <<>>
                         ELSE FlattenSeq([n \in 1..ENTRIES |-> Part(k, g[k - 1], t, n)])]
    <3>1. CASE k = 1
      <4>1. g[k] = base
        BY <1>7, <3>1
      <4> HIDE DEF Part
      <4> QED BY <3>1, <4>1 DEF base
    <3>2. CASE k # 1
      <4>1. g[k] = Row(k, g[k - 1])
        BY <1>7, <3>2
      <4> HIDE DEF Part
      <4> QED BY <3>2, <4>1 DEF Row
    <3> QED BY <3>1, <3>2
  <2>3. g = [k \in 1..LEVELS |-> [t \in Frame |-> IF k = 1 THEN <<>>
                         ELSE FlattenSeq([n \in 1..ENTRIES |-> Part(k, g[k - 1], t, n)])]]
    <3> HIDE DEF Part
    <3> QED BY <2>1, <2>2
  <2> QED BY <2>3
<1> DEFINE tables == CHOOSE h : P(h)
<1>9. P(tables)
  <2>1. \E h : P(h)
    BY <1>8
  <2> HIDE DEF P
  <2> QED BY <2>1
<1>10. TablesBelow(m, r) = tables[LEVELS][r]
  BY Zenon DEF TablesBelow
<1> HIDE DEF tables
<1> DEFINE parts == [n \in 1..ENTRIES |-> Part(LEVELS, tables[LEVELS - 1], r, n)]
<1>11. tables[LEVELS][r] = FlattenSeq(parts)
  <2>1. LEVELS \in 1..LEVELS /\ LEVELS # 1
    BY <1>1
  <2>2. tables[LEVELS] = [t \in Frame |->
             IF LEVELS = 1 THEN <<>>
             ELSE FlattenSeq([n \in 1..ENTRIES |->
                    IF ~IsPresent(m, t, n - 1) \/ (LEVELS = LEVELS /\ n = 1) THEN <<>>
                    ELSE Append(tables[LEVELS - 1][m.table[t][n - 1].frame],
                                [table |-> m.table[t][n - 1].frame, level |-> LEVELS - 1])])]
    BY <1>9, <2>1
  <2>3. tables[LEVELS] = [t \in Frame |->
             IF LEVELS = 1 THEN <<>>
             ELSE FlattenSeq([n \in 1..ENTRIES |-> Part(LEVELS, tables[LEVELS - 1], t, n)])]
    BY <2>2
  <2> HIDE DEF Part
  <2> QED BY <2>1, <2>3
<1>12. \A n \in 1..ENTRIES : parts[n] = <<>>
  <2> SUFFICES ASSUME NEW n \in 1..ENTRIES PROVE Part(LEVELS, tables[LEVELS - 1], r, n) = <<>>
    OBVIOUS
  <2>1. n # 1 => n - 1 \in Index /\ n - 1 # 0
    BY <1>1
  <2>2. n # 1 => ~IsPresent(m, r, n - 1)
    BY <2>1
  <2> QED BY <2>2
<1>13. parts \in [1..ENTRIES -> Seq(T)]
  <2>1. parts = [n \in 1..ENTRIES |-> parts[n]]
    <3> HIDE DEF Part
    <3> QED OBVIOUS
  <2>2. \A n \in 1..ENTRIES : parts[n] \in Seq(T)
    <3> HIDE DEF parts, T
    <3>1. <<>> \in Seq(T)
      OBVIOUS
    <3> QED BY <1>12, <3>1
  <2> HIDE DEF parts
  <2> QED BY <2>1, <2>2
<1> HIDE DEF parts, T
<1>14. FlattenSeq(parts) \in Seq(T) /\ Range(FlattenSeq(parts)) = UNION {Range(parts[k]) : k \in 1..ENTRIES}
  BY <1>1, <1>13, FlattenSeqMembers
<1>15. Range(FlattenSeq(parts)) = {}
  <2>1. \A k \in 1..ENTRIES : Range(parts[k]) = {}
    BY <1>12, EmptyMembers
  <2> QED BY <1>14, <2>1
<1>16. FlattenSeq(parts) = <<>>
  BY <1>14, <1>15 DEF Range
<1> QED BY <1>10, <1>11, <1>16

\* destroy_paging_trie() of a process that maps nothing any more.
LEMMA TrieDestroyed ==
    ASSUME NEW m, NEW r, TablesBelow(m, r) = <<>>
    PROVE  destroy_paging_trie(m, r) = free_table(set_entry(m, r, 0, NULL, {}), r)
<1> DEFINE seq == TablesBelow(m, r)
           Step(q, t) ==
             free_table(IF t.level = 1
                        THEN FoldLeft(LAMBDA o, n : set_entry(o, t.table, n - 1, NULL, {}), q,
                                      [n \in 1..ENTRIES |-> n])
                        ELSE q, t.table)
           P(f) == f = [s \in SUBSET DOMAIN seq |->
                          IF s = {} THEN m ELSE Step(f[s \ {Max(s)}], seq[Max(s)])]
           fold == CHOOSE f : P(f)
<1>1. destroy_paging_trie(m, r) = free_table(set_entry(fold[DOMAIN seq], r, 0, NULL, {}), r)
  BY Zenon DEF destroy_paging_trie, FoldLeft, MapThenFoldSet
<1>2. DOMAIN seq = {}
  BY DEF seq
<1> HIDE DEF seq, Step
<1>3. P([s \in SUBSET {} |-> m])
  <2>1. \A s \in SUBSET {} : s = {}
    OBVIOUS
  <2> QED BY <1>2, <2>1
<1>4. P(fold)
  <2>1. \E f : P(f)
    BY <1>3
  <2> HIDE DEF P
  <2> QED BY <2>1
<1> HIDE DEF fold
<1>5. fold[{}] = m
  BY <1>2, <1>4
<1> QED BY <1>1, <1>2, <1>5

\* The process with root r is gone with all that belonged to it.
Vacated(m, use, pg, roots, r, n, other, new) ==
    /\ Forest(n, other, new, roots \ {r}) /\ Full(n, other)
    /\ \A f \in Frame :
         \/ other[f] = use[f]
         \/ other[f].kind = "free" /\ use[f].kind = "used" /\ use[f].root = r
    /\ DataLeft(m, n, other)
    /\ \A q \in Frame \ {r} : new[q] = pg[q]

\* destroy_process() unmaps both histories, which is all that the process maps.
LEMMA RegionsReleased ==
    ASSUME NEW m, NEW use, NEW pg, NEW roots, Forest(m, use, pg, roots), Full(m, use),
           NEW r \in roots,
           NEW private \in Histories, NEW mapping \in Histories, NEW own \in BOOLEAN,
           Shape(use, pg[r], r, private, mapping, own),
           NEW q, q = Loop([kind |-> "release", root |-> r, free |-> TRUE], m, private),
           NEW n, n = Loop([kind |-> "release", root |-> r, free |-> own], q, mapping)
    PROVE  \E other, new : /\ Emptied(m, use, pg, roots, r, n, other, new)
                           /\ \A a \in Unshared : new[r][a] = Absent
<1> DEFINE h == private \o mapping
           i == Len(private)
           j == Len(mapping)
<1>1. /\ i \in Nat /\ j \in Nat
      /\ private \in Seq(RegionType) /\ mapping \in Seq(RegionType)
      /\ \A k \in 1..i : h[k] = private[k]
      /\ \A k \in 1..j : h[i + k] = mapping[k]
  BY DEF Histories
<1>2. /\ Held(pg[r], h, 1..(i + j)) /\ Mine(use, pg[r], r, h, 1..i)
      /\ IF own THEN Mine(use, pg[r], r, h, (i + 1)..(i + j)) ELSE NotMine(use, r, h, (i + 1)..(i + j))
  BY DEF Shape
<1> HIDE DEF h, i, j
<1>3. Leaving(m, use, pg, roots, r, h, 0 + 1, i + j, m)
  <2>1. Emptied(m, use, pg, roots, r, m, use, pg)
    BY DEF Emptied, Released, DataLeft
  <2>2. StillMine(use, pg[r], use, pg[r], r, h, 1..(i + j))
    BY DEF StillMine
  <2>3. Leaving(m, use, pg, roots, r, h, 1, i + j, m)
    BY <1>2, <2>1, <2>2 DEF Leaving
  <2> QED BY <2>3
<1>4. Leaving(m, use, pg, roots, r, h, 0 + i + 1, i + j, q)
  <2>1. 0 + i <= i + j /\ 0 \in Nat /\ i + j \in Nat
    BY <1>1
  <2>2. \A k \in 1..Len(private) : h[0 + k] = private[k]
    BY <1>1 DEF i
  <2>3. IF TRUE THEN Mine(use, pg[r], r, h, (0 + 1)..(0 + Len(private)))
                ELSE NotMine(use, r, h, (0 + 1)..(0 + Len(private)))
    <3>1. 0 + 1 = 1 /\ 0 + Len(private) = i
      BY <1>1 DEF i
    <3> QED BY <1>2, <3>1
  <2>4. Leaving(m, use, pg, roots, r, h, 0 + Len(private) + 1, i + j,
                Loop([kind |-> "release", root |-> r, free |-> TRUE], m, private))
    <3>1. 0 + Len(private) <= i + j
      BY <2>1 DEF i
    <3> QED BY <1>3, <2>1, <2>2, <2>3, <3>1, RegionsUnmapped
  <2> QED BY <2>4 DEF i
<1>5. Leaving(m, use, pg, roots, r, h, i + 1, i + j, q)
  <2>1. 0 + i + 1 = i + 1
    BY <1>1
  <2> QED BY <1>4, <2>1
<1>6. Leaving(m, use, pg, roots, r, h, i + j + 1, i + j, n)
  <2>1. i + j \in Nat /\ i + Len(mapping) <= i + j
    BY <1>1 DEF j
  <2>2. \A k \in 1..Len(mapping) : h[i + k] = mapping[k]
    BY <1>1 DEF j
  <2>3. IF own THEN Mine(use, pg[r], r, h, (i + 1)..(i + Len(mapping)))
               ELSE NotMine(use, r, h, (i + 1)..(i + Len(mapping)))
    BY <1>2 DEF j
  <2>4. Leaving(m, use, pg, roots, r, h, i + Len(mapping) + 1, i + j,
                Loop([kind |-> "release", root |-> r, free |-> own], q, mapping))
    BY <1>1, <1>5, <2>1, <2>2, <2>3, RegionsUnmapped
  <2> QED BY <2>4 DEF j
<1>7. PICK other, new : /\ Emptied(m, use, pg, roots, r, n, other, new)
                        /\ Held(new[r], h, (i + j + 1)..(i + j))
  BY <1>6 DEF Leaving
<1>8. (i + j + 1)..(i + j) = {}
  BY <1>1
<1>9. \A a \in Unshared : new[r][a] = Absent
  BY <1>7, <1>8 DEF Held
<1> QED BY <1>7, <1>9

\* No table is below a root, neither in use nor in memory.
BareRoot(low, mid, r) ==
    /\ \A f \in Frame : mid[f].kind = "used" /\ mid[f].root = r => f = r
    /\ TablesBelow(low, r) = <<>>

\* Unmapping all the pages of a process gives all its tables back, as unmap()
\* does it.
LEMMA BareRootFound ==
    ASSUME NEW low, NEW mid, NEW between, NEW roots, Forest(low, mid, between, roots), Full(low, mid),
           NEW r \in roots, \A a \in Unshared : between[r][a] = Absent
    PROVE  BareRoot(low, mid, r)
<1>1. /\ \A f \in Frame : mid[f].kind = "used" /\ mid[f].root = r => f = r
      /\ \A i \in Index : i # 0 => ~IsPresent(low, r, i)
  BY RootIsBare
<1>2. r \in Frame /\ low \in Memory
  BY RootFacts, ForestFacts
<1> QED BY <1>1, <1>2, NothingBelow DEF BareRoot

\* What giving back the root leaves.
RootGone(low, mid, between, roots, r, o, last) ==
    /\ Forest(o, last, between, roots \ {r}) /\ Full(o, last)
    /\ \A f \in Frame \ {r} : o.data[f] = low.data[f]

\* Then the root is given back.
LEMMA BareRootDropped ==
    ASSUME NEW low, NEW mid, NEW between, NEW roots, Forest(low, mid, between, roots), Full(low, mid),
           NEW r \in roots, r # identity_l4_table, BareRoot(low, mid, r)
    PROVE  RootGone(low, mid, between, roots, r, free_table(set_entry(low, r, 0, NULL, {}), r),
                    Relabelled(mid, r, "free"))
<1>1. \A f \in Frame : mid[f].kind = "used" /\ mid[f].root = r => f = r
  BY DEF BareRoot
<1> QED BY <1>1, RootDropped DEF RootGone

\* Then destroy_paging_trie() leaves nothing of the process.
LEMMA RootVacated ==
    ASSUME NEW m, NEW use, NEW pg, NEW roots, Forest(m, use, pg, roots),
           NEW r \in roots, r # identity_l4_table, NEW low, NEW mid, NEW between,
           Emptied(m, use, pg, roots, r, low, mid, between), \A a \in Unshared : between[r][a] = Absent
    PROVE  \E other, new : Vacated(m, use, pg, roots, r, destroy_paging_trie(low, r), other, new)
<1>4. Forest(low, mid, between, roots) /\ Full(low, mid)
  BY DEF Emptied
<1>5. BareRoot(low, mid, r)
  BY <1>4, BareRootFound
<1>6. r \in Frame /\ mid[r].kind = "used" /\ mid[r].root = r
  BY <1>4, RootFacts
<1>7. low \in Memory /\ mid \in [Frame -> Role]
  BY <1>4, ForestFacts
<1>8. TablesBelow(low, r) = <<>>
  BY <1>5 DEF BareRoot
<1> DEFINE o == free_table(set_entry(low, r, 0, NULL, {}), r)
           last == Relabelled(mid, r, "free")
<1>9. destroy_paging_trie(low, r) = o
  BY <1>8, TrieDestroyed
<1>10. /\ Forest(o, last, between, roots \ {r}) /\ Full(o, last)
       /\ \A f \in Frame \ {r} : o.data[f] = low.data[f]
  BY <1>4, <1>5, BareRootDropped DEF RootGone
<1>11. (\A f \in Frame \ {r} : last[f] = mid[f]) /\ last[r].kind = "free"
  BY <1>6, <1>7, RelabelledFacts
<1> HIDE DEF o, last
<1>12. use[r].kind = "used" /\ use[r].root = r
  BY RootFacts
<1>13. Vacated(m, use, pg, roots, r, o, last, between)
  <2>1. ASSUME NEW f \in Frame
        PROVE  last[f] = use[f] \/ (last[f].kind = "free" /\ use[f].kind = "used" /\ use[f].root = r)
    <3>1. mid[f] = use[f] \/ (mid[f].kind = "free" /\ use[f].kind = "used" /\ use[f].root = r)
      BY DEF Emptied, Released
    <3> QED BY <1>11, <1>12, <3>1
  <2>2. DataLeft(m, o, last)
    BY <1>10, <1>11 DEF Emptied, DataLeft
  <2>3. \A x \in Frame \ {r} : between[x] = pg[x]
    BY DEF Emptied
  <2> QED BY <1>10, <2>1, <2>2, <2>3 DEF Vacated
<1> QED BY <1>9, <1>13

\* destroy_process() takes down the address space of a process: its frames are
\* free, those of its father are not.
LEMMA PagesReleased ==
    ASSUME NEW m, NEW use, NEW pg, NEW roots, Forest(m, use, pg, roots), Full(m, use),
           NEW id, NEW r \in roots, r = process_array[id].paging_root, r # identity_l4_table,
           process_array[id].private_mapping_history \in Histories,
           process_array[id].mapping_history \in Histories,
           NEW own \in BOOLEAN, own <=> process_array[id].father_id = NoProcess,
           Shape(use, pg[r], r, process_array[id].private_mapping_history,
                 process_array[id].mapping_history, own)
    PROVE  \E other, new : Vacated(m, use, pg, roots, r, ReleasePages(m, id), other, new)
<1> DEFINE private == process_array[id].private_mapping_history
           mapping == process_array[id].mapping_history
           q == Loop([kind |-> "release", root |-> r, free |-> TRUE], m, private)
           low == Loop([kind |-> "release", root |-> r, free |-> own], q, mapping)
<1>1. own \in BOOLEAN
  OBVIOUS
<1>2. ReleasePages(m, id) = destroy_paging_trie(low, r)
  <2>1. unmap_all(m, r, private, free_frame) = q
    BY FreesAreLoop
  <2>2. own => unmap_all(q, r, mapping, free_frame) = low
    <3> SUFFICES ASSUME own PROVE unmap_all(q, r, mapping, free_frame) = low
      OBVIOUS
    <3>1. low = Loop([kind |-> "release", root |-> r, free |-> TRUE], q, mapping)
      BY <1>1
    <3> HIDE DEF q, low, mapping
    <3> QED BY <3>1, FreesAreLoop
  <2>3. ~own => unmap_all(q, r, mapping, Keep) = low
    <3> SUFFICES ASSUME ~own PROVE unmap_all(q, r, mapping, Keep) = low
      OBVIOUS
    <3>1. low = Loop([kind |-> "release", root |-> r, free |-> FALSE], q, mapping)
      BY <1>1
    <3> HIDE DEF q, low, mapping
    <3> QED BY <3>1, KeepsAreLoop
  <2>4. ReleasePages(m, id) =
          destroy_paging_trie(IF own THEN unmap_all(unmap_all(m, r, private, free_frame), r, mapping, free_frame)
                              ELSE unmap_all(unmap_all(m, r, private, free_frame), r, mapping, Keep), r)
    BY DEF ReleasePages
  <2> HIDE DEF q, low, mapping, private
  <2> QED BY <2>1, <2>2, <2>3, <2>4
<1> HIDE DEF q, low, private, mapping
<1>3. PICK mid, between : /\ Emptied(m, use, pg, roots, r, low, mid, between)
                          /\ \A a \in Unshared : between[r][a] = Absent
  <2>1. Shape(use, pg[r], r, private, mapping, own) /\ private \in Histories /\ mapping \in Histories
    BY DEF private, mapping
  <2> QED BY <1>1, <2>1, RegionsReleased DEF q, low
<1>4. \E other, new : Vacated(m, use, pg, roots, r, destroy_paging_trie(low, r), other, new)
  BY <1>3, RootVacated
<1> QED BY <1>2, <1>4
=============================================================================
