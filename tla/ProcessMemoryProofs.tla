------------------------ MODULE ProcessMemoryProofs -------------------------
(***************************************************************************)
(* Proofs about ProcessMemory: what its page tables hold, that no frame     *)
(* has two owners or none, that what a process sees and may write stays     *)
(* its own, and that the tables implement AddressSpaces.                    *)
(*                                                                           *)
(* The inductive invariant is State: a ghost (use, pg: see PagingProofs)    *)
(* with a tree for each process and for the kernel, each process mapping    *)
(* the pages of its two histories and nothing else, its module's bytes in   *)
(* the pages of the first of its family, and the birth of each process,     *)
(* which is later than that of its father. Every action keeps it, by what   *)
(* PagingProofs says of the calls it makes.                                 *)
(***************************************************************************)
EXTENDS PagingProofs

(* What a walk of all the entries finds.                                   *)

\* What a walk knows of an index when it reaches level k.
Cut(a, k) == [l \in (k + 1)..LEVELS |-> a[l]]
\* One level more of it.
Onto(k, i, index) == [l \in (k + 1)..LEVELS |-> IF l = k + 1 THEN i ELSE index[l]]

\* What is used of these.
LEMMA CutFacts ==
    /\ \A a \in Idx : Cut(a, 0) = a
    /\ \A a \in Idx, b \in Idx, k \in 0..LEVELS : Cut(a, k) = Cut(b, k) <=> SameAbove(a, b, k)
    /\ \A a \in Idx, b \in Idx, k \in 0..(LEVELS - 1) : SameAbove(a, b, k + 1) =>
         Cut(b, k) = Onto(k, b[k + 1], Cut(a, k + 1))
    /\ \A a \in Idx : \A k : k = LEVELS - 1 => Cut(a, k) = Onto(k, a[k + 1], <<>>)
<1>1. LEVELS \in Nat
  BY LevelsFact
<1>2. ASSUME NEW a \in Idx PROVE Cut(a, 0) = a
  <2>1. (0 + 1)..LEVELS = 1..LEVELS
    OBVIOUS
  <2> QED BY <2>1 DEF Cut, Idx
<1>3. ASSUME NEW a \in Idx, NEW b \in Idx, NEW k \in 0..LEVELS
      PROVE  Cut(a, k) = Cut(b, k) <=> SameAbove(a, b, k)
  BY DEF Cut, SameAbove
<1>4. ASSUME NEW a \in Idx, NEW b \in Idx, NEW k \in 0..(LEVELS - 1), SameAbove(a, b, k + 1)
      PROVE  Cut(b, k) = Onto(k, b[k + 1], Cut(a, k + 1))
  <2>1. ASSUME NEW l \in (k + 1)..LEVELS
        PROVE  b[l] = IF l = k + 1 THEN b[k + 1] ELSE Cut(a, k + 1)[l]
    <3>1. CASE l = k + 1
      BY <3>1
    <3>2. CASE l # k + 1
      <4>1. l \in (k + 1 + 1)..LEVELS
        BY <1>1, <3>2
      <4> QED BY <1>4, <3>2, <4>1 DEF Cut, SameAbove
    <3> QED BY <3>1, <3>2
  <2> QED BY <2>1 DEF Cut, Onto
<1>5. ASSUME NEW a \in Idx, NEW k, k = LEVELS - 1 PROVE Cut(a, k) = Onto(k, a[k + 1], <<>>)
  <2>1. \A l \in (k + 1)..LEVELS : l = k + 1
    BY <1>1, <1>5
  <2> QED BY <2>1 DEF Cut, Onto
<1> QED BY <1>2, <1>3, <1>4, <1>5

\* The node where Below begins.
RootNode(r) == [level |-> LEVELS, index |-> <<>>, frame |-> r]
\* The nodes below it.
Node(k, f, index) == [level |-> k, frame |-> f, index |-> index]

\* What Below finds at level k: the root, the shared table, a table of the
\* process, or a page.
NodeAt(use, pg, r, k, x) ==
    \/ k = LEVELS /\ x = RootNode(r)
    \/ k = LEVELS - 1 /\ x = Node(k, identity_l3_table, Onto(k, 0, <<>>))
    \/ k \in 1..(LEVELS - 1) /\ \E a \in Unshared, f \in Frame :
         At(use, f, r, k, a) /\ x = Node(k, f, Cut(a, k))
    \/ k = 0 /\ \E a \in Unshared : pg[r][a] # Absent /\ x = Node(0, pg[r][a].frame, a)

\* The fields of the root.
LEMMA RootFields == ASSUME NEW r PROVE RootNode(r).frame = r /\ RootNode(r).level = LEVELS
BY DEF RootNode

\* The fields of a node.
LEMMA NodeFields ==
    ASSUME NEW k, NEW f, NEW index
    PROVE  Node(k, f, index).frame = f /\ Node(k, f, index).index = index /\ Node(k, f, index).level = k
BY DEF Node

\* The node below a node.
LEMMA NodeChild ==
    ASSUME NEW m, NEW k, NEW f, NEW index, NEW i
    PROVE  Child(m, k, Node(k + 1, f, index), i) = Node(k, m.table[f][i].frame, Onto(k, i, index))
BY DEF Node, Child, Onto

\* The node below the root.
LEMMA RootChild ==
    ASSUME NEW m, NEW k, NEW r, NEW i
    PROVE  Child(m, k, RootNode(r), i) = Node(k, m.table[r][i].frame, Onto(k, i, <<>>))
BY DEF RootNode, Node, Child, Onto

\* Everything below a node is a node.
LEMMA NodeDown ==
    ASSUME NEW m, NEW use, NEW pg, NEW roots, Forest(m, use, pg, roots), NEW r \in roots,
           NEW k \in 0..(LEVELS - 1), NEW y, NodeAt(use, pg, r, k + 1, y),
           NEW i \in Index, IsPresent(m, y.frame, i)
    PROVE  NodeAt(use, pg, r, k, Child(m, k, y, i))
<1>1. LEVELS \in Nat /\ LEVELS >= 2 /\ k \in Nat /\ k + 1 # 0
  BY LevelsFact
<1>2. CASE k + 1 = LEVELS /\ y = RootNode(r)
  <2>1. k = LEVELS - 1 /\ y.frame = r /\ k \in 1..(LEVELS - 1) /\ k # 0
    BY <1>1, <1>2, RootFields, RootChild, NodeFields, NodeChild
  <2>2. Child(m, k, y, i) = Node(k, m.table[r][i].frame, Onto(k, i, <<>>))
    BY <1>2, RootFields, RootChild, NodeFields, NodeChild
  <2>3. CASE i = 0
    <3>1. m.table[r][i].frame = identity_l3_table
      BY <2>3, RootFacts
    <3>2. Child(m, k, y, i) = Node(k, identity_l3_table, Onto(k, 0, <<>>))
      BY <2>2, <2>3, <3>1
    <3> QED BY <2>1, <3>2 DEF NodeAt
  <2>4. CASE i # 0
    <3> DEFINE a == [l \in 1..LEVELS |-> i]
    <3>1. a \in Unshared /\ a[LEVELS] = i
      <4>1. LEVELS \in 1..LEVELS
        BY <1>1
      <4> QED BY <2>4, <4>1 DEF Unshared, Idx
    <3> HIDE DEF a
    <3>2. Cut(a, k) = Onto(k, i, <<>>)
      <4>1. a \in Idx /\ k + 1 = LEVELS
        BY <1>2, <3>1 DEF Unshared
      <4>2. Cut(a, k) = Onto(k, a[k + 1], <<>>)
        BY <2>1, <4>1, CutFacts
      <4> QED BY <3>1, <4>1, <4>2
    <3>3. At(use, m.table[r][i].frame, r, k, a)
      <4>1. At(use, r, r, LEVELS, a)
        BY ForestFacts
      <4>2. LEVELS > 1 /\ IsPresent(m, r, a[LEVELS])
        BY <1>1, <2>1, <3>1
      <4>3. At(use, m.table[r][a[LEVELS]].frame, r, LEVELS - 1, a)
        BY <3>1, <4>1, <4>2, PlacesAreApart
      <4> QED BY <2>1, <3>1, <4>3
    <3>4. m.table[r][i].frame \in Frame
      BY <3>3 DEF At
    <3>5. Child(m, k, y, i) = Node(k, m.table[r][i].frame, Cut(a, k))
      BY <2>2, <3>2
    <3> QED BY <2>1, <3>1, <3>3, <3>4, <3>5 DEF NodeAt
  <2> QED BY <2>3, <2>4
<1>3. CASE k + 1 = LEVELS - 1 /\ y = Node(k + 1, identity_l3_table, Onto(k + 1, 0, <<>>))
  <2>1. y.frame = identity_l3_table
    BY <1>3, RootFields, RootChild, NodeFields, NodeChild
  <2>2. m.table[identity_l3_table][i] = Absent
    BY DEF Forest, RootsOK
  <2> QED BY <2>1, <2>2 DEF IsPresent, Absent
<1>4. ASSUME k + 1 \in 1..(LEVELS - 1), NEW a \in Unshared, NEW f \in Frame,
             At(use, f, r, k + 1, a), y = Node(k + 1, f, Cut(a, k + 1))
      PROVE  NodeAt(use, pg, r, k, Child(m, k, y, i))
  <2> DEFINE b == [a EXCEPT ![k + 1] = i]
  <2>1. y.frame = f /\ IsPresent(m, f, i)
    BY <1>4, RootFields, RootChild, NodeFields, NodeChild
  <2>2. b \in Unshared /\ b[k + 1] = i /\ \A j \in 1..LEVELS : j # k + 1 => b[j] = a[j]
    <3>1. a \in Idx /\ a[LEVELS] # 0 /\ k + 1 # LEVELS /\ LEVELS \in 1..LEVELS /\ k + 1 \in 1..LEVELS
      BY <1>1, <1>4 DEF Unshared
    <3> QED BY <3>1 DEF Unshared, Idx
  <2> HIDE DEF b
  <2>3. SameAbove(a, b, k + 1)
    <3>1. \A j \in (k + 1 + 1)..LEVELS : j \in 1..LEVELS /\ j # k + 1
      BY <1>1
    <3> QED BY <2>2, <3>1 DEF SameAbove
  <2>4. At(use, f, r, k + 1, b)
    BY <1>4, <2>3, PlacesAreApart
  <2>5. a \in Idx /\ b \in Idx
    BY <2>2 DEF Unshared
  <2>6. Child(m, k, y, i) = Node(k, m.table[f][i].frame, Cut(b, k))
    <3>1. Child(m, k, y, i) = Node(k, m.table[f][i].frame,
             Onto(k, i, Cut(a, k + 1)))
      <4>1. Child(m, k, Node(k + 1, f, Cut(a, k + 1)), i) = Node(k, m.table[f][i].frame,
             Onto(k, i, Cut(a, k + 1)))
        BY NodeChild
      <4> QED BY <1>4, <4>1
    <3>2. Cut(b, k) = Onto(k, b[k + 1], Cut(a, k + 1))
      BY <2>3, <2>5, CutFacts
    <3> QED BY <2>2, <3>1, <3>2
  <2>7. CASE k = 0
    <3>1. At(use, f, r, 1, b)
      BY <2>4, <2>7
    <3>2. pg[r][b] = m.table[f][i]
      <4>1. use[f].kind = "used" /\ use[f].level = 1 /\ use[f].root = r /\ SameAbove(use[f].index, b, 1)
        BY <3>1 DEF At
      <4>2. pg[r][b] = m.table[f][b[1]]
        BY <2>2, <4>1 DEF Forest, Leaves
      <4> QED BY <2>2, <2>7, <4>2
    <3>3. pg[r][b] # Absent
      BY <2>1, <3>2 DEF IsPresent, Absent
    <3>4. Cut(b, k) = b
      BY <2>5, <2>7, CutFacts
    <3>5. Child(m, k, y, i) = Node(0, pg[r][b].frame, b)
      BY <2>6, <2>7, <3>2, <3>4
    <3> QED BY <2>2, <2>7, <3>3, <3>5 DEF NodeAt
  <2>8. CASE k # 0
    <3>1. k + 1 > 1 /\ (k + 1) - 1 = k /\ k \in 1..(LEVELS - 1)
      BY <1>1, <2>8
    <3>2. At(use, m.table[f][b[k + 1]].frame, r, (k + 1) - 1, b)
      BY <2>1, <2>2, <2>4, <3>1, PlacesAreApart
    <3>3. At(use, m.table[f][i].frame, r, k, b)
      BY <2>2, <3>1, <3>2
    <3>4. m.table[f][i].frame \in Frame
      BY <3>3 DEF At
    <3> QED BY <2>2, <2>6, <3>1, <3>3, <3>4 DEF NodeAt
  <2> QED BY <2>7, <2>8
<1> QED BY <1>1, <1>2, <1>3, <1>4 DEF NodeAt

\* Every node but the root is below one.
LEMMA NodeUp ==
    ASSUME NEW m, NEW use, NEW pg, NEW roots, Forest(m, use, pg, roots), NEW r \in roots,
           NEW k \in 0..(LEVELS - 1), NEW x, NodeAt(use, pg, r, k, x)
    PROVE  \E y, i : /\ NodeAt(use, pg, r, k + 1, y) /\ i \in Index /\ IsPresent(m, y.frame, i)
                     /\ x = Child(m, k, y, i)
<1>1. LEVELS \in Nat /\ LEVELS >= 2 /\ k \in Nat /\ k # LEVELS /\ 0 \in Index
  BY LevelsFact
<1>2. CASE k = LEVELS - 1 /\ x = Node(k, identity_l3_table, Onto(k, 0, <<>>))
  <2>1. m.table[r][0] = [frame |-> identity_l3_table, flags |-> {PRESENT, RW}]
    BY RootFacts
  <2>2. IsPresent(m, r, 0) /\ m.table[r][0].frame = identity_l3_table
    BY <2>1 DEF IsPresent
  <2>3. RootNode(r).frame = r
    BY RootFields, RootChild, NodeFields, NodeChild
  <2>4. x = Child(m, k, RootNode(r), 0)
    BY <1>2, <2>2, RootFields, RootChild, NodeFields, NodeChild
  <2>5. NodeAt(use, pg, r, k + 1, RootNode(r))
    <3>1. k + 1 = LEVELS
      BY <1>1, <1>2
    <3> QED BY <3>1 DEF NodeAt
  <2>6. 0 \in Index /\ IsPresent(m, RootNode(r).frame, 0)
    BY <1>1, <2>2, <2>3
  <2> QED BY <2>4, <2>5, <2>6
<1>3. ASSUME k \in 1..(LEVELS - 1), NEW a \in Unshared, NEW f \in Frame,
             At(use, f, r, k, a), x = Node(k, f, Cut(a, k))
      PROVE  \E y, i : /\ NodeAt(use, pg, r, k + 1, y) /\ i \in Index /\ IsPresent(m, y.frame, i)
                       /\ x = Child(m, k, y, i)
  <2>1. k < LEVELS /\ k + 1 \in 1..LEVELS /\ a \in Idx /\ a[k + 1] \in Index
    <3>1. k < LEVELS /\ k + 1 \in 1..LEVELS /\ a \in Idx
      BY <1>1, <1>3 DEF Unshared
    <3> QED BY <3>1 DEF Idx
  <2>2. PICK g \in Frame : /\ At(use, g, r, k + 1, a) /\ IsPresent(m, g, a[k + 1])
                           /\ m.table[g][a[k + 1]].frame = f
    BY <1>3, <2>1, PlacesAreApart
  <2>3. CASE k + 1 = LEVELS
    <3>1. g = r
      <4>1. use[g].kind = "used" /\ use[g].level = LEVELS /\ use[g].root = r
        BY <2>2, <2>3 DEF At
      <4> QED BY <4>1, ForestFacts
    <3>2. k = LEVELS - 1 /\ LEVELS = k + 1
      BY <1>1, <2>3
    <3>3. Cut(a, k) = Onto(k, a[k + 1], <<>>)
      BY <2>1, <3>2, CutFacts
    <3>4. x = Child(m, k, RootNode(r), a[k + 1])
      BY <1>3, <2>2, <3>1, <3>3, RootFields, RootChild, NodeFields, NodeChild
    <3>5. NodeAt(use, pg, r, k + 1, RootNode(r))
      BY <2>3 DEF NodeAt
    <3>6. a[k + 1] \in Index /\ IsPresent(m, RootNode(r).frame, a[k + 1])
      BY <2>1, <2>2, <3>1, RootFields, RootChild, NodeFields, NodeChild
    <3> QED BY <3>4, <3>5, <3>6
  <2>4. CASE k + 1 # LEVELS
    <3> DEFINE y == Node(k + 1, g, Cut(a, k + 1))
    <3>1. k + 1 \in 1..(LEVELS - 1)
      BY <1>1, <2>1, <2>4
    <3>2. NodeAt(use, pg, r, k + 1, y)
      BY <2>2, <3>1 DEF NodeAt
    <3>3. y.frame = g /\ Child(m, k, y, a[k + 1]) = Node(k, f,
             Onto(k, a[k + 1], Cut(a, k + 1)))
      <4>1. Child(m, k, Node(k + 1, g, Cut(a, k + 1)), a[k + 1]) =
              Node(k, m.table[g][a[k + 1]].frame, Onto(k, a[k + 1], Cut(a, k + 1)))
        BY NodeChild
      <4> QED BY <2>2, <4>1, NodeFields
    <3> HIDE DEF y
    <3>4. Cut(a, k) = Onto(k, a[k + 1], Cut(a, k + 1))
      BY <2>1, CutFacts DEF SameAbove
    <3>5. x = Child(m, k, y, a[k + 1])
      BY <1>3, <3>3, <3>4
    <3>6. a[k + 1] \in Index /\ IsPresent(m, y.frame, a[k + 1])
      BY <2>1, <2>2, <3>3
    <3> QED BY <3>2, <3>5, <3>6
  <2> QED BY <2>3, <2>4
<1>4. ASSUME k = 0, NEW a \in Unshared, pg[r][a] # Absent, x = Node(0, pg[r][a].frame, a)
      PROVE  \E y, i : /\ NodeAt(use, pg, r, k + 1, y) /\ i \in Index /\ IsPresent(m, y.frame, i)
                       /\ x = Child(m, k, y, i)
  <2>1. a \in Idx /\ a[1] \in Index /\ 1 \in 1..(LEVELS - 1) /\ k + 1 = 1
    <3>1. a \in Idx /\ 1 \in 1..LEVELS /\ 1 \in 1..(LEVELS - 1)
      BY <1>1 DEF Unshared
    <3> QED BY <1>4, <3>1 DEF Idx
  <2>2. PICK g \in Frame : At(use, g, r, 1, a)
    <3>1. r \in Frame
      BY RootFacts
    <3> QED BY <1>4, <3>1 DEF Forest, Leaves
  <2>3. pg[r][a] = m.table[g][a[1]]
    <3>1. use[g].kind = "used" /\ use[g].level = 1 /\ use[g].root = r /\ SameAbove(use[g].index, a, 1)
      BY <2>2 DEF At
    <3> QED BY <3>1 DEF Forest, Leaves
  <2>4. IsPresent(m, g, a[1])
    <3>1. use[g].kind = "used" /\ use[g].level > 0
      BY <2>2 DEF At
    <3> QED BY <1>4, <2>1, <2>3, <3>1 DEF Forest, Counts
  <2> DEFINE y == Node(k + 1, g, Cut(a, k + 1))
  <2>5. NodeAt(use, pg, r, k + 1, y)
    BY <2>1, <2>2 DEF NodeAt
  <2>6. y.frame = g /\ Child(m, k, y, a[k + 1]) = Node(k, m.table[g][a[k + 1]].frame,
             Onto(k, a[k + 1], Cut(a, k + 1)))
    BY RootFields, RootChild, NodeFields, NodeChild
  <2> HIDE DEF y
  <2>7. Cut(a, k) = Onto(k, a[k + 1], Cut(a, k + 1))
    BY <2>1, CutFacts DEF SameAbove
  <2>8. Cut(a, k) = a
    BY <1>4, <2>1, CutFacts
  <2>9. x = Child(m, k, y, a[k + 1])
    BY <1>4, <2>1, <2>3, <2>6, <2>7, <2>8
  <2>10. a[k + 1] \in Index /\ IsPresent(m, y.frame, a[k + 1])
    BY <2>1, <2>4, <2>6
  <2> QED BY <2>5, <2>9, <2>10
<1> QED BY <1>1, <1>2, <1>3, <1>4 DEF NodeAt

\* Below finds what the forest says is there, and nothing else.
LEMMA BelowFacts ==
    ASSUME NEW use, NEW pg, NEW roots, Forest(memory, use, pg, roots), NEW r \in roots
    PROVE  \A x : x \in Below(r) <=> \E k \in 0..LEVELS : NodeAt(use, pg, r, k, x)
<1> DEFINE Under(k, s) ==
             {[level |-> k, frame |-> memory.table[e[1].frame][e[2]].frame,
               index |-> [l \in (k + 1)..LEVELS |->
                            IF l = k + 1 THEN e[2] ELSE e[1].index[l]]] :
                e \in {e \in s \X Index : IsPresent(memory, e[1].frame, e[2])}}
           top == {[level |-> LEVELS, index |-> <<>>, frame |-> r]}
           P(g) == g = [k \in 0..LEVELS |-> IF k = LEVELS THEN top ELSE Under(k, g[k + 1])]
           at == CHOOSE g : P(g)
           c == [kind |-> "below", memory |-> memory]
           seq == [j \in 1..LEVELS |-> LEVELS - j]
<1>1. LEVELS \in Nat /\ LEVELS >= 2
  BY LevelsFact
<1>2. Below(r) = UNION {at[k] : k \in 0..LEVELS}
  BY Zenon DEF Below
<1>3. seq \in Seq(Int) /\ Len(seq) = LEVELS /\ \A j \in 1..LEVELS : seq[j] = LEVELS - j
  BY <1>1
<1> HIDE DEF seq
<1>4. PICK states : Rounds(states, c, top, seq) /\ states[Len(seq)] = Loop(c, top, seq)
  <2> HIDE DEF c, top
  <2> QED BY <1>3, LoopUnfolds
<1>5. \A s, k : Do(c, s, k) = Under(k, s)
  <2>1. \A s, k : Do(c, s, k) = BelowStep(c, s, k)
    BY DEF Do
  <2>2. c.memory = memory
    OBVIOUS
  <2> HIDE DEF c
  <2>3. \A s, k : BelowStep(c, s, k) = Under(k, s)
    BY <2>2 DEF BelowStep, Child
  <2> HIDE DEF Under
  <2> QED BY <2>1, <2>3
<1> HIDE DEF c, Under
<1>6. states[0] = top /\ \A j \in 1..LEVELS : states[j] = Under(LEVELS - j, states[j - 1])
  <2> HIDE DEF top
  <2> QED BY <1>3, <1>4, <1>5 DEF Rounds
<1> DEFINE h == [k \in 0..LEVELS |-> states[LEVELS - k]]
<1>7. ASSUME NEW k \in 0..LEVELS PROVE h[k] = IF k = LEVELS THEN top ELSE Under(k, h[k + 1])
  <2>1. CASE k = LEVELS
    <3>1. LEVELS - k = 0
      BY <1>1, <2>1
    <3> HIDE DEF top
    <3> QED BY <1>6, <2>1, <3>1
  <2>2. CASE k # LEVELS
    <3>1. LEVELS - k \in 1..LEVELS /\ (LEVELS - k) - 1 = LEVELS - (k + 1) /\ k + 1 \in 0..LEVELS
          /\ LEVELS - (LEVELS - k) = k
      BY <1>1, <2>2
    <3>2. h[k] = states[LEVELS - k] /\ h[k + 1] = states[LEVELS - (k + 1)]
      BY <3>1
    <3> HIDE DEF h, top
    <3> QED BY <1>6, <2>2, <3>1, <3>2
  <2> QED BY <2>1, <2>2
<1>8. P(h)
  <2>1. h = [k \in 0..LEVELS |-> h[k]]
    OBVIOUS
  <2> HIDE DEF h, top
  <2> QED BY <1>7, <2>1
<1>9. P(at)
  <2>1. \E g : P(g)
    BY <1>8
  <2> HIDE DEF P
  <2> QED BY <2>1
<1> HIDE DEF at, h
<1>10. \A k \in 0..LEVELS : at[k] = IF k = LEVELS THEN top ELSE Under(k, at[k + 1])
  <2> HIDE DEF top
  <2> QED BY <1>9
<1>11. \A k \in 0..(LEVELS - 1) : \A x :
         x \in at[k] <=> \E y, i : /\ y \in at[k + 1] /\ i \in Index /\ IsPresent(memory, y.frame, i)
                                   /\ x = Child(memory, k, y, i)
  <2> SUFFICES ASSUME NEW k \in 0..(LEVELS - 1), NEW x
               PROVE  x \in at[k] <=> \E y, i : /\ y \in at[k + 1] /\ i \in Index
                                               /\ IsPresent(memory, y.frame, i)
                                               /\ x = Child(memory, k, y, i)
    OBVIOUS
  <2>1. at[k] = Under(k, at[k + 1])
    BY <1>1, <1>10
  <2>2. x \in Under(k, at[k + 1]) <=>
          \E e \in {e \in at[k + 1] \X Index : IsPresent(memory, e[1].frame, e[2])} :
            x = Child(memory, k, e[1], e[2])
    BY Zenon DEF Under, Child
  <2>3. ASSUME NEW e \in {e \in at[k + 1] \X Index : IsPresent(memory, e[1].frame, e[2])}
        PROVE  e[1] \in at[k + 1] /\ e[2] \in Index /\ IsPresent(memory, e[1].frame, e[2])
    OBVIOUS
  <2>4. ASSUME NEW y \in at[k + 1], NEW i \in Index, IsPresent(memory, y.frame, i)
        PROVE  /\ <<y, i>> \in {e \in at[k + 1] \X Index : IsPresent(memory, e[1].frame, e[2])}
               /\ <<y, i>>[1] = y /\ <<y, i>>[2] = i
    BY <2>4
  <2>5. x \in at[k] => \E y, i : /\ y \in at[k + 1] /\ i \in Index
                                 /\ IsPresent(memory, y.frame, i) /\ x = Child(memory, k, y, i)
    BY <2>1, <2>2, <2>3, Zenon
  <2>6. ASSUME NEW y \in at[k + 1], NEW i \in Index, IsPresent(memory, y.frame, i),
               x = Child(memory, k, y, i)
        PROVE  x \in at[k]
    <3> DEFINE pair == <<y, i>>
               pairs == {e \in at[k + 1] \X Index : IsPresent(memory, e[1].frame, e[2])}
    <3>1. pair \in pairs /\ pair[1] = y /\ pair[2] = i
      BY <2>4, <2>6
    <3> HIDE DEF pair
    <3>2. x = Child(memory, k, pair[1], pair[2])
      BY <2>6, <3>1
    <3>3. \E e \in pairs : x = Child(memory, k, e[1], e[2])
      <4> HIDE DEF pairs
      <4> QED BY <3>1, <3>2
    <3> QED BY <2>1, <2>2, <3>3
  <2> QED BY <2>5, <2>6
<1> DEFINE holds == {j \in 0..LEVELS : \A x : x \in at[LEVELS - j] <=> NodeAt(use, pg, r, LEVELS - j, x)}
<1>12. 0 \in holds
  <2>1. LEVELS - 0 = LEVELS /\ LEVELS \in 0..LEVELS /\ LEVELS \notin 1..(LEVELS - 1)
        /\ LEVELS # LEVELS - 1 /\ LEVELS # 0 /\ 0 \in 0..LEVELS
    BY <1>1
  <2>2. at[LEVELS] = {RootNode(r)}
    <3>1. at[LEVELS] = top
      <4> HIDE DEF top
      <4> QED BY <1>10, <2>1
    <3> QED BY <3>1 DEF RootNode
  <2>3. \A x : x \in at[LEVELS] <=> NodeAt(use, pg, r, LEVELS, x)
    BY <2>1, <2>2 DEF NodeAt
  <2> QED BY <2>1, <2>3
<1> HIDE DEF top
<1>13. ASSUME NEW j \in 0..(LEVELS - 1), j \in holds PROVE j + 1 \in holds
  <2> DEFINE k == LEVELS - (j + 1)
  <2>1. k \in 0..(LEVELS - 1) /\ LEVELS - j = k + 1 /\ j + 1 \in 0..LEVELS
    BY <1>1
  <2>2. \A y : y \in at[k + 1] <=> NodeAt(use, pg, r, k + 1, y)
    BY <1>13, <2>1
  <2> HIDE DEF holds
  <2>3. ASSUME NEW x, x \in at[k] PROVE NodeAt(use, pg, r, k, x)
    <3> HIDE DEF k
    <3>1. PICK y, i : /\ y \in at[k + 1] /\ i \in Index /\ IsPresent(memory, y.frame, i)
                      /\ x = Child(memory, k, y, i)
      BY <1>11, <2>1, <2>3
    <3>2. NodeAt(use, pg, r, k + 1, y)
      BY <2>2, <3>1
    <3> QED BY <2>1, <3>1, <3>2, NodeDown
  <2>4. ASSUME NEW x, NodeAt(use, pg, r, k, x) PROVE x \in at[k]
    <3> HIDE DEF k
    <3>1. PICK y, i : /\ NodeAt(use, pg, r, k + 1, y) /\ i \in Index /\ IsPresent(memory, y.frame, i)
                      /\ x = Child(memory, k, y, i)
      BY <2>1, <2>4, NodeUp
    <3> QED BY <1>11, <2>1, <2>2, <3>1
  <2> QED BY <2>1, <2>3, <2>4 DEF holds
<1>14. \A j \in 0..LEVELS : j \in holds
  <2> HIDE DEF holds
  <2> QED BY <1>1, <1>12, <1>13, PositionInduction
<1>15. ASSUME NEW k \in 0..LEVELS, NEW x PROVE x \in at[k] <=> NodeAt(use, pg, r, k, x)
  <2>1. LEVELS - k \in 0..LEVELS /\ LEVELS - (LEVELS - k) = k
    BY <1>1
  <2>2. LEVELS - k \in holds
    BY <1>14, <2>1
  <2> QED BY <2>1, <2>2
<1> HIDE DEF holds
<1> QED BY <1>2, <1>15

-----------------------------------------------------------------------------
(* The list of free frames.                                                *)

\* FreeList goes through the list.
LEMMA ListIsLoop ==
    FreeList = Loop([kind |-> "free", memory |-> memory], <<>>, [n \in 1..(FRAME_COUNT + 1) |-> n])
<1> DEFINE c == [kind |-> "free", memory |-> memory]
           seq == [n \in 1..(FRAME_COUNT + 1) |-> n]
           Step(list, n) ==
             LET next == IF list = <<>> THEN memory.first_free_frame_index
                         ELSE memory.word[list[Len(list)]]
             IN  IF next < FRAME_COUNT /\ Len(list) = n - 1 THEN Append(list, next) ELSE list
           P(f) == f = [s \in SUBSET DOMAIN seq |->
                          IF s = {} THEN <<>> ELSE Step(f[s \ {Max(s)}], seq[Max(s)])]
           Q(f) == f = [s \in SUBSET DOMAIN seq |->
                          IF s = {} THEN <<>> ELSE Do(c, f[s \ {Max(s)}], seq[Max(s)])]
<1>1. FreeList = (CHOOSE f : P(f))[DOMAIN seq]
  BY Zenon DEF FreeList, FoldLeft, MapThenFoldSet
<1>2. Loop(c, <<>>, seq) = (CHOOSE f : Q(f))[DOMAIN seq]
  BY Zenon DEF Loop, FoldLeft, MapThenFoldSet
<1>3. \A f : P(f) <=> Q(f)
  <2>1. \A s, x : Do(c, s, x) = Step(s, x)
    <3>1. c.memory = memory
      OBVIOUS
    <3>2. \A s, x : Do(c, s, x) = FreeStep(c, s, x)
      BY DEF Do
    <3> HIDE DEF c
    <3> QED BY <3>1, <3>2 DEF FreeStep
  <2> HIDE DEF Step, c, seq
  <2> QED BY <2>1
<1>4. (CHOOSE f : P(f)) = (CHOOSE f : Q(f))
  <2> HIDE DEF P, Q
  <2> QED BY <1>3, Zenon
<1> HIDE DEF P, Q, c, seq
<1>5. FreeList = Loop(c, <<>>, seq)
  BY <1>1, <1>2, <1>4, Zenon
<1> QED BY <1>5 DEF c, seq

\* FreeList is the list.
LEMMA FreeListFacts ==
    ASSUME NEW list \in Seq(Frame), Linked(memory, list), IsInjective(list)
    PROVE  FreeList = list
<1> DEFINE c == [kind |-> "free", memory |-> memory]
           size == FRAME_COUNT + 1
           seq == [n \in 1..size |-> n]
           length == Len(list)
           Good(t, k) == /\ t \in Seq(Frame) /\ Len(t) = IF k <= length THEN k ELSE length
                         /\ \A i \in 1..Len(t) : t[i] = list[i]
<1>1. FRAME_COUNT \in Nat /\ length \in 0..FRAME_COUNT /\ length \in Nat
  BY InjectiveLength, PagingAssumption
<1>2. seq \in Seq(Int) /\ Len(seq) = size /\ \A k \in 1..size : seq[k] = k
  BY <1>1
<1>3. FreeList = Loop(c, <<>>, seq)
  BY ListIsLoop
<1> HIDE DEF seq
<1>4. PICK states : Rounds(states, c, <<>>, seq) /\ states[Len(seq)] = Loop(c, <<>>, seq)
  <2> HIDE DEF c
  <2> QED BY <1>2, LoopUnfolds
<1>5. c.kind = "free" /\ c.memory = memory
  OBVIOUS
<1> HIDE DEF c
<1>6. states[0] = <<>> /\ \A k \in 1..size : states[k] = FreeStep(c, states[k - 1], k)
  <2>1. \A s, x : Do(c, s, x) = FreeStep(c, s, x)
    BY <1>5 DEF Do
  <2> QED BY <1>2, <1>4, <2>1 DEF Rounds
<1> DEFINE holds == {k \in 0..size : Good(states[k], k)}
<1>7. 0 \in holds
  <2>1. <<>> \in Seq(Frame) /\ Len(<<>>) = 0 /\ 0 <= length
    BY <1>1
  <2>2. Good(<<>>, 0)
    <3> HIDE DEF length
    <3> QED BY <2>1
  <2> HIDE DEF Good
  <2> QED BY <1>1, <1>6, <2>2
<1>8. ASSUME NEW k \in 0..(size - 1), k \in holds PROVE k + 1 \in holds
  <2> DEFINE t == states[k]
             next == IF t = <<>> THEN memory.first_free_frame_index ELSE memory.word[t[Len(t)]]
             after == states[k + 1]
  <2>1. k \in Nat /\ k + 1 \in 1..size /\ k + 1 \in 0..size /\ (k + 1) - 1 = k
    BY <1>1
  <2>2. after = IF next < FRAME_COUNT /\ Len(t) = k THEN Append(t, next) ELSE t
    <3>1. after = FreeStep(c, t, k + 1)
      BY <1>6, <2>1
    <3> HIDE DEF t, after
    <3> QED BY <1>5, <2>1, <3>1 DEF FreeStep
  <2>3. Good(t, k)
    BY <1>8
  <2> HIDE DEF t, after
  <2>4. \A i \in 1..length : list[i] \in Frame
    OBVIOUS
  <2>5. CASE k < length
    <3>1. Len(t) = k /\ k + 1 \in 1..length
      BY <1>1, <2>1, <2>3, <2>5
    <3>2. next = list[k + 1]
      <4>1. CASE k = 0
        <5>1. t = <<>> /\ list # <<>>
          BY <2>3, <2>5, <3>1, <4>1
        <5> QED BY <4>1, <5>1 DEF Linked
      <4>2. CASE k # 0
        <5>1. t # <<>> /\ k \in 1..length /\ k # length
          BY <2>1, <2>3, <2>5, <3>1, <4>2
        <5>2. t[Len(t)] = list[k]
          BY <2>3, <3>1, <5>1
        <5>3. memory.word[list[k]] = list[k + 1]
          BY <5>1 DEF Linked
        <5> QED BY <5>1, <5>2, <5>3
      <4> QED BY <4>1, <4>2
    <3> HIDE DEF next
    <3>3. next \in Frame /\ next < FRAME_COUNT
      <4>1. next \in Frame
        BY <2>4, <3>1, <3>2
      <4> QED BY <1>1, <4>1 DEF Frame
    <3>4. after = Append(t, next)
      BY <2>2, <3>1, <3>3
    <3>5. Good(after, k + 1)
      BY <1>1, <2>1, <2>3, <2>5, <3>1, <3>2, <3>3, <3>4
    <3> QED BY <2>1, <3>5 DEF after
  <2>6. CASE ~(k < length)
    <3>1. Len(t) = length
      BY <1>1, <2>1, <2>3, <2>6
    <3>2. next = FRAME_COUNT
      <4>1. CASE length = 0
        <5>1. t = <<>> /\ list = <<>>
          BY <2>3, <3>1, <4>1
        <5> QED BY <5>1 DEF Linked
      <4>2. CASE length # 0
        <5>1. t # <<>> /\ length \in 1..length
          BY <1>1, <2>3, <3>1, <4>2
        <5>2. t[Len(t)] = list[length]
          BY <2>3, <3>1, <5>1
        <5> QED BY <5>1, <5>2 DEF Linked
      <4> QED BY <4>1, <4>2
    <3> HIDE DEF next
    <3>3. after = t
      BY <1>1, <2>2, <3>2
    <3>4. Good(after, k + 1)
      BY <1>1, <2>1, <2>3, <2>6, <3>1, <3>3
    <3> QED BY <2>1, <3>4 DEF after
  <2> QED BY <2>5, <2>6
<1>9. size \in holds
  <2> HIDE DEF holds, size
  <2>1. size \in Nat
    BY <1>1 DEF size
  <2>2. \A k \in 0..size : k \in holds
    BY <1>7, <1>8, <2>1, PositionInduction
  <2> QED BY <2>1, <2>2
<1>10. Good(FreeList, size)
  BY <1>2, <1>3, <1>4, <1>9
<1>11. Len(FreeList) = length /\ FreeList \in Seq(Frame) /\ \A i \in 1..length : FreeList[i] = list[i]
  BY <1>1, <1>10
<1> QED BY <1>11

-----------------------------------------------------------------------------
(* The regions that are mapped.                                            *)

\* A region that RegionsAssumption allows is one that can be mapped.
LEMMA FitsRegion ==
    ASSUME NEW g \in RegionType, Fits(g), OffGap(g)
    PROVE  RegionOK(g)
<1>1. g.page \in Nat /\ g.count \in Nat BY DEF RegionType
<1>2. LEVELS - 1 \in 0..LEVELS /\ LEVELS \in 0..LEVELS BY LevelsFact
<1>3. Span[LEVELS - 1] \in Nat /\ Span[LEVELS] \in Nat BY <1>2, SpanFacts
<1>4. ASSUME NEW i \in 0..(g.count - 1)
      PROVE  /\ LoopIndex(g.page, i) = IndexOf(g.page + i)
             /\ LoopIndex(g.page, i) \in Unshared
             /\ PageAt(LoopIndex(g.page, i)) \in Nat /\ g.page + i \in Page
             /\ IndexOf(PageAt(LoopIndex(g.page, i))) = LoopIndex(g.page, i)
  <2>1. g.page + i \in Span[LEVELS - 1]..(Span[LEVELS] - 1) /\ LoopIndex(g.page, i) = IndexOf(g.page + i)
    BY <1>4 DEF Fits
  <2>2. g.page + i \in Page /\ g.page + i >= Span[LEVELS - 1] /\ g.page + i \in Nat
    BY <2>1, <1>1, <1>3 DEF Page
  <2>3. IndexOf(g.page + i) \in Unshared BY <2>2, UnsharedPages
  <2>4. PageAt(IndexOf(g.page + i)) = g.page + i BY <2>2, PageAtIndexOf
  <2> QED BY <2>1, <2>2, <2>3, <2>4
<1>5. LoopFits(g.page, g.count) BY <1>4 DEF LoopFits
<1>6. InPages(g) BY <1>4 DEF InPages
<1> QED BY <1>4, <1>5, <1>6 DEF RegionOK

\* The regions of multitasking.h, in their order.
LEMMA LayoutFacts ==
    /\ heap_top \in Nat /\ system_stack_top \in Nat /\ stack_top \in Nat /\ stack_bottom \in Nat
    /\ heap_top > Span[LEVELS - 1] /\ stack_top > heap_top
    /\ heap_pages \in Nat \ {0} /\ system_stack_pages \in Nat \ {0} /\ stack_pages \in Nat \ {0}
<1>1. LEVELS - 1 \in 0..LEVELS /\ LEVELS \in 0..LEVELS BY LevelsFact
<1>2. Span[LEVELS - 1] \in Nat /\ Span[LEVELS] \in Nat BY <1>1, SpanFacts
<1>3. heap_top > Span[LEVELS - 1] /\ heap_pages \in Nat \ {0} /\ system_stack_pages \in Nat \ {0}
      /\ stack_pages \in Nat \ {0}
  BY LayoutAssumption DEF LayoutAssumption
<1>4. heap_top = system_stack_top - 1 - heap_pages BY DEF heap_top
<1>5. system_stack_top = stack_top - 1 - system_stack_pages BY DEF system_stack_top
<1>6. stack_top = stack_bottom - (stack_pages - 1) BY DEF stack_top
<1>7. stack_bottom \in Int BY <1>2 DEF stack_bottom
<1>8. stack_top \in Int BY <1>6, <1>7, <1>3
<1>9. system_stack_top \in Int BY <1>5, <1>8, <1>3
<1>10. heap_top \in Int BY <1>4, <1>9, <1>3
<1> QED BY <1>2, <1>3, <1>4, <1>5, <1>6, <1>7, <1>8, <1>9, <1>10

\* They leave one page free between two of them.
LEMMA LayoutSums ==
    /\ heap_top + heap_pages = system_stack_top - 1
    /\ system_stack_top + system_stack_pages = stack_top - 1
    /\ stack_bottom >= stack_top
<1>1. heap_top = system_stack_top - 1 - heap_pages BY DEF heap_top
<1>2. system_stack_top = stack_top - 1 - system_stack_pages BY DEF system_stack_top
<1>3. stack_top = stack_bottom - (stack_pages - 1) BY DEF stack_top
<1> QED BY <1>1, <1>2, <1>3, LayoutFacts

\* The stack that the kernel uses when it runs for a process.
SystemStack == Region(system_stack_top, system_stack_pages, {RW})

\* The regions of a new process, and those of a history that has them.
FirstOK(level, regions) ==
    /\ regions \in Histories /\ Len(regions) > 0 /\ regions[1].count \in Nat \ {0}
    /\ \A k \in 1..Len(regions) :
         RegionOK(regions[k]) /\ (USER \in regions[k].flags => level = "user")
    /\ \E k \in 1..Len(regions) : regions[k] = SystemStack

\* The fields of a region.
LEMMA RegionIsRegion ==
    ASSUME NEW page \in Nat, NEW count \in Nat, NEW flags \in SUBSET {RW, USER}
    PROVE  /\ Region(page, count, flags) \in RegionType
           /\ Region(page, count, flags).page = page /\ Region(page, count, flags).count = count
           /\ Region(page, count, flags).flags = flags
BY DEF Region, RegionType

\* The regions of a new process are such regions.
LEMMA FirstRegionsFacts ==
    ASSUME NEW level \in {"user", "system"}
    PROVE  FirstOK(level, FirstRegions(level))
<1> DEFINE U == Region(stack_bottom, 1, {RW, USER})
           H == Region(heap_top, heap_pages, {RW} \cup UserFlag(level))
           h == FirstRegions(level)
<1>1. UserFlag(level) \in SUBSET {USER} /\ (USER \in UserFlag(level) => level = "user")
  BY DEF UserFlag
<1>2. USER # RW BY DEF USER, RW
<1>3. /\ U \in RegionType /\ U.count = 1 /\ U.flags = {RW, USER}
      /\ SystemStack \in RegionType /\ SystemStack.count = system_stack_pages /\ SystemStack.flags = {RW}
      /\ H \in RegionType /\ H.flags = {RW} \cup UserFlag(level)
  BY LayoutFacts, RegionIsRegion, <1>1 DEF SystemStack
<1>4. \A n \in DOMAIN h : Fits(h[n])
  BY RegionsAssumption DEF RegionsAssumption
<1>7. OffGap(U) /\ OffGap(SystemStack) /\ OffGap(H)
  <2>1. U.page = stack_bottom /\ SystemStack.page = system_stack_top /\ H.page = heap_top
        /\ H.count = heap_pages
    BY LayoutFacts, RegionIsRegion, <1>1 DEF SystemStack
  <2> HIDE DEF U, H
  <2> QED BY <1>3, <2>1, LayoutFacts, LayoutSums DEF OffGap
<1>5. CASE level = "user"
  <2>1. h = <<U>> \o <<SystemStack, H>> BY <1>5 DEF FirstRegions, SystemStack
  <2> HIDE DEF U, H, h
  <2>2. h \in Seq(RegionType) /\ Len(h) = 3 /\ h[1] = U /\ h[2] = SystemStack /\ h[3] = H
    BY <2>1, <1>3
  <2>3. \A k \in 1..3 : h[k] \in RegionType BY <2>2, <1>3
  <2>4. \A k \in 1..3 : RegionOK(h[k]) BY <2>2, <2>3, <1>4, <1>7, FitsRegion
  <2>5. FirstOK(level, h)
    BY <2>2, <2>4, <1>3, <1>5, LayoutFacts DEF FirstOK, Histories
  <2> QED BY <2>5 DEF h
<1>6. CASE level = "system"
  <2>1. h = <<>> \o <<SystemStack, H>> BY <1>6 DEF FirstRegions, SystemStack
  <2> HIDE DEF U, H, h
  <2>2. h \in Seq(RegionType) /\ Len(h) = 2 /\ h[1] = SystemStack /\ h[2] = H
    BY <2>1, <1>3
  <2>3. \A k \in 1..2 : h[k] \in RegionType BY <2>2, <1>3
  <2>4. \A k \in 1..2 : RegionOK(h[k]) BY <2>2, <2>3, <1>4, <1>7, FitsRegion
  <2>5. USER \notin h[1].flags /\ USER \notin h[2].flags
    BY <2>2, <1>3, <1>1, <1>2, <1>6
  <2>6. FirstOK(level, h)
    BY <2>2, <2>4, <2>5, <1>3, LayoutFacts DEF FirstOK, Histories
  <2> QED BY <2>6 DEF h
<1> QED BY <1>5, <1>6

\* Division by a page size.
LEMMA DivFacts ==
    ASSUME NEW a \in Nat, NEW n \in Nat \ {0}
    PROVE  /\ a \div n \in Nat /\ (a % n) \in 0..(n - 1)
           /\ a = (a \div n) * n + (a % n) /\ (a \div n) * n \in Nat
OBVIOUS

\* The region of a segment, which covers the segment.
LEMMA SegmentRegionFacts ==
    ASSUME NEW level, NEW header \in Header
    PROVE  LET g == SegmentRegion(level, header)
           IN  /\ g \in RegionType /\ (USER \in g.flags => level = "user")
               /\ g.page = header.vaddr \div PAGE_SIZE
               /\ (g.page + g.count) * PAGE_SIZE >= header.vaddr + header.memsz
<1> DEFINE v == header.vaddr
           e == v + header.memsz
           x == e + PAGE_SIZE - 1
           p == v \div PAGE_SIZE
           q == x \div PAGE_SIZE
           count == (q * PAGE_SIZE - p * PAGE_SIZE) \div PAGE_SIZE
           flags == UserFlag(level) \cup (IF header.writable THEN {RW} ELSE {})
<1>1. v \in Nat /\ e \in Nat /\ PAGE_SIZE \in Nat \ {0} /\ x \in Nat /\ v <= x /\ header.memsz \in Nat
  BY LayoutAssumption DEF LayoutAssumption, Header
<1>2. SegmentRegion(level, header) = Region(p, count, flags)
  BY DEF SegmentRegion, RoundUp
<1>3. flags \in SUBSET {RW, USER} /\ (USER \in flags => level = "user")
  BY DEF UserFlag, USER, RW
<1> HIDE DEF v, e, flags
<1>4. /\ p \in Nat /\ v = p * PAGE_SIZE + (v % PAGE_SIZE) /\ (v % PAGE_SIZE) \in 0..(PAGE_SIZE - 1)
      /\ p * PAGE_SIZE \in Nat
  BY <1>1, DivFacts
<1>5. /\ q \in Nat /\ x = q * PAGE_SIZE + (x % PAGE_SIZE) /\ (x % PAGE_SIZE) \in 0..(PAGE_SIZE - 1)
      /\ q * PAGE_SIZE \in Nat
  <2> HIDE DEF x
  <2> QED BY <1>1, DivFacts
<1>6. q * PAGE_SIZE >= e BY <1>1, <1>5
<1>7. q >= p
  <2>1. e >= v BY <1>1 DEF e
  <2>2. q * PAGE_SIZE >= p * PAGE_SIZE BY <2>1, <1>4, <1>5, <1>6, <1>1
  <2> HIDE DEF p, q
  <2> QED BY <2>2, <1>1, <1>4, <1>5
<1>8. count = q - p
  <2> HIDE DEF p, q
  <2>1. q * PAGE_SIZE - p * PAGE_SIZE = (q - p) * PAGE_SIZE + 0 BY <1>1, <1>4, <1>5
  <2> DEFINE y == q * PAGE_SIZE - p * PAGE_SIZE
             d == q - p
  <2>2. d \in Int /\ y \in Int /\ y = d * PAGE_SIZE + 0 BY <2>1, <1>1, <1>4, <1>5
  <2> HIDE DEF y, d
  <2>3. y \div PAGE_SIZE = d BY <2>2, <1>1, DivUnique
  <2> QED BY <2>3 DEF y, d
<1>9. count \in Nat /\ p + count = q
  <2> HIDE DEF p, q, count
  <2> QED BY <1>7, <1>8, <1>4, <1>5
<1> HIDE DEF count
<1>10. /\ Region(p, count, flags) \in RegionType
       /\ Region(p, count, flags).page = p /\ Region(p, count, flags).count = count
       /\ Region(p, count, flags).flags = flags
  BY <1>9, <1>4, <1>3, RegionIsRegion
<1> QED BY <1>2, <1>3, <1>6, <1>9, <1>10 DEF e, v

\* Modules can be loaded where RegionsAssumption holds.
LEMMA ModuleFacts ==
    ASSUME NEW k \in DOMAIN Modules
    PROVE  /\ ModuleLevel(k) \in {"user", "system"}
           /\ HeadersOK(ModuleLevel(k), Modules[k].headers)
           /\ k \in 1..Len(Modules)
<1>0. Modules \in Seq([user : BOOLEAN, headers : Seq(Header)])
  BY LayoutAssumption DEF LayoutAssumption, Header
<1> DEFINE T == [user : BOOLEAN, headers : Seq(Header)]
<1>01. k \in 1..Len(Modules) BY <1>0
<1>02. Modules[k] \in T
  <2> HIDE DEF T
  <2>1. Modules \in Seq(T) BY <1>0 DEF T
  <2> QED BY <2>1, <1>01
<1>1. Modules[k].headers \in Seq(Header) /\ k \in 1..Len(Modules)
  BY <1>01, <1>02
<1>2. ModuleLevel(k) \in {"user", "system"} BY DEF ModuleLevel
<1> DEFINE hs == Modules[k].headers
           level == ModuleLevel(k)
<1>3. ASSUME NEW n \in DOMAIN hs, hs[n].load PROVE RegionOK(SegmentRegion(level, hs[n]))
  <2>1. hs[n] \in Header BY <1>1
  <2>2. SegmentRegion(level, hs[n]) \in RegionType BY <2>1, SegmentRegionFacts
  <2> DEFINE g == SegmentRegion(level, hs[n])
  <2>3. Fits(g) /\ g.page + g.count <= heap_top BY <1>3, RegionsAssumption DEF RegionsAssumption
  <2>4. OffGap(g)
    <3>1. g.page \in Nat /\ g.count \in Nat BY <2>2 DEF RegionType
    <3> HIDE DEF g
    <3> QED BY <2>3, <3>1, LayoutFacts DEF OffGap
  <2> QED BY <2>2, <2>3, <2>4, FitsRegion
<1> QED BY <1>1, <1>2, <1>3 DEF HeadersOK

\* So can the page that a page fault adds to the stack.
LEMMA StackPage ==
    ASSUME NEW page \in Page, page >= stack_top
    PROVE  LET g == Region(page, 1, {RW, USER})
           IN  g \in RegionType /\ RegionOK(g)
<1> DEFINE g == Region(page, 1, {RW, USER})
<1>1. LEVELS - 1 \in 0..LEVELS /\ LEVELS \in 0..LEVELS BY LevelsFact
<1>2. Span[LEVELS - 1] \in Nat /\ Span[LEVELS] \in Nat BY <1>1, SpanFacts
<1>3. page \in Nat /\ page \in 0..(Span[LEVELS] - 1) BY <1>2 DEF Page
<1>4. g \in RegionType /\ g.page = page /\ g.count = 1 BY <1>3, RegionIsRegion
<1>5. page >= Span[LEVELS - 1] BY <1>2, <1>3, LayoutFacts
<1>6. LoopIndex(page, 0) = IndexOf(page) BY <1>3, FirstIndex
<1>7. Fits(g)
  <2>1. ASSUME NEW i \in 0..(g.count - 1)
        PROVE  /\ g.page + i \in Span[LEVELS - 1]..(Span[LEVELS] - 1)
               /\ LoopIndex(g.page, i) = IndexOf(g.page + i)
    <3>1. i = 0 BY <1>4
    <3>2. g.page + i = page BY <3>1, <1>4, <1>3
    <3> HIDE DEF g
    <3> QED BY <3>1, <3>2, <1>2, <1>3, <1>4, <1>5, <1>6
  <2> QED BY <2>1 DEF Fits
<1>8. OffGap(g)
  <2> HIDE DEF g
  <2> QED BY <1>3, <1>4, LayoutFacts DEF OffGap
<1> QED BY <1>4, <1>7, <1>8, FitsRegion

-----------------------------------------------------------------------------
(* The inductive invariant.                                                *)

\* A process descriptor, of the types it has.
Slot ==
    [is_present : BOOLEAN, father_id : Pid \cup {NoProcess}, level : {"user", "system"},
     module : 0..Len(Modules), paging_root : Frame, mapping_history : Histories,
     private_mapping_history : Histories]

\* The processes of an array.
Live(array) == {p \in Pid : array[p].is_present}
\* The roots in use: that of the kernel and those of the processes.
Roots(array) == {identity_l4_table} \cup {array[p].paging_root : p \in Live(array)}

\* What the tables of a process map, and which of these frames are its own.
SlotShape(use, row, s) ==
    IF s.father_id = NoProcess
    THEN Shape(use, row, s.paging_root, s.private_mapping_history, s.mapping_history, TRUE)
    ELSE Shape(use, row, s.paging_root, s.private_mapping_history, s.mapping_history, FALSE)

\* Only a user process has pages that user code may use.
Rights(h, level) == \A n \in 1..Len(h) : USER \in h[n].flags => level = "user"

\* So are both histories; the stack of the kernel is in the private one.
SlotRights(s) ==
    /\ Rights(s.private_mapping_history, s.level) /\ Rights(s.mapping_history, s.level)
    /\ \E n \in 1..Len(s.private_mapping_history) : s.private_mapping_history[n] = SystemStack
    /\ s.paging_root = identity_l4_table => s.father_id = NoProcess /\ s.level = "system"

\* A process that was loaded at boot has the segments of its module.
SlotImage(data, row, s) ==
    s.father_id = NoProcess /\ s.module # 0 =>
        LET headers == Modules[s.module].headers
            h == s.mapping_history
        IN  /\ s.level = ModuleLevel(s.module) /\ Segments(h, s.level, headers)
            /\ Image(data, row, s.level, headers, Len(h))
            /\ Len(h) = Len(headers) \/ ~headers[Len(h) + 1].load

\* A child has what its father was loaded with; birth orders fathers before children.
SlotFather(array, pg, birth, p) ==
    LET s == array[p]
        father == array[s.father_id]
    IN  s.father_id # NoProcess =>
            /\ s.father_id \in Live(array) /\ birth[s.father_id] < birth[p]
            /\ s.module = father.module /\ s.level = father.level
            /\ s.mapping_history = father.mapping_history
            /\ SameFrames(pg[s.paging_root], pg[father.paging_root], s.mapping_history,
                          1..Len(s.mapping_history))

\* What the invariant says of a process.
SlotOK(data, array, use, pg, birth, p) ==
    /\ SlotShape(use, pg[array[p].paging_root], array[p])
    /\ SlotRights(array[p])
    /\ SlotImage(data, pg[array[p].paging_root], array[p])
    /\ SlotFather(array, pg, birth, p)

\* Only kernel::init runs on the tables of the kernel itself.
KernelFirst(array) == \A p \in Live(array) : array[p].paging_root = identity_l4_table => p = 0

\* What it says of all of them.
Slots(data, array, use, pg, birth) ==
    /\ array \in [Pid -> Slot] /\ KernelFirst(array)
    /\ \A p, q \in Live(array) : array[p].paging_root = array[q].paging_root => p = q
    /\ \A p \in Live(array) : SlotOK(data, array, use, pg, birth, p)

\* Frames that the firmware does not offer are never used.
Origin(use) ==
    \A f \in Frame : f \notin Range(Available) => f = identity_l4_table \/ use[f].kind = "lost"

\* No frame that the firmware offers is lost.
NoneLost(use) == \A f \in Range(Available) : use[f].kind # "lost"

\* The invariant, for some use, pg and birth.
State(m, array, use, pg, birth, count) ==
    /\ Forest(m, use, pg, Roots(array)) /\ Full(m, use) /\ Origin(use)
    /\ count \in Nat /\ birth \in [Pid -> 0..count]
    /\ Slots(m.data, array, use, pg, birth)

\* What a step of another process leaves of the one with root r.
RowKept(m, use, pg, n, other, new, r) ==
    /\ new[r] = pg[r]
    /\ \A f \in Frame :
         /\ use[f].kind = "used" /\ use[f].root = r => other[f] = use[f] /\ n.data[f] = m.data[f]
         /\ other[f].kind = "used" /\ other[f].root = r => other[f] = use[f]

\* Whatever is lost stays lost, and what is lost now and was not is not allowed for.
LostKept(use, other) == \A f \in Frame : use[f].kind = "lost" => other[f].kind = "lost"
LostSame(use, other) == \A f \in Frame : use[f].kind = "lost" <=> other[f].kind = "lost"

\* A function on 1..last is a sequence.
LEMMA StretchIsSeq ==
    ASSUME NEW S, NEW last \in Int, NEW e, \A i \in 1..last : e[i] \in S
    PROVE  [i \in 1..last |-> e[i]] \in Seq(S)
<1>1. CASE last >= 0 BY <1>1
<1>2. CASE last < 0
  <2>1. 1..last = 1..0 BY <1>2
  <2>2. [i \in 1..last |-> e[i]] \in [1..0 -> S] BY <2>1
  <2> QED BY <2>2
<1> QED BY <1>1, <1>2

\* The firmware offers no frame of the kernel.
LEMMA AvailableFrames ==
    /\ Available \in Seq(Frame)
    /\ \A f \in Range(Available) : f \in Frame /\ f >= kernel_frames
<1> DEFINE S == {f \in Frame : f >= kernel_frames}
           First(k) == IF Regions[k].first < kernel_frames THEN kernel_frames ELSE Regions[k].first
           seqs == [k \in DOMAIN Regions |->
                      IF Regions[k].type = 1
                      THEN [i \in 1..(Regions[k].end - First(k)) |-> First(k) + i - 1] ELSE <<>>]
           n == Len(Regions)
           T == [first : Frame, end : Frame \cup {FRAME_COUNT}, type : Nat]
<1>1. Available = FlattenSeq(seqs) BY DEF Available
<1>2. kernel_frames \in Nat /\ FRAME_COUNT \in Nat /\ kernel_frames < FRAME_COUNT
  BY PagingAssumption DEF PagingAssumption
<1>3. Regions \in Seq(T) BY PagingAssumption DEF PagingAssumption
<1>4. DOMAIN Regions = 1..n /\ n \in Nat /\ \A k \in 1..n : Regions[k] \in T
  <2> HIDE DEF T
  <2> QED BY <1>3
<1>5. ASSUME NEW k \in 1..n PROVE seqs[k] \in Seq(S)
  <2>1. /\ Regions[k].first \in Frame /\ Regions[k].end \in Frame \cup {FRAME_COUNT}
    BY <1>4
  <2>2. Regions[k].end \in Int /\ Regions[k].end <= FRAME_COUNT /\ First(k) \in Int /\ First(k) >= kernel_frames
    BY <2>1, <1>2 DEF Frame
  <2> DEFINE last == Regions[k].end - First(k)
             first == First(k)
             e == [i \in Int |-> first + i - 1]
  <2>3. last \in Int /\ first \in Int /\ first + last <= FRAME_COUNT /\ first >= kernel_frames
    BY <2>2, <1>2
  <2>4. seqs[k] = IF Regions[k].type = 1 THEN [i \in 1..last |-> first + i - 1] ELSE <<>>
    BY <1>4
  <2> HIDE DEF last, first, seqs, First
  <2>5. [i \in 1..last |-> first + i - 1] = [i \in 1..last |-> e[i]] BY <2>3
  <2>6. \A i \in 1..last : e[i] \in S BY <2>3, <1>2 DEF Frame
  <2> HIDE DEF e, S
  <2>7. [i \in 1..last |-> e[i]] \in Seq(S) BY <2>3, <2>6, StretchIsSeq
  <2>8. <<>> \in Seq(S) OBVIOUS
  <2> QED BY <2>4, <2>5, <2>7, <2>8
<1>6. seqs \in [1..n -> Seq(S)]
  <2>1. seqs = [k \in 1..n |-> seqs[k]] BY <1>4
  <2> HIDE DEF seqs, S
  <2> QED BY <2>1, <1>5
<1>7. CASE n = 0
  <2>1. DOMAIN seqs = {} /\ seqs = <<>>
    BY <1>4, <1>7
  <2>2. FlattenSeq(<<>>) = <<>> BY DEF FlattenSeq
  <2>3. Available = <<>> BY <2>1, <2>2, <1>1
  <2> QED BY <2>3, EmptyMembers
<1>8. CASE n # 0
  <2>1. n \in Nat \ {0} BY <1>4, <1>8
  <2> HIDE DEF seqs, S, n
  <2>2. FlattenSeq(seqs) \in Seq(S) BY <2>1, <1>6, FlattenSeqType
  <2>3. Available \in Seq(S) BY <2>2, <1>1
  <2>4. \A f \in Range(Available) : f \in S BY <2>3 DEF Range
  <2>5. \A i \in 1..Len(Available) : Available[i] \in S BY <2>3
  <2>6. Available \in Seq(Frame) BY <2>3, <2>5 DEF S
  <2> QED BY <2>4, <2>6 DEF S
<1> QED BY <1>7, <1>8

\* RowKept, for two steps.
LEMMA RowKeptTwice ==
    ASSUME NEW m, NEW use, NEW pg, NEW mid, NEW middle, NEW between, NEW r,
           RowKept(m, use, pg, mid, middle, between, r),
           NEW n, NEW other, NEW new, RowKept(mid, middle, between, n, other, new, r)
    PROVE  RowKept(m, use, pg, n, other, new, r)
BY DEF RowKept

\* What adds to one address space leaves the others.
LEMMA ExtendedKeeps ==
    ASSUME NEW m, NEW use, NEW pg, NEW roots, NEW r, NEW n, NEW other, NEW new,
           Extended(m, use, pg, roots, r, n, other, new), use \in [Frame -> Role]
    PROVE  /\ \A q \in Frame \ {r} : RowKept(m, use, pg, n, other, new, q)
           /\ LostSame(use, other)
<1>1. /\ \A f \in Frame : use[f].kind # "free" => other[f] = use[f] /\ n.data[f] = m.data[f]
      /\ \A f \in Frame : use[f].kind = "free" /\ other[f].kind # "free" =>
             other[f].kind = "used" /\ other[f].root = r
      /\ \A q \in Frame \ {r} : new[q] = pg[q]
  BY DEF Extended, Taken, DataKept
<1>2. \A q \in Frame \ {r} : RowKept(m, use, pg, n, other, new, q)
  BY <1>1 DEF RowKept
<1>3. LostSame(use, other) BY <1>1 DEF LostSame
<1> QED BY <1>2, <1>3

\* What takes down one address space leaves the others.
LEMMA VacatedKeeps ==
    ASSUME NEW m, NEW use, NEW pg, NEW roots, NEW r, NEW n, NEW other, NEW new,
           Vacated(m, use, pg, roots, r, n, other, new)
    PROVE  /\ \A q \in Frame \ {r} : RowKept(m, use, pg, n, other, new, q)
           /\ LostSame(use, other)
<1>1. /\ \A f \in Frame :
           \/ other[f] = use[f]
           \/ other[f].kind = "free" /\ use[f].kind = "used" /\ use[f].root = r
      /\ \A f \in Frame : other[f].kind # "free" => n.data[f] = m.data[f]
      /\ \A q \in Frame \ {r} : new[q] = pg[q]
  BY DEF Vacated, DataLeft
<1>2. \A q \in Frame \ {r} : RowKept(m, use, pg, n, other, new, q)
  BY <1>1 DEF RowKept
<1>3. LostSame(use, other) BY <1>1 DEF LostSame
<1> QED BY <1>2, <1>3

\* A new root leaves the others.
LEMMA PlacingKeeps ==
    ASSUME NEW m, NEW use \in [Frame -> Role], NEW pg, NEW g \in Frame, use[g].kind = "free",
           NEW a \in Idx, NEW n, n.data = m.data
    PROVE  /\ \A q \in Frame \ {g} : RowKept(m, use, pg, n, Placing(use, g, g, LEVELS, a), pg, q)
           /\ LostSame(use, Placing(use, g, g, LEVELS, a))
<1> DEFINE other == Placing(use, g, g, LEVELS, a)
<1>0. LEVELS \in 0..LEVELS BY LevelsFact
<1>1. /\ \A f \in Frame \ {g} : other[f] = use[f]
      /\ other[g].kind = "used" /\ other[g].root = g
  BY <1>0, PlacingFacts
<1> HIDE DEF other
<1>2. \A q \in Frame \ {g} : RowKept(m, use, pg, n, other, pg, q)
  BY <1>1 DEF RowKept
<1>3. LostSame(use, other) BY <1>1 DEF LostSame
<1> QED BY <1>2, <1>3 DEF other

\* A call that failed leaves the others.
LEMMA BrokenKeeps ==
    ASSUME NEW m, NEW use, NEW pg, NEW roots, NEW r \in Frame, r # identity_l4_table, r \in roots,
           NEW n, Broken(m, use, pg, roots, r, n)
    PROVE  \E other, new :
             /\ Forest(n, other, new, roots \ {r}) /\ Full(n, other)
             /\ \A q \in Frame \ {r} : RowKept(m, use, pg, n, other, new, q)
             /\ LostKept(use, other)
<1>1. PICK middle, between :
        /\ Forest(n, middle, between, roots) /\ Full(n, middle) /\ DataKept(m, n, use)
        /\ Wasted(use, middle, r)
        /\ \A q \in Frame \ {r} : between[q] = pg[q]
  BY DEF Broken
<1> DEFINE other == Forgotten(middle, r)
           new == Bare(between, r)
<1>2. Forest(n, other, new, roots \ {r}) /\ Full(n, other)
  <2>1. Forest(n, middle, between, roots) /\ Full(n, middle) BY <1>1
  <2> HIDE DEF other, new
  <2>2. Forest(n, Forgotten(middle, r), Bare(between, r), roots \ {r}) /\ Full(n, Forgotten(middle, r))
    BY ONLY <2>1, r \in roots, r # identity_l4_table, RootLost
  <2> QED BY <2>2 DEF other, new
<1>3. between \in PageMaps /\ middle \in [Frame -> Role] BY <1>1 DEF Forest, ForestTypes
<1>4. \A q \in Frame \ {r} : new[q] = pg[q]
  <2> HIDE DEF other
  <2>1. \A q \in Frame \ {r} : new[q] = between[q] BY <1>3, BareFacts
  <2> QED BY <1>1, <2>1
<1>5. /\ \A f \in Frame : middle[f].kind = "used" /\ middle[f].root = r => other[f].kind = "lost"
      /\ \A f \in Frame : ~(middle[f].kind = "used" /\ middle[f].root = r) => other[f] = middle[f]
  BY <1>3, ForgottenFacts
<1> HIDE DEF other, new
<1>6. /\ \A f \in Frame : use[f].kind # "free" => middle[f] = use[f] /\ n.data[f] = m.data[f]
      /\ \A f \in Frame : use[f].kind = "free" /\ middle[f].kind # "free" =>
             middle[f].kind = "lost" \/ (middle[f].kind = "used" /\ middle[f].root = r)
  BY <1>1 DEF Wasted, DataKept
<1>7. \A q \in Frame \ {r} : RowKept(m, use, pg, n, other, new, q)
  BY <1>4, <1>5, <1>6 DEF RowKept
<1>8. LostKept(use, other) BY <1>5, <1>6 DEF LostKept
<1> QED BY <1>2, <1>7, <1>8

-----------------------------------------------------------------------------
(* What is kept of the processes.                                          *)

\* What is at a place stays there.
LEMMA AtKept ==
    ASSUME NEW m, NEW use, NEW pg, NEW n, NEW other, NEW new, NEW r,
           RowKept(m, use, pg, n, other, new, r)
    PROVE  \A f, k, a : At(other, f, r, k, a) <=> At(use, f, r, k, a)
BY DEF RowKept, At

\* What the tables of a process map stays.
LEMMA ShapeKept ==
    ASSUME NEW m, NEW use, NEW pg, NEW n, NEW other, NEW new, NEW r,
           RowKept(m, use, pg, n, other, new, r),
           NEW private, NEW mapping, NEW own, Shape(use, pg[r], r, private, mapping, own)
    PROVE  Shape(other, new[r], r, private, mapping, own)
<1>1. \A f, k, a : At(other, f, r, k, a) <=> At(use, f, r, k, a) BY AtKept
<1>2. new[r] = pg[r] BY DEF RowKept
<1>3. \A h, D : Mine(use, pg[r], r, h, D) => Mine(other, new[r], r, h, D)
  BY <1>1, <1>2 DEF Mine
<1>4. \A h, D : NotMine(use, r, h, D) => NotMine(other, r, h, D)
  BY <1>1 DEF NotMine
<1> QED BY <1>2, <1>3, <1>4 DEF Shape

\* The pages of a process with no father belong to it.
LEMMA OwnPages ==
    ASSUME NEW use, NEW row, NEW r, NEW private \in Histories, NEW mapping \in Histories,
           Shape(use, row, r, private, mapping, TRUE)
    PROVE  \A n \in 1..Len(mapping) : \A a \in RegionIndexes(mapping[n]) : At(use, row[a].frame, r, 0, a)
<1> DEFINE h == private \o mapping
<1>1. Mine(use, row, r, h, (Len(private) + 1)..(Len(private) + Len(mapping))) BY DEF Shape
<1>2. Len(private) \in Nat /\ Len(mapping) \in Nat BY DEF Histories
<1>3. ASSUME NEW n \in 1..Len(mapping)
      PROVE  \A a \in RegionIndexes(mapping[n]) : At(use, row[a].frame, r, 0, a)
  <2>1. h[Len(private) + n] = mapping[n] BY <1>2 DEF Histories
  <2>2. Len(private) + n \in (Len(private) + 1)..(Len(private) + Len(mapping)) BY <1>2
  <2> HIDE DEF h
  <2> QED BY <1>1, <2>1, <2>2 DEF Mine
<1> QED BY <1>3

\* The bytes of its module stay.
LEMMA ImageKept ==
    ASSUME NEW m, NEW use, NEW pg, NEW n, NEW other, NEW new, NEW s \in Slot,
           RowKept(m, use, pg, n, other, new, s.paging_root),
           SlotShape(use, pg[s.paging_root], s), SlotImage(m.data, pg[s.paging_root], s)
    PROVE  SlotImage(n.data, new[s.paging_root], s)
<1> DEFINE r == s.paging_root
           h == s.mapping_history
           headers == Modules[s.module].headers
<1>1. SUFFICES ASSUME s.father_id = NoProcess, s.module # 0
               PROVE  /\ s.level = ModuleLevel(s.module) /\ Segments(h, s.level, headers)
                      /\ Image(n.data, new[r], s.level, headers, Len(h))
                      /\ Len(h) = Len(headers) \/ ~headers[Len(h) + 1].load
  BY DEF SlotImage
<1>2. /\ s.level = ModuleLevel(s.module) /\ Segments(h, s.level, headers)
      /\ Image(m.data, pg[r], s.level, headers, Len(h))
      /\ Len(h) = Len(headers) \/ ~headers[Len(h) + 1].load
  BY <1>1 DEF SlotImage
<1>3. Shape(use, pg[r], r, s.private_mapping_history, h, TRUE) BY <1>1 DEF SlotShape
<1>4. s.private_mapping_history \in Histories /\ h \in Histories /\ Len(h) \in Nat
  BY DEF Slot, Histories
<1>5. \A j \in 1..Len(h) : \A a \in RegionIndexes(h[j]) : At(use, pg[r][a].frame, r, 0, a)
  BY <1>3, <1>4, OwnPages
<1>6. new[r] = pg[r] /\ \A f \in Frame : use[f].kind = "used" /\ use[f].root = r => n.data[f] = m.data[f]
  BY DEF RowKept
<1>7. Image(n.data, new[r], s.level, headers, Len(h))
  <2>1. ASSUME NEW j \in 1..Len(h)
        PROVE  /\ headers[j].load
               /\ \A a \in RegionIndexes(SegmentRegion(s.level, headers[j])) :
                    n.data[new[r][a].frame] = SegmentBytes(PageAt(a), headers[j])
    <3>1. /\ headers[j].load
          /\ \A a \in RegionIndexes(SegmentRegion(s.level, headers[j])) :
                m.data[pg[r][a].frame] = SegmentBytes(PageAt(a), headers[j])
      BY <1>2 DEF Image
    <3> DEFINE i == Len(h) + 1 - j
    <3>2. i \in 1..Len(h) /\ Len(h) + 1 - i = j BY <1>4
    <3>3. h[i] = SegmentRegion(s.level, headers[j]) BY <3>2, <1>2 DEF Segments
    <3> HIDE DEF i
    <3>4. ASSUME NEW a \in RegionIndexes(SegmentRegion(s.level, headers[j]))
          PROVE  n.data[new[r][a].frame] = m.data[pg[r][a].frame]
      <4>1. At(use, pg[r][a].frame, r, 0, a) BY <3>2, <3>3, <1>5
      <4> QED BY <4>1, <1>6 DEF At
    <3> QED BY <3>1, <3>4
  <2> HIDE DEF r, h, headers
  <2> QED BY <2>1 DEF Image
<1> QED BY <1>2, <1>7

\* A process that a step leaves alone, with its father, is as it was.
LEMMA SlotKept ==
    ASSUME NEW m, NEW array \in [Pid -> Slot], NEW use, NEW pg, NEW birth, NEW p \in Live(array),
           SlotOK(m.data, array, use, pg, birth, p),
           NEW n, NEW other, NEW new, RowKept(m, use, pg, n, other, new, array[p].paging_root),
           NEW after, after[p] = array[p], NEW dates, dates[p] = birth[p],
           array[p].father_id # NoProcess =>
             LET f == array[p].father_id
             IN  /\ f \in Live(after) /\ after[f] = array[f] /\ dates[f] = birth[f]
                 /\ RowKept(m, use, pg, n, other, new, array[f].paging_root)
    PROVE  SlotOK(n.data, after, other, new, dates, p)
<1> DEFINE s == array[p]
           r == s.paging_root
<1>1. s \in Slot BY DEF Live
<1>2. /\ SlotShape(use, pg[r], s) /\ SlotRights(s) /\ SlotImage(m.data, pg[r], s)
      /\ SlotFather(array, pg, birth, p)
  BY DEF SlotOK
<1>3. SlotImage(n.data, new[r], s) BY <1>1, <1>2, ImageKept
<1>4. SlotShape(other, new[r], s)
  <2>1. \A private, mapping, own :
          Shape(use, pg[r], r, private, mapping, own) => Shape(other, new[r], r, private, mapping, own)
    BY ShapeKept
  <2> QED BY <2>1, <1>2 DEF SlotShape
<1>5. SlotFather(after, new, dates, p)
  <2>1. CASE s.father_id = NoProcess BY <2>1 DEF SlotFather
  <2>2. CASE s.father_id # NoProcess
    <3> DEFINE f == s.father_id
    <3>1. /\ f \in Live(after) /\ after[f] = array[f] /\ dates[f] = birth[f]
          /\ new[array[f].paging_root] = pg[array[f].paging_root]
      BY <2>2 DEF RowKept
    <3>2. new[r] = pg[r] BY DEF RowKept
    <3> QED BY <3>1, <3>2, <2>2, <1>2 DEF SlotFather
  <2> QED BY <2>1, <2>2
<1> QED BY <1>2, <1>3, <1>4, <1>5 DEF SlotOK

\* The root of a process is in use.
LEMMA RootsAreRoots ==
    ASSUME NEW array, NEW p \in Live(array)
    PROVE  array[p].paging_root \in Roots(array)
BY DEF Roots

\* What is lost stays out of use.
LEMMA OriginKept ==
    ASSUME NEW use, NEW other, Origin(use), LostKept(use, other)
    PROVE  Origin(other)
BY DEF Origin, LostKept

\* A step that loses nothing.
LEMMA SameIsKept ==
    ASSUME NEW use, NEW other, LostSame(use, other)
    PROVE  LostKept(use, other) /\ (NoneLost(use) => NoneLost(other))
<1>1. LostKept(use, other) BY DEF LostSame, LostKept
<1>2. \A f \in Range(Available) : f \in Frame BY AvailableFrames
<1>3. NoneLost(use) => NoneLost(other) BY <1>2 DEF LostSame, NoneLost
<1> QED BY <1>1, <1>3

\* A step that leaves all processes alone keeps the invariant.
LEMMA StateKept ==
    ASSUME NEW m, NEW array, NEW use, NEW pg, NEW birth, NEW count, State(m, array, use, pg, birth, count),
           NEW n, NEW other, NEW new, Forest(n, other, new, Roots(array)), Full(n, other),
           LostKept(use, other),
           \A r \in Roots(array) : RowKept(m, use, pg, n, other, new, r),
           NEW later \in Nat, later >= count
    PROVE  State(n, array, other, new, birth, later)
<1>1. /\ array \in [Pid -> Slot] /\ KernelFirst(array)
      /\ \A p, q \in Live(array) : array[p].paging_root = array[q].paging_root => p = q
      /\ \A p \in Live(array) : SlotOK(m.data, array, use, pg, birth, p)
      /\ count \in Nat /\ birth \in [Pid -> 0..count]
  BY DEF State, Slots
<1>2. ASSUME NEW p \in Live(array) PROVE SlotOK(n.data, array, other, new, birth, p)
  <2>1. SlotOK(m.data, array, use, pg, birth, p) BY <1>1
  <2>2. RowKept(m, use, pg, n, other, new, array[p].paging_root) BY RootsAreRoots
  <2>3. array[p].father_id # NoProcess =>
             LET f == array[p].father_id
             IN  /\ f \in Live(array)
                 /\ RowKept(m, use, pg, n, other, new, array[f].paging_root)
    BY <2>1, RootsAreRoots DEF SlotOK, SlotFather
  <2> QED BY <1>1, <2>1, <2>2, <2>3, SlotKept
<1>3. birth \in [Pid -> 0..later] BY <1>1
<1>4. Origin(other) BY OriginKept DEF State
<1> QED BY <1>1, <1>2, <1>3, <1>4 DEF State, Slots

\* A process appears in a free slot.
LEMMA ProcessAdded ==
    ASSUME NEW m, NEW array, NEW use, NEW pg, NEW birth, NEW count, State(m, array, use, pg, birth, count),
           NEW n, NEW other, NEW new, NEW r, r \notin Roots(array),
           Forest(n, other, new, Roots(array) \cup {r}), Full(n, other), LostKept(use, other),
           \A q \in Roots(array) : RowKept(m, use, pg, n, other, new, q),
           NEW s \in Slot, s.is_present, s.paging_root = r,
           SlotShape(other, new[r], s), SlotRights(s), SlotImage(n.data, new[r], s),
           NEW later \in Nat, later >= count, NEW date \in 0..later,
           s.father_id # NoProcess =>
             LET f == s.father_id
                 father == array[f]
             IN  /\ f \in Live(array) /\ birth[f] < date
                 /\ s.module = father.module /\ s.level = father.level
                 /\ s.mapping_history = father.mapping_history
                 /\ SameFrames(new[r], new[father.paging_root], s.mapping_history,
                               1..Len(s.mapping_history)),
           NEW slot \in Pid \ Live(array)
    PROVE  State(n, [array EXCEPT ![slot] = s], other, new, [birth EXCEPT ![slot] = date], later)
<1> DEFINE after == [array EXCEPT ![slot] = s]
           dates == [birth EXCEPT ![slot] = date]
<1>1. /\ array \in [Pid -> Slot] /\ KernelFirst(array)
      /\ \A p, q \in Live(array) : array[p].paging_root = array[q].paging_root => p = q
      /\ \A p \in Live(array) : SlotOK(m.data, array, use, pg, birth, p)
      /\ count \in Nat /\ birth \in [Pid -> 0..count]
  BY DEF State, Slots
<1>2. /\ after \in [Pid -> Slot] /\ after[slot] = s /\ \A p \in Pid : p # slot => after[p] = array[p]
  BY <1>1
<1>3. /\ dates \in [Pid -> 0..later] /\ dates[slot] = date /\ \A p \in Pid : p # slot => dates[p] = birth[p]
  BY <1>1
<1> HIDE DEF after, dates
<1>4. Live(after) = Live(array) \cup {slot} /\ slot \notin Live(array) BY <1>2 DEF Live
<1>5. \A p \in Live(array) : p \in Pid /\ p # slot /\ after[p] = array[p] /\ dates[p] = birth[p]
  BY <1>2, <1>3, <1>4 DEF Live
<1>6. Roots(after) = Roots(array) \cup {r}
  BY <1>2, <1>4, <1>5 DEF Roots
<1>7. \A p, q \in Live(after) : after[p].paging_root = after[q].paging_root => p = q
  <2>1. \A p \in Live(array) : after[p].paging_root # r /\ after[p].paging_root = array[p].paging_root
    BY <1>5, RootsAreRoots
  <2> QED BY <1>1, <1>2, <1>4, <2>1
<1>8. ASSUME NEW p \in Live(array) PROVE SlotOK(n.data, after, other, new, dates, p)
  <2>1. SlotOK(m.data, array, use, pg, birth, p) BY <1>1
  <2>2. RowKept(m, use, pg, n, other, new, array[p].paging_root) BY RootsAreRoots
  <2>3. array[p].father_id # NoProcess =>
             LET f == array[p].father_id
             IN  /\ f \in Live(after) /\ after[f] = array[f] /\ dates[f] = birth[f]
                 /\ RowKept(m, use, pg, n, other, new, array[f].paging_root)
    BY <2>1, <1>4, <1>5, RootsAreRoots DEF SlotOK, SlotFather
  <2>4. after[p] = array[p] /\ dates[p] = birth[p] BY <1>5
  <2> QED BY <1>1, <2>1, <2>2, <2>3, <2>4, SlotKept
<1>9. SlotOK(n.data, after, other, new, dates, slot)
  <2>1. SlotFather(after, new, dates, slot)
    <3>1. s.father_id # NoProcess =>
             LET f == s.father_id
             IN  f \in Live(after) /\ after[f] = array[f] /\ dates[f] = birth[f]
      BY <1>4, <1>5
    <3> QED BY <3>1, <1>2, <1>3 DEF SlotFather
  <2> QED BY <2>1, <1>2 DEF SlotOK
<1>10. Origin(other) BY OriginKept DEF State
<1>11. Slots(n.data, after, other, new, dates)
  <2>1. r # identity_l4_table BY DEF Roots
  <2>2. KernelFirst(after) BY <1>1, <1>2, <1>4, <1>5, <2>1 DEF KernelFirst
  <2> QED BY <1>2, <1>4, <1>7, <1>8, <1>9, <2>2 DEF Slots
<1>12. State(n, after, other, new, dates, later)
  BY <1>3, <1>6, <1>10, <1>11 DEF State
<1> QED BY <1>12 DEF after, dates

\* The descriptor that create_process() fills in.
Born(r, level, father, history, module, private) ==
    [is_present |-> TRUE, father_id |-> father, level |-> level, module |-> module,
     paging_root |-> r, mapping_history |-> history, private_mapping_history |-> private]

\* What a child has in common with its father.
FatherOK(array, birth, date, new, r, level, father, history, module) ==
    father # NoProcess =>
        /\ father \in Live(array) /\ birth[father] < date
        /\ module = array[father].module /\ level = array[father].level
        /\ history = array[father].mapping_history
        /\ SameFrames(new[r], new[array[father].paging_root], history, 1..Len(history))

\* Its fields.
LEMMA BornFacts ==
    ASSUME NEW r \in Frame, NEW level \in {"user", "system"}, NEW father \in Pid \cup {NoProcess},
           NEW history \in Histories, NEW module \in 0..Len(Modules), NEW private \in Histories,
           NEW s, s = Born(r, level, father, history, module, private)
    PROVE  /\ s \in Slot /\ s.is_present /\ s.paging_root = r /\ s.level = level
           /\ s.father_id = father /\ s.mapping_history = history /\ s.module = module
           /\ s.private_mapping_history = private
BY DEF Born, Slot

\* The pages of a history are mapped.
LEMMA HeldFrames ==
    ASSUME NEW use, NEW row, NEW r, NEW private \in Histories, NEW mapping \in Histories, NEW own,
           Shape(use, row, r, private, mapping, own)
    PROVE  \A n \in 1..Len(mapping) : \A a \in RegionIndexes(mapping[n]) :
             a \in Unshared /\ row[a] # Absent
<1> DEFINE h == private \o mapping
<1>1. Len(private) \in Nat /\ Len(mapping) \in Nat BY DEF Histories
<1>2. Held(row, h, 1..(Len(private) + Len(mapping))) BY DEF Shape
<1>3. ASSUME NEW n \in 1..Len(mapping), NEW a \in RegionIndexes(mapping[n])
      PROVE  a \in Unshared /\ row[a] # Absent
  <2>1. Len(private) + n \in 1..(Len(private) + Len(mapping)) /\ h[Len(private) + n] = mapping[n]
    BY <1>1 DEF Histories
  <2> HIDE DEF h
  <2>2. RegionOK(mapping[n]) BY <1>2, <2>1 DEF Held
  <2>3. a \in Unshared BY <2>2, RegionFacts
  <2> QED BY <2>1, <2>3, <1>2 DEF Held
<1> QED BY <1>3

\* The segments, and the frames that are shared, outlast the regions added next.
LEMMA ImageExtended ==
    ASSUME NEW m, NEW use, NEW pg, NEW roots, NEW r, NEW n, NEW other, NEW new,
           Extended(m, use, pg, roots, r, n, other, new),
           NEW level, NEW headers, NEW h, Segments(h, level, headers),
           NEW private \in Histories, Shape(use, pg[r], r, private, h, TRUE),
           Image(m.data, pg[r], level, headers, Len(h))
    PROVE  Image(n.data, new[r], level, headers, Len(h))
<1>1. h \in Histories /\ Len(h) \in Nat BY DEF Segments, Histories
<1>3. \A j \in 1..Len(h) : \A a \in RegionIndexes(h[j]) :
        /\ At(use, pg[r][a].frame, r, 0, a) /\ a \in Unshared /\ pg[r][a] # Absent
  BY <1>1, OwnPages, HeldFrames
<1>4. /\ \A f \in Frame : use[f].kind # "free" => n.data[f] = m.data[f]
      /\ \A a \in Unshared : pg[r][a] # Absent => new[r][a] = pg[r][a]
  BY DEF Extended, DataKept
<1>5. ASSUME NEW j \in 1..Len(h)
      PROVE  /\ headers[j].load
             /\ \A a \in RegionIndexes(SegmentRegion(level, headers[j])) :
                  n.data[new[r][a].frame] = SegmentBytes(PageAt(a), headers[j])
  <2>1. /\ headers[j].load
        /\ \A a \in RegionIndexes(SegmentRegion(level, headers[j])) :
              m.data[pg[r][a].frame] = SegmentBytes(PageAt(a), headers[j])
    BY DEF Image
  <2> DEFINE i == Len(h) + 1 - j
  <2>2. i \in 1..Len(h) /\ Len(h) + 1 - i = j BY <1>1
  <2>3. h[i] = SegmentRegion(level, headers[j]) BY <2>2 DEF Segments
  <2> HIDE DEF i
  <2>4. ASSUME NEW a \in RegionIndexes(SegmentRegion(level, headers[j]))
        PROVE  n.data[new[r][a].frame] = m.data[pg[r][a].frame]
    <3>1. At(use, pg[r][a].frame, r, 0, a) /\ new[r][a] = pg[r][a] BY <2>2, <2>3, <1>3, <1>4
    <3> QED BY <3>1, <1>4 DEF At
  <2> QED BY <2>1, <2>4
<1> QED BY <1>5 DEF Image

\* A row with more pages.
RowGrown(row, after) == \A a \in Unshared : row[a] # Absent => after[a] = row[a]

\* What a child shares with its father stays shared where either gets more
\* pages.
LEMMA SameGrown ==
    ASSUME NEW use, NEW row, NEW r, NEW private \in Histories, NEW h \in Histories, NEW own,
           Shape(use, row, r, private, h, own),
           NEW father, SameFrames(row, father, h, 1..Len(h)),
           NEW newrow, RowGrown(row, newrow), NEW newfather, RowGrown(father, newfather)
    PROVE  SameFrames(newrow, newfather, h, 1..Len(h))
<1>1. \A j \in 1..Len(h) : \A a \in RegionIndexes(h[j]) : a \in Unshared /\ row[a] # Absent
  BY HeldFrames
<1> QED BY <1>1 DEF SameFrames, RowGrown

\* So it does in a call that adds pages to the child.
LEMMA SameExtended ==
    ASSUME NEW m, NEW use, NEW pg, NEW roots, NEW r, NEW n, NEW other, NEW new,
           Extended(m, use, pg, roots, r, n, other, new),
           NEW h \in Histories, NEW own, Shape(use, pg[r], r, <<>>, h, own),
           NEW father \in Frame \ {r}, SameFrames(pg[r], pg[father], h, 1..Len(h))
    PROVE  SameFrames(new[r], new[father], h, 1..Len(h))
<1>1. RowGrown(pg[father], new[father]) /\ RowGrown(pg[r], new[r])
  BY DEF Extended, RowGrown
<1>2. <<>> \in Histories BY DEF Histories
<1> QED BY <1>1, <1>2, SameGrown

\* The private history of a new process.
LEMMA FirstRights ==
    ASSUME NEW level, NEW regions, FirstOK(level, regions), NEW h, Reversed(h, regions, Len(regions))
    PROVE  /\ h \in Histories /\ Rights(h, level)
           /\ \E n \in 1..Len(h) : h[n] = SystemStack
<1>1. /\ h \in Histories /\ Len(h) = Len(regions) /\ Len(regions) \in Nat
      /\ \A j \in 1..Len(regions) : h[j] = regions[Len(regions) + 1 - j]
  BY DEF Reversed, FirstOK, Histories
<1>2. \A j \in 1..Len(regions) :
        Len(regions) + 1 - j \in 1..Len(regions) /\ Len(regions) + 1 - (Len(regions) + 1 - j) = j
  BY <1>1
<1>3. Rights(h, level) BY <1>1, <1>2 DEF Rights, FirstOK
<1>4. PICK k \in 1..Len(regions) : regions[k] = SystemStack BY DEF FirstOK
<1>5. h[Len(regions) + 1 - k] = SystemStack BY <1>1, <1>2, <1>4
<1> QED BY <1>1, <1>2, <1>3, <1>5

\* If the kernel runs on after the step, processes came or went.
Succeeds == status' = "running" => Present' # Present

\* The pages of the processes after a step, and before it: what ends is gone, or
\* one process q has more.
SlotStays(p) ==
    /\ process_array'[p].paging_root = process_array[p].paging_root
    /\ process_array'[p].father_id = process_array[p].father_id
    /\ process_array'[p].mapping_history = process_array[p].mapping_history

\* A process keeps its pages too.
RowStays(pg, newest, p) ==
    /\ p \in Live(process_array) /\ p \in Live(process_array') /\ SlotStays(p)
    /\ newest[process_array[p].paging_root] = pg[process_array[p].paging_root]

\* A step in which processes end.
Shrinks(pg, newest) == \A p \in Live(process_array') : RowStays(pg, newest, p)

\* A step in which q gets pages.
GainsFor(pg, newest, q) ==
    /\ q \in Live(process_array')
    /\ \A p \in (Live(process_array) \cup Live(process_array')) \ {q} : RowStays(pg, newest, p)
    /\ q \in Live(process_array) =>
         /\ SlotStays(q)
         /\ RowGrown(pg[process_array[q].paging_root], newest[process_array[q].paging_root])

\* What a step does to the pages of the processes.
Moves(pg, newest) == Shrinks(pg, newest) \/ \E q \in Pid : GainsFor(pg, newest, q)

\* The pages of all the roots in use are the same.
RowsSame(pg, newest) == \A r \in Roots(process_array) : newest[r] = pg[r]

\* Nobody's pages change.
LEMMA UnchangedMoves ==
    ASSUME NEW pg, NEW newest, RowsSame(pg, newest), process_array' = process_array
    PROVE  Moves(pg, newest)
<1>1. ASSUME NEW p \in Live(process_array') PROVE RowStays(pg, newest, p)
  <2>1. p \in Live(process_array) BY <1>1
  <2>2. process_array[p].paging_root \in Roots(process_array) BY <2>1, RootsAreRoots
  <2> QED BY <1>1, <2>1, <2>2 DEF RowStays, SlotStays, RowsSame
<1> QED BY <1>1 DEF Moves, Shrinks

\* The state after a step from one where the frames are for what use says.
Led(use, pg, later) ==
    \E last, newest, dates :
        /\ State(memory', process_array', last, newest, dates, later)
        /\ Moves(pg, newest)
        /\ NoneLost(use) /\ Succeeds => NoneLost(last)

\* The model's set of processes is that of the proofs.
LEMMA PresentIsLive == Present = Live(process_array) /\ Present' = Live(process_array')
BY DEF Present, Live

\* The invariant does not depend on an upper bound of the dates.
LEMMA SameState ==
    ASSUME NEW m, NEW array, NEW use, NEW pg, NEW birth, NEW count, State(m, array, use, pg, birth, count),
           NEW later \in Nat, later >= count
    PROVE  State(m, array, use, pg, birth, later)
<1>1. \A r \in Roots(array) : RowKept(m, use, pg, m, use, pg, r) BY DEF RowKept
<1>2. LostKept(use, use) BY DEF LostKept
<1>3. Forest(m, use, pg, Roots(array)) /\ Full(m, use) BY DEF State
<1> QED BY <1>1, <1>2, <1>3, StateKept

\* The shape of a process by its father: the pages are its own if it has none.
FatherShape(use, row, r, father, private, history) ==
    IF father = NoProcess THEN Shape(use, row, r, private, history, TRUE)
    ELSE Shape(use, row, r, private, history, FALSE)

\* The array with a process in an empty slot.
NewSlot(array, slot, s) == [array EXCEPT ![slot] = s]

\* A new process has pages, and nobody else gets any.
LEMMA NewSlotMoves ==
    ASSUME NEW pg, NEW newest, RowsSame(pg, newest), process_array \in [Pid -> Slot],
           NEW slot \in Pid \ Live(process_array), NEW s \in Slot, s.is_present,
           process_array' = NewSlot(process_array, slot, s)
    PROVE  Moves(pg, newest)
<1>1. /\ process_array'[slot] = s
      /\ \A p \in Pid : p # slot => process_array'[p] = process_array[p]
  BY DEF NewSlot
<1>2. slot \in Live(process_array') BY <1>1 DEF Live
<1>3. ASSUME NEW p \in (Live(process_array) \cup Live(process_array')) \ {slot}
      PROVE  RowStays(pg, newest, p)
  <2>1. p \in Pid /\ process_array'[p] = process_array[p] BY <1>1, <1>3 DEF Live
  <2>2. p \in Live(process_array) /\ p \in Live(process_array') BY <1>3, <2>1 DEF Live
  <2>3. process_array[p].paging_root \in Roots(process_array) BY <2>2, RootsAreRoots
  <2> QED BY <2>1, <2>2, <2>3 DEF RowStays, SlotStays, RowsSame
<1>4. GainsFor(pg, newest, slot) BY <1>2, <1>3 DEF GainsFor
<1> QED BY <1>4 DEF Moves

\* The first regions are added to a table that has the regions of history.
LEMMA FirstAdded ==
    ASSUME NEW m, NEW use, NEW pg, NEW roots, Forest(m, use, pg, roots), Full(m, use),
           NEW r \in roots, NEW history \in Histories, NEW father,
           FatherShape(use, pg[r], r, father, <<>>, history),
           NEW regions, NEW level, FirstOK(level, regions),
           NEW made,
           made = FoldLeft(add_pages, [memory |-> m, root |-> r, result |-> "ok", history |-> <<>>], regions),
           made.result = "ok"
    PROVE  \E other, new :
             /\ Extended(m, use, pg, roots, r, made.memory, other, new)
             /\ FatherShape(other, new[r], r, father, made.history, history)
             /\ Reversed(made.history, regions, Len(regions))
<1>1. regions \in Histories /\ \A k \in 1..Len(regions) : RegionOK(regions[k])
  BY DEF FirstOK
<1>2. ASSUME NEW own, Shape(use, pg[r], r, <<>>, history, own)
      PROVE  \E other, new :
                 /\ Extended(m, use, pg, roots, r, made.memory, other, new)
                 /\ Shape(other, new[r], r, made.history, history, own)
                 /\ Reversed(made.history, regions, Len(regions))
  <2>1. PICK h : /\ Reversed(h, regions, Len(regions))
                 /\ Added(m, use, pg, roots, r, h, history, own, made)
    BY <1>1, <1>2, RegionsAdded
  <2>2. made.history = h BY <2>1 DEF Added
  <2> QED BY <2>1, <2>2 DEF Added
<1>3. CASE father = NoProcess
  <2>1. Shape(use, pg[r], r, <<>>, history, TRUE) BY <1>3 DEF FatherShape
  <2>2. PICK other, new :
                 /\ Extended(m, use, pg, roots, r, made.memory, other, new)
                 /\ Shape(other, new[r], r, made.history, history, TRUE)
                 /\ Reversed(made.history, regions, Len(regions))
    BY <2>1, <1>2
  <2> QED BY <2>2, <1>3 DEF FatherShape
<1>4. CASE father # NoProcess
  <2>1. Shape(use, pg[r], r, <<>>, history, FALSE) BY <1>4 DEF FatherShape
  <2>2. PICK other, new :
                 /\ Extended(m, use, pg, roots, r, made.memory, other, new)
                 /\ Shape(other, new[r], r, made.history, history, FALSE)
                 /\ Reversed(made.history, regions, Len(regions))
    BY <2>1, <1>2
  <2> QED BY <2>2, <1>4 DEF FatherShape
<1> QED BY <1>3, <1>4

\* What a new process shares with its father stays when it gets its first
\* regions.
LEMMA FatherExtended ==
    ASSUME NEW m, NEW use, NEW pg, NEW roots, NEW r, NEW n, NEW other, NEW new,
           Extended(m, use, pg, roots, r, n, other, new),
           NEW level, NEW father, NEW history \in Histories, NEW module,
           FatherShape(use, pg[r], r, father, <<>>, history),
           NEW array, NEW birth, NEW date,
           FatherOK(array, birth, date, pg, r, level, father, history, module),
           \A p \in Live(array) : array[p].paging_root \in Frame \ {r}
    PROVE  FatherOK(array, birth, date, new, r, level, father, history, module)
<1>1. CASE father = NoProcess BY <1>1 DEF FatherOK
<1>2. CASE father # NoProcess
  <2>1. Shape(use, pg[r], r, <<>>, history, FALSE) BY <1>2 DEF FatherShape
  <2>2. /\ father \in Live(array) /\ birth[father] < date
        /\ module = array[father].module /\ level = array[father].level
        /\ history = array[father].mapping_history
        /\ SameFrames(pg[r], pg[array[father].paging_root], history, 1..Len(history))
    BY <1>2 DEF FatherOK
  <2> DEFINE top == array[father].paging_root
  <2>3. SameFrames(new[r], new[top], history, 1..Len(history))
    <3>1. top \in Frame \ {r} /\ SameFrames(pg[r], pg[top], history, 1..Len(history)) BY <2>2
    <3> HIDE DEF top
    <3> QED BY <2>1, <3>1, SameExtended
  <2> QED BY <2>2, <2>3 DEF FatherOK
<1> QED BY <1>1, <1>2

\* The image of a process that is not created yet.
BornImage(data, row, level, father, history, module) ==
    father = NoProcess /\ module # 0 =>
        LET headers == Modules[module].headers
        IN  /\ level = ModuleLevel(module) /\ Segments(history, level, headers)
            /\ Image(data, row, level, headers, Len(history))
            /\ Len(history) = Len(headers) \/ ~headers[Len(history) + 1].load

\* The bytes of its module stay too.
LEMMA BornExtended ==
    ASSUME NEW m, NEW use, NEW pg, NEW roots, NEW r, NEW n, NEW other, NEW new,
           Extended(m, use, pg, roots, r, n, other, new),
           NEW level, NEW father, NEW history, NEW module, NEW private \in Histories,
           FatherShape(use, pg[r], r, father, private, history),
           BornImage(m.data, pg[r], level, father, history, module)
    PROVE  BornImage(n.data, new[r], level, father, history, module)
<1>1. SUFFICES ASSUME father = NoProcess, module # 0
               PROVE  Image(n.data, new[r], level, Modules[module].headers, Len(history))
  BY DEF BornImage
<1> DEFINE hs == Modules[module].headers
<1>2. Shape(use, pg[r], r, private, history, TRUE) BY <1>1 DEF FatherShape
<1>3. Segments(history, level, hs) /\ Image(m.data, pg[r], level, hs, Len(history))
  BY <1>1 DEF BornImage
<1> HIDE DEF hs
<1>4. Image(n.data, new[r], level, hs, Len(history)) BY <1>2, <1>3, ImageExtended
<1> QED BY <1>4 DEF hs

\* The same predicates for a process that is there.
LEMMA SlotIsBorn ==
    ASSUME NEW use, NEW row, NEW data, NEW s
    PROVE  /\ SlotShape(use, row, s) <=>
                FatherShape(use, row, s.paging_root, s.father_id, s.private_mapping_history, s.mapping_history)
           /\ SlotImage(data, row, s) <=>
                BornImage(data, row, s.level, s.father_id, s.mapping_history, s.module)
<1>1. SlotShape(use, row, s) <=>
        FatherShape(use, row, s.paging_root, s.father_id, s.private_mapping_history, s.mapping_history)
  BY DEF SlotShape, FatherShape
<1>2. SlotImage(data, row, s) <=>
        BornImage(data, row, s.level, s.father_id, s.mapping_history, s.module)
  BY DEF SlotImage, BornImage
<1> QED BY <1>1, <1>2

\* The stack of the kernel is among the private mappings.
HasSystemStack(private) == \E n \in 1..Len(private) : private[n] = SystemStack

\* The new record has what the invariant says of one.
LEMMA SlotMade ==
    ASSUME NEW r \in Frame, r # identity_l4_table,
           NEW level \in {"user", "system"}, NEW father \in Pid \cup {NoProcess},
           NEW history \in Histories, NEW module \in 0..Len(Modules), NEW private \in Histories,
           Rights(history, level), Rights(private, level),
           HasSystemStack(private),
           NEW use, NEW row, FatherShape(use, row, r, father, private, history),
           NEW data, BornImage(data, row, level, father, history, module),
           NEW s, s = Born(r, level, father, history, module, private)
    PROVE  /\ s \in Slot /\ s.is_present /\ s.paging_root = r
           /\ SlotShape(use, row, s) /\ SlotRights(s) /\ SlotImage(data, row, s)
<1>1. /\ s \in Slot /\ s.is_present /\ s.paging_root = r /\ s.level = level
      /\ s.father_id = father /\ s.mapping_history = history /\ s.module = module
      /\ s.private_mapping_history = private
  BY BornFacts
<1>2. SlotShape(use, row, s) BY <1>1 DEF SlotShape, FatherShape
<1>3. SlotRights(s) BY <1>1 DEF SlotRights, HasSystemStack
<1>4. SlotImage(data, row, s) BY <1>1 DEF SlotImage, BornImage
<1> QED BY <1>1, <1>2, <1>3, <1>4

\* What create_process() is called with: m is what memory became on the way.
Ready(use, pg, birth, later, m, other, new, r, level, father, history, module, date) ==
    /\ r \in Frame /\ r \notin Roots(process_array)
    /\ Forest(m, other, new, Roots(process_array) \cup {r}) /\ Full(m, other) /\ LostSame(use, other)
    /\ \A q \in Roots(process_array) : RowKept(memory, use, pg, m, other, new, q)
    /\ level \in {"user", "system"} /\ father \in Pid \cup {NoProcess}
    /\ history \in Histories /\ module \in 0..Len(Modules) /\ Rights(history, level)
    /\ FatherShape(other, new[r], r, father, <<>>, history)
    /\ BornImage(m.data, new[r], level, father, history, module)
    /\ FatherOK(process_array, birth, date, new, r, level, father, history, module)
    /\ later \in Nat /\ date \in 0..later

\* After create_process() the invariant holds, with one more process.
LEMMA CreatedInSlot ==
    ASSUME NEW use, NEW pg, NEW birth, NEW count, State(memory, process_array, use, pg, birth, count),
           NEW later, later >= count,
           NEW m, NEW other, NEW new, NEW r, NEW level, NEW father, NEW history, NEW module, NEW date,
           Ready(use, pg, birth, later, m, other, new, r, level, father, history, module, date),
           NEW made,
           made = FoldLeft(add_pages, [memory |-> m, root |-> r, result |-> "ok", history |-> <<>>],
                           FirstRegions(level)),
           made.result = "ok", NEW slot \in Pid \ Present
    PROVE  \E last, newest, dates :
             /\ State(made.memory, NewSlot(process_array, slot, Born(r, level, father, history, module, made.history)),
                      last, newest, dates, later)
             /\ RowsSame(pg, newest)
             /\ NoneLost(use) => NoneLost(last)
<1> DEFINE live == Roots(process_array)
           roots == live \cup {r}
           regions == FirstRegions(level)
           s == Born(r, level, father, history, module, made.history)
<1>1. /\ r \in Frame /\ r \notin live
      /\ Forest(m, other, new, roots) /\ Full(m, other) /\ LostSame(use, other)
      /\ \A q \in live : RowKept(memory, use, pg, m, other, new, q)
      /\ level \in {"user", "system"} /\ father \in Pid \cup {NoProcess}
      /\ history \in Histories /\ module \in 0..Len(Modules) /\ Rights(history, level)
      /\ FatherShape(other, new[r], r, father, <<>>, history)
      /\ BornImage(m.data, new[r], level, father, history, module)
      /\ FatherOK(process_array, birth, date, new, r, level, father, history, module)
      /\ later \in Nat /\ date \in 0..later
  BY DEF Ready
<1>2. FirstOK(level, regions) BY <1>1, FirstRegionsFacts
<1>3. r \in roots OBVIOUS
<1>4. PICK last, newest :
             /\ Extended(m, other, new, roots, r, made.memory, last, newest)
             /\ FatherShape(last, newest[r], r, father, made.history, history)
             /\ Reversed(made.history, regions, Len(regions))
  <2> HIDE DEF regions, roots, live
  <2> QED BY <1>1, <1>2, <1>3, FirstAdded DEF regions
<1>5. other \in [Frame -> Role] /\ roots \subseteq Frame BY <1>1 DEF Forest, ForestTypes
<1>6. /\ \A q \in Frame \ {r} : RowKept(m, other, new, made.memory, last, newest, q)
      /\ LostSame(other, last)
  BY <1>4, <1>5, ExtendedKeeps
<1>7. Forest(made.memory, last, newest, roots) /\ Full(made.memory, last) BY <1>4 DEF Extended
<1>8. \A q \in live : RowKept(memory, use, pg, made.memory, last, newest, q)
  BY <1>1, <1>5, <1>6, RowKeptTwice
<1>9. LostSame(use, last) BY <1>1, <1>6 DEF LostSame
<1>10. LostKept(use, last) /\ (NoneLost(use) => NoneLost(last)) BY <1>9, SameIsKept
<1>11. /\ made.history \in Histories /\ Rights(made.history, level)
       /\ \E n \in 1..Len(made.history) : made.history[n] = SystemStack
  BY <1>2, <1>4, FirstRights
<1>12. BornImage(made.memory.data, newest[r], level, father, history, module)
  <2> DEFINE none == <<>>
  <2>1. none \in Histories BY DEF Histories
  <2>2. FatherShape(other, new[r], r, father, none, history) BY <1>1
  <2> HIDE DEF live, roots, none, s, regions
  <2>3. Extended(m, other, new, roots, r, made.memory, last, newest) BY <1>4
  <2>4. BornImage(m.data, new[r], level, father, history, module) BY <1>1
  <2> QED BY <2>1, <2>2, <2>3, <2>4, BornExtended
<1>13. \A p \in Live(process_array) : process_array[p].paging_root \in Frame \ {r}
  BY <1>1, <1>5, RootsAreRoots
<1>14. FatherOK(process_array, birth, date, newest, r, level, father, history, module)
  BY <1>1, <1>4, <1>13, FatherExtended
<1>15. r # identity_l4_table BY <1>1 DEF Roots
<1>16. s = Born(r, level, father, history, module, made.history) OBVIOUS
<1>17. /\ s.level = level /\ s.father_id = father /\ s.mapping_history = history /\ s.module = module
  BY DEF Born
<1> HIDE DEF s, regions
<1>161. FatherShape(last, newest[r], r, father, made.history, history) BY <1>4
<1>162. /\ s \in Slot /\ s.is_present /\ s.paging_root = r
        /\ SlotShape(last, newest[r], s) /\ SlotRights(s) /\ SlotImage(made.memory.data, newest[r], s)
  <2>1. /\ r \in Frame /\ r # identity_l4_table
        /\ level \in {"user", "system"} /\ father \in Pid \cup {NoProcess}
        /\ history \in Histories /\ module \in 0..Len(Modules) /\ Rights(history, level)
    BY <1>1, <1>15
  <2>2. made.history \in Histories /\ Rights(made.history, level) /\ HasSystemStack(made.history)
    BY <1>11 DEF HasSystemStack
  <2> QED BY ONLY <2>1, <2>2, <1>12, <1>16, <1>161, SlotMade
<1>18. s.father_id # NoProcess =>
             LET f == s.father_id
                 older == process_array[f]
             IN  /\ f \in Live(process_array) /\ birth[f] < date
                 /\ s.module = older.module /\ s.level = older.level
                 /\ s.mapping_history = older.mapping_history
                 /\ SameFrames(newest[r], newest[older.paging_root], s.mapping_history,
                               1..Len(s.mapping_history))
  BY <1>14, <1>17 DEF FatherOK
<1>19. slot \in Pid \ Live(process_array) BY PresentIsLive
<1>20. State(made.memory, [process_array EXCEPT ![slot] = s], last, newest, [birth EXCEPT ![slot] = date], later)
  BY <1>1, <1>7, <1>8, <1>10, <1>162, <1>18, <1>19, ProcessAdded
<1>21. RowsSame(pg, newest) BY <1>8 DEF RowKept, RowsSame
<1> QED BY <1>10, <1>20, <1>21 DEF s, NewSlot

\* So it does whether the call finds a slot and frames or not.
LEMMA CreateProcess ==
    ASSUME NEW use, NEW pg, NEW birth, NEW count, State(memory, process_array, use, pg, birth, count),
           NEW later, later >= count,
           NEW m, NEW other, NEW new, NEW r, NEW level, NEW father, NEW history, NEW module, NEW date,
           Ready(use, pg, birth, later, m, other, new, r, level, father, history, module, date),
           status = "running", create_process(m, r, level, father, history, module)
    PROVE  Led(use, pg, later)
<1> DEFINE made == FoldLeft(add_pages, [memory |-> m, root |-> r, result |-> "ok", history |-> <<>>],
                            FirstRegions(level))
<1>0. later \in Nat BY DEF Ready
<1>1. CASE Present = Pid
  <2>1. memory' = m /\ process_array' = process_array /\ status' = status BY <1>1 DEF create_process
  <2>2. /\ r \in Frame /\ r \notin Roots(process_array)
        /\ Forest(m, other, new, Roots(process_array) \cup {r}) /\ Full(m, other) /\ LostSame(use, other)
        /\ \A q \in Roots(process_array) : RowKept(memory, use, pg, m, other, new, q)
    BY DEF Ready
  <2> DEFINE last == Forgotten(other, r)
             newest == Bare(new, r)
             all == Roots(process_array) \cup {r}
  <2>3. r # identity_l4_table /\ r \in all /\ all \ {r} = Roots(process_array) BY <2>2 DEF Roots
  <2>4. Forest(m, last, newest, all \ {r}) /\ Full(m, last) BY <2>2, <2>3, RootLost
  <2>5. new \in PageMaps /\ other \in [Frame -> Role] BY <2>2 DEF Forest, ForestTypes
  <2>6. \A q \in Frame \ {r} : newest[q] = new[q] BY <2>2, <2>5, BareFacts
  <2>7. /\ \A f \in Frame : other[f].kind = "used" /\ other[f].root = r => last[f].kind = "lost"
        /\ \A f \in Frame : ~(other[f].kind = "used" /\ other[f].root = r) => last[f] = other[f]
    BY <2>5, ForgottenFacts
  <2> HIDE DEF last, newest, all
  <2>8. \A q \in Frame \ {r} : RowKept(m, other, new, m, last, newest, q)
    BY <2>6, <2>7 DEF RowKept
  <2>9. LostKept(use, last)
    <3>1. \A f \in Frame : use[f].kind = "lost" <=> other[f].kind = "lost" BY <2>2 DEF LostSame
    <3> QED BY <3>1, <2>7 DEF LostKept
  <2>10. Roots(process_array) \subseteq Frame \ {r}
    BY <2>2, <2>3 DEF State, Forest, ForestTypes
  <2>11. \A q \in Roots(process_array) : RowKept(memory, use, pg, m, last, newest, q)
    BY <2>2, <2>8, <2>10, RowKeptTwice
  <2>12. State(m, process_array, last, newest, birth, later)
    BY <2>3, <2>4, <2>9, <2>11, <1>0, StateKept
  <2>13. Present' = Present BY <2>1 DEF Present
  <2>14. ~Succeeds BY <2>1, <2>13 DEF Succeeds
  <2>15. State(memory', process_array', last, newest, birth, later) BY <2>1, <2>12
  <2>16. RowsSame(pg, newest) BY <2>11 DEF RowKept, RowsSame
  <2>17. Moves(pg, newest) BY <2>1, <2>16, UnchangedMoves
  <2> QED BY <2>14, <2>15, <2>17 DEF Led
<1>2. CASE Present # Pid /\ made.result # "ok"
  <2>1. memory' = memory /\ process_array' = process_array BY <1>2 DEF create_process
  <2>2. State(memory, process_array, use, pg, birth, later) BY <1>0, SameState
  <2>3. Moves(pg, pg) BY <2>1, UnchangedMoves DEF RowsSame
  <2> QED BY <2>1, <2>2, <2>3 DEF Led
<1>3. CASE Present # Pid /\ made.result = "ok"
  <2>1. PICK slot \in Pid \ Present :
          process_array' = [process_array EXCEPT ![slot] =
                       [is_present |-> TRUE, father_id |-> father, level |-> level,
                        module |-> module, paging_root |-> r, mapping_history |-> history,
                        private_mapping_history |-> made.history]]
    BY <1>3 DEF create_process
  <2>2. memory' = made.memory BY <1>3 DEF create_process
  <2>3. process_array' = NewSlot(process_array, slot, Born(r, level, father, history, module, made.history))
    BY <2>1 DEF NewSlot, Born
  <2> HIDE DEF made
  <2>4. made = FoldLeft(add_pages, [memory |-> m, root |-> r, result |-> "ok", history |-> <<>>],
                            FirstRegions(level))
    BY DEF made
  <2>5. \E last, newest, dates :
             /\ State(made.memory, NewSlot(process_array, slot, Born(r, level, father, history, module, made.history)),
                      last, newest, dates, later)
             /\ RowsSame(pg, newest)
             /\ NoneLost(use) => NoneLost(last)
    BY <1>3, <2>4, CreatedInSlot
  <2> DEFINE s == Born(r, level, father, history, module, made.history)
  <2>6. s.is_present BY DEF Born
  <2> HIDE DEF s
  <2>7. slot \in Pid \ Live(process_array) /\ process_array \in [Pid -> Slot]
    BY PresentIsLive DEF State, Slots
  <2>8. \A array, k, u, data, other2, new2, birth2 :
            State(data, NewSlot(array, k, u), other2, new2, birth2, later) /\ k \in Pid /\ array \in [Pid -> Slot]
              => u \in Slot
    <3>1. \A array, k, u : NewSlot(array, k, u) \in [Pid -> Slot] /\ k \in Pid /\ array \in [Pid -> Slot]
              => u \in Slot
      <4> SUFFICES ASSUME NEW array, NEW k, NEW u, NewSlot(array, k, u) \in [Pid -> Slot], k \in Pid,
                          array \in [Pid -> Slot]
                   PROVE  u \in Slot
        OBVIOUS
      <4>1. NewSlot(array, k, u)[k] = u BY DEF NewSlot
      <4> QED BY <4>1
    <3> QED BY <3>1 DEF State, Slots
  <2>9. PICK last, newest, dates :
             /\ State(made.memory, NewSlot(process_array, slot, s), last, newest, dates, later)
             /\ RowsSame(pg, newest)
             /\ NoneLost(use) => NoneLost(last)
    BY <2>5 DEF s
  <2>10. s \in Slot BY <2>7, <2>8, <2>9
  <2>11. process_array' = NewSlot(process_array, slot, s) BY <2>3 DEF s
  <2>12. Moves(pg, newest) BY <2>6, <2>7, <2>9, <2>10, <2>11, NewSlotMoves
  <2>13. State(memory', process_array', last, newest, dates, later) BY <2>2, <2>9, <2>11
  <2> QED BY <2>9, <2>12, <2>13 DEF Led
<1> QED BY <1>1, <1>2, <1>3

\* There is a page that an address space can map.
LEMMA SomeIndex == Unshared # {}
<1> DEFINE a == [k \in 1..LEVELS |-> 1]
<1>1. a \in Idx /\ a[LEVELS] # 0 BY LevelsFact DEF Idx, Index
<1> HIDE DEF a
<1> QED BY <1>1 DEF Unshared

\* An address space with no pages has empty histories.
LEMMA BareShape ==
    ASSUME NEW use, NEW row, NEW r, \A a \in Unshared : row[a] = Absent
    PROVE  Shape(use, row, r, <<>>, <<>>, TRUE)
<1>1. <<>> \o <<>> = <<>> /\ Len(<<>>) = 0 OBVIOUS
<1>2. 1..0 = {} /\ (0 + 1)..(0 + 0) = {} OBVIOUS
<1>3. Held(row, <<>>, {}) /\ Mine(use, row, r, <<>>, {}) BY DEF Held, Mine
<1> QED BY <1>1, <1>2, <1>3 DEF Shape

\* A root table was allocated and nothing else is different yet.
Rooted(use, pg, m, other, g) ==
    /\ g \in Frame /\ g \notin Roots(process_array)
    /\ Forest(m, other, pg, Roots(process_array) \cup {g}) /\ Full(m, other)
    /\ LostSame(use, other)
    /\ \A q \in Roots(process_array) : RowKept(memory, use, pg, m, other, pg, q)
    /\ \A a \in Unshared : pg[g][a] = Absent

\* create_paging_trie() and fork() make a new root with no pages of its own.
LEMMA TableRooted ==
    ASSUME NEW use, NEW pg, NEW birth, NEW count, State(memory, process_array, use, pg, birth, count),
           NEW source \in Roots(process_array), table_alloc(memory).frame # NULL
    PROVE  LET g == table_alloc(memory).frame
               m == CopyShared(table_alloc(memory).memory, g, source)
           IN  \E other : Rooted(use, pg, m, other, g)
<1> DEFINE roots == Roots(process_array)
           top == table_alloc(memory).frame
           low == CopyShared(table_alloc(memory).memory, top, source)
<1>1. PICK a \in Unshared : TRUE BY SomeIndex
<1> DEFINE placed == Placing(use, top, top, LEVELS, a)
<1>2. Forest(memory, use, pg, roots) /\ Full(memory, use) BY DEF State
<1>3. /\ top \in Frame /\ use[top].kind = "free" /\ top \notin roots
      /\ Forest(low, placed, pg, roots \cup {top})
      /\ low.data = memory.data
      /\ Full(memory, use) => Full(low, placed)
      /\ \A b \in Unshared : pg[top][b] = Absent
  <2> HIDE DEF roots
  <2>1. source \in roots /\ a \in Unshared BY <1>1 DEF roots
  <2>2. top \in Frame /\ use[top].kind = "free" /\ top \notin roots BY <1>2, <2>1, RootAdded
  <2>3. Forest(low, placed, pg, roots \cup {top}) BY <1>2, <2>1, RootAdded
  <2>4. low.data = memory.data BY <1>2, <2>1, RootKeepsData
  <2>5. Full(memory, use) => Full(low, placed) BY <1>2, <2>1, RootAdded
  <2>6. ASSUME NEW x \in Unshared PROVE pg[top][x] = Absent
    <3>1. ~\E f \in Frame : At(use, f, top, 1, x) BY <2>2, <1>2 DEF Forest, ForestTypes, At
    <3> QED BY <3>1, <2>2, <1>2 DEF Forest, Leaves
  <2> QED BY <2>2, <2>3, <2>4, <2>5, <2>6
<1>4. use \in [Frame -> Role] /\ roots \subseteq Frame BY <1>2 DEF Forest, ForestTypes
<1>5. a \in Idx BY <1>1 DEF Unshared
<1> HIDE DEF top, low
<1>6. /\ \A q \in Frame \ {top} : RowKept(memory, use, pg, low, placed, pg, q)
      /\ LostSame(use, placed)
  BY <1>3, <1>4, <1>5, PlacingKeeps
<1>7. Rooted(use, pg, low, placed, top) BY <1>2, <1>3, <1>4, <1>6 DEF Rooted
<1> QED BY <1>7 DEF top, low

\* There is no frame left: create_paging_trie() writes to the frame NULL.
LEMMA NullRooted ==
    ASSUME NEW use, NEW pg, NEW birth, NEW count, State(memory, process_array, use, pg, birth, count),
           table_alloc(memory).frame = NULL
    PROVE  LET m == create_paging_trie(memory).memory
           IN  /\ Exhausted(m) /\ create_paging_trie(memory).frame = NULL
               /\ State(m, process_array, use, pg, birth, count)
<1> DEFINE roots == Roots(process_array)
           m == create_paging_trie(memory).memory
           e == memory.table[identity_l4_table][0]
<1>1. Forest(memory, use, pg, roots) /\ Full(memory, use) BY DEF State
<1>2. /\ memory \in Memory /\ use \in [Frame -> Role] /\ FreeOK(memory, use)
      /\ \A f \in Frame : f < kernel_frames => use[f].kind # "free"
  BY <1>1, ForestFacts DEF Forest
<1>3. kernel_frames \in Nat /\ kernel_frames >= 3 BY PagingAssumption DEF PagingAssumption
<1>4. Exhausted(memory)
  <2>1. PICK list \in Seq(Frame) :
          /\ Linked(memory, list)
          /\ Range(list) = {f \in Frame : use[f].kind = "free"}
    BY <1>2 DEF FreeOK
  <2>2. CASE list = <<>>
    BY <2>1, <2>2, PagingAssumption DEF Linked, Exhausted, PagingAssumption
  <2>3. CASE list # <<>>
    <3>1. list[1] \in Range(list) BY <2>1, <2>3 DEF Range
    <3>2. list[1] \in Frame /\ use[list[1]].kind = "free" BY <3>1, <2>1
    <3>3. memory.first_free_frame_index = list[1] BY <2>1, <2>3 DEF Linked
    <3>4. list[1] # NULL BY <3>2, <1>2, <1>3 DEF NULL
    <3>5. ~(list[1] >= FRAME_COUNT) BY <3>2, PagingAssumption DEF Frame, PagingAssumption
    <3>6. table_alloc(memory).frame = list[1]
      BY <3>3, <3>4, <3>5 DEF table_alloc, frame_alloc
    <3> QED BY <3>6, <3>4
  <2> QED BY <2>2, <2>3
<1>5. frame_alloc(memory) = [memory |-> memory, frame |-> NULL] BY <1>4, ExhaustedAlloc
<1>6. table_alloc(memory) = [memory |-> memory, frame |-> NULL] BY <1>5 DEF table_alloc
<1>7. /\ create_paging_trie(memory).frame = NULL
      /\ m = CopyShared(memory, NULL, identity_l4_table)
  BY <1>6 DEF create_paging_trie
<1>8. m = set_entry(memory, NULL, 0, e.frame, e.flags) BY <1>7 DEF CopyShared
<1>9. NULL \in Frame /\ 0 \in Index /\ identity_l4_table \in Frame BY FrameIsFinite, LevelsFact
<1>10. e.frame \in Frame /\ e.flags \in SUBSET {PRESENT, RW, USER}
  BY <1>2, <1>9, MemoryFields
<1>11. EntrySet(memory, m, NULL, 0, [frame |-> e.frame, flags |-> e.flags])
  BY <1>2, <1>8, <1>9, <1>10, SetEntryFacts
<1> HIDE DEF m
<1>12. /\ m \in Memory /\ m.first_free_frame_index = memory.first_free_frame_index
       /\ m.free_frames = memory.free_frames /\ m.data = memory.data
       /\ \A f \in Frame : f # NULL => m.word[f] = memory.word[f]
       /\ \A f \in Frame : \A j \in Index : f # NULL => m.table[f][j] = memory.table[f][j]
  BY <1>11 DEF EntrySet
<1>13. \A f \in Frame : f # NULL => m.table[f] = memory.table[f]
  <2>1. m.table \in [Frame -> [Index -> Entry]] /\ memory.table \in [Frame -> [Index -> Entry]]
    BY <1>2, <1>12, MemoryFields
  <2>2. ASSUME NEW f \in Frame, f # NULL PROVE m.table[f] = memory.table[f]
    <3>1. m.table[f] \in [Index -> Entry] /\ memory.table[f] \in [Index -> Entry] BY <2>1
    <3>2. \A j \in Index : m.table[f][j] = memory.table[f][j] BY <2>2, <1>12
    <3> QED BY <3>1, <3>2
  <2> QED BY <2>2
<1>14. \A f \in Frame : use[f].kind \in {"used", "free"} => f # NULL
  BY <1>1, <1>2, <1>3, ForestFacts DEF NULL
<1>15. FreeOK(m, use)
  <2>1. \A f \in Frame : use[f].kind = "free" => m.word[f] = memory.word[f] BY <1>12, <1>14
  <2> QED BY <2>1, <1>2, <1>12, ListKept
<1>16. TablesKept(memory, m, use, use)
  <2>1. identity_l3_table # NULL /\ identity_l3_table \in Frame BY FrameIsFinite DEF NULL, identity_l3_table
  <2> QED BY <2>1, <1>12, <1>13, <1>14 DEF TablesKept
<1>17. /\ Forest(m, use, pg, roots)
       /\ \A r, but, a : but \in Nat \ {0} /\ Filled(memory, use, r, but, a) => Filled(m, use, r, but, a)
  BY <1>1, <1>2, <1>12, <1>15, <1>16, TablesKeptForest
<1>18. Full(m, use) BY <1>1, <1>17, FullKept
<1>19. \A r \in roots : RowKept(memory, use, pg, m, use, pg, r) BY <1>12 DEF RowKept
<1>20. LostKept(use, use) /\ count \in Nat BY DEF LostKept, State
<1>21. State(m, process_array, use, pg, birth, count)
  BY <1>17, <1>18, <1>19, <1>20, StateKept
<1>22. Exhausted(m) BY <1>4, <1>12 DEF Exhausted
<1> QED BY <1>7, <1>21, <1>22 DEF m

\* The histories that load_module() makes give user rights to user modules
\* only.
LEMMA SegmentRights ==
    ASSUME NEW level, NEW headers, HeadersOK(level, headers), NEW h, Segments(h, level, headers)
    PROVE  h \in Histories /\ Rights(h, level)
<1>1. /\ h \in Histories /\ Len(h) \in Nat /\ Len(h) <= Len(headers) /\ Len(headers) \in Nat
      /\ \A j \in 1..Len(h) : h[j] = SegmentRegion(level, headers[Len(h) + 1 - j])
      /\ headers \in Seq(Header)
  BY DEF Segments, Histories, HeadersOK
<1>2. ASSUME NEW j \in 1..Len(h), USER \in h[j].flags PROVE level = "user"
  <2>1. Len(h) + 1 - j \in 1..Len(headers) BY <1>1
  <2>2. headers[Len(h) + 1 - j] \in Header BY <2>1, <1>1
  <2>3. h[j] = SegmentRegion(level, headers[Len(h) + 1 - j]) BY <1>1
  <2>4. USER \in SegmentRegion(level, headers[Len(h) + 1 - j]).flags => level = "user"
    BY <2>2, SegmentRegionFacts
  <2> QED BY <2>3, <2>4, <1>2
<1> QED BY <1>1, <1>2 DEF Rights

\* The module is loaded to a new table.
LEMMA BootReady ==
    ASSUME NEW use, NEW pg, NEW birth, NEW count, State(memory, process_array, use, pg, birth, count),
           NEW m, NEW other, NEW g, Rooted(use, pg, m, other, g),
           NEW k \in DOMAIN Modules, NEW loaded,
           loaded = load_module(m, g, ModuleLevel(k), Modules[k].headers)
    PROVE  /\ loaded.result \in {"ok", "error", "fault"}
           /\ loaded.result = "ok" => \E last, newest :
                Ready(use, pg, birth, count, loaded.memory, last, newest, g, ModuleLevel(k), NoProcess,
                      loaded.history, k, 0)
           /\ loaded.result = "error" => \E last, newest :
                State(loaded.memory, process_array, last, newest, birth, count) /\ RowsSame(pg, newest)
<1> DEFINE live == Roots(process_array)
           roots == live \cup {g}
           level == ModuleLevel(k)
           headers == Modules[k].headers
<1>1. /\ g \in Frame /\ g \notin live
      /\ Forest(m, other, pg, roots) /\ Full(m, other)
      /\ LostSame(use, other)
      /\ \A q \in live : RowKept(memory, use, pg, m, other, pg, q)
      /\ \A a \in Unshared : pg[g][a] = Absent
  BY DEF Rooted
<1>2. level \in {"user", "system"} /\ HeadersOK(level, headers) /\ k \in 1..Len(Modules)
  BY ModuleFacts
<1>3. g \in roots /\ g # identity_l4_table /\ roots \ {g} = live BY <1>1 DEF Roots
<1>4. Shape(other, pg[g], g, <<>>, <<>>, TRUE) BY <1>1, BareShape
<1>5. roots \subseteq Frame /\ other \in [Frame -> Role] BY <1>1 DEF Forest, ForestTypes
<1>6. loaded = load_module(m, g, level, headers) /\ count \in Nat BY DEF State
<1> HIDE DEF live, roots, level, headers
<1>7. Loading(m, other, pg, roots, g, level, headers, Len(headers), loaded)
  BY <1>1, <1>2, <1>3, <1>4, <1>6, ModuleLoaded
<1>8. live \subseteq Frame \ {g} BY <1>1, <1>5, <1>3
<1>9. ASSUME loaded.result = "ok"
      PROVE  \E last, newest :
                Ready(use, pg, birth, count, loaded.memory, last, newest, g, level, NoProcess,
                      loaded.history, k, 0)
  <2>1. PICK h : /\ Loaded(m, other, pg, roots, g, level, headers, h, loaded)
                 /\ Len(h) <= Len(headers) /\ (Len(h) = Len(headers) \/ ~headers[Len(h) + 1].load)
    BY <1>7, <1>9 DEF Loading
  <2>2. loaded.history = h /\ Segments(h, level, headers) BY <2>1 DEF Loaded
  <2>3. PICK last, newest :
         /\ Extended(m, other, pg, roots, g, loaded.memory, last, newest)
         /\ Shape(last, newest[g], g, h, <<>>, TRUE)
         /\ Image(loaded.memory.data, newest[g], level, headers, Len(h))
    BY <2>1 DEF Loaded
  <2>4. h \in Histories /\ Rights(h, level) BY <1>2, <2>2, SegmentRights
  <2>5. Shape(last, newest[g], g, <<>>, h, TRUE) BY <2>3, <2>4, ShapeMoved
  <2>6. /\ \A q \in Frame \ {g} : RowKept(m, other, pg, loaded.memory, last, newest, q)
        /\ LostSame(other, last)
    BY <1>5, <2>3, ExtendedKeeps
  <2>7. \A q \in live : RowKept(memory, use, pg, loaded.memory, last, newest, q)
    BY <1>1, <1>8, <2>6, RowKeptTwice
  <2>8. LostSame(use, last) BY <1>1, <2>6 DEF LostSame
  <2>9. FatherShape(last, newest[g], g, NoProcess, <<>>, h) BY <2>5 DEF FatherShape
  <2>10. BornImage(loaded.memory.data, newest[g], level, NoProcess, h, k)
    BY <2>1, <2>2, <2>3 DEF BornImage, headers, level
  <2>11. FatherOK(process_array, birth, 0, newest, g, level, NoProcess, h, k) BY DEF FatherOK
  <2>12. Forest(loaded.memory, last, newest, roots) /\ Full(loaded.memory, last) BY <2>3 DEF Extended
  <2>13. k \in 0..Len(Modules) /\ 0 \in 0..count /\ NoProcess \in Pid \cup {NoProcess}
    BY <1>2, <1>6
  <2>14. Ready(use, pg, birth, count, loaded.memory, last, newest, g, level, NoProcess, h, k, 0)
    BY <1>1, <1>2, <1>6, <2>4, <2>7, <2>8, <2>9, <2>10, <2>11, <2>12, <2>13 DEF Ready, live, roots
  <2> QED BY <2>2, <2>14
<1>10. ASSUME loaded.result = "error"
       PROVE  \E last, newest :
                State(loaded.memory, process_array, last, newest, birth, count) /\ RowsSame(pg, newest)
  <2>1. Broken(m, other, pg, roots, g, loaded.memory) BY <1>7, <1>10 DEF Loading
  <2>2. PICK last, newest :
             /\ Forest(loaded.memory, last, newest, roots \ {g}) /\ Full(loaded.memory, last)
             /\ \A q \in Frame \ {g} : RowKept(m, other, pg, loaded.memory, last, newest, q)
             /\ LostKept(other, last)
    BY <1>1, <1>3, <2>1, BrokenKeeps
  <2>3. \A q \in live : RowKept(memory, use, pg, loaded.memory, last, newest, q)
    BY <1>1, <1>8, <2>2, RowKeptTwice
  <2>4. LostKept(use, last) BY <1>1, <2>2 DEF LostSame, LostKept
  <2>5. State(loaded.memory, process_array, last, newest, birth, count)
    BY <1>3, <1>6, <2>2, <2>3, <2>4, StateKept DEF live
  <2>6. RowsSame(pg, newest) BY <2>3 DEF RowKept, RowsSame, live
  <2> QED BY <2>5, <2>6
<1>11. loaded.result \in {"ok", "error", "fault"} BY <1>7 DEF Loading
<1> QED BY <1>9, <1>10, <1>11 DEF level

\* Loading a module keeps the invariant.
LEMMA BootLeads ==
    ASSUME NEW use, NEW pg, NEW birth, State(memory, process_array, use, pg, birth, forks), Boot
    PROVE  Led(use, pg, forks)
<1> DEFINE trie == create_paging_trie(memory)
           level == ModuleLevel(next_module)
           headers == Modules[next_module].headers
           loaded == load_module(trie.memory, trie.frame, level, headers)
<1>0. forks \in Nat BY DEF State
<1>1. /\ status = "running" /\ next_module \in DOMAIN Modules
      /\ IF loaded.result = "ok"
         THEN create_process(loaded.memory, trie.frame, level, NoProcess, loaded.history, next_module)
         ELSE IF loaded.result = "fault"
         THEN status' = "undefined" /\ UNCHANGED <<memory, process_array>>
         ELSE memory' = loaded.memory /\ UNCHANGED <<process_array, status>>
  BY DEF Boot
<1>2. level \in {"user", "system"} /\ HeadersOK(level, headers) BY <1>1, ModuleFacts
<1>3. CASE loaded.result = "fault"
  <2>1. memory' = memory /\ process_array' = process_array BY <1>1, <1>3
  <2>2. Moves(pg, pg) BY <2>1, UnchangedMoves DEF RowsSame
  <2> QED BY <2>1, <2>2 DEF Led
<1>4. ASSUME NEW last, NEW newest, State(loaded.memory, process_array, last, newest, birth, forks),
             RowsSame(pg, newest), loaded.result = "error"
      PROVE  Led(use, pg, forks)
  <2>1. memory' = loaded.memory /\ process_array' = process_array /\ status' = status BY <1>1, <1>4
  <2> HIDE DEF loaded
  <2>2. ~Succeeds BY <2>1, <1>1 DEF Succeeds, Present
  <2>3. Moves(pg, newest) BY <2>1, <1>4, UnchangedMoves
  <2> QED BY <2>1, <2>2, <2>3, <1>4 DEF Led
<1>5. CASE table_alloc(memory).frame # NULL
  <2> DEFINE g == table_alloc(memory).frame
             m == CopyShared(table_alloc(memory).memory, g, identity_l4_table)
  <2>1. trie.frame = g /\ trie.memory = m
    <3>1. table_alloc(memory) = [frame |-> g, memory |-> table_alloc(memory).memory]
      BY <1>5 DEF table_alloc, frame_alloc
    <3> QED BY <3>1 DEF create_paging_trie
  <2>2. identity_l4_table \in Roots(process_array) BY DEF Roots
  <2>3. PICK other : Rooted(use, pg, m, other, g) BY <1>5, <2>2, TableRooted
  <2>4. loaded = load_module(m, g, level, headers) BY <2>1
  <2> HIDE DEF loaded, trie, m, g
  <2>5. /\ loaded.result \in {"ok", "error", "fault"}
        /\ loaded.result = "ok" => \E last, newest :
             Ready(use, pg, birth, forks, loaded.memory, last, newest, g, level, NoProcess,
                   loaded.history, next_module, 0)
        /\ loaded.result = "error" => \E last, newest :
             State(loaded.memory, process_array, last, newest, birth, forks) /\ RowsSame(pg, newest)
    BY <1>1, <2>3, <2>4, BootReady
  <2>6. CASE loaded.result = "ok"
    <3>1. PICK last, newest :
             Ready(use, pg, birth, forks, loaded.memory, last, newest, g, level, NoProcess,
                   loaded.history, next_module, 0)
      BY <2>5, <2>6
    <3>2. create_process(loaded.memory, g, level, NoProcess, loaded.history, next_module)
      BY <1>1, <2>1, <2>6
    <3> QED BY <1>0, <1>1, <3>1, <3>2, CreateProcess
  <2> QED BY <2>5, <2>6, <1>3, <1>4
<1>6. CASE table_alloc(memory).frame = NULL
  <2>1. /\ Exhausted(trie.memory) /\ trie.frame = NULL
        /\ State(trie.memory, process_array, use, pg, birth, forks)
    BY <1>6, NullRooted
  <2>2. loaded.memory = trie.memory /\ loaded.result \in {"ok", "error"}
    BY <1>2, <2>1, ExhaustedLoad
  <2>0. RowsSame(pg, pg) BY DEF RowsSame
  <2>3. CASE loaded.result = "error" BY <1>4, <2>0, <2>1, <2>2, <2>3
  <2>4. CASE loaded.result = "ok"
    <3>1. create_process(trie.memory, NULL, level, NoProcess, loaded.history, next_module)
      BY <1>1, <2>1, <2>2, <2>4
    <3> DEFINE made == FoldLeft(add_pages, [memory |-> trie.memory, root |-> NULL, result |-> "ok", history |-> <<>>],
                                FirstRegions(level))
    <3>2. FirstOK(level, FirstRegions(level)) BY <1>2, FirstRegionsFacts
    <3>3. made.result = "error"
      <4> HIDE DEF trie, level
      <4> QED BY <2>1, <3>2, ExhaustedAdd DEF FirstOK
    <3>4. CASE Present = Pid
      <4>1. memory' = trie.memory /\ process_array' = process_array /\ status' = status
        BY <3>1, <3>4 DEF create_process
      <4> HIDE DEF trie
      <4>2. ~Succeeds BY <4>1, <1>1 DEF Succeeds, Present
      <4>3. Moves(pg, pg) BY <4>1, <2>0, UnchangedMoves
      <4> QED BY <4>1, <4>2, <4>3, <2>1 DEF Led
    <3>5. CASE Present # Pid
      <4>1. memory' = memory /\ process_array' = process_array
        BY <3>1, <3>3, <3>5 DEF create_process
      <4>2. Moves(pg, pg) BY <4>1, <2>0, UnchangedMoves
      <4> QED BY <4>1, <4>2 DEF Led
    <3> QED BY <3>4, <3>5
  <2> QED BY <2>2, <2>3, <2>4
<1> QED BY <1>5, <1>6

\* The value for no process is not a process; the kernel is one.
LEMMA NoSuchPid == NoProcess \notin Pid /\ 0 \in Pid
BY LayoutAssumption DEF LayoutAssumption, NoProcess, Pid

\* What the invariant says of one process.
LEMMA SlotFacts ==
    ASSUME NEW m, NEW array, NEW use, NEW pg, NEW birth, NEW count, State(m, array, use, pg, birth, count),
           NEW p \in Live(array)
    PROVE  /\ array[p] \in Slot /\ p \in Pid
           /\ array[p].paging_root \in Roots(array) /\ array[p].paging_root \in Frame
           /\ array[p].father_id \in Pid \cup {NoProcess} /\ array[p].level \in {"user", "system"}
           /\ array[p].module \in 0..Len(Modules)
           /\ array[p].mapping_history \in Histories /\ array[p].private_mapping_history \in Histories
           /\ SlotShape(use, pg[array[p].paging_root], array[p]) /\ SlotRights(array[p])
           /\ SlotImage(m.data, pg[array[p].paging_root], array[p])
           /\ SlotFather(array, pg, birth, p)
           /\ birth[p] \in 0..count
<1>1. array \in [Pid -> Slot] /\ SlotOK(m.data, array, use, pg, birth, p) /\ birth \in [Pid -> 0..count]
  BY DEF State, Slots
<1>2. p \in Pid BY DEF Live
<1>3. array[p] \in Slot BY <1>1, <1>2
<1>4. array[p].paging_root \in Roots(array) BY RootsAreRoots
<1> QED BY <1>1, <1>2, <1>3, <1>4 DEF SlotOK, Slot

\* The regions of both histories are mapped.
LEMMA SlotRegions ==
    ASSUME NEW use, NEW row, NEW s \in Slot, SlotShape(use, row, s)
    PROVE  /\ Held(row, s.private_mapping_history \o s.mapping_history,
                   1..(Len(s.private_mapping_history) + Len(s.mapping_history)))
           /\ \A n \in 1..Len(s.private_mapping_history) : RegionOK(s.private_mapping_history[n])
           /\ \A n \in 1..Len(s.mapping_history) : RegionOK(s.mapping_history[n])
<1> DEFINE a == s.private_mapping_history
           b == s.mapping_history
           h == a \o b
<1>1. a \in Histories /\ b \in Histories BY DEF Slot
<1>2. Held(row, h, 1..(Len(a) + Len(b)))
  <2>1. \A own : Shape(use, row, s.paging_root, a, b, own) => Held(row, h, 1..(Len(a) + Len(b))) BY DEF Shape
  <2> QED BY <2>1 DEF SlotShape
<1> HIDE DEF a, b
<1>3. Len(a) \in Nat /\ Len(b) \in Nat BY <1>1 DEF Histories
<1>4. \A n \in 1..(Len(a) + Len(b)) : RegionOK(h[n]) BY <1>2 DEF Held
<1>5. ASSUME NEW n \in 1..Len(a) PROVE RegionOK(a[n])
  <2>1. n \in 1..(Len(a) + Len(b)) /\ h[n] = a[n] BY <1>1, <1>3 DEF Histories
  <2> QED BY <2>1, <1>4
<1>6. ASSUME NEW n \in 1..Len(b) PROVE RegionOK(b[n])
  <2>1. Len(a) + n \in 1..(Len(a) + Len(b)) /\ h[Len(a) + n] = b[n] BY <1>1, <1>3 DEF Histories
  <2> QED BY <2>1, <1>4
<1> QED BY <1>2, <1>5, <1>6 DEF a, b

\* A root with the pages of the father's history.
LEMMA ForkReady ==
    ASSUME NEW use, NEW pg, NEW birth, NEW count, State(memory, process_array, use, pg, birth, count),
           NEW m, NEW other, NEW g, Rooted(use, pg, m, other, g),
           NEW p \in Live(process_array), NEW mapped,
           mapped = map_shared(m, g, process_array[p].paging_root, process_array[p].mapping_history),
           mapped.result = "ok"
    PROVE  \E last, newest :
             Ready(use, pg, birth, count + 1, mapped.memory, last, newest, g, process_array[p].level, p,
                   process_array[p].mapping_history, process_array[p].module, count + 1)
<1> DEFINE live == Roots(process_array)
           roots == live \cup {g}
           top == process_array[p].paging_root
           h == process_array[p].mapping_history
           level == process_array[p].level
           module == process_array[p].module
<1>1. /\ g \in Frame /\ g \notin live
      /\ Forest(m, other, pg, roots) /\ Full(m, other)
      /\ LostSame(use, other)
      /\ \A q \in live : RowKept(memory, use, pg, m, other, pg, q)
      /\ \A a \in Unshared : pg[g][a] = Absent
  BY DEF Rooted
<1>2. /\ process_array[p] \in Slot /\ p \in Pid /\ top \in live /\ top \in Frame
      /\ level \in {"user", "system"} /\ module \in 0..Len(Modules)
      /\ h \in Histories
      /\ SlotShape(use, pg[top], process_array[p]) /\ SlotRights(process_array[p])
      /\ birth[p] \in 0..count
  BY SlotFacts
<1>3. g \in roots /\ top \in roots /\ top # g BY <1>1, <1>2
<1>4. \A n \in 1..Len(h) : RegionOK(h[n]) BY <1>2, SlotRegions
<1>5. roots \subseteq Frame /\ other \in [Frame -> Role] BY <1>1 DEF Forest, ForestTypes
<1>6. mapped = map_shared(m, g, top, h) /\ count \in Nat BY DEF State
<1>7. live \subseteq Frame \ {g} BY <1>1, <1>5, <1>3
<1>8. Rights(h, level) BY <1>2 DEF SlotRights
<1> HIDE DEF live, roots, top, h, level, module
<1>9. PICK last, newest :
             /\ Extended(m, other, pg, roots, g, mapped.memory, last, newest)
             /\ Shape(last, newest[g], g, <<>>, h, FALSE)
             /\ SameFrames(newest[g], pg[top], h, 1..Len(h))
  BY <1>1, <1>2, <1>3, <1>4, <1>6, RegionsShared
<1>10. /\ \A q \in Frame \ {g} : RowKept(m, other, pg, mapped.memory, last, newest, q)
       /\ LostSame(other, last)
  BY <1>5, <1>9, ExtendedKeeps
<1>11. \A q \in live : RowKept(memory, use, pg, mapped.memory, last, newest, q)
  BY <1>1, <1>7, <1>10, RowKeptTwice
<1>12. LostSame(use, last) BY <1>1, <1>10 DEF LostSame
<1>13. p # NoProcess BY <1>2, NoSuchPid
<1>14. FatherShape(last, newest[g], g, p, <<>>, h) BY <1>9, <1>13 DEF FatherShape
<1>15. BornImage(mapped.memory.data, newest[g], level, p, h, module) BY <1>13 DEF BornImage
<1>16. newest[top] = pg[top] BY <1>2, <1>3, <1>9 DEF Extended
<1>17. birth[p] < count + 1 /\ count + 1 \in Nat /\ count + 1 \in 0..(count + 1) BY <1>2, <1>6
<1>18. FatherOK(process_array, birth, count + 1, newest, g, level, p, h, module)
  BY <1>9, <1>16, <1>17 DEF FatherOK, top, h, level, module
<1>19. Forest(mapped.memory, last, newest, roots) /\ Full(mapped.memory, last) BY <1>9 DEF Extended
<1>20. Ready(use, pg, birth, count + 1, mapped.memory, last, newest, g, level, p, h, module, count + 1)
  BY <1>1, <1>2, <1>8, <1>11, <1>12, <1>14, <1>15, <1>17, <1>18, <1>19 DEF Ready, live, roots
<1> QED BY <1>20 DEF level, h, module

\* fork() keeps the invariant, with one more birth.
LEMMA ForkLeads ==
    ASSUME NEW use, NEW pg, NEW birth, State(memory, process_array, use, pg, birth, forks),
           NEW p \in Pid, Fork(p)
    PROVE  Led(use, pg, forks + 1)
<1> DEFINE father == process_array[p]
           l4 == table_alloc(memory)
           top == father.paging_root
           low == CopyShared(l4.memory, l4.frame, top)
           mapped == map_shared(low, l4.frame, top, father.mapping_history)
<1>0. forks \in Nat /\ forks + 1 \in Nat /\ forks + 1 >= forks BY DEF State
<1>1. /\ status = "running" /\ p \in Present
      /\ IF l4.frame = NULL \/ mapped.result # "ok"
         THEN status' = "undefined" /\ UNCHANGED <<memory, process_array>>
         ELSE create_process(mapped.memory, l4.frame, father.level, p, father.mapping_history, father.module)
  BY DEF Fork, Entered
<1>2. CASE l4.frame = NULL \/ mapped.result # "ok"
  <2>1. memory' = memory /\ process_array' = process_array BY <1>1, <1>2
  <2>2. State(memory, process_array, use, pg, birth, forks + 1) BY <1>0, SameState
  <2>3. Moves(pg, pg) BY <2>1, UnchangedMoves DEF RowsSame
  <2> QED BY <2>1, <2>2, <2>3 DEF Led
<1>3. CASE l4.frame # NULL /\ mapped.result = "ok"
  <2>1. p \in Live(process_array) BY <1>1, PresentIsLive
  <2>2. top \in Roots(process_array) BY <2>1, RootsAreRoots
  <2>3. table_alloc(memory).frame # NULL BY <1>3
  <2>4. PICK other : Rooted(use, pg, low, other, l4.frame)
    <3> HIDE DEF top
    <3> QED BY <2>2, <2>3, TableRooted
  <2> DEFINE g == l4.frame
  <2> HIDE DEF g, low
  <2>5. Rooted(use, pg, low, other, g) BY <2>4 DEF g
  <2>6. mapped = map_shared(low, g, process_array[p].paging_root, process_array[p].mapping_history)
    BY DEF g
  <2>7. create_process(mapped.memory, g, process_array[p].level, p, process_array[p].mapping_history,
                       process_array[p].module)
    BY <1>1, <1>3 DEF g
  <2>8. mapped.result = "ok" BY <1>3
  <2> HIDE DEF mapped
  <2>9. PICK last, newest :
             Ready(use, pg, birth, forks + 1, mapped.memory, last, newest, g, process_array[p].level, p,
                   process_array[p].mapping_history, process_array[p].module, forks + 1)
    BY <2>1, <2>5, <2>6, <2>8, ForkReady
  <2> QED BY <1>0, <1>1, <2>7, <2>9, CreateProcess
<1> QED BY <1>2, <1>3

\* A call that changes nothing adds nothing.
LEMMA ExtendedByNothing ==
    ASSUME NEW m, NEW use, NEW pg, NEW roots, Forest(m, use, pg, roots), Full(m, use), NEW r
    PROVE  Extended(m, use, pg, roots, r, m, use, pg)
<1>1. DataKept(m, m, use) /\ Taken(use, use, r, Unshared) BY DEF DataKept, Taken
<1> QED BY <1>1 DEF Extended

\* The region is added, and the call succeeds.
Grows(m, s, region, grown) ==
    /\ grown = add_pages([memory |-> m, root |-> s.paging_root, result |-> "ok",
                          history |-> s.private_mapping_history], region)
    /\ grown.result = "ok"

\* One more region for a process that has some.
LEMMA SlotGrown ==
    ASSUME NEW m, NEW use, NEW pg, NEW roots, Forest(m, use, pg, roots), Full(m, use),
           NEW s \in Slot, s.paging_root \in roots, SlotShape(use, pg[s.paging_root], s),
           NEW region, RegionOK(region), NEW grown, Grows(m, s, region, grown)
    PROVE  \E other, new :
             /\ Extended(m, use, pg, roots, s.paging_root, grown.memory, other, new)
             /\ grown.history = <<region>> \o s.private_mapping_history
             /\ SlotShape(other, new[s.paging_root], [s EXCEPT !.private_mapping_history = grown.history])
<1> DEFINE r == s.paging_root
           private == s.private_mapping_history
           h == s.mapping_history
           base == [memory |-> m, root |-> r, result |-> "ok", history |-> private]
           after == <<region>> \o private
<1>1. private \in Histories /\ h \in Histories BY DEF Slot
<1>2. ASSUME NEW own, Shape(use, pg[r], r, private, h, own)
      PROVE  \E other, new :
               /\ Extended(m, use, pg, roots, r, grown.memory, other, new)
               /\ grown.history = after
               /\ Shape(other, new[r], r, after, h, own)
  <2>1. Extended(m, use, pg, roots, r, m, use, pg) BY ExtendedByNothing
  <2>2. Added(m, use, pg, roots, r, private, h, own, base)
    <3>1. base = [memory |-> base.memory, root |-> r, result |-> "ok", history |-> private]
          /\ base.memory = m
      OBVIOUS
    <3> HIDE DEF base, private, r, h
    <3> QED BY <3>1, <2>1, <1>2 DEF Added
  <2>3. r \in roots /\ grown = add_pages(base, region) /\ grown.result = "ok" BY DEF Grows
  <2> HIDE DEF base, private, r, h
  <2>4. Added(m, use, pg, roots, r, <<region>> \o private, h, own, grown)
    BY <1>1, <2>2, <2>3, PagesAdded
  <2> QED BY <2>4 DEF Added, after
<1>3. [s EXCEPT !.private_mapping_history = after].private_mapping_history = after
      /\ [s EXCEPT !.private_mapping_history = after].father_id = s.father_id
      /\ [s EXCEPT !.private_mapping_history = after].mapping_history = h
      /\ [s EXCEPT !.private_mapping_history = after].paging_root = r
  BY DEF Slot
<1> DEFINE t == [s EXCEPT !.private_mapping_history = after]
<1>4. ASSUME NEW own, Shape(use, pg[r], r, private, h, own), own \in BOOLEAN,
             own = TRUE <=> s.father_id = NoProcess
      PROVE  \E other, new :
               /\ Extended(m, use, pg, roots, r, grown.memory, other, new)
               /\ grown.history = after
               /\ SlotShape(other, new[r], t)
  <2>1. PICK other, new :
               /\ Extended(m, use, pg, roots, r, grown.memory, other, new)
               /\ grown.history = after
               /\ Shape(other, new[r], r, after, h, own)
    BY <1>2, <1>4
  <2> HIDE DEF t, r, h, private, after
  <2>2. /\ t.private_mapping_history = after /\ t.father_id = s.father_id /\ t.mapping_history = h
        /\ t.paging_root = r
    BY <1>3 DEF t
  <2>3. CASE s.father_id = NoProcess
    <3>1. own = TRUE BY <2>3, <1>4
    <3>2. Shape(other, new[r], r, after, h, TRUE) BY <2>1, <3>1
    <3>3. SlotShape(other, new[r], t) BY <3>2, <2>2, <2>3 DEF SlotShape
    <3> QED BY <2>1, <3>3
  <2>4. CASE s.father_id # NoProcess
    <3>1. own = FALSE BY <2>4, <1>4
    <3>2. Shape(other, new[r], r, after, h, FALSE) BY <2>1, <3>1
    <3>3. SlotShape(other, new[r], t) BY <3>2, <2>2, <2>4 DEF SlotShape
    <3> QED BY <2>1, <3>3
  <2> QED BY <2>3, <2>4
<1>5. \E other, new :
               /\ Extended(m, use, pg, roots, r, grown.memory, other, new)
               /\ grown.history = after
               /\ SlotShape(other, new[r], t)
  <2>1. CASE s.father_id = NoProcess
    <3>1. Shape(use, pg[r], r, private, h, TRUE) BY <2>1 DEF SlotShape
    <3> HIDE DEF t, after, r, private, h
    <3> QED BY <3>1, <2>1, <1>4
  <2>2. CASE s.father_id # NoProcess
    <3>1. Shape(use, pg[r], r, private, h, FALSE) BY <2>2 DEF SlotShape
    <3> HIDE DEF t, after, r, private, h
    <3> QED BY <3>1, <2>2, <1>4
  <2> QED BY <2>1, <2>2
<1> QED BY <1>5

\* One more region in the private history keeps what is said of it.
LEMMA MoreRights ==
    ASSUME NEW h \in Histories, NEW level, Rights(h, level), NEW region \in RegionType,
           USER \in region.flags => level = "user", \E n \in 1..Len(h) : h[n] = SystemStack
    PROVE  LET after == <<region>> \o h
           IN  /\ after \in Histories /\ Rights(after, level)
               /\ \E n \in 1..Len(after) : after[n] = SystemStack
<1> DEFINE after == <<region>> \o h
<1>1. /\ after \in Histories /\ Len(after) = Len(h) + 1 /\ Len(h) \in Nat
      /\ after[1] = region /\ \A n \in 1..Len(h) : after[n + 1] = h[n]
  BY DEF Histories
<1> HIDE DEF after
<1>2. Rights(after, level)
  <2>1. ASSUME NEW n \in 1..Len(after), USER \in after[n].flags PROVE level = "user"
    <3>1. CASE n = 1 BY <3>1, <2>1, <1>1
    <3>2. CASE n # 1
      <4>1. n - 1 \in 1..Len(h) /\ (n - 1) + 1 = n BY <3>2, <1>1
      <4>2. after[n] = h[n - 1] BY <4>1, <1>1
      <4> QED BY <4>1, <4>2, <2>1 DEF Rights
    <3> QED BY <3>1, <3>2
  <2> QED BY <2>1 DEF Rights
<1>3. PICK n \in 1..Len(h) : h[n] = SystemStack OBVIOUS
<1>4. n + 1 \in 1..Len(after) /\ after[n + 1] = SystemStack BY <1>1, <1>3
<1> QED BY <1>1, <1>2, <1>4 DEF after

\* Only private histories differ.
SameButPrivate(array, after) ==
    \A p \in Pid : /\ after[p].is_present = array[p].is_present
                   /\ after[p].father_id = array[p].father_id
                   /\ after[p].level = array[p].level /\ after[p].module = array[p].module
                   /\ after[p].paging_root = array[p].paging_root
                   /\ after[p].mapping_history = array[p].mapping_history

\* All processes have the pages that they had.
RowsGrown(array, pg, new) ==
    \A p \in Live(array) : RowGrown(pg[array[p].paging_root], new[array[p].paging_root])

\* The record of process p is replaced by one with another private history.
LEMMA FatherGrown ==
    ASSUME NEW array \in [Pid -> Slot], NEW use, NEW pg, NEW birth, NEW new, NEW after \in [Pid -> Slot],
           NEW q \in Live(array), SlotFather(array, pg, birth, q),
           SlotShape(use, pg[array[q].paging_root], array[q]),
           SameButPrivate(array, after), RowsGrown(array, pg, new)
    PROVE  SlotFather(after, new, birth, q)
<1> DEFINE was == array[q]
           older == was.father_id
           shares == was.mapping_history
           top0 == was.paging_root
           top == array[older].paging_root
<1>1. q \in Pid /\ was \in Slot BY DEF Live
<1>2. CASE older = NoProcess BY <1>1, <1>2 DEF SlotFather, SameButPrivate
<1>3. CASE older # NoProcess
  <2>1. /\ older \in Live(array) /\ birth[older] < birth[q]
        /\ was.module = array[older].module /\ was.level = array[older].level
        /\ shares = array[older].mapping_history
        /\ SameFrames(pg[top0], pg[top], shares, 1..Len(shares))
    BY <1>3 DEF SlotFather
  <2>2. older \in Pid /\ older \in Live(after) BY <2>1 DEF Live, SameButPrivate
  <2>3. was.private_mapping_history \in Histories /\ shares \in Histories BY <1>1 DEF Slot
  <2>4. Shape(use, pg[top0], top0, was.private_mapping_history, shares, FALSE) BY <1>3 DEF SlotShape
  <2>5. RowGrown(pg[top0], new[top0]) /\ RowGrown(pg[top], new[top])
    BY <2>1 DEF RowsGrown
  <2> DEFINE low == pg[top0]
             newlow == new[top0]
             lower == pg[top]
             newlower == new[top]
             mine == was.private_mapping_history
  <2>6. SameFrames(newlow, newlower, shares, 1..Len(shares))
    <3>1. /\ mine \in Histories /\ shares \in Histories /\ Shape(use, low, top0, mine, shares, FALSE)
          /\ SameFrames(low, lower, shares, 1..Len(shares))
          /\ RowGrown(low, newlow) /\ RowGrown(lower, newlower)
      BY <2>1, <2>3, <2>4, <2>5
    <3> HIDE DEF low, newlow, lower, newlower, mine, shares, top0
    <3> QED BY <3>1, SameGrown
  <2>7. /\ after[q].father_id = older /\ after[q].module = was.module /\ after[q].level = was.level
        /\ after[q].mapping_history = shares /\ after[q].paging_root = top0
        /\ after[older].module = array[older].module /\ after[older].level = array[older].level
        /\ after[older].mapping_history = array[older].mapping_history /\ after[older].paging_root = top
    BY <1>1, <2>2 DEF SameButPrivate
  <2> HIDE DEF older, top0, shares, top, was
  <2> QED BY <2>1, <2>2, <2>6, <2>7 DEF SlotFather, newlow, newlower
<1> QED BY <1>2, <1>3

\* The array with another private history for p.
Regrown(array, p, history) == [array EXCEPT ![p].private_mapping_history = history]

\* A region more for one process keeps the invariant.
LEMMA ProcessGrown ==
    ASSUME NEW m, NEW array, NEW use, NEW pg, NEW birth, NEW count, State(m, array, use, pg, birth, count),
           NEW p \in Live(array), NEW region \in RegionType, RegionOK(region),
           USER \in region.flags => array[p].level = "user",
           NEW grown,
           grown = add_pages([memory |-> m, root |-> array[p].paging_root, result |-> "ok",
                              history |-> array[p].private_mapping_history], region),
           grown.result = "ok"
    PROVE  \E other, new :
             /\ State(grown.memory, Regrown(array, p, grown.history), other, new, birth, count)
             /\ \A q \in Live(array) : q # p => new[array[q].paging_root] = pg[array[q].paging_root]
             /\ RowGrown(pg[array[p].paging_root], new[array[p].paging_root])
             /\ LostSame(use, other)
<1> DEFINE was == array[p]
           root == was.paging_root
           tops == Roots(array)
           t == [was EXCEPT !.private_mapping_history = grown.history]
           then == Regrown(array, p, grown.history)
<1>1. /\ was \in Slot /\ p \in Pid /\ root \in tops /\ root \in Frame
      /\ was.private_mapping_history \in Histories
      /\ SlotShape(use, pg[root], was) /\ SlotRights(was) /\ SlotImage(m.data, pg[root], was)
      /\ SlotFather(array, pg, birth, p)
  BY SlotFacts
<1>2. /\ Forest(m, use, pg, tops) /\ Full(m, use) /\ Origin(use)
      /\ count \in Nat /\ birth \in [Pid -> 0..count]
      /\ array \in [Pid -> Slot] /\ KernelFirst(array)
      /\ \A q, o \in Live(array) : array[q].paging_root = array[o].paging_root => q = o
      /\ \A q \in Live(array) : SlotOK(m.data, array, use, pg, birth, q)
  BY DEF State, Slots
<1>3. PICK other, new :
             /\ Extended(m, use, pg, tops, root, grown.memory, other, new)
             /\ grown.history = <<region>> \o was.private_mapping_history
             /\ SlotShape(other, new[root], t)
  <2> DEFINE mine == was.private_mapping_history
             base == [memory |-> m, root |-> root, result |-> "ok", history |-> mine]
  <2>1. /\ Forest(m, use, pg, tops) /\ Full(m, use) /\ was \in Slot /\ was.paging_root \in tops
        /\ SlotShape(use, pg[was.paging_root], was) /\ RegionOK(region)
        /\ Grows(m, was, region, grown)
    BY <1>1, <1>2 DEF Grows
  <2> HIDE DEF tops, was
  <2>2. \E other, new :
             /\ Extended(m, use, pg, tops, was.paging_root, grown.memory, other, new)
             /\ grown.history = <<region>> \o was.private_mapping_history
             /\ SlotShape(other, new[was.paging_root], [was EXCEPT !.private_mapping_history = grown.history])
    BY <2>1, SlotGrown
  <2> QED BY <2>2
<1>4. use \in [Frame -> Role] /\ tops \subseteq Frame BY <1>2 DEF Forest, ForestTypes
<1>5. /\ \A q \in Frame \ {root} : RowKept(m, use, pg, grown.memory, other, new, q)
      /\ LostSame(use, other)
  BY <1>3, <1>4, ExtendedKeeps
<1>6. /\ grown.history \in Histories /\ Rights(grown.history, was.level)
      /\ \E n \in 1..Len(grown.history) : grown.history[n] = SystemStack
  <2> DEFINE shares == was.private_mapping_history
             rank == was.level
  <2>1. shares \in Histories /\ Rights(shares, rank) /\ (USER \in region.flags => rank = "user")
        /\ (\E n \in 1..Len(shares) : shares[n] = SystemStack) /\ grown.history = <<region>> \o shares
    BY <1>1, <1>3 DEF SlotRights
  <2> HIDE DEF shares, rank
  <2>2. /\ <<region>> \o shares \in Histories /\ Rights(<<region>> \o shares, rank)
        /\ \E n \in 1..Len(<<region>> \o shares) : (<<region>> \o shares)[n] = SystemStack
    BY <2>1, MoreRights
  <2> QED BY <2>1, <2>2 DEF rank
<1>7. /\ t \in Slot /\ t.private_mapping_history = grown.history
      /\ t.is_present = was.is_present /\ t.father_id = was.father_id /\ t.level = was.level
      /\ t.module = was.module /\ t.paging_root = root /\ t.mapping_history = was.mapping_history
  BY <1>1, <1>6 DEF Slot
<1>8. then \in [Pid -> Slot] /\ then[p] = t /\ \A q \in Pid : q # p => then[q] = array[q]
  BY <1>1, <1>2, <1>7 DEF Regrown
<1> HIDE DEF then, t
<1>9. SameButPrivate(array, then)
  <2>1. \A q \in Pid : q # p => then[q] = array[q] BY <1>8
  <2>2. then[p] = t BY <1>8
  <2> QED BY <2>1, <2>2, <1>7 DEF SameButPrivate
<1>10. Live(then) = Live(array) /\ Live(array) \subseteq Pid BY <1>9 DEF Live, SameButPrivate
<1>11. Roots(then) = tops BY <1>9, <1>10 DEF Roots, SameButPrivate
<1>12. \A q, o \in Live(then) : then[q].paging_root = then[o].paging_root => q = o
  BY <1>2, <1>9, <1>10 DEF SameButPrivate
<1>13. \A q \in Live(array) : q # p => array[q].paging_root \in Frame \ {root}
  BY <1>2, <1>4, RootsAreRoots
<1>14. RowsGrown(array, pg, new)
  <2>1. ASSUME NEW q \in Live(array) PROVE RowGrown(pg[array[q].paging_root], new[array[q].paging_root])
    <3>1. CASE q = p BY <3>1, <1>3 DEF Extended, RowGrown
    <3>2. CASE q # p BY <3>2, <1>13, <1>5 DEF RowKept, RowGrown
    <3> QED BY <3>1, <3>2
  <2> QED BY <2>1 DEF RowsGrown
<1>15. ASSUME NEW q \in Live(array)
       PROVE  SlotFather(then, new, birth, q)
  <2>1. SlotFather(array, pg, birth, q) /\ SlotShape(use, pg[array[q].paging_root], array[q])
    BY <1>2 DEF SlotOK
  <2> QED BY <2>1, <1>2, <1>8, <1>9, <1>14, FatherGrown
<1>16. ASSUME NEW q \in Live(array), q # p
       PROVE  SlotOK(grown.memory.data, then, other, new, birth, q)
  <2> DEFINE u == array[q]
             top == u.paging_root
  <2>1. then[q] = u /\ u \in Slot BY <1>8, <1>10, <1>2, <1>16
  <2>2. RowKept(m, use, pg, grown.memory, other, new, top) BY <1>5, <1>13, <1>16
  <2>3. SlotShape(use, pg[top], u) /\ SlotRights(u) /\ SlotImage(m.data, pg[top], u)
    BY <1>2 DEF SlotOK
  <2>4. SlotImage(grown.memory.data, new[top], u) BY <2>1, <2>2, <2>3, ImageKept
  <2>5. SlotShape(other, new[top], u)
    <3>1. \A mine, mapping, own :
            Shape(use, pg[top], top, mine, mapping, own) => Shape(other, new[top], top, mine, mapping, own)
      BY <2>2, ShapeKept
    <3> QED BY <3>1, <2>3 DEF SlotShape
  <2> QED BY <2>1, <2>3, <2>4, <2>5, <1>15 DEF SlotOK
<1>17. SlotImage(grown.memory.data, new[root], t)
  <2> DEFINE shares == was.mapping_history
             rank == was.level
             mine == was.private_mapping_history
             above == was.father_id
             image == was.module
             low == grown.memory
  <2>1. /\ FatherShape(use, pg[root], root, above, mine, shares)
        /\ BornImage(m.data, pg[root], rank, above, shares, image)
        /\ mine \in Histories /\ Extended(m, use, pg, tops, root, low, other, new)
    BY <1>1, <1>3, SlotIsBorn
  <2> HIDE DEF shares, rank, mine, above, image, root, tops, low
  <2>2. BornImage(low.data, new[root], rank, above, shares, image)
    BY <2>1, BornExtended
  <2>3. /\ t.level = rank /\ t.father_id = above /\ t.mapping_history = shares /\ t.module = image
    BY <1>7 DEF shares, rank, above, image
  <2> QED BY <2>2, <2>3, SlotIsBorn DEF low
<1>18. SlotRights(t)
  <2>1. root # identity_l4_table \/ (was.father_id = NoProcess /\ was.level = "system") BY <1>1 DEF SlotRights
  <2>2. Rights(was.mapping_history, was.level) BY <1>1 DEF SlotRights
  <2> QED BY <2>1, <2>2, <1>6, <1>7 DEF SlotRights
<1>19. SlotOK(grown.memory.data, then, other, new, birth, p)
  <2>1. then[p] = t /\ t.paging_root = root BY <1>7, <1>8
  <2> HIDE DEF root
  <2> QED BY <2>1, <1>3, <1>15, <1>17, <1>18 DEF SlotOK
<1>20. Slots(grown.memory.data, then, other, new, birth)
  <2>1. KernelFirst(then) BY <1>2, <1>9, <1>10 DEF KernelFirst, SameButPrivate
  <2> QED BY <2>1, <1>8, <1>10, <1>12, <1>16, <1>19 DEF Slots
<1>21. LostKept(use, other) BY <1>5, SameIsKept
<1>22. Origin(other) BY <1>2, <1>21, OriginKept
<1>23. Forest(grown.memory, other, new, tops) /\ Full(grown.memory, other) BY <1>3 DEF Extended
<1>24. State(grown.memory, then, other, new, birth, count)
  BY <1>2, <1>11, <1>20, <1>22, <1>23 DEF State
<1>25. \A q \in Live(array) : q # p => new[array[q].paging_root] = pg[array[q].paging_root]
  BY <1>5, <1>13 DEF RowKept
<1>26. RowGrown(pg[root], new[root]) BY <1>14 DEF RowsGrown
<1> QED BY <1>5, <1>24, <1>25, <1>26 DEF then

\* A step after which no other frame is lost.
Kept(use, pg, later) ==
    \E last, newest, dates :
        /\ State(memory', process_array', last, newest, dates, later)
        /\ Moves(pg, newest)
        /\ NoneLost(use) => NoneLost(last)

\* A step that changes neither memory nor processes.
LEMMA UnchangedLeads ==
    ASSUME NEW use, NEW pg, NEW birth, NEW count, State(memory, process_array, use, pg, birth, count),
           memory' = memory, process_array' = process_array
    PROVE  Kept(use, pg, count)
<1>1. State(memory', process_array', use, pg, birth, count) OBVIOUS
<1>2. Moves(pg, pg) BY UnchangedMoves DEF RowsSame
<1> QED BY <1>1, <1>2 DEF Kept

\* A process gets more pages in its private history, and nobody else gets any.
LEMMA RegrownMoves ==
    ASSUME NEW pg, NEW newest, process_array \in [Pid -> Slot], NEW p \in Live(process_array), NEW history,
           process_array' = Regrown(process_array, p, history),
           \A q \in Live(process_array) : q # p =>
             newest[process_array[q].paging_root] = pg[process_array[q].paging_root],
           RowGrown(pg[process_array[p].paging_root], newest[process_array[p].paging_root])
    PROVE  Moves(pg, newest)
<1>1. ASSUME NEW q \in Pid
      PROVE  /\ SlotStays(q) /\ process_array'[q].is_present = process_array[q].is_present
  BY DEF Regrown, SlotStays, Slot
<1>2. Live(process_array') = Live(process_array) /\ Live(process_array) \subseteq Pid
  BY <1>1 DEF Live
<1>3. ASSUME NEW q \in (Live(process_array) \cup Live(process_array')) \ {p}
      PROVE  RowStays(pg, newest, q)
  BY <1>1, <1>2, <1>3 DEF RowStays
<1>4. GainsFor(pg, newest, p) BY <1>1, <1>2, <1>3 DEF GainsFor
<1> QED BY <1>2, <1>4 DEF Moves

\* A page fault in the stack adds a page; another one ends the process.
LEMMA FaultLeads ==
    ASSUME NEW use, NEW pg, NEW birth, State(memory, process_array, use, pg, birth, forks),
           NEW p \in Pid, NEW page \in FaultPages, NEW first, PageFault(p, page, first)
    PROVE  \/ Kept(use, pg, forks)
           \/ Destroy(p) /\ p \in Live(process_array) /\ process_array[p].paging_root # identity_l4_table
<1> DEFINE process == process_array[p]
           region == Region(page, 1, {RW, USER})
           grown == add_pages([memory |-> memory, root |-> process.paging_root, result |-> "ok",
                               history |-> process.private_mapping_history], region)
           inStack == process.level = "user" /\ page >= stack_top /\ ~(page = stack_top /\ first)
<1>1. /\ p \in Present
      /\ \/ /\ inStack /\ grown.result = "ok"
            /\ memory' = grown.memory
            /\ process_array' = [process_array EXCEPT ![p].private_mapping_history = grown.history]
         \/ memory' = memory /\ process_array' = process_array
         \/ ~(process.level = "system") /\ Destroy(p)
  <2> HIDE DEF grown
  <2> QED BY DEF PageFault, Entered, grown
<1>2. p \in Live(process_array) BY <1>1, PresentIsLive
<1>3. CASE inStack /\ grown.result = "ok" /\ memory' = grown.memory
           /\ process_array' = [process_array EXCEPT ![p].private_mapping_history = grown.history]
  <2>1. page \in Page /\ page >= stack_top BY <1>3, LayoutAssumption
  <2>2. region \in RegionType /\ RegionOK(region) BY <2>1, StackPage
  <2>3. process_array' = Regrown(process_array, p, grown.history) BY <1>3 DEF Regrown
  <2>4. process_array[p].level = "user" BY <1>3
  <2> DEFINE result == grown
  <2>5. /\ result = add_pages([memory |-> memory, root |-> process_array[p].paging_root, result |-> "ok",
                              history |-> process_array[p].private_mapping_history], region)
        /\ result.result = "ok"
    BY <1>3
  <2>6. memory' = result.memory /\ process_array' = Regrown(process_array, p, result.history)
    BY <1>3, <2>3
  <2> HIDE DEF result, grown, region, inStack, process
  <2>7. \E other, new :
             /\ State(result.memory, Regrown(process_array, p, result.history), other, new, birth, forks)
             /\ \A q \in Live(process_array) : q # p =>
                  new[process_array[q].paging_root] = pg[process_array[q].paging_root]
             /\ RowGrown(pg[process_array[p].paging_root], new[process_array[p].paging_root])
             /\ LostSame(use, other)
    BY <1>2, <2>2, <2>4, <2>5, ProcessGrown
  <2>8. PICK other, new :
             /\ State(memory', process_array', other, new, birth, forks)
             /\ \A q \in Live(process_array) : q # p =>
                  new[process_array[q].paging_root] = pg[process_array[q].paging_root]
             /\ RowGrown(pg[process_array[p].paging_root], new[process_array[p].paging_root])
             /\ LostSame(use, other)
    BY <2>6, <2>7
  <2>9. Moves(pg, new)
    <3>1. process_array \in [Pid -> Slot] BY DEF State, Slots
    <3>2. process_array' = Regrown(process_array, p, result.history) BY <2>6
    <3> QED BY <1>2, <2>8, <3>1, <3>2, RegrownMoves
  <2> QED BY <2>8, <2>9, SameIsKept DEF Kept
<1>4. CASE memory' = memory /\ process_array' = process_array BY <1>4, UnchangedLeads
<1>5. CASE ~(process.level = "system") /\ Destroy(p)
  <2>1. SlotRights(process_array[p]) BY <1>2, SlotFacts
  <2> QED BY <2>1, <1>2, <1>5 DEF SlotRights
<1> QED BY <1>1, <1>3, <1>4, <1>5

-----------------------------------------------------------------------------
(* The family of a process.                                                *)

\* n is a child of p.
ChildOf(p, n) == process_array[n].is_present /\ process_array[n].father_id = p
\* The families of the children, in the order of the slots.
ListsOfChildren(p, g) == [n \in 1..MAX_PROCESS_NUMBER |-> IF ChildOf(p, n - 1) THEN g[n - 1] ELSE <<>>]
\* What Family is the fixed point of.
Lists(g) == [p \in Pid |-> <<p>> \o FlattenSeq(ListsOfChildren(p, g))]

\* A father is born before its children.
Aged(birth, count) ==
    /\ count \in Nat /\ birth \in [Pid -> 0..count]
    /\ \A n, p \in Pid : ChildOf(p, n) => birth[p] < birth[n]

\* A list has a process, its children, theirs and no other, each once.
Kin(birth, p, list) ==
    /\ list \in Seq(Pid) /\ IsInjective(list) /\ p \in Range(list)
    /\ \A q \in Range(list) : q # p =>
         q \in Live(process_array) /\ birth[q] > birth[p] /\ process_array[q].father_id \in Range(list)
    /\ \A q \in Live(process_array) : process_array[q].father_id \in Range(list) => q \in Range(list)

\* Slots are numbered from 0.
LEMMA PidFacts ==
    /\ MAX_PROCESS_NUMBER \in Nat \ {0}
    /\ \A n \in 1..MAX_PROCESS_NUMBER : n - 1 \in Pid
    /\ \A p \in Pid : p + 1 \in 1..MAX_PROCESS_NUMBER /\ (p + 1) - 1 = p
BY LayoutAssumption DEF Pid

\* Lists of processes are made of lists of processes.
LEMMA ListsType ==
    ASSUME NEW g \in [Pid -> Seq(Pid)]
    PROVE  Lists(g) \in [Pid -> Seq(Pid)]
<1> SUFFICES ASSUME NEW p \in Pid PROVE <<p>> \o FlattenSeq(ListsOfChildren(p, g)) \in Seq(Pid)
  BY DEF Lists
<1>1. ListsOfChildren(p, g) \in [1..MAX_PROCESS_NUMBER -> Seq(Pid)]
  BY PidFacts DEF ListsOfChildren
<1>2. FlattenSeq(ListsOfChildren(p, g)) \in Seq(Pid) BY <1>1, PidFacts, FlattenSeqType
<1> QED BY <1>2

\* The list of a process depends on those of its children only.
LEMMA ListsAgree ==
    ASSUME NEW g, NEW h, NEW p \in Pid, \A n \in Pid : ChildOf(p, n) => g[n] = h[n]
    PROVE  Lists(g)[p] = Lists(h)[p]
<1>1. ListsOfChildren(p, g) = ListsOfChildren(p, h) BY PidFacts DEF ListsOfChildren
<1> QED BY <1>1 DEF Lists

\* There is a fixed point, because children are younger: by recursion on the
\* age.
LEMMA ListsExist ==
    ASSUME NEW birth, NEW count, Aged(birth, count)
    PROVE  \E g : g = Lists(g)
<1> DEFINE V == [Pid -> Seq(Pid)]
           base == [p \in Pid |-> <<>>]
           next == [k \in 1..(count + 2) |-> [g \in V |-> Lists(g)]]
<1>1. count \in Nat /\ count + 2 \in Nat /\ birth \in [Pid -> 0..count] BY DEF Aged
<1>2. base \in V OBVIOUS
<1>3. next \in [1..(count + 2) -> [V -> V]]
  <2>1. \A g \in V : Lists(g) \in V BY ListsType
  <2> HIDE DEF V
  <2> QED BY <2>1
<1>4. \A k \in 1..(count + 2) : \A g \in V : next[k][g] = Lists(g) OBVIOUS
<1> HIDE DEF V, base, next
<1>5. PICK f : Steps(f, count + 2, V, base, next) BY <1>1, <1>2, <1>3, PrimitiveRecursion
<1>6. \A k \in 0..(count + 1) : f[k] \in V /\ f[k + 1] = Lists(f[k])
  <2> SUFFICES ASSUME NEW k \in 0..(count + 1) PROVE f[k] \in V /\ f[k + 1] = Lists(f[k])
    OBVIOUS
  <2>1. k \in 0..(count + 2) /\ k + 1 \in 1..(count + 2) /\ (k + 1) - 1 = k BY <1>1
  <2>2. f[k] \in V /\ f[k + 1] = next[k + 1][f[(k + 1) - 1]] BY <1>5, <2>1 DEF Steps
  <2> QED BY <1>4, <2>1, <2>2
<1> DEFINE Fixed(k) == \A p \in Pid : birth[p] > count - k => f[k][p] = f[k + 1][p]
           holds == {k \in 0..(count + 1) : Fixed(k)}
<1>7. 0 \in holds BY <1>1
<1>8. ASSUME NEW k \in 0..((count + 1) - 1), k \in holds
      PROVE  k + 1 \in holds
  <2>1. k + 1 \in 0..(count + 1) /\ k \in 0..(count + 1) /\ k \in Int BY <1>1
  <2>2. f[k + 1] = Lists(f[k]) /\ f[(k + 1) + 1] = Lists(f[k + 1]) BY <1>6, <2>1
  <2>3. ASSUME NEW p \in Pid, birth[p] > count - (k + 1)
        PROVE  f[k + 1][p] = f[(k + 1) + 1][p]
    <3>1. ASSUME NEW n \in Pid, ChildOf(p, n) PROVE f[k][n] = f[k + 1][n]
      <4>1. birth[p] < birth[n] /\ birth[p] \in Nat /\ birth[n] \in Nat BY <1>1, <3>1 DEF Aged
      <4>2. birth[n] > count - k BY <4>1, <2>1, <2>3, <1>1
      <4> QED BY <4>2, <1>8
    <3> QED BY <2>2, <3>1, ListsAgree
  <2> QED BY <2>1, <2>3
<1>9. \A k \in 0..(count + 1) : k \in holds
  <2> HIDE DEF holds
  <2> QED BY <1>1, <1>7, <1>8, PositionInduction
<1>10. count + 1 \in 0..(count + 1) /\ count - (count + 1) < 0 BY <1>1
<1>11. \A p \in Pid : f[count + 1][p] = f[(count + 1) + 1][p]
  <2>1. Fixed(count + 1) BY <1>9, <1>10
  <2> QED BY <2>1, <1>1
<1>12. f[count + 1] \in V /\ f[(count + 1) + 1] \in V
  <2>1. count + 1 \in 0..(count + 2) /\ (count + 1) + 1 \in 0..(count + 2) BY <1>1
  <2> QED BY <2>1, <1>5 DEF Steps
<1>13. f[count + 1] = f[(count + 1) + 1] BY <1>11, <1>12 DEF V
<1>14. f[count + 1] = Lists(f[count + 1]) BY <1>6, <1>10, <1>13
<1> QED BY <1>14

\* Two children of a process have no common kin.
LEMMA ChildrenApart ==
    ASSUME NEW birth, NEW count, Aged(birth, count),
           NEW p \in Pid, NEW a \in Pid, NEW b \in Pid, a # b, ChildOf(p, a), ChildOf(p, b),
           NEW l, NEW r, Kin(birth, a, l), Kin(birth, b, r)
    PROVE  Range(l) \cap Range(r) = {}
<1> DEFINE both == Range(l) \cap Range(r)
           holds == {k \in 0..(count + 1) : \A q \in both : birth[q] >= k}
<1>1. count \in Nat /\ count + 1 \in Nat /\ birth \in [Pid -> 0..count] BY DEF Aged
<1>2. both \subseteq Pid
  BY DEF Kin, Range
<1>3. 0 \in holds BY <1>1, <1>2
<1>4. /\ birth[p] < birth[a] /\ birth[p] < birth[b]
      /\ birth[p] \in Nat /\ birth[a] \in Nat /\ birth[b] \in Nat
      /\ process_array[a].father_id = p /\ process_array[b].father_id = p
  BY <1>1 DEF Aged, ChildOf
<1>5. p \notin Range(l) /\ p \notin Range(r) BY <1>4 DEF Kin
<1>6. a \notin both /\ b \notin both BY <1>4, <1>5 DEF Kin
<1>7. ASSUME NEW k \in 0..((count + 1) - 1), k \in holds
      PROVE  k + 1 \in holds
  <2>1. ASSUME NEW q \in both PROVE birth[q] # k
    <3>1. /\ q \in Pid /\ q # a /\ q # b /\ q \in Live(process_array) /\ process_array[q].father_id \in both
      BY <1>2, <1>6 DEF Kin
    <3>2. ChildOf(process_array[q].father_id, q) BY <3>1 DEF ChildOf, Live
    <3>3. birth[process_array[q].father_id] < birth[q] BY <1>2, <3>1, <3>2 DEF Aged
    <3>4. birth[process_array[q].father_id] >= k BY <1>7, <3>1
    <3>5. birth[process_array[q].father_id] \in Nat /\ birth[q] \in Nat BY <1>1, <1>2, <3>1
    <3> HIDE DEF both
    <3> QED BY <3>3, <3>4, <3>5
  <2>2. k \in Nat /\ k + 1 \in 0..(count + 1) BY <1>1
  <2>3. \A q \in both : birth[q] \in Nat /\ birth[q] >= k BY <1>1, <1>2, <1>7
  <2> HIDE DEF both
  <2> QED BY <2>1, <2>2, <2>3
<1>8. \A k \in 0..(count + 1) : k \in holds
  <2> HIDE DEF holds
  <2> QED BY <1>1, <1>3, <1>7, PositionInduction
<1>9. count + 1 \in 0..(count + 1) BY <1>1
<1>10. \A q \in both : birth[q] >= count + 1 /\ birth[q] \in 0..count BY <1>1, <1>2, <1>8, <1>9
<1> HIDE DEF both
<1>11. both = {} BY <1>1, <1>10
<1> QED BY <1>11 DEF both

\* The list of a process is its kin when those of its children are theirs.
LEMMA KinOfChildren ==
    ASSUME NEW birth, NEW count, Aged(birth, count), NEW g, g = Lists(g),
           NEW p \in Pid, \A n \in Pid : ChildOf(p, n) => Kin(birth, n, g[n])
    PROVE  Kin(birth, p, g[p])
<1> DEFINE seqs == ListsOfChildren(p, g)
           rest == FlattenSeq(seqs)
<1>1. g[p] = <<p>> \o rest BY DEF Lists
<1>2. \A n \in 1..MAX_PROCESS_NUMBER : seqs[n] = IF ChildOf(p, n - 1) THEN g[n - 1] ELSE <<>>
  BY DEF ListsOfChildren
<1>3. seqs \in [1..MAX_PROCESS_NUMBER -> Seq(Pid)]
  <2>1. ASSUME NEW n \in 1..MAX_PROCESS_NUMBER PROVE seqs[n] \in Seq(Pid)
    <3> HIDE DEF seqs
    <3>1. CASE ChildOf(p, n - 1)
      <4>1. n - 1 \in Pid BY PidFacts
      <4>2. Kin(birth, n - 1, g[n - 1]) BY <3>1, <4>1
      <4> QED BY <1>2, <3>1, <4>2 DEF Kin
    <3>2. CASE ~ChildOf(p, n - 1)
      <4>1. seqs[n] = <<>> BY <1>2, <3>2
      <4> QED BY <4>1
    <3> QED BY <3>1, <3>2
  <2>2. seqs = [n \in 1..MAX_PROCESS_NUMBER |-> seqs[n]] BY DEF ListsOfChildren
  <2> HIDE DEF seqs
  <2> QED BY <2>1, <2>2
<1>4. \A n \in 1..MAX_PROCESS_NUMBER : IsInjective(seqs[n])
  BY <1>2, PidFacts, EmptyMembers DEF Kin
<1>5. \A k, n \in 1..MAX_PROCESS_NUMBER : k # n => Range(seqs[k]) \cap Range(seqs[n]) = {}
  <2> SUFFICES ASSUME NEW k \in 1..MAX_PROCESS_NUMBER, NEW n \in 1..MAX_PROCESS_NUMBER, k # n
               PROVE  Range(seqs[k]) \cap Range(seqs[n]) = {}
    OBVIOUS
  <2>1. CASE ChildOf(p, k - 1) /\ ChildOf(p, n - 1)
    <3>1. k - 1 \in Pid /\ n - 1 \in Pid /\ k - 1 # n - 1 BY PidFacts
    <3>2. Kin(birth, k - 1, g[k - 1]) /\ Kin(birth, n - 1, g[n - 1]) BY <2>1, <3>1
    <3>3. Range(g[k - 1]) \cap Range(g[n - 1]) = {} BY <2>1, <3>1, <3>2, ChildrenApart
    <3> QED BY <1>2, <2>1, <3>3
  <2>2. CASE ~ChildOf(p, k - 1) \/ ~ChildOf(p, n - 1)
    <3>1. seqs[k] = <<>> \/ seqs[n] = <<>> BY <1>2, <2>2
    <3> QED BY <3>1, EmptyMembers
  <2> QED BY <2>1, <2>2
<1> HIDE DEF seqs
<1>6. /\ rest \in Seq(Pid) /\ Range(rest) = UNION {Range(seqs[k]) : k \in 1..MAX_PROCESS_NUMBER}
      /\ IsInjective(rest)
  BY <1>3, <1>4, <1>5, PidFacts, FlattenSeqMembers
<1> HIDE DEF rest
<1>7. \A q : q \in Range(rest) <=> \E n \in Pid : ChildOf(p, n) /\ q \in Range(g[n])
  <2>1. ASSUME NEW q \in Range(rest) PROVE \E n \in Pid : ChildOf(p, n) /\ q \in Range(g[n])
    <3>1. PICK k \in 1..MAX_PROCESS_NUMBER : q \in Range(seqs[k]) BY <1>6
    <3>2. seqs[k] # <<>> BY <3>1, EmptyMembers
    <3>3. ChildOf(p, k - 1) /\ seqs[k] = g[k - 1] BY <1>2, <3>2
    <3> QED BY <3>1, <3>3, PidFacts
  <2>2. ASSUME NEW n \in Pid, ChildOf(p, n), NEW q \in Range(g[n]) PROVE q \in Range(rest)
    <3>1. n + 1 \in 1..MAX_PROCESS_NUMBER /\ (n + 1) - 1 = n BY PidFacts
    <3>2. seqs[n + 1] = g[n] BY <1>2, <2>2, <3>1
    <3> QED BY <1>6, <3>1, <3>2
  <2> QED BY <2>1, <2>2
<1>8. count \in Nat /\ birth \in [Pid -> 0..count] BY DEF Aged
<1>9. \A n \in Pid : ChildOf(p, n) => birth[n] > birth[p] /\ birth[n] \in Nat /\ birth[p] \in Nat
  BY <1>8 DEF Aged
<1>10. \A q \in Range(rest) : q \in Pid /\ birth[q] > birth[p] /\ birth[q] \in Nat /\ q \in Live(process_array)
  <2> SUFFICES ASSUME NEW q \in Range(rest)
               PROVE  q \in Pid /\ birth[q] > birth[p] /\ birth[q] \in Nat /\ q \in Live(process_array)
    OBVIOUS
  <2>1. PICK n \in Pid : ChildOf(p, n) /\ q \in Range(g[n]) BY <1>7
  <2>2. Kin(birth, n, g[n]) /\ birth[n] > birth[p] /\ birth[n] \in Nat /\ birth[p] \in Nat BY <1>9, <2>1
  <2>3. q \in Pid BY <2>1, <2>2 DEF Kin, Range
  <2>4. birth[q] \in Nat BY <1>8, <2>3
  <2>5. CASE q = n BY <2>5, <2>1, <2>2, <2>3 DEF Live, ChildOf
  <2>6. CASE q # n
    <3>1. birth[q] > birth[n] /\ q \in Live(process_array) BY <2>6, <2>1, <2>2 DEF Kin
    <3> QED BY <3>1, <2>2, <2>3, <2>4
  <2> QED BY <2>5, <2>6
<1>11. p \notin Range(rest) BY <1>8, <1>10
<1>12. /\ g[p] \in Seq(Pid) /\ Range(g[p]) = {p} \cup Range(rest) /\ IsInjective(g[p])
  <2>1. <<p>> \in Seq(Pid) OBVIOUS
  <2>2. Range(<<p>>) = {p} /\ IsInjective(<<p>>) BY SingleMember
  <2> DEFINE own == <<p>>
  <2> HIDE DEF own
  <2>3. own \in Seq(Pid) /\ Range(own) = {p} /\ IsInjective(own) /\ Range(own) \cap Range(rest) = {}
        /\ g[p] = own \o rest
    BY <1>1, <1>11, <2>1, <2>2 DEF own
  <2>4. /\ own \o rest \in Seq(Pid) /\ Range(own \o rest) = Range(own) \cup Range(rest)
        /\ IsInjective(own \o rest)
    BY <1>6, <2>3, ConcatMembers
  <2> QED BY <2>3, <2>4
<1>13. \A q \in Range(rest) : process_array[q].father_id \in Range(g[p])
  <2> SUFFICES ASSUME NEW q \in Range(rest) PROVE process_array[q].father_id \in Range(g[p])
    OBVIOUS
  <2>1. PICK n \in Pid : ChildOf(p, n) /\ q \in Range(g[n]) BY <1>7
  <2>2. CASE q = n BY <2>1, <2>2, <1>12 DEF ChildOf
  <2>3. CASE q # n
    <3>1. process_array[q].father_id \in Range(g[n]) BY <2>1, <2>3 DEF Kin
    <3> QED BY <3>1, <2>1, <1>7, <1>12
  <2> QED BY <2>2, <2>3
<1>14. ASSUME NEW q \in Live(process_array), process_array[q].father_id \in Range(g[p])
       PROVE  q \in Range(g[p])
  <2>1. CASE process_array[q].father_id = p
    <3>1. q \in Pid /\ ChildOf(p, q) BY <2>1 DEF Live, ChildOf
    <3>2. q \in Range(g[q]) BY <3>1 DEF Kin
    <3> QED BY <3>1, <3>2, <1>7, <1>12
  <2>2. CASE process_array[q].father_id \in Range(rest)
    <3>1. PICK n \in Pid : ChildOf(p, n) /\ process_array[q].father_id \in Range(g[n]) BY <2>2, <1>7
    <3>2. q \in Range(g[n]) BY <3>1 DEF Kin
    <3> QED BY <3>1, <3>2, <1>7, <1>12
  <2> QED BY <2>1, <2>2, <1>12, <1>14
<1>15. p \in Range(g[p]) BY <1>12
<1>16. \A q \in Range(g[p]) : q # p => q \in Range(rest) BY <1>12
<1> QED BY <1>10, <1>12, <1>13, <1>14, <1>15, <1>16 DEF Kin

\* Family is the kin of a process.
LEMMA FamilyIsKin ==
    ASSUME NEW birth, NEW count, Aged(birth, count), NEW id \in Pid
    PROVE  Kin(birth, id, Family(id))
<1> DEFINE P(h) == h = [p \in Pid |->
            <<p>> \o FlattenSeq([n \in 1..MAX_PROCESS_NUMBER |->
                IF process_array[n - 1].is_present /\ process_array[n - 1].father_id = p
                THEN h[n - 1] ELSE <<>>])]
           g == CHOOSE h : P(h)
<1>1. Family(id) = g[id] BY Zenon DEF Family
<1>2. \A h : P(h) <=> h = Lists(h) BY DEF Lists, ListsOfChildren, ChildOf
<1>3. g = Lists(g)
  <2>1. \E h : P(h) BY <1>2, ListsExist
  <2>2. P(g)
    <3> HIDE DEF P
    <3> QED BY <2>1
  <2> HIDE DEF P, g
  <2> QED BY <1>2, <2>2
<1> HIDE DEF g, P
<1> DEFINE holds == {k \in 0..(count + 1) : \A p \in Pid : birth[p] > count - k => Kin(birth, p, g[p])}
<1>4. count \in Nat /\ count + 1 \in Nat /\ birth \in [Pid -> 0..count] BY DEF Aged
<1>5. 0 \in holds BY <1>4
<1>6. ASSUME NEW k \in 0..((count + 1) - 1), k \in holds
      PROVE  k + 1 \in holds
  <2>1. ASSUME NEW p \in Pid, birth[p] > count - (k + 1)
        PROVE  Kin(birth, p, g[p])
    <3>1. ASSUME NEW n \in Pid, ChildOf(p, n) PROVE Kin(birth, n, g[n])
      <4>1. birth[p] < birth[n] /\ birth[p] \in Nat /\ birth[n] \in Nat BY <1>4, <3>1 DEF Aged
      <4>2. birth[n] > count - k BY <4>1, <2>1, <1>4
      <4> QED BY <4>2, <1>6
    <3> QED BY <1>3, <3>1, KinOfChildren
  <2>2. k + 1 \in 0..(count + 1) BY <1>4
  <2> QED BY <2>1, <2>2
<1>7. \A k \in 0..(count + 1) : k \in holds
  <2> HIDE DEF holds
  <2> QED BY <1>4, <1>5, <1>6, PositionInduction
<1>8. count + 1 \in 0..(count + 1) /\ count - (count + 1) < 0 BY <1>4
<1>9. Kin(birth, id, g[id]) BY <1>4, <1>7, <1>8
<1> QED BY <1>1, <1>9

-----------------------------------------------------------------------------
(* destroy_process().                                                      *)

\* destroy_process() is a loop over the family.
LEMMA EndIsLoop ==
    ASSUME NEW m, NEW list
    PROVE  FoldLeft(ReleasePages, m, list) = Loop([kind |-> "end"], m, list)
<1> DEFINE c == [kind |-> "end"]
           P(f) == f = [s \in SUBSET DOMAIN list |-> IF s = {} THEN m ELSE ReleasePages(f[s \ {Max(s)}], list[Max(s)])]
           Q(f) == f = [s \in SUBSET DOMAIN list |-> IF s = {} THEN m ELSE Do(c, f[s \ {Max(s)}], list[Max(s)])]
<1>1. FoldLeft(ReleasePages, m, list) = (CHOOSE f : P(f))[DOMAIN list]
  BY Zenon DEF FoldLeft, MapThenFoldSet
<1>2. Loop(c, m, list) = (CHOOSE f : Q(f))[DOMAIN list]
  BY Zenon DEF Loop, FoldLeft, MapThenFoldSet
<1>3. \A f : P(f) <=> Q(f)
  <2>1. \A s, x : Do(c, s, x) = ReleasePages(s, x)
    BY DEF Do
  <2> HIDE DEF c
  <2> QED BY <2>1
<1>4. (CHOOSE f : P(f)) = (CHOOSE f : Q(f))
  <2> HIDE DEF P, Q
  <2> QED BY <1>3, Zenon
<1> HIDE DEF P, Q, c
<1>5. FoldLeft(ReleasePages, m, list) = Loop(c, m, list)
  BY <1>1, <1>2, <1>4, Zenon
<1> QED BY <1>5 DEF c

\* The tables of the first k of a list.
RootsOf(list, k) == {process_array[list[i]].paging_root : i \in 1..k}
\* The tables of all the others.
RootsLeft(list, k) == Roots(process_array) \ RootsOf(list, k)

\* The first k processes of the list are gone.
Ended(use, pg, list, k, n) ==
    \E other, new :
        /\ Forest(n, other, new, RootsLeft(list, k)) /\ Full(n, other) /\ LostSame(use, other)
        /\ \A q \in RootsLeft(list, k) : RowKept(memory, use, pg, n, other, new, q)

\* Processes, each once, other than the kernel.
Mortal(list) ==
    /\ list \in Seq(Pid) /\ IsInjective(list)
    /\ \A i \in 1..Len(list) : /\ list[i] \in Live(process_array)
                               /\ process_array[list[i]].paging_root # identity_l4_table

\* Releasing the pages of a process leaves those of the others.
LEMMA SlotReleased ==
    ASSUME NEW m, NEW use, NEW pg, NEW roots, Forest(m, use, pg, roots), Full(m, use),
           NEW id, process_array[id] \in Slot, process_array[id].paging_root \in roots,
           process_array[id].paging_root # identity_l4_table,
           SlotShape(use, pg[process_array[id].paging_root], process_array[id])
    PROVE  \E other, new : Vacated(m, use, pg, roots, process_array[id].paging_root, ReleasePages(m, id), other, new)
<1> DEFINE r == process_array[id].paging_root
           private == process_array[id].private_mapping_history
           shares == process_array[id].mapping_history
<1>1. private \in Histories /\ shares \in Histories BY DEF Slot
<1>2. CASE process_array[id].father_id = NoProcess
  <2>1. Shape(use, pg[r], r, private, shares, TRUE) BY <1>2 DEF SlotShape
  <2> DEFINE own == TRUE
  <2>2. own \in BOOLEAN /\ (own <=> process_array[id].father_id = NoProcess) /\ Shape(use, pg[r], r, private, shares, own)
    BY <2>1, <1>2
  <2> HIDE DEF own
  <2> QED BY <2>2, <1>1, PagesReleased
<1>3. CASE process_array[id].father_id # NoProcess
  <2>1. Shape(use, pg[r], r, private, shares, FALSE) BY <1>3 DEF SlotShape
  <2> DEFINE own == FALSE
  <2>2. own \in BOOLEAN /\ (own <=> process_array[id].father_id = NoProcess) /\ Shape(use, pg[r], r, private, shares, own)
    BY <2>1, <1>3
  <2> HIDE DEF own
  <2> QED BY <2>2, <1>1, PagesReleased
<1> QED BY <1>2, <1>3

\* The pages of one more process of the list are released.
LEMMA OneMoreEnds ==
    ASSUME NEW use, NEW pg, NEW birth, NEW count, State(memory, process_array, use, pg, birth, count),
           NEW list, Mortal(list), NEW k \in 0..(Len(list) - 1),
           NEW n, Ended(use, pg, list, k, n)
    PROVE  Ended(use, pg, list, k + 1, ReleasePages(n, list[k + 1]))
<1> DEFINE id == list[k + 1]
           r == process_array[id].paging_root
           roots == RootsLeft(list, k)
           after == ReleasePages(n, id)
<1>1. PICK other, new :
        /\ Forest(n, other, new, roots) /\ Full(n, other) /\ LostSame(use, other)
        /\ \A q \in roots : RowKept(memory, use, pg, n, other, new, q)
  BY DEF Ended
<1>2. k \in Nat /\ k + 1 \in 1..Len(list) /\ Len(list) \in Nat BY DEF Mortal
<1>3. id \in Live(process_array) /\ r # identity_l4_table BY <1>2 DEF Mortal
<1>4. process_array[id] \in Slot /\ r \in Roots(process_array) /\ SlotShape(use, pg[r], process_array[id])
  BY <1>3, SlotFacts
<1>5. r \in roots
  <2>1. ASSUME NEW i \in 1..k PROVE process_array[list[i]].paging_root # r
    <3>1. i \in 1..Len(list) /\ i # k + 1 BY <1>2
    <3>2. list[i] # id BY <3>1, <1>2 DEF Mortal, IsInjective
    <3>3. list[i] \in Live(process_array) BY <3>1 DEF Mortal
    <3> QED BY <3>2, <3>3, <1>3 DEF State, Slots
  <2> QED BY <2>1, <1>4 DEF RootsLeft, RootsOf
<1>6. RootsLeft(list, k + 1) = roots \ {r}
  <2>1. 1..(k + 1) = 1..k \cup {k + 1} BY <1>2
  <2> QED BY <2>1 DEF RootsLeft, RootsOf
<1>7. SlotShape(other, new[r], process_array[id])
  <2>1. RowKept(memory, use, pg, n, other, new, r) BY <1>1, <1>5
  <2>2. \A private, mapping, own :
            Shape(use, pg[r], r, private, mapping, own) => Shape(other, new[r], r, private, mapping, own)
    BY <2>1, ShapeKept
  <2> QED BY <2>2, <1>4 DEF SlotShape
<1>8. PICK last, newest : Vacated(n, other, new, roots, r, after, last, newest)
  <2> HIDE DEF roots, id
  <2> QED BY <1>1, <1>3, <1>4, <1>5, <1>7, SlotReleased
<1>9. /\ \A q \in Frame \ {r} : RowKept(n, other, new, after, last, newest, q)
      /\ LostSame(other, last)
  <2> HIDE DEF roots, r, after
  <2> QED BY <1>8, VacatedKeeps
<1>10. Forest(after, last, newest, roots \ {r}) /\ Full(after, last) BY <1>8 DEF Vacated
<1>11. LostSame(use, last) BY <1>1, <1>9 DEF LostSame
<1>12. roots \subseteq Frame BY <1>1 DEF Forest, ForestTypes
<1>13. ASSUME NEW q \in roots \ {r} PROVE RowKept(memory, use, pg, after, last, newest, q)
  <2>1. RowKept(memory, use, pg, n, other, new, q) /\ RowKept(n, other, new, after, last, newest, q)
    BY <1>1, <1>9, <1>12
  <2> HIDE DEF after, roots
  <2> QED BY <2>1, RowKeptTwice
<1> HIDE DEF roots, r, after
<1> QED BY <1>6, <1>10, <1>11, <1>13 DEF Ended, after

\* And so of all of them.
LEMMA AllEnd ==
    ASSUME NEW use, NEW pg, NEW birth, NEW count, State(memory, process_array, use, pg, birth, count),
           NEW list, Mortal(list)
    PROVE  Ended(use, pg, list, Len(list), FoldLeft(ReleasePages, memory, list))
<1> DEFINE c == [kind |-> "end"]
<1>1. list \in Seq(Pid) /\ Len(list) \in Nat BY DEF Mortal
<1>2. PICK states : Rounds(states, c, memory, list) /\ states[Len(list)] = Loop(c, memory, list)
  BY <1>1, LoopUnfolds
<1>3. /\ states[0] = memory
      /\ \A k \in 1..Len(list) : states[k] = ReleasePages(states[k - 1], list[k])
  BY <1>2 DEF Rounds, Do
<1> HIDE DEF c
<1> DEFINE holds == {k \in 0..Len(list) : Ended(use, pg, list, k, states[k])}
<1>4. 0 \in holds
  <2>1. RootsLeft(list, 0) = Roots(process_array) BY DEF RootsLeft, RootsOf
  <2>2. \A q : RowKept(memory, use, pg, memory, use, pg, q) BY DEF RowKept
  <2>3. LostSame(use, use) BY DEF LostSame
  <2>4. Forest(memory, use, pg, Roots(process_array)) /\ Full(memory, use) BY DEF State
  <2>5. Ended(use, pg, list, 0, memory) BY <2>1, <2>2, <2>3, <2>4 DEF Ended
  <2> QED BY <2>5, <1>1, <1>3
<1>5. ASSUME NEW k \in 0..(Len(list) - 1), k \in holds
      PROVE  k + 1 \in holds
  <2>1. k + 1 \in 1..Len(list) /\ k + 1 \in 0..Len(list) /\ (k + 1) - 1 = k BY <1>1
  <2>2. states[k + 1] = ReleasePages(states[k], list[k + 1]) BY <1>3, <2>1
  <2>3. Ended(use, pg, list, k + 1, ReleasePages(states[k], list[k + 1])) BY <1>5, OneMoreEnds
  <2> QED BY <2>1, <2>2, <2>3
<1>6. \A k \in 0..Len(list) : k \in holds
  <2> HIDE DEF holds
  <2> QED BY <1>1, <1>4, <1>5, PositionInduction
<1>7. Ended(use, pg, list, Len(list), states[Len(list)]) BY <1>1, <1>6
<1>8. Loop(c, memory, list) = FoldLeft(ReleasePages, memory, list) BY EndIsLoop DEF c
<1> QED BY <1>2, <1>7, <1>8

\* The births of the invariant order the families.
LEMMA StateIsAged ==
    ASSUME NEW m, NEW use, NEW pg, NEW birth, NEW count, State(m, process_array, use, pg, birth, count)
    PROVE  Aged(birth, count)
<1>1. count \in Nat /\ birth \in [Pid -> 0..count] BY DEF State
<1>2. ASSUME NEW n \in Pid, NEW p \in Pid, ChildOf(p, n) PROVE birth[p] < birth[n]
  <2>1. n \in Live(process_array) /\ process_array[n].father_id = p /\ p # NoProcess
    BY <1>2, NoSuchPid DEF ChildOf, Live
  <2>2. SlotFather(process_array, pg, birth, n) BY <2>1, SlotFacts
  <2> QED BY <2>1, <2>2 DEF SlotFather
<1> QED BY <1>1, <1>2 DEF Aged

\* An empty slot has a record.
LEMMA NobodyIsSlot == Nobody \in Slot /\ ~Nobody.is_present
<1>1. NULL \in Frame BY PagingAssumption DEF NULL, Frame
<1>2. <<>> \in Histories BY DEF Histories
<1>3. 0 \in 0..Len(Modules) BY LayoutAssumption
<1> QED BY <1>1, <1>2, <1>3 DEF Nobody, Slot

\* The family of a process other than the kernel is without the kernel.
LEMMA KinIsMortal ==
    ASSUME NEW use, NEW pg, NEW birth, NEW count, State(memory, process_array, use, pg, birth, count),
           NEW p \in Live(process_array), process_array[p].paging_root # identity_l4_table,
           NEW list, Kin(birth, p, list)
    PROVE  Mortal(list)
<1>1. list \in Seq(Pid) /\ IsInjective(list) BY DEF Kin
<1>2. ASSUME NEW i \in 1..Len(list)
      PROVE  list[i] \in Live(process_array) /\ process_array[list[i]].paging_root # identity_l4_table
  <2>1. list[i] \in Range(list) BY <1>1 DEF Range
  <2>2. CASE list[i] = p BY <2>2
  <2>3. CASE list[i] # p
    <3>1. list[i] \in Live(process_array) /\ process_array[list[i]].father_id \in Range(list)
      BY <2>1, <2>3 DEF Kin
    <3>2. process_array[list[i]].father_id \in Pid BY <1>1, <3>1 DEF Range
    <3>3. process_array[list[i]].father_id # NoProcess BY <3>2, NoSuchPid
    <3>4. SlotRights(process_array[list[i]]) BY <3>1, SlotFacts
    <3> QED BY <3>1, <3>3, <3>4 DEF SlotRights
  <2> QED BY <2>2, <2>3
<1> QED BY <1>1, <1>2 DEF Mortal

\* The array without the processes of the list.
Buried(list) == [q \in Pid |-> IF \E n \in DOMAIN list : list[n] = q THEN Nobody ELSE process_array[q]]

\* Those that are not in the family of p stay as they are.
LEMMA FamilyEnds ==
    ASSUME NEW use, NEW pg, NEW birth, NEW count, State(memory, process_array, use, pg, birth, count),
           NEW p \in Live(process_array), process_array[p].paging_root # identity_l4_table,
           NEW list, Kin(birth, p, list)
    PROVE  \E other, new :
             /\ State(FoldLeft(ReleasePages, memory, list), Buried(list), other, new, birth, count)
             /\ \A q \in Live(Buried(list)) : /\ q \in Live(process_array) /\ Buried(list)[q] = process_array[q]
                                              /\ new[process_array[q].paging_root] = pg[process_array[q].paging_root]
             /\ LostSame(use, other)
<1> DEFINE n == FoldLeft(ReleasePages, memory, list)
           after == Buried(list)
           roots == RootsLeft(list, Len(list))
<1>1. Mortal(list) BY KinIsMortal
<1>2. Ended(use, pg, list, Len(list), n) BY <1>1, AllEnd
<1>3. PICK other, new :
        /\ Forest(n, other, new, roots) /\ Full(n, other) /\ LostSame(use, other)
        /\ \A q \in roots : RowKept(memory, use, pg, n, other, new, q)
  <2> HIDE DEF n
  <2> QED BY <1>2 DEF Ended
<1>4. /\ Origin(use) /\ count \in Nat /\ birth \in [Pid -> 0..count]
      /\ process_array \in [Pid -> Slot] /\ KernelFirst(process_array)
      /\ \A q, o \in Live(process_array) : process_array[q].paging_root = process_array[o].paging_root => q = o
      /\ \A q \in Live(process_array) : SlotOK(memory.data, process_array, use, pg, birth, q)
  BY DEF State, Slots
<1>5. list \in Seq(Pid) BY <1>1 DEF Mortal
<1>6. /\ \A q \in Pid : q \in Range(list) => after[q] = Nobody
      /\ \A q \in Pid : q \notin Range(list) => after[q] = process_array[q]
      /\ after \in [Pid -> Slot]
  BY <1>4, <1>5, NobodyIsSlot DEF Buried, Range
<1> HIDE DEF n, after, roots
<1>7. Live(after) = Live(process_array) \ Range(list)
  BY <1>6, NobodyIsSlot DEF Live
<1>8. Range(list) \subseteq Live(process_array) BY <1>1 DEF Mortal, Range
<1>9. \A q \in Live(after) : /\ q \in Pid /\ q \in Live(process_array) /\ after[q] = process_array[q]
                             /\ q \notin Range(list)
  BY <1>6, <1>7 DEF Live
<1>10. RootsOf(list, Len(list)) = {process_array[q].paging_root : q \in Range(list)}
  BY <1>5 DEF RootsOf, Range
<1>11. \A q \in Range(list) : process_array[q].paging_root # identity_l4_table
  BY <1>1 DEF Mortal, Range
<1>12. Roots(after) = roots
  <2>1. \A q \in Live(process_array) \ Range(list) :
          process_array[q].paging_root \notin RootsOf(list, Len(list))
    BY <1>4, <1>8, <1>10
  <2>2. identity_l4_table \notin RootsOf(list, Len(list)) BY <1>10, <1>11
  <2>3. Roots(after) = {identity_l4_table} \cup {process_array[q].paging_root : q \in Live(process_array) \ Range(list)}
    BY <1>7, <1>9 DEF Roots
  <2> QED BY <2>1, <2>2, <2>3, <1>10 DEF RootsLeft, Roots, roots
<1>13. ASSUME NEW q \in Live(after) PROVE SlotOK(n.data, after, other, new, birth, q)
  <2>1. SlotOK(memory.data, process_array, use, pg, birth, q) /\ q \in Live(process_array) BY <1>4, <1>9
  <2>2. RowKept(memory, use, pg, n, other, new, process_array[q].paging_root)
    BY <1>3, <1>9, <1>12, RootsAreRoots
  <2>3. process_array[q].father_id # NoProcess =>
             LET f == process_array[q].father_id
             IN  /\ f \in Live(after) /\ after[f] = process_array[f]
                 /\ RowKept(memory, use, pg, n, other, new, process_array[f].paging_root)
    <3> SUFFICES ASSUME process_array[q].father_id # NoProcess
                 PROVE  LET f == process_array[q].father_id
                        IN  /\ f \in Live(after) /\ after[f] = process_array[f]
                            /\ RowKept(memory, use, pg, n, other, new, process_array[f].paging_root)
      OBVIOUS
    <3> DEFINE f == process_array[q].father_id
    <3>1. f \in Live(process_array) BY <2>1 DEF SlotOK, SlotFather
    <3>2. f \notin Range(list) BY <1>9, <2>1 DEF Kin
    <3>3. f \in Live(after) /\ after[f] = process_array[f] BY <1>7, <1>9, <3>1, <3>2
    <3>4. process_array[f].paging_root \in roots BY <1>12, <3>3, RootsAreRoots
    <3> QED BY <1>3, <3>3, <3>4
  <2> QED BY <1>4, <1>9, <2>1, <2>2, <2>3, SlotKept
<1>14. KernelFirst(after) /\ \A q, o \in Live(after) : after[q].paging_root = after[o].paging_root => q = o
  BY <1>4, <1>9 DEF KernelFirst
<1>15. Slots(n.data, after, other, new, birth) BY <1>6, <1>13, <1>14 DEF Slots
<1>16. Origin(other) BY <1>3, <1>4, SameIsKept, OriginKept
<1>17. State(n, after, other, new, birth, count) BY <1>3, <1>4, <1>12, <1>15, <1>16 DEF State
<1>18. \A q \in Live(after) : /\ q \in Live(process_array) /\ after[q] = process_array[q]
                              /\ new[process_array[q].paging_root] = pg[process_array[q].paging_root]
  <2>1. \A q \in Live(after) : process_array[q].paging_root \in roots BY <1>9, <1>12, RootsAreRoots
  <2> QED BY <2>1, <1>3, <1>9 DEF RowKept
<1> QED BY <1>3, <1>17, <1>18 DEF n, after

\* destroy_process() keeps the invariant and loses no frame.
LEMMA DestroyLeads ==
    ASSUME NEW use, NEW pg, NEW birth, NEW count, State(memory, process_array, use, pg, birth, count),
           NEW p \in Live(process_array), process_array[p].paging_root # identity_l4_table, Destroy(p)
    PROVE  Kept(use, pg, count)
<1>1. p \in Pid BY DEF Live
<1>2. Kin(birth, p, Family(p)) BY <1>1, StateIsAged, FamilyIsKin
<1> DEFINE list == Family(p)
<1>3. Kin(birth, p, list) BY <1>2
<1>4. memory' = FoldLeft(ReleasePages, memory, list) /\ process_array' = Buried(list)
  BY DEF Destroy, Buried
<1> HIDE DEF list
<1>5. \E other, new :
             /\ State(FoldLeft(ReleasePages, memory, list), Buried(list), other, new, birth, count)
             /\ \A q \in Live(Buried(list)) : /\ q \in Live(process_array) /\ Buried(list)[q] = process_array[q]
                                              /\ new[process_array[q].paging_root] = pg[process_array[q].paging_root]
             /\ LostSame(use, other)
  BY <1>3, FamilyEnds
<1>6. PICK other, new :
        /\ State(memory', process_array', other, new, birth, count) /\ LostSame(use, other)
        /\ \A q \in Live(process_array') : /\ q \in Live(process_array) /\ process_array'[q] = process_array[q]
                                           /\ new[process_array[q].paging_root] = pg[process_array[q].paging_root]
  BY <1>4, <1>5
<1>7. Moves(pg, new) BY <1>6 DEF Moves, Shrinks, RowStays, SlotStays
<1> QED BY <1>6, <1>7, SameIsKept DEF Kept

\* A process that ends does so through destroy_process().
LEMMA EndLeads ==
    ASSUME NEW use, NEW pg, NEW birth, State(memory, process_array, use, pg, birth, forks),
           NEW p \in Pid, End(p)
    PROVE  Kept(use, pg, forks)
<1>1. p \in Live(process_array) /\ p # 0 /\ Destroy(p) BY PresentIsLive DEF End, Entered
<1>2. process_array[p].paging_root # identity_l4_table BY <1>1 DEF State, Slots, KernelFirst
<1> QED BY <1>1, <1>2, DestroyLeads

\* A page fault keeps the invariant and loses no frame.
LEMMA PageFaultLeads ==
    ASSUME NEW use, NEW pg, NEW birth, State(memory, process_array, use, pg, birth, forks),
           NEW p \in Pid, NEW page \in FaultPages, NEW first, PageFault(p, page, first)
    PROVE  Kept(use, pg, forks)
BY FaultLeads, DestroyLeads

-----------------------------------------------------------------------------
(* The memory that the processes start with.                               *)

\* At first the kernel's root is used, what the firmware offers is free, the
\* rest is lost.
FirstUse(a) ==
    [f \in Frame |->
        [kind |-> IF f = identity_l4_table THEN "used" ELSE IF f \in Range(Available) THEN "free" ELSE "lost",
         root |-> identity_l4_table, level |-> LEVELS, index |-> a]]

\* At first no page is mapped.
NoPages == [r \in Frame |-> [a \in Unshared |-> Absent]]

\* The list that init_frame_mapping() builds has what the firmware offers.
LEMMA FirstWords ==
    /\ init_frame_mapping.word \in [Frame -> Int]
    /\ init_frame_mapping.word[identity_l4_table] = 1
    /\ Linked(init_frame_mapping, Available)
<1> DEFINE last == Len(Available)
           word == init_frame_mapping.word
<1>1. Available \in Seq(Frame) /\ \A f \in Range(Available) : f \in Frame /\ f >= kernel_frames
  BY AvailableFrames
<1>2. /\ kernel_frames \in Nat /\ FRAME_COUNT \in Nat /\ kernel_frames < FRAME_COUNT /\ kernel_frames >= 3
      /\ identity_l4_table = 1 /\ identity_l3_table = 2
  BY PagingAssumption DEF PagingAssumption, identity_l4_table, identity_l3_table
<1>3. Available # <<>> /\ IsInjective(Available) /\ Available[1] = kernel_frames
  BY MapAssumption
<1>4. last \in Nat /\ last >= 1 /\ DOMAIN Available = 1..last /\ \A k \in 1..last : Available[k] \in Frame
  BY <1>1, <1>3
<1>15. \A k \in 1..last : k # last => k \in 1..(last - 1) /\ k + 1 \in 1..last
  <2>1. \A n \in Nat : \A k \in 1..n : k # n => k \in 1..(n - 1) /\ k + 1 \in 1..n OBVIOUS
  <2> HIDE DEF last
  <2> QED BY <1>4, <2>1
<1>5. \A k \in 1..last : Available[k] >= kernel_frames BY <1>1, <1>4 DEF Range
<1>6. \A k \in 1..last : (CHOOSE j \in DOMAIN Available : Available[j] = Available[k]) = k
  <2> SUFFICES ASSUME NEW k \in 1..last
               PROVE  (CHOOSE j \in DOMAIN Available : Available[j] = Available[k]) = k
    OBVIOUS
  <2>1. \A j \in DOMAIN Available : Available[j] = Available[k] => j = k BY <1>3, <1>4 DEF IsInjective
  <2> QED BY <2>1, <1>4
<1>7. word = [f \in Frame |->
        IF f \in {identity_l4_table, identity_l3_table} THEN 1
        ELSE IF f < kernel_frames THEN 0
        ELSE IF \E k \in 1..(last - 1) : Available[k] = f
        THEN Available[1 + CHOOSE k \in DOMAIN Available : Available[k] = f]
        ELSE IF f = Available[last] THEN FRAME_COUNT
        ELSE f + 1]
  BY DEF init_frame_mapping
<1> HIDE DEF word
<1> DEFINE Linking(f) == \E k \in 1..(last - 1) : Available[k] = f
<1>14. \A f \in Frame :
         /\ f \notin {identity_l4_table, identity_l3_table} /\ ~(f < kernel_frames) =>
              /\ Linking(f) => word[f] = Available[1 + CHOOSE k \in DOMAIN Available : Available[k] = f]
              /\ ~Linking(f) /\ f = Available[last] => word[f] = FRAME_COUNT
         /\ ~Linking(f) /\ f # Available[last] =>
              word[f] = IF f \in {identity_l4_table, identity_l3_table} THEN 1
                        ELSE IF f < kernel_frames THEN 0 ELSE f + 1
  BY <1>7
<1>8. \A k \in 1..last : word[Available[k]] = IF k = last THEN FRAME_COUNT ELSE Available[k + 1]
  <2> SUFFICES ASSUME NEW k \in 1..last
               PROVE  word[Available[k]] = IF k = last THEN FRAME_COUNT ELSE Available[k + 1]
    OBVIOUS
  <2>1. /\ Available[k] \in Frame /\ Available[k] >= kernel_frames
        /\ Available[k] \notin {identity_l4_table, identity_l3_table} /\ ~(Available[k] < kernel_frames)
    BY <1>2, <1>4, <1>5 DEF Frame
  <2>2. CASE k = last
    <3>1. ~Linking(Available[k]) BY <1>3, <1>4, <2>2 DEF IsInjective
    <3>2. Available[k] = Available[last] BY <2>2
    <3> HIDE DEF Linking
    <3>3. word[Available[k]] = FRAME_COUNT BY <2>1, <3>1, <3>2, <1>14
    <3> QED BY <2>2, <3>3
  <2>3. CASE k # last
    <3>1. k \in 1..(last - 1) BY <1>15, <2>3
    <3>2. word[Available[k]] = Available[1 + CHOOSE j \in DOMAIN Available : Available[j] = Available[k]]
      <4>1. Linking(Available[k]) BY <3>1
      <4> HIDE DEF Linking
      <4> QED BY <2>1, <4>1, <1>14
    <3>3. 1 + k = k + 1 BY <1>4
    <3> QED BY <2>3, <3>2, <3>3, <1>6
  <2> QED BY <2>2, <2>3
<1>9. ASSUME NEW f \in Frame PROVE word[f] \in Int
  <2>1. f \in Int BY DEF Frame
  <2>2. \A k \in 1..last : word[Available[k]] \in Int
    <3> SUFFICES ASSUME NEW k \in 1..last PROVE word[Available[k]] \in Int
      OBVIOUS
    <3>1. CASE k = last
      <4>1. word[Available[k]] = FRAME_COUNT BY <3>1, <1>8
      <4> QED BY <4>1, <1>2
    <3>2. CASE k # last
      <4>1. k + 1 \in 1..last BY <3>2, <1>15
      <4>2. Available[k + 1] \in Int BY <4>1, <1>4 DEF Frame
      <4> QED BY <3>2, <4>2, <1>8
    <3> QED BY <3>1, <3>2
  <2>3. CASE \E k \in 1..last : Available[k] = f BY <2>2, <2>3
  <2>4. CASE ~\E k \in 1..last : Available[k] = f
    <3>1. ~Linking(f) /\ f # Available[last] BY <2>4, <1>4
    <3>2. word[f] = IF f \in {identity_l4_table, identity_l3_table} THEN 1
                    ELSE IF f < kernel_frames THEN 0 ELSE f + 1
      <4> HIDE DEF Linking
      <4> QED BY <3>1, <1>14
    <3> QED BY <3>2, <2>1
  <2> QED BY <2>3, <2>4
<1>10. word \in [Frame -> Int]
  <2>1. word = [f \in Frame |-> word[f]] BY <1>7
  <2> QED BY <2>1, <1>9
<1>11. word[identity_l4_table] = 1 BY <1>7, FrameIsFinite
<1>12. /\ init_frame_mapping.free_frames = last
       /\ init_frame_mapping.first_free_frame_index = kernel_frames
  BY DEF init_frame_mapping
<1>13. Linked(init_frame_mapping, Available)
  BY <1>3, <1>8, <1>12 DEF Linked, word
<1> QED BY <1>10, <1>11, <1>13 DEF word

\* The kernel's root table has one entry, for the tables that all processes
\* share.
LEMMA FirstTables ==
    LET m == init_frame_mapping
    IN  /\ m \in Memory
        /\ \A f \in Frame, i \in Index : m.table[f][i] =
             IF f = identity_l4_table /\ i = 0
             THEN [frame |-> identity_l3_table, flags |-> {PRESENT, RW}] ELSE Absent
<1> DEFINE m == init_frame_mapping
           table == [f \in Frame |-> [i \in Index |->
        IF f = identity_l4_table /\ i = 0
        THEN [frame |-> identity_l3_table, flags |-> {PRESENT, RW}] ELSE Absent]]
<1>1. table \in [Frame -> [Index -> Entry]]
  <2>1. [frame |-> identity_l3_table, flags |-> {PRESENT, RW}] \in Entry BY FrameIsFinite DEF Entry
  <2>2. Absent \in Entry BY FrameIsFinite DEF Absent, Entry
  <2> QED BY <2>1, <2>2
<1>2. Len(Available) \in 0..FRAME_COUNT BY AvailableFrames, MapAssumption, InjectiveLength
<1>3. kernel_frames \in Frame BY PagingAssumption DEF PagingAssumption, Frame
<1>4. [f \in Frame |-> <<>>] \in [Frame -> Seq(Int)] OBVIOUS
<1>5. /\ m.first_free_frame_index = kernel_frames /\ m.free_frames = Len(Available)
      /\ m.table = table /\ m.data = [f \in Frame |-> <<>>]
  BY DEF init_frame_mapping
<1>6. m = [first_free_frame_index |-> m.first_free_frame_index, free_frames |-> m.free_frames,
           word |-> m.word, table |-> m.table, data |-> m.data]
  BY DEF init_frame_mapping
<1>7. m.word \in [Frame -> Int] BY FirstWords
<1>8. \A f \in Frame, i \in Index : m.table[f][i] =
             IF f = identity_l4_table /\ i = 0
             THEN [frame |-> identity_l3_table, flags |-> {PRESENT, RW}] ELSE Absent
  BY <1>5
<1>9. /\ m.first_free_frame_index \in Frame \cup {FRAME_COUNT} /\ m.free_frames \in 0..FRAME_COUNT
      /\ m.table \in [Frame -> [Index -> Entry]] /\ m.data \in [Frame -> Seq(Int)]
  BY <1>1, <1>2, <1>3, <1>4, <1>5
<1> HIDE DEF table, m
<1>10. m \in Memory BY <1>6, <1>7, <1>9 DEF Memory
<1> QED BY <1>8, <1>10 DEF m

\* The first memory is a forest with one root.
LEMMA FirstForest ==
    ASSUME NEW a \in Unshared
    PROVE  /\ Forest(init_frame_mapping, FirstUse(a), NoPages, {identity_l4_table})
           /\ Full(init_frame_mapping, FirstUse(a))
           /\ Origin(FirstUse(a)) /\ NoneLost(FirstUse(a))
<1> DEFINE m == init_frame_mapping
           use == FirstUse(a)
           shared == [frame |-> identity_l3_table, flags |-> {PRESENT, RW}]
<1>1. /\ m \in Memory
      /\ \A f \in Frame, i \in Index :
           m.table[f][i] = IF f = identity_l4_table /\ i = 0 THEN shared ELSE Absent
  BY FirstTables
<1>2. /\ m.word[identity_l4_table] = 1 /\ Linked(m, Available) BY FirstWords
<1>3. /\ Available \in Seq(Frame) /\ \A f \in Range(Available) : f \in Frame /\ f >= kernel_frames
  BY AvailableFrames
<1>4. /\ identity_l4_table \in Frame /\ identity_l3_table \in Frame /\ identity_l4_table # identity_l3_table
      /\ identity_l4_table < kernel_frames /\ Frame \subseteq Nat
  BY FrameIsFinite, PagingAssumption DEF PagingAssumption, identity_l4_table, identity_l3_table
<1>5. /\ a \in Idx /\ LEVELS \in 0..LEVELS /\ LEVELS >= 2 /\ LEVELS \in Nat BY LevelsFact DEF Unshared
<1>6. \A f \in Frame : /\ use[f].kind = IF f = identity_l4_table THEN "used"
                                         ELSE IF f \in Range(Available) THEN "free" ELSE "lost"
                       /\ use[f].root = identity_l4_table /\ use[f].level = LEVELS /\ use[f].index = a
  BY DEF FirstUse
<1>7. use \in [Frame -> Role]
  <2>1. ASSUME NEW f \in Frame
        PROVE  [kind |-> IF f = identity_l4_table THEN "used" ELSE IF f \in Range(Available) THEN "free" ELSE "lost",
                root |-> identity_l4_table, level |-> LEVELS, index |-> a] \in Role
    <3> DEFINE kind == IF f = identity_l4_table THEN "used" ELSE IF f \in Range(Available) THEN "free" ELSE "lost"
    <3>1. kind \in {"free", "lost", "used"} OBVIOUS
    <3> HIDE DEF kind
    <3>2. [kind |-> kind, root |-> identity_l4_table, level |-> LEVELS, index |-> a] \in Role
      BY <3>1, <1>4, <1>5 DEF Role
    <3> QED BY <3>2 DEF kind
  <2> QED BY <2>1 DEF FirstUse
<1>8. identity_l4_table \notin Range(Available)
  <2>1. identity_l4_table \in Nat /\ kernel_frames \in Nat BY <1>4, PagingAssumption DEF PagingAssumption
  <2>2. ~(identity_l4_table >= kernel_frames) BY <2>1, <1>4
  <2> QED BY <2>2, <1>3
<1>9. \A f \in Frame : use[f].kind = "used" <=> f = identity_l4_table BY <1>6
<1>10. \A f \in Frame : use[f].kind = "free" <=> f \in Range(Available) BY <1>6, <1>8
<1> HIDE DEF use, m, shared
<1>11. FreeOK(m, use)
  <2>1. Range(Available) = {f \in Frame : use[f].kind = "free"} BY <1>3, <1>10
  <2> QED BY <2>1, <1>2, <1>3, MapAssumption DEF FreeOK
<1>12. NoPages \in PageMaps /\ \A r \in Frame, b \in Unshared : NoPages[r][b] = Absent
  <2>1. Absent \in Entry BY FrameIsFinite DEF Absent, Entry
  <2> QED BY <2>1 DEF NoPages, PageMaps
<1>13. ForestTypes(m, use, NoPages, {identity_l4_table})
  <2>1. \A f \in Frame : f < kernel_frames => f \notin Range(Available)
    <3> SUFFICES ASSUME NEW f \in Frame, f < kernel_frames, f \in Range(Available) PROVE FALSE
      OBVIOUS
    <3>1. kernel_frames \in Nat /\ f \in Nat BY <1>4, PagingAssumption DEF PagingAssumption
    <3> QED BY <3>1, <1>3
  <2> QED BY <2>1, <1>1, <1>4, <1>6, <1>7, <1>12 DEF ForestTypes
<1>14. RootsOK(m, use, {identity_l4_table})
  <2>1. 0 \in Index BY LevelsFact
  <2> QED BY <2>1, <1>1, <1>4, <1>6 DEF RootsOK, shared
<1>15. Placed(use)
  <2>1. ASSUME NEW f \in Frame, NEW g \in Frame, use[f].kind = "used",
               At(use, g, use[f].root, use[f].level, use[f].index)
        PROVE  f = g
    BY <2>1, <1>9 DEF At
  <2> QED BY <2>1 DEF Placed
<1>16. Absent.flags = {} /\ shared.flags = {PRESENT, RW} BY DEF Absent, shared
<1>17. \A f \in Frame, i \in Index : IsPresent(m, f, i) <=> f = identity_l4_table /\ i = 0
  BY <1>1, <1>16 DEF IsPresent
<1>18. Down(m, use)
  <2>1. ASSUME NEW f \in Frame, NEW b \in Unshared, use[f].kind = "used",
               IsPresent(m, f, b[use[f].level])
        PROVE  FALSE
    <3>1. b[LEVELS] \in Index /\ b[LEVELS] # 0 BY <1>5 DEF Unshared, Idx
    <3> QED BY <3>1, <2>1, <1>6, <1>17
  <2> QED BY <2>1 DEF Down
<1>19. Up(m, use) BY <1>5, <1>6 DEF Up
<1>20. Leaves(m, use, NoPages)
  <2>1. LEVELS # 1 BY <1>5
  <2> QED BY <2>1, <1>6, <1>12 DEF Leaves
<1>21. Counts(m, use)
  <2>1. EntriesOf(m, identity_l4_table) = {0} BY <1>4, <1>17, LevelsFact DEF EntriesOf
  <2>2. Cardinality({0}) = 1 BY FS_Singleton
  <2> QED BY <2>1, <2>2, <1>1, <1>2, <1>9, <1>17 DEF Counts
<1>22. Full(m, use) BY <1>5, <1>6 DEF Full
<1>23. Origin(use) /\ NoneLost(use) BY <1>3, <1>6, <1>8 DEF Origin, NoneLost
<1> QED BY <1>11, <1>13, <1>14, <1>15, <1>18, <1>19, <1>20, <1>21, <1>22, <1>23 DEF Forest, m, use

\* The kernel's process, as init() makes it.
KernelInit(history) ==
    [p \in Pid |-> IF p # 0 THEN Nobody
                   ELSE [Nobody EXCEPT !.is_present = TRUE, !.paging_root = identity_l4_table,
                                       !.private_mapping_history = history]]

\* Its record.
LEMMA KernelInitFacts ==
    ASSUME NEW history \in Histories
    PROVE  LET array == KernelInit(history)
           IN  /\ array \in [Pid -> Slot] /\ Live(array) = {0}
               /\ Roots(array) = {identity_l4_table}
               /\ array[0].paging_root = identity_l4_table /\ array[0].private_mapping_history = history
               /\ array[0].mapping_history = <<>> /\ array[0].father_id = NoProcess
               /\ array[0].level = "system" /\ array[0].module = 0
<1> DEFINE array == KernelInit(history)
           s == [Nobody EXCEPT !.is_present = TRUE, !.paging_root = identity_l4_table,
                               !.private_mapping_history = history]
<1>1. /\ s \in Slot /\ s.is_present /\ s.paging_root = identity_l4_table
      /\ s.private_mapping_history = history /\ s.mapping_history = <<>> /\ s.father_id = NoProcess
      /\ s.level = "system" /\ s.module = 0
  <2>1. Nobody \in Slot BY NobodyIsSlot
  <2>2. identity_l4_table \in Frame BY FrameIsFinite
  <2> QED BY <2>1, <2>2 DEF Slot, Nobody
<1> HIDE DEF s
<1>2. array = [p \in Pid |-> IF p # 0 THEN Nobody ELSE s] BY DEF KernelInit, s
<1>3. 0 \in Pid BY NoSuchPid
<1>4. array \in [Pid -> Slot] /\ array[0] = s /\ \A p \in Pid : p # 0 => array[p] = Nobody
  BY <1>1, <1>2, <1>3, NobodyIsSlot
<1> HIDE DEF array
<1>5. Live(array) = {0} BY <1>1, <1>3, <1>4, NobodyIsSlot DEF Live
<1>6. Roots(array) = {identity_l4_table} BY <1>1, <1>4, <1>5 DEF Roots
<1> QED BY <1>1, <1>4, <1>5, <1>6 DEF array

\* No process is there.
NobodyLives == [p \in Pid |-> Nobody]

\* The only root is then the kernel's.
LEMMA NobodyFacts ==
    /\ NobodyLives \in [Pid -> Slot] /\ Live(NobodyLives) = {}
    /\ Roots(NobodyLives) = {identity_l4_table}
<1>1. Live(NobodyLives) = {} BY NobodyIsSlot DEF Live, NobodyLives
<1> QED BY <1>1, NobodyIsSlot DEF Roots, NobodyLives

\* No process was born.
NoBirths == [p \in Pid |-> 0]

\* The kernel's process gets its stack.
LEMMA FirstStack ==
    ASSUME NEW a \in Unshared, NEW made,
           made = FoldLeft(add_pages, [memory |-> init_frame_mapping, root |-> identity_l4_table,
                                       result |-> "ok", history |-> <<>>], FirstRegions("system")),
           made.result = "ok"
    PROVE  \E other, new :
             /\ State(made.memory, KernelInit(made.history), other, new, NoBirths, 0)
             /\ NoneLost(other)
<1> DEFINE m == init_frame_mapping
           use == FirstUse(a)
           roots == {identity_l4_table}
           r == identity_l4_table
           regions == FirstRegions("system")
           none == <<>>
<1>1. /\ Forest(m, use, NoPages, roots) /\ Full(m, use) /\ Origin(use) /\ NoneLost(use)
  BY FirstForest
<1>2. r \in Frame /\ r \in roots /\ none \in Histories BY FrameIsFinite DEF Histories
<1>3. \A b \in Unshared : NoPages[r][b] = Absent BY <1>2 DEF NoPages
<1>4. Shape(use, NoPages[r], r, none, none, TRUE)
  <2> HIDE DEF use, r
  <2> QED BY <1>3, BareShape
<1>5. FatherShape(use, NoPages[r], r, NoProcess, <<>>, none) BY <1>4 DEF FatherShape
<1>6. FirstOK("system", regions)
  <2>1. "system" \in {"user", "system"} OBVIOUS
  <2> DEFINE level == "system"
  <2> HIDE DEF level
  <2> QED BY <2>1, FirstRegionsFacts DEF level
<1> DEFINE level == "system"
<1>7. PICK other, new :
             /\ Extended(m, use, NoPages, roots, r, made.memory, other, new)
             /\ FatherShape(other, new[r], r, NoProcess, made.history, none)
             /\ Reversed(made.history, regions, Len(regions))
  <2>1. /\ made = FoldLeft(add_pages, [memory |-> m, root |-> r, result |-> "ok", history |-> <<>>], regions)
        /\ FirstOK(level, regions)
    BY <1>6
  <2> HIDE DEF m, use, roots, r, regions, none, level
  <2> QED BY <2>1, <1>1, <1>2, <1>5, FirstAdded
<1>8. /\ made.history \in Histories /\ Rights(made.history, level)
      /\ \E n \in 1..Len(made.history) : made.history[n] = SystemStack
  <2>1. FirstOK(level, regions) /\ Reversed(made.history, regions, Len(regions)) BY <1>6, <1>7
  <2> HIDE DEF level, regions
  <2> QED BY <2>1, FirstRights
<1> DEFINE array == KernelInit(made.history)
           s == array[0]
<1>9. /\ array \in [Pid -> Slot] /\ Live(array) = {0}
      /\ Roots(array) = roots
      /\ s.paging_root = r /\ s.private_mapping_history = made.history
      /\ s.mapping_history = none /\ s.father_id = NoProcess
      /\ s.level = "system" /\ s.module = 0
  BY <1>8, KernelInitFacts
<1> HIDE DEF array, m, use, regions
<1>10. SlotShape(other, new[r], s) BY <1>7, <1>9, SlotIsBorn
<1>11. SlotRights(s)
  <2>1. Rights(none, level) BY DEF Rights
  <2> QED BY <2>1, <1>8, <1>9 DEF SlotRights
<1>12. SlotImage(made.memory.data, new[r], s) BY <1>9 DEF SlotImage
<1>13. SlotFather(array, new, NoBirths, 0) BY <1>9 DEF SlotFather
<1>14. SlotOK(made.memory.data, array, other, new, NoBirths, 0)
  BY <1>9, <1>10, <1>11, <1>12, <1>13 DEF SlotOK
<1>15. Slots(made.memory.data, array, other, new, NoBirths)
  BY <1>9, <1>14 DEF Slots, KernelFirst
<1>16. use \in [Frame -> Role] BY <1>1 DEF Forest, ForestTypes
<1>17. LostSame(use, other)
  <2> HIDE DEF r, roots
  <2> QED BY <1>7, <1>16, ExtendedKeeps
<1>18. Origin(other) /\ NoneLost(other) BY <1>1, <1>17, SameIsKept, OriginKept
<1>19. Forest(made.memory, other, new, Roots(array)) /\ Full(made.memory, other)
  BY <1>7, <1>9 DEF Extended
<1>20. NoBirths \in [Pid -> 0..0] BY DEF NoBirths
<1>21. State(made.memory, array, other, new, NoBirths, 0)
  BY <1>15, <1>18, <1>19, <1>20 DEF State
<1> QED BY <1>18, <1>21 DEF array

\* The invariant before there is a process.
LEMMA NothingLives ==
    ASSUME NEW a \in Unshared
    PROVE  /\ State(init_frame_mapping, NobodyLives, FirstUse(a), NoPages, NoBirths, 0)
           /\ NoneLost(FirstUse(a))
<1>1. /\ Forest(init_frame_mapping, FirstUse(a), NoPages, {identity_l4_table})
      /\ Full(init_frame_mapping, FirstUse(a)) /\ Origin(FirstUse(a)) /\ NoneLost(FirstUse(a))
  BY FirstForest
<1>2. Slots(init_frame_mapping.data, NobodyLives, FirstUse(a), NoPages, NoBirths)
  BY NobodyFacts DEF Slots, KernelFirst
<1>3. NoBirths \in [Pid -> 0..0] BY DEF NoBirths
<1> QED BY <1>1, <1>2, <1>3, NobodyFacts DEF State

\* The invariant holds at first.
LEMMA InitLeads ==
    ASSUME Init
    PROVE  \E use, pg, birth : State(memory, process_array, use, pg, birth, forks) /\ NoneLost(use)
<1> DEFINE made == FoldLeft(add_pages,
                     [memory |-> init_frame_mapping, root |-> identity_l4_table,
                      result |-> "ok", history |-> <<>>], FirstRegions("system"))
<1>1. PICK a \in Unshared : TRUE BY SomeIndex
<1>2. forks = 0 BY DEF Init
<1>3. IF made.result = "ok" THEN memory = made.memory /\ process_array = KernelInit(made.history)
      ELSE memory = init_frame_mapping /\ process_array = NobodyLives
  <2>1. IF made.result = "ok"
        THEN /\ memory = made.memory
             /\ process_array = [p \in Pid |->
                     IF p # 0 THEN Nobody
                     ELSE [Nobody EXCEPT !.is_present = TRUE, !.paging_root = identity_l4_table,
                                         !.private_mapping_history = made.history]]
        ELSE memory = init_frame_mapping /\ process_array = [p \in Pid |-> Nobody]
    <3> HIDE DEF made
    <3> QED BY DEF Init, made
  <2> HIDE DEF made
  <2> QED BY <2>1 DEF KernelInit, NobodyLives
<1>4. CASE made.result = "ok"
  <2>1. made = FoldLeft(add_pages, [memory |-> init_frame_mapping, root |-> identity_l4_table,
                                    result |-> "ok", history |-> <<>>], FirstRegions("system"))
    OBVIOUS
  <2> HIDE DEF made
  <2>2. \E other, new :
             /\ State(made.memory, KernelInit(made.history), other, new, NoBirths, 0)
             /\ NoneLost(other)
    BY <1>1, <1>4, <2>1, FirstStack
  <2> QED BY <2>2, <1>2, <1>3, <1>4
<1>5. CASE made.result # "ok"
  <2> HIDE DEF made
  <2> QED BY <1>1, <1>2, <1>3, <1>5, NothingLives
<1> QED BY <1>4, <1>5

-----------------------------------------------------------------------------
(* The invariant.                                                          *)

\* The types of the counters.
Controls ==
    /\ next_module \in 1..(Len(Modules) + 1)
    /\ forks \in 0..MAX_FORKS
    /\ status \in {"running", "panic", "undefined"}

\* The inductive invariant.
Founded == \E use, pg, birth : State(memory, process_array, use, pg, birth, forks)

\* The inductive invariant, with no frame lost.
Conserving ==
    \E use, pg, birth : State(memory, process_array, use, pg, birth, forks) /\ NoneLost(use)

\* The counters keep their types.
LEMMA ControlsHold == Spec => []Controls
<1>1. MAX_FORKS \in Nat /\ Len(Modules) \in Nat /\ DOMAIN Modules = 1..Len(Modules)
  BY LayoutAssumption
<1>2. Init => Controls
  <2>1. Init => next_module = 1 /\ forks = 0 /\ status \in {"running", "undefined"}
    BY DEF Init
  <2> QED BY <1>1, <2>1 DEF Controls
<1>3. Controls /\ [Next]_vars => Controls'
  <2> SUFFICES ASSUME Controls, [Next]_vars PROVE Controls'
    OBVIOUS
  <2>1. CASE Boot
    <3>1. /\ next_module \in DOMAIN Modules /\ next_module' = next_module + 1 /\ forks' = forks
      BY <2>1 DEF Boot
    <3>2. status' = status \/ status' = "undefined"
      BY <2>1 DEF Boot, create_process
    <3> QED BY <1>1, <3>1, <3>2 DEF Controls
  <2>2. ASSUME NEW p \in Pid, Fork(p) PROVE Controls'
    <3>1. forks < MAX_FORKS /\ forks' = forks + 1 /\ next_module' = next_module BY <2>2 DEF Fork
    <3>2. status' = status \/ status' = "undefined"
      BY <2>2 DEF Fork, create_process
    <3> QED BY <1>1, <3>1, <3>2 DEF Controls
  <2>3. ASSUME NEW p \in Pid, End(p) PROVE Controls'
    BY <2>3 DEF End, Destroy, Controls
  <2>4. ASSUME NEW p \in Pid, NEW page \in FaultPages, NEW first \in BOOLEAN, PageFault(p, page, first)
        PROVE  Controls'
    <3>1. /\ next_module' = next_module /\ forks' = forks
          /\ status' \in {status, "undefined", "panic"}
      BY <2>4 DEF PageFault, Destroy
    <3> QED BY <3>1 DEF Controls
  <2>5. CASE UNCHANGED vars BY <2>5 DEF vars, Controls
  <2> QED BY <2>1, <2>2, <2>3, <2>4, <2>5 DEF Next, Halted
<1> QED BY <1>2, <1>3, PTL DEF Spec

\* What every step does.
LEMMA StepLeads ==
    ASSUME NEW use, NEW pg, NEW birth, State(memory, process_array, use, pg, birth, forks), [Next]_vars
    PROVE  \/ Led(use, pg, forks') /\ (next_module' # next_module \/ forks' # forks)
           \/ Kept(use, pg, forks')
<1>1. CASE Boot
  <2>1. forks' = forks /\ next_module' = next_module + 1 /\ next_module \in DOMAIN Modules BY <1>1 DEF Boot
  <2>2. next_module \in Nat BY <2>1, LayoutAssumption
  <2>3. Led(use, pg, forks) BY <1>1, BootLeads
  <2> QED BY <2>1, <2>2, <2>3
<1>2. ASSUME NEW p \in Pid, Fork(p)
      PROVE  Led(use, pg, forks') /\ forks' # forks
  <2>1. forks' = forks + 1 BY <1>2 DEF Fork
  <2>2. forks \in Nat BY DEF State
  <2>3. Led(use, pg, forks + 1) BY <1>2, ForkLeads
  <2> QED BY <2>1, <2>2, <2>3
<1>3. ASSUME NEW p \in Pid, End(p)
      PROVE  Kept(use, pg, forks')
  <2>1. forks' = forks BY <1>3 DEF End, Destroy
  <2>2. Kept(use, pg, forks) BY <1>3, EndLeads
  <2> QED BY <2>1, <2>2
<1>4. ASSUME NEW p \in Pid, NEW page \in FaultPages, NEW first \in BOOLEAN, PageFault(p, page, first)
      PROVE  Kept(use, pg, forks')
  <2>1. forks' = forks BY <1>4 DEF PageFault, Destroy
  <2>2. Kept(use, pg, forks) BY <1>4, PageFaultLeads
  <2> QED BY <2>1, <2>2
<1>5. CASE UNCHANGED vars
  <2>1. forks' = forks /\ memory' = memory /\ process_array' = process_array BY <1>5 DEF vars
  <2>2. Kept(use, pg, forks) BY <2>1, UnchangedLeads
  <2> QED BY <2>1, <2>2
<1> QED BY <1>1, <1>2, <1>3, <1>4, <1>5 DEF Next, Halted

\* Spec keeps the inductive invariant.
LEMMA FoundedHolds == Spec => []Founded
<1>1. Init => Founded BY InitLeads DEF Founded
<1>2. Founded /\ [Next]_vars => Founded'
  <2> SUFFICES ASSUME Founded, [Next]_vars PROVE Founded'
    OBVIOUS
  <2>1. PICK use, pg, birth : State(memory, process_array, use, pg, birth, forks) BY DEF Founded
  <2>2. Led(use, pg, forks') \/ Kept(use, pg, forks') BY <2>1, StepLeads
  <2>3. \E last, newest, dates : State(memory', process_array', last, newest, dates, forks')
    BY <2>2 DEF Led, Kept
  <2> QED BY <2>3 DEF Founded
<1> QED BY <1>1, <1>2, PTL DEF Spec

\* No frame is lost while every creation succeeds.
LEMMA ConservingHolds == Spec /\ [][Created]_vars => []Conserving
<1>1. Init => Conserving BY InitLeads DEF Conserving
<1>2. Conserving /\ [Next]_vars /\ [Created]_vars => Conserving'
  <2> SUFFICES ASSUME Conserving, [Next]_vars, [Created]_vars PROVE Conserving'
    OBVIOUS
  <2>1. PICK use, pg, birth : State(memory, process_array, use, pg, birth, forks) /\ NoneLost(use)
    BY DEF Conserving
  <2>2. \/ Led(use, pg, forks') /\ (next_module' # next_module \/ forks' # forks)
        \/ Kept(use, pg, forks')
    BY <2>1, StepLeads
  <2>3. CASE Kept(use, pg, forks')
    <3>1. \E last, newest, dates :
            State(memory', process_array', last, newest, dates, forks') /\ NoneLost(last)
      BY <2>1, <2>3 DEF Kept
    <3> QED BY <3>1 DEF Conserving
  <2>4. CASE Led(use, pg, forks') /\ (next_module' # next_module \/ forks' # forks)
    <3>1. Succeeds BY <2>4 DEF Created, vars, Succeeds
    <3>2. \E last, newest, dates :
            State(memory', process_array', last, newest, dates, forks') /\ NoneLost(last)
      BY <2>1, <2>4, <3>1 DEF Led
    <3> QED BY <3>2 DEF Conserving
  <2> QED BY <2>2, <2>3, <2>4
<1> QED BY <1>1, <1>2, PTL DEF Spec

\* A node of an address space is a table or a page of its root, or shared with
\* all.
LEMMA NodeFacts ==
    ASSUME NEW m, NEW use, NEW pg, NEW roots, Forest(m, use, pg, roots), NEW r \in roots,
           NEW k \in 0..LEVELS, NEW x, NodeAt(use, pg, r, k, x)
    PROVE  /\ x.level = k /\ x.frame \in Frame
           /\ k > 0 => \/ x.frame = identity_l3_table
                       \/ /\ use[x.frame].kind = "used" /\ use[x.frame].root = r
                          /\ use[x.frame].level = k
           /\ k = 0 => /\ x.index \in Unshared /\ pg[r][x.index] # Absent
                       /\ pg[r][x.index].frame = x.frame
<1>1. r \in Frame /\ use[r].kind = "used" /\ use[r].root = r /\ use[r].level = LEVELS
  BY RootFacts
<1>2. CASE k = LEVELS /\ x = RootNode(r)
  BY <1>1, <1>2, RootFields, LevelsFact
<1>3. CASE k = LEVELS - 1 /\ x = Node(k, identity_l3_table, Onto(k, 0, <<>>))
  <2>1. k > 0 BY <1>3, LevelsFact
  <2>2. x.frame = identity_l3_table /\ x.level = k BY <1>3, NodeFields
  <2> QED BY <2>1, <2>2, FrameIsFinite
<1>4. CASE k \in 1..(LEVELS - 1) /\ \E a \in Unshared, f \in Frame :
             At(use, f, r, k, a) /\ x = Node(k, f, Cut(a, k))
  <2>1. PICK a \in Unshared, f \in Frame : At(use, f, r, k, a) /\ x = Node(k, f, Cut(a, k))
    BY <1>4
  <2>2. x.frame = f /\ x.level = k BY <2>1, NodeFields
  <2>3. use[f].kind = "used" /\ use[f].root = r /\ use[f].level = k BY <2>1 DEF At
  <2> QED BY <2>2, <2>3, <1>4
<1>5. CASE k = 0 /\ \E a \in Unshared : pg[r][a] # Absent /\ x = Node(0, pg[r][a].frame, a)
  <2>1. PICK a \in Unshared : pg[r][a] # Absent /\ x = Node(0, pg[r][a].frame, a)
    BY <1>5
  <2>2. x.frame = pg[r][a].frame /\ x.level = 0 /\ x.index = a BY <2>1, NodeFields
  <2>3. pg[r][a] \in Entry BY <1>1 DEF Forest, ForestTypes, PageMaps
  <2>4. pg[r][a].frame \in Frame BY <2>3 DEF Entry
  <2> QED BY <2>1, <2>2, <2>4, <1>5
<1> QED BY <1>2, <1>3, <1>4, <1>5 DEF NodeAt

\* What is below a root is what the ghost says.
LEMMA BelowNodes ==
    ASSUME NEW use, NEW pg, NEW birth, NEW count, State(memory, process_array, use, pg, birth, count),
           NEW p \in Present, NEW x
    PROVE  LET r == process_array[p].paging_root
           IN  /\ r \in Roots(process_array) /\ r \in Frame
               /\ x \in Below(r) <=> \E k \in 0..LEVELS : NodeAt(use, pg, r, k, x)
<1>1. p \in Live(process_array) BY PresentIsLive
<1>2. process_array[p].paging_root \in Roots(process_array) /\ process_array[p].paging_root \in Frame
  BY <1>1, SlotFacts
<1>3. Forest(memory, use, pg, Roots(process_array)) BY DEF State
<1>4. x \in Below(process_array[p].paging_root)
        <=> \E k \in 0..LEVELS : NodeAt(use, pg, process_array[p].paging_root, k, x)
  BY <1>2, <1>3, BelowFacts
<1> QED BY <1>2, <1>4

\* The field present_entries counts the entries of a table.
LEMMA CountsEntries ==
    ASSUME NEW use, NEW pg, NEW birth, NEW count, State(memory, process_array, use, pg, birth, count)
    PROVE  EntriesCounted
<1> SUFFICES ASSUME NEW p \in Present, NEW n \in TablesOf(p), n.frame # identity_l3_table
             PROVE  memory.word[n.frame] = Cardinality({i \in Index : IsPresent(memory, n.frame, i)})
  BY DEF EntriesCounted
<1> DEFINE q == process_array[p].paging_root
<1>1. n \in Below(q) /\ n.level > 0 BY DEF TablesOf
<1>2. q \in Roots(process_array) /\ \E k \in 0..LEVELS : NodeAt(use, pg, q, k, n)
  BY <1>1, BelowNodes
<1>3. Forest(memory, use, pg, Roots(process_array)) BY DEF State
<1> HIDE DEF q
<1>4. PICK k \in 0..LEVELS : NodeAt(use, pg, q, k, n) BY <1>2
<1>5. n.level = k /\ n.frame \in Frame
  BY <1>2, <1>3, <1>4, NodeFacts
<1>6. use[n.frame].kind = "used" /\ use[n.frame].level = k
  BY <1>1, <1>2, <1>3, <1>4, <1>5, NodeFacts
<1>7. Counts(memory, use) BY <1>3 DEF Forest
<1>8. memory.word[n.frame] = Cardinality(EntriesOf(memory, n.frame))
  BY <1>1, <1>5, <1>6, <1>7 DEF Counts
<1> QED BY <1>8 DEF EntriesOf

\* The type invariant follows.
LEMMA StateTypes ==
    ASSUME NEW use, NEW pg, NEW birth, NEW count, State(memory, process_array, use, pg, birth, count),
           Controls
    PROVE  TypeOK
<1>1. memory \in Memory BY DEF State, Forest, ForestTypes
<1>2. process_array \in [Pid -> Slot] BY DEF State, Slots
<1>3. \A p \in Pid : /\ process_array[p].father_id \in Pid \cup {NoProcess}
                     /\ process_array[p].level \in {"user", "system"}
                     /\ process_array[p].paging_root \in Frame
  BY <1>2 DEF Slot
<1> QED BY <1>1, <1>3 DEF TypeOK, Controls

\* A history of regions that can be mapped.
RegionsFit(h) == h \in Histories /\ \A n \in 1..Len(h) : RegionOK(h[n])

\* The places of a history are a region and a page in it.
LEMMA PlaceIn ==
    ASSUME NEW h \in Histories
    PROVE  /\ \A place : place \in PlacesIn(h) <=>
                \E n \in 1..Len(h) : \E i \in 0..(h[n].count - 1) : place = <<n, i>>
           /\ \A n, i : IndexAt(h, <<n, i>>) = IndexOf(h[n].page + i)
<1>1. DOMAIN h = 1..Len(h) BY DEF Histories
<1>2. ASSUME NEW place
      PROVE  place \in PlacesIn(h) <=> \E n \in 1..Len(h) : \E i \in 0..(h[n].count - 1) : place = <<n, i>>
  <2>1. place \in PlacesIn(h) <=> \E n \in 1..Len(h) : place \in {n} \X (0..(h[n].count - 1))
    BY <1>1 DEF PlacesIn
  <2>2. ASSUME NEW n \in 1..Len(h)
        PROVE  place \in {n} \X (0..(h[n].count - 1)) <=> \E i \in 0..(h[n].count - 1) : place = <<n, i>>
    <3> DEFINE S == 0..(h[n].count - 1)
    <3> HIDE DEF S
    <3>1. place \in {n} \X S <=> \E i \in S : place = <<n, i>> OBVIOUS
    <3> QED BY <3>1 DEF S
  <2> QED BY <2>1, <2>2
<1>3. ASSUME NEW n, NEW i PROVE IndexAt(h, <<n, i>>) = IndexOf(h[n].page + i)
  BY DEF IndexAt
<1> QED BY <1>2, <1>3

\* The index at a place.
LEMMA RegionAt ==
    ASSUME NEW h, RegionsFit(h), NEW n \in 1..Len(h), NEW i \in 0..(h[n].count - 1)
    PROVE  /\ IndexAt(h, <<n, i>>) = LoopIndex(h[n].page, i)
           /\ IndexAt(h, <<n, i>>) \in RegionIndexes(h[n])
<1>1. RegionOK(h[n]) /\ h \in Histories BY DEF RegionsFit
<1>2. IndexAt(h, <<n, i>>) = IndexOf(h[n].page + i) BY <1>1, PlaceIn
<1>3. LoopIndex(h[n].page, i) = IndexOf(h[n].page + i) BY <1>1 DEF RegionOK
<1>4. LoopIndex(h[n].page, i) \in RegionIndexes(h[n]) BY DEF RegionIndexes, IndexesTo
<1> QED BY <1>2, <1>3, <1>4

\* The indexes of a history are those of its regions.
LEMMA IndexesOfRegions ==
    ASSUME NEW h, RegionsFit(h)
    PROVE  \A a : a \in Indexes(h) <=> \E n \in 1..Len(h) : a \in RegionIndexes(h[n])
<1>1. h \in Histories BY DEF RegionsFit
<1> SUFFICES ASSUME NEW a
             PROVE  a \in Indexes(h) <=> \E n \in 1..Len(h) : a \in RegionIndexes(h[n])
  OBVIOUS
<1>2. ASSUME a \in Indexes(h) PROVE \E n \in 1..Len(h) : a \in RegionIndexes(h[n])
  <2>1. PICK place \in PlacesIn(h) : a = IndexAt(h, place) BY <1>2 DEF Indexes
  <2>2. PICK n \in 1..Len(h) : \E i \in 0..(h[n].count - 1) : place = <<n, i>> BY <1>1, <2>1, PlaceIn
  <2>3. PICK i \in 0..(h[n].count - 1) : place = <<n, i>> BY <2>2
  <2> QED BY <2>1, <2>3, RegionAt
<1>3. ASSUME NEW n \in 1..Len(h), a \in RegionIndexes(h[n]) PROVE a \in Indexes(h)
  <2>1. PICK i \in 0..(h[n].count - 1) : a = LoopIndex(h[n].page, i)
    BY <1>3 DEF RegionIndexes, IndexesTo
  <2>2. a = IndexAt(h, <<n, i>>) BY <2>1, RegionAt
  <2>3. <<n, i>> \in PlacesIn(h) BY <1>1, PlaceIn
  <2> QED BY <2>2, <2>3 DEF Indexes
<1> QED BY <1>2, <1>3

\* What is held of both histories of a process.
HistoryOK(row, h) == RegionsFit(h) /\ Held(row, h, 1..Len(h))

\* Both histories of a process are mapped.
LEMMA BothHistories ==
    ASSUME NEW use, NEW row, NEW s \in Slot, SlotShape(use, row, s)
    PROVE  HistoryOK(row, s.private_mapping_history \o s.mapping_history)
<1> DEFINE a == s.private_mapping_history
           b == s.mapping_history
           c == a \o b
<1>1. a \in Histories /\ b \in Histories BY DEF Slot
<1>2. Held(row, a \o b, 1..(Len(a) + Len(b))) BY SlotRegions
<1> HIDE DEF a, b
<1>3. a \o b \in Histories /\ Len(a \o b) = Len(a) + Len(b) BY <1>1 DEF Histories
<1>4. \A n \in 1..Len(a \o b) : RegionOK((a \o b)[n]) BY <1>2, <1>3 DEF Held
<1>5. HistoryOK(row, a \o b) BY <1>2, <1>3, <1>4 DEF HistoryOK, RegionsFit
<1> QED BY <1>5 DEF a, b

\* No page is at two places of the histories.
LEMMA PlacesApart ==
    ASSUME NEW row, NEW h, HistoryOK(row, h), NEW a \in PlacesIn(h), NEW b \in PlacesIn(h),
           IndexAt(h, a) = IndexAt(h, b)
    PROVE  a = b
<1>1. RegionsFit(h) /\ h \in Histories /\ Held(row, h, 1..Len(h)) BY DEF HistoryOK, RegionsFit
<1>2. PICK n \in 1..Len(h) : \E i \in 0..(h[n].count - 1) : a = <<n, i>> BY <1>1, PlaceIn
<1>3. PICK o \in 1..Len(h) : \E j \in 0..(h[o].count - 1) : b = <<o, j>> BY <1>1, PlaceIn
<1>4. PICK i \in 0..(h[n].count - 1) : a = <<n, i>> BY <1>2
<1>5. PICK j \in 0..(h[o].count - 1) : b = <<o, j>> BY <1>3
<1>6. IndexAt(h, a) \in RegionIndexes(h[n]) /\ IndexAt(h, a) \in RegionIndexes(h[o])
  BY <1>1, <1>4, <1>5, RegionAt
<1>7. n = o BY <1>1, <1>6 DEF Held
<1>8. LoopIndex(h[n].page, i) = LoopIndex(h[n].page, j) BY <1>1, <1>4, <1>5, <1>7, RegionAt
<1>9. i = j BY <1>1, <1>5, <1>7, <1>8 DEF Held
<1> QED BY <1>4, <1>5, <1>7, <1>9

\* The entry of a page has the flags of its region.
LEMMA FlagsAtPlace ==
    ASSUME NEW use, NEW pg, NEW roots, Forest(memory, use, pg, roots), NEW r \in roots,
           NEW h, HistoryOK(pg[r], h), NEW a \in PlacesIn(h)
    PROVE  LET index == IndexAt(h, a)
               table == Walk(memory, r, index)[1]
           IN  memory.table[table][index[1]].flags \ {PRESENT} = h[a[1]].flags
<1> DEFINE index == IndexAt(h, a)
           table == Walk(memory, r, index)[1]
<1>1. RegionsFit(h) /\ h \in Histories /\ Held(pg[r], h, 1..Len(h)) BY DEF HistoryOK, RegionsFit
<1>2. PICK n \in 1..Len(h) : \E i \in 0..(h[n].count - 1) : a = <<n, i>> BY <1>1, PlaceIn
<1> PICK i \in 0..(h[n].count - 1) : a = <<n, i>> BY <1>2
<1>3. index \in RegionIndexes(h[n]) BY <1>1, <1>2, RegionAt
<1>4. RegionOK(h[n]) BY <1>1 DEF RegionsFit
<1>5. index \in Unshared /\ h[n].flags \in SUBSET {RW, USER} BY <1>3, <1>4, RegionFacts
<1> HIDE DEF index
<1>6. pg[r][index] # Absent /\ pg[r][index].flags = MapFlags(h[n].flags)
  BY <1>1, <1>3, <1>5 DEF Held
<1>7. table # NULL /\ pg[r][index] = memory.table[table][index[1]]
  BY <1>5, <1>6, MappedFacts
<1> HIDE DEF table
<1>8. memory.table[table][index[1]].flags \ {PRESENT} = h[n].flags
  <2>1. memory.table[table][index[1]].flags = MapFlags(h[n].flags) BY <1>6, <1>7
  <2>2. MapFlags(h[n].flags) \ {PRESENT} = h[n].flags
    BY <1>5 DEF MapFlags, RW, USER, PRESENT
  <2> QED BY <2>1, <2>2
<1>9. a[1] = n OBVIOUS
<1>10. memory.table[table][index[1]].flags \ {PRESENT} = h[a[1]].flags BY <1>8, <1>9
<1> QED BY <1>10 DEF index, table

\* The leaves below a root are the pages that it maps.
LEMMA PagesBelow ==
    ASSUME NEW use, NEW pg, NEW birth, NEW count, State(memory, process_array, use, pg, birth, count),
           NEW p \in Present
    PROVE  LET r == process_array[p].paging_root
           IN  {n.index : n \in {n \in Below(r) : n.level = 0}} = {a \in Unshared : pg[r][a] # Absent}
<1> DEFINE r == process_array[p].paging_root
<1>1. r \in Roots(process_array) /\ r \in Frame BY BelowNodes
<1>2. \A x : x \in Below(r) <=> \E k \in 0..LEVELS : NodeAt(use, pg, r, k, x) BY BelowNodes
<1>3. Forest(memory, use, pg, Roots(process_array)) BY DEF State
<1> HIDE DEF r
<1>4. ASSUME NEW n \in Below(r), n.level = 0 PROVE n.index \in Unshared /\ pg[r][n.index] # Absent
  <2>1. PICK k \in 0..LEVELS : NodeAt(use, pg, r, k, n) BY <1>2
  <2>2. n.level = k BY <1>1, <1>3, <2>1, NodeFacts
  <2>3. k = 0 BY <1>4, <2>2
  <2> QED BY <1>1, <1>3, <2>1, <2>3, NodeFacts
<1>5. ASSUME NEW a \in Unshared, pg[r][a] # Absent
      PROVE  \E n \in {n \in Below(r) : n.level = 0} : n.index = a
  <2> DEFINE x == Node(0, pg[r][a].frame, a)
  <2>1. x.level = 0 /\ x.index = a BY NodeFields
  <2>2. NodeAt(use, pg, r, 0, x) BY <1>5 DEF NodeAt
  <2> HIDE DEF x
  <2>3. 0 \in 0..LEVELS BY LevelsFact
  <2>4. x \in Below(r) BY <1>2, <2>2, <2>3
  <2> QED BY <2>1, <2>4
<1>6. {n.index : n \in {n \in Below(r) : n.level = 0}} = {a \in Unshared : pg[r][a] # Absent}
  BY <1>4, <1>5
<1> QED BY <1>6 DEF r

\* The histories of a process say what its tables map.
LEMMA MatchesHistories ==
    ASSUME NEW use, NEW pg, NEW birth, NEW count, State(memory, process_array, use, pg, birth, count)
    PROVE  HistoriesMatch
<1> SUFFICES ASSUME NEW p \in Present
             PROVE  LET root == process_array[p].paging_root
                        histories == process_array[p].private_mapping_history
                                       \o process_array[p].mapping_history
                    IN  /\ {n.index : n \in {n \in Below(root) : n.level = 0}} = Indexes(histories)
                        /\ \A a, b \in PlacesIn(histories) :
                             IndexAt(histories, a) = IndexAt(histories, b) => a = b
                        /\ \A a \in PlacesIn(histories) :
                             LET index == IndexAt(histories, a)
                                 table == Walk(memory, root, index)[1]
                             IN  memory.table[table][index[1]].flags \ {PRESENT} = histories[a[1]].flags
  BY DEF HistoriesMatch
<1> DEFINE r == process_array[p].paging_root
           h == process_array[p].private_mapping_history \o process_array[p].mapping_history
<1>1. p \in Live(process_array) BY PresentIsLive
<1>2. process_array[p] \in Slot /\ SlotShape(use, pg[r], process_array[p]) BY <1>1, SlotFacts
<1>3. HistoryOK(pg[r], h) BY <1>2, BothHistories
<1>4. r \in Roots(process_array) BY BelowNodes
<1>5. Forest(memory, use, pg, Roots(process_array)) BY DEF State
<1>6. {n.index : n \in {n \in Below(r) : n.level = 0}} = {a \in Unshared : pg[r][a] # Absent}
  BY PagesBelow
<1> HIDE DEF r, h
<1>7. {a \in Unshared : pg[r][a] # Absent} = Indexes(h)
  <2>1. RegionsFit(h) /\ Held(pg[r], h, 1..Len(h)) BY <1>3 DEF HistoryOK
  <2>2. \A a \in Unshared : pg[r][a] # Absent <=> a \in Indexes(h)
    BY <2>1, IndexesOfRegions DEF Held
  <2>3. \A a \in Indexes(h) : a \in Unshared
    <3>1. SUFFICES ASSUME NEW a \in Indexes(h) PROVE a \in Unshared OBVIOUS
    <3>2. PICK n \in 1..Len(h) : a \in RegionIndexes(h[n]) BY <2>1, <3>1, IndexesOfRegions
    <3>3. RegionOK(h[n]) BY <2>1 DEF RegionsFit
    <3> QED BY <3>2, <3>3, RegionFacts
  <2> QED BY <2>2, <2>3
<1>8. \A a, b \in PlacesIn(h) : IndexAt(h, a) = IndexAt(h, b) => a = b
  BY <1>3, PlacesApart
<1>9. ASSUME NEW a \in PlacesIn(h)
      PROVE  LET index == IndexAt(h, a)
                 table == Walk(memory, r, index)[1]
             IN  memory.table[table][index[1]].flags \ {PRESENT} = h[a[1]].flags
  BY <1>3, <1>4, <1>5, FlagsAtPlace
<1> QED BY <1>6, <1>7, <1>8, <1>9 DEF r, h

\* Whatever create_process(), fork(), extend(), load_module() and destroy_process()
\* have called in whatever order: present_entries counts the entries of each table,
\* and the leaves hold the pages that map() was told to map, at the frames and with
\* the flags it was given, and no others.
THEOREM TablesHold == Spec => []TablesOK
<1>1. Founded /\ Controls => TablesOK
  BY StateTypes, CountsEntries, MatchesHistories DEF Founded, TablesOK
<1> QED BY <1>1, ControlsHold, FoundedHolds, PTL

\* The pages of a process that are its own: those of no father, and the private ones.
OwnPage(s, a) == s.father_id = NoProcess \/ a \in Indexes(s.private_mapping_history)

\* A page is the process's own exactly if the ghost gives its frame to the
\* process.
LEMMA OwnPageIsMine ==
    ASSUME NEW use, NEW row, NEW s \in Slot, SlotShape(use, row, s),
           NEW a \in Unshared, row[a] # Absent
    PROVE  /\ OwnPage(s, a) => At(use, row[a].frame, s.paging_root, 0, a)
           /\ At(use, row[a].frame, s.paging_root, 0, a) => OwnPage(s, a)
<1> DEFINE private == s.private_mapping_history
           mapping == s.mapping_history
           h == private \o mapping
           r == s.paging_root
           i == Len(private)
           j == Len(private) + Len(mapping)
           first == 1..i
           others == (i + 1)..j
<1>1. private \in Histories /\ mapping \in Histories BY DEF Slot
<1>2. /\ Held(row, h, 1..j) /\ Mine(use, row, r, h, first)
      /\ s.father_id = NoProcess => Mine(use, row, r, h, others)
      /\ s.father_id # NoProcess => NotMine(use, r, h, others)
  BY DEF SlotShape, Shape
<1>3. \A n \in 1..Len(private) : RegionOK(private[n]) BY SlotRegions
<1>4. RegionsFit(private) BY <1>1, <1>3 DEF RegionsFit
<1> HIDE DEF private, mapping
<1>5. i \in Nat /\ j \in Nat /\ i <= j /\ \A n \in 1..i : h[n] = private[n]
  BY <1>1 DEF Histories
<1> HIDE DEF h, i, j, r
<1>6. PICK n \in 1..j : a \in RegionIndexes(h[n]) BY <1>2 DEF Held
<1>7. CASE n \in first
  <2>1. At(use, row[a].frame, r, 0, a) BY <1>2, <1>6, <1>7 DEF Mine
  <2>2. n \in 1..Len(private) /\ a \in RegionIndexes(private[n]) BY <1>5, <1>6, <1>7 DEF i
  <2>3. a \in Indexes(private) BY <1>4, <2>2, IndexesOfRegions
  <2> QED BY <2>1, <2>3 DEF OwnPage, private, r
<1>8. CASE n \notin first
  <2>1. n \in others BY <1>5, <1>6, <1>8
  <2>2. CASE s.father_id = NoProcess
    <3>1. At(use, row[a].frame, r, 0, a) BY <1>2, <1>6, <2>1, <2>2 DEF Mine
    <3> QED BY <2>2, <3>1 DEF OwnPage, r
  <2>3. CASE s.father_id # NoProcess
    <3>1. ~At(use, row[a].frame, r, 0, a) BY <1>2, <1>6, <2>1, <2>3 DEF NotMine
    <3>2. a \notin Indexes(private)
      <4>1. SUFFICES ASSUME a \in Indexes(private) PROVE FALSE OBVIOUS
      <4>2. PICK o \in 1..Len(private) : a \in RegionIndexes(private[o])
        BY <1>4, <4>1, IndexesOfRegions
      <4>3. o \in 1..j /\ o \in first /\ a \in RegionIndexes(h[o]) BY <1>5, <4>2 DEF i
      <4>4. RegionIndexes(h[n]) \cap RegionIndexes(h[o]) # {} BY <1>6, <4>3
      <4>5. n = o BY <1>2, <4>3, <4>4 DEF Held
      <4> QED BY <1>8, <4>3, <4>5
    <3> QED BY <2>3, <3>1, <3>2 DEF OwnPage, private, r
  <2> QED BY <2>2, <2>3
<1> QED BY <1>7, <1>8

\* The node that a used frame is.
NodeOf(use, f) ==
    IF use[f].level = LEVELS THEN RootNode(f)
    ELSE Node(use[f].level, f, Cut(use[f].index, use[f].level))

\* The frame is used by root r.
UsedBy(use, f, r) == f \in Frame /\ use[f].kind = "used" /\ use[f].root = r

\* The nodes below the root of a process that are its own are the frames it uses.
LEMMA OwnNodeIsUsed ==
    ASSUME NEW m, NEW use, NEW pg, NEW roots, Forest(m, use, pg, roots),
           NEW s \in Slot, s.paging_root \in roots, SlotShape(use, pg[s.paging_root], s),
           NEW k \in 0..LEVELS, NEW x, NodeAt(use, pg, s.paging_root, k, x),
           x.frame >= kernel_frames, x.level > 0 \/ OwnPage(s, x.index)
    PROVE  UsedBy(use, x.frame, s.paging_root) /\ x = NodeOf(use, x.frame)
<1> DEFINE r == s.paging_root
<1>1. r \in Frame /\ use[r].kind = "used" /\ use[r].root = r /\ use[r].level = LEVELS
  BY RootFacts
<1>2. x.level = k /\ x.frame \in Frame BY NodeFacts
<1>3. \A f \in Frame : use[f].index \in Idx /\ use[f].level \in 0..LEVELS BY ForestFacts
<1>4. CASE k = LEVELS /\ x = RootNode(r)
  <2>1. x.frame = r BY <1>4, RootFields
  <2> QED BY <1>1, <1>4, <2>1 DEF NodeOf, UsedBy
<1>5. CASE k = LEVELS - 1 /\ x = Node(k, identity_l3_table, Onto(k, 0, <<>>))
  <2>1. x.frame = 2 BY <1>5, NodeFields DEF identity_l3_table
  <2> QED BY <2>1, PagingAssumption
<1>6. CASE k \in 1..(LEVELS - 1) /\ \E a \in Unshared, f \in Frame :
             At(use, f, r, k, a) /\ x = Node(k, f, Cut(a, k))
  <2>1. PICK a \in Unshared, f \in Frame : At(use, f, r, k, a) /\ x = Node(k, f, Cut(a, k))
    BY <1>6
  <2>2. x.frame = f BY <2>1, NodeFields
  <2>3. /\ use[f].kind = "used" /\ use[f].root = r /\ use[f].level = k
        /\ SameAbove(use[f].index, a, k) BY <2>1 DEF At
  <2>4. Cut(a, k) = Cut(use[f].index, k)
    <3>1. a \in Idx /\ use[f].index \in Idx BY <1>3, IndexFacts
    <3> QED BY <2>3, <3>1, CutFacts
  <2>5. k # LEVELS BY <1>6, LevelsFact
  <2> QED BY <2>1, <2>2, <2>3, <2>4, <2>5 DEF NodeOf, UsedBy
<1>7. CASE k = 0 /\ \E a \in Unshared : pg[r][a] # Absent /\ x = Node(0, pg[r][a].frame, a)
  <2>1. PICK a \in Unshared : pg[r][a] # Absent /\ x = Node(0, pg[r][a].frame, a) BY <1>7
  <2>2. x.frame = pg[r][a].frame /\ x.index = a BY <2>1, NodeFields
  <2>3. OwnPage(s, a) BY <1>2, <1>7, <2>2
  <2>4. At(use, x.frame, r, 0, a) BY <2>1, <2>2, <2>3, OwnPageIsMine
  <2>5. /\ use[x.frame].kind = "used" /\ use[x.frame].root = r /\ use[x.frame].level = 0
        /\ SameAbove(use[x.frame].index, a, 0) BY <2>4 DEF At
  <2>6. use[x.frame].index = a
    <3>1. a \in Idx /\ use[x.frame].index \in Idx BY <1>2, <1>3, IndexFacts
    <3> QED BY <2>5, <3>1, PlaceFacts
  <2>7. Cut(a, 0) = a BY CutFacts, IndexFacts
  <2>8. x = Node(0, x.frame, Cut(use[x.frame].index, 0)) BY <2>1, <2>2, <2>6, <2>7
  <2>9. 0 # LEVELS BY LevelsFact
  <2> QED BY <1>2, <2>5, <2>8, <2>9 DEF NodeOf, UsedBy
<1> QED BY <1>4, <1>5, <1>6, <1>7 DEF NodeAt

\* A frame that a process uses is a node of it.
LEMMA UsedIsOwnNode ==
    ASSUME NEW m, NEW use, NEW pg, NEW roots, Forest(m, use, pg, roots),
           NEW s \in Slot, s.paging_root \in roots, SlotShape(use, pg[s.paging_root], s),
           NEW f, UsedBy(use, f, s.paging_root)
    PROVE  LET x == NodeOf(use, f)
           IN  /\ \E k \in 0..LEVELS : NodeAt(use, pg, s.paging_root, k, x)
               /\ x.frame = f
               /\ x.level > 0 \/ OwnPage(s, x.index)
<1> DEFINE r == s.paging_root
           x == NodeOf(use, f)
           a == use[f].index
           k == use[f].level
<1>1. f \in Frame /\ use[f].kind = "used" /\ use[f].root = r BY DEF UsedBy
<1>2. /\ k \in 0..LEVELS /\ At(use, f, r, k, a) /\ a \in Idx
      /\ (k = LEVELS => f = r)
  BY <1>1, ForestFacts
<1>3. a \in Unshared BY <1>1 DEF Forest, ForestTypes
<1> HIDE DEF a, k
<1>4. CASE k = LEVELS
  <2>1. x = RootNode(r) BY <1>2, <1>4 DEF NodeOf, k
  <2>2. x.frame = f /\ x.level = LEVELS BY <1>2, <1>4, <2>1, RootFields
  <2>3. NodeAt(use, pg, r, LEVELS, x) BY <2>1 DEF NodeAt
  <2>4. LEVELS \in 0..LEVELS /\ LEVELS > 0 BY LevelsFact
  <2> QED BY <2>2, <2>3, <2>4
<1>5. CASE k # LEVELS /\ k > 0
  <2>1. x = Node(k, f, Cut(a, k)) BY <1>5 DEF NodeOf, k, a
  <2>2. x.frame = f /\ x.level = k BY <2>1, NodeFields
  <2>3. k \in 1..(LEVELS - 1) BY <1>2, <1>5, LevelsFact
  <2>4. NodeAt(use, pg, r, k, x) BY <1>1, <1>2, <1>3, <2>1, <2>3 DEF NodeAt
  <2> QED BY <1>2, <1>5, <2>2, <2>4
<1>6. CASE k = 0
  <2>1. x = Node(0, f, Cut(a, 0))
    <3>1. k # LEVELS BY <1>6, LevelsFact
    <3> QED BY <1>6, <3>1 DEF NodeOf, k, a
  <2>2. Cut(a, 0) = a BY <1>2, CutFacts
  <2>3. x = Node(0, f, a) BY <2>1, <2>2
  <2>4. x.frame = f /\ x.index = a BY <2>3, NodeFields
  <2>5. At(use, f, r, 0, a) BY <1>2, <1>6
  <2>6. pg[r][a].frame = f /\ pg[r][a] # Absent BY <1>3, <2>5, PageIsLeaf
  <2>7. NodeAt(use, pg, r, 0, x) BY <1>3, <2>3, <2>6 DEF NodeAt
  <2>8. OwnPage(s, a) BY <1>3, <2>5, <2>6, OwnPageIsMine
  <2>9. 0 \in 0..LEVELS BY LevelsFact
  <2> QED BY <2>4, <2>7, <2>8, <2>9
<1> QED BY <1>2, <1>4, <1>5, <1>6

\* A node and its process.
Owner(p, x) == [process |-> p, node |-> x]

\* Its fields.
LEMMA OwnerFields ==
    ASSUME NEW p, NEW x
    PROVE  Owner(p, x).process = p /\ Owner(p, x).node = x
BY DEF Owner

\* What is owned, without the set constructions.
LEMMA OwnedIs ==
    \A o : o \in Owned <=> \E p \in Present : \E x \in Below(process_array[p].paging_root) :
        /\ x.frame >= kernel_frames /\ (x.level > 0 \/ OwnPage(process_array[p], x.index))
        /\ o = Owner(p, x)
BY DEF Owned, OwnPage, Owner

\* What is owned are the used frames, each as the node it is.
LEMMA OwnedAreUsed ==
    ASSUME NEW use, NEW pg, NEW birth, NEW count, State(memory, process_array, use, pg, birth, count)
    PROVE  \A o : o \in Owned <=> \E p \in Present, f \in Frame :
             /\ UsedBy(use, f, process_array[p].paging_root) /\ f >= kernel_frames
             /\ o = Owner(p, NodeOf(use, f))
<1>1. Forest(memory, use, pg, Roots(process_array)) BY DEF State
<1>2. ASSUME NEW p \in Present
      PROVE  /\ process_array[p] \in Slot /\ process_array[p].paging_root \in Roots(process_array)
             /\ SlotShape(use, pg[process_array[p].paging_root], process_array[p])
  BY SlotFacts, PresentIsLive
<1>3. ASSUME NEW o \in Owned
      PROVE  \E p \in Present, f \in Frame :
               /\ UsedBy(use, f, process_array[p].paging_root) /\ f >= kernel_frames
               /\ o = Owner(p, NodeOf(use, f))
  <2>1. PICK p \in Present : \E x \in Below(process_array[p].paging_root) :
          /\ x.frame >= kernel_frames /\ (x.level > 0 \/ OwnPage(process_array[p], x.index))
          /\ o = Owner(p, x)
    BY OwnedIs
  <2>2. PICK x \in Below(process_array[p].paging_root) :
          /\ x.frame >= kernel_frames /\ (x.level > 0 \/ OwnPage(process_array[p], x.index))
          /\ o = Owner(p, x)
    BY <2>1
  <2>3. PICK k \in 0..LEVELS : NodeAt(use, pg, process_array[p].paging_root, k, x) BY BelowNodes
  <2> DEFINE s == process_array[p]
  <2>4. s \in Slot /\ s.paging_root \in Roots(process_array) /\ SlotShape(use, pg[s.paging_root], s)
    BY <1>2
  <2> HIDE DEF s
  <2>5. UsedBy(use, x.frame, s.paging_root) /\ x = NodeOf(use, x.frame)
    BY <1>1, <2>2, <2>3, <2>4, OwnNodeIsUsed DEF s
  <2>6. x.frame \in Frame BY <2>5 DEF UsedBy
  <2> QED BY <2>2, <2>5, <2>6 DEF s
<1>4. ASSUME NEW p \in Present, NEW f \in Frame, UsedBy(use, f, process_array[p].paging_root),
             f >= kernel_frames
      PROVE  Owner(p, NodeOf(use, f)) \in Owned
  <2> DEFINE s == process_array[p]
             x == NodeOf(use, f)
  <2>1. s \in Slot /\ s.paging_root \in Roots(process_array) /\ SlotShape(use, pg[s.paging_root], s)
    BY <1>2
  <2> HIDE DEF s
  <2>2. UsedBy(use, f, s.paging_root) BY <1>4 DEF s
  <2>3. /\ \E k \in 0..LEVELS : NodeAt(use, pg, s.paging_root, k, x)
        /\ x.frame = f
        /\ x.level > 0 \/ OwnPage(s, x.index)
    BY <1>1, <2>1, <2>2, UsedIsOwnNode
  <2> HIDE DEF x
  <2>4. x \in Below(process_array[p].paging_root) BY <2>3, BelowNodes DEF s
  <2>5. Owner(p, x) \in Owned BY <1>4, <2>3, <2>4, OwnedIs DEF s
  <2> QED BY <2>5 DEF x
<1> QED BY <1>3, <1>4

\* No frame is owned twice, or owned and free.
LEMMA FramesAreApart ==
    ASSUME NEW use, NEW pg, NEW birth, NEW count, State(memory, process_array, use, pg, birth, count)
    PROVE  FramesApart /\ Range(FreeList) = {f \in Frame : use[f].kind = "free"}
<1>1. FreeOK(memory, use) BY DEF State, Forest
<1>2. PICK list \in Seq(Frame) : /\ Linked(memory, list) /\ IsInjective(list)
                                 /\ Range(list) = {f \in Frame : use[f].kind = "free"}
  BY <1>1 DEF FreeOK
<1>3. FreeList = list BY <1>2, FreeListFacts
<1>4. memory.free_frames = Len(list) BY <1>2 DEF Linked
<1>5. Forest(memory, use, pg, Roots(process_array)) BY DEF State
<1>6. ASSUME NEW o \in Owned
      PROVE  \E p \in Present : \E f \in Frame :
               /\ UsedBy(use, f, process_array[p].paging_root)
               /\ o.node.frame = f /\ o = Owner(p, NodeOf(use, f))
  <2>1. PICK p \in Present, f \in Frame :
          /\ UsedBy(use, f, process_array[p].paging_root) /\ f >= kernel_frames
          /\ o = Owner(p, NodeOf(use, f))
    BY OwnedAreUsed
  <2> DEFINE s == process_array[p]
  <2>2. s \in Slot /\ s.paging_root \in Roots(process_array) /\ SlotShape(use, pg[s.paging_root], s)
    BY SlotFacts, PresentIsLive
  <2> HIDE DEF s
  <2>3. UsedBy(use, f, s.paging_root) BY <2>1 DEF s
  <2>4. NodeOf(use, f).frame = f BY <1>5, <2>2, <2>3, UsedIsOwnNode
  <2>5. o.node = NodeOf(use, f) BY <2>1, OwnerFields
  <2> QED BY <2>1, <2>4, <2>5
<1>7. Range(list) \cap {o.node.frame : o \in Owned} = {}
  <2>1. SUFFICES ASSUME NEW o \in Owned, o.node.frame \in Range(list) PROVE FALSE OBVIOUS
  <2>2. PICK p \in Present, f \in Frame : UsedBy(use, f, process_array[p].paging_root) /\ o.node.frame = f
    BY <1>6
  <2> QED BY <1>2, <2>1, <2>2 DEF UsedBy
<1>8. ASSUME NEW o \in Owned, NEW other \in Owned, o.node.frame = other.node.frame
      PROVE  o = other
  <2>1. PICK p \in Present : \E f \in Frame : /\ UsedBy(use, f, process_array[p].paging_root)
                                              /\ o.node.frame = f /\ o = Owner(p, NodeOf(use, f))
    BY <1>6
  <2>2. PICK f \in Frame : /\ UsedBy(use, f, process_array[p].paging_root)
                           /\ o.node.frame = f /\ o = Owner(p, NodeOf(use, f))
    BY <2>1
  <2>3. PICK q \in Present : \E g \in Frame : /\ UsedBy(use, g, process_array[q].paging_root)
                                              /\ other.node.frame = g /\ other = Owner(q, NodeOf(use, g))
    BY <1>6
  <2>4. PICK g \in Frame : /\ UsedBy(use, g, process_array[q].paging_root)
                           /\ other.node.frame = g /\ other = Owner(q, NodeOf(use, g))
    BY <2>3
  <2>5. f = g BY <1>8, <2>2, <2>4
  <2>6. process_array[p].paging_root = process_array[q].paging_root
    BY <2>2, <2>4, <2>5 DEF UsedBy
  <2>7. p \in Live(process_array) /\ q \in Live(process_array) BY PresentIsLive
  <2>8. p = q BY <2>6, <2>7 DEF State, Slots
  <2> QED BY <2>2, <2>4, <2>5, <2>8
<1>9. /\ IsInjective(list) /\ memory.free_frames = Len(list)
      /\ Range(list) \cap {o.node.frame : o \in Owned} = {}
      /\ \A o, other \in Owned : o.node.frame = other.node.frame => o = other
  BY <1>2, <1>4, <1>7, <1>8
<1>10. FramesApart BY <1>3, <1>9 DEF FramesApart
<1> QED BY <1>2, <1>3, <1>10

\* phisical_memory_allocator never hands out a frame that a table or a page still
\* uses, and unmap() and destroy() never give one back twice: no frame is both free
\* and in use, or in use at two places.
THEOREM FramesStayApart == Spec => []FramesApart
<1>1. Founded => FramesApart BY FramesAreApart DEF Founded
<1> QED BY <1>1, FoundedHolds, PTL

\* The kernel's process is there as long as the kernel runs.
KernelRuns(array, state) ==
    state = "running" => 0 \in Live(array) /\ array[0].paging_root = identity_l4_table

\* It stays when another slot is filled.
LEMMA KernelStays ==
    ASSUME NEW array \in [Pid -> Slot], NEW state, KernelRuns(array, state), state = "running",
           NEW after, NEW slot \in Pid \ Live(array), NEW s, after = [array EXCEPT ![slot] = s],
           NEW later
    PROVE  KernelRuns(after, later)
<1>1. 0 \in Live(array) /\ array[0].paging_root = identity_l4_table BY DEF KernelRuns
<1>2. 0 # slot BY <1>1
<1>3. after[0] = array[0] /\ 0 \in Pid BY <1>2, NoSuchPid
<1> QED BY <1>1, <1>3 DEF KernelRuns, Live

\* It is there at first.
LEMMA KernelInitRuns ==
    ASSUME Init
    PROVE  KernelRuns(process_array, status)
<1> DEFINE made == FoldLeft(add_pages,
                     [memory |-> init_frame_mapping, root |-> identity_l4_table,
                      result |-> "ok", history |-> <<>>], FirstRegions("system"))
<1>1. CASE made.result = "ok"
  <2>1. process_array = [p \in Pid |->
                     IF p # 0 THEN Nobody
                     ELSE [Nobody EXCEPT !.is_present = TRUE, !.paging_root = identity_l4_table,
                                         !.private_mapping_history = made.history]]
    BY <1>1 DEF Init
  <2> HIDE DEF made
  <2>2. process_array[0].is_present /\ process_array[0].paging_root = identity_l4_table
    BY <2>1, NoSuchPid DEF Nobody
  <2> QED BY <2>2, NoSuchPid DEF KernelRuns, Live
<1>2. CASE made.result # "ok"
  <2>1. status = "undefined" BY <1>2 DEF Init
  <2> QED BY <2>1 DEF KernelRuns
<1> QED BY <1>1, <1>2

\* It stays when a process is created.
LEMMA KernelCreates ==
    ASSUME process_array \in [Pid -> Slot], KernelRuns(process_array, status), status = "running",
           NEW m, NEW r, NEW level, NEW father, NEW history, NEW module,
           create_process(m, r, level, father, history, module)
    PROVE  KernelRuns(process_array', status')
<1> DEFINE made == FoldLeft(add_pages,
                  [memory |-> m, root |-> r, result |-> "ok", history |-> <<>>],
                  FirstRegions(level))
           Fill(slot) == [process_array EXCEPT ![slot] =
                       [is_present |-> TRUE, father_id |-> father, level |-> level,
                        module |-> module, paging_root |-> r, mapping_history |-> history,
                        private_mapping_history |-> made.history]]
<1>1. \/ UNCHANGED <<process_array, status>>
      \/ status' = "undefined"
      \/ \E slot \in Pid \ Present : process_array' = Fill(slot)
  BY DEF create_process
<1>2. CASE UNCHANGED <<process_array, status>> BY <1>2
<1>3. CASE status' = "undefined" BY <1>3 DEF KernelRuns
<1>4. CASE \E slot \in Pid \ Present : process_array' = Fill(slot)
  <2>1. PICK slot \in Pid \ Present : process_array' = Fill(slot) BY <1>4
  <2>2. slot \in Pid \ Live(process_array) BY PresentIsLive
  <2> HIDE DEF made
  <2>3. KernelRuns(process_array', status') BY <2>1, <2>2, KernelStays
  <2> QED BY <2>3
<1> QED BY <1>1, <1>2, <1>3, <1>4

\* It stays when a process is destroyed.
LEMMA KernelOutlives ==
    ASSUME NEW use, NEW pg, NEW birth, NEW count, State(memory, process_array, use, pg, birth, count),
           KernelRuns(process_array, status),
           NEW p \in Live(process_array), process_array[p].paging_root # identity_l4_table, Destroy(p)
    PROVE  KernelRuns(process_array', status')
<1>1. status' = status BY DEF Destroy
<1> SUFFICES ASSUME status = "running"
             PROVE  0 \in Live(process_array') /\ process_array'[0].paging_root = identity_l4_table
  BY <1>1 DEF KernelRuns
<1>2. 0 \in Live(process_array) /\ process_array[0].paging_root = identity_l4_table BY DEF KernelRuns
<1>3. p \in Pid BY SlotFacts
<1>4. Kin(birth, p, Family(p)) BY <1>3, StateIsAged, FamilyIsKin
<1>5. process_array[0].father_id = NoProcess BY <1>2, SlotFacts DEF SlotRights
<1> DEFINE list == Family(p)
<1>6. process_array' = [q \in Pid |->
            IF \E n \in DOMAIN list : list[n] = q THEN Nobody ELSE process_array[q]]
  BY DEF Destroy
<1> HIDE DEF list
<1>7. list \in Seq(Pid) /\ Kin(birth, p, list) BY <1>4 DEF Kin, list
<1>8. 0 \notin Range(list)
  <2>1. SUFFICES ASSUME 0 \in Range(list) PROVE FALSE OBVIOUS
  <2>2. 0 # p BY <1>2
  <2>3. process_array[0].father_id \in Range(list) BY <1>7, <2>1, <2>2 DEF Kin
  <2>4. Range(list) \subseteq Pid BY <1>7 DEF Range
  <2> QED BY <1>5, <2>3, <2>4, NoSuchPid
<1>9. ~ \E n \in DOMAIN list : list[n] = 0 BY <1>8 DEF Range
<1>10. process_array'[0] = process_array[0] BY <1>6, <1>9, NoSuchPid
<1> QED BY <1>2, <1>10 DEF Live

\* It stays when a page fault is handled.
LEMMA KernelFaults ==
    ASSUME NEW use, NEW pg, NEW birth, State(memory, process_array, use, pg, birth, forks),
           KernelRuns(process_array, status), status = "running",
           NEW p \in Pid, NEW page \in FaultPages, NEW first, PageFault(p, page, first)
    PROVE  KernelRuns(process_array', status')
<1> DEFINE grown == add_pages([memory |-> memory, root |-> process_array[p].paging_root, result |-> "ok",
                            history |-> process_array[p].private_mapping_history],
                           Region(page, 1, {RW, USER}))
<1>1. /\ p \in Present
      /\ \/ process_array' = [process_array EXCEPT ![p].private_mapping_history = grown.history]
         \/ status' = "undefined" \/ status' = "panic"
         \/ process_array[p].level # "system" /\ Destroy(p)
  BY DEF PageFault, Entered
<1>2. p \in Live(process_array) BY <1>1, PresentIsLive
<1> HIDE DEF grown
<1>3. CASE process_array' = [process_array EXCEPT ![p].private_mapping_history = grown.history]
  <2>1. process_array \in [Pid -> Slot] BY DEF State, Slots
  <2>2. 0 \in Live(process_array) /\ process_array[0].paging_root = identity_l4_table BY DEF KernelRuns
  <2>3. 0 \in Pid /\ process_array[0] \in Slot BY <2>1, NoSuchPid
  <2>4. process_array'[0].is_present = process_array[0].is_present
        /\ process_array'[0].paging_root = process_array[0].paging_root
    BY <1>3, <2>1, <2>3 DEF Slot
  <2> QED BY <2>2, <2>4 DEF KernelRuns, Live
<1>4. CASE status' = "undefined" \/ status' = "panic" BY <1>4 DEF KernelRuns
<1>5. CASE process_array[p].level # "system" /\ Destroy(p)
  <2>1. process_array[p].paging_root # identity_l4_table BY <1>2, <1>5, SlotFacts DEF SlotRights
  <2> QED BY <1>2, <1>5, <2>1, KernelOutlives
<1> QED BY <1>1, <1>3, <1>4, <1>5

\* It stays in every step.
LEMMA KernelSteps ==
    ASSUME NEW use, NEW pg, NEW birth, State(memory, process_array, use, pg, birth, forks),
           KernelRuns(process_array, status), [Next]_vars
    PROVE  KernelRuns(process_array', status')
<1>1. process_array \in [Pid -> Slot] BY DEF State, Slots
<1>2. CASE UNCHANGED vars BY <1>2 DEF vars
<1>3. CASE Boot
  <2>1. status = "running" BY <1>3 DEF Boot
  <2>2. \/ UNCHANGED process_array /\ (UNCHANGED status \/ status' = "undefined")
        \/ \E m, r, level, father, history, module :
             create_process(m, r, level, father, history, module)
    BY <1>3 DEF Boot
  <2>3. CASE \E m, r, level, father, history, module :
               create_process(m, r, level, father, history, module)
    BY <1>1, <2>1, <2>3, KernelCreates
  <2>4. CASE UNCHANGED process_array /\ (UNCHANGED status \/ status' = "undefined")
    BY <2>1, <2>4 DEF KernelRuns
  <2> QED BY <2>2, <2>3, <2>4
<1>4. ASSUME NEW p \in Pid, Fork(p) PROVE KernelRuns(process_array', status')
  <2>1. status = "running" BY <1>4 DEF Fork, Entered
  <2>2. \/ status' = "undefined"
        \/ \E m, r, level, father, history, module :
             create_process(m, r, level, father, history, module)
    BY <1>4 DEF Fork
  <2>3. CASE \E m, r, level, father, history, module :
               create_process(m, r, level, father, history, module)
    BY <1>1, <2>1, <2>3, KernelCreates
  <2>4. CASE status' = "undefined" BY <2>4 DEF KernelRuns
  <2> QED BY <2>2, <2>3, <2>4
<1>5. ASSUME NEW p \in Pid, End(p) PROVE KernelRuns(process_array', status')
  <2>1. p # 0 /\ p \in Live(process_array) /\ Destroy(p) BY <1>5, PresentIsLive DEF End, Entered
  <2>2. process_array[p].paging_root # identity_l4_table BY <2>1 DEF State, Slots, KernelFirst
  <2> QED BY <2>1, <2>2, KernelOutlives
<1>6. ASSUME NEW p \in Pid, NEW page \in FaultPages, NEW first \in BOOLEAN, PageFault(p, page, first)
      PROVE  KernelRuns(process_array', status')
  <2>1. status = "running" BY <1>6 DEF PageFault, Entered
  <2> QED BY <1>6, <2>1, KernelFaults
<1>7. CASE Halted BY <1>7 DEF Halted, vars
<1> QED BY <1>2, <1>3, <1>4, <1>5, <1>6, <1>7 DEF Next

\* What the firmware offers is free or owned.
Conserved == Range(Available) = Range(FreeList) \cup {o.node.frame : o \in Owned}

\* If the ghost loses no frame, all are free or owned.
LEMMA NoneIsLost ==
    ASSUME NEW use, NEW pg, NEW birth, NEW count, State(memory, process_array, use, pg, birth, count),
           NoneLost(use), KernelRuns(process_array, "running")
    PROVE  Conserved
<1>1. Forest(memory, use, pg, Roots(process_array)) /\ Origin(use) BY DEF State
<1>2. Range(FreeList) = {f \in Frame : use[f].kind = "free"} BY FramesAreApart
<1>3. \A f \in Range(Available) : f \in Frame /\ f >= kernel_frames BY AvailableFrames
<1>4. \A f \in Frame : use[f].kind \in {"free", "lost", "used"} BY <1>1, ForestFacts
<1>5. use[identity_l4_table].kind = "used" BY <1>1 DEF Forest, RootsOK
<1>6. ~(identity_l4_table >= kernel_frames) BY PagingAssumption DEF identity_l4_table
<1> DEFINE owned == {o.node.frame : o \in Owned}
<1>7. ASSUME NEW p \in Present, NEW f \in Frame, UsedBy(use, f, process_array[p].paging_root)
      PROVE  NodeOf(use, f).frame = f
  <2> DEFINE s == process_array[p]
  <2>1. s \in Slot /\ s.paging_root \in Roots(process_array) /\ SlotShape(use, pg[s.paging_root], s)
    BY SlotFacts, PresentIsLive
  <2> HIDE DEF s
  <2>2. UsedBy(use, f, s.paging_root) BY <1>7 DEF s
  <2> QED BY <1>1, <2>1, <2>2, UsedIsOwnNode
<1>8. ASSUME NEW f \in Frame, use[f].kind = "used", f >= kernel_frames
      PROVE  f \in owned
  <2>1. use[f].root \in Roots(process_array) BY <1>1, <1>8 DEF Forest, ForestTypes
  <2>2. \E p \in Present : process_array[p].paging_root = use[f].root
    <3>1. CASE use[f].root = identity_l4_table
      <4>1. 0 \in Live(process_array) /\ process_array[0].paging_root = identity_l4_table
        BY DEF KernelRuns
      <4> QED BY <3>1, <4>1, PresentIsLive
    <3>2. CASE use[f].root # identity_l4_table
      BY <2>1, <3>2, PresentIsLive DEF Roots
    <3> QED BY <3>1, <3>2
  <2>3. PICK p \in Present : process_array[p].paging_root = use[f].root BY <2>2
  <2>4. UsedBy(use, f, process_array[p].paging_root) BY <1>8, <2>3 DEF UsedBy
  <2>5. Owner(p, NodeOf(use, f)) \in Owned BY <1>8, <2>4, OwnedAreUsed
  <2>6. Owner(p, NodeOf(use, f)).node.frame = f BY <1>7, <2>4, OwnerFields
  <2> QED BY <2>5, <2>6
<1>9. ASSUME NEW o \in Owned PROVE o.node.frame \in Range(Available)
  <2>1. PICK p \in Present, f \in Frame :
          /\ UsedBy(use, f, process_array[p].paging_root) /\ f >= kernel_frames
          /\ o = Owner(p, NodeOf(use, f))
    BY OwnedAreUsed
  <2>2. o.node.frame = f BY <1>7, <2>1, OwnerFields
  <2>3. use[f].kind = "used" BY <2>1 DEF UsedBy
  <2>4. f # identity_l4_table BY <1>6, <2>1
  <2>5. f \in Range(Available) BY <1>1, <2>3, <2>4 DEF Origin
  <2> QED BY <2>2, <2>5
<1>10. ASSUME NEW f \in Frame, use[f].kind = "free" PROVE f \in Range(Available)
  BY <1>1, <1>5, <1>10 DEF Origin
<1>11. ASSUME NEW f \in Range(Available) PROVE f \in Range(FreeList) \cup owned
  <2>1. f \in Frame /\ f >= kernel_frames BY <1>3
  <2>2. use[f].kind # "lost" BY DEF NoneLost
  <2>3. CASE use[f].kind = "free" BY <1>2, <2>1, <2>3
  <2>4. CASE use[f].kind = "used" BY <1>8, <2>1, <2>4
  <2> QED BY <1>4, <2>1, <2>2, <2>3, <2>4
<1>12. owned \subseteq Range(Available) BY <1>9
<1>13. Range(FreeList) \subseteq Range(Available) BY <1>2, <1>10
<1> HIDE DEF owned
<1>14. Range(Available) = Range(FreeList) \cup owned BY <1>11, <1>12, <1>13
<1> QED BY <1>14 DEF Conserved, owned

\* This is so now.
KernelRunsNow == KernelRuns(process_array, status)

\* And always.
LEMMA KernelAlwaysRuns == Spec => []KernelRunsNow
<1>1. Init => KernelRunsNow BY KernelInitRuns DEF KernelRunsNow
<1>2. Founded /\ KernelRunsNow /\ [Next]_vars => KernelRunsNow'
  <2>1. SUFFICES ASSUME Founded, KernelRunsNow, [Next]_vars PROVE KernelRunsNow' OBVIOUS
  <2>2. PICK use, pg, birth : State(memory, process_array, use, pg, birth, forks) BY <2>1 DEF Founded
  <2>3. KernelRuns(process_array', status') BY <2>1, <2>2, KernelSteps DEF KernelRunsNow
  <2> QED BY <2>3 DEF KernelRunsNow
<1> QED BY <1>1, <1>2, FoundedHolds, PTL DEF Spec

\* Every frame is free or in use by some root, so destroy_process() gives back all
\* that a process held.  The hypothesis excludes what the code does lose: the
\* tables of a process whose creation fails for want of a slot or of memory.
THEOREM FramesStayConserved == Spec /\ [][Created]_vars => []FramesConserved
<1>1. Conserving /\ KernelRunsNow => FramesConserved
  <2>1. SUFFICES ASSUME Conserving, KernelRunsNow, status = "running"
                 PROVE  FramesApart /\ Range(Available) = Range(FreeList) \cup {o.node.frame : o \in Owned}
    BY DEF FramesConserved
  <2>2. PICK use, pg, birth : State(memory, process_array, use, pg, birth, forks) /\ NoneLost(use)
    BY <2>1 DEF Conserving
  <2>3. KernelRuns(process_array, "running") BY <2>1 DEF KernelRunsNow
  <2>4. FramesApart BY <2>2, FramesAreApart
  <2>5. Conserved BY <2>2, <2>3, NoneIsLost
  <2> QED BY <2>4, <2>5 DEF Conserved
<1>2. Spec => []KernelRunsNow BY KernelAlwaysRuns
<1>3. Spec /\ [][Created]_vars => []Conserving BY ConservingHolds
<1> QED BY <1>1, <1>2, <1>3, PTL

\* The process that was loaded at boot with the module that p runs.
Forebear(array, pg, p, o) ==
    /\ o \in Live(array) /\ array[o].father_id = NoProcess
    /\ array[o].module = array[p].module /\ array[o].level = array[p].level
    /\ array[o].mapping_history = array[p].mapping_history
    /\ SameFrames(pg[array[p].paging_root], pg[array[o].paging_root], array[p].mapping_history,
                  1..Len(array[p].mapping_history))

\* A process loaded at boot is the first of its family.
LEMMA ItsOwnForebear ==
    ASSUME NEW m, NEW array, NEW use, NEW pg, NEW birth, NEW count, State(m, array, use, pg, birth, count),
           NEW p \in Live(array), array[p].father_id = NoProcess
    PROVE  Forebear(array, pg, p, p)
<1> DEFINE s == array[p]
           h == s.mapping_history
           private == s.private_mapping_history
           row == pg[s.paging_root]
<1>1. h \in Histories /\ private \in Histories /\ SlotShape(use, row, s) BY SlotFacts
<1>2. Shape(use, row, s.paging_root, private, h, TRUE) BY <1>1 DEF SlotShape
<1>3. \A n \in 1..Len(h) : \A a \in RegionIndexes(h[n]) : row[a] # Absent
  <2> DEFINE own == TRUE
             r == s.paging_root
  <2>1. Shape(use, row, r, private, h, own) BY <1>2
  <2> HIDE DEF own, r, row, private, h
  <2> QED BY <1>1, <2>1, HeldFrames
<1>4. SameFrames(row, row, h, 1..Len(h)) BY <1>3 DEF SameFrames
<1> QED BY <1>4 DEF Forebear

\* A child has the forebear of its father.
LEMMA FathersForebear ==
    ASSUME NEW m, NEW array, NEW use, NEW pg, NEW birth, NEW count, State(m, array, use, pg, birth, count),
           NEW p \in Live(array), array[p].father_id # NoProcess,
           NEW o, Forebear(array, pg, array[p].father_id, o)
    PROVE  Forebear(array, pg, p, o)
<1> DEFINE f == array[p].father_id
           h == array[p].mapping_history
<1>1. SlotFather(array, pg, birth, p) BY SlotFacts
<1>2. /\ array[p].module = array[f].module /\ array[p].level = array[f].level
      /\ h = array[f].mapping_history
      /\ SameFrames(pg[array[p].paging_root], pg[array[f].paging_root], h, 1..Len(h))
  BY <1>1 DEF SlotFather
<1>3. SameFrames(pg[array[f].paging_root], pg[array[o].paging_root], h, 1..Len(h))
  BY <1>2 DEF Forebear
<1>4. SameFrames(pg[array[p].paging_root], pg[array[o].paging_root], h, 1..Len(h))
  <2> HIDE DEF h, f
  <2> QED BY <1>2, <1>3 DEF SameFrames
<1> QED BY <1>2, <1>4 DEF Forebear

\* Every process has a forebear that lives, by induction on the births.
LEMMA ForebearLives ==
    ASSUME NEW m, NEW array, NEW use, NEW pg, NEW birth, NEW count, State(m, array, use, pg, birth, count),
           NEW p \in Live(array)
    PROVE  \E o : Forebear(array, pg, p, o)
<1> DEFINE holds == {k \in 0..(count + 1) :
                       \A q \in Live(array) : birth[q] < k => \E o : Forebear(array, pg, q, o)}
<1>1. count \in Nat /\ count + 1 \in Nat /\ \A q \in Live(array) : birth[q] \in 0..count
  <2>1. count \in Nat BY DEF State
  <2>2. \A q \in Live(array) : birth[q] \in 0..count BY SlotFacts
  <2> QED BY <2>1, <2>2
<1>2. 0 \in holds BY <1>1
<1>3. ASSUME NEW k \in 0..((count + 1) - 1), k \in holds
      PROVE  k + 1 \in holds
  <2>1. ASSUME NEW q \in Live(array), birth[q] < k + 1
        PROVE  \E o : Forebear(array, pg, q, o)
    <3>1. CASE array[q].father_id = NoProcess BY <3>1, ItsOwnForebear
    <3>2. CASE array[q].father_id # NoProcess
      <4> DEFINE f == array[q].father_id
      <4>1. f \in Live(array) /\ birth[f] < birth[q] BY <3>2, SlotFacts DEF SlotFather
      <4>2. birth[f] < k BY <1>1, <2>1, <4>1
      <4>3. PICK o : Forebear(array, pg, f, o) BY <1>3, <4>1, <4>2
      <4> QED BY <3>2, <4>3, FathersForebear
    <3> QED BY <3>1, <3>2
  <2>2. k + 1 \in 0..(count + 1) BY <1>1
  <2> QED BY <2>1, <2>2
<1>4. \A k \in 0..(count + 1) : k \in holds
  <2> HIDE DEF holds
  <2> QED BY <1>1, <1>2, <1>3, PositionInduction
<1>5. count + 1 \in 0..(count + 1) /\ birth[p] < count + 1 BY <1>1
<1> QED BY <1>4, <1>5

\* What copy_segment() writes at an address.
LEMMA SegmentWord ==
    ASSUME NEW header \in Header, NEW b \in 0..(header.memsz - 1), NEW address,
           address = header.vaddr + b
    PROVE  SegmentBytes(address \div PAGE_SIZE, header)[1 + (address % PAGE_SIZE)] =
             IF b < header.filesz THEN header.offset + b + 1 ELSE 0
<1> DEFINE page == address \div PAGE_SIZE
           rest == address % PAGE_SIZE
           base == page * PAGE_SIZE
           inner == header.vaddr % PAGE_SIZE
           src == (header.offset - inner) + (base - (header.vaddr - inner))
           end == header.offset + header.filesz
           tocopy == IF src > end THEN 0
                     ELSE IF end - src < PAGE_SIZE THEN end - src ELSE PAGE_SIZE
<1>1. header.vaddr \in Nat /\ header.offset \in Nat /\ header.filesz \in Nat /\ header.memsz \in Nat
  BY DEF Header
<1>2. address \in Nat /\ b \in Nat BY <1>1
<1>3. PAGE_SIZE \in Nat \ {0} BY LayoutAssumption
<1>4. page \in Nat /\ rest \in 0..(PAGE_SIZE - 1) /\ base \in Nat /\ address = base + rest
  BY <1>2, <1>3, DivFacts
<1>5. inner \in Nat BY <1>1, <1>3, DivFacts
<1>6. SegmentBytes(page, header)[1 + rest] = IF 1 + rest <= tocopy THEN src + (1 + rest) ELSE 0
  <2>1. SegmentBytes(page, header) = [i \in 1..PAGE_SIZE |-> IF i <= tocopy THEN src + i ELSE 0]
    BY DEF SegmentBytes
  <2> HIDE DEF page, rest, base, inner, src, tocopy
  <2>2. 1 + rest \in 1..PAGE_SIZE BY <1>3, <1>4
  <2> QED BY <2>1, <2>2
<1> HIDE DEF page, rest, base, inner
<1>7. src = header.offset + base - header.vaddr /\ src \in Int BY <1>1, <1>4, <1>5
<1>8. src + (1 + rest) = header.offset + b + 1 BY <1>1, <1>2, <1>4, <1>7
<1>9. (1 + rest <= tocopy) <=> b < header.filesz
  <2> HIDE DEF src
  <2>1. end = header.offset + header.filesz /\ end \in Int BY <1>1
  <2>2. b < header.filesz <=> src + (1 + rest) <= end BY <1>1, <1>2, <1>8, <2>1
  <2> HIDE DEF end
  <2> QED BY <1>3, <1>4, <1>7, <2>1, <2>2
<1>10. SegmentBytes(page, header)[1 + rest] = IF b < header.filesz THEN header.offset + b + 1 ELSE 0
  BY <1>6, <1>8, <1>9
<1> QED BY <1>10 DEF page, rest

\* The page of an address of a segment is in the segment's region.
LEMMA SegmentPage ==
    ASSUME NEW header \in Header, NEW level, NEW b \in 0..(header.memsz - 1), NEW address,
           address = header.vaddr + b, NEW g, g = SegmentRegion(level, header), Fits(g), RegionOK(g)
    PROVE  LET page == address \div PAGE_SIZE
           IN  /\ page \in Page
               /\ IndexOf(page) \in RegionIndexes(g)
               /\ PageAt(IndexOf(page)) = page
<1> DEFINE page == address \div PAGE_SIZE
           rest == address % PAGE_SIZE
           base == page * PAGE_SIZE
           first == g.page * PAGE_SIZE
           inner == header.vaddr % PAGE_SIZE
           last == (g.page + g.count) * PAGE_SIZE
<1>1. header.vaddr \in Nat /\ header.memsz \in Nat BY DEF Header
<1>2. address \in Nat /\ b \in Nat BY <1>1
<1>3. PAGE_SIZE \in Nat \ {0} BY LayoutAssumption
<1>4. page \in Nat /\ rest \in 0..(PAGE_SIZE - 1) /\ base \in Nat /\ address = base + rest
  BY <1>2, <1>3, DivFacts
<1>5. /\ g.page = header.vaddr \div PAGE_SIZE /\ last >= header.vaddr + header.memsz
      /\ g \in RegionType
  BY SegmentRegionFacts
<1>6. g.page \in Nat /\ g.count \in Nat BY <1>5 DEF RegionType
<1>7. inner \in 0..(PAGE_SIZE - 1) /\ first \in Nat /\ header.vaddr = first + inner
  BY <1>1, <1>3, <1>5, DivFacts
<1>8. page >= g.page
  <2>1. SUFFICES ASSUME page + 1 <= g.page PROVE FALSE BY <1>4, <1>6
  <2>2. \A x, y \in Nat, z \in Nat : x <= y => x * z <= y * z
    BY SMT
  <2>3. (page + 1) * PAGE_SIZE <= g.page * PAGE_SIZE
    <3> HIDE DEF page
    <3> QED BY <1>3, <1>4, <1>6, <2>1, <2>2
  <2>4. (page + 1) * PAGE_SIZE = base + PAGE_SIZE
    <3> HIDE DEF page
    <3> QED BY <1>3, <1>4
  <2> HIDE DEF page, base, rest, first, inner
  <2> QED BY <1>1, <1>2, <1>3, <1>4, <1>7, <2>3, <2>4 DEF first
<1>9. page < g.page + g.count
  <2>1. SUFFICES ASSUME g.page + g.count <= page PROVE FALSE BY <1>4, <1>6
  <2>2. \A x, y \in Nat, z \in Nat : x <= y => x * z <= y * z
    BY SMT
  <2>3. last <= base
    <3> HIDE DEF page
    <3> QED BY <1>3, <1>4, <1>6, <2>1, <2>2
  <2>4. last \in Nat
    <3>1. \A x, z \in Nat : x * z \in Nat BY SMT
    <3> QED BY <1>3, <1>6, <3>1
  <2> HIDE DEF page, base, rest, last
  <2>5. rest >= 0 /\ b < header.memsz BY <1>1, <1>3, <1>4
  <2> QED BY <1>1, <1>2, <1>4, <1>5, <2>3, <2>4, <2>5
<1> DEFINE i == page - g.page
<1> HIDE DEF page
<1>10. i \in 0..(g.count - 1) /\ g.page + i = page BY <1>4, <1>6, <1>8, <1>9
<1> HIDE DEF i
<1>11. page \in Span[LEVELS - 1]..(Span[LEVELS] - 1) /\ LoopIndex(g.page, i) = IndexOf(page)
  BY <1>10 DEF Fits
<1>12. page \in Page BY <1>4, <1>11 DEF Page
<1>13. IndexOf(page) \in RegionIndexes(g) BY <1>10, <1>11 DEF RegionIndexes, IndexesTo
<1>14. PageAt(IndexOf(page)) = page BY <1>12, PageAtIndexOf
<1> QED BY <1>12, <1>13, <1>14 DEF page

\* virtual_to_phisical() finds the frame that the row has.
LEMMA VisibleIsMapped ==
    ASSUME NEW use, NEW pg, NEW roots, Forest(memory, use, pg, roots), NEW r \in roots,
           NEW page, IndexOf(page) \in Unshared, pg[r][IndexOf(page)] # Absent
    PROVE  virtual_to_phisical(memory, page, r) = pg[r][IndexOf(page)].frame
<1> DEFINE a == IndexOf(page)
           t == Walk(memory, r, a)[1]
<1>1. t # NULL /\ IsPresent(memory, t, a[1]) /\ pg[r][a] = memory.table[t][a[1]]
  <2>1. a \in Unshared /\ pg[r][a] # Absent OBVIOUS
  <2> HIDE DEF a
  <2> QED BY <2>1, MappedFacts
<1>2. virtual_to_phisical(memory, page, r) = memory.table[t][a[1]].frame
  BY <1>1 DEF virtual_to_phisical
<1> QED BY <1>1, <1>2

\* When the loadable headers come first, all of them are loaded.
LEMMA AllLoaded ==
    ASSUME LoadableFirst, NEW k \in DOMAIN Modules, NEW h, NEW level,
           Segments(h, level, Modules[k].headers), HeadersOK(level, Modules[k].headers),
           Len(h) = Len(Modules[k].headers) \/ ~Modules[k].headers[Len(h) + 1].load,
           NEW n \in DOMAIN Modules[k].headers, Modules[k].headers[n].load
    PROVE  n \in 1..Len(h)
<1> DEFINE headers == Modules[k].headers
<1>1. headers \in Seq(Header) /\ DOMAIN headers = 1..Len(headers) BY DEF HeadersOK
<1>2. h \in Histories /\ Len(h) <= Len(headers) BY DEF Segments
<1>3. Len(h) \in Nat BY <1>2 DEF Histories
<1>4. Len(headers) \in Nat /\ n \in 1..Len(headers) BY <1>1
<1>5. SUFFICES ASSUME n > Len(h) PROVE FALSE BY <1>3, <1>4
<1> DEFINE i == Len(h) + 1
<1>6. i \in DOMAIN headers /\ ~headers[i].load BY <1>1, <1>2, <1>3, <1>4, <1>5
<1>7. i = n \/ i < n BY <1>3, <1>4, <1>5
<1>8. i < n => headers[i].load BY <1>6 DEF LoadableFirst
<1> QED BY <1>6, <1>7, <1>8

\* The file's byte for an address is in the frame that a row has for its page.
Carries(data, row, h, header, b) ==
    LET address == header.vaddr + b
        a == IndexOf(address \div PAGE_SIZE)
    IN  /\ \E j \in 1..Len(h) : a \in RegionIndexes(h[j])
        /\ data[row[a].frame][1 + (address % PAGE_SIZE)]
             = IF b < header.filesz THEN header.offset + b + 1 ELSE 0

\* The process loaded at boot has the bytes of its module.
LEMMA LoadedImage ==
    ASSUME NEW use, NEW pg, NEW birth, NEW count, State(memory, process_array, use, pg, birth, count),
           LoadableFirst,
           NEW o \in Live(process_array), process_array[o].father_id = NoProcess,
           NEW k, k = process_array[o].module, k # 0,
           NEW n \in DOMAIN Modules[k].headers, Modules[k].headers[n].load,
           NEW b \in 0..(Modules[k].headers[n].memsz - 1)
    PROVE  Carries(memory.data, pg[process_array[o].paging_root], process_array[o].mapping_history,
                   Modules[k].headers[n], b)
<1> DEFINE h == process_array[o].mapping_history
           headers == Modules[k].headers
           header == headers[n]
           address == header.vaddr + b
           level == process_array[o].level
           row == pg[process_array[o].paging_root]
           g == SegmentRegion(level, header)
           page == address \div PAGE_SIZE
<1>1. process_array[o].module \in 0..Len(Modules) /\ SlotImage(memory.data, row, process_array[o])
  BY SlotFacts
<1>2. Modules \in Seq([user : BOOLEAN,
                        headers : Seq([load : BOOLEAN, vaddr : Nat, memsz : Nat,
                                       offset : Nat, filesz : Nat, writable : BOOLEAN])])
  BY LayoutAssumption
<1>3. k \in DOMAIN Modules BY <1>1, <1>2
<1>4. /\ level = ModuleLevel(k) /\ Segments(h, level, headers)
      /\ Image(memory.data, row, level, headers, Len(h))
      /\ Len(h) = Len(headers) \/ ~headers[Len(h) + 1].load
  BY <1>1 DEF SlotImage
<1>5. HeadersOK(level, headers) BY <1>3, <1>4, ModuleFacts
<1>6. n \in 1..Len(h) BY <1>3, <1>4, <1>5, AllLoaded
<1>7. header \in Header /\ RegionOK(g) BY <1>5 DEF HeadersOK
<1>8. Fits(g) BY <1>3, <1>4, RegionsAssumption
<1>9. \A a \in RegionIndexes(g) : memory.data[row[a].frame] = SegmentBytes(PageAt(a), header)
  BY <1>4, <1>6 DEF Image
<1>10. IndexOf(page) \in RegionIndexes(g) /\ PageAt(IndexOf(page)) = page
  <2> DEFINE to == address
  <2>1. to = header.vaddr + b /\ b \in 0..(header.memsz - 1) OBVIOUS
  <2>2. page = to \div PAGE_SIZE OBVIOUS
  <2> DEFINE gg == g
  <2>3. gg = SegmentRegion(level, header) /\ Fits(gg) /\ RegionOK(gg) BY <1>7, <1>8
  <2> HIDE DEF gg, to, header, level
  <2>4. IndexOf(page) \in RegionIndexes(gg) /\ PageAt(IndexOf(page)) = page
    BY <1>7, <2>1, <2>2, <2>3, SegmentPage
  <2> QED BY <2>4 DEF gg
<1>11. memory.data[row[IndexOf(page)].frame] = SegmentBytes(page, header) BY <1>9, <1>10
<1>12. SegmentBytes(page, header)[1 + (address % PAGE_SIZE)]
         = IF b < header.filesz THEN header.offset + b + 1 ELSE 0
  BY <1>7, SegmentWord
<1>13. \E j \in 1..Len(h) : IndexOf(page) \in RegionIndexes(h[j])
  <2>1. Len(h) \in Nat BY <1>4 DEF Segments, Histories
  <2> DEFINE j == Len(h) + 1 - n
  <2>2. j \in 1..Len(h) /\ Len(h) + 1 - j = n BY <1>6, <2>1
  <2>3. h[j] = g BY <1>4, <2>2 DEF Segments
  <2> QED BY <1>10, <2>2, <2>3
<1>14. memory.data[row[IndexOf(page)].frame][1 + (address % PAGE_SIZE)]
         = IF b < header.filesz THEN header.offset + b + 1 ELSE 0
  BY <1>11, <1>12
<1> QED BY <1>13, <1>14 DEF Carries

\* So has every process, through its forebear.
LEMMA ImageSeen ==
    ASSUME NEW use, NEW pg, NEW birth, NEW count, State(memory, process_array, use, pg, birth, count),
           LoadableFirst
    PROVE  ImageVisible
<1> SUFFICES ASSUME NEW p \in Present, process_array[p].module # 0,
                    NEW n \in DOMAIN Modules[process_array[p].module].headers,
                    Modules[process_array[p].module].headers[n].load,
                    NEW b \in 0..(Modules[process_array[p].module].headers[n].memsz - 1)
             PROVE  LET header == Modules[process_array[p].module].headers[n]
                        address == header.vaddr + b
                        frame == virtual_to_phisical(memory, address \div PAGE_SIZE,
                                                     process_array[p].paging_root)
                    IN  memory.data[frame][1 + (address % PAGE_SIZE)] =
                          IF b < header.filesz THEN header.offset + b + 1 ELSE 0
  BY DEF ImageVisible
<1> DEFINE k == process_array[p].module
           header == Modules[k].headers[n]
           address == header.vaddr + b
           page == address \div PAGE_SIZE
           r == process_array[p].paging_root
           a == IndexOf(page)
<1>1. p \in Live(process_array) BY PresentIsLive
<1>2. PICK o : Forebear(process_array, pg, p, o) BY <1>1, ForebearLives
<1> DEFINE q == process_array[o].paging_root
           h == process_array[o].mapping_history
<1>3. /\ o \in Live(process_array) /\ process_array[o].father_id = NoProcess
      /\ k = process_array[o].module /\ k # 0
      /\ SameFrames(pg[r], pg[q], h, 1..Len(h))
      /\ h = process_array[p].mapping_history
  BY <1>2 DEF Forebear
<1>4. /\ \E j \in 1..Len(h) : a \in RegionIndexes(h[j])
      /\ memory.data[pg[q][a].frame][1 + (address % PAGE_SIZE)]
           = IF b < header.filesz THEN header.offset + b + 1 ELSE 0
  <2> DEFINE kk == k
  <2>1. kk = process_array[o].module /\ kk # 0 /\ n \in DOMAIN Modules[kk].headers
        /\ Modules[kk].headers[n].load
        /\ b \in 0..(Modules[kk].headers[n].memsz - 1)
    BY <1>3
  <2> HIDE DEF kk
  <2>2. Carries(memory.data, pg[process_array[o].paging_root], process_array[o].mapping_history,
                Modules[kk].headers[n], b)
    BY <1>3, <2>1, LoadedImage
  <2> QED BY <2>2 DEF kk, Carries
<1>5. PICK j \in 1..Len(h) : a \in RegionIndexes(h[j]) BY <1>4
<1>6. \A i \in 1..Len(h) : \A c \in RegionIndexes(h[i]) : c \in Unshared /\ pg[r][c] # Absent
  <2>1. /\ process_array[p] \in Slot /\ SlotShape(use, pg[r], process_array[p])
    BY <1>1, SlotFacts
  <2>2. Held(pg[r], process_array[p].private_mapping_history \o h,
             1..(Len(process_array[p].private_mapping_history) + Len(h)))
        /\ \A i \in 1..Len(h) : RegionOK(h[i])
    BY <1>3, <2>1, SlotRegions
  <2> DEFINE private == process_array[p].private_mapping_history
             both == private \o h
  <2>3. private \in Histories /\ h \in Histories BY <1>3, <2>1 DEF Slot
  <2> HIDE DEF private, h
  <2>4. \A i \in 1..Len(h) : Len(private) + i \in 1..(Len(private) + Len(h)) /\ both[Len(private) + i] = h[i]
    BY <2>3 DEF Histories
  <2> HIDE DEF both
  <2>5. ASSUME NEW i \in 1..Len(h), NEW c \in RegionIndexes(h[i])
        PROVE  c \in Unshared /\ pg[r][c] # Absent
    <3>1. c \in Unshared BY <2>2, <2>5, RegionFacts
    <3>2. Held(pg[r], both, 1..(Len(private) + Len(h))) BY <2>2 DEF both, private
    <3>3. pg[r][c] # Absent BY <2>4, <2>5, <3>1, <3>2 DEF Held
    <3> QED BY <3>1, <3>3
  <2> QED BY <2>5
<1>7. a \in Unshared /\ pg[r][a] # Absent BY <1>5, <1>6
<1>8. pg[r][a].frame = pg[q][a].frame
  <2> HIDE DEF a, h, r, q
  <2> QED BY <1>3, <1>5 DEF SameFrames
<1>9. virtual_to_phisical(memory, page, r) = pg[r][a].frame
  <2>1. Forest(memory, use, pg, Roots(process_array)) /\ r \in Roots(process_array)
    BY <1>1, SlotFacts DEF State
  <2> HIDE DEF page, r
  <2> QED BY <1>7, <2>1, VisibleIsMapped
<1>10. memory.data[virtual_to_phisical(memory, page, r)][1 + (address % PAGE_SIZE)]
         = IF b < header.filesz THEN header.offset + b + 1 ELSE 0
  BY <1>4, <1>8, <1>9
<1> QED BY <1>10

\* A process sees the segments of its module as load_module() copied them, its
\* children through the pages that fork() gives them, until the last one dies.
THEOREM ImageStaysVisible ==
    ASSUME LoadableFirst
    PROVE  Spec => []ImageVisible
<1>1. Founded => ImageVisible BY ImageSeen DEF Founded
<1> QED BY <1>1, FoundedHolds, PTL

\* Every page that a process maps is a page, its own or of the one it comes from.
LEMMA PageFrames ==
    ASSUME NEW m, NEW array, NEW use, NEW pg, NEW birth, NEW count, State(m, array, use, pg, birth, count),
           NEW p \in Live(array), NEW a \in Unshared, pg[array[p].paging_root][a] # Absent
    PROVE  \E r : At(use, pg[array[p].paging_root][a].frame, r, 0, a)
<1> DEFINE s == array[p]
           row == pg[s.paging_root]
<1>1. s \in Slot /\ SlotShape(use, row, s) BY SlotFacts
<1>2. CASE OwnPage(s, a)
  <2> HIDE DEF s, row
  <2>1. row[a] # Absent BY DEF s, row
  <2>2. At(use, row[a].frame, s.paging_root, 0, a) BY <1>1, <1>2, <2>1, OwnPageIsMine
  <2> QED BY <2>2 DEF s, row
<1>3. CASE ~OwnPage(s, a)
  <2> DEFINE private == s.private_mapping_history
             h == s.mapping_history
  <2>1. /\ Held(row, private \o h, 1..(Len(private) + Len(h)))
        /\ \A n \in 1..Len(private) : RegionOK(private[n])
    BY <1>1, SlotRegions
  <2>2. private \in Histories /\ h \in Histories BY <1>1 DEF Slot
  <2>3. a \notin Indexes(private) BY <1>3 DEF OwnPage
  <2>4. row[a] # Absent OBVIOUS
  <2> DEFINE both == private \o h
  <2> HIDE DEF private, h, row
  <2>5. \A n \in 1..Len(private) : both[n] = private[n] BY <2>2 DEF Histories
  <2>6. \A n \in 1..(Len(private) + Len(h)) : n \notin 1..Len(private) =>
          n - Len(private) \in 1..Len(h) /\ both[n] = h[n - Len(private)]
    BY <2>2 DEF Histories
  <2> HIDE DEF both
  <2>7. PICK n \in 1..(Len(private) + Len(h)) : a \in RegionIndexes(both[n])
    BY <2>1, <2>4 DEF Held, both
  <2>8. n \notin 1..Len(private)
    <3>1. SUFFICES ASSUME n \in 1..Len(private) PROVE FALSE OBVIOUS
    <3>2. a \in RegionIndexes(private[n]) BY <2>5, <2>7, <3>1
    <3>3. RegionsFit(private) BY <2>1, <2>2 DEF RegionsFit
    <3> QED BY <2>3, <3>1, <3>2, <3>3, IndexesOfRegions
  <2> DEFINE j == n - Len(private)
  <2>9. j \in 1..Len(h) /\ a \in RegionIndexes(h[j]) BY <2>6, <2>7, <2>8
  <2>10. PICK o : Forebear(array, pg, p, o) BY ForebearLives
  <2> DEFINE t == array[o]
  <2>11. /\ o \in Live(array) /\ t.father_id = NoProcess /\ h = t.mapping_history
         /\ SameFrames(row, pg[t.paging_root], h, 1..Len(h))
    BY <2>10 DEF Forebear, h, row
  <2>12. t \in Slot /\ SlotShape(use, pg[t.paging_root], t) BY <2>11, SlotFacts
  <2>13. Shape(use, pg[t.paging_root], t.paging_root, t.private_mapping_history, h, TRUE)
    BY <2>11, <2>12 DEF SlotShape
  <2>14. t.private_mapping_history \in Histories BY <2>12 DEF Slot
  <2> HIDE DEF t, j
  <2>15. At(use, pg[t.paging_root][a].frame, t.paging_root, 0, a)
    BY <2>2, <2>9, <2>13, <2>14, OwnPages
  <2>16. row[a].frame = pg[t.paging_root][a].frame BY <2>9, <2>11 DEF SameFrames
  <2> QED BY <2>15, <2>16 DEF row
<1> QED BY <1>2, <1>3

\* What can be used at user level is mapped so.
LEMMA UserLevelEntry ==
    ASSUME NEW use, NEW pg, NEW roots, Forest(memory, use, pg, roots), NEW r \in roots,
           NEW page \in Page, get_level(memory, page, r) = "user"
    PROVE  LET a == IndexOf(page)
           IN  a \in Unshared /\ pg[r][a] # Absent /\ USER \in pg[r][a].flags
<1> DEFINE a == IndexOf(page)
           tables == Walk(memory, r, a)
<1>1. \A k \in 1..LEVELS : tables[k] # NULL /\ {PRESENT, USER} \subseteq memory.table[tables[k]][a[k]].flags
  BY DEF get_level
<1>2. page \in Nat
  <2>1. Span[LEVELS] \in Nat BY LevelsFact, SpanFacts
  <2> QED BY <2>1 DEF Page
<1>3. a \in Idx BY <1>2, IndexOfType
<1>4. memory \in Memory /\ r \in Frame BY ForestFacts, RootFacts
<1>5. tables[LEVELS] = r BY <1>3, <1>4, WalkSteps
<1>6. LEVELS \in 1..LEVELS /\ 1 \in 1..LEVELS BY LevelsFact
<1>7. a[LEVELS] # 0
  <2>1. memory.table[r][0].flags = {PRESENT, RW} BY RootFacts
  <2>2. USER \in memory.table[r][a[LEVELS]].flags BY <1>1, <1>5, <1>6
  <2> QED BY <2>1, <2>2 DEF USER, PRESENT, RW
<1>8. a \in Unshared BY <1>3, <1>7 DEF Unshared
<1> DEFINE t == tables[1]
<1>9. t # NULL /\ PRESENT \in memory.table[t][a[1]].flags /\ USER \in memory.table[t][a[1]].flags
  BY <1>1, <1>6
<1>10. pg[r][a] = memory.table[t][a[1]] /\ pg[r][a] # Absent
  <2> HIDE DEF a
  <2>1. t # NULL => pg[r][a] = memory.table[t][a[1]] BY <1>8, MappedFacts
  <2>2. pg[r][a] # Absent <=> PRESENT \in pg[r][a].flags BY <1>8, MappedFacts
  <2> HIDE DEF t
  <2> QED BY <1>9, <2>1, <2>2
<1> HIDE DEF t, tables
<1>11. USER \in pg[r][a].flags BY <1>9, <1>10
<1> QED BY <1>8, <1>10, <1>11

\* The region of a page that a process maps.
LEMMA PageRegion ==
    ASSUME NEW row, NEW h, HistoryOK(row, h), NEW page \in Page,
           IndexOf(page) \in Unshared, row[IndexOf(page)] # Absent
    PROVE  \E n \in 1..Len(h) : /\ IndexOf(page) \in RegionIndexes(h[n])
                                /\ page # stack_top - 1
                                /\ row[IndexOf(page)].flags = MapFlags(h[n].flags)
<1> DEFINE a == IndexOf(page)
<1>1. RegionsFit(h) /\ Held(row, h, 1..Len(h)) BY DEF HistoryOK
<1>2. PICK n \in 1..Len(h) : a \in RegionIndexes(h[n]) BY <1>1 DEF Held
<1>3. row[a].flags = MapFlags(h[n].flags) BY <1>1, <1>2 DEF Held
<1>4. RegionOK(h[n]) BY <1>1 DEF RegionsFit
<1>5. PICK i \in 0..(h[n].count - 1) : a = LoopIndex(h[n].page, i)
  BY <1>2 DEF RegionIndexes, IndexesTo
<1>6. a = IndexOf(h[n].page + i) BY <1>4, <1>5 DEF RegionOK
<1>7. h[n].page + i \in Page /\ h[n].page + i # stack_top - 1
  BY <1>4 DEF RegionOK, InPages, OffGap
<1>8. page = h[n].page + i BY <1>6, <1>7, IndexesApart
<1> QED BY <1>2, <1>3, <1>7, <1>8

\* Mapping adds no user right.
LEMMA UserFlagsKept ==
    ASSUME NEW flags, USER \in MapFlags(flags)
    PROVE  USER \in flags
BY DEF MapFlags, USER, PRESENT, RW

\* A page with user rights is a page of a user process, and not of the system
\* stack.
LEMMA UserPages ==
    ASSUME NEW row, NEW s \in Slot, NEW use, SlotShape(use, row, s), SlotRights(s), NEW page \in Page,
           IndexOf(page) \in Unshared, row[IndexOf(page)] # Absent, USER \in row[IndexOf(page)].flags
    PROVE  s.level = "user" /\ page \notin system_stack_top..(stack_top - 1)
<1> DEFINE private == s.private_mapping_history
           mapping == s.mapping_history
           h == private \o mapping
           a == IndexOf(page)
<1>1. HistoryOK(row, h) BY BothHistories
<1>2. PICK n \in 1..Len(h) : /\ a \in RegionIndexes(h[n]) /\ page # stack_top - 1
                             /\ row[a].flags = MapFlags(h[n].flags)
  <2> HIDE DEF h
  <2> QED BY <1>1, PageRegion
<1>3. USER \in h[n].flags BY <1>2, UserFlagsKept
<1>4. private \in Histories /\ mapping \in Histories BY DEF Slot
<1>5. /\ Rights(private, s.level) /\ Rights(mapping, s.level)
      /\ \E i \in 1..Len(private) : private[i] = SystemStack
  BY DEF SlotRights
<1> HIDE DEF private, mapping
<1>6. Len(h) = Len(private) + Len(mapping) /\ Len(private) \in Nat /\ Len(mapping) \in Nat
      /\ \A i \in 1..Len(private) : h[i] = private[i]
  BY <1>4 DEF Histories
<1>61. \A i \in 1..Len(mapping) : h[Len(private) + i] = mapping[i]
  BY <1>4 DEF Histories
<1> HIDE DEF h
<1>7. s.level = "user"
  <2>1. CASE n <= Len(private)
    <3>1. n \in 1..Len(private) BY <1>6, <2>1
    <3>2. USER \in private[n].flags BY <1>3, <1>6, <3>1
    <3> QED BY <1>5, <3>1, <3>2 DEF Rights
  <2>2. CASE n > Len(private)
    <3> DEFINE j == n - Len(private)
    <3>1. j \in 1..Len(mapping) /\ n = Len(private) + j BY <1>6, <2>2
    <3> HIDE DEF j
    <3>2. h[n] = mapping[j]
      <4>1. h[Len(private) + j] = mapping[j] BY <1>61, <3>1, Zenon
      <4> QED BY <3>1, <4>1
    <3>3. USER \in mapping[j].flags BY <1>3, <3>2
    <3> QED BY <1>5, <3>1, <3>3 DEF Rights
  <2> QED BY <1>6, <2>1, <2>2
<1>8. page \notin system_stack_top..(stack_top - 1)
  <2>1. SUFFICES ASSUME page \in system_stack_top..(stack_top - 1) PROVE FALSE OBVIOUS
  <2>2. PICK i \in 1..Len(private) : private[i] = SystemStack BY <1>5
  <2>3. i \in 1..Len(h) /\ h[i] = SystemStack BY <1>6, <2>2
  <2>4. /\ SystemStack.page = system_stack_top /\ SystemStack.count = system_stack_pages
        /\ SystemStack.flags = {RW}
    BY LayoutFacts, RegionIsRegion DEF SystemStack
  <2> DEFINE j == page - system_stack_top
  <2>5. j \in 0..(system_stack_pages - 1) /\ system_stack_top + j = page
    BY <1>2, <2>1, LayoutFacts, LayoutSums
  <2>6. RegionsFit(h) /\ Held(row, h, 1..Len(h)) BY <1>1 DEF HistoryOK
  <2>7. RegionOK(h[i]) BY <2>3, <2>6 DEF RegionsFit
  <2> HIDE DEF j
  <2>8. LoopIndex(system_stack_top, j) = IndexOf(page) BY <2>3, <2>4, <2>5, <2>7 DEF RegionOK
  <2>9. a \in RegionIndexes(h[i]) BY <2>3, <2>4, <2>5, <2>8 DEF RegionIndexes, IndexesTo
  <2>10. RegionIndexes(h[n]) \cap RegionIndexes(h[i]) # {} BY <1>2, <2>9
  <2>11. n = i BY <2>3, <2>6, <2>10 DEF Held
  <2> QED BY <1>3, <2>3, <2>4, <2>11 DEF USER, RW
<1> QED BY <1>7, <1>8

\* get_level() calls user only what a user process mapped so.
LEMMA PagesProtected ==
    ASSUME NEW use, NEW pg, NEW birth, NEW count, State(memory, process_array, use, pg, birth, count)
    PROVE  SystemPagesProtected
<1> SUFFICES ASSUME NEW p \in Present, NEW page \in Page,
                    get_level(memory, page, process_array[p].paging_root) = "user"
             PROVE  /\ process_array[p].level = "user"
                    /\ page \notin system_stack_top..(stack_top - 1)
                    /\ \A q \in Present : \A n \in TablesOf(q) :
                         n.frame # virtual_to_phisical(memory, page, process_array[p].paging_root)
  BY DEF SystemPagesProtected
<1> DEFINE s == process_array[p]
           r == s.paging_root
           a == IndexOf(page)
           row == pg[r]
<1>1. p \in Live(process_array) BY PresentIsLive
<1>2. Forest(memory, use, pg, Roots(process_array)) BY DEF State
<1>3. s \in Slot /\ r \in Roots(process_array) /\ SlotShape(use, row, s) /\ SlotRights(s)
  BY <1>1, SlotFacts
<1>4. a \in Unshared /\ row[a] # Absent /\ USER \in row[a].flags
  <2> HIDE DEF s
  <2>1. get_level(memory, page, r) = "user" BY DEF s
  <2> HIDE DEF r
  <2> QED BY <1>2, <1>3, <2>1, UserLevelEntry
<1>5. s.level = "user" /\ page \notin system_stack_top..(stack_top - 1)
  <2> HIDE DEF s, row
  <2> QED BY <1>3, <1>4, UserPages
<1>6. virtual_to_phisical(memory, page, r) = row[a].frame
  <2> HIDE DEF r
  <2> QED BY <1>2, <1>3, <1>4, VisibleIsMapped
<1>7. PICK t : At(use, row[a].frame, t, 0, a) BY <1>1, <1>4, PageFrames
<1>8. row[a].frame \in Frame /\ use[row[a].frame].kind = "used" /\ use[row[a].frame].level = 0
  BY <1>7 DEF At
<1>9. ASSUME NEW q \in Present, NEW n \in TablesOf(q) PROVE n.frame # row[a].frame
  <2> DEFINE o == process_array[q].paging_root
  <2>1. n \in Below(o) /\ n.level > 0 BY DEF TablesOf
  <2>2. o \in Roots(process_array) /\ \E k \in 0..LEVELS : NodeAt(use, pg, o, k, n)
    BY <2>1, BelowNodes
  <2> HIDE DEF o
  <2>3. PICK k \in 0..LEVELS : NodeAt(use, pg, o, k, n) BY <2>2
  <2>4. n.level = k BY <1>2, <2>2, <2>3, NodeFacts
  <2>5. n.frame = identity_l3_table \/ use[n.frame].level = k
    BY <1>2, <2>1, <2>2, <2>3, <2>4, NodeFacts
  <2>6. use[identity_l3_table].kind = "lost" BY <1>2, ForestFacts
  <2> QED BY <1>8, <2>1, <2>4, <2>5, <2>6
<1> QED BY <1>5, <1>6, <1>9

\* No entry that map() or extend() writes, and no table on the way to it, opens a
\* page of the kernel or of a system process to user level: what can be used at
\* user level is a page of a user process.
THEOREM SystemPagesStayProtected == Spec => []SystemPagesProtected
<1>1. Founded => SystemPagesProtected BY PagesProtected DEF Founded
<1> QED BY <1>1, FoundedHolds, PTL

-----------------------------------------------------------------------------
(* The page tables implement address spaces.                               *)

\* What a process maps at an index, as a mapping of AddressSpaces.
MapEntry(p, s, row, a) ==
    [process |-> p, page |-> PageAt(a), frame |-> row[a].frame, inherited |-> Inherited(s, a)]

\* Its fields.
LEMMA MapEntryFields ==
    ASSUME NEW p, NEW s, NEW row, NEW a
    PROVE  LET x == MapEntry(p, s, row, a)
           IN  /\ x.process = p /\ x.page = PageAt(a) /\ x.frame = row[a].frame
               /\ x.inherited \in BOOLEAN /\ (x.inherited <=> Inherited(s, a))
<1>1. Inherited(s, a) \in BOOLEAN BY DEF Inherited
<1> DEFINE x == MapEntry(p, s, row, a)
           i == Inherited(s, a)
<1> HIDE DEF i
<1>2. x = [process |-> p, page |-> PageAt(a), frame |-> row[a].frame, inherited |-> i]
  BY Zenon DEF MapEntry, i
<1> HIDE DEF x
<1>3. x.process = p /\ x.page = PageAt(a) /\ x.frame = row[a].frame /\ x.inherited = i
  BY <1>2
<1>4. x.inherited \in BOOLEAN /\ (x.inherited <=> Inherited(s, a)) BY Zenon, <1>1, <1>3 DEF i
<1> QED BY <1>3, <1>4 DEF x

\* What is mapped at one place of a process.
IsEntry(array, pg, p, a, x) ==
    /\ p \in Live(array) /\ a \in Unshared /\ pg[array[p].paging_root][a] # Absent
    /\ x = MapEntry(p, array[p], pg[array[p].paging_root], a)

\* What is mapped is a page, and its place is that of the page.
LEMMA EntryPage ==
    ASSUME NEW m, NEW array, NEW use, NEW pg, NEW birth, NEW count, State(m, array, use, pg, birth, count),
           NEW p \in Live(array), NEW a \in Unshared, pg[array[p].paging_root][a] # Absent
    PROVE  PageAt(a) \in Page /\ IndexOf(PageAt(a)) = a
<1> DEFINE s == array[p]
           row == pg[s.paging_root]
           h == s.private_mapping_history \o s.mapping_history
<1>1. s \in Slot /\ SlotShape(use, row, s) BY SlotFacts
<1>2. row[a] # Absent OBVIOUS
<1> HIDE DEF s, row
<1>3. HistoryOK(row, h) BY <1>1, BothHistories
<1> HIDE DEF h
<1>4. PICK n \in 1..Len(h) : a \in RegionIndexes(h[n]) BY <1>2, <1>3 DEF HistoryOK, Held
<1>5. RegionOK(h[n]) BY <1>3 DEF HistoryOK, RegionsFit
<1>6. PICK i \in 0..(h[n].count - 1) : a = LoopIndex(h[n].page, i)
  BY <1>4 DEF RegionIndexes, IndexesTo
<1>7. a = IndexOf(h[n].page + i) BY <1>5, <1>6 DEF RegionOK
<1>8. h[n].page + i \in Page BY <1>5, <1>6 DEF RegionOK, InPages
<1>9. PageAt(a) = h[n].page + i BY <1>7, <1>8, PageAtIndexOf
<1> QED BY <1>7, <1>8, <1>9

\* A page that is not inherited is at a frame of the process itself.
LEMMA OwnIsAt ==
    ASSUME NEW m, NEW array, NEW use, NEW pg, NEW birth, NEW count, State(m, array, use, pg, birth, count),
           NEW p \in Live(array), NEW a \in Unshared, pg[array[p].paging_root][a] # Absent,
           ~Inherited(array[p], a)
    PROVE  At(use, pg[array[p].paging_root][a].frame, array[p].paging_root, 0, a)
<1> DEFINE s == array[p]
           row == pg[s.paging_root]
           private == s.private_mapping_history
           mapping == s.mapping_history
           h == private \o mapping
<1>1. s \in Slot /\ SlotShape(use, row, s) BY SlotFacts
<1>2. private \in Histories /\ mapping \in Histories BY <1>1 DEF Slot
<1>3. /\ Held(row, h, 1..(Len(private) + Len(mapping)))
      /\ \A n \in 1..Len(private) : RegionOK(private[n])
      /\ \A n \in 1..Len(mapping) : RegionOK(mapping[n])
  BY <1>1, SlotRegions
<1>4. RegionsFit(private) /\ RegionsFit(mapping) BY <1>2, <1>3 DEF RegionsFit
<1>5. row[a] # Absent OBVIOUS
<1>6. s.father_id = NoProcess \/ a \notin Indexes(mapping) BY DEF Inherited
<1>7. OwnPage(s, a)
  <2>1. CASE s.father_id = NoProcess BY <2>1 DEF OwnPage
  <2>2. CASE a \notin Indexes(mapping)
    <3> HIDE DEF row, private, mapping
    <3>1. PICK n \in 1..(Len(private) + Len(mapping)) : a \in RegionIndexes(h[n])
      BY <1>3, <1>5 DEF Held
    <3>2. /\ \A k \in 1..Len(private) : h[k] = private[k]
          /\ \A k \in 1..(Len(private) + Len(mapping)) : k \notin 1..Len(private) =>
               k - Len(private) \in 1..Len(mapping) /\ h[k] = mapping[k - Len(private)]
      BY <1>2 DEF Histories
    <3> HIDE DEF h
    <3>3. CASE n \in 1..Len(private)
      <4>1. a \in RegionIndexes(private[n]) BY <3>1, <3>2, <3>3
      <4>2. a \in Indexes(private) BY <1>4, <3>3, <4>1, IndexesOfRegions
      <4> QED BY <4>2 DEF OwnPage, private
    <3>4. CASE n \notin 1..Len(private)
      <4> DEFINE k == n - Len(private)
      <4>1. k \in 1..Len(mapping) /\ a \in RegionIndexes(mapping[k]) BY <3>1, <3>2, <3>4
      <4> HIDE DEF k
      <4>2. a \in Indexes(mapping) BY <1>4, <4>1, IndexesOfRegions
      <4> QED BY <2>2, <4>2
    <3> QED BY <3>3, <3>4
  <2> QED BY <1>6, <2>1, <2>2
<1> HIDE DEF s, row
<1>8. At(use, row[a].frame, s.paging_root, 0, a) BY <1>1, <1>5, <1>7, OwnPageIsMine
<1> QED BY <1>8 DEF s, row

\* A page that is inherited is mapped by all who share it, at the same frame.
LEMMA InheritedIsShared ==
    ASSUME NEW m, NEW array, NEW use, NEW pg, NEW birth, NEW count, State(m, array, use, pg, birth, count),
           NEW p \in Live(array), NEW a \in Unshared, Inherited(array[p], a),
           NEW o \in Live(array),
           SameFrames(pg[array[p].paging_root], pg[array[o].paging_root], array[p].mapping_history,
                      1..Len(array[p].mapping_history))
    PROVE  /\ pg[array[o].paging_root][a] # Absent
           /\ pg[array[p].paging_root][a].frame = pg[array[o].paging_root][a].frame
<1> DEFINE h == array[p].mapping_history
<1>1. array[p] \in Slot /\ SlotShape(use, pg[array[p].paging_root], array[p]) BY SlotFacts
<1>2. RegionsFit(h)
  <2>1. h \in Histories BY <1>1 DEF Slot
  <2>2. \A n \in 1..Len(h) : RegionOK(h[n]) BY <1>1, SlotRegions
  <2> QED BY <2>1, <2>2 DEF RegionsFit
<1>3. a \in Indexes(h) BY DEF Inherited
<1>4. SameFrames(pg[array[p].paging_root], pg[array[o].paging_root], h, 1..Len(h)) OBVIOUS
<1> HIDE DEF h
<1>5. PICK n \in 1..Len(h) : a \in RegionIndexes(h[n]) BY <1>2, <1>3, IndexesOfRegions
<1> QED BY <1>4, <1>5 DEF SameFrames

\* Every frame that is mapped is mapped at the same place by its owner.
LEMMA FrameOwner ==
    ASSUME NEW m, NEW array, NEW use, NEW pg, NEW birth, NEW count, State(m, array, use, pg, birth, count),
           NEW p \in Live(array), NEW a \in Unshared, pg[array[p].paging_root][a] # Absent
    PROVE  \E o \in Live(array) :
             /\ ~Inherited(array[o], a) /\ pg[array[o].paging_root][a] # Absent
             /\ pg[array[o].paging_root][a].frame = pg[array[p].paging_root][a].frame
<1>1. CASE ~Inherited(array[p], a) BY <1>1
<1>2. CASE Inherited(array[p], a)
  <2>1. PICK o : Forebear(array, pg, p, o) BY ForebearLives
  <2>2. /\ o \in Live(array) /\ array[o].father_id = NoProcess
        /\ SameFrames(pg[array[p].paging_root], pg[array[o].paging_root], array[p].mapping_history,
                      1..Len(array[p].mapping_history))
    BY <2>1 DEF Forebear
  <2>3. /\ pg[array[o].paging_root][a] # Absent
        /\ pg[array[p].paging_root][a].frame = pg[array[o].paging_root][a].frame
    BY <1>2, <2>2, InheritedIsShared
  <2>4. ~Inherited(array[o], a) BY <2>2 DEF Inherited
  <2> QED BY <2>2, <2>3, <2>4
<1> QED BY <1>1, <1>2

\* A frame is at one place of one process.
LEMMA OnePlaceOnly ==
    ASSUME NEW m, NEW array, NEW use, NEW pg, NEW birth, NEW count, State(m, array, use, pg, birth, count),
           NEW p \in Live(array), NEW q \in Live(array), NEW a \in Unshared, NEW b \in Unshared, NEW f,
           At(use, f, array[p].paging_root, 0, a), At(use, f, array[q].paging_root, 0, b)
    PROVE  p = q /\ a = b
<1>1. array[p].paging_root = array[q].paging_root BY DEF At
<1>2. p = q BY <1>1 DEF State, Slots
<1>3. SameAbove(use[f].index, a, 0) /\ SameAbove(use[f].index, b, 0) BY DEF At
<1>4. SameAbove(a, b, 0) BY <1>3, PlaceFacts
<1>5. a \in Idx /\ b \in Idx BY IndexFacts
<1> QED BY <1>2, <1>4, <1>5, PlaceFacts

\* The refinement mapping, without the set constructions.
LEMMA MappingsAreLeaves ==
    \A x : x \in Mappings <=> \E p \in Present : \E n \in Below(process_array[p].paging_root) :
        n.level = 0 /\ x = MappingOf(p, process_array[p], n)
<1>1. ASSUME NEW x
      PROVE  x \in Mappings <=> \E p \in Present : x \in MappingsOf(p, process_array[p], Nodes[p])
  BY DEF Mappings
<1>2. ASSUME NEW p, NEW s, NEW nodes, NEW x
      PROVE  x \in MappingsOf(p, s, nodes) <=> \E n \in nodes : n.level = 0 /\ x = MappingOf(p, s, n)
  BY DEF MappingsOf
<1>3. \A p \in Present : Nodes[p] = Below(process_array[p].paging_root) BY DEF Nodes
<1> QED BY <1>1, <1>2, <1>3

\* A leaf is a mapping.
LEMMA LeafIsEntry ==
    ASSUME NEW p, NEW s, NEW n, NEW row, n.frame = row[n.index].frame
    PROVE  MappingOf(p, s, n) = MapEntry(p, s, row, n.index)
BY Zenon DEF MappingOf, MapEntry

\* The mappings are what the rows hold.
LEMMA MappingsAreEntries ==
    ASSUME NEW use, NEW pg, NEW birth, NEW count, State(memory, process_array, use, pg, birth, count)
    PROVE  \A x : x \in Mappings <=> \E p \in Pid : \E a \in Unshared : IsEntry(process_array, pg, p, a, x)
<1>1. Forest(memory, use, pg, Roots(process_array)) BY DEF State
<1>2. ASSUME NEW x, x \in Mappings
      PROVE  \E p \in Pid : \E a \in Unshared : IsEntry(process_array, pg, p, a, x)
  <2>1. PICK p \in Present : \E n \in Below(process_array[p].paging_root) :
          n.level = 0 /\ x = MappingOf(p, process_array[p], n)
    BY <1>2, MappingsAreLeaves
  <2>2. PICK n \in Below(process_array[p].paging_root) : n.level = 0 /\ x = MappingOf(p, process_array[p], n)
    BY <2>1
  <2>3. p \in Live(process_array) /\ p \in Pid BY PresentIsLive DEF Live
  <2> DEFINE r == process_array[p].paging_root
  <2>4. r \in Roots(process_array) /\ \E k \in 0..LEVELS : NodeAt(use, pg, r, k, n) BY <2>2, BelowNodes
  <2>5. PICK k \in 0..LEVELS : NodeAt(use, pg, r, k, n) BY <2>4
  <2> HIDE DEF r
  <2>6. /\ n.level = k
        /\ k = 0 => n.index \in Unshared /\ pg[r][n.index] # Absent /\ pg[r][n.index].frame = n.frame
    BY <1>1, <2>4, <2>5, NodeFacts
  <2>7. n.index \in Unshared /\ pg[r][n.index] # Absent /\ n.frame = pg[r][n.index].frame
    BY <2>2, <2>6
  <2>8. x = MapEntry(p, process_array[p], pg[r], n.index) BY <2>2, <2>7, LeafIsEntry
  <2> QED BY <2>3, <2>7, <2>8 DEF IsEntry, r
<1>3. ASSUME NEW p \in Pid, NEW a \in Unshared, NEW x, IsEntry(process_array, pg, p, a, x)
      PROVE  x \in Mappings
  <2> DEFINE r == process_array[p].paging_root
             n == Node(0, pg[r][a].frame, a)
  <2>1. /\ p \in Live(process_array) /\ pg[r][a] # Absent
        /\ x = MapEntry(p, process_array[p], pg[r], a)
    BY <1>3 DEF IsEntry
  <2>2. n.level = 0 /\ n.index = a /\ n.frame = pg[r][a].frame BY NodeFields
  <2>3. NodeAt(use, pg, r, 0, n) BY <2>1 DEF NodeAt
  <2>4. p \in Present BY <2>1, PresentIsLive
  <2>5. 0 \in 0..LEVELS BY LevelsFact
  <2> HIDE DEF n
  <2>6. n \in Below(r) BY <2>3, <2>4, <2>5, BelowNodes
  <2> HIDE DEF r
  <2>7. MappingOf(p, process_array[p], n) = MapEntry(p, process_array[p], pg[r], n.index)
    BY <2>2, LeafIsEntry
  <2>8. x = MappingOf(p, process_array[p], n) BY <2>1, <2>2, <2>7
  <2> QED BY <2>2, <2>4, <2>6, <2>8, MappingsAreLeaves DEF r
<1> QED BY <1>2, <1>3

\* This is so in every state that the invariant describes, the next one too.
Agreement ==
    \A use, pg, birth, count : State(memory, process_array, use, pg, birth, count) =>
        \A x : x \in Mappings <=> \E p \in Pid : \E a \in Unshared : IsEntry(process_array, pg, p, a, x)

\* For the unprimed variables.
LEMMA MappingsAgree == Agreement
BY MappingsAreEntries DEF Agreement

\* And for the primed ones.
LEMMA MappingsAgreeNext ==
    ASSUME NEW use, NEW pg, NEW birth, NEW count, State(memory', process_array', use, pg, birth, count)
    PROVE  \A x : x \in Mappings' <=> \E p \in Pid : \E a \in Unshared : IsEntry(process_array', pg, p, a, x)
<1>1. Agreement' BY MappingsAgree, PTL
<1> QED BY <1>1 DEF Agreement

\* What two entries have in common.
LEMMA EntryFacts ==
    ASSUME NEW m, NEW array, NEW use, NEW pg, NEW birth, NEW count, State(m, array, use, pg, birth, count),
           NEW p, NEW a, NEW x, IsEntry(array, pg, p, a, x)
    PROVE  /\ p \in Live(array) /\ p \in Pid /\ a \in Unshared /\ pg[array[p].paging_root][a] # Absent
           /\ x.process = p /\ x.frame = pg[array[p].paging_root][a].frame
           /\ x.page \in Page /\ IndexOf(x.page) = a /\ x.page = PageAt(a)
           /\ (x.inherited <=> Inherited(array[p], a))
           /\ x \in Spaces!Mapping
<1> DEFINE row == pg[array[p].paging_root]
<1>1. /\ p \in Live(array) /\ p \in Pid /\ a \in Unshared /\ row[a] # Absent
      /\ x = MapEntry(p, array[p], row, a)
  BY DEF IsEntry, Live
<1>2. PageAt(a) \in Page /\ IndexOf(PageAt(a)) = a BY <1>1, EntryPage
<1>3. row[a].frame \in Frame
  <2>1. array[p].paging_root \in Frame BY <1>1, SlotFacts
  <2>2. pg \in PageMaps BY DEF State, Forest, ForestTypes
  <2>3. row[a] \in Entry BY <1>1, <2>1, <2>2 DEF PageMaps
  <2> QED BY <2>3 DEF Entry
<1> HIDE DEF row
<1>4. /\ x.process = p /\ x.page = PageAt(a) /\ x.frame = row[a].frame
      /\ x.inherited \in BOOLEAN /\ (x.inherited <=> Inherited(array[p], a))
  BY <1>1, MapEntryFields
<1>5. x \in Spaces!Mapping
  <2> DEFINE page == PageAt(a)
             frame == row[a].frame
             inherited == Inherited(array[p], a)
  <2>1. x = [process |-> p, page |-> page, frame |-> frame, inherited |-> inherited]
    BY Zenon, <1>1 DEF MapEntry
  <2>2. page \in Page /\ frame \in Frame /\ p \in Pid BY <1>1, <1>2, <1>3
  <2>3. inherited \in BOOLEAN BY DEF Inherited
  <2> HIDE DEF page, frame, inherited
  <2> QED BY Zenon, <2>1, <2>2, <2>3 DEF Spaces!Mapping
<1> QED BY <1>1, <1>2, <1>4, <1>5 DEF row

\* What set contains is what is mapped.
Describes(set, array, pg) ==
    \A x : x \in set <=> \E p \in Pid : \E a \in Unshared : IsEntry(array, pg, p, a, x)

\* Frames that are not inherited are apart.
LEMMA EntriesApart ==
    ASSUME NEW m, NEW array, NEW use, NEW pg, NEW birth, NEW count, State(m, array, use, pg, birth, count),
           NEW p, NEW a, NEW x, IsEntry(array, pg, p, a, x), ~x.inherited,
           NEW q, NEW b, NEW y, IsEntry(array, pg, q, b, y), ~y.inherited,
           x.frame = y.frame
    PROVE  x = y /\ p = q /\ a = b
<1>1. /\ p \in Live(array) /\ a \in Unshared /\ pg[array[p].paging_root][a] # Absent
      /\ x.frame = pg[array[p].paging_root][a].frame /\ ~Inherited(array[p], a)
  BY EntryFacts
<1>2. /\ q \in Live(array) /\ b \in Unshared /\ pg[array[q].paging_root][b] # Absent
      /\ y.frame = pg[array[q].paging_root][b].frame /\ ~Inherited(array[q], b)
  BY EntryFacts
<1>3. At(use, x.frame, array[p].paging_root, 0, a) BY <1>1, OwnIsAt
<1>4. At(use, x.frame, array[q].paging_root, 0, b) BY <1>2, OwnIsAt
<1>5. p = q /\ a = b BY <1>1, <1>2, <1>3, <1>4, OnePlaceOnly
<1> QED BY <1>5 DEF IsEntry

\* No frame is in two mappings of a set of them that are not inherited.
LEMMA SetApart ==
    ASSUME NEW m, NEW array, NEW use, NEW pg, NEW birth, NEW count, State(m, array, use, pg, birth, count),
           NEW all, Describes(all, array, pg), NEW set \in SUBSET all
    PROVE  set \subseteq Spaces!Mapping /\ Spaces!Apart(set)
<1>1. ASSUME NEW x \in set PROVE x \in Spaces!Mapping
  <2>1. PICK p \in Pid, a \in Unshared : IsEntry(array, pg, p, a, x) BY DEF Describes
  <2> QED BY <2>1, EntryFacts
<1>2. ASSUME NEW x \in set, NEW y \in set, ~x.inherited, ~y.inherited, x.frame = y.frame
      PROVE  x = y
  <2>1. PICK p \in Pid, a \in Unshared : IsEntry(array, pg, p, a, x) BY DEF Describes
  <2>2. PICK q \in Pid, b \in Unshared : IsEntry(array, pg, q, b, y) BY DEF Describes
  <2> QED BY <1>2, <2>1, <2>2, EntriesApart
<1>3. Spaces!Apart(set) BY <1>2 DEF Spaces!Apart
<1> QED BY <1>1, <1>3

\* What is mapped stays so for a process whose record and pages do.
LEMMA EntrySame ==
    ASSUME NEW p, NEW s, NEW t, NEW row, NEW other, NEW a,
           t.father_id = s.father_id, t.mapping_history = s.mapping_history, other[a] = row[a]
    PROVE  MapEntry(p, t, other, a) = MapEntry(p, s, row, a)
<1>1. Inherited(t, a) = Inherited(s, a) BY Zenon DEF Inherited
<1> QED BY Zenon, <1>1 DEF MapEntry

\* The mappings of a process that a step leaves alone stay.
LEMMA StaysMapped ==
    ASSUME NEW pg, NEW newest, NEW p, RowStays(pg, newest, p), NEW a, NEW x
    PROVE  IsEntry(process_array, pg, p, a, x) <=> IsEntry(process_array', newest, p, a, x)
<1> DEFINE s == process_array[p]
           t == process_array'[p]
           row == pg[s.paging_root]
<1>1. /\ p \in Live(process_array) /\ p \in Live(process_array')
      /\ t.paging_root = s.paging_root /\ t.father_id = s.father_id
      /\ t.mapping_history = s.mapping_history /\ newest[t.paging_root] = row
  BY DEF RowStays, SlotStays
<1> HIDE DEF s, t, row
<1>2. MapEntry(p, t, row, a) = MapEntry(p, s, row, a) BY <1>1, EntrySame
<1>3. IsEntry(process_array, pg, p, a, x) <=>
        p \in Live(process_array) /\ a \in Unshared /\ row[a] # Absent /\ x = MapEntry(p, s, row, a)
  BY DEF IsEntry, s, row
<1>4. IsEntry(process_array', newest, p, a, x) <=>
        /\ p \in Live(process_array') /\ a \in Unshared /\ newest[t.paging_root][a] # Absent
        /\ x = MapEntry(p, t, newest[t.paging_root], a)
  BY DEF IsEntry, t
<1> QED BY <1>1, <1>2, <1>3, <1>4

\* Those of a process that gets pages stay.
LEMMA GrowsMapped ==
    ASSUME NEW pg, NEW newest, NEW q, GainsFor(pg, newest, q), NEW a, NEW x,
           IsEntry(process_array, pg, q, a, x)
    PROVE  IsEntry(process_array', newest, q, a, x)
<1> DEFINE s == process_array[q]
           t == process_array'[q]
           row == pg[s.paging_root]
           other == newest[t.paging_root]
<1>1. q \in Live(process_array) /\ a \in Unshared /\ row[a] # Absent /\ x = MapEntry(q, s, row, a)
  BY DEF IsEntry
<1>2. /\ q \in Live(process_array') /\ t.paging_root = s.paging_root /\ t.father_id = s.father_id
      /\ t.mapping_history = s.mapping_history /\ RowGrown(row, other)
  BY <1>1 DEF GainsFor, SlotStays
<1>3. other[a] = row[a] BY <1>1, <1>2 DEF RowGrown
<1> HIDE DEF s, t, row, other
<1>4. MapEntry(q, t, other, a) = MapEntry(q, s, row, a) BY <1>2, <1>3, EntrySame
<1> QED BY <1>1, <1>2, <1>3, <1>4 DEF IsEntry, t, other

-----------------------------------------------------------------------------
(* A step that ends processes.                                             *)

\* Ending processes is the abstract End or a stutter.
LEMMA ShrinkStep ==
    ASSUME NEW use, NEW pg, NEW birth, NEW count, State(memory, process_array, use, pg, birth, count),
           NEW last, NEW newest, NEW dates, NEW later,
           State(memory', process_array', last, newest, dates, later), Shrinks(pg, newest)
    PROVE  /\ Mappings' \subseteq Mappings
           /\ Mappings \ Mappings' # {} => Spaces!End(Mappings \ Mappings')
<1>1. Describes(Mappings, process_array, pg) BY MappingsAreEntries DEF Describes
<1>2. Describes(Mappings', process_array', newest) BY MappingsAgreeNext DEF Describes
<1> DEFINE before == Mappings
           after == Mappings'
<1> HIDE DEF before, after
<1>3. ASSUME NEW x \in after PROVE x \in before
  <2>1. PICK p \in Pid, a \in Unshared : IsEntry(process_array', newest, p, a, x)
    BY <1>2 DEF Describes, after
  <2>2. RowStays(pg, newest, p) BY <2>1 DEF IsEntry, Shrinks
  <2>3. IsEntry(process_array, pg, p, a, x) BY <2>1, <2>2, StaysMapped
  <2> QED BY <1>1, <2>3 DEF Describes, before
<1>4. ASSUME NEW x \in before \ after
      PROVE  x.process \notin Live(process_array')
  <2>1. PICK p \in Pid, a \in Unshared : IsEntry(process_array, pg, p, a, x)
    BY <1>1 DEF Describes, before
  <2>2. x.process = p BY <2>1, EntryFacts
  <2>3. SUFFICES ASSUME p \in Live(process_array') PROVE FALSE BY <2>2
  <2>4. RowStays(pg, newest, p) BY <2>3 DEF Shrinks
  <2>5. IsEntry(process_array', newest, p, a, x) BY <2>1, <2>4, StaysMapped
  <2>6. x \in after BY <1>2, <2>5 DEF Describes, after
  <2> QED BY <1>4, <2>6
<1>5. ASSUME NEW x \in after PROVE x.process \in Live(process_array')
  <2>1. PICK p \in Pid, a \in Unshared : IsEntry(process_array', newest, p, a, x)
    BY <1>2 DEF Describes, after
  <2> QED BY <2>1, EntryFacts
<1>6. ASSUME NEW x \in before \ after, ~x.inherited, NEW y \in after, x.frame = y.frame
      PROVE  FALSE
  <2>1. PICK p \in Pid, a \in Unshared : IsEntry(process_array, pg, p, a, x)
    BY <1>1 DEF Describes, before
  <2>2. PICK q \in Pid, b \in Unshared : IsEntry(process_array', newest, q, b, y)
    BY <1>2 DEF Describes, after
  <2>3. /\ q \in Live(process_array') /\ b \in Unshared /\ newest[process_array'[q].paging_root][b] # Absent
        /\ y.frame = newest[process_array'[q].paging_root][b].frame
    BY <2>2, EntryFacts
  <2>4. PICK o \in Live(process_array') :
             /\ ~Inherited(process_array'[o], b) /\ newest[process_array'[o].paging_root][b] # Absent
             /\ newest[process_array'[o].paging_root][b].frame = newest[process_array'[q].paging_root][b].frame
    BY <2>3, FrameOwner
  <2> DEFINE z == MapEntry(o, process_array'[o], newest[process_array'[o].paging_root], b)
  <2>5. IsEntry(process_array', newest, o, b, z) BY <2>3, <2>4 DEF IsEntry
  <2> HIDE DEF z
  <2>6. z.frame = y.frame /\ z.process = o /\ ~z.inherited BY <2>3, <2>4, <2>5, EntryFacts
  <2>7. RowStays(pg, newest, o) BY DEF Shrinks
  <2>8. IsEntry(process_array, pg, o, b, z) BY <2>5, <2>7, StaysMapped
  <2>9. p = o BY <1>6, <2>1, <2>6, <2>8, EntriesApart
  <2>10. x.process = p BY <2>1, EntryFacts
  <2>11. p \notin Live(process_array') BY <1>4, <1>6, <2>10
  <2> QED BY <2>4, <2>9, <2>11
<1>7. Spaces!OwnersOf(before \ after) \cap Spaces!OwnersOf(after) = {}
  BY <1>4, <1>5 DEF Spaces!OwnersOf
<1>8. Spaces!FramesOf({m \in before \ after : ~m.inherited}) \cap Spaces!FramesOf(after) = {}
  BY <1>6 DEF Spaces!FramesOf
<1>9. before \ after # {} => Spaces!End(before \ after)
  BY <1>7, <1>8 DEF Spaces!End, after
<1> QED BY <1>3, <1>9 DEF before, after

-----------------------------------------------------------------------------
(* A step that gives pages to a process.                                   *)

\* What is mapped anew is mapped by the process that gets pages.
LEMMA GivenIsHers ==
    ASSUME NEW pg, NEW newest, NEW q, GainsFor(pg, newest, q),
           NEW p, NEW a, NEW x, IsEntry(process_array', newest, p, a, x),
           ~IsEntry(process_array, pg, p, a, x)
    PROVE  p = q
<1>1. SUFFICES ASSUME p # q PROVE FALSE OBVIOUS
<1>2. p \in Live(process_array') BY DEF IsEntry
<1>3. RowStays(pg, newest, p) BY <1>1, <1>2 DEF GainsFor
<1> QED BY <1>3, StaysMapped

\* What was mapped stays so.
LEMMA KeptMapped ==
    ASSUME NEW pg, NEW newest, NEW q, GainsFor(pg, newest, q),
           NEW p, NEW a, NEW x, IsEntry(process_array, pg, p, a, x)
    PROVE  IsEntry(process_array', newest, p, a, x)
<1>1. CASE p = q BY <1>1, GrowsMapped
<1>2. CASE p # q
  <2>1. p \in Live(process_array) BY DEF IsEntry
  <2>2. RowStays(pg, newest, p) BY <1>2, <2>1 DEF GainsFor
  <2> QED BY <2>2, StaysMapped
<1> QED BY <1>1, <1>2

\* The frames of new pages that are not inherited were not mapped by anyone.
LEMMA GivenIsFresh ==
    ASSUME NEW use, NEW pg, NEW birth, NEW count, State(memory, process_array, use, pg, birth, count),
           NEW last, NEW newest, NEW dates, NEW later,
           State(memory', process_array', last, newest, dates, later),
           NEW q, GainsFor(pg, newest, q),
           NEW a, NEW x, IsEntry(process_array', newest, q, a, x), ~IsEntry(process_array, pg, q, a, x),
           ~x.inherited,
           NEW p, NEW b, NEW y, IsEntry(process_array, pg, p, b, y)
    PROVE  x.frame # y.frame
<1>1. SUFFICES ASSUME x.frame = y.frame PROVE FALSE OBVIOUS
<1>2. /\ p \in Live(process_array) /\ b \in Unshared /\ pg[process_array[p].paging_root][b] # Absent
      /\ y.frame = pg[process_array[p].paging_root][b].frame
  BY EntryFacts
<1>3. PICK o \in Live(process_array) :
             /\ ~Inherited(process_array[o], b) /\ pg[process_array[o].paging_root][b] # Absent
             /\ pg[process_array[o].paging_root][b].frame = pg[process_array[p].paging_root][b].frame
  BY <1>2, FrameOwner
<1> DEFINE z == MapEntry(o, process_array[o], pg[process_array[o].paging_root], b)
<1>4. IsEntry(process_array, pg, o, b, z) BY <1>2, <1>3 DEF IsEntry
<1> HIDE DEF z
<1>5. z.frame = y.frame /\ ~z.inherited BY <1>2, <1>3, <1>4, EntryFacts
<1>6. IsEntry(process_array', newest, o, b, z) BY <1>4, KeptMapped
<1>7. x = z /\ q = o /\ a = b BY <1>1, <1>5, <1>6, EntriesApart
<1> QED BY <1>4, <1>7

\* A process that was there inherits nothing more.
LEMMA HeirsAreNew ==
    ASSUME NEW use, NEW pg, NEW birth, NEW count, State(memory, process_array, use, pg, birth, count),
           NEW last, NEW newest, NEW dates, NEW later,
           State(memory', process_array', last, newest, dates, later),
           NEW q, GainsFor(pg, newest, q),
           NEW a, NEW x, IsEntry(process_array', newest, q, a, x), ~IsEntry(process_array, pg, q, a, x),
           x.inherited
    PROVE  q \notin Live(process_array)
<1>1. SUFFICES ASSUME q \in Live(process_array) PROVE FALSE OBVIOUS
<1> DEFINE s == process_array[q]
           t == process_array'[q]
           row == pg[s.paging_root]
           h == s.mapping_history
<1>2. /\ t.father_id = s.father_id /\ t.mapping_history = h /\ t.paging_root = s.paging_root
      /\ RowGrown(row, newest[t.paging_root])
  BY <1>1 DEF GainsFor, SlotStays
<1>3. a \in Unshared /\ Inherited(t, a) /\ x = MapEntry(q, t, newest[t.paging_root], a)
  BY EntryFacts DEF IsEntry
<1>4. a \in Indexes(h) /\ Inherited(s, a) BY <1>2, <1>3 DEF Inherited
<1>5. s \in Slot /\ SlotShape(use, row, s) BY <1>1, SlotFacts
<1>6. row[a] # Absent
  <2>1. s.father_id # NoProcess BY <1>4 DEF Inherited
  <2>2. SlotFather(process_array, pg, birth, q) BY <1>1, SlotFacts
  <2>3. /\ RegionsFit(h)
        /\ Held(row, s.private_mapping_history \o h, 1..(Len(s.private_mapping_history) + Len(h)))
    <3>1. h \in Histories BY <1>5 DEF Slot
    <3>2. \A n \in 1..Len(h) : RegionOK(h[n]) BY <1>5, SlotRegions
    <3>3. Held(row, s.private_mapping_history \o h, 1..(Len(s.private_mapping_history) + Len(h)))
      BY <1>5, SlotRegions
    <3> QED BY <3>1, <3>2, <3>3 DEF RegionsFit
  <2>4. PICK n \in 1..Len(h) : a \in RegionIndexes(h[n]) BY <1>4, <2>3, IndexesOfRegions
  <2> DEFINE private == s.private_mapping_history
  <2>5. private \in Histories /\ h \in Histories BY <1>5 DEF Slot
  <2> HIDE DEF private, h, row, s, t
  <2>6. /\ Len(private) + n \in 1..(Len(private) + Len(h))
        /\ (private \o h)[Len(private) + n] = h[n]
    BY <2>5 DEF Histories
  <2> DEFINE k == Len(private) + n
             both == private \o h
  <2>7. k \in 1..(Len(private) + Len(h)) /\ a \in RegionIndexes(both[k]) BY <2>4, <2>6
  <2>8. Held(row, both, 1..(Len(private) + Len(h))) BY <2>3 DEF private
  <2> HIDE DEF k, both
  <2> QED BY <1>3, <2>7, <2>8 DEF Held
<1>7. newest[t.paging_root][a] = row[a] BY <1>2, <1>3, <1>6 DEF RowGrown
<1> HIDE DEF s, t, row, h
<1>8. MapEntry(q, t, newest[t.paging_root], a) = MapEntry(q, s, row, a)
  BY <1>2, <1>7, EntrySame DEF h
<1>9. IsEntry(process_array, pg, q, a, x) BY <1>1, <1>3, <1>6, <1>8 DEF IsEntry, s, row
<1> QED BY <1>9

\* What is inherited is what the father has at that page.
LEMMA HeirsSeeTheFather ==
    ASSUME NEW use, NEW pg, NEW birth, NEW count, State(memory, process_array, use, pg, birth, count),
           NEW last, NEW newest, NEW dates, NEW later,
           State(memory', process_array', last, newest, dates, later),
           NEW q, GainsFor(pg, newest, q), q \notin Live(process_array),
           NEW a, NEW x, IsEntry(process_array', newest, q, a, x), x.inherited
    PROVE  LET father == process_array'[q].father_id
               y == MapEntry(father, process_array[father], pg[process_array[father].paging_root], a)
           IN  /\ father \in Pid /\ IsEntry(process_array, pg, father, a, y)
               /\ y.process = father /\ y.page = x.page /\ y.frame = x.frame
<1> DEFINE t == process_array'[q]
           father == t.father_id
           row == newest[t.paging_root]
           y == MapEntry(father, process_array[father], pg[process_array[father].paging_root], a)
<1>1. /\ q \in Live(process_array') /\ a \in Unshared /\ Inherited(t, a) /\ row[a] # Absent
      /\ x.frame = row[a].frame /\ x.page = PageAt(a)
  BY EntryFacts
<1>2. SlotFather(process_array', newest, dates, q) BY <1>1, SlotFacts
<1>3. father # NoProcess BY <1>1 DEF Inherited
<1>4. /\ father \in Live(process_array') /\ dates[father] < dates[q]
      /\ SameFrames(row, newest[process_array'[father].paging_root], t.mapping_history,
                    1..Len(t.mapping_history))
  BY <1>2, <1>3 DEF SlotFather
<1>5. /\ newest[process_array'[father].paging_root][a] # Absent
      /\ row[a].frame = newest[process_array'[father].paging_root][a].frame
  BY <1>1, <1>4, InheritedIsShared
<1>6. father # q
  <2>1. dates[q] \in Int BY <1>1, SlotFacts
  <2> QED BY <1>4, <2>1
<1>7. RowStays(pg, newest, father) BY <1>4, <1>6 DEF GainsFor
<1>8. /\ father \in Live(process_array)
      /\ newest[process_array'[father].paging_root] = pg[process_array[father].paging_root]
  BY <1>7 DEF RowStays, SlotStays
<1>9. IsEntry(process_array, pg, father, a, y) BY <1>1, <1>5, <1>8 DEF IsEntry
<1>10. father \in Pid BY <1>8 DEF Live
<1> HIDE DEF t, row, y
<1>11. y.process = father /\ y.page = PageAt(a) /\ y.frame = pg[process_array[father].paging_root][a].frame
  BY <1>9, EntryFacts
<1> QED BY <1>1, <1>5, <1>8, <1>9, <1>10, <1>11 DEF t, y

\* Giving pages is the abstract Give or a stutter.
LEMMA GainStep ==
    ASSUME NEW use, NEW pg, NEW birth, NEW count, State(memory, process_array, use, pg, birth, count),
           NEW last, NEW newest, NEW dates, NEW later,
           State(memory', process_array', last, newest, dates, later),
           NEW q \in Pid, GainsFor(pg, newest, q)
    PROVE  /\ Mappings \subseteq Mappings'
           /\ Mappings' \ Mappings # {} => Spaces!Give(Mappings' \ Mappings)
<1>1. Describes(Mappings, process_array, pg) BY MappingsAreEntries DEF Describes
<1>2. Describes(Mappings', process_array', newest) BY MappingsAgreeNext DEF Describes
<1> DEFINE before == Mappings
           after == Mappings'
           given == after \ before
           before_q == {m \in before : m.process = q}
<1> HIDE DEF before, after
<1>3. ASSUME NEW x \in before PROVE x \in after
  <2>1. PICK p \in Pid, a \in Unshared : IsEntry(process_array, pg, p, a, x)
    BY <1>1 DEF Describes, before
  <2>2. IsEntry(process_array', newest, p, a, x) BY <2>1, KeptMapped
  <2> QED BY <1>2, <2>2 DEF Describes, after
<1>4. ASSUME NEW x \in given
      PROVE  \E a \in Unshared : /\ IsEntry(process_array', newest, q, a, x)
                                 /\ ~IsEntry(process_array, pg, q, a, x)
  <2>1. PICK p \in Pid, a \in Unshared : IsEntry(process_array', newest, p, a, x)
    BY <1>2 DEF Describes, after
  <2>2. ~IsEntry(process_array, pg, p, a, x) BY <1>1 DEF Describes, before
  <2>3. p = q BY <2>1, <2>2, GivenIsHers
  <2> QED BY <2>1, <2>2, <2>3
<1>5. given \subseteq Spaces!Mapping /\ Spaces!Apart(given)
  <2>1. Describes(after, process_array', newest) BY <1>2 DEF after
  <2>2. given \in SUBSET after OBVIOUS
  <2> HIDE DEF given
  <2> QED BY <2>1, <2>2, SetApart
<1>6. ASSUME NEW x \in given PROVE x.process = q
  BY <1>4, EntryFacts
<1>7. ASSUME NEW x \in given, NEW y \in before, y.process = q PROVE x.page # y.page
  <2>1. SUFFICES ASSUME x.page = y.page PROVE FALSE OBVIOUS
  <2>2. PICK a \in Unshared : /\ IsEntry(process_array', newest, q, a, x)
                              /\ ~IsEntry(process_array, pg, q, a, x)
    BY <1>4
  <2>3. PICK p \in Pid, b \in Unshared : IsEntry(process_array, pg, p, b, y)
    BY <1>1 DEF Describes, before
  <2>4. p = q BY <1>7, <2>3, EntryFacts
  <2>5. IsEntry(process_array', newest, q, b, y) BY <2>3, <2>4, KeptMapped
  <2>6. a = b BY <2>1, <2>2, <2>5, EntryFacts
  <2>7. x = y BY <2>2, <2>5, <2>6 DEF IsEntry
  <2> QED BY <2>2, <2>3, <2>4, <2>6, <2>7
<1>8. ASSUME NEW x \in given, ~x.inherited, NEW y \in before PROVE x.frame # y.frame
  <2>1. PICK a \in Unshared : /\ IsEntry(process_array', newest, q, a, x)
                              /\ ~IsEntry(process_array, pg, q, a, x)
    BY <1>4
  <2>2. PICK p \in Pid, b \in Unshared : IsEntry(process_array, pg, p, b, y)
    BY <1>1 DEF Describes, before
  <2> QED BY <1>8, <2>1, <2>2, GivenIsFresh
<1>9. ASSUME NEW x \in given, x.inherited
      PROVE  /\ process_array'[q].father_id \in Pid /\ before_q = {}
             /\ \E f \in before : /\ f.process = process_array'[q].father_id
                                  /\ f.page = x.page /\ f.frame = x.frame
  <2>1. PICK a \in Unshared : /\ IsEntry(process_array', newest, q, a, x)
                              /\ ~IsEntry(process_array, pg, q, a, x)
    BY <1>4
  <2>2. q \notin Live(process_array) BY <1>9, <2>1, HeirsAreNew
  <2> DEFINE father == process_array'[q].father_id
             y == MapEntry(father, process_array[father], pg[process_array[father].paging_root], a)
  <2>3. /\ father \in Pid /\ IsEntry(process_array, pg, father, a, y)
        /\ y.process = father /\ y.page = x.page /\ y.frame = x.frame
    BY <1>9, <2>1, <2>2, HeirsSeeTheFather
  <2> HIDE DEF y, father
  <2>4. y \in before BY <1>1, <2>1, <2>3 DEF Describes, before
  <2>5. before_q = {}
    <3>1. SUFFICES ASSUME NEW m \in before, m.process = q PROVE FALSE OBVIOUS
    <3>2. PICK p \in Pid, b \in Unshared : IsEntry(process_array, pg, p, b, m)
      BY <1>1 DEF Describes, before
    <3> QED BY <2>2, <3>1, <3>2, EntryFacts
  <2> QED BY <2>3, <2>4, <2>5 DEF father
<1>10. PICK father \in Pid : \A x \in given : x.inherited =>
          before_q = {} /\ \E f \in before : f.process = father /\ f.page = x.page /\ f.frame = x.frame
  <2>1. CASE \A x \in given : ~x.inherited BY <2>1
  <2>2. CASE \E x \in given : x.inherited BY <1>9, <2>2
  <2> QED BY <2>1, <2>2
<1>11. ASSUME given # {} PROVE Spaces!Give(given)
  <2>1. Spaces!OwnersOf(given) = {q} BY <1>6, <1>11 DEF Spaces!OwnersOf
  <2>2. {m.page : m \in given} \cap {m.page : m \in before_q} = {} BY <1>7
  <2>3. Spaces!FramesOf({m \in given : ~m.inherited}) \cap Spaces!FramesOf(before) = {}
    BY <1>8 DEF Spaces!FramesOf
  <2>4. \A m \in {m \in given : m.inherited} :
          before_q = {} /\ \E f \in before : f.process = father /\ f.page = m.page /\ f.frame = m.frame
    BY <1>10
  <2> HIDE DEF given
  <2>5. q \in Spaces!OwnersOf(given) BY <2>1
  <2> QED BY <1>5, <1>11, <2>1, <2>2, <2>3, <2>4, <2>5 DEF Spaces!Give, before
<1> QED BY <1>3, <1>11 DEF before, after

\* The first state is an abstract first state.
LEMMA InitSpaces == Init => Spaces!Init
<1> SUFFICES ASSUME Init PROVE Spaces!Init OBVIOUS
<1>1. PICK use, pg, birth : State(memory, process_array, use, pg, birth, forks) BY InitLeads
<1>2. Describes(Mappings, process_array, pg) BY <1>1, MappingsAreEntries DEF Describes
<1>3. Mappings \subseteq Spaces!Mapping /\ Spaces!Apart(Mappings) BY <1>1, <1>2, SetApart
<1> QED BY <1>3 DEF Spaces!Init

\* Every step is an abstract step or a stutter.
LEMMA StepSpaces ==
    ASSUME Founded, [Next]_vars
    PROVE  [Spaces!Next]_Mappings
<1>1. PICK use, pg, birth : State(memory, process_array, use, pg, birth, forks) BY DEF Founded
<1>2. Led(use, pg, forks') \/ Kept(use, pg, forks') BY <1>1, StepLeads
<1>3. PICK last, newest, dates :
        State(memory', process_array', last, newest, dates, forks') /\ Moves(pg, newest)
  BY <1>2 DEF Led, Kept
<1>4. CASE Shrinks(pg, newest)
  <2>1. /\ Mappings' \subseteq Mappings
        /\ Mappings \ Mappings' # {} => Spaces!End(Mappings \ Mappings')
    BY <1>1, <1>3, <1>4, ShrinkStep
  <2>2. Mappings' \ Mappings = {} BY <2>1
  <2>3. CASE Mappings \ Mappings' = {} BY <2>1, <2>3
  <2>4. CASE Mappings \ Mappings' # {} BY <2>1, <2>2, <2>4 DEF Spaces!Next
  <2> QED BY <2>3, <2>4
<1>5. ASSUME NEW q \in Pid, GainsFor(pg, newest, q) PROVE [Spaces!Next]_Mappings
  <2>1. /\ Mappings \subseteq Mappings'
        /\ Mappings' \ Mappings # {} => Spaces!Give(Mappings' \ Mappings)
    BY <1>1, <1>3, <1>5, GainStep
  <2>2. Mappings \ Mappings' = {} BY <2>1
  <2>3. CASE Mappings' \ Mappings = {} BY <2>1, <2>3
  <2>4. CASE Mappings' \ Mappings # {} BY <2>1, <2>2, <2>4 DEF Spaces!Next
  <2> QED BY <2>3, <2>4
<1> QED BY <1>3, <1>4, <1>5 DEF Moves

\* The page tables that all processes build from one pool of frames, through walks,
\* tables made on demand and frames reused after a death, implement one address
\* space for each process, which only its own calls and its death change.
THEOREM TablesImplementSpaces == Spec => AddressSpacesSpec
<1>1. Init => Spaces!Init BY InitSpaces
<1>2. Founded /\ [Next]_vars => [Spaces!Next]_Mappings BY StepSpaces
<1> QED BY <1>1, <1>2, FoundedHolds, PTL DEF Spec, AddressSpacesSpec, Spaces!Spec
=============================================================================
