------------------------------- MODULE Paging -------------------------------
(***************************************************************************)
(* Page frames and page tables: src/paging.cpp and map() and unmap() of    *)
(* src/include/paging.h.                                                   *)
(*                                                                         *)
(* The physical memory is one record that the operators take and return;   *)
(* the modules that extend this one keep it in a variable.  An address is  *)
(* the number of its page or frame.  The tables have LEVELS levels of      *)
(* ENTRIES entries (4 of 512 in the code), every page has 4 KiB: no caller *)
(* asks map() or unmap() for big pages.                                    *)
(***************************************************************************)
EXTENDS Integers, Sequences, SequencesExt, FiniteSets

CONSTANTS
    FRAME_COUNT, kernel_frames,
    Regions,        \* the memory map of the firmware: [first, end, type]
    LEVELS, ENTRIES

Frame == 0..(FRAME_COUNT - 1)
Index == 0..(ENTRIES - 1)

\* The pages below a table of each level.
Span[k \in 0..LEVELS] == IF k = 0 THEN 1 ELSE ENTRIES * Span[k - 1]
Page == 0..(Span[LEVELS] - 1)
NULL == 0                 \* the first frame is the kernel's
identity_l4_table == 1    \* its entry 0 maps the physical memory
identity_l3_table == 2
USER == "USER"
RW == "RW"
PRESENT == "PRESENT"

ASSUME PagingAssumption ==
    /\ FRAME_COUNT \in Nat /\ kernel_frames \in 3..(FRAME_COUNT - 1)
    /\ LEVELS \in Nat \ {0, 1} /\ ENTRIES \in Nat \ {0, 1}
    /\ Regions \in Seq([first : Frame, end : Frame \cup {FRAME_COUNT}, type : Nat])

Absent == [frame |-> NULL, flags |-> {}]
Entry == [frame : Frame, flags : SUBSET {PRESENT, RW, USER}]

\* word is the union of frame_descriptor_t: the number of present entries of
\* a frame that holds a table, the next free frame of a frame that is free.
\* data is what the module loader copied into a frame; the model forgets it
\* when the frame is freed.
Memory ==
    [first_free_frame_index : Frame \cup {FRAME_COUNT}, free_frames : 0..FRAME_COUNT,
     word : [Frame -> Int], table : [Frame -> [Index -> Entry]],
     data : [Frame -> Seq(Int)]]

-----------------------------------------------------------------------------
(* Frames.                                                                 *)

\* The frames that init_frame_mapping() links, in the order of the memory map.
Available ==
    FlattenSeq([k \in DOMAIN Regions |->
        LET first == IF Regions[k].first < kernel_frames THEN kernel_frames ELSE Regions[k].first
        IN  IF Regions[k].type = 1
            THEN [i \in 1..(Regions[k].end - first) |-> first + i - 1]
            ELSE <<>>])

init_frame_mapping ==
    [first_free_frame_index |-> kernel_frames, free_frames |-> Len(Available),
     word |-> [f \in Frame |->
        IF f \in {identity_l4_table, identity_l3_table} THEN 1
        ELSE IF f < kernel_frames THEN 0
        ELSE IF \E k \in 1..(Len(Available) - 1) : Available[k] = f
        THEN Available[1 + CHOOSE k \in DOMAIN Available : Available[k] = f]
        ELSE IF f = Available[Len(Available)] THEN FRAME_COUNT
        ELSE f + 1],
     table |-> [f \in Frame |-> [i \in Index |->
        IF f = identity_l4_table /\ i = 0
        THEN [frame |-> identity_l3_table, flags |-> {PRESENT, RW}] ELSE Absent]],
     data |-> [f \in Frame |-> <<>>]]

\* frame_alloc(): the frame, NULL when none is free, and the memory left.
frame_alloc(m) ==
    LET f == m.first_free_frame_index
    IN  IF f >= FRAME_COUNT THEN [memory |-> m, frame |-> NULL]
        ELSE [frame |-> f,
              memory |-> [m EXCEPT !.first_free_frame_index = m.word[f],
                                   !.word[f] = 0, !.free_frames = @ - 1]]

free_frame(m, f) ==
    IF f < kernel_frames THEN m
    ELSE [m EXCEPT !.word[f] = m.first_free_frame_index, !.data[f] = <<>>,
                   !.first_free_frame_index = f, !.free_frames = @ + 1]

-----------------------------------------------------------------------------
(* Tables.                                                                 *)

IsPresent(m, t, i) == PRESENT \in m.table[t][i].flags

set_entry(m, t, i, frame, flags) ==
    [m EXCEPT !.table[t][i] = [frame |-> frame, flags |-> flags],
              !.word[t] = IF PRESENT \in flags /\ ~IsPresent(m, t, i) THEN @ + 1
                          ELSE IF PRESENT \notin flags /\ IsPresent(m, t, i) THEN @ - 1
                          ELSE @]

table_alloc(m) ==
    LET new == frame_alloc(m)
    IN  IF new.frame = NULL THEN new
        ELSE [new EXCEPT !.memory.table[new.frame] = [i \in Index |-> Absent],
                         !.memory.word[new.frame] = 0]

free_table(m, t) == IF m.word[t] # 0 THEN m ELSE free_frame(m, t)

\* copy_from(source, 0, 1)
CopyShared(m, root, source) ==
    set_entry(m, root, 0, m.table[source][0].frame, m.table[source][0].flags)

\* The index of a page in the table of each level, LEVELS for the root.
IndexOf(page) == [k \in 1..LEVELS |-> (page \div Span[k - 1]) % ENTRIES]

\* The indexes of the i-th page from page on: as in the code, no level below
\* the root carries over into the one above it.
LoopIndex(page, i) ==
    [k \in 1..LEVELS |->
        LET index == IndexOf(page)[k] + i \div Span[k - 1]
        IN  IF k = LEVELS THEN index ELSE index % ENTRIES]

\* current_addr: the page with these indexes.
PageAt(index) ==
    LET sum[k \in 0..LEVELS] == IF k = 0 THEN 0 ELSE sum[k - 1] + index[k] * Span[k - 1]
    IN  sum[LEVELS]

Counting(count) == [k \in 1..count |-> k - 1]
FromRoot == [j \in 1..(LEVELS - 1) |-> LEVELS + 1 - j]

\* Walk from the root down to the table of level 1, allocating the tables that
\* are missing; the table is NULL when the frames run out.
EnsureTables(memory, root, index, flags) ==
    FoldLeft(
        LAMBDA s, k :
            IF s.table = NULL \/ index[k] \notin Index THEN [s EXCEPT !.table = NULL]
            ELSE IF IsPresent(s.memory, s.table, index[k])
            THEN [s EXCEPT !.table = s.memory.table[s.table][index[k]].frame]
            ELSE LET new == table_alloc(s.memory)
                 IN  [table |-> new.frame,
                      memory |-> set_entry(new.memory, s.table, index[k], new.frame,
                                           (flags \cap {RW, USER}) \cup {PRESENT})],
        [memory |-> memory, table |-> root], FromRoot)

\* The body of map()'s loop for one page, given what gen_addr returned.
MapPage(memory, root, index, flags, given) ==
    LET walk == EnsureTables(given.memory, root, index, flags)
    IN  IF given.frame = NULL
        THEN [memory |-> given.memory, result |-> "error"]
        ELSE IF walk.table = NULL
        THEN [memory |-> walk.memory, result |-> "fault"]
        ELSE IF IsPresent(walk.memory, walk.table, index[1])
        THEN [memory |-> walk.memory, result |-> "error"]
        ELSE [memory |-> set_entry(walk.memory, walk.table, index[1], given.frame,
                                   (flags \cap {RW, USER}) \cup {PRESENT}),
              result |-> "ok"]

\* map(): gen_addr(memory, page) gives the frame of each page.  The result is
\* "error" where the code returns an address, "fault" where it dereferences
\* the null pointer that table_alloc() returned.
map(memory, page, count, flags, root, gen_addr(_, _)) ==
    FoldLeft(
        LAMBDA s, i :
            IF s.result # "ok" THEN s
            ELSE MapPage(s.memory, root, LoopIndex(page, i), flags,
                         gen_addr(s.memory, PageAt(LoopIndex(page, i)))),
        [memory |-> memory, result |-> "ok"], Counting(count))

\* The table of each level on the way to a page, NULL where there is none.
Walk(m, root, index) ==
    LET table[k \in 1..LEVELS] ==
            IF k = LEVELS THEN root
            ELSE LET above == table[k + 1]
                 IN  IF above = NULL \/ ~IsPresent(m, above, index[k + 1]) THEN NULL
                     ELSE m.table[above][index[k + 1]].frame
    IN  table

\* Mutant: the emptied tables are left in place.
RemovePage_KeepsTables(memory, tables, index) ==
    set_entry(memory, tables[1], index[1], NULL, {})

\* Clear the entry of a page, and give back each table this leaves empty.
RemovePage(memory, tables, index) ==
    FoldLeft(
        LAMBDA m, k :
            IF k = 1 THEN set_entry(m, tables[1], index[1], NULL, {})
            ELSE IF m.word[tables[k - 1]] # 0 THEN m
            ELSE set_entry(free_table(m, tables[k - 1]), tables[k], index[k], NULL, {}),
        memory, [k \in 1..LEVELS |-> k])

\* unmap() of the pages from page on; free_addr(memory, frame) disposes of each.
unmap(memory, page, count, root, free_addr(_, _)) ==
    FoldLeft(
        LAMBDA s, i :
            LET index == LoopIndex(page, i)
                tables == Walk(s.memory, root, index)
            IN  IF s.result # "ok" THEN s
                ELSE IF tables[1] = NULL \/ ~IsPresent(s.memory, tables[1], index[1])
                THEN [s EXCEPT !.result = "error"]
                ELSE [s EXCEPT !.memory =
                        RemovePage(free_addr(s.memory,
                                             s.memory.table[tables[1]][index[1]].frame),
                                   tables, index)],
        [memory |-> memory, result |-> "ok"], Counting(count))

create_paging_trie(m) ==
    LET new == table_alloc(m)
    IN  [new EXCEPT !.memory = CopyShared(@, new.frame, identity_l4_table)]

\* The tables below a table of level k, each after those below it.
TablesBelow(m, root) ==
    LET tables[k \in 1..LEVELS] ==
            [t \in Frame |->
                IF k = 1 THEN <<>>
                ELSE FlattenSeq([n \in 1..ENTRIES |->
                       IF ~IsPresent(m, t, n - 1) \/ (k = LEVELS /\ n = 1) THEN <<>>
                       ELSE Append(tables[k - 1][m.table[t][n - 1].frame],
                                   [table |-> m.table[t][n - 1].frame, level |-> k - 1])])]
    IN  tables[LEVELS][root]

\* destroy_paging_trie(): the entries of the lowest tables are cleared, those
\* above are given back only if they are empty.
destroy_paging_trie(memory, root) ==
    LET Cleared(m, t) ==
            FoldLeft(LAMBDA r, n : set_entry(r, t, n - 1, NULL, {}), m,
                     [n \in 1..ENTRIES |-> n])
        emptied ==
            FoldLeft(LAMBDA m, t :
                        free_table(IF t.level = 1 THEN Cleared(m, t.table) ELSE m, t.table),
                     memory, TablesBelow(memory, root))
    IN  free_table(set_entry(emptied, root, 0, NULL, {}), root)

-----------------------------------------------------------------------------
(* Translation.                                                            *)

virtual_to_phisical(m, page, root) ==
    LET index == IndexOf(page)
        table == Walk(m, root, index)[1]
    IN  IF table = NULL \/ ~IsPresent(m, table, index[1]) THEN NULL
        ELSE m.table[table][index[1]].frame

get_level(m, page, root) ==
    LET index == IndexOf(page)
        tables == Walk(m, root, index)
    IN  IF \A k \in 1..LEVELS :
             tables[k] # NULL /\ {PRESENT, USER} \subseteq m.table[tables[k]][index[k]].flags
        THEN "user" ELSE "system"

=============================================================================
