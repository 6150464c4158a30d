--------------------------- MODULE ProcessMemory ----------------------------
(***************************************************************************)
(* The memory of the processes: how kmain() loads the modules and          *)
(* create_process(), fork(), isr_handler() and destroy_process() build,    *)
(* share, extend and take down their page tables.                          *)
(*                                                                         *)
(* Each handler is one action (it runs with interrupts disabled), and any  *)
(* present process may be the one that enters it.                          *)
(***************************************************************************)
EXTENDS Paging

CONSTANTS
    MAX_PROCESS_NUMBER,
    stack_pages, system_stack_pages, heap_pages,
    PAGE_SIZE,   \* bytes of a page: 0x1000 in the code
    Modules,     \* the modules loaded at boot: name and ELF program headers
    FaultPages,  \* bound of the model on the pages that fault
    MAX_FORKS    \* bound of the model on the processes created after boot

Pid == 0..(MAX_PROCESS_NUMBER - 1)
NoProcess == MAX_PROCESS_NUMBER
Nobody == [is_present |-> FALSE, father_id |-> NoProcess, level |-> "system", module |-> 0,
           paging_root |-> NULL, mapping_history |-> <<>>, private_mapping_history |-> <<>>]

\* The first pages of the regions of src/include/multitasking.h.
stack_bottom == Span[LEVELS] - 1
stack_top == stack_bottom - (stack_pages - 1)
system_stack_top == stack_top - 1 - system_stack_pages
heap_top == system_stack_top - 1 - heap_pages

ASSUME LayoutAssumption ==
    /\ MAX_PROCESS_NUMBER \in Nat \ {0} /\ MAX_FORKS \in Nat
    /\ PAGE_SIZE \in Nat \ {0}
    /\ stack_pages \in Nat \ {0} /\ system_stack_pages \in Nat \ {0}
    /\ heap_pages \in Nat \ {0} /\ heap_top > Span[LEVELS - 1]
    /\ FaultPages \subseteq Page
    /\ Modules \in Seq([user : BOOLEAN,
                        headers : Seq([load : BOOLEAN, vaddr : Nat, memsz : Nat,
                                       offset : Nat, filesz : Nat, writable : BOOLEAN])])

VARIABLES
    memory,
    process_array,
    next_module,   \* the module kmain() loads next
    forks,
    status         \* "running"; "panic"; "undefined": past a null table

vars == <<memory, process_array, next_module, forks, status>>

Present == {p \in Pid : process_array[p].is_present}

-----------------------------------------------------------------------------
(* Pages for a process.                                                    *)

Fresh(m, page) == frame_alloc(m)

\* Mutant: what was mapped is not recorded.
add_pages_NotRecorded(s, region) ==
    LET mapped == map(s.memory, region.page, region.count, region.flags, s.root, Fresh)
    IN  IF s.result # "ok" THEN s
        ELSE [s EXCEPT !.memory = mapped.memory, !.result = mapped.result]

\* add_pages(): s has the memory, the table, the history of what was mapped.
add_pages(s, region) ==
    LET mapped == map(s.memory, region.page, region.count, region.flags, s.root, Fresh)
    IN  IF s.result # "ok" THEN s
        ELSE [s EXCEPT !.memory = mapped.memory, !.result = mapped.result,
                       !.history = IF mapped.result = "ok" THEN <<region>> \o @ ELSE @]

Region(page, count, flags) == [page |-> page, count |-> count, flags |-> flags]
UserFlag(level) == IF level = "user" THEN {USER} ELSE {}

\* Mutant: the system stack of a user process has the flags of the other one.
FirstRegions_OneFlags(level) ==
    (IF level = "user" THEN <<Region(stack_bottom, 1, {RW, USER})>> ELSE <<>>)
      \o <<Region(system_stack_top, system_stack_pages, {RW} \cup UserFlag(level)),
           Region(heap_top, heap_pages, {RW} \cup UserFlag(level))>>

\* What create_stack() and create_heap() add, in this order.
FirstRegions(level) ==
    (IF level = "user" THEN <<Region(stack_bottom, 1, {RW, USER})>> ELSE <<>>)
      \o <<Region(system_stack_top, system_stack_pages, {RW}),
           Region(heap_top, heap_pages, {RW} \cup UserFlag(level))>>

\* create_process() in the first free slot.  A stack or heap that cannot be
\* had calls abort(), which returns into the middle of create_process().
create_process(m, root, level, father, history, module) ==
    LET made == FoldLeft(add_pages,
                  [memory |-> m, root |-> root, result |-> "ok", history |-> <<>>],
                  FirstRegions(level))
    IN  IF Present = Pid
        THEN memory' = m /\ UNCHANGED <<process_array, status>>
        ELSE IF made.result # "ok"
        THEN status' = "undefined" /\ UNCHANGED <<memory, process_array>>
        ELSE /\ memory' = made.memory
             /\ \E slot \in Pid \ Present :
                  /\ \A p \in Pid \ Present : slot <= p
                  /\ process_array' = [process_array EXCEPT ![slot] =
                       [is_present |-> TRUE, father_id |-> father, level |-> level,
                        module |-> module, paging_root |-> root, mapping_history |-> history,
                        private_mapping_history |-> made.history]]
             /\ UNCHANGED status

-----------------------------------------------------------------------------
(* The module loader.                                                      *)

RoundUp(address) == ((address + PAGE_SIZE - 1) \div PAGE_SIZE) * PAGE_SIZE

\* Mutant: the bytes of the file start at the page, not before the segment.
SegmentBytes_NoOffset(page, header) ==
    LET src == header.offset + (page * PAGE_SIZE - (header.vaddr - (header.vaddr % PAGE_SIZE)))
        mod_end == header.offset + header.filesz
        tocopy == IF src > mod_end THEN 0
                  ELSE IF mod_end - src < PAGE_SIZE THEN mod_end - src ELSE PAGE_SIZE
    IN  [b \in 1..PAGE_SIZE |-> IF b <= tocopy THEN src + b ELSE 0]

\* The bytes of the file that belong to a page, each named by its position
\* counted from 1, and zeros after their end.
SegmentBytes(page, header) ==
    LET page_offset == header.vaddr % PAGE_SIZE
        src == (header.offset - page_offset) + (page * PAGE_SIZE - (header.vaddr - page_offset))
        mod_end == header.offset + header.filesz
        tocopy == IF src > mod_end THEN 0
                  ELSE IF mod_end - src < PAGE_SIZE THEN mod_end - src ELSE PAGE_SIZE
    IN  [b \in 1..PAGE_SIZE |-> IF b <= tocopy THEN src + b ELSE 0]

copy_segment(m, page, header) ==
    LET new == frame_alloc(m)
    IN  IF new.frame = NULL THEN new
        ELSE [new EXCEPT !.memory.data[new.frame] = SegmentBytes(page, header)]

\* The pages of a segment and their rights.
SegmentRegion(level, header) ==
    LET page == header.vaddr \div PAGE_SIZE
    IN  Region(page,
               (RoundUp(header.vaddr + header.memsz) - page * PAGE_SIZE) \div PAGE_SIZE,
               UserFlag(level) \cup (IF header.writable THEN {RW} ELSE {}))

\* load_module(): ph_addr moves on only after a PT_LOAD segment, so that the
\* rest of the loop reads the first other header again and again.
load_module(m, root, level, headers) ==
    FoldLeft(
        LAMBDA s, i :
            LET header == headers[s.ph_addr]
                region == SegmentRegion(level, header)
                mapped == map(s.memory, region.page, region.count, region.flags, root,
                              LAMBDA r, p : copy_segment(r, p, header))
            IN  IF s.result # "ok" \/ ~header.load THEN s
                ELSE [memory |-> mapped.memory, result |-> mapped.result,
                      ph_addr |-> s.ph_addr + 1,
                      history |-> IF mapped.result = "ok" THEN <<region>> \o s.history
                                  ELSE s.history],
        [memory |-> m, result |-> "ok", ph_addr |-> 1, history |-> <<>>],
        headers)

\* kmain() compares the number of the module with the result of memcmp().
ModuleLevel(number) ==
    IF number - 1 = (IF Modules[number].user THEN 1 ELSE 0) THEN "user" ELSE "system"

\* The indexes of the region do not overflow below the root, where map() would
\* not carry, and it is outside the part of the tables shared with the kernel.
Fits(region) ==
    \A i \in 0..(region.count - 1) :
        /\ region.page + i \in Span[LEVELS - 1]..(Span[LEVELS] - 1)
        /\ LoopIndex(region.page, i) = IndexOf(region.page + i)

\* The kernel's stacks and heaps are so, and the modules that are built with it,
\* which are linked far below the heap.
ASSUME RegionsAssumption ==
    /\ \A level \in {"user", "system"} : \A n \in DOMAIN FirstRegions(level) :
         Fits(FirstRegions(level)[n])
    /\ \A k \in DOMAIN Modules : \A n \in DOMAIN Modules[k].headers :
         LET segment == SegmentRegion(ModuleLevel(k), Modules[k].headers[n])
         IN  Modules[k].headers[n].load =>
               Fits(segment) /\ segment.page + segment.count <= heap_top

\* The memory map has each frame once, and the first usable one is the first
\* that init_frame_mapping() offers.
ASSUME MapAssumption ==
    Available # <<>> /\ IsInjective(Available) /\ Available[1] = kernel_frames

\* What the module loader takes for granted of an ELF file.
LoadableFirst ==
    \A k \in DOMAIN Modules : \A i, j \in DOMAIN Modules[k].headers :
        i < j /\ Modules[k].headers[j].load => Modules[k].headers[i].load

Boot ==
    /\ status = "running"
    /\ next_module \in DOMAIN Modules
    /\ next_module' = next_module + 1
    /\ UNCHANGED forks
    /\ LET trie == create_paging_trie(memory)
           level == ModuleLevel(next_module)
           loaded == load_module(trie.memory, trie.frame, level, Modules[next_module].headers)
       IN  IF loaded.result = "ok"
           THEN create_process(loaded.memory, trie.frame, level, NoProcess,
                               loaded.history, next_module)
           ELSE IF loaded.result = "fault"
           THEN status' = "undefined" /\ UNCHANGED <<memory, process_array>>
           ELSE memory' = loaded.memory /\ UNCHANGED <<process_array, status>>

-----------------------------------------------------------------------------
(* What processes do.                                                      *)

Entered(p) ==
    /\ status = "running"
    /\ next_module > Len(Modules)
    /\ p \in Present

\* The pages of a history, on the frames that the table of the father has there.
map_shared(m, root, father_root, history) ==
    FoldLeft(
        LAMBDA s, region :
            IF s.result # "ok" THEN s
            ELSE map(s.memory, region.page, region.count, region.flags, root,
                     LAMBDA r, page :
                         [memory |-> r, frame |-> virtual_to_phisical(r, page, father_root)]),
        [memory |-> m, result |-> "ok"], history)

\* fork(): the child maps the frames of the regions its father was loaded to.
\* The tables are built before create_process() looks for a free slot.
Fork(p) ==
    /\ Entered(p)
    /\ forks < MAX_FORKS
    /\ forks' = forks + 1
    /\ UNCHANGED next_module
    /\ LET father == process_array[p]
           l4 == table_alloc(memory)
           mapped == map_shared(CopyShared(l4.memory, l4.frame, father.paging_root),
                                l4.frame, father.paging_root, father.mapping_history)
       IN  IF l4.frame = NULL \/ mapped.result # "ok"
           THEN status' = "undefined" /\ UNCHANGED <<memory, process_array>>
           ELSE create_process(mapped.memory, l4.frame, father.level, p,
                               father.mapping_history, father.module)

\* Family of a process in the order destroy_process() goes through it.
Family(id) ==
    LET family[p \in Pid] ==
            <<p>> \o FlattenSeq([n \in 1..MAX_PROCESS_NUMBER |->
                IF process_array[n - 1].is_present /\ process_array[n - 1].father_id = p
                THEN family[n - 1] ELSE <<>>])
    IN  family[id]

Keep(m, f) == m

unmap_all(m, root, history, free_addr(_, _)) ==
    FoldLeft(LAMBDA r, region : unmap(r, region.page, region.count, root, free_addr).memory,
             m, history)

\* Mutant: a child frees the frames of the module with its tables.
ReleasePages_ChildFrees(m, id) ==
    LET process == process_array[id]
        root == process.paging_root
    IN  destroy_paging_trie(
            unmap_all(unmap_all(m, root, process.private_mapping_history, free_frame),
                      root, process.mapping_history, free_frame), root)

\* The pages and tables of one process: its own frames are freed, and those
\* of the module it runs by the process that was loaded with it.
ReleasePages(m, id) ==
    LET process == process_array[id]
        root == process.paging_root
        private == unmap_all(m, root, process.private_mapping_history, free_frame)
    IN  destroy_paging_trie(
            IF process.father_id = NoProcess
            THEN unmap_all(private, root, process.mapping_history, free_frame)
            ELSE unmap_all(private, root, process.mapping_history, Keep), root)

\* destroy_process(id): after exit(), a signal or a fault.
Destroy(id) ==
    /\ memory' = FoldLeft(ReleasePages, memory, Family(id))
    /\ process_array' = [p \in Pid |->
            IF \E n \in DOMAIN Family(id) : Family(id)[n] = p THEN Nobody ELSE process_array[p]]
    /\ UNCHANGED <<next_module, forks, status>>

\* Any process but kernel::init may end.
End(p) ==
    /\ Entered(p)
    /\ p # 0
    /\ Destroy(p)

\* isr_handler() of a page fault on a page that is not present; first says
\* that the address is the first one of the page.
PageFault(p, page, first) ==
    LET process == process_array[p]
        grown == add_pages([memory |-> memory, root |-> process.paging_root, result |-> "ok",
                            history |-> process.private_mapping_history],
                           Region(page, 1, {RW, USER}))
        inStack == process.level = "user" /\ page >= stack_top /\ ~(page = stack_top /\ first)
    IN  /\ Entered(p)
        /\ virtual_to_phisical(memory, page, process.paging_root) = NULL
        /\ IF inStack /\ grown.result = "ok"
           THEN /\ memory' = grown.memory
                /\ process_array' = [process_array EXCEPT
                                       ![p].private_mapping_history = grown.history]
                /\ UNCHANGED <<next_module, forks, status>>
           ELSE IF inStack /\ grown.result = "fault"
           THEN status' = "undefined" /\ UNCHANGED <<memory, process_array, next_module, forks>>
           ELSE IF process.level = "system"
           THEN status' = "panic" /\ UNCHANGED <<memory, process_array, next_module, forks>>
           ELSE Destroy(p)

Halted ==
    /\ status # "running"
    /\ UNCHANGED vars

Init ==
    /\ LET made == FoldLeft(add_pages,
                     [memory |-> init_frame_mapping, root |-> identity_l4_table,
                      result |-> "ok", history |-> <<>>], FirstRegions("system"))
       IN  IF made.result = "ok"
           THEN /\ memory = made.memory
                /\ process_array = [p \in Pid |->
                     IF p # 0 THEN Nobody
                     ELSE [Nobody EXCEPT !.is_present = TRUE, !.paging_root = identity_l4_table,
                                         !.private_mapping_history = made.history]]
                /\ status = "running"
           ELSE /\ memory = init_frame_mapping
                /\ process_array = [p \in Pid |-> Nobody]
                /\ status = "undefined"
    /\ next_module = 1
    /\ forks = 0

Next ==
    \/ Boot
    \/ \E p \in Pid : Fork(p) \/ End(p)
    \/ \E p \in Pid, page \in FaultPages, first \in BOOLEAN :
         PageFault(p, page, first)
    \/ Halted

Spec == Init /\ [][Next]_vars

-----------------------------------------------------------------------------
(* Properties.                                                             *)

\* Every variable has the type of the source's declaration.
TypeOK ==
    /\ memory \in Memory
    /\ next_module \in 1..(Len(Modules) + 1)
    /\ forks \in 0..MAX_FORKS
    /\ status \in {"running", "panic", "undefined"}
    /\ \A p \in Pid :
         /\ process_array[p].father_id \in Pid \cup {NoProcess}
         /\ process_array[p].level \in {"user", "system"}
         /\ process_array[p].paging_root \in Frame

\* What a walk of all the entries below a root reaches: the tables of each level
\* and the page frames, of level 0, with the indexes that lead there.
Below(root) ==
    LET at[k \in 0..LEVELS] ==
            IF k = LEVELS THEN {[level |-> LEVELS, index |-> <<>>, frame |-> root]}
            ELSE {[level |-> k, frame |-> memory.table[e[1].frame][e[2]].frame,
                   index |-> [l \in (k + 1)..LEVELS |->
                                IF l = k + 1 THEN e[2] ELSE e[1].index[l]]] :
                    e \in {e \in at[k + 1] \X Index : IsPresent(memory, e[1].frame, e[2])}}
    IN  UNION {at[k] : k \in 0..LEVELS}

TablesOf(p) == {n \in Below(process_array[p].paging_root) : n.level > 0}

\* The pages of a history, each as the place of its region and its own in that.
PlacesIn(history) == UNION {{n} \X (0..(history[n].count - 1)) : n \in DOMAIN history}
IndexAt(history, place) == IndexOf(history[place[1]].page + place[2])
Indexes(history) == {IndexAt(history, place) : place \in PlacesIn(history)}

\* The list of free frames, cut at the length that only a cycle reaches.
FreeList ==
    FoldLeft(LAMBDA list, n :
                LET next == IF list = <<>> THEN memory.first_free_frame_index
                            ELSE memory.word[list[Len(list)]]
                IN  IF next < FRAME_COUNT /\ Len(list) = n - 1 THEN Append(list, next) ELSE list,
             <<>>, [n \in 1..(FRAME_COUNT + 1) |-> n])

\* The frames of the processes: their tables and pages, those they share with
\* the kernel or with the process their module was loaded for only once.
Owned ==
    UNION {LET private == Indexes(process_array[p].private_mapping_history)
           IN  {[process |-> p, node |-> n] :
                  n \in {n \in Below(process_array[p].paging_root) :
                            /\ n.frame >= kernel_frames
                            /\ \/ n.level > 0 \/ process_array[p].father_id = NoProcess
                               \/ n.index \in private}} :
           p \in Present}

\* No frame is in two places: twice in the list of free frames, there and with a
\* process, or at two places of processes.
FramesApart ==
    LET free == FreeList
        owned == Owned
    IN  /\ IsInjective(free)
        /\ memory.free_frames = Len(free)
        /\ Range(free) \cap {o.node.frame : o \in owned} = {}
        /\ \A o, other \in owned : o.node.frame = other.node.frame => o = other

\* Each frame is free, or a table of one process, or a page of one process, or
\* a page of the module of one family: none is lost, none is in two places.
FramesConserved ==
    status = "running" =>
        FramesApart /\ Range(Available) = Range(FreeList) \cup {o.node.frame : o \in Owned}

\* A module or a child that the kernel begins to create gets a process: where
\* this fails, create_process() and fork() do not give back the tables they have
\* built so far.
Created ==
    (next_module' # next_module \/ forks' # forks) /\ status' = "running" => Present' # Present

\* present_entries of a table is the number of its present entries, which
\* decides when unmap() gives the table back.
EntriesCounted ==
    \A p \in Present : \A n \in TablesOf(p) : n.frame # identity_l3_table =>
        memory.word[n.frame] = Cardinality({i \in Index : IsPresent(memory, n.frame, i)})

\* The tables of a process map the pages of its two histories, each of them once,
\* with the rights recorded there, and nothing else outside the part shared with
\* the kernel.
HistoriesMatch ==
    \A p \in Present :
        LET root == process_array[p].paging_root
            histories == process_array[p].private_mapping_history
                           \o process_array[p].mapping_history
        IN  /\ {n.index : n \in {n \in Below(root) : n.level = 0}} = Indexes(histories)
            /\ \A a, b \in PlacesIn(histories) :
                 IndexAt(histories, a) = IndexAt(histories, b) => a = b
            /\ \A a \in PlacesIn(histories) :
                 LET index == IndexAt(histories, a)
                     table == Walk(memory, root, index)[1]
                 IN  memory.table[table][index[1]].flags \ {PRESENT} = histories[a[1]].flags

\* The page tables are what the kernel's records say of them: the count of
\* entries of each table, the histories of each process.
TablesOK == TypeOK /\ EntriesCounted /\ HistoriesMatch

\* A page that can be used at user level belongs to a user process, is not its
\* system stack, and does not show a table of any process.
SystemPagesProtected ==
    \A p \in Present : \A page \in Page :
        LET root == process_array[p].paging_root
        IN  get_level(memory, page, root) = "user" =>
              /\ process_array[p].level = "user"
              /\ page \notin system_stack_top..(stack_top - 1)
              /\ \A q \in Present : \A n \in TablesOf(q) :
                   n.frame # virtual_to_phisical(memory, page, root)

\* The kernel's map() succeeded with USER for a page: the process can use it.
UserPagesReachable ==
    \A p \in Present :
        LET histories == process_array[p].private_mapping_history
                           \o process_array[p].mapping_history
        IN  \A n \in DOMAIN histories : USER \in histories[n].flags =>
              \A i \in 1..histories[n].count :
                get_level(memory, histories[n].page + i - 1, process_array[p].paging_root) = "user"

\* A process, and every child of it, sees the segments of its module: the
\* bytes of the file, then zeros up to the size the segment has in memory.
ImageVisible ==
    \A p \in Present : process_array[p].module # 0 =>
        \A n \in DOMAIN Modules[process_array[p].module].headers :
            LET header == Modules[process_array[p].module].headers[n]
            IN  header.load => \A b \in 0..(header.memsz - 1) :
                  LET address == header.vaddr + b
                      frame == virtual_to_phisical(memory, address \div PAGE_SIZE,
                                                   process_array[p].paging_root)
                  IN  memory.data[frame][1 + (address % PAGE_SIZE)] =
                        IF b < header.filesz THEN header.offset + b + 1 ELSE 0

\* A page that process has from its father.
Inherited(process, index) ==
    process.father_id # NoProcess /\ index \in Indexes(process.mapping_history)

MappingOf(p, process, n) ==
    [process |-> p, page |-> PageAt(n.index), frame |-> n.frame,
     inherited |-> Inherited(process, n.index)]

MappingsOf(p, process, nodes) == {MappingOf(p, process, n) : n \in {n \in nodes : n.level = 0}}

\* The page tables implement one address space for each process.
Nodes == [p \in Present |-> Below(process_array[p].paging_root)]
Mappings ==
    LET nodes == Nodes
    IN  UNION {MappingsOf(p, process_array[p], nodes[p]) : p \in Present}

Spaces == INSTANCE AddressSpaces WITH Process <- Pid, mappings <- Mappings

AddressSpacesSpec == Spaces!Spec

=============================================================================
