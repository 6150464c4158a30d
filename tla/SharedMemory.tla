---------------------------- MODULE SharedMemory ----------------------------
(***************************************************************************)
(* The shared memories of src/multitasking.cpp, with the frames of         *)
(* src/paging.cpp that hold them and the deaths of the processes that own, *)
(* use or wait for them.  The scheduler is abstract: any process that does *)
(* not wait may make the next call.  The processes are user processes,     *)
(* and whether they may write to a memory is left out.                     *)
(***************************************************************************)
EXTENDS SequencesExt

CONSTANTS
    MAX_PROCESS_NUMBER, MAX_SHAREDMEMORY_NUMBER,
    Frames,             \* the frames that are free at boot
    WINDOW,             \* pages between the first shared address and the heap
    PageCounts,         \* the sizes, in pages, asked of shm_get()
    MAX_PAGE            \* bound of the model on the page a memory is attached at

Pid == 0..(MAX_PROCESS_NUMBER - 1)
Shmid == 0..(MAX_SHAREDMEMORY_NUMBER - 1)
NoProcess == MAX_PROCESS_NUMBER

ASSUME SharedMemoryAssumption ==
    /\ MAX_PROCESS_NUMBER \in Nat \ {0}
    /\ MAX_SHAREDMEMORY_NUMBER \in Nat \ {0}
    /\ IsFiniteSet(Frames)
    /\ WINDOW \in Nat /\ MAX_PAGE \in Nat
    /\ PageCounts \subseteq Nat \ {0}

VARIABLES
    present,       \* the processes with is_present set
    blocked,       \* the processes that dropped, waiting for a memory to end
    shm_array,
    shmem_history, \* of each process: what it attached, the latest first
    free_frames,   \* the list from first_free_frame_index
    status         \* "running"; "undefined": past a write outside an array
                   \* or a process linked into two lists

vars == <<present, blocked, shm_array, shmem_history, free_frames, status>>

Init ==
    /\ present \in SUBSET Pid
    /\ blocked = {}
    /\ shm_array = [id \in Shmid |->
         [is_present |-> FALSE, orphan |-> FALSE, owner_id |-> 0,
          users |-> 0, frames |-> <<>>, waiting |-> <<>>]]
    /\ shmem_history = [p \in Pid |-> <<>>]
    /\ free_frames = SetToSeq(Frames)
    /\ status = "running"

-----------------------------------------------------------------------------
(* The end of a memory.  These operators work on one state of the memories *)
(* [array, free, blocked], which destroy_process() changes several times.  *)

Now == [array |-> shm_array, free |-> free_frames, blocked |-> blocked]

Become(memories) ==
    /\ shm_array' = memories.array
    /\ free_frames' = memories.free
    /\ blocked' = memories.blocked

\* Mutant: the frames are not given back.
Destroyed_KeepsFrames(memories, id) ==
    [memories EXCEPT
       !.array[id] = [@ EXCEPT !.is_present = FALSE, !.frames = <<>>, !.waiting = <<>>],
       !.blocked = @ \ ToSet(memories.array[id].waiting)]

\* Mutant: the processes that wait are forgotten.
Destroyed_WakesNobody(memories, id) ==
    [memories EXCEPT
       !.array[id] = [@ EXCEPT !.is_present = FALSE, !.frames = <<>>, !.waiting = <<>>],
       !.free = Reverse(memories.array[id].frames) \o @]

\* shm_destroy(): the frames are freed from the first, the waiters made ready.
Destroyed(memories, id) ==
    [memories EXCEPT
       !.array[id] = [@ EXCEPT !.is_present = FALSE, !.frames = <<>>, !.waiting = <<>>],
       !.free = Reverse(memories.array[id].frames) \o @,
       !.blocked = @ \ ToSet(memories.array[id].waiting)]

\* Mutant: an orphan outlives its last user.
Left_KeepsOrphan(memories, id) ==
    LET left == [memories EXCEPT !.array[id].users = @ - 1]
    IN  IF left.array[id].users = 0 /\ left.array[id].waiting # <<>>
        THEN Destroyed(left, id) ELSE left

\* shm_detach() by one of the users: the last one accomplishes a destruction
\* that was requested.
Left(memories, id) ==
    LET left == [memories EXCEPT !.array[id].users = @ - 1]
    IN  IF left.array[id].users = 0
             /\ (left.array[id].waiting # <<>> \/ left.array[id].orphan)
        THEN Destroyed(left, id) ELSE left

\* The entry of a memory in a history: 0 when it is not attached.
Place(history, id) ==
    LET places == {k \in DOMAIN history : history[k].id = id}
    IN  IF places = {} THEN 0 ELSE Min(places)

\* Mutant: only the latest memory is remembered.
Attached_LatestOnly(p, id) == shmem_history[p] # <<>> /\ shmem_history[p][1].id = id

Attached(p, id) == Place(shmem_history[p], id) # 0

\* destroy_process(): a memory the process owns and has attached is an orphan.
Orphaned(memories, p, id) ==
    IF memories.array[id].owner_id = p
    THEN [memories EXCEPT !.array[id] = [@ EXCEPT !.orphan = TRUE, !.owner_id = NoProcess]]
    ELSE memories

\* destroy_process() detaches each memory, the latest first.
Abandoned(memories, p) ==
    FoldLeft(LAMBDA m, entry : Left(Orphaned(m, p, entry.id), entry.id),
             memories, shmem_history[p])

\* destroy_process() of p.  The waiting lists of the memories keep p.
Die(memories, p) ==
    LET after == Abandoned(memories, p)
    IN  /\ Become([after EXCEPT !.blocked = @ \ {p}])
        /\ present' = present \ {p}
        /\ shmem_history' = [shmem_history EXCEPT ![p] = <<>>]

-----------------------------------------------------------------------------
(* The calls and the deaths.                                               *)

Caller(p) == status = "running" /\ p \in present \ blocked

Undefined ==
    /\ status' = "undefined"
    /\ UNCHANGED <<present, blocked, shm_array, shmem_history, free_frames>>

\* With no free descriptor the code writes past the array; with no free frame
\* it links the descriptor of frame 0, maybe to itself.
shm_get(p, npages) ==
    /\ Caller(p)
    /\ LET absent == {id \in Shmid : ~shm_array[id].is_present}
           id == Min(absent)
       IN  IF absent = {} \/ npages > Len(free_frames)
           THEN Undefined
           ELSE /\ shm_array' = [shm_array EXCEPT ![id] =
                     [is_present |-> TRUE, orphan |-> FALSE, owner_id |-> p,
                      users |-> 0, waiting |-> <<>>,
                      frames |-> Reverse(SubSeq(free_frames, 1, npages))]]
                /\ free_frames' = SubSeq(free_frames, npages + 1, Len(free_frames))
                /\ UNCHANGED <<present, blocked, shmem_history, status>>

\* Mutant: memories are attached one page after another.
AttachPage_NextPage(p) ==
    IF shmem_history[p] = <<>> THEN 0 ELSE shmem_history[p][1].page + 1

\* The page after the latest memory the process attached, and one page more.
AttachPage(p) ==
    LET latest == shmem_history[p][1]
    IN  IF shmem_history[p] = <<>> THEN 0
        ELSE latest.page + Len(shm_array[latest.id].frames) + 1

\* When the memory does not fit below the heap, the user is counted, map()
\* fails and abort() destroys the process.
shm_attach(p, id) ==
    /\ Caller(p)
    /\ shm_array[id].is_present
    /\ ~Attached(p, id)
    /\ AttachPage(p) <= MAX_PAGE
    /\ UNCHANGED status
    /\ LET memory == shm_array[id]
           counted == [Now EXCEPT !.array[id].users = @ + 1]
           entry == [id |-> id, page |-> AttachPage(p)]
       IN  IF AttachPage(p) + Len(memory.frames) > WINDOW
           THEN Die(counted, p)
           ELSE /\ Become(counted)
                /\ shmem_history' = [shmem_history EXCEPT ![p] = <<entry>> \o @]
                /\ UNCHANGED present

shm_detach(p, id) ==
    /\ Caller(p)
    /\ Attached(p, id)
    /\ Become(Left(Now, id))
    /\ shmem_history' = [shmem_history EXCEPT ![p] = RemoveAt(@, Place(@, id))]
    /\ UNCHANGED <<present, status>>

\* The caller detaches and waits, even when nobody is left to detach.
shm_wait_and_destroy(p, id) ==
    /\ Caller(p)
    /\ shm_array[id].is_present
    /\ UNCHANGED <<present, status>>
    /\ IF shm_array[id].users = 0
       THEN Become(Destroyed(Now, id)) /\ UNCHANGED shmem_history
       ELSE LET detached == IF Attached(p, id) THEN Left(Now, id) ELSE Now
            IN  /\ Become([detached EXCEPT !.array[id].waiting = Append(@, p),
                                           !.blocked = @ \cup {p}])
                /\ shmem_history' =
                     IF Attached(p, id)
                     THEN [shmem_history EXCEPT ![p] = RemoveAt(@, Place(@, id))]
                     ELSE shmem_history

\* exit(), kill() or abort(), by whatever process.
destroy_process(p) ==
    /\ status = "running"
    /\ p \in present
    /\ Die(Now, p)
    /\ UNCHANGED status

\* create_process() in the first free slot, which may still be linked in the list of a
\* memory its last process waited for.
create_process(p) ==
    /\ status = "running"
    /\ present # Pid /\ p = Min(Pid \ present)
    /\ IF \E id \in Shmid : shm_array[id].is_present /\ p \in ToSet(shm_array[id].waiting)
       THEN Undefined
       ELSE /\ present' = present \cup {p}
            /\ UNCHANGED <<blocked, shm_array, shmem_history, free_frames, status>>

Next ==
    \E p \in Pid :
        \/ \E npages \in PageCounts : shm_get(p, npages)
        \/ \E id \in Shmid : shm_attach(p, id)
        \/ \E id \in Shmid : shm_detach(p, id)
        \/ \E id \in Shmid : shm_wait_and_destroy(p, id)
        \/ destroy_process(p)
        \/ create_process(p)

Spec == Init /\ [][Next]_vars

-----------------------------------------------------------------------------
(* Properties.                                                             *)

TypeOK ==
    /\ blocked \subseteq present /\ present \subseteq Pid
    /\ shm_array \in
         [Shmid -> [is_present : BOOLEAN, orphan : BOOLEAN, owner_id : Pid \cup {NoProcess},
                    users : 0..MAX_PROCESS_NUMBER,
                    frames : Seq(Frames), waiting : Seq(Pid)]]
    /\ shmem_history \in [Pid -> Seq([id : Shmid, page : Nat])]
    /\ free_frames \in Seq(Frames)
    /\ status \in {"running", "undefined"}

Users(id) == {p \in Pid : \E k \in DOMAIN shmem_history[p] : shmem_history[p][k].id = id}

\* The count of users is the number of processes that have the memory attached,
\* whatever ends them; the code destroys a memory by this count alone.
UsersCounted ==
    \A id \in Shmid : shm_array[id].is_present => shm_array[id].users = Cardinality(Users(id))

\* A memory does not end while a process has it mapped.  Otherwise the loop of
\* destroy_process() over the history would not end either.
MappedIsPresent ==
    \A id \in Shmid : Users(id) # {} => shm_array[id].is_present

\* Who has a memory attached is known: its count of users is exact, and zero
\* when it is destroyed.
UsersOK == TypeOK /\ UsersCounted /\ MappedIsPresent

\* Every frame is in the free list or in one memory, once.
FramesConserved ==
    LET Held(id) == ToSet(shm_array[id].frames)
    IN  /\ IsInjective(free_frames)
        /\ \A id \in Shmid : /\ IsInjective(shm_array[id].frames)
                             /\ Held(id) \cap ToSet(free_frames) = {}
        /\ \A id, other \in Shmid : id # other => Held(id) \cap Held(other) = {}
        /\ ToSet(free_frames) \cup UNION {Held(id) : id \in Shmid} = Frames

\* The memories of one process are mapped apart from each other.
MappedApart ==
    \A p \in Pid : \A j, k \in DOMAIN shmem_history[p] :
        LET Pages(e) == e.page..(e.page + Len(shm_array[e.id].frames) - 1)
        IN  j # k => Pages(shmem_history[p][j]) \cap Pages(shmem_history[p][k]) = {}

\* An orphan is destroyed as soon as its last user leaves.
OrphansAreUsed ==
    \A id \in Shmid :
        shm_array[id].is_present /\ shm_array[id].orphan => shm_array[id].users > 0

\* The end of a memory wakes every process that waited for it.
EndWakesWaiters ==
    [][\A id \in Shmid :
         shm_array[id].is_present /\ ~shm_array'[id].is_present
           => ToSet(shm_array[id].waiting) \cap blocked' = {}]_vars

\* shm_wait_and_destroy() waits for users to detach: there are some.
WaitsForUsers ==
    \A id \in Shmid :
        shm_array[id].is_present /\ shm_array[id].waiting # <<>> => shm_array[id].users > 0

=============================================================================
