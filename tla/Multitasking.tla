---------------------------- MODULE Multitasking ----------------------------
(***************************************************************************)
(* The process manager of the kernel: src/multitasking.cpp with the timer  *)
(* interrupt of src/clock.cpp and the system calls of src/syscalls.cpp     *)
(* that schedule, block, create and destroy processes.                     *)
(*                                                                         *)
(* One CPU; every handler is entered through an interrupt gate and runs    *)
(* with interrupts disabled up to its iret.  A handler is therefore one    *)
(* action, and what interleaves is the programs: whichever process the     *)
(* scheduler leaves in execution_index makes the next call, or the clock   *)
(* interrupts it.  Programs are arbitrary: Calls lists the calls they make.*)
(***************************************************************************)
EXTENDS TimerList, SequencesExt

CONSTANTS
    MAX_PROCESS_NUMBER, MAX_SEMAPHORE_NUMBER, timesharing_interval,
    BootLevels,       \* privilege levels of the modules loaded at boot
    DriverIrqs,       \* irqs whose driver process is present (see join)
    Calls,            \* what the programs of this instance do
    JoinOwnChildren,  \* whether they join their own children only
    IdsInRange,       \* whether the ids they join and release are below the
                      \* size of the array, which the code does not check
    SleepTicks,       \* arguments of sleep
    StartCounts,      \* arguments of create_semaphore
    MAX_COUNT         \* bound of the model on a semaphore's count

Pid == 0..(MAX_PROCESS_NUMBER - 1)
Semid == 0..(MAX_SEMAPHORE_NUMBER - 1)
NoProcess == MAX_PROCESS_NUMBER
Levels == {"system", "user"}
AllCalls == {"sleep", "exit", "fork", "join", "signal", "fault",
             "create_semaphore", "acquire_semaphore", "release_semaphore"}

ASSUME SizeAssumption ==
    /\ MAX_PROCESS_NUMBER \in Nat \ {0}
    /\ MAX_SEMAPHORE_NUMBER \in Nat \ {0}
    /\ timesharing_interval \in Nat \ {0}

ASSUME BootAssumption ==
    /\ BootLevels \in Seq(Levels)
    /\ Len(BootLevels) < MAX_PROCESS_NUMBER

ASSUME WorkloadAssumption ==
    /\ DriverIrqs \subseteq Nat
    /\ Calls \subseteq AllCalls
    /\ JoinOwnChildren \in BOOLEAN
    /\ IdsInRange \in BOOLEAN
    /\ SleepTicks \subseteq 0..(TICK_MODULUS - 1)
    /\ StartCounts \subseteq Int
    /\ MAX_COUNT \in Nat

VARIABLES
    present,                \* the processes with is_present set
    father_id, level,       \* fields of process_array
    waiting,                \* process_array[p].waiting_head: who joined p
    process_count,
    execution_index,
    ready_queue,
    scheduler_timer_ticks,
    timer_list,
    semaphore_array,
    status  \* "running"; "panic": halted by panic(); "undefined": past a
            \* step that leaves the lists or the memory in no defined state

processVars == <<present, father_id, level, process_count>>
vars == <<processVars, waiting, execution_index, ready_queue,
          scheduler_timer_ticks, timer_list, semaphore_array, status>>

-----------------------------------------------------------------------------
(* Boot: kmain() creates kernel::init and one process for each module.     *)

Booted == 0..Len(BootLevels)

Init ==
    /\ present = Booted
    /\ father_id = [p \in Pid |-> IF p \in Booted THEN NoProcess ELSE 0]
    /\ level = [p \in Pid |-> IF p \in Booted \ {0} THEN BootLevels[p] ELSE "system"]
    /\ waiting = [p \in Pid |-> <<>>]
    /\ process_count = Len(BootLevels) + 1
    /\ execution_index = NoProcess
    /\ ready_queue = [k \in 1..(Len(BootLevels) + 1) |-> k - 1]
    /\ scheduler_timer_ticks = 0
    /\ timer_list = <<>>
    /\ semaphore_array =
         [s \in Semid |-> [is_present |-> FALSE, count |-> 0,
                           creator_id |-> 0, waiting_list |-> <<>>]]
    /\ status = "running"

-----------------------------------------------------------------------------
(* The scheduler.  These operators read present', set by the caller.       *)

\* pop_from_list() of an empty list: abort() halts for a system process; for
\* a user process it returns, and a null head is dereferenced.
EmptyPop ==
    status' = IF level[execution_index] = "system" THEN "panic" ELSE "undefined"

\* next_present_process(), then add_ready() of the processes of back.
PopPresent(queue, back) ==
    IF \A i \in DOMAIN queue : queue[i] \notin present'
    THEN EmptyPop /\ UNCHANGED <<execution_index, ready_queue>>
    ELSE \E i \in DOMAIN queue :
           /\ queue[i] \in present'
           /\ \A j \in 1..(i - 1) : queue[j] \notin present'
           /\ execution_index' = queue[i]
           /\ ready_queue' = AddToList(SubSeq(queue, i + 1, Len(queue)), back, present')
           /\ UNCHANGED status

\* drop(): the running process gives up the CPU and is queued nowhere.
Drop(queue) ==
    /\ scheduler_timer_ticks' = 0
    /\ PopPresent(queue, <<>>)

\* Mutant: the time slice ends one tick late.
Schedule_LongSlice(queue, ticks) ==
    IF ticks <= timesharing_interval /\ execution_index \in present'
    THEN /\ ready_queue' = queue
         /\ scheduler_timer_ticks' = ticks
         /\ UNCHANGED <<execution_index, status>>
    ELSE /\ scheduler_timer_ticks' = 0
         /\ PopPresent(queue, <<execution_index>>)

\* Mutant: only the death of the running process makes it leave the CPU.
Schedule_NoSlice(queue, ticks) ==
    IF execution_index \in present'
    THEN /\ ready_queue' = queue
         /\ scheduler_timer_ticks' = 0
         /\ UNCHANGED <<execution_index, status>>
    ELSE /\ scheduler_timer_ticks' = 0
         /\ PopPresent(queue, <<>>)

\* scheduler(), called by load_state() at the end of every handler: after its
\* time slice, or its death, the running process makes way for the next one.
Schedule(queue, ticks) ==
    IF ticks < timesharing_interval /\ execution_index \in present'
    THEN /\ ready_queue' = queue
         /\ scheduler_timer_ticks' = ticks
         /\ UNCHANGED <<execution_index, status>>
    ELSE /\ scheduler_timer_ticks' = 0
         /\ IF queue # <<>>
            THEN PopPresent(queue, <<execution_index>>)
            ELSE /\ ready_queue' = queue
                 /\ status' = IF execution_index \in present' THEN status ELSE "undefined"
                 /\ UNCHANGED execution_index

-----------------------------------------------------------------------------
(* Destruction of processes.                                               *)

ClosedUnderChildren(family) ==
    \A p \in present : father_id[p] \in family => p \in family

\* Mutant: the children of the process live on.
Family_NoYounglings(id) == {id}

\* Mutant: the children die, their children do not.
Family_OneGeneration(id) == {p \in present : p = id \/ father_id[p] = id}

\* The processes that destroy_process(id) destroys by its recursion over the
\* children: the least set with id and the children of its members.
Family(id) ==
    {p \in present : \A family \in SUBSET Pid :
        id \in family /\ ClosedUnderChildren(family) => p \in family}

\* destroy_process() destroys the semaphores created by execution_index,
\* which need not be the process that dies.
Closing(s) ==
    semaphore_array[s].is_present /\ semaphore_array[s].creator_id = execution_index

\* Mutant: a semaphore is destroyed without waking its waiters.
WokenByClosing_None == <<>>

\* destroy_semaphore() makes every waiter ready, as if it had been served.
WokenByClosing ==
    FlattenSeq([k \in 1..MAX_SEMAPHORE_NUMBER |->
        IF Closing(k - 1) THEN semaphore_array[k - 1].waiting_list ELSE <<>>])

\* Mutant: the waiters that die keep their claim on the count.
SemaphoreAfter_NoCredit(s, left) ==
    LET semaphore == semaphore_array[s]
    IN  IF Closing(s)
        THEN [semaphore EXCEPT !.is_present = FALSE, !.waiting_list = <<>>]
        ELSE [semaphore EXCEPT !.waiting_list = Survivors(@, left)]

SemaphoreAfter(s, left) ==
    LET semaphore == semaphore_array[s]
        list == Survivors(semaphore.waiting_list, left)
    IN  IF Closing(s)
        THEN [semaphore EXCEPT !.is_present = FALSE, !.waiting_list = <<>>]
        ELSE IF semaphore.is_present
        THEN [semaphore EXCEPT
                !.waiting_list = list,
                !.count = @ + (Len(semaphore.waiting_list) - Len(list))]
        ELSE semaphore

\* destroy_process(id).  The lists of the processes that wait for others
\* (waiting) are not searched for the processes that die.
Destroy(id) ==
    LET left == present \ Family(id)
    IN  /\ present' = left
        /\ process_count' = process_count - Cardinality(Family(id))
        /\ semaphore_array' = [s \in Semid |-> SemaphoreAfter(s, left)]
        /\ timer_list' = CleanTimers(timer_list, left)
        /\ UNCHANGED <<father_id, level>>

\* Mutant: the ready queue keeps the processes that died.
ReadyAfterDestroy_NoCleaning(queue) == queue \o WokenByClosing

\* The ready queue destroy_process() leaves, from the one it finds.
ReadyAfterDestroy(queue) == Survivors(queue \o WokenByClosing, present')

\* abort(): panic for a system process, destruction of a user process.  The
\* processes that joined it are not woken.
Abort ==
    IF level[execution_index] = "system"
    THEN /\ status' = "panic"
         /\ UNCHANGED <<processVars, waiting, execution_index, ready_queue,
                        scheduler_timer_ticks, timer_list, semaphore_array>>
    ELSE /\ Destroy(execution_index)
         /\ Schedule(ReadyAfterDestroy(ready_queue), scheduler_timer_ticks)
         /\ UNCHANGED waiting

-----------------------------------------------------------------------------
(* What the running process does.  kernel::init (process 0) only forks.    *)

Running == status = "running" /\ execution_index \in Pid

Caller(call) ==
    /\ Running
    /\ call \in Calls
    /\ execution_index = 0 => call = "fork"

\* A call reads an element past the end of an array, and writes there what
\* the flags it finds let it: one id stands for all that are too large.
PastTheArray ==
    /\ ~IdsInRange
    /\ status' = "undefined"
    /\ UNCHANGED <<processVars, waiting, execution_index, ready_queue,
                   scheduler_timer_ticks, timer_list, semaphore_array>>

Sleep(ticks) ==
    /\ Caller("sleep")
    /\ timer_list' = AddTimer(timer_list, execution_index, ticks)
    /\ UNCHANGED <<processVars, waiting, semaphore_array>>
    /\ Drop(ready_queue)

\* Mutant: the processes that joined the caller are not woken.
Exit_NoWake ==
    /\ Caller("exit")
    /\ Destroy(execution_index)
    /\ waiting' = [waiting EXCEPT ![execution_index] = <<>>]
    /\ Drop(ReadyAfterDestroy(ready_queue))

Exit ==
    /\ Caller("exit")
    /\ Destroy(execution_index)
    /\ waiting' = [waiting EXCEPT ![execution_index] = <<>>]
    /\ Drop(ReadyAfterDestroy(
              AddToList(ready_queue, waiting[execution_index], present)))

\* A processor exception that isr_handler() cannot solve.
Fault ==
    /\ Caller("fault")
    /\ Abort

\* create_process() in the lowest free slot.  When the slot's last process is
\* still linked in the list of a live process, its next pointer is now shared
\* by two lists.
CreateProcess(slot) ==
    IF \E p \in present : Occurrences(waiting[p], slot) > 0
    THEN /\ status' = "undefined"
         /\ UNCHANGED <<processVars, waiting, execution_index, ready_queue,
                        scheduler_timer_ticks>>
    ELSE /\ present' = present \cup {slot}
         /\ father_id' = [father_id EXCEPT ![slot] = execution_index]
         /\ level' = [level EXCEPT ![slot] = level[execution_index]]
         /\ waiting' = [waiting EXCEPT ![slot] = <<>>]
         /\ process_count' = process_count + 1
         /\ Schedule(Append(ready_queue, slot), scheduler_timer_ticks)

\* The array has a free slot whenever process_count says so (CountMatches).
Fork ==
    /\ Caller("fork")
    /\ process_count < MAX_PROCESS_NUMBER
    /\ IF Pid \subseteq present
       THEN /\ status' = "undefined"
            /\ UNCHANGED <<processVars, waiting, execution_index, ready_queue,
                           scheduler_timer_ticks>>
       ELSE \E slot \in Pid \ present :
              /\ \A p \in Pid \ present : slot <= p
              /\ CreateProcess(slot)
    /\ UNCHANGED <<timer_list, semaphore_array>>

\* The last disjunct is the code's: a process id compared with irq numbers.
JoinPermitted(target) ==
    \/ level[execution_index] = "system"
    \/ level[target] = "user"
    \/ father_id[target] \in DriverIrqs

\* A call that is refused, or whose target is absent, returns at once.
JoinProcess(target) ==
    /\ JoinOwnChildren => father_id[target] = execution_index
    /\ JoinPermitted(target)
    /\ target \in present
    /\ waiting' = [waiting EXCEPT ![target] = Append(@, execution_index)]
    /\ UNCHANGED <<processVars, timer_list, semaphore_array>>
    /\ Drop(ready_queue)

\* join(): NoProcess is what a refused fork() or driver_call() has returned.
Join(target) ==
    /\ Caller("join")
    /\ IF target \in Pid THEN JoinProcess(target) ELSE PastTheArray

\* Mutant: having the same father is enough.
SignalPermitted_AnyLevel(target) ==
    \/ level[execution_index] = "system"
    \/ father_id[target] = father_id[execution_index]

SignalPermitted(target) ==
    \/ level[execution_index] = "system"
    \/ /\ level[target] = "user"
       /\ father_id[target] = father_id[execution_index]

\* Mutant: destroy_process() without the wake-up that precedes it.
Kill_NoWake(target) ==
    /\ Destroy(target)
    /\ UNCHANGED waiting
    /\ Schedule(ReadyAfterDestroy(ready_queue), scheduler_timer_ticks)

\* kill(): the processes that joined the target are woken, then it is destroyed.
Kill(target) ==
    /\ Destroy(target)
    /\ waiting' = [waiting EXCEPT ![target] = <<>>]
    /\ Schedule(ReadyAfterDestroy(AddToList(ready_queue, waiting[target], present)),
                scheduler_timer_ticks)

\* signal() of a signal that the target does not handle.  No program of the
\* repository signals kernel::init.
Signal(target) ==
    /\ Caller("signal")
    /\ target \in present \ {0}
    /\ SignalPermitted(target)
    /\ Kill(target)

-----------------------------------------------------------------------------
(* Semaphores.                                                             *)

\* With no free descriptor the code writes past the end of the array.
CreateSemaphore(starting_count) ==
    /\ Caller("create_semaphore")
    /\ IF \A s \in Semid : semaphore_array[s].is_present
       THEN status' = "undefined" /\ UNCHANGED semaphore_array
       ELSE /\ \E s \in Semid :
                 /\ ~semaphore_array[s].is_present
                 /\ \A t \in 0..(s - 1) : semaphore_array[t].is_present
                 /\ semaphore_array' =
                      [semaphore_array EXCEPT ![s] =
                         [is_present |-> TRUE, count |-> starting_count,
                          creator_id |-> execution_index, waiting_list |-> <<>>]]
            /\ UNCHANGED status
    /\ UNCHANGED <<processVars, waiting, execution_index, ready_queue,
                   scheduler_timer_ticks, timer_list>>

AcquireSemaphore(s) ==
    /\ Caller("acquire_semaphore")
    /\ IF s \notin Semid \/ ~semaphore_array[s].is_present
       THEN Abort
       ELSE LET count == semaphore_array[s].count - 1
                Blocked(list) == IF count < 0 THEN Append(list, execution_index) ELSE list
            IN  /\ UNCHANGED <<processVars, waiting, timer_list>>
                /\ semaphore_array' =
                     [semaphore_array EXCEPT ![s].count = count,
                                             ![s].waiting_list = Blocked(@)]
                /\ IF count < 0 THEN Drop(ready_queue)
                   ELSE Schedule(ready_queue, scheduler_timer_ticks)

\* A count that was negative from the start leaves nobody to wake at zero.
Release(s) ==
    /\ semaphore_array[s].is_present
    /\ semaphore_array[s].count < MAX_COUNT
    /\ UNCHANGED <<processVars, waiting, timer_list>>
    /\ LET count == semaphore_array[s].count + 1
           list == semaphore_array[s].waiting_list
           served == IF count > 0 \/ list = <<>> THEN <<>> ELSE <<Head(list)>>
       IN  /\ semaphore_array' =
                [semaphore_array EXCEPT
                   ![s].count = count,
                   ![s].waiting_list = SubSeq(list, Len(served) + 1, Len(list))]
           /\ IF count <= 0 /\ list = <<>>
              THEN EmptyPop /\ UNCHANGED <<execution_index, ready_queue, scheduler_timer_ticks>>
              ELSE Schedule(AddToList(ready_queue, served, present), scheduler_timer_ticks)

\* release_semaphore(), which tests its argument less than acquire_semaphore().
ReleaseSemaphore(s) ==
    /\ Caller("release_semaphore")
    /\ IF s \in Semid THEN Release(s) ELSE PastTheArray

-----------------------------------------------------------------------------
(* Interrupts and the start of multitasking.                               *)

\* irq 0: callback() of the clock, then the scheduler.
ClockInterrupt ==
    /\ Running
    /\ UNCHANGED <<processVars, waiting, semaphore_array>>
    /\ LET list == Countdown(timer_list)
           due == DueCount(list)
           woken == [k \in 1..due |-> list[k].id]
       IN  /\ timer_list' = SubSeq(list, due + 1, Len(list))
           /\ Schedule(AddToList(ready_queue, woken, present),
                       scheduler_timer_ticks + 1)

\* The last call of kmain(): with no process running, scheduler() drops.
EnterMultitasking ==
    /\ status = "running"
    /\ execution_index = NoProcess
    /\ UNCHANGED <<processVars, waiting, timer_list, semaphore_array>>
    /\ Drop(ready_queue)

\* panic() ends in hlt with interrupts disabled.
Halted ==
    /\ status # "running"
    /\ UNCHANGED vars

Next ==
    \/ EnterMultitasking
    \/ ClockInterrupt
    \/ \E ticks \in SleepTicks : Sleep(ticks)
    \/ Exit
    \/ Fault
    \/ Fork
    \/ \E target \in Pid \cup {NoProcess} : Join(target)
    \/ \E target \in Pid : Signal(target)
    \/ \E starting_count \in StartCounts : CreateSemaphore(starting_count)
    \/ \E s \in Semid \cup {MAX_SEMAPHORE_NUMBER} :
         AcquireSemaphore(s) \/ ReleaseSemaphore(s)
    \/ Halted

\* kmain() runs to its end, and the timer chip interrupts at 1 kHz whatever the
\* processes do; they may run forever without a call, so nothing else is fair.
Spec == Init /\ [][Next]_vars /\ WF_vars(EnterMultitasking) /\ WF_vars(ClockInterrupt)


-----------------------------------------------------------------------------
(* Properties.                                                             *)

\* Every variable has the type of the source's declaration.
TypeOK ==
    /\ present \subseteq Pid
    /\ father_id \in [Pid -> Pid \cup {NoProcess}]
    /\ level \in [Pid -> Levels]
    /\ waiting \in [Pid -> Seq(Pid)]
    /\ process_count \in 0..MAX_PROCESS_NUMBER
    /\ execution_index \in Pid \cup {NoProcess}
    /\ ready_queue \in Seq(Pid)
    /\ scheduler_timer_ticks \in 0..(timesharing_interval - 1)
    /\ timer_list \in Seq([id : Pid, ticks : 0..(TICK_MODULUS - 1)])
    /\ semaphore_array \in
         [Semid -> [is_present : BOOLEAN, count : Int,
                    creator_id : Pid \cup {NoProcess}, waiting_list : Seq(Pid)]]
    /\ status \in {"running", "panic", "undefined"}

\* No child outlives its father (destroy_process() kills the "younglings"), so
\* a father_id never names a later process that took over the slot.
FatherPresent ==
    \A p \in present : father_id[p] \in present \cup {NoProcess}

\* The processes of a family run at one privilege level: the permission that
\* signal() checks for the target holds for all that its death destroys.
LevelInherited ==
    \A p \in present :
        father_id[p] \in present => level[p] = level[father_id[p]]

\* process_count is the number of present processes; get_available_index()
\* returns a slot of the array only as long as this is so.
CountMatches == process_count = Cardinality(present)

\* No list was read while empty, no process was linked into two lists, nothing
\* past the end of an array was read or written.
Defined == status # "undefined"

\* The positions of a process in a list.
Positions(list, p) == {k \in DOMAIN list : list[k] = p}

\* Where a process runs or waits: the CPU, or a position in a list.  A list of a
\* process that died is never read again.
Places(p) ==
    (IF execution_index = p THEN {<<"running">>} ELSE {})
      \cup ({"ready"} \X Positions(ready_queue, p))
      \cup ({"asleep"} \X {k \in DOMAIN timer_list : timer_list[k].id = p})
      \cup (UNION {{"joined"} \X {q} \X Positions(waiting[q], p) : q \in present})
      \cup (UNION {{"semaphore"} \X {s} \X Positions(semaphore_array[s].waiting_list, p) : s \in Semid})

\* Every process runs, is ready, or waits for one thing; none is lost and none
\* is queued twice.  The lists share one link per process, so a process queued
\* twice would tie two lists together.
OnePlace ==
    Running => \A p \in Pid : Cardinality(Places(p)) = IF p \in present THEN 1 ELSE 0

\* The lists of processes are sound: what the code does to them is defined, and
\* no process is lost from them or in two.
ListsOK == Defined /\ OnePlace

\* A negative count is the number of processes that wait, through blocking,
\* wake-ups and the deaths of waiters.
SemaphoreBalance ==
    \A s \in Semid :
        semaphore_array[s].is_present =>
            Len(semaphore_array[s].waiting_list) =
                IF semaphore_array[s].count < 0 THEN -semaphore_array[s].count ELSE 0

\* Whatever a user process does, every system process survives it.
SystemProcessesSurvive ==
    [][Running /\ level[execution_index] = "user" =>
         \A p \in present : level[p] = "system" => p \in present']_vars

\* A semaphore disappears only with its creator, as acquire_semaphore() tells
\* the process it aborts.
SemaphoreDiesWithCreator ==
    [][\A s \in Semid :
         semaphore_array[s].is_present /\ ~semaphore_array'[s].is_present
           => semaphore_array[s].creator_id \notin present']_vars

\* join() ends when the process it names ends, by whatever call ("waits for a
\* process to end", lib/ozone.h): exit() and kill() keep this, abort() does not.
JoinReturns ==
    [][\A target \in present : target \notin present' =>
         \A p \in present' : Occurrences(waiting[target], p) > 0 =>
            execution_index' = p \/ Occurrences(ready_queue', p) > 0]_vars

\* Destruction removes a process from every list it is in.
NoDeadJoiner ==
    \A target \in present, p \in Pid :
        Occurrences(waiting[target], p) > 0 => p \in present

\* The ticks each process still sleeps, from the list of differences.
Remaining ==
    [p \in Pid |->
        LET mine == {k \in DOMAIN timer_list : timer_list[k].id = p}
        IN  IF mine = {} THEN 0 ELSE Elapsed(timer_list, Min(mine))]

Sleepers == INSTANCE Sleepers
    WITH Process <- Pid, alive <- present, remaining <- Remaining

\* The timer list keeps for each process the ticks it asked for.
SleepersSpec == Sleepers!Spec

\* The clock and the queue serve every ready process that stays alive, until the
\* kernel panics.
ReadyRuns ==
    \A p \in Pid :
        Occurrences(ready_queue, p) > 0
          ~> execution_index = p \/ p \notin present \/ status = "panic"

\* A sleeping process leaves the timer list, unless the kernel panics.
SleepersWake ==
    \A p \in Pid :
        (\E k \in DOMAIN timer_list : timer_list[k].id = p)
          ~> status = "panic" \/ ~(\E k \in DOMAIN timer_list : timer_list[k].id = p)

=============================================================================
