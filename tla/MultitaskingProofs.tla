------------------------- MODULE MultitaskingProofs -------------------------
(***************************************************************************)
(* Proofs about Multitasking, for every number of processes, semaphores    *)
(* and boot modules and for programs that make any of the calls: its       *)
(* processes and their levels, the timer list, the types of all lists and  *)
(* the semaphores; then that every process is in exactly one place, that   *)
(* no list is read in a state the code does not define, and that the timer *)
(* list implements Sleepers.                                               *)
(*                                                                         *)
(* The invariant of the second part (PlaceInv) speaks of sets of           *)
(* processes: the ready ones (with the one that runs), the sleeping ones,  *)
(* those that joined each process and those queued at each semaphore. They *)
(* are apart, together they are the present processes, and no list holds a *)
(* process twice.                                                          *)
(***************************************************************************)
EXTENDS Multitasking, ProcessListsProofs

\* The part of TypeOK that speaks of processes.
ProcessTypes ==
    /\ present \subseteq Pid
    /\ father_id \in [Pid -> Pid \cup {NoProcess}]
    /\ level \in [Pid -> Levels]
    /\ process_count \in Int
    /\ execution_index \in Pid \cup {NoProcess}

\* The scheduler never leaves a process that died in execution_index.
RunningIsPresent == Running => execution_index \in present

ProcessInv ==
    /\ ProcessTypes
    /\ RunningIsPresent
    /\ FatherPresent
    /\ LevelInherited
    /\ CountMatches

-----------------------------------------------------------------------------
(* What the scheduler leaves in execution_index.                           *)

LEMMA PopPresentRuns ==
    ASSUME NEW queue, NEW back, PopPresent(queue, back),
           execution_index \in Pid \cup {NoProcess}, present' \subseteq Pid
    PROVE  /\ execution_index' \in Pid \cup {NoProcess}
           /\ RunningIsPresent'
<1>1. CASE \A i \in DOMAIN queue : queue[i] \notin present'
  BY <1>1 DEF PopPresent, EmptyPop, Running, RunningIsPresent
<1>2. CASE ~(\A i \in DOMAIN queue : queue[i] \notin present')
  BY <1>2 DEF PopPresent, RunningIsPresent
<1> QED BY <1>1, <1>2

LEMMA DropRuns ==
    ASSUME NEW queue, Drop(queue),
           execution_index \in Pid \cup {NoProcess}, present' \subseteq Pid
    PROVE  /\ execution_index' \in Pid \cup {NoProcess}
           /\ RunningIsPresent'
BY PopPresentRuns DEF Drop

LEMMA ScheduleRuns ==
    ASSUME NEW queue, NEW ticks, Schedule(queue, ticks),
           execution_index \in Pid \cup {NoProcess}, present' \subseteq Pid
    PROVE  /\ execution_index' \in Pid \cup {NoProcess}
           /\ RunningIsPresent'
<1>1. CASE ticks < timesharing_interval /\ execution_index \in present'
  BY <1>1 DEF Schedule, Running, RunningIsPresent
<1>2. CASE ~(ticks < timesharing_interval /\ execution_index \in present') /\ queue # <<>>
  BY <1>2, PopPresentRuns DEF Schedule
<1>3. CASE ~(ticks < timesharing_interval /\ execution_index \in present') /\ queue = <<>>
  BY <1>3 DEF Schedule, Running, RunningIsPresent
<1> QED BY <1>1, <1>2, <1>3

-----------------------------------------------------------------------------
(* The family that dies with a process.                                    *)

LEMMA PidFinite == IsFiniteSet(Pid) /\ Cardinality(Pid) = MAX_PROCESS_NUMBER
BY SizeAssumption, FS_Interval DEF Pid

LEMMA FamilyHasRoot ==
    ASSUME NEW id \in present
    PROVE  id \in Family(id) /\ Family(id) \subseteq present
BY DEF Family

\* The survivors' fathers survive.
LEMMA FamilyClosed ==
    ASSUME ProcessTypes, NEW id \in present,
           NEW p \in present, father_id[p] \in Family(id)
    PROVE  p \in Family(id)
BY DEF Family, ClosedUnderChildren, ProcessTypes

\* All that die with a process have its privilege level.
LEMMA FamilyLevel ==
    ASSUME ProcessTypes, FatherPresent, LevelInherited,
           NEW id \in present, NEW p \in Family(id)
    PROVE  level[p] = level[id]
<1> DEFINE alike == {q \in Pid : q \in present => level[q] = level[id]}
<1>1. id \in alike /\ alike \in SUBSET Pid
  BY DEF ProcessTypes
<1>2. ClosedUnderChildren(alike)
  <2> SUFFICES ASSUME NEW q \in present, father_id[q] \in alike
               PROVE  q \in alike
    BY DEF ClosedUnderChildren
  <2>1. father_id[q] \in Pid
    OBVIOUS
  <2>2. father_id[q] # NoProcess
    BY <2>1, SizeAssumption DEF Pid, NoProcess
  <2>3. father_id[q] \in present
    BY <2>2 DEF FatherPresent
  <2> QED BY <2>3 DEF LevelInherited, ProcessTypes
<1> QED BY <1>1, <1>2 DEF Family

LEMMA FamilyCount ==
    ASSUME ProcessTypes, NEW id \in present
    PROVE  /\ Cardinality(Family(id)) \in Nat
           /\ Cardinality(present \ Family(id)) = Cardinality(present) - Cardinality(Family(id))
<1>1. IsFiniteSet(present)
  BY PidFinite, FS_Subset DEF ProcessTypes
<1>2. Family(id) \subseteq present /\ present \cap Family(id) = Family(id)
  BY FamilyHasRoot
<1>3. IsFiniteSet(Family(id))
  BY <1>1, <1>2, FS_Subset
<1> QED BY <1>1, <1>2, <1>3, FS_Difference, FS_CardinalityType

-----------------------------------------------------------------------------
(* What a step can do to the set of processes: nothing, the creation of a  *)
(* child of some process, or the death of a family.                        *)

CreatedBy(father, slot) ==
    /\ slot \in Pid \ present
    /\ father \in present
    /\ present' = present \cup {slot}
    /\ father_id' = [father_id EXCEPT ![slot] = father]
    /\ level' = [level EXCEPT ![slot] = level[father]]
    /\ process_count' = process_count + 1

\* A user process is the cause of the death of user processes only.
Died(id) ==
    /\ id \in present
    /\ execution_index \in present
    /\ level[execution_index] = "user" => level[id] = "user"
    /\ present' = present \ Family(id)
    /\ process_count' = process_count - Cardinality(Family(id))
    /\ UNCHANGED <<father_id, level>>

ProcessStep ==
    /\ \/ UNCHANGED processVars
       \/ \E slot \in Pid, father \in present : CreatedBy(father, slot)
       \/ \E id \in Pid : Died(id)
    /\ execution_index' \in Pid \cup {NoProcess}
    /\ RunningIsPresent'

LEMMA CallerIsPresent ==
    ASSUME ProcessInv, Running
    PROVE  execution_index \in present /\ execution_index \in Pid
BY DEF ProcessInv, RunningIsPresent, Running

\* destroy_process() of a process the caller may destroy, then the scheduler.
LEMMA DestroyStep ==
    ASSUME ProcessInv, Running, NEW id \in present, Destroy(id),
           level[execution_index] = "user" => level[id] = "user",
           NEW queue, NEW ticks, Drop(queue) \/ Schedule(queue, ticks)
    PROVE  ProcessStep
<1>1. execution_index \in present /\ execution_index \in Pid
  BY CallerIsPresent
<1>2. id \in Pid /\ Died(id)
  BY <1>1 DEF Destroy, Died, ProcessInv, ProcessTypes
<1>3. present' \subseteq Pid
  BY <1>2 DEF Died, ProcessInv, ProcessTypes
<1>4. execution_index' \in Pid \cup {NoProcess} /\ RunningIsPresent'
  BY <1>1, <1>3, DropRuns, ScheduleRuns
<1> QED BY <1>2, <1>4 DEF ProcessStep

\* A handler that leaves the processes alone, then the scheduler.
LEMMA KeepStep ==
    ASSUME ProcessInv, UNCHANGED processVars,
           NEW queue, NEW ticks, Drop(queue) \/ Schedule(queue, ticks)
    PROVE  ProcessStep
<1>1. present' \subseteq Pid /\ execution_index \in Pid \cup {NoProcess}
  BY DEF processVars, ProcessInv, ProcessTypes
<1> QED BY <1>1, DropRuns, ScheduleRuns DEF ProcessStep

\* A handler that does not reach the scheduler, or whose call is refused.
LEMMA IdleStep ==
    ASSUME ProcessInv, UNCHANGED <<processVars, execution_index>>,
           status' = status \/ status' # "running"
    PROVE  ProcessStep
BY DEF processVars, ProcessInv, ProcessTypes, ProcessStep, RunningIsPresent, Running

LEMMA AbortStep ==
    ASSUME ProcessInv, Running, Abort
    PROVE  ProcessStep
<1>1. execution_index \in present /\ level[execution_index] \in Levels
  BY CallerIsPresent DEF ProcessInv, ProcessTypes
<1>2. CASE level[execution_index] = "system"
  BY <1>2, IdleStep DEF Abort
<1>3. CASE level[execution_index] # "system"
  BY <1>1, <1>3, DestroyStep DEF Abort
<1> QED BY <1>2, <1>3

LEMMA KillStep ==
    ASSUME ProcessInv, Running, NEW target \in present, Kill(target),
           level[execution_index] = "user" => level[target] = "user"
    PROVE  ProcessStep
<1>1. Destroy(target) /\ \E queue : Schedule(queue, scheduler_timer_ticks)
  BY DEF Kill
<1> QED BY <1>1, DestroyStep

LEMMA ForkStep ==
    ASSUME ProcessInv, Fork
    PROVE  ProcessStep
<1>1. Running /\ execution_index \in present /\ execution_index \in Pid
  BY CallerIsPresent DEF Fork, Caller
<1>2. CASE Pid \subseteq present
  BY <1>2, IdleStep DEF Fork, processVars
<1>3. CASE ~(Pid \subseteq present)
  <2>1. PICK slot \in Pid \ present : CreateProcess(slot)
    BY <1>3 DEF Fork
  <2>2. CASE \E p \in present : Occurrences(waiting[p], slot) > 0
    BY <2>1, <2>2, IdleStep DEF CreateProcess, processVars
  <2>3. CASE ~(\E p \in present : Occurrences(waiting[p], slot) > 0)
    <3>1. CreatedBy(execution_index, slot) /\ Schedule(Append(ready_queue, slot), scheduler_timer_ticks)
      BY <1>1, <2>1, <2>3 DEF CreateProcess, CreatedBy
    <3>2. present' \subseteq Pid
      BY <3>1 DEF CreatedBy, ProcessInv, ProcessTypes
    <3>3. execution_index' \in Pid \cup {NoProcess} /\ RunningIsPresent'
      BY <1>1, <3>1, <3>2, ScheduleRuns
    <3> QED BY <1>1, <3>1, <3>3 DEF ProcessStep
  <2> QED BY <2>2, <2>3
<1> QED BY <1>2, <1>3

LEMMA SemaphoreSteps ==
    ASSUME ProcessInv
    PROVE  /\ \A c \in StartCounts : CreateSemaphore(c) => ProcessStep
           /\ \A s \in Semid \cup {MAX_SEMAPHORE_NUMBER} : AcquireSemaphore(s) => ProcessStep
           /\ \A s \in Semid : ReleaseSemaphore(s) => ProcessStep
<1>1. ASSUME NEW c \in StartCounts, CreateSemaphore(c)
      PROVE  ProcessStep
  BY <1>1, IdleStep DEF CreateSemaphore, processVars
<1>2. ASSUME NEW s \in Semid \cup {MAX_SEMAPHORE_NUMBER}, AcquireSemaphore(s)
      PROVE  ProcessStep
  <2>1. CASE s \notin Semid \/ ~semaphore_array[s].is_present
    BY <1>2, <2>1, AbortStep DEF AcquireSemaphore, Caller
  <2>2. CASE ~(s \notin Semid \/ ~semaphore_array[s].is_present)
    <3>1. /\ UNCHANGED processVars
          /\ Drop(ready_queue) \/ Schedule(ready_queue, scheduler_timer_ticks)
      BY <1>2, <2>2 DEF AcquireSemaphore
    <3> QED BY <3>1, KeepStep
  <2> QED BY <2>1, <2>2
<1>3. ASSUME NEW s \in Semid, ReleaseSemaphore(s)
      PROVE  ProcessStep
  <2>1. UNCHANGED processVars
    BY <1>3 DEF ReleaseSemaphore, Release
  <2>2. \/ EmptyPop /\ UNCHANGED execution_index
        \/ \E queue : Schedule(queue, scheduler_timer_ticks)
    BY <1>3 DEF ReleaseSemaphore, Release
  <2>3. CASE EmptyPop /\ UNCHANGED execution_index
    BY <2>1, <2>3, IdleStep DEF EmptyPop, processVars
  <2>4. CASE \E queue : Schedule(queue, scheduler_timer_ticks)
    BY <2>1, <2>4, KeepStep
  <2> QED BY <2>2, <2>3, <2>4
<1> QED BY <1>1, <1>2, <1>3

\* The calls with an id that is past the end of the array.
PastAnArray == Join(NoProcess) \/ ReleaseSemaphore(MAX_SEMAPHORE_NUMBER)

LEMMA PastAnArrayStep ==
    ASSUME PastAnArray
    PROVE  Running /\ PastTheArray
BY SizeAssumption DEF PastAnArray, Join, ReleaseSemaphore, Caller, Pid, Semid, NoProcess

LEMMA NextIsProcessStep ==
    ASSUME ProcessInv, [Next]_vars
    PROVE  ProcessStep
<1>1. CASE EnterMultitasking
  BY <1>1, KeepStep DEF EnterMultitasking
<1>2. CASE ClockInterrupt
  <2>1. UNCHANGED processVars /\ \E queue : Schedule(queue, scheduler_timer_ticks + 1)
    BY <1>2 DEF ClockInterrupt
  <2> QED BY <2>1, KeepStep
<1>3. ASSUME NEW ticks \in SleepTicks, Sleep(ticks)
      PROVE  ProcessStep
  BY <1>3, KeepStep DEF Sleep
<1>4. CASE Exit
  BY <1>4, CallerIsPresent, DestroyStep DEF Exit, Caller
<1>5. CASE Fault
  BY <1>5, AbortStep DEF Fault, Caller
<1>6. CASE Fork
  BY <1>6, ForkStep
<1>7. ASSUME NEW target \in Pid, Join(target)
      PROVE  ProcessStep
  BY <1>7, KeepStep DEF Join, JoinProcess
<1>8. ASSUME NEW target \in Pid, Signal(target)
      PROVE  ProcessStep
  <2>1. Running /\ target \in present /\ Kill(target)
    BY <1>8 DEF Signal, Caller
  <2>2. level[execution_index] = "user" => level[target] = "user"
    BY <1>8 DEF Signal, SignalPermitted
  <2> QED BY <2>1, <2>2, KillStep
<1>9. CASE Halted \/ UNCHANGED vars
  BY <1>9, IdleStep DEF Halted, vars, processVars
<1>10. CASE PastAnArray
  BY <1>10, PastAnArrayStep, IdleStep DEF PastTheArray, processVars
<1> QED
  BY <1>1, <1>2, <1>3, <1>4, <1>5, <1>6, <1>7, <1>8, <1>9, <1>10, SemaphoreSteps
  DEF Next, PastAnArray

-----------------------------------------------------------------------------
(* The invariant.                                                          *)

LEMMA InitProcessInv == Init => ProcessInv
<1> SUFFICES ASSUME Init PROVE ProcessInv
  OBVIOUS
<1> DEFINE n == Len(BootLevels)
<1>1. n \in Nat /\ n < MAX_PROCESS_NUMBER /\ MAX_PROCESS_NUMBER \in Nat
  BY BootAssumption, SizeAssumption
<1>2. \A p \in 1..n : BootLevels[p] \in Levels
  BY BootAssumption
<1>3. present = 0..n /\ present \subseteq Pid
  BY <1>1 DEF Init, Booted, Pid
<1>4. ProcessTypes
  BY <1>1, <1>2, <1>3 DEF Init, Booted, ProcessTypes, Levels, Pid, NoProcess
<1>5. RunningIsPresent
  BY <1>1 DEF Init, RunningIsPresent, Running, Pid, NoProcess
<1>6. FatherPresent /\ LevelInherited
  <2>1. \A p \in present : father_id[p] = NoProcess
    BY <1>3 DEF Init
  <2>2. NoProcess \notin present
    BY <1>1, <1>3 DEF NoProcess
  <2> QED BY <2>1, <2>2 DEF FatherPresent, LevelInherited
<1>7. CountMatches
  BY <1>1, <1>3, FS_Interval DEF Init, CountMatches
<1> QED BY <1>4, <1>5, <1>6, <1>7 DEF ProcessInv

LEMMA CreatedKeepsInv ==
    ASSUME ProcessInv, NEW slot \in Pid, NEW father \in present, CreatedBy(father, slot)
    PROVE  /\ FatherPresent' /\ LevelInherited' /\ CountMatches'
           /\ present' \subseteq Pid /\ process_count' \in Int
           /\ father_id' \in [Pid -> Pid \cup {NoProcess}]
           /\ level' \in [Pid -> Levels]
<1> USE DEF ProcessInv, ProcessTypes, CreatedBy
<1>1. /\ present' \subseteq Pid /\ process_count' \in Int
      /\ father_id' \in [Pid -> Pid \cup {NoProcess}]
      /\ level' \in [Pid -> Levels]
  OBVIOUS
<1>2. FatherPresent'
  BY DEF FatherPresent
<1>3. LevelInherited'
  <2> SUFFICES ASSUME NEW p \in present', father_id'[p] \in present'
               PROVE  level'[p] = level'[father_id'[p]]
    BY DEF LevelInherited
  <2>1. CASE p = slot
    BY <2>1
  <2>2. CASE p # slot
    <3>1. father_id'[p] = father_id[p] /\ father_id[p] # slot
      BY <2>2, SizeAssumption DEF FatherPresent, Pid, NoProcess
    <3> QED BY <2>2, <3>1 DEF LevelInherited
  <2> QED BY <2>1, <2>2
<1>4. CountMatches'
  <2>1. IsFiniteSet(present)
    BY PidFinite, FS_Subset
  <2> QED BY <2>1, FS_AddElement DEF CountMatches
<1> QED BY <1>1, <1>2, <1>3, <1>4

LEMMA DiedKeepsInv ==
    ASSUME ProcessInv, NEW id \in Pid, Died(id)
    PROVE  /\ FatherPresent' /\ LevelInherited' /\ CountMatches'
           /\ present' \subseteq Pid /\ process_count' \in Int
           /\ father_id' \in [Pid -> Pid \cup {NoProcess}]
           /\ level' \in [Pid -> Levels]
<1> USE DEF ProcessInv, ProcessTypes, Died
<1>1. FatherPresent'
  BY FamilyClosed DEF FatherPresent
<1>2. LevelInherited'
  BY DEF LevelInherited
<1>3. CountMatches' /\ process_count' \in Int
  BY FamilyCount DEF CountMatches
<1> QED BY <1>1, <1>2, <1>3

LEMMA StepKeepsInv ==
    ASSUME ProcessInv, ProcessStep
    PROVE  ProcessInv'
<1>1. CASE UNCHANGED processVars
  BY <1>1 DEF ProcessStep, ProcessInv, ProcessTypes, processVars,
                    FatherPresent, LevelInherited, CountMatches
<1>2. CASE \E slot \in Pid, father \in present : CreatedBy(father, slot)
  BY <1>2, CreatedKeepsInv DEF ProcessStep, ProcessInv, ProcessTypes
<1>3. CASE \E id \in Pid : Died(id)
  BY <1>3, DiedKeepsInv DEF ProcessStep, ProcessInv, ProcessTypes
<1> QED BY <1>1, <1>2, <1>3 DEF ProcessStep

LEMMA NextKeepsInv == ProcessInv /\ [Next]_vars => ProcessInv'
BY NextIsProcessStep, StepKeepsInv

\* The processes keep their types, the running one is present, fathers outlive
\* their children, levels are inherited and process_count counts.
THEOREM ProcessInvariant == Spec => []ProcessInv
BY InitProcessInv, NextKeepsInv, PTL DEF Spec

\* destroy_process() leaves no child without its father.
THEOREM FathersStayPresent == Spec => []FatherPresent
BY ProcessInvariant, PTL DEF ProcessInv

\* A child runs at its father's privilege level.
THEOREM LevelsAreInherited == Spec => []LevelInherited
BY ProcessInvariant, PTL DEF ProcessInv

\* process_count is exact, so get_available_index() finds a slot whenever
\* create_process() asks for one.
THEOREM CountIsExact == Spec => []CountMatches
BY ProcessInvariant, PTL DEF ProcessInv

\* No call of a user process ends a system process.
THEOREM SystemSurvives == Spec => SystemProcessesSurvive
<1> DEFINE Survive ==
      Running /\ level[execution_index] = "user" =>
        \A p \in present : level[p] = "system" => p \in present'
<1>1. ProcessInv /\ [Next]_vars => Survive
  <2> SUFFICES ASSUME ProcessInv, [Next]_vars, Running, level[execution_index] = "user",
                      NEW p \in present, level[p] = "system"
               PROVE  p \in present'
    OBVIOUS
  <2>1. ProcessStep
    BY NextIsProcessStep
  <2>2. ASSUME NEW id \in Pid, Died(id)
        PROVE  p \in present'
    <3>1. level[id] = "user"
      BY <2>2 DEF Died
    <3>2. p \notin Family(id)
      BY <2>2, <3>1, FamilyLevel DEF Died, ProcessInv
    <3> QED BY <2>2, <3>2 DEF Died
  <2> QED BY <2>1, <2>2 DEF ProcessStep, CreatedBy, processVars
<1>2. ProcessInv /\ [Next]_vars => [Survive]_vars
  BY <1>1
<1> QED BY <1>2, ProcessInvariant, PTL DEF Spec, SystemProcessesSurvive

-----------------------------------------------------------------------------
(* The timer list, for lists of any length.                                *)

Ticks == 0..(TICK_MODULUS - 1)

\* The sums of the prefixes of a list of natural numbers exist and are what
\* their recursive definition says.
LEMMA ElapsedRecursion ==
    ASSUME NEW S, NEW list \in Seq([id : S, ticks : Nat])
    PROVE  /\ Elapsed(list, 0) = 0
           /\ \A k \in 1..Len(list) :
                Elapsed(list, k) = Elapsed(list, k - 1) + list[k].ticks
<1> DEFINE n == Len(list)
           Step(f, k) == IF k = 0 THEN 0 ELSE f[k - 1] + list[k].ticks
           Sums(f, m) == f \in [0..m -> Nat] /\ \A k \in 0..m : f[k] = Step(f, k)
           holds == {m \in 0..n : \E f : Sums(f, m)}
<1>1. n \in Nat /\ \A k \in 1..n : list[k].ticks \in Nat
  <2>1. list \in [1..n -> [id : S, ticks : Nat]] /\ n \in Nat
    BY LenProperties
  <2> QED BY <2>1
<1>2. 0 \in holds
  <2>1. Sums([k \in 0..0 |-> 0], 0)
    OBVIOUS
  <2>2. \E f : Sums(f, 0)
    BY <2>1
  <2> HIDE DEF Sums
  <2> QED BY <1>1, <2>2
<1>3. ASSUME NEW m \in 0..(n - 1), m \in holds
      PROVE  m + 1 \in holds
  <2>1. PICK f : Sums(f, m)
    BY <1>3
  <2> DEFINE last == f[m] + list[m + 1].ticks
             g == [k \in 0..(m + 1) |-> IF k = m + 1 THEN last ELSE f[k]]
  <2>2. last \in Nat
    <3>1. m + 1 \in 1..n /\ f[m] \in Nat
      BY <1>1, <2>1
    <3> QED BY <1>1, <3>1
  <2>3. g \in [0..(m + 1) -> Nat]
    <3> HIDE DEF last
    <3> QED BY <2>1, <2>2
  <2>4. ASSUME NEW k \in 0..(m + 1)
        PROVE  g[k] = Step(g, k)
    <3>1. CASE k = m + 1
      <4>1. g[k] = last /\ g[m] = f[m]
        BY <3>1
      <4> QED BY <3>1, <4>1
    <3>2. CASE k # m + 1
      <4>1. k \in 0..m
        BY <3>2
      <4>2. f[k] = Step(f, k)
        BY <2>1, <4>1
      <4>3. g[k] = f[k]
        BY <3>2
      <4>4. k # 0 => g[k - 1] = f[k - 1]
        BY <4>1
      <4> QED BY <4>2, <4>3, <4>4
    <3> QED BY <3>1, <3>2
  <2>5. Sums(g, m + 1)
    BY <2>3, <2>4
  <2>6. \E h : Sums(h, m + 1)
    BY <2>5
  <2> HIDE DEF Sums
  <2> QED BY <1>1, <2>6
<1>4. n \in holds
  <2> HIDE DEF holds
  <2>1. \A m \in 0..n : m \in holds
    BY <1>1, <1>2, <1>3, PositionInduction
  <2> QED BY <1>1, <2>1
<1> DEFINE sum == CHOOSE f : f = [k \in 0..n |-> Step(f, k)]
<1>5. sum = [k \in 0..n |-> Step(sum, k)]
  <2>1. PICK f : Sums(f, n)
    BY <1>4
  <2>2. f = [k \in 0..n |-> Step(f, k)]
    BY <2>1
  <2> HIDE DEF Step
  <2> QED BY <2>2
<1>6. \A k \in 0..n : sum[k] = Step(sum, k)
  <2> HIDE DEF sum, Step
  <2> QED BY <1>5
<1>7. \A k : Elapsed(list, k) = sum[k]
  BY DEF Elapsed
<1> HIDE DEF sum
<1>8. sum[0] = 0
  BY <1>1, <1>6
<1>9. ASSUME NEW k \in 1..n
      PROVE  sum[k] = sum[k - 1] + list[k].ticks
  BY <1>1, <1>6
<1> QED BY <1>7, <1>8, <1>9

\* The ticks until an entry is due are a natural number, and grow.
LEMMA ElapsedType ==
    ASSUME NEW S, NEW list \in Seq([id : S, ticks : Nat])
    PROVE  \A k \in 0..Len(list) : Elapsed(list, k) \in Nat
<1> DEFINE n == Len(list)
           holds == {k \in 0..n : Elapsed(list, k) \in Nat}
<1>1. n \in Nat /\ \A k \in 1..n : list[k].ticks \in Nat
  <2>1. list \in [1..n -> [id : S, ticks : Nat]] /\ n \in Nat
    BY LenProperties
  <2> QED BY <2>1
<1>0. /\ Elapsed(list, 0) = 0
      /\ \A k \in 1..n : Elapsed(list, k) = Elapsed(list, k - 1) + list[k].ticks
  BY ElapsedRecursion
<1>2. 0 \in holds
  BY <1>0, <1>1
<1>3. ASSUME NEW k \in 0..(n - 1), k \in holds
      PROVE  k + 1 \in holds
  <2>1. Elapsed(list, k + 1) = Elapsed(list, k) + list[k + 1].ticks
    <3>1. k + 1 \in 1..n /\ (k + 1) - 1 = k
      BY <1>1
    <3> HIDE DEF n
    <3> QED BY <1>0, <3>1
  <2>2. Elapsed(list, k) \in Nat /\ list[k + 1].ticks \in Nat /\ k + 1 \in 0..n
    BY <1>1, <1>3
  <2>3. Elapsed(list, k + 1) \in Nat
    BY <2>1, <2>2
  <2> QED BY <2>2, <2>3
<1>4. \A k \in 0..n : k \in holds
  <2> HIDE DEF holds
  <2> QED BY <1>1, <1>2, <1>3, PositionInduction
<1> QED BY <1>4

LEMMA WrapType == \A ticks \in Int : Wrap(ticks) \in Ticks
BY TickModulusAssumption DEF Wrap, Ticks

LEMMA CountdownType ==
    ASSUME NEW S, NEW list \in Seq([id : S, ticks : Ticks])
    PROVE  /\ Countdown(list) \in Seq([id : S, ticks : Ticks])
           /\ Len(Countdown(list)) = Len(list)
<1>1. CASE list = <<>>
  BY <1>1 DEF Countdown
<1>2. CASE list # <<>>
  <2> DEFINE entry == [list[1] EXCEPT !.ticks = Wrap(@ - 1)]
  <2>0. Len(list) \in Nat \ {0} /\ list \in [1..Len(list) -> [id : S, ticks : Ticks]]
    BY <1>2, EmptySeq, LenProperties
  <2>1. 1 \in 1..Len(list) /\ list[1] \in [id : S, ticks : Ticks]
    BY <2>0
  <2>2. Wrap(list[1].ticks - 1) \in Ticks
    <3>1. list[1].ticks \in Int
      BY <2>1, TickModulusAssumption DEF Ticks
    <3>2. list[1].ticks - 1 \in Int
      BY <3>1
    <3> QED BY <3>2, WrapType
  <2>3. entry \in [id : S, ticks : Ticks]
    BY <2>1, <2>2
  <2>4. Countdown(list) = [list EXCEPT ![1] = entry]
    BY <1>2 DEF Countdown
  <2> QED BY <2>1, <2>3, <2>4, ExceptSeq
<1> QED BY <1>1, <1>2

\* A list of ticks of the kernel's width is a list of natural numbers.
LEMMA TicksAreNatural ==
    ASSUME NEW S, NEW list \in Seq([id : S, ticks : Ticks])
    PROVE  list \in Seq([id : S, ticks : Nat])
<1>1. Ticks \subseteq Nat
  BY TickModulusAssumption DEF Ticks
<1>2. [id : S, ticks : Ticks] \subseteq [id : S, ticks : Nat]
  BY <1>1
<1> QED BY <1>2, SeqMonotonic

\* The minimum that the library chooses exists.
LEMMA MinOfPositions ==
    ASSUME NEW positions \in SUBSET Nat, IsFiniteSet(positions), positions # {}
    PROVE  Min(positions) \in positions /\ \A k \in positions : Min(positions) <= k
BY LeastPosition DEF Min

LEMMA DueCountType ==
    ASSUME NEW S, NEW list \in Seq(S)
    PROVE  DueCount(list) \in 0..Len(list)
<1> DEFINE stops == {k \in 0..Len(list) : k < Len(list) => list[k + 1].ticks # 0}
<1>1. Len(list) \in Nat
  BY LenProperties
<1>2. Len(list) \in stops /\ stops \in SUBSET (0..Len(list)) /\ stops \in SUBSET Nat
  BY <1>1
<1>3. IsFiniteSet(0..Len(list))
  BY <1>1, FS_Interval
<1>4. DueCount(list) = Min(stops)
  BY DEF DueCount
<1> HIDE DEF stops
<1>5. Min(stops) \in stops
  BY <1>2, <1>3, FS_Subset, MinOfPositions
<1> QED BY <1>2, <1>4, <1>5

\* add_timer() leaves ticks of the counter's width: what it writes in the new
\* entry is never negative, as the entries before it are due earlier.
LEMMA AddTimerType ==
    ASSUME NEW S, NEW list \in Seq([id : S, ticks : Ticks]),
           NEW id \in S, NEW ticks \in Ticks
    PROVE  AddTimer(list, id, ticks) \in Seq([id : S, ticks : Ticks])
<1> DEFINE Entry == [id : S, ticks : Ticks]
           n == Len(list)
           Stops(k) == k <= n => list[k].ticks >= ticks - Elapsed(list, k - 1)
           stops == {k \in 1..(n + 1) : Stops(k)}
           place == Min(stops)
           delta == ticks - Elapsed(list, place - 1)
           After(k) == IF k = place THEN Wrap(list[k].ticks - delta) ELSE list[k].ticks
           Item(k) == IF k < place THEN list[k]
                      ELSE IF k = place THEN [id |-> id, ticks |-> delta]
                      ELSE [id |-> list[k - 1].id, ticks |-> After(k - 1)]
<1>1. n \in Nat /\ list \in [1..n -> Entry]
  BY LenProperties
<1>2. \A k \in 1..n : list[k] \in Entry /\ list[k].id \in S /\ list[k].ticks \in Ticks
  BY <1>1
<1>3. /\ \A k \in 0..n : Elapsed(list, k) \in Nat
      /\ Elapsed(list, 0) = 0
      /\ \A k \in 1..n : Elapsed(list, k) = Elapsed(list, k - 1) + list[k].ticks
  BY TicksAreNatural, ElapsedType, ElapsedRecursion
<1>4. \A t \in Ticks : t \in Int /\ 0 <= t /\ t < TICK_MODULUS
  BY TickModulusAssumption DEF Ticks
<1> HIDE DEF n
<1>5. place \in stops /\ \A k \in stops : place <= k
  <2>1. n + 1 \in stops /\ stops \in SUBSET (1..(n + 1)) /\ stops \in SUBSET Nat
    BY <1>1
  <2>2. IsFiniteSet(1..(n + 1))
    BY <1>1, FS_Interval
  <2> HIDE DEF stops
  <2> QED BY <2>1, <2>2, FS_Subset, MinOfPositions
<1>6. place \in 1..(n + 1)
  BY <1>5
<1> HIDE DEF place
<1>7. delta \in Ticks
  <2>1. CASE place = 1
    BY <1>3, <2>1, <1>4
  <2>2. CASE place # 1
    <3>1. place - 1 \in 1..n /\ place - 1 \notin stops /\ place - 1 \in 1..(n + 1)
      BY <1>1, <1>5, <1>6, <2>2
    <3>2. ~(list[place - 1].ticks >= ticks - Elapsed(list, (place - 1) - 1))
      BY <3>1
    <3>3. Elapsed(list, place - 1) = Elapsed(list, (place - 1) - 1) + list[place - 1].ticks
      BY <1>3, <3>1
    <3>4. /\ Elapsed(list, (place - 1) - 1) \in Nat /\ Elapsed(list, place - 1) \in Nat
          /\ list[place - 1].ticks \in Int
      <4>1. (place - 1) - 1 \in 0..n /\ place - 1 \in 0..n
        BY <1>1, <3>1
      <4> QED BY <1>2, <1>3, <1>4, <3>1, <4>1
    <3>5. Elapsed(list, place - 1) < ticks
      BY <3>2, <3>3, <3>4, <1>4
    <3> QED BY <1>4, <3>4, <3>5, TickModulusAssumption DEF Ticks
  <2> QED BY <2>1, <2>2
<1> HIDE DEF delta
<1>8. ASSUME NEW k \in 1..(n + 1)
      PROVE  Item(k) \in Entry
  <2>1. CASE k < place
    BY <1>1, <1>2, <1>6, <2>1
  <2>2. CASE k = place
    BY <1>7, <2>2
  <2>3. CASE k > place
    <3>1. k - 1 \in 1..n
      BY <1>1, <1>6, <2>3
    <3>2. list[k - 1].id \in S /\ list[k - 1].ticks \in Ticks
      BY <1>2, <3>1
    <3>3. Wrap(list[k - 1].ticks - delta) \in Ticks
      <4>1. list[k - 1].ticks - delta \in Int
        BY <1>4, <1>7, <3>2
      <4> QED BY <4>1, WrapType
    <3>4. After(k - 1) \in Ticks
      BY <3>2, <3>3
    <3>5. Item(k) = [id |-> list[k - 1].id, ticks |-> After(k - 1)]
      BY <1>6, <2>3
    <3> HIDE DEF Item, After
    <3> QED BY <3>2, <3>4, <3>5
  <2> QED BY <1>6, <2>1, <2>2, <2>3
<1>9. AddTimer(list, id, ticks) = [k \in 1..(n + 1) |-> Item(k)]
  BY DEF AddTimer, n, place, delta
<1>10. [k \in 1..(n + 1) |-> Item(k)] \in [1..(n + 1) -> Entry]
  <2> HIDE DEF Item, Entry
  <2> QED BY <1>8
<1>11. n + 1 \in Nat
  BY <1>1
<1> HIDE DEF Item, Entry
<1>12. [k \in 1..(n + 1) |-> Item(k)] \in Seq(Entry)
  BY <1>10, <1>11, SeqDef
<1> QED BY <1>9, <1>12 DEF Entry

\* clean_timer_list() keeps processes of the list and wraps what it adds up.
LEMMA CleanTimersType ==
    ASSUME NEW S, NEW list \in Seq([id : S, ticks : Ticks]), NEW alive
    PROVE  CleanTimers(list, alive) \in Seq([id : S, ticks : Ticks])
<1> DEFINE Entry == [id : S, ticks : Ticks]
           kept == {i \in DOMAIN list : list[i].id \in alive}
           n == Cardinality(kept)
           Previous(k) == IF k = 1 THEN 0 ELSE Kth(kept, k - 1)
           Item(k) == [id    |-> list[Kth(kept, k)].id,
                       ticks |-> Wrap(Elapsed(list, Kth(kept, k))
                                        - Elapsed(list, Previous(k)))]
<1>1. DOMAIN list = 1..Len(list) /\ Len(list) \in Nat /\ list \in [1..Len(list) -> Entry]
  BY LenProperties
<1>2. kept \in SUBSET (1..Len(list)) /\ kept \in SUBSET Nat
  BY <1>1
<1>3. IsFiniteSet(kept)
  <2>1. IsFiniteSet(1..Len(list))
    BY <1>1, FS_Interval
  <2> HIDE DEF kept
  <2> QED BY <1>2, <2>1, FS_Subset
<1> HIDE DEF kept
<1>4. n \in Nat
  BY <1>3, FS_CardinalityType
<1>5. \A k \in 1..n : Kth(kept, k) \in kept
  BY <1>2, <1>3, KthIsPosition
<1>6. \A k \in 0..Len(list) : Elapsed(list, k) \in Nat
  BY TicksAreNatural, ElapsedType
<1> HIDE DEF n
<1>7. ASSUME NEW k \in 1..n
      PROVE  Item(k) \in Entry
  <2>1. Kth(kept, k) \in 1..Len(list)
    BY <1>2, <1>5
  <2>2. Previous(k) \in 0..Len(list)
    <3>1. CASE k = 1
      BY <1>1, <3>1
    <3>2. CASE k # 1
      <4>1. k - 1 \in 1..n
        BY <1>4, <3>2
      <4>2. Kth(kept, k - 1) \in 1..Len(list)
        BY <1>2, <1>5, <4>1
      <4> QED BY <3>2, <4>2
    <3> QED BY <3>1, <3>2
  <2>3. /\ Elapsed(list, Kth(kept, k)) \in Int /\ Elapsed(list, Previous(k)) \in Int
        /\ list[Kth(kept, k)].id \in S
    <3>1. Kth(kept, k) \in 0..Len(list)
      BY <2>1
    <3>2. list[Kth(kept, k)] \in Entry
      BY <1>1, <2>1
    <3> HIDE DEF Previous
    <3> QED BY <1>6, <2>2, <3>1, <3>2
  <2> HIDE DEF Previous
  <2>4. Elapsed(list, Kth(kept, k)) - Elapsed(list, Previous(k)) \in Int
    BY <2>3
  <2>5. Wrap(Elapsed(list, Kth(kept, k)) - Elapsed(list, Previous(k))) \in Ticks
    BY <2>4, WrapType
  <2> QED BY <2>3, <2>5
<1>8. CleanTimers(list, alive) = [k \in 1..n |-> Item(k)]
  BY DEF CleanTimers, kept, n
<1> HIDE DEF Item, Entry
<1>9. [k \in 1..n |-> Item(k)] \in [1..n -> Entry]
  BY <1>7
<1>10. [k \in 1..n |-> Item(k)] \in Seq(Entry)
  BY <1>4, <1>9, SeqDef
<1> QED BY <1>8, <1>10 DEF Entry

-----------------------------------------------------------------------------
(* The processes of the timer list.                                        *)

\* The ids of the entries, in their order.
Ids(list) == [k \in DOMAIN list |-> list[k].id]

LEMMA IdsType ==
    ASSUME NEW S, NEW list \in Seq([id : S, ticks : Ticks])
    PROVE  /\ Ids(list) \in Seq(S) /\ Len(Ids(list)) = Len(list)
           /\ DOMAIN list = 1..Len(list) /\ DOMAIN Ids(list) = 1..Len(list)
           /\ \A k \in 1..Len(list) : Ids(list)[k] = list[k].id
<1>1. /\ Len(list) \in Nat /\ DOMAIN list = 1..Len(list)
      /\ list \in [1..Len(list) -> [id : S, ticks : Ticks]]
  BY LenProperties
<1>2. \A k \in 1..Len(list) : list[k].id \in S
  BY <1>1
<1>3. Ids(list) = [k \in 1..Len(list) |-> list[k].id]
  BY <1>1 DEF Ids
<1>4. Ids(list) \in [1..Len(list) -> S]
  BY <1>2, <1>3
<1>5. Ids(list) \in Seq(S)
  BY <1>1, <1>4, SeqDef
<1>6. Len(Ids(list)) = Len(list)
  <2>1. Len(Ids(list)) \in Nat /\ 1..Len(Ids(list)) = 1..Len(list)
    BY <1>4, <1>5, LenProperties
  <2> QED BY <1>1, <2>1
<1> QED BY <1>1, <1>3, <1>5, <1>6

\* The decrement concerns the ticks alone.
LEMMA CountdownIds ==
    ASSUME NEW S, NEW list \in Seq([id : S, ticks : Ticks])
    PROVE  Ids(Countdown(list)) = Ids(list)
<1>1. CASE list = <<>>
  BY <1>1 DEF Countdown
<1>2. CASE list # <<>>
  <2> DEFINE entry == [list[1] EXCEPT !.ticks = Wrap(@ - 1)]
  <2>1. Countdown(list) = [list EXCEPT ![1] = entry]
    BY <1>2 DEF Countdown
  <2>2. /\ Len(list) \in Nat \ {0} /\ DOMAIN list = 1..Len(list)
        /\ list \in [1..Len(list) -> [id : S, ticks : Ticks]]
    BY <1>2, EmptySeq, LenProperties
  <2>3. entry.id = list[1].id
    <3>1. list[1] \in [id : S, ticks : Ticks]
      BY <2>2
    <3> QED BY <3>1
  <2> HIDE DEF entry
  <2> QED BY <2>1, <2>2, <2>3 DEF Ids
<1> QED BY <1>1, <1>2

\* add_timer() inserts one entry.
LEMMA AddTimerIds ==
    ASSUME NEW S, NEW list \in Seq([id : S, ticks : Ticks]),
           NEW id \in S, NEW ticks \in Ticks
    PROVE  /\ Range(Ids(AddTimer(list, id, ticks))) = Range(Ids(list)) \cup {id}
           /\ IsInjective(Ids(list)) /\ id \notin Range(Ids(list))
                => IsInjective(Ids(AddTimer(list, id, ticks)))
<1> DEFINE n == Len(list)
           Stops(k) == k <= n => list[k].ticks >= ticks - Elapsed(list, k - 1)
           stops == {k \in 1..(n + 1) : Stops(k)}
           place == Min(stops)
           new == Ids(AddTimer(list, id, ticks))
           old == Ids(list)
           From(k) == IF k < place THEN k ELSE k - 1
<1>1. n \in Nat /\ DOMAIN old = 1..n /\ \A k \in 1..n : old[k] = list[k].id
  BY IdsType, LenProperties
<1> HIDE DEF n
<1>2. place \in stops /\ place \in 1..(n + 1)
  <2>1. n + 1 \in stops /\ stops \in SUBSET (1..(n + 1)) /\ stops \in SUBSET Nat
    BY <1>1
  <2>2. IsFiniteSet(1..(n + 1))
    BY <1>1, FS_Interval
  <2> HIDE DEF stops
  <2> QED BY <2>1, <2>2, FS_Subset, MinOfPositions
<1>3. /\ DOMAIN AddTimer(list, id, ticks) = 1..(n + 1)
      /\ \A k \in 1..(n + 1) : AddTimer(list, id, ticks)[k].id =
            IF k < place THEN list[k].id ELSE IF k = place THEN id ELSE list[k - 1].id
  <2> DEFINE delta == ticks - Elapsed(list, place - 1)
             After(k) == IF k = place THEN Wrap(list[k].ticks - delta) ELSE list[k].ticks
             Item(k) == IF k < place THEN list[k]
                        ELSE IF k = place THEN [id |-> id, ticks |-> delta]
                        ELSE [id |-> list[k - 1].id, ticks |-> After(k - 1)]
  <2>1. AddTimer(list, id, ticks) = [k \in 1..(n + 1) |-> Item(k)]
    BY DEF AddTimer, n
  <2> HIDE DEF delta, After, place
  <2>2. \A k \in 1..(n + 1) : Item(k).id =
            IF k < place THEN list[k].id ELSE IF k = place THEN id ELSE list[k - 1].id
    OBVIOUS
  <2> HIDE DEF Item
  <2> QED BY <2>1, <2>2
<1>4. DOMAIN new = 1..(n + 1) /\ \A k \in 1..(n + 1) : new[k] = AddTimer(list, id, ticks)[k].id
  BY <1>3 DEF Ids
<1> HIDE DEF place, old, new, From
<1>5. /\ new[place] = id
      /\ \A k \in 1..(n + 1) : k # place => From(k) \in 1..n /\ new[k] = old[From(k)]
  <2>1. new[place] = id
    BY <1>2, <1>3, <1>4
  <2>2. ASSUME NEW k \in 1..(n + 1), k # place
        PROVE  From(k) \in 1..n /\ new[k] = old[From(k)]
    <3>1. CASE k < place
      <4>1. From(k) = k /\ k \in 1..n
        BY <1>1, <1>2, <3>1 DEF From
      <4> QED BY <1>1, <1>3, <1>4, <3>1, <4>1
    <3>2. CASE ~(k < place)
      <4>1. From(k) = k - 1 /\ k - 1 \in 1..n
        BY <1>1, <1>2, <2>2, <3>2 DEF From
      <4> QED BY <1>1, <1>3, <1>4, <2>2, <3>2, <4>1
    <3> QED BY <3>1, <3>2
  <2> QED BY <2>1, <2>2
<1>6. \A i \in 1..n : \E k \in 1..(n + 1) : k # place /\ From(k) = i
  <2> SUFFICES ASSUME NEW i \in 1..n
               PROVE  \E k \in 1..(n + 1) : k # place /\ From(k) = i
    OBVIOUS
  <2>1. CASE i < place
    <3>1. i \in 1..(n + 1) /\ i # place /\ From(i) = i
      BY <1>1, <1>2, <2>1 DEF From
    <3> QED BY <3>1
  <2>2. CASE ~(i < place)
    <3>1. i + 1 \in 1..(n + 1) /\ i + 1 # place /\ From(i + 1) = i
      BY <1>1, <1>2, <2>2 DEF From
    <3> QED BY <3>1
  <2> QED BY <2>1, <2>2
<1>7. Range(new) = Range(old) \cup {id}
  <2>1. \A k \in 1..(n + 1) : new[k] \in Range(old) \cup {id}
    BY <1>1, <1>5 DEF Range
  <2>2. \A i \in 1..n : old[i] \in Range(new)
    BY <1>4, <1>5, <1>6 DEF Range
  <2>3. id \in Range(new)
    BY <1>2, <1>4, <1>5 DEF Range
  <2> QED BY <1>1, <1>4, <2>1, <2>2, <2>3 DEF Range
<1>8. ASSUME IsInjective(old), id \notin Range(old)
      PROVE  IsInjective(new)
  <2>0. \A i \in 1..n : old[i] # id
    BY <1>1, <1>8 DEF Range
  <2> SUFFICES ASSUME NEW k \in 1..(n + 1), NEW l \in 1..(n + 1), new[k] = new[l]
               PROVE  k = l
    BY <1>4 DEF IsInjective
  <2>1. CASE k = place \/ l = place
    BY <1>5, <2>0, <2>1
  <2>2. CASE k # place /\ l # place
    <3>1. From(k) = From(l)
      <4>1. From(k) \in 1..n /\ From(l) \in 1..n /\ old[From(k)] = old[From(l)]
        BY <1>5, <2>2
      <4> QED BY <1>1, <1>8, <4>1 DEF IsInjective
    <3> QED BY <1>1, <1>2, <2>2, <3>1 DEF From
  <2> QED BY <2>1, <2>2
<1> QED BY <1>7, <1>8 DEF new, old

\* clean_timer_list() keeps the entries that remove_not_present() would.
LEMMA CleanTimersIds ==
    ASSUME NEW S, NEW list \in Seq([id : S, ticks : Ticks]), NEW alive
    PROVE  Ids(CleanTimers(list, alive)) = Survivors(Ids(list), alive)
<1> DEFINE kept == {i \in DOMAIN list : list[i].id \in alive}
           n == Cardinality(kept)
<1>1. /\ DOMAIN list = 1..Len(list) /\ DOMAIN Ids(list) = 1..Len(list) /\ Len(list) \in Nat
      /\ \A k \in 1..Len(list) : Ids(list)[k] = list[k].id
  BY IdsType, LenProperties
<1>2. kept = {i \in DOMAIN Ids(list) : Ids(list)[i] \in alive}
  BY <1>1
<1>3. Survivors(Ids(list), alive) = [k \in 1..n |-> Ids(list)[Kth(kept, k)]]
  BY <1>2 DEF Survivors, Select
<1>4. IsFiniteSet(kept) /\ kept \in SUBSET Nat
  <2>1. IsFiniteSet(1..Len(list))
    BY <1>1, FS_Interval
  <2> QED BY <1>1, <2>1, FS_Subset
<1>5. \A k \in 1..n : Kth(kept, k) \in 1..Len(list)
  BY <1>1, <1>4, KthIsPosition
<1>6. Ids(CleanTimers(list, alive)) = [k \in 1..n |-> list[Kth(kept, k)].id]
  <2> DEFINE Left(k) == Wrap(Elapsed(list, Kth(kept, k))
                               - Elapsed(list, IF k = 1 THEN 0 ELSE Kth(kept, k - 1)))
  <2>1. CleanTimers(list, alive) = [k \in 1..n |-> [id |-> list[Kth(kept, k)].id, ticks |-> Left(k)]]
    BY DEF CleanTimers
  <2> HIDE DEF Left, kept, n
  <2> QED BY <2>1 DEF Ids
<1> HIDE DEF kept, n
<1> QED BY <1>1, <1>3, <1>5, <1>6

\* The processes of the first due entries, and the entries after them.
DueNow(list, due) == [k \in 1..due |-> list[k].id]
NotDue(list, due) == SubSeq(list, due + 1, Len(list))

\* The entries that are due and those that are not: all of the list, apart.
LEMMA DueIds ==
    ASSUME NEW S, NEW list \in Seq([id : S, ticks : Ticks]), NEW due \in 0..Len(list),
           IsInjective(Ids(list))
    PROVE  /\ DueNow(list, due) \in Seq(S) /\ IsInjective(DueNow(list, due))
           /\ IsInjective(Ids(NotDue(list, due)))
           /\ Range(DueNow(list, due)) \cap Range(Ids(NotDue(list, due))) = {}
           /\ Range(Ids(list)) = Range(DueNow(list, due)) \cup Range(Ids(NotDue(list, due)))
<1> DEFINE n == Len(list)
           ids == Ids(list)
           woken == [k \in 1..due |-> list[k].id]
           rest == SubSeq(list, due + 1, n)
           left == Ids(rest)
<1>1. /\ n \in Nat /\ due \in Nat /\ due <= n /\ list \in [1..n -> [id : S, ticks : Ticks]]
      /\ DOMAIN ids = 1..n /\ \A k \in 1..n : ids[k] = list[k].id /\ ids[k] \in S
  <2>1. /\ ids \in Seq(S) /\ Len(ids) = n /\ DOMAIN ids = 1..n
        /\ \A k \in 1..n : ids[k] = list[k].id
    BY IdsType
  <2>2. n \in Nat /\ list \in [1..n -> [id : S, ticks : Ticks]]
    BY LenProperties
  <2>3. \A k \in 1..n : ids[k] \in S
    BY <2>1, ElementOfSeq
  <2> QED BY <2>1, <2>2, <2>3
<1>2. /\ rest \in Seq([id : S, ticks : Ticks]) /\ Len(rest) = n - due
      /\ \A i \in 1..(n - due) : rest[i] = list[due + i]
  <2>1. due + 1 \in Int /\ n \in Int /\ \A i \in (due + 1)..n : list[i] \in [id : S, ticks : Ticks]
    BY <1>1
  <2> HIDE DEF n
  <2>2. /\ rest \in Seq([id : S, ticks : Ticks])
        /\ Len(rest) = IF due + 1 <= n THEN n - (due + 1) + 1 ELSE 0
        /\ \A i \in 1..(n - (due + 1) + 1) : rest[i] = list[(due + 1) + i - 1]
    BY <2>1, SubSeqProperties
  <2> HIDE DEF rest
  <2> QED BY <1>1, <2>2
<1>3. DOMAIN left = 1..(n - due) /\ \A i \in 1..(n - due) : left[i] = ids[due + i]
  <2> HIDE DEF rest, n
  <2>1. DOMAIN left = 1..(n - due) /\ \A i \in 1..(n - due) : left[i] = rest[i].id
    BY <1>2, IdsType
  <2>2. \A i \in 1..(n - due) : due + i \in 1..n
    BY <1>1
  <2> QED BY <1>1, <1>2, <2>1, <2>2
<1>4. DOMAIN woken = 1..due /\ \A k \in 1..due : k \in 1..n /\ woken[k] = ids[k]
  BY <1>1
<1> HIDE DEF left, woken, ids, rest, n
<1>5. woken \in Seq(S)
  <2>1. woken \in [1..due -> S]
    <3>1. \A k \in 1..due : list[k].id \in S
      BY <1>1, <1>4
    <3> QED BY <3>1 DEF woken
  <2> QED BY <1>1, <2>1, SeqDef
<1>6. \A i, j \in 1..n : ids[i] = ids[j] => i = j
  BY <1>1 DEF IsInjective, ids
<1>7. IsInjective(woken)
  BY <1>4, <1>6 DEF IsInjective
<1>8. IsInjective(left)
  <2> SUFFICES ASSUME NEW i \in 1..(n - due), NEW j \in 1..(n - due), left[i] = left[j]
               PROVE  i = j
    BY <1>3 DEF IsInjective
  <2>1. due + i \in 1..n /\ due + j \in 1..n /\ ids[due + i] = ids[due + j]
    BY <1>1, <1>3
  <2>2. due + i = due + j
    BY <1>6, <2>1
  <2> QED BY <1>1, <2>2
<1>9. Range(woken) \cap Range(left) = {}
  <2> SUFFICES ASSUME NEW k \in 1..due, NEW i \in 1..(n - due), woken[k] = left[i]
               PROVE  FALSE
    BY <1>3, <1>4 DEF Range
  <2>1. k \in 1..n /\ due + i \in 1..n /\ ids[k] = ids[due + i]
    BY <1>1, <1>3, <1>4
  <2>2. k = due + i
    BY <1>6, <2>1
  <2> QED BY <1>1, <2>2
<1>10. Range(ids) = Range(woken) \cup Range(left)
  <2>1. \A k \in 1..n : ids[k] \in Range(woken) \cup Range(left)
    <3> SUFFICES ASSUME NEW k \in 1..n
                 PROVE  ids[k] \in Range(woken) \cup Range(left)
      OBVIOUS
    <3>1. CASE k <= due
      <4>1. k \in 1..due
        BY <1>1, <3>1
      <4> QED BY <1>4, <4>1 DEF Range
    <3>2. CASE ~(k <= due)
      <4>1. k - due \in 1..(n - due) /\ due + (k - due) = k
        BY <1>1, <3>2
      <4>2. left[k - due] = ids[k]
        BY <1>3, <4>1
      <4> QED BY <1>3, <4>1, <4>2 DEF Range
    <3> QED BY <3>1, <3>2
  <2>2. \A k \in 1..due : woken[k] \in Range(ids)
    BY <1>1, <1>4 DEF Range
  <2>3. \A i \in 1..(n - due) : left[i] \in Range(ids)
    <3>1. \A i \in 1..(n - due) : due + i \in 1..n
      BY <1>1
    <3> QED BY <1>1, <1>3, <3>1 DEF Range
  <2> QED BY <1>1, <1>3, <1>4, <2>1, <2>2, <2>3 DEF Range
<1> QED BY <1>5, <1>7, <1>8, <1>9, <1>10 DEF woken, left, rest, ids, n, DueNow, NotDue

-----------------------------------------------------------------------------
(* The timer list as countdowns: each entry stands for a process and the   *)
(* ticks it still sleeps, which are the sum of the entries up to it.       *)

\* The list makes process p wait for t more ticks.
Sleeps(list, p, t) ==
    \E k \in 1..Len(list) : list[k].id = p /\ Elapsed(list, k) = t

\* No sum wraps around, and none is zero: nobody is due before the clock ticks.
InTime(list) ==
    \A k \in 1..Len(list) : Elapsed(list, k) \in Ticks \ {0}

\* What Remaining says of the list timer_list.
TicksLeft(list) ==
    [p \in Pid |->
        LET mine == {k \in DOMAIN list : list[k].id = p}
        IN  IF mine = {} THEN 0 ELSE Elapsed(list, Min(mine))]

\* The sums do not decrease along the list.
LEMMA ElapsedGrows ==
    ASSUME NEW S, NEW list \in Seq([id : S, ticks : Ticks])
    PROVE  \A i, j \in 0..Len(list) : i <= j => Elapsed(list, i) <= Elapsed(list, j)
<1> DEFINE n == Len(list)
           holds == {j \in 0..n : \A i \in 0..j : Elapsed(list, i) <= Elapsed(list, j)}
<1>1. /\ n \in Nat
      /\ \A k \in 0..n : Elapsed(list, k) \in Nat
      /\ \A k \in 1..n : Elapsed(list, k) = Elapsed(list, k - 1) + list[k].ticks
      /\ \A k \in 1..n : list[k].ticks \in Nat
  <2>1. n \in Nat /\ list \in [1..n -> [id : S, ticks : Nat]]
    BY TicksAreNatural, LenProperties
  <2>2. \A k \in 1..n : list[k].ticks \in Nat
    BY <2>1
  <2> QED BY <2>1, <2>2, TicksAreNatural, ElapsedType, ElapsedRecursion
<1> HIDE DEF n
<1>2. 0 \in holds
  BY <1>1
<1>3. ASSUME NEW k \in 0..(n - 1), k \in holds
      PROVE  k + 1 \in holds
  <2>1. /\ k + 1 \in 1..n /\ (k + 1) - 1 = k /\ k + 1 \in 0..n
    BY <1>1
  <2>2. Elapsed(list, k + 1) = Elapsed(list, k) + list[k + 1].ticks
    BY <1>1, <2>1
  <2>3. ASSUME NEW i \in 0..(k + 1)
        PROVE  Elapsed(list, i) <= Elapsed(list, k + 1)
    <3>1. CASE i = k + 1
      BY <1>1, <2>1, <3>1
    <3>2. CASE i # k + 1
      <4>1. i \in 0..k /\ i \in 0..n
        BY <1>1, <3>2
      <4>2. Elapsed(list, i) <= Elapsed(list, k)
        BY <1>3, <4>1
      <4>3. /\ Elapsed(list, i) \in Nat /\ Elapsed(list, k) \in Nat
            /\ list[k + 1].ticks \in Nat
        BY <1>1, <1>3, <2>1, <4>1
      <4> QED BY <2>2, <4>2, <4>3
    <3> QED BY <3>1, <3>2
  <2> QED BY <2>1, <2>3
<1>4. \A j \in 0..n : j \in holds
  <2> HIDE DEF holds
  <2> QED BY <1>1, <1>2, <1>3, PositionInduction
<1> QED BY <1>4 DEF n

\* add_timer() adds one countdown and changes no other.
LEMMA AddTimerSleeps ==
    ASSUME NEW S, NEW list \in Seq([id : S, ticks : Ticks]), InTime(list),
           NEW id \in S, NEW ticks \in Ticks \ {0}
    PROVE  \A p, t : Sleeps(AddTimer(list, id, ticks), p, t)
                       <=> Sleeps(list, p, t) \/ (p = id /\ t = ticks)
<1> DEFINE n == Len(list)
           Stops(k) == k <= n => list[k].ticks >= ticks - Elapsed(list, k - 1)
           stops == {k \in 1..(n + 1) : Stops(k)}
           place == Min(stops)
           delta == ticks - Elapsed(list, place - 1)
           After(k) == IF k = place THEN Wrap(list[k].ticks - delta) ELSE list[k].ticks
           Item(k) == IF k < place THEN list[k]
                      ELSE IF k = place THEN [id |-> id, ticks |-> delta]
                      ELSE [id |-> list[k - 1].id, ticks |-> After(k - 1)]
           new == AddTimer(list, id, ticks)
<1>1. n \in Nat /\ list \in [1..n -> [id : S, ticks : Ticks]]
  BY LenProperties
<1>2. \A k \in 1..n : list[k].ticks \in Ticks
  BY <1>1
<1>3. /\ \A k \in 0..n : Elapsed(list, k) \in Nat
      /\ Elapsed(list, 0) = 0
      /\ \A k \in 1..n : Elapsed(list, k) = Elapsed(list, k - 1) + list[k].ticks
  BY TicksAreNatural, ElapsedType, ElapsedRecursion
<1>4. Ticks \subseteq Nat /\ \A t \in Ticks : t < TICK_MODULUS
  BY TickModulusAssumption DEF Ticks
<1>5. new = [k \in 1..(n + 1) |-> Item(k)]
  BY DEF AddTimer
<1>6. new \in Seq([id : S, ticks : Ticks])
  BY AddTimerType
<1> HIDE DEF n
<1>7. place \in stops /\ \A k \in stops : place <= k
  <2>1. n + 1 \in stops /\ stops \in SUBSET (1..(n + 1)) /\ stops \in SUBSET Nat
    BY <1>1
  <2>2. IsFiniteSet(1..(n + 1))
    BY <1>1, FS_Interval
  <2> HIDE DEF stops
  <2> QED BY <2>1, <2>2, FS_Subset, MinOfPositions
<1>8. place \in 1..(n + 1) /\ (place <= n => list[place].ticks >= delta)
  BY <1>7
<1> HIDE DEF place
<1>9. Len(new) = n + 1
  <2> HIDE DEF Item, new
  <2>1. DOMAIN new = 1..(n + 1)
    BY <1>5
  <2>2. DOMAIN new = 1..Len(new) /\ Len(new) \in Nat
    BY <1>6, LenProperties
  <2> QED BY <1>1, <2>1, <2>2
<1>10. /\ \A k \in 0..(n + 1) : Elapsed(new, k) \in Nat
       /\ Elapsed(new, 0) = 0
       /\ \A k \in 1..(n + 1) : Elapsed(new, k) = Elapsed(new, k - 1) + new[k].ticks
  <2> HIDE DEF new
  <2> QED BY <1>6, <1>9, TicksAreNatural, ElapsedType, ElapsedRecursion
<1>11. delta \in Int
  BY <1>3, <1>4, <1>8, <1>1
<1>12. /\ \A k \in 1..(n + 1) : k < place => new[k] = list[k]
       /\ new[place] = [id |-> id, ticks |-> delta]
       /\ \A k \in place..n : /\ new[k + 1].id = list[k].id
                              /\ new[k + 1].ticks = IF k = place THEN list[k].ticks - delta
                                                    ELSE list[k].ticks
  <2> HIDE DEF delta, new, After
  <2>1. ASSUME NEW k \in place..n
        PROVE  /\ new[k + 1].id = list[k].id
               /\ new[k + 1].ticks = After(k)
    <3>1. k + 1 \in 1..(n + 1) /\ k + 1 > place /\ (k + 1) - 1 = k
      BY <1>1, <1>8
    <3>2. new[k + 1] = [id |-> list[k].id, ticks |-> After(k)]
      <4>1. new[k + 1] = Item(k + 1)
        BY <1>5, <3>1
      <4> QED BY <1>8, <3>1, <4>1
    <3> QED BY <3>2
  <2>2. ASSUME place <= n
        PROVE  Wrap(list[place].ticks - delta) = list[place].ticks - delta
    <3>1. place \in 1..n
      BY <1>1, <1>8, <2>2
    <3>2. list[place].ticks \in Nat /\ list[place].ticks < TICK_MODULUS
      BY <1>2, <1>4, <3>1
    <3>3. delta >= 0
      <4>1. new[place] = Item(place)
        BY <1>5, <1>8
      <4>2. new[place] = [id |-> id, ticks |-> delta]
        BY <1>8, <4>1
      <4>3. new[place].ticks \in Ticks
        <5>1. new \in [1..(n + 1) -> [id : S, ticks : Ticks]]
          BY <1>6, <1>9, LenProperties
        <5>2. new[place] \in [id : S, ticks : Ticks]
          BY <1>8, <5>1
        <5>3. \A e \in [id : S, ticks : Ticks] : e.ticks \in Ticks
          OBVIOUS
        <5> QED BY <5>2, <5>3
      <4>4. delta \in Ticks
        BY <4>2, <4>3
      <4>5. delta \in Nat
        BY <1>4, <4>4
      <4> QED BY <4>5
    <3>4. list[place].ticks - delta \in 0..(TICK_MODULUS - 1)
      BY <1>8, <1>11, <2>2, <3>2, <3>3, TickModulusAssumption
    <3> QED BY <3>4, TickModulusAssumption DEF Wrap
  <2>3. \A k \in place..n : After(k) = IF k = place THEN list[k].ticks - delta ELSE list[k].ticks
    BY <1>1, <1>8, <2>2 DEF After
  <2>4. \A k \in 1..(n + 1) : k < place => new[k] = list[k]
    BY <1>5
  <2>5. new[place] = [id |-> id, ticks |-> delta]
    BY <1>5, <1>8
  <2> QED BY <2>1, <2>3, <2>4, <2>5
<1> HIDE DEF new, Item, After
<1>13. \A k \in 0..(place - 1) : Elapsed(new, k) = Elapsed(list, k)
  <2> DEFINE holds == {k \in 0..(place - 1) : Elapsed(new, k) = Elapsed(list, k)}
  <2>1. 0 \in holds
    BY <1>3, <1>8, <1>10
  <2>2. ASSUME NEW k \in 0..((place - 1) - 1), k \in holds
        PROVE  k + 1 \in holds
    <3>1. /\ k + 1 \in 1..n /\ k + 1 \in 1..(n + 1) /\ (k + 1) - 1 = k /\ k + 1 < place
          /\ k + 1 \in 0..(place - 1)
      BY <1>1, <1>8
    <3>2. Elapsed(new, k + 1) = Elapsed(new, k) + new[k + 1].ticks
      BY <1>10, <3>1
    <3>3. Elapsed(list, k + 1) = Elapsed(list, k) + list[k + 1].ticks
      BY <1>3, <3>1
    <3>4. new[k + 1].ticks = list[k + 1].ticks
      BY <1>12, <3>1
    <3> QED BY <2>2, <3>1, <3>2, <3>3, <3>4
  <2>3. place - 1 \in Nat
    BY <1>8
  <2> HIDE DEF holds
  <2>4. \A k \in 0..(place - 1) : k \in holds
    BY <2>1, <2>2, <2>3, PositionInduction
  <2> QED BY <2>4 DEF holds
<1>14. Elapsed(new, place) = ticks
  <2>1. Elapsed(new, place) = Elapsed(new, place - 1) + new[place].ticks
    BY <1>8, <1>10
  <2>2. Elapsed(new, place - 1) = Elapsed(list, place - 1) /\ Elapsed(list, place - 1) \in Nat
    BY <1>1, <1>3, <1>8, <1>13
  <2>3. new[place].ticks = ticks - Elapsed(list, place - 1)
    BY <1>12
  <2>4. ticks \in Nat
    BY <1>4
  <2> QED BY <2>1, <2>2, <2>3, <2>4
<1>15. \A k \in place..n : Elapsed(new, k + 1) = Elapsed(list, k)
  <2> DEFINE holds == {k \in 0..n : k >= place => Elapsed(new, k + 1) = Elapsed(list, k)}
  <2>1. 0 \in holds
    BY <1>1, <1>8
  <2>2. ASSUME NEW k \in 0..(n - 1), k \in holds
        PROVE  k + 1 \in holds
    <3> SUFFICES ASSUME k + 1 >= place
                 PROVE  Elapsed(new, (k + 1) + 1) = Elapsed(list, k + 1)
      BY <1>1
    <3>1. /\ k + 1 \in 1..n /\ (k + 1) + 1 \in 1..(n + 1) /\ (k + 1) - 1 = k
          /\ ((k + 1) + 1) - 1 = k + 1 /\ k + 1 \in place..n
      BY <1>1, <1>8
    <3>2. Elapsed(new, (k + 1) + 1) = Elapsed(new, k + 1) + new[(k + 1) + 1].ticks
      BY <1>10, <3>1
    <3>3. Elapsed(list, k + 1) = Elapsed(list, k) + list[k + 1].ticks
      BY <1>3, <3>1
    <3>4. Elapsed(list, k) \in Nat /\ list[k + 1].ticks \in Nat
      BY <1>2, <1>3, <1>4, <2>2, <3>1
    <3>5. CASE k + 1 = place
      <4>1. new[(k + 1) + 1].ticks = list[k + 1].ticks - (ticks - Elapsed(list, k))
        BY <1>12, <3>1, <3>5
      <4>2. Elapsed(new, k + 1) = ticks /\ ticks \in Nat
        BY <1>4, <1>14, <3>5
      <4> QED BY <3>2, <3>3, <3>4, <4>1, <4>2
    <3>6. CASE k + 1 # place
      <4>1. Elapsed(new, k + 1) = Elapsed(list, k)
        BY <1>8, <2>2, <3>6
      <4>2. new[(k + 1) + 1].ticks = list[k + 1].ticks
        BY <1>12, <3>1, <3>6
      <4> QED BY <3>2, <3>3, <4>1, <4>2
    <3> QED BY <3>5, <3>6
  <2> HIDE DEF holds
  <2>3. \A k \in 0..n : k \in holds
    BY <1>1, <2>1, <2>2, PositionInduction
  <2>4. \A k \in place..n : k \in 0..n /\ k >= place
    BY <1>1, <1>8
  <2> QED BY <2>3, <2>4 DEF holds
<1> HIDE DEF delta
<1> TAKE p, t
<1>16. ASSUME Sleeps(new, p, t) PROVE Sleeps(list, p, t) \/ (p = id /\ t = ticks)
  <2>1. PICK k \in 1..(n + 1) : new[k].id = p /\ Elapsed(new, k) = t
    BY <1>9, <1>16 DEF Sleeps
  <2>2. CASE k < place
    <3>1. k \in 1..n /\ k \in 0..(place - 1)
      BY <1>1, <1>8, <2>2
    <3> QED BY <1>12, <1>13, <2>1, <2>2, <3>1 DEF Sleeps, n
  <2>3. CASE k = place
    BY <1>12, <1>14, <2>1, <2>3
  <2>4. CASE k > place
    <3>1. k - 1 \in place..n /\ (k - 1) + 1 = k /\ k - 1 \in 1..n
      BY <1>1, <1>8, <2>4
    <3>2. list[k - 1].id = p /\ Elapsed(list, k - 1) = t
      BY <1>12, <1>15, <2>1, <3>1
    <3> QED BY <3>1, <3>2 DEF Sleeps, n
  <2> QED BY <1>8, <2>2, <2>3, <2>4
<1>17. ASSUME Sleeps(list, p, t) PROVE Sleeps(new, p, t)
  <2>1. PICK k \in 1..n : list[k].id = p /\ Elapsed(list, k) = t
    BY <1>17 DEF Sleeps, n
  <2>2. CASE k < place
    <3>1. k \in 1..(n + 1) /\ k \in 0..(place - 1)
      BY <1>1, <1>8, <2>2
    <3> QED BY <1>9, <1>12, <1>13, <2>1, <2>2, <3>1 DEF Sleeps
  <2>3. CASE k >= place
    <3>1. k + 1 \in 1..(n + 1) /\ k \in place..n
      BY <1>1, <1>8, <2>3
    <3>2. new[k + 1].id = p /\ Elapsed(new, k + 1) = t
      BY <1>12, <1>15, <2>1, <3>1
    <3> QED BY <1>9, <3>1, <3>2 DEF Sleeps
  <2> QED BY <1>8, <2>2, <2>3
<1>18. Sleeps(new, id, ticks)
  BY <1>8, <1>9, <1>12, <1>14 DEF Sleeps
<1> QED BY <1>16, <1>17, <1>18 DEF new

\* In a list that is in time the countdowns are.
LEMMA SleepsInTime ==
    ASSUME NEW list
    PROVE  InTime(list) <=> \A p, t : Sleeps(list, p, t) => t \in Ticks \ {0}
<1>1. ASSUME InTime(list), NEW p, NEW t, Sleeps(list, p, t)
      PROVE  t \in Ticks \ {0}
  BY <1>1 DEF InTime, Sleeps
<1>2. ASSUME \A p, t : Sleeps(list, p, t) => t \in Ticks \ {0}
      PROVE  InTime(list)
  <2> SUFFICES ASSUME NEW k \in 1..Len(list)
               PROVE  Elapsed(list, k) \in Ticks \ {0}
    BY DEF InTime
  <2>1. Sleeps(list, list[k].id, Elapsed(list, k))
    BY DEF Sleeps
  <2> QED BY <1>2, <2>1
<1> QED BY <1>1, <1>2

\* The clock takes one from each countdown and wakes those that reach zero.
LEMMA TickSleeps ==
    ASSUME NEW S, NEW list \in Seq([id : S, ticks : Ticks]), InTime(list)
    PROVE  LET counted == Countdown(list)
           IN  \A p, t : Sleeps(NotDue(counted, DueCount(counted)), p, t)
                           <=> t \in Ticks \ {0} /\ Sleeps(list, p, t + 1)
<1> DEFINE n == Len(list)
           counted == Countdown(list)
           due == DueCount(counted)
           left == NotDue(counted, due)
<1>1. n \in Nat /\ list \in [1..n -> [id : S, ticks : Ticks]]
  BY LenProperties
<1>2. \A k \in 1..n : list[k].ticks \in Ticks
  BY <1>1
<1>3. /\ \A k \in 0..n : Elapsed(list, k) \in Nat
      /\ Elapsed(list, 0) = 0
      /\ \A k \in 1..n : Elapsed(list, k) = Elapsed(list, k - 1) + list[k].ticks
  BY TicksAreNatural, ElapsedType, ElapsedRecursion
<1>4. Ticks \subseteq Nat /\ \A t \in Ticks : t < TICK_MODULUS
  BY TickModulusAssumption DEF Ticks
<1>5. counted \in Seq([id : S, ticks : Ticks]) /\ Len(counted) = n
  BY CountdownType
<1>6. \A k \in 1..n : /\ counted[k].id = list[k].id
                      /\ counted[k].ticks = IF k = 1 THEN list[k].ticks - 1 ELSE list[k].ticks
  <2>1. CASE n = 0
    BY <2>1
  <2>2. CASE n # 0
    <3>1. 1 \in 1..n /\ list # <<>>
      BY <1>1, <2>2, EmptySeq
    <3>2. counted = [list EXCEPT ![1].ticks = Wrap(@ - 1)]
      BY <3>1 DEF Countdown
    <3>3. Elapsed(list, 1) = list[1].ticks
      <4> DEFINE first == 1
      <4>1. first \in 1..n /\ first - 1 = 0 /\ list[first].ticks \in Nat
        <5>1. list[1].ticks \in Ticks
          BY <1>2, <3>1
        <5>2. first \in 1..n
          BY <3>1
        <5>3. list[first].ticks \in Nat
          BY <1>4, <5>1
        <5> QED BY <5>2, <5>3
      <4> HIDE DEF first, n
      <4>2. Elapsed(list, first) = 0 + list[first].ticks
        BY <1>3, <4>1
      <4> QED BY <4>1, <4>2 DEF first
    <3>4. list[1].ticks \in Ticks \ {0}
      BY <3>1, <3>3 DEF InTime
    <3>5. list[1].ticks - 1 \in 0..(TICK_MODULUS - 1)
      BY <3>4, TickModulusAssumption DEF Ticks
    <3>6. Wrap(list[1].ticks - 1) = list[1].ticks - 1
      BY <3>5, TickModulusAssumption DEF Wrap
    <3> HIDE DEF n
    <3> QED BY <1>1, <3>1, <3>2, <3>6
  <2> QED BY <2>1, <2>2
<1> HIDE DEF counted, n
<1>7. /\ \A k \in 0..n : Elapsed(counted, k) \in Nat
      /\ Elapsed(counted, 0) = 0
      /\ \A k \in 1..n : Elapsed(counted, k) = Elapsed(counted, k - 1) + counted[k].ticks
  BY <1>5, TicksAreNatural, ElapsedType, ElapsedRecursion
<1>8. \A k \in 1..n : Elapsed(counted, k) = Elapsed(list, k) - 1
  <2> DEFINE holds == {k \in 0..n : k # 0 => Elapsed(counted, k) = Elapsed(list, k) - 1}
  <2>1. 0 \in holds
    BY <1>1
  <2>2. ASSUME NEW k \in 0..(n - 1), k \in holds
        PROVE  k + 1 \in holds
    <3>1. k + 1 \in 1..n /\ (k + 1) - 1 = k /\ k + 1 \in 0..n
      BY <1>1
    <3>2. /\ Elapsed(counted, k + 1) = Elapsed(counted, k) + counted[k + 1].ticks
          /\ Elapsed(list, k + 1) = Elapsed(list, k) + list[k + 1].ticks
      BY <1>3, <1>7, <3>1
    <3>3. /\ list[k + 1].ticks \in Nat
          /\ Elapsed(list, k) \in Nat /\ Elapsed(counted, k) \in Nat
      BY <1>2, <1>3, <1>4, <1>7, <2>2, <3>1
    <3>4. CASE k = 0
      <4>1. counted[k + 1].ticks = list[k + 1].ticks - 1
        BY <1>6, <3>1, <3>4
      <4>2. Elapsed(counted, k) = 0 /\ Elapsed(list, k) = 0
        BY <1>3, <1>7, <3>4
      <4> QED BY <3>1, <3>2, <3>3, <4>1, <4>2
    <3>5. CASE k # 0
      <4>1. counted[k + 1].ticks = list[k + 1].ticks
        BY <1>6, <3>1, <3>5
      <4>2. Elapsed(counted, k) = Elapsed(list, k) - 1
        BY <2>2, <3>5
      <4> QED BY <3>1, <3>2, <3>3, <4>1, <4>2
    <3> QED BY <3>4, <3>5
  <2> HIDE DEF holds
  <2>3. \A k \in 0..n : k \in holds
    BY <1>1, <2>1, <2>2, PositionInduction
  <2> QED BY <1>1, <2>3 DEF holds
<1>9. /\ due \in 0..n
      /\ \A k \in 1..n : k <= due => Elapsed(counted, k) = 0
      /\ due < n => counted[due + 1].ticks # 0
  <2> DEFINE stops == {k \in 0..n : k < n => counted[k + 1].ticks # 0}
  <2>1. n \in stops /\ stops \in SUBSET (0..n) /\ stops \in SUBSET Nat
    BY <1>1
  <2>2. IsFiniteSet(0..n)
    BY <1>1, FS_Interval
  <2>3. due = Min(stops)
    BY <1>5 DEF DueCount
  <2> HIDE DEF due
  <2>4. due \in stops /\ \A k \in stops : due <= k
    <3> HIDE DEF stops
    <3> QED BY <2>1, <2>2, <2>3, FS_Subset, MinOfPositions
  <2>5. \A k \in 1..n : k <= due => counted[k].ticks = 0
    <3> SUFFICES ASSUME NEW k \in 1..n, k <= due, counted[k].ticks # 0
                 PROVE  FALSE
      OBVIOUS
    <3>1. k - 1 \in 0..n /\ (k - 1) + 1 = k
      BY <1>1
    <3>2. k - 1 \in stops
      BY <3>1
    <3> QED BY <2>4, <3>1, <3>2
  <2>6. \A k \in 1..n : k <= due => Elapsed(counted, k) = 0
    <3> DEFINE holds == {k \in 0..n : k <= due => Elapsed(counted, k) = 0}
    <3>1. 0 \in holds
      BY <1>1, <1>7
    <3>2. ASSUME NEW k \in 0..(n - 1), k \in holds
          PROVE  k + 1 \in holds
      <4>1. k + 1 \in 1..n /\ (k + 1) - 1 = k /\ k + 1 \in 0..n
        BY <1>1
      <4>2. Elapsed(counted, k + 1) = Elapsed(counted, k) + counted[k + 1].ticks
        BY <1>7, <4>1
      <4>3. k + 1 <= due => k <= due
        BY <2>4
      <4> QED BY <2>5, <3>2, <4>1, <4>2, <4>3
    <3> HIDE DEF holds
    <3>3. \A k \in 0..n : k \in holds
      BY <1>1, <3>1, <3>2, PositionInduction
    <3> QED BY <3>3 DEF holds
  <2> QED BY <2>4, <2>6
<1> HIDE DEF due
<1>10. /\ left \in Seq([id : S, ticks : Ticks]) /\ Len(left) = n - due
       /\ \A i \in 1..(n - due) : left[i] = counted[due + i]
  <2>1. /\ left = SubSeq(counted, due + 1, n)
        /\ counted \in [1..n -> [id : S, ticks : Ticks]]
    BY <1>5, LenProperties DEF NotDue
  <2>2. due + 1 \in Int /\ n \in Int
        /\ \A i \in (due + 1)..n : counted[i] \in [id : S, ticks : Ticks]
    BY <1>1, <1>9, <2>1
  <2>3. /\ left \in Seq([id : S, ticks : Ticks])
        /\ Len(left) = IF due + 1 <= n THEN n - (due + 1) + 1 ELSE 0
        /\ \A i \in 1..(n - (due + 1) + 1) : left[i] = counted[(due + 1) + i - 1]
    BY <2>1, <2>2, SubSeqProperties
  <2> HIDE DEF left
  <2> QED BY <1>1, <1>9, <2>3
<1> HIDE DEF left
<1>11. \A i \in 1..(n - due) : Elapsed(left, i) = Elapsed(counted, due + i)
  <2> DEFINE m == n - due
             holds == {i \in 0..m : Elapsed(left, i) = Elapsed(counted, due + i)}
  <2>0. m \in Nat /\ due \in 0..n
    BY <1>1, <1>9
  <2>1. /\ Elapsed(left, 0) = 0
        /\ \A i \in 1..m : Elapsed(left, i) = Elapsed(left, i - 1) + left[i].ticks
    BY <1>10, TicksAreNatural, ElapsedRecursion
  <2>2. Elapsed(counted, due) = 0
    <3>1. CASE due = 0
      BY <1>7, <3>1
    <3>2. CASE due # 0
      <4>1. due \in 1..n /\ due <= due
        BY <2>0, <3>2
      <4> QED BY <1>9, <4>1
    <3> QED BY <3>1, <3>2
  <2>3. 0 \in holds
    <3>1. due + 0 = due
      BY <2>0
    <3> QED BY <2>0, <2>1, <2>2, <3>1
  <2>4. ASSUME NEW i \in 0..(m - 1), i \in holds
        PROVE  i + 1 \in holds
    <3>1. /\ i + 1 \in 1..m /\ (i + 1) - 1 = i /\ due + (i + 1) \in 1..n
          /\ (due + (i + 1)) - 1 = due + i /\ i + 1 \in 0..m
      BY <1>1, <2>0
    <3>2. Elapsed(left, i + 1) = Elapsed(left, i) + left[i + 1].ticks
      BY <2>1, <3>1
    <3>3. Elapsed(counted, due + (i + 1)) = Elapsed(counted, due + i) + counted[due + (i + 1)].ticks
      BY <1>7, <3>1
    <3>4. left[i + 1] = counted[due + (i + 1)]
      BY <1>10, <3>1
    <3> QED BY <2>4, <3>1, <3>2, <3>3, <3>4
  <2> HIDE DEF m, holds
  <2>5. \A i \in 0..m : i \in holds
    BY <2>0, <2>3, <2>4, PositionInduction
  <2> QED BY <2>0, <2>5 DEF m, holds
<1>12. \A k \in 1..n : k > due => Elapsed(counted, k) \in Nat \ {0}
  <2> SUFFICES ASSUME NEW k \in 1..n, k > due
               PROVE  Elapsed(counted, k) \in Nat \ {0}
    OBVIOUS
  <2>1. due + 1 \in 1..n /\ (due + 1) - 1 = due /\ due \in 0..n /\ due < n /\ due + 1 <= k
        /\ due + 1 \in 0..n /\ k \in 0..n
    BY <1>1, <1>9
  <2>2. Elapsed(counted, due + 1) = Elapsed(counted, due) + counted[due + 1].ticks
    BY <1>7, <2>1
  <2>3. counted[due + 1].ticks \in Nat \ {0}
    <3>1. counted \in [1..n -> [id : S, ticks : Ticks]]
      BY <1>5, LenProperties
    <3>2. counted[due + 1].ticks \in Ticks
      BY <2>1, <3>1
    <3> QED BY <1>4, <1>9, <2>1, <3>2
  <2>4. Elapsed(counted, due) \in Nat /\ Elapsed(counted, due + 1) \in Nat
        /\ Elapsed(counted, k) \in Nat
    BY <1>7, <2>1
  <2>5. Elapsed(counted, due + 1) <= Elapsed(counted, k)
    BY <1>5, <2>1, ElapsedGrows
  <2> QED BY <2>2, <2>3, <2>4, <2>5
<1>13. ASSUME NEW p, NEW t, Sleeps(left, p, t)
       PROVE  t \in Ticks \ {0} /\ Sleeps(list, p, t + 1)
  <2>1. PICK i \in 1..(n - due) : left[i].id = p /\ Elapsed(left, i) = t
    BY <1>10, <1>13 DEF Sleeps
  <2>2. due + i \in 1..n /\ due + i > due /\ due + i \in 0..n
    BY <1>1, <1>9
  <2>3. list[due + i].id = p /\ t = Elapsed(list, due + i) - 1 /\ t \in Nat \ {0}
    BY <1>6, <1>8, <1>10, <1>11, <1>12, <2>1, <2>2
  <2>4. Elapsed(list, due + i) \in Ticks /\ Elapsed(list, due + i) \in Nat
    BY <1>4, <2>2 DEF InTime, n
  <2>5. Elapsed(list, due + i) = t + 1
    BY <2>3, <2>4
  <2>6. t \in Ticks
    BY <2>3, <2>4, <2>5, TickModulusAssumption DEF Ticks
  <2> QED BY <2>2, <2>3, <2>5, <2>6 DEF Sleeps, n
<1>14. ASSUME NEW p, NEW t \in Ticks \ {0}, Sleeps(list, p, t + 1)
       PROVE  Sleeps(left, p, t)
  <2>1. PICK k \in 1..n : list[k].id = p /\ Elapsed(list, k) = t + 1
    BY <1>14 DEF Sleeps, n
  <2>2. Elapsed(counted, k) = t /\ t # 0
    <3>1. t \in Nat
      BY <1>4
    <3> QED BY <1>8, <2>1, <3>1
  <2>3. k > due
    BY <1>1, <1>9, <2>2
  <2>4. k - due \in 1..(n - due) /\ due + (k - due) = k
    BY <1>1, <1>9, <2>3
  <2>5. left[k - due].id = p /\ Elapsed(left, k - due) = t
    BY <1>6, <1>10, <1>11, <2>1, <2>2, <2>4
  <2> QED BY <1>10, <2>4, <2>5 DEF Sleeps
<1> QED BY <1>13, <1>14 DEF left, due, counted

\* clean_timer_list() takes out the countdowns of the dead and keeps the others.
LEMMA CleanTimersSleeps ==
    ASSUME NEW S, NEW list \in Seq([id : S, ticks : Ticks]), InTime(list), NEW alive
    PROVE  \A p, t : Sleeps(CleanTimers(list, alive), p, t)
                       <=> Sleeps(list, p, t) /\ p \in alive
<1> DEFINE n == Len(list)
           kept == {i \in DOMAIN list : list[i].id \in alive}
           m == Cardinality(kept)
           At(k) == IF k = 0 THEN 0 ELSE Kth(kept, k)
           new == CleanTimers(list, alive)
<1>1. n \in Nat /\ DOMAIN list = 1..n
  BY LenProperties
<1>2. /\ \A k \in 0..n : Elapsed(list, k) \in Nat
      /\ Elapsed(list, 0) = 0
  BY TicksAreNatural, ElapsedType, ElapsedRecursion
<1>3. kept \in SUBSET (1..n) /\ kept \in SUBSET Nat /\ IsFiniteSet(kept) /\ m \in Nat
  <2>1. IsFiniteSet(1..n)
    BY <1>1, FS_Interval
  <2>2. kept \in SUBSET (1..n)
    BY <1>1
  <2> HIDE DEF kept
  <2>3. IsFiniteSet(kept)
    BY <2>1, <2>2, FS_Subset
  <2> QED BY <2>2, <2>3, FS_CardinalityType
<1>4. \A i \in 1..n : i \in kept <=> list[i].id \in alive
  BY <1>1
<1>5. /\ new \in Seq([id : S, ticks : Ticks])
      /\ DOMAIN new = 1..m
      /\ \A k \in 1..m : /\ new[k].id = list[At(k)].id
                         /\ new[k].ticks = Wrap(Elapsed(list, At(k)) - Elapsed(list, At(k - 1)))
  <2> DEFINE Prior(k) == IF k = 1 THEN 0 ELSE Kth(kept, k - 1)
             Given(k) == Wrap(Elapsed(list, Kth(kept, k)) - Elapsed(list, Prior(k)))
  <2>1. new = [k \in 1..m |-> [id |-> list[Kth(kept, k)].id, ticks |-> Given(k)]]
    BY DEF CleanTimers
  <2>2. new \in Seq([id : S, ticks : Ticks])
    BY CleanTimersType
  <2> HIDE DEF new, kept, m
  <2>3. \A k \in 1..m : At(k) = Kth(kept, k) /\ At(k - 1) = Prior(k)
    BY <1>3
  <2>4. \A k \in 1..m : Given(k) = Wrap(Elapsed(list, At(k)) - Elapsed(list, At(k - 1)))
    BY <2>3
  <2> HIDE DEF Given, Prior, At
  <2> QED BY <2>1, <2>2, <2>3, <2>4
<1> HIDE DEF new, kept, n
<1>6. \A k \in 1..m : At(k) \in kept /\ At(k) \in 1..n
  <2>1. \A k \in 1..m : At(k) = Kth(kept, k)
    BY <1>3
  <2>2. \A k \in 1..m : Kth(kept, k) \in kept
    BY <1>3, KthIsPosition
  <2> HIDE DEF At, m
  <2>3. \A k \in 1..m : At(k) \in kept
    BY <2>1, <2>2
  <2> QED BY <1>3, <2>3
<1>7. \A k \in 1..m : At(k - 1) \in 0..n /\ At(k - 1) <= At(k)
  <2> SUFFICES ASSUME NEW k \in 1..m
               PROVE  At(k - 1) \in 0..n /\ At(k - 1) <= At(k)
    OBVIOUS
  <2>1. CASE k = 1
    <3>1. At(k - 1) = 0 /\ At(k) \in 1..n
      BY <1>6, <2>1
    <3> HIDE DEF At
    <3> QED BY <1>1, <3>1
  <2>2. CASE k # 1
    <3>1. k - 1 \in 1..m /\ k - 1 < k
      BY <1>3, <2>2
    <3>2. Kth(kept, k - 1) < Kth(kept, k)
      BY <1>3, <3>1, KthGrows
    <3>3. At(k - 1) = Kth(kept, k - 1) /\ At(k) = Kth(kept, k)
      BY <1>3, <3>1
    <3>4. At(k - 1) \in 1..n /\ At(k) \in 1..n
      BY <1>6, <3>1
    <3> HIDE DEF At
    <3> QED BY <3>2, <3>3, <3>4
  <2> QED BY <2>1, <2>2
<1>8. At(0) = 0
  OBVIOUS
<1> HIDE DEF At, m
<1>9. Len(new) = m
  <2>1. DOMAIN new = 1..Len(new) /\ Len(new) \in Nat
    BY <1>5, LenProperties
  <2> QED BY <1>3, <1>5, <2>1
<1>10. \A k \in 1..m : new[k].ticks = Elapsed(list, At(k)) - Elapsed(list, At(k - 1))
  <2> SUFFICES ASSUME NEW k \in 1..m
               PROVE  new[k].ticks = Elapsed(list, At(k)) - Elapsed(list, At(k - 1))
    OBVIOUS
  <2> DEFINE a == Elapsed(list, At(k))
             b == Elapsed(list, At(k - 1))
  <2>1. At(k) \in 1..n /\ At(k) \in 0..n /\ At(k - 1) \in 0..n /\ At(k - 1) <= At(k)
    BY <1>1, <1>6, <1>7
  <2>2. a \in Nat /\ b \in Nat
    BY <1>2, <2>1
  <2>3. b <= a
    BY <2>1, ElapsedGrows DEF n
  <2>4. a \in Ticks
    BY <2>1 DEF InTime, n
  <2> HIDE DEF a, b
  <2>5. a - b \in 0..(TICK_MODULUS - 1)
    BY <2>2, <2>3, <2>4, TickModulusAssumption DEF Ticks
  <2>6. Wrap(a - b) = a - b
    BY <2>5, TickModulusAssumption DEF Wrap
  <2> QED BY <1>5, <2>6 DEF a, b
<1>11. \A k \in 1..m : Elapsed(new, k) = Elapsed(list, At(k))
  <2> DEFINE holds == {k \in 0..m : Elapsed(new, k) = Elapsed(list, At(k))}
  <2>1. /\ Elapsed(new, 0) = 0
        /\ \A k \in 1..m : Elapsed(new, k) = Elapsed(new, k - 1) + new[k].ticks
    <3>1. new \in Seq([id : S, ticks : Nat])
      BY <1>5, TicksAreNatural
    <3> QED BY <1>9, <3>1, ElapsedRecursion
  <2>2. 0 \in holds
    BY <1>2, <1>3, <1>8, <2>1
  <2>3. ASSUME NEW k \in 0..(m - 1), k \in holds
        PROVE  k + 1 \in holds
    <3>1. k + 1 \in 1..m /\ (k + 1) - 1 = k /\ k + 1 \in 0..m
      BY <1>3
    <3>2. Elapsed(new, k + 1) = Elapsed(new, k) + new[k + 1].ticks
      BY <2>1, <3>1
    <3>3. new[k + 1].ticks = Elapsed(list, At(k + 1)) - Elapsed(list, At(k))
      BY <1>10, <3>1
    <3>4. Elapsed(list, At(k + 1)) \in Nat /\ Elapsed(list, At(k)) \in Nat
      <4>1. At(k + 1) \in 0..n /\ At(k) \in 0..n
        BY <1>1, <1>6, <1>7, <3>1
      <4> QED BY <1>2, <4>1
    <3> QED BY <2>3, <3>1, <3>2, <3>3, <3>4
  <2> HIDE DEF holds
  <2>4. \A k \in 0..m : k \in holds
    BY <1>3, <2>2, <2>3, PositionInduction
  <2> QED BY <1>3, <2>4 DEF holds
<1>12. ASSUME NEW p, NEW t, Sleeps(new, p, t)
       PROVE  Sleeps(list, p, t) /\ p \in alive
  <2>1. PICK k \in 1..m : new[k].id = p /\ Elapsed(new, k) = t
    BY <1>9, <1>12 DEF Sleeps
  <2>2. At(k) \in 1..n /\ list[At(k)].id = p /\ Elapsed(list, At(k)) = t /\ p \in alive
    BY <1>4, <1>5, <1>6, <1>11, <2>1
  <2> QED BY <2>2 DEF Sleeps, n
<1>13. ASSUME NEW p \in alive, NEW t, Sleeps(list, p, t)
       PROVE  Sleeps(new, p, t)
  <2>1. PICK i \in 1..n : list[i].id = p /\ Elapsed(list, i) = t
    BY <1>13 DEF Sleeps, n
  <2>2. PICK k \in 1..m : Kth(kept, k) = i
    BY <1>3, <1>4, <2>1, KthIsPosition DEF m
  <2>3. At(k) = i
    BY <1>3, <2>2 DEF At
  <2> QED BY <1>5, <1>9, <1>11, <2>1, <2>3 DEF Sleeps
<1> QED BY <1>12, <1>13 DEF new

\* A timer list of which each process has one countdown at most.
Countdowns(list) ==
    /\ list \in Seq([id : Pid, ticks : Ticks])
    /\ IsInjective(Ids(list))
    /\ InTime(list)

\* What is left of the ticks of a process, read from its countdown.
LEMMA TicksLeftIs ==
    ASSUME NEW list, Countdowns(list), NEW p \in Pid
    PROVE  /\ \A t : Sleeps(list, p, t) => TicksLeft(list)[p] = t
           /\ TicksLeft(list)[p] # 0 => Sleeps(list, p, TicksLeft(list)[p])
<1> DEFINE n == Len(list)
           mine == {k \in DOMAIN list : list[k].id = p}
<1>1. /\ n \in Nat /\ DOMAIN list = 1..n /\ DOMAIN Ids(list) = 1..n
      /\ \A k \in 1..n : Ids(list)[k] = list[k].id
  BY IdsType, LenProperties DEF Countdowns
<1>2. TicksLeft(list)[p] = IF mine = {} THEN 0 ELSE Elapsed(list, Min(mine))
  BY DEF TicksLeft
<1>3. ASSUME NEW k \in 1..n, list[k].id = p
      PROVE  Min(mine) = k
  <2>1. \A i \in 1..n : list[i].id = p => i = k
    BY <1>1, <1>3 DEF Countdowns, IsInjective
  <2>2. mine = {k}
    BY <1>1, <1>3, <2>1
  <2>3. IsFiniteSet({k}) /\ {k} \in SUBSET Nat /\ {k} # {}
    <3>1. k \in Nat
      BY <1>1
    <3> QED BY <3>1, FS_Singleton
  <2>4. Min({k}) \in {k}
    BY <2>3, MinOfPositions
  <2> QED BY <2>2, <2>4
<1>4. ASSUME NEW t, Sleeps(list, p, t)
      PROVE  TicksLeft(list)[p] = t
  <2>1. PICK k \in 1..n : list[k].id = p /\ Elapsed(list, k) = t
    BY <1>4 DEF Sleeps
  <2>2. mine # {} /\ Min(mine) = k
    BY <1>1, <1>3, <2>1
  <2> HIDE DEF mine
  <2> QED BY <1>2, <2>1, <2>2
<1>5. ASSUME TicksLeft(list)[p] # 0
      PROVE  Sleeps(list, p, TicksLeft(list)[p])
  <2>1. mine # {}
    BY <1>2, <1>5
  <2>2. PICK k \in 1..n : list[k].id = p
    BY <1>1, <2>1
  <2>3. Min(mine) = k
    BY <1>3, <2>2
  <2>4. TicksLeft(list)[p] = Elapsed(list, k)
    <3> HIDE DEF mine
    <3> QED BY <1>2, <2>1, <2>3
  <2> QED BY <2>2, <2>4 DEF Sleeps
<1> QED BY <1>4, <1>5

\* Who has the same countdowns in two lists has the same ticks left.
LEMMA SameTicks ==
    ASSUME NEW list, Countdowns(list), NEW new, Countdowns(new), NEW p \in Pid,
           \A t : Sleeps(list, p, t) <=> Sleeps(new, p, t)
    PROVE  TicksLeft(new)[p] = TicksLeft(list)[p]
BY TicksLeftIs

\* add_timer() gives a process that is awake its countdown.
LEMMA AddedCountdown ==
    ASSUME NEW list, Countdowns(list), NEW id \in Pid, id \notin Range(Ids(list)),
           NEW ticks \in Ticks \ {0}
    PROVE  /\ Countdowns(AddTimer(list, id, ticks))
           /\ TicksLeft(list)[id] = 0
           /\ TicksLeft(AddTimer(list, id, ticks)) = [TicksLeft(list) EXCEPT ![id] = ticks]
<1> DEFINE new == AddTimer(list, id, ticks)
<1>1. \A p, t : Sleeps(new, p, t) <=> Sleeps(list, p, t) \/ (p = id /\ t = ticks)
  BY AddTimerSleeps DEF Countdowns
<1>2. new \in Seq([id : Pid, ticks : Ticks]) /\ IsInjective(Ids(new))
  BY AddTimerType, AddTimerIds DEF Countdowns
<1>3. \A p, t : Sleeps(list, p, t) => t \in Ticks \ {0}
  BY SleepsInTime DEF Countdowns
<1> HIDE DEF new
<1>4. \A p, t : Sleeps(new, p, t) => t \in Ticks \ {0}
  BY <1>1, <1>3
<1>5. Countdowns(new)
  BY <1>2, <1>4, SleepsInTime DEF Countdowns
<1>6. \A t : ~Sleeps(list, id, t)
  <2>1. DOMAIN Ids(list) = 1..Len(list) /\ \A k \in 1..Len(list) : Ids(list)[k] = list[k].id
    BY IdsType DEF Countdowns
  <2> QED BY <2>1 DEF Range, Sleeps
<1>7. TicksLeft(list)[id] = 0
  BY <1>6, TicksLeftIs
<1>8. TicksLeft(new)[id] = ticks
  BY <1>1, <1>5, TicksLeftIs
<1>9. \A p \in Pid : p # id => TicksLeft(new)[p] = TicksLeft(list)[p]
  BY <1>1, <1>5, SameTicks
<1>10. /\ TicksLeft(new) = [p \in Pid |-> TicksLeft(new)[p]]
       /\ TicksLeft(list) = [p \in Pid |-> TicksLeft(list)[p]]
  BY DEF TicksLeft
<1>11. TicksLeft(new) = [TicksLeft(list) EXCEPT ![id] = ticks]
  BY <1>8, <1>9, <1>10
<1> QED BY <1>5, <1>7, <1>11 DEF new

\* The clock takes one tick from every process that sleeps.
LEMMA TickedCountdowns ==
    ASSUME NEW list, Countdowns(list)
    PROVE  LET new == NotDue(Countdown(list), DueCount(Countdown(list)))
           IN  /\ Countdowns(new)
               /\ TicksLeft(new) =
                    [p \in Pid |-> IF TicksLeft(list)[p] = 0 THEN 0 ELSE TicksLeft(list)[p] - 1]
<1> DEFINE counted == Countdown(list)
           due == DueCount(counted)
           new == NotDue(counted, due)
<1>1. \A p, t : Sleeps(new, p, t) <=> t \in Ticks \ {0} /\ Sleeps(list, p, t + 1)
  BY TickSleeps DEF Countdowns
<1>2. /\ counted \in Seq([id : Pid, ticks : Ticks]) /\ Len(counted) = Len(list)
      /\ IsInjective(Ids(counted))
  BY CountdownType, CountdownIds DEF Countdowns
<1> HIDE DEF counted
<1>3. due \in 0..Len(counted)
  BY <1>2, DueCountType
<1> HIDE DEF due
<1>4. new \in Seq([id : Pid, ticks : Ticks])
  <2>1. SubSeq(counted, due + 1, Len(counted)) \in Seq([id : Pid, ticks : Ticks])
    BY <1>2, <1>3, SuffixMembers
  <2> QED BY <2>1 DEF NotDue
<1>5. IsInjective(Ids(new))
  BY <1>2, <1>3, DueIds
<1> HIDE DEF new
<1>6. \A p, t : Sleeps(new, p, t) => t \in Ticks \ {0}
  BY <1>1
<1>7. Countdowns(new)
  BY <1>4, <1>5, <1>6, SleepsInTime DEF Countdowns
<1>8. \A p, t : Sleeps(list, p, t) => t \in Ticks \ {0}
  BY SleepsInTime DEF Countdowns
<1>9. ASSUME NEW p \in Pid
      PROVE  TicksLeft(new)[p] = IF TicksLeft(list)[p] = 0 THEN 0 ELSE TicksLeft(list)[p] - 1
  <2> DEFINE before == TicksLeft(list)[p]
             after == TicksLeft(new)[p]
  <2>1. /\ \A t : Sleeps(list, p, t) => before = t
        /\ before # 0 => Sleeps(list, p, before)
    BY TicksLeftIs
  <2>2. /\ \A t : Sleeps(new, p, t) => after = t
        /\ after # 0 => Sleeps(new, p, after)
    BY <1>7, TicksLeftIs
  <2> HIDE DEF before, after
  <2>3. CASE after # 0
    <3>1. after \in Ticks \ {0} /\ before = after + 1
      BY <1>1, <2>1, <2>2, <2>3
    <3>2. after \in Int /\ before # 0 /\ before - 1 = after
      BY <3>1, TickModulusAssumption DEF Ticks
    <3> QED BY <3>2 DEF before, after
  <2>4. CASE after = 0 /\ before # 0
    <3>1. before \in Ticks \ {0} /\ Sleeps(list, p, before)
      BY <1>8, <2>1, <2>4
    <3>2. /\ (before - 1) + 1 = before
          /\ before - 1 \in Ticks
      BY <3>1, TickModulusAssumption DEF Ticks
    <3>3. before - 1 # 0 => Sleeps(new, p, before - 1)
      BY <1>1, <3>1, <3>2
    <3>4. before - 1 = 0
      BY <2>2, <2>4, <3>3
    <3> QED BY <2>4, <3>4 DEF before, after
  <2>5. CASE after = 0 /\ before = 0
    BY <2>5 DEF before, after
  <2> QED BY <2>3, <2>4, <2>5
<1>10. TicksLeft(new) = [p \in Pid |-> TicksLeft(new)[p]]
  BY DEF TicksLeft
<1>11. TicksLeft(new) =
        [p \in Pid |-> IF TicksLeft(list)[p] = 0 THEN 0 ELSE TicksLeft(list)[p] - 1]
  BY <1>9, <1>10
<1> QED BY <1>7, <1>11 DEF new, due, counted

\* The death of processes ends their countdowns and no other.
LEMMA CleanedCountdowns ==
    ASSUME NEW list, Countdowns(list), NEW alive
    PROVE  /\ Countdowns(CleanTimers(list, alive))
           /\ TicksLeft(CleanTimers(list, alive)) =
                [p \in Pid |-> IF p \in alive THEN TicksLeft(list)[p] ELSE 0]
<1> DEFINE new == CleanTimers(list, alive)
<1>1. \A p, t : Sleeps(new, p, t) <=> Sleeps(list, p, t) /\ p \in alive
  BY CleanTimersSleeps DEF Countdowns
<1>2. new \in Seq([id : Pid, ticks : Ticks])
  BY CleanTimersType DEF Countdowns
<1>3. IsInjective(Ids(new))
  <2>1. Ids(new) = Survivors(Ids(list), alive)
    BY CleanTimersIds DEF Countdowns
  <2>2. Ids(list) \in Seq(Pid) /\ IsInjective(Ids(list))
    BY IdsType DEF Countdowns
  <2> QED BY <2>1, <2>2, SurvivorsMembers
<1> HIDE DEF new
<1>4. \A p, t : Sleeps(list, p, t) => t \in Ticks \ {0}
  BY SleepsInTime DEF Countdowns
<1>5. \A p, t : Sleeps(new, p, t) => t \in Ticks \ {0}
  BY <1>1, <1>4
<1>6. Countdowns(new)
  BY <1>2, <1>3, <1>5, SleepsInTime DEF Countdowns
<1>7. \A p \in Pid : p \in alive => TicksLeft(new)[p] = TicksLeft(list)[p]
  BY <1>1, <1>6, SameTicks
<1>8. \A p \in Pid : p \notin alive => TicksLeft(new)[p] = 0
  BY <1>1, <1>6, TicksLeftIs
<1>9. TicksLeft(new) = [p \in Pid |-> TicksLeft(new)[p]]
  BY DEF TicksLeft
<1>10. TicksLeft(new) = [p \in Pid |-> IF p \in alive THEN TicksLeft(list)[p] ELSE 0]
  BY <1>7, <1>8, <1>9
<1> QED BY <1>6, <1>10 DEF new

-----------------------------------------------------------------------------
(* The types of the lists.                                                 *)

Descriptor ==
    [is_present : BOOLEAN, count : Int,
     creator_id : Pid \cup {NoProcess}, waiting_list : Seq(Pid)]

Status == {"running", "panic", "undefined"}

\* What the scheduler assigns.
SchedulerTypes ==
    /\ ready_queue \in Seq(Pid)
    /\ scheduler_timer_ticks \in 0..(timesharing_interval - 1)
    /\ status \in Status

\* The part of TypeOK that speaks of lists.
ListTypes ==
    /\ SchedulerTypes
    /\ waiting \in [Pid -> Seq(Pid)]
    /\ timer_list \in Seq([id : Pid, ticks : Ticks])
    /\ semaphore_array \in [Semid -> Descriptor]

-----------------------------------------------------------------------------
(* The ready queue.                                                        *)

LEMMA AddProcesses ==
    ASSUME NEW queue \in Seq(Pid), NEW T, NEW added \in Seq(T),
           NEW alive, alive \subseteq Pid
    PROVE  AddToList(queue, added, alive) \in Seq(Pid)
<1>1. Pid \cup (T \cap alive) = Pid
  OBVIOUS
<1> QED BY <1>1, AddToListType

LEMMA PopPresentTypes ==
    ASSUME ListTypes, NEW queue \in Seq(Pid), NEW T, NEW back \in Seq(T),
           present' \subseteq Pid, PopPresent(queue, back)
    PROVE  ready_queue' \in Seq(Pid) /\ status' \in Status
<1>1. CASE \A i \in DOMAIN queue : queue[i] \notin present'
  BY <1>1 DEF PopPresent, EmptyPop, ListTypes, SchedulerTypes, Status
<1>2. CASE ~(\A i \in DOMAIN queue : queue[i] \notin present')
  <2>1. PICK i \in DOMAIN queue :
          /\ ready_queue' = AddToList(SubSeq(queue, i + 1, Len(queue)), back, present')
          /\ UNCHANGED status
    BY <1>2 DEF PopPresent
  <2>2. DOMAIN queue = 1..Len(queue) /\ Len(queue) \in Nat /\ queue \in [1..Len(queue) -> Pid]
    BY LenProperties
  <2>3. SubSeq(queue, i + 1, Len(queue)) \in Seq(Pid)
    <3>1. i + 1 \in Int /\ Len(queue) \in Int /\ \A k \in (i + 1)..Len(queue) : queue[k] \in Pid
      BY <2>1, <2>2
    <3> QED BY <3>1, SubSeqProperties
  <2> QED BY <2>1, <2>3, AddProcesses DEF ListTypes, SchedulerTypes
<1> QED BY <1>1, <1>2

LEMMA DropTypes ==
    ASSUME ListTypes, NEW queue \in Seq(Pid), present' \subseteq Pid, Drop(queue)
    PROVE  SchedulerTypes'
<1>1. <<>> \in Seq(Pid)
  BY EmptySeq
<1>2. ready_queue' \in Seq(Pid) /\ status' \in Status
  BY <1>1, PopPresentTypes DEF Drop
<1> QED BY <1>2, SizeAssumption DEF Drop, SchedulerTypes

LEMMA ScheduleTypes ==
    ASSUME ListTypes, NEW queue \in Seq(Pid), NEW ticks \in Nat,
           present' \subseteq Pid, Schedule(queue, ticks)
    PROVE  SchedulerTypes'
<1>1. CASE ticks < timesharing_interval /\ execution_index \in present'
  BY <1>1, SizeAssumption DEF Schedule, SchedulerTypes, ListTypes
<1>2. CASE ~(ticks < timesharing_interval /\ execution_index \in present')
  <2>1. scheduler_timer_ticks' = 0
    BY <1>2 DEF Schedule
  <2>2. CASE queue # <<>>
    <3>1. PopPresent(queue, <<execution_index>>)
      BY <1>2, <2>2 DEF Schedule
    <3>2. <<execution_index>> \in Seq({execution_index})
      OBVIOUS
    <3>3. ready_queue' \in Seq(Pid) /\ status' \in Status
      BY <3>1, <3>2, PopPresentTypes
    <3> QED BY <2>1, <3>3, SizeAssumption DEF SchedulerTypes
  <2>3. CASE queue = <<>>
    <3>1. ready_queue' = queue /\ status' \in Status
      BY <1>2, <2>3 DEF Schedule, ListTypes, SchedulerTypes, Status
    <3> QED BY <2>1, <3>1, SizeAssumption DEF SchedulerTypes
  <2> QED BY <2>2, <2>3
<1> QED BY <1>1, <1>2

\* A call that only returns.
LEMMA ReturnTypes ==
    ASSUME ListTypes, UNCHANGED <<waiting, timer_list, semaphore_array>>,
           Schedule(ready_queue, scheduler_timer_ticks), present' \subseteq Pid
    PROVE  ListTypes'
<1>1. ready_queue \in Seq(Pid) /\ scheduler_timer_ticks \in Nat
  BY SizeAssumption DEF ListTypes, SchedulerTypes
<1> QED BY <1>1, ScheduleTypes DEF ListTypes

-----------------------------------------------------------------------------
(* Destruction.                                                            *)

LEMMA WokenType ==
    ASSUME ListTypes
    PROVE  WokenByClosing \in Seq(Pid)
<1> DEFINE lists == [k \in 1..MAX_SEMAPHORE_NUMBER |->
                       IF Closing(k - 1) THEN semaphore_array[k - 1].waiting_list ELSE <<>>]
<1>1. ASSUME NEW k \in 1..MAX_SEMAPHORE_NUMBER
      PROVE  (IF Closing(k - 1) THEN semaphore_array[k - 1].waiting_list ELSE <<>>) \in Seq(Pid)
  <2>1. k - 1 \in Semid
    BY SizeAssumption DEF Semid
  <2>2. semaphore_array[k - 1].waiting_list \in Seq(Pid)
    BY <2>1 DEF ListTypes, Descriptor
  <2> QED BY <2>2, EmptySeq
<1>2. lists \in [1..MAX_SEMAPHORE_NUMBER -> Seq(Pid)]
  BY <1>1
<1>3. WokenByClosing = FlattenSeq(lists)
  BY DEF WokenByClosing
<1> HIDE DEF lists
<1>4. FlattenSeq(lists) \in Seq(Pid)
  BY <1>2, SizeAssumption, FlattenSeqType
<1> QED BY <1>3, <1>4

LEMMA ReadyAfterDestroyType ==
    ASSUME ListTypes, NEW queue \in Seq(Pid), present' \subseteq Pid
    PROVE  ReadyAfterDestroy(queue) \in Seq(Pid)
<1>1. queue \o WokenByClosing \in Seq(Pid)
  BY WokenType, ConcatProperties
<1>2. Survivors(queue \o WokenByClosing, present') \in Seq(Pid \cap present')
  BY <1>1, SurvivorsProperties
<1>3. Pid \cap present' \subseteq Pid
  OBVIOUS
<1> QED BY <1>2, <1>3, SeqMonotonic DEF ReadyAfterDestroy

\* A waiting list loses the processes that die and keeps holding processes.
LEMMA WaitersType ==
    ASSUME NEW list \in Seq(Pid), NEW left
    PROVE  /\ Survivors(list, left) \in Seq(Pid)
           /\ Len(Survivors(list, left)) \in Nat /\ Len(list) \in Nat
           /\ Len(Survivors(list, left)) <= Len(list)
<1>1. /\ Survivors(list, left) \in Seq(Pid \cap left)
      /\ Len(Survivors(list, left)) <= Len(list)
  BY SurvivorsProperties
<1>2. Survivors(list, left) \in Seq(Pid)
  BY <1>1, SeqMonotonic
<1> QED BY <1>1, <1>2, LenProperties

LEMMA SemaphoreAfterType ==
    ASSUME ListTypes, NEW s \in Semid, NEW left
    PROVE  SemaphoreAfter(s, left) \in Descriptor
<1> DEFINE semaphore == semaphore_array[s]
           list == Survivors(semaphore.waiting_list, left)
<1>1. semaphore \in Descriptor
  BY DEF ListTypes
<1>2. list \in Seq(Pid) /\ Len(list) \in Nat /\ Len(semaphore.waiting_list) \in Nat
  BY <1>1, WaitersType DEF Descriptor
<1>3. CASE Closing(s)
  <2>1. SemaphoreAfter(s, left) = [semaphore EXCEPT !.is_present = FALSE, !.waiting_list = <<>>]
    BY <1>3 DEF SemaphoreAfter
  <2> QED BY <1>1, <2>1, EmptySeq DEF Descriptor
<1>4. CASE ~Closing(s) /\ semaphore.is_present
  <2> DEFINE count == semaphore.count + (Len(semaphore.waiting_list) - Len(list))
  <2>1. count \in Int
    <3>1. semaphore.count \in Int
      BY <1>1 DEF Descriptor
    <3> HIDE DEF semaphore, list
    <3> QED BY <1>2, <3>1
  <2>2. SemaphoreAfter(s, left) = [semaphore EXCEPT !.waiting_list = list, !.count = count]
    BY <1>4 DEF SemaphoreAfter
  <2> HIDE DEF count, list, semaphore
  <2> QED BY <1>1, <1>2, <2>1, <2>2 DEF Descriptor
<1>5. CASE ~Closing(s) /\ ~semaphore.is_present
  BY <1>1, <1>5 DEF SemaphoreAfter
<1> QED BY <1>3, <1>4, <1>5

LEMMA DestroyTypes ==
    ASSUME ListTypes, NEW id, Destroy(id)
    PROVE  /\ timer_list' \in Seq([id : Pid, ticks : Ticks])
           /\ semaphore_array' \in [Semid -> Descriptor]
<1> DEFINE left == present \ Family(id)
<1>1. timer_list' = CleanTimers(timer_list, left)
  BY DEF Destroy
<1>2. semaphore_array' = [s \in Semid |-> SemaphoreAfter(s, left)]
  BY DEF Destroy
<1> HIDE DEF left
<1>3. timer_list' \in Seq([id : Pid, ticks : Ticks])
  BY <1>1, CleanTimersType DEF ListTypes
<1> QED BY <1>2, <1>3, SemaphoreAfterType

-----------------------------------------------------------------------------
(* The actions.                                                            *)

LEMMA TickTypes ==
    ASSUME SchedulerTypes
    PROVE  scheduler_timer_ticks \in Nat /\ scheduler_timer_ticks + 1 \in Nat
BY SizeAssumption DEF SchedulerTypes

LEMMA SleepTypes ==
    ASSUME ListTypes, Running, NEW ticks \in SleepTicks, Sleep(ticks), present' \subseteq Pid
    PROVE  ListTypes'
<1>1. timer_list' \in Seq([id : Pid, ticks : Ticks])
  <2>1. ticks \in Ticks /\ execution_index \in Pid
    BY WorkloadAssumption DEF Ticks, Running
  <2> QED BY <2>1, AddTimerType DEF Sleep, ListTypes
<1>2. SchedulerTypes'
  BY DropTypes DEF Sleep, ListTypes, SchedulerTypes
<1> QED BY <1>1, <1>2 DEF Sleep, ListTypes

LEMMA ExitTypes ==
    ASSUME ListTypes, present \subseteq Pid, Exit, present' \subseteq Pid
    PROVE  ListTypes'
<1> DEFINE queue == AddToList(ready_queue, waiting[execution_index], present)
<1>1. execution_index \in Pid
  BY DEF Exit, Caller, Running
<1>2. queue \in Seq(Pid)
  BY <1>1, AddProcesses DEF ListTypes, SchedulerTypes
<1>3. Drop(ReadyAfterDestroy(queue)) /\ Destroy(execution_index)
  BY DEF Exit
<1> HIDE DEF queue
<1>4. SchedulerTypes'
  BY <1>2, <1>3, ReadyAfterDestroyType, DropTypes
<1>5. waiting' \in [Pid -> Seq(Pid)]
  BY <1>1, EmptySeq DEF Exit, ListTypes
<1> QED BY <1>3, <1>4, <1>5, DestroyTypes DEF ListTypes

LEMMA AbortTypes ==
    ASSUME ListTypes, Abort, present' \subseteq Pid
    PROVE  ListTypes'
<1>1. CASE level[execution_index] = "system"
  BY <1>1 DEF Abort, ListTypes, SchedulerTypes, Status
<1>2. CASE level[execution_index] # "system"
  <2>1. /\ Destroy(execution_index)
        /\ Schedule(ReadyAfterDestroy(ready_queue), scheduler_timer_ticks)
        /\ UNCHANGED waiting
    BY <1>2 DEF Abort
  <2>2. ReadyAfterDestroy(ready_queue) \in Seq(Pid) /\ scheduler_timer_ticks \in Nat
    BY ReadyAfterDestroyType, TickTypes DEF ListTypes, SchedulerTypes
  <2>3. SchedulerTypes'
    BY <2>1, <2>2, ScheduleTypes
  <2> QED BY <2>1, <2>3, DestroyTypes DEF ListTypes
<1> QED BY <1>1, <1>2

LEMMA ForkTypes ==
    ASSUME ListTypes, Fork, present' \subseteq Pid
    PROVE  ListTypes'
<1>1. UNCHANGED <<timer_list, semaphore_array>>
  BY DEF Fork
<1>2. CASE status' = "undefined" /\ UNCHANGED <<waiting, ready_queue, scheduler_timer_ticks>>
  BY <1>1, <1>2 DEF ListTypes, SchedulerTypes, Status
<1>3. CASE \E slot \in Pid : /\ waiting' = [waiting EXCEPT ![slot] = <<>>]
                             /\ Schedule(Append(ready_queue, slot), scheduler_timer_ticks)
  <2>1. PICK slot \in Pid : /\ waiting' = [waiting EXCEPT ![slot] = <<>>]
                            /\ Schedule(Append(ready_queue, slot), scheduler_timer_ticks)
    BY <1>3
  <2>2. Append(ready_queue, slot) \in Seq(Pid) /\ scheduler_timer_ticks \in Nat
    BY TickTypes DEF ListTypes, SchedulerTypes
  <2>3. SchedulerTypes'
    BY <2>1, <2>2, ScheduleTypes
  <2>4. waiting' \in [Pid -> Seq(Pid)]
    BY <2>1, EmptySeq DEF ListTypes
  <2> QED BY <1>1, <2>3, <2>4 DEF ListTypes
<1> QED BY <1>2, <1>3 DEF Fork, CreateProcess

LEMMA JoinTypes ==
    ASSUME ListTypes, NEW target \in Pid, Join(target), present' \subseteq Pid
    PROVE  ListTypes'
<1>1. execution_index \in Pid
  BY DEF Join, JoinProcess, Caller, Running
<1>2. SchedulerTypes'
  BY DropTypes DEF Join, JoinProcess, ListTypes, SchedulerTypes
<1>3. Append(waiting[target], execution_index) \in Seq(Pid)
  BY <1>1 DEF ListTypes
<1>4. waiting' = [waiting EXCEPT ![target] = Append(waiting[target], execution_index)]
  BY DEF Join, JoinProcess
<1>5. waiting' \in [Pid -> Seq(Pid)]
  BY <1>3, <1>4 DEF ListTypes
<1> QED BY <1>2, <1>5 DEF Join, JoinProcess, ListTypes

LEMMA KillTypes ==
    ASSUME ListTypes, NEW target \in Pid, Kill(target), present \subseteq Pid, present' \subseteq Pid
    PROVE  ListTypes'
<1> DEFINE queue == AddToList(ready_queue, waiting[target], present)
<1>1. queue \in Seq(Pid) /\ scheduler_timer_ticks \in Nat
  BY AddProcesses, TickTypes DEF ListTypes, SchedulerTypes
<1>2. Schedule(ReadyAfterDestroy(queue), scheduler_timer_ticks) /\ Destroy(target)
  BY DEF Kill
<1> HIDE DEF queue
<1>3. SchedulerTypes'
  BY <1>1, <1>2, ReadyAfterDestroyType, ScheduleTypes
<1>4. waiting' \in [Pid -> Seq(Pid)]
  BY EmptySeq DEF Kill, ListTypes
<1> QED BY <1>2, <1>3, <1>4, DestroyTypes DEF ListTypes

LEMMA SemaphoreTypes ==
    ASSUME ListTypes, present' \subseteq Pid, execution_index \in Pid \cup {NoProcess}
    PROVE  /\ \A c \in StartCounts : CreateSemaphore(c) => ListTypes'
           /\ \A s \in Semid \cup {MAX_SEMAPHORE_NUMBER} : AcquireSemaphore(s) => ListTypes'
           /\ \A s \in Semid : ReleaseSemaphore(s) => ListTypes'
<1>1. ASSUME NEW c \in StartCounts, CreateSemaphore(c)
      PROVE  ListTypes'
  <2>1. UNCHANGED <<ready_queue, scheduler_timer_ticks, waiting, timer_list>>
    BY <1>1 DEF CreateSemaphore
  <2>2. status' \in Status /\ semaphore_array' \in [Semid -> Descriptor]
    <3>1. CASE status' = "undefined" /\ UNCHANGED semaphore_array
      BY <3>1 DEF Status, ListTypes
    <3>2. CASE UNCHANGED status /\ \E s \in Semid : semaphore_array' =
                 [semaphore_array EXCEPT ![s] =
                    [is_present |-> TRUE, count |-> c,
                     creator_id |-> execution_index, waiting_list |-> <<>>]]
      <4>1. [is_present |-> TRUE, count |-> c, creator_id |-> execution_index,
             waiting_list |-> <<>>] \in Descriptor
        BY WorkloadAssumption, EmptySeq DEF Descriptor
      <4> QED BY <3>2, <4>1 DEF ListTypes, SchedulerTypes
    <3> QED BY <1>1, <3>1, <3>2 DEF CreateSemaphore
  <2> QED BY <2>1, <2>2 DEF ListTypes, SchedulerTypes
<1>2. ASSUME NEW s \in Semid \cup {MAX_SEMAPHORE_NUMBER}, AcquireSemaphore(s)
      PROVE  ListTypes'
  <2>1. CASE s \notin Semid \/ ~semaphore_array[s].is_present
    BY <1>2, <2>1, AbortTypes DEF AcquireSemaphore
  <2>2. CASE s \in Semid /\ semaphore_array[s].is_present
    <3> DEFINE count == semaphore_array[s].count - 1
               list == semaphore_array[s].waiting_list
               blocked == IF count < 0 THEN Append(list, execution_index) ELSE list
    <3>1. execution_index \in Pid /\ semaphore_array[s] \in Descriptor
      BY <1>2, <2>2 DEF AcquireSemaphore, Caller, Running, ListTypes
    <3>2. list \in Seq(Pid) /\ semaphore_array[s].count \in Int
      BY <3>1 DEF Descriptor
    <3>3. count \in Int /\ blocked \in Seq(Pid)
      BY <3>1, <3>2
    <3>4. /\ semaphore_array' = [semaphore_array EXCEPT ![s] =
                 [semaphore_array[s] EXCEPT !.count = count, !.waiting_list = blocked]]
          /\ UNCHANGED <<waiting, timer_list>>
          /\ Drop(ready_queue) \/ Schedule(ready_queue, scheduler_timer_ticks)
      BY <1>2, <2>2 DEF AcquireSemaphore, ListTypes
    <3> HIDE DEF count, list, blocked
    <3>5. [semaphore_array[s] EXCEPT !.count = count, !.waiting_list = blocked] \in Descriptor
      BY <3>1, <3>3 DEF Descriptor
    <3>6. semaphore_array' \in [Semid -> Descriptor]
      <4> DEFINE new == [semaphore_array[s] EXCEPT !.count = count, !.waiting_list = blocked]
      <4>1. semaphore_array' = [semaphore_array EXCEPT ![s] = new] /\ new \in Descriptor
        BY <3>4, <3>5
      <4> HIDE DEF new
      <4> QED BY <4>1 DEF ListTypes
    <3>7. SchedulerTypes'
      BY <3>4, DropTypes, ScheduleTypes, TickTypes DEF ListTypes, SchedulerTypes
    <3> QED BY <3>4, <3>6, <3>7 DEF ListTypes
  <2> QED BY <2>1, <2>2
<1>3. ASSUME NEW s \in Semid, ReleaseSemaphore(s)
      PROVE  ListTypes'
  <2> DEFINE count == semaphore_array[s].count + 1
             list == semaphore_array[s].waiting_list
             served == IF count > 0 \/ list = <<>> THEN <<>> ELSE <<Head(list)>>
             rest == SubSeq(list, Len(served) + 1, Len(list))
  <2>1. semaphore_array[s] \in Descriptor
    BY DEF ListTypes
  <2>2. list \in Seq(Pid) /\ semaphore_array[s].count \in Int
    BY <2>1 DEF Descriptor
  <2>3. served \in Seq(Pid)
    BY <2>2, EmptySeq
  <2>4. rest \in Seq(Pid)
    <3>1. Len(served) \in {0, 1}
      OBVIOUS
    <3>2. Len(list) \in Nat /\ list \in [1..Len(list) -> Pid]
      BY <2>2, LenProperties
    <3> HIDE DEF served, list
    <3>3. \A k \in (Len(served) + 1)..Len(list) : list[k] \in Pid
      BY <3>1, <3>2
    <3> QED BY <3>1, <3>2, <3>3, SubSeqProperties
  <2>5. count \in Int
    BY <2>2
  <2>6. /\ semaphore_array' = [semaphore_array EXCEPT ![s] =
               [semaphore_array[s] EXCEPT !.count = count, !.waiting_list = rest]]
        /\ UNCHANGED <<waiting, timer_list>>
    BY <1>3 DEF ReleaseSemaphore, Release, ListTypes
  <2>7. \/ EmptyPop /\ UNCHANGED <<ready_queue, scheduler_timer_ticks>>
        \/ Schedule(AddToList(ready_queue, served, present), scheduler_timer_ticks)
    BY <1>3 DEF ReleaseSemaphore, Release
  <2>8. UNCHANGED present
    BY <1>3 DEF ReleaseSemaphore, Release, processVars
  <2> HIDE DEF count, list, served, rest
  <2>9. [semaphore_array[s] EXCEPT !.count = count, !.waiting_list = rest] \in Descriptor
    BY <2>1, <2>4, <2>5 DEF Descriptor
  <2>10. semaphore_array' \in [Semid -> Descriptor]
    <3> DEFINE new == [semaphore_array[s] EXCEPT !.count = count, !.waiting_list = rest]
    <3>1. semaphore_array' = [semaphore_array EXCEPT ![s] = new] /\ new \in Descriptor
      BY <2>6, <2>9
    <3> HIDE DEF new
    <3> QED BY <3>1 DEF ListTypes
  <2>11. SchedulerTypes'
    <3>1. AddToList(ready_queue, served, present) \in Seq(Pid)
      BY <2>3, <2>8, AddProcesses DEF ListTypes, SchedulerTypes
    <3>2. CASE EmptyPop /\ UNCHANGED <<ready_queue, scheduler_timer_ticks>>
      BY <3>2 DEF EmptyPop, ListTypes, SchedulerTypes, Status
    <3>3. CASE Schedule(AddToList(ready_queue, served, present), scheduler_timer_ticks)
      BY <3>1, <3>3, ScheduleTypes, TickTypes DEF ListTypes
    <3> QED BY <2>7, <3>2, <3>3
  <2> QED BY <2>6, <2>10, <2>11 DEF ListTypes
<1> QED BY <1>1, <1>2, <1>3

LEMMA ClockTypes ==
    ASSUME ListTypes, ClockInterrupt, present' \subseteq Pid
    PROVE  ListTypes'
<1> DEFINE list == Countdown(timer_list)
           due == DueCount(list)
           woken == [k \in 1..due |-> list[k].id]
<1>1. list \in Seq([id : Pid, ticks : Ticks])
  BY CountdownType DEF ListTypes
<1>2. due \in 0..Len(list)
  BY <1>1, DueCountType
<1>3. Len(list) \in Nat /\ list \in [1..Len(list) -> [id : Pid, ticks : Ticks]]
  BY <1>1, LenProperties
<1>4. /\ timer_list' = SubSeq(list, due + 1, Len(list))
      /\ Schedule(AddToList(ready_queue, woken, present), scheduler_timer_ticks + 1)
      /\ UNCHANGED <<present, waiting, semaphore_array>>
  BY DEF ClockInterrupt, processVars
<1> HIDE DEF list, due
<1>5. woken \in Seq(Pid)
  <2>1. \A k \in 1..due : list[k].id \in Pid
    <3>1. \A k \in 1..due : list[k] \in [id : Pid, ticks : Ticks]
      BY <1>2, <1>3
    <3> QED BY <3>1
  <2>2. woken \in [1..due -> Pid] /\ due \in Nat
    BY <1>2, <2>1
  <2> HIDE DEF woken
  <2> QED BY <2>2, SeqDef
<1>6. timer_list' \in Seq([id : Pid, ticks : Ticks])
  <2>1. \A k \in (due + 1)..Len(list) : list[k] \in [id : Pid, ticks : Ticks]
    BY <1>2, <1>3
  <2>2. due + 1 \in Int /\ Len(list) \in Int
    BY <1>2, <1>3
  <2> QED BY <1>4, <2>1, <2>2, SubSeqProperties
<1> HIDE DEF woken
<1>7. SchedulerTypes'
  <2>1. AddToList(ready_queue, woken, present) \in Seq(Pid)
    BY <1>4, <1>5, AddProcesses DEF ListTypes, SchedulerTypes
  <2> QED BY <1>4, <2>1, ScheduleTypes, TickTypes DEF ListTypes
<1> QED BY <1>4, <1>6, <1>7 DEF ListTypes

-----------------------------------------------------------------------------
(* The type invariant.                                                     *)

LEMMA InitListTypes == Init => ListTypes
<1> SUFFICES ASSUME Init PROVE ListTypes
  OBVIOUS
<1> DEFINE n == Len(BootLevels)
<1>1. n \in Nat /\ n < MAX_PROCESS_NUMBER /\ MAX_PROCESS_NUMBER \in Nat
  BY BootAssumption, SizeAssumption
<1>2. ready_queue \in Seq(Pid)
  <2>1. ready_queue = [k \in 1..(n + 1) |-> k - 1]
    BY DEF Init
  <2> HIDE DEF n
  <2>2. \A k \in 1..(n + 1) : k - 1 \in Pid
    BY <1>1 DEF Pid
  <2>3. ready_queue \in [1..(n + 1) -> Pid] /\ n + 1 \in Nat
    BY <1>1, <2>1, <2>2
  <2> QED BY <2>3, SeqDef
<1>3. SchedulerTypes
  BY <1>2, SizeAssumption DEF Init, SchedulerTypes, Status
<1>4. waiting \in [Pid -> Seq(Pid)] /\ timer_list \in Seq([id : Pid, ticks : Ticks])
  BY EmptySeq DEF Init
<1>5. semaphore_array \in [Semid -> Descriptor]
  <2>1. 0 \in Pid /\ <<>> \in Seq(Pid)
    BY <1>1, EmptySeq DEF Pid
  <2>2. [is_present |-> FALSE, count |-> 0, creator_id |-> 0, waiting_list |-> <<>>] \in Descriptor
    BY <2>1 DEF Descriptor
  <2> QED BY <2>2 DEF Init
<1> QED BY <1>3, <1>4, <1>5 DEF ListTypes

LEMMA NextListTypes ==
    ProcessInv /\ ListTypes /\ [Next]_vars => ListTypes'
<1> SUFFICES ASSUME ProcessInv, ListTypes, [Next]_vars PROVE ListTypes'
  OBVIOUS
<1>1. present' \subseteq Pid /\ present \subseteq Pid /\ execution_index \in Pid \cup {NoProcess}
  BY NextKeepsInv DEF ProcessInv, ProcessTypes
<1>2. CASE EnterMultitasking
  <2>1. SchedulerTypes'
    BY <1>1, <1>2, DropTypes DEF EnterMultitasking, ListTypes, SchedulerTypes
  <2> QED BY <1>2, <2>1 DEF EnterMultitasking, ListTypes
<1>3. CASE ClockInterrupt
  BY <1>1, <1>3, ClockTypes
<1>4. ASSUME NEW ticks \in SleepTicks, Sleep(ticks) PROVE ListTypes'
  BY <1>1, <1>4, SleepTypes DEF Sleep, Caller
<1>5. CASE Exit
  BY <1>1, <1>5, ExitTypes
<1>6. CASE Fault
  BY <1>1, <1>6, AbortTypes DEF Fault
<1>7. CASE Fork
  BY <1>1, <1>7, ForkTypes
<1>8. ASSUME NEW target \in Pid, Join(target) PROVE ListTypes'
  BY <1>1, <1>8, JoinTypes
<1>9. ASSUME NEW target \in Pid, Signal(target) PROVE ListTypes'
  BY <1>1, <1>9, KillTypes DEF Signal
<1>10. CASE Halted \/ UNCHANGED vars
  BY <1>10 DEF Halted, vars, ListTypes, SchedulerTypes
<1>11. CASE PastAnArray
  BY <1>11, PastAnArrayStep DEF PastTheArray, ListTypes, SchedulerTypes, Status
<1> QED
  BY <1>1, <1>2, <1>3, <1>4, <1>5, <1>6, <1>7, <1>8, <1>9, <1>10, <1>11, SemaphoreTypes
  DEF Next, PastAnArray

LEMMA TypesFollow ==
    ASSUME ProcessInv, ListTypes
    PROVE  TypeOK
<1>1. process_count \in 0..MAX_PROCESS_NUMBER
  <2>1. IsFiniteSet(present) /\ Cardinality(present) <= MAX_PROCESS_NUMBER
    BY PidFinite, FS_Subset DEF ProcessInv, ProcessTypes
  <2>2. Cardinality(present) \in Nat
    BY <2>1, FS_CardinalityType
  <2> QED BY <2>1, <2>2, SizeAssumption DEF ProcessInv, CountMatches
<1> QED BY <1>1 DEF ProcessInv, ProcessTypes, ListTypes, SchedulerTypes, TypeOK,
                    Descriptor, Status, Ticks

\* Every list holds processes and every counter keeps its range.
THEOREM TypeCorrect == Spec => []TypeOK
BY TypesFollow, InitListTypes, NextListTypes, ProcessInvariant, PTL DEF Spec

-----------------------------------------------------------------------------
(* The balance of semaphores whose starting count is not negative.         *)

Balanced(semaphore) ==
    semaphore.is_present =>
        Len(semaphore.waiting_list) =
            IF semaphore.count < 0 THEN -semaphore.count ELSE 0

LEMMA BalanceOfArray == SemaphoreBalance <=> \A s \in Semid : Balanced(semaphore_array[s])
BY DEF SemaphoreBalance, Balanced

\* Replacing one semaphore by a balanced one keeps the balance of the array.
LEMMA ReplaceBalanced ==
    ASSUME ListTypes, SemaphoreBalance, NEW s \in Semid, NEW new, Balanced(new),
           semaphore_array' = [semaphore_array EXCEPT ![s] = new]
    PROVE  SemaphoreBalance'
<1>1. \A t \in Semid : semaphore_array'[t] = IF t = s THEN new ELSE semaphore_array[t]
  BY DEF ListTypes
<1>2. \A t \in Semid : Balanced(semaphore_array'[t])
  BY <1>1, BalanceOfArray
<1> QED BY <1>2 DEF SemaphoreBalance, Balanced

\* A waiter that dies leaves the list and gives back its claim on the count.
LEMMA DestroyBalance ==
    ASSUME ListTypes, SemaphoreBalance, NEW id, Destroy(id)
    PROVE  SemaphoreBalance'
<1> DEFINE left == present \ Family(id)
<1>1. semaphore_array' = [s \in Semid |-> SemaphoreAfter(s, left)]
  BY DEF Destroy
<1> HIDE DEF left
<1>2. ASSUME NEW s \in Semid
      PROVE  Balanced(SemaphoreAfter(s, left))
  <2> DEFINE semaphore == semaphore_array[s]
             list == Survivors(semaphore.waiting_list, left)
  <2>1. semaphore \in Descriptor /\ Balanced(semaphore)
    BY BalanceOfArray DEF ListTypes
  <2>2. CASE Closing(s)
    <3>1. SemaphoreAfter(s, left) = [semaphore EXCEPT !.is_present = FALSE, !.waiting_list = <<>>]
      BY <2>2 DEF SemaphoreAfter
    <3> HIDE DEF semaphore
    <3> QED BY <2>1, <3>1 DEF Balanced, Descriptor
  <2>3. CASE ~Closing(s) /\ semaphore.is_present
    <3> DEFINE before == Len(semaphore.waiting_list)
               after == Len(list)
               new == SemaphoreAfter(s, left)
    <3>1. after \in Nat /\ before \in Nat /\ after <= before
      BY <2>1, WaitersType DEF Descriptor
    <3>2. new = [semaphore EXCEPT !.waiting_list = list, !.count = semaphore.count + (before - after)]
      BY <2>3 DEF SemaphoreAfter
    <3>3. semaphore.count \in Int
      BY <2>1 DEF Descriptor
    <3>4. before = IF semaphore.count < 0 THEN -semaphore.count ELSE 0
      BY <2>1, <2>3 DEF Balanced
    <3>5. new.waiting_list = list /\ new.count = semaphore.count + (before - after)
      <4> HIDE DEF new, before, after, list, semaphore
      <4> QED BY <2>1, <3>2 DEF Descriptor
    <3>6. Len(new.waiting_list) = after
      BY <3>5
    <3> HIDE DEF new, before, after, list, semaphore
    <3>7. after = IF new.count < 0 THEN -new.count ELSE 0
      BY <3>1, <3>3, <3>4, <3>5
    <3>8. Balanced(new)
      BY <3>6, <3>7 DEF Balanced
    <3> QED BY <3>8 DEF new
  <2>4. CASE ~Closing(s) /\ ~semaphore.is_present
    BY <2>1, <2>4 DEF SemaphoreAfter
  <2> QED BY <2>2, <2>3, <2>4
<1>3. \A s \in Semid : Balanced(semaphore_array'[s])
  BY <1>1, <1>2
<1> QED BY <1>3 DEF SemaphoreBalance, Balanced

LEMMA AbortBalance ==
    ASSUME ListTypes, SemaphoreBalance, Abort
    PROVE  SemaphoreBalance'
<1>1. CASE UNCHANGED semaphore_array
  BY <1>1 DEF SemaphoreBalance
<1> QED BY <1>1, DestroyBalance DEF Abort

LEMMA CreateBalance ==
    ASSUME ListTypes, SemaphoreBalance, NEW c \in Nat, CreateSemaphore(c)
    PROVE  SemaphoreBalance'
<1> DEFINE new == [is_present |-> TRUE, count |-> c,
                   creator_id |-> execution_index, waiting_list |-> <<>>]
<1>1. Balanced(new)
  BY DEF Balanced
<1>2. CASE UNCHANGED semaphore_array
  BY <1>2 DEF SemaphoreBalance
<1>3. CASE \E s \in Semid : semaphore_array' = [semaphore_array EXCEPT ![s] = new]
  <2> HIDE DEF new
  <2> QED BY <1>1, <1>3, ReplaceBalanced
<1> QED BY <1>2, <1>3 DEF CreateSemaphore

\* The caller queues up exactly when it makes the count negative, or more so.
LEMMA AcquireBalance ==
    ASSUME ListTypes, SemaphoreBalance, NEW s \in Semid \cup {MAX_SEMAPHORE_NUMBER},
           AcquireSemaphore(s)
    PROVE  SemaphoreBalance'
<1>1. CASE s \notin Semid \/ ~semaphore_array[s].is_present
  BY <1>1, AbortBalance DEF AcquireSemaphore
<1>2. CASE s \in Semid /\ semaphore_array[s].is_present
  <2> DEFINE semaphore == semaphore_array[s]
             count == semaphore.count - 1
             list == semaphore.waiting_list
             blocked == IF count < 0 THEN Append(list, execution_index) ELSE list
             new == [semaphore EXCEPT !.count = count, !.waiting_list = blocked]
  <2>1. semaphore \in Descriptor /\ Balanced(semaphore) /\ execution_index \in Pid
    BY <1>2, BalanceOfArray DEF AcquireSemaphore, Caller, Running, ListTypes
  <2>2. list \in Seq(Pid) /\ semaphore.count \in Int /\ Len(list) \in Nat
    BY <2>1, LenProperties DEF Descriptor
  <2>3. Len(list) = IF semaphore.count < 0 THEN -semaphore.count ELSE 0
    BY <1>2, <2>1 DEF Balanced
  <2>4. Len(blocked) = IF count < 0 THEN Len(list) + 1 ELSE Len(list)
    BY <2>1, <2>2
  <2>5. semaphore_array' = [semaphore_array EXCEPT ![s] = new]
    BY <1>2 DEF AcquireSemaphore, ListTypes
  <2>6. Len(blocked) = IF count < 0 THEN -count ELSE 0
    <3> HIDE DEF blocked, list, semaphore
    <3> QED BY <2>2, <2>3, <2>4
  <2>7. new.count = count /\ new.waiting_list = blocked
    <3> HIDE DEF blocked, list, semaphore, count
    <3> QED BY <2>1 DEF Descriptor
  <2> HIDE DEF new, blocked, list, semaphore, count
  <2>8. Balanced(new)
    BY <2>6, <2>7 DEF Balanced
  <2> QED BY <1>2, <2>5, <2>8, ReplaceBalanced
<1> QED BY <1>1, <1>2

\* A release wakes one waiter exactly when there is one: the wait list is
\* never popped while empty.
LEMMA ReleaseBalance ==
    ASSUME ListTypes, SemaphoreBalance, NEW s \in Semid, ReleaseSemaphore(s)
    PROVE  SemaphoreBalance'
<1> DEFINE semaphore == semaphore_array[s]
           count == semaphore.count + 1
           list == semaphore.waiting_list
           served == IF count > 0 \/ list = <<>> THEN <<>> ELSE <<Head(list)>>
           rest == SubSeq(list, Len(served) + 1, Len(list))
           new == [semaphore EXCEPT !.count = count, !.waiting_list = rest]
<1>1. semaphore \in Descriptor /\ Balanced(semaphore) /\ semaphore.is_present
  BY BalanceOfArray DEF ReleaseSemaphore, Release, ListTypes
<1>2. list \in Seq(Pid) /\ semaphore.count \in Int /\ Len(list) \in Nat
  BY <1>1, LenProperties DEF Descriptor
<1>3. Len(list) = IF semaphore.count < 0 THEN -semaphore.count ELSE 0
  BY <1>1 DEF Balanced
<1>4. list = <<>> <=> Len(list) = 0
  BY <1>2, EmptySeq
<1>5. Len(served) = IF count > 0 THEN 0 ELSE 1
  <2>1. count <= 0 => list # <<>>
    <3> HIDE DEF list, semaphore
    <3> QED BY <1>2, <1>3, <1>4
  <2>2. count > 0 \/ count <= 0
    <3> HIDE DEF list, semaphore
    <3> QED BY <1>2
  <2>3. CASE count > 0
    BY <2>3
  <2>4. CASE ~(count > 0)
    <3>1. served = <<Head(list)>>
      BY <2>1, <2>2, <2>4
    <3> QED BY <2>4, <3>1
  <2> QED BY <2>3, <2>4
<1>6. semaphore_array' = [semaphore_array EXCEPT ![s] = new]
  BY DEF ReleaseSemaphore, Release, ListTypes
<1>7. Len(rest) = IF count < 0 THEN -count ELSE 0
  <2>1. Len(served) + 1 \in 1..(Len(list) + 1)
    <3> HIDE DEF served, list, semaphore
    <3> QED BY <1>2, <1>3, <1>5
  <2>2. Len(rest) = Len(list) - Len(served)
    <3>1. list \in [1..Len(list) -> Pid]
      BY <1>2, LenProperties
    <3> HIDE DEF served, list, semaphore
    <3>2. \A k \in (Len(served) + 1)..Len(list) : list[k] \in Pid
      BY <1>2, <2>1, <3>1
    <3>3. Len(served) \in Int /\ Len(served) + 1 \in Int /\ Len(list) \in Int
      BY <1>2, <1>5
    <3>4. Len(rest) = IF Len(served) + 1 <= Len(list)
                      THEN Len(list) - (Len(served) + 1) + 1 ELSE 0
      BY <3>2, <3>3, SubSeqProperties
    <3> HIDE DEF rest
    <3> QED BY <2>1, <3>3, <3>4
  <2> HIDE DEF rest, served, list, semaphore
  <2> QED BY <1>2, <1>3, <1>5, <2>2
<1>8. new.count = count /\ new.waiting_list = rest
  <2> HIDE DEF rest, count, semaphore
  <2> QED BY <1>1 DEF Descriptor
<1> HIDE DEF new, rest, served, list, count, semaphore
<1>9. Balanced(new)
  BY <1>7, <1>8 DEF Balanced
<1> QED BY <1>6, <1>9, ReplaceBalanced

\* When programs create their semaphores with counts that are not negative, a
\* negative count is at all times the number of processes that wait.
THEOREM SemaphoresStayBalanced ==
    ASSUME StartCounts \subseteq Nat
    PROVE  Spec => []SemaphoreBalance
<1>1. Init => SemaphoreBalance
  BY DEF Init, SemaphoreBalance
<1>2. ListTypes /\ SemaphoreBalance /\ [Next]_vars => SemaphoreBalance'
  <2> SUFFICES ASSUME ListTypes, SemaphoreBalance, [Next]_vars PROVE SemaphoreBalance'
    OBVIOUS
  <2>1. CASE UNCHANGED semaphore_array
    BY <2>1 DEF SemaphoreBalance
  <2>2. CASE Exit \/ \E target \in Pid : Signal(target)
    BY <2>2, DestroyBalance DEF Exit, Signal, Kill
  <2>3. CASE Fault
    BY <2>3, AbortBalance DEF Fault
  <2>4. ASSUME NEW c \in StartCounts, CreateSemaphore(c) PROVE SemaphoreBalance'
    BY <2>4, CreateBalance
  <2>5. ASSUME NEW s \in Semid \cup {MAX_SEMAPHORE_NUMBER}, AcquireSemaphore(s)
        PROVE  SemaphoreBalance'
    BY <2>5, AcquireBalance
  <2>6. ASSUME NEW s \in Semid, ReleaseSemaphore(s) PROVE SemaphoreBalance'
    BY <2>6, ReleaseBalance
  <2>7. \/ EnterMultitasking \/ ClockInterrupt \/ Fork \/ Halted \/ UNCHANGED vars
        \/ \E ticks \in SleepTicks : Sleep(ticks)
        \/ \E target \in Pid : Join(target)
        => UNCHANGED semaphore_array
    BY DEF EnterMultitasking, ClockInterrupt, Fork, Halted, Sleep, Join, JoinProcess, vars
  <2>8. CASE PastAnArray
    BY <2>1, <2>8, PastAnArrayStep DEF PastTheArray
  <2> QED BY <2>1, <2>2, <2>3, <2>4, <2>5, <2>6, <2>7, <2>8 DEF Next, PastAnArray
<1>3. Spec => []ListTypes
  BY InitListTypes, NextListTypes, ProcessInvariant, PTL DEF Spec
<1> QED BY <1>1, <1>2, <1>3, PTL DEF Spec

-----------------------------------------------------------------------------
(* The places of processes.                                                *)

\* The processes that run or will run without an event.
Ready == ({execution_index} \cap Pid) \cup Range(ready_queue)

Asleep == Range(Ids(timer_list))
Joiners == [q \in Pid |-> Range(waiting[q])]
Queued == [s \in Semid |-> Range(semaphore_array[s].waiting_list)]

\* Every process that is alive is in one of the groups, and in one only.  A list
\* of a process that is not alive is no group.
Placed(alive, ready, asleep, joiners, queued) ==
    /\ ready \subseteq alive /\ asleep \subseteq alive
    /\ \A q \in alive : joiners[q] \subseteq alive
    /\ \A s \in Semid : queued[s] \subseteq alive
    /\ \A p \in alive : \/ p \in ready \/ p \in asleep
                        \/ \E q \in alive : p \in joiners[q]
                        \/ \E s \in Semid : p \in queued[s]
    /\ \A p \in ready : p \notin asleep
    /\ \A q \in alive, p \in Pid : p \in joiners[q] =>
         /\ p \notin ready /\ p \notin asleep
         /\ \A r \in alive : p \in joiners[r] => r = q
         /\ \A s \in Semid : p \notin queued[s]
    /\ \A s \in Semid, p \in Pid : p \in queued[s] =>
         /\ p \notin ready /\ p \notin asleep
         /\ \A t \in Semid : p \in queued[t] => t = s

\* The lists of the processes that wait hold none twice.
WaitsOnce ==
    /\ IsInjective(Ids(timer_list))
    /\ \A q \in present : IsInjective(waiting[q])
    /\ \A s \in Semid : IsInjective(semaphore_array[s].waiting_list)

\* A free semaphore descriptor has no waiters.
NoStaleWaiters ==
    \A s \in Semid :
        ~semaphore_array[s].is_present => semaphore_array[s].waiting_list = <<>>

\* Only a father waits for a process, and nobody when programs never join.
OwnJoins ==
    \A q \in present :
        /\ Range(waiting[q]) \subseteq {father_id[q]}
        /\ "join" \notin Calls => waiting[q] = <<>>

\* kernel::init never waits and has no father, so no family holds it.
InitIsReady == 0 \in Ready /\ father_id[0] = NoProcess

PlaceInv ==
    status = "running" =>
        /\ IsInjective(ready_queue) /\ execution_index \notin Range(ready_queue)
        /\ WaitsOnce
        /\ NoStaleWaiters
        /\ OwnJoins
        /\ InitIsReady
        /\ Placed(present, Ready, Asleep, Joiners, Queued)

\* What the programs must do for the code to keep its lists: join only their
\* own children, and no process that may be aborted, since neither the death of
\* a joiner nor abort() of its target takes the joiner out of the list.
JoinsAreSafe ==
    "join" \in Calls =>
        JoinOwnChildren /\ Calls \cap {"fault", "acquire_semaphore"} = {}

-----------------------------------------------------------------------------
(* The groups: what the handlers do to them.                               *)

\* A ready process goes to sleep.
LEMMA MoveToSleep ==
    ASSUME NEW alive, NEW ready, NEW asleep, NEW joiners, NEW queued,
           Placed(alive, ready, asleep, joiners, queued), NEW p \in ready
    PROVE  Placed(alive, ready \ {p}, asleep \cup {p}, joiners, queued)
BY DEF Placed

\* Sleeping processes become ready.
LEMMA MoveAwake ==
    ASSUME NEW alive, NEW ready, NEW asleep, NEW joiners, NEW queued,
           Placed(alive, ready, asleep, joiners, queued),
           NEW woken, NEW left, woken \cap left = {}, woken \cup left = asleep
    PROVE  Placed(alive, ready \cup woken, left, joiners, queued)
<1>1. woken \subseteq asleep /\ left \subseteq asleep /\ \A p \in asleep : p \in woken \/ p \in left
  OBVIOUS
<1>2. \A p \in woken : p \notin left
  OBVIOUS
<1> QED BY <1>1, <1>2 DEF Placed

\* A new process is ready.
LEMMA AddReady ==
    ASSUME NEW alive, NEW ready, NEW asleep, NEW joiners, NEW queued,
           Placed(alive, ready, asleep, joiners, queued),
           NEW slot, slot \notin alive, NEW after,
           after[slot] = {}, \A q \in alive : after[q] = joiners[q]
    PROVE  Placed(alive \cup {slot}, ready \cup {slot}, asleep, after, queued)
BY DEF Placed

\* A ready process joins another one.
LEMMA MoveToJoin ==
    ASSUME NEW alive, NEW ready, NEW asleep, NEW joiners, NEW queued,
           Placed(alive, ready, asleep, joiners, queued), alive \subseteq Pid,
           NEW p \in ready, NEW target \in alive, NEW after,
           after[target] = joiners[target] \cup {p},
           \A q \in alive : q # target => after[q] = joiners[q]
    PROVE  Placed(alive, ready \ {p}, asleep, after, queued)
<1>1. p \in Pid /\ p \in alive /\ p \notin asleep
  BY DEF Placed
<1>2. /\ \A q \in alive : p \notin joiners[q]
      /\ \A s \in Semid : p \notin queued[s]
  BY <1>1 DEF Placed
<1>3. \A q \in alive, r \in Pid : r \in after[q] <=> (r \in joiners[q] \/ (q = target /\ r = p))
  BY <1>2
<1>4. \A q \in alive : after[q] \subseteq alive
  BY <1>1 DEF Placed
<1>5. \A r \in alive : \/ r \in ready \ {p} \/ r \in asleep
                       \/ \E q \in alive : r \in after[q]
                       \/ \E s \in Semid : r \in queued[s]
  BY <1>1, <1>3 DEF Placed
<1>6. \A q \in alive, r \in Pid : r \in after[q] =>
         /\ r \notin ready \ {p} /\ r \notin asleep
         /\ \A o \in alive : r \in after[o] => o = q
         /\ \A s \in Semid : r \notin queued[s]
  BY <1>1, <1>2, <1>3 DEF Placed
<1>7. \A s \in Semid, r \in Pid : r \in queued[s] =>
         /\ r \notin ready \ {p} /\ r \notin asleep
         /\ \A t \in Semid : r \in queued[t] => t = s
  BY DEF Placed
<1> QED BY <1>4, <1>5, <1>6, <1>7 DEF Placed

\* A ready process queues up at a semaphore.
LEMMA MoveToQueue ==
    ASSUME NEW alive, NEW ready, NEW asleep, NEW joiners, NEW queued,
           Placed(alive, ready, asleep, joiners, queued), alive \subseteq Pid,
           NEW p \in ready, NEW s \in Semid, NEW after,
           after[s] = queued[s] \cup {p},
           \A t \in Semid : t # s => after[t] = queued[t]
    PROVE  Placed(alive, ready \ {p}, asleep, joiners, after)
<1>1. p \in Pid /\ p \in alive /\ p \notin asleep
  BY DEF Placed
<1>2. /\ \A q \in alive : p \notin joiners[q]
      /\ \A t \in Semid : p \notin queued[t]
  BY <1>1 DEF Placed
<1>3. \A t \in Semid, r \in Pid : r \in after[t] <=> (r \in queued[t] \/ (t = s /\ r = p))
  BY <1>2
<1>4. \A t \in Semid : after[t] \subseteq alive
  BY <1>1 DEF Placed
<1>5. \A r \in alive : \/ r \in ready \ {p} \/ r \in asleep
                       \/ \E q \in alive : r \in joiners[q]
                       \/ \E t \in Semid : r \in after[t]
  BY <1>1, <1>3 DEF Placed
<1>6. \A q \in alive, r \in Pid : r \in joiners[q] =>
         /\ r \notin ready \ {p} /\ r \notin asleep
         /\ \A o \in alive : r \in joiners[o] => o = q
         /\ \A t \in Semid : r \notin after[t]
  BY <1>1, <1>2, <1>3 DEF Placed
<1>7. \A t \in Semid, r \in Pid : r \in after[t] =>
         /\ r \notin ready \ {p} /\ r \notin asleep
         /\ \A u \in Semid : r \in after[u] => u = t
  BY <1>1, <1>2, <1>3 DEF Placed
<1> QED BY <1>4, <1>5, <1>6, <1>7 DEF Placed

\* Processes queued at a semaphore become ready.
LEMMA MoveServed ==
    ASSUME NEW alive, NEW ready, NEW asleep, NEW joiners, NEW queued,
           Placed(alive, ready, asleep, joiners, queued), alive \subseteq Pid,
           NEW s \in Semid, NEW served, NEW after,
           served \cap after[s] = {}, served \cup after[s] = queued[s],
           \A t \in Semid : t # s => after[t] = queued[t]
    PROVE  Placed(alive, ready \cup served, asleep, joiners, after)
<1>1. /\ served \subseteq queued[s] /\ after[s] \subseteq queued[s]
      /\ \A p \in queued[s] : p \in served \/ p \in after[s]
      /\ \A p \in served : p \notin after[s]
  OBVIOUS
<1>2. /\ \A t \in Semid : after[t] \subseteq queued[t] /\ after[t] \subseteq alive
      /\ served \subseteq alive
  BY <1>1 DEF Placed
<1>3. \A r \in alive : \/ r \in ready \cup served \/ r \in asleep
                       \/ \E q \in alive : r \in joiners[q]
                       \/ \E t \in Semid : r \in after[t]
  BY <1>1 DEF Placed
<1>4. \A r \in served : r \in Pid /\ r \in queued[s]
  BY <1>1, <1>2
<1>5. \A q \in alive, r \in Pid : r \in joiners[q] =>
         /\ r \notin ready \cup served /\ r \notin asleep
         /\ \A o \in alive : r \in joiners[o] => o = q
         /\ \A t \in Semid : r \notin after[t]
  BY <1>2, <1>4 DEF Placed
<1>6. \A t \in Semid, r \in Pid : r \in after[t] =>
         /\ r \notin ready \cup served /\ r \notin asleep
         /\ \A u \in Semid : r \in after[u] => u = t
  BY <1>1, <1>2, <1>4 DEF Placed
<1>7. \A p \in ready \cup served : p \notin asleep
  BY <1>4 DEF Placed
<1> QED BY <1>2, <1>3, <1>5, <1>6, <1>7 DEF Placed

\* When id and others die, those that are left wait for none of the others, and
\* woken are the waiters of the closing semaphores.
Deaths(alive, joiners, queued, left, id, closing, woken, joined, after) ==
    /\ alive \subseteq Pid /\ left \subseteq alive /\ id \in alive \ left
    /\ closing \subseteq Semid
    /\ \A q \in left : joiners[q] \subseteq left
    /\ \A q \in alive \ left : q # id => joiners[q] \cap left = {}
    /\ \A p \in Pid : p \in woken <=> \E s \in closing : p \in queued[s]
    /\ \A q \in left : joined[q] = joiners[q]
    /\ \A s \in Semid : after[s] = IF s \in closing THEN {} ELSE queued[s] \cap left

\* The survivors among those that waited for id, and among the waiters of the
\* closing semaphores, become ready.
LEMMA RemoveDead ==
    ASSUME NEW alive, NEW ready, NEW asleep, NEW joiners, NEW queued,
           Placed(alive, ready, asleep, joiners, queued),
           NEW left, NEW id, NEW closing, NEW woken, NEW joined, NEW after,
           Deaths(alive, joiners, queued, left, id, closing, woken, joined, after)
    PROVE  Placed(left, (ready \cup joiners[id] \cup woken) \cap left, asleep \cap left, joined, after)
<1> DEFINE now == (ready \cup joiners[id] \cup woken) \cap left
<1>0. /\ alive \subseteq Pid /\ left \in SUBSET alive /\ id \in alive \ left
      /\ closing \in SUBSET Semid
      /\ \A q \in left : joiners[q] \subseteq left
      /\ \A q \in alive \ left : q # id => joiners[q] \cap left = {}
      /\ \A p \in Pid : p \in woken <=> \E s \in closing : p \in queued[s]
      /\ \A q \in left : joined[q] = joiners[q]
      /\ \A s \in Semid : after[s] = IF s \in closing THEN {} ELSE queued[s] \cap left
  BY DEF Deaths
<1> USE <1>0
<1>1. \A p \in left : p \in Pid /\ p \in alive
  OBVIOUS
<1>2. \A s \in Semid, p \in Pid : p \in after[s] <=> s \notin closing /\ p \in queued[s] /\ p \in left
  OBVIOUS
<1>3. \A s \in Semid : after[s] \subseteq left
  OBVIOUS
<1>4. \A q \in left : joined[q] \subseteq left
  OBVIOUS
<1>5. \A p \in left : \/ p \in now \/ p \in asleep \cap left
                      \/ \E q \in left : p \in joined[q]
                      \/ \E s \in Semid : p \in after[s]
  <2> SUFFICES ASSUME NEW p \in left
               PROVE  \/ p \in now \/ p \in asleep \cap left
                      \/ \E q \in left : p \in joined[q]
                      \/ \E s \in Semid : p \in after[s]
    OBVIOUS
  <2>1. CASE p \in ready \/ p \in asleep
    BY <2>1
  <2>2. CASE \E q \in alive : p \in joiners[q]
    <3>1. PICK q \in alive : p \in joiners[q]
      BY <2>2
    <3>2. q = id \/ q \in left
      BY <3>1
    <3> QED BY <3>1, <3>2
  <2>3. CASE \E s \in Semid : p \in queued[s]
    BY <1>1, <1>2, <2>3
  <2> QED BY <1>1, <2>1, <2>2, <2>3 DEF Placed
<1>6. \A p \in now : p \notin asleep \cap left
  <2>1. \A p \in Pid : (p \in ready \/ p \in joiners[id] \/ \E s \in Semid : p \in queued[s]) => p \notin asleep
    BY DEF Placed
  <2> QED BY <1>1, <2>1
<1>7. \A q \in left, p \in Pid : p \in joined[q] =>
         /\ p \notin now /\ p \notin asleep \cap left
         /\ \A r \in left : p \in joined[r] => r = q
         /\ \A s \in Semid : p \notin after[s]
  <2> SUFFICES ASSUME NEW q \in left, NEW p \in Pid, p \in joiners[q]
               PROVE  /\ p \notin now /\ p \notin asleep
                      /\ \A r \in left : p \in joined[r] => r = q
                      /\ \A s \in Semid : p \notin after[s]
    OBVIOUS
  <2>1. /\ p \notin ready /\ p \notin asleep
        /\ \A r \in alive : p \in joiners[r] => r = q
        /\ \A s \in Semid : p \notin queued[s]
    BY <1>1 DEF Placed
  <2>2. p \notin joiners[id] /\ p \notin woken
    BY <2>1
  <2> QED BY <1>1, <1>2, <2>1, <2>2
<1>8. \A s \in Semid, p \in Pid : p \in after[s] =>
         /\ p \notin now /\ p \notin asleep \cap left
         /\ \A t \in Semid : p \in after[t] => t = s
  <2> SUFFICES ASSUME NEW s \in Semid, NEW p \in Pid, p \in queued[s], s \notin closing
               PROVE  /\ p \notin now /\ p \notin asleep
                      /\ \A t \in Semid : p \in after[t] => t = s
    BY <1>2
  <2>1. /\ p \notin ready /\ p \notin asleep
        /\ \A t \in Semid : p \in queued[t] => t = s
    BY DEF Placed
  <2>2. p \notin joiners[id]
    BY DEF Placed
  <2>3. p \notin woken
    BY <2>1
  <2> QED BY <1>2, <2>1, <2>2, <2>3
<1> HIDE DEF now
<1>9. now \subseteq left
  BY DEF now
<1>10. Placed(left, now, asleep \cap left, joined, after)
  BY <1>3, <1>4, <1>5, <1>6, <1>7, <1>8, <1>9 DEF Placed
<1> QED BY <1>10 DEF now

-----------------------------------------------------------------------------
(* The scheduler: it picks the running process among those it finds.       *)

\* The step leaves members as the ready processes, one of them running.
Dispatches(members) ==
    /\ UNCHANGED status
    /\ execution_index' \in Pid
    /\ ready_queue' \in Seq(Pid)
    /\ IsInjective(ready_queue')
    /\ execution_index' \notin Range(ready_queue')
    /\ {execution_index'} \cup Range(ready_queue') = members

LEMMA PopDispatches ==
    ASSUME NEW queue \in Seq(Pid), IsInjective(queue),
           Range(queue) \subseteq present', Range(queue) # {},
           NEW back \in Seq(Pid), IsInjective(back), Range(queue) \cap Range(back) = {},
           PopPresent(queue, back)
    PROVE  Dispatches(Range(queue) \cup (Range(back) \cap present'))
<1> DEFINE n == Len(queue)
           rest == SubSeq(queue, 2, n)
<1>1. n \in Nat /\ DOMAIN queue = 1..n /\ \A i \in 1..n : queue[i] \in Pid
  BY LenProperties, ElementOfSeq
<1>2. \A i \in 1..n : queue[i] \in present'
  BY <1>1 DEF Range
<1>3. 1 \in 1..n
  <2>1. PICK i \in 1..n : TRUE
    BY <1>1 DEF Range
  <2> QED BY <1>1, <2>1
<1>4. /\ execution_index' = queue[1]
      /\ ready_queue' = AddToList(rest, back, present')
      /\ UNCHANGED status
  <2>1. ~(\A i \in DOMAIN queue : queue[i] \notin present')
    BY <1>1, <1>2, <1>3
  <2>2. PICK i \in DOMAIN queue :
           /\ \A j \in 1..(i - 1) : queue[j] \notin present'
           /\ execution_index' = queue[i]
           /\ ready_queue' = AddToList(SubSeq(queue, i + 1, Len(queue)), back, present')
           /\ UNCHANGED status
    BY <2>1 DEF PopPresent
  <2>3. i = 1
    <3>1. i \in 1..n /\ (i # 1 => 1 \in 1..(i - 1))
      BY <1>1
    <3> QED BY <1>2, <1>3, <2>2, <3>1
  <2>4. i + 1 = 2
    BY <2>3
  <2> QED BY <2>2, <2>3, <2>4
<1>5. /\ rest \in Seq(Pid) /\ Range(rest) = {queue[i] : i \in 2..n}
      /\ IsInjective(rest)
  <2>1. 1 \in 0..Len(queue) /\ 1 + 1 = 2
    BY <1>1, <1>3
  <2>2. /\ SubSeq(queue, 1 + 1, Len(queue)) \in Seq(Pid)
        /\ Range(SubSeq(queue, 1 + 1, Len(queue))) = {queue[i] : i \in (1 + 1)..Len(queue)}
        /\ IsInjective(SubSeq(queue, 1 + 1, Len(queue)))
    BY <2>1, SuffixMembers
  <2> QED BY <2>1, <2>2
<1>6. Range(queue) = {queue[1]} \cup Range(rest) /\ queue[1] \notin Range(rest)
  <2>1. Range(queue) = {queue[i] : i \in 1..n}
    BY <1>1 DEF Range
  <2>2. 1..n = {1} \cup 2..n /\ 1 \notin 2..n
    BY <1>1, <1>3
  <2>3. \A i \in 2..n : queue[i] # queue[1]
    BY <1>1, <1>3, <2>2 DEF IsInjective
  <2> HIDE DEF n, rest
  <2> QED BY <1>5, <2>1, <2>2, <2>3
<1> HIDE DEF rest, n
<1>7. Range(rest) \cap Range(back) = {}
  BY <1>6
<1>8. /\ ready_queue' \in Seq(Pid)
      /\ Range(ready_queue') = Range(rest) \cup (Range(back) \cap present')
      /\ IsInjective(ready_queue')
  BY <1>4, <1>5, <1>7, AddToListMembers
<1>9. queue[1] \in Pid /\ queue[1] \in Range(queue) /\ queue[1] \notin Range(ready_queue')
  BY <1>1, <1>3, <1>6, <1>8
<1> QED BY <1>4, <1>6, <1>8, <1>9 DEF Dispatches

LEMMA DropDispatches ==
    ASSUME NEW queue \in Seq(Pid), IsInjective(queue),
           Range(queue) \subseteq present', Range(queue) # {},
           Drop(queue)
    PROVE  Dispatches(Range(queue))
<1>1. <<>> \in Seq(Pid) /\ IsInjective(<<>>) /\ Range(<<>>) = {}
  BY EmptySeq, EmptyMembers
<1>2. Dispatches(Range(queue) \cup (Range(<<>>) \cap present'))
  BY <1>1, PopDispatches DEF Drop
<1>3. Range(queue) \cup (Range(<<>>) \cap present') = Range(queue)
  BY <1>1
<1> QED BY <1>2, <1>3

LEMMA ScheduleDispatches ==
    ASSUME NEW queue \in Seq(Pid), IsInjective(queue), Range(queue) \subseteq present',
           execution_index \in Pid, execution_index \notin Range(queue),
           NEW ticks, Schedule(queue, ticks),
           Range(queue) # {} \/ execution_index \in present'
    PROVE  Dispatches(Range(queue) \cup ({execution_index} \cap present'))
<1>1. CASE ticks < timesharing_interval /\ execution_index \in present'
  BY <1>1 DEF Schedule, Dispatches
<1>2. CASE ~(ticks < timesharing_interval /\ execution_index \in present') /\ queue # <<>>
  <2>1. PopPresent(queue, <<execution_index>>)
    BY <1>2 DEF Schedule
  <2>2. Range(queue) # {}
    <3>1. Len(queue) \in Nat \ {0} /\ DOMAIN queue = 1..Len(queue)
      BY <1>2, EmptySeq, LenProperties
    <3>2. queue[1] \in Range(queue)
      BY <3>1 DEF Range
    <3> QED BY <3>2
  <2>3. /\ <<execution_index>> \in Seq(Pid) /\ IsInjective(<<execution_index>>)
        /\ Range(<<execution_index>>) = {execution_index}
    BY SingleMember
  <2> QED BY <2>1, <2>2, <2>3, PopDispatches
<1>3. CASE ~(ticks < timesharing_interval /\ execution_index \in present') /\ queue = <<>>
  <2>1. Range(queue) = {}
    BY <1>3, EmptyMembers
  <2>2. /\ ready_queue' = queue /\ UNCHANGED execution_index
        /\ status' = IF execution_index \in present' THEN status ELSE "undefined"
    BY <1>3 DEF Schedule
  <2> QED BY <2>1, <2>2 DEF Dispatches
<1> QED BY <1>1, <1>2, <1>3

-----------------------------------------------------------------------------
(* What the invariant says of a step.                                      *)

\* A step that leaves the groups placed and dispatches the ready ones keeps the
\* invariant.
LEMMA PlaceInvFollows ==
    ASSUME NEW ready, Dispatches(ready), 0 \in ready, father_id'[0] = NoProcess,
           WaitsOnce', NoStaleWaiters', OwnJoins',
           Placed(present', ready, Asleep', Joiners', Queued')
    PROVE  PlaceInv'
<1>1. Ready' = ready
  BY DEF Ready, Dispatches
<1>2. (Placed(present, Ready, Asleep, Joiners, Queued))'
  BY <1>1 DEF Placed
<1>3. /\ InitIsReady'
      /\ IsInjective(ready_queue') /\ execution_index' \notin Range(ready_queue')
  BY <1>1 DEF InitIsReady, Dispatches
<1> QED BY <1>2, <1>3 DEF PlaceInv

\* What holds while a process runs.
LEMMA RunningPlaces ==
    ASSUME ProcessInv, ListTypes, PlaceInv, Running
    PROVE  /\ execution_index \in present /\ execution_index \in Pid
           /\ present \subseteq Pid
           /\ ready_queue \in Seq(Pid) /\ IsInjective(ready_queue)
           /\ execution_index \notin Range(ready_queue)
           /\ Ready = {execution_index} \cup Range(ready_queue)
           /\ Range(ready_queue) = Ready \ {execution_index}
           /\ Range(ready_queue) \subseteq present
           /\ 0 \in Ready /\ father_id[0] = NoProcess
           /\ WaitsOnce /\ NoStaleWaiters /\ OwnJoins
           /\ Placed(present, Ready, Asleep, Joiners, Queued)
<1>1. /\ execution_index \in present /\ execution_index \in Pid
      /\ present \subseteq Pid /\ ready_queue \in Seq(Pid)
  BY CallerIsPresent DEF ListTypes, SchedulerTypes, ProcessInv, ProcessTypes
<1>2. /\ IsInjective(ready_queue) /\ execution_index \notin Range(ready_queue)
      /\ 0 \in Ready /\ father_id[0] = NoProcess
      /\ WaitsOnce /\ NoStaleWaiters /\ OwnJoins
      /\ Placed(present, Ready, Asleep, Joiners, Queued)
  BY DEF PlaceInv, Running, InitIsReady
<1>3. Ready = {execution_index} \cup Range(ready_queue)
  BY <1>1 DEF Ready
<1>4. Ready \subseteq present
  BY <1>2 DEF Placed
<1> HIDE DEF Ready
<1> QED BY <1>1, <1>2, <1>3, <1>4

\* A process that runs and is not kernel::init leaves kernel::init behind it.
LEMMA SomeoneIsReady ==
    ASSUME ProcessInv, ListTypes, PlaceInv, Running, execution_index # 0
    PROVE  0 \in Range(ready_queue) /\ Range(ready_queue) # {}
<1>1. 0 \in Ready /\ Ready = {execution_index} \cup Range(ready_queue)
  BY RunningPlaces
<1>2. 0 \in Range(ready_queue)
  BY <1>1
<1> QED BY <1>2

-----------------------------------------------------------------------------
(* Destruction.                                                            *)

\* All but the first of a family died with their fathers.
LEMMA FathersDieToo ==
    ASSUME ProcessTypes, NEW id \in present, NEW q \in Family(id), q # id
    PROVE  father_id[q] \in Family(id)
<1> SUFFICES ASSUME father_id[q] \notin Family(id) PROVE FALSE
  OBVIOUS
<1> DEFINE others == Family(id) \ {q}
<1>1. id \in others /\ others \in SUBSET Pid /\ others \subseteq Family(id)
  BY FamilyHasRoot DEF ProcessTypes
<1>2. ClosedUnderChildren(others)
  <2> SUFFICES ASSUME NEW p \in present, father_id[p] \in others
               PROVE  p \in others
    BY DEF ClosedUnderChildren
  <2>1. p \in Family(id) /\ p # q
    BY FamilyClosed
  <2> QED BY <2>1
<1>3. q \in others
  <2> HIDE DEF others
  <2> QED BY <1>1, <1>2 DEF Family
<1> QED BY <1>3

LEMMA InitSurvives ==
    ASSUME ProcessTypes, NEW id \in present \ {0}, father_id[0] = NoProcess
    PROVE  0 \notin Family(id)
<1>1. Family(id) \subseteq Pid
  BY FamilyHasRoot DEF ProcessTypes
<1>2. NoProcess \notin Pid
  BY SizeAssumption DEF Pid, NoProcess
<1> QED BY <1>1, <1>2, FathersDieToo

\* The waiters of the semaphores that close, each of them once.
LEMMA WokenMembers ==
    ASSUME ListTypes, present \subseteq Pid, NEW ready, NEW asleep, NEW joiners,
           Placed(present, ready, asleep, joiners, Queued), WaitsOnce
    PROVE  /\ WokenByClosing \in Seq(Pid) /\ IsInjective(WokenByClosing)
           /\ \A p \in Pid : p \in Range(WokenByClosing) <=>
                \E s \in Semid : Closing(s) /\ p \in Queued[s]
<1> DEFINE n == MAX_SEMAPHORE_NUMBER
           List(s) == semaphore_array[s].waiting_list
           lists == [k \in 1..n |-> IF Closing(k - 1) THEN List(k - 1) ELSE <<>>]
<1>1. /\ n \in Nat \ {0} /\ \A k \in 1..n : k - 1 \in Semid
      /\ \A s \in Semid : s + 1 \in 1..n /\ (s + 1) - 1 = s
  BY SizeAssumption DEF Semid
<1>2. \A s \in Semid : List(s) \in Seq(Pid) /\ IsInjective(List(s)) /\ Queued[s] = Range(List(s))
  BY DEF ListTypes, Descriptor, WaitsOnce, Queued
<1>3. <<>> \in Seq(Pid) /\ IsInjective(<<>>) /\ Range(<<>>) = {}
  BY EmptySeq, EmptyMembers
<1>4. WokenByClosing = FlattenSeq(lists)
  BY DEF WokenByClosing
<1> HIDE DEF List, n
<1>5. \A k \in 1..n :
        /\ lists[k] \in Seq(Pid) /\ IsInjective(lists[k])
        /\ Range(lists[k]) = IF Closing(k - 1) THEN Queued[k - 1] ELSE {}
  BY <1>1, <1>2, <1>3
<1>6. lists \in [1..n -> Seq(Pid)]
  BY <1>5
<1>7. \A k, l \in 1..n : k # l => Range(lists[k]) \cap Range(lists[l]) = {}
  <2> SUFFICES ASSUME NEW k \in 1..n, NEW l \in 1..n, k # l,
                      NEW p, p \in Range(lists[k]), p \in Range(lists[l])
               PROVE  FALSE
    BY Zenon
  <2>1. k - 1 \in Semid /\ l - 1 \in Semid /\ k - 1 # l - 1
    BY <1>1
  <2>2. p \in Queued[k - 1] /\ p \in Queued[l - 1]
    BY <1>5
  <2>3. p \in Pid
    BY <2>1, <2>2 DEF Placed
  <2> QED BY <2>1, <2>2, <2>3 DEF Placed
<1> HIDE DEF lists
<1>8. /\ FlattenSeq(lists) \in Seq(Pid) /\ IsInjective(FlattenSeq(lists))
      /\ Range(FlattenSeq(lists)) = UNION {Range(lists[k]) : k \in 1..n}
  <2>1. n \in Nat \ {0} /\ \A k \in 1..n : IsInjective(lists[k])
    BY <1>1, <1>5
  <2> QED BY <1>6, <1>7, <2>1, FlattenSeqMembers
<1>9. ASSUME NEW p \in Pid
      PROVE  p \in Range(WokenByClosing) <=> \E s \in Semid : Closing(s) /\ p \in Queued[s]
  <2>1. p \in Range(WokenByClosing) <=> \E k \in 1..n : p \in Range(lists[k])
    BY <1>4, <1>8
  <2>2. (\E k \in 1..n : p \in Range(lists[k])) => \E s \in Semid : Closing(s) /\ p \in Queued[s]
    <3> SUFFICES ASSUME NEW k \in 1..n, p \in Range(lists[k])
                 PROVE  Closing(k - 1) /\ p \in Queued[k - 1]
      BY <1>1
    <3> QED BY <1>1, <1>5
  <2>3. (\E s \in Semid : Closing(s) /\ p \in Queued[s]) => \E k \in 1..n : p \in Range(lists[k])
    <3> SUFFICES ASSUME NEW s \in Semid, Closing(s), p \in Queued[s]
                 PROVE  p \in Range(lists[s + 1])
      BY <1>1
    <3> QED BY <1>1, <1>5
  <2> QED BY <2>1, <2>2, <2>3
<1> QED BY <1>4, <1>8, <1>9

LEMMA SemaphoreAfterMembers ==
    ASSUME ListTypes, NoStaleWaiters, NEW s \in Semid, NEW left,
           IsInjective(semaphore_array[s].waiting_list)
    PROVE  /\ IsInjective(SemaphoreAfter(s, left).waiting_list)
           /\ Range(SemaphoreAfter(s, left).waiting_list) =
                IF Closing(s) THEN {} ELSE Queued[s] \cap left
           /\ ~SemaphoreAfter(s, left).is_present => SemaphoreAfter(s, left).waiting_list = <<>>
<1> DEFINE semaphore == semaphore_array[s]
           list == Survivors(semaphore.waiting_list, left)
           count == semaphore.count + (Len(semaphore.waiting_list) - Len(list))
           new == SemaphoreAfter(s, left)
<1>1. semaphore \in Descriptor /\ semaphore.waiting_list \in Seq(Pid) /\ Queued[s] = Range(semaphore.waiting_list)
  BY DEF ListTypes, Descriptor, Queued
<1>2. IsInjective(list) /\ Range(list) = Queued[s] \cap left
  BY <1>1, SurvivorsMembers
<1>3. IsInjective(<<>>) /\ Range(<<>>) = {}
  BY EmptyMembers
<1>4. CASE Closing(s)
  <2>1. new = [semaphore EXCEPT !.is_present = FALSE, !.waiting_list = <<>>]
    BY <1>4 DEF SemaphoreAfter
  <2>2. new.waiting_list = <<>>
    <3> HIDE DEF semaphore, new
    <3> QED BY <1>1, <2>1 DEF Descriptor
  <2> QED BY <1>3, <1>4, <2>2
<1>5. CASE ~Closing(s) /\ semaphore.is_present
  <2>1. new = [semaphore EXCEPT !.waiting_list = list, !.count = count]
    BY <1>5 DEF SemaphoreAfter
  <2> HIDE DEF count, list, semaphore, new
  <2>2. new.waiting_list = list /\ new.is_present = semaphore.is_present
    BY <1>1, <2>1 DEF Descriptor
  <2> QED BY <1>2, <1>5, <2>2 DEF new
<1>6. CASE ~Closing(s) /\ ~semaphore.is_present
  <2>1. new = semaphore
    BY <1>6 DEF SemaphoreAfter
  <2>2. semaphore.waiting_list = <<>>
    BY <1>6 DEF NoStaleWaiters
  <2>3. Queued[s] \cap left = {}
    BY <1>1, <1>3, <2>2
  <2> QED BY <1>3, <1>6, <2>1, <2>2, <2>3
<1> QED BY <1>4, <1>5, <1>6

\* What destroy_process(id) leaves when the processes that joined id have been
\* put in the queue: every survivor is in its place, those that waited for a
\* process that died are in the queue.
DestroyedWell(queue) ==
    /\ queue \in Seq(Pid) /\ IsInjective(queue)
    /\ Range(queue) \subseteq present' /\ execution_index \notin Range(queue)
    /\ 0 \in Range(queue) \cup ({execution_index} \cap present')
    /\ father_id'[0] = NoProcess
    /\ WaitsOnce' /\ NoStaleWaiters' /\ OwnJoins'
    /\ Placed(present', Range(queue) \cup ({execution_index} \cap present'),
              Asleep', Joiners', Queued')
    /\ \A target \in present : target \notin present' =>
         Range(waiting[target]) \cap present' \subseteq Range(queue)

LEMMA DestroyPlaces ==
    ASSUME ProcessInv, ListTypes, PlaceInv, Running, NEW id \in present \ {0}, Destroy(id),
           NEW queue \in Seq(Pid), IsInjective(queue),
           Range(queue) = Range(ready_queue) \cup Range(waiting[id]),
           waiting' \in [Pid -> Seq(Pid)],
           \A q \in present' : waiting'[q] = waiting[q]
    PROVE  DestroyedWell(ReadyAfterDestroy(queue))
<1> DEFINE left == present \ Family(id)
           closing == {s \in Semid : Closing(s)}
           woken == Range(WokenByClosing)
           new == ReadyAfterDestroy(queue)
           ready == Range(new) \cup ({execution_index} \cap present')
<1>1. /\ execution_index \in present /\ execution_index \in Pid
      /\ present \subseteq Pid
      /\ execution_index \notin Range(ready_queue)
      /\ Ready = {execution_index} \cup Range(ready_queue)
      /\ 0 \in Ready /\ father_id[0] = NoProcess
      /\ WaitsOnce /\ NoStaleWaiters /\ OwnJoins
      /\ Placed(present, Ready, Asleep, Joiners, Queued)
  BY RunningPlaces
<1>2. /\ present' = left /\ UNCHANGED father_id
      /\ semaphore_array' = [s \in Semid |-> SemaphoreAfter(s, left)]
      /\ timer_list' = CleanTimers(timer_list, left)
  BY DEF Destroy
<1>3. /\ id \in present /\ id \notin left /\ left \subseteq present
      /\ \A q \in present : q \in left <=> q \notin Family(id)
  BY FamilyHasRoot
<1>4. 0 \in present /\ 0 \in left
  <2>1. 0 \in present
    BY <1>1 DEF Placed
  <2> QED BY <1>1, <2>1, InitSurvives DEF ProcessInv
<1>5. \A q \in Pid : Joiners[q] = Range(waiting[q])
  BY DEF Joiners
<1>6. \A q \in left : Joiners[q] \subseteq left
  <2> SUFFICES ASSUME NEW q \in left, NEW p \in Joiners[q] PROVE p \in left
    OBVIOUS
  <2>0. q \in present /\ q \in Pid
    BY <1>1, <1>3
  <2>1. p \in present /\ p = father_id[q]
    <3>1. p \in present
      BY <1>1, <2>0 DEF Placed
    <3>2. Range(waiting[q]) \subseteq {father_id[q]}
      BY <1>1, <2>0 DEF OwnJoins
    <3> QED BY <1>5, <2>0, <3>1, <3>2
  <2>2. p \notin Family(id)
    BY <1>3, <2>0, <2>1, FamilyClosed DEF ProcessInv
  <2> QED BY <1>3, <2>1, <2>2
<1>7. \A q \in present \ left : q # id => Joiners[q] \cap left = {}
  <2> SUFFICES ASSUME NEW q \in present \ left, q # id, NEW p \in Joiners[q] PROVE p \notin left
    OBVIOUS
  <2>1. q \in Family(id) /\ q \in Pid /\ p = father_id[q]
    BY <1>1, <1>3, <1>5 DEF OwnJoins
  <2> QED BY <2>1, FathersDieToo DEF ProcessInv
<1>8. /\ WokenByClosing \in Seq(Pid) /\ IsInjective(WokenByClosing)
      /\ \A p \in Pid : p \in woken <=> \E s \in closing : p \in Queued[s]
  <2>1. /\ WokenByClosing \in Seq(Pid) /\ IsInjective(WokenByClosing)
        /\ \A p \in Pid : p \in Range(WokenByClosing) <=>
             \E s \in Semid : Closing(s) /\ p \in Queued[s]
    BY <1>1, WokenMembers
  <2> QED BY <2>1
<1>9. /\ \A p \in Range(queue) : p \in Pid /\ p # execution_index /\ p \notin woken
      /\ \A p \in woken : p \in Pid /\ p # execution_index
  <2>1. ASSUME NEW p \in Range(queue)
        PROVE  p \in Pid /\ p # execution_index /\ p \notin woken
    <3>1. p \in Pid
      BY RangeOfSeq
    <3>2. p \in Range(ready_queue) \/ p \in Joiners[id]
      BY <1>1, <1>5
    <3>3. CASE p \in Range(ready_queue)
      <4>1. p \in Ready
        BY <1>1, <3>3
      <4>2. \A s \in Semid : p \notin Queued[s]
        BY <1>1, <3>1, <4>1 DEF Placed
      <4> QED BY <1>1, <1>8, <3>1, <3>3, <4>2
    <3>4. CASE p \in Joiners[id]
      <4>1. p \notin Ready /\ \A s \in Semid : p \notin Queued[s]
        BY <1>1, <3>1, <3>4 DEF Placed
      <4> QED BY <1>1, <1>8, <3>1, <4>1
    <3> QED BY <3>2, <3>3, <3>4
  <2>2. ASSUME NEW p \in woken
        PROVE  p \in Pid /\ p # execution_index
    <3>1. p \in Pid
      BY <1>8, RangeOfSeq
    <3>2. p \notin Ready
      BY <1>1, <1>8, <3>1 DEF Placed
    <3> QED BY <1>1, <3>1, <3>2
  <2> QED BY <2>1, <2>2
<1> HIDE DEF closing, left, woken
<1>10. /\ new \in Seq(Pid) /\ IsInjective(new)
       /\ Range(new) = (Range(queue) \cup woken) \cap left
  <2>1. Range(queue) \cap woken = {}
    BY <1>9
  <2>2. /\ queue \o WokenByClosing \in Seq(Pid) /\ IsInjective(queue \o WokenByClosing)
        /\ Range(queue \o WokenByClosing) = Range(queue) \cup woken
    BY <1>8, <2>1, ConcatMembers DEF woken
  <2>3. new = Survivors(queue \o WokenByClosing, left)
    BY <1>2 DEF ReadyAfterDestroy
  <2> DEFINE all == queue \o WokenByClosing
  <2> HIDE DEF new, all
  <2>4. all \in Seq(Pid) /\ IsInjective(all) /\ Range(all) = Range(queue) \cup woken
    BY <2>2 DEF all
  <2>5. new = Survivors(all, left)
    BY <2>3 DEF all
  <2>6. /\ Survivors(all, left) \in Seq(Pid) /\ IsInjective(Survivors(all, left))
        /\ Range(Survivors(all, left)) = Range(all) \cap left
    BY <2>4, SurvivorsMembers
  <2> QED BY <2>4, <2>5, <2>6
<1> HIDE DEF new
<1>11. ready = (Ready \cup Joiners[id] \cup woken) \cap left
  BY <1>1, <1>2, <1>3, <1>5, <1>10
<1>12. Asleep' = Asleep \cap left /\ IsInjective(Ids(timer_list'))
  <2>1. Ids(timer_list') = Survivors(Ids(timer_list), left)
    BY <1>2, CleanTimersIds DEF ListTypes
  <2>2. Ids(timer_list) \in Seq(Pid) /\ IsInjective(Ids(timer_list))
    BY <1>1, IdsType DEF ListTypes, WaitsOnce
  <2>3. IsInjective(Ids(timer_list')) /\ Range(Ids(timer_list')) = Range(Ids(timer_list)) \cap left
    BY <2>1, <2>2, SurvivorsMembers
  <2> QED BY <2>3 DEF Asleep
<1>13. ASSUME NEW s \in Semid
       PROVE  /\ Queued'[s] = IF s \in closing THEN {} ELSE Queued[s] \cap left
              /\ IsInjective(semaphore_array'[s].waiting_list)
              /\ ~semaphore_array'[s].is_present => semaphore_array'[s].waiting_list = <<>>
  <2>1. semaphore_array'[s] = SemaphoreAfter(s, left)
    BY <1>2
  <2>2. Queued'[s] = Range(semaphore_array'[s].waiting_list)
    BY DEF Queued
  <2>3. IsInjective(semaphore_array[s].waiting_list)
    BY <1>1 DEF WaitsOnce
  <2>4. /\ IsInjective(SemaphoreAfter(s, left).waiting_list)
        /\ Range(SemaphoreAfter(s, left).waiting_list) =
                IF Closing(s) THEN {} ELSE Queued[s] \cap left
        /\ ~SemaphoreAfter(s, left).is_present => SemaphoreAfter(s, left).waiting_list = <<>>
    BY <1>1, <2>3, SemaphoreAfterMembers
  <2>5. s \in closing <=> Closing(s)
    BY DEF closing
  <2> QED BY <2>1, <2>2, <2>4, <2>5
<1>14. \A q \in left : Joiners'[q] = Joiners[q]
  BY <1>1, <1>2, <1>3 DEF Joiners
<1>15. Placed(left, (Ready \cup Joiners[id] \cup woken) \cap left, Asleep \cap left, Joiners', Queued')
  <2>1. closing \subseteq Semid /\ left \subseteq present /\ id \in present \ left
    BY <1>3 DEF closing
  <2>2. \A s \in Semid : Queued'[s] = IF s \in closing THEN {} ELSE Queued[s] \cap left
    BY <1>13
  <2> DEFINE joined == Joiners'
             after == Queued'
  <2>3. \A q \in left : joined[q] = Joiners[q]
    BY <1>14
  <2>4. \A s \in Semid : after[s] = IF s \in closing THEN {} ELSE Queued[s] \cap left
    BY <2>2
  <2>5. \A p \in Pid : p \in woken <=> \E s \in closing : p \in Queued[s]
    BY <1>8
  <2>6. present \subseteq Pid /\ Placed(present, Ready, Asleep, Joiners, Queued)
    BY <1>1
  <2> HIDE DEF joined, after
  <2>7. Placed(left, (Ready \cup Joiners[id] \cup woken) \cap left, Asleep \cap left, joined, after)
    <3>1. Deaths(present, Joiners, Queued, left, id, closing, woken, joined, after)
      BY <1>6, <1>7, <2>1, <2>3, <2>4, <2>5, <2>6 DEF Deaths
    <3> QED BY <2>6, <3>1, RemoveDead
  <2> QED BY <2>7 DEF joined, after
<1>16. Placed(present', ready, Asleep', Joiners', Queued')
  BY <1>2, <1>11, <1>12, <1>15
<1>17. WaitsOnce' /\ NoStaleWaiters' /\ OwnJoins'
  <2>1. NoStaleWaiters'
    BY <1>13 DEF NoStaleWaiters
  <2>2. WaitsOnce'
    BY <1>1, <1>2, <1>3, <1>12, <1>13 DEF WaitsOnce
  <2>3. OwnJoins'
    BY <1>1, <1>2, <1>3 DEF OwnJoins
  <2> QED BY <2>1, <2>2, <2>3
<1>18. 0 \in ready
  BY <1>1, <1>4, <1>11
<1>19. ASSUME NEW target \in present, target \notin present'
       PROVE  Range(waiting[target]) \cap present' \subseteq Range(new)
  <2>1. CASE target = id
    BY <1>2, <1>10, <2>1
  <2>2. CASE target # id
    <3>1. target \in Pid /\ Joiners[target] \cap left = {}
      BY <1>1, <1>2, <1>7, <1>19, <2>2
    <3> QED BY <1>2, <1>5, <3>1
  <2> QED BY <2>1, <2>2
<1>20. Range(new) \subseteq present' /\ execution_index \notin Range(new) /\ father_id'[0] = NoProcess
  BY <1>1, <1>2, <1>9, <1>10
<1> QED BY <1>10, <1>16, <1>17, <1>18, <1>19, <1>20 DEF DestroyedWell, new

\* Whoever waited for a process that dies runs or is ready.
JoinersReturn ==
    \A target \in present : target \notin present' =>
        Range(waiting[target]) \cap present' \subseteq {execution_index'} \cup Range(ready_queue')

\* The outcome of a step that reaches the scheduler.
StepsWell == PlaceInv' /\ UNCHANGED status /\ JoinersReturn

LEMMA DestroyedDispatches ==
    ASSUME NEW queue, DestroyedWell(queue), execution_index \in Pid, NEW ticks,
           \/ Drop(queue) /\ execution_index \notin present'
           \/ Schedule(queue, ticks)
    PROVE  StepsWell
<1> DEFINE members == Range(queue) \cup ({execution_index} \cap present')
<1>1. /\ queue \in Seq(Pid) /\ IsInjective(queue)
      /\ Range(queue) \subseteq present' /\ execution_index \notin Range(queue)
      /\ 0 \in members
      /\ father_id'[0] = NoProcess
      /\ WaitsOnce' /\ NoStaleWaiters' /\ OwnJoins'
      /\ Placed(present', members, Asleep', Joiners', Queued')
      /\ \A target \in present : target \notin present' =>
           Range(waiting[target]) \cap present' \subseteq Range(queue)
  BY DEF DestroyedWell
<1>2. Dispatches(members)
  <2>1. CASE Drop(queue) /\ execution_index \notin present'
    <3>1. members = Range(queue) /\ Range(queue) # {}
      BY <1>1, <2>1
    <3> QED BY <1>1, <2>1, <3>1, DropDispatches
  <2>2. CASE Schedule(queue, ticks)
    <3>1. Range(queue) # {} \/ execution_index \in present'
      BY <1>1
    <3> QED BY <1>1, <2>2, <3>1, ScheduleDispatches
  <2> QED BY <2>1, <2>2
<1> HIDE DEF members
<1>3. PlaceInv'
  BY <1>1, <1>2, PlaceInvFollows
<1>4. JoinersReturn
  <2>1. {execution_index'} \cup Range(ready_queue') = members /\ Range(queue) \subseteq members
    BY <1>2 DEF Dispatches, members
  <2> QED BY <1>1, <2>1 DEF JoinersReturn
<1> QED BY <1>2, <1>3, <1>4 DEF StepsWell, Dispatches

\* The joiners of a process, added to the ready queue, are new there.
LEMMA JoinersAdded ==
    ASSUME ProcessInv, ListTypes, PlaceInv, Running, NEW id \in present
    PROVE  /\ AddToList(ready_queue, waiting[id], present) \in Seq(Pid)
           /\ IsInjective(AddToList(ready_queue, waiting[id], present))
           /\ Range(AddToList(ready_queue, waiting[id], present)) =
                Range(ready_queue) \cup Range(waiting[id])
<1>1. id \in Pid /\ waiting[id] \in Seq(Pid) /\ Joiners[id] = Range(waiting[id])
  BY RunningPlaces DEF ListTypes, Joiners
<1>2. IsInjective(waiting[id]) /\ ready_queue \in Seq(Pid) /\ IsInjective(ready_queue)
  BY RunningPlaces DEF WaitsOnce
<1>3. Range(waiting[id]) \subseteq present /\ Range(waiting[id]) \subseteq Pid
  <2>1. Joiners[id] \subseteq present /\ present \subseteq Pid
    BY RunningPlaces DEF Placed
  <2> QED BY <1>1, <2>1
<1>4. Range(ready_queue) \cap Range(waiting[id]) = {}
  <2>1. \A p \in Pid : p \in Joiners[id] => p \notin Ready
    BY RunningPlaces DEF Placed
  <2>2. Range(ready_queue) \subseteq Ready
    BY DEF Ready
  <2> QED BY <1>1, <1>3, <2>1, <2>2
<1>5. Range(waiting[id]) \cap present = Range(waiting[id])
  BY <1>3
<1> QED BY <1>1, <1>2, <1>4, <1>5, AddToListMembers

LEMMA ExitPlaces ==
    ASSUME ProcessInv, ListTypes, PlaceInv, Exit
    PROVE  StepsWell
<1> DEFINE queue == AddToList(ready_queue, waiting[execution_index], present)
<1>1. /\ Running /\ execution_index # 0 /\ Destroy(execution_index)
      /\ waiting' = [waiting EXCEPT ![execution_index] = <<>>]
      /\ Drop(ReadyAfterDestroy(queue))
  BY DEF Exit, Caller
<1>2. execution_index \in present /\ execution_index \in Pid
  BY <1>1, RunningPlaces
<1>3. /\ queue \in Seq(Pid) /\ IsInjective(queue)
      /\ Range(queue) = Range(ready_queue) \cup Range(waiting[execution_index])
  BY <1>1, <1>2, JoinersAdded
<1> HIDE DEF queue
<1>4. execution_index \notin present'
  BY <1>1, <1>2, FamilyHasRoot DEF Destroy
<1>5. waiting' \in [Pid -> Seq(Pid)] /\ \A q \in present' : waiting'[q] = waiting[q]
  <2>1. present' \subseteq Pid
    BY <1>1 DEF Destroy, ProcessInv, ProcessTypes
  <2> QED BY <1>1, <1>4, <2>1, EmptySeq DEF ListTypes
<1>6. DestroyedWell(ReadyAfterDestroy(queue))
  BY <1>1, <1>2, <1>3, <1>5, DestroyPlaces
<1> QED BY <1>1, <1>2, <1>4, <1>6, DestroyedDispatches

LEMMA KillPlaces ==
    ASSUME ProcessInv, ListTypes, PlaceInv, Running,
           NEW target \in present \ {0}, Kill(target)
    PROVE  StepsWell
<1> DEFINE queue == AddToList(ready_queue, waiting[target], present)
<1>1. /\ Running /\ target \in present \ {0} /\ target \in Pid /\ Destroy(target)
      /\ waiting' = [waiting EXCEPT ![target] = <<>>]
      /\ Schedule(ReadyAfterDestroy(queue), scheduler_timer_ticks)
  BY DEF Kill, ProcessInv, ProcessTypes
<1>2. /\ queue \in Seq(Pid) /\ IsInjective(queue)
      /\ Range(queue) = Range(ready_queue) \cup Range(waiting[target])
  BY <1>1, JoinersAdded
<1> HIDE DEF queue
<1>3. target \notin present'
  BY <1>1, FamilyHasRoot DEF Destroy
<1>4. waiting' \in [Pid -> Seq(Pid)] /\ \A q \in present' : waiting'[q] = waiting[q]
  <2>1. present' \subseteq Pid
    BY <1>1 DEF Destroy, ProcessInv, ProcessTypes
  <2> QED BY <1>1, <1>3, <2>1, EmptySeq DEF ListTypes
<1>5. DestroyedWell(ReadyAfterDestroy(queue))
  BY <1>1, <1>2, <1>4, DestroyPlaces
<1> QED BY <1>1, <1>5, DestroyedDispatches DEF Running

\* abort() does not wake the processes that joined the caller: nobody may have.
LEMMA AbortPlaces ==
    ASSUME ProcessInv, ListTypes, PlaceInv, Running, execution_index # 0, Abort,
           "join" \notin Calls
    PROVE  \/ StepsWell
           \/ status' = "panic" /\ UNCHANGED present
<1>1. CASE level[execution_index] = "system"
  BY <1>1 DEF Abort, processVars
<1>2. CASE level[execution_index] # "system"
  <2>1. /\ Destroy(execution_index)
        /\ Schedule(ReadyAfterDestroy(ready_queue), scheduler_timer_ticks)
        /\ UNCHANGED waiting
    BY <1>2 DEF Abort
  <2>2. /\ execution_index \in present /\ execution_index \in Pid
        /\ ready_queue \in Seq(Pid) /\ IsInjective(ready_queue) /\ OwnJoins
    BY RunningPlaces
  <2>3. Range(ready_queue) = Range(ready_queue) \cup Range(waiting[execution_index])
    <3>1. waiting[execution_index] = <<>>
      BY <2>2 DEF OwnJoins
    <3> QED BY <3>1, EmptyMembers
  <2>4. waiting' \in [Pid -> Seq(Pid)] /\ \A q \in present' : waiting'[q] = waiting[q]
    BY <2>1 DEF ListTypes
  <2>5. DestroyedWell(ReadyAfterDestroy(ready_queue))
    BY <2>1, <2>2, <2>3, <2>4, DestroyPlaces
  <2> QED BY <2>1, <2>2, <2>5, DestroyedDispatches
<1> QED BY <1>1, <1>2

-----------------------------------------------------------------------------
(* The other handlers.                                                     *)

\* A handler that leaves the processes as they are keeps every joiner.
LEMMA NobodyDies ==
    ASSUME present \subseteq present'
    PROVE  JoinersReturn
BY DEF JoinersReturn

LEMMA EnterPlaces ==
    ASSUME ProcessInv, ListTypes, PlaceInv, EnterMultitasking
    PROVE  StepsWell
<1>1. /\ status = "running" /\ execution_index = NoProcess
      /\ UNCHANGED <<processVars, waiting, timer_list, semaphore_array>>
      /\ Drop(ready_queue)
  BY DEF EnterMultitasking
<1>2. /\ IsInjective(ready_queue) /\ WaitsOnce /\ NoStaleWaiters /\ OwnJoins
      /\ 0 \in Ready /\ father_id[0] = NoProcess
      /\ Placed(present, Ready, Asleep, Joiners, Queued)
  BY <1>1 DEF PlaceInv, InitIsReady
<1>3. Ready = Range(ready_queue)
  <2>1. execution_index \notin Pid
    BY <1>1, SizeAssumption DEF Pid, NoProcess
  <2> QED BY <2>1 DEF Ready
<1>4. /\ UNCHANGED <<present, father_id, waiting, timer_list, semaphore_array>>
  BY <1>1 DEF processVars
<1>5. Dispatches(Ready)
  <2>1. Range(ready_queue) \subseteq present' /\ Range(ready_queue) # {}
    BY <1>2, <1>3, <1>4 DEF Placed
  <2> QED BY <1>1, <1>2, <1>3, <2>1, DropDispatches DEF ListTypes, SchedulerTypes
<1>6. WaitsOnce' /\ NoStaleWaiters' /\ OwnJoins'
  BY <1>2, <1>4 DEF WaitsOnce, NoStaleWaiters, OwnJoins
<1>7. Placed(present', Ready, Asleep', Joiners', Queued')
  <2>1. Asleep' = Asleep /\ Joiners' = Joiners /\ Queued' = Queued
    BY <1>4 DEF Asleep, Joiners, Queued
  <2> QED BY <1>2, <1>4, <2>1
<1>8. PlaceInv'
  BY <1>2, <1>4, <1>5, <1>6, <1>7, PlaceInvFollows
<1> QED BY <1>4, <1>5, <1>8, NobodyDies DEF StepsWell, Dispatches

LEMMA ClockPlaces ==
    ASSUME ProcessInv, ListTypes, PlaceInv, ClockInterrupt
    PROVE  StepsWell
<1> DEFINE list == Countdown(timer_list)
           due == DueCount(list)
           woken == DueNow(list, due)
           left == NotDue(list, due)
           queue == AddToList(ready_queue, woken, present)
           members == Range(queue) \cup ({execution_index} \cap present')
<1>1. /\ Running /\ UNCHANGED <<present, father_id, waiting, semaphore_array>>
      /\ timer_list' = left
      /\ Schedule(queue, scheduler_timer_ticks + 1)
  BY DEF ClockInterrupt, processVars, DueNow, NotDue
<1>2. /\ execution_index \in present /\ execution_index \in Pid
      /\ present \subseteq Pid
      /\ ready_queue \in Seq(Pid) /\ IsInjective(ready_queue)
      /\ execution_index \notin Range(ready_queue)
      /\ Ready = {execution_index} \cup Range(ready_queue)
      /\ Range(ready_queue) \subseteq present
      /\ 0 \in Ready /\ father_id[0] = NoProcess
      /\ WaitsOnce /\ NoStaleWaiters /\ OwnJoins
      /\ Placed(present, Ready, Asleep, Joiners, Queued)
  BY <1>1, RunningPlaces
<1>3. /\ list \in Seq([id : Pid, ticks : Ticks]) /\ Ids(list) = Ids(timer_list)
  BY CountdownType, CountdownIds DEF ListTypes
<1>4. due \in 0..Len(list) /\ IsInjective(Ids(list)) /\ Range(Ids(list)) = Asleep
  BY <1>2, <1>3, DueCountType DEF WaitsOnce, Asleep
<1> HIDE DEF list, due
<1>5. /\ woken \in Seq(Pid) /\ IsInjective(woken) /\ IsInjective(Ids(left))
      /\ Range(woken) \cap Range(Ids(left)) = {}
      /\ Asleep = Range(woken) \cup Range(Ids(left))
  BY <1>3, <1>4, DueIds
<1> HIDE DEF woken, left
<1>6. Range(woken) \subseteq Asleep /\ Asleep \subseteq present /\ \A p \in Ready : p \notin Asleep
  BY <1>2, <1>5 DEF Placed
<1>7. /\ queue \in Seq(Pid) /\ IsInjective(queue)
      /\ Range(queue) = Range(ready_queue) \cup Range(woken)
  <2>1. Range(ready_queue) \cap Range(woken) = {}
    BY <1>2, <1>6
  <2>2. Range(woken) \cap present = Range(woken)
    BY <1>6
  <2> QED BY <1>2, <1>5, <2>1, <2>2, AddToListMembers
<1> HIDE DEF queue
<1>8. members = Ready \cup Range(woken) /\ execution_index \notin Range(queue) /\ Range(queue) \subseteq present'
  BY <1>1, <1>2, <1>6, <1>7
<1>9. Dispatches(members)
  BY <1>1, <1>2, <1>7, <1>8, ScheduleDispatches
<1> HIDE DEF members
<1>10. Asleep' = Range(Ids(left)) /\ Joiners' = Joiners /\ Queued' = Queued
  BY <1>1 DEF Asleep, Joiners, Queued
<1>11. WaitsOnce' /\ NoStaleWaiters' /\ OwnJoins'
  BY <1>1, <1>2, <1>5 DEF WaitsOnce, NoStaleWaiters, OwnJoins
<1>12. Placed(present', members, Asleep', Joiners', Queued')
  <2>1. Placed(present, Ready \cup Range(woken), Range(Ids(left)), Joiners, Queued)
    BY <1>2, <1>5, MoveAwake
  <2> QED BY <1>1, <1>8, <1>10, <2>1
<1>13. PlaceInv'
  BY <1>1, <1>2, <1>8, <1>9, <1>11, <1>12, PlaceInvFollows
<1> QED BY <1>1, <1>9, <1>13, NobodyDies DEF StepsWell, Dispatches

LEMMA SleepPlaces ==
    ASSUME ProcessInv, ListTypes, PlaceInv, NEW ticks \in SleepTicks, Sleep(ticks)
    PROVE  StepsWell
<1>1. /\ Running /\ execution_index # 0
      /\ UNCHANGED <<present, father_id, waiting, semaphore_array>>
      /\ timer_list' = AddTimer(timer_list, execution_index, ticks)
      /\ Drop(ready_queue)
  BY DEF Sleep, Caller, processVars
<1>2. /\ execution_index \in present /\ execution_index \in Pid
      /\ ready_queue \in Seq(Pid) /\ IsInjective(ready_queue)
      /\ Range(ready_queue) = Ready \ {execution_index} /\ execution_index \in Ready
      /\ Range(ready_queue) \subseteq present
      /\ father_id[0] = NoProcess
      /\ WaitsOnce /\ NoStaleWaiters /\ OwnJoins
      /\ Placed(present, Ready, Asleep, Joiners, Queued)
  BY <1>1, RunningPlaces
<1>3. 0 \in Range(ready_queue) /\ Range(ready_queue) # {}
  BY <1>1, SomeoneIsReady
<1>4. Dispatches(Range(ready_queue))
  BY <1>1, <1>2, <1>3, DropDispatches
<1>5. Asleep' = Asleep \cup {execution_index} /\ IsInjective(Ids(timer_list'))
  <2>1. ticks \in Ticks
    BY WorkloadAssumption DEF Ticks
  <2>2. execution_index \notin Range(Ids(timer_list)) /\ IsInjective(Ids(timer_list))
    BY <1>2 DEF Placed, Asleep, WaitsOnce
  <2>3. timer_list \in Seq([id : Pid, ticks : Ticks])
    BY DEF ListTypes
  <2>4. /\ Range(Ids(timer_list')) = Range(Ids(timer_list)) \cup {execution_index}
        /\ IsInjective(Ids(timer_list'))
    BY <1>1, <1>2, <2>1, <2>2, <2>3, AddTimerIds
  <2> QED BY <2>4 DEF Asleep
<1>6. Joiners' = Joiners /\ Queued' = Queued
  BY <1>1 DEF Joiners, Queued
<1>7. WaitsOnce' /\ NoStaleWaiters' /\ OwnJoins'
  BY <1>1, <1>2, <1>5 DEF WaitsOnce, NoStaleWaiters, OwnJoins
<1>8. Placed(present', Range(ready_queue), Asleep', Joiners', Queued')
  <2>1. Placed(present, Ready \ {execution_index}, Asleep \cup {execution_index}, Joiners, Queued)
    BY <1>2, MoveToSleep
  <2> QED BY <1>1, <1>2, <1>5, <1>6, <2>1
<1>9. PlaceInv'
  BY <1>1, <1>2, <1>3, <1>4, <1>7, <1>8, PlaceInvFollows
<1> QED BY <1>1, <1>4, <1>9, NobodyDies DEF StepsWell, Dispatches

\* A call that only returns: the caller may lose the CPU.
LEMMA ReturnPlaces ==
    ASSUME ProcessInv, ListTypes, PlaceInv, Running,
           UNCHANGED <<processVars, waiting, timer_list, semaphore_array>>,
           Schedule(ready_queue, scheduler_timer_ticks)
    PROVE  StepsWell
<1>1. UNCHANGED <<present, father_id, waiting, timer_list, semaphore_array>>
  BY DEF processVars
<1>2. /\ execution_index \in present /\ execution_index \in Pid
      /\ ready_queue \in Seq(Pid) /\ IsInjective(ready_queue)
      /\ execution_index \notin Range(ready_queue)
      /\ Ready = {execution_index} \cup Range(ready_queue)
      /\ Range(ready_queue) \subseteq present
      /\ 0 \in Ready /\ father_id[0] = NoProcess
      /\ WaitsOnce /\ NoStaleWaiters /\ OwnJoins
      /\ Placed(present, Ready, Asleep, Joiners, Queued)
  BY RunningPlaces
<1>3. Dispatches(Range(ready_queue) \cup ({execution_index} \cap present'))
  BY <1>1, <1>2, ScheduleDispatches
<1>4. Dispatches(Ready)
  <2>1. Range(ready_queue) \cup ({execution_index} \cap present') = Ready
    BY <1>1, <1>2
  <2> QED BY <1>3, <2>1
<1>5. Asleep' = Asleep /\ Joiners' = Joiners /\ Queued' = Queued
  BY <1>1 DEF Asleep, Joiners, Queued
<1>6. WaitsOnce' /\ NoStaleWaiters' /\ OwnJoins'
  BY <1>1, <1>2 DEF WaitsOnce, NoStaleWaiters, OwnJoins
<1>7. Placed(present', Ready, Asleep', Joiners', Queued')
  BY <1>1, <1>2, <1>5
<1>8. PlaceInv'
  BY <1>1, <1>2, <1>4, <1>6, <1>7, PlaceInvFollows
<1> QED BY <1>1, <1>4, <1>8, NobodyDies DEF StepsWell, Dispatches

\* A new process is ready; the slot was free, and its last process is in no list.
LEMMA ForkPlaces ==
    ASSUME ProcessInv, ListTypes, PlaceInv, Fork
    PROVE  StepsWell
<1>1. Running /\ process_count < MAX_PROCESS_NUMBER /\ UNCHANGED <<timer_list, semaphore_array>>
  BY DEF Fork, Caller
<1>2. /\ execution_index \in present /\ execution_index \in Pid
      /\ present \subseteq Pid
      /\ ready_queue \in Seq(Pid) /\ IsInjective(ready_queue)
      /\ execution_index \notin Range(ready_queue)
      /\ Ready = {execution_index} \cup Range(ready_queue)
      /\ Range(ready_queue) \subseteq present
      /\ 0 \in Ready /\ father_id[0] = NoProcess
      /\ WaitsOnce /\ NoStaleWaiters /\ OwnJoins
      /\ Placed(present, Ready, Asleep, Joiners, Queued)
  BY <1>1, RunningPlaces
<1>3. ~(Pid \subseteq present)
  <2> SUFFICES ASSUME Pid \subseteq present PROVE FALSE
    OBVIOUS
  <2>1. present = Pid
    BY <1>2
  <2>2. process_count = MAX_PROCESS_NUMBER
    BY <2>1, PidFinite DEF ProcessInv, CountMatches
  <2> QED BY <1>1, <2>2, SizeAssumption
<1>4. PICK slot \in Pid \ present : CreateProcess(slot)
  BY <1>3 DEF Fork
<1>5. ~(\E p \in present : Occurrences(waiting[p], slot) > 0)
  <2> SUFFICES ASSUME NEW p \in present, Occurrences(waiting[p], slot) > 0 PROVE FALSE
    OBVIOUS
  <2>1. p \in Pid /\ Joiners[p] = Range(waiting[p]) /\ Joiners[p] \subseteq present
    BY <1>2 DEF Joiners, Placed
  <2>2. {i \in DOMAIN waiting[p] : waiting[p][i] = slot} = {}
    BY <2>1 DEF Range
  <2>3. Occurrences(waiting[p], slot) = 0
    BY <2>2, FS_EmptySet DEF Occurrences
  <2> QED BY <2>3
<1> DEFINE queue == Append(ready_queue, slot)
           members == Range(queue) \cup ({execution_index} \cap present')
<1>6. /\ present' = present \cup {slot}
      /\ father_id' = [father_id EXCEPT ![slot] = execution_index]
      /\ waiting' = [waiting EXCEPT ![slot] = <<>>]
      /\ Schedule(queue, scheduler_timer_ticks)
  BY <1>4, <1>5 DEF CreateProcess
<1>7. /\ queue \in Seq(Pid) /\ IsInjective(queue)
      /\ Range(queue) = Range(ready_queue) \cup {slot}
  BY <1>2, AppendMembers
<1> HIDE DEF queue
<1>8. members = Ready \cup {slot} /\ execution_index \notin Range(queue) /\ Range(queue) \subseteq present'
  BY <1>2, <1>6, <1>7
<1>9. Dispatches(members)
  BY <1>2, <1>6, <1>7, <1>8, ScheduleDispatches
<1> HIDE DEF members
<1>10. Asleep' = Asleep /\ Queued' = Queued
  BY <1>1 DEF Asleep, Queued
<1>11. Joiners'[slot] = {} /\ \A q \in present : Joiners'[q] = Joiners[q]
  BY <1>2, <1>6, EmptyMembers DEF ListTypes, Joiners
<1>12. WaitsOnce' /\ NoStaleWaiters' /\ OwnJoins'
  <2>1. \A q \in present : q # slot /\ q \in Pid
    BY <1>2
  <2>2. waiting'[slot] = <<>> /\ \A q \in present : waiting'[q] = waiting[q] /\ father_id'[q] = father_id[q]
    BY <1>6, <2>1 DEF ListTypes, ProcessInv, ProcessTypes
  <2> QED BY <1>1, <1>2, <1>6, <2>2, EmptyMembers DEF WaitsOnce, NoStaleWaiters, OwnJoins
<1>13. Placed(present', members, Asleep', Joiners', Queued')
  <2> DEFINE after == Joiners'
  <2>1. after[slot] = {} /\ \A q \in present : after[q] = Joiners[q]
    BY <1>11
  <2> HIDE DEF after
  <2>2. Placed(present \cup {slot}, Ready \cup {slot}, Asleep, after, Queued)
    BY <1>2, <1>4, <2>1, AddReady
  <2> QED BY <1>6, <1>8, <1>10, <2>2 DEF after
<1>14. father_id'[0] = NoProcess
  <2>1. 0 \in present
    BY <1>2 DEF Placed
  <2> QED BY <1>2, <1>6, <2>1 DEF ProcessInv, ProcessTypes
<1>15. PlaceInv'
  BY <1>2, <1>8, <1>9, <1>12, <1>13, <1>14, PlaceInvFollows
<1> QED BY <1>6, <1>9, <1>15, NobodyDies DEF StepsWell, Dispatches

LEMMA JoinPlaces ==
    ASSUME JoinsAreSafe, ProcessInv, ListTypes, PlaceInv, NEW target \in Pid, Join(target)
    PROVE  StepsWell
<1>1. /\ Running /\ execution_index # 0 /\ "join" \in Calls
      /\ father_id[target] = execution_index /\ target \in present
      /\ waiting' = [waiting EXCEPT ![target] = Append(waiting[target], execution_index)]
      /\ UNCHANGED <<present, father_id, timer_list, semaphore_array>>
      /\ Drop(ready_queue)
  BY DEF Join, JoinProcess, Caller, processVars, JoinsAreSafe
<1>2. /\ execution_index \in present /\ execution_index \in Pid
      /\ present \subseteq Pid
      /\ ready_queue \in Seq(Pid) /\ IsInjective(ready_queue)
      /\ Range(ready_queue) = Ready \ {execution_index} /\ execution_index \in Ready
      /\ Range(ready_queue) \subseteq present
      /\ father_id[0] = NoProcess
      /\ WaitsOnce /\ NoStaleWaiters /\ OwnJoins
      /\ Placed(present, Ready, Asleep, Joiners, Queued)
  BY <1>1, RunningPlaces
<1>3. 0 \in Range(ready_queue) /\ Range(ready_queue) # {}
  BY <1>1, SomeoneIsReady
<1>4. Dispatches(Range(ready_queue))
  BY <1>1, <1>2, <1>3, DropDispatches
<1>5. /\ waiting[target] \in Seq(Pid) /\ IsInjective(waiting[target])
      /\ Joiners[target] = Range(waiting[target]) /\ execution_index \notin Joiners[target]
  BY <1>1, <1>2 DEF ListTypes, WaitsOnce, Joiners, Placed
<1>6. /\ Range(waiting'[target]) = Range(waiting[target]) \cup {execution_index}
      /\ IsInjective(waiting'[target])
      /\ \A q \in present : q # target => waiting'[q] = waiting[q]
  <2>1. /\ waiting'[target] = Append(waiting[target], execution_index)
        /\ \A q \in present : q # target => waiting'[q] = waiting[q]
    BY <1>1, <1>2 DEF ListTypes
  <2> QED BY <1>2, <1>5, <2>1, AppendMembers
<1>7. /\ Joiners'[target] = Joiners[target] \cup {execution_index}
      /\ \A q \in present : q # target => Joiners'[q] = Joiners[q]
  BY <1>2, <1>5, <1>6 DEF Joiners
<1>8. Asleep' = Asleep /\ Queued' = Queued
  BY <1>1 DEF Asleep, Queued
<1>9. WaitsOnce' /\ NoStaleWaiters' /\ OwnJoins'
  BY <1>1, <1>2, <1>6 DEF WaitsOnce, NoStaleWaiters, OwnJoins
<1>10. Placed(present', Range(ready_queue), Asleep', Joiners', Queued')
  <2> DEFINE after == Joiners'
  <2>1. after[target] = Joiners[target] \cup {execution_index} /\ \A q \in present : q # target => after[q] = Joiners[q]
    BY <1>7
  <2> HIDE DEF after
  <2>2. Placed(present, Ready \ {execution_index}, Asleep, after, Queued)
    BY <1>1, <1>2, <2>1, MoveToJoin
  <2> QED BY <1>1, <1>2, <1>8, <2>2 DEF after
<1>11. PlaceInv'
  BY <1>1, <1>2, <1>3, <1>4, <1>9, <1>10, PlaceInvFollows
<1> QED BY <1>1, <1>4, <1>11, NobodyDies DEF StepsWell, Dispatches

-----------------------------------------------------------------------------
(* Semaphores.                                                             *)

DescriptorsTaken == \A s \in Semid : semaphore_array[s].is_present

\* The steps past the end of an array: create_semaphore() when all descriptors
\* are taken, join() and release_semaphore() of an id that is too large.
OverflowStep ==
    \/ DescriptorsTaken /\ \E c \in StartCounts : CreateSemaphore(c)
    \/ PastAnArray

Overflows == status' = "undefined" /\ UNCHANGED present /\ OverflowStep

\* Only one semaphore changes.
LEMMA OneSemaphore ==
    ASSUME ListTypes, NEW s \in Semid, NEW new,
           semaphore_array' = [semaphore_array EXCEPT ![s] = new],
           new.is_present, IsInjective(new.waiting_list),
           WaitsOnce, NoStaleWaiters, OwnJoins,
           UNCHANGED <<present, father_id, waiting, timer_list>>
    PROVE  /\ Queued'[s] = Range(new.waiting_list)
           /\ \A t \in Semid : t # s => Queued'[t] = Queued[t]
           /\ Asleep' = Asleep /\ Joiners' = Joiners
           /\ WaitsOnce' /\ NoStaleWaiters' /\ OwnJoins'
<1>1. \A t \in Semid : semaphore_array'[t] = IF t = s THEN new ELSE semaphore_array[t]
  BY DEF ListTypes
<1>2. /\ Queued'[s] = Range(new.waiting_list)
      /\ \A t \in Semid : t # s => Queued'[t] = Queued[t]
  BY <1>1 DEF Queued
<1>3. Asleep' = Asleep /\ Joiners' = Joiners
  BY DEF Asleep, Joiners
<1>4. WaitsOnce' /\ NoStaleWaiters' /\ OwnJoins'
  BY <1>1 DEF WaitsOnce, NoStaleWaiters, OwnJoins
<1> QED BY <1>2, <1>3, <1>4

LEMMA CreatePlaces ==
    ASSUME ProcessInv, ListTypes, PlaceInv, NEW c \in StartCounts, CreateSemaphore(c)
    PROVE  StepsWell \/ Overflows
<1>1. /\ Running
      /\ UNCHANGED <<present, father_id, waiting, execution_index, ready_queue, timer_list>>
  BY DEF CreateSemaphore, Caller, processVars
<1>2. CASE \A s \in Semid : semaphore_array[s].is_present
  <2>1. status' = "undefined"
    BY <1>2 DEF CreateSemaphore
  <2> QED BY <1>1, <1>2, <2>1 DEF Overflows, OverflowStep, DescriptorsTaken
<1>3. CASE ~(\A s \in Semid : semaphore_array[s].is_present)
  <2> DEFINE new == [is_present |-> TRUE, count |-> c,
                     creator_id |-> execution_index, waiting_list |-> <<>>]
  <2>1. PICK s \in Semid : /\ ~semaphore_array[s].is_present
                           /\ semaphore_array' = [semaphore_array EXCEPT ![s] = new]
    BY <1>3 DEF CreateSemaphore
  <2>2. UNCHANGED status
    BY <1>3 DEF CreateSemaphore
  <2>3. /\ execution_index \in Pid /\ ready_queue \in Seq(Pid) /\ IsInjective(ready_queue)
        /\ execution_index \notin Range(ready_queue)
        /\ Ready = {execution_index} \cup Range(ready_queue)
        /\ 0 \in Ready /\ father_id[0] = NoProcess
        /\ WaitsOnce /\ NoStaleWaiters /\ OwnJoins
        /\ Placed(present, Ready, Asleep, Joiners, Queued)
    BY <1>1, RunningPlaces
  <2>4. new.is_present /\ new.waiting_list = <<>> /\ IsInjective(<<>>) /\ Range(<<>>) = {}
    BY EmptyMembers
  <2> HIDE DEF new
  <2>5. /\ Queued'[s] = {}
        /\ \A t \in Semid : t # s => Queued'[t] = Queued[t]
        /\ Asleep' = Asleep /\ Joiners' = Joiners
        /\ WaitsOnce' /\ NoStaleWaiters' /\ OwnJoins'
    BY <1>1, <2>1, <2>3, <2>4, OneSemaphore
  <2>6. \A t \in Semid : Queued'[t] = Queued[t]
    <3>1. semaphore_array[s].waiting_list = <<>>
      BY <2>1, <2>3 DEF NoStaleWaiters
    <3>2. Queued[s] = {}
      BY <2>4, <3>1 DEF Queued
    <3> QED BY <2>5, <3>2
  <2>7. Placed(present', Ready, Asleep', Joiners', Queued')
    <3> DEFINE after == Queued'
    <3>1. \A t \in Semid : after[t] = Queued[t]
      BY <2>6
    <3> HIDE DEF after
    <3>2. Placed(present, Ready, Asleep, Joiners, after)
      BY <2>3, <3>1 DEF Placed
    <3> QED BY <1>1, <2>5, <3>2 DEF after
  <2>8. Dispatches(Ready)
    BY <1>1, <2>2, <2>3 DEF Dispatches
  <2>9. PlaceInv'
    BY <1>1, <2>3, <2>5, <2>7, <2>8, PlaceInvFollows
  <2> QED BY <1>1, <2>2, <2>9, NobodyDies DEF StepsWell
<1> QED BY <1>2, <1>3

LEMMA AcquirePlaces ==
    ASSUME JoinsAreSafe, ProcessInv, ListTypes, PlaceInv,
           NEW s \in Semid \cup {MAX_SEMAPHORE_NUMBER}, AcquireSemaphore(s)
    PROVE  StepsWell \/ (status' = "panic" /\ UNCHANGED present)
<1>1. Running /\ execution_index # 0 /\ "join" \notin Calls
  BY DEF AcquireSemaphore, Caller, JoinsAreSafe
<1>2. CASE s \notin Semid \/ ~semaphore_array[s].is_present
  BY <1>1, <1>2, AbortPlaces DEF AcquireSemaphore
<1>3. CASE s \in Semid /\ semaphore_array[s].is_present
  <2> DEFINE count == semaphore_array[s].count - 1
             list == semaphore_array[s].waiting_list
             blocked == IF count < 0 THEN Append(list, execution_index) ELSE list
             new == [semaphore_array[s] EXCEPT !.count = count, !.waiting_list = blocked]
  <2>1. /\ UNCHANGED <<present, father_id, waiting, timer_list>>
        /\ semaphore_array' = [semaphore_array EXCEPT ![s] = new]
        /\ IF count < 0 THEN Drop(ready_queue)
           ELSE Schedule(ready_queue, scheduler_timer_ticks)
    BY <1>3 DEF AcquireSemaphore, processVars, ListTypes
  <2>2. /\ execution_index \in present /\ execution_index \in Pid
        /\ present \subseteq Pid
        /\ ready_queue \in Seq(Pid) /\ IsInjective(ready_queue)
        /\ execution_index \notin Range(ready_queue)
        /\ Ready = {execution_index} \cup Range(ready_queue)
        /\ Range(ready_queue) = Ready \ {execution_index}
        /\ Range(ready_queue) \subseteq present
        /\ 0 \in Ready /\ father_id[0] = NoProcess
        /\ WaitsOnce /\ NoStaleWaiters /\ OwnJoins
        /\ Placed(present, Ready, Asleep, Joiners, Queued)
    BY <1>1, RunningPlaces
  <2>3. 0 \in Range(ready_queue) /\ Range(ready_queue) # {}
    BY <1>1, SomeoneIsReady
  <2>4. /\ semaphore_array[s] \in Descriptor /\ list \in Seq(Pid) /\ IsInjective(list)
        /\ Queued[s] = Range(list)
    BY <1>3, <2>2 DEF ListTypes, Descriptor, WaitsOnce, Queued
  <2>5. execution_index \notin Range(list)
    BY <1>3, <2>2, <2>4 DEF Placed
  <2> HIDE DEF list, count
  <2>6. CASE count < 0
    <3>1. blocked = Append(list, execution_index)
      BY <2>6
    <3>2. Range(blocked) = Queued[s] \cup {execution_index} /\ IsInjective(blocked)
      BY <2>2, <2>4, <2>5, <3>1, AppendMembers
    <3> HIDE DEF blocked
    <3>3. new.is_present /\ new.waiting_list = blocked
      BY <1>3, <2>4 DEF Descriptor
    <3> HIDE DEF new
    <3>4. /\ Queued'[s] = Queued[s] \cup {execution_index}
          /\ \A t \in Semid : t # s => Queued'[t] = Queued[t]
          /\ Asleep' = Asleep /\ Joiners' = Joiners
          /\ WaitsOnce' /\ NoStaleWaiters' /\ OwnJoins'
      BY <1>3, <2>1, <2>2, <3>2, <3>3, OneSemaphore
    <3>5. Dispatches(Range(ready_queue))
      BY <2>1, <2>2, <2>3, <2>6, DropDispatches
    <3>6. Placed(present', Range(ready_queue), Asleep', Joiners', Queued')
      <4> DEFINE after == Queued'
      <4>1. after[s] = Queued[s] \cup {execution_index} /\ \A t \in Semid : t # s => after[t] = Queued[t]
        BY <3>4
      <4> HIDE DEF after
      <4>2. execution_index \in Ready /\ s \in Semid
        BY <1>3, <2>2
      <4>3. Placed(present, Ready \ {execution_index}, Asleep, Joiners, after)
        BY <2>2, <4>1, <4>2, MoveToQueue
      <4> QED BY <2>1, <2>2, <3>4, <4>3 DEF after
    <3>7. PlaceInv'
      BY <2>1, <2>2, <2>3, <3>4, <3>5, <3>6, PlaceInvFollows
    <3> QED BY <2>1, <3>5, <3>7, NobodyDies DEF StepsWell, Dispatches
  <2>7. CASE ~(count < 0)
    <3>1. blocked = list
      BY <2>7
    <3> HIDE DEF blocked
    <3>2. new.is_present /\ new.waiting_list = list
      BY <1>3, <2>4, <3>1 DEF Descriptor
    <3> HIDE DEF new
    <3>3. /\ Queued'[s] = Range(list)
          /\ \A t \in Semid : t # s => Queued'[t] = Queued[t]
          /\ Asleep' = Asleep /\ Joiners' = Joiners
          /\ WaitsOnce' /\ NoStaleWaiters' /\ OwnJoins'
      BY <1>3, <2>1, <2>2, <2>4, <3>2, OneSemaphore
    <3>4. \A t \in Semid : Queued'[t] = Queued[t]
      BY <2>4, <3>3
    <3>5. Dispatches(Range(ready_queue) \cup ({execution_index} \cap present'))
      BY <2>1, <2>2, <2>7, ScheduleDispatches
    <3>6. Range(ready_queue) \cup ({execution_index} \cap present') = Ready
      BY <2>1, <2>2
    <3>7. Placed(present', Ready, Asleep', Joiners', Queued')
      <4> DEFINE after == Queued'
      <4>1. \A t \in Semid : after[t] = Queued[t]
        BY <3>4
      <4> HIDE DEF after
      <4>2. Placed(present, Ready, Asleep, Joiners, after)
        BY <2>2, <4>1 DEF Placed
      <4> QED BY <2>1, <3>3, <4>2 DEF after
    <3>8. Dispatches(Ready)
      BY <3>5, <3>6
    <3>9. PlaceInv'
      BY <2>1, <2>2, <3>3, <3>7, <3>8, PlaceInvFollows
    <3> QED BY <2>1, <3>8, <3>9, NobodyDies DEF StepsWell, Dispatches
  <2> QED BY <2>6, <2>7
<1> QED BY <1>2, <1>3

\* The first of a list, and the others.
LEMMA ServedMembers ==
    ASSUME NEW list \in Seq(Pid), IsInjective(list), NEW served,
           served = <<>> \/ (list # <<>> /\ served = <<Head(list)>>)
    PROVE  /\ served \in Seq(Pid) /\ IsInjective(served)
           /\ IsInjective(SubSeq(list, Len(served) + 1, Len(list)))
           /\ Range(served) \cap Range(SubSeq(list, Len(served) + 1, Len(list))) = {}
           /\ Range(served) \cup Range(SubSeq(list, Len(served) + 1, Len(list))) = Range(list)
<1> DEFINE n == Len(list)
           k == Len(served)
           rest == SubSeq(list, k + 1, n)
<1>1. n \in Nat /\ DOMAIN list = 1..n /\ \A i \in 1..n : list[i] \in Pid
  BY LenProperties, ElementOfSeq
<1>2. CASE served = <<>>
  <2>1. k = 0 /\ served \in Seq(Pid) /\ Range(served) = {} /\ IsInjective(served)
    BY <1>2, EmptySeq, EmptyMembers
  <2>2. k \in 0..n
    BY <1>1, <2>1
  <2>3. IsInjective(rest) /\ Range(rest) = {list[i] : i \in (k + 1)..n}
    BY <2>2, SuffixMembers
  <2>4. Range(rest) = Range(list)
    <3>1. (k + 1)..n = 1..n
      BY <2>1
    <3> HIDE DEF rest, k, n
    <3> QED BY <1>1, <2>3, <3>1 DEF Range
  <2> HIDE DEF rest
  <2> QED BY <2>1, <2>3, <2>4 DEF rest
<1>3. CASE list # <<>> /\ served = <<Head(list)>>
  <2>1. n \in Nat \ {0} /\ Head(list) = list[1] /\ 1 \in 1..n
    BY <1>3, EmptySeq
  <2> DEFINE first == list[1]
  <2>2. served = <<first>> /\ first \in Pid
    BY <1>1, <1>3, <2>1
  <2> HIDE DEF first
  <2>3. k = 1 /\ served \in Seq(Pid) /\ Range(served) = {first} /\ IsInjective(served)
    BY <2>2, SingleMember
  <2>4. k \in 0..n
    BY <2>1, <2>3
  <2>5. IsInjective(rest) /\ Range(rest) = {list[i] : i \in (k + 1)..n}
    BY <2>4, SuffixMembers
  <2>6. Range(list) = {list[i] : i \in 1..n} /\ 1..n = {1} \cup (k + 1)..n /\ 1 \notin (k + 1)..n
    <3>1. Range(list) = {list[i] : i \in 1..n}
      BY <1>1 DEF Range
    <3> HIDE DEF n, k
    <3> QED BY <2>1, <2>3, <3>1
  <2>7. \A i \in (k + 1)..n : list[i] # first
    <3> HIDE DEF n, k
    <3> QED BY <1>1, <2>1, <2>6 DEF IsInjective, first
  <2> HIDE DEF rest, n, k
  <2>8. Range(list) = {first} \cup Range(rest) /\ first \notin Range(rest)
    BY <2>5, <2>6, <2>7 DEF first
  <2> QED BY <2>3, <2>5, <2>8 DEF rest, n, k
<1> QED BY <1>2, <1>3

LEMMA ReleasePlaces ==
    ASSUME ProcessInv, ListTypes, PlaceInv, NEW s \in Semid, ReleaseSemaphore(s)
    PROVE  \/ StepsWell
           \/ status' # "running" /\ UNCHANGED present /\ ~SemaphoreBalance
<1> DEFINE count == semaphore_array[s].count + 1
           list == semaphore_array[s].waiting_list
           served == IF count > 0 \/ list = <<>> THEN <<>> ELSE <<Head(list)>>
           rest == SubSeq(list, Len(served) + 1, Len(list))
           new == [semaphore_array[s] EXCEPT !.count = count, !.waiting_list = rest]
           queue == AddToList(ready_queue, served, present)
           members == Range(queue) \cup ({execution_index} \cap present')
<1>1. /\ Running /\ semaphore_array[s].is_present
      /\ UNCHANGED <<present, father_id, waiting, timer_list>>
      /\ semaphore_array' = [semaphore_array EXCEPT ![s] = new]
      /\ IF count <= 0 /\ list = <<>>
         THEN EmptyPop
         ELSE Schedule(queue, scheduler_timer_ticks)
  BY DEF ReleaseSemaphore, Release, Caller, processVars, ListTypes
<1>2. CASE count <= 0 /\ list = <<>>
  <2>1. status' # "running" /\ UNCHANGED present
    BY <1>1, <1>2 DEF EmptyPop
  <2>2. semaphore_array[s] \in Descriptor
    BY DEF ListTypes
  <2>3. semaphore_array[s].count \in Int /\ Len(list) = 0
    BY <1>2, <2>2, EmptySeq DEF Descriptor
  <2>4. SemaphoreBalance =>
          Len(list) = IF semaphore_array[s].count < 0 THEN -semaphore_array[s].count ELSE 0
    BY <1>1 DEF SemaphoreBalance
  <2>5. semaphore_array[s].count < 0 /\ -semaphore_array[s].count # 0
    BY <1>2, <2>3
  <2> HIDE DEF list
  <2> QED BY <2>1, <2>3, <2>4, <2>5
<1>3. CASE ~(count <= 0 /\ list = <<>>)
  <2>1. Schedule(queue, scheduler_timer_ticks)
    BY <1>1, <1>3
  <2>2. /\ execution_index \in present /\ execution_index \in Pid
        /\ present \subseteq Pid
        /\ ready_queue \in Seq(Pid) /\ IsInjective(ready_queue)
        /\ execution_index \notin Range(ready_queue)
        /\ Ready = {execution_index} \cup Range(ready_queue)
        /\ Range(ready_queue) \subseteq present
        /\ 0 \in Ready /\ father_id[0] = NoProcess
        /\ WaitsOnce /\ NoStaleWaiters /\ OwnJoins
        /\ Placed(present, Ready, Asleep, Joiners, Queued)
    BY <1>1, RunningPlaces
  <2>3. /\ semaphore_array[s] \in Descriptor /\ list \in Seq(Pid) /\ IsInjective(list)
        /\ Queued[s] = Range(list)
    BY <2>2 DEF ListTypes, Descriptor, WaitsOnce, Queued
  <2>4. served = <<>> \/ (list # <<>> /\ served = <<Head(list)>>)
    OBVIOUS
  <2> HIDE DEF list, count, served
  <2>5. /\ served \in Seq(Pid) /\ IsInjective(served)
        /\ IsInjective(rest)
        /\ Range(served) \cap Range(rest) = {}
        /\ Range(served) \cup Range(rest) = Queued[s]
    BY <2>3, <2>4, ServedMembers
  <2> HIDE DEF rest
  <2>6. new.is_present /\ new.waiting_list = rest
    BY <1>1, <2>3 DEF Descriptor
  <2> HIDE DEF new
  <2>7. /\ Queued'[s] = Range(rest)
        /\ \A t \in Semid : t # s => Queued'[t] = Queued[t]
        /\ Asleep' = Asleep /\ Joiners' = Joiners
        /\ WaitsOnce' /\ NoStaleWaiters' /\ OwnJoins'
    BY <1>1, <2>2, <2>5, <2>6, OneSemaphore
  <2>8. /\ Range(served) \subseteq Queued[s] /\ Range(served) \subseteq present
        /\ \A p \in Range(served) : p \notin Ready
    <3>1. Range(served) \subseteq Queued[s] /\ Queued[s] \subseteq present
      BY <2>2, <2>5 DEF Placed
    <3>2. \A p \in Pid : p \in Queued[s] => p \notin Ready
      BY <2>2 DEF Placed
    <3> QED BY <2>2, <3>1, <3>2
  <2>9. /\ queue \in Seq(Pid) /\ IsInjective(queue)
        /\ Range(queue) = Range(ready_queue) \cup Range(served)
    <3>1. Range(ready_queue) \cap Range(served) = {} /\ Range(served) \cap present = Range(served)
      BY <2>2, <2>8
    <3> QED BY <2>2, <2>5, <3>1, AddToListMembers
  <2> HIDE DEF queue
  <2>10. /\ members = Ready \cup Range(served) /\ execution_index \notin Range(queue)
         /\ Range(queue) \subseteq present'
    BY <1>1, <2>2, <2>8, <2>9
  <2>11. Dispatches(members)
    BY <1>1, <2>1, <2>2, <2>9, <2>10, ScheduleDispatches
  <2> HIDE DEF members
  <2>12. Placed(present', members, Asleep', Joiners', Queued')
    <3> DEFINE after == Queued'
               woken == Range(served)
    <3>1. /\ woken \cap after[s] = {} /\ woken \cup after[s] = Queued[s]
          /\ \A t \in Semid : t # s => after[t] = Queued[t]
      BY <2>5, <2>7
    <3> HIDE DEF after, woken
    <3>2. Placed(present, Ready \cup woken, Asleep, Joiners, after)
      BY <2>2, <3>1, MoveServed
    <3> QED BY <1>1, <2>7, <2>10, <3>2 DEF after, woken
  <2>13. PlaceInv'
    BY <1>1, <2>2, <2>7, <2>10, <2>11, <2>12, PlaceInvFollows
  <2> QED BY <1>1, <2>11, <2>13, NobodyDies DEF StepsWell, Dispatches
<1> QED BY <1>2, <1>3

-----------------------------------------------------------------------------
(* The invariant is inductive.                                             *)

LEMMA InitPlaces == Init => PlaceInv
<1> SUFFICES ASSUME Init PROVE PlaceInv
  OBVIOUS
<1> DEFINE n == Len(BootLevels)
<1>1. n \in Nat /\ n < MAX_PROCESS_NUMBER /\ MAX_PROCESS_NUMBER \in Nat
  BY BootAssumption, SizeAssumption
<1>2. /\ present = 0..n /\ father_id = [p \in Pid |-> IF p \in Booted THEN NoProcess ELSE 0]
      /\ waiting = [p \in Pid |-> <<>>] /\ timer_list = <<>>
      /\ execution_index = NoProcess
      /\ ready_queue = [k \in 1..(n + 1) |-> k - 1]
      /\ semaphore_array = [s \in Semid |-> [is_present |-> FALSE, count |-> 0,
                           creator_id |-> 0, waiting_list |-> <<>>]]
  BY DEF Init, Booted
<1>3. NoProcess \notin Pid /\ present \subseteq Pid /\ 0 \in Pid /\ 0 \in Booted
  BY <1>1, <1>2 DEF NoProcess, Pid, Booted
<1> HIDE DEF n
<1>4. IsInjective(ready_queue) /\ Range(ready_queue) = present
  <2>1. IsInjective(ready_queue)
    BY <1>2 DEF IsInjective
  <2>2. \A k \in 1..(n + 1) : k - 1 \in 0..n
    BY <1>1
  <2>3. \A p \in 0..n : p + 1 \in 1..(n + 1) /\ (p + 1) - 1 = p
    BY <1>1
  <2>4. \A p \in 0..n : p \in Range(ready_queue)
    <3> SUFFICES ASSUME NEW p \in 0..n PROVE \E k \in 1..(n + 1) : ready_queue[k] = p
      BY <1>2 DEF Range
    <3>1. p + 1 \in 1..(n + 1) /\ ready_queue[p + 1] = p
      BY <1>2, <2>3
    <3> QED BY <3>1
  <2> QED BY <1>2, <2>1, <2>2, <2>4 DEF Range
<1>5. Ready = present
  BY <1>2, <1>3, <1>4 DEF Ready
<1>6. /\ Asleep = {} /\ IsInjective(Ids(timer_list))
      /\ \A q \in Pid : Joiners[q] = {} /\ IsInjective(waiting[q]) /\ waiting[q] = <<>>
      /\ \A s \in Semid : /\ Queued[s] = {}
                          /\ semaphore_array[s].waiting_list = <<>>
                          /\ IsInjective(semaphore_array[s].waiting_list)
  <2>1. Ids(<<>>) = <<>>
    BY DEF Ids
  <2> QED BY <1>2, <2>1, EmptyMembers DEF Asleep, Joiners, Queued
<1>7. Placed(present, present, Asleep, Joiners, Queued)
  BY <1>3, <1>6 DEF Placed
<1>8. WaitsOnce /\ NoStaleWaiters /\ OwnJoins
  BY <1>3, <1>6, EmptyMembers DEF WaitsOnce, NoStaleWaiters, OwnJoins
<1>9. InitIsReady
  BY <1>1, <1>2, <1>3, <1>5 DEF InitIsReady
<1> QED BY <1>2, <1>3, <1>4, <1>5, <1>7, <1>8, <1>9 DEF PlaceInv

\* How a step ends the run of the kernel.
Ends ==
    \/ status' = "panic" /\ UNCHANGED present
    \/ Overflows
    \/ status' # "running" /\ UNCHANGED present /\ ~SemaphoreBalance

\* What any step does: it keeps the lists, or it ends in a state that is no
\* longer running, or it is no step of the kernel.
LEMMA NextPlaces ==
    ASSUME JoinsAreSafe, ProcessInv, ListTypes, PlaceInv, [Next]_vars
    PROVE  StepsWell \/ Ends \/ UNCHANGED vars
<1>1. CASE EnterMultitasking
  BY <1>1, EnterPlaces
<1>2. CASE ClockInterrupt
  BY <1>2, ClockPlaces
<1>3. ASSUME NEW ticks \in SleepTicks, Sleep(ticks) PROVE StepsWell
  BY <1>3, SleepPlaces
<1>4. CASE Exit
  BY <1>4, ExitPlaces
<1>5. CASE Fault
  <2>1. Running /\ execution_index # 0 /\ "join" \notin Calls /\ Abort
    BY <1>5 DEF Fault, Caller, JoinsAreSafe
  <2> QED BY <2>1, AbortPlaces DEF Ends
<1>6. CASE Fork
  BY <1>6, ForkPlaces
<1>7. ASSUME NEW target \in Pid, Join(target) PROVE StepsWell
  BY <1>7, JoinPlaces
<1>8. ASSUME NEW target \in Pid, Signal(target) PROVE StepsWell
  BY <1>8, KillPlaces DEF Signal, Caller
<1>9. ASSUME NEW c \in StartCounts, CreateSemaphore(c)
      PROVE  StepsWell \/ Ends
  BY <1>9, CreatePlaces DEF Ends
<1>10. ASSUME NEW s \in Semid \cup {MAX_SEMAPHORE_NUMBER}, AcquireSemaphore(s)
       PROVE  StepsWell \/ Ends
  BY <1>10, AcquirePlaces DEF Ends
<1>11. ASSUME NEW s \in Semid, ReleaseSemaphore(s)
       PROVE  StepsWell \/ Ends
  BY <1>11, ReleasePlaces DEF Ends
<1>12. Halted => UNCHANGED vars
  BY DEF Halted
<1>13. CASE PastAnArray
  BY <1>13, PastAnArrayStep DEF PastTheArray, processVars, Ends, Overflows, OverflowStep
<1> QED
  BY <1>1, <1>2, <1>3, <1>4, <1>5, <1>6, <1>7, <1>8, <1>9, <1>10, <1>11, <1>12, <1>13
  DEF Next, PastAnArray

LEMMA NextKeepsPlaces ==
    JoinsAreSafe /\ ProcessInv /\ ListTypes /\ PlaceInv /\ [Next]_vars => PlaceInv'
<1> SUFFICES ASSUME JoinsAreSafe, ProcessInv, ListTypes, PlaceInv, [Next]_vars PROVE PlaceInv'
  OBVIOUS
<1>1. CASE StepsWell
  BY <1>1 DEF StepsWell
<1>2. CASE Ends
  BY <1>2 DEF Ends, Overflows, PlaceInv
<1>3. CASE UNCHANGED vars
  <2>1. UNCHANGED <<present, father_id, waiting, execution_index, ready_queue,
                    timer_list, semaphore_array, status>>
    BY <1>3 DEF vars, processVars
  <2>2. /\ Ready' = Ready /\ Asleep' = Asleep /\ Joiners' = Joiners /\ Queued' = Queued
    BY <2>1 DEF Ready, Asleep, Joiners, Queued
  <2>3. WaitsOnce' = WaitsOnce /\ NoStaleWaiters' = NoStaleWaiters /\ OwnJoins' = OwnJoins
    BY <2>1 DEF WaitsOnce, NoStaleWaiters, OwnJoins
  <2>4. InitIsReady' = InitIsReady
    BY <2>1, <2>2 DEF InitIsReady
  <2> QED BY <2>1, <2>2, <2>3, <2>4 DEF PlaceInv
<1> QED BY <1>1, <1>2, <1>3, NextPlaces

-----------------------------------------------------------------------------
(* From the groups to the places of a process.                             *)

\* A list without repetitions holds a process at one position, or at none.
LEMMA PositionOnce ==
    ASSUME NEW list \in Seq(Pid), IsInjective(list), NEW p
    PROVE  /\ p \notin Range(list) => Positions(list, p) = {}
           /\ p \in Range(list) => \E i : Positions(list, p) = {i}
<1>1. CASE p \notin Range(list)
  BY <1>1 DEF Range, Positions
<1>2. CASE p \in Range(list)
  <2>1. PICK i \in DOMAIN list : list[i] = p
    BY <1>2 DEF Range
  <2>2. Positions(list, p) = {i}
    BY <2>1 DEF IsInjective, Positions
  <2> QED BY <1>2, <2>2
<1> QED BY <1>1, <1>2

RunningPlace(p) == IF execution_index = p THEN {<<"running">>} ELSE {}
ReadyPlaces(p) == {"ready"} \X Positions(ready_queue, p)
AsleepPlaces(p) == {"asleep"} \X {k \in DOMAIN timer_list : timer_list[k].id = p}
JoinedPlaces(p) == UNION {{"joined"} \X {q} \X Positions(waiting[q], p) : q \in present}
SemaphorePlaces(p) ==
    UNION {{"semaphore"} \X {s} \X Positions(semaphore_array[s].waiting_list, p) : s \in Semid}

LEMMA PlacesSplit ==
    ASSUME NEW p
    PROVE  Places(p) = RunningPlace(p) \cup ReadyPlaces(p) \cup AsleepPlaces(p)
                         \cup JoinedPlaces(p) \cup SemaphorePlaces(p)
BY DEF Places, RunningPlace, ReadyPlaces, AsleepPlaces, JoinedPlaces, SemaphorePlaces

\* The places of each kind: one for a process of the group, none for another.
LEMMA ReadyPlace ==
    ASSUME ready_queue \in Seq(Pid), IsInjective(ready_queue), NEW p
    PROVE  /\ p \notin Range(ready_queue) => ReadyPlaces(p) = {}
           /\ p \in Range(ready_queue) => \E x : ReadyPlaces(p) = {x}
<1>1. CASE p \notin Range(ready_queue)
  BY <1>1, PositionOnce DEF ReadyPlaces
<1>2. CASE p \in Range(ready_queue)
  <2>1. PICK i : Positions(ready_queue, p) = {i}
    BY <1>2, PositionOnce
  <2>2. ReadyPlaces(p) = {<<"ready", i>>}
    BY <2>1 DEF ReadyPlaces
  <2> QED BY <1>2, <2>2
<1> QED BY <1>1, <1>2

LEMMA AsleepPlace ==
    ASSUME ListTypes, IsInjective(Ids(timer_list)), NEW p
    PROVE  /\ p \notin Asleep => AsleepPlaces(p) = {}
           /\ p \in Asleep => \E x : AsleepPlaces(p) = {x}
<1> DEFINE In == {k \in DOMAIN timer_list : timer_list[k].id = p}
<1>1. Ids(timer_list) \in Seq(Pid)
  BY IdsType DEF ListTypes
<1>2. In = Positions(Ids(timer_list), p)
  BY DEF ListTypes, Ids, Positions
<1>3. /\ p \notin Asleep => In = {}
      /\ p \in Asleep => \E i : In = {i}
  <2> HIDE DEF In
  <2> QED BY <1>1, <1>2, PositionOnce DEF Asleep
<1>4. AsleepPlaces(p) = {"asleep"} \X In
  BY DEF AsleepPlaces
<1> HIDE DEF In
<1>5. CASE p \notin Asleep
  BY <1>3, <1>4, <1>5
<1>6. CASE p \in Asleep
  <2>1. PICK i : In = {i}
    BY <1>3, <1>6
  <2>2. AsleepPlaces(p) = {<<"asleep", i>>}
    BY <1>4, <2>1
  <2> QED BY <1>6, <2>2
<1> QED BY <1>5, <1>6

LEMMA JoinedPlace ==
    ASSUME waiting \in [Pid -> Seq(Pid)], present \subseteq Pid,
           \A q \in present : IsInjective(waiting[q]), NEW p
    PROVE  /\ (\A q \in present : p \notin Joiners[q]) => JoinedPlaces(p) = {}
           /\ \A q \in present :
                p \in Joiners[q] /\ (\A r \in present : p \in Joiners[r] => r = q)
                  => \E x : JoinedPlaces(p) = {x}
<1>1. \A q \in present :
        /\ p \notin Joiners[q] => Positions(waiting[q], p) = {}
        /\ p \in Joiners[q] => \E i : Positions(waiting[q], p) = {i}
  BY PositionOnce DEF Joiners
<1>2. ASSUME \A q \in present : p \notin Joiners[q] PROVE JoinedPlaces(p) = {}
  BY <1>1, <1>2 DEF JoinedPlaces
<1>3. ASSUME NEW q \in present, p \in Joiners[q],
             \A r \in present : p \in Joiners[r] => r = q
      PROVE  \E x : JoinedPlaces(p) = {x}
  <2>1. PICK i : Positions(waiting[q], p) = {i}
    BY <1>1, <1>3
  <2>2. \A r \in present : r # q => Positions(waiting[r], p) = {}
    BY <1>1, <1>3
  <2>3. \A x : x \in JoinedPlaces(p) <=>
          \E r \in present : x \in {"joined"} \X {r} \X Positions(waiting[r], p)
    BY DEF JoinedPlaces
  <2>4. \A x : x \in JoinedPlaces(p) <=> x \in {"joined"} \X {q} \X {i}
    <3>1. \A x : x \in JoinedPlaces(p) => x \in {"joined"} \X {q} \X {i}
      <4> SUFFICES ASSUME NEW x, NEW r \in present,
                          x \in {"joined"} \X {r} \X Positions(waiting[r], p)
                   PROVE  x \in {"joined"} \X {q} \X {i}
        BY <2>3
      <4>1. r = q
        BY <2>2
      <4> QED BY <2>1, <4>1
    <3>2. \A x : x \in {"joined"} \X {q} \X {i} => x \in JoinedPlaces(p)
      BY <1>3, <2>1, <2>3
    <3> QED BY <3>1, <3>2
  <2>5. {"joined"} \X {q} \X {i} = {<<"joined", q, i>>}
    OBVIOUS
  <2>6. JoinedPlaces(p) = {<<"joined", q, i>>}
    BY <2>4, <2>5
  <2> QED BY <2>6
<1> QED BY <1>2, <1>3

LEMMA SemaphorePlace ==
    ASSUME semaphore_array \in [Semid -> Descriptor],
           \A s \in Semid : IsInjective(semaphore_array[s].waiting_list), NEW p
    PROVE  /\ (\A s \in Semid : p \notin Queued[s]) => SemaphorePlaces(p) = {}
           /\ \A s \in Semid :
                p \in Queued[s] /\ (\A t \in Semid : p \in Queued[t] => t = s)
                  => \E x : SemaphorePlaces(p) = {x}
<1>0. \A s \in Semid : semaphore_array[s].waiting_list \in Seq(Pid)
  BY DEF Descriptor
<1>1. \A s \in Semid :
        /\ p \notin Queued[s] => Positions(semaphore_array[s].waiting_list, p) = {}
        /\ p \in Queued[s] => \E i : Positions(semaphore_array[s].waiting_list, p) = {i}
  BY <1>0, PositionOnce DEF Queued
<1>2. ASSUME \A s \in Semid : p \notin Queued[s] PROVE SemaphorePlaces(p) = {}
  BY <1>1, <1>2 DEF SemaphorePlaces
<1>3. ASSUME NEW s \in Semid, p \in Queued[s],
             \A t \in Semid : p \in Queued[t] => t = s
      PROVE  \E x : SemaphorePlaces(p) = {x}
  <2>1. PICK i : Positions(semaphore_array[s].waiting_list, p) = {i}
    BY <1>1, <1>3
  <2>2. \A t \in Semid : t # s => Positions(semaphore_array[t].waiting_list, p) = {}
    BY <1>1, <1>3
  <2>3. \A x : x \in SemaphorePlaces(p) <=>
          \E t \in Semid : x \in {"semaphore"} \X {t} \X Positions(semaphore_array[t].waiting_list, p)
    BY DEF SemaphorePlaces
  <2>4. \A x : x \in SemaphorePlaces(p) <=> x \in {"semaphore"} \X {s} \X {i}
    BY <1>3, <2>1, <2>2, <2>3
  <2>5. {"semaphore"} \X {s} \X {i} = {<<"semaphore", s, i>>}
    OBVIOUS
  <2>6. SemaphorePlaces(p) = {<<"semaphore", s, i>>}
    BY <2>4, <2>5
  <2> QED BY <2>6
<1> QED BY <1>2, <1>3

\* A list holds a process when the process occurs in it.
LEMMA OccursInRange ==
    ASSUME NEW list \in Seq(Pid), NEW p
    PROVE  Occurrences(list, p) > 0 <=> p \in Range(list)
<1> DEFINE places == {k \in DOMAIN list : list[k] = p}
<1>1. IsFiniteSet(places)
  <2>1. IsFiniteSet(1..Len(list)) /\ DOMAIN list = 1..Len(list)
    BY LenProperties, FS_Interval
  <2> QED BY <2>1, FS_Subset
<1>2. Occurrences(list, p) = Cardinality(places)
  BY DEF Occurrences
<1>3. places = {} <=> p \notin Range(list)
  BY DEF Range
<1> HIDE DEF places
<1>4. Cardinality(places) \in Nat /\ (Cardinality(places) = 0 <=> places = {})
  BY <1>1, FS_CardinalityType, FS_EmptySet
<1> QED BY <1>2, <1>3, <1>4

\* Each process that is alive has a place of one kind, unless it is idle and
\* waits in no list.
LEMMA PlacesCounted ==
    ASSUME ListTypes, Running, present \subseteq Pid, IsInjective(ready_queue),
           execution_index \notin Range(ready_queue), WaitsOnce,
           NEW idle, idle \cap Asleep = {},
           Placed(present, Ready, Asleep \cup idle, Joiners, Queued), NEW p \in Pid
    PROVE  Cardinality(Places(p)) = IF p \in present \ idle THEN 1 ELSE 0
<1>1. /\ ready_queue \in Seq(Pid) /\ execution_index \in Pid
      /\ Ready = {execution_index} \cup Range(ready_queue)
  BY DEF ListTypes, SchedulerTypes, Running, Ready
<1>2. /\ waiting \in [Pid -> Seq(Pid)]
      /\ semaphore_array \in [Semid -> Descriptor]
      /\ IsInjective(Ids(timer_list))
      /\ \A q \in present : IsInjective(waiting[q])
      /\ \A s \in Semid : IsInjective(semaphore_array[s].waiting_list)
  BY DEF ListTypes, WaitsOnce
<1> DEFINE joined == \E q \in present : p \in Joiners[q]
           queues == \E s \in Semid : p \in Queued[s]
<1>3. /\ RunningPlace(p) = {} \/ RunningPlace(p) = {<<"running">>}
      /\ execution_index # p <=> RunningPlace(p) = {}
  BY DEF RunningPlace
<1>4. /\ p \notin Range(ready_queue) => ReadyPlaces(p) = {}
      /\ p \in Range(ready_queue) => \E x : ReadyPlaces(p) = {x}
  BY <1>1, ReadyPlace
<1>5. /\ p \notin Asleep => AsleepPlaces(p) = {}
      /\ p \in Asleep => \E x : AsleepPlaces(p) = {x}
  BY <1>2, AsleepPlace
<1>6. /\ ~joined => JoinedPlaces(p) = {}
      /\ joined => \E x : JoinedPlaces(p) = {x}
  <2>1. \A q, r \in present : p \in Joiners[q] /\ p \in Joiners[r] => r = q
    BY DEF Placed
  <2>2. CASE ~joined
    BY <1>1, <1>2, <2>2, JoinedPlace
  <2>3. CASE joined
    <3>1. PICK q \in present : p \in Joiners[q]
      BY <2>3
    <3>2. \E x : JoinedPlaces(p) = {x}
      BY <1>1, <1>2, <2>1, <3>1, JoinedPlace
    <3> QED BY <2>3, <3>2
  <2> HIDE DEF joined
  <2> QED BY <2>2, <2>3
<1>7. /\ ~queues => SemaphorePlaces(p) = {}
      /\ queues => \E x : SemaphorePlaces(p) = {x}
  <2>1. \A s, t \in Semid : p \in Queued[s] /\ p \in Queued[t] => t = s
    BY DEF Placed
  <2>2. CASE ~queues
    BY <1>2, <2>2, SemaphorePlace
  <2>3. CASE queues
    <3>1. PICK s \in Semid : p \in Queued[s]
      BY <2>3
    <3>2. \E x : SemaphorePlaces(p) = {x}
      BY <1>2, <2>1, <3>1, SemaphorePlace
    <3> QED BY <2>3, <3>2
  <2> HIDE DEF queues
  <2> QED BY <2>2, <2>3
<1>8. Places(p) = RunningPlace(p) \cup ReadyPlaces(p) \cup AsleepPlaces(p)
                    \cup JoinedPlaces(p) \cup SemaphorePlaces(p)
  BY PlacesSplit
<1> DEFINE busy == present \ idle
<1>9. /\ p \in Ready => p \in busy /\ p \notin Asleep /\ ~joined /\ ~queues
      /\ p \in Asleep => p \in busy /\ p \notin Ready /\ ~joined /\ ~queues
      /\ joined => p \in busy /\ p \notin Ready /\ p \notin Asleep /\ ~queues
      /\ queues => p \in busy /\ p \notin Ready /\ p \notin Asleep /\ ~joined
      /\ p \in busy => p \in Ready \/ p \in Asleep \/ joined \/ queues
  BY DEF Placed
<1>10. p \in Ready <=> (execution_index = p \/ p \in Range(ready_queue))
  BY <1>1
<1> HIDE DEF joined, queues, busy
<1>11. CASE p \notin busy
  <2>1. Places(p) = {}
    BY <1>3, <1>4, <1>5, <1>6, <1>7, <1>8, <1>9, <1>10, <1>11
  <2> QED BY <1>11, <2>1, FS_EmptySet DEF busy
<1>12. CASE p \in busy
  <2>1. \E x : Places(p) = {x}
    <3>1. CASE execution_index = p
      <4>1. Places(p) = RunningPlace(p)
        BY <1>1, <1>4, <1>5, <1>6, <1>7, <1>8, <1>9, <1>10, <3>1
      <4> QED BY <1>3, <3>1, <4>1
    <3>2. CASE p \in Range(ready_queue)
      <4>1. Places(p) = ReadyPlaces(p)
        BY <1>1, <1>3, <1>5, <1>6, <1>7, <1>8, <1>9, <1>10, <3>2
      <4> QED BY <1>4, <3>2, <4>1
    <3>3. CASE p \in Asleep
      <4>1. Places(p) = AsleepPlaces(p)
        BY <1>3, <1>4, <1>6, <1>7, <1>8, <1>9, <1>10, <3>3
      <4> QED BY <1>5, <3>3, <4>1
    <3>4. CASE joined
      <4>1. Places(p) = JoinedPlaces(p)
        BY <1>3, <1>4, <1>5, <1>7, <1>8, <1>9, <1>10, <3>4
      <4> QED BY <1>6, <3>4, <4>1
    <3>5. CASE queues
      <4>1. Places(p) = SemaphorePlaces(p)
        BY <1>3, <1>4, <1>5, <1>6, <1>8, <1>9, <1>10, <3>5
      <4> QED BY <1>7, <3>5, <4>1
    <3> QED BY <1>9, <1>10, <1>12, <3>1, <3>2, <3>3, <3>4, <3>5
  <2>2. PICK x : Places(p) = {x}
    BY <2>1
  <2> QED BY <1>12, <2>2, FS_Singleton DEF busy
<1> QED BY <1>11, <1>12

LEMMA PlacedOnce ==
    ASSUME ProcessInv, ListTypes, PlaceInv, Running
    PROVE  OnePlace
<1>1. /\ present \subseteq Pid /\ IsInjective(ready_queue)
      /\ execution_index \notin Range(ready_queue) /\ WaitsOnce
      /\ Placed(present, Ready, Asleep, Joiners, Queued)
  BY RunningPlaces
<1>2. {} \cap Asleep = {} /\ Asleep \cup {} = Asleep /\ present \ {} = present
  OBVIOUS
<1>3. ASSUME NEW p \in Pid PROVE Cardinality(Places(p)) = IF p \in present \ {} THEN 1 ELSE 0
  BY <1>1, <1>2, PlacesCounted
<1> QED BY <1>2, <1>3 DEF OnePlace

-----------------------------------------------------------------------------
(* What it takes for a step to have no defined result.                     *)

\* Programs that create no semaphore find none.
NoSemaphores ==
    "create_semaphore" \notin Calls => \A s \in Semid : ~semaphore_array[s].is_present

\* The steps past the end of an array are the ones that leave the kernel in no
\* defined state.
OnlyOverflows ==
    [][status # "undefined" /\ status' = "undefined" => OverflowStep]_vars

LEMMA InitSemaphores == Init => NoSemaphores /\ Defined /\ SemaphoreBalance
BY DEF Init, NoSemaphores, Defined, SemaphoreBalance

LEMMA NextNoSemaphores ==
    ASSUME ListTypes, NoSemaphores, [Next]_vars
    PROVE  NoSemaphores'
<1> SUFFICES ASSUME "create_semaphore" \notin Calls, NEW s \in Semid
             PROVE  ~semaphore_array'[s].is_present
  BY DEF NoSemaphores
<1>1. \A t \in Semid : ~semaphore_array[t].is_present
  BY DEF NoSemaphores
<1>2. CASE UNCHANGED semaphore_array
  BY <1>1, <1>2
<1>3. ASSUME NEW id, Destroy(id) PROVE ~semaphore_array'[s].is_present
  <2>1. semaphore_array'[s] = SemaphoreAfter(s, present \ Family(id))
    BY <1>3 DEF Destroy
  <2>2. ~Closing(s)
    BY <1>1 DEF Closing
  <2>3. SemaphoreAfter(s, present \ Family(id)) = semaphore_array[s]
    BY <1>1, <2>2 DEF SemaphoreAfter
  <2> QED BY <1>1, <2>1, <2>3
<1>4. Abort => (UNCHANGED semaphore_array \/ Destroy(execution_index))
  BY DEF Abort
<1>5. CASE Exit \/ Fault \/ \E target \in Pid : Signal(target)
  BY <1>2, <1>3, <1>4, <1>5 DEF Exit, Fault, Signal, Kill
<1>6. ASSUME NEW t \in Semid \cup {MAX_SEMAPHORE_NUMBER}, AcquireSemaphore(t)
      PROVE  ~semaphore_array'[s].is_present
  <2>1. t \notin Semid \/ ~semaphore_array[t].is_present
    BY <1>1
  <2>2. Abort
    BY <1>6, <2>1 DEF AcquireSemaphore
  <2> QED BY <1>2, <1>3, <1>4, <2>2
<1>7. /\ \A c \in StartCounts : ~CreateSemaphore(c)
      /\ \A t \in Semid : ~ReleaseSemaphore(t)
  BY <1>1 DEF CreateSemaphore, ReleaseSemaphore, Release, Caller
<1>8. \/ EnterMultitasking \/ ClockInterrupt \/ Fork \/ Halted \/ UNCHANGED vars
      \/ \E ticks \in SleepTicks : Sleep(ticks)
      \/ \E target \in Pid : Join(target)
      => UNCHANGED semaphore_array
  BY DEF EnterMultitasking, ClockInterrupt, Fork, Halted, Sleep, Join, JoinProcess, vars
<1>9. PastAnArray => UNCHANGED semaphore_array
  BY PastAnArrayStep DEF PastTheArray
<1> QED BY <1>2, <1>5, <1>6, <1>7, <1>8, <1>9 DEF Next, PastAnArray

LEMMA NextUndefined ==
    ASSUME JoinsAreSafe, ProcessInv, ListTypes, PlaceInv, SemaphoreBalance,
           Defined, [Next]_vars, ~Defined'
    PROVE  OverflowStep
<1>1. ~StepsWell /\ ~UNCHANGED vars
  BY DEF StepsWell, vars, Defined
<1>2. Ends /\ status' = "undefined"
  BY <1>1, NextPlaces DEF Defined
<1> QED BY <1>2 DEF Ends, Overflows

-----------------------------------------------------------------------------
(* The theorems.                                                           *)

\* Every state has the invariants above.
THEOREM PlaceInvariant ==
    ASSUME JoinsAreSafe
    PROVE  Spec => [](ProcessInv /\ ListTypes /\ PlaceInv)
<1>1. Spec => []ProcessInv
  BY ProcessInvariant
<1>2. Spec => []ListTypes
  BY <1>1, InitListTypes, NextListTypes, PTL DEF Spec
<1>3. ProcessInv /\ ListTypes /\ PlaceInv /\ [Next]_vars => PlaceInv'
  BY NextKeepsPlaces
<1> QED BY <1>1, <1>2, <1>3, InitPlaces, PTL DEF Spec

\* The links of the source tie no two lists together and lose no process: as
\* long as the kernel runs, every process runs, is ready, or waits for one thing.
THEOREM EveryProcessHasOnePlace ==
    ASSUME JoinsAreSafe
    PROVE  Spec => []OnePlace
<1>1. ProcessInv /\ ListTypes /\ PlaceInv => OnePlace
  <2>1. CASE Running
    BY <2>1, PlacedOnce
  <2>2. CASE ~Running
    BY <2>2 DEF OnePlace
  <2> QED BY <2>1, <2>2
<1> QED BY <1>1, PlaceInvariant, PTL

\* With semaphores that start at zero or more, no list is ever read while empty
\* and no process linked into two: what leaves the lists or the memory in no
\* defined state is a step past the end of an array, and nothing else.
THEOREM OnlyOverflowIsUndefined ==
    ASSUME JoinsAreSafe, StartCounts \subseteq Nat
    PROVE  Spec => OnlyOverflows
<1>1. ProcessInv /\ ListTypes /\ PlaceInv /\ SemaphoreBalance /\ [Next]_vars
        => (status # "undefined" /\ status' = "undefined" => OverflowStep)
  BY NextUndefined DEF Defined
<1>2. Spec => []SemaphoreBalance
  BY SemaphoresStayBalanced
<1> QED BY <1>1, <1>2, PlaceInvariant, PTL DEF Spec, OnlyOverflows

\* When programs create no semaphore and give join() and release_semaphore()
\* ids of the array, what the code does to its lists is always defined, and
\* every process is in one place.
THEOREM ListsAreSound ==
    ASSUME JoinsAreSafe, "create_semaphore" \notin Calls, IdsInRange
    PROVE  Spec => []ListsOK
<1>1. Init => NoSemaphores /\ Defined
  BY InitSemaphores
<1>2. NoSemaphores => SemaphoreBalance
  BY DEF NoSemaphores, SemaphoreBalance
<1>3. ~OverflowStep
  BY PastAnArrayStep DEF OverflowStep, CreateSemaphore, Caller, PastTheArray
<1>4. ProcessInv /\ ListTypes /\ PlaceInv /\ NoSemaphores /\ Defined /\ [Next]_vars
        => NoSemaphores' /\ Defined'
  BY <1>2, <1>3, NextNoSemaphores, NextUndefined
<1>5. Defined /\ OnePlace => ListsOK
  BY DEF ListsOK
<1> QED BY <1>1, <1>4, <1>5, PlaceInvariant, EveryProcessHasOnePlace, PTL DEF Spec

\* When programs join their own children and make no call that aborts them,
\* join() returns as soon as the process it names has died: by its exit(), by a
\* signal that kills it, or with the family of another one.
THEOREM JoinsReturn ==
    ASSUME JoinsAreSafe
    PROVE  Spec => JoinReturns
<1> DEFINE Returns ==
      \A target \in present : target \notin present' =>
        \A p \in present' : Occurrences(waiting[target], p) > 0 =>
          execution_index' = p \/ Occurrences(ready_queue', p) > 0
<1>1. ProcessInv /\ ListTypes /\ PlaceInv /\ ListTypes' /\ [Next]_vars => Returns
  <2> SUFFICES ASSUME ProcessInv, ListTypes, ListTypes', PlaceInv, [Next]_vars,
                      NEW target \in present, target \notin present',
                      NEW p \in present', Occurrences(waiting[target], p) > 0
               PROVE  execution_index' = p \/ Occurrences(ready_queue', p) > 0
    OBVIOUS
  <2>1. target \in Pid /\ waiting[target] \in Seq(Pid) /\ ready_queue' \in Seq(Pid)
    BY DEF ProcessInv, ProcessTypes, ListTypes, SchedulerTypes
  <2>2. p \in Range(waiting[target])
    BY <2>1, OccursInRange
  <2>3. StepsWell
    BY NextPlaces DEF Ends, Overflows, vars, processVars
  <2>4. execution_index' = p \/ p \in Range(ready_queue')
    BY <2>2, <2>3 DEF StepsWell, JoinersReturn
  <2> QED BY <2>1, <2>4, OccursInRange
<1> QED BY <1>1, PlaceInvariant, PTL DEF JoinReturns, Spec

-----------------------------------------------------------------------------
(* The timer list implements Sleepers.                                     *)

\* What a step can do to the timer list and to the processes at once.
TimerStep ==
    \/ UNCHANGED <<present, timer_list>>
    \/ /\ \E slot \in Pid \ present : present' = present \cup {slot}
       /\ UNCHANGED timer_list
    \/ /\ Running
       /\ UNCHANGED present
       /\ \E ticks \in SleepTicks : timer_list' = AddTimer(timer_list, execution_index, ticks)
    \/ /\ Running
       /\ UNCHANGED present
       /\ timer_list' = NotDue(Countdown(timer_list), DueCount(Countdown(timer_list)))
    \/ /\ Running
       /\ present' \subseteq present
       /\ timer_list' = CleanTimers(timer_list, present')

LEMMA NextIsTimerStep ==
    ASSUME ListTypes, [Next]_vars
    PROVE  TimerStep
<1>0. timer_list \in Seq([id : Pid, ticks : Ticks])
  BY DEF ListTypes
<1>1. CASE ClockInterrupt
  <2>1. Len(Countdown(timer_list)) = Len(timer_list)
    BY <1>0, CountdownType
  <2> QED BY <1>1, <2>1 DEF ClockInterrupt, TimerStep, NotDue, processVars
<1>2. ASSUME NEW ticks \in SleepTicks, Sleep(ticks) PROVE TimerStep
  BY <1>2 DEF Sleep, Caller, TimerStep, processVars
<1>3. ASSUME Running, NEW id, Destroy(id) PROVE TimerStep
  BY <1>3 DEF Destroy, TimerStep
<1>4. ASSUME Running, Abort PROVE TimerStep
  BY <1>3, <1>4 DEF Abort, TimerStep, processVars
<1>5. CASE Exit \/ Fault \/ \E target \in Pid : Signal(target)
  BY <1>3, <1>4, <1>5 DEF Exit, Fault, Signal, Kill, Caller
<1>6. CASE Fork
  BY <1>6 DEF Fork, CreateProcess, TimerStep, processVars
<1>7. ASSUME NEW s \in Semid \cup {MAX_SEMAPHORE_NUMBER}, AcquireSemaphore(s) PROVE TimerStep
  BY <1>4, <1>7 DEF AcquireSemaphore, Caller, TimerStep, processVars
<1>8. ASSUME \/ EnterMultitasking \/ Halted \/ UNCHANGED vars
             \/ \E target \in Pid : Join(target)
             \/ \E starting_count \in StartCounts : CreateSemaphore(starting_count)
             \/ \E s \in Semid : ReleaseSemaphore(s)
      PROVE  TimerStep
  BY <1>8 DEF EnterMultitasking, Halted, Join, JoinProcess, CreateSemaphore, ReleaseSemaphore, Release,
              TimerStep, vars, processVars
<1>9. CASE PastAnArray
  BY <1>9, PastAnArrayStep DEF PastTheArray, TimerStep, processVars
<1> QED BY <1>1, <1>2, <1>5, <1>6, <1>7, <1>8, <1>9 DEF Next, PastAnArray

\* The countdowns run from the start to the end of the kernel's run, and each
\* step is one of the steps that Sleepers allows.
LEMMA StepSleepers ==
    ASSUME 0 \notin SleepTicks, ProcessInv, ListTypes, PlaceInv, InTime(timer_list),
           [Next]_vars
    PROVE  [Sleepers!Next]_(Sleepers!vars) /\ InTime(timer_list)'
<1> DEFINE left == TicksLeft(timer_list)
           left_next == TicksLeft(timer_list')
<1>1. Remaining = left /\ Remaining' = left_next
  BY DEF Remaining, TicksLeft
<1> HIDE DEF left, left_next
<1>2. TimerStep
  BY NextIsTimerStep
<1>3. CASE UNCHANGED <<present, timer_list>>
  BY <1>1, <1>3 DEF Sleepers!vars, left, left_next, InTime
<1>4. CASE UNCHANGED timer_list /\ \E slot \in Pid \ present : present' = present \cup {slot}
  <2>1. left_next = left /\ InTime(timer_list)'
    BY <1>4 DEF left, left_next, InTime
  <2>2. PICK slot \in Pid \ present : present' = present \cup {slot}
    BY <1>4
  <2>3. Sleepers!Create(slot)
    BY <1>1, <2>1, <2>2 DEF Sleepers!Create
  <2> QED BY <2>1, <2>3 DEF Sleepers!Next
<1>5. ASSUME Running
      PROVE  /\ Countdowns(timer_list) /\ execution_index \in present
             /\ execution_index \in Pid /\ execution_index \notin Range(Ids(timer_list))
             /\ Range(Ids(timer_list)) \subseteq present
  <2>1. /\ execution_index \in present /\ execution_index \in Pid
        /\ execution_index \in Ready /\ WaitsOnce
        /\ Placed(present, Ready, Asleep, Joiners, Queued)
    BY <1>5, RunningPlaces
  <2>2. execution_index \notin Asleep /\ Asleep \subseteq present
    <3> HIDE DEF Ready, Asleep, Joiners, Queued
    <3> QED BY <2>1 DEF Placed
  <2> QED BY <2>1, <2>2 DEF Asleep, WaitsOnce, Countdowns, ListTypes
<1>6. ASSUME Running, UNCHANGED present, NEW ticks \in SleepTicks,
             timer_list' = AddTimer(timer_list, execution_index, ticks)
      PROVE  [Sleepers!Next]_(Sleepers!vars) /\ InTime(timer_list)'
  <2>1. ticks \in Ticks \ {0}
    BY WorkloadAssumption DEF Ticks
  <2>2. /\ Countdowns(timer_list') /\ left[execution_index] = 0
        /\ left_next = [left EXCEPT ![execution_index] = ticks]
    BY <1>5, <1>6, <2>1, AddedCountdown DEF left, left_next
  <2>3. Sleepers!Sleep(execution_index, ticks)
    BY <1>1, <1>5, <1>6, <2>2 DEF Sleepers!Sleep
  <2>4. InTime(timer_list)'
    BY <2>2 DEF Countdowns, InTime
  <2> QED BY <1>5, <1>6, <2>3, <2>4 DEF Sleepers!Next
<1>7. CASE /\ Running /\ UNCHANGED present
           /\ timer_list' = NotDue(Countdown(timer_list), DueCount(Countdown(timer_list)))
  <2>1. /\ Countdowns(timer_list')
        /\ left_next = [p \in Pid |-> IF left[p] = 0 THEN 0 ELSE left[p] - 1]
    BY <1>5, <1>7, TickedCountdowns DEF left, left_next
  <2>2. Sleepers!Tick
    BY <1>1, <1>7, <2>1 DEF Sleepers!Tick
  <2>3. InTime(timer_list)'
    BY <2>1 DEF Countdowns, InTime
  <2> QED BY <2>2, <2>3 DEF Sleepers!Next
<1>8. CASE Running /\ present' \subseteq present /\ timer_list' = CleanTimers(timer_list, present')
  <2> DEFINE dead == present \ present'
  <2>1. /\ Countdowns(timer_list')
        /\ left_next = [p \in Pid |-> IF p \in present' THEN left[p] ELSE 0]
    BY <1>5, <1>8, CleanedCountdowns DEF left, left_next
  <2>2. \A p \in Pid : p \notin present => left[p] = 0
    <3> SUFFICES ASSUME NEW p \in Pid, p \notin present, left[p] # 0 PROVE FALSE
      OBVIOUS
    <3>1. Sleeps(timer_list, p, left[p])
      BY <1>5, <1>8, TicksLeftIs DEF left
    <3>2. /\ DOMAIN Ids(timer_list) = 1..Len(timer_list)
          /\ \A k \in 1..Len(timer_list) : Ids(timer_list)[k] = timer_list[k].id
      BY IdsType DEF ListTypes
    <3>3. p \in Range(Ids(timer_list))
      BY <3>1, <3>2 DEF Sleeps, Range
    <3> QED BY <1>5, <1>8, <3>3
  <2>3. left_next = [p \in Pid |-> IF p \in dead THEN 0 ELSE left[p]]
    BY <2>1, <2>2
  <2>4. present' = present \ dead /\ dead \in SUBSET present
    BY <1>8
  <2>5. Sleepers!Die(dead)
    BY <1>1, <2>3, <2>4 DEF Sleepers!Die
  <2>6. InTime(timer_list)'
    BY <2>1 DEF Countdowns, InTime
  <2> QED BY <2>4, <2>5, <2>6 DEF Sleepers!Next
<1> QED BY <1>2, <1>3, <1>4, <1>6, <1>7, <1>8 DEF TimerStep

LEMMA InitSleepers == Init => Sleepers!Init /\ InTime(timer_list)
<1> SUFFICES ASSUME Init PROVE Sleepers!Init /\ InTime(timer_list)
  OBVIOUS
<1>1. timer_list = <<>> /\ DOMAIN timer_list = {} /\ Len(timer_list) = 0
  BY DEF Init
<1>2. Remaining = [p \in Pid |-> 0]
  BY <1>1 DEF Remaining
<1>3. present \subseteq Pid
  BY InitProcessInv DEF ProcessInv, ProcessTypes
<1> QED BY <1>1, <1>2, <1>3 DEF Sleepers!Init, InTime

\* The list of differences that callback(), add_timer() and clean_timer_list()
\* edit implements one countdown for each sleeping process: whatever sleeps,
\* wakes or dies beside it, a process sleeps for the ticks it asked for.  With
\* zero in SleepTicks it does not: the decrement of a head of zero ticks wraps.
THEOREM TimerListImplementsSleepers ==
    ASSUME JoinsAreSafe, 0 \notin SleepTicks
    PROVE  Spec => SleepersSpec
<1>1. ProcessInv /\ ListTypes /\ PlaceInv /\ InTime(timer_list) /\ [Next]_vars
        => [Sleepers!Next]_(Sleepers!vars) /\ InTime(timer_list)'
  BY StepSleepers
<1>2. Init => Sleepers!Init /\ InTime(timer_list)
  BY InitSleepers
<1> QED BY <1>1, <1>2, PlaceInvariant, PTL DEF Spec, SleepersSpec, Sleepers!Spec
=============================================================================
