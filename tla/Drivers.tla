------------------------------ MODULE Drivers -------------------------------
(***************************************************************************)
(* Interrupts of devices and the processes that drive them: irq_handler()  *)
(* of src/interrupt.cpp, the system calls of int 0x81 and driver_call(),   *)
(* on top of the process manager.                                          *)
(*                                                                         *)
(* A driver owns an irq and sleeps in wait_for_interrupt(); the interrupt  *)
(* makes it ready and stays in service at the 8259 until the driver waits  *)
(* again.  The interrupt controllers are modelled by what they do with the *)
(* non-specific end of interrupt that send_EOI() writes.                   *)
(***************************************************************************)
EXTENDS Multitasking

CONSTANTS
    IRQ_SIZE, MAX_DRIVER_FUNCTIONS,
    DriverProcess   \* the process that calls set_driver() for each irq in use

DriverIrq == DOMAIN DriverProcess

ASSUME DriverAssumption ==
    /\ IRQ_SIZE \in Nat \ {0} /\ MAX_DRIVER_FUNCTIONS \in Nat \ {0}
    /\ DriverIrq \subseteq 1..(IRQ_SIZE - 1)
    /\ \A irq \in DriverIrq : DriverProcess[irq] \in DOMAIN BootLevels

VARIABLES
    io_descriptor_array,
    requested,    \* irqs raised by a device and not delivered yet
    in_service,   \* irqs delivered and not ended yet
    rip           \* where the process of each slot began: context.rip

driverVars == <<io_descriptor_array, requested, in_service, rip>>
allVars == <<vars, driverVars>>

EmptyDescriptor ==
    [id |-> 0, is_present |-> FALSE, is_ready |-> FALSE, functions |-> {}]

\* The main() of a module; a driver's function is <<irq, n>>.
Main == <<>>

InitDrivers ==
    /\ Init
    /\ io_descriptor_array = [irq \in DriverIrq |-> EmptyDescriptor]
    /\ requested = {}
    /\ in_service = {}
    /\ rip = [p \in Pid |-> Main]

-----------------------------------------------------------------------------
(* The two 8259 controllers: lines 0 to 7, with the second one on line 2.  *)

Cascade == 2

Lines(irq) == IF irq < 8 THEN {irq} ELSE {irq, Cascade}
Highest(lines) == {irq \in lines : \A other \in lines : irq <= other}

Deliverable(irq) ==
    /\ irq \in requested
    /\ \A served \in in_service : served < 8 => served > Min(Lines(irq))
    /\ irq >= 8 => \A served \in in_service : served >= 8 => served > irq

\* What is left in service after send_EOI(): each controller that is written
\* to ends its own interrupt of the highest priority, whichever that is.
AfterEOI(served, irq) ==
    LET master == {line \in served : line < 8}
        slave == served \ master
    IN  (master \ Highest(master)) \cup (IF irq >= 8 THEN slave \ Highest(slave) ELSE slave)

DeviceRaises(irq) ==
    /\ Running
    /\ requested' = requested \cup {irq}
    /\ irq \notin requested
    /\ UNCHANGED <<vars, io_descriptor_array, in_service, rip>>

-----------------------------------------------------------------------------
(* Interrupts.                                                             *)

\* Mutant: the interrupt is ended before the driver has seen it.
Interrupt_EndsAtOnce(irq) ==
    LET driver == io_descriptor_array[irq]
        forDriver == driver.is_present /\ driver.is_ready
    IN  /\ Running
        /\ Deliverable(irq)
        /\ UNCHANGED <<processVars, waiting, timer_list, semaphore_array,
                       io_descriptor_array, rip>>
        /\ requested' = requested \ {irq}
        /\ in_service' = AfterEOI(in_service \cup Lines(irq), irq)
        /\ Schedule(AddToList(ready_queue, IF forDriver THEN <<driver.id>> ELSE <<>>, present),
                    scheduler_timer_ticks)

\* irq_handler() for an irq other than the clock's.
Interrupt(irq) ==
    LET driver == io_descriptor_array[irq]
        forDriver == driver.is_present /\ driver.is_ready
        served == in_service \cup Lines(irq)
    IN  /\ Running
        /\ Deliverable(irq)
        /\ UNCHANGED <<processVars, waiting, timer_list, semaphore_array,
                       io_descriptor_array, rip>>
        /\ requested' = requested \ {irq}
        /\ in_service' = IF forDriver THEN served ELSE AfterEOI(served, irq)
        /\ Schedule(AddToList(ready_queue, IF forDriver THEN <<driver.id>> ELSE <<>>, present),
                    scheduler_timer_ticks)

-----------------------------------------------------------------------------
(* System calls.  int 0x81 can be executed at system level only.           *)

SystemCaller ==
    /\ Running
    /\ execution_index # 0
    /\ level[execution_index] = "system"

\* set_driver(irq, get_id(), fin): each driver registers itself once.
SetDriver(irq) ==
    /\ SystemCaller
    /\ DriverProcess[irq] = execution_index
    /\ ~io_descriptor_array[irq].is_present
    /\ io_descriptor_array' = [io_descriptor_array EXCEPT ![irq] =
         [EmptyDescriptor EXCEPT !.id = execution_index, !.is_present = TRUE]]
    /\ UNCHANGED <<vars, requested, in_service, rip>>

\* set_driver_function(irq, n, function), before the driver first waits.
SetDriverFunction(irq, n) ==
    /\ SystemCaller
    /\ DriverProcess[irq] = execution_index
    /\ io_descriptor_array[irq].is_present
    /\ ~io_descriptor_array[irq].is_ready
    /\ n \notin io_descriptor_array[irq].functions
    /\ io_descriptor_array' = [io_descriptor_array EXCEPT ![irq].functions = @ \cup {n}]
    /\ UNCHANGED <<vars, requested, in_service, rip>>

Driven(p) ==
    {irq \in DriverIrq : io_descriptor_array[irq].id = p /\ io_descriptor_array[irq].is_present}

\* Mutant: the end of interrupt is not sent.
WaitForInterrupt_NoEOI ==
    /\ SystemCaller
    /\ Driven(execution_index) # {}
    /\ io_descriptor_array' = [irq \in DriverIrq |->
         IF irq \in Driven(execution_index)
         THEN [io_descriptor_array[irq] EXCEPT !.is_ready = TRUE]
         ELSE io_descriptor_array[irq]]
    /\ UNCHANGED <<processVars, waiting, timer_list, semaphore_array, requested,
                   in_service, rip>>
    /\ Drop(ready_queue)

\* wait_for_interrupt().  The modules that call it have set_driver() behind
\* them; any other process would never run again.
WaitForInterrupt ==
    /\ SystemCaller
    /\ Driven(execution_index) # {}
    /\ io_descriptor_array' = [irq \in DriverIrq |->
         IF irq \in Driven(execution_index)
         THEN [io_descriptor_array[irq] EXCEPT !.is_ready = TRUE]
         ELSE io_descriptor_array[irq]]
    /\ in_service' = FoldLeft(LAMBDA served, irq : AfterEOI(served, irq), in_service,
                              SetToSeq(Driven(execution_index)))
    /\ UNCHANGED <<processVars, waiting, timer_list, semaphore_array, requested, rip>>
    /\ Drop(ready_queue)

\* Mutant: the child belongs to the caller.
ForkOf_Caller(father, main) ==
    \E slot \in Pid \ present :
        /\ \A p \in Pid \ present : slot <= p
        /\ present' = present \cup {slot}
        /\ father_id' = [father_id EXCEPT ![slot] = execution_index]
        /\ level' = [level EXCEPT ![slot] = level[father]]
        /\ waiting' = [waiting EXCEPT ![slot] = <<>>]
        /\ process_count' = process_count + 1
        /\ rip' = [rip EXCEPT ![slot] = main]
        /\ Schedule(Append(ready_queue, slot), scheduler_timer_ticks)

\* The new process that fork(father, main, ...) makes, in the lowest free slot.
ForkOf(father, main) ==
    \E slot \in Pid \ present :
        /\ \A p \in Pid \ present : slot <= p
        /\ present' = present \cup {slot}
        /\ father_id' = [father_id EXCEPT ![slot] = father]
        /\ level' = [level EXCEPT ![slot] = level[father]]
        /\ waiting' = [waiting EXCEPT ![slot] = <<>>]
        /\ process_count' = process_count + 1
        /\ rip' = [rip EXCEPT ![slot] = main]
        /\ Schedule(Append(ready_queue, slot), scheduler_timer_ticks)

\* Mutant: a function that the driver has not set is started like any other.
DriverCall_Unset(irq, n) ==
    LET driver == io_descriptor_array[irq]
    IN  /\ Running
        /\ execution_index # 0
        /\ driver.is_present /\ driver.is_ready
        /\ driver.id \in present
        /\ process_count < MAX_PROCESS_NUMBER
        /\ ForkOf(driver.id, <<irq, n>>)
        /\ UNCHANGED <<timer_list, semaphore_array, io_descriptor_array, requested, in_service>>

\* driver_call(): a child of the driver runs the function.  A call that is
\* refused changes nothing.
DriverCall(irq, n) ==
    LET driver == io_descriptor_array[irq]
    IN  /\ Running
        /\ execution_index # 0
        /\ driver.is_present /\ driver.is_ready /\ n \in driver.functions
        /\ driver.id \in present
        /\ process_count < MAX_PROCESS_NUMBER
        /\ ForkOf(driver.id, <<irq, n>>)
        /\ UNCHANGED <<timer_list, semaphore_array, io_descriptor_array, requested, in_service>>

\* The permission that join() checks, with the irqs that are driven.
MayJoin(caller, target) ==
    \/ level[caller] = "system"
    \/ level[target] = "user"
    \/ \E irq \in DriverIrq :
         /\ io_descriptor_array[irq].is_present
         /\ io_descriptor_array[irq].id \in present
         /\ father_id[target] = irq

\* A driver's main() does not return, and it joins nobody.
NotDriver == \A irq \in DriverIrq : DriverProcess[irq] # execution_index

JoinDriven(target) ==
    /\ target \in present \ Booted
    /\ MayJoin(execution_index, target)
    /\ waiting' = [waiting EXCEPT ![target] = Append(@, execution_index)]
    /\ UNCHANGED <<processVars, timer_list, semaphore_array, driverVars>>
    /\ Drop(ready_queue)

\* join() of what driver_call() returned: a child that it made, or NoProcess when
\* it was refused, which getc() does not join but calls again.
JoinCall(target) ==
    /\ Running
    /\ execution_index \in Booted \ {0}
    /\ NotDriver
    /\ IF target = NoProcess THEN PastTheArray /\ UNCHANGED driverVars
       ELSE JoinDriven(target)

-----------------------------------------------------------------------------

\* irq 0 has the highest priority: its handler, one step, ends it itself.
ClockTick ==
    /\ ClockInterrupt
    /\ in_service' = AfterEOI(in_service \cup {0}, 0)
    /\ UNCHANGED <<io_descriptor_array, requested, rip>>

KernelStep ==
    \/ EnterMultitasking
    \/ \E ticks \in SleepTicks : Sleep(ticks)
    \/ NotDriver /\ Exit
    \/ Halted

NextDrivers ==
    \/ KernelStep /\ UNCHANGED driverVars
    \/ ClockTick
    \/ WaitForInterrupt
    \/ \E irq \in DriverIrq :
         \/ DeviceRaises(irq)
         \/ Interrupt(irq)
         \/ SetDriver(irq)
         \/ \E n \in 0..(MAX_DRIVER_FUNCTIONS - 1) :
              SetDriverFunction(irq, n) \/ DriverCall(irq, n)
    \/ \E target \in Pid \cup {NoProcess} : JoinCall(target)

\* The controllers deliver what they can; a driver that gets to run again and
\* again comes back to the top of its loop.
SpecDrivers ==
    /\ InitDrivers /\ [][NextDrivers]_allVars
    /\ WF_allVars(EnterMultitasking /\ UNCHANGED driverVars)
    /\ WF_allVars(ClockTick)
    /\ \A irq \in DriverIrq : WF_allVars(Interrupt(irq))
    /\ \A irq \in DriverIrq : SF_allVars(SetDriver(irq))
    /\ \A irq \in DriverIrq : SF_allVars(execution_index = DriverProcess[irq] /\ WaitForInterrupt)

-----------------------------------------------------------------------------
(* Properties.                                                             *)

\* Every variable has the type of the source's declaration.
DriversTypeOK ==
    /\ TypeOK
    /\ io_descriptor_array \in
         [DriverIrq -> [id : Pid, is_present : BOOLEAN, is_ready : BOOLEAN,
                        functions : SUBSET (0..(MAX_DRIVER_FUNCTIONS - 1))]]
    /\ requested \subseteq DriverIrq
    /\ in_service \subseteq DriverIrq \cup {Cascade}
    /\ rip \in [Pid -> {Main} \cup (DriverIrq \X (0..(MAX_DRIVER_FUNCTIONS - 1)))]

\* The irqs that will make p ready when they are delivered.
Awaited(p) == {irq \in Driven(p) : io_descriptor_array[irq].is_ready /\ irq \notin in_service}

\* A driver that waits for its interrupt is in no list, and one that was made
\* ready by it is in one, while that interrupt stays in service: so no irq can
\* queue a driver that is queued already.
OnePlaceOrAwaits ==
    Running => \A p \in Pid :
        Cardinality(Places(p)) + Cardinality(Awaited(p)) = IF p \in present THEN 1 ELSE 0

\* No interrupt queues a driver twice, at any moment of its loop.
DriversOK == DriversTypeOK /\ OnePlaceOrAwaits

\* "only send eoi when the process calls wait_for_interrupt" (irq_handler): an
\* interrupt that was given to a driver stays in service until that driver waits.
EndedByItsDriver ==
    [][\A irq \in DriverIrq : irq \in in_service /\ irq \notin in_service' =>
         io_descriptor_array[irq].id = execution_index]_allVars

\* What a user process can have run at system level is a function that a driver
\* has set for its irq, in a child of that driver, whose memory it is part of.
SystemLevelIsDriver ==
    [][Running /\ level[execution_index] = "user" =>
         \A p \in present' \ present : level'[p] = "system" =>
            \E irq \in DriverIrq :
              /\ father_id'[p] = DriverProcess[irq]
              /\ \E n \in io_descriptor_array[irq].functions : rip'[p] = <<irq, n>>]_allVars

\* "so you can make a join call later to take the return" (lib/ozone.h): the
\* caller of driver_call() may join the process it got.
DriverCallJoinable ==
    [][\A p \in present' \ present : MayJoin(execution_index, p)']_allVars

\* An interrupt is not lost once its driver waits for it, and the driver runs,
\* unless a program passes an id past the array and what follows is undefined.
InterruptServed ==
    \A irq \in DriverIrq :
        irq \in requested /\ io_descriptor_array[irq].is_ready
          ~> \/ execution_index = DriverProcess[irq] /\ irq \in in_service
             \/ status # "running"

=============================================================================
