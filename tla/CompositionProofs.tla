------------------------- MODULE CompositionProofs --------------------------
(***************************************************************************)
(* Proofs about the two modules that compose Multitasking with a part of    *)
(* the kernel that runs beside it. Both rest on the invariants that         *)
(* Multitasking itself keeps.                                               *)
(*                                                                           *)
(* Signals: a process never loses its program to a handler, runs handlers   *)
(* of its own only, and gets from join() what the process it joined         *)
(* returned.                                                                *)
(*                                                                           *)
(* Drivers, for every number of processes and driver functions: what user   *)
(* processes can start at system level is proved for any set of drivers;    *)
(* that no interrupt queues a driver twice, for one.                        *)
(***************************************************************************)
EXTENDS Signals, Drivers, MultitaskingProofs, FiniteSetTheorems

(* Signals.                                                                *)

Code == {Program, NullHandler} \cup Handleable
Result == {ANY, 0} \cup ExitValues
Argument == {ANY} \cup ExitValues
Context == [code : Code, rax : Result, rdx : Argument]
SignalDescriptor ==
    [is_running_a_signal : BOOLEAN, saved_context : Context, handlers : SUBSET Handleable]
Owed == [code : Code, value : Result, interrupted : BOOLEAN]

SignalTypes ==
    /\ context \in [Pid -> Context]
    /\ signal_descriptor \in [Pid -> SignalDescriptor]
    /\ owed \in [Pid -> Owed]
    /\ returned \in [Pid -> Argument]
    /\ installed \in [Pid -> SUBSET Handleable]

\* A slot without a process keeps no claim and no handler of the one it had,
\* and the argument of the exit() that ended it is still in its context.
SlotsAreClean ==
    /\ \A p \in present : returned[p] = ANY
    /\ \A p \in Pid \ present :
         /\ owed[p] = Nothing
         /\ installed[p] = {}
         /\ returned[p] # ANY => context[p].rdx = returned[p]

\* The handlers of a process are those it has set.
HandlersAreInstalled == \A p \in present : signal_descriptor[p].handlers = installed[p]

\* A process that waits for another one is in the code that called join(), or a
\* handler has come between.
JoinersWait ==
    \A p, target \in present :
        p \in Waiters(target) => owed[p].interrupted \/ context[p].code = owed[p].code

\* A result that was not taken yet is in rax, unless a handler has come between.
ResultsKept ==
    \A p \in present :
        \/ owed[p].interrupted
        \/ owed[p] = Nothing
        \/ /\ context[p].code = owed[p].code
           /\ owed[p].value # ANY => context[p].rax = owed[p].value

KernelInv == ProcessInv /\ ListTypes /\ PlaceInv

-----------------------------------------------------------------------------
(* The processes: every step is one of the process manager's.              *)

LEMMA SignalsProcessStep ==
    ASSUME ProcessInv, [NextSignals]_everything
    PROVE  ProcessInv'
<1>1. CASE [Next]_vars
  BY <1>1, NextKeepsInv
<1>2. ASSUME NEW signal \in SentSignals, NEW target \in Pid, SendSignal(signal, target)
      PROVE  ProcessInv'
  <2>1. /\ Running /\ target \in present
        /\ level[execution_index] = "user" => level[target] = "user"
    BY <1>2 DEF SendSignal, Calling, SignalPermitted
  <2>2. CASE Kill(target)
    BY <2>1, <2>2, KillStep, StepKeepsInv
  <2>3. CASE UNCHANGED processVars /\ Schedule(ready_queue, scheduler_timer_ticks)
    BY <2>3, KeepStep, StepKeepsInv
  <2>4. CASE UNCHANGED vars
    BY <2>4, NextKeepsInv
  <2> QED BY <1>2, <2>2, <2>3, <2>4 DEF SendSignal
<1>3. \/ EnterMultitasking \/ ClockInterrupt \/ Halted \/ Join(NoProcess)
      \/ ForkChild \/ ReturnFromSignal
      \/ \E ret \in ExitValues : ExitWith(ret)
      \/ \E target \in Pid : JoinChild(target) \/ JoinEnded(target)
      \/ \E signal \in HandledSignals : SetSignalHandler(signal)
      \/ UNCHANGED everything
      => [Next]_vars
  BY DEF Next, ForkChild, ReturnFromSignal, ExitWith, JoinChild, JoinEnded,
         SetSignalHandler, everything
<1> QED BY <1>1, <1>2, <1>3 DEF NextSignals

\* The caller of a system call.
LEMMA CallingIsPresent ==
    ASSUME ProcessInv, Calling
    PROVE  execution_index \in present /\ execution_index \in Pid /\ Running
BY CallerIsPresent DEF Calling

-----------------------------------------------------------------------------
(* The registers of the caller, and what it has taken.                     *)

LEMMA HandledAreCodes ==
    /\ Program \in Code /\ NullHandler \in Code /\ Handleable \subseteq Code
    /\ Program \notin Handleable /\ Program # NullHandler
    /\ ANY \in Result /\ 0 \in Result /\ ANY \in Argument
    /\ ExitValues \subseteq Argument /\ Argument \subseteq Result
    /\ 0 # ANY /\ ANY \notin ExitValues
    /\ FreshContext \in Context /\ FreshDescriptor \in SignalDescriptor /\ Nothing \in Owed
<1>1. /\ Program \in Code /\ NullHandler \in Code /\ Handleable \subseteq Code
      /\ Program \notin Handleable /\ Program # NullHandler
  BY DEF Code, Program, NullHandler, Handleable, Signal_t
<1>2. /\ ANY \in Result /\ 0 \in Result /\ ANY \in Argument
      /\ ExitValues \subseteq Argument /\ Argument \subseteq Result
      /\ 0 # ANY /\ ANY \notin ExitValues
  BY SignalsAssumption DEF Result, Argument, ANY
<1>3. FreshContext \in Context /\ Nothing \in Owed
  BY <1>1, <1>2 DEF FreshContext, Context, Nothing, Owed
<1> QED BY <1>1, <1>2, <1>3 DEF FreshDescriptor, SignalDescriptor

LEMMA ReturningAt ==
    ASSUME execution_index \in Pid, NEW c \in [Pid -> Context],
           NEW rax \in Result, NEW rdx \in Argument
    PROVE  /\ Returning(c, rax, rdx) \in [Pid -> Context]
           /\ \A p \in Pid : /\ Returning(c, rax, rdx)[p].code = c[p].code
                             /\ p # execution_index => Returning(c, rax, rdx)[p] = c[p]
           /\ Returning(c, rax, rdx)[execution_index].rax = rax
           /\ Returning(c, rax, rdx)[execution_index].rdx = rdx
<1> DEFINE new == [c[execution_index] EXCEPT !.rax = rax, !.rdx = rdx]
<1>1. c[execution_index] \in Context
  OBVIOUS
<1>2. new \in Context /\ new.code = c[execution_index].code /\ new.rax = rax /\ new.rdx = rdx
  BY <1>1 DEF Context
<1>3. Returning(c, rax, rdx) = [c EXCEPT ![execution_index] = new]
  BY DEF Returning
<1> HIDE DEF new
<1> QED BY <1>2, <1>3

\* What a process has to get agrees with its context.
Fits(ctx, due) ==
    \/ due.interrupted
    \/ due = Nothing
    \/ ctx.code = due.code /\ (due.value # ANY => ctx.rax = due.value)

LEMMA TakenAt ==
    ASSUME execution_index \in Pid, NEW record \in [Pid -> Owed]
    PROVE  /\ Taken(record) \in [Pid -> Owed]
           /\ \A p \in Pid : p \notin present' => Taken(record)[p] = Nothing
           /\ \A p \in Pid : p # execution_index /\ p \in present' => Taken(record)[p] = record[p]
           /\ \/ Taken(record)[execution_index] = Nothing
              \/ /\ Taken(record)[execution_index] = record[execution_index]
                 /\ record[execution_index].code # context[execution_index].code
<1> DEFINE taken == IF context[execution_index].code = record[execution_index].code
                    THEN [record EXCEPT ![execution_index] = Nothing] ELSE record
<1>1. Taken(record) = [p \in Pid |-> IF p \in present' THEN taken[p] ELSE Nothing]
  BY DEF Taken, OfTheLiving
<1>2. /\ \A p \in Pid : taken[p] \in Owed
      /\ \A p \in Pid : p # execution_index => taken[p] = record[p]
      /\ \/ taken[execution_index] = Nothing
         \/ /\ taken[execution_index] = record[execution_index]
            /\ record[execution_index].code # context[execution_index].code
  BY HandledAreCodes
<1> HIDE DEF taken
<1> QED BY <1>1, <1>2, HandledAreCodes

\* The end of a call.  The caller is left with nothing to get, or with what a
\* handler came between.
LEMMA CallReturns ==
    ASSUME SignalTypes, execution_index \in Pid,
           NEW c \in [Pid -> Context], NEW record \in [Pid -> Owed],
           NEW rax \in Result, NEW rdx \in Argument,
           context' = Returning(c, rax, rdx), owed' = Taken(record)
    PROVE  /\ context' \in [Pid -> Context] /\ owed' \in [Pid -> Owed]
           /\ \A p \in Pid : context'[p].code = c[p].code
           /\ \A p \in Pid : p # execution_index => context'[p] = c[p]
           /\ context'[execution_index].rdx = rdx
           /\ \A p \in Pid : p \notin present' => owed'[p] = Nothing
           /\ \A p \in Pid : p # execution_index /\ p \in present' => owed'[p] = record[p]
BY ReturningAt, TakenAt

LEMMA CallerFits ==
    ASSUME SignalTypes, execution_index \in Pid, NEW record \in [Pid -> Owed],
           Fits(context[execution_index], owed[execution_index]),
           record[execution_index] = owed[execution_index] \/ record[execution_index].interrupted,
           NEW ctx
    PROVE  Fits(ctx, Taken(record)[execution_index])
<1>1. \/ Taken(record)[execution_index] = Nothing
      \/ /\ Taken(record)[execution_index] = record[execution_index]
         /\ record[execution_index].code # context[execution_index].code
  BY TakenAt
<1> QED BY <1>1 DEF Fits

-----------------------------------------------------------------------------
(* What holds of the slots and the handlers, whatever the programs do.     *)

SignalsInv == SignalTypes /\ SlotsAreClean /\ HandlersAreInstalled /\ ProgramResumes

\* A step that leaves the processes and their signals alone.
SameSignals == UNCHANGED <<present, signalVars>>

LEMMA SameSignalsInv ==
    ASSUME SignalsInv, SameSignals
    PROVE  SignalsInv'
BY DEF SignalsInv, SameSignals, signalVars, historyVars, SignalTypes, SlotsAreClean,
       HandlersAreInstalled, ProgramResumes

\* A call that wakes nobody, of a process that stays what it was.
LEMMA CallInv ==
    ASSUME SignalsInv, execution_index \in present, present \subseteq Pid, UNCHANGED present,
           NEW c \in [Pid -> Context], NEW rax \in Result, NEW rdx \in Argument,
           context' = Returning(c, rax, rdx),
           owed' \in [Pid -> Owed], \A p \in Pid \ present : owed'[p] = Nothing,
           \A p \in Pid \ present : c[p] = context[p],
           signal_descriptor' \in [Pid -> SignalDescriptor],
           \A p \in present :
             /\ signal_descriptor'[p].handlers = signal_descriptor[p].handlers
             /\ signal_descriptor'[p].is_running_a_signal <=> c[p].code # Program
             /\ signal_descriptor'[p].is_running_a_signal =>
                  signal_descriptor'[p].saved_context.code = Program,
           UNCHANGED <<returned, installed>>
    PROVE  SignalsInv'
<1>1. /\ context' \in [Pid -> Context]
      /\ \A p \in Pid : context'[p].code = c[p].code
      /\ \A p \in Pid : p # execution_index => context'[p] = c[p]
  BY ReturningAt
<1>2. SignalTypes'
  BY <1>1 DEF SignalsInv, SignalTypes
<1>3. SlotsAreClean'
  BY <1>1 DEF SignalsInv, SlotsAreClean
<1>4. HandlersAreInstalled'
  BY DEF SignalsInv, HandlersAreInstalled
<1>5. ProgramResumes'
  <2> SUFFICES ASSUME NEW p \in present'
               PROVE  /\ signal_descriptor'[p].is_running_a_signal <=> context'[p].code # Program
                      /\ signal_descriptor'[p].is_running_a_signal =>
                           signal_descriptor'[p].saved_context.code = Program
    BY DEF ProgramResumes
  <2> QED BY <1>1
<1> QED BY <1>2, <1>3, <1>4, <1>5 DEF SignalsInv

\* A process that wakes the joiners of another one: they get the value.
LEMMA AnsweredAt ==
    ASSUME SignalTypes, execution_index \in Pid, NEW target, NEW value \in Result,
           NEW rdx \in Argument, Answered(target, value, rdx)
    PROVE  /\ context' \in [Pid -> Context] /\ owed' \in [Pid -> Owed]
           /\ \A p \in Pid : context'[p].code = context[p].code
           /\ \A p \in Pid : p # execution_index => context'[p].rdx = context[p].rdx
           /\ context'[execution_index].rdx = rdx
           /\ \A p \in Pid : p \notin present' => owed'[p] = Nothing
           /\ \A p \in Pid : p # execution_index /\ p \notin Waiters(target) =>
                /\ context'[p] = context[p]
                /\ p \in present' => owed'[p] = owed[p]
           /\ \A p \in Pid : p # execution_index /\ p \in Waiters(target) =>
                /\ context'[p].rax = value
                /\ p \in present' => /\ owed'[p].code = owed[p].code
                                     /\ owed'[p].value = value
                                     /\ owed'[p].interrupted = owed[p].interrupted
           /\ /\ execution_index \notin Waiters(target)
              /\ Fits(context[execution_index], owed[execution_index])
              => Fits(context'[execution_index], owed'[execution_index])
<1> DEFINE c == [p \in Pid |->
             IF p \in Waiters(target) THEN [context[p] EXCEPT !.rax = value] ELSE context[p]]
           record == [p \in Pid |->
             IF p \in Waiters(target) THEN [owed[p] EXCEPT !.value = value] ELSE owed[p]]
<1>1. /\ c \in [Pid -> Context]
      /\ \A p \in Pid : /\ c[p].code = context[p].code /\ c[p].rdx = context[p].rdx
                        /\ p \notin Waiters(target) => c[p] = context[p]
                        /\ p \in Waiters(target) => c[p].rax = value
  <2>1. \A p \in Pid : context[p] \in Context
    BY DEF SignalTypes
  <2> QED BY <2>1 DEF Context
<1>2. /\ record \in [Pid -> Owed]
      /\ \A p \in Pid : /\ p \notin Waiters(target) => record[p] = owed[p]
                        /\ p \in Waiters(target) =>
                             /\ record[p].code = owed[p].code /\ record[p].value = value
                             /\ record[p].interrupted = owed[p].interrupted
  <2>1. \A p \in Pid : owed[p] \in Owed
    BY DEF SignalTypes
  <2> QED BY <2>1 DEF Owed
<1>3. context' = Returning(c, ANY, rdx) /\ owed' = Taken(record)
  BY DEF Answered
<1> HIDE DEF c, record
<1>4. /\ context' \in [Pid -> Context] /\ owed' \in [Pid -> Owed]
      /\ \A p \in Pid : context'[p].code = c[p].code
      /\ \A p \in Pid : p # execution_index => context'[p] = c[p]
      /\ context'[execution_index].rdx = rdx
      /\ \A p \in Pid : p \notin present' => owed'[p] = Nothing
      /\ \A p \in Pid : p # execution_index /\ p \in present' => owed'[p] = record[p]
  BY <1>1, <1>2, <1>3, CallReturns, HandledAreCodes
<1>5. ASSUME execution_index \notin Waiters(target),
             Fits(context[execution_index], owed[execution_index])
      PROVE  Fits(context'[execution_index], owed'[execution_index])
  <2>1. record[execution_index] = owed[execution_index]
    BY <1>2, <1>5
  <2> QED BY <1>2, <1>3, <1>5, <2>1, CallerFits
<1> QED BY <1>1, <1>2, <1>4, <1>5

\* The death of processes: those that are left are what they were, but for the
\* results that wake them.
LEMMA DeathInv ==
    ASSUME SignalsInv, present \subseteq Pid, present' \subseteq present,
           execution_index \in present,
           NEW target \in present, target \notin present', NEW value \in Result,
           NEW rdx \in Argument, Answered(target, value, rdx),
           NEW left \in Argument, returned' = [returned EXCEPT ![target] = left],
           left # ANY => target = execution_index /\ rdx = left,
           installed' = OfTheLiving(installed, {}), UNCHANGED signal_descriptor
    PROVE  SignalsInv'
<1>1. /\ context' \in [Pid -> Context] /\ owed' \in [Pid -> Owed]
      /\ \A p \in Pid : context'[p].code = context[p].code
      /\ \A p \in Pid : p # execution_index => context'[p].rdx = context[p].rdx
      /\ context'[execution_index].rdx = rdx
      /\ \A p \in Pid : p \notin present' => owed'[p] = Nothing
  <2>1. SignalTypes /\ execution_index \in Pid
    BY DEF SignalsInv
  <2> QED BY <2>1, AnsweredAt
<1>2. /\ \A p \in Pid : installed'[p] = IF p \in present' THEN installed[p] ELSE {}
      /\ installed' \in [Pid -> SUBSET Handleable]
  BY DEF OfTheLiving, SignalsInv, SignalTypes
<1>3. SignalTypes'
  BY <1>1, <1>2 DEF SignalsInv, SignalTypes
<1>4. SlotsAreClean'
  <2>1. \A p \in Pid : returned'[p] = IF p = target THEN left ELSE returned[p]
    BY DEF SignalsInv, SignalTypes
  <2>2. \A p \in present' : p \in Pid /\ p \in present /\ p # target /\ returned'[p] = ANY
    BY <2>1 DEF SignalsInv, SlotsAreClean
  <2>3. ASSUME NEW p \in Pid, p \notin present', returned'[p] # ANY
        PROVE  context'[p].rdx = returned'[p]
    <3>1. CASE p = target
      BY <1>1, <2>1, <2>3, <3>1
    <3>2. CASE p # target
      <4>1. returned[p] # ANY
        BY <2>1, <2>3, <3>2
      <4>2. p \notin present /\ context[p].rdx = returned[p]
        BY <2>3, <4>1 DEF SignalsInv, SlotsAreClean
      <4> QED BY <1>1, <2>1, <3>2, <4>2
    <3> QED BY <3>1, <3>2
  <2> QED BY <1>1, <1>2, <2>2, <2>3 DEF SlotsAreClean
<1>5. HandlersAreInstalled' /\ ProgramResumes'
  <2>1. \A p \in present' : p \in Pid /\ p \in present
    OBVIOUS
  <2> QED BY <1>1, <1>2, <2>1 DEF SignalsInv, HandlersAreInstalled, ProgramResumes
<1> QED BY <1>3, <1>4, <1>5 DEF SignalsInv

LEMMA ExitInv ==
    ASSUME SignalsInv, ProcessInv, NEW ret \in ExitValues, ExitWith(ret)
    PROVE  SignalsInv'
<1>1. /\ execution_index \in present /\ present \subseteq Pid
      /\ Destroy(execution_index)
      /\ Answered(execution_index, ret, ret)
      /\ returned' = [returned EXCEPT ![execution_index] = ret]
      /\ installed' = OfTheLiving(installed, {}) /\ UNCHANGED signal_descriptor
  BY CallingIsPresent DEF ExitWith, Exit, ProcessInv, ProcessTypes
<1>2. present' \subseteq present /\ execution_index \notin present'
  BY <1>1, FamilyHasRoot DEF Destroy
<1>3. ret \in Result /\ ret \in Argument
  BY HandledAreCodes
<1> QED BY <1>1, <1>2, <1>3, DeathInv

LEMMA KillInv ==
    ASSUME SignalsInv, ProcessInv, Calling, NEW target \in present, Kill(target),
           Answered(target, 0, ANY), returned' = [returned EXCEPT ![target] = ANY],
           installed' = OfTheLiving(installed, {}), UNCHANGED signal_descriptor
    PROVE  SignalsInv'
<1>1. execution_index \in present /\ present \subseteq Pid /\ Destroy(target)
  BY CallingIsPresent DEF Kill, ProcessInv, ProcessTypes
<1>2. present' \subseteq present /\ target \notin present'
  BY <1>1, FamilyHasRoot DEF Destroy
<1>3. 0 \in Result /\ ANY \in Argument
  BY HandledAreCodes
<1> QED BY <1>1, <1>2, <1>3, DeathInv

LEMMA JoinInv ==
    ASSUME SignalsInv, ProcessInv, NEW target \in Pid, JoinChild(target) \/ JoinEnded(target)
    PROVE  SignalsInv'
<1>1. execution_index \in present /\ execution_index \in Pid /\ present \subseteq Pid
  BY CallingIsPresent DEF JoinChild, JoinEnded, ProcessInv, ProcessTypes
<1>2. UNCHANGED <<present, signal_descriptor, returned, installed>>
  BY DEF JoinChild, JoinEnded, Join, JoinProcess, vars, processVars
<1>3. /\ context \in [Pid -> Context] /\ \A p \in Pid : context[p] \in Context
      /\ context[target].rdx \in Argument /\ returned[target] \in Argument
  BY DEF SignalsInv, SignalTypes, Context
<1>4. PICK rax \in Result : context' = Returning(context, rax, ANY)
  BY <1>3, HandledAreCodes DEF JoinChild, JoinEnded
<1>5. PICK due \in Owed : owed' = [owed EXCEPT ![execution_index] = due]
  <2> DEFINE asked == [Nothing EXCEPT !.code = context[execution_index].code]
             found == [Nothing EXCEPT !.code = context[execution_index].code,
                                      !.value = returned[target]]
  <2>1. asked \in Owed /\ found \in Owed
    BY <1>1, <1>3, HandledAreCodes DEF Nothing, Owed, Context
  <2>2. \/ owed' = [owed EXCEPT ![execution_index] = asked]
        \/ owed' = [owed EXCEPT ![execution_index] = found]
    BY DEF JoinChild, JoinEnded
  <2> HIDE DEF asked, found
  <2> QED BY <2>1, <2>2
<1>6. owed' \in [Pid -> Owed] /\ \A p \in Pid \ present : owed'[p] = Nothing
  BY <1>1, <1>5 DEF SignalsInv, SignalTypes, SlotsAreClean
<1>7. \A p \in present :
        /\ signal_descriptor'[p].handlers = signal_descriptor[p].handlers
        /\ signal_descriptor'[p].is_running_a_signal <=> context[p].code # Program
        /\ signal_descriptor'[p].is_running_a_signal =>
             signal_descriptor'[p].saved_context.code = Program
  BY <1>2 DEF SignalsInv, ProgramResumes
<1>8. signal_descriptor' \in [Pid -> SignalDescriptor] /\ ANY \in Argument
  BY <1>2, HandledAreCodes DEF SignalsInv, SignalTypes
<1> QED BY <1>1, <1>2, <1>3, <1>4, <1>6, <1>7, <1>8, CallInv

\* A signal that a handler takes, or that is dropped.
LEMMA HandlerInv ==
    ASSUME SignalsInv, ProcessInv, Calling, NEW target \in present, NEW signal \in Signal_t,
           CallSignalHandler(target, signal), UNCHANGED <<present, returned, installed>>
    PROVE  SignalsInv'
<1> DEFINE handler == IF Called(signal) \in signal_descriptor[target].handlers
                      THEN Called(signal) ELSE NullHandler
<1>1. execution_index \in present /\ execution_index \in Pid /\ present \subseteq Pid /\ target \in Pid
  BY CallingIsPresent DEF ProcessInv, ProcessTypes
<1>2. /\ context \in [Pid -> Context] /\ signal_descriptor \in [Pid -> SignalDescriptor]
      /\ owed \in [Pid -> Owed]
  BY DEF SignalsInv, SignalTypes
<1>3. /\ \A p \in Pid : owed[p] \in Owed
      /\ \A p \in Pid \ present : owed[p] = Nothing
  BY <1>2 DEF SignalsInv, SlotsAreClean
<1>4. CASE signal_descriptor[target].is_running_a_signal
  <2>1. /\ context' = Returning(context, ANY, ANY) /\ owed' = Taken(owed)
        /\ UNCHANGED signal_descriptor
    BY <1>4 DEF CallSignalHandler
  <2>2. owed' \in [Pid -> Owed] /\ \A p \in Pid \ present : owed'[p] = Nothing
    BY <1>1, <1>2, <2>1, TakenAt
  <2>3. \A p \in present :
          /\ signal_descriptor'[p].handlers = signal_descriptor[p].handlers
          /\ signal_descriptor'[p].is_running_a_signal <=> context[p].code # Program
          /\ signal_descriptor'[p].is_running_a_signal =>
               signal_descriptor'[p].saved_context.code = Program
    BY <2>1 DEF SignalsInv, ProgramResumes
  <2> QED BY <1>1, <1>2, <2>1, <2>2, <2>3, CallInv, HandledAreCodes
<1>5. CASE ~signal_descriptor[target].is_running_a_signal
  <2> DEFINE c == [context EXCEPT ![target] = [@ EXCEPT !.code = handler]]
             record == [owed EXCEPT ![target] = [@ EXCEPT !.interrupted = TRUE]]
             new == [signal_descriptor[target] EXCEPT
                       !.is_running_a_signal = TRUE, !.saved_context = context[target]]
  <2>1. /\ context' = Returning(c, ANY, ANY) /\ owed' = Taken(record)
        /\ signal_descriptor' = [signal_descriptor EXCEPT ![target] = new]
    BY <1>5 DEF CallSignalHandler
  <2>2. handler \in Code /\ handler # Program
    <3>1. signal_descriptor[target].handlers \subseteq Handleable
      BY <1>1, <1>2 DEF SignalDescriptor
    <3> QED BY <3>1, HandledAreCodes
  <2> HIDE DEF handler
  <2>3. /\ c \in [Pid -> Context] /\ c[target].code = handler
        /\ \A p \in Pid : p # target => c[p] = context[p]
    <3>1. context[target] \in Context
      BY <1>1, <1>2
    <3>2. [context[target] EXCEPT !.code = handler] \in Context
      BY <2>2, <3>1 DEF Context
    <3>3. [context[target] EXCEPT !.code = handler].code = handler
      BY <3>1 DEF Context
    <3> QED BY <1>1, <1>2, <3>2, <3>3
  <2>4. record \in [Pid -> Owed]
    <3>1. [owed[target] EXCEPT !.interrupted = TRUE] \in Owed
      BY <1>1, <1>3 DEF Owed
    <3> QED BY <1>2, <3>1
  <2> HIDE DEF c, record
  <2>5. owed' \in [Pid -> Owed] /\ \A p \in Pid \ present : owed'[p] = Nothing
    BY <1>1, <2>1, <2>4, TakenAt
  <2>6. /\ new \in SignalDescriptor /\ new.handlers = signal_descriptor[target].handlers
        /\ new.is_running_a_signal /\ new.saved_context = context[target]
    <3>1. signal_descriptor[target] \in SignalDescriptor /\ context[target] \in Context
      BY <1>1, <1>2
    <3> QED BY <3>1 DEF SignalDescriptor
  <2> HIDE DEF new
  <2>7. /\ signal_descriptor' \in [Pid -> SignalDescriptor] /\ signal_descriptor'[target] = new
        /\ \A p \in Pid : p # target => signal_descriptor'[p] = signal_descriptor[p]
    BY <1>1, <1>2, <2>1, <2>6
  <2>8. context[target].code = Program
    BY <1>5 DEF SignalsInv, ProgramResumes
  <2>9. ASSUME NEW p \in present
        PROVE  /\ signal_descriptor'[p].handlers = signal_descriptor[p].handlers
               /\ signal_descriptor'[p].is_running_a_signal <=> c[p].code # Program
               /\ signal_descriptor'[p].is_running_a_signal =>
                    signal_descriptor'[p].saved_context.code = Program
    <3>1. CASE p = target
      BY <2>2, <2>3, <2>6, <2>7, <2>8, <3>1
    <3>2. CASE p # target
      <4>1. signal_descriptor'[p] = signal_descriptor[p] /\ c[p] = context[p]
        BY <1>1, <2>3, <2>7, <3>2
      <4> QED BY <4>1 DEF SignalsInv, ProgramResumes
    <3> QED BY <3>1, <3>2
  <2>10. \A p \in Pid \ present : c[p] = context[p]
    BY <2>3
  <2> QED BY <1>1, <2>1, <2>3, <2>5, <2>7, <2>9, <2>10, CallInv, HandledAreCodes
<1> QED BY <1>4, <1>5

LEMMA SendInv ==
    ASSUME SignalsInv, ProcessInv, NEW signal \in SentSignals, NEW target \in Pid,
           SendSignal(signal, target)
    PROVE  SignalsInv'
<1>1. Calling /\ target \in present /\ signal \in Signal_t
  BY SignalsAssumption DEF SendSignal
<1>2. CASE Tested(signal) \in signal_descriptor[target].handlers
  BY <1>1, <1>2, HandlerInv DEF SendSignal, processVars
<1>3. CASE Tested(signal) \notin signal_descriptor[target].handlers /\ signal \in Deadly
  BY <1>1, <1>3, KillInv DEF SendSignal
<1>4. CASE Tested(signal) \notin signal_descriptor[target].handlers /\ signal \notin Deadly
  <2>1. /\ context' = Returning(context, ANY, ANY) /\ owed' = Taken(owed)
        /\ UNCHANGED <<present, signal_descriptor, returned, installed>>
    BY <1>4 DEF SendSignal, vars, processVars
  <2>2. execution_index \in present /\ execution_index \in Pid /\ present \subseteq Pid
    BY <1>1, CallingIsPresent DEF ProcessInv, ProcessTypes
  <2>3. owed' \in [Pid -> Owed] /\ \A p \in Pid \ present : owed'[p] = Nothing
    BY <2>1, <2>2, TakenAt DEF SignalsInv, SignalTypes
  <2>4. \A p \in present :
          /\ signal_descriptor'[p].handlers = signal_descriptor[p].handlers
          /\ signal_descriptor'[p].is_running_a_signal <=> context[p].code # Program
          /\ signal_descriptor'[p].is_running_a_signal =>
               signal_descriptor'[p].saved_context.code = Program
    BY <2>1 DEF SignalsInv, ProgramResumes
  <2>5. context \in [Pid -> Context] /\ signal_descriptor' \in [Pid -> SignalDescriptor]
    BY <2>1 DEF SignalsInv, SignalTypes
  <2> QED BY <2>1, <2>2, <2>3, <2>4, <2>5, CallInv, HandledAreCodes
<1> QED BY <1>2, <1>3, <1>4

\* fork() makes at most one process, in a slot that was free and joins nobody.
LEMMA ForkMakesOne ==
    ASSUME ProcessInv, Fork
    PROVE  \/ UNCHANGED <<present, waiting>>
           \/ \E slot \in Pid \ present :
                /\ present' = present \cup {slot}
                /\ \A q \in present : slot \notin Waiters(q)
                /\ waiting' = [waiting EXCEPT ![slot] = <<>>]
<1>1. CASE Pid \subseteq present
  BY <1>1 DEF Fork, processVars
<1>2. CASE ~(Pid \subseteq present)
  <2>1. PICK slot \in Pid \ present : CreateProcess(slot)
    BY <1>2 DEF Fork
  <2>2. CASE \E q \in present : Occurrences(waiting[q], slot) > 0
    BY <2>1, <2>2 DEF CreateProcess, processVars
  <2>3. CASE ~(\E q \in present : Occurrences(waiting[q], slot) > 0)
    BY <2>1, <2>3 DEF CreateProcess, Waiters
  <2> QED BY <2>2, <2>3
<1> QED BY <1>1, <1>2

LEMMA ForkInv ==
    ASSUME SignalsInv, ProcessInv, ForkChild
    PROVE  SignalsInv'
<1> DEFINE new == present' \ present
           after == Returning(context, ANY, ANY)
<1>1. /\ execution_index \in present /\ execution_index \in Pid /\ present \subseteq Pid
      /\ present \subseteq present' /\ present' \subseteq Pid
  BY CallingIsPresent, ForkMakesOne DEF ForkChild, ProcessInv, ProcessTypes
<1>2. /\ context' = [p \in Pid |-> IF p \in new THEN FreshContext ELSE after[p]]
      /\ signal_descriptor' =
           [p \in Pid |-> IF p \in new THEN FreshDescriptor ELSE signal_descriptor[p]]
      /\ returned' = [p \in Pid |-> IF p \in present' THEN ANY ELSE returned[p]]
      /\ owed' = Taken(owed) /\ UNCHANGED installed
  BY DEF ForkChild, Reset
<1>3. /\ context \in [Pid -> Context] /\ signal_descriptor \in [Pid -> SignalDescriptor]
      /\ owed \in [Pid -> Owed] /\ returned \in [Pid -> Argument]
      /\ installed \in [Pid -> SUBSET Handleable]
  BY DEF SignalsInv, SignalTypes
<1>4. /\ after \in [Pid -> Context]
      /\ \A p \in Pid : after[p].code = context[p].code
      /\ \A p \in Pid : p # execution_index => after[p] = context[p]
  <2>1. ANY \in Result /\ ANY \in Argument
    BY HandledAreCodes
  <2> QED BY <1>1, <1>3, <2>1, ReturningAt
<1>5. /\ owed' \in [Pid -> Owed] /\ \A p \in Pid : p \notin present' => owed'[p] = Nothing
  BY <1>1, <1>2, <1>3, TakenAt
<1> HIDE DEF after
<1>6. SignalTypes'
  BY <1>2, <1>3, <1>4, <1>5, HandledAreCodes DEF SignalTypes
<1>7. SlotsAreClean'
  <2>1. \A p \in present' : returned'[p] = ANY
    BY <1>1, <1>2
  <2>2. \A p \in Pid \ present' : /\ returned'[p] = returned[p] /\ context'[p] = context[p]
                                  /\ p \notin present
    BY <1>1, <1>2, <1>4
  <2> QED BY <1>2, <1>5, <2>1, <2>2 DEF SignalsInv, SlotsAreClean
<1>8. \A p \in new : installed[p] = {}
  BY <1>1 DEF SignalsInv, SlotsAreClean
<1>9. HandlersAreInstalled'
  <2>1. FreshDescriptor.handlers = {}
    BY DEF FreshDescriptor
  <2> QED BY <1>1, <1>2, <1>8, <2>1 DEF SignalsInv, HandlersAreInstalled
<1>10. ProgramResumes'
  <2>1. /\ FreshDescriptor.is_running_a_signal = FALSE /\ FreshContext.code = Program
    BY DEF FreshDescriptor, FreshContext
  <2> QED BY <1>1, <1>2, <1>4, <2>1 DEF SignalsInv, ProgramResumes
<1> QED BY <1>6, <1>7, <1>9, <1>10 DEF SignalsInv

LEMMA SetHandlerInv ==
    ASSUME SignalsInv, ProcessInv, NEW signal \in HandledSignals, SetSignalHandler(signal)
    PROVE  SignalsInv'
<1> DEFINE new == [signal_descriptor[execution_index] EXCEPT !.handlers = @ \cup {signal}]
<1>1. /\ execution_index \in present /\ execution_index \in Pid /\ present \subseteq Pid
      /\ UNCHANGED <<present, context, returned>> /\ owed' = Taken(owed)
      /\ signal_descriptor' = [signal_descriptor EXCEPT ![execution_index] = new]
      /\ installed' = [installed EXCEPT ![execution_index] = @ \cup {signal}]
      /\ signal \in Handleable
  BY CallingIsPresent, SignalsAssumption
     DEF SetSignalHandler, ProcessInv, ProcessTypes, vars, processVars
<1>2. /\ context \in [Pid -> Context] /\ signal_descriptor \in [Pid -> SignalDescriptor]
      /\ owed \in [Pid -> Owed] /\ returned \in [Pid -> Argument]
      /\ installed \in [Pid -> SUBSET Handleable]
  BY DEF SignalsInv, SignalTypes
<1>3. /\ new \in SignalDescriptor
      /\ new.handlers = signal_descriptor[execution_index].handlers \cup {signal}
      /\ new.is_running_a_signal = signal_descriptor[execution_index].is_running_a_signal
      /\ new.saved_context = signal_descriptor[execution_index].saved_context
  <2>1. signal_descriptor[execution_index] \in SignalDescriptor
    BY <1>1, <1>2
  <2> QED BY <1>1, <2>1 DEF SignalDescriptor
<1> HIDE DEF new
<1>4. owed' \in [Pid -> Owed] /\ \A p \in Pid : p \notin present' => owed'[p] = Nothing
  BY <1>1, <1>2, TakenAt
<1>5. SignalTypes'
  BY <1>1, <1>2, <1>3, <1>4 DEF SignalTypes
<1>6. SlotsAreClean'
  BY <1>1, <1>4 DEF SignalsInv, SlotsAreClean
<1>7. HandlersAreInstalled'
  <2> SUFFICES ASSUME NEW p \in present PROVE signal_descriptor'[p].handlers = installed'[p]
    BY <1>1 DEF HandlersAreInstalled
  <2>1. signal_descriptor[p].handlers = installed[p]
    BY DEF SignalsInv, HandlersAreInstalled
  <2>2. CASE p = execution_index
    BY <1>1, <1>2, <1>3, <2>1, <2>2
  <2>3. CASE p # execution_index
    BY <1>1, <1>2, <2>1, <2>3
  <2> QED BY <2>2, <2>3
<1>8. ProgramResumes'
  <2> SUFFICES ASSUME NEW p \in present
               PROVE  /\ signal_descriptor'[p].is_running_a_signal <=> context[p].code # Program
                      /\ signal_descriptor'[p].is_running_a_signal =>
                           signal_descriptor'[p].saved_context.code = Program
    BY <1>1 DEF ProgramResumes
  <2>1. /\ signal_descriptor'[p].is_running_a_signal = signal_descriptor[p].is_running_a_signal
        /\ signal_descriptor'[p].saved_context = signal_descriptor[p].saved_context
    BY <1>1, <1>2, <1>3
  <2> QED BY <2>1 DEF SignalsInv, ProgramResumes
<1> QED BY <1>5, <1>6, <1>7, <1>8 DEF SignalsInv

LEMMA ReturnInv ==
    ASSUME SignalsInv, ProcessInv, ReturnFromSignal
    PROVE  SignalsInv'
<1> DEFINE e == execution_index
           new == [signal_descriptor[e] EXCEPT
                     !.is_running_a_signal = FALSE, !.saved_context = FreshContext]
<1>1. /\ e \in present /\ e \in Pid /\ present \subseteq Pid
      /\ context[e].code # Program
      /\ UNCHANGED <<present, returned, installed>> /\ owed' = Taken(owed)
      /\ context' = [context EXCEPT ![e] = signal_descriptor[e].saved_context]
      /\ signal_descriptor' = [signal_descriptor EXCEPT ![e] = new]
  BY CallingIsPresent DEF ReturnFromSignal, ProcessInv, ProcessTypes, vars, processVars
<1>2. /\ context \in [Pid -> Context] /\ signal_descriptor \in [Pid -> SignalDescriptor]
      /\ owed \in [Pid -> Owed]
  BY DEF SignalsInv, SignalTypes
<1>3. /\ new \in SignalDescriptor /\ new.handlers = signal_descriptor[e].handlers
      /\ new.is_running_a_signal = FALSE
      /\ signal_descriptor[e].saved_context \in Context
  <2>1. signal_descriptor[e] \in SignalDescriptor
    BY <1>1, <1>2
  <2> QED BY <2>1, HandledAreCodes DEF SignalDescriptor
<1>4. signal_descriptor[e].saved_context.code = Program
  BY <1>1 DEF SignalsInv, ProgramResumes
<1> HIDE DEF new
<1>5. owed' \in [Pid -> Owed] /\ \A p \in Pid : p \notin present' => owed'[p] = Nothing
  BY <1>1, <1>2, TakenAt
<1> HIDE DEF e
<1>6. SignalTypes'
  BY <1>1, <1>2, <1>3, <1>5 DEF SignalsInv, SignalTypes
<1>7. SlotsAreClean'
  BY <1>1, <1>5 DEF SignalsInv, SlotsAreClean
<1>8. HandlersAreInstalled'
  BY <1>1, <1>2, <1>3 DEF SignalsInv, HandlersAreInstalled
<1>9. ProgramResumes'
  <2> SUFFICES ASSUME NEW p \in present
               PROVE  /\ signal_descriptor'[p].is_running_a_signal <=> context'[p].code # Program
                      /\ signal_descriptor'[p].is_running_a_signal =>
                           signal_descriptor'[p].saved_context.code = Program
    BY <1>1 DEF ProgramResumes
  <2>1. CASE p = e
    BY <1>1, <1>2, <1>3, <1>4, <2>1
  <2>2. CASE p # e
    <3>1. signal_descriptor'[p] = signal_descriptor[p] /\ context'[p] = context[p]
      BY <1>1, <1>2, <2>2
    <3> QED BY <3>1 DEF SignalsInv, ProgramResumes
  <2> QED BY <2>1, <2>2
<1> QED BY <1>6, <1>7, <1>8, <1>9 DEF SignalsInv

LEMMA InitSignalsInv == InitSignals => SignalsInv
<1> SUFFICES ASSUME InitSignals PROVE SignalsInv
  OBVIOUS
<1>1. /\ signal_descriptor = [p \in Pid |-> FreshDescriptor]
      /\ context = [p \in Pid |-> FreshContext]
      /\ owed = [p \in Pid |-> Nothing]
      /\ returned = [p \in Pid |-> ANY]
      /\ installed = [p \in Pid |-> {}]
      /\ present \subseteq Pid
  BY InitProcessInv DEF InitSignals, ProcessInv, ProcessTypes
<1>2. SignalTypes
  BY <1>1, HandledAreCodes DEF SignalTypes
<1>3. SlotsAreClean
  BY <1>1 DEF SlotsAreClean
<1>4. HandlersAreInstalled /\ ProgramResumes
  BY <1>1 DEF HandlersAreInstalled, ProgramResumes, FreshDescriptor, FreshContext
<1> QED BY <1>2, <1>3, <1>4 DEF SignalsInv

LEMMA NextSignalsInv ==
    ASSUME ProcessInv, SignalsInv, [NextSignals]_everything
    PROVE  SignalsInv'
<1>1. CASE SameSignals
  BY <1>1, SameSignalsInv
<1>2. CASE ForkChild
  BY <1>2, ForkInv
<1>3. CASE ReturnFromSignal
  BY <1>3, ReturnInv
<1>4. ASSUME NEW ret \in ExitValues, ExitWith(ret) PROVE SignalsInv'
  BY <1>4, ExitInv
<1>5. ASSUME NEW target \in Pid, JoinChild(target) \/ JoinEnded(target) PROVE SignalsInv'
  BY <1>5, JoinInv
<1>6. ASSUME NEW target \in Pid, NEW signal \in SentSignals, SendSignal(signal, target)
      PROVE  SignalsInv'
  BY <1>6, SendInv
<1>7. ASSUME NEW signal \in HandledSignals, SetSignalHandler(signal) PROVE SignalsInv'
  BY <1>7, SetHandlerInv
<1>8. \/ (EnterMultitasking \/ ClockInterrupt \/ Halted) /\ UNCHANGED signalVars
      \/ UNCHANGED everything
      => SameSignals
  BY DEF EnterMultitasking, ClockInterrupt, Halted, everything, vars, processVars, SameSignals
<1>9. Join(NoProcess) /\ UNCHANGED signalVars => SameSignals
  BY PastAnArrayStep DEF PastAnArray, PastTheArray, processVars, SameSignals
<1> QED BY <1>1, <1>2, <1>3, <1>4, <1>5, <1>6, <1>7, <1>8, <1>9 DEF NextSignals

LEMMA SignalsSafety == SpecSignals => [](ProcessInv /\ SignalsInv)
<1>1. InitSignals => ProcessInv /\ SignalsInv
  BY InitSignalsInv, InitProcessInv DEF InitSignals
<1>2. ProcessInv /\ SignalsInv /\ [NextSignals]_everything => ProcessInv' /\ SignalsInv'
  BY SignalsProcessStep, NextSignalsInv
<1> QED BY <1>1, <1>2, PTL DEF SpecSignals

\* However signals, calls and deaths interleave, a process that runs a handler
\* has its program saved, and a process that runs its program has no other.
THEOREM NoProgramIsLost == SpecSignals => []ContextsOK
<1>1. SignalsInv => ContextsOK
  <2>1. SignalTypes => SignalsTypeOK
    BY DEF SignalTypes, SignalsTypeOK, Context, SignalDescriptor, Code, Result, Argument
  <2> QED BY <2>1 DEF SignalsInv, ContextsOK
<1> QED BY <1>1, SignalsSafety, PTL

-----------------------------------------------------------------------------
(* Whose handler runs.                                                     *)

\* The processes that a step leaves run what they ran, or their program.
LEMMA SameCodes ==
    ASSUME HandlerIsItsOwn,
           \A p \in present' :
             \/ context'[p].code = Program
             \/ /\ p \in present /\ context'[p].code = context[p].code
                /\ installed[p] \subseteq installed'[p]
    PROVE  HandlerIsItsOwn'
BY DEF HandlerIsItsOwn

LEMMA SendHandler ==
    ASSUME ProcessInv, SignalsInv, HandlerIsItsOwn,
           NEW target \in Pid, NEW signal \in SentSignals \ {"SIGUSR1"},
           SendSignal(signal, target)
    PROVE  HandlerIsItsOwn'
<1>1. /\ execution_index \in Pid /\ present \subseteq Pid /\ target \in present
      /\ signal \in Signal_t /\ SignalTypes
  BY CallingIsPresent, SignalsAssumption DEF SendSignal, ProcessInv, ProcessTypes, SignalsInv
<1>2. CASE Tested(signal) \notin signal_descriptor[target].handlers /\ signal \in Deadly
  <2>1. /\ Answered(target, 0, ANY) /\ installed' = OfTheLiving(installed, {})
        /\ present' \subseteq present
    BY <1>2 DEF SendSignal, Kill, Destroy
  <2>2. \A p \in present' : context'[p].code = context[p].code
    BY <1>1, <2>1, AnsweredAt, HandledAreCodes
  <2>3. \A p \in present' : installed'[p] = installed[p]
    BY <1>1, <2>1 DEF OfTheLiving
  <2> QED BY <2>1, <2>2, <2>3, SameCodes
<1>3. CASE Tested(signal) \notin signal_descriptor[target].handlers /\ signal \notin Deadly
  <2>1. context' = Returning(context, ANY, ANY) /\ UNCHANGED <<present, installed>>
    BY <1>3 DEF SendSignal, vars, processVars
  <2>2. context \in [Pid -> Context] /\ ANY \in Result /\ ANY \in Argument
    BY <1>1, HandledAreCodes DEF SignalTypes
  <2>3. \A p \in present : context'[p].code = context[p].code
    BY <1>1, <2>1, <2>2, ReturningAt
  <2> QED BY <2>1, <2>3, SameCodes
<1>4. CASE Tested(signal) \in signal_descriptor[target].handlers
  <2>1. CallSignalHandler(target, signal) /\ UNCHANGED <<present, installed>>
    BY <1>4 DEF SendSignal, processVars
  <2>2. CASE signal_descriptor[target].is_running_a_signal
    <3>1. context' = Returning(context, ANY, ANY)
      BY <2>1, <2>2 DEF CallSignalHandler
    <3>2. \A p \in present : context'[p].code = context[p].code
      BY <1>1, <3>1, ReturningAt, HandledAreCodes DEF SignalTypes
    <3> QED BY <2>1, <3>2, SameCodes
  <2>3. CASE ~signal_descriptor[target].is_running_a_signal
    <3> DEFINE handler == IF Called(signal) \in signal_descriptor[target].handlers
                          THEN Called(signal) ELSE NullHandler
               c == [context EXCEPT ![target] = [@ EXCEPT !.code = handler]]
    <3>1. context' = Returning(c, ANY, ANY)
      BY <2>1, <2>3 DEF CallSignalHandler
    <3>2. Called(signal) = Tested(signal)
      BY DEF Called, Tested
    <3>3. handler \in installed[target] /\ handler \in Code
      <4>1. signal_descriptor[target].handlers = installed[target]
        BY <1>1 DEF SignalsInv, HandlersAreInstalled
      <4>2. installed[target] \subseteq Handleable
        BY <1>1 DEF SignalTypes
      <4> QED BY <1>4, <3>2, <4>1, <4>2, HandledAreCodes
    <3> HIDE DEF handler
    <3>4. /\ c \in [Pid -> Context] /\ c[target].code = handler
          /\ \A p \in Pid : p # target => c[p] = context[p]
      <4>1. context \in [Pid -> Context] /\ context[target] \in Context
        BY <1>1 DEF SignalTypes
      <4>2. /\ [context[target] EXCEPT !.code = handler] \in Context
            /\ [context[target] EXCEPT !.code = handler].code = handler
        BY <3>3, <4>1 DEF Context
      <4> QED BY <4>1, <4>2
    <3> HIDE DEF c
    <3>5. \A p \in present : context'[p].code = c[p].code
      BY <1>1, <3>1, <3>4, ReturningAt, HandledAreCodes
    <3> QED BY <1>1, <2>1, <3>3, <3>4, <3>5 DEF HandlerIsItsOwn
  <2> QED BY <2>2, <2>3
<1> QED BY <1>2, <1>3, <1>4

LEMMA NextHandler ==
    ASSUME "SIGUSR1" \notin SentSignals,
           ProcessInv, SignalsInv, HandlerIsItsOwn, [NextSignals]_everything
    PROVE  HandlerIsItsOwn'
<1>1. present \subseteq Pid /\ SignalTypes
  BY DEF ProcessInv, ProcessTypes, SignalsInv
<1>2. CASE SameSignals
  BY <1>2 DEF SameSignals, signalVars, historyVars, HandlerIsItsOwn
<1>3. CASE ForkChild
  <2>1. /\ execution_index \in Pid /\ present' \subseteq Pid
        /\ UNCHANGED installed /\ Reset(present' \ present)
    BY <1>1, <1>3, CallingIsPresent, ForkMakesOne DEF ForkChild
  <2>2. \A p \in Pid : Returning(context, ANY, ANY)[p].code = context[p].code
    BY <1>1, <2>1, ReturningAt, HandledAreCodes DEF SignalTypes
  <2>3. \A p \in Pid : context'[p].code = IF p \in present' \ present THEN Program
                                          ELSE context[p].code
    BY <2>1, <2>2 DEF Reset, FreshContext
  <2> QED BY <2>1, <2>3, SameCodes
<1>4. CASE ReturnFromSignal
  <2>1. /\ execution_index \in present /\ UNCHANGED <<present, installed>>
        /\ context' = [context EXCEPT
             ![execution_index] = signal_descriptor[execution_index].saved_context]
        /\ context[execution_index].code # Program
    BY <1>4, CallingIsPresent DEF ReturnFromSignal, vars, processVars
  <2>2. signal_descriptor[execution_index].saved_context.code = Program
    BY <2>1 DEF SignalsInv, ProgramResumes
  <2> QED BY <1>1, <2>1, <2>2, SameCodes DEF SignalTypes
<1>5. ASSUME NEW ret \in ExitValues, ExitWith(ret) PROVE HandlerIsItsOwn'
  <2>1. /\ execution_index \in Pid /\ Answered(execution_index, ret, ret)
        /\ installed' = OfTheLiving(installed, {}) /\ present' \subseteq present
    BY <1>5, CallingIsPresent DEF ExitWith, Exit, Destroy
  <2>2. \A p \in present' : context'[p].code = context[p].code
    BY <1>1, <2>1, AnsweredAt, HandledAreCodes
  <2>3. \A p \in present' : installed'[p] = installed[p]
    BY <1>1, <2>1 DEF OfTheLiving
  <2> QED BY <2>1, <2>2, <2>3, SameCodes
<1>6. ASSUME NEW target \in Pid, JoinChild(target) \/ JoinEnded(target) PROVE HandlerIsItsOwn'
  <2>1. execution_index \in Pid /\ UNCHANGED <<present, installed>>
    BY <1>6, CallingIsPresent DEF JoinChild, JoinEnded, Join, JoinProcess, vars, processVars
  <2>2. context[target].rdx \in Result /\ ANY \in Result /\ ANY \in Argument
    BY <1>1, HandledAreCodes DEF SignalTypes, Context
  <2>3. \E rax \in Result : context' = Returning(context, rax, ANY)
    BY <1>6, <2>2 DEF JoinChild, JoinEnded
  <2>4. \A p \in present : context'[p].code = context[p].code
    BY <1>1, <2>1, <2>2, <2>3, ReturningAt DEF SignalTypes
  <2> QED BY <2>1, <2>4, SameCodes
<1>7. ASSUME NEW target \in Pid, NEW signal \in SentSignals, SendSignal(signal, target)
      PROVE  HandlerIsItsOwn'
  BY <1>7, SendHandler
<1>8. ASSUME NEW signal \in HandledSignals, SetSignalHandler(signal) PROVE HandlerIsItsOwn'
  <2>1. /\ execution_index \in Pid /\ UNCHANGED <<present, context>>
        /\ installed' = [installed EXCEPT ![execution_index] = @ \cup {signal}]
    BY <1>8, CallingIsPresent DEF SetSignalHandler, vars, processVars
  <2>2. \A p \in present : installed[p] \subseteq installed'[p]
    BY <1>1, <2>1 DEF SignalTypes
  <2> QED BY <2>1, <2>2, SameCodes
<1>9. \/ (EnterMultitasking \/ ClockInterrupt \/ Halted) /\ UNCHANGED signalVars
      \/ UNCHANGED everything
      => SameSignals
  BY DEF EnterMultitasking, ClockInterrupt, Halted, everything, vars, processVars, SameSignals
<1>10. Join(NoProcess) /\ UNCHANGED signalVars => SameSignals
  BY PastAnArrayStep DEF PastAnArray, PastTheArray, processVars, SameSignals
<1> QED BY <1>2, <1>3, <1>4, <1>5, <1>6, <1>7, <1>8, <1>9, <1>10 DEF NextSignals

\* A process runs the handlers that it has set itself and no others, whoever
\* had its slot before and whatever call_signal_handler() finds when it is
\* called; SIGUSR1 is left out because signal() tests for one of its handlers
\* and call_signal_handler() calls another.
THEOREM HandlersAreOwn ==
    ASSUME "SIGUSR1" \notin SentSignals
    PROVE  SpecSignals => []HandlerIsItsOwn
<1>1. InitSignals => HandlerIsItsOwn
  <2> SUFFICES ASSUME InitSignals, NEW p \in present
               PROVE  context[p].code \in {Program} \cup installed[p]
    BY DEF HandlerIsItsOwn
  <2>1. context = [q \in Pid |-> FreshContext] /\ p \in Pid
    BY InitProcessInv DEF InitSignals, ProcessInv, ProcessTypes
  <2> QED BY <2>1 DEF FreshContext
<1>2. ProcessInv /\ SignalsInv /\ HandlerIsItsOwn /\ [NextSignals]_everything
      => HandlerIsItsOwn'
  BY NextHandler
<1> QED BY <1>1, <1>2, SignalsSafety, PTL DEF SpecSignals

-----------------------------------------------------------------------------
(* What join() returns.                                                    *)

LEMMA KernelKept ==
    ASSUME JoinsAreSafe, KernelInv, [NextSignals]_everything
    PROVE  KernelInv'
<1>1. ProcessInv'
  BY SignalsProcessStep DEF KernelInv
<1>2. present \subseteq Pid /\ present' \subseteq Pid
  BY <1>1 DEF KernelInv, ProcessInv, ProcessTypes
<1>3. CASE [Next]_vars
  BY <1>1, <1>3, NextListTypes, NextKeepsPlaces DEF KernelInv
<1>4. ASSUME NEW signal \in SentSignals, NEW target \in Pid, SendSignal(signal, target)
      PROVE  KernelInv'
  <2>1. Running /\ target \in present \ {0}
    BY <1>4 DEF SendSignal, Calling
  <2>2. CASE Kill(target)
    BY <1>1, <1>2, <2>1, <2>2, KillTypes, KillPlaces DEF KernelInv, StepsWell
  <2>3. CASE /\ UNCHANGED <<processVars, waiting, timer_list, semaphore_array>>
             /\ Schedule(ready_queue, scheduler_timer_ticks)
    BY <1>1, <1>2, <2>1, <2>3, ReturnTypes, ReturnPlaces DEF KernelInv, StepsWell
  <2>4. CASE UNCHANGED vars
    BY <1>3, <2>4
  <2> QED BY <1>4, <2>2, <2>3, <2>4 DEF SendSignal
<1>5. \/ EnterMultitasking \/ ClockInterrupt \/ Halted \/ Join(NoProcess)
      \/ ForkChild \/ ReturnFromSignal
      \/ \E ret \in ExitValues : ExitWith(ret)
      \/ \E target \in Pid : JoinChild(target) \/ JoinEnded(target)
      \/ \E signal \in HandledSignals : SetSignalHandler(signal)
      \/ UNCHANGED everything
      => [Next]_vars
  BY DEF Next, ForkChild, ReturnFromSignal, ExitWith, JoinChild, JoinEnded,
         SetSignalHandler, everything
<1> QED BY <1>3, <1>4, <1>5 DEF NextSignals

\* The process that makes a call waits for nobody.
LEMMA CallerWaitsForNobody ==
    ASSUME KernelInv, Calling
    PROVE  \A q \in present : execution_index \notin Waiters(q)
<1> SUFFICES ASSUME NEW q \in present PROVE execution_index \notin Waiters(q)
  OBVIOUS
<1>1. /\ execution_index \in Ready /\ execution_index \in Pid /\ present \subseteq Pid
      /\ execution_index \notin Joiners[q]
  BY RunningPlaces DEF KernelInv, Calling, Placed
<1>2. waiting[q] \in Seq(Pid) /\ Joiners[q] = Range(waiting[q])
  BY <1>1 DEF KernelInv, ListTypes, Joiners
<1> QED BY <1>1, <1>2, OccursInRange DEF Waiters

JoinsInv == SignalsInv /\ JoinersWait /\ ResultsKept

LEMMA ResultsFit == ResultsKept <=> \A p \in present : Fits(context[p], owed[p])
BY DEF ResultsKept, Fits

\* A step whose caller waits for nobody, and which touches no other process
\* that waits but for a handler that comes between.
LEMMA OthersWait ==
    ASSUME JoinersWait, NEW caller,
           \A q \in present' : caller \notin Waiters(q)',
           \A p, q \in present' : p # caller /\ p \in Waiters(q)' =>
             /\ p \in present /\ q \in present /\ p \in Waiters(q)
             /\ \/ owed'[p].interrupted
                \/ /\ owed'[p].interrupted = owed[p].interrupted
                   /\ owed'[p].code = owed[p].code /\ context'[p].code = context[p].code
    PROVE  JoinersWait'
BY DEF JoinersWait

LEMMA OthersKeep ==
    ASSUME ResultsKept, NEW caller, caller \in present' => Fits(context'[caller], owed'[caller]),
           \A p \in present' : p # caller =>
             \/ owed'[p] = Nothing
             \/ owed'[p].interrupted
             \/ p \in present /\ owed'[p] = owed[p] /\ context'[p] = context[p]
             \/ /\ owed'[p].code = context'[p].code
                /\ owed'[p].value # ANY => context'[p].rax = owed'[p].value
    PROVE  ResultsKept'
BY DEF ResultsKept, Fits

\* The value reaches every process that joined the one that dies.
LEMMA DeathJoins ==
    ASSUME KernelInv, JoinsInv, Calling, present' \subseteq present,
           NEW target \in present, target \notin present', NEW value \in Result,
           NEW rdx \in Argument, Answered(target, value, rdx),
           waiting' = [waiting EXCEPT ![target] = <<>>]
    PROVE  JoinersWait' /\ ResultsKept'
<1> DEFINE e == execution_index
<1>1. /\ e \in present /\ e \in Pid /\ present \subseteq Pid /\ target \in Pid
      /\ \A q \in present : e \notin Waiters(q)
      /\ Fits(context[e], owed[e])
  BY CallingIsPresent, CallerWaitsForNobody, ResultsFit
     DEF KernelInv, ProcessInv, ProcessTypes, JoinsInv
<1>2. /\ \A p \in Pid : context'[p].code = context[p].code
      /\ \A p \in Pid : p # e /\ p \notin Waiters(target) =>
           context'[p] = context[p] /\ (p \in present' => owed'[p] = owed[p])
      /\ \A p \in Pid : p # e /\ p \in Waiters(target) =>
           /\ context'[p].rax = value
           /\ p \in present' => /\ owed'[p].code = owed[p].code /\ owed'[p].value = value
                                /\ owed'[p].interrupted = owed[p].interrupted
      /\ Fits(context'[e], owed'[e])
  BY <1>1, AnsweredAt DEF JoinsInv, SignalsInv
<1>3. \A q \in present' : q # target /\ waiting'[q] = waiting[q]
  BY <1>1 DEF KernelInv, ListTypes
<1>4. \A q \in present' : Waiters(q)' = Waiters(q)
  BY <1>3 DEF Waiters
<1> HIDE DEF e
<1>5. JoinersWait'
  <2>1. \A q \in present' : e \notin Waiters(q)'
    BY <1>1, <1>4
  <2>2. ASSUME NEW p \in present', NEW q \in present', p # e, p \in Waiters(q)'
        PROVE  /\ p \in present /\ q \in present /\ p \in Waiters(q)
               /\ owed'[p].interrupted = owed[p].interrupted
               /\ owed'[p].code = owed[p].code /\ context'[p].code = context[p].code
    <3>1. p \in Pid /\ p \in present /\ q \in present /\ p \in Waiters(q)
      BY <1>1, <1>4, <2>2
    <3> QED BY <1>2, <2>2, <3>1
  <2> QED BY <2>1, <2>2, OthersWait DEF JoinsInv
<1>6. ResultsKept'
  <2>1. ASSUME NEW p \in present', p # e
        PROVE  \/ owed'[p].interrupted
               \/ p \in present /\ owed'[p] = owed[p] /\ context'[p] = context[p]
               \/ /\ owed'[p].code = context'[p].code
                  /\ owed'[p].value # ANY => context'[p].rax = owed'[p].value
    <3>1. p \in Pid /\ p \in present
      BY <1>1
    <3>2. CASE p \in Waiters(target)
      <4>1. owed[p].interrupted \/ context[p].code = owed[p].code
        BY <3>1, <3>2 DEF JoinsInv, JoinersWait
      <4> QED BY <1>2, <2>1, <3>1, <3>2, <4>1
    <3>3. CASE p \notin Waiters(target)
      BY <1>2, <2>1, <3>1, <3>3
    <3> QED BY <3>2, <3>3
  <2> QED BY <1>2, <2>1, OthersKeep DEF JoinsInv
<1> QED BY <1>5, <1>6

\* A call that kills nobody, joins nobody and sends no signal to a handler.
LEMMA QuietJoins ==
    ASSUME KernelInv, JoinsInv, Calling, UNCHANGED <<present, waiting>>,
           \A p \in present : p # execution_index =>
             context'[p] = context[p] /\ owed'[p] = owed[p],
           Fits(context'[execution_index], owed'[execution_index])
    PROVE  JoinersWait' /\ ResultsKept'
<1>1. \A q \in present : execution_index \notin Waiters(q)
  BY CallerWaitsForNobody
<1>2. \A q : Waiters(q)' = Waiters(q)
  BY DEF Waiters
<1>3. JoinersWait'
  BY <1>1, <1>2, OthersWait DEF JoinsInv
<1>4. ResultsKept'
  BY OthersKeep DEF JoinsInv
<1> QED BY <1>3, <1>4

\* What a caller that has nothing to get, or has taken it, is left with.
LEMMA CallFits ==
    ASSUME KernelInv, JoinsInv, Calling, owed' = Taken(owed)
    PROVE  /\ Fits(context'[execution_index], owed'[execution_index])
           /\ \A p \in Pid : p # execution_index /\ p \in present' => owed'[p] = owed[p]
<1>1. execution_index \in present /\ execution_index \in Pid
  BY CallingIsPresent DEF KernelInv
<1>2. SignalTypes /\ owed \in [Pid -> Owed]
  BY DEF JoinsInv, SignalsInv, SignalTypes
<1>3. Fits(context[execution_index], owed[execution_index])
  BY <1>1, ResultsFit DEF JoinsInv
<1> QED BY <1>1, <1>2, <1>3, CallerFits, TakenAt

LEMMA JoinJoins ==
    ASSUME KernelInv, JoinsInv, NEW target \in Pid, JoinChild(target)
    PROVE  JoinersWait' /\ ResultsKept'
<1> DEFINE e == execution_index
           due == [Nothing EXCEPT !.code = context[e].code]
<1>1. /\ e \in present /\ e \in Pid /\ present \subseteq Pid
      /\ \A q \in present : e \notin Waiters(q)
  BY CallingIsPresent, CallerWaitsForNobody
     DEF JoinChild, KernelInv, ProcessInv, ProcessTypes
<1>2. /\ context' = Returning(context, ANY, ANY) /\ owed' = [owed EXCEPT ![e] = due]
      /\ waiting' = [waiting EXCEPT ![target] = Append(@, e)] /\ UNCHANGED present
  BY DEF JoinChild, Join, JoinProcess, processVars
<1>3. /\ context \in [Pid -> Context] /\ owed \in [Pid -> Owed]
      /\ \A q \in Pid : waiting[q] \in Seq(Pid) /\ waiting \in [Pid -> Seq(Pid)]
  BY DEF JoinsInv, SignalsInv, SignalTypes, KernelInv, ListTypes
<1>4. due.code = context[e].code /\ due.value = ANY
  BY DEF Nothing
<1> HIDE DEF due
<1>5. /\ \A p \in Pid : context'[p].code = context[p].code
      /\ \A p \in Pid : p # e => context'[p] = context[p]
  <2>1. ANY \in Result /\ ANY \in Argument
    BY HandledAreCodes
  <2>2. context \in [Pid -> Context] /\ context' = Returning(context, ANY, ANY)
    BY <1>2, <1>3
  <2> QED BY <1>1, <2>1, <2>2, ReturningAt
<1>6. owed'[e] = due /\ \A p \in Pid : p # e => owed'[p] = owed[p]
  BY <1>1, <1>2, <1>3
<1>7. \A q \in Pid, p \in Pid : p # e /\ p \in Waiters(q)' => p \in Waiters(q)
  <2> SUFFICES ASSUME NEW q \in Pid, NEW p \in Pid, p # e, Occurrences(waiting'[q], p) > 0
               PROVE  Occurrences(waiting[q], p) > 0
    BY DEF Waiters
  <2>1. CASE q # target
    BY <1>2, <1>3, <2>1
  <2>2. CASE q = target
    <3>1. waiting'[q] = Append(waiting[q], e) /\ waiting'[q] \in Seq(Pid)
      BY <1>1, <1>2, <1>3, <2>2, AppendProperties
    <3>2. p \in Range(waiting'[q])
      BY <3>1, OccursInRange
    <3>3. p \in Range(waiting[q])
      <4>1. PICK k \in 1..Len(waiting'[q]) : waiting'[q][k] = p
        BY <3>1, <3>2 DEF Range
      <4>2. k \in 1..Len(waiting[q]) /\ waiting[q][k] = p
        BY <1>1, <1>3, <3>1, <4>1, AppendProperties
      <4> QED BY <1>3, <4>2 DEF Range
    <3> QED BY <1>3, <3>3, OccursInRange
  <2> QED BY <2>1, <2>2
<1> HIDE DEF e
<1>8. JoinersWait'
  <2> SUFFICES ASSUME NEW p \in present, NEW q \in present, p \in Waiters(q)'
               PROVE  owed'[p].interrupted \/ context'[p].code = owed'[p].code
    BY <1>2 DEF JoinersWait
  <2>1. CASE p = e
    BY <1>1, <1>4, <1>5, <1>6, <2>1
  <2>2. CASE p # e
    <3>1. p \in Pid /\ q \in Pid /\ p \in Waiters(q)
      BY <1>1, <1>7, <2>2
    <3>2. owed[p].interrupted \/ context[p].code = owed[p].code
      BY <3>1 DEF JoinsInv, JoinersWait
    <3> QED BY <1>5, <1>6, <2>2, <3>1, <3>2
  <2> QED BY <2>1, <2>2
<1>9. ResultsKept'
  <2>1. Fits(context'[e], owed'[e])
    BY <1>1, <1>4, <1>5, <1>6 DEF Fits
  <2>2. \A p \in present' : p # e => p \in present /\ owed'[p] = owed[p] /\ context'[p] = context[p]
    BY <1>1, <1>2, <1>5, <1>6
  <2> QED BY <2>1, <2>2, OthersKeep DEF JoinsInv
<1> QED BY <1>8, <1>9

\* The argument of exit() is still in the context of the process that ended.
LEMMA EndedJoins ==
    ASSUME KernelInv, JoinsInv, NEW target \in Pid, JoinEnded(target)
    PROVE  JoinersWait' /\ ResultsKept'
<1> DEFINE e == execution_index
           due == [Nothing EXCEPT !.code = context[e].code, !.value = returned[target]]
<1>1. e \in present /\ e \in Pid /\ present \subseteq Pid
  BY CallingIsPresent DEF JoinEnded, KernelInv, ProcessInv, ProcessTypes
<1>2. /\ Calling /\ target \notin present /\ UNCHANGED <<present, waiting>>
      /\ context' = Returning(context, context[target].rdx, ANY)
      /\ owed' = [owed EXCEPT ![e] = due]
  BY DEF JoinEnded, vars, processVars
<1>3. /\ context \in [Pid -> Context] /\ owed \in [Pid -> Owed]
      /\ context[target].rdx \in Result /\ ANY \in Argument
  BY HandledAreCodes DEF JoinsInv, SignalsInv, SignalTypes, Context
<1>4. due.code = context[e].code /\ due.value = returned[target]
  BY DEF Nothing
<1>5. returned[target] # ANY => context[target].rdx = returned[target]
  BY <1>2 DEF JoinsInv, SignalsInv, SlotsAreClean
<1> HIDE DEF due
<1>6. /\ \A p \in Pid : context'[p].code = context[p].code
      /\ \A p \in Pid : p # e => context'[p] = context[p]
      /\ context'[e].rax = context[target].rdx
  BY <1>1, <1>2, <1>3, ReturningAt
<1>7. owed'[e] = due /\ \A p \in Pid : p # e => owed'[p] = owed[p]
  BY <1>1, <1>2, <1>3
<1>8. Fits(context'[e], owed'[e])
  BY <1>1, <1>4, <1>5, <1>6, <1>7 DEF Fits
<1> QED BY <1>1, <1>2, <1>6, <1>7, <1>8, QuietJoins

LEMMA ForkJoins ==
    ASSUME KernelInv, JoinsInv, ForkChild
    PROVE  JoinersWait' /\ ResultsKept'
<1> DEFINE e == execution_index
<1>1. /\ e \in present /\ e \in Pid /\ present \subseteq Pid
      /\ Calling /\ Fork /\ owed' = Taken(owed) /\ Reset(present' \ present)
      /\ \A q \in present : e \notin Waiters(q)
  BY CallingIsPresent, CallerWaitsForNobody
     DEF ForkChild, KernelInv, ProcessInv, ProcessTypes
<1>2. /\ Fits(context'[e], owed'[e])
      /\ \A p \in Pid : p # e /\ p \in present' => owed'[p] = owed[p]
  BY <1>1, CallFits
<1>3. \A p \in Pid : p # e /\ p \notin present' \ present => context'[p] = context[p]
  <2>1. /\ context' = [p \in Pid |-> IF p \in present' \ present THEN FreshContext
                                      ELSE Returning(context, ANY, ANY)[p]]
        /\ context \in [Pid -> Context] /\ ANY \in Result /\ ANY \in Argument
    BY <1>1, HandledAreCodes DEF Reset, JoinsInv, SignalsInv, SignalTypes
  <2>2. \A p \in Pid : p # e => Returning(context, ANY, ANY)[p] = context[p]
    BY <1>1, <2>1, ReturningAt
  <2> QED BY <2>1, <2>2
<1>4. CASE UNCHANGED <<present, waiting>>
  <2>1. \A p \in present : p # e => context'[p] = context[p] /\ owed'[p] = owed[p]
    BY <1>1, <1>2, <1>3, <1>4
  <2> QED BY <1>1, <1>2, <1>4, <2>1, QuietJoins
<1>5. ASSUME NEW slot \in Pid \ present, present' = present \cup {slot},
             \A q \in present : slot \notin Waiters(q),
             waiting' = [waiting EXCEPT ![slot] = <<>>]
      PROVE  JoinersWait' /\ ResultsKept'
  <2>1. /\ waiting \in [Pid -> Seq(Pid)]
        /\ \A q \in present : waiting'[q] = waiting[q]
        /\ waiting'[slot] = <<>>
    BY <1>1, <1>5 DEF KernelInv, ListTypes
  <2>2. \A q \in present : Waiters(q)' = Waiters(q)
    BY <2>1 DEF Waiters
  <2>3. \A p : p \notin Waiters(slot)'
    <3> SUFFICES ASSUME NEW p \in Pid PROVE ~(Occurrences(waiting'[slot], p) > 0)
      BY DEF Waiters
    <3>1. <<>> \in Seq(Pid) /\ p \notin Range(<<>>)
      BY DEF Range
    <3> QED BY <2>1, <3>1, OccursInRange
  <2>4. owed'[slot] = Nothing
    <3>1. owed[slot] = Nothing
      BY <1>5 DEF JoinsInv, SignalsInv, SlotsAreClean
    <3> QED BY <1>1, <1>2, <1>5, <3>1
  <2>5. \A p \in present : p # e => context'[p] = context[p] /\ owed'[p] = owed[p]
    BY <1>1, <1>2, <1>3, <1>5
  <2>6. JoinersWait'
    <3>1. \A q \in present' : e \notin Waiters(q)'
      BY <1>1, <1>5, <2>2, <2>3
    <3>2. ASSUME NEW p \in present', NEW q \in present', p # e, p \in Waiters(q)'
          PROVE  /\ p \in present /\ q \in present /\ p \in Waiters(q)
                 /\ owed'[p] = owed[p] /\ context'[p] = context[p]
      BY <1>5, <2>2, <2>3, <2>5, <3>2
    <3> QED BY <3>1, <3>2, OthersWait DEF JoinsInv
  <2>7. ResultsKept'
    <3>1. ASSUME NEW p \in present', p # e
          PROVE  \/ owed'[p] = Nothing
                 \/ p \in present /\ owed'[p] = owed[p] /\ context'[p] = context[p]
      BY <1>5, <2>4, <2>5, <3>1
    <3> QED BY <1>2, <3>1, OthersKeep DEF JoinsInv
  <2> QED BY <2>6, <2>7
<1> HIDE DEF e
<1>6. ProcessInv
  BY DEF KernelInv
<1> QED BY <1>1, <1>4, <1>5, <1>6, ForkMakesOne

\* What is interrupted by a handler is marked as such.
LEMMA HandlerJoins ==
    ASSUME KernelInv, JoinsInv, Calling, NEW target \in present, NEW signal,
           CallSignalHandler(target, signal), UNCHANGED <<present, waiting>>
    PROVE  JoinersWait' /\ ResultsKept'
<1> DEFINE e == execution_index
<1>1. /\ e \in present /\ e \in Pid /\ present \subseteq Pid /\ target \in Pid
      /\ \A q \in present : e \notin Waiters(q)
      /\ Fits(context[e], owed[e])
  BY CallingIsPresent, CallerWaitsForNobody, ResultsFit
     DEF KernelInv, ProcessInv, ProcessTypes, JoinsInv
<1>2. /\ context \in [Pid -> Context] /\ owed \in [Pid -> Owed] /\ SignalTypes
      /\ signal_descriptor \in [Pid -> SignalDescriptor]
      /\ ANY \in Result /\ ANY \in Argument
  BY HandledAreCodes DEF JoinsInv, SignalsInv, SignalTypes
<1>3. CASE signal_descriptor[target].is_running_a_signal
  <2>1. context' = Returning(context, ANY, ANY) /\ owed' = Taken(owed)
    BY <1>3 DEF CallSignalHandler
  <2>2. \A p \in Pid : p # e => context'[p] = context[p]
    BY <1>1, <1>2, <2>1, ReturningAt
  <2>3. \A p \in present : p # e => context'[p] = context[p] /\ owed'[p] = owed[p]
    BY <1>1, <2>1, <2>2, CallFits
  <2> QED BY <2>1, <2>3, CallFits, QuietJoins
<1>4. CASE ~signal_descriptor[target].is_running_a_signal
  <2> DEFINE handler == IF Called(signal) \in signal_descriptor[target].handlers
                        THEN Called(signal) ELSE NullHandler
             c == [context EXCEPT ![target] = [@ EXCEPT !.code = handler]]
             record == [owed EXCEPT ![target] = [@ EXCEPT !.interrupted = TRUE]]
  <2>1. context' = Returning(c, ANY, ANY) /\ owed' = Taken(record)
    BY <1>4 DEF CallSignalHandler
  <2>2. handler \in Code
    <3>1. signal_descriptor[target].handlers \subseteq Handleable
      BY <1>1, <1>2 DEF SignalDescriptor
    <3> QED BY <3>1, HandledAreCodes
  <2> HIDE DEF handler
  <2>3. c \in [Pid -> Context] /\ \A p \in Pid : p # target => c[p] = context[p]
    <3>1. context[target] \in Context
      BY <1>1, <1>2
    <3>2. [context[target] EXCEPT !.code = handler] \in Context
      BY <2>2, <3>1 DEF Context
    <3> QED BY <1>1, <1>2, <3>2
  <2>4. /\ record \in [Pid -> Owed] /\ record[target].interrupted
        /\ \A p \in Pid : p # target => record[p] = owed[p]
    <3>1. owed[target] \in Owed
      BY <1>1, <1>2
    <3>2. [owed[target] EXCEPT !.interrupted = TRUE] \in Owed
      BY <3>1 DEF Owed
    <3>3. [owed[target] EXCEPT !.interrupted = TRUE].interrupted
      BY <3>1 DEF Owed
    <3> QED BY <1>1, <1>2, <3>2, <3>3
  <2> HIDE DEF c, record
  <2>5. /\ \A p \in Pid : p # e => context'[p] = c[p]
        /\ \A p \in Pid : p # e /\ p \in present' => owed'[p] = record[p]
    BY <1>1, <1>2, <2>1, <2>3, <2>4, CallReturns
  <2>6. Fits(context'[e], owed'[e])
    <3>1. record[e] = owed[e] \/ record[e].interrupted
      BY <1>1, <2>4
    <3> QED BY <1>1, <1>2, <2>1, <2>4, <3>1, CallerFits
  <2>7. ASSUME NEW p \in present, p # e
        PROVE  owed'[p].interrupted \/ (owed'[p] = owed[p] /\ context'[p] = context[p])
    <3>1. p \in Pid /\ owed'[p] = record[p] /\ context'[p] = c[p]
      BY <1>1, <2>5, <2>7
    <3> QED BY <2>3, <2>4, <3>1
  <2>8. \A q : Waiters(q)' = Waiters(q)
    BY DEF Waiters
  <2> HIDE DEF e
  <2>9. JoinersWait'
    BY <1>1, <2>7, <2>8, OthersWait DEF JoinsInv
  <2>10. ResultsKept'
    BY <2>6, <2>7, OthersKeep DEF JoinsInv
  <2> QED BY <2>9, <2>10
<1> QED BY <1>3, <1>4

LEMMA NextJoins ==
    ASSUME JoinsAreSafe, KernelInv, JoinsInv, [NextSignals]_everything
    PROVE  JoinsInv'
<1>1. SignalsInv'
  BY NextSignalsInv DEF KernelInv, JoinsInv
<1>2. CASE \/ /\ EnterMultitasking \/ ClockInterrupt \/ Halted \/ Join(NoProcess)
              /\ UNCHANGED signalVars
           \/ UNCHANGED everything
  <2>1. UNCHANGED <<present, waiting, context, owed>>
    <3>1. Join(NoProcess) => UNCHANGED <<present, waiting>>
      BY PastAnArrayStep DEF PastAnArray, PastTheArray, processVars
    <3> QED BY <1>2, <3>1 DEF EnterMultitasking, ClockInterrupt, Halted, everything, vars,
                              processVars, signalVars, historyVars
  <2>2. \A q : Waiters(q)' = Waiters(q)
    BY <2>1 DEF Waiters
  <2>3. JoinersWait' /\ ResultsKept'
    BY <2>1, <2>2 DEF JoinsInv, JoinersWait, ResultsKept
  <2> QED BY <1>1, <2>3 DEF JoinsInv
<1>3. CASE ForkChild
  BY <1>1, <1>3, ForkJoins DEF JoinsInv
<1>4. CASE ReturnFromSignal
  <2>1. /\ Calling /\ UNCHANGED <<present, waiting>> /\ owed' = Taken(owed)
        /\ context' = [context EXCEPT
             ![execution_index] = signal_descriptor[execution_index].saved_context]
    BY <1>4 DEF ReturnFromSignal, vars, processVars
  <2>2. present \subseteq Pid /\ context \in [Pid -> Context]
    BY DEF KernelInv, ProcessInv, ProcessTypes, JoinsInv, SignalsInv, SignalTypes
  <2>3. \A p \in present : p # execution_index => context'[p] = context[p] /\ owed'[p] = owed[p]
    BY <2>1, <2>2, CallFits
  <2> QED BY <1>1, <2>1, <2>3, CallFits, QuietJoins DEF JoinsInv
<1>5. ASSUME NEW ret \in ExitValues, ExitWith(ret) PROVE JoinsInv'
  <2>1. /\ Calling /\ execution_index \in present /\ Destroy(execution_index)
        /\ Answered(execution_index, ret, ret)
        /\ waiting' = [waiting EXCEPT ![execution_index] = <<>>]
        /\ ret \in Result /\ ret \in Argument
    BY <1>5, CallingIsPresent, HandledAreCodes DEF ExitWith, Exit, KernelInv
  <2>2. present' \subseteq present /\ execution_index \notin present'
    BY <2>1, FamilyHasRoot DEF Destroy, KernelInv, ProcessInv, ProcessTypes
  <2> QED BY <1>1, <2>1, <2>2, DeathJoins DEF JoinsInv
<1>6. ASSUME NEW target \in Pid, JoinChild(target) \/ JoinEnded(target) PROVE JoinsInv'
  BY <1>1, <1>6, JoinJoins, EndedJoins DEF JoinsInv
<1>7. ASSUME NEW target \in Pid, NEW signal \in SentSignals, SendSignal(signal, target)
      PROVE  JoinsInv'
  <2>1. Calling /\ target \in present
    BY <1>7 DEF SendSignal
  <2>2. CASE Tested(signal) \in signal_descriptor[target].handlers
    <3>1. CallSignalHandler(target, signal) /\ UNCHANGED <<present, waiting>>
      BY <1>7, <2>2 DEF SendSignal, processVars
    <3> QED BY <1>1, <2>1, <3>1, HandlerJoins DEF JoinsInv
  <2>3. CASE Tested(signal) \notin signal_descriptor[target].handlers /\ signal \in Deadly
    <3>1. Destroy(target) /\ waiting' = [waiting EXCEPT ![target] = <<>>]
          /\ Answered(target, 0, ANY) /\ 0 \in Result /\ ANY \in Argument
      BY <1>7, <2>3, HandledAreCodes DEF SendSignal, Kill
    <3>2. present' \subseteq present /\ target \notin present'
      BY <2>1, <3>1, FamilyHasRoot DEF Destroy, KernelInv, ProcessInv, ProcessTypes
    <3> QED BY <1>1, <2>1, <3>1, <3>2, DeathJoins DEF JoinsInv
  <2>4. CASE Tested(signal) \notin signal_descriptor[target].handlers /\ signal \notin Deadly
    <3>1. /\ context' = Returning(context, ANY, ANY) /\ owed' = Taken(owed)
          /\ UNCHANGED <<present, waiting>>
      BY <1>7, <2>4 DEF SendSignal, vars, processVars
    <3>2. /\ context \in [Pid -> Context] /\ ANY \in Result /\ ANY \in Argument
          /\ present \subseteq Pid /\ execution_index \in Pid
      BY <2>1, HandledAreCodes, CallingIsPresent
         DEF KernelInv, ProcessInv, ProcessTypes, JoinsInv, SignalsInv, SignalTypes
    <3>3. \A p \in Pid : p # execution_index => context'[p] = context[p]
      BY <3>1, <3>2, ReturningAt
    <3>4. \A p \in present : p # execution_index => context'[p] = context[p] /\ owed'[p] = owed[p]
      BY <2>1, <3>1, <3>2, <3>3, CallFits
    <3> QED BY <1>1, <2>1, <3>1, <3>4, CallFits, QuietJoins DEF JoinsInv
  <2> QED BY <2>2, <2>3, <2>4
<1>8. ASSUME NEW signal \in HandledSignals, SetSignalHandler(signal) PROVE JoinsInv'
  <2>1. Calling /\ UNCHANGED <<present, waiting, context>> /\ owed' = Taken(owed)
    BY <1>8 DEF SetSignalHandler, vars, processVars
  <2>2. present \subseteq Pid
    BY DEF KernelInv, ProcessInv, ProcessTypes
  <2>3. \A p \in present : p # execution_index => context'[p] = context[p] /\ owed'[p] = owed[p]
    BY <2>1, <2>2, CallFits
  <2> QED BY <1>1, <2>1, <2>3, CallFits, QuietJoins DEF JoinsInv
<1> QED BY <1>2, <1>3, <1>4, <1>5, <1>6, <1>7, <1>8 DEF NextSignals

LEMMA InitJoins == InitSignals => KernelInv /\ JoinsInv
<1> SUFFICES ASSUME InitSignals PROVE KernelInv /\ JoinsInv
  OBVIOUS
<1>1. KernelInv
  BY InitProcessInv, InitListTypes, InitPlaces DEF InitSignals, KernelInv
<1>2. /\ owed = [p \in Pid |-> Nothing] /\ waiting = [p \in Pid |-> <<>>]
      /\ present \subseteq Pid
  BY <1>1 DEF InitSignals, Init, KernelInv, ProcessInv, ProcessTypes
<1>3. ResultsKept
  BY <1>2 DEF ResultsKept
<1>4. JoinersWait
  <2> SUFFICES ASSUME NEW p \in present, NEW q \in present PROVE p \notin Waiters(q)
    BY DEF JoinersWait
  <2>1. waiting[q] = <<>> /\ <<>> \in Seq(Pid) /\ p \notin Range(<<>>)
    BY <1>2 DEF Range
  <2> QED BY <2>1, OccursInRange DEF Waiters
<1> QED BY <1>1, <1>3, <1>4, InitSignalsInv DEF JoinsInv

\* join() gives its caller what the process it waited for returned, or 0 if
\* that one was killed, whatever was scheduled, forked, signalled or destroyed
\* meanwhile, as long as no handler came between.
THEOREM JoinersGetTheValue ==
    ASSUME JoinsAreSafe
    PROVE  SpecSignals => []JoinValueUndisturbed
<1>1. KernelInv /\ JoinsInv /\ [NextSignals]_everything => KernelInv' /\ JoinsInv'
  BY KernelKept, NextJoins
<1>2. KernelInv /\ JoinsInv => JoinValueUndisturbed
  <2> SUFFICES ASSUME KernelInv, JoinsInv, Running, execution_index # 0
               PROVE  LET due == owed[execution_index]
                          now == context[execution_index]
                      IN  now.code = due.code /\ due.value # ANY /\ ~due.interrupted
                          => now.rax = due.value
    BY DEF JoinValueUndisturbed
  <2>1. execution_index \in present
    BY CallingIsPresent DEF Calling, KernelInv
  <2>2. Nothing.value = ANY
    BY DEF Nothing
  <2> QED BY <2>1, <2>2 DEF JoinsInv, ResultsKept
<1> QED BY <1>1, <1>2, InitJoins, PTL DEF SpecSignals

-----------------------------------------------------------------------------
(* Drivers.                                                                *)

Functions == 0..(MAX_DRIVER_FUNCTIONS - 1)

DescriptorType ==
    [id : Pid, is_present : BOOLEAN, is_ready : BOOLEAN, functions : SUBSET Functions]

\* Only the process that owns an irq registers for it.
Registered ==
    \A irq \in DriverIrq :
        io_descriptor_array[irq].is_present =>
            io_descriptor_array[irq].id = DriverProcess[irq]

\* A descriptor that waits for interrupts has been registered.
ReadyIsRegistered ==
    \A irq \in DriverIrq :
        io_descriptor_array[irq].is_ready => io_descriptor_array[irq].is_present

DescriptorsOK ==
    /\ io_descriptor_array \in [DriverIrq -> DescriptorType]
    /\ Registered
    /\ ReadyIsRegistered

RequestsOK == requested \subseteq DriverIrq

\* The part of the invariant that holds for any set of drivers.
AnyDriversInv == ProcessInv /\ ListTypes /\ DescriptorsOK /\ RequestsOK

-----------------------------------------------------------------------------
(* The descriptors.                                                        *)

LEMMA DriversAreBooted ==
    ASSUME NEW irq \in DriverIrq
    PROVE  /\ DriverProcess[irq] \in Booted /\ DriverProcess[irq] \in Pid
           /\ DriverProcess[irq] # 0
           /\ irq \in Nat /\ irq # 0
<1>1. DriverProcess[irq] \in DOMAIN BootLevels /\ irq \in 1..(IRQ_SIZE - 1) /\ IRQ_SIZE \in Nat
  BY DriverAssumption
<1>2. DOMAIN BootLevels = 1..Len(BootLevels) /\ Len(BootLevels) \in Nat /\ Len(BootLevels) < MAX_PROCESS_NUMBER
  BY BootAssumption, LenProperties
<1> QED BY <1>1, <1>2, SizeAssumption DEF Booted, Pid

\* What a step does to the descriptors: nothing, or it changes those of the
\* process that runs.
RegisterStep(irq) ==
    /\ io_descriptor_array' = [io_descriptor_array EXCEPT ![irq] =
         [EmptyDescriptor EXCEPT !.id = execution_index, !.is_present = TRUE]]
    /\ DriverProcess[irq] = execution_index

FunctionStep(irq, n) ==
    /\ io_descriptor_array' = [io_descriptor_array EXCEPT ![irq].functions = @ \cup {n}]
    /\ n \in Functions

WaitStep ==
    io_descriptor_array' = [irq \in DriverIrq |->
         IF irq \in Driven(execution_index)
         THEN [io_descriptor_array[irq] EXCEPT !.is_ready = TRUE]
         ELSE io_descriptor_array[irq]]

DescriptorStep ==
    \/ UNCHANGED io_descriptor_array
    \/ \E irq \in DriverIrq : RegisterStep(irq)
    \/ \E irq \in DriverIrq, n \in Functions : FunctionStep(irq, n)
    \/ WaitStep

LEMMA RegisterKeeps ==
    ASSUME DescriptorsOK, NEW irq \in DriverIrq, RegisterStep(irq)
    PROVE  DescriptorsOK'
<1> DEFINE new == [EmptyDescriptor EXCEPT !.id = execution_index, !.is_present = TRUE]
<1>1. execution_index \in Pid /\ execution_index = DriverProcess[irq]
  BY DriversAreBooted DEF RegisterStep
<1>2. new \in DescriptorType /\ new.id = execution_index /\ ~new.is_ready
  BY <1>1 DEF EmptyDescriptor, DescriptorType
<1>3. io_descriptor_array' = [io_descriptor_array EXCEPT ![irq] = new]
  BY DEF RegisterStep
<1> HIDE DEF new
<1>4. \A i \in DriverIrq : io_descriptor_array'[i] = IF i = irq THEN new ELSE io_descriptor_array[i]
  BY <1>3 DEF DescriptorsOK
<1>5. io_descriptor_array' \in [DriverIrq -> DescriptorType]
  BY <1>2, <1>3 DEF DescriptorsOK
<1> QED BY <1>1, <1>2, <1>4, <1>5 DEF DescriptorsOK, Registered, ReadyIsRegistered

LEMMA FunctionKeeps ==
    ASSUME DescriptorsOK, NEW irq \in DriverIrq, NEW n \in Functions, FunctionStep(irq, n)
    PROVE  DescriptorsOK'
<1> DEFINE old == io_descriptor_array[irq]
           new == [old EXCEPT !.functions = @ \cup {n}]
<1>1. old \in DescriptorType
  BY DEF DescriptorsOK
<1>2. io_descriptor_array' = [io_descriptor_array EXCEPT ![irq] = new]
  BY DEF FunctionStep, DescriptorsOK
<1> HIDE DEF old
<1>3. /\ new \in DescriptorType /\ new.id = old.id
      /\ new.is_present = old.is_present /\ new.is_ready = old.is_ready
  BY <1>1 DEF DescriptorType
<1> HIDE DEF new
<1>4. \A i \in DriverIrq : io_descriptor_array'[i] = IF i = irq THEN new ELSE io_descriptor_array[i]
  BY <1>2 DEF DescriptorsOK
<1>5. io_descriptor_array' \in [DriverIrq -> DescriptorType]
  BY <1>2, <1>3 DEF DescriptorsOK
<1> QED BY <1>3, <1>4, <1>5 DEF DescriptorsOK, Registered, ReadyIsRegistered, old

\* wait_for_interrupt() sets one flag of the descriptors of its caller.
LEMMA WaitKeeps ==
    ASSUME DescriptorsOK, WaitStep
    PROVE  /\ DescriptorsOK'
           /\ \A irq \in DriverIrq :
                /\ io_descriptor_array'[irq].id = io_descriptor_array[irq].id
                /\ io_descriptor_array'[irq].is_present = io_descriptor_array[irq].is_present
                /\ io_descriptor_array'[irq].is_ready <=>
                     irq \in Driven(execution_index) \/ io_descriptor_array[irq].is_ready
<1>1. ASSUME NEW irq \in DriverIrq
      PROVE  /\ io_descriptor_array'[irq] \in DescriptorType
             /\ io_descriptor_array'[irq].id = io_descriptor_array[irq].id
             /\ io_descriptor_array'[irq].is_present = io_descriptor_array[irq].is_present
             /\ io_descriptor_array'[irq].is_ready <=>
                  irq \in Driven(execution_index) \/ io_descriptor_array[irq].is_ready
  <2> DEFINE old == io_descriptor_array[irq]
  <2>1. old \in DescriptorType
    BY DEF DescriptorsOK
  <2>2. CASE irq \in Driven(execution_index)
    <3>1. io_descriptor_array'[irq] = [old EXCEPT !.is_ready = TRUE]
      BY <2>2 DEF WaitStep
    <3> HIDE DEF old
    <3>2. /\ [old EXCEPT !.is_ready = TRUE] \in DescriptorType
          /\ [old EXCEPT !.is_ready = TRUE].id = old.id
          /\ [old EXCEPT !.is_ready = TRUE].is_present = old.is_present
          /\ [old EXCEPT !.is_ready = TRUE].is_ready
      BY <2>1 DEF DescriptorType
    <3> QED BY <2>2, <3>1, <3>2 DEF old
  <2>3. CASE irq \notin Driven(execution_index)
    <3>1. io_descriptor_array'[irq] = old
      BY <2>3 DEF WaitStep
    <3> QED BY <2>1, <2>3, <3>1
  <2> QED BY <2>2, <2>3
<1>2. io_descriptor_array' \in [DriverIrq -> DescriptorType]
  <2>1. io_descriptor_array' = [irq \in DriverIrq |-> io_descriptor_array'[irq]]
    BY DEF WaitStep
  <2> QED BY <1>1, <2>1
<1>3. Registered'
  BY <1>1 DEF DescriptorsOK, Registered
<1>4. ReadyIsRegistered'
  BY <1>1 DEF DescriptorsOK, ReadyIsRegistered, Driven
<1> QED BY <1>1, <1>2, <1>3, <1>4 DEF DescriptorsOK

LEMMA DescriptorsKept ==
    ASSUME DescriptorsOK, DescriptorStep
    PROVE  DescriptorsOK'
<1>1. CASE UNCHANGED io_descriptor_array
  BY <1>1 DEF DescriptorsOK, Registered, ReadyIsRegistered
<1> QED BY <1>1, RegisterKeeps, FunctionKeeps, WaitKeeps DEF DescriptorStep

-----------------------------------------------------------------------------
(* The processes and their lists.                                          *)

\* The steps of the process manager alone are steps of Multitasking.
LEMMA KernelStepIsNext ==
    (KernelStep \/ ClockTick \/ UNCHANGED vars) => [Next]_vars
BY DEF KernelStep, ClockTick, Next

LEMMA TypeOfStep ==
    ASSUME ProcessInv, ListTypes, [Next]_vars
    PROVE  ProcessInv' /\ ListTypes'
BY NextKeepsInv, NextListTypes

LEMMA InterruptTypes ==
    ASSUME ProcessInv, ListTypes, DescriptorsOK, NEW irq \in DriverIrq, Interrupt(irq)
    PROVE  ProcessInv' /\ ListTypes'
<1> DEFINE driver == io_descriptor_array[irq]
           added == IF driver.is_present /\ driver.is_ready THEN <<driver.id>> ELSE <<>>
           queue == AddToList(ready_queue, added, present)
<1>1. /\ UNCHANGED <<processVars, waiting, timer_list, semaphore_array>>
      /\ Schedule(queue, scheduler_timer_ticks)
  BY DEF Interrupt
<1>2. added \in Seq(Pid)
  <2>1. driver.id \in Pid
    BY DEF DescriptorsOK, DescriptorType
  <2> QED BY <2>1, EmptySeq
<1> HIDE DEF added
<1>3. queue \in Seq(Pid) /\ scheduler_timer_ticks \in Nat
  BY <1>2, AddProcesses, TickTypes DEF ListTypes, SchedulerTypes, ProcessInv, ProcessTypes
<1> HIDE DEF queue
<1>4. ProcessInv'
  BY <1>1, KeepStep, StepKeepsInv
<1>5. SchedulerTypes'
  BY <1>1, <1>3, <1>4, ScheduleTypes DEF ProcessInv, ProcessTypes
<1> QED BY <1>1, <1>4, <1>5 DEF ListTypes

LEMMA WaitTypes ==
    ASSUME ProcessInv, ListTypes, WaitForInterrupt
    PROVE  ProcessInv' /\ ListTypes'
<1>1. /\ UNCHANGED <<processVars, waiting, timer_list, semaphore_array>>
      /\ Drop(ready_queue)
  BY DEF WaitForInterrupt
<1>2. ProcessInv'
  BY <1>1, KeepStep, StepKeepsInv
<1>3. SchedulerTypes'
  BY <1>1, <1>2, DropTypes DEF ProcessInv, ProcessTypes, ListTypes, SchedulerTypes
<1> QED BY <1>1, <1>2, <1>3 DEF ListTypes

\* join() of an id that is past the end of the array.
LEMMA JoinCallCases ==
    ASSUME NEW target \in Pid \cup {NoProcess}, JoinCall(target)
    PROVE  /\ Running /\ execution_index # 0 /\ UNCHANGED driverVars
           /\ (target \in Pid /\ JoinDriven(target)) \/ PastTheArray
BY DEF JoinCall, JoinDriven

LEMMA PastTheArrayTypes ==
    ASSUME ProcessInv, ListTypes, PastTheArray
    PROVE  ProcessInv' /\ ListTypes'
<1>1. ProcessInv'
  BY IdleStep, StepKeepsInv DEF PastTheArray, processVars
<1> QED BY <1>1 DEF PastTheArray, ListTypes, SchedulerTypes, Status

LEMMA JoinDrivenTypes ==
    ASSUME ProcessInv, ListTypes, Running, NEW target \in Pid, JoinDriven(target)
    PROVE  ProcessInv' /\ ListTypes'
<1>1. /\ UNCHANGED <<processVars, timer_list, semaphore_array>>
      /\ Drop(ready_queue)
      /\ waiting' = [waiting EXCEPT ![target] = Append(waiting[target], execution_index)]
      /\ execution_index \in Pid
  BY DEF JoinDriven, Running
<1>2. ProcessInv'
  BY <1>1, KeepStep, StepKeepsInv
<1>3. SchedulerTypes'
  BY <1>1, <1>2, DropTypes DEF ProcessInv, ProcessTypes, ListTypes, SchedulerTypes
<1>4. waiting' \in [Pid -> Seq(Pid)]
  BY <1>1 DEF ListTypes
<1> QED BY <1>1, <1>2, <1>3, <1>4 DEF ListTypes

LEMMA DriverCallTypes ==
    ASSUME ProcessInv, ListTypes, NEW irq, NEW n, DriverCall(irq, n)
    PROVE  ProcessInv' /\ ListTypes'
<1> DEFINE father == io_descriptor_array[irq].id
<1>1. /\ Running /\ father \in present /\ ForkOf(father, <<irq, n>>)
      /\ UNCHANGED <<timer_list, semaphore_array>>
  BY DEF DriverCall
<1>2. PICK slot \in Pid \ present :
        /\ CreatedBy(father, slot)
        /\ waiting' = [waiting EXCEPT ![slot] = <<>>]
        /\ Schedule(Append(ready_queue, slot), scheduler_timer_ticks)
  BY <1>1 DEF ForkOf, CreatedBy
<1> HIDE DEF father
<1>3. present' \subseteq Pid
  BY <1>2 DEF CreatedBy, ProcessInv, ProcessTypes
<1>4. execution_index' \in Pid \cup {NoProcess} /\ RunningIsPresent'
  BY <1>2, <1>3, ScheduleRuns DEF ProcessInv, ProcessTypes
<1>5. ProcessInv'
  BY <1>1, <1>2, <1>4, StepKeepsInv DEF ProcessStep
<1>6. Append(ready_queue, slot) \in Seq(Pid) /\ scheduler_timer_ticks \in Nat
  BY TickTypes DEF ListTypes, SchedulerTypes
<1>7. SchedulerTypes'
  BY <1>2, <1>3, <1>6, ScheduleTypes
<1>8. waiting' \in [Pid -> Seq(Pid)]
  BY <1>2, EmptySeq DEF ListTypes
<1> QED BY <1>1, <1>5, <1>7, <1>8 DEF ListTypes

\* What a step does to the descriptors and the requests.
LEMMA DriversStep ==
    ASSUME [NextDrivers]_allVars
    PROVE  /\ DescriptorStep
           /\ requested' \subseteq requested \cup DriverIrq
<1>1. ASSUME KernelStep /\ UNCHANGED driverVars
      PROVE  UNCHANGED <<io_descriptor_array, requested>>
  BY <1>1 DEF driverVars
<1>2. ASSUME \/ ClockTick \/ UNCHANGED allVars
             \/ \E target \in Pid \cup {NoProcess} : JoinCall(target)
      PROVE  UNCHANGED <<io_descriptor_array, requested>>
  BY <1>2, JoinCallCases DEF ClockTick, allVars, driverVars
<1>3. ASSUME WaitForInterrupt
      PROVE  WaitStep /\ UNCHANGED requested
  BY <1>3 DEF WaitForInterrupt, WaitStep
<1>4. ASSUME NEW irq \in DriverIrq, DeviceRaises(irq) \/ Interrupt(irq)
      PROVE  UNCHANGED io_descriptor_array /\ requested' \subseteq requested \cup DriverIrq
  BY <1>4 DEF DeviceRaises, Interrupt
<1>5. ASSUME NEW irq \in DriverIrq, SetDriver(irq)
      PROVE  RegisterStep(irq) /\ UNCHANGED requested
  BY <1>5 DEF SetDriver, RegisterStep
<1>6. ASSUME NEW irq \in DriverIrq, NEW n \in Functions, SetDriverFunction(irq, n)
      PROVE  FunctionStep(irq, n) /\ UNCHANGED requested
  BY <1>6 DEF SetDriverFunction, FunctionStep
<1>7. ASSUME NEW irq \in DriverIrq, NEW n \in Functions, DriverCall(irq, n)
      PROVE  UNCHANGED <<io_descriptor_array, requested>>
  BY <1>7 DEF DriverCall, driverVars
<1> QED
  BY <1>1, <1>2, <1>3, <1>4, <1>5, <1>6, <1>7 DEF NextDrivers, DescriptorStep, Functions

LEMMA NextKernelInv == AnyDriversInv /\ [NextDrivers]_allVars => AnyDriversInv'
<1> SUFFICES ASSUME AnyDriversInv, [NextDrivers]_allVars PROVE AnyDriversInv'
  OBVIOUS
<1>1. DescriptorsOK' /\ RequestsOK'
  BY DriversStep, DescriptorsKept DEF AnyDriversInv, RequestsOK
<1>2. ProcessInv /\ ListTypes /\ DescriptorsOK
  BY DEF AnyDriversInv
<1>3. CASE KernelStep \/ ClockTick \/ UNCHANGED vars
  BY <1>1, <1>2, <1>3, KernelStepIsNext, TypeOfStep DEF AnyDriversInv
<1>4. CASE WaitForInterrupt
  BY <1>1, <1>2, <1>4, WaitTypes DEF AnyDriversInv
<1>5. ASSUME NEW irq \in DriverIrq, Interrupt(irq) PROVE AnyDriversInv'
  BY <1>1, <1>2, <1>5, InterruptTypes DEF AnyDriversInv
<1>6. ASSUME NEW irq \in DriverIrq, NEW n \in Functions, DriverCall(irq, n) PROVE AnyDriversInv'
  BY <1>1, <1>2, <1>6, DriverCallTypes DEF AnyDriversInv
<1>7. ASSUME NEW target \in Pid \cup {NoProcess}, JoinCall(target) PROVE AnyDriversInv'
  BY <1>1, <1>2, <1>7, JoinCallCases, PastTheArrayTypes, JoinDrivenTypes DEF AnyDriversInv
<1>8. \A irq \in DriverIrq :
        /\ DeviceRaises(irq) \/ SetDriver(irq) => UNCHANGED vars
        /\ \A n \in Functions : SetDriverFunction(irq, n) => UNCHANGED vars
  BY DEF DeviceRaises, SetDriver, SetDriverFunction
<1>9. UNCHANGED allVars => UNCHANGED vars
  BY DEF allVars
<1> QED
  BY <1>3, <1>4, <1>5, <1>6, <1>7, <1>8, <1>9 DEF NextDrivers, Functions

LEMMA InitKernelInv == InitDrivers => AnyDriversInv
<1> SUFFICES ASSUME InitDrivers PROVE AnyDriversInv
  OBVIOUS
<1>1. ProcessInv /\ ListTypes
  BY InitProcessInv, InitListTypes DEF InitDrivers
<1>2. EmptyDescriptor \in DescriptorType
  <2>1. 0 \in Pid
    BY SizeAssumption DEF Pid
  <2> QED BY <2>1 DEF EmptyDescriptor, DescriptorType
<1>3. DescriptorsOK /\ RequestsOK
  BY <1>2 DEF InitDrivers, DescriptorsOK, Registered, ReadyIsRegistered, EmptyDescriptor, RequestsOK
<1> QED BY <1>1, <1>3 DEF AnyDriversInv

\* In every reachable state the process manager and the descriptors of the
\* drivers are sound, for any set of drivers.
THEOREM KernelInvariant == SpecDrivers => []AnyDriversInv
BY InitKernelInv, NextKernelInv, PTL DEF SpecDrivers

\* Where the processes began.
RipOK == rip \in [Pid -> {Main} \cup (DriverIrq \X Functions)]

LEMMA NextRip ==
    RipOK /\ [NextDrivers]_allVars => RipOK'
<1> SUFFICES ASSUME RipOK, [NextDrivers]_allVars PROVE RipOK'
  OBVIOUS
<1>1. ASSUME NEW irq \in DriverIrq, NEW n \in Functions, DriverCall(irq, n) PROVE RipOK'
  <2>1. PICK slot \in Pid : rip' = [rip EXCEPT ![slot] = <<irq, n>>]
    BY <1>1 DEF DriverCall, ForkOf
  <2> QED BY <2>1 DEF RipOK
<1>2. CASE UNCHANGED rip
  BY <1>2 DEF RipOK
<1>3. ASSUME NEW target \in Pid \cup {NoProcess}, JoinCall(target) PROVE UNCHANGED rip
  BY <1>3, JoinCallCases DEF driverVars
<1>4. ASSUME NEW irq \in DriverIrq,
             \/ DeviceRaises(irq) \/ Interrupt(irq) \/ SetDriver(irq)
             \/ \E n \in Functions : SetDriverFunction(irq, n)
      PROVE  UNCHANGED rip
  BY <1>4 DEF DeviceRaises, Interrupt, SetDriver, SetDriverFunction
<1>5. \/ KernelStep /\ UNCHANGED driverVars
      \/ ClockTick \/ WaitForInterrupt \/ UNCHANGED allVars
      => UNCHANGED rip
  BY DEF ClockTick, WaitForInterrupt, allVars, driverVars
<1> QED BY <1>1, <1>2, <1>3, <1>4, <1>5 DEF NextDrivers, Functions

LEMMA RipInvariant == SpecDrivers => []RipOK
<1>1. InitDrivers => RipOK
  BY DEF InitDrivers, RipOK
<1> QED BY <1>1, NextRip, PTL DEF SpecDrivers

\* driver_call() is the one call by which a user process makes code run at
\* system level, and the process it creates is a child of a registered driver
\* that runs one of the functions this driver has set.
THEOREM SystemLevelBelongsToDrivers == SpecDrivers => SystemLevelIsDriver
<1> DEFINE Drives(p) ==
      \E irq \in DriverIrq :
        /\ father_id'[p] = DriverProcess[irq]
        /\ \E n \in io_descriptor_array[irq].functions : rip'[p] = <<irq, n>>
    Step ==
      Running /\ level[execution_index] = "user" =>
        \A p \in present' \ present : level'[p] = "system" => Drives(p)
<1>1. AnyDriversInv /\ RipOK /\ [NextDrivers]_allVars => Step
  <2> SUFFICES ASSUME AnyDriversInv, RipOK, [NextDrivers]_allVars,
                      NEW p \in present', p \notin present
               PROVE  Drives(p)
    OBVIOUS
  <2>1. \E irq \in DriverIrq, n \in Functions : DriverCall(irq, n)
    <3>1. /\ KernelStep => present' \subseteq present
          /\ ClockTick => UNCHANGED present
      BY DEF KernelStep, EnterMultitasking, Sleep, Exit, Destroy, Halted, ClockTick,
             ClockInterrupt, vars, processVars
    <3>2. WaitForInterrupt \/ UNCHANGED allVars => UNCHANGED present
      BY DEF WaitForInterrupt, allVars, vars, processVars
    <3>3. ASSUME NEW irq \in DriverIrq, DeviceRaises(irq) \/ Interrupt(irq) \/ SetDriver(irq)
          PROVE  UNCHANGED present
      BY <3>3 DEF DeviceRaises, Interrupt, SetDriver, vars, processVars
    <3>4. ASSUME NEW irq \in DriverIrq, NEW n \in Functions, SetDriverFunction(irq, n)
          PROVE  UNCHANGED present
      BY <3>4 DEF SetDriverFunction, vars, processVars
    <3>5. ASSUME NEW target \in Pid \cup {NoProcess}, JoinCall(target)
          PROVE  UNCHANGED present
      BY <3>5, JoinCallCases DEF JoinDriven, PastTheArray, processVars
    <3> QED BY <3>1, <3>2, <3>3, <3>4, <3>5 DEF NextDrivers, Functions
  <2>2. PICK irq \in DriverIrq, n \in Functions : DriverCall(irq, n)
    BY <2>1
  <2>3. /\ father_id' = [father_id EXCEPT ![p] = io_descriptor_array[irq].id]
        /\ rip' = [rip EXCEPT ![p] = <<irq, n>>] /\ p \in Pid
    BY <2>2 DEF DriverCall, ForkOf
  <2>4. /\ io_descriptor_array[irq].id = DriverProcess[irq]
        /\ n \in io_descriptor_array[irq].functions
    BY <2>2 DEF DriverCall, AnyDriversInv, DescriptorsOK, Registered
  <2>5. father_id'[p] = DriverProcess[irq] /\ rip'[p] = <<irq, n>>
    BY <2>3, <2>4 DEF AnyDriversInv, ProcessInv, ProcessTypes, RipOK
  <2> QED BY <2>4, <2>5
<1>2. AnyDriversInv /\ RipOK /\ [NextDrivers]_allVars => [Step]_allVars
  BY <1>1
<1> QED BY <1>2, KernelInvariant, RipInvariant, PTL DEF SpecDrivers, SystemLevelIsDriver

-----------------------------------------------------------------------------
(* One driver: what it waits for, and what stays in service for it.        *)

\* ps2_keyboard is the one module that calls set_driver().
OneDriver == \A i, j \in DriverIrq : i = j

\* The processes that wait for an interrupt: they are in no list.
Idle == {p \in Pid : Awaited(p) # {}}

\* Every process is booted or the child of a driver, and drivers do not die.
DriversLive ==
    /\ \A irq \in DriverIrq : DriverProcess[irq] \in present
    /\ \A p \in present : \/ father_id[p] = NoProcess
                          \/ \E irq \in DriverIrq : father_id[p] = DriverProcess[irq]

\* An interrupt stays in service only for a driver that has waited for it.
ServiceOK ==
    \/ in_service = {}
    \/ \E irq \in DriverIrq : in_service = Lines(irq) /\ io_descriptor_array[irq].is_ready

\* No program of the model creates a semaphore.
NothingQueued == \A s \in Semid : ~semaphore_array[s].is_present

\* PlaceInv, with the processes that wait for an interrupt as if asleep.
WaitersOK ==
    status = "running" =>
        /\ IsInjective(ready_queue) /\ execution_index \notin Range(ready_queue)
        /\ WaitsOnce
        /\ NoStaleWaiters
        /\ InitIsReady
        /\ Idle \subseteq present /\ Idle \cap Asleep = {}
        /\ Placed(present, Ready, Asleep \cup Idle, Joiners, Queued)

DriverInv == AnyDriversInv /\ DriversLive /\ ServiceOK /\ NothingQueued /\ WaitersOK

\* The 8259s end the one interrupt that is in service.
LEMMA EndOfInterrupt ==
    ASSUME NEW irq \in DriverIrq
    PROVE  AfterEOI(Lines(irq), irq) = {} /\ AfterEOI({}, irq) = {}
<1> DEFINE master(served) == {line \in served : line < 8}
<1>1. irq \in Nat /\ Cascade = 2
  BY DriversAreBooted DEF Cascade
<1>2. \A x \in Int : Highest({x}) = {x}
  BY DEF Highest
<1>3. Highest({}) = {}
  BY DEF Highest
<1>4. AfterEOI({}, irq) = {}
  <2>1. master({}) = {}
    OBVIOUS
  <2> QED BY <1>3, <2>1 DEF AfterEOI
<1>5. CASE irq < 8
  <2>1. Lines(irq) = {irq} /\ ~(irq >= 8) /\ Highest({irq}) = {irq}
    BY <1>1, <1>2, <1>5 DEF Lines
  <2>2. master({irq}) = {irq} /\ {irq} \ {irq} = {}
    BY <1>5
  <2>3. AfterEOI({irq}, irq) = (master({irq}) \ Highest(master({irq}))) \cup ({irq} \ master({irq}))
    BY <2>1 DEF AfterEOI
  <2>4. AfterEOI({irq}, irq) = {}
    <3>1. master({irq}) = {irq} /\ Highest({irq}) = {irq} /\ {irq} \ {irq} = {}
      BY <2>1, <2>2
    <3>2. Highest(master({irq})) = {irq}
      BY <3>1
    <3> HIDE DEF master
    <3> QED BY <2>3, <3>1, <3>2
  <2> QED BY <1>4, <2>1, <2>4
<1>6. CASE ~(irq < 8)
  <2>1. Lines(irq) = {irq, 2}
    BY <1>1, <1>6 DEF Lines
  <2>2. irq >= 8 /\ Highest({irq}) = {irq} /\ Highest({2}) = {2}
    BY <1>1, <1>2, <1>6
  <2>3. master({irq, 2}) = {2} /\ {irq, 2} \ {2} = {irq}
    BY <1>1, <1>6
  <2>4. AfterEOI({irq, 2}, irq) =
          (master({irq, 2}) \ Highest(master({irq, 2})))
            \cup (({irq, 2} \ master({irq, 2})) \ Highest({irq, 2} \ master({irq, 2})))
    BY <2>2 DEF AfterEOI
  <2>5. AfterEOI({irq, 2}, irq) = ({2} \ {2}) \cup ({irq} \ {irq})
    <3> HIDE DEF master
    <3> QED BY <2>2, <2>3, <2>4
  <2> QED BY <1>4, <2>1, <2>5
<1> QED BY <1>4, <1>5, <1>6

LEMMA ExtremesOfOne ==
    ASSUME NEW i \in Int
    PROVE  Min({i}) = i /\ Max({i}) = i
<1>1. i \in {i} /\ \A j \in {i} : i <= j /\ i >= j
  OBVIOUS
<1>2. Min({i}) \in {i}
  BY <1>1 DEF Min
<1>3. Max({i}) \in {i}
  BY <1>1 DEF Max
<1> QED BY <1>2, <1>3

\* A fold over one element.
LEMMA EndOfOne ==
    ASSUME NEW served, NEW irq
    PROVE  FoldLeft(LAMBDA s, i : AfterEOI(s, i), served, SetToSeq({irq})) = AfterEOI(served, irq)
<1> DEFINE one == SetToSeq({irq})
           After(s, i) == AfterEOI(s, i)
           fold == CHOOSE f : f = [s \in SUBSET {1} |->
                     IF s = {} THEN served ELSE After(f[s \ {Max(s)}], one[Max(s)])]
           unfolded == [s \in SUBSET {1} |-> IF s = {} THEN served ELSE After(served, irq)]
<1>1. one \in [1..1 -> {irq}]
  <2>1. Cardinality({irq}) = 1
    BY FS_Singleton
  <2>2. \E f \in [1..1 -> {irq}] : IsInjective(f)
    <3>1. [i \in 1..1 |-> irq] \in [1..1 -> {irq}] /\ IsInjective([i \in 1..1 |-> irq])
      BY DEF IsInjective
    <3> QED BY <3>1
  <2> QED BY <2>1, <2>2 DEF SetToSeq
<1>2. 1..1 = {1}
  OBVIOUS
<1>3. DOMAIN one = {1} /\ one[1] = irq
  BY <1>1, <1>2
<1> HIDE DEF one, After
<1>4. FoldLeft(LAMBDA s, i : AfterEOI(s, i), served, one) = fold[{1}]
  BY <1>3 DEF FoldLeft, MapThenFoldSet, After
<1>5. Max({1}) = 1
  BY ExtremesOfOne
<1>6. \A s \in SUBSET {1} : s = {} \/ s = {1}
  OBVIOUS
<1>7. unfolded = [s \in SUBSET {1} |->
                    IF s = {} THEN served ELSE After(unfolded[s \ {Max(s)}], one[Max(s)])]
  <2> SUFFICES ASSUME NEW s \in SUBSET {1}
               PROVE  unfolded[s] = IF s = {} THEN served
                                    ELSE After(unfolded[s \ {Max(s)}], one[Max(s)])
    OBVIOUS
  <2>1. CASE s = {}
    BY <2>1
  <2>2. CASE s = {1}
    <3>1. {1} \ {1} = {} /\ {1} # {} /\ {} \in SUBSET {1} /\ {1} \in SUBSET {1}
      OBVIOUS
    <3>2. unfolded[{}] = served /\ unfolded[{1}] = After(served, irq)
      BY <3>1
    <3> HIDE DEF unfolded
    <3> QED BY <1>3, <1>5, <2>2, <3>1, <3>2
  <2> QED BY <1>6, <2>1, <2>2
<1>8. fold = [s \in SUBSET {1} |->
                IF s = {} THEN served ELSE After(fold[s \ {Max(s)}], one[Max(s)])]
  <2> HIDE DEF unfolded
  <2> QED BY <1>7
<1>9. fold[{1}] = After(served, irq)
  <2>1. {1} \ {1} = {} /\ {1} # {} /\ {} \in SUBSET {1} /\ {1} \in SUBSET {1}
    OBVIOUS
  <2> HIDE DEF fold
  <2>2. fold[{}] = served
    BY <1>8, <2>1
  <2>3. fold[{1}] = After(fold[{1} \ {Max({1})}], one[Max({1})])
    BY <1>8, <2>1
  <2> QED BY <1>3, <1>5, <2>1, <2>2, <2>3
<1> QED BY <1>4, <1>9 DEF one, After

\* An interrupt is delivered only when no other one is in service.
LEMMA NothingInService ==
    ASSUME OneDriver, ServiceOK, NEW irq \in DriverIrq, Deliverable(irq)
    PROVE  in_service = {}
<1> SUFFICES ASSUME NEW other \in DriverIrq, in_service = Lines(other) PROVE FALSE
  BY DEF ServiceOK
<1>1. other = irq /\ irq \in Nat
  BY DriversAreBooted DEF OneDriver
<1>2. CASE irq < 8
  <2>1. Lines(irq) = {irq}
    BY <1>2 DEF Lines
  <2>2. Min({irq}) = irq
    BY <1>1, ExtremesOfOne
  <2>3. irq \in in_service /\ irq > Min(Lines(irq))
    BY <1>1, <1>2, <2>1 DEF Deliverable
  <2> QED BY <1>1, <2>1, <2>2, <2>3
<1>3. CASE ~(irq < 8)
  <2>1. irq \in in_service /\ irq >= 8
    BY <1>1, <1>3 DEF Lines
  <2>2. irq > irq
    BY <2>1 DEF Deliverable
  <2> QED BY <1>1, <2>2
<1> QED BY <1>2, <1>3

\* The clock's own interrupt has the highest priority: its end ends no other.
LEMMA ClockEndsItself ==
    ASSUME ServiceOK
    PROVE  AfterEOI(in_service \cup {0}, 0) = in_service
<1> DEFINE served == in_service \cup {0}
           master == {line \in served : line < 8}
<1>1. \A line \in in_service : line \in Nat /\ line # 0
  BY DriversAreBooted DEF ServiceOK, Lines, Cascade
<1>2. 0 \in master /\ \A line \in master : line \in Nat
  BY <1>1
<1>3. Highest(master) = {0}
  <2> HIDE DEF master
  <2> QED BY <1>2 DEF Highest
<1>4. AfterEOI(served, 0) = (master \ Highest(master)) \cup (served \ master)
  <2>1. ~(0 >= 8)
    OBVIOUS
  <2> QED BY <2>1 DEF AfterEOI
<1>5. (master \ {0}) \cup (served \ master) = in_service
  BY <1>1
<1> QED BY <1>3, <1>4, <1>5

-----------------------------------------------------------------------------
(* One driver: when it is idle.                                            *)

LEMMA IdleMembers ==
    ASSUME DescriptorsOK
    PROVE  \A p : p \in Idle <=> \E irq \in DriverIrq :
              /\ p = DriverProcess[irq]
              /\ io_descriptor_array[irq].is_ready /\ irq \notin in_service
<1>1. \A irq \in DriverIrq : DriverProcess[irq] \in Pid
  BY DriversAreBooted
<1> QED BY <1>1 DEF Idle, Awaited, Driven, DescriptorsOK, Registered, ReadyIsRegistered

LEMMA IdleMembersAfter ==
    ASSUME DescriptorsOK'
    PROVE  \A p : p \in Idle' <=> \E irq \in DriverIrq :
              /\ p = DriverProcess[irq]
              /\ io_descriptor_array'[irq].is_ready /\ irq \notin in_service'
<1>1. \A irq \in DriverIrq : DriverProcess[irq] \in Pid
  BY DriversAreBooted
<1> QED BY <1>1 DEF Idle, Awaited, Driven, DescriptorsOK, Registered, ReadyIsRegistered

\* A step that changes neither what is ready nor what is in service.
LEMMA IdleKept ==
    ASSUME DescriptorsOK, DescriptorsOK', ServiceOK, UNCHANGED in_service,
           \A irq \in DriverIrq : io_descriptor_array'[irq].is_ready <=> io_descriptor_array[irq].is_ready
    PROVE  Idle' = Idle /\ ServiceOK'
<1>1. \A p : p \in Idle' <=> p \in Idle
  BY IdleMembers, IdleMembersAfter
<1>2. ServiceOK'
  BY DEF ServiceOK
<1> QED BY <1>1, <1>2

LEMMA RegisterIdle ==
    ASSUME DescriptorsOK, DescriptorsOK', ServiceOK,
           NEW irq \in DriverIrq,
           SetDriver(irq) \/ \E n \in Functions : SetDriverFunction(irq, n)
    PROVE  Idle' = Idle /\ ServiceOK'
<1>1. UNCHANGED in_service
  BY DEF SetDriver, SetDriverFunction
<1>2. ASSUME NEW i \in DriverIrq
      PROVE  io_descriptor_array'[i].is_ready <=> io_descriptor_array[i].is_ready
  <2> DEFINE old == io_descriptor_array[irq]
             new == [EmptyDescriptor EXCEPT !.id = execution_index, !.is_present = TRUE]
  <2>1. io_descriptor_array \in [DriverIrq -> DescriptorType] /\ old \in DescriptorType
    BY DEF DescriptorsOK
  <2>2. CASE SetDriver(irq)
    <3>1. io_descriptor_array' = [io_descriptor_array EXCEPT ![irq] = new]
      BY <2>2 DEF SetDriver
    <3>2. ~new.is_ready /\ ~old.is_ready
      BY <2>2 DEF SetDriver, EmptyDescriptor, DescriptorsOK, ReadyIsRegistered
    <3> HIDE DEF new
    <3> QED BY <2>1, <3>1, <3>2
  <2>3. CASE \E n \in Functions : SetDriverFunction(irq, n)
    <3>1. PICK n \in Functions : SetDriverFunction(irq, n)
      BY <2>3
    <3>2. io_descriptor_array' = [io_descriptor_array EXCEPT ![irq] = [old EXCEPT !.functions = @ \cup {n}]]
      BY <2>1, <3>1 DEF SetDriverFunction
    <3>3. [old EXCEPT !.functions = @ \cup {n}].is_ready = old.is_ready
      <4> HIDE DEF old
      <4> QED BY <2>1 DEF DescriptorType
    <3> QED BY <2>1, <3>2, <3>3
  <2> QED BY <2>2, <2>3
<1> QED BY <1>1, <1>2, IdleKept

\* The driver that waits ends its interrupt, and is idle.
LEMMA WaitIdle ==
    ASSUME OneDriver, DescriptorsOK, DescriptorsOK', ServiceOK, execution_index \notin Idle,
           WaitForInterrupt
    PROVE  Idle = {} /\ Idle' = {execution_index} /\ ServiceOK'
<1>1. PICK irq \in DriverIrq : irq \in Driven(execution_index)
  BY DEF WaitForInterrupt, Driven
<1>2. DriverIrq = {irq} /\ DriverProcess[irq] = execution_index /\ Driven(execution_index) = {irq}
  BY <1>1 DEF OneDriver, Driven, DescriptorsOK, Registered
<1>3. in_service' = AfterEOI(in_service, irq)
  <2>1. in_service' = FoldLeft(LAMBDA served, i : AfterEOI(served, i), in_service, SetToSeq({irq}))
    BY <1>2 DEF WaitForInterrupt
  <2> QED BY <2>1, EndOfOne
<1>4. in_service' = {}
  <2>1. in_service = {} \/ in_service = Lines(irq)
    BY <1>2 DEF ServiceOK
  <2> QED BY <1>3, <2>1, EndOfInterrupt
<1>5. io_descriptor_array'[irq].is_ready
  <2>1. WaitStep
    BY DEF WaitForInterrupt, WaitStep
  <2> QED BY <1>1, <2>1, WaitKeeps
<1>6. \A p : p \in Idle <=>
         p = execution_index /\ io_descriptor_array[irq].is_ready /\ irq \notin in_service
  BY <1>2, IdleMembers
<1>7. \A p : p \in Idle' <=> p = execution_index
  BY <1>2, <1>4, <1>5, IdleMembersAfter
<1>8. ServiceOK'
  BY <1>4 DEF ServiceOK
<1> QED BY <1>6, <1>7, <1>8

\* The interrupt is for the driver that is idle, or it is ended at once.
LEMMA InterruptIdle ==
    ASSUME OneDriver, DescriptorsOK, DescriptorsOK', ServiceOK,
           NEW irq \in DriverIrq, Interrupt(irq)
    PROVE  /\ ServiceOK' /\ Idle' = {}
           /\ \/ /\ io_descriptor_array[irq].is_present /\ io_descriptor_array[irq].is_ready
                 /\ Idle = {io_descriptor_array[irq].id}
              \/ /\ ~io_descriptor_array[irq].is_ready
                 /\ Idle = {}
<1> DEFINE driver == io_descriptor_array[irq]
<1>1. in_service = {}
  BY NothingInService DEF Interrupt
<1>2. /\ driver.is_ready => driver.is_present /\ driver.id = DriverProcess[irq]
      /\ DriverIrq = {irq}
      /\ UNCHANGED io_descriptor_array
  BY DEF DescriptorsOK, Registered, ReadyIsRegistered, OneDriver, Interrupt
<1>3. in_service' = IF driver.is_present /\ driver.is_ready THEN Lines(irq) ELSE AfterEOI(Lines(irq), irq)
  BY <1>1 DEF Interrupt
<1>4. /\ \A p : p \in Idle <=> p = DriverProcess[irq] /\ driver.is_ready
      /\ \A p : p \in Idle' <=> p = DriverProcess[irq] /\ driver.is_ready /\ irq \notin in_service'
  BY <1>1, <1>2, IdleMembers, IdleMembersAfter
<1>5. irq \in Lines(irq)
  BY DEF Lines
<1> HIDE DEF driver
<1>6. CASE driver.is_ready
  <2>1. in_service' = Lines(irq)
    BY <1>2, <1>3, <1>6
  <2>2. ServiceOK'
    BY <1>2, <1>6, <2>1 DEF ServiceOK, driver
  <2>3. Idle' = {} /\ Idle = {DriverProcess[irq]}
    BY <1>4, <1>5, <1>6, <2>1
  <2> QED BY <1>2, <1>6, <2>2, <2>3 DEF driver
<1>7. CASE ~driver.is_ready
  <2>1. in_service' = {}
    BY <1>3, <1>7, EndOfInterrupt
  <2>2. ServiceOK'
    BY <2>1 DEF ServiceOK
  <2>3. Idle' = {} /\ Idle = {}
    BY <1>4, <1>7
  <2> QED BY <1>7, <2>2, <2>3 DEF driver
<1> QED BY <1>6, <1>7

-----------------------------------------------------------------------------
(* One driver: the lists.                                                  *)

\* A step that leaves the groups placed and dispatches the ready ones keeps the
\* invariant.
LEMMA WaitersFollow ==
    ASSUME NEW ready, Dispatches(ready), 0 \in ready, father_id'[0] = NoProcess,
           WaitsOnce', NoStaleWaiters', Idle' \subseteq present', Idle' \cap Asleep' = {},
           Placed(present', ready, Asleep' \cup Idle', Joiners', Queued')
    PROVE  WaitersOK'
<1>1. Ready' = ready
  BY DEF Ready, Dispatches
<1>2. (Placed(present, Ready, Asleep \cup Idle, Joiners, Queued))'
  BY <1>1 DEF Placed
<1>3. /\ InitIsReady'
      /\ IsInjective(ready_queue') /\ execution_index' \notin Range(ready_queue')
  BY <1>1 DEF InitIsReady, Dispatches
<1> QED BY <1>2, <1>3 DEF WaitersOK

\* What holds while a process runs.
LEMMA RunningWaiters ==
    ASSUME ProcessInv, ListTypes, WaitersOK, Running
    PROVE  /\ execution_index \in present /\ execution_index \in Pid
           /\ present \subseteq Pid
           /\ ready_queue \in Seq(Pid) /\ IsInjective(ready_queue)
           /\ execution_index \notin Range(ready_queue)
           /\ Ready = {execution_index} \cup Range(ready_queue)
           /\ Range(ready_queue) = Ready \ {execution_index}
           /\ Range(ready_queue) \subseteq present
           /\ execution_index \in Ready /\ execution_index \notin Asleep /\ execution_index \notin Idle
           /\ 0 \in Ready /\ 0 \in present /\ father_id[0] = NoProcess
           /\ WaitsOnce /\ NoStaleWaiters
           /\ Idle \subseteq present /\ Idle \cap Asleep = {}
           /\ Placed(present, Ready, Asleep \cup Idle, Joiners, Queued)
<1>1. /\ execution_index \in present /\ execution_index \in Pid
      /\ present \subseteq Pid /\ ready_queue \in Seq(Pid)
  BY CallerIsPresent DEF ListTypes, SchedulerTypes, ProcessInv, ProcessTypes
<1>2. /\ IsInjective(ready_queue) /\ execution_index \notin Range(ready_queue)
      /\ 0 \in Ready /\ father_id[0] = NoProcess
      /\ WaitsOnce /\ NoStaleWaiters /\ Idle \subseteq present /\ Idle \cap Asleep = {}
      /\ Placed(present, Ready, Asleep \cup Idle, Joiners, Queued)
  BY DEF WaitersOK, Running, InitIsReady
<1>3. Ready = {execution_index} \cup Range(ready_queue)
  BY <1>1 DEF Ready
<1>4. Ready \subseteq present /\ \A p \in Ready : p \notin Asleep \cup Idle
  BY <1>2 DEF Placed
<1> HIDE DEF Ready
<1> QED BY <1>1, <1>2, <1>3, <1>4

\* A process that runs and is not kernel::init leaves kernel::init behind it.
LEMMA SomeoneRuns ==
    ASSUME ProcessInv, ListTypes, WaitersOK, Running, execution_index # 0
    PROVE  0 \in Range(ready_queue) /\ Range(ready_queue) # {}
BY RunningWaiters

LEMMA EnterWaiters ==
    ASSUME ProcessInv, ListTypes, WaitersOK, EnterMultitasking, Idle' = Idle
    PROVE  WaitersOK'
<1>1. /\ status = "running" /\ execution_index = NoProcess
      /\ UNCHANGED <<present, father_id, waiting, timer_list, semaphore_array>>
      /\ Drop(ready_queue)
  BY DEF EnterMultitasking, processVars
<1>2. /\ IsInjective(ready_queue) /\ WaitsOnce /\ NoStaleWaiters
      /\ 0 \in Ready /\ father_id[0] = NoProcess
      /\ Idle \subseteq present /\ Idle \cap Asleep = {}
      /\ Placed(present, Ready, Asleep \cup Idle, Joiners, Queued)
  BY <1>1 DEF WaitersOK, InitIsReady
<1>3. Ready = Range(ready_queue)
  <2>1. execution_index \notin Pid
    BY <1>1, SizeAssumption DEF Pid, NoProcess
  <2> QED BY <2>1 DEF Ready
<1>4. Dispatches(Ready)
  <2>1. Range(ready_queue) \subseteq present' /\ Range(ready_queue) # {}
    BY <1>1, <1>2, <1>3 DEF Placed
  <2> QED BY <1>1, <1>2, <1>3, <2>1, DropDispatches DEF ListTypes, SchedulerTypes
<1>5. WaitsOnce' /\ NoStaleWaiters'
  BY <1>1, <1>2 DEF WaitsOnce, NoStaleWaiters
<1>6. Asleep' = Asleep /\ Joiners' = Joiners /\ Queued' = Queued
  BY <1>1 DEF Asleep, Joiners, Queued
<1>7. /\ Placed(present', Ready, Asleep' \cup Idle', Joiners', Queued')
      /\ Idle' \subseteq present' /\ Idle' \cap Asleep' = {}
  BY <1>1, <1>2, <1>6
<1> QED BY <1>1, <1>2, <1>4, <1>5, <1>7, WaitersFollow

LEMMA ClockWaiters ==
    ASSUME ProcessInv, ListTypes, WaitersOK, ClockInterrupt, Idle' = Idle
    PROVE  WaitersOK'
<1> DEFINE list == Countdown(timer_list)
           due == DueCount(list)
           woken == DueNow(list, due)
           left == NotDue(list, due)
           queue == AddToList(ready_queue, woken, present)
           members == Range(queue) \cup ({execution_index} \cap present')
<1>1. /\ Running /\ UNCHANGED <<present, father_id, waiting, semaphore_array>>
      /\ timer_list' = left
      /\ Schedule(queue, scheduler_timer_ticks + 1)
  BY DEF ClockInterrupt, processVars, DueNow, NotDue
<1>2. /\ execution_index \in present /\ execution_index \in Pid
      /\ present \subseteq Pid
      /\ ready_queue \in Seq(Pid) /\ IsInjective(ready_queue)
      /\ execution_index \notin Range(ready_queue)
      /\ Ready = {execution_index} \cup Range(ready_queue)
      /\ Range(ready_queue) \subseteq present
      /\ execution_index \notin Asleep
      /\ 0 \in Ready /\ father_id[0] = NoProcess
      /\ WaitsOnce /\ NoStaleWaiters
      /\ Idle \subseteq present /\ Idle \cap Asleep = {}
      /\ Placed(present, Ready, Asleep \cup Idle, Joiners, Queued)
  BY <1>1, RunningWaiters
<1>3. /\ list \in Seq([id : Pid, ticks : Ticks]) /\ Ids(list) = Ids(timer_list)
  BY CountdownType, CountdownIds DEF ListTypes
<1>4. due \in 0..Len(list) /\ IsInjective(Ids(list)) /\ Range(Ids(list)) = Asleep
  BY <1>2, <1>3, DueCountType DEF WaitsOnce, Asleep
<1> HIDE DEF list, due
<1>5. /\ woken \in Seq(Pid) /\ IsInjective(woken) /\ IsInjective(Ids(left))
      /\ Range(woken) \cap Range(Ids(left)) = {}
      /\ Asleep = Range(woken) \cup Range(Ids(left))
  BY <1>3, <1>4, DueIds
<1> HIDE DEF woken, left
<1>6. Range(woken) \subseteq Asleep /\ Asleep \subseteq present /\ \A p \in Ready : p \notin Asleep
  BY <1>2, <1>5 DEF Placed
<1>7. /\ queue \in Seq(Pid) /\ IsInjective(queue)
      /\ Range(queue) = Range(ready_queue) \cup Range(woken)
  <2>1. Range(ready_queue) \cap Range(woken) = {}
    BY <1>2, <1>6
  <2>2. Range(woken) \cap present = Range(woken)
    BY <1>6
  <2> QED BY <1>2, <1>5, <2>1, <2>2, AddToListMembers
<1> HIDE DEF queue
<1>8. /\ members = Ready \cup Range(woken)
      /\ execution_index \notin Range(queue) /\ Range(queue) \subseteq present'
  BY <1>1, <1>2, <1>6, <1>7
<1>9. Dispatches(members)
  BY <1>1, <1>2, <1>7, <1>8, ScheduleDispatches
<1> HIDE DEF members
<1>10. Asleep' = Range(Ids(left)) /\ Joiners' = Joiners /\ Queued' = Queued
  BY <1>1 DEF Asleep, Joiners, Queued
<1>11. WaitsOnce' /\ NoStaleWaiters'
  BY <1>1, <1>2, <1>5 DEF WaitsOnce, NoStaleWaiters
<1>12. Placed(present', members, Asleep' \cup Idle', Joiners', Queued')
  <2>1. /\ Range(woken) \cap (Range(Ids(left)) \cup Idle) = {}
        /\ Range(woken) \cup (Range(Ids(left)) \cup Idle) = Asleep \cup Idle
    BY <1>2, <1>5
  <2>2. Placed(present, Ready \cup Range(woken), Range(Ids(left)) \cup Idle, Joiners, Queued)
    BY <1>2, <2>1, MoveAwake
  <2> QED BY <1>1, <1>8, <1>10, <2>2
<1>13. Idle' \subseteq present' /\ Idle' \cap Asleep' = {}
  BY <1>1, <1>2, <1>5, <1>10
<1>14. 0 \in members /\ father_id'[0] = NoProcess
  BY <1>1, <1>2, <1>8
<1> QED BY <1>9, <1>11, <1>12, <1>13, <1>14, WaitersFollow

LEMMA SleepWaiters ==
    ASSUME ProcessInv, ListTypes, WaitersOK, NEW ticks \in SleepTicks, Sleep(ticks), Idle' = Idle
    PROVE  WaitersOK'
<1>1. /\ Running /\ execution_index # 0
      /\ UNCHANGED <<present, father_id, waiting, semaphore_array>>
      /\ timer_list' = AddTimer(timer_list, execution_index, ticks)
      /\ Drop(ready_queue)
  BY DEF Sleep, Caller, processVars
<1>2. /\ execution_index \in present /\ execution_index \in Pid
      /\ ready_queue \in Seq(Pid) /\ IsInjective(ready_queue)
      /\ Range(ready_queue) = Ready \ {execution_index} /\ execution_index \in Ready
      /\ Range(ready_queue) \subseteq present
      /\ execution_index \notin Asleep /\ execution_index \notin Idle
      /\ father_id[0] = NoProcess
      /\ WaitsOnce /\ NoStaleWaiters
      /\ Idle \subseteq present /\ Idle \cap Asleep = {}
      /\ Placed(present, Ready, Asleep \cup Idle, Joiners, Queued)
  BY <1>1, RunningWaiters
<1>3. 0 \in Range(ready_queue) /\ Range(ready_queue) # {}
  BY <1>1, SomeoneRuns
<1>4. Dispatches(Range(ready_queue))
  BY <1>1, <1>2, <1>3, DropDispatches
<1>5. Asleep' = Asleep \cup {execution_index} /\ IsInjective(Ids(timer_list'))
  <2>1. ticks \in Ticks
    BY WorkloadAssumption DEF Ticks
  <2>2. execution_index \notin Range(Ids(timer_list)) /\ IsInjective(Ids(timer_list))
    BY <1>2 DEF Asleep, WaitsOnce
  <2>3. timer_list \in Seq([id : Pid, ticks : Ticks])
    BY DEF ListTypes
  <2>4. /\ Range(Ids(timer_list')) = Range(Ids(timer_list)) \cup {execution_index}
        /\ IsInjective(Ids(timer_list'))
    BY <1>1, <1>2, <2>1, <2>2, <2>3, AddTimerIds
  <2> QED BY <2>4 DEF Asleep
<1>6. Joiners' = Joiners /\ Queued' = Queued
  BY <1>1 DEF Joiners, Queued
<1>7. WaitsOnce' /\ NoStaleWaiters'
  BY <1>1, <1>2, <1>5 DEF WaitsOnce, NoStaleWaiters
<1>8. Placed(present', Range(ready_queue), Asleep' \cup Idle', Joiners', Queued')
  <2>1. Placed(present, Ready \ {execution_index}, (Asleep \cup Idle) \cup {execution_index}, Joiners, Queued)
    BY <1>2, MoveToSleep
  <2>2. (Asleep \cup Idle) \cup {execution_index} = Asleep' \cup Idle'
    BY <1>5
  <2> QED BY <1>1, <1>2, <1>6, <2>1, <2>2
<1>9. Idle' \subseteq present' /\ Idle' \cap Asleep' = {}
  BY <1>1, <1>2, <1>5
<1> QED BY <1>1, <1>2, <1>3, <1>4, <1>7, <1>8, <1>9, WaitersFollow

\* wait_for_interrupt(): the driver goes from the ready processes to the idle.
LEMMA WaitWaiters ==
    ASSUME ProcessInv, ListTypes, WaitersOK, WaitForInterrupt,
           Idle = {}, Idle' = {execution_index}
    PROVE  WaitersOK'
<1>1. /\ Running /\ execution_index # 0
      /\ UNCHANGED <<present, father_id, waiting, timer_list, semaphore_array>>
      /\ Drop(ready_queue)
  BY DEF WaitForInterrupt, SystemCaller, processVars
<1>2. /\ execution_index \in present /\ execution_index \in Pid
      /\ ready_queue \in Seq(Pid) /\ IsInjective(ready_queue)
      /\ Range(ready_queue) = Ready \ {execution_index} /\ execution_index \in Ready
      /\ Range(ready_queue) \subseteq present
      /\ execution_index \notin Asleep
      /\ father_id[0] = NoProcess
      /\ WaitsOnce /\ NoStaleWaiters
      /\ Placed(present, Ready, Asleep \cup Idle, Joiners, Queued)
  BY <1>1, RunningWaiters
<1>3. 0 \in Range(ready_queue) /\ Range(ready_queue) # {}
  BY <1>1, SomeoneRuns
<1>4. Dispatches(Range(ready_queue))
  BY <1>1, <1>2, <1>3, DropDispatches
<1>5. Asleep' = Asleep /\ Joiners' = Joiners /\ Queued' = Queued
  BY <1>1 DEF Asleep, Joiners, Queued
<1>6. WaitsOnce' /\ NoStaleWaiters'
  BY <1>1, <1>2 DEF WaitsOnce, NoStaleWaiters
<1>7. Placed(present', Range(ready_queue), Asleep' \cup Idle', Joiners', Queued')
  <2>1. Placed(present, Ready \ {execution_index}, (Asleep \cup Idle) \cup {execution_index}, Joiners, Queued)
    BY <1>2, MoveToSleep
  <2>2. (Asleep \cup Idle) \cup {execution_index} = Asleep' \cup Idle'
    BY <1>5
  <2> QED BY <1>1, <1>2, <1>5, <2>1, <2>2
<1>8. Idle' \subseteq present' /\ Idle' \cap Asleep' = {}
  BY <1>1, <1>2, <1>5
<1> QED BY <1>1, <1>2, <1>3, <1>4, <1>6, <1>7, <1>8, WaitersFollow

\* irq_handler(): the driver that is idle, and no other process, gets ready.
LEMMA InterruptWaiters ==
    ASSUME ProcessInv, ListTypes, WaitersOK, NEW irq \in DriverIrq, Interrupt(irq), Idle' = {},
           \/ /\ io_descriptor_array[irq].is_present /\ io_descriptor_array[irq].is_ready
              /\ Idle = {io_descriptor_array[irq].id}
           \/ /\ ~io_descriptor_array[irq].is_ready
              /\ Idle = {}
    PROVE  WaitersOK'
<1> DEFINE driver == io_descriptor_array[irq]
           woken == IF driver.is_present /\ driver.is_ready THEN <<driver.id>> ELSE <<>>
           queue == AddToList(ready_queue, woken, present)
           members == Range(queue) \cup ({execution_index} \cap present')
<1>1. /\ Running /\ UNCHANGED <<present, father_id, waiting, timer_list, semaphore_array>>
      /\ Schedule(queue, scheduler_timer_ticks)
  BY DEF Interrupt, processVars
<1>2. /\ execution_index \in present /\ execution_index \in Pid
      /\ present \subseteq Pid
      /\ ready_queue \in Seq(Pid) /\ IsInjective(ready_queue)
      /\ execution_index \notin Range(ready_queue)
      /\ Ready = {execution_index} \cup Range(ready_queue)
      /\ Range(ready_queue) \subseteq present
      /\ 0 \in Ready /\ father_id[0] = NoProcess
      /\ WaitsOnce /\ NoStaleWaiters
      /\ Idle \subseteq present /\ Idle \cap Asleep = {}
      /\ Placed(present, Ready, Asleep \cup Idle, Joiners, Queued)
  BY <1>1, RunningWaiters
<1>3. woken \in Seq(Pid) /\ IsInjective(woken) /\ Range(woken) = Idle
  <2>1. CASE driver.is_present /\ driver.is_ready
    <3>1. woken = <<driver.id>> /\ Idle = {driver.id} /\ driver.id \in Pid
      BY <1>2, <2>1
    <3> QED BY <3>1, SingleMember
  <2>2. CASE ~(driver.is_present /\ driver.is_ready)
    <3>1. woken = <<>> /\ Idle = {}
      BY <2>2
    <3> QED BY <3>1, EmptySeq, EmptyMembers
  <2> QED BY <2>1, <2>2
<1> HIDE DEF woken
<1>4. \A p \in Ready : p \notin Idle
  BY <1>2 DEF Placed
<1>5. /\ queue \in Seq(Pid) /\ IsInjective(queue)
      /\ Range(queue) = Range(ready_queue) \cup Idle
  <2>1. Range(ready_queue) \cap Range(woken) = {}
    BY <1>2, <1>3, <1>4
  <2>2. Range(woken) \cap present = Idle
    BY <1>2, <1>3
  <2> QED BY <1>2, <1>3, <2>1, <2>2, AddToListMembers
<1> HIDE DEF queue
<1>6. /\ members = Ready \cup Idle
      /\ execution_index \notin Range(queue) /\ Range(queue) \subseteq present'
  BY <1>1, <1>2, <1>4, <1>5
<1>7. Dispatches(members)
  BY <1>1, <1>2, <1>5, <1>6, ScheduleDispatches
<1> HIDE DEF members
<1>8. Asleep' = Asleep /\ Joiners' = Joiners /\ Queued' = Queued
  BY <1>1 DEF Asleep, Joiners, Queued
<1>9. WaitsOnce' /\ NoStaleWaiters'
  BY <1>1, <1>2 DEF WaitsOnce, NoStaleWaiters
<1>10. Placed(present', members, Asleep' \cup Idle', Joiners', Queued')
  <2>1. Idle \cap Asleep = {} /\ Idle \cup Asleep = Asleep \cup Idle /\ Asleep' \cup Idle' = Asleep
    BY <1>2, <1>8
  <2>2. Placed(present, Ready \cup Idle, Asleep, Joiners, Queued)
    BY <1>2, <2>1, MoveAwake
  <2> QED BY <1>1, <1>6, <1>8, <2>1, <2>2
<1>11. 0 \in members /\ father_id'[0] = NoProcess
  BY <1>1, <1>2, <1>6
<1> QED BY <1>7, <1>9, <1>10, <1>11, WaitersFollow

\* A child of the driver is ready; its slot was free.
LEMMA CallWaiters ==
    ASSUME ProcessInv, ListTypes, WaitersOK, DescriptorsOK,
           NEW irq \in DriverIrq, NEW n, DriverCall(irq, n), Idle' = Idle
    PROVE  WaitersOK'
<1> DEFINE father == io_descriptor_array[irq].id
<1>1. /\ Running /\ ForkOf(father, <<irq, n>>)
      /\ UNCHANGED <<timer_list, semaphore_array>>
  BY DEF DriverCall
<1> HIDE DEF father
<1>2. PICK slot \in Pid \ present :
        /\ present' = present \cup {slot}
        /\ father_id' = [father_id EXCEPT ![slot] = father]
        /\ waiting' = [waiting EXCEPT ![slot] = <<>>]
        /\ Schedule(Append(ready_queue, slot), scheduler_timer_ticks)
  BY <1>1 DEF ForkOf
<1>3. /\ execution_index \in present /\ execution_index \in Pid
      /\ present \subseteq Pid
      /\ ready_queue \in Seq(Pid) /\ IsInjective(ready_queue)
      /\ execution_index \notin Range(ready_queue)
      /\ Ready = {execution_index} \cup Range(ready_queue)
      /\ Range(ready_queue) \subseteq present
      /\ 0 \in Ready /\ 0 \in present /\ father_id[0] = NoProcess
      /\ WaitsOnce /\ NoStaleWaiters
      /\ Idle \subseteq present /\ Idle \cap Asleep = {}
      /\ Placed(present, Ready, Asleep \cup Idle, Joiners, Queued)
  BY <1>1, RunningWaiters
<1> DEFINE queue == Append(ready_queue, slot)
           members == Range(queue) \cup ({execution_index} \cap present')
<1>4. /\ queue \in Seq(Pid) /\ IsInjective(queue)
      /\ Range(queue) = Range(ready_queue) \cup {slot}
  BY <1>3, AppendMembers
<1>5. Schedule(queue, scheduler_timer_ticks)
  BY <1>2
<1> HIDE DEF queue
<1>6. /\ members = Ready \cup {slot}
      /\ execution_index \notin Range(queue) /\ Range(queue) \subseteq present'
  BY <1>2, <1>3, <1>4
<1>7. Dispatches(members)
  BY <1>2, <1>3, <1>4, <1>5, <1>6, ScheduleDispatches
<1> HIDE DEF members
<1>8. Asleep' = Asleep /\ Queued' = Queued
  BY <1>1 DEF Asleep, Queued
<1>9. Joiners'[slot] = {} /\ \A q \in present : Joiners'[q] = Joiners[q]
  BY <1>2, <1>3, EmptyMembers DEF ListTypes, Joiners
<1>10. WaitsOnce' /\ NoStaleWaiters'
  <2>1. waiting'[slot] = <<>> /\ \A q \in present : waiting'[q] = waiting[q]
    BY <1>2, <1>3 DEF ListTypes
  <2> QED BY <1>1, <1>2, <1>3, <2>1, EmptyMembers DEF WaitsOnce, NoStaleWaiters
<1>11. Placed(present', members, Asleep' \cup Idle', Joiners', Queued')
  <2> DEFINE after == Joiners'
  <2>1. after[slot] = {} /\ \A q \in present : after[q] = Joiners[q]
    BY <1>9
  <2> HIDE DEF after
  <2>2. Placed(present \cup {slot}, Ready \cup {slot}, Asleep \cup Idle, after, Queued)
    BY <1>3, <2>1, AddReady
  <2> QED BY <1>2, <1>6, <1>8, <2>2 DEF after
<1>12. father_id'[0] = NoProcess
  BY <1>2, <1>3 DEF ProcessInv, ProcessTypes
<1>13. 0 \in members /\ Idle' \subseteq present' /\ Idle' \cap Asleep' = {}
  BY <1>2, <1>3, <1>6, <1>8
<1> QED BY <1>7, <1>10, <1>11, <1>12, <1>13, WaitersFollow

LEMMA JoinWaiters ==
    ASSUME ProcessInv, ListTypes, WaitersOK, Running, execution_index # 0,
           NEW target \in Pid, JoinDriven(target), Idle' = Idle
    PROVE  WaitersOK'
<1>1. /\ Running /\ execution_index # 0 /\ target \in present
      /\ waiting' = [waiting EXCEPT ![target] = Append(waiting[target], execution_index)]
      /\ UNCHANGED <<present, father_id, timer_list, semaphore_array>>
      /\ Drop(ready_queue)
  BY DEF JoinDriven, processVars
<1>2. /\ execution_index \in present /\ execution_index \in Pid
      /\ present \subseteq Pid
      /\ ready_queue \in Seq(Pid) /\ IsInjective(ready_queue)
      /\ Range(ready_queue) = Ready \ {execution_index} /\ execution_index \in Ready
      /\ Range(ready_queue) \subseteq present
      /\ father_id[0] = NoProcess
      /\ WaitsOnce /\ NoStaleWaiters
      /\ Idle \subseteq present /\ Idle \cap Asleep = {}
      /\ Placed(present, Ready, Asleep \cup Idle, Joiners, Queued)
  BY <1>1, RunningWaiters
<1>3. 0 \in Range(ready_queue) /\ Range(ready_queue) # {}
  BY <1>1, SomeoneRuns
<1>4. Dispatches(Range(ready_queue))
  BY <1>1, <1>2, <1>3, DropDispatches
<1>5. /\ waiting[target] \in Seq(Pid) /\ IsInjective(waiting[target])
      /\ Joiners[target] = Range(waiting[target]) /\ execution_index \notin Joiners[target]
  BY <1>1, <1>2 DEF ListTypes, WaitsOnce, Joiners, Placed
<1>6. /\ Range(waiting'[target]) = Range(waiting[target]) \cup {execution_index}
      /\ IsInjective(waiting'[target])
      /\ \A q \in present : q # target => waiting'[q] = waiting[q]
  <2>1. /\ waiting'[target] = Append(waiting[target], execution_index)
        /\ \A q \in present : q # target => waiting'[q] = waiting[q]
    BY <1>1, <1>2 DEF ListTypes
  <2> QED BY <1>2, <1>5, <2>1, AppendMembers
<1>7. /\ Joiners'[target] = Joiners[target] \cup {execution_index}
      /\ \A q \in present : q # target => Joiners'[q] = Joiners[q]
  BY <1>2, <1>5, <1>6 DEF Joiners
<1>8. Asleep' = Asleep /\ Queued' = Queued
  BY <1>1 DEF Asleep, Queued
<1>9. WaitsOnce' /\ NoStaleWaiters'
  BY <1>1, <1>2, <1>6 DEF WaitsOnce, NoStaleWaiters
<1>10. Placed(present', Range(ready_queue), Asleep' \cup Idle', Joiners', Queued')
  <2> DEFINE after == Joiners'
  <2>1. after[target] = Joiners[target] \cup {execution_index} /\ \A q \in present : q # target => after[q] = Joiners[q]
    BY <1>7
  <2> HIDE DEF after
  <2>2. Placed(present, Ready \ {execution_index}, Asleep \cup Idle, after, Queued)
    BY <1>1, <1>2, <2>1, MoveToJoin
  <2> QED BY <1>1, <1>2, <1>8, <2>2 DEF after
<1>11. Idle' \subseteq present' /\ Idle' \cap Asleep' = {}
  BY <1>1, <1>2, <1>8
<1> QED BY <1>1, <1>2, <1>3, <1>4, <1>9, <1>10, <1>11, WaitersFollow

\* A process that is no driver has no children.
LEMMA FamilyOfOne ==
    ASSUME DriversLive, NEW p \in present, p \in Pid, \A irq \in DriverIrq : DriverProcess[irq] # p
    PROVE  Family(p) = {p}
<1>1. p # NoProcess
  BY SizeAssumption DEF Pid, NoProcess
<1>2. ClosedUnderChildren({p})
  BY <1>1 DEF ClosedUnderChildren, DriversLive
<1>3. {p} \in SUBSET Pid /\ p \in {p}
  OBVIOUS
<1>4. Family(p) \subseteq {p}
  BY <1>2, <1>3 DEF Family
<1>5. p \in Family(p)
  BY DEF Family
<1> QED BY <1>4, <1>5

\* The process that exits makes those that joined it ready.
LEMMA ExitWaiters ==
    ASSUME ProcessInv, ListTypes, DriversLive, NothingQueued, WaitersOK, NotDriver, Exit, Idle' = Idle
    PROVE  WaitersOK' /\ present' = present \ {execution_index} /\ NothingQueued' /\ UNCHANGED father_id
<1> DEFINE self == execution_index
           left == present \ {self}
           woken == waiting[self]
           queue == AddToList(ready_queue, woken, present)
           new == ReadyAfterDestroy(queue)
<1>1. /\ Running /\ self # 0 /\ Destroy(self)
      /\ waiting' = [waiting EXCEPT ![self] = <<>>]
      /\ Drop(new)
  BY DEF Exit, Caller
<1>2. /\ self \in present /\ self \in Pid
      /\ present \subseteq Pid
      /\ ready_queue \in Seq(Pid) /\ IsInjective(ready_queue)
      /\ self \notin Range(ready_queue)
      /\ Ready = {self} \cup Range(ready_queue)
      /\ self \notin Asleep /\ self \notin Idle
      /\ 0 \in Ready /\ 0 \in present /\ father_id[0] = NoProcess
      /\ WaitsOnce /\ NoStaleWaiters
      /\ Idle \subseteq present /\ Idle \cap Asleep = {}
      /\ Placed(present, Ready, Asleep \cup Idle, Joiners, Queued)
  BY <1>1, RunningWaiters
<1>3. /\ present' = left /\ UNCHANGED father_id
      /\ semaphore_array' = [s \in Semid |-> SemaphoreAfter(s, left)]
      /\ timer_list' = CleanTimers(timer_list, left)
  <2>1. Family(self) = {self}
    BY <1>2, FamilyOfOne DEF NotDriver
  <2> QED BY <1>1, <2>1 DEF Destroy
<1>4. UNCHANGED semaphore_array
  <2>1. \A s \in Semid : ~Closing(s) /\ SemaphoreAfter(s, left) = semaphore_array[s]
    BY DEF NothingQueued, Closing, SemaphoreAfter
  <2>2. semaphore_array' = [s \in Semid |-> semaphore_array[s]]
    BY <1>3, <2>1
  <2> QED BY <2>2 DEF ListTypes
<1>5. \A s \in Semid : Queued[s] = {} /\ Queued'[s] = {}
  <2>1. \A s \in Semid : semaphore_array[s].waiting_list = <<>>
    BY <1>2 DEF NothingQueued, NoStaleWaiters
  <2> QED BY <1>4, <2>1, EmptyMembers DEF Queued
<1>6. WokenByClosing \in Seq(Pid) /\ IsInjective(WokenByClosing) /\ Range(WokenByClosing) = {}
  <2>1. /\ WokenByClosing \in Seq(Pid) /\ IsInjective(WokenByClosing)
        /\ \A p \in Pid : p \in Range(WokenByClosing) <=> \E s \in Semid : Closing(s) /\ p \in Queued[s]
    BY <1>2, WokenMembers
  <2>2. \A p \in Range(WokenByClosing) : p \in Pid
    BY <2>1, RangeOfSeq
  <2> QED BY <1>5, <2>1, <2>2
<1>7. /\ Joiners[self] = Range(woken) /\ Joiners[self] \subseteq left
      /\ \A p \in Joiners[self] : p \notin Ready /\ p \notin Asleep \cup Idle
  <2>1. Joiners[self] = Range(woken) /\ Joiners[self] \subseteq present
    BY <1>2 DEF Joiners, Placed
  <2>2. \A p \in Joiners[self] : p \notin Ready /\ p \notin Asleep \cup Idle
    BY <1>2, <2>1 DEF Placed
  <2> QED BY <1>2, <2>1, <2>2
<1>8. Ready \subseteq present
  BY <1>2 DEF Placed
<1>9. /\ woken \in Seq(Pid) /\ IsInjective(woken)
  BY <1>2 DEF ListTypes, WaitsOnce
<1>10. /\ queue \in Seq(Pid) /\ IsInjective(queue)
       /\ Range(queue) = Range(ready_queue) \cup Joiners[self]
  <2>1. Range(ready_queue) \cap Range(woken) = {} /\ Range(woken) \cap present = Range(woken)
    BY <1>2, <1>7
  <2> HIDE DEF woken
  <2> QED BY <1>2, <1>7, <1>9, <2>1, AddToListMembers
<1> HIDE DEF queue, woken
<1>11. /\ new \in Seq(Pid) /\ IsInjective(new)
       /\ Range(new) = (Ready \cup Joiners[self]) \cap left
  <2>1. /\ queue \o WokenByClosing \in Seq(Pid) /\ IsInjective(queue \o WokenByClosing)
        /\ Range(queue \o WokenByClosing) = Range(queue)
    <3>1. Range(queue) \cap Range(WokenByClosing) = {} /\ Range(queue) \cup Range(WokenByClosing) = Range(queue)
      BY <1>6
    <3> QED BY <1>6, <1>10, <3>1, ConcatMembers
  <2>2. new = Survivors(queue \o WokenByClosing, left)
    BY <1>3 DEF ReadyAfterDestroy
  <2> DEFINE all == queue \o WokenByClosing
  <2> HIDE DEF new, all, left
  <2>3. all \in Seq(Pid) /\ IsInjective(all) /\ Range(all) = Range(queue) /\ new = Survivors(all, left)
    BY <2>1, <2>2 DEF all
  <2>4. new \in Seq(Pid) /\ IsInjective(new) /\ Range(new) = Range(queue) \cap left
    BY <2>3, SurvivorsMembers
  <2>5. Range(queue) \cap left = (Ready \cup Joiners[self]) \cap left
    BY <1>2, <1>10 DEF left
  <2> QED BY <2>4, <2>5
<1> HIDE DEF new
<1>12. Asleep' = Asleep /\ IsInjective(Ids(timer_list'))
  <2>1. Ids(timer_list') = Survivors(Ids(timer_list), left)
    BY <1>3, CleanTimersIds DEF ListTypes
  <2>2. Ids(timer_list) \in Seq(Pid) /\ IsInjective(Ids(timer_list))
    BY <1>2, IdsType DEF ListTypes, WaitsOnce
  <2>3. IsInjective(Ids(timer_list')) /\ Asleep' = Asleep \cap left
    BY <2>1, <2>2, SurvivorsMembers DEF Asleep
  <2>4. Asleep \cap left = Asleep
    BY <1>2 DEF Placed
  <2> QED BY <2>3, <2>4
<1>13. \A q \in left : waiting'[q] = waiting[q] /\ Joiners'[q] = Joiners[q]
  BY <1>1, <1>2 DEF ListTypes, Joiners
<1>14. WaitsOnce' /\ NoStaleWaiters' /\ NothingQueued'
  BY <1>2, <1>3, <1>4, <1>12, <1>13 DEF WaitsOnce, NoStaleWaiters, NothingQueued
<1>15. Placed(present', Range(new), Asleep' \cup Idle', Joiners', Queued')
  <2> DEFINE joined == Joiners'
             after == Queued'
  <2>1. \A q \in left : joined[q] = Joiners[q]
    BY <1>13
  <2>2. \A s \in Semid : after[s] = IF s \in {} THEN {} ELSE Queued[s] \cap left
    BY <1>5
  <2> HIDE DEF joined, after
  <2>3. \A q \in left : Joiners[q] \subseteq left
    <3> SUFFICES ASSUME NEW q \in left PROVE Joiners[q] \subseteq present /\ self \notin Joiners[q]
      OBVIOUS
    <3>1. Joiners[q] \subseteq present
      BY <1>2 DEF Placed
    <3>2. self \in Ready
      BY <1>2
    <3>3. self \notin Joiners[q]
      BY <1>2, <3>2 DEF Placed
    <3> QED BY <3>1, <3>3
  <2>4. Deaths(present, Joiners, Queued, left, self, {}, {}, joined, after)
    BY <1>2, <2>1, <2>2, <2>3 DEF Deaths
  <2>5. Placed(left, (Ready \cup Joiners[self] \cup {}) \cap left, (Asleep \cup Idle) \cap left, joined, after)
    BY <1>2, <2>4, RemoveDead
  <2>6. (Asleep \cup Idle) \cap left = Asleep' \cup Idle'
    <3>1. Asleep \subseteq present
      BY <1>2 DEF Placed
    <3> QED BY <1>2, <1>12, <3>1
  <2>7. (Ready \cup Joiners[self] \cup {}) \cap left = Range(new)
    BY <1>11
  <2> QED BY <1>3, <2>5, <2>6, <2>7 DEF joined, after
<1>16. 0 \in Range(new) /\ Range(new) \subseteq present'
  BY <1>1, <1>2, <1>3, <1>11
<1>17. Dispatches(Range(new))
  BY <1>1, <1>11, <1>16, DropDispatches
<1>18. Idle' \subseteq present' /\ Idle' \cap Asleep' = {} /\ father_id'[0] = NoProcess
  BY <1>2, <1>3, <1>12
<1>19. WaitersOK'
  BY <1>14, <1>15, <1>16, <1>17, <1>18, WaitersFollow
<1> QED BY <1>3, <1>14, <1>19

-----------------------------------------------------------------------------
(* One driver: the invariant and the theorem.                              *)

\* A step that leaves the process manager alone.
LEMMA SameWaiters ==
    ASSUME WaitersOK, UNCHANGED vars, Idle' = Idle
    PROVE  WaitersOK'
<1>1. UNCHANGED <<present, father_id, waiting, execution_index, ready_queue,
                  timer_list, semaphore_array, status>>
  BY DEF vars, processVars
<1>2. Ready' = Ready /\ Asleep' = Asleep /\ Joiners' = Joiners /\ Queued' = Queued
  BY <1>1 DEF Ready, Asleep, Joiners, Queued
<1>3. WaitsOnce' = WaitsOnce /\ NoStaleWaiters' = NoStaleWaiters /\ InitIsReady' = InitIsReady
  BY <1>1, <1>2 DEF WaitsOnce, NoStaleWaiters, InitIsReady
<1> QED BY <1>1, <1>2, <1>3 DEF WaitersOK

\* Processes and semaphores of a step in which nobody is born or dies.
LEMMA NobodyChanges ==
    ASSUME DriversLive, NothingQueued, UNCHANGED <<present, father_id, semaphore_array>>
    PROVE  DriversLive' /\ NothingQueued'
BY DEF DriversLive, NothingQueued

\* What each step keeps, when the descriptors and the types are kept.
Kept == DriversLive' /\ ServiceOK' /\ NothingQueued' /\ WaitersOK'

LEMMA KernelKeeps ==
    ASSUME DriverInv, DescriptorsOK', KernelStep, UNCHANGED driverVars
    PROVE  Kept
<1>1. /\ ProcessInv /\ ListTypes /\ DescriptorsOK
      /\ DriversLive /\ ServiceOK /\ NothingQueued /\ WaitersOK
  BY DEF DriverInv, AnyDriversInv
<1>2. Idle' = Idle /\ ServiceOK'
  BY <1>1, IdleKept DEF driverVars
<1>3. CASE EnterMultitasking
  BY <1>1, <1>2, <1>3, EnterWaiters, NobodyChanges DEF EnterMultitasking, processVars, Kept
<1>4. ASSUME NEW ticks \in SleepTicks, Sleep(ticks) PROVE Kept
  BY <1>1, <1>2, <1>4, SleepWaiters, NobodyChanges DEF Sleep, processVars, Kept
<1>5. CASE NotDriver /\ Exit
  <2>1. /\ WaitersOK' /\ NothingQueued'
        /\ present' = present \ {execution_index} /\ UNCHANGED father_id
    BY <1>1, <1>2, <1>5, ExitWaiters
  <2>2. DriversLive'
    BY <1>1, <1>5, <2>1 DEF DriversLive, NotDriver
  <2> QED BY <1>2, <2>1, <2>2 DEF Kept
<1>6. CASE Halted
  BY <1>1, <1>2, <1>6, SameWaiters, NobodyChanges DEF Halted, vars, processVars, Kept
<1> QED BY <1>3, <1>4, <1>5, <1>6 DEF KernelStep

LEMMA ClockKeeps ==
    ASSUME DriverInv, DescriptorsOK', ClockTick
    PROVE  Kept
<1>1. /\ ProcessInv /\ ListTypes /\ DescriptorsOK
      /\ DriversLive /\ ServiceOK /\ NothingQueued /\ WaitersOK
  BY DEF DriverInv, AnyDriversInv
<1>2. UNCHANGED <<in_service, io_descriptor_array>> /\ ClockInterrupt
  BY <1>1, ClockEndsItself DEF ClockTick
<1>3. Idle' = Idle /\ ServiceOK'
  BY <1>1, <1>2, IdleKept
<1> QED BY <1>1, <1>2, <1>3, ClockWaiters, NobodyChanges DEF ClockInterrupt, processVars, Kept

LEMMA WaitForInterruptKeeps ==
    ASSUME OneDriver, DriverInv, DescriptorsOK', WaitForInterrupt
    PROVE  Kept
<1>1. /\ ProcessInv /\ ListTypes /\ DescriptorsOK
      /\ DriversLive /\ ServiceOK /\ NothingQueued /\ WaitersOK
  BY DEF DriverInv, AnyDriversInv
<1>2. execution_index \notin Idle
  BY <1>1, RunningWaiters DEF WaitForInterrupt, SystemCaller
<1>3. Idle = {} /\ Idle' = {execution_index} /\ ServiceOK'
  BY <1>1, <1>2, WaitIdle
<1> QED BY <1>1, <1>3, WaitWaiters, NobodyChanges DEF WaitForInterrupt, processVars, Kept

LEMMA InterruptKeeps ==
    ASSUME OneDriver, DriverInv, DescriptorsOK', NEW irq \in DriverIrq, Interrupt(irq)
    PROVE  Kept
<1>1. /\ ProcessInv /\ ListTypes /\ DescriptorsOK
      /\ DriversLive /\ ServiceOK /\ NothingQueued /\ WaitersOK
  BY DEF DriverInv, AnyDriversInv
<1>2. WaitersOK' /\ ServiceOK'
  BY <1>1, InterruptIdle, InterruptWaiters
<1> QED BY <1>1, <1>2, NobodyChanges DEF Interrupt, processVars, Kept

LEMMA RegisterKeepsLists ==
    ASSUME DriverInv, DescriptorsOK', NEW irq \in DriverIrq,
           SetDriver(irq) \/ \E n \in Functions : SetDriverFunction(irq, n)
    PROVE  Kept
<1>1. /\ DescriptorsOK /\ DriversLive /\ ServiceOK /\ NothingQueued /\ WaitersOK
  BY DEF DriverInv, AnyDriversInv
<1>2. Idle' = Idle /\ ServiceOK'
  BY <1>1, RegisterIdle
<1>3. UNCHANGED vars
  BY DEF SetDriver, SetDriverFunction
<1> QED BY <1>1, <1>2, <1>3, SameWaiters, NobodyChanges DEF vars, processVars, Kept

LEMMA CallKeeps ==
    ASSUME DriverInv, DescriptorsOK', NEW irq \in DriverIrq, NEW n, DriverCall(irq, n)
    PROVE  Kept
<1> DEFINE father == io_descriptor_array[irq].id
<1>1. /\ ProcessInv /\ ListTypes /\ DescriptorsOK
      /\ DriversLive /\ ServiceOK /\ NothingQueued /\ WaitersOK
  BY DEF DriverInv, AnyDriversInv
<1>2. Idle' = Idle /\ ServiceOK'
  BY <1>1, IdleKept DEF DriverCall, driverVars
<1>3. WaitersOK'
  BY <1>1, <1>2, CallWaiters
<1>4. father = DriverProcess[irq]
  BY <1>1 DEF DriverCall, DescriptorsOK, Registered
<1> HIDE DEF father
<1>5. PICK slot \in Pid \ present :
        present' = present \cup {slot} /\ father_id' = [father_id EXCEPT ![slot] = father]
  BY DEF DriverCall, ForkOf, father
<1>6. father_id \in [Pid -> Pid \cup {NoProcess}] /\ present \subseteq Pid
  BY <1>1 DEF ProcessInv, ProcessTypes
<1>7. DriversLive'
  <2>1. father_id'[slot] = father /\ \A p \in present : father_id'[p] = father_id[p]
    BY <1>5, <1>6
  <2> QED BY <1>1, <1>4, <1>5, <2>1 DEF DriversLive
<1>8. NothingQueued'
  BY <1>1 DEF DriverCall, NothingQueued
<1> QED BY <1>2, <1>3, <1>7, <1>8 DEF Kept

LEMMA JoinKeeps ==
    ASSUME DriverInv, DescriptorsOK', NEW target \in Pid \cup {NoProcess}, JoinCall(target)
    PROVE  Kept
<1>1. /\ ProcessInv /\ ListTypes /\ DescriptorsOK
      /\ DriversLive /\ ServiceOK /\ NothingQueued /\ WaitersOK
  BY DEF DriverInv, AnyDriversInv
<1>2. Idle' = Idle /\ ServiceOK'
  BY <1>1, JoinCallCases, IdleKept DEF driverVars
<1>3. CASE target \in Pid /\ JoinDriven(target)
  BY <1>1, <1>2, <1>3, JoinCallCases, JoinWaiters, NobodyChanges DEF JoinDriven, processVars, Kept
<1>4. CASE PastTheArray
  BY <1>1, <1>2, <1>4, NobodyChanges DEF PastTheArray, WaitersOK, processVars, Kept
<1> QED BY <1>3, <1>4, JoinCallCases

\* A step that changes at most what the devices have asked for.
LEMMA RaiseKeeps ==
    ASSUME DriverInv, DescriptorsOK', UNCHANGED <<vars, io_descriptor_array, in_service>>
    PROVE  Kept
<1>1. /\ DescriptorsOK /\ DriversLive /\ ServiceOK /\ NothingQueued /\ WaitersOK
  BY DEF DriverInv, AnyDriversInv
<1>2. Idle' = Idle /\ ServiceOK'
  BY <1>1, IdleKept
<1> QED BY <1>1, <1>2, SameWaiters, NobodyChanges DEF vars, processVars, Kept

LEMMA NextDriverInv == OneDriver /\ DriverInv /\ [NextDrivers]_allVars => DriverInv'
<1> SUFFICES ASSUME OneDriver, DriverInv, [NextDrivers]_allVars PROVE DriverInv'
  OBVIOUS
<1>1. AnyDriversInv'
  BY NextKernelInv DEF DriverInv
<1>2. DescriptorsOK'
  BY <1>1 DEF AnyDriversInv
<1>3. Kept
  <2>1. ASSUME NEW irq \in DriverIrq, DeviceRaises(irq) PROVE Kept
    BY <1>2, <2>1, RaiseKeeps DEF DeviceRaises
  <2>2. CASE UNCHANGED allVars
    BY <1>2, <2>2, RaiseKeeps DEF allVars, driverVars
  <2>3. CASE KernelStep /\ UNCHANGED driverVars
    BY <1>2, <2>3, KernelKeeps
  <2>4. CASE ClockTick
    BY <1>2, <2>4, ClockKeeps
  <2>5. CASE WaitForInterrupt
    BY <1>2, <2>5, WaitForInterruptKeeps
  <2>6. ASSUME NEW irq \in DriverIrq, Interrupt(irq) PROVE Kept
    BY <1>2, <2>6, InterruptKeeps
  <2>7. ASSUME NEW irq \in DriverIrq, SetDriver(irq) \/ \E n \in Functions : SetDriverFunction(irq, n)
        PROVE  Kept
    BY <1>2, <2>7, RegisterKeepsLists
  <2>8. ASSUME NEW irq \in DriverIrq, NEW n \in Functions, DriverCall(irq, n) PROVE Kept
    BY <1>2, <2>8, CallKeeps
  <2>9. ASSUME NEW target \in Pid \cup {NoProcess}, JoinCall(target) PROVE Kept
    BY <1>2, <2>9, JoinKeeps
  <2> QED
    BY <2>1, <2>2, <2>3, <2>4, <2>5, <2>6, <2>7, <2>8, <2>9 DEF NextDrivers, Functions
<1> QED BY <1>1, <1>3 DEF Kept, DriverInv

LEMMA InitDriverInv == InitDrivers => DriverInv
<1> SUFFICES ASSUME InitDrivers PROVE DriverInv
  OBVIOUS
<1>1. AnyDriversInv /\ ProcessInv
  BY InitKernelInv DEF AnyDriversInv
<1>2. Init /\ PlaceInv
  BY InitPlaces DEF InitDrivers
<1>3. DriversLive
  <2>1. present = Booted /\ father_id = [p \in Pid |-> IF p \in Booted THEN NoProcess ELSE 0]
    BY <1>2 DEF Init
  <2>2. present \subseteq Pid
    BY <1>1 DEF ProcessInv, ProcessTypes
  <2>3. \A p \in present : father_id[p] = NoProcess
    BY <2>1, <2>2
  <2> QED BY <2>1, <2>3, DriversAreBooted DEF DriversLive
<1>4. ServiceOK
  BY DEF InitDrivers, ServiceOK
<1>5. NothingQueued
  BY <1>2 DEF Init, NothingQueued
<1>6. Idle = {}
  <2>1. \A irq \in DriverIrq : ~io_descriptor_array[irq].is_ready
    BY DEF InitDrivers, EmptyDescriptor
  <2> QED BY <2>1 DEF Idle, Awaited, Driven
<1>7. WaitersOK
  <2>1. Asleep \cup Idle = Asleep /\ Idle \subseteq present /\ Idle \cap Asleep = {}
    BY <1>6
  <2> QED BY <1>2, <2>1 DEF PlaceInv, WaitersOK
<1> QED BY <1>1, <1>3, <1>4, <1>5, <1>7 DEF DriverInv

\* The invariant, in the places of a process and the irqs it waits for.
LEMMA InvImpliesDriversOK == OneDriver /\ DriverInv /\ RipOK => DriversOK
<1> SUFFICES ASSUME OneDriver, DriverInv, RipOK PROVE DriversOK
  OBVIOUS
<1>1. /\ ProcessInv /\ ListTypes /\ DescriptorsOK /\ RequestsOK /\ ServiceOK /\ WaitersOK
  BY DEF DriverInv, AnyDriversInv
<1>2. DriversTypeOK
  <2>1. TypeOK
    BY <1>1, TypesFollow
  <2>2. in_service \subseteq DriverIrq \cup {Cascade}
    BY <1>1 DEF ServiceOK, Lines
  <2> QED BY <1>1, <2>1, <2>2 DEF DriversTypeOK, DescriptorsOK, DescriptorType, Functions,
                                    RequestsOK, RipOK
<1>3. OnePlaceOrAwaits
  <2> SUFFICES ASSUME Running, NEW p \in Pid
               PROVE  Cardinality(Places(p)) + Cardinality(Awaited(p)) =
                        IF p \in present THEN 1 ELSE 0
    BY DEF OnePlaceOrAwaits
  <2>1. /\ present \subseteq Pid /\ IsInjective(ready_queue)
        /\ execution_index \notin Range(ready_queue) /\ WaitsOnce
        /\ Idle \subseteq present /\ Idle \cap Asleep = {}
        /\ Placed(present, Ready, Asleep \cup Idle, Joiners, Queued)
    BY <1>1, RunningWaiters
  <2>2. Cardinality(Places(p)) = IF p \in present \ Idle THEN 1 ELSE 0
    BY <1>1, <2>1, PlacesCounted
  <2>3. CASE p \in Idle
    <3>1. PICK irq : Awaited(p) = {irq}
      <4>1. PICK irq \in Awaited(p) : TRUE
        BY <2>3 DEF Idle
      <4>2. \A i \in Awaited(p) : i = irq
        BY <4>1 DEF Awaited, Driven, OneDriver
      <4> QED BY <4>1, <4>2
    <3>2. Cardinality(Awaited(p)) = 1
      BY <3>1, FS_Singleton
    <3> QED BY <2>1, <2>2, <2>3, <3>2
  <2>4. CASE p \notin Idle
    <3>1. Awaited(p) = {}
      BY <2>4 DEF Idle
    <3>2. Cardinality(Awaited(p)) = 0
      BY <3>1, FS_EmptySet
    <3> QED BY <2>2, <2>4, <3>2
  <2> QED BY <2>3, <2>4
<1> QED BY <1>2, <1>3 DEF DriversOK

\* With one driver, a driver that waits for its interrupt is in no list, and one
\* that its interrupt made ready is in one, at any moment of its loop and
\* whatever interrupts and calls come between: no interrupt queues it twice.
THEOREM OneDriverIsNeverQueuedTwice ==
    ASSUME OneDriver
    PROVE  SpecDrivers => []DriversOK
<1>1. DriverInv /\ [NextDrivers]_allVars => DriverInv'
  BY NextDriverInv
<1>2. DriverInv /\ RipOK => DriversOK
  BY InvImpliesDriversOK
<1> QED BY <1>1, <1>2, InitDriverInv, RipInvariant, PTL DEF SpecDrivers
=============================================================================
