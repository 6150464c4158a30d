------------------------------ MODULE Signals -------------------------------
(***************************************************************************)
(* Signals and the contexts they replace: signal(), call_signal_handler(), *)
(* set_signal_handler() and return_from_signal() of src/multitasking.cpp,  *)
(* with the system calls that write to the context of another process.     *)
(*                                                                         *)
(* Of a context the model keeps the code it is in (the program, or the     *)
(* handler of a signal), rdx, the argument of the last system call, and    *)
(* rax, where the result of one is left: of both only the values that      *)
(* exit() and kill() give, ANY being all the others.                       *)
(***************************************************************************)
EXTENDS Multitasking

CONSTANTS
    SentSignals,      \* the signals that programs send
    HandledSignals,   \* the signals that programs set a handler for
    ExitValues        \* what they return

Signal_t == {"SIGKILL", "SIGTERM", "SIGSTOP", "SIGCONT", "SIGSEGV", "SIGILL",
             "SIGINT", "SIGUSR1", "SIGUSR2"}
Handleable == Signal_t \ {"SIGKILL", "SIGSTOP", "SIGCONT"}

ANY == -1
Program == "program"
NullHandler == "null"

ASSUME SignalsAssumption ==
    /\ SentSignals \subseteq Signal_t
    /\ HandledSignals \subseteq Handleable
    /\ ExitValues \subseteq Nat

VARIABLES
    signal_descriptor, context,
    owed,       \* history: what join() has to return to a process
    returned,   \* history: what the last process of each slot returned
    installed   \* history: the handlers that a process has set in its life

historyVars == <<owed, returned, installed>>
signalVars == <<signal_descriptor, context, historyVars>>
everything == <<vars, signalVars>>

FreshContext == [code |-> Program, rax |-> ANY, rdx |-> ANY]
FreshDescriptor ==
    [is_running_a_signal |-> FALSE, saved_context |-> FreshContext, handlers |-> {}]
Nothing == [code |-> Program, value |-> ANY, interrupted |-> FALSE]

InitSignals ==
    /\ Init
    /\ signal_descriptor = [p \in Pid |-> FreshDescriptor]
    /\ context = [p \in Pid |-> FreshContext]
    /\ owed = [p \in Pid |-> Nothing]
    /\ returned = [p \in Pid |-> ANY]
    /\ installed = [p \in Pid |-> {}]

-----------------------------------------------------------------------------
(* Results of system calls.                                                *)

Calling ==
    /\ Running
    /\ execution_index # 0

\* What a history remembers of the processes that live on.
OfTheLiving(record, none) == [p \in Pid |-> IF p \in present' THEN record[p] ELSE none]

\* The code that called join() takes the result before it makes another call.
Taken(record) ==
    LET taken == IF context[execution_index].code = record[execution_index].code
                 THEN [record EXCEPT ![execution_index] = Nothing] ELSE record
    IN  OfTheLiving(taken, Nothing)

\* The registers of the caller when its call ends.
Returning(contexts, rax, rdx) ==
    [contexts EXCEPT ![execution_index].rax = rax, ![execution_index].rdx = rdx]

Waiters(target) == {p \in Pid : Occurrences(waiting[target], p) > 0}

\* Mutant: the joiners are woken without the value.
Answered_NoValue(target, value, rdx) ==
    /\ context' = Returning(context, ANY, rdx)
    /\ owed' = Taken([p \in Pid |->
         IF p \in Waiters(target) THEN [owed[p] EXCEPT !.value = value] ELSE owed[p]])

\* exit() and kill() write the value into the contexts of the joiners.
Answered(target, value, rdx) ==
    /\ context' = Returning([p \in Pid |->
         IF p \in Waiters(target) THEN [context[p] EXCEPT !.rax = value] ELSE context[p]],
         ANY, rdx)
    /\ owed' = Taken([p \in Pid |->
         IF p \in Waiters(target) THEN [owed[p] EXCEPT !.value = value] ELSE owed[p]])

ExitWith(ret) ==
    /\ Calling
    /\ Exit
    /\ Answered(execution_index, ret, ret)
    /\ returned' = [returned EXCEPT ![execution_index] = ret]
    /\ installed' = OfTheLiving(installed, {})
    /\ UNCHANGED signal_descriptor

\* join(target) of a process that is present: the result comes when it ends.
JoinChild(target) ==
    /\ Calling
    /\ Join(target)
    /\ context' = Returning(context, ANY, ANY)
    /\ owed' = [owed EXCEPT ![execution_index] =
                  [Nothing EXCEPT !.code = context[execution_index].code]]
    /\ UNCHANGED <<signal_descriptor, returned, installed>>

\* join(target) of a process that has ended: exit() found its argument in rdx,
\* and there it still is.
JoinEnded(target) ==
    /\ Calling
    /\ "join" \in Calls
    /\ JoinOwnChildren => father_id[target] = execution_index
    /\ JoinPermitted(target)
    /\ target \notin present
    /\ context' = Returning(context, context[target].rdx, ANY)
    /\ owed' = [owed EXCEPT ![execution_index] =
                  [Nothing EXCEPT !.code = context[execution_index].code,
                                  !.value = returned[target]]]
    /\ UNCHANGED <<vars, signal_descriptor, returned, installed>>

\* Mutant: the slot keeps the handlers of the process that had it.
Reset_KeepsHandlers(new) ==
    /\ context' = [p \in Pid |->
         IF p \in new THEN FreshContext ELSE Returning(context, ANY, ANY)[p]]
    /\ UNCHANGED signal_descriptor

\* What create_process() starts the new process with; fork() returns its id.
Reset(new) ==
    /\ context' = [p \in Pid |->
         IF p \in new THEN FreshContext ELSE Returning(context, ANY, ANY)[p]]
    /\ signal_descriptor' =
         [p \in Pid |-> IF p \in new THEN FreshDescriptor ELSE signal_descriptor[p]]

ForkChild ==
    /\ Calling
    /\ Fork
    /\ Reset(present' \ present)
    /\ returned' = [p \in Pid |-> IF p \in present' THEN ANY ELSE returned[p]]
    /\ owed' = Taken(owed)
    /\ UNCHANGED installed

-----------------------------------------------------------------------------
(* Signals.                                                                *)

\* The handler whose presence signal() tests, and the one that it calls.
Tested(signal) == IF signal = "SIGILL" THEN "SIGSEGV" ELSE signal
Called(signal) ==
    CASE signal = "SIGILL" -> "SIGSEGV"
      [] signal = "SIGUSR1" -> "SIGUSR2"
      [] OTHER -> signal

Deadly == {"SIGKILL", "SIGTERM", "SIGSEGV", "SIGILL", "SIGINT"}

\* Mutant: a handler can be interrupted by another one.
CallSignalHandler_Nested(target, signal) ==
    LET handler == IF Called(signal) \in signal_descriptor[target].handlers
                   THEN Called(signal) ELSE NullHandler
    IN  /\ signal_descriptor' = [signal_descriptor EXCEPT
             ![target].is_running_a_signal = TRUE,
             ![target].saved_context = context[target]]
        /\ context' = Returning([context EXCEPT ![target].code = handler], ANY, ANY)
        /\ owed' = Taken([owed EXCEPT ![target].interrupted = TRUE])

\* call_signal_handler(): the signal is dropped if a handler runs already.
CallSignalHandler(target, signal) ==
    LET handler == IF Called(signal) \in signal_descriptor[target].handlers
                   THEN Called(signal) ELSE NullHandler
    IN  IF signal_descriptor[target].is_running_a_signal
        THEN /\ context' = Returning(context, ANY, ANY)
             /\ owed' = Taken(owed)
             /\ UNCHANGED signal_descriptor
        ELSE /\ signal_descriptor' = [signal_descriptor EXCEPT
                  ![target].is_running_a_signal = TRUE,
                  ![target].saved_context = context[target]]
             /\ context' = Returning([context EXCEPT ![target].code = handler], ANY, ANY)
             /\ owed' = Taken([owed EXCEPT ![target].interrupted = TRUE])

\* signal() with the permission of SignalPermitted.
SendSignal(signal, target) ==
    /\ Calling
    /\ target \in present \ {0}
    /\ SignalPermitted(target)
    /\ IF Tested(signal) \in signal_descriptor[target].handlers
       THEN /\ UNCHANGED <<processVars, waiting, timer_list, semaphore_array,
                           returned, installed>>
            /\ Schedule(ready_queue, scheduler_timer_ticks)
            /\ CallSignalHandler(target, signal)
       ELSE IF signal \in Deadly
       THEN /\ Kill(target)
            /\ Answered(target, 0, ANY)
            /\ returned' = [returned EXCEPT ![target] = ANY]
            /\ installed' = OfTheLiving(installed, {})
            /\ UNCHANGED signal_descriptor
       ELSE /\ context' = Returning(context, ANY, ANY)
            /\ UNCHANGED <<vars, signal_descriptor, returned, installed>>
            /\ owed' = Taken(owed)

\* set_signal_handler() of a handler, by the process itself.
SetSignalHandler(signal) ==
    /\ Calling
    /\ context[execution_index].code = Program
    /\ signal \notin signal_descriptor[execution_index].handlers
    /\ signal_descriptor' =
         [signal_descriptor EXCEPT ![execution_index].handlers = @ \cup {signal}]
    /\ installed' = [installed EXCEPT ![execution_index] = @ \cup {signal}]
    /\ UNCHANGED <<vars, context, returned>>
    /\ owed' = Taken(owed)

\* return_from_signal(), which the handler returns into; no program of the
\* repository calls it otherwise, which would bring back the context saved last.
\* So that one is not read again, and the model forgets it.
ReturnFromSignal ==
    /\ Calling
    /\ context[execution_index].code # Program
    /\ context' = [context EXCEPT
         ![execution_index] = signal_descriptor[execution_index].saved_context]
    /\ signal_descriptor' = [signal_descriptor EXCEPT
         ![execution_index].is_running_a_signal = FALSE,
         ![execution_index].saved_context = FreshContext]
    /\ UNCHANGED <<vars, returned, installed>>
    /\ owed' = Taken(owed)

-----------------------------------------------------------------------------

NextSignals ==
    \/ (EnterMultitasking \/ ClockInterrupt \/ Halted) /\ UNCHANGED signalVars
    \/ Join(NoProcess) /\ UNCHANGED signalVars
    \/ ForkChild
    \/ ReturnFromSignal
    \/ \E ret \in ExitValues : ExitWith(ret)
    \/ \E target \in Pid :
         \/ JoinChild(target)
         \/ JoinEnded(target)
         \/ \E signal \in SentSignals : SendSignal(signal, target)
    \/ \E signal \in HandledSignals : SetSignalHandler(signal)

SpecSignals == InitSignals /\ [][NextSignals]_everything

-----------------------------------------------------------------------------
(* Properties.                                                             *)

\* Every variable has the type of the source's declaration.
SignalsTypeOK ==
    LET Context == [code : {Program, NullHandler} \cup Handleable,
                    rax : {ANY, 0} \cup ExitValues, rdx : {ANY} \cup ExitValues]
    IN  /\ context \in [Pid -> Context]
        /\ signal_descriptor \in
             [Pid -> [is_running_a_signal : BOOLEAN, saved_context : Context,
                      handlers : SUBSET Handleable]]

\* A process is marked as running a handler exactly when it does, and what it
\* will go back to is its program: nested signals cannot lose the program.
ProgramResumes ==
    \A p \in present :
        LET descriptor == signal_descriptor[p]
        IN  /\ descriptor.is_running_a_signal <=> context[p].code # Program
            /\ descriptor.is_running_a_signal => descriptor.saved_context.code = Program

\* The contexts of a process, saved and current, are those of its program and
\* of one handler at most.
ContextsOK == SignalsTypeOK /\ ProgramResumes

\* The handler that runs was set by the process that runs it, in its own life,
\* whoever had its slot before.
HandlerIsItsOwn ==
    \A p \in present : context[p].code \in {Program} \cup installed[p]

\* join() returns what the process it waited for returned, or 0 if that was
\* killed, through scheduling, deaths and the reuse of slots, provided that no
\* handler ran in the caller meanwhile.
JoinValueUndisturbed ==
    Running /\ execution_index # 0 =>
        LET due == owed[execution_index]
            now == context[execution_index]
        IN  now.code = due.code /\ due.value # ANY /\ ~due.interrupted => now.rax = due.value

\* "waits for a process to end and returns its return" (lib/ozone.h).
JoinValue ==
    Running /\ execution_index # 0 =>
        LET due == owed[execution_index]
            now == context[execution_index]
        IN  now.code = due.code /\ due.value # ANY => now.rax = due.value

=============================================================================
