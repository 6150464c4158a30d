------------------------------ MODULE Sleepers ------------------------------
(***************************************************************************)
(* What sleep() promises ("stops the process for <ticks> ticks of clock"): *)
(* each sleeping process has a countdown of its own, every tick takes one  *)
(* from every countdown, and a process sleeps until its countdown is over. *)
(* The kernel keeps one list of differences instead; Multitasking is shown *)
(* to implement this specification.                                        *)
(***************************************************************************)
EXTENDS Integers

CONSTANTS Process, SleepTicks

VARIABLES
    alive,      \* the processes that exist
    remaining   \* [Process -> Nat]: ticks left to sleep, 0 when not asleep

vars == <<alive, remaining>>

Init ==
    /\ alive \subseteq Process
    /\ remaining = [p \in Process |-> 0]

Sleep(p, ticks) ==
    /\ p \in alive
    /\ remaining[p] = 0
    /\ remaining' = [remaining EXCEPT ![p] = ticks]
    /\ UNCHANGED alive

Tick ==
    /\ remaining' = [p \in Process |-> IF remaining[p] = 0 THEN 0 ELSE remaining[p] - 1]
    /\ UNCHANGED alive

Create(p) ==
    /\ p \notin alive
    /\ alive' = alive \cup {p}
    /\ UNCHANGED remaining

\* The death of some processes disturbs no other sleeper.
Die(dead) ==
    /\ alive' = alive \ dead
    /\ remaining' = [p \in Process |-> IF p \in dead THEN 0 ELSE remaining[p]]

Next ==
    \/ \E p \in Process, ticks \in SleepTicks : Sleep(p, ticks)
    \/ Tick
    \/ \E p \in Process : Create(p)
    \/ \E dead \in SUBSET alive : Die(dead)

Spec == Init /\ [][Next]_vars

=============================================================================
