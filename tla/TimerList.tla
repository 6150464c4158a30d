----------------------------- MODULE TimerList ------------------------------
(***************************************************************************)
(* The timer list of src/clock.cpp: one entry per sleeping process, each   *)
(* with the ticks that separate it from the entry before it.  Ticks are    *)
(* unsigned 64-bit numbers: TICK_MODULUS stands for 2^64.                  *)
(***************************************************************************)
EXTENDS ProcessLists, FiniteSetsExt, Functions

CONSTANT TICK_MODULUS

ASSUME TickModulusAssumption == TICK_MODULUS \in Nat \ {0}

Wrap(ticks) == ticks % TICK_MODULUS

\* The ticks until the n-th entry of the list is due: the sum of its prefix.
Elapsed(list, n) ==
    LET sum[k \in 0..Len(list)] == IF k = 0 THEN 0 ELSE sum[k - 1] + list[k].ticks
    IN  sum[n]

\* add_timer(): the new entry goes before the first entry that is due no
\* earlier, takes the ticks the entries before it leave, and is subtracted
\* from the entry after it.
AddTimer(list, id, ticks) ==
    LET Stops(k) == k <= Len(list) => list[k].ticks >= ticks - Elapsed(list, k - 1)
        place == Min({k \in 1..(Len(list) + 1) : Stops(k)})
        delta == ticks - Elapsed(list, place - 1)
        After(k) == IF k = place THEN Wrap(list[k].ticks - delta) ELSE list[k].ticks
    IN  [k \in 1..(Len(list) + 1) |->
            IF k < place THEN list[k]
            ELSE IF k = place THEN [id |-> id, ticks |-> delta]
            ELSE [id |-> list[k - 1].id, ticks |-> After(k - 1)]]

\* Mutant: the clock does not count.
Countdown_Stopped(list) == list

\* callback(): the decrement of the head entry, if there is one.
Countdown(list) ==
    IF list = <<>> THEN list
    ELSE [list EXCEPT ![1].ticks = Wrap(@ - 1)]

\* execute_timer_recursive(): how many leading entries have no ticks left.
DueCount(list) ==
    Min({k \in 0..Len(list) : k < Len(list) => list[k + 1].ticks # 0})

\* Mutant: the ticks of an unlinked entry are lost.
CleanTimers_LosesTicks(list, present) ==
    Select(list, {i \in DOMAIN list : list[i].id \in present})

\* clean_timer_list(): the entries of absent processes are unlinked, and the
\* ticks of each are given to the entry after it.
CleanTimers(list, present) ==
    LET kept == {i \in DOMAIN list : list[i].id \in present}
        Previous(k) == IF k = 1 THEN 0 ELSE Kth(kept, k - 1)
    IN  [k \in 1..Cardinality(kept) |->
            [id    |-> list[Kth(kept, k)].id,
             ticks |-> Wrap(Elapsed(list, Kth(kept, k))
                              - Elapsed(list, Previous(k)))]]

=============================================================================
