---------------------------- MODULE ProcessLists ----------------------------
(***************************************************************************)
(* The lists of processes of src/multitasking.cpp.  A list is a head and a *)
(* tail pointer, linked through the one "next" field of the process        *)
(* descriptors.  As long as no process is in two lists, a list is the      *)
(* sequence of the ids met from its head; that is how it is written here.  *)
(* The operators are pure, so that each component keeps its own lists.     *)
(***************************************************************************)
EXTENDS Integers, Sequences, FiniteSets

\* The k-th smallest element of a set of positions.
Kth(positions, k) ==
    CHOOSE i \in positions : Cardinality({j \in positions : j <= i}) = k

\* The elements of seq at the given positions, in their order.
Select(seq, positions) ==
    [k \in 1..Cardinality(positions) |-> seq[Kth(positions, k)]]

\* remove_not_present(): the members of the list that are in present.
Survivors(list, present) ==
    Select(list, {i \in DOMAIN list : list[i] \in present})

\* add_to_list() of each process of added, in order: absent ones are skipped.
AddToList(list, added, present) == list \o Survivors(added, present)

\* How often process p is met from the head of the list.
Occurrences(list, p) == Cardinality({i \in DOMAIN list : list[i] = p})

=============================================================================
