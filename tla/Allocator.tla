----------------------------- MODULE Allocator ------------------------------
(***************************************************************************)
(* What a heap promises its clients: blocks that overlap neither each      *)
(* other nor the room each keeps for its descriptor, and a null pointer    *)
(* only when the free memory holds no room for the request, however it was *)
(* cut up before.  Heap is shown to implement this specification.          *)
(***************************************************************************)
EXTENDS Integers

CONSTANTS Arena,        \* the addresses of the heap
          DESCRIPTOR,   \* bytes kept before each block
          NULL,
          Supported     \* the alignments that are never refused as such

VARIABLES blocks,  \* what the clients hold: records [address, size]
          reply    \* the last request [room, alignment], and the address given

vars == <<blocks, reply>>

Extent(b) == (b.address - DESCRIPTOR)..(b.address + b.size - 1)

Busy == UNION {Extent(b) : b \in blocks}

\* Is there a run of free memory for a block of this size?
Fits(size) ==
    \E a \in Arena : a..(a + DESCRIPTOR + size - 1) \subseteq Arena \ Busy

Init ==
    /\ blocks = {}
    /\ reply = [room |-> 0, alignment |-> 0, address |-> NULL]

\* Alignment 0 asks for none.  An aligned block may need a longer run.
Slack(alignment) == IF alignment = 0 THEN 0 ELSE alignment + DESCRIPTOR

Aligned(address, alignment) == alignment > 0 => address % alignment = 0

Allocate(room, alignment) ==
    \E address \in Arena, size \in room..(room + 2 * DESCRIPTOR) :
        LET b == [address |-> address, size |-> size]
        IN  /\ Aligned(address, alignment)
            /\ Extent(b) \subseteq Arena \ Busy
            /\ blocks' = blocks \cup {b}
            /\ reply' = [room |-> room, alignment |-> alignment, address |-> address]

Refuse(room, alignment) ==
    /\ Fits(room + Slack(alignment)) => alignment \notin Supported
    /\ reply' = [room |-> room, alignment |-> alignment, address |-> NULL]
    /\ UNCHANGED blocks

Release(b) ==
    /\ blocks' = blocks \ {b}
    /\ UNCHANGED reply

Next ==
    \/ Allocate(reply'.room, reply'.alignment)
    \/ Refuse(reply'.room, reply'.alignment)
    \/ \E b \in blocks : Release(b)

Spec == Init /\ [][Next]_vars

=============================================================================
