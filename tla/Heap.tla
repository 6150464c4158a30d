-------------------------------- MODULE Heap --------------------------------
(***************************************************************************)
(* The heap of src/heap.cpp, which the kernel and every process have one   *)
(* of.  A zone is a descriptor and the bytes after it; freemem is the list *)
(* of the free zones.  Clients free what malloc() gave them, once, so the  *)
(* "wrong delete" mark of a zone in use is always found.                   *)
(***************************************************************************)
EXTENDS Naturals, Sequences, FiniteSetsExt

CONSTANTS
    DESCRIPTOR,             \* sizeof(memory_descriptor_t)
    HEAP_START, HEAP_SIZE,  \* the arguments of the constructor
    WORD,                   \* stands for 2^64
    Sizes, Alignments       \* the arguments of malloc()

ASSUME HeapAssumption ==
    /\ DESCRIPTOR \in Nat \ {0}
    /\ HEAP_START \in Nat \ {0} /\ HEAP_START % DESCRIPTOR = 0
    /\ HEAP_SIZE \in Nat /\ HEAP_SIZE > DESCRIPTOR /\ HEAP_SIZE % DESCRIPTOR = 0
    /\ WORD \in Nat /\ HEAP_START + HEAP_SIZE <= WORD
    /\ Sizes \subseteq 0..(WORD - 1)
    /\ Alignments \subseteq 0..(WORD - 1)

VARIABLES
    freemem,  \* the free zones [start, size], in the order of the list
    used,     \* the zones in use
    reply,    \* the last call of malloc() that returned, and the pointer
    cleared   \* the bytes that call set to zero

vars == <<freemem, used, reply, cleared>>

NULL == 0
Zone(start, size) == [start |-> start, size |-> size]
Data(zone) == zone.start + DESCRIPTOR   \* what the client knows of a zone
End(zone) == Data(zone) + zone.size

\* memory::align(): the addition may wrap.
RoundUp(n, unit) ==
    IF n % unit = 0 THEN n ELSE (((n + unit - 1) % WORD) \div unit) * unit

\* The difference of two numbers of the machine.
Minus(m, n) == (m - n) % WORD

-----------------------------------------------------------------------------
(* The list of free zones.                                                 *)

\* Mutant: the zone that follows is not united with the freed one.
InternalFree_KeepsNext(list, start, n) ==
    LET before == Min({k \in 0..Len(list) : k < Len(list) => list[k + 1].start >= start})
        joinsLast == before > 0 /\ End(list[before]) = start
        first == IF joinsLast THEN list[before].start ELSE start
    IN  IF n = 0 THEN list
        ELSE SubSeq(list, 1, IF joinsLast THEN before - 1 ELSE before)
               \o <<Zone(first, start + n - first - DESCRIPTOR)>>
               \o SubSeq(list, before + 1, Len(list))

\* internal_free(): n bytes from start become a free zone, united with the
\* zones that touch it; a rest too small for a descriptor is lost.
InternalFree(list, start, n) ==
    LET before == Min({k \in 0..Len(list) : k < Len(list) => list[k + 1].start >= start})
        joinsLast == before > 0 /\ End(list[before]) = start
        joinsNext == before < Len(list) /\ start + n = list[before + 1].start
        first == IF joinsLast THEN list[before].start ELSE start
        end == IF joinsNext THEN End(list[before + 1]) ELSE start + n
    IN  IF n = 0 \/ ~(joinsLast \/ joinsNext \/ n >= DESCRIPTOR)
        THEN list
        ELSE SubSeq(list, 1, IF joinsLast THEN before - 1 ELSE before)
               \o <<Zone(first, end - first - DESCRIPTOR)>>
               \o SubSeq(list, IF joinsNext THEN before + 2 ELSE before + 1, Len(list))

\* Mutant: only the first zone is tried.
FittingZones_FirstOnly(list, n) == {k \in DOMAIN list : k = 1 /\ list[k].size >= n}

FittingZones(list, n) == {k \in DOMAIN list : list[k].size >= n}

\* malloc(): the first zone that fits, split when the rest can hold a descriptor
\* and as much again.
Taken(list, n) ==
    LET k == Min(FittingZones(list, n))
        split == list[k].size - n >= 2 * DESCRIPTOR
        zone == Zone(list[k].start, IF split THEN n ELSE list[k].size)
        rest == IF split THEN <<Zone(End(zone), End(list[k]) - End(zone) - DESCRIPTOR)>>
                ELSE <<>>
    IN  [zone |-> zone,
         list |-> SubSeq(list, 1, k - 1) \o rest \o SubSeq(list, k + 1, Len(list))]

\* The part of an aligned zone before the aligned address is freed, with a
\* descriptor of its own.
FrontTrimmed(taken, alignment) ==
    LET data == RoundUp(Data(taken.zone), alignment)
        start == data - DESCRIPTOR
    IN  [zone |-> Zone(start, Minus(End(taken.zone), data)),
         list |-> InternalFree(taken.list, taken.zone.start, start - taken.zone.start)]

\* Mutant: the rest is freed, the zone keeps its size.
BackTrimmed_KeepsSize(taken, n) ==
    IF Minus(taken.zone.size, n) >= 2 * DESCRIPTOR
    THEN [zone |-> taken.zone,
          list |-> InternalFree(taken.list, Data(taken.zone) + n, Minus(taken.zone.size, n))]
    ELSE taken

\* The part after the bytes asked for is freed when it is worth it.
BackTrimmed(taken, n) ==
    IF Minus(taken.zone.size, n) >= 2 * DESCRIPTOR
    THEN [zone |-> Zone(taken.zone.start, n),
          list |-> InternalFree(taken.list, Data(taken.zone) + n, Minus(taken.zone.size, n))]
    ELSE taken

-----------------------------------------------------------------------------
(* The operations.                                                         *)

Init ==
    /\ freemem = <<Zone(HEAP_START, HEAP_SIZE - DESCRIPTOR)>>
    /\ used = {}
    /\ reply = [asked |-> 0, alignment |-> 0, address |-> NULL]
    /\ cleared = {}

Refuse(size, alignment) ==
    /\ reply' = [asked |-> size, alignment |-> alignment, address |-> NULL]
    /\ UNCHANGED <<freemem, used>>

Grant(size, alignment, taken) ==
    /\ reply' = [asked |-> size, alignment |-> alignment, address |-> Data(taken.zone)]
    /\ freemem' = taken.list
    /\ used' = used \cup {taken.zone}

\* memset() of the bytes asked for, at whatever address was found.
Clear(address, size) == cleared' = {a \in 0..(WORD - 1) : address <= a /\ a < address + size}

\* malloc(size): on failure too, memset() is called, with the null pointer.
Malloc(size) ==
    LET n == RoundUp(size, DESCRIPTOR)
    IN  IF FittingZones(freemem, n) = {}
        THEN Refuse(size, 0) /\ Clear(NULL, size)
        ELSE /\ Grant(size, 0, Taken(freemem, n))
             /\ Clear(Data(Taken(freemem, n).zone), size)

IsPowerOfTwo(alignment) == \E e \in 0..alignment : 2 ^ e = alignment

\* malloc(dim, a): an aligned zone cut out of one that is large enough.
MallocAligned(size, alignment) ==
    LET dim == RoundUp(size, DESCRIPTOR)
        newdim == (dim + alignment + DESCRIPTOR) % WORD
        n == RoundUp(newdim, DESCRIPTOR)
    IN  IF ~IsPowerOfTwo(alignment) \/ newdim < dim
        THEN Refuse(size, alignment) /\ cleared' = {}
        ELSE IF FittingZones(freemem, n) = {}
        THEN Refuse(size, alignment) /\ Clear(NULL, newdim)
        ELSE LET taken == Taken(freemem, n)
             IN  /\ Grant(size, alignment, BackTrimmed(FrontTrimmed(taken, alignment), dim))
                 /\ Clear(Data(taken.zone), newdim)

\* free()
Free(zone) ==
    /\ freemem' = InternalFree(freemem, zone.start, zone.size + DESCRIPTOR)
    /\ used' = used \ {zone}
    /\ UNCHANGED <<reply, cleared>>

Next ==
    \/ \E size \in Sizes : Malloc(size)
    \/ \E size \in Sizes, alignment \in Alignments : MallocAligned(size, alignment)
    \/ \E zone \in used : Free(zone)

Spec == Init /\ [][Next]_vars

-----------------------------------------------------------------------------
(* Properties.                                                             *)

Arena == HEAP_START..(HEAP_START + HEAP_SIZE - 1)
FreeZones == {freemem[k] : k \in DOMAIN freemem}
Bytes(zone) == zone.start..(End(zone) - 1)

\* The descriptors and the pointers are numbers of the machine.
TypeOK ==
    /\ freemem \in Seq([start : Arena, size : Nat])
    /\ used \subseteq [start : Arena, size : Nat]
    /\ reply.address \in Arena \cup {NULL}
    /\ cleared \subseteq 0..(WORD - 1)

\* Every byte of the heap belongs to one zone, free or in use: nothing is given
\* out twice, and internal_free() and the cuts of malloc() lose nothing.
Tiles ==
    \A a \in Arena : Cardinality({zone \in FreeZones \cup used : a \in Bytes(zone)}) = 1

\* The list is in the order of the addresses, as internal_free() requires to
\* find its place, and no two free zones touch ("falsa frammentazione").
Coalesced ==
    \A k \in 1..(Len(freemem) - 1) : End(freemem[k]) < freemem[k + 1].start

\* What malloc() and free() leave: zones within the heap, each byte in one.
ZonesOK == TypeOK /\ Tiles

\* Once everything is freed, in any order, the heap is one zone again.
WholeAgain ==
    used = {} => freemem = <<Zone(HEAP_START, HEAP_SIZE - DESCRIPTOR)>>

\* No order of calls leaves the heap in pieces.
FreeListOK == Coalesced /\ WholeAgain

\* malloc() gives out memory that is free, of the size asked for and aligned,
\* and refuses only what no run of free bytes can hold.
Promise == INSTANCE Allocator WITH
    blocks <- {[address |-> Data(zone), size |-> zone.size] : zone \in used},
    reply <- [room |-> RoundUp(reply.asked, DESCRIPTOR),
              alignment |-> reply.alignment, address |-> reply.address],
    Supported <- {0} \cup {alignment \in Alignments : IsPowerOfTwo(alignment)}

AllocatorSpec == Promise!Spec

\* malloc() sets no byte but free ones to zero.
ClearsFreeMemory ==
    [][cleared' # cleared => cleared' \subseteq UNION {Bytes(zone) : zone \in FreeZones}]_vars

=============================================================================
