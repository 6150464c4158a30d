-------------------------- MODULE MCProcessMemory ---------------------------
(* Values for the constants that a .cfg cannot write.                      *)
EXTENDS ProcessMemory

OneRegion == <<[first |-> 0, end |-> 2, type |-> 1], [first |-> 2, end |-> FRAME_COUNT - 6, type |-> 1],
               [first |-> FRAME_COUNT - 6, end |-> FRAME_COUNT - 4, type |-> 2],
               [first |-> FRAME_COUNT - 4, end |-> FRAME_COUNT, type |-> 1]>>

TopOfStack == {stack_top - 1, stack_top}

Segment(vaddr, memsz, offset, filesz, writable) ==
    [load |-> TRUE, vaddr |-> vaddr, memsz |-> memsz, offset |-> offset,
     filesz |-> filesz, writable |-> writable]
Note(vaddr) ==
    [load |-> FALSE, vaddr |-> vaddr, memsz |-> 1, offset |-> 8, filesz |-> 1,
     writable |-> FALSE]

\* Two modules laid out as the linker lays out those of build_module: text,
\* then data with room for .bss, then the notes, all from page 128 on.
TwoModules ==
    <<[user |-> FALSE, headers |->
        <<Segment(258, 2, 2, 2, TRUE), Segment(256, 1, 8, 1, FALSE), Note(256)>>],
      [user |-> FALSE, headers |-> <<Segment(257, 4, 3, 2, TRUE), Note(256)>>]>>

=============================================================================
