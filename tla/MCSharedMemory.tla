--------------------------- MODULE MCSharedMemory ---------------------------
(***************************************************************************)
(* SharedMemory for TLC: the frames are interchangeable.                   *)
(***************************************************************************)
EXTENDS SharedMemory

FrameSymmetry == Permutations(Frames)

=============================================================================
