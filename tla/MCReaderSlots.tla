--------------------------- MODULE MCReaderSlots ---------------------------
(***************************************************************************)
(* ReaderSlots for model checking: the threads are interchangeable.        *)
(***************************************************************************)
EXTENDS ReaderSlots, TLC

ThreadSymmetry == Permutations(Threads)
=============================================================================
