--------------------------- MODULE MCChainReclaim ---------------------------
(***************************************************************************)
(* ChainReclaim for model checking: the writers are interchangeable, and   *)
(* so are the sockets.  The run with a liveness property has no symmetry. *)
(***************************************************************************)
EXTENDS ChainReclaim, TLC

Symmetry == Permutations(Writers) \cup Permutations(Sockets)
=============================================================================
