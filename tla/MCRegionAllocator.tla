-------------------------- MODULE MCRegionAllocator --------------------------
(***************************************************************************)
(* RegionAllocator for TLC.  The worker threads are interchangeable:       *)
(* register_thread hands out sockets in the order of arrival, whoever      *)
(* arrives.                                                                *)
(***************************************************************************)
EXTENDS RegionAllocator, TLC

ThreadSymmetry == Permutations(Threads)
=============================================================================
