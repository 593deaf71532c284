--------------------------- MODULE MCCommandQueue ---------------------------
(***************************************************************************)
(* CommandQueue for TLC.  Hosts are interchangeable, and the slots of all. *)
(***************************************************************************)
EXTENDS CommandQueue, TLC

QueueSymmetry == Permutations(Hosts) \cup Permutations(Slots)
=============================================================================
