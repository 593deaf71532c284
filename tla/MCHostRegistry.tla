--------------------------- MODULE MCHostRegistry ---------------------------
(***************************************************************************)
(* HostRegistry for TLC.  The registrations of one machine may overlap,    *)
(* those of the other do not.                                              *)
(***************************************************************************)
EXTENDS HostRegistry, TLC

Overlaps == [n \in Names |-> IF n = "patient" THEN 1 ELSE 2]
=============================================================================
