----------------------------- MODULE MCMicroVm -----------------------------
(***************************************************************************)
(* MicroVm for TLC.  The slugs "globex-10" and "sterling-19" have the same *)
(* hash, so the same address; "sterling-19" and "sterling-195" are the     *)
(* same in the first 11 characters, so they share a tap.                   *)
(***************************************************************************)
EXTENDS MicroVm

Sterling == <<115, 116, 101, 114, 108, 105, 110, 103, 45, 49, 57>>

Slugs == [globex |-> <<103, 108, 111, 98, 101, 120, 45, 49, 48>>,
          sterling |-> Sterling,
          longer |-> Append(Sterling, 53)]
=============================================================================
