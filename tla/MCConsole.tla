------------------------------ MODULE MCConsole -----------------------------
(***************************************************************************)
(* Console for TLC: its constants are model values, given in the cfg.      *)
(***************************************************************************)
EXTENDS Console, TLC
=============================================================================
