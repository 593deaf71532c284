--------------------------- MODULE MCTenantConfig ---------------------------
(***************************************************************************)
(* TenantConfig for TLC.  Two edits of an owner may be open at a time.     *)
(***************************************************************************)
EXTENDS TenantConfig, TLC

Overlaps == [o \in Owners |-> 2]
=============================================================================
