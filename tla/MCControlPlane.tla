--------------------------- MODULE MCControlPlane ---------------------------
(***************************************************************************)
(* ControlPlane for TLC.  One pool is enough to make a host full.          *)
(***************************************************************************)
EXTENDS ControlPlane

OnePool == {"ram"}

OneSize == {[k \in OnePool |-> 1]}

\* A creation and three actions on it, say; two polls that overlap cost most.
FewRequests == [calm |-> 4, hurry |-> 3, overlap |-> 2]

OneFree == [k \in OnePool |-> 1]
=============================================================================
