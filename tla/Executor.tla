------------------------------ MODULE Executor ------------------------------
(***************************************************************************)
(* What the command queue relies on of CommandExecutor and                 *)
(* FirecrackerManager: the results a command may report, and whether the   *)
(* tenant's MicroVM is in the registry then.  MicroVm has the steps.       *)
(* Off mock mode the shell commands of createMicrovm may throw before the  *)
(* registry is written, and the rmSync of deleteMicrovm after it.  A start *)
(* with a slug only is acknowledged, and nothing is started.               *)
(***************************************************************************)
EXTENDS Schema

CONSTANT MockMode   \* the agent's mockMode: creating a MicroVM cannot fail

ASSUME MockModeAssumption == MockMode \in BOOLEAN

\* createMicrovm, or startMicrovm when the payload parses: the VM is wanted.
Installs(ty, pl) == ty \in {"create_tenant", "start_tenant"} /\ pl = "full"

\* Mutant of Removes: a stop is acknowledged only, as a start is.
RemovesDeleted(ty, pl) == ty \in {"restart_tenant", "delete_tenant"} /\ pl # "empty"

\* stopMicrovm of the slug in the payload; a restart only stops.
Removes(ty, pl) == ty \in {"stop_tenant", "restart_tenant", "delete_tenant"} /\ pl # "empty"

MayThrow(ty, pl, vm) ==
    /\ ~MockMode
    /\ \/ Installs(ty, pl) /\ ~(ty = "start_tenant" /\ vm)
       \/ ty = "delete_tenant"

Failed(vm) == [result |-> "failed", vm |-> vm]

Outcomes(ty, pl, vm) ==
    IF ty = "create_tenant" /\ pl # "full"       \* CreateTenantCommandPayload.parse throws
    THEN {Failed(vm)}
    ELSE {[result |-> "succeeded", vm |-> Installs(ty, pl) \/ (vm /\ ~Removes(ty, pl))]}
         \cup (IF MayThrow(ty, pl, vm) THEN {Failed(vm /\ ~Removes(ty, pl))} ELSE {})
=============================================================================
