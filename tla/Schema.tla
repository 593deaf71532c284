------------------------------- MODULE Schema -------------------------------
(***************************************************************************)
(* The enumerations and the host_commands row that the control plane, the  *)
(* host agent and the database share (packages/shared-types, schema.prisma *)
(* of packages/db).  No variables: every component module EXTENDS this.    *)
(***************************************************************************)
EXTENDS Naturals

CONSTANTS Hosts,      \* the rows of table hosts
          Tenants,    \* the rows of table tenants; a tenant stands for its slug too
          NoTenant    \* the NULL of host_commands.tenant_id

ASSUME NoTenantAssumption == NoTenant \notin Tenants

TenantStatus == {"pending", "provisioning", "active", "suspended", "failed", "deleted"}

HostStatus == {"online", "offline", "draining", "maintenance"}

CommandType == {"create_tenant", "start_tenant", "stop_tenant", "restart_tenant",
                "delete_tenant", "update_runtime", "backup_tenant",
                "restore_tenant", "collect_logs"}

CommandStatus == {"queued", "claimed", "running", "succeeded", "failed", "cancelled"}

\* What CommandResultRequest.status may say of a finished command.
Completed == {"succeeded", "failed"}

(***************************************************************************)
(* A command's payload, as far as the agent tells payloads apart: "full"   *)
(* parses as CreateTenantCommandPayload, "slug" holds tenant_slug only     *)
(* (what runAction writes), "empty" is the {} of a manual command.         *)
(***************************************************************************)
Payload == {"full", "slug", "empty"}

CommandRow == [host : Hosts, tenant : Tenants \cup {NoTenant}, type : CommandType,
               payload : Payload, status : CommandStatus, attempts : Nat]

\* The row that hostCommand.create writes: queued, attempts defaulting to 0.
QueuedRow(h, t, ty, pl) ==
    [host |-> h, tenant |-> t, type |-> ty, payload |-> pl,
     status |-> "queued", attempts |-> 0]

\* The success column of reconcileTenant's table.
OnSuccess(ty, current) ==
    CASE ty \in {"create_tenant", "start_tenant", "restart_tenant"} -> "active"
      [] ty = "stop_tenant" -> "suspended"
      [] ty = "delete_tenant" -> "deleted"
      [] OTHER -> current

\* Mutants of Reconciled: no failure column, and one that has every command.
ReconciledIfSucceeded(ty, reported, current) ==
    IF reported = "succeeded" THEN OnSuccess(ty, current) ELSE current
ReconciledAnyFailure(ty, reported, current) ==
    IF reported = "succeeded" THEN OnSuccess(ty, current) ELSE "failed"

\* The status a report moves the tenant to.  Any report but "succeeded" takes the
\* failure column, "running" included, where only create_tenant has an entry.
Reconciled(ty, reported, current) ==
    IF reported = "succeeded" THEN OnSuccess(ty, current)
    ELSE IF ty = "create_tenant" THEN "failed" ELSE current
=============================================================================
