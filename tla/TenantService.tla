---------------------------- MODULE TenantService ---------------------------
(***************************************************************************)
(* TenantService (apps/api/src/modules/tenants/service.ts): createTenant   *)
(* and runAction as the sequences of database statements they are, with    *)
(* the scheduler's choice of a host and its capacity accounting.           *)
(*                                                                         *)
(* No statement is in a transaction with another, so requests interleave   *)
(* between them, and a request that throws or dies with the API process    *)
(* leaves behind what it has written.  The host agents appear only through *)
(* the result they report of each command.                                 *)
(***************************************************************************)
EXTENDS Schema, Integers, Sequences, FiniteSets

CONSTANTS NoHost,        \* the NULL of tenants.assigned_host_id
          Requests,      \* the API requests that may be in progress at once
          Resource,      \* the pools of a host: cpu, ram, disk
          Sizes,         \* the resource limits a tenant may ask for
          Capacity,      \* what every host registers as its totals
          MaxRequests,   \* bound on the requests made
          Actions,       \* the lifecycle actions the admins take
          Allowed        \* what else may happen: a subset of Happenings

(***************************************************************************)
(* pin: the admin names the host; repeat: acts on deleted tenants; hurry:  *)
(* acts on a tenant with open commands; collide: makes a request of a      *)
(* tenant while another is in progress; patch: edits limits; throw:        *)
(* provisioning throws; crash: the API process dies; fail: the agent       *)
(* reports failures; reregister, host: hosts change.                       *)
(***************************************************************************)
Happenings == {"pin", "repeat", "hurry", "collide", "patch", "throw", "crash", "fail",
               "reregister", "host"}

TenantAction == {"start", "stop", "restart", "backup", "update_runtime", "suspend", "delete"}

ASSUME ServiceAssumption ==
    /\ NoHost \notin Hosts
    /\ "ram" \in Resource
    /\ Sizes \subseteq [Resource -> Nat]
    /\ \A k \in Resource : \E size \in Sizes : \A other \in Sizes : other[k] <= size[k]
    /\ Capacity \in [Resource -> Nat]
    /\ IsFiniteSet(Requests) /\ Requests # {}
    /\ MaxRequests \in Nat
    /\ Actions \subseteq TenantAction
    /\ Allowed \subseteq Happenings

VARIABLES
    status,       \* tenants.status, "absent" before the row is created
    assigned,     \* tenants.assigned_host_id
    limits,       \* the tenant_resource_limits row
    avail,        \* the available_* columns of hosts
    schedulable,  \* whether the host is online and approved
    cmds,         \* host_commands in the order of creation
    backups,      \* the pending rows of table backups, per tenant
    reqs,         \* the requests in progress
    made,         \* how many requests were made
    crashed,      \* history: whether the API process has died
    forgotten     \* history: what a host's pools lost track of when it registered again

history == <<crashed, forgotten>>

svars == <<status, assigned, limits, avail, schedulable, cmds, backups, reqs, made, history>>

-----------------------------------------------------------------------------
Size == [Resource -> Nat]

Fits(size, h) == \A k \in Resource : avail[h][k] >= size[k]

Less(a, b) == [k \in Resource |-> a[k] - b[k]]
More(a, b) == [k \in Resource |-> a[k] + b[k]]

(***************************************************************************)
(* A request: its next statement and the local variables it carries over   *)
(* its awaits: the tenant, the host and the limits as it read them.        *)
(***************************************************************************)
CreatePc == {"insert", "select", "giveUp", "provision", "assign", "reserve", "enqueue"}
ActionPc == {"command", "backup", "status", "release"}

Request == [pc : {"idle"} \cup CreatePc \cup ActionPc, tenant : Tenants \cup {NoTenant},
            host : Hosts \cup {NoHost}, size : Size, auto : BOOLEAN,
            action : TenantAction \cup {"create"}]

NoSize == [k \in Resource |-> 0]

Idle == [pc |-> "idle", tenant |-> NoTenant, host |-> NoHost, size |-> NoSize,
         auto |-> FALSE, action |-> "create"]

At(r, pc) == reqs[r].pc = pc

Goto(r, pc) == reqs' = [reqs EXCEPT ![r].pc = pc]

\* A command whose terminal report is still to come.
Open == {"queued", "claimed", "running"}

CommandsFor(t) == {c \in DOMAIN cmds : cmds[c].tenant = t}

\* The request returns or throws.
Done(r) == reqs' = [reqs EXCEPT ![r] = Idle]

Begin(r, q) ==
    /\ At(r, "idle")
    /\ (\E o \in Requests : reqs[o].tenant = q.tenant) => "collide" \in Allowed
    /\ made < MaxRequests
    /\ made' = made + 1
    /\ reqs' = [reqs EXCEPT ![r] = q]

-----------------------------------------------------------------------------
(***************************************************************************)
(* createTenant.                                                           *)
(***************************************************************************)

\* tenant.findUnique: a slug that is taken ends the request with 409.  A pinned
\* host wins over auto_select_host.
BeginCreate(r, t, size, auto, h) ==
    /\ status[t] = "absent"
    /\ h # NoHost => "pin" \in Allowed /\ ~auto
    /\ Begin(r, [Idle EXCEPT !.pc = "insert", !.tenant = t, !.host = h,
                             !.size = size, !.auto = auto])
    /\ UNCHANGED <<status, assigned, limits, avail, schedulable, cmds, backups, history>>

\* Mutant of InsertTenant: an upsert, so the slug is not unique.
UpsertTenant(r) ==
    /\ At(r, "insert")
    /\ status' = [status EXCEPT ![reqs[r].tenant] = "pending"]
    /\ limits' = [limits EXCEPT ![reqs[r].tenant] = reqs[r].size]
    /\ Goto(r, "select")
    /\ UNCHANGED <<assigned, avail, schedulable, cmds, backups, made, history>>

\* tenant.create with its limits: the unique slug rejects a second row.
InsertTenant(r) ==
    /\ At(r, "insert")
    /\ LET t == reqs[r].tenant IN
       \/ /\ status[t] = "absent"
          /\ status' = [status EXCEPT ![t] = "pending"]
          /\ limits' = [limits EXCEPT ![t] = reqs[r].size]
          /\ Goto(r, "select")
       \/ /\ status[t] # "absent"
          /\ Done(r)
          /\ UNCHANGED <<status, limits>>
    /\ UNCHANGED <<assigned, avail, schedulable, cmds, backups, made, history>>

\* Mutant of Candidates: the free pools are not compared.
CandidatesFull(size) == {h \in Hosts : schedulable[h]}

\* selectHostForTenant: of the hosts that fit, one with the most free RAM.
Candidates(size) == {h \in Hosts : schedulable[h] /\ Fits(size, h)}

Preferred(size) ==
    {h \in Candidates(size) : \A g \in Candidates(size) : avail[h]["ram"] >= avail[g]["ram"]}

\* A pinned host is taken as it is: neither its status nor its room is looked at.
SelectHost(r) ==
    /\ At(r, "select")
    /\ LET q == reqs[r] IN
       \/ q.host # NoHost /\ Goto(r, "provision")
       \/ /\ q.host = NoHost /\ q.auto
          /\ \E h \in Preferred(q.size) :
                reqs' = [reqs EXCEPT ![r].pc = "provision", ![r].host = h]
       \/ /\ q.host = NoHost /\ (q.auto => Preferred(q.size) = {})
          /\ Goto(r, "giveUp")
    /\ UNCHANGED <<status, assigned, limits, avail, schedulable, cmds, backups, made, history>>

\* No host: the tenant fails.
GiveUp(r) ==
    /\ At(r, "giveUp")
    /\ status' = [status EXCEPT ![reqs[r].tenant] = "failed"]
    /\ Done(r)
    /\ UNCHANGED <<assigned, limits, avail, schedulable, cmds, backups, made, history>>

\* The virtual key, the secret, the namespace, the runtime config and the MCP
\* access rows: one of these awaits may throw, and then the tenant stays pending.
Provision(r) ==
    /\ At(r, "provision")
    /\ \/ Goto(r, "assign")
       \/ "throw" \in Allowed /\ Done(r)
    /\ UNCHANGED <<status, assigned, limits, avail, schedulable, cmds, backups, made, history>>

AssignHost(r) ==
    /\ At(r, "assign")
    /\ assigned' = [assigned EXCEPT ![reqs[r].tenant] = reqs[r].host]
    /\ status' = [status EXCEPT ![reqs[r].tenant] = "provisioning"]
    /\ Goto(r, "reserve")
    /\ UNCHANGED <<limits, avail, schedulable, cmds, backups, made, history>>

\* Mutant of ReserveCapacity: it throws when the host is full.
ReserveChecked(r) ==
    /\ At(r, "reserve")
    /\ IF Fits(reqs[r].size, reqs[r].host)
       THEN /\ avail' = [avail EXCEPT ![reqs[r].host] = Less(@, reqs[r].size)]
            /\ Goto(r, "enqueue")
       ELSE Done(r) /\ UNCHANGED avail
    /\ UNCHANGED <<status, assigned, limits, schedulable, cmds, backups, made, history>>

\* reserveCapacity decrements the pools without looking at them.
ReserveCapacity(r) ==
    /\ At(r, "reserve")
    /\ avail' = [avail EXCEPT ![reqs[r].host] = Less(@, reqs[r].size)]
    /\ Goto(r, "enqueue")
    /\ UNCHANGED <<status, assigned, limits, schedulable, cmds, backups, made, history>>

EnqueueCreate(r) ==
    /\ At(r, "enqueue")
    /\ cmds' = Append(cmds, QueuedRow(reqs[r].host, reqs[r].tenant, "create_tenant", "full"))
    /\ Done(r)
    /\ UNCHANGED <<status, assigned, limits, avail, schedulable, backups, made, history>>

-----------------------------------------------------------------------------
(***************************************************************************)
(* runAction.                                                              *)
(***************************************************************************)

\* The map of runAction: the command of an action, and the status it sets at once.
CommandOf == [start |-> "start_tenant", stop |-> "stop_tenant", restart |-> "restart_tenant",
              backup |-> "backup_tenant", update_runtime |-> "update_runtime",
              suspend |-> "stop_tenant", delete |-> "delete_tenant"]

StatusAfter(a, current) ==
    CASE a = "start" -> "active"
      [] a \in {"stop", "suspend"} -> "suspended"
      [] a = "delete" -> "deleted"
      [] OTHER -> current

\* tenant.findUnique with its limits: everything later works on this copy.
BeginAction(r, t, a) ==
    /\ status[t] # "absent"
    /\ status[t] = "deleted" => "repeat" \in Allowed
    /\ (\E c \in CommandsFor(t) : cmds[c].status \in Open) => "hurry" \in Allowed
    /\ Begin(r, [Idle EXCEPT !.pc = IF assigned[t] = NoHost THEN "status" ELSE "command",
                             !.tenant = t, !.host = assigned[t], !.size = limits[t],
                             !.action = a])
    /\ UNCHANGED <<status, assigned, limits, avail, schedulable, cmds, backups, history>>

EnqueueAction(r) ==
    /\ At(r, "command")
    /\ cmds' = Append(cmds, QueuedRow(reqs[r].host, reqs[r].tenant,
                                      CommandOf[reqs[r].action], "slug"))
    /\ Goto(r, IF reqs[r].action = "backup" THEN "backup" ELSE "status")
    /\ UNCHANGED <<status, assigned, limits, avail, schedulable, backups, made, history>>

RecordBackup(r) ==
    /\ At(r, "backup")
    /\ backups' = [backups EXCEPT ![reqs[r].tenant] = @ + 1]
    /\ Goto(r, "status")
    /\ UNCHANGED <<status, assigned, limits, avail, schedulable, cmds, made, history>>

\* Mutants of Releases: a suspended tenant gives its room back too, or a delete
\* does although the tenant has no host.
ReleasesSuspended(q) == q.action \in {"suspend", "delete"} /\ q.host # NoHost
ReleasesUnassigned(q) == q.action = "delete"

Releases(q) == q.action = "delete" /\ q.host # NoHost

\* The status changes although the command has not run, or there is none.
SetStatus(r) ==
    /\ At(r, "status")
    /\ status' = [status EXCEPT ![reqs[r].tenant] = StatusAfter(reqs[r].action, @)]
    /\ IF Releases(reqs[r]) THEN Goto(r, "release") ELSE Done(r)
    /\ UNCHANGED <<assigned, limits, avail, schedulable, cmds, backups, made, history>>

\* releaseCapacity gives back the limits that were read at the start.
ReleaseCapacity(r) ==
    /\ At(r, "release")
    /\ avail' = [avail EXCEPT ![reqs[r].host] = More(@, reqs[r].size)]
    /\ Done(r)
    /\ UNCHANGED <<status, assigned, limits, schedulable, cmds, backups, made, history>>

-----------------------------------------------------------------------------
(***************************************************************************)
(* The rest of the system, as far as it touches these tables.              *)
(***************************************************************************)

\* PATCH /api/tenants/:id with resource_limits: the host's pools are left alone.
PatchLimits(t, size) ==
    /\ "patch" \in Allowed
    /\ status[t] # "absent"
    /\ limits' = [limits EXCEPT ![t] = size]
    /\ UNCHANGED <<status, assigned, avail, schedulable, cmds, backups, reqs, made, history>>

\* Re-registration resets the pools to the totals and the status to online.
ReRegisterHost(h) ==
    /\ "reregister" \in Allowed
    /\ avail' = [avail EXCEPT ![h] = Capacity]
    /\ schedulable' \in {schedulable, [schedulable EXCEPT ![h] = TRUE]}
    /\ forgotten' = [forgotten EXCEPT ![h] = More(@, Less(Capacity, avail[h]))]
    /\ UNCHANGED <<status, assigned, limits, cmds, backups, reqs, made, crashed>>

\* Approval, maintenance and heartbeats change what the scheduler may choose.
ChangeHost(h) ==
    /\ "host" \in Allowed
    /\ schedulable' = [schedulable EXCEPT ![h] = ~@]
    /\ UNCHANGED <<status, assigned, limits, avail, cmds, backups, reqs, made, history>>

\* The agent's report of its oldest open command, first "running", then the
\* result, and reconcileTenant, which returns before its backup block: the
\* pending rows stay.
ReportCommand(c, s) ==
    /\ cmds[c].status = IF s = "running" THEN "queued" ELSE "running"
    /\ \A d \in DOMAIN cmds : d < c /\ cmds[d].host = cmds[c].host => cmds[d].status \notin Open
    /\ s = "failed" => "fail" \in Allowed
    /\ cmds' = [cmds EXCEPT ![c].status = s]
    /\ status' = [status EXCEPT ![cmds[c].tenant] = Reconciled(cmds[c].type, s, @)]
    /\ UNCHANGED <<assigned, limits, avail, schedulable, backups, reqs, made, history>>

\* The API process dies: its requests stop where they are.
ApiCrash ==
    /\ "crash" \in Allowed
    /\ reqs' = [r \in Requests |-> Idle]
    /\ crashed' = TRUE
    /\ UNCHANGED <<status, assigned, limits, avail, schedulable, cmds, backups, made, forgotten>>

-----------------------------------------------------------------------------
Init ==
    /\ status = [t \in Tenants |-> "absent"]
    /\ assigned = [t \in Tenants |-> NoHost]
    /\ limits = [t \in Tenants |-> NoSize]
    /\ avail = [h \in Hosts |-> Capacity]
    /\ schedulable = [h \in Hosts |-> TRUE]
    /\ cmds = <<>>
    /\ backups = [t \in Tenants |-> 0]
    /\ reqs = [r \in Requests |-> Idle]
    /\ made = 0
    /\ crashed = FALSE
    /\ forgotten = [h \in Hosts |-> NoSize]

RequestStep(r) ==
    \/ InsertTenant(r) \/ SelectHost(r) \/ GiveUp(r) \/ Provision(r)
    \/ AssignHost(r) \/ ReserveCapacity(r) \/ EnqueueCreate(r)
    \/ EnqueueAction(r) \/ RecordBackup(r) \/ SetStatus(r) \/ ReleaseCapacity(r)

BeginRequest(r) ==
    \/ \E t \in Tenants, size \in Sizes, auto \in BOOLEAN, h \in Hosts \cup {NoHost} :
          BeginCreate(r, t, size, auto, h)
    \/ \E t \in Tenants, a \in Actions : BeginAction(r, t, a)

Environment ==
    \/ \E t \in Tenants, size \in Sizes : PatchLimits(t, size)
    \/ \E h \in Hosts : ReRegisterHost(h) \/ ChangeHost(h)
    \/ \E c \in DOMAIN cmds, s \in Completed \cup {"running"} : ReportCommand(c, s)
    \/ ApiCrash

Next == Environment \/ \E r \in Requests : BeginRequest(r) \/ RequestStep(r)

Spec == Init /\ [][Next]_svars

-----------------------------------------------------------------------------
(***************************************************************************)
(* Properties.                                                             *)
(***************************************************************************)

\* Rows and requests are well formed; a request past its selection has a host.
TypeOK ==
    /\ status \in [Tenants -> TenantStatus \cup {"absent"}]
    /\ assigned \in [Tenants -> Hosts \cup {NoHost}]
    /\ limits \in [Tenants -> Size]
    /\ avail \in [Hosts -> [Resource -> Int]]
    /\ schedulable \in [Hosts -> BOOLEAN]
    /\ cmds \in Seq(CommandRow)
    /\ backups \in [Tenants -> Nat]
    /\ reqs \in [Requests -> Request]
    /\ made \in 0 .. MaxRequests
    /\ crashed \in BOOLEAN
    /\ forgotten \in [Hosts -> [Resource -> Int]]
    /\ \A r \in Requests :
          /\ ~At(r, "idle") => reqs[r].tenant \in Tenants
          /\ reqs[r].pc \in {"provision", "assign", "reserve", "enqueue", "command",
                             "backup", "release"} => reqs[r].host \in Hosts

\* A slug is provisioned once: concurrent requests for it, repeated ones and
\* aborted ones never lead to a second create_tenant command.
CreatedOnce ==
    \A t \in Tenants :
        Cardinality({c \in CommandsFor(t) : cmds[c].type = "create_tenant"}) <= 1

\* Every command goes to the host its tenant is assigned to, although runAction
\* and createTenant act on a host they read or chose earlier.
CommandsFollowAssignment ==
    \A c \in DOMAIN cmds : cmds[c].host = assigned[cmds[c].tenant]

\* The sum of f over S, counted unit by unit.
Units(S, f) == UNION {{x} \X (1 .. f[x]) : x \in S}
Total(S, f) == Cardinality(Units(S, f))

\* What in-progress creations have chosen on h and not yet reserved.
Racing(h) == {r \in Requests : reqs[r].host = h /\ reqs[r].pc \in {"provision", "assign", "reserve"}}

Chosen(h, k) == Total(Racing(h), [r \in Requests |-> reqs[r].size[k]])

LargestSize(k) == CHOOSE n \in {size[k] : size \in Sizes} : \A size \in Sizes : size[k] <= n

\* Selecting and reserving are separate statements, so a host may be promised
\* more than it has, but only by as many tenants as requests raced.  An admin
\* who pins a host does not ask for its room, and a delete after a registration
\* raises the pools above the totals, so a tenant that no host can hold may be
\* placed; the bound is for uses without either.
OversubscriptionBounded ==
    \A h \in Hosts, k \in Resource :
        avail[h][k] - Chosen(h, k) >= -((Cardinality(Requests) - 1) * LargestSize(k))

NoRequests == \A r \in Requests : At(r, "idle")

Held(h, k) ==
    Total({t \in Tenants : assigned[t] = h /\ status[t] # "deleted"},
          [t \in Tenants |-> limits[t][k]])

\* With one request of a tenant at a time, and none on one with open commands, a
\* host's free pools are its totals less the limits of the tenants it holds, once
\* no request is open; requests of different tenants may race, and commands may
\* still be under way.  A registration that resets the pools makes them wrong by
\* what was taken from them then, and nothing later makes that good.
CapacityConserved ==
    NoRequests =>
        \A h \in Hosts, k \in Resource :
            avail[h][k] = Capacity[k] - Held(h, k) + forgotten[h][k]

\* Until the API dies, a tenant that waits in provisioning has a command that will
\* take it on: none is left there by the order of the statements.
ProvisioningIsQueued ==
    NoRequests /\ ~crashed =>
        \A t \in Tenants : status[t] = "provisioning" =>
            \E c \in CommandsFor(t) : cmds[c].type = "create_tenant" /\ cmds[c].status = "queued"
=============================================================================
