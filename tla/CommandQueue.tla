---------------------------- MODULE CommandQueue ----------------------------
(***************************************************************************)
(* The command queue between the control plane and the host agents: table  *)
(* host_commands, the handlers that append to it, claim from it and record *)
(* results in it, the reconciliation of the tenant row, and the agent's    *)
(* poll / execute / report loop with its in-memory registry of MicroVMs.   *)
(*                                                                         *)
(* A handler is split wherever it awaits the database: no handler uses a   *)
(* transaction, so another request may run between two of its statements.  *)
(* The agent starts a poll on every tick of setInterval whether or not the *)
(* previous one has finished; Slots are the polls that may be open at once.*)
(***************************************************************************)
EXTENDS Executor, Sequences, FiniteSets

CONSTANTS Slots,            \* the polls an agent may have open at once
          MaxCommands,      \* bound on the rows of host_commands
          EnqueuedTypes,    \* the command types the runs enqueue
          EnqueuedPayloads, \* the payloads the runs enqueue
          StartStatus,      \* tenant statuses the queue may find at the start
          Faults            \* which faults occur: a subset of FaultKinds

FaultKinds == {"approval", "network", "agent", "api"}

ASSUME QueueAssumption ==
    /\ IsFiniteSet(Slots)
    /\ MaxCommands \in Nat
    /\ EnqueuedTypes \subseteq CommandType
    /\ EnqueuedPayloads \subseteq Payload
    /\ StartStatus \subseteq TenantStatus
    /\ Faults \subseteq FaultKinds

VARIABLES
    approved,      \* hosts.approved, checked by requireHost on every call
    cmds,          \* host_commands in the order of createdAt
    polls,         \* the agents' polls, with the request each has at the server
    tenantStatus,  \* tenants.status
    vms,           \* FirecrackerManager.vms of each agent: lost with the process
    executions     \* history: how often each command was executed

vars == <<approved, cmds, polls, tenantStatus, vms, executions>>

-----------------------------------------------------------------------------
(***************************************************************************)
(* A poll is one run of pollAndRunCommands.  Its pc says how far it is,    *)
(* the handler it waits for included:                                      *)
(*                                                                         *)
(*   polling          /commands/next is past requireHost                   *)
(*   selected         ... has read the oldest queued row                   *)
(*   claimed          ... has claimed it; the agent reports "running"      *)
(*   reportRunning    /result {running} is past requireHost                *)
(*   reconcileRunning ... has written the row, not yet the tenant          *)
(*   running          the agent executes the command                       *)
(*   executed         the agent reports the result                         *)
(*   reportResult, reconcileResult   as for "running"                      *)
(*                                                                         *)
(* live is FALSE once nobody waits for the answer any more.                *)
(***************************************************************************)
Poll == Hosts \X Slots

HandlerPc == {"polling", "selected", "reportRunning", "reconcileRunning",
              "reportResult", "reconcileResult"}

AgentPc == {"claimed", "running", "executed"}

\* Where the agent is about to send a request, or the request is on its way.
SendingPc == {"claimed", "executed"}

PollState == [pc : {"idle"} \cup HandlerPc \cup AgentPc, cmd : Nat,
              live : BOOLEAN, result : Completed \cup {"none"}]

Idle == [pc |-> "idle", cmd |-> 0, live |-> FALSE, result |-> "none"]

Started == [pc |-> "polling", cmd |-> 0, live |-> TRUE, result |-> "none"]
Selected(q, c) == [q EXCEPT !.pc = "selected", !.cmd = c]
Moved(q, pc) == [q EXCEPT !.pc = pc]
Finished(q, r) == [q EXCEPT !.pc = "executed", !.result = r]
Orphaned(q) == [q EXCEPT !.live = FALSE]

At(p, pc) == polls[p].pc = pc

Goto(p, pc) == polls' = [polls EXCEPT ![p] = Moved(polls[p], pc)]

\* The client's promise settles: it goes on, unless it is gone.
Return(p, pc) ==
    polls' = [polls EXCEPT ![p] = IF polls[p].live THEN Moved(polls[p], pc) ELSE Idle]

Abandon(p) == polls' = [polls EXCEPT ![p] = Idle]

\* Mutants of Claimed: the claim is not counted, or leaves the row queued.
ClaimedUncounted(row) == [row EXCEPT !.status = "claimed"]
ClaimedStillQueued(row) == [row EXCEPT !.attempts = row.attempts + 1]

Claimed(row) == [row EXCEPT !.status = "claimed", !.attempts = row.attempts + 1]
WithStatus(row, s) == [row EXCEPT !.status = s]
ReplaceStatus(c, s) == cmds' = [cmds EXCEPT ![c] = WithStatus(cmds[c], s)]

\* Mutant of Waiting: the query forgets its host.
WaitingAnywhere(h) == {c \in DOMAIN cmds : cmds[c].status = "queued"}

Waiting(h) == {c \in DOMAIN cmds : cmds[c].host = h /\ cmds[c].status = "queued"}

-----------------------------------------------------------------------------
(***************************************************************************)
(* The admin API.                                                          *)
(***************************************************************************)

Enqueue(row) ==
    /\ Len(cmds) < MaxCommands
    /\ cmds' = Append(cmds, row)
    /\ executions' = Append(executions, 0)
    /\ UNCHANGED <<approved, polls, tenantStatus, vms>>

\* POST /api/commands.  A command without a tenant carries no tenant payload.
CreateCommand(h, t, ty, pl) ==
    /\ t = NoTenant => pl = "empty"
    /\ Enqueue(QueuedRow(h, t, ty, pl))

\* Mutant of RetryCommand: the row itself is queued again.
RetryInPlace(c) ==
    /\ ReplaceStatus(c, "queued")
    /\ UNCHANGED <<approved, polls, tenantStatus, vms, executions>>

\* POST /api/commands/:id/retry copies a row of any status.
RetryCommand(c) ==
    Enqueue(QueuedRow(cmds[c].host, cmds[c].tenant, cmds[c].type, cmds[c].payload))

\* POST /api/hosts/:id/approve with either value.
ApproveHost(h) ==
    /\ "approval" \in Faults
    /\ approved' = [approved EXCEPT ![h] = ~@]
    /\ UNCHANGED <<cmds, polls, tenantStatus, vms, executions>>

-----------------------------------------------------------------------------
(***************************************************************************)
(* GET /api/hosts/:host_id/commands/next.                                  *)
(***************************************************************************)

\* A tick of the poll timer; requireHost lets the call through.
StartPoll(p) ==
    /\ At(p, "idle")
    /\ approved[p[1]]
    /\ polls' = [polls EXCEPT ![p] = Started]
    /\ UNCHANGED <<approved, cmds, tenantStatus, vms, executions>>

\* Mutant of SelectOldest: the query forgets its order.
SelectAny(p) ==
    /\ At(p, "polling")
    /\ \/ \E c \in Waiting(p[1]) : polls' = [polls EXCEPT ![p] = Selected(polls[p], c)]
       \/ Waiting(p[1]) = {} /\ Abandon(p)
    /\ UNCHANGED <<approved, cmds, tenantStatus, vms, executions>>

\* hostCommand.findFirst: the oldest queued row of the host, if any.
SelectOldest(p) ==
    /\ At(p, "polling")
    /\ \/ \E c \in Waiting(p[1]) :
             /\ \A d \in Waiting(p[1]) : c <= d
             /\ polls' = [polls EXCEPT ![p] = Selected(polls[p], c)]
       \/ /\ Waiting(p[1]) = {}
          /\ Abandon(p)
    /\ UNCHANGED <<approved, cmds, tenantStatus, vms, executions>>

\* hostCommand.update by id alone: the row may be claimed already.
ClaimSelected(p) ==
    /\ At(p, "selected")
    /\ cmds' = [cmds EXCEPT ![polls[p].cmd] = Claimed(cmds[polls[p].cmd])]
    /\ Return(p, "claimed")
    /\ UNCHANGED <<approved, tenantStatus, vms, executions>>

-----------------------------------------------------------------------------
(***************************************************************************)
(* POST /api/hosts/:host_id/commands/:command_id/result.                   *)
(***************************************************************************)

\* requireHost: a host whose approval was withdrawn gets 401 and gives up.
AuthoriseReport(p) ==
    /\ \/ At(p, "claimed")  /\ approved[p[1]] /\ Goto(p, "reportRunning")
       \/ At(p, "executed") /\ approved[p[1]] /\ Goto(p, "reportResult")
       \/ polls[p].pc \in SendingPc /\ ~approved[p[1]] /\ Abandon(p)
    /\ UNCHANGED <<approved, cmds, tenantStatus, vms, executions>>

\* hostCommand.update, whatever the row's status is by now.
RecordResult(p) ==
    /\ \/ /\ At(p, "reportRunning")
          /\ ReplaceStatus(polls[p].cmd, "running")
          /\ Goto(p, "reconcileRunning")
       \/ /\ At(p, "reportResult")
          /\ ReplaceStatus(polls[p].cmd, polls[p].result)
          /\ Goto(p, "reconcileResult")
    /\ UNCHANGED <<approved, tenantStatus, vms, executions>>

\* The update of reconcileTenant, for a command that has a tenant.
Reconcile(t, ty, reported) ==
    tenantStatus' = IF t = NoTenant THEN tenantStatus
                    ELSE [tenantStatus EXCEPT ![t] = Reconciled(ty, reported, @)]

ReconcileTenant(p) ==
    /\ LET row == cmds[polls[p].cmd] IN
       \/ /\ At(p, "reconcileRunning")
          /\ Reconcile(row.tenant, row.type, "running")
          /\ Return(p, "running")
       \/ /\ At(p, "reconcileResult")
          /\ Reconcile(row.tenant, row.type, polls[p].result)
          /\ Abandon(p)
    /\ UNCHANGED <<approved, cmds, vms, executions>>

-----------------------------------------------------------------------------
(***************************************************************************)
(* CommandExecutor.execute, to which Executor gives the outcomes.          *)
(***************************************************************************)

\* Mutant of Execute: an execution that throws is not caught, nor reported.
ExecuteUncaught(p) ==
    /\ At(p, "running")
    /\ LET h == p[1]
           c == polls[p].cmd
           t == cmds[c].tenant
       IN \E o \in Outcomes(cmds[c].type, cmds[c].payload, t \in vms[h]) :
             /\ polls' = [polls EXCEPT ![p] = IF o.result = "failed" THEN Idle
                                             ELSE Finished(polls[p], o.result)]
             /\ vms' = [vms EXCEPT ![h] = IF o.vm THEN @ \cup {t} ELSE @ \ {t}]
             /\ executions' = [executions EXCEPT ![c] = @ + 1]
    /\ UNCHANGED <<approved, cmds, tenantStatus>>

\* The agent's event loop runs one execution at a time.
Execute(p) ==
    /\ At(p, "running")
    /\ LET h == p[1]
           c == polls[p].cmd
           t == cmds[c].tenant
       IN \E o \in Outcomes(cmds[c].type, cmds[c].payload, t \in vms[h]) :
             /\ polls' = [polls EXCEPT ![p] = Finished(polls[p], o.result)]
             /\ vms' = [vms EXCEPT ![h] = IF o.vm THEN @ \cup {t} ELSE @ \ {t}]
             /\ executions' = [executions EXCEPT ![c] = @ + 1]
    /\ UNCHANGED <<approved, cmds, tenantStatus>>

-----------------------------------------------------------------------------
(***************************************************************************)
(* Faults.  Nothing is undone: an abandoned command keeps its status.      *)
(***************************************************************************)

\* A request or a reply is lost: the agent's fetch rejects, the poll's catch
\* ends it, and a handler that has the request runs on for nobody.
LoseConnection(p) ==
    /\ "network" \in Faults
    /\ polls[p].live
    /\ \/ polls[p].pc \in SendingPc /\ Abandon(p)
       \/ /\ polls[p].pc \in SendingPc \cup HandlerPc
          /\ polls' = [polls EXCEPT ![p] = Orphaned(polls[p])]
    /\ UNCHANGED <<approved, cmds, tenantStatus, vms, executions>>

\* The agent process dies and systemd restarts it: polls and registry are gone.
AgentCrash(h) ==
    /\ "agent" \in Faults
    /\ polls' = [p \in Poll |->
                   IF p[1] # h \/ ~polls[p].live THEN polls[p]
                   ELSE IF polls[p].pc \in AgentPc THEN Idle
                   ELSE Orphaned(polls[p])]
    /\ vms' = [vms EXCEPT ![h] = {}]
    /\ UNCHANGED <<approved, cmds, tenantStatus, executions>>

\* The API process dies: its handlers stop where they are.
ApiCrash ==
    /\ "api" \in Faults
    /\ polls' = [p \in Poll |-> IF polls[p].pc \in HandlerPc THEN Idle ELSE polls[p]]
    /\ UNCHANGED <<approved, cmds, tenantStatus, vms, executions>>

-----------------------------------------------------------------------------
Init ==
    /\ approved \in [Hosts -> BOOLEAN]
    /\ ("approval" \notin Faults) => approved = [h \in Hosts |-> TRUE]
    /\ cmds = <<>>
    /\ polls = [p \in Poll |-> Idle]
    /\ tenantStatus \in [Tenants -> StartStatus]
    /\ vms = [h \in Hosts |-> {}]
    /\ executions = <<>>

PollStep(p) ==
    \/ StartPoll(p) \/ SelectOldest(p) \/ ClaimSelected(p)
    \/ AuthoriseReport(p) \/ RecordResult(p) \/ ReconcileTenant(p)
    \/ Execute(p)

Admin ==
    \/ \E h \in Hosts, t \in Tenants \cup {NoTenant},
          ty \in EnqueuedTypes, pl \in EnqueuedPayloads : CreateCommand(h, t, ty, pl)
    \/ \E c \in DOMAIN cmds : RetryCommand(c)
    \/ \E h \in Hosts : ApproveHost(h)

Fault ==
    \/ \E p \in Poll : LoseConnection(p)
    \/ \E h \in Hosts : AgentCrash(h)
    \/ ApiCrash

Next == Admin \/ Fault \/ \E p \in Poll : PollStep(p)

Spec == Init /\ [][Next]_vars

-----------------------------------------------------------------------------
(***************************************************************************)
(* Properties.                                                             *)
(***************************************************************************)

\* The rows, the polls and the registry are well formed, and every poll past
\* its select statement holds a row of its own host.
TypeOK ==
    /\ approved \in [Hosts -> BOOLEAN]
    /\ cmds \in Seq(CommandRow)
    /\ polls \in [Poll -> PollState]
    /\ tenantStatus \in [Tenants -> TenantStatus]
    /\ vms \in [Hosts -> SUBSET (Tenants \cup {NoTenant})]
    /\ executions \in Seq(Nat)
    /\ Len(executions) = Len(cmds)
    /\ \A p \in Poll : polls[p].pc \notin {"idle", "polling"} =>
          /\ polls[p].cmd \in DOMAIN cmds
          /\ cmds[polls[p].cmd].host = p[1]
    /\ \A p \in Poll : polls[p].pc \in {"executed", "reportResult", "reconcileResult"} =>
          polls[p].result \in Completed

\* "Claims the oldest queued command": whatever polls overlap, fail or are
\* cut short, no command leaves the queue before an older one of its host.
OldestFirst ==
    \A c, d \in DOMAIN cmds :
        c < d /\ cmds[c].host = cmds[d].host /\ cmds[d].status # "queued"
           => cmds[c].status # "queued"

\* The polls that have claimed command c and have yet to execute it.
Holders(c) ==
    {p \in Poll : polls[p].cmd = c
                  /\ polls[p].pc \in {"claimed", "reportRunning", "reconcileRunning", "running"}}

\* The polls that may still claim command c.
Selectors(c) == {p \in Poll : polls[p].cmd = c /\ At(p, "selected")}

\* attempts counts every execution: no command runs without a claim on record,
\* and none is reported finished that never ran.
ExecutionsClaimed ==
    \A c \in DOMAIN cmds :
        /\ executions[c] + Cardinality(Holders(c)) <= cmds[c].attempts
        /\ cmds[c].status \in Completed => executions[c] > 0

\* Nothing re-queues a claimed row, so a command is claimed at most once per
\* poll its agent may have open: exactly-once claiming needs polls not to overlap.
ClaimsBounded ==
    \A c \in DOMAIN cmds :
        cmds[c].attempts + Cardinality(Selectors(c)) <= Cardinality(Slots)

\* The status order of the queue: queued, claimed, running, then terminal.
Rank == [queued |-> 0, claimed |-> 1, running |-> 2, succeeded |-> 3, failed |-> 3, cancelled |-> 3]

\* A row only moves forward along that order, and a finished one not at all.
ForwardOnly ==
    [][\A c \in DOMAIN cmds :
          cmds'[c].status # cmds[c].status
             => Rank[cmds[c].status] < Rank[cmds'[c].status]]_cmds

\* The commands of tenant t whose last report moves the tenant's status.
Reported(t) ==
    {c \in DOMAIN cmds :
        /\ cmds[c].tenant = t
        /\ \/ /\ cmds[c].type \in {"start_tenant", "restart_tenant", "stop_tenant", "delete_tenant"}
              /\ cmds[c].status = "succeeded"
           \/ /\ cmds[c].type = "create_tenant"
              /\ cmds[c].status \in Completed \cup {"running"}}

\* No report is between its write of the row and its write of the tenant.
NoReportPending ==
    \A p \in Poll : polls[p].pc \notin {"reconcileRunning", "reconcileResult"}

\* Tenant status and command rows agree: once no report is half applied, a
\* tenant shows what the newest reported command of its host says of it.
TenantReflectsLastReport ==
    NoReportPending =>
        \A t \in Tenants : \A c \in Reported(t) :
            (\A d \in Reported(t) : d <= c) =>
                tenantStatus[t] = Reconciled(cmds[c].type, cmds[c].status, tenantStatus[t])

\* The commands executed on h that decide whether t's MicroVM runs.
Deciding(h, t) ==
    {c \in DOMAIN cmds :
        /\ cmds[c].host = h /\ cmds[c].tenant = t /\ executions[c] > 0
        /\ Installs(cmds[c].type, cmds[c].payload) \/ Removes(cmds[c].type, cmds[c].payload)}

\* The agent's registry agrees with the order of the queue, not only with the
\* order of execution: an agent that knows of t's MicroVM has executed no newer
\* command that removes it, across its restarts.
RegistryFollowsQueue ==
    \A h \in Hosts, t \in Tenants :
        t \in vms[h] =>
            \E c \in Deciding(h, t) :
                /\ \A d \in Deciding(h, t) : d <= c
                /\ Installs(cmds[c].type, cmds[c].payload)

\* The dispatching promised by FifoDispatch, seen through this module's rows.
Dispatch == INSTANCE FifoDispatch
              WITH log <- [c \in DOMAIN cmds |-> cmds[c].host],
                   waiting <- {c \in DOMAIN cmds : cmds[c].status = "queued"}

\* The queue implements FifoDispatch, with overlapping polls and every fault.
ImplementsFifo == Dispatch!Spec

-----------------------------------------------------------------------------
(***************************************************************************)
(* What the documentation and the comments say, and the code does not do.  *)
(***************************************************************************)

\* tenant-lifecycle.md:78: a create_tenant moves its tenant to failed when its
\* terminal result is failed, so never while none of them has failed.
FailedOnlyByFailure ==
    [][\A t \in Tenants :
          tenantStatus[t] # "failed" /\ tenantStatus'[t] = "failed" =>
             \E c \in DOMAIN cmds : /\ cmds[c].tenant = t
                                    /\ cmds[c].type = "create_tenant"
                                    /\ cmds[c].status = "failed"]_tenantStatus
=============================================================================
