---------------------------- MODULE ControlPlane ----------------------------
(***************************************************************************)
(* The control plane put together: the requests of TenantService append to *)
(* the table of commands that the polls of CommandQueue work on, and both  *)
(* write the status of the tenants.  One API process serves both; an agent *)
(* that dies for good is not noticed, since the scheduler reads            *)
(* hosts.status, which nobody updates then (lib/scheduler.ts).             *)
(***************************************************************************)
EXTENDS Schema, Sequences, FiniteSets

CONSTANTS Slots, FirstSlot,      \* the polls of an agent, and the one it always may have open
          NoHost, Requests, Resource, Sizes, Capacity, MaxRequests, Actions,
          Budget                 \* bound on the requests made, per use of the system

(***************************************************************************)
(* calm: admins act on a tenant at rest only, and not on a deleted one,    *)
(* and commands end before the next poll is due; hurry: admins do not wait *)
(* and repeat themselves; overlap: commands outlast the poll interval, and *)
(* nobody dies.                                                            *)
(***************************************************************************)
Uses == {"calm", "hurry", "overlap"}

ASSUME PlaneAssumption ==
    /\ FirstSlot \in Slots
    /\ Budget \in [Uses -> 0 .. MaxRequests]

VARIABLES
    cmds, status,                                   \* shared by both components
    approved, polls, vms, executions,               \* CommandQueue's own
    assigned, limits, avail, schedulable,
    backups, reqs, made, crashed, forgotten,        \* TenantService's own
    silent,                                         \* the hosts whose agent has died for good
    use                                             \* how the system is used, one of Uses

queueVars == <<approved, polls, vms, executions>>
serviceVars == <<assigned, limits, avail, schedulable, backups, reqs, made, crashed, forgotten>>
ownVars == <<silent, use>>

vars == <<cmds, status, queueVars, serviceVars, ownVars>>

Queue == INSTANCE CommandQueue
           WITH tenantStatus <- status, MaxCommands <- MaxRequests,
                EnqueuedTypes <- {}, EnqueuedPayloads <- {}, StartStatus <- {},
                MockMode <- FALSE, Faults <- {"agent", "api"}

Service == INSTANCE TenantService
             WITH Allowed <- {"crash", "repeat", "hurry"}

ASSUME ComponentsAssumption ==
    /\ NoHost \notin Hosts
    /\ Sizes \subseteq [Resource -> Nat]
    /\ Actions \subseteq Service!TenantAction

-----------------------------------------------------------------------------
\* Nothing that may still change t's status or MicroVM is under way.
AtRest(t) ==
    /\ \A r \in Requests : reqs[r].tenant # t
    /\ \A c \in Service!CommandsFor(t) : cmds[c].status \in Completed
    /\ \A p \in Queue!Poll :
          polls[p].pc \notin {"idle", "polling"} => cmds[polls[p].cmd].tenant # t

\* An executions counter for every row, the new ones included.
Counted ==
    executions' = [c \in DOMAIN cmds' |-> IF c \in DOMAIN executions THEN executions[c] ELSE 0]

\* POST /api/tenants and POST /api/tenants/:id/actions, up to their first read.
BeginRequest(r) ==
    /\ Service!BeginRequest(r)
    /\ made < Budget[use]
    /\ use = "calm" => LET t == reqs'[r].tenant IN AtRest(t) /\ status[t] # "deleted"
    /\ UNCHANGED <<queueVars, ownVars>>

\* The next statement of a request; an enqueued row can be polled for at once.
RequestStep(r) ==
    /\ Service!RequestStep(r)
    /\ Counted
    /\ UNCHANGED <<approved, polls, vms, ownVars>>

\* An agent polls while it lives, and before it has ended a poll only if it is slow.
MayPoll(p) == p[1] \notin silent /\ (p[2] = FirstSlot \/ use = "overlap")

\* The next step of a poll: the agent's, or that of the handler it waits for.
PollStep(p) ==
    /\ Queue!PollStep(p)
    /\ Queue!At(p, "idle") => MayPoll(p)
    /\ UNCHANGED <<serviceVars, ownVars>>

\* The agent process ends and is not restarted.
FallSilent(h) ==
    /\ use # "overlap"
    /\ h \notin silent
    /\ Queue!AgentCrash(h)
    /\ silent' = silent \cup {h}
    /\ UNCHANGED <<serviceVars, use>>

\* The API process dies with the requests and the handlers it serves.
ApiCrash ==
    /\ use # "overlap"
    /\ Service!ApiCrash
    /\ Queue!ApiCrash
    /\ UNCHANGED ownVars

Init ==
    /\ Service!Init
    /\ approved = [h \in Hosts |-> TRUE]
    /\ polls = [p \in Queue!Poll |-> Queue!Idle]
    /\ vms = [h \in Hosts |-> {}]
    /\ executions = <<>>
    /\ silent = {}
    /\ use \in Uses

Next ==
    \/ \E r \in Requests : BeginRequest(r) \/ RequestStep(r)
    \/ \E p \in Queue!Poll : PollStep(p)
    \/ \E h \in Hosts : FallSilent(h)
    \/ ApiCrash

Spec == Init /\ [][Next]_vars

(***************************************************************************)
(* The poll timer keeps ticking while the process lives (setInterval), the *)
(* promise chain of a poll runs on when its await settles, and a handler   *)
(* that has a request runs to its end: each poll and each request is       *)
(* weakly fair.  Admins and deaths are not.                                *)
(***************************************************************************)
FairSpec ==
    /\ Spec
    /\ \A r \in Requests : WF_vars(RequestStep(r))
    /\ \A p \in Queue!Poll : WF_vars(PollStep(p))

-----------------------------------------------------------------------------
(***************************************************************************)
(* Properties.                                                             *)
(***************************************************************************)

\* An agent knows of the MicroVM of a tenant at rest only if the control plane
\* says active of it, and on that host: no stop, suspend or delete is overtaken,
\* though its status is written before its command runs and again after.  After a
\* crash of the API a tenant may keep a MicroVM it was shown to have failed with.
MachinesMatchStatus ==
    use # "overlap" =>
        \A h \in Hosts : \A t \in vms[h] :
            AtRest(t) =>
                /\ assigned[t] = h
                /\ status[t] \in {"active"} \cup (IF crashed THEN {"failed"} ELSE {})

\* Every command that is enqueued is some day finished for good, with polls that
\* overlap too, unless the API dies or the agent of its host does.
Settles ==
    \A c \in 1 .. MaxRequests :
        (c \in DOMAIN cmds) ~>
            [](\/ c \in DOMAIN cmds /\ cmds[c].status \in Completed
               \/ crashed
               \/ c \in DOMAIN cmds /\ cmds[c].host \in silent)

\* The creation of a tenant ends, from its row to the last report: without a host,
\* or with a finished create_tenant and a status that says so.  Only a dead API
\* process strands it, or a dead agent, whose host the scheduler goes on to choose.
CreationEnds ==
    \A t \in Tenants :
        status[t] \in {"pending", "provisioning"} ~>
            \/ crashed
            \/ assigned[t] \in silent
            \/ /\ status[t] \notin {"pending", "provisioning"}
               /\ \A c \in Service!CommandsFor(t) :
                     cmds[c].type = "create_tenant" => cmds[c].status \in Completed

\* While its create_tenant is in progress, a tenant is shown as failed already;
\* it counts as provisioning until the result is reconciled.
BeingCreated(t) ==
    \/ \E c \in Service!CommandsFor(t) :
          cmds[c].type = "create_tenant" /\ cmds[c].status = "running"
    \/ \E p \in Queue!Poll :
          /\ Queue!At(p, "reconcileResult")
          /\ cmds[polls[p].cmd].tenant = t
          /\ cmds[polls[p].cmd].type = "create_tenant"

Life(t) == IF status[t] = "failed" /\ BeingCreated(t) THEN "provisioning" ELSE status[t]

\* What TenantLifecycle promises is promised to calm use only.
Lifecycle == INSTANCE TenantLifecycle
               WITH life <- [t \in Tenants |-> IF use = "calm" THEN Life(t) ELSE "absent"]

\* Requests, polls and reports together implement the life of a tenant, with
\* agents that die and an API that does: deleted is final, only creations fail.
ImplementsLifecycle == Lifecycle!Spec
=============================================================================
