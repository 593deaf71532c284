------------------------- MODULE ControlPlaneProofs -------------------------
(***************************************************************************)
(* Proofs about ControlPlane, for any hosts, tenants, requests, slots and  *)
(* budgets: the two invariants of the whole system, of every use without   *)
(* overlapping polls and of calm use, the registries of the agents, and    *)
(* the refinement of TenantLifecycle.                                      *)
(***************************************************************************)
EXTENDS ControlPlane, SequenceTheorems, TLAPS

-----------------------------------------------------------------------------
(***************************************************************************)
(* Requests, tables, commands and agents are well formed, and what a step  *)
(* does to them.                                                           *)
(***************************************************************************)

CreatePc == {"insert", "select", "giveUp", "provision", "assign", "reserve", "enqueue"}
ActionPc == {"command", "backup", "status", "release"}

\* The tables, the requests, the polls and the registries, each well formed.
RequestsOK ==
    /\ reqs \in [Requests -> Service!Request]
    /\ \A r \in Requests : reqs[r].pc # "idle" => reqs[r].tenant \in Tenants

TablesOK ==
    /\ status \in [Tenants -> TenantStatus \cup {"absent"}]
    /\ assigned \in [Tenants -> Hosts \cup {NoHost}]
    /\ limits \in [Tenants -> Service!Size]

CommandsOK ==
    /\ cmds \in Seq(CommandRow)
    /\ \A c \in DOMAIN cmds : cmds[c].tenant \in Tenants
    /\ executions \in Seq(Nat)
    /\ DOMAIN executions = DOMAIN cmds

AgentsOK ==
    /\ approved = [h \in Hosts |-> TRUE]
    /\ polls \in [Queue!Poll -> Queue!PollState]
    /\ vms \in [Hosts -> SUBSET Tenants]

WellTyped == RequestsOK /\ TablesOK /\ CommandsOK /\ AgentsOK

-----------------------------------------------------------------------------
(***************************************************************************)
(* What a step does to the requests.                                       *)
(***************************************************************************)

\* The other requests stay.
OthersStay(r) == \A o \in Requests : o # r => reqs'[o] = reqs[o]

\* r goes on at pc with its tenant, its host and its action.
Advances(r, pc) ==
    /\ OthersStay(r)
    /\ reqs'[r].pc = pc /\ reqs'[r].tenant = reqs[r].tenant
    /\ reqs'[r].host = reqs[r].host /\ reqs'[r].action = reqs[r].action

\* r is done and holds no tenant.
Ends(r) == OthersStay(r) /\ reqs'[r].pc = "idle" /\ reqs'[r].tenant = NoTenant

\* An idle request is well formed and holds no tenant.
LEMMA IdleRequest ==
  Service!Idle \in Service!Request /\ Service!Idle.pc = "idle" /\ Service!Idle.tenant = NoTenant
  BY SMT DEF Service!Idle, Service!Request, Service!CreatePc, Service!ActionPc,
             Service!NoSize, Service!Size

\* Goto moves one request on.
LEMMA GotoAdvances ==
  ASSUME RequestsOK, NEW r \in Requests, NEW pc \in CreatePc \cup ActionPc,
         reqs[r].pc # "idle", Service!Goto(r, pc)
  PROVE  RequestsOK' /\ Advances(r, pc)
<1> DEFINE q == [reqs[r] EXCEPT !.pc = pc]
<1>1. reqs[r] \in Service!Request
  BY DEF RequestsOK
<1>2. /\ q \in Service!Request
      /\ q.pc = pc /\ q.tenant = reqs[r].tenant /\ q.host = reqs[r].host
      /\ q.action = reqs[r].action
  BY <1>1 DEF Service!Request, Service!CreatePc, Service!ActionPc, CreatePc, ActionPc
<1>3. reqs' = [reqs EXCEPT ![r] = q]
  BY DEF Service!Goto
<1> HIDE DEF q
<1>4. reqs'[r] = q /\ OthersStay(r) /\ reqs' \in [Requests -> Service!Request]
  BY <1>2, <1>3 DEF RequestsOK, OthersStay
<1>5. RequestsOK'
  BY <1>2, <1>4 DEF RequestsOK, OthersStay
<1> QED  BY <1>2, <1>4, <1>5 DEF Advances

\* Done ends it.
LEMMA DoneEnds ==
  ASSUME RequestsOK, NEW r \in Requests, Service!Done(r)
  PROVE  RequestsOK' /\ Ends(r)
<1>1. reqs' = [reqs EXCEPT ![r] = Service!Idle]
  BY DEF Service!Done
<1>2. reqs'[r] = Service!Idle /\ OthersStay(r) /\ reqs' \in [Requests -> Service!Request]
  BY <1>1, IdleRequest DEF RequestsOK, OthersStay
<1>3. RequestsOK'
  BY <1>2, IdleRequest DEF RequestsOK, OthersStay
<1> QED  BY <1>2, <1>3, IdleRequest DEF Ends

\* A selection gives the request its host.
LEMMA SelectionAdvances ==
  ASSUME RequestsOK, NEW r \in Requests, NEW h \in Hosts, reqs[r].pc # "idle",
         reqs' = [reqs EXCEPT ![r].pc = "provision", ![r].host = h]
  PROVE  /\ RequestsOK' /\ OthersStay(r)
         /\ reqs'[r].pc = "provision" /\ reqs'[r].tenant = reqs[r].tenant
<1> DEFINE p == [reqs[r] EXCEPT !.pc = "provision"]
           q == [p EXCEPT !.host = h]
<1>1. reqs[r] \in Service!Request
  BY DEF RequestsOK
<1>2. p \in Service!Request /\ p.pc = "provision" /\ p.tenant = reqs[r].tenant
  BY <1>1 DEF Service!Request, Service!CreatePc
<1>3. reqs' = [reqs EXCEPT ![r] = q]
  BY DEF RequestsOK
<1> HIDE DEF p
<1>4. q \in Service!Request /\ q.pc = "provision" /\ q.tenant = reqs[r].tenant
  BY <1>2 DEF Service!Request
<1> HIDE DEF q
<1>5. reqs'[r] = q /\ OthersStay(r) /\ reqs' \in [Requests -> Service!Request]
  BY <1>3, <1>4 DEF RequestsOK, OthersStay
<1>6. RequestsOK'
  BY <1>4, <1>5 DEF RequestsOK, OthersStay
<1> QED  BY <1>4, <1>5, <1>6

-----------------------------------------------------------------------------
(***************************************************************************)
(* What a step does to the rows of the queue.                              *)
(***************************************************************************)

\* The rows stay.
SameRows == cmds' = cmds /\ executions' = executions

\* A queued row joins them, behind all others.
Joined(n, h, t, ty, pl) ==
    /\ n \in Nat /\ (\A c \in DOMAIN cmds : c < n)
    /\ DOMAIN cmds' = DOMAIN cmds \cup {n}
    /\ \A c \in DOMAIN cmds : cmds'[c] = cmds[c] /\ executions'[c] = executions[c]
    /\ cmds'[n].host = h /\ cmds'[n].tenant = t /\ cmds'[n].type = ty
    /\ cmds'[n].payload = pl /\ cmds'[n].status = "queued"
    /\ executions'[n] = 0

\* What a command is, as opposed to how far it is.
SameCommand(c) ==
    /\ cmds'[c].host = cmds[c].host /\ cmds'[c].tenant = cmds[c].tenant
    /\ cmds'[c].type = cmds[c].type /\ cmds'[c].payload = cmds[c].payload

\* The status of row c becomes s.
Written(c, s) ==
    /\ DOMAIN cmds' = DOMAIN cmds
    /\ \A d \in DOMAIN cmds : d # c => cmds'[d] = cmds[d]
    /\ SameCommand(c) /\ cmds'[c].status = s

\* Where no row joins, the counters stay.
LEMMA CountersStay ==
  ASSUME CommandsOK, cmds' = cmds, Counted
  PROVE  CommandsOK' /\ SameRows
<1>1. executions' = executions
  <2>1. executions' = [c \in DOMAIN cmds |-> executions[c]]
    BY DEF CommandsOK, Counted
  <2>2. executions = [c \in DOMAIN executions |-> executions[c]]
    BY DEF CommandsOK
  <2> QED  BY <2>1, <2>2 DEF CommandsOK
<1> QED  BY <1>1 DEF SameRows, CommandsOK

\* An enqueued row joins the others, and has not run.
LEMMA EnqueueJoins ==
  ASSUME CommandsOK, NEW h \in Hosts, NEW t \in Tenants, NEW ty \in CommandType,
         NEW pl \in Payload, cmds' = Append(cmds, QueuedRow(h, t, ty, pl)), Counted
  PROVE  CommandsOK' /\ \E n : Joined(n, h, t, ty, pl)
<1> DEFINE row == QueuedRow(h, t, ty, pl)
           n == Len(cmds) + 1
<1>1. /\ row \in CommandRow /\ row.tenant = t /\ row.host = h /\ row.type = ty
      /\ row.payload = pl /\ row.status = "queued"
  BY SMT DEF QueuedRow, CommandRow, CommandStatus
<1> HIDE DEF row
<1>2. cmds \in Seq(CommandRow) /\ cmds' = Append(cmds, row)
  BY DEF CommandsOK, row
<1>3. /\ cmds' \in Seq(CommandRow) /\ Len(cmds') = n
      /\ \A i \in 1 .. Len(cmds) : cmds'[i] = cmds[i]
      /\ cmds'[n] = row
  BY <1>1, <1>2, AppendProperties
<1>4. DOMAIN cmds = 1 .. Len(cmds) /\ DOMAIN cmds' = 1 .. n /\ Len(cmds) \in Nat
  BY <1>2, <1>3, LenProperties
<1>5. /\ n \in Nat /\ n \notin DOMAIN cmds /\ (\A c \in DOMAIN cmds : c < n)
      /\ DOMAIN cmds' = DOMAIN cmds \cup {n}
      /\ \A i \in DOMAIN cmds : cmds'[i] = cmds[i]
  BY <1>3, <1>4
<1>6. executions' = [c \in 1 .. n |-> IF c \in DOMAIN executions THEN executions[c] ELSE 0]
  BY <1>4 DEF Counted
<1>7. \A c \in DOMAIN executions : executions[c] \in Nat
  BY DEF CommandsOK
<1>8. /\ executions' \in Seq(Nat) /\ DOMAIN executions' = DOMAIN cmds'
      /\ \A c \in DOMAIN cmds : executions'[c] = executions[c]
      /\ executions'[n] = 0
  <2>1. \A c \in 1 .. n : executions'[c] \in Nat
    BY <1>6, <1>7
  <2>2. executions' \in [1 .. n -> Nat]
    BY <1>6, <2>1
  <2>3. n \in Nat
    BY <1>5
  <2> HIDE DEF n
  <2>4. executions' \in Seq(Nat)
    BY <2>2, <2>3, IsASeq
  <2> QED  BY <1>4, <1>5, <1>6, <2>4 DEF CommandsOK
<1> HIDE DEF n
<1>9. Joined(n, h, t, ty, pl)
  BY <1>1, <1>3, <1>5, <1>8 DEF Joined
<1>10. CommandsOK'
  BY <1>1, <1>3, <1>5, <1>8 DEF CommandsOK
<1> QED  BY <1>9, <1>10

\* A row that is replaced keeps its place, and its command.
LEMMA ReplaceWrites ==
  ASSUME CommandsOK, NEW c \in DOMAIN cmds, NEW row \in CommandRow,
         row.host = cmds[c].host, row.tenant = cmds[c].tenant, row.type = cmds[c].type,
         row.payload = cmds[c].payload, cmds' = [cmds EXCEPT ![c] = row],
         executions' = executions
  PROVE  CommandsOK' /\ Written(c, row.status)
<1>1. cmds \in Seq(CommandRow)
  BY DEF CommandsOK
<1>2. cmds' \in Seq(CommandRow)
  BY <1>1
<1>3. /\ DOMAIN cmds' = DOMAIN cmds /\ cmds'[c] = row
      /\ \A d \in DOMAIN cmds : d # c => cmds'[d] = cmds[d]
  BY <1>1
<1>4. Written(c, row.status)
  BY <1>3 DEF Written, SameCommand
<1>5. CommandsOK'
  BY <1>2, <1>3 DEF CommandsOK
<1> QED  BY <1>4, <1>5

-----------------------------------------------------------------------------
(***************************************************************************)
(* A tenant's requests, its commands and its row agree with each other.    *)
(***************************************************************************)

\* The commands that end a MicroVM, and the one that creates it.
Removal(c) == cmds[c].type \in {"stop_tenant", "restart_tenant", "delete_tenant"}
Creation(c) == cmds[c].type = "create_tenant"
HasRemoval(t) == \E c \in Service!CommandsFor(t) : Removal(c)

Halting == {"stop", "suspend", "restart", "delete"}
NoHostYet == {"insert", "select", "giveUp", "provision", "assign"}
Placed == {"reserve", "enqueue"}
EnqueuedPc == {"backup", "status", "release"}

\* What the request q says of its tenant t.
Serves(q, t) ==
    /\ q.pc \in CreatePc \cup ActionPc
    /\ q.pc \in CreatePc => Service!CommandsFor(t) = {}
    /\ q.pc \in NoHostYet => assigned[t] = NoHost
    /\ q.pc \in Placed => assigned[t] = q.host /\ q.host # NoHost
    /\ q.pc \in (CreatePc \ {"insert"}) \cup ActionPc => status[t] # "absent"
    /\ q.pc \in ActionPc => q.host = assigned[t] /\ q.action \in Service!TenantAction
    /\ q.pc \in {"provision", "assign", "command"} => q.host # NoHost
    /\ q.pc \in EnqueuedPc /\ assigned[t] # NoHost /\ q.action \in Halting => HasRemoval(t)

\* Where t's commands go, and what they carry; none is older than its creation.
Follows(t) ==
    \A c \in Service!CommandsFor(t) :
        /\ cmds[c].host = assigned[t] /\ assigned[t] # NoHost
        /\ cmds[c].payload = IF Creation(c) THEN "full" ELSE "slug"
        /\ \A d \in Service!CommandsFor(t) : Creation(d) => d <= c

\* What t's row says.
Row(t) ==
    /\ status[t] = "absent" => assigned[t] = NoHost
    /\ status[t] \in {"suspended", "deleted"} /\ assigned[t] # NoHost => HasRemoval(t)

\* Requests of t, its commands and its row agree.
Agrees(t) ==
    /\ \A r, o \in Requests : reqs[r].tenant = t /\ reqs[o].tenant = t => r = o
    /\ \A r \in Requests : reqs[r].tenant = t => Serves(reqs[r], t)
    /\ Follows(t)
    /\ Row(t)

-----------------------------------------------------------------------------
\* No row joins, and none changes its command.
SameCommands ==
    /\ DOMAIN cmds' = DOMAIN cmds
    /\ \A c \in DOMAIN cmds : SameCommand(c)

\* What rows that keep their commands keep of a tenant.
LEMMA SameCommandsSay ==
  ASSUME SameCommands
  PROVE  /\ \A t : Service!CommandsFor(t)' = Service!CommandsFor(t)
         /\ \A c \in DOMAIN cmds : /\ Creation(c)' <=> Creation(c)
                                   /\ Removal(c)' <=> Removal(c)
         /\ \A t : HasRemoval(t)' <=> HasRemoval(t)
<1>1. \A t : Service!CommandsFor(t)' = Service!CommandsFor(t)
  BY DEF SameCommands, SameCommand, Service!CommandsFor
<1>2. \A c \in DOMAIN cmds : (Creation(c)' <=> Creation(c)) /\ (Removal(c)' <=> Removal(c))
  BY DEF SameCommands, SameCommand, Creation, Removal
<1>3. \A t : HasRemoval(t)' <=> HasRemoval(t)
  BY <1>1, <1>2 DEF HasRemoval, Service!CommandsFor
<1> QED  BY <1>1, <1>2, <1>3

\* A request of t that moves on while no row joins leaves an agreement behind.
LEMMA StayingAgrees ==
  ASSUME NEW t \in Tenants, Agrees(t), SameCommands,
         \A r, o \in Requests : reqs'[r].tenant = t /\ reqs'[o].tenant = t => r = o,
         \A r \in Requests : reqs'[r].tenant = t => Serves(reqs[r], t)',
         Service!CommandsFor(t) # {} => assigned'[t] = assigned[t],
         Row(t)'
  PROVE  Agrees(t)'
<1>1. Follows(t)'
  <2>1. \A c \in Service!CommandsFor(t) :
           /\ cmds'[c].host = assigned'[t] /\ assigned'[t] # NoHost
           /\ cmds'[c].payload = IF Creation(c) THEN "full" ELSE "slug"
           /\ \A d \in Service!CommandsFor(t) : Creation(d) => d <= c
    BY DEF Agrees, Follows, SameCommands, SameCommand, Service!CommandsFor
  <2>2. \A c \in Service!CommandsFor(t) : c \in DOMAIN cmds
    BY DEF Service!CommandsFor
  <2> QED  BY <2>1, <2>2, SameCommandsSay DEF Follows
<1> QED  BY <1>1 DEF Agrees

\* A row that joins for t is its newest; t's other rows stay.
LEMMA JoinedSay ==
  ASSUME CommandsOK, NEW n, NEW h, NEW t, NEW ty, NEW pl, Joined(n, h, t, ty, pl)
  PROVE  /\ Service!CommandsFor(t)' = Service!CommandsFor(t) \cup {n}
         /\ \A u : u # t => Service!CommandsFor(u)' = Service!CommandsFor(u)
         /\ \A c \in DOMAIN cmds : /\ Creation(c)' <=> Creation(c)
                                   /\ Removal(c)' <=> Removal(c)
         /\ \A u : HasRemoval(u) => HasRemoval(u)'
         /\ n \notin DOMAIN cmds
         /\ Creation(n)' <=> ty = "create_tenant"
         /\ Removal(n)' <=> ty \in {"stop_tenant", "restart_tenant", "delete_tenant"}
<1>1. n \notin DOMAIN cmds
  BY DEF Joined
<1>2. Service!CommandsFor(t)' = Service!CommandsFor(t) \cup {n}
  BY <1>1 DEF Joined, Service!CommandsFor
<1>3. \A u : u # t => Service!CommandsFor(u)' = Service!CommandsFor(u)
  BY <1>1 DEF Joined, Service!CommandsFor
<1>4. \A c \in DOMAIN cmds : (Creation(c)' <=> Creation(c)) /\ (Removal(c)' <=> Removal(c))
  BY DEF Joined, Creation, Removal
<1>5. \A u : HasRemoval(u) => HasRemoval(u)'
  <2>1. \A u : \A c \in Service!CommandsFor(u) : c \in DOMAIN cmds /\ c \in Service!CommandsFor(u)'
    BY <1>2, <1>3 DEF Service!CommandsFor
  <2> QED  BY <1>4, <2>1 DEF HasRemoval
<1>6. /\ Creation(n)' <=> ty = "create_tenant"
      /\ Removal(n)' <=> ty \in {"stop_tenant", "restart_tenant", "delete_tenant"}
  BY DEF Joined, Creation, Removal
<1> QED  BY <1>1, <1>2, <1>3, <1>4, <1>5, <1>6

\* A request of t may enqueue a row for t's host, after which its tenant still agrees.
LEMMA EnqueuingAgrees ==
  ASSUME CommandsOK, NEW t \in Tenants, NEW n, NEW h, NEW ty, NEW pl,
         Agrees(t), Joined(n, h, t, ty, pl),
         h = assigned[t], h # NoHost, assigned'[t] = assigned[t], status'[t] = status[t],
         pl = (IF ty = "create_tenant" THEN "full" ELSE "slug"),
         ty = "create_tenant" => Service!CommandsFor(t) = {},
         \A r \in Requests : reqs'[r].tenant = t => reqs[r].tenant = t /\ Serves(reqs[r], t)'
  PROVE  Agrees(t)'
<1>1. Follows(t)'
  <2> SUFFICES ASSUME NEW c \in Service!CommandsFor(t)'
               PROVE  /\ cmds'[c].host = assigned'[t] /\ assigned'[t] # NoHost
                      /\ cmds'[c].payload = IF Creation(c)' THEN "full" ELSE "slug"
                      /\ \A d \in Service!CommandsFor(t)' : Creation(d)' => d <= c
    BY DEF Follows
  <2>1. \A d \in Service!CommandsFor(t) : d \in DOMAIN cmds /\ d < n /\ d \in Nat
    BY DEF Joined, CommandsOK, Service!CommandsFor
  <2>2. n \in Nat
    BY DEF Joined
  <2>3. CASE c = n
    <3>1. /\ cmds'[c].host = h /\ cmds'[c].payload = pl
          /\ Creation(c)' <=> ty = "create_tenant"
      BY <2>3, JoinedSay DEF Joined
    <3>2. Service!CommandsFor(t)' = Service!CommandsFor(t) \cup {n}
      BY JoinedSay
    <3>3. \A d \in Service!CommandsFor(t)' : d <= c
      BY <2>1, <2>2, <2>3, <3>2
    <3> QED  BY <3>1, <3>3
  <2>4. CASE c \in Service!CommandsFor(t)
    <3>1. ty # "create_tenant"
      BY <2>4
    <3>2. cmds'[c] = cmds[c] /\ c \in DOMAIN cmds
      BY <2>1, <2>4 DEF Joined
    <3>3. /\ cmds[c].host = assigned[t]
          /\ cmds[c].payload = IF Creation(c) THEN "full" ELSE "slug"
          /\ \A d \in Service!CommandsFor(t) : Creation(d) => d <= c
      BY <2>4 DEF Agrees, Follows
    <3> QED  BY <2>1, <3>1, <3>2, <3>3, JoinedSay
  <2> QED  BY <2>3, <2>4, JoinedSay
<1>2. Row(t)'
  BY JoinedSay DEF Agrees, Row
<1> QED  BY <1>1, <1>2 DEF Agrees

-----------------------------------------------------------------------------
(***************************************************************************)
(* The steps of the requests keep that agreement.                          *)
(***************************************************************************)

AllAgree == \A t \in Tenants : Agrees(t)

\* A request's step as the queue sees it: no row joins, or one does.
Grown == SameRows \/ \E n, h, t, ty, pl : Joined(n, h, t, ty, pl)

\* The status of a tenant with commands stays, or a command is behind it.
Mild(t) ==
    Service!CommandsFor(t) # {} =>
        status'[t] = status[t] \/ status'[t] \in {"active", "suspended", "deleted"}

\* What every step of a request keeps and does.
Stepped ==
    /\ RequestsOK' /\ TablesOK' /\ CommandsOK'
    /\ AllAgree'
    /\ Grown
    /\ \A t \in Tenants : Mild(t)

\* A tenant that a step does not touch still agrees.
LEMMA UntouchedAgrees ==
  ASSUME CommandsOK, NEW r \in Requests, NEW t, NEW u \in Tenants, u # t, Agrees(u),
         OthersStay(r), reqs'[r].tenant # u,
         status'[u] = status[u], assigned'[u] = assigned[u],
         SameRows \/ \E n, h, ty, pl : Joined(n, h, t, ty, pl)
  PROVE  Agrees(u)'
<1>1. /\ Service!CommandsFor(u)' = Service!CommandsFor(u)
      /\ HasRemoval(u) => HasRemoval(u)'
      /\ \A c \in Service!CommandsFor(u) : cmds'[c] = cmds[c] /\ (Creation(c)' <=> Creation(c))
  <2>1. CASE SameRows
    BY <2>1 DEF SameRows, Service!CommandsFor, HasRemoval, Creation, Removal
  <2>2. CASE \E n, h, ty, pl : Joined(n, h, t, ty, pl)
    <3>1. PICK n, h, ty, pl : Joined(n, h, t, ty, pl)
      BY <2>2
    <3>2. \A c \in Service!CommandsFor(u) : c \in DOMAIN cmds
      BY DEF Service!CommandsFor
    <3>3. \A c \in DOMAIN cmds : cmds'[c] = cmds[c]
      BY <3>1 DEF Joined
    <3> QED  BY <3>1, <3>2, <3>3, JoinedSay
  <2> QED  BY <2>1, <2>2
<1>2. \A o \in Requests : reqs'[o].tenant = u => reqs'[o] = reqs[o]
  BY DEF OthersStay
<1>3. \A o \in Requests : reqs'[o].tenant = u => Serves(reqs[o], u)'
  <2> SUFFICES ASSUME NEW o \in Requests, reqs'[o].tenant = u PROVE Serves(reqs[o], u)'
    OBVIOUS
  <2>1. reqs'[o] = reqs[o] /\ Serves(reqs[o], u)
    BY <1>2 DEF Agrees
  <2> QED  BY <1>1, <2>1 DEF Serves
<1>4. Follows(u)'
  BY <1>1 DEF Agrees, Follows
<1>5. Row(u)'
  BY <1>1 DEF Agrees, Row
<1>6. \A q, o \in Requests : reqs'[q].tenant = u /\ reqs'[o].tenant = u => q = o
  BY <1>2 DEF Agrees
<1> QED  BY <1>3, <1>4, <1>5, <1>6 DEF Agrees

\* A request's step that enqueues nothing.
LEMMA QuietStep ==
  ASSUME WellTyped, AllAgree, NEW r \in Requests, NEW t \in Tenants,
         \A o \in Requests : o # r => reqs[o].tenant # t,
         RequestsOK', OthersStay(r), reqs'[r].tenant \in {t, NoTenant},
         cmds' = cmds, Counted, TablesOK',
         \A u \in Tenants : u # t => status'[u] = status[u] /\ assigned'[u] = assigned[u],
         reqs'[r].tenant = t => Serves(reqs[r], t)',
         Service!CommandsFor(t) # {} => assigned'[t] = assigned[t],
         Row(t)', Mild(t)
  PROVE  Stepped
<1>1. CommandsOK' /\ SameRows
  BY CountersStay DEF WellTyped
<1>2. SameCommands
  BY <1>1 DEF SameRows, SameCommands, SameCommand
<1>3. \A o \in Requests : reqs'[o].tenant = t => o = r
  BY DEF OthersStay
<1>4. Agrees(t)'
  BY <1>2, <1>3, StayingAgrees DEF AllAgree
<1>5. \A u \in Tenants : u # t => Agrees(u)'
  <2> SUFFICES ASSUME NEW u \in Tenants, u # t PROVE Agrees(u)'
    OBVIOUS
  <2>1. reqs'[r].tenant # u
    BY NoTenantAssumption
  <2> QED  BY <1>1, <2>1, UntouchedAgrees DEF AllAgree, WellTyped
<1>6. \A u \in Tenants : Mild(u)
  BY DEF Mild
<1>7. AllAgree'
  BY <1>4, <1>5 DEF AllAgree
<1> QED  BY <1>1, <1>6, <1>7 DEF Stepped, Grown

\* A request's step that enqueues a row.
LEMMA LoudStep ==
  ASSUME WellTyped, AllAgree, NEW r \in Requests, NEW t \in Tenants, NEW h \in Hosts,
         NEW ty \in CommandType,
         \A o \in Requests : o # r => reqs[o].tenant # t, reqs[r].tenant = t,
         RequestsOK', OthersStay(r), reqs'[r].tenant \in {t, NoTenant},
         cmds' = Append(cmds, QueuedRow(h, t, ty, IF ty = "create_tenant" THEN "full" ELSE "slug")),
         Counted, TablesOK', status' = status, assigned' = assigned, h = assigned[t],
         ty = "create_tenant" => Service!CommandsFor(t) = {},
         \A n, pl : Joined(n, h, t, ty, pl) /\ reqs'[r].tenant = t => Serves(reqs[r], t)'
  PROVE  Stepped
<1> DEFINE pl == IF ty = "create_tenant" THEN "full" ELSE "slug"
<1>1. pl \in Payload
  BY DEF Payload
<1> HIDE DEF pl
<1>2. CommandsOK' /\ \E n : Joined(n, h, t, ty, pl)
  BY <1>1, EnqueueJoins DEF WellTyped, pl
<1>3. PICK n : Joined(n, h, t, ty, pl)
  BY <1>2
<1>4. \A o \in Requests : reqs'[o].tenant = t => o = r
  BY DEF OthersStay
<1>5. h # NoHost
  BY ComponentsAssumption
<1>6. Agrees(t)'
  <2>1. \A o \in Requests : reqs'[o].tenant = t => reqs[o].tenant = t /\ Serves(reqs[o], t)'
    BY <1>3, <1>4
  <2> QED  BY <1>3, <1>5, <2>1, EnqueuingAgrees DEF AllAgree, WellTyped, pl
<1>7. \A u \in Tenants : u # t => Agrees(u)'
  <2> SUFFICES ASSUME NEW u \in Tenants, u # t PROVE Agrees(u)'
    OBVIOUS
  <2>1. reqs'[r].tenant # u
    BY NoTenantAssumption
  <2> QED  BY <1>3, <2>1, UntouchedAgrees DEF AllAgree, WellTyped
<1>8. \A u \in Tenants : Mild(u)
  BY DEF Mild
<1>9. AllAgree'
  BY <1>6, <1>7 DEF AllAgree
<1> QED  BY <1>2, <1>3, <1>8, <1>9 DEF Stepped, Grown

\* A request in progress serves a tenant no other request does.
LEMMA ActiveRequest ==
  ASSUME WellTyped, AllAgree, NEW r \in Requests, reqs[r].pc # "idle",
         NEW t, t = reqs[r].tenant
  PROVE  /\ t \in Tenants /\ Serves(reqs[r], t) /\ Follows(t) /\ Row(t)
         /\ \A o \in Requests : o # r => reqs[o].tenant # t
         /\ reqs[r] \in Service!Request
  BY DEF WellTyped, RequestsOK, AllAgree, Agrees

\* An idle request serves none.
LEMMA IdleServesNone ==
  ASSUME AllAgree, NEW r \in Requests, reqs[r].pc = "idle"
  PROVE  reqs[r].tenant \notin Tenants
  BY DEF AllAgree, Agrees, Serves, CreatePc, ActionPc

\* A request that begins, with its tenant at hand.
LEMMA BeginStep ==
  ASSUME WellTyped, AllAgree, NEW r \in Requests, NEW t \in Tenants, NEW q \in Service!Request,
         Service!Begin(r, q), q.tenant = t, q.pc # "idle", Serves(q, t),
         cmds' = cmds, executions' = executions, status' = status, assigned' = assigned,
         limits' = limits
  PROVE  Stepped
<1>1. reqs' = [reqs EXCEPT ![r] = q] /\ reqs[r].pc = "idle"
  BY DEF Service!Begin, Service!At
<1>2. \A o \in Requests : reqs[o].tenant # t
  BY DEF Service!Begin
<1>3. reqs'[r] = q /\ OthersStay(r) /\ reqs' \in [Requests -> Service!Request]
  BY <1>1 DEF WellTyped, RequestsOK, OthersStay
<1>4. RequestsOK'
  BY <1>3 DEF WellTyped, RequestsOK, OthersStay
<1>5. Counted
  <2>1. executions = [c \in DOMAIN executions |-> executions[c]] /\ DOMAIN executions = DOMAIN cmds
    BY DEF WellTyped, CommandsOK
  <2> QED  BY <2>1 DEF Counted
<1>6. Serves(reqs[r], t)'
  BY <1>3 DEF Serves, Service!CommandsFor, HasRemoval, Removal
<1>7. Row(t)'
  BY DEF AllAgree, Agrees, Row, HasRemoval, Removal, Service!CommandsFor
<1>8. Mild(t)
  BY DEF Mild
<1>9. TablesOK'
  BY DEF WellTyped, TablesOK
<1> QED  BY <1>2, <1>3, <1>4, <1>5, <1>6, <1>7, <1>8, <1>9, QuietStep

\* Admins do not name hosts, and make one request of a tenant at a time.
LEMMA BeginCreateStep ==
  ASSUME WellTyped, AllAgree, NEW r \in Requests, NEW t \in Tenants, NEW size \in Sizes,
         NEW auto \in BOOLEAN, NEW h \in Hosts \cup {NoHost},
         Service!BeginCreate(r, t, size, auto, h), executions' = executions
  PROVE  Stepped
<1> DEFINE q == [Service!Idle EXCEPT !.pc = "insert", !.tenant = t, !.host = h,
                                     !.size = size, !.auto = auto]
<1>1. q \in Service!Request /\ q.tenant = t /\ q.pc = "insert" /\ q.host = h
  BY ComponentsAssumption
  DEF Service!Idle, Service!Request, Service!CreatePc, Service!ActionPc, Service!NoSize, Service!Size
<1>2. Service!Begin(r, q) /\ cmds' = cmds /\ status' = status /\ assigned' = assigned /\ limits' = limits
  BY DEF Service!BeginCreate
<1>3. status[t] = "absent"
  BY DEF Service!BeginCreate
<1> HIDE DEF q
<1>4. assigned[t] = NoHost /\ Service!CommandsFor(t) = {}
  BY <1>3 DEF AllAgree, Agrees, Row, Follows
<1>5. Serves(q, t)
  BY <1>1, <1>4 DEF Serves, CreatePc, ActionPc, NoHostYet, Placed, EnqueuedPc
<1> QED  BY <1>1, <1>2, <1>5, BeginStep

\* An action begins with the host and the limits it reads.
LEMMA BeginActionStep ==
  ASSUME WellTyped, AllAgree, NEW r \in Requests, NEW t \in Tenants, NEW a \in Actions,
         Service!BeginAction(r, t, a), executions' = executions
  PROVE  Stepped
<1> DEFINE pc == IF assigned[t] = NoHost THEN "status" ELSE "command"
           q == [Service!Idle EXCEPT !.pc = pc, !.tenant = t, !.host = assigned[t],
                                     !.size = limits[t], !.action = a]
<1>0. assigned[t] \in Hosts \cup {NoHost} /\ limits[t] \in Service!Size /\ a \in Service!TenantAction
  BY ComponentsAssumption DEF WellTyped, TablesOK
<1>1. /\ q \in Service!Request /\ q.tenant = t /\ q.pc = pc /\ q.host = assigned[t]
      /\ q.action = a
  BY <1>0 DEF Service!Idle, Service!Request, Service!CreatePc, Service!ActionPc, Service!NoSize
<1>2. Service!Begin(r, q) /\ cmds' = cmds /\ status' = status /\ assigned' = assigned /\ limits' = limits
  BY DEF Service!BeginAction
<1>3. status[t] # "absent"
  BY DEF Service!BeginAction
<1> HIDE DEF q
<1>5. Serves(q, t)
  BY <1>0, <1>1, <1>3 DEF Serves, CreatePc, ActionPc, NoHostYet, Placed, EnqueuedPc
<1> QED  BY <1>1, <1>2, <1>5, BeginStep

\* The steps of a creation.
LEMMA InsertStep ==
  ASSUME WellTyped, AllAgree, NEW r \in Requests, Service!InsertTenant(r), Counted
  PROVE  Stepped
<1>1. PICK t : t = reqs[r].tenant
  OBVIOUS
<1>2. reqs[r].pc = "insert" /\ cmds' = cmds /\ assigned' = assigned
  BY DEF Service!InsertTenant, Service!At
<1>3. /\ t \in Tenants /\ Serves(reqs[r], t) /\ Follows(t) /\ Row(t)
      /\ \A o \in Requests : o # r => reqs[o].tenant # t
      /\ reqs[r] \in Service!Request
  BY <1>1, <1>2, ActiveRequest
<1>4. Service!CommandsFor(t) = {} /\ assigned[t] = NoHost
  BY <1>2, <1>3 DEF Serves, CreatePc, NoHostYet
<1>5. Service!CommandsFor(t)' = {}
  BY <1>2, <1>4 DEF Service!CommandsFor
<1>6. Mild(t) /\ Row(t)'
  BY <1>2, <1>4 DEF Mild, Row
<1>7. CASE status[t] = "absent"
  <2>1. /\ status' = [status EXCEPT ![t] = "pending"]
        /\ limits' = [limits EXCEPT ![t] = reqs[r].size]
        /\ Service!Goto(r, "select")
    BY <1>1, <1>7 DEF Service!InsertTenant
  <2>2. RequestsOK' /\ Advances(r, "select")
    BY <1>2, <2>1, GotoAdvances DEF WellTyped, CreatePc
  <2>3. TablesOK'
    BY <1>2, <1>3, <2>1 DEF WellTyped, TablesOK, TenantStatus, Service!Request
  <2>4. status'[t] = "pending" /\ \A u \in Tenants : u # t => status'[u] = status[u]
    BY <1>3, <2>1 DEF WellTyped, TablesOK
  <2>5. Serves(reqs[r], t)'
    BY <1>1, <1>2, <1>4, <1>5, <2>2, <2>4
    DEF Serves, Advances, CreatePc, ActionPc, NoHostYet, Placed, EnqueuedPc
  <2> QED  BY <1>1, <1>2, <1>3, <1>6, <2>2, <2>3, <2>4, <2>5, QuietStep DEF Advances
<1>8. CASE status[t] # "absent"
  <2>1. Service!Done(r) /\ status' = status /\ limits' = limits
    BY <1>1, <1>8 DEF Service!InsertTenant
  <2>2. RequestsOK' /\ Ends(r)
    BY <2>1, DoneEnds DEF WellTyped
  <2>3. TablesOK'
    BY <1>2, <2>1 DEF WellTyped, TablesOK
  <2> QED  BY <1>2, <1>3, <1>6, <2>1, <2>2, <2>3, NoTenantAssumption, QuietStep DEF Ends
<1> QED  BY <1>7, <1>8

\* The scheduler's choice, or none.
LEMMA SelectStep ==
  ASSUME WellTyped, AllAgree, NEW r \in Requests, Service!SelectHost(r), Counted
  PROVE  Stepped
<1>1. PICK t : t = reqs[r].tenant
  OBVIOUS
<1>2. /\ reqs[r].pc = "select" /\ cmds' = cmds /\ assigned' = assigned /\ status' = status
      /\ limits' = limits
  BY DEF Service!SelectHost, Service!At
<1>3. /\ t \in Tenants /\ Serves(reqs[r], t) /\ Follows(t) /\ Row(t)
      /\ \A o \in Requests : o # r => reqs[o].tenant # t
      /\ reqs[r] \in Service!Request
  BY <1>1, <1>2, ActiveRequest
<1>4. Service!CommandsFor(t) = {} /\ assigned[t] = NoHost /\ status[t] # "absent"
  BY <1>2, <1>3 DEF Serves, CreatePc, NoHostYet
<1>5. Service!CommandsFor(t)' = {}
  BY <1>2, <1>4 DEF Service!CommandsFor
<1>6. Mild(t) /\ Row(t)' /\ TablesOK'
  BY <1>2, <1>4 DEF Mild, Row, WellTyped, TablesOK
<1>7. /\ RequestsOK' /\ OthersStay(r) /\ reqs'[r].tenant = t
      /\ reqs'[r].pc \in {"provision", "giveUp"}
      /\ reqs'[r].pc = "provision" => reqs'[r].host # NoHost
  <2>1. CASE reqs[r].host # NoHost /\ Service!Goto(r, "provision")
    BY <1>1, <1>2, <2>1, GotoAdvances DEF WellTyped, CreatePc, Advances
  <2>2. CASE Service!Goto(r, "giveUp")
    BY <1>1, <1>2, <2>2, GotoAdvances DEF WellTyped, CreatePc, Advances
  <2>3. CASE \E h \in Service!Preferred(reqs[r].size) :
                reqs' = [reqs EXCEPT ![r].pc = "provision", ![r].host = h]
    <3>1. PICK h \in Service!Preferred(reqs[r].size) :
                reqs' = [reqs EXCEPT ![r].pc = "provision", ![r].host = h]
      BY <2>3
    <3>2. h \in Hosts /\ h # NoHost
      BY ComponentsAssumption DEF Service!Preferred, Service!Candidates
    <3>3. /\ RequestsOK' /\ OthersStay(r)
          /\ reqs'[r].pc = "provision" /\ reqs'[r].tenant = reqs[r].tenant
      BY <1>2, <3>1, <3>2, SelectionAdvances DEF WellTyped
    <3>4. reqs'[r].host = h
      BY <3>1 DEF WellTyped, RequestsOK, Service!Request
    <3> QED  BY <1>1, <3>2, <3>3, <3>4
  <2> QED  BY <2>1, <2>2, <2>3 DEF Service!SelectHost
<1>8. Serves(reqs[r], t)'
  BY <1>2, <1>4, <1>5, <1>7
  DEF Serves, CreatePc, ActionPc, NoHostYet, Placed, EnqueuedPc
<1> QED  BY <1>2, <1>3, <1>6, <1>7, <1>8, QuietStep

\* Without a host the tenant fails, and no command is left behind.
LEMMA GiveUpStep ==
  ASSUME WellTyped, AllAgree, NEW r \in Requests, Service!GiveUp(r), Counted
  PROVE  Stepped
<1>1. PICK t : t = reqs[r].tenant
  OBVIOUS
<1>2. /\ reqs[r].pc = "giveUp" /\ cmds' = cmds /\ assigned' = assigned
      /\ limits' = limits /\ status' = [status EXCEPT ![t] = "failed"] /\ Service!Done(r)
  BY <1>1 DEF Service!GiveUp, Service!At
<1>3. /\ t \in Tenants /\ Serves(reqs[r], t) /\ Follows(t) /\ Row(t)
      /\ \A o \in Requests : o # r => reqs[o].tenant # t
  BY <1>1, <1>2, ActiveRequest
<1>4. Service!CommandsFor(t) = {} /\ assigned[t] = NoHost
  BY <1>2, <1>3 DEF Serves, CreatePc, NoHostYet
<1>5. Mild(t) /\ Row(t)'
  BY <1>2, <1>4 DEF Mild, Row
<1>6. TablesOK' /\ \A u \in Tenants : u # t => status'[u] = status[u]
  BY <1>2, <1>3 DEF WellTyped, TablesOK, TenantStatus
<1>7. RequestsOK' /\ Ends(r)
  BY <1>2, DoneEnds DEF WellTyped
<1> QED  BY <1>2, <1>3, <1>5, <1>6, <1>7, NoTenantAssumption, QuietStep DEF Ends

\* Provisioning changes no row that the commands are about.
LEMMA ProvisionStep ==
  ASSUME WellTyped, AllAgree, NEW r \in Requests, Service!Provision(r), Counted
  PROVE  Stepped
<1>1. PICK t : t = reqs[r].tenant
  OBVIOUS
<1>2. /\ reqs[r].pc = "provision" /\ cmds' = cmds /\ assigned' = assigned
      /\ limits' = limits /\ status' = status /\ Service!Goto(r, "assign")
  BY DEF Service!Provision, Service!At
<1>3. /\ t \in Tenants /\ Serves(reqs[r], t) /\ Follows(t) /\ Row(t)
      /\ \A o \in Requests : o # r => reqs[o].tenant # t
  BY <1>1, <1>2, ActiveRequest
<1>4. /\ Service!CommandsFor(t) = {} /\ assigned[t] = NoHost /\ status[t] # "absent"
      /\ reqs[r].host # NoHost
  BY <1>2, <1>3 DEF Serves, CreatePc, NoHostYet
<1>5. Service!CommandsFor(t)' = {}
  BY <1>2, <1>4 DEF Service!CommandsFor
<1>6. Mild(t) /\ Row(t)' /\ TablesOK'
  BY <1>2, <1>4 DEF Mild, Row, WellTyped, TablesOK
<1>7. RequestsOK' /\ Advances(r, "assign")
  BY <1>2, GotoAdvances DEF WellTyped, CreatePc
<1>8. Serves(reqs[r], t)'
  BY <1>2, <1>4, <1>5, <1>7
  DEF Serves, Advances, CreatePc, ActionPc, NoHostYet, Placed, EnqueuedPc
<1> QED  BY <1>1, <1>2, <1>3, <1>6, <1>7, <1>8, QuietStep DEF Advances

\* The assignment of a host, which the commands will follow.
LEMMA AssignStep ==
  ASSUME WellTyped, AllAgree, NEW r \in Requests, Service!AssignHost(r), Counted
  PROVE  Stepped
<1>1. PICK t : t = reqs[r].tenant
  OBVIOUS
<1>2. /\ reqs[r].pc = "assign" /\ cmds' = cmds
      /\ assigned' = [assigned EXCEPT ![t] = reqs[r].host]
      /\ limits' = limits /\ status' = [status EXCEPT ![t] = "provisioning"]
      /\ Service!Goto(r, "reserve")
  BY <1>1 DEF Service!AssignHost, Service!At
<1>3. /\ t \in Tenants /\ Serves(reqs[r], t) /\ Follows(t) /\ Row(t)
      /\ \A o \in Requests : o # r => reqs[o].tenant # t
      /\ reqs[r] \in Service!Request
  BY <1>1, <1>2, ActiveRequest
<1>4. Service!CommandsFor(t) = {} /\ reqs[r].host # NoHost
  BY <1>2, <1>3 DEF Serves, CreatePc, NoHostYet
<1>5. Service!CommandsFor(t)' = {}
  BY <1>2, <1>4 DEF Service!CommandsFor
<1>6. /\ status'[t] = "provisioning" /\ assigned'[t] = reqs[r].host
      /\ \A u \in Tenants : u # t => status'[u] = status[u] /\ assigned'[u] = assigned[u]
  BY <1>2, <1>3 DEF WellTyped, TablesOK
<1>7. TablesOK'
  BY <1>2, <1>3 DEF WellTyped, TablesOK, TenantStatus, Service!Request
<1>8. Mild(t) /\ Row(t)'
  BY <1>4, <1>6 DEF Mild, Row
<1>9. RequestsOK' /\ Advances(r, "reserve")
  BY <1>2, GotoAdvances DEF WellTyped, CreatePc
<1>10. Serves(reqs[r], t)'
  BY <1>2, <1>4, <1>5, <1>6, <1>9
  DEF Serves, Advances, CreatePc, ActionPc, NoHostYet, Placed, EnqueuedPc
<1> QED  BY <1>1, <1>2, <1>3, <1>4, <1>6, <1>7, <1>8, <1>9, <1>10, QuietStep DEF Advances

\* The reservation keeps to the pools.
LEMMA ReserveStep ==
  ASSUME WellTyped, AllAgree, NEW r \in Requests, Service!ReserveCapacity(r), Counted
  PROVE  Stepped
<1>1. PICK t : t = reqs[r].tenant
  OBVIOUS
<1>2. /\ reqs[r].pc = "reserve" /\ cmds' = cmds /\ assigned' = assigned
      /\ limits' = limits /\ status' = status /\ Service!Goto(r, "enqueue")
  BY DEF Service!ReserveCapacity, Service!At
<1>3. /\ t \in Tenants /\ Serves(reqs[r], t) /\ Follows(t) /\ Row(t)
      /\ \A o \in Requests : o # r => reqs[o].tenant # t
  BY <1>1, <1>2, ActiveRequest
<1>4. /\ Service!CommandsFor(t) = {} /\ status[t] # "absent"
      /\ assigned[t] = reqs[r].host /\ reqs[r].host # NoHost
  BY <1>2, <1>3 DEF Serves, CreatePc, Placed
<1>5. Service!CommandsFor(t)' = {}
  BY <1>2, <1>4 DEF Service!CommandsFor
<1>6. Mild(t) /\ Row(t)' /\ TablesOK'
  BY <1>2, <1>3 DEF Mild, Row, WellTyped, TablesOK, HasRemoval, Removal, Service!CommandsFor
<1>7. RequestsOK' /\ Advances(r, "enqueue")
  BY <1>2, GotoAdvances DEF WellTyped, CreatePc
<1>8. Serves(reqs[r], t)'
  BY <1>2, <1>4, <1>5, <1>7
  DEF Serves, Advances, CreatePc, ActionPc, NoHostYet, Placed, EnqueuedPc
<1> QED  BY <1>1, <1>2, <1>3, <1>6, <1>7, <1>8, QuietStep DEF Advances

\* The create_tenant row, the first of its tenant.
LEMMA EnqueueCreateStep ==
  ASSUME WellTyped, AllAgree, NEW r \in Requests, Service!EnqueueCreate(r), Counted
  PROVE  Stepped
<1>1. PICK t : t = reqs[r].tenant
  OBVIOUS
<1>2. PICK h : h = reqs[r].host
  OBVIOUS
<1>3. /\ reqs[r].pc = "enqueue" /\ assigned' = assigned
      /\ limits' = limits /\ status' = status /\ Service!Done(r)
      /\ cmds' = Append(cmds, QueuedRow(h, t, "create_tenant", "full"))
  BY <1>1, <1>2 DEF Service!EnqueueCreate, Service!At, Service!QueuedRow, QueuedRow
<1>4. /\ t \in Tenants /\ Serves(reqs[r], t) /\ Follows(t) /\ Row(t)
      /\ \A o \in Requests : o # r => reqs[o].tenant # t
  BY <1>1, <1>3, ActiveRequest
<1>5. /\ Service!CommandsFor(t) = {} /\ status[t] # "absent"
      /\ assigned[t] = h /\ h # NoHost
  BY <1>2, <1>3, <1>4 DEF Serves, CreatePc, Placed
<1>6. h \in Hosts /\ TablesOK'
  BY <1>3, <1>4, <1>5 DEF WellTyped, TablesOK
<1>7. RequestsOK' /\ Ends(r)
  BY <1>3, DoneEnds DEF WellTyped
<1>8. "create_tenant" \in CommandType
  BY DEF CommandType
<1>9. reqs'[r].tenant \in {t, NoTenant} /\ reqs'[r].tenant # t
  BY <1>4, <1>7, NoTenantAssumption DEF Ends
<1> QED  BY <1>1, <1>3, <1>4, <1>5, <1>6, <1>7, <1>8, <1>9, LoudStep DEF Ends

\* The steps of an action: what each does to its tenant's requests and commands.
LEMMA EnqueueActionStep ==
  ASSUME WellTyped, AllAgree, NEW r \in Requests, Service!EnqueueAction(r), Counted
  PROVE  Stepped
<1>1. PICK t : t = reqs[r].tenant
  OBVIOUS
<1>2. PICK h : h = reqs[r].host
  OBVIOUS
<1>3. PICK a : a = reqs[r].action
  OBVIOUS
<1>4. PICK ty : ty = Service!CommandOf[a]
  OBVIOUS
<1> DEFINE pc == IF a = "backup" THEN "backup" ELSE "status"
<1>5. /\ reqs[r].pc = "command" /\ assigned' = assigned
      /\ limits' = limits /\ status' = status /\ Service!Goto(r, pc)
      /\ cmds' = Append(cmds, QueuedRow(h, t, ty, "slug"))
  BY <1>1, <1>2, <1>3, <1>4 DEF Service!EnqueueAction, Service!At, Service!QueuedRow, QueuedRow
<1>6. /\ t \in Tenants /\ Serves(reqs[r], t) /\ Follows(t) /\ Row(t)
      /\ \A o \in Requests : o # r => reqs[o].tenant # t
  BY <1>1, <1>5, ActiveRequest
<1>7. /\ status[t] # "absent" /\ assigned[t] = h /\ h # NoHost /\ a \in Service!TenantAction
  BY <1>2, <1>3, <1>5, <1>6 DEF Serves, ActionPc
<1>8. h \in Hosts /\ TablesOK'
  BY <1>5, <1>6, <1>7 DEF WellTyped, TablesOK
<1>9. RequestsOK' /\ Advances(r, pc)
  BY <1>5, GotoAdvances DEF WellTyped, ActionPc
<1>10. /\ ty \in CommandType /\ ty # "create_tenant"
       /\ a \in Halting => ty \in {"stop_tenant", "restart_tenant", "delete_tenant"}
  BY <1>4, <1>7 DEF Service!TenantAction, Service!CommandOf, CommandType, Halting
<1>11. ASSUME NEW n, NEW pl, Joined(n, h, t, ty, pl)
       PROVE  Serves(reqs[r], t)'
  <2>1. a \in Halting => HasRemoval(t)'
    BY <1>10, <1>11, JoinedSay DEF WellTyped, HasRemoval
  <2>2. /\ reqs'[r].pc = pc /\ reqs'[r].host = h /\ reqs'[r].action = a
    BY <1>2, <1>3, <1>9 DEF Advances
  <2> QED  BY <1>5, <1>7, <2>1, <2>2
           DEF Serves, CreatePc, ActionPc, NoHostYet, Placed, EnqueuedPc
<1>12. cmds' = Append(cmds, QueuedRow(h, t, ty, IF ty = "create_tenant" THEN "full" ELSE "slug"))
  BY <1>5, <1>10
<1> QED  BY <1>1, <1>5, <1>6, <1>7, <1>8, <1>9, <1>10, <1>11, <1>12, LoudStep DEF Advances

\* The row of a backup is none of a command.
LEMMA BackupStep ==
  ASSUME WellTyped, AllAgree, NEW r \in Requests, Service!RecordBackup(r), Counted
  PROVE  Stepped
<1>1. PICK t : t = reqs[r].tenant
  OBVIOUS
<1>2. /\ reqs[r].pc = "backup" /\ cmds' = cmds /\ assigned' = assigned
      /\ limits' = limits /\ status' = status /\ Service!Goto(r, "status")
  BY DEF Service!RecordBackup, Service!At
<1>3. /\ t \in Tenants /\ Serves(reqs[r], t) /\ Follows(t) /\ Row(t)
      /\ \A o \in Requests : o # r => reqs[o].tenant # t
  BY <1>1, <1>2, ActiveRequest
<1>4. Mild(t) /\ Row(t)' /\ TablesOK'
  BY <1>2, <1>3 DEF Mild, Row, WellTyped, TablesOK, HasRemoval, Removal, Service!CommandsFor
<1>5. RequestsOK' /\ Advances(r, "status")
  BY <1>2, GotoAdvances DEF WellTyped, ActionPc
<1>6. Serves(reqs[r], t)'
  BY <1>2, <1>3, <1>5
  DEF Serves, Advances, CreatePc, ActionPc, NoHostYet, Placed, EnqueuedPc,
      HasRemoval, Removal, Service!CommandsFor
<1> QED  BY <1>1, <1>2, <1>3, <1>4, <1>5, <1>6, QuietStep DEF Advances

\* The status of an action, with its command behind it.
LEMMA StatusStep ==
  ASSUME WellTyped, AllAgree, NEW r \in Requests, Service!SetStatus(r), Counted
  PROVE  Stepped
<1>1. PICK t : t = reqs[r].tenant
  OBVIOUS
<1>2. PICK s : s = Service!StatusAfter(reqs[r].action, status[t])
  OBVIOUS
<1>3. /\ reqs[r].pc = "status" /\ cmds' = cmds /\ assigned' = assigned
      /\ limits' = limits /\ status' = [status EXCEPT ![t] = s]
      /\ Service!Goto(r, "release") \/ Service!Done(r)
  BY <1>1, <1>2 DEF Service!SetStatus, Service!At
<1>4. /\ t \in Tenants /\ Serves(reqs[r], t) /\ Follows(t) /\ Row(t)
      /\ \A o \in Requests : o # r => reqs[o].tenant # t
  BY <1>1, <1>3, ActiveRequest
<1>5. /\ status[t] # "absent" /\ reqs[r].host = assigned[t]
      /\ reqs[r].action \in Service!TenantAction
      /\ assigned[t] # NoHost /\ reqs[r].action \in Halting => HasRemoval(t)
  BY <1>3, <1>4 DEF Serves, ActionPc, EnqueuedPc
<1>6. /\ s = status[t] \/ s \in {"active", "suspended", "deleted"}
      /\ s \in {"suspended", "deleted"} => s = status[t] \/ reqs[r].action \in Halting
  BY <1>2, <1>5 DEF Service!StatusAfter, Halting, Service!TenantAction
<1>7. /\ status'[t] = s
      /\ \A u \in Tenants : u # t => status'[u] = status[u]
      /\ status[t] \in TenantStatus \cup {"absent"}
  BY <1>3, <1>4 DEF WellTyped, TablesOK
<1>8. TablesOK'
  BY <1>3, <1>4, <1>6, <1>7 DEF WellTyped, TablesOK, TenantStatus
<1>9. Service!CommandsFor(t)' = Service!CommandsFor(t) /\ (HasRemoval(t)' <=> HasRemoval(t))
  BY <1>3 DEF HasRemoval, Removal, Service!CommandsFor
<1>10. Mild(t)
  BY <1>6, <1>7 DEF Mild
<1>11. Row(t)'
  BY <1>3, <1>4, <1>5, <1>6, <1>7, <1>9 DEF Row
<1>12. CASE Service!Goto(r, "release")
  <2>1. RequestsOK' /\ Advances(r, "release")
    BY <1>3, <1>12, GotoAdvances DEF WellTyped, ActionPc
  <2>2. Serves(reqs[r], t)'
    BY <1>3, <1>5, <1>6, <1>7, <1>9, <2>1
    DEF Serves, Advances, CreatePc, ActionPc, NoHostYet, Placed, EnqueuedPc
  <2> QED  BY <1>1, <1>3, <1>4, <1>7, <1>8, <1>10, <1>11, <2>1, <2>2, QuietStep DEF Advances
<1>13. CASE Service!Done(r)
  <2>1. RequestsOK' /\ Ends(r)
    BY <1>13, DoneEnds DEF WellTyped
  <2> QED  BY <1>3, <1>4, <1>7, <1>8, <1>10, <1>11, <2>1, NoTenantAssumption, QuietStep DEF Ends
<1> QED  BY <1>3, <1>12, <1>13

\* The release keeps to the pools.
LEMMA ReleaseStep ==
  ASSUME WellTyped, AllAgree, NEW r \in Requests, Service!ReleaseCapacity(r), Counted
  PROVE  Stepped
<1>1. PICK t : t = reqs[r].tenant
  OBVIOUS
<1>2. /\ reqs[r].pc = "release" /\ cmds' = cmds /\ assigned' = assigned
      /\ limits' = limits /\ status' = status /\ Service!Done(r)
  BY DEF Service!ReleaseCapacity, Service!At
<1>3. /\ t \in Tenants /\ Serves(reqs[r], t) /\ Follows(t) /\ Row(t)
      /\ \A o \in Requests : o # r => reqs[o].tenant # t
  BY <1>1, <1>2, ActiveRequest
<1>4. Mild(t) /\ Row(t)' /\ TablesOK'
  BY <1>2, <1>3 DEF Mild, Row, WellTyped, TablesOK, HasRemoval, Removal, Service!CommandsFor
<1>5. RequestsOK' /\ Ends(r)
  BY <1>2, DoneEnds DEF WellTyped
<1> QED  BY <1>2, <1>3, <1>4, <1>5, NoTenantAssumption, QuietStep DEF Ends

\* Every step of a request, its beginning included, keeps requests, rows and commands
\* in agreement.
LEMMA RequestKeeps ==
  ASSUME WellTyped, AllAgree, NEW r \in Requests, BeginRequest(r) \/ RequestStep(r)
  PROVE  Stepped
<1>1. CASE BeginRequest(r)
  <2>1. executions' = executions /\ Service!BeginRequest(r)
    BY <1>1 DEF BeginRequest, queueVars
  <2> QED  BY <2>1, BeginCreateStep, BeginActionStep DEF Service!BeginRequest
<1>2. CASE RequestStep(r)
  <2>1. Counted /\ Service!RequestStep(r)
    BY <1>2 DEF RequestStep
  <2> QED  BY <2>1, InsertStep, SelectStep, GiveUpStep, ProvisionStep, AssignStep, ReserveStep,
             EnqueueCreateStep, EnqueueActionStep, BackupStep, StatusStep, ReleaseStep
           DEF Service!RequestStep
<1> QED  BY <1>1, <1>2

-----------------------------------------------------------------------------
(***************************************************************************)
(* The agents work on the commands of their hosts one by one.              *)
(***************************************************************************)

HoldingPc == {"selected", "claimed", "reportRunning", "reconcileRunning", "running",
              "executed", "reportResult", "reconcileResult"}
LatePc == {"executed", "reportResult", "reconcileResult"}

\* The poll p has c in its hands.
Holding(p, c) == polls[p].pc \in HoldingPc /\ polls[p].cmd = c

\* What the poll q says of the status s of its command.
RowStatus(q, s) ==
    /\ q.pc = "selected" => s = "queued"
    /\ q.pc \in {"claimed", "reportRunning"} => s = "claimed"
    /\ q.pc \in {"reconcileRunning", "running", "executed", "reportResult"} => s = "running"
    /\ q.pc = "reconcileResult" => s = q.result

\* The poll p's command is its host's, and exactly the newer ones wait.
Works(p) ==
    /\ polls[p].pc # "idle" => p[2] = FirstSlot
    /\ polls[p].pc \in HoldingPc =>
          /\ polls[p].cmd \in DOMAIN cmds /\ cmds[polls[p].cmd].host = p[1]
          /\ RowStatus(polls[p], cmds[polls[p].cmd].status)
          /\ \A d \in DOMAIN cmds :
                d # polls[p].cmd /\ cmds[d].host = p[1] =>
                   (cmds[d].status = "queued" <=> d > polls[p].cmd)
    /\ polls[p].pc \in LatePc => polls[p].result \in Completed /\ executions[polls[p].cmd] > 0
    /\ polls[p].pc \in {"claimed", "running", "executed"} => polls[p].live

\* A queued command has not run, a finished one has.
Ran(c) ==
    /\ cmds[c].status = "queued" => executions[c] = 0
    /\ cmds[c].status \in Completed => executions[c] > 0
    /\ cmds[c].status \in {"queued", "claimed", "running"} \cup Completed

\* The agents work on the commands of their hosts one by one, in the order of the queue.
InOrder ==
    /\ \A p \in Queue!Poll : Works(p)
    /\ \A c \in DOMAIN cmds : Ran(c)
    /\ \A c, d \in DOMAIN cmds :
          c < d /\ cmds[c].host = cmds[d].host /\ cmds[c].status = "queued"
             => cmds[d].status = "queued"

-----------------------------------------------------------------------------
\* A host has one poll at work.
LEMMA Alone ==
  ASSUME InOrder, NEW p \in Queue!Poll, NEW o \in Queue!Poll, p[1] = o[1],
         polls[p].pc # "idle", polls[o].pc # "idle"
  PROVE  p = o
<1>1. p[2] = o[2]
  BY DEF InOrder, Works
<1> QED  BY <1>1 DEF Queue!Poll

\* What a poll holds.
LEMMA HeldCommand ==
  ASSUME WellTyped, InOrder, NEW p \in Queue!Poll, polls[p].pc \in HoldingPc,
         NEW c, c = polls[p].cmd
  PROVE  /\ c \in DOMAIN cmds /\ c \in Nat /\ cmds[c].host = p[1] /\ p[1] \in Hosts
         /\ cmds[c] \in CommandRow /\ cmds[c].tenant \in Tenants
         /\ RowStatus(polls[p], cmds[c].status)
         /\ \A d \in DOMAIN cmds :
               d # c /\ cmds[d].host = p[1] => (cmds[d].status = "queued" <=> d > c)
         /\ polls[p] \in Queue!PollState
<1>1. c \in DOMAIN cmds /\ cmds \in Seq(CommandRow)
  BY DEF InOrder, Works, WellTyped, CommandsOK
<1>2. c \in Nat /\ cmds[c] \in CommandRow
  BY <1>1
<1> QED  BY <1>1, <1>2 DEF InOrder, Works, WellTyped, CommandsOK, AgentsOK, Queue!Poll

\* Work goes on in order when no row changes, ...
LEMMA QuietKeepsOrder ==
  ASSUME InOrder, SameRows, \A p \in Queue!Poll : Works(p)'
  PROVE  InOrder'
  BY DEF InOrder, SameRows, Ran

\* ... when one joins, ...
LEMMA GrowKeepsOrder ==
  ASSUME WellTyped, InOrder, Grown, polls' = polls
  PROVE  InOrder'
<1>1. CASE SameRows
  <2>1. \A p \in Queue!Poll : Works(p)'
    BY <1>1 DEF InOrder, SameRows, Works
  <2> QED  BY <1>1, <2>1, QuietKeepsOrder
<1>2. CASE \E n, h, t, ty, pl : Joined(n, h, t, ty, pl)
  <2>1. PICK n, h, t, ty, pl : Joined(n, h, t, ty, pl)
    BY <1>2
  <2>2. /\ n \in Nat /\ n \notin DOMAIN cmds /\ DOMAIN cmds' = DOMAIN cmds \cup {n}
        /\ \A c \in DOMAIN cmds : c < n /\ cmds'[c] = cmds[c] /\ executions'[c] = executions[c]
        /\ cmds'[n].status = "queued" /\ executions'[n] = 0
    BY <2>1 DEF Joined
  <2>3. \A c \in DOMAIN cmds : c \in Nat
    BY DEF WellTyped, CommandsOK
  <2>4. \A p \in Queue!Poll : Works(p)'
    <3> SUFFICES ASSUME NEW p \in Queue!Poll PROVE Works(p)'
      OBVIOUS
    <3>1. Works(p)
      BY DEF InOrder
    <3>2. polls[p].pc \in LatePc => polls[p].pc \in HoldingPc
      BY DEF LatePc, HoldingPc
    <3>3. polls[p].pc \in HoldingPc =>
             \A d \in DOMAIN cmds' :
                d # polls[p].cmd /\ cmds'[d].host = p[1] =>
                   (cmds'[d].status = "queued" <=> d > polls[p].cmd)
      BY <2>2, <2>3, <3>1 DEF Works
    <3> QED  BY <2>2, <2>3, <3>1, <3>2, <3>3 DEF Works
  <2>5. \A c \in DOMAIN cmds' : Ran(c)'
    BY <2>2 DEF InOrder, Ran, Completed
  <2>6. \A c, d \in DOMAIN cmds' :
          c < d /\ cmds'[c].host = cmds'[d].host /\ cmds'[c].status = "queued"
             => cmds'[d].status = "queued"
    BY <2>2, <2>3 DEF InOrder
  <2> QED  BY <2>4, <2>5, <2>6 DEF InOrder
<1> QED  BY <1>1, <1>2 DEF Grown

\* ... and when a poll writes the row it holds.
LEMMA WriteKeepsOrder ==
  ASSUME WellTyped, InOrder, NEW p \in Queue!Poll, NEW c, polls[p].pc \in HoldingPc,
         c = polls[p].cmd, \A o \in Queue!Poll : o # p => polls'[o] = polls[o],
         SameCommands,
         \A d \in DOMAIN cmds : d # c => cmds'[d].status = cmds[d].status
                                          /\ executions'[d] = executions[d],
         cmds'[c].status # "queued", Ran(c)', Works(p)'
  PROVE  InOrder'
<1>1. /\ c \in DOMAIN cmds /\ c \in Nat /\ cmds[c].host = p[1] /\ p[1] \in Hosts
      /\ \A d \in DOMAIN cmds :
            d # c /\ cmds[d].host = p[1] => (cmds[d].status = "queued" <=> d > c)
  BY HeldCommand
<1>2. DOMAIN cmds' = DOMAIN cmds /\ \A d \in DOMAIN cmds : cmds'[d].host = cmds[d].host /\ d \in Nat
  BY DEF SameCommands, SameCommand, WellTyped, CommandsOK
<1>3. \A o \in Queue!Poll : Works(o)'
  <2> SUFFICES ASSUME NEW o \in Queue!Poll, o # p PROVE Works(o)'
    OBVIOUS
  <2>1. polls'[o] = polls[o] /\ Works(o)
    BY DEF InOrder
  <2>2. CASE polls[o].pc = "idle"
    BY <2>1, <2>2 DEF Works, HoldingPc, LatePc
  <2>3. CASE polls[o].pc # "idle"
    <3>1. o[1] # p[1]
      BY <2>3, Alone DEF HoldingPc
    <3>2. polls[o].pc \in LatePc => polls[o].pc \in HoldingPc
      BY DEF LatePc, HoldingPc
    <3>3. polls[o].pc \in HoldingPc => polls[o].cmd # c /\ polls[o].cmd \in DOMAIN cmds
      BY <1>1, <2>1, <3>1 DEF Works
    <3>4. \A d \in DOMAIN cmds : cmds[d].host = o[1] => cmds'[d].status = cmds[d].status
      BY <1>1, <3>1
    <3> QED  BY <1>1, <1>2, <2>1, <3>1, <3>2, <3>3, <3>4 DEF Works
  <2> QED  BY <2>2, <2>3
<1>4. \A d \in DOMAIN cmds' : Ran(d)'
  BY <1>2 DEF InOrder, Ran
<1>5. \A d, e \in DOMAIN cmds' :
          d < e /\ cmds'[d].host = cmds'[e].host /\ cmds'[d].status = "queued"
             => cmds'[e].status = "queued"
  <2> SUFFICES ASSUME NEW d \in DOMAIN cmds, NEW e \in DOMAIN cmds, d < e,
                      cmds[d].host = cmds[e].host, cmds'[d].status = "queued"
               PROVE  cmds'[e].status = "queued"
    BY <1>2
  <2>1. d # c /\ cmds[d].status = "queued"
    OBVIOUS
  <2>2. cmds[e].status = "queued"
    BY <2>1 DEF InOrder
  <2>3. e # c
    BY <1>1, <1>2, <2>1
  <2> QED  BY <2>2, <2>3
<1> QED  BY <1>3, <1>4, <1>5 DEF InOrder

-----------------------------------------------------------------------------
(***************************************************************************)
(* Every step of a poll keeps them in order.                               *)
(***************************************************************************)

\* What a step of a poll keeps.
Worked == AgentsOK' /\ CommandsOK' /\ SameCommands /\ InOrder'

\* The poll p becomes q, and no other poll moves.
PollBecomes(p, q) ==
    /\ polls'[p] = q
    /\ \A o \in Queue!Poll : o # p => polls'[o] = polls[o]

\* A poll that is replaced leaves the others as they are.
LEMMA PollWritten ==
  ASSUME WellTyped, NEW p \in Queue!Poll, NEW q \in Queue!PollState,
         polls' = [polls EXCEPT ![p] = q], approved' = approved,
         vms' \in [Hosts -> SUBSET Tenants]
  PROVE  AgentsOK' /\ PollBecomes(p, q)
  BY DEF WellTyped, AgentsOK, PollBecomes

\* An ended poll is a well formed one.
LEMMA IdlePoll ==
  Queue!Idle \in Queue!PollState /\ Queue!Idle.pc = "idle"
  BY DEF Queue!Idle, Queue!PollState, Completed

\* What the updates of a poll make of it.
LEMMA MovedPoll ==
  ASSUME NEW q \in Queue!PollState, NEW pc \in {"idle"} \cup Queue!HandlerPc \cup Queue!AgentPc
  PROVE  /\ Queue!Moved(q, pc) \in Queue!PollState
         /\ Queue!Moved(q, pc).pc = pc /\ Queue!Moved(q, pc).cmd = q.cmd
         /\ Queue!Moved(q, pc).live = q.live /\ Queue!Moved(q, pc).result = q.result
  BY DEF Queue!Moved, Queue!PollState

\* What an execution makes of a poll.
LEMMA FinishedPoll ==
  ASSUME NEW q \in Queue!PollState, NEW res \in Completed
  PROVE  /\ Queue!Finished(q, res) \in Queue!PollState
         /\ Queue!Finished(q, res).pc = "executed" /\ Queue!Finished(q, res).cmd = q.cmd
         /\ Queue!Finished(q, res).live = q.live /\ Queue!Finished(q, res).result = res
<1>1. res \in Queue!Completed
  BY DEF Queue!Completed, Completed
<1>2. "executed" \in Queue!AgentPc
  BY DEF Queue!AgentPc
<1> QED  BY <1>1, <1>2, Zenon DEF Queue!Finished, Queue!PollState

\* A poll that returns goes on, or was for nobody.
LEMMA Returned ==
  ASSUME WellTyped, NEW p \in Queue!Poll, NEW pc \in Queue!HandlerPc \cup Queue!AgentPc,
         Queue!Return(p, pc), approved' = approved, vms' = vms
  PROVE  /\ AgentsOK'
         /\ \A o \in Queue!Poll : o # p => polls'[o] = polls[o]
         /\ \/ polls'[p] = Queue!Moved(polls[p], pc) /\ polls[p].live
            \/ polls'[p] = Queue!Idle
<1>1. polls[p] \in Queue!PollState /\ vms' \in [Hosts -> SUBSET Tenants]
  BY DEF WellTyped, AgentsOK
<1>2. Queue!Moved(polls[p], pc) \in Queue!PollState
  BY <1>1, MovedPoll
<1>3. CASE polls[p].live
  BY <1>1, <1>2, <1>3, PollWritten DEF Queue!Return, PollBecomes
<1>4. CASE ~polls[p].live
  BY <1>1, <1>4, IdlePoll, PollWritten DEF Queue!Return, PollBecomes
<1> QED  BY <1>3, <1>4

\* A step that leaves the rows alone.
LEMMA QuietPoll ==
  ASSUME WellTyped, InOrder, NEW p \in Queue!Poll, cmds' = cmds, executions' = executions,
         AgentsOK', \A o \in Queue!Poll : o # p => polls'[o] = polls[o], Works(p)'
  PROVE  Worked
<1>1. CommandsOK'
  BY DEF WellTyped, CommandsOK
<1>2. SameCommands
  BY DEF SameCommands, SameCommand
<1>3. \A o \in Queue!Poll : o # p => Works(o)'
  BY DEF InOrder, Works
<1>4. InOrder'
  BY <1>3, QuietKeepsOrder DEF SameRows
<1> QED  BY <1>1, <1>2, <1>4 DEF Worked

\* A poll that has ended claims nothing of any row.
LEMMA IdleWorks ==
  ASSUME NEW p, polls'[p] = Queue!Idle
  PROVE  Works(p)'
  BY IdlePoll DEF Works, HoldingPc, LatePc

\* A tick of the timer opens the one poll a host may have.
LEMMA StartPollStep ==
  ASSUME WellTyped, InOrder, NEW p \in Queue!Poll, Queue!StartPoll(p), p[2] = FirstSlot
  PROVE  /\ Worked
         /\ \A o \in Queue!Poll : o # p => polls'[o] = polls[o]
         /\ polls[p].pc = "idle" /\ polls'[p].pc = "polling"
<1>1. /\ polls' = [polls EXCEPT ![p] = Queue!Started] /\ approved' = approved
      /\ cmds' = cmds /\ executions' = executions /\ vms' = vms
      /\ polls[p].pc = "idle"
  BY DEF Queue!StartPoll, Queue!At
<1>2. Queue!Started \in Queue!PollState /\ Queue!Started.pc = "polling"
  BY DEF Queue!Started, Queue!PollState, Queue!HandlerPc
<1>3. AgentsOK' /\ PollBecomes(p, Queue!Started)
  BY <1>1, <1>2, PollWritten DEF WellTyped, AgentsOK
<1>4. Works(p)'
  BY <1>2, <1>3 DEF Works, PollBecomes, HoldingPc, LatePc
<1> QED  BY <1>1, <1>2, <1>3, <1>4, QuietPoll DEF PollBecomes

\* It selects the oldest queued row: everything newer waits.
LEMMA SelectPollStep ==
  ASSUME WellTyped, InOrder, NEW p \in Queue!Poll, Queue!SelectOldest(p)
  PROVE  /\ Worked
         /\ \A o \in Queue!Poll : o # p => polls'[o] = polls[o]
         /\ polls[p].pc = "polling"
         /\ \/ polls'[p].pc = "idle"
            \/ polls'[p].pc = "selected" /\ cmds[polls'[p].cmd].status = "queued"
<1>1. /\ polls[p].pc = "polling" /\ approved' = approved
      /\ cmds' = cmds /\ executions' = executions /\ vms' = vms
  BY DEF Queue!SelectOldest, Queue!At
<1>2. vms' \in [Hosts -> SUBSET Tenants] /\ polls[p] \in Queue!PollState /\ p[2] = FirstSlot
  BY <1>1 DEF WellTyped, AgentsOK, InOrder, Works
<1>3. CASE Queue!Abandon(p)
  <2>1. AgentsOK' /\ PollBecomes(p, Queue!Idle)
    BY <1>1, <1>2, <1>3, IdlePoll, PollWritten DEF Queue!Abandon
  <2> QED  BY <1>1, <2>1, QuietPoll, IdleWorks, IdlePoll DEF PollBecomes
<1>4. CASE \E c \in Queue!Waiting(p[1]) :
             /\ \A d \in Queue!Waiting(p[1]) : c <= d
             /\ polls' = [polls EXCEPT ![p] = Queue!Selected(polls[p], c)]
  <2>1. PICK c \in Queue!Waiting(p[1]) :
             /\ \A d \in Queue!Waiting(p[1]) : c <= d
             /\ polls' = [polls EXCEPT ![p] = Queue!Selected(polls[p], c)]
    BY <1>4
  <2>2. c \in DOMAIN cmds /\ cmds[c].host = p[1] /\ cmds[c].status = "queued"
    BY DEF Queue!Waiting
  <2>3. \A d \in DOMAIN cmds : d \in Nat
    BY DEF WellTyped, CommandsOK
  <2>4. \A d \in DOMAIN cmds :
            d # c /\ cmds[d].host = p[1] => (cmds[d].status = "queued" <=> d > c)
    <3> SUFFICES ASSUME NEW d \in DOMAIN cmds, d # c, cmds[d].host = p[1]
                 PROVE  cmds[d].status = "queued" <=> d > c
      OBVIOUS
    <3>1. cmds[d].status = "queued" => d > c
      BY <2>1, <2>2, <2>3 DEF Queue!Waiting
    <3>2. d > c => cmds[d].status = "queued"
      BY <2>2, <2>3 DEF InOrder
    <3> QED  BY <3>1, <3>2
  <2> DEFINE q == Queue!Selected(polls[p], c)
  <2>5. q \in Queue!PollState /\ q.pc = "selected" /\ q.cmd = c
    BY <1>2, <2>2, <2>3 DEF Queue!Selected, Queue!PollState, Queue!HandlerPc
  <2> HIDE DEF q
  <2>6. AgentsOK' /\ PollBecomes(p, q)
    BY <1>1, <1>2, <2>1, <2>5, PollWritten DEF q
  <2>7. Works(p)'
    BY <1>1, <1>2, <2>2, <2>4, <2>5, <2>6 DEF Works, PollBecomes, HoldingPc, LatePc, RowStatus
  <2> QED  BY <1>1, <2>2, <2>5, <2>6, <2>7, QuietPoll DEF PollBecomes
<1> QED  BY <1>3, <1>4 DEF Queue!SelectOldest

\* requireHost lets the reports of an approved host through.
LEMMA AuthoriseStep ==
  ASSUME WellTyped, InOrder, NEW p \in Queue!Poll, Queue!AuthoriseReport(p)
  PROVE  /\ Worked
         /\ \A o \in Queue!Poll : o # p => polls'[o] = polls[o]
         /\ polls'[p].cmd = polls[p].cmd /\ polls'[p].result = polls[p].result
         /\ \/ polls[p].pc = "claimed" /\ polls'[p].pc = "reportRunning"
            \/ polls[p].pc = "executed" /\ polls'[p].pc = "reportResult"
<1>1. /\ approved' = approved /\ cmds' = cmds /\ executions' = executions /\ vms' = vms
  BY DEF Queue!AuthoriseReport
<1>2. vms' \in [Hosts -> SUBSET Tenants] /\ polls[p] \in Queue!PollState /\ approved[p[1]]
  BY <1>1 DEF WellTyped, AgentsOK, Queue!Poll
<1>3. \/ polls[p].pc = "claimed" /\ Queue!Goto(p, "reportRunning")
      \/ polls[p].pc = "executed" /\ Queue!Goto(p, "reportResult")
  BY <1>2 DEF Queue!AuthoriseReport, Queue!At
<1>4. PICK pc \in {"reportRunning", "reportResult"} :
        /\ polls[p].pc = (IF pc = "reportRunning" THEN "claimed" ELSE "executed")
        /\ Queue!Goto(p, pc)
  BY <1>3
<1>5. AgentsOK' /\ PollBecomes(p, Queue!Moved(polls[p], pc))
  BY <1>1, <1>2, <1>4, MovedPoll, PollWritten DEF Queue!Goto, Queue!HandlerPc
<1>6. /\ polls'[p].pc = pc /\ polls'[p].cmd = polls[p].cmd
      /\ polls'[p].result = polls[p].result /\ polls'[p].live = polls[p].live
  BY <1>2, <1>5, MovedPoll DEF PollBecomes, Queue!HandlerPc
<1>7. Works(p)
  BY DEF InOrder
<1>8. Works(p)'
  BY <1>1, <1>4, <1>6, <1>7 DEF Works, HoldingPc, LatePc, RowStatus
<1>9. Worked
  BY <1>1, <1>5, <1>8, QuietPoll DEF PollBecomes
<1> QED  BY <1>4, <1>5, <1>6, <1>9 DEF PollBecomes

\* The claim takes the row that was selected, which is still queued.
LEMMA ClaimStep ==
  ASSUME WellTyped, InOrder, NEW p \in Queue!Poll, Queue!ClaimSelected(p),
         NEW c, c = polls[p].cmd
  PROVE  /\ Worked
         /\ \A o \in Queue!Poll : o # p => polls'[o] = polls[o]
         /\ Written(c, "claimed") /\ polls[p].pc = "selected" /\ c \in DOMAIN cmds
         /\ (polls'[p].pc = "claimed" /\ polls'[p].cmd = c) \/ polls'[p].pc = "idle"
         /\ cmds[c].status = "queued" /\ executions' = executions
<1>1. /\ polls[p].pc = "selected" /\ approved' = approved /\ executions' = executions /\ vms' = vms
      /\ cmds' = [cmds EXCEPT ![c] = Queue!Claimed(cmds[c])] /\ Queue!Return(p, "claimed")
  BY DEF Queue!ClaimSelected, Queue!At
<1>2. /\ c \in DOMAIN cmds /\ c \in Nat /\ cmds[c].host = p[1] /\ p[1] \in Hosts
      /\ cmds[c] \in CommandRow /\ cmds[c].tenant \in Tenants
      /\ RowStatus(polls[p], cmds[c].status)
      /\ polls[p] \in Queue!PollState
  BY <1>1, HeldCommand DEF HoldingPc
<1> DEFINE row == Queue!Claimed(cmds[c])
<1>3. /\ row \in CommandRow /\ row.host = cmds[c].host /\ row.tenant = cmds[c].tenant
      /\ row.type = cmds[c].type /\ row.payload = cmds[c].payload /\ row.status = "claimed"
  <2>1. cmds[c].attempts + 1 \in Nat
    BY <1>2 DEF CommandRow
  <2> QED  BY <1>2, <2>1, Zenon DEF Queue!Claimed, CommandRow, CommandStatus
<1> HIDE DEF row
<1>4. CommandsOK' /\ Written(c, "claimed")
  BY <1>1, <1>2, <1>3, ReplaceWrites DEF WellTyped, row
<1>5. /\ AgentsOK'
      /\ \A o \in Queue!Poll : o # p => polls'[o] = polls[o]
      /\ \/ polls'[p] = Queue!Moved(polls[p], "claimed") /\ polls[p].live
         \/ polls'[p] = Queue!Idle
  BY <1>1, Returned DEF Queue!AgentPc
<1>6. SameCommands
  BY <1>4 DEF Written, SameCommands, SameCommand
<1>7. /\ DOMAIN cmds' = DOMAIN cmds /\ cmds'[c].status = "claimed" /\ cmds'[c].host = cmds[c].host
      /\ \A d \in DOMAIN cmds : d # c => cmds'[d] = cmds[d]
  BY <1>4 DEF Written, SameCommand
<1>8. Works(p)
  BY DEF InOrder
<1>9. Works(p)' /\ ((polls'[p].pc = "claimed" /\ polls'[p].cmd = c) \/ polls'[p].pc = "idle")
  <2>1. CASE polls'[p] = Queue!Idle
    BY <2>1, IdleWorks, IdlePoll
  <2>2. CASE polls'[p] = Queue!Moved(polls[p], "claimed") /\ polls[p].live
    <3>1. /\ polls'[p].pc = "claimed" /\ polls'[p].cmd = c /\ polls'[p].live
      BY <1>2, <2>2, MovedPoll DEF Queue!AgentPc
    <3> QED  BY <1>1, <1>2, <1>7, <1>8, <3>1 DEF Works, HoldingPc, LatePc, RowStatus
  <2> QED  BY <1>5, <2>1, <2>2
<1>10. Ran(c)'
  BY <1>7 DEF Ran, Completed
<1>11. InOrder'
  BY <1>1, <1>2, <1>5, <1>6, <1>7, <1>9, <1>10, WriteKeepsOrder DEF HoldingPc
<1> QED  BY <1>1, <1>2, <1>4, <1>5, <1>6, <1>9, <1>11 DEF Worked, RowStatus

\* What a report writes into its row.
LEMMA RecordStep ==
  ASSUME WellTyped, InOrder, NEW p \in Queue!Poll, Queue!RecordResult(p),
         NEW c, c = polls[p].cmd
  PROVE  /\ Worked
         /\ \A o \in Queue!Poll : o # p => polls'[o] = polls[o]
         /\ polls'[p].cmd = c /\ polls'[p].result = polls[p].result
         /\ c \in DOMAIN cmds /\ executions' = executions
         /\ \/ /\ polls[p].pc = "reportRunning" /\ polls'[p].pc = "reconcileRunning"
               /\ cmds[c].status = "claimed" /\ Written(c, "running")
            \/ /\ polls[p].pc = "reportResult" /\ polls'[p].pc = "reconcileResult"
               /\ cmds[c].status = "running" /\ polls[p].result \in Completed
               /\ Written(c, polls[p].result)
<1>1. /\ approved' = approved /\ executions' = executions /\ vms' = vms
      /\ polls[p].pc \in {"reportRunning", "reportResult"}
  BY DEF Queue!RecordResult, Queue!At
<1>2. /\ c \in DOMAIN cmds /\ c \in Nat /\ cmds[c].host = p[1] /\ p[1] \in Hosts
      /\ cmds[c] \in CommandRow /\ cmds[c].tenant \in Tenants
      /\ RowStatus(polls[p], cmds[c].status)
      /\ polls[p] \in Queue!PollState
  BY <1>1, HeldCommand DEF HoldingPc
<1>3. Works(p)
  BY DEF InOrder
<1>4. PICK s, pc :
        /\ \/ /\ polls[p].pc = "reportRunning" /\ pc = "reconcileRunning"
              /\ cmds[c].status = "claimed" /\ s = "running"
           \/ /\ polls[p].pc = "reportResult" /\ pc = "reconcileResult"
              /\ cmds[c].status = "running" /\ polls[p].result \in Completed
              /\ s = polls[p].result
        /\ Queue!ReplaceStatus(c, s) /\ Queue!Goto(p, pc)
  BY <1>2, <1>3 DEF Queue!RecordResult, Queue!At, RowStatus, Works, LatePc
<1>5. s \in {"running"} \cup Completed /\ pc \in {"reconcileRunning", "reconcileResult"}
  BY <1>4
<1> DEFINE row == Queue!WithStatus(cmds[c], s)
<1>6. /\ row \in CommandRow /\ row.host = cmds[c].host /\ row.tenant = cmds[c].tenant
      /\ row.type = cmds[c].type /\ row.payload = cmds[c].payload /\ row.status = s
  BY <1>2, <1>5 DEF Queue!WithStatus, CommandRow, CommandStatus, Completed
<1> HIDE DEF row
<1>7. CommandsOK' /\ Written(c, s)
  BY <1>1, <1>2, <1>4, <1>6, ReplaceWrites DEF WellTyped, row, Queue!ReplaceStatus
<1>8. AgentsOK' /\ PollBecomes(p, Queue!Moved(polls[p], pc))
  <2>1. Queue!Moved(polls[p], pc) \in Queue!PollState
    BY <1>2, <1>5, MovedPoll DEF Queue!HandlerPc
  <2>2. polls' = [polls EXCEPT ![p] = Queue!Moved(polls[p], pc)]
    BY <1>4 DEF Queue!Goto
  <2>3. vms' \in [Hosts -> SUBSET Tenants]
    BY <1>1 DEF WellTyped, AgentsOK
  <2> QED  BY <1>1, <2>1, <2>2, <2>3, PollWritten
<1>9. /\ polls'[p].pc = pc /\ polls'[p].cmd = c
      /\ polls'[p].result = polls[p].result /\ polls'[p].live = polls[p].live
  BY <1>2, <1>5, <1>8, MovedPoll DEF PollBecomes, Queue!HandlerPc
<1>10. SameCommands
  BY <1>7 DEF Written, SameCommands, SameCommand
<1>11. /\ DOMAIN cmds' = DOMAIN cmds /\ cmds'[c].status = s /\ cmds'[c].host = cmds[c].host
       /\ \A d \in DOMAIN cmds : d # c => cmds'[d] = cmds[d]
  BY <1>7 DEF Written, SameCommand
<1>12. Works(p)'
  <2>1. \A d \in DOMAIN cmds' :
            d # c /\ cmds'[d].host = p[1] => (cmds'[d].status = "queued" <=> d > c)
    BY <1>1, <1>3, <1>11 DEF Works, HoldingPc
  <2> QED  BY <1>1, <1>2, <1>3, <1>4, <1>9, <1>11, <2>1 DEF Works, HoldingPc, LatePc, RowStatus
<1>13. Ran(c)'
  BY <1>1, <1>3, <1>4, <1>11 DEF Ran, Completed, Works, LatePc
<1>14. InOrder'
  BY <1>1, <1>2, <1>5, <1>8, <1>10, <1>11, <1>12, <1>13, WriteKeepsOrder
  DEF HoldingPc, PollBecomes, Completed
<1>15. Worked
  BY <1>7, <1>8, <1>10, <1>14 DEF Worked
<1> QED  BY <1>1, <1>2, <1>4, <1>7, <1>8, <1>9, <1>15 DEF PollBecomes

\* What reconcileTenant writes into the tenant of a row.
LEMMA ReconcileStep ==
  ASSUME WellTyped, InOrder, NEW p \in Queue!Poll, Queue!ReconcileTenant(p),
         NEW c, c = polls[p].cmd, NEW t, t = cmds[c].tenant
  PROVE  /\ Worked
         /\ \A o \in Queue!Poll : o # p => polls'[o] = polls[o]
         /\ cmds' = cmds /\ executions' = executions
         /\ c \in DOMAIN cmds /\ t \in Tenants
         /\ \/ /\ polls[p].pc = "reconcileRunning"
               /\ (polls'[p].cmd = c /\ polls'[p].pc = "running") \/ polls'[p].pc = "idle"
               /\ status' = [status EXCEPT ![t] = Reconciled(cmds[c].type, "running", @)]
            \/ /\ polls[p].pc = "reconcileResult" /\ polls'[p].pc = "idle"
               /\ polls[p].result \in Completed
               /\ status' = [status EXCEPT ![t] = Reconciled(cmds[c].type, polls[p].result, @)]
<1>1. /\ approved' = approved /\ executions' = executions /\ vms' = vms /\ cmds' = cmds
      /\ polls[p].pc \in {"reconcileRunning", "reconcileResult"}
  BY DEF Queue!ReconcileTenant, Queue!At
<1>2. /\ c \in DOMAIN cmds /\ c \in Nat /\ cmds[c].host = p[1] /\ p[1] \in Hosts
      /\ cmds[c] \in CommandRow /\ t \in Tenants
      /\ RowStatus(polls[p], cmds[c].status)
      /\ polls[p] \in Queue!PollState
  BY <1>1, HeldCommand DEF HoldingPc
<1>3. Works(p) /\ t # NoTenant
  BY <1>2, NoTenantAssumption DEF InOrder
<1>4. CASE polls[p].pc = "reconcileRunning"
  <2>1. /\ status' = [status EXCEPT ![t] = Reconciled(cmds[c].type, "running", @)]
        /\ Queue!Return(p, "running")
    BY <1>3, <1>4 DEF Queue!ReconcileTenant, Queue!At, Queue!Reconcile,
         Queue!Reconciled, Reconciled, Queue!OnSuccess, OnSuccess
  <2>2. /\ AgentsOK'
        /\ \A o \in Queue!Poll : o # p => polls'[o] = polls[o]
        /\ \/ polls'[p] = Queue!Moved(polls[p], "running") /\ polls[p].live
           \/ polls'[p] = Queue!Idle
    BY <1>1, <2>1, Returned DEF Queue!AgentPc
  <2>3. Works(p)' /\ ((polls'[p].cmd = c /\ polls'[p].pc = "running") \/ polls'[p].pc = "idle")
    <3>1. CASE polls'[p] = Queue!Idle
      BY <3>1, IdleWorks, IdlePoll
    <3>2. CASE polls'[p] = Queue!Moved(polls[p], "running") /\ polls[p].live
      <4>1. /\ polls'[p].pc = "running" /\ polls'[p].cmd = c /\ polls'[p].live
        BY <1>2, <3>2, MovedPoll DEF Queue!AgentPc
      <4> QED  BY <1>1, <1>2, <1>3, <1>4, <4>1 DEF Works, HoldingPc, LatePc, RowStatus
    <3> QED  BY <2>2, <3>1, <3>2
  <2>4. Worked
    BY <1>1, <2>2, <2>3, QuietPoll
  <2> QED  BY <1>1, <1>2, <1>4, <2>1, <2>2, <2>3, <2>4
<1>5. CASE polls[p].pc = "reconcileResult"
  <2>1. /\ status' = [status EXCEPT ![t] = Reconciled(cmds[c].type, polls[p].result, @)]
        /\ Queue!Abandon(p)
    BY <1>3, <1>5 DEF Queue!ReconcileTenant, Queue!At, Queue!Reconcile,
         Queue!Reconciled, Reconciled, Queue!OnSuccess, OnSuccess
  <2>2. AgentsOK' /\ PollBecomes(p, Queue!Idle)
    BY <1>1, <2>1, IdlePoll, PollWritten DEF Queue!Abandon, WellTyped, AgentsOK
  <2>3. Worked
    BY <1>1, <2>2, QuietPoll, IdleWorks DEF PollBecomes
  <2>4. polls[p].result \in Completed
    BY <1>3, <1>5 DEF Works, LatePc
  <2> QED  BY <1>1, <1>2, <1>5, <2>1, <2>2, <2>3, <2>4, IdlePoll DEF PollBecomes
<1> QED  BY <1>1, <1>4, <1>5

\* The command c of t has one of its outcomes at the agent of p.
HasOutcome(p, c, t) ==
    \E o \in Queue!Outcomes(cmds[c].type, cmds[c].payload, t \in vms[p[1]]) :
        /\ polls'[p].result = o.result
        /\ vms' = [vms EXCEPT ![p[1]] = IF o.vm THEN @ \cup {t} ELSE @ \ {t}]

\* What the agent makes of the command.
LEMMA ExecuteStep ==
  ASSUME WellTyped, InOrder, NEW p \in Queue!Poll, Queue!Execute(p),
         NEW c, c = polls[p].cmd, NEW t, t = cmds[c].tenant
  PROVE  /\ Worked
         /\ \A o \in Queue!Poll : o # p => polls'[o] = polls[o]
         /\ polls[p].pc = "running" /\ polls'[p].pc = "executed" /\ polls'[p].cmd = c
         /\ cmds' = cmds /\ \A d \in DOMAIN cmds : d # c => executions'[d] = executions[d]
         /\ HasOutcome(p, c, t)
<1>1. approved' = approved /\ cmds' = cmds /\ polls[p].pc = "running"
  BY DEF Queue!Execute, Queue!At
<1>2. /\ c \in DOMAIN cmds /\ c \in Nat /\ cmds[c].host = p[1] /\ p[1] \in Hosts
      /\ cmds[c] \in CommandRow /\ t \in Tenants
      /\ RowStatus(polls[p], cmds[c].status)
      /\ polls[p] \in Queue!PollState
  BY <1>1, HeldCommand DEF HoldingPc
<1>3. Works(p)
  BY DEF InOrder
<1>4. PICK o \in Queue!Outcomes(cmds[c].type, cmds[c].payload, t \in vms[p[1]]) :
        /\ polls' = [polls EXCEPT ![p] = Queue!Finished(polls[p], o.result)]
        /\ vms' = [vms EXCEPT ![p[1]] = IF o.vm THEN @ \cup {t} ELSE @ \ {t}]
        /\ executions' = [executions EXCEPT ![c] = @ + 1]
  BY DEF Queue!Execute
<1>5. o.result \in Completed
  BY <1>4 DEF Queue!Outcomes, Queue!Failed, Completed
<1>6. vms' \in [Hosts -> SUBSET Tenants]
  BY <1>2, <1>4 DEF WellTyped, AgentsOK
<1>7. /\ AgentsOK' /\ PollBecomes(p, Queue!Finished(polls[p], o.result))
  BY <1>1, <1>2, <1>4, <1>5, <1>6, FinishedPoll, PollWritten
<1>8. /\ polls'[p].pc = "executed" /\ polls'[p].cmd = c
      /\ polls'[p].result = o.result /\ polls'[p].live = polls[p].live
  BY <1>2, <1>5, <1>7, FinishedPoll DEF PollBecomes
<1>9. /\ executions \in Seq(Nat) /\ c \in DOMAIN executions
      /\ executions[c] \in Nat
  <2>1. executions \in Seq(Nat) /\ c \in DOMAIN executions
    BY <1>2 DEF WellTyped, CommandsOK
  <2> QED  BY <2>1
<1>10. /\ executions' \in Seq(Nat) /\ DOMAIN executions' = DOMAIN executions
       /\ executions'[c] > 0
       /\ \A d \in DOMAIN executions : d # c => executions'[d] = executions[d]
  <2> DEFINE n == executions[c] + 1
  <2>1. n \in Nat /\ n > 0 /\ executions' = [executions EXCEPT ![c] = n]
    BY <1>4, <1>9
  <2> HIDE DEF n
  <2> QED  BY <1>9, <2>1
<1>11. CommandsOK' /\ SameCommands /\ DOMAIN executions = DOMAIN cmds
  BY <1>1, <1>10 DEF WellTyped, CommandsOK, SameCommands, SameCommand
<1>12. Works(p)'
  BY <1>1, <1>2, <1>3, <1>5, <1>8, <1>10 DEF Works, HoldingPc, LatePc, RowStatus
<1>13. Ran(c)' /\ cmds[c].status = "running"
  BY <1>1, <1>2, <1>10 DEF Ran, Completed, RowStatus
<1>14. InOrder'
  BY <1>1, <1>2, <1>7, <1>10, <1>11, <1>12, <1>13, WriteKeepsOrder
  DEF HoldingPc, PollBecomes
<1>15. Worked
  BY <1>7, <1>11, <1>14 DEF Worked
<1>16. HasOutcome(p, c, t)
  BY <1>4, <1>8 DEF HasOutcome
<1> QED  BY <1>1, <1>7, <1>8, <1>10, <1>11, <1>15, <1>16 DEF PollBecomes

-----------------------------------------------------------------------------
\* A death leaves a poll as it is, ends it, or leaves its handler alone.
Left(p) ==
    \/ polls'[p] = polls[p]
    \/ polls'[p] = Queue!Idle
    \/ /\ polls[p].pc \in {"idle"} \cup Queue!HandlerPc
       /\ polls'[p] = Queue!Orphaned(polls[p])

\* A poll nobody waits for any more keeps its place.
LEMMA OrphanedPoll ==
  ASSUME NEW q \in Queue!PollState
  PROVE  /\ Queue!Orphaned(q) \in Queue!PollState
         /\ Queue!Orphaned(q).pc = q.pc /\ Queue!Orphaned(q).cmd = q.cmd
         /\ Queue!Orphaned(q).result = q.result
  BY DEF Queue!Orphaned, Queue!PollState

\* What a death leaves of a poll still fits its row.
LEMMA LeftWorks ==
  ASSUME WellTyped, InOrder, NEW p \in Queue!Poll, Left(p), cmds' = cmds,
         executions' = executions
  PROVE  /\ Works(p)' /\ polls'[p] \in Queue!PollState
         /\ polls'[p].pc # "idle" =>
              /\ polls'[p].pc = polls[p].pc /\ polls'[p].cmd = polls[p].cmd
              /\ polls'[p].result = polls[p].result
<1>1. polls[p] \in Queue!PollState /\ Works(p)
  BY DEF WellTyped, AgentsOK, InOrder
<1>2. CASE polls'[p] = polls[p]
  BY <1>1, <1>2 DEF Works
<1>3. CASE polls'[p] = Queue!Idle
  BY <1>3, IdlePoll, IdleWorks
<1>4. CASE polls[p].pc \in {"idle"} \cup Queue!HandlerPc /\ polls'[p] = Queue!Orphaned(polls[p])
  <2>1. /\ polls'[p] \in Queue!PollState /\ polls'[p].pc = polls[p].pc
        /\ polls'[p].cmd = polls[p].cmd /\ polls'[p].result = polls[p].result
    BY <1>1, <1>4, OrphanedPoll
  <2>2. polls[p].pc \notin {"claimed", "running", "executed"}
    BY <1>4 DEF Queue!HandlerPc
  <2> QED  BY <1>1, <2>1, <2>2 DEF Works, HoldingPc, LatePc, RowStatus
<1> QED  BY <1>2, <1>3, <1>4 DEF Left

\* A death keeps the work in order.
LEMMA DeathKeeps ==
  ASSUME WellTyped, InOrder, \A p \in Queue!Poll : Left(p),
         polls' = [p \in Queue!Poll |-> polls'[p]],
         approved' = approved, vms' \in [Hosts -> SUBSET Tenants],
         cmds' = cmds, executions' = executions
  PROVE  Worked
<1>1. \A p \in Queue!Poll : Works(p)' /\ polls'[p] \in Queue!PollState
  BY LeftWorks
<1>2. AgentsOK'
  BY <1>1 DEF WellTyped, AgentsOK
<1>3. CommandsOK' /\ SameCommands /\ SameRows
  BY DEF WellTyped, CommandsOK, SameCommands, SameCommand, SameRows
<1> QED  BY <1>1, <1>2, <1>3, QuietKeepsOrder DEF Worked

\* What the death of an agent leaves.
LEMMA AgentCrashLeaves ==
  ASSUME WellTyped, InOrder, NEW h \in Hosts, Queue!AgentCrash(h), executions' = executions
  PROVE  /\ Worked /\ \A p \in Queue!Poll : Left(p)
         /\ \A p \in Queue!Poll : p[1] # h => polls'[p] = polls[p]
         /\ cmds' = cmds /\ status' = status /\ vms' = [vms EXCEPT ![h] = {}]
<1>1. /\ polls' = [p \in Queue!Poll |->
                     IF p[1] # h \/ ~polls[p].live THEN polls[p]
                     ELSE IF polls[p].pc \in Queue!AgentPc THEN Queue!Idle
                     ELSE Queue!Orphaned(polls[p])]
      /\ vms' = [vms EXCEPT ![h] = {}] /\ cmds' = cmds /\ status' = status
      /\ approved' = approved
  BY DEF Queue!AgentCrash
<1>2. \A p \in Queue!Poll : Left(p)
  <2> SUFFICES ASSUME NEW p \in Queue!Poll PROVE Left(p)
    OBVIOUS
  <2>1. polls[p] \in Queue!PollState
    BY DEF WellTyped, AgentsOK
  <2>2. polls[p].pc \in {"idle"} \cup Queue!HandlerPc \cup Queue!AgentPc
    BY <2>1 DEF Queue!PollState
  <2> QED  BY <1>1, <2>2 DEF Left
<1>3. vms' \in [Hosts -> SUBSET Tenants] /\ polls' = [p \in Queue!Poll |-> polls'[p]]
  BY <1>1 DEF WellTyped, AgentsOK
<1>4. Worked
  BY <1>1, <1>2, <1>3, DeathKeeps
<1> QED  BY <1>1, <1>2, <1>4

\* What the death of the API leaves.
LEMMA ApiCrashLeaves ==
  ASSUME WellTyped, InOrder, Queue!ApiCrash, executions' = executions
  PROVE  /\ Worked /\ \A p \in Queue!Poll : Left(p)
         /\ \A p \in Queue!Poll :
               polls'[p] = IF polls[p].pc \in Queue!HandlerPc THEN Queue!Idle ELSE polls[p]
         /\ cmds' = cmds /\ status' = status /\ vms' = vms
<1>1. /\ polls' = [p \in Queue!Poll |->
                     IF polls[p].pc \in Queue!HandlerPc THEN Queue!Idle ELSE polls[p]]
      /\ vms' = vms /\ cmds' = cmds /\ status' = status /\ approved' = approved
  BY DEF Queue!ApiCrash
<1>2. \A p \in Queue!Poll :
         polls'[p] = IF polls[p].pc \in Queue!HandlerPc THEN Queue!Idle ELSE polls[p]
  BY <1>1
<1>3. \A p \in Queue!Poll : Left(p)
  BY <1>2 DEF Left
<1>4. vms' \in [Hosts -> SUBSET Tenants] /\ polls' = [p \in Queue!Poll |-> polls'[p]]
  BY <1>1 DEF WellTyped, AgentsOK
<1>5. Worked
  BY <1>1, <1>3, <1>4, DeathKeeps
<1> QED  BY <1>1, <1>2, <1>3, <1>5

-----------------------------------------------------------------------------
(***************************************************************************)
(* What the agents know of was made by a creation, and nothing has ended it.*)
(***************************************************************************)

\* A report that is not silent about its tenant has a command behind it.
Backed(t) ==
    \/ status'[t] = status[t]
    \/ /\ status'[t] \in {"active", "suspended", "failed", "deleted"}
       /\ status'[t] \in {"suspended", "deleted"} => HasRemoval(t)
       /\ Service!CommandsFor(t) # {}

\* What happens to the rows leaves requests, tenants and commands in agreement.
LEMMA QueueAgrees ==
  ASSUME WellTyped, AllAgree, SameCommands,
         reqs' = reqs \/ \A r \in Requests : reqs'[r].tenant = NoTenant,
         assigned' = assigned, \A t \in Tenants : Backed(t)
  PROVE  AllAgree'
<1> SUFFICES ASSUME NEW t \in Tenants PROVE Agrees(t)'
  BY DEF AllAgree
<1>1. Agrees(t) /\ Backed(t)
  BY DEF AllAgree
<1>2. (status[t] = "absent" <=> status'[t] = "absent") /\ Row(t)'
  BY <1>1, SameCommandsSay DEF Agrees, Row, Backed, Follows
<1>3. \A r \in Requests : reqs'[r].tenant = t => reqs' = reqs
  BY NoTenantAssumption
<1>4. \A r \in Requests : reqs'[r].tenant = t => Serves(reqs[r], t)'
  <2> SUFFICES ASSUME NEW r \in Requests, reqs'[r].tenant = t PROVE Serves(reqs[r], t)'
    OBVIOUS
  <2>1. reqs'[r] = reqs[r] /\ Serves(reqs[r], t)
    BY <1>1, <1>3 DEF Agrees
  <2> QED  BY <1>2, <2>1, SameCommandsSay DEF Serves
<1>5. \A r, o \in Requests : reqs'[r].tenant = t /\ reqs'[o].tenant = t => r = o
  BY <1>1, <1>3 DEF Agrees
<1> QED  BY <1>1, <1>2, <1>4, <1>5, StayingAgrees

\* What reconcileTenant may make of a status.
LEMMA ReconciledIs ==
  ASSUME NEW ty, NEW s, NEW cur, NEW n, n = Reconciled(ty, s, cur)
  PROVE  /\ n = cur \/ n \in {"active", "suspended", "failed", "deleted"}
         /\ n = "suspended" => n = cur \/ ty = "stop_tenant"
         /\ n = "deleted" => n = cur \/ ty = "delete_tenant"
         /\ n = "failed" => n = cur \/ (ty = "create_tenant" /\ s # "succeeded")
         /\ ty = "create_tenant" => n = IF s = "succeeded" THEN "active" ELSE "failed"
  BY DEF Reconciled, OnSuccess

\* A write of reconcileTenant keeps the tenants' rows well formed, and has its command.
LEMMA ReconcileBacked ==
  ASSUME WellTyped, NEW c \in DOMAIN cmds, NEW t \in Tenants, t = cmds[c].tenant, NEW s,
         status' = [status EXCEPT ![t] = Reconciled(cmds[c].type, s, @)],
         assigned' = assigned, limits' = limits
  PROVE  TablesOK' /\ \A u \in Tenants : Backed(u)
<1>1. PICK n : n = Reconciled(cmds[c].type, s, status[t])
  OBVIOUS
<1>2. status' = [status EXCEPT ![t] = n]
  BY <1>1
<1>3. /\ n = status[t] \/ n \in {"active", "suspended", "failed", "deleted"}
      /\ n = "suspended" => n = status[t] \/ cmds[c].type = "stop_tenant"
      /\ n = "deleted" => n = status[t] \/ cmds[c].type = "delete_tenant"
  BY <1>1, ReconciledIs
<1>4. status'[t] = n /\ \A u \in Tenants : u # t => status'[u] = status[u]
  BY <1>2 DEF WellTyped, TablesOK
<1>5. TablesOK'
  BY <1>2, <1>3 DEF WellTyped, TablesOK, TenantStatus
<1>6. c \in Service!CommandsFor(t)
  BY DEF Service!CommandsFor
<1>7. Backed(t)
  BY <1>3, <1>4, <1>6 DEF Backed, HasRemoval, Removal
<1> QED  BY <1>4, <1>5, <1>7 DEF Backed

-----------------------------------------------------------------------------
Shown == {"active", "suspended", "failed", "deleted"}

\* The creation c of t has made the MicroVM of t that h knows of.
Made(h, t, c) ==
    /\ c \in Service!CommandsFor(t) /\ Creation(c)
    /\ cmds[c].host = h /\ cmds[c].status \in {"running", "succeeded"}
    /\ \A p \in Queue!Poll :
          Holding(p, c) => polls[p].pc \in LatePc /\ polls[p].result = "succeeded"
    /\ status[t] = "failed" /\ ~crashed => \E p \in Queue!Poll : Holding(p, c)

\* Its creation has made it, no command that ends it has run, and its status is one
\* that a report or an action shows.
Created(h, t) ==
    /\ status[t] \in Shown
    /\ \A c \in Service!CommandsFor(t) : Removal(c) => executions[c] = 0
    /\ \E c \in DOMAIN cmds : Made(h, t, c)

\* What the agents know of, their creations have made; a creation that runs is shown.
Machines ==
    /\ \A h \in Hosts : \A t \in vms[h] : Created(h, t)
    /\ \A p \in Queue!Poll :
          polls[p].pc \in LatePc \cup {"running"} /\ Creation(polls[p].cmd)
            => status[cmds[polls[p].cmd].tenant] \in Shown

\* The invariant where polls do not overlap.
PlaneInv == use # "overlap" => WellTyped /\ AllAgree /\ InOrder /\ Machines

-----------------------------------------------------------------------------
\* A creation that made a MicroVM, seen after a step that is kind to it.
LEMMA CreatedStays ==
  ASSUME NEW t \in Tenants, NEW h, Created(h, t), SameCommands, crashed => crashed',
         status'[t] = status[t] \/ status'[t] \in {"active", "suspended", "deleted"},
         \A c \in Service!CommandsFor(t) : Removal(c) => executions'[c] = executions[c],
         \A c \in DOMAIN cmds : Made(h, t, c) =>
            /\ cmds'[c].status \in {"running", "succeeded"}
            /\ \A p \in Queue!Poll : Holding(p, c)' =>
                  /\ Holding(p, c) /\ polls'[p].pc \in LatePc
                  /\ polls'[p].result = polls[p].result
            /\ status'[t] = "failed" /\ ~crashed' =>
                  \A p \in Queue!Poll : Holding(p, c) => Holding(p, c)'
  PROVE  Created(h, t)'
<1>1. PICK c \in DOMAIN cmds : Made(h, t, c)
  BY DEF Created
<1>2. /\ Service!CommandsFor(t)' = Service!CommandsFor(t) /\ DOMAIN cmds' = DOMAIN cmds
      /\ cmds'[c].host = cmds[c].host
  BY SameCommandsSay DEF SameCommands, SameCommand
<1>3. \A d \in Service!CommandsFor(t) : (Removal(d)' <=> Removal(d)) /\ (Creation(d)' <=> Creation(d))
  BY SameCommandsSay DEF Service!CommandsFor
<1>4. Made(h, t, c)'
  <2>1. c \in Service!CommandsFor(t)' /\ Creation(c)' /\ cmds'[c].host = h
        /\ cmds'[c].status \in {"running", "succeeded"}
    BY <1>1, <1>2, <1>3 DEF Made
  <2>2. \A p \in Queue!Poll :
          Holding(p, c)' => polls'[p].pc \in LatePc /\ polls'[p].result = "succeeded"
    BY <1>1 DEF Made
  <2>3. status'[t] = "failed" /\ ~crashed' => \E p \in Queue!Poll : Holding(p, c)'
    <3>1. status'[t] = "failed" /\ ~crashed' => status[t] = "failed" /\ ~crashed
      OBVIOUS
    <3> QED  BY <1>1, <3>1 DEF Made
  <2> QED  BY <2>1, <2>2, <2>3 DEF Made
<1>5. status'[t] \in Shown
  BY DEF Created, Shown
<1>6. \A d \in Service!CommandsFor(t)' : Removal(d)' => executions'[d] = 0
  BY <1>2, <1>3 DEF Created
<1> QED  BY <1>1, <1>2, <1>4, <1>5, <1>6 DEF Created

\* The requests never touch what a creation has made.
LEMMA GrowKeepsMachines ==
  ASSUME WellTyped, AllAgree, InOrder, Machines, Grown, \A t \in Tenants : Mild(t),
         polls' = polls, vms' = vms, crashed' = crashed
  PROVE  Machines'
<1>1. /\ \A c \in DOMAIN cmds : c \in DOMAIN cmds' /\ cmds'[c] = cmds[c] /\ executions'[c] = executions[c]
      /\ \A c \in DOMAIN cmds' : c \notin DOMAIN cmds => executions'[c] = 0
  BY DEF Grown, SameRows, Joined
<1>2. ASSUME NEW h \in Hosts, NEW t \in vms[h]
      PROVE  Created(h, t)'
  <2>1. t \in Tenants /\ Created(h, t)
    BY DEF WellTyped, AgentsOK, Machines
  <2>2. PICK c \in DOMAIN cmds : Made(h, t, c)
    BY <2>1 DEF Created
  <2>3. Service!CommandsFor(t) # {}
    BY <2>2 DEF Made
  <2>4. status'[t] = status[t] \/ status'[t] \in {"active", "suspended", "deleted"}
    BY <2>1, <2>3 DEF Mild
  <2>5. \A d \in Service!CommandsFor(t)' : Removal(d)' => executions'[d] = 0
    BY <1>1, <2>1 DEF Created, Service!CommandsFor, Removal
  <2>6. Made(h, t, c)'
    BY <1>1, <2>2, <2>4 DEF Made, Service!CommandsFor, Creation, Holding
  <2> QED  BY <1>1, <2>1, <2>4, <2>5, <2>6 DEF Created, Shown
<1>3. ASSUME NEW p \in Queue!Poll, polls[p].pc \in LatePc \cup {"running"},
             Creation(polls[p].cmd)'
      PROVE  status'[cmds'[polls[p].cmd].tenant] \in Shown
  <2>1. PICK c : c = polls[p].cmd
    OBVIOUS
  <2>2. polls[p].pc \in HoldingPc
    BY <1>3 DEF LatePc, HoldingPc
  <2>3. c \in DOMAIN cmds /\ cmds[c].tenant \in Tenants
    BY <2>1, <2>2, HeldCommand
  <2>4. PICK t \in Tenants : t = cmds[c].tenant
    BY <2>3
  <2>5. Creation(c) /\ status[t] \in Shown /\ cmds'[c].tenant = t
    BY <1>1, <1>3, <2>1, <2>3, <2>4 DEF Machines, Creation
  <2>6. Mild(t) /\ c \in Service!CommandsFor(t)
    BY <2>3, <2>4 DEF Service!CommandsFor
  <2> QED  BY <2>1, <2>5, <2>6 DEF Mild, Shown
<1> QED  BY <1>2, <1>3 DEF Machines

\* A step of a poll that writes no tenant and runs nothing.
LEMMA PollKeepsMachines ==
  ASSUME WellTyped, AllAgree, InOrder, Machines, NEW p \in Queue!Poll, SameCommands,
         \A o \in Queue!Poll : o # p => polls'[o] = polls[o],
         vms' = vms, crashed' = crashed, status' = status, executions' = executions,
         \A c \in DOMAIN cmds :
            /\ cmds[c].status \in {"running", "succeeded"}
            /\ Holding(p, c) => polls[p].pc \in LatePc /\ polls[p].result = "succeeded"
            => /\ cmds'[c].status \in {"running", "succeeded"}
               /\ Holding(p, c)' <=> Holding(p, c)
               /\ Holding(p, c) => polls'[p].pc \in LatePc /\ polls'[p].result = polls[p].result,
         polls'[p].pc \in LatePc \cup {"running"} =>
            polls[p].pc \in LatePc \cup {"running"} /\ polls'[p].cmd = polls[p].cmd
  PROVE  Machines'
<1>1. ASSUME NEW h \in Hosts, NEW t \in vms[h]
      PROVE  Created(h, t)'
  <2>1. t \in Tenants /\ Created(h, t)
    BY DEF WellTyped, AgentsOK, Machines
  <2>2. ASSUME NEW c \in DOMAIN cmds, Made(h, t, c)
        PROVE  /\ cmds'[c].status \in {"running", "succeeded"}
               /\ \A o \in Queue!Poll : Holding(o, c)' =>
                     /\ Holding(o, c) /\ polls'[o].pc \in LatePc
                     /\ polls'[o].result = polls[o].result
               /\ \A o \in Queue!Poll : Holding(o, c) => Holding(o, c)'
    <3>1. /\ cmds[c].status \in {"running", "succeeded"}
          /\ \A o \in Queue!Poll :
                Holding(o, c) => polls[o].pc \in LatePc /\ polls[o].result = "succeeded"
      BY <2>2 DEF Made
    <3>2. /\ cmds'[c].status \in {"running", "succeeded"}
          /\ Holding(p, c)' <=> Holding(p, c)
          /\ Holding(p, c) => polls'[p].pc \in LatePc /\ polls'[p].result = polls[p].result
      BY <3>1
    <3>3. \A o \in Queue!Poll : o # p => (Holding(o, c)' <=> Holding(o, c))
      BY DEF Holding
    <3> QED  BY <3>1, <3>2, <3>3
  <2> QED  BY <2>1, <2>2, CreatedStays
<1>2. ASSUME NEW o \in Queue!Poll, polls'[o].pc \in LatePc \cup {"running"},
             Creation(polls[o].cmd)'
      PROVE  status'[cmds'[polls'[o].cmd].tenant] \in Shown
  <2>1. PICK c : c = polls[o].cmd
    OBVIOUS
  <2>2. polls[o].pc \in LatePc \cup {"running"} /\ polls'[o].cmd = c
    BY <1>2, <2>1
  <2>3. c \in DOMAIN cmds
    BY <2>1, <2>2, HeldCommand DEF LatePc, HoldingPc
  <2>4. Creation(c) /\ cmds'[c].tenant = cmds[c].tenant
    BY <1>2, <2>2, <2>3, SameCommandsSay DEF SameCommands, SameCommand
  <2>5. status[cmds[c].tenant] \in Shown
    BY <2>1, <2>2, <2>4 DEF Machines
  <2> QED  BY <2>2, <2>4, <2>5
<1> QED  BY <1>1, <1>2 DEF Machines

\* Polling, and asking to report, change no registry and no row.
LEMMA PollingKeepsMachines ==
  ASSUME WellTyped, AllAgree, InOrder, Machines, NEW p \in Queue!Poll,
         crashed' = crashed,
         \/ Queue!StartPoll(p) /\ p[2] = FirstSlot
         \/ Queue!SelectOldest(p)
  PROVE  Machines'
<1>1. /\ SameCommands
      /\ \A o \in Queue!Poll : o # p => polls'[o] = polls[o]
      /\ polls[p].pc \in {"idle", "polling"}
      /\ \/ polls'[p].pc \in {"idle", "polling"}
         \/ polls'[p].pc = "selected" /\ cmds[polls'[p].cmd].status = "queued"
  BY StartPollStep, SelectPollStep DEF Worked
<1>2. vms' = vms /\ status' = status /\ executions' = executions /\ cmds' = cmds
  BY DEF Queue!StartPoll, Queue!SelectOldest
<1>3. \A c \in DOMAIN cmds : ~Holding(p, c) /\ (Holding(p, c)' => cmds[c].status = "queued")
  BY <1>1 DEF Holding, HoldingPc
<1>4. polls'[p].pc \notin LatePc \cup {"running"}
  BY <1>1 DEF LatePc
<1> QED  BY <1>1, <1>2, <1>3, <1>4, PollKeepsMachines

\* A claim is of a row no MicroVM comes from yet.
LEMMA ClaimKeepsMachines ==
  ASSUME WellTyped, AllAgree, InOrder, Machines, NEW p \in Queue!Poll,
         crashed' = crashed, Queue!ClaimSelected(p)
  PROVE  Machines'
<1>1. PICK c : c = polls[p].cmd
  OBVIOUS
<1>2. /\ SameCommands
      /\ \A o \in Queue!Poll : o # p => polls'[o] = polls[o]
      /\ Written(c, "claimed") /\ polls[p].pc = "selected" /\ c \in DOMAIN cmds
      /\ polls'[p].pc \in {"claimed", "idle"}
      /\ cmds[c].status = "queued" /\ executions' = executions
  BY <1>1, ClaimStep DEF Worked
<1>3. vms' = vms /\ status' = status /\ (polls'[p].pc = "idle" \/ polls'[p].cmd = c)
  <2>1. vms' = vms /\ status' = status /\ Queue!Return(p, "claimed")
    BY DEF Queue!ClaimSelected
  <2>2. \/ polls'[p] = Queue!Moved(polls[p], "claimed")
        \/ polls'[p] = Queue!Idle
    BY <2>1 DEF Queue!Return, WellTyped, AgentsOK
  <2>3. polls[p] \in Queue!PollState
    BY DEF WellTyped, AgentsOK
  <2>4. Queue!Moved(polls[p], "claimed").cmd = c
    BY <1>1, <2>3, MovedPoll DEF Queue!AgentPc
  <2> QED  BY <2>1, <2>2, <2>4, IdlePoll
<1>4. \A d \in DOMAIN cmds : d # c => cmds'[d] = cmds[d] /\ ~Holding(p, d) /\ ~Holding(p, d)'
  BY <1>1, <1>2, <1>3 DEF Written, Holding, HoldingPc
<1>5. polls'[p].pc \notin LatePc \cup {"running"}
  BY <1>2 DEF LatePc
<1> QED  BY <1>2, <1>3, <1>4, <1>5, PollKeepsMachines

\* A report writes the row of the command it was made of.
LEMMA ReportKeepsMachines ==
  ASSUME WellTyped, AllAgree, InOrder, Machines, NEW p \in Queue!Poll,
         crashed' = crashed, Queue!AuthoriseReport(p) \/ Queue!RecordResult(p)
  PROVE  Machines'
<1>1. PICK c : c = polls[p].cmd
  OBVIOUS
<1>2. vms' = vms /\ status' = status /\ executions' = executions
  BY DEF Queue!AuthoriseReport, Queue!RecordResult
<1>3. /\ SameCommands
      /\ \A o \in Queue!Poll : o # p => polls'[o] = polls[o]
      /\ polls'[p].cmd = c /\ polls'[p].result = polls[p].result
      /\ polls[p].pc \in HoldingPc /\ polls'[p].pc \in HoldingPc
      /\ \A d \in DOMAIN cmds : d # c => cmds'[d] = cmds[d]
      /\ polls'[p].pc \in LatePc => polls[p].pc \in LatePc
      /\ polls'[p].pc # "running"
      /\ polls[p].pc \in LatePc => cmds'[c].status \in {cmds[c].status, polls[p].result}
      /\ polls[p].pc \notin LatePc => cmds[c].status = "claimed"
      /\ polls[p].pc \in LatePc => polls'[p].pc \in LatePc
  <2>1. CASE Queue!AuthoriseReport(p)
    <3>1. /\ cmds' = cmds /\ SameCommands
          /\ \A o \in Queue!Poll : o # p => polls'[o] = polls[o]
          /\ polls'[p].cmd = polls[p].cmd /\ polls'[p].result = polls[p].result
          /\ \/ polls[p].pc = "claimed" /\ polls'[p].pc = "reportRunning"
             \/ polls[p].pc = "executed" /\ polls'[p].pc = "reportResult"
      BY <2>1, AuthoriseStep DEF Worked, Queue!AuthoriseReport
    <3>2. RowStatus(polls[p], cmds[c].status)
      BY <1>1, <3>1, HeldCommand DEF HoldingPc
    <3> QED  BY <1>1, <3>1, <3>2 DEF HoldingPc, LatePc, RowStatus
  <2>2. CASE Queue!RecordResult(p)
    BY <1>1, <2>2, RecordStep DEF Worked, HoldingPc, LatePc, Written
  <2> QED  BY <2>1, <2>2
<1>4. \A d \in DOMAIN cmds : d # c => ~Holding(p, d) /\ ~Holding(p, d)'
  BY <1>1, <1>3 DEF Holding
<1>5. Holding(p, c) /\ Holding(p, c)'
  BY <1>1, <1>3 DEF Holding
<1> QED  BY <1>1, <1>2, <1>3, <1>4, <1>5, PollKeepsMachines

\* A tenant has one creation, and it is the oldest of its commands.
LEMMA OneCreation ==
  ASSUME WellTyped, AllAgree, NEW t \in Tenants, NEW c \in Service!CommandsFor(t),
         NEW d \in Service!CommandsFor(t), Creation(c), Creation(d)
  PROVE  c = d
<1>1. c <= d /\ d <= c
  BY DEF AllAgree, Agrees, Follows
<1>2. c \in Nat /\ d \in Nat
  <2>1. c \in DOMAIN cmds /\ d \in DOMAIN cmds /\ cmds \in Seq(CommandRow)
    BY DEF WellTyped, CommandsOK, Service!CommandsFor
  <2> QED  BY <2>1
<1> QED  BY <1>1, <1>2

\* The status a report writes fits what its command made.
LEMMA ReconcileKeepsMachines ==
  ASSUME WellTyped, AllAgree, InOrder, Machines, NEW p \in Queue!Poll,
         crashed' = crashed, Queue!ReconcileTenant(p)
  PROVE  Machines'
<1>1. PICK c : c = polls[p].cmd
  OBVIOUS
<1>2. PICK t : t = cmds[c].tenant
  OBVIOUS
<1>3. PICK s : s = IF polls[p].pc = "reconcileRunning" THEN "running" ELSE polls[p].result
  OBVIOUS
<1>4. /\ SameCommands
      /\ \A o \in Queue!Poll : o # p => polls'[o] = polls[o]
      /\ cmds' = cmds /\ executions' = executions
      /\ c \in DOMAIN cmds /\ t \in Tenants
      /\ \/ /\ polls[p].pc = "reconcileRunning" /\ s = "running"
            /\ (polls'[p].cmd = c /\ polls'[p].pc = "running") \/ polls'[p].pc = "idle"
         \/ /\ polls[p].pc = "reconcileResult" /\ polls'[p].pc = "idle"
            /\ s = polls[p].result
      /\ status' = [status EXCEPT ![t] = Reconciled(cmds[c].type, s, @)]
  BY <1>1, <1>2, <1>3, ReconcileStep DEF Worked
<1>5. vms' = vms
  BY DEF Queue!ReconcileTenant
<1>6. PICK n : n = Reconciled(cmds[c].type, s, status[t])
  OBVIOUS
<1>7. /\ n = status[t] \/ n \in {"active", "suspended", "failed", "deleted"}
      /\ n = "failed" => n = status[t] \/ (Creation(c) /\ s # "succeeded")
      /\ Creation(c) => n = IF s = "succeeded" THEN "active" ELSE "failed"
  BY <1>6, ReconciledIs DEF Creation
<1>8. status'[t] = n /\ \A u \in Tenants : u # t => status'[u] = status[u]
  BY <1>4, <1>6 DEF WellTyped, TablesOK
<1>9. Holding(p, c) /\ c \in Service!CommandsFor(t)
  BY <1>1, <1>2, <1>4 DEF Holding, HoldingPc, Service!CommandsFor
<1>10. \A d : d # c => ~Holding(p, d) /\ ~Holding(p, d)'
  BY <1>1, <1>4 DEF Holding, HoldingPc
<1>11. \A d : \A o \in Queue!Poll : o # p => (Holding(o, d)' <=> Holding(o, d))
  BY <1>4 DEF Holding
<1>12. ASSUME NEW h \in Hosts, NEW u \in vms[h]
       PROVE  Created(h, u)'
  <2>1. u \in Tenants /\ Created(h, u)
    BY DEF WellTyped, AgentsOK, Machines
  <2>2. ASSUME NEW d \in DOMAIN cmds, Made(h, u, d), d # c
        PROVE  \A o \in Queue!Poll : Holding(o, d)' <=> Holding(o, d)
    BY <1>10, <1>11, <2>2
  <2>3. ASSUME NEW d \in DOMAIN cmds, Made(h, u, d), d = c
        PROVE  /\ status'[u] = "active"
               /\ \A o \in Queue!Poll : Holding(o, d)' => Holding(o, d) /\ o # p
    <3>1. u = t /\ Creation(c) /\ polls[p].pc \in LatePc /\ polls[p].result = "succeeded"
      BY <1>2, <1>9, <2>3 DEF Made, Service!CommandsFor
    <3>2. s = "succeeded" /\ polls'[p].pc = "idle"
      BY <1>4, <3>1 DEF LatePc
    <3>3. ~Holding(p, d)'
      BY <3>2 DEF Holding, HoldingPc
    <3> QED  BY <1>7, <1>8, <1>11, <3>1, <3>2, <3>3
  <2>4. status'[u] = status[u] \/ status'[u] \in {"active", "suspended", "deleted"}
    <3>1. CASE u = t /\ Creation(c)
      <4>1. PICK d \in DOMAIN cmds : Made(h, u, d)
        BY <2>1 DEF Created
      <4>2. d = c
        BY <1>9, <2>1, <3>1, <4>1, OneCreation DEF Made
      <4> QED  BY <2>3, <4>1, <4>2
    <3>2. CASE u # t \/ ~Creation(c)
      BY <1>7, <1>8, <2>1, <3>2
    <3> QED  BY <3>1, <3>2
  <2>5. \A d \in DOMAIN cmds : Made(h, u, d) =>
            /\ cmds'[d].status \in {"running", "succeeded"}
            /\ \A o \in Queue!Poll : Holding(o, d)' =>
                  /\ Holding(o, d) /\ polls'[o].pc \in LatePc
                  /\ polls'[o].result = polls[o].result
            /\ status'[u] = "failed" /\ ~crashed' =>
                  \A o \in Queue!Poll : Holding(o, d) => Holding(o, d)'
    <3> SUFFICES ASSUME NEW d \in DOMAIN cmds, Made(h, u, d)
                 PROVE  /\ cmds'[d].status \in {"running", "succeeded"}
                        /\ \A o \in Queue!Poll : Holding(o, d)' =>
                              /\ Holding(o, d) /\ polls'[o].pc \in LatePc
                              /\ polls'[o].result = polls[o].result
                        /\ status'[u] = "failed" /\ ~crashed' =>
                              \A o \in Queue!Poll : Holding(o, d) => Holding(o, d)'
      OBVIOUS
    <3>1. /\ cmds'[d].status \in {"running", "succeeded"}
          /\ \A o \in Queue!Poll : Holding(o, d) => polls[o].pc \in LatePc
      BY <1>4 DEF Made
    <3>2. \A o \in Queue!Poll : Holding(o, d)' => Holding(o, d) /\ o # p
      BY <1>10, <2>2, <2>3
    <3>3. status'[u] = "failed" => \A o \in Queue!Poll : Holding(o, d) => Holding(o, d)'
      BY <2>2, <2>3
    <3> QED  BY <1>4, <3>1, <3>2, <3>3
  <2> QED  BY <1>4, <2>1, <2>4, <2>5, CreatedStays
<1>13. ASSUME NEW o \in Queue!Poll, polls'[o].pc \in LatePc \cup {"running"},
              Creation(polls[o].cmd)'
       PROVE  status'[cmds'[polls'[o].cmd].tenant] \in Shown
  <2>1. CASE o = p
    <3>1. polls'[p].cmd = c /\ polls'[p].pc = "running" /\ s = "running"
      BY <1>4, <1>13, <2>1 DEF LatePc
    <3>2. Creation(c)
      BY <1>4, <1>13, <2>1, <3>1 DEF Creation
    <3> QED  BY <1>2, <1>4, <1>7, <1>8, <2>1, <3>1, <3>2 DEF Shown
  <2>2. CASE o # p
    <3>1. PICK d : d = polls[o].cmd
      OBVIOUS
    <3>2. polls'[o] = polls[o] /\ Creation(d)
      BY <1>4, <1>13, <2>2, <3>1 DEF Creation
    <3>3. PICK v : v = cmds[d].tenant
      OBVIOUS
    <3>4. v \in Tenants /\ status[v] \in Shown
      BY <1>13, <3>1, <3>2, <3>3, HeldCommand DEF Machines, LatePc, HoldingPc
    <3>5. status'[v] \in Shown
      BY <1>7, <1>8, <3>4 DEF Shown
    <3> QED  BY <1>4, <3>1, <3>2, <3>3, <3>5
  <2> QED  BY <2>1, <2>2
<1> QED  BY <1>5, <1>12, <1>13 DEF Machines

-----------------------------------------------------------------------------
\* What an execution makes of the MicroVM: a creation may make it, the commands that
\* end it do, and no other command of a tenant changes anything.
LEMMA OutcomeIs ==
  ASSUME NEW ty, NEW pl, pl = (IF ty = "create_tenant" THEN "full" ELSE "slug"),
         NEW S, NEW t, NEW o \in Queue!Outcomes(ty, pl, t \in S)
  PROVE  /\ ty = "create_tenant" /\ o.vm => t \in S \/ o.result = "succeeded"
         /\ ty \in {"stop_tenant", "restart_tenant", "delete_tenant"} => ~o.vm
         /\ ty \notin {"create_tenant", "stop_tenant", "restart_tenant", "delete_tenant"}
              => (o.vm <=> t \in S)
<1> DEFINE vm == t \in S
<1>1. /\ Queue!Failed(vm).vm = vm
      /\ Queue!Failed(vm /\ ~Queue!Removes(ty, pl)).vm = (vm /\ ~Queue!Removes(ty, pl))
  BY DEF Queue!Failed
<1>2. \/ ty = "create_tenant" /\ pl # "full" /\ o = Queue!Failed(vm)
      \/ o.result = "succeeded" /\ o.vm = (Queue!Installs(ty, pl) \/ (vm /\ ~Queue!Removes(ty, pl)))
      \/ o = Queue!Failed(vm /\ ~Queue!Removes(ty, pl))
  BY DEF Queue!Outcomes
<1>3. CASE ty = "create_tenant"
  <2>1. pl = "full" /\ ~Queue!Removes(ty, pl)
    BY <1>3 DEF Queue!Removes
  <2> QED  BY <1>1, <1>2, <1>3, <2>1
<1>4. CASE ty # "create_tenant"
  <2>1. /\ pl = "slug" /\ ~Queue!Installs(ty, pl)
        /\ Queue!Removes(ty, pl) <=> ty \in {"stop_tenant", "restart_tenant", "delete_tenant"}
    BY <1>4 DEF Queue!Removes, Queue!Installs
  <2> QED  BY <1>1, <1>2, <1>4, <2>1
<1> QED  BY <1>3, <1>4

\* An execution makes the MicroVM of a creation, or ends one.
LEMMA ExecuteKeepsMachines ==
  ASSUME WellTyped, AllAgree, InOrder, Machines, NEW p \in Queue!Poll,
         crashed' = crashed, Queue!Execute(p)
  PROVE  Machines'
<1>1. PICK c : c = polls[p].cmd
  OBVIOUS
<1>2. PICK t : t = cmds[c].tenant
  OBVIOUS
<1>3. PICK h : h = p[1]
  OBVIOUS
<1>4. /\ SameCommands
      /\ \A o \in Queue!Poll : o # p => polls'[o] = polls[o]
      /\ polls[p].pc = "running" /\ polls'[p].pc = "executed" /\ polls'[p].cmd = c
      /\ cmds' = cmds /\ \A d \in DOMAIN cmds : d # c => executions'[d] = executions[d]
  BY <1>1, <1>2, ExecuteStep DEF Worked
<1>5. PICK o \in Queue!Outcomes(cmds[c].type, cmds[c].payload, t \in vms[h]) :
        /\ polls'[p].result = o.result
        /\ vms' = [vms EXCEPT ![h] = IF o.vm THEN @ \cup {t} ELSE @ \ {t}]
  <2>1. HasOutcome(p, c, t)
    BY <1>1, <1>2, ExecuteStep
  <2> QED  BY <1>3, <2>1 DEF HasOutcome
<1>6. /\ c \in DOMAIN cmds /\ cmds[c].host = h /\ h \in Hosts
      /\ t \in Tenants /\ cmds[c].status = "running"
      /\ \A d \in DOMAIN cmds :
            d # c /\ cmds[d].host = h => (cmds[d].status = "queued" <=> d > c)
  BY <1>1, <1>2, <1>3, <1>4, HeldCommand DEF HoldingPc, RowStatus
<1>7. status' = status
  BY DEF Queue!Execute
<1>8. c \in Service!CommandsFor(t) /\ Holding(p, c) /\ Holding(p, c)'
  BY <1>1, <1>2, <1>4, <1>6 DEF Service!CommandsFor, Holding, HoldingPc
<1>9. /\ cmds[c].payload = IF Creation(c) THEN "full" ELSE "slug"
      /\ \A d \in Service!CommandsFor(t) : cmds[d].host = h /\ (Creation(c) => c <= d)
  BY <1>6, <1>8 DEF AllAgree, Agrees, Follows
<1>10. /\ Creation(c) /\ o.vm => t \in vms[h] \/ o.result = "succeeded"
       /\ Removal(c) => ~o.vm
       /\ ~Creation(c) /\ ~Removal(c) => (o.vm <=> t \in vms[h])
  BY <1>5, <1>9, OutcomeIs DEF Creation, Removal
<1>11. /\ vms'[h] = IF o.vm THEN vms[h] \cup {t} ELSE vms[h] \ {t}
       /\ \A g \in Hosts : g # h => vms'[g] = vms[g]
  BY <1>5, <1>6 DEF WellTyped, AgentsOK
<1>12. \A d : \A q \in Queue!Poll : d # c => (Holding(q, d)' <=> Holding(q, d))
  BY <1>1, <1>4 DEF Holding
<1>13. ~Creation(c) \/ \A g \in Hosts : t \notin vms[g]
  <2> SUFFICES ASSUME Creation(c), NEW g \in Hosts, t \in vms[g] PROVE FALSE
    OBVIOUS
  <2>1. PICK d \in DOMAIN cmds : Made(g, t, d)
    BY DEF Machines, Created
  <2>2. d = c
    BY <1>6, <1>8, <2>1, OneCreation DEF Made
  <2> QED  BY <1>4, <1>8, <2>1, <2>2 DEF Made, LatePc
<1>14. ASSUME NEW g \in Hosts, NEW u \in vms[g], ~(u = t /\ (Creation(c) \/ Removal(c)))
       PROVE  Created(g, u)'
  <2>1. u \in Tenants /\ Created(g, u)
    BY DEF WellTyped, AgentsOK, Machines
  <2>2. \A d \in Service!CommandsFor(u) : Removal(d) => executions'[d] = executions[d]
    BY <1>2, <1>4, <1>14 DEF Service!CommandsFor
  <2>3. \A d \in DOMAIN cmds : Made(g, u, d) => d # c
    BY <1>2, <1>14 DEF Made, Service!CommandsFor
  <2>4. \A d \in DOMAIN cmds : Made(g, u, d) =>
            /\ cmds'[d].status \in {"running", "succeeded"}
            /\ \A q \in Queue!Poll : Holding(q, d)' =>
                  /\ Holding(q, d) /\ polls'[q].pc \in LatePc
                  /\ polls'[q].result = polls[q].result
            /\ status'[u] = "failed" /\ ~crashed' =>
                  \A q \in Queue!Poll : Holding(q, d) => Holding(q, d)'
    <3> SUFFICES ASSUME NEW d \in DOMAIN cmds, Made(g, u, d)
                 PROVE  /\ cmds'[d].status \in {"running", "succeeded"}
                        /\ \A q \in Queue!Poll : Holding(q, d)' =>
                              /\ Holding(q, d) /\ polls'[q].pc \in LatePc
                              /\ polls'[q].result = polls[q].result
                        /\ \A q \in Queue!Poll : Holding(q, d) => Holding(q, d)'
      OBVIOUS
    <3>1. d # c
      BY <2>3
    <3>2. /\ cmds'[d].status \in {"running", "succeeded"}
          /\ \A q \in Queue!Poll : Holding(q, d) => polls[q].pc \in LatePc
      BY <1>4 DEF Made
    <3>3. \A q \in Queue!Poll : Holding(q, d) => q # p
      BY <1>1, <3>1 DEF Holding
    <3> QED  BY <1>4, <1>12, <3>1, <3>2, <3>3
  <2> QED  BY <1>4, <1>7, <2>1, <2>2, <2>4, CreatedStays
<1>15. ASSUME Creation(c), t \in vms'[h]
       PROVE  Created(h, t)'
  <2>1. o.result = "succeeded"
    BY <1>6, <1>10, <1>11, <1>13, <1>15
  <2>2. status[t] \in Shown
    BY <1>1, <1>2, <1>4, <1>15 DEF Machines
  <2>3. \A d \in Service!CommandsFor(t) : Removal(d) => executions'[d] = 0
    <3> SUFFICES ASSUME NEW d \in Service!CommandsFor(t), Removal(d) PROVE executions'[d] = 0
      OBVIOUS
    <3>1. d \in DOMAIN cmds /\ d # c /\ cmds[d].host = h /\ c <= d
      BY <1>9, <1>15 DEF Service!CommandsFor, Creation, Removal
    <3>2. d \in Nat /\ c \in Nat
      BY <1>6, <3>1 DEF WellTyped, CommandsOK
    <3>3. cmds[d].status = "queued"
      BY <1>6, <3>1, <3>2
    <3> QED  BY <1>4, <3>1, <3>3 DEF InOrder, Ran
  <2>4. \A q \in Queue!Poll : Holding(q, c)' => q = p
    <3> SUFFICES ASSUME NEW q \in Queue!Poll, Holding(q, c)', q # p PROVE FALSE
      OBVIOUS
    <3>1. polls[q].pc \in HoldingPc /\ polls[q].cmd = c
      BY <1>4 DEF Holding
    <3>2. q[1] = h
      BY <1>6, <3>1, HeldCommand
    <3> QED  BY <1>3, <1>4, <3>1, <3>2, Alone DEF HoldingPc
  <2>5. Made(h, t, c)'
    BY <1>4, <1>5, <1>6, <1>8, <1>15, <2>1, <2>4
    DEF Made, Service!CommandsFor, Creation, LatePc
  <2> QED  BY <1>4, <1>6, <1>7, <2>2, <2>3, <2>5, SameCommandsSay DEF Created, Service!CommandsFor
<1>16. ASSUME NEW g \in Hosts, NEW u \in vms'[g]
       PROVE  Created(g, u)'
  <2>1. CASE u = t /\ Creation(c)
    <3>1. g = h
      BY <1>11, <1>13, <1>16, <2>1
    <3> QED  BY <1>15, <1>16, <2>1, <3>1
  <2>2. CASE u = t /\ Removal(c)
    <3>1. g # h
      BY <1>10, <1>11, <1>16, <2>2
    <3>2. t \in vms[g]
      BY <1>11, <1>16, <2>2, <3>1
    <3>3. PICK d \in DOMAIN cmds : Made(g, t, d)
      BY <3>2 DEF Machines, Created
    <3> QED  BY <1>9, <3>1, <3>3 DEF Made
  <2>3. CASE ~(u = t /\ (Creation(c) \/ Removal(c)))
    <3>1. u \in vms[g]
      BY <1>10, <1>11, <1>16, <2>3
    <3> QED  BY <1>14, <2>3, <3>1
  <2> QED  BY <2>1, <2>2, <2>3
<1>17. ASSUME NEW q \in Queue!Poll, polls'[q].pc \in LatePc \cup {"running"},
              Creation(polls[q].cmd)'
       PROVE  status'[cmds'[polls'[q].cmd].tenant] \in Shown
  <2>1. /\ polls'[q].cmd = polls[q].cmd
        /\ polls[q].pc \in LatePc \cup {"running"}
    BY <1>1, <1>4, <1>17
  <2>2. Creation(polls[q].cmd)
    BY <1>4, <1>17, <2>1 DEF Creation
  <2> QED  BY <1>4, <1>7, <2>1, <2>2 DEF Machines
<1> QED  BY <1>16, <1>17 DEF Machines

-----------------------------------------------------------------------------
(***************************************************************************)
(* Deaths, and the whole step.                                             *)
(***************************************************************************)

\* A dead agent's registry is empty, and its polls held nothing of another host.
LEMMA AgentCrashKeepsMachines ==
  ASSUME WellTyped, AllAgree, InOrder, Machines, NEW h \in Hosts, Queue!AgentCrash(h),
         executions' = executions, crashed' = crashed
  PROVE  Machines'
<1>1. /\ SameCommands /\ \A p \in Queue!Poll : Left(p)
      /\ \A p \in Queue!Poll : p[1] # h => polls'[p] = polls[p]
      /\ cmds' = cmds /\ status' = status /\ vms' = [vms EXCEPT ![h] = {}]
  BY AgentCrashLeaves DEF Worked
<1>2. ASSUME NEW g \in Hosts, NEW t \in vms'[g]
      PROVE  Created(g, t)'
  <2>1. g # h /\ t \in vms[g]
    BY <1>1, <1>2 DEF WellTyped, AgentsOK
  <2>2. t \in Tenants /\ Created(g, t)
    BY <2>1 DEF WellTyped, AgentsOK, Machines
  <2>3. ASSUME NEW c \in DOMAIN cmds, Made(g, t, c)
        PROVE  /\ cmds'[c].status \in {"running", "succeeded"}
               /\ \A p \in Queue!Poll : Holding(p, c)' =>
                     /\ Holding(p, c) /\ polls'[p].pc \in LatePc
                     /\ polls'[p].result = polls[p].result
               /\ \A p \in Queue!Poll : Holding(p, c) => Holding(p, c)'
    <3>1. /\ cmds[c].status \in {"running", "succeeded"} /\ cmds[c].host = g
          /\ \A p \in Queue!Poll : Holding(p, c) => polls[p].pc \in LatePc
      BY <2>3 DEF Made
    <3>2. \A p \in Queue!Poll : Holding(p, c) => p[1] = g
      BY <3>1, HeldCommand DEF Holding
    <3>3. \A p \in Queue!Poll : Holding(p, c)' => polls'[p].pc = polls[p].pc /\ polls'[p].cmd = polls[p].cmd
      BY <1>1, LeftWorks DEF Holding, HoldingPc
    <3>4. \A p \in Queue!Poll : Holding(p, c)' => Holding(p, c)
      BY <3>3 DEF Holding
    <3>5. \A p \in Queue!Poll : Holding(p, c) => polls'[p] = polls[p]
      BY <1>1, <2>1, <3>2
    <3> QED  BY <1>1, <3>1, <3>4, <3>5 DEF Holding
  <2> QED  BY <1>1, <2>2, <2>3, CreatedStays
<1>3. ASSUME NEW p \in Queue!Poll, polls'[p].pc \in LatePc \cup {"running"},
             Creation(polls[p].cmd)'
      PROVE  status'[cmds'[polls'[p].cmd].tenant] \in Shown
  <2>1. polls'[p].pc = polls[p].pc /\ polls'[p].cmd = polls[p].cmd
    BY <1>1, <1>3, LeftWorks DEF LatePc
  <2>2. Creation(polls[p].cmd)
    BY <1>1, <1>3, <2>1 DEF Creation
  <2> QED  BY <1>1, <1>3, <2>1, <2>2 DEF Machines
<1> QED  BY <1>2, <1>3 DEF Machines

\* A dead API leaves a report between its two writes, and is on record.
LEMMA ApiCrashKeepsMachines ==
  ASSUME WellTyped, AllAgree, InOrder, Machines, Queue!ApiCrash,
         executions' = executions, crashed'
  PROVE  Machines'
<1>1. /\ SameCommands /\ \A p \in Queue!Poll : Left(p)
      /\ \A p \in Queue!Poll :
            polls'[p] = IF polls[p].pc \in Queue!HandlerPc THEN Queue!Idle ELSE polls[p]
      /\ cmds' = cmds /\ status' = status /\ vms' = vms
  BY ApiCrashLeaves DEF Worked
<1>2. \A p \in Queue!Poll : polls'[p].pc # "idle" => polls'[p] = polls[p]
  BY <1>1, IdlePoll
<1>3. ASSUME NEW g \in Hosts, NEW t \in vms[g]
      PROVE  Created(g, t)'
  <2>1. t \in Tenants /\ Created(g, t)
    BY DEF WellTyped, AgentsOK, Machines
  <2>2. \A c \in DOMAIN cmds : Made(g, t, c) =>
            /\ cmds'[c].status \in {"running", "succeeded"}
            /\ \A p \in Queue!Poll : Holding(p, c)' =>
                  /\ Holding(p, c) /\ polls'[p].pc \in LatePc
                  /\ polls'[p].result = polls[p].result
    BY <1>1, <1>2 DEF Made, Holding, HoldingPc
  <2> QED  BY <1>1, <2>1, <2>2, CreatedStays
<1>4. ASSUME NEW p \in Queue!Poll, polls'[p].pc \in LatePc \cup {"running"},
             Creation(polls[p].cmd)'
      PROVE  status'[cmds'[polls'[p].cmd].tenant] \in Shown
  <2>1. polls'[p] = polls[p]
    BY <1>2, <1>4 DEF LatePc
  <2>2. Creation(polls[p].cmd)
    BY <1>1, <1>4, <2>1 DEF Creation
  <2> QED  BY <1>1, <1>4, <2>1, <2>2 DEF Machines
<1> QED  BY <1>1, <1>3, <1>4 DEF Machines

-----------------------------------------------------------------------------
\* A step of a poll keeps the invariant.
LEMMA PollStepKeeps ==
  ASSUME WellTyped, AllAgree, InOrder, Machines, use # "overlap",
         NEW p \in Queue!Poll, PollStep(p)
  PROVE  WellTyped' /\ AllAgree' /\ InOrder' /\ Machines'
<1>1. /\ reqs' = reqs /\ assigned' = assigned /\ limits' = limits /\ crashed' = crashed
      /\ Queue!PollStep(p)
  BY DEF PollStep, serviceVars
<1>2. Queue!StartPoll(p) => p[2] = FirstSlot
  BY DEF PollStep, MayPoll, Queue!StartPoll
<1>3. Machines'
  BY <1>1, <1>2, PollingKeepsMachines, ClaimKeepsMachines, ReportKeepsMachines,
     ReconcileKeepsMachines, ExecuteKeepsMachines DEF Queue!PollStep
<1>4. Worked
  <2>1. PICK c : c = polls[p].cmd
    OBVIOUS
  <2>2. PICK t : t = cmds[c].tenant
    OBVIOUS
  <2> QED  BY <1>1, <1>2, <2>1, <2>2, StartPollStep, SelectPollStep, ClaimStep, AuthoriseStep,
             RecordStep, ReconcileStep, ExecuteStep DEF Queue!PollStep
<1>5. TablesOK' /\ \A t \in Tenants : Backed(t)
  <2>1. CASE Queue!ReconcileTenant(p)
    <3>1. PICK c : c = polls[p].cmd
      OBVIOUS
    <3>2. PICK t : t = cmds[c].tenant
      OBVIOUS
    <3>3. /\ c \in DOMAIN cmds /\ t \in Tenants
          /\ \E s : status' = [status EXCEPT ![t] = Reconciled(cmds[c].type, s, @)]
      BY <2>1, <3>1, <3>2, ReconcileStep
    <3> QED  BY <1>1, <3>2, <3>3, ReconcileBacked
  <2>2. CASE ~Queue!ReconcileTenant(p)
    <3>1. status' = status
      BY <1>1, <2>2 DEF Queue!PollStep, Queue!StartPoll, Queue!SelectOldest, Queue!ClaimSelected,
         Queue!AuthoriseReport, Queue!RecordResult, Queue!Execute
    <3> QED  BY <1>1, <3>1 DEF WellTyped, TablesOK, Backed
  <2> QED  BY <2>1, <2>2
<1>6. AllAgree'
  BY <1>1, <1>4, <1>5, QueueAgrees DEF Worked
<1>7. RequestsOK'
  BY <1>1 DEF WellTyped, RequestsOK
<1> QED  BY <1>3, <1>4, <1>5, <1>6, <1>7 DEF WellTyped, Worked

\* So does an agent that dies for good, ...
LEMMA FallSilentKeeps ==
  ASSUME WellTyped, AllAgree, InOrder, Machines, NEW h \in Hosts, FallSilent(h)
  PROVE  WellTyped' /\ AllAgree' /\ InOrder' /\ Machines'
<1>1. /\ reqs' = reqs /\ assigned' = assigned /\ limits' = limits /\ crashed' = crashed
      /\ Queue!AgentCrash(h) /\ executions' = executions
  BY DEF FallSilent, serviceVars, Queue!AgentCrash
<1>2. Worked /\ status' = status
  BY <1>1, AgentCrashLeaves
<1>3. Machines'
  BY <1>1, AgentCrashKeepsMachines
<1>4. AllAgree'
  BY <1>1, <1>2, QueueAgrees DEF Worked, Backed
<1>5. RequestsOK' /\ TablesOK'
  BY <1>1, <1>2 DEF WellTyped, RequestsOK, TablesOK
<1> QED  BY <1>2, <1>3, <1>4, <1>5 DEF WellTyped, Worked

\* ... a death of the API, ...
LEMMA ApiCrashKeeps ==
  ASSUME WellTyped, AllAgree, InOrder, Machines, ApiCrash
  PROVE  WellTyped' /\ AllAgree' /\ InOrder' /\ Machines'
<1>1. /\ reqs' = [r \in Requests |-> Service!Idle] /\ assigned' = assigned /\ limits' = limits
      /\ crashed' /\ Queue!ApiCrash /\ executions' = executions
  BY DEF ApiCrash, Service!ApiCrash, Queue!ApiCrash
<1>2. Worked /\ status' = status
  BY <1>1, ApiCrashLeaves
<1>3. Machines'
  BY <1>1, ApiCrashKeepsMachines
<1>4. /\ \A r \in Requests : reqs'[r].tenant = NoTenant /\ reqs'[r].pc = "idle"
      /\ RequestsOK'
  BY <1>1, IdleRequest DEF RequestsOK
<1>5. AllAgree'
  BY <1>1, <1>2, <1>4, QueueAgrees DEF Worked, Backed
<1>6. TablesOK'
  BY <1>1, <1>2 DEF WellTyped, TablesOK
<1> QED  BY <1>2, <1>3, <1>4, <1>5, <1>6 DEF WellTyped, Worked

\* ... and every step of a request.
LEMMA RequestKeepsPlane ==
  ASSUME WellTyped, AllAgree, InOrder, Machines, NEW r \in Requests,
         BeginRequest(r) \/ RequestStep(r)
  PROVE  WellTyped' /\ AllAgree' /\ InOrder' /\ Machines'
<1>1. Stepped
  BY RequestKeeps
<1>2. polls' = polls /\ vms' = vms /\ approved' = approved
  BY DEF BeginRequest, RequestStep, queueVars
<1>3. crashed' = crashed
  BY DEF BeginRequest, RequestStep, Service!BeginRequest, Service!BeginCreate, Service!BeginAction,
     Service!RequestStep, Service!InsertTenant, Service!SelectHost, Service!GiveUp,
     Service!Provision, Service!AssignHost, Service!ReserveCapacity, Service!EnqueueCreate,
     Service!EnqueueAction, Service!RecordBackup, Service!SetStatus, Service!ReleaseCapacity,
     Service!history
<1>4. AgentsOK'
  BY <1>2 DEF WellTyped, AgentsOK
<1>5. InOrder' /\ Machines'
  BY <1>1, <1>2, <1>3, GrowKeepsOrder, GrowKeepsMachines DEF Stepped
<1> QED  BY <1>1, <1>4, <1>5 DEF WellTyped, Stepped

-----------------------------------------------------------------------------
\* The invariant holds of the empty tables.
LEMMA PlaneInit == Init => PlaneInv
<1> SUFFICES ASSUME Init PROVE PlaneInv
  OBVIOUS
<1>1. /\ status = [t \in Tenants |-> "absent"] /\ assigned = [t \in Tenants |-> NoHost]
      /\ limits = [t \in Tenants |-> Service!NoSize] /\ cmds = <<>> /\ executions = <<>>
      /\ reqs = [r \in Requests |-> Service!Idle]
      /\ polls = [p \in Queue!Poll |-> Queue!Idle] /\ vms = [h \in Hosts |-> {}]
      /\ approved = [h \in Hosts |-> TRUE]
  BY DEF Init, Service!Init
<1>2. \A r \in Requests : reqs[r].pc = "idle" /\ reqs[r].tenant = NoTenant
  BY <1>1, IdleRequest
<1>3. RequestsOK
  BY <1>1, <1>2, IdleRequest DEF RequestsOK
<1>4. TablesOK
  BY <1>1 DEF TablesOK, Service!NoSize, Service!Size
<1>5. CommandsOK /\ DOMAIN cmds = {}
  BY <1>1 DEF CommandsOK
<1>6. AgentsOK
  BY <1>1, IdlePoll DEF AgentsOK
<1>7. AllAgree
  BY <1>1, <1>2, <1>5, NoTenantAssumption
  DEF AllAgree, Agrees, Follows, Row, Service!CommandsFor
<1>8. \A p \in Queue!Poll : polls[p].pc = "idle"
  BY <1>1, IdlePoll
<1>9. InOrder
  BY <1>5, <1>8 DEF InOrder, Works, HoldingPc, LatePc
<1>10. Machines
  BY <1>1, <1>8 DEF Machines, LatePc
<1> QED  BY <1>3, <1>4, <1>5, <1>6, <1>7, <1>9, <1>10 DEF PlaneInv, WellTyped

\* Every step of the system keeps it, unless polls may overlap.
LEMMA PlaneNext == PlaneInv /\ [Next]_vars => PlaneInv'
<1> SUFFICES ASSUME PlaneInv, [Next]_vars, use' # "overlap"
             PROVE  WellTyped' /\ AllAgree' /\ InOrder' /\ Machines'
  BY DEF PlaneInv
<1>1. use' = use
  <2>1. CASE Next
    BY <2>1 DEF Next, BeginRequest, RequestStep, PollStep, FallSilent, ApiCrash, ownVars
  <2>2. CASE UNCHANGED vars
    BY <2>2 DEF vars, ownVars
  <2> QED  BY <2>1, <2>2
<1>2. WellTyped /\ AllAgree /\ InOrder /\ Machines /\ use # "overlap"
  BY <1>1 DEF PlaneInv
<1>3. ASSUME NEW r \in Requests, BeginRequest(r) \/ RequestStep(r)
      PROVE  WellTyped' /\ AllAgree' /\ InOrder' /\ Machines'
  BY <1>2, <1>3, RequestKeepsPlane
<1>4. ASSUME NEW p \in Queue!Poll, PollStep(p)
      PROVE  WellTyped' /\ AllAgree' /\ InOrder' /\ Machines'
  BY <1>2, <1>4, PollStepKeeps
<1>5. ASSUME NEW h \in Hosts, FallSilent(h)
      PROVE  WellTyped' /\ AllAgree' /\ InOrder' /\ Machines'
  BY <1>2, <1>5, FallSilentKeeps
<1>6. CASE ApiCrash
  BY <1>2, <1>6, ApiCrashKeeps
<1>7. CASE UNCHANGED vars
  <2>1. /\ cmds' = cmds /\ status' = status /\ approved' = approved /\ polls' = polls
        /\ vms' = vms /\ executions' = executions /\ assigned' = assigned /\ limits' = limits
        /\ reqs' = reqs /\ crashed' = crashed
    BY <1>7 DEF vars, queueVars, serviceVars
  <2>2. WellTyped'
    BY <1>2, <2>1 DEF WellTyped, RequestsOK, TablesOK, CommandsOK, AgentsOK
  <2>3. AllAgree'
    <3>1. SameCommands
      BY <2>1 DEF SameCommands, SameCommand
    <3> QED  BY <1>2, <2>1, <3>1, QueueAgrees DEF Backed
  <2>4. InOrder'
    BY <1>2, <2>1 DEF InOrder, Works, Ran
  <2>5. Machines'
    BY <1>2, <2>1 DEF Machines, Created, Made, Holding, Creation, Removal, Service!CommandsFor
  <2> QED  BY <2>2, <2>3, <2>4, <2>5
<1> QED  BY <1>3, <1>4, <1>5, <1>6, <1>7 DEF Next

\* So it always holds.
LEMMA PlaneInvariant == Spec => []PlaneInv
<1>1. QED  BY PlaneInit, PlaneNext, PTL DEF Spec

\* Unless commands outlast the poll interval, an agent knows of the MicroVM of a tenant
\* at rest only if the tables assign the tenant to its host and call it active: runAction
\* writes the status before its command runs and reconcileTenant writes it again after,
\* yet no stop, suspend or delete is overtaken by an older report, however admins
\* hurry (one request of a tenant at a time) and whichever process dies.  Only a death of
\* the API may leave a MicroVM behind a status that still says failed.
THEOREM RegistriesMatchStatus == Spec => []MachinesMatchStatus
<1>1. PlaneInv => MachinesMatchStatus
  <2> SUFFICES ASSUME PlaneInv, use # "overlap", NEW h \in Hosts, NEW t \in vms[h], AtRest(t)
               PROVE  /\ assigned[t] = h
                      /\ status[t] \in {"active"} \cup (IF crashed THEN {"failed"} ELSE {})
    BY DEF MachinesMatchStatus
  <2>1. WellTyped /\ AllAgree /\ InOrder /\ Machines /\ t \in Tenants
    BY DEF PlaneInv, WellTyped, AgentsOK
  <2>2. /\ status[t] \in Shown
        /\ \A c \in Service!CommandsFor(t) : Removal(c) => executions[c] = 0
    BY <2>1 DEF Machines, Created
  <2>3. PICK c \in Service!CommandsFor(t) : Made(h, t, c)
    BY <2>1 DEF Machines, Created, Made
  <2>4. assigned[t] = h /\ h # NoHost
    BY <2>1, <2>3 DEF AllAgree, Agrees, Follows, Made
  <2>5. \A p \in Queue!Poll : ~Holding(p, c)
    BY <2>3 DEF AtRest, Holding, HoldingPc, Service!CommandsFor
  <2>6. status[t] = "failed" => crashed
    BY <2>3, <2>5 DEF Made
  <2>7. \A d \in Service!CommandsFor(t) : executions[d] > 0
    BY <2>1 DEF AtRest, InOrder, Ran, Service!CommandsFor
  <2>8. ~HasRemoval(t)
    BY <2>2, <2>7 DEF HasRemoval
  <2>9. status[t] \notin {"suspended", "deleted"}
    BY <2>1, <2>4, <2>8 DEF AllAgree, Agrees, Row
  <2> QED  BY <2>2, <2>4, <2>6, <2>9 DEF Shown
<1> QED  BY <1>1, PlaneInvariant, PTL

-----------------------------------------------------------------------------
(***************************************************************************)
(* Calm use: what the admins, the commands and the status of a tenant have to do*)
(* with each other when nobody hurries.                                    *)
(***************************************************************************)

\* c has ended for good, its report included.
Settled(c) == cmds[c].status \in Completed /\ \A p \in Queue!Poll : ~Holding(p, c)

Choosing == {"select", "giveUp", "provision", "assign"}

\* What a request q of t knows of t's status and of the commands that may still move it.
CalmRequest(q, t) ==
    /\ q.pc = "insert" => status[t] = "absent"
    /\ q.pc \in Choosing => status[t] = "pending"
    /\ q.pc \in Placed => status[t] = "provisioning"
    /\ q.pc = "command" => \A c \in Service!CommandsFor(t) : Settled(c)
    /\ q.pc \in ActionPc =>
          /\ \A c \in Service!CommandsFor(t) : Settled(c) \/ cmds[c].type = Service!CommandOf[q.action]
          /\ status[t] = "deleted" => q.action = "delete"

\* What t's commands that have not ended say of its status.
CalmRow(t) ==
    /\ \A c \in Service!CommandsFor(t) : Creation(c) /\ ~Settled(c) =>
          /\ status[t] \in {"provisioning", "failed"}
          /\ cmds[c].status \in {"queued", "claimed"} => status[t] = "provisioning"
    /\ status[t] = "deleted" =>
          \A c \in Service!CommandsFor(t) : Settled(c) \/ cmds[c].type = "delete_tenant"

\* One command of a tenant at a time, one request, and a status that fits both.
Calm(t) ==
    /\ \A r \in Requests : reqs[r].tenant = t => CalmRequest(reqs[r], t)
    /\ \A c, d \in Service!CommandsFor(t) : c < d => Settled(c)
    /\ CalmRow(t)

AllCalm == \A t \in Tenants : Calm(t)

\* Rows keep what they are, settled ones end nothing any more, and none goes back.
Onward ==
    \A c \in DOMAIN cmds :
        /\ c \in DOMAIN cmds' /\ SameCommand(c)
        /\ Settled(c) => Settled(c)'
        /\ cmds'[c].status \in {"queued", "claimed"} => cmds[c].status \in {"queued", "claimed"}

\* A step of the life of a tenant.
LifeStep(x, y) ==
    \/ x = y
    \/ x = "absent" /\ y = "pending"
    \/ x = "pending" /\ y = "provisioning"
    \/ x \in {"pending", "provisioning"} /\ y = "failed"
    \/ x \in Lifecycle!Live /\ y \in {"active", "suspended", "deleted"}

LivesOn(t) == LifeStep(Life(t), Life(t)')

\* A step keeps calm, and every tenant lives on.
CalmlyOn == AllCalm' /\ \A t \in Tenants : LivesOn(t)

-----------------------------------------------------------------------------
\* What a step leaves calm: the requests of t are, and a status that changes has no
\* command left that contradicts it.
LEMMA CalmStays ==
  ASSUME NEW t \in Tenants, Calm(t), Onward,
         Service!CommandsFor(t)' = Service!CommandsFor(t),
         \A r \in Requests : reqs'[r].tenant = t => CalmRequest(reqs[r], t)',
         \/ status'[t] = status[t]
         \/ /\ \A c \in Service!CommandsFor(t) : Creation(c) => Settled(c)'
            /\ status'[t] = "deleted" =>
                  \A c \in Service!CommandsFor(t) : Settled(c)' \/ cmds[c].type = "delete_tenant"
  PROVE  Calm(t)'
<1>1. \A c \in Service!CommandsFor(t) :
         /\ cmds'[c].type = cmds[c].type
         /\ Creation(c)' <=> Creation(c)
         /\ Settled(c) => Settled(c)'
         /\ cmds'[c].status \in {"queued", "claimed"} => cmds[c].status \in {"queued", "claimed"}
  BY DEF Onward, SameCommand, Creation, Service!CommandsFor
<1>2. \A c, d \in Service!CommandsFor(t)' : c < d => Settled(c)'
  BY <1>1 DEF Calm
<1>3. CalmRow(t)'
  BY <1>1 DEF Calm, CalmRow
<1> QED  BY <1>2, <1>3 DEF Calm

\* A request that no step touches stays calm.
LEMMA SameRequestCalm ==
  ASSUME NEW t \in Tenants, NEW r \in Requests, CalmRequest(reqs[r], t), Onward,
         Service!CommandsFor(t)' = Service!CommandsFor(t), reqs'[r] = reqs[r],
         status'[t] = status[t]
  PROVE  CalmRequest(reqs[r], t)'
<1>1. \A c \in Service!CommandsFor(t) :
         /\ cmds'[c].type = cmds[c].type
         /\ Settled(c) => Settled(c)'
  BY DEF Onward, SameCommand, Service!CommandsFor
<1> QED  BY <1>1 DEF CalmRequest

\* A step that leaves t's row and t's rows' number alone leaves t calm.
LEMMA UntouchedCalm ==
  ASSUME NEW t \in Tenants, Calm(t), Onward,
         Service!CommandsFor(t)' = Service!CommandsFor(t), status'[t] = status[t],
         \A r \in Requests : reqs'[r].tenant = t => reqs'[r] = reqs[r]
  PROVE  Calm(t)'
<1>1. \A r \in Requests : reqs'[r].tenant = t => CalmRequest(reqs[r], t)'
  <2> SUFFICES ASSUME NEW r \in Requests, reqs'[r].tenant = t PROVE CalmRequest(reqs[r], t)'
    OBVIOUS
  <2>1. reqs'[r] = reqs[r] /\ CalmRequest(reqs[r], t)
    BY DEF Calm
  <2> QED  BY <2>1, SameRequestCalm
<1> QED  BY <1>1, CalmStays

\* The requests send every row onward, and no creation begins or ends to run.
LEMMA GrownOnward ==
  ASSUME WellTyped, InOrder, Grown, polls' = polls
  PROVE  /\ Onward
         /\ \A t \in Tenants : BeingCreated(t)' <=> BeingCreated(t)
<1>1. /\ \A c \in DOMAIN cmds : c \in DOMAIN cmds' /\ cmds'[c] = cmds[c]
      /\ \A c \in DOMAIN cmds' : c \in DOMAIN cmds \/ cmds'[c].status = "queued"
  BY DEF Grown, SameRows, Joined
<1>2. Onward
  BY <1>1 DEF Onward, SameCommand, Settled, Holding
<1>3. \A p \in Queue!Poll : Queue!At(p, "reconcileResult") => polls[p].cmd \in DOMAIN cmds
  BY HeldCommand DEF Queue!At, HoldingPc
<1>4. ASSUME NEW t \in Tenants
      PROVE  BeingCreated(t)' <=> BeingCreated(t)
  <2>1. (\E c \in Service!CommandsFor(t) :
            cmds[c].type = "create_tenant" /\ cmds[c].status = "running")'
        <=> (\E c \in Service!CommandsFor(t) :
            cmds[c].type = "create_tenant" /\ cmds[c].status = "running")
    BY <1>1 DEF Service!CommandsFor
  <2>2. (\E p \in Queue!Poll :
          /\ Queue!At(p, "reconcileResult")
          /\ cmds[polls[p].cmd].tenant = t
          /\ cmds[polls[p].cmd].type = "create_tenant")'
        <=> (\E p \in Queue!Poll :
          /\ Queue!At(p, "reconcileResult")
          /\ cmds[polls[p].cmd].tenant = t
          /\ cmds[polls[p].cmd].type = "create_tenant")
    BY <1>1, <1>3 DEF Queue!At
  <2> QED  BY <2>1, <2>2 DEF BeingCreated
<1> QED  BY <1>2, <1>4

\* A tenant without commands is not being created.
LEMMA NoneBeingCreated ==
  ASSUME WellTyped, InOrder, NEW t \in Tenants, Service!CommandsFor(t) = {}
  PROVE  ~BeingCreated(t)
<1>1. \A p \in Queue!Poll : Queue!At(p, "reconcileResult") => polls[p].cmd \in DOMAIN cmds
  BY HeldCommand DEF Queue!At, HoldingPc
<1> QED  BY <1>1 DEF BeingCreated, Service!CommandsFor

\* How a status that changes moves the life of its tenant.
LEMMA StatusMovesLife ==
  ASSUME NEW t \in Tenants, BeingCreated(t)' <=> BeingCreated(t),
         \/ status'[t] = status[t]
         \/ ~BeingCreated(t) /\ LifeStep(status[t], status'[t])
         \/ status[t] \in Lifecycle!Live /\ status'[t] \in {"active", "suspended", "deleted"}
  PROVE  LivesOn(t)
  BY DEF LivesOn, Life, LifeStep, Lifecycle!Live

\* A request's step that enqueues nothing.
LEMMA CalmQuiet ==
  ASSUME WellTyped, InOrder, AllCalm, NEW r \in Requests, NEW t \in Tenants,
         cmds' = cmds, executions' = executions, polls' = polls, OthersStay(r),
         reqs'[r].tenant \in {t, NoTenant}, \A o \in Requests : o # r => reqs[o].tenant # t,
         \A u \in Tenants : u # t => status'[u] = status[u],
         reqs'[r].tenant = t => CalmRequest(reqs[r], t)',
         \/ status'[t] = status[t]
         \/ Service!CommandsFor(t) = {} /\ LifeStep(status[t], status'[t])
         \/ /\ status[t] \in Lifecycle!Live /\ status'[t] \in {"active", "suspended", "deleted"}
            /\ \A c \in Service!CommandsFor(t) : Creation(c) => Settled(c)
            /\ status'[t] = "deleted" =>
                  \A c \in Service!CommandsFor(t) : Settled(c) \/ cmds[c].type = "delete_tenant"
  PROVE  CalmlyOn
<1>1. /\ Onward
      /\ \A u \in Tenants : BeingCreated(u)' <=> BeingCreated(u)
  BY GrownOnward DEF Grown, SameRows
<1>2. \A u : Service!CommandsFor(u)' = Service!CommandsFor(u)
  BY DEF Service!CommandsFor
<1>3. \A u \in Tenants : u # t => Calm(u)'
  <2> SUFFICES ASSUME NEW u \in Tenants, u # t PROVE Calm(u)'
    OBVIOUS
  <2>1. \A o \in Requests : reqs'[o].tenant = u => reqs'[o] = reqs[o]
    BY NoTenantAssumption DEF OthersStay
  <2> QED  BY <1>1, <1>2, <2>1, UntouchedCalm DEF AllCalm
<1>4. Calm(t)'
  <2>1. \A o \in Requests : reqs'[o].tenant = t => CalmRequest(reqs[o], t)'
    BY DEF OthersStay
  <2>2. \A c \in Service!CommandsFor(t) : Settled(c) => Settled(c)'
    BY <1>1 DEF Onward, Service!CommandsFor
  <2> QED  BY <1>1, <1>2, <2>1, <2>2, CalmStays DEF AllCalm
<1>5. LivesOn(t)
  BY <1>1, NoneBeingCreated, StatusMovesLife
<1>6. \A u \in Tenants : u # t => LivesOn(u)
  BY <1>1, StatusMovesLife
<1> QED  BY <1>3, <1>4, <1>5, <1>6 DEF AllCalm, CalmlyOn

\* A request's step that enqueues a row.
LEMMA CalmLoud ==
  ASSUME WellTyped, InOrder, AllCalm, NEW r \in Requests, NEW t \in Tenants,
         NEW n, NEW h, NEW ty, NEW pl, Joined(n, h, t, ty, pl),
         polls' = polls, OthersStay(r), status' = status,
         reqs'[r].tenant \in {t, NoTenant}, \A o \in Requests : o # r => reqs[o].tenant # t,
         \A c \in Service!CommandsFor(t) : Settled(c),
         reqs'[r].tenant = t => CalmRequest(reqs[r], t)',
         ty = "create_tenant" => status[t] = "provisioning",
         status[t] = "deleted" => ty = "delete_tenant"
  PROVE  CalmlyOn
<1>1. /\ Onward
      /\ \A u \in Tenants : BeingCreated(u)' <=> BeingCreated(u)
  BY GrownOnward DEF Grown
<1>2. /\ Service!CommandsFor(t)' = Service!CommandsFor(t) \cup {n}
      /\ \A u : u # t => Service!CommandsFor(u)' = Service!CommandsFor(u)
      /\ \A c \in DOMAIN cmds : Creation(c)' <=> Creation(c)
      /\ Creation(n)' <=> ty = "create_tenant"
  BY JoinedSay DEF WellTyped
<1>3. \A u \in Tenants : u # t => Calm(u)'
  <2> SUFFICES ASSUME NEW u \in Tenants, u # t PROVE Calm(u)'
    OBVIOUS
  <2>1. \A o \in Requests : reqs'[o].tenant = u => reqs'[o] = reqs[o]
    BY NoTenantAssumption DEF OthersStay
  <2> QED  BY <1>1, <1>2, <2>1, UntouchedCalm DEF AllCalm
<1>4. Calm(t)'
  <2>1. \A o \in Requests : reqs'[o].tenant = t => CalmRequest(reqs[o], t)'
    BY DEF OthersStay
  <2>2. \A c \in Service!CommandsFor(t) : Settled(c)' /\ c \in DOMAIN cmds
    BY <1>1 DEF Onward, Service!CommandsFor
  <2>3. \A c, d \in Service!CommandsFor(t)' : c < d => Settled(c)'
    <3>1. \A d \in DOMAIN cmds : d < n /\ d \in Nat /\ n \in Nat
      BY DEF Joined, WellTyped, CommandsOK
    <3>2. n \in Nat
      BY DEF Joined
    <3>3. \A d \in Service!CommandsFor(t)' : ~(n < d)
      BY <1>2, <2>2, <3>1, <3>2
    <3> QED  BY <1>2, <2>2, <3>3
  <2>4. CalmRow(t)'
    BY <1>2, <2>2 DEF CalmRow, Joined
  <2> QED  BY <2>1, <2>3, <2>4 DEF Calm
<1>5. \A u \in Tenants : LivesOn(u)
  BY <1>1, StatusMovesLife
<1> QED  BY <1>3, <1>4, <1>5 DEF AllCalm, CalmlyOn

-----------------------------------------------------------------------------
(***************************************************************************)
(* The steps of the requests, in calm use.                                 *)
(***************************************************************************)

\* What a request in progress knows in calm use.
LEMMA CalmActive ==
  ASSUME WellTyped, AllAgree, InOrder, AllCalm, NEW r \in Requests, reqs[r].pc # "idle",
         NEW t, t = reqs[r].tenant
  PROVE  /\ t \in Tenants /\ Serves(reqs[r], t) /\ CalmRequest(reqs[r], t)
         /\ \A o \in Requests : o # r => reqs[o].tenant # t
         /\ status[t] \in TenantStatus \cup {"absent"}
  BY ActiveRequest DEF AllCalm, Calm, WellTyped, TablesOK

\* A request begins with a tenant at rest.
LEMMA CalmBegin ==
  ASSUME WellTyped, AllAgree, InOrder, AllCalm, NEW r \in Requests, NEW t \in Tenants,
         NEW q \in Service!Request, Service!Begin(r, q), q.tenant = t, AtRest(t),
         q.pc \in {"insert", "command", "status"},
         q.pc = "insert" => status[t] = "absent",
         q.pc \in ActionPc => status[t] # "deleted",
         cmds' = cmds, executions' = executions, status' = status, polls' = polls
  PROVE  CalmlyOn
<1>1. reqs'[r] = q /\ OthersStay(r) /\ \A o \in Requests : reqs[o].tenant # t
  BY DEF Service!Begin, WellTyped, RequestsOK, OthersStay, AtRest
<1>2. \A c \in Service!CommandsFor(t) : Settled(c)
  BY DEF AtRest, Settled, Holding, HoldingPc, Service!CommandsFor
<1>3. \A c \in Service!CommandsFor(t)' : Settled(c)'
  BY <1>2 DEF Service!CommandsFor, Settled, Holding
<1>4. CalmRequest(reqs[r], t)'
  BY <1>1, <1>3 DEF CalmRequest, Choosing, Placed
<1> QED  BY <1>1, <1>4, CalmQuiet

\* Both ways to begin one.
LEMMA CalmBeginRequest ==
  ASSUME WellTyped, AllAgree, InOrder, AllCalm, use = "calm", NEW r \in Requests, BeginRequest(r)
  PROVE  CalmlyOn
<1>1. /\ executions' = executions /\ polls' = polls /\ Service!BeginRequest(r)
      /\ AtRest(reqs'[r].tenant) /\ status[reqs'[r].tenant] # "deleted"
  BY DEF BeginRequest, queueVars
<1>2. ASSUME NEW t \in Tenants, NEW size \in Sizes, NEW auto \in BOOLEAN,
             NEW h \in Hosts \cup {NoHost}, Service!BeginCreate(r, t, size, auto, h)
      PROVE  CalmlyOn
  <2> DEFINE q == [Service!Idle EXCEPT !.pc = "insert", !.tenant = t, !.host = h,
                                       !.size = size, !.auto = auto]
  <2>1. q \in Service!Request /\ q.tenant = t /\ q.pc = "insert"
    BY ComponentsAssumption
    DEF Service!Idle, Service!Request, Service!CreatePc, Service!ActionPc, Service!NoSize, Service!Size
  <2>2. Service!Begin(r, q) /\ cmds' = cmds /\ status' = status /\ status[t] = "absent"
    BY <1>2 DEF Service!BeginCreate
  <2> HIDE DEF q
  <2>3. reqs'[r] = q
    BY <2>2 DEF Service!Begin, WellTyped, RequestsOK
  <2>4. AtRest(t) /\ q.pc \notin ActionPc
    BY <1>1, <2>1, <2>3 DEF ActionPc
  <2> QED  BY <1>1, <2>1, <2>2, <2>4, CalmBegin
<1>3. ASSUME NEW t \in Tenants, NEW a \in Actions, Service!BeginAction(r, t, a)
      PROVE  CalmlyOn
  <2> DEFINE pc == IF assigned[t] = NoHost THEN "status" ELSE "command"
             q == [Service!Idle EXCEPT !.pc = pc, !.tenant = t, !.host = assigned[t],
                                       !.size = limits[t], !.action = a]
  <2>1. assigned[t] \in Hosts \cup {NoHost} /\ limits[t] \in Service!Size /\ a \in Service!TenantAction
    BY ComponentsAssumption DEF WellTyped, TablesOK
  <2>2. q \in Service!Request /\ q.tenant = t /\ q.pc = pc
    BY <2>1 DEF Service!Idle, Service!Request, Service!CreatePc, Service!ActionPc, Service!NoSize
  <2>3. Service!Begin(r, q) /\ cmds' = cmds /\ status' = status
    BY <1>3 DEF Service!BeginAction
  <2> HIDE DEF q
  <2>4. reqs'[r] = q
    BY <2>3 DEF Service!Begin, WellTyped, RequestsOK
  <2>5. AtRest(t) /\ status[t] # "deleted"
    BY <1>1, <2>2, <2>4
  <2> QED  BY <1>1, <2>2, <2>3, <2>5, CalmBegin
<1> QED  BY <1>1, <1>2, <1>3 DEF Service!BeginRequest

\* The steps of a creation.
LEMMA CalmInsert ==
  ASSUME WellTyped, AllAgree, InOrder, AllCalm, NEW r \in Requests, Service!InsertTenant(r),
         executions' = executions, polls' = polls
  PROVE  CalmlyOn
<1>1. PICK t : t = reqs[r].tenant
  OBVIOUS
<1>2. reqs[r].pc = "insert" /\ cmds' = cmds
  BY DEF Service!InsertTenant, Service!At
<1>3. /\ t \in Tenants /\ Serves(reqs[r], t) /\ CalmRequest(reqs[r], t)
      /\ \A o \in Requests : o # r => reqs[o].tenant # t
  BY <1>1, <1>2, CalmActive
<1>4. Service!CommandsFor(t) = {} /\ status[t] = "absent"
  BY <1>2, <1>3 DEF Serves, CreatePc, CalmRequest
<1>5. status' = [status EXCEPT ![t] = "pending"] /\ Service!Goto(r, "select")
  BY <1>1, <1>4 DEF Service!InsertTenant
<1>6. Advances(r, "select")
  BY <1>2, <1>5, GotoAdvances DEF WellTyped, CreatePc
<1>7. status'[t] = "pending" /\ \A u \in Tenants : u # t => status'[u] = status[u]
  BY <1>3, <1>5 DEF WellTyped, TablesOK
<1>8. CalmRequest(reqs[r], t)'
  BY <1>6, <1>7 DEF CalmRequest, Advances, Choosing, Placed, ActionPc
<1>9. LifeStep(status[t], status'[t])
  BY <1>4, <1>7 DEF LifeStep
<1> QED  BY <1>1, <1>2, <1>3, <1>4, <1>6, <1>7, <1>8, <1>9, CalmQuiet DEF Advances

\* The choice of a host, and the provisioning, change no status.
LEMMA CalmChoosing ==
  ASSUME WellTyped, AllAgree, InOrder, AllCalm, NEW r \in Requests,
         Service!SelectHost(r) \/ Service!Provision(r),
         executions' = executions, polls' = polls
  PROVE  CalmlyOn
<1>1. PICK t : t = reqs[r].tenant
  OBVIOUS
<1>2. reqs[r].pc \in {"select", "provision"} /\ cmds' = cmds /\ status' = status
  BY DEF Service!SelectHost, Service!Provision, Service!At
<1>3. /\ t \in Tenants /\ CalmRequest(reqs[r], t)
      /\ \A o \in Requests : o # r => reqs[o].tenant # t
  BY <1>1, <1>2, CalmActive
<1>4. /\ OthersStay(r) /\ reqs'[r].tenant = t
      /\ reqs'[r].pc \in {"provision", "giveUp", "assign"}
  <2>1. ASSUME NEW pc \in {"provision", "giveUp", "assign"}, Service!Goto(r, pc)
        PROVE  Advances(r, pc)
    BY <1>2, <2>1, GotoAdvances DEF WellTyped, CreatePc
  <2>2. ASSUME NEW h \in Service!Preferred(reqs[r].size),
               reqs' = [reqs EXCEPT ![r].pc = "provision", ![r].host = h]
        PROVE  OthersStay(r) /\ reqs'[r].pc = "provision" /\ reqs'[r].tenant = reqs[r].tenant
    <3>1. h \in Hosts
      BY DEF Service!Preferred, Service!Candidates
    <3> QED  BY <1>2, <2>2, <3>1, SelectionAdvances DEF WellTyped
  <2> QED  BY <1>1, <2>1, <2>2 DEF Service!SelectHost, Service!Provision, Advances
<1>5. CalmRequest(reqs[r], t)'
  BY <1>2, <1>3, <1>4 DEF CalmRequest, Choosing, Placed, ActionPc
<1> QED  BY <1>2, <1>3, <1>4, <1>5, CalmQuiet

\* A creation without a host fails.
LEMMA CalmGiveUp ==
  ASSUME WellTyped, AllAgree, InOrder, AllCalm, NEW r \in Requests, Service!GiveUp(r),
         executions' = executions, polls' = polls
  PROVE  CalmlyOn
<1>1. PICK t : t = reqs[r].tenant
  OBVIOUS
<1>2. /\ reqs[r].pc = "giveUp" /\ cmds' = cmds
      /\ status' = [status EXCEPT ![t] = "failed"] /\ Service!Done(r)
  BY <1>1 DEF Service!GiveUp, Service!At
<1>3. /\ t \in Tenants /\ Serves(reqs[r], t) /\ CalmRequest(reqs[r], t)
      /\ \A o \in Requests : o # r => reqs[o].tenant # t
  BY <1>1, <1>2, CalmActive
<1>4. Service!CommandsFor(t) = {} /\ status[t] = "pending"
  BY <1>2, <1>3 DEF Serves, CreatePc, CalmRequest, Choosing
<1>5. status'[t] = "failed" /\ \A u \in Tenants : u # t => status'[u] = status[u]
  BY <1>2, <1>3 DEF WellTyped, TablesOK
<1>6. OthersStay(r) /\ reqs'[r].tenant = NoTenant
  BY <1>2, DoneEnds DEF WellTyped, Ends
<1>7. LifeStep(status[t], status'[t])
  BY <1>4, <1>5 DEF LifeStep
<1> QED  BY <1>2, <1>3, <1>4, <1>5, <1>6, <1>7, NoTenantAssumption, CalmQuiet

\* A tenant is placed once: it was pending.
LEMMA CalmAssign ==
  ASSUME WellTyped, AllAgree, InOrder, AllCalm, NEW r \in Requests, Service!AssignHost(r),
         executions' = executions, polls' = polls
  PROVE  CalmlyOn
<1>1. PICK t : t = reqs[r].tenant
  OBVIOUS
<1>2. /\ reqs[r].pc = "assign" /\ cmds' = cmds
      /\ status' = [status EXCEPT ![t] = "provisioning"] /\ Service!Goto(r, "reserve")
  BY <1>1 DEF Service!AssignHost, Service!At
<1>3. /\ t \in Tenants /\ Serves(reqs[r], t) /\ CalmRequest(reqs[r], t)
      /\ \A o \in Requests : o # r => reqs[o].tenant # t
  BY <1>1, <1>2, CalmActive
<1>4. Service!CommandsFor(t) = {} /\ status[t] = "pending"
  BY <1>2, <1>3 DEF Serves, CreatePc, CalmRequest, Choosing
<1>5. status'[t] = "provisioning" /\ \A u \in Tenants : u # t => status'[u] = status[u]
  BY <1>2, <1>3 DEF WellTyped, TablesOK
<1>6. Advances(r, "reserve")
  BY <1>2, GotoAdvances DEF WellTyped, CreatePc
<1>7. LifeStep(status[t], status'[t])
  BY <1>4, <1>5 DEF LifeStep
<1>8. CalmRequest(reqs[r], t)'
  BY <1>5, <1>6 DEF CalmRequest, Advances, Choosing, Placed, ActionPc
<1> QED  BY <1>1, <1>2, <1>3, <1>4, <1>5, <1>6, <1>7, <1>8, CalmQuiet DEF Advances

\* The reservation is silent about the tenant.
LEMMA CalmReserve ==
  ASSUME WellTyped, AllAgree, InOrder, AllCalm, NEW r \in Requests, Service!ReserveCapacity(r),
         executions' = executions, polls' = polls
  PROVE  CalmlyOn
<1>1. PICK t : t = reqs[r].tenant
  OBVIOUS
<1>2. /\ reqs[r].pc = "reserve" /\ cmds' = cmds /\ status' = status /\ Service!Goto(r, "enqueue")
  BY DEF Service!ReserveCapacity, Service!At
<1>3. /\ t \in Tenants /\ CalmRequest(reqs[r], t)
      /\ \A o \in Requests : o # r => reqs[o].tenant # t
  BY <1>1, <1>2, CalmActive
<1>4. Advances(r, "enqueue")
  BY <1>2, GotoAdvances DEF WellTyped, CreatePc
<1>5. CalmRequest(reqs[r], t)'
  BY <1>2, <1>3, <1>4 DEF CalmRequest, Advances, Choosing, Placed, ActionPc
<1> QED  BY <1>1, <1>2, <1>3, <1>4, <1>5, CalmQuiet DEF Advances

\* The creation's command is its tenant's only one.
LEMMA CalmEnqueueCreate ==
  ASSUME WellTyped, AllAgree, InOrder, AllCalm, NEW r \in Requests, Service!EnqueueCreate(r),
         Counted, polls' = polls
  PROVE  CalmlyOn
<1>1. PICK t : t = reqs[r].tenant
  OBVIOUS
<1>2. PICK h : h = reqs[r].host
  OBVIOUS
<1>3. /\ reqs[r].pc = "enqueue" /\ status' = status /\ Service!Done(r)
      /\ cmds' = Append(cmds, QueuedRow(h, t, "create_tenant", "full"))
  BY <1>1, <1>2 DEF Service!EnqueueCreate, Service!At, Service!QueuedRow, QueuedRow
<1>4. /\ t \in Tenants /\ Serves(reqs[r], t) /\ CalmRequest(reqs[r], t)
      /\ \A o \in Requests : o # r => reqs[o].tenant # t
  BY <1>1, <1>3, CalmActive
<1>5. /\ Service!CommandsFor(t) = {} /\ status[t] = "provisioning"
      /\ assigned[t] = h /\ h # NoHost
  BY <1>2, <1>3, <1>4 DEF Serves, CreatePc, CalmRequest, Placed
<1>6. h \in Hosts
  BY <1>4, <1>5 DEF WellTyped, TablesOK
<1>7. OthersStay(r) /\ reqs'[r].tenant = NoTenant
  BY <1>3, DoneEnds DEF WellTyped, Ends
<1>8. "create_tenant" \in CommandType /\ "full" \in Payload
  BY DEF CommandType, Payload
<1>9. PICK n : Joined(n, h, t, "create_tenant", "full")
  BY <1>3, <1>4, <1>6, <1>8, EnqueueJoins DEF WellTyped
<1> QED  BY <1>3, <1>4, <1>5, <1>7, <1>9, NoTenantAssumption, CalmLoud

-----------------------------------------------------------------------------
\* The steps of an action.
LEMMA CalmEnqueueAction ==
  ASSUME WellTyped, AllAgree, InOrder, AllCalm, NEW r \in Requests, Service!EnqueueAction(r),
         Counted, polls' = polls
  PROVE  CalmlyOn
<1>1. PICK t : t = reqs[r].tenant
  OBVIOUS
<1>2. PICK h : h = reqs[r].host
  OBVIOUS
<1>3. PICK a : a = reqs[r].action
  OBVIOUS
<1>4. PICK ty : ty = Service!CommandOf[a]
  OBVIOUS
<1> DEFINE pc == IF a = "backup" THEN "backup" ELSE "status"
<1>5. /\ reqs[r].pc = "command" /\ status' = status /\ Service!Goto(r, pc)
      /\ cmds' = Append(cmds, QueuedRow(h, t, ty, "slug"))
  BY <1>1, <1>2, <1>3, <1>4 DEF Service!EnqueueAction, Service!At, Service!QueuedRow, QueuedRow
<1>6. /\ t \in Tenants /\ Serves(reqs[r], t) /\ CalmRequest(reqs[r], t)
      /\ \A o \in Requests : o # r => reqs[o].tenant # t
  BY <1>1, <1>5, CalmActive
<1>7. /\ assigned[t] = h /\ h # NoHost /\ a \in Service!TenantAction
      /\ \A c \in Service!CommandsFor(t) : Settled(c)
      /\ status[t] = "deleted" => a = "delete"
  BY <1>2, <1>3, <1>5, <1>6 DEF Serves, ActionPc, CalmRequest
<1>8. h \in Hosts
  BY <1>6, <1>7 DEF WellTyped, TablesOK
<1>9. Advances(r, pc)
  BY <1>5, GotoAdvances DEF WellTyped, ActionPc
<1>10. /\ ty \in CommandType /\ ty # "create_tenant" /\ "slug" \in Payload
       /\ a = "delete" => ty = "delete_tenant"
  BY <1>4, <1>7 DEF Service!TenantAction, Service!CommandOf, CommandType, Payload
<1>11. PICK n : Joined(n, h, t, ty, "slug")
  BY <1>5, <1>6, <1>8, <1>10, EnqueueJoins DEF WellTyped
<1>12. CalmRequest(reqs[r], t)'
  <2>1. reqs'[r].pc = pc /\ reqs'[r].action = a
    BY <1>3, <1>9 DEF Advances
  <2>2. Service!CommandsFor(t)' = Service!CommandsFor(t) \cup {n} /\ cmds'[n].type = ty
    BY <1>11, JoinedSay DEF WellTyped, Joined
  <2>3. \A c \in Service!CommandsFor(t) : Settled(c)'
    BY <1>7, <1>11 DEF Settled, Holding, Joined, Service!CommandsFor
  <2> QED  BY <1>4, <1>5, <1>7, <2>1, <2>2, <2>3 DEF CalmRequest, Choosing, Placed
<1> QED  BY <1>1, <1>5, <1>6, <1>7, <1>9, <1>10, <1>11, <1>12, CalmLoud DEF Advances

\* The row of a backup is silent about the tenant.
LEMMA CalmBackup ==
  ASSUME WellTyped, AllAgree, InOrder, AllCalm, NEW r \in Requests, Service!RecordBackup(r),
         executions' = executions, polls' = polls
  PROVE  CalmlyOn
<1>1. PICK t : t = reqs[r].tenant
  OBVIOUS
<1>2. reqs[r].pc = "backup" /\ cmds' = cmds /\ status' = status /\ Service!Goto(r, "status")
  BY DEF Service!RecordBackup, Service!At
<1>3. /\ t \in Tenants /\ CalmRequest(reqs[r], t)
      /\ \A o \in Requests : o # r => reqs[o].tenant # t
  BY <1>1, <1>2, CalmActive
<1>4. Advances(r, "status")
  BY <1>2, GotoAdvances DEF WellTyped, ActionPc
<1>5. CalmRequest(reqs[r], t)'
  BY <1>2, <1>3, <1>4
  DEF CalmRequest, Advances, Choosing, Placed, ActionPc, Settled, Holding, Service!CommandsFor
<1> QED  BY <1>1, <1>2, <1>3, <1>4, <1>5, CalmQuiet DEF Advances

\* An action sets the status of a tenant that has no other command under way.
LEMMA CalmStatus ==
  ASSUME WellTyped, AllAgree, InOrder, AllCalm, NEW r \in Requests, Service!SetStatus(r),
         executions' = executions, polls' = polls
  PROVE  CalmlyOn
<1>1. PICK t : t = reqs[r].tenant
  OBVIOUS
<1>2. PICK a : a = reqs[r].action
  OBVIOUS
<1>3. PICK s : s = Service!StatusAfter(a, status[t])
  OBVIOUS
<1>4. /\ reqs[r].pc = "status" /\ cmds' = cmds
      /\ status' = [status EXCEPT ![t] = s]
      /\ (a = "delete" /\ Service!Goto(r, "release")) \/ Service!Done(r)
  BY <1>1, <1>2, <1>3 DEF Service!SetStatus, Service!At, Service!Releases
<1>5. /\ t \in Tenants /\ Serves(reqs[r], t) /\ CalmRequest(reqs[r], t)
      /\ \A o \in Requests : o # r => reqs[o].tenant # t
      /\ status[t] \in TenantStatus \cup {"absent"}
  BY <1>1, <1>4, CalmActive
<1>6. /\ status[t] # "absent" /\ a \in Service!TenantAction
      /\ status[t] = "deleted" => a = "delete"
      /\ \A c \in Service!CommandsFor(t) : Settled(c) \/ cmds[c].type = Service!CommandOf[a]
  BY <1>2, <1>4, <1>5 DEF Serves, ActionPc, CalmRequest
<1>7. /\ s = status[t] \/ s \in {"active", "suspended", "deleted"}
      /\ s = "deleted" => s = status[t] \/ a = "delete"
      /\ a = "delete" => s = "deleted"
  BY <1>3, <1>6 DEF Service!StatusAfter, Service!TenantAction
<1>8. /\ Service!CommandOf[a] # "create_tenant"
      /\ a = "delete" => Service!CommandOf[a] = "delete_tenant"
  BY <1>6 DEF Service!TenantAction, Service!CommandOf
<1>9. status'[t] = s /\ \A u \in Tenants : u # t => status'[u] = status[u]
  BY <1>4, <1>5 DEF WellTyped, TablesOK
<1>10. \/ status'[t] = status[t]
       \/ /\ status[t] \in Lifecycle!Live /\ status'[t] \in {"active", "suspended", "deleted"}
          /\ \A c \in Service!CommandsFor(t) : Creation(c) => Settled(c)
          /\ status'[t] = "deleted" =>
                \A c \in Service!CommandsFor(t) : Settled(c) \/ cmds[c].type = "delete_tenant"
  BY <1>5, <1>6, <1>7, <1>8, <1>9 DEF Lifecycle!Live, TenantStatus, Creation
<1>11. CASE a = "delete" /\ Service!Goto(r, "release")
  <2>1. Advances(r, "release")
    BY <1>4, <1>11, GotoAdvances DEF WellTyped, ActionPc
  <2>2. \A c \in Service!CommandsFor(t)' : Settled(c)' \/ cmds'[c].type = Service!CommandOf[a]
    BY <1>4, <1>6 DEF Settled, Holding, Service!CommandsFor
  <2>3. CalmRequest(reqs[r], t)'
    BY <1>2, <1>11, <2>1, <2>2 DEF CalmRequest, Advances, Choosing, Placed
  <2> QED  BY <1>1, <1>4, <1>5, <1>9, <1>10, <2>1, <2>3, CalmQuiet DEF Advances
<1>12. CASE Service!Done(r)
  <2>1. OthersStay(r) /\ reqs'[r].tenant = NoTenant
    BY <1>12, DoneEnds DEF WellTyped, Ends
  <2> QED  BY <1>4, <1>5, <1>9, <1>10, <2>1, NoTenantAssumption, CalmQuiet
<1> QED  BY <1>4, <1>11, <1>12

\* The release is silent about the tenant.
LEMMA CalmRelease ==
  ASSUME WellTyped, AllAgree, InOrder, AllCalm, NEW r \in Requests, Service!ReleaseCapacity(r),
         executions' = executions, polls' = polls
  PROVE  CalmlyOn
<1>1. PICK t : t = reqs[r].tenant
  OBVIOUS
<1>2. reqs[r].pc = "release" /\ cmds' = cmds /\ status' = status /\ Service!Done(r)
  BY DEF Service!ReleaseCapacity, Service!At
<1>3. t \in Tenants /\ \A o \in Requests : o # r => reqs[o].tenant # t
  BY <1>1, <1>2, CalmActive
<1>4. OthersStay(r) /\ reqs'[r].tenant = NoTenant
  BY <1>2, DoneEnds DEF WellTyped, Ends
<1> QED  BY <1>2, <1>3, <1>4, NoTenantAssumption, CalmQuiet

\* Every step of a request.
LEMMA CalmRequestStep ==
  ASSUME WellTyped, AllAgree, InOrder, AllCalm, NEW r \in Requests, RequestStep(r)
  PROVE  CalmlyOn
<1>1. Service!RequestStep(r) /\ Counted /\ polls' = polls
  BY DEF RequestStep
<1>2. CASE cmds' = cmds
  <2>1. executions' = executions
    BY <1>1, <1>2, CountersStay DEF WellTyped, SameRows
  <2> QED  BY <1>1, <2>1, CalmInsert, CalmChoosing, CalmGiveUp, CalmAssign, CalmReserve,
             CalmEnqueueCreate, CalmEnqueueAction, CalmBackup, CalmStatus, CalmRelease
           DEF Service!RequestStep
<1>3. CASE cmds' # cmds
  <2>1. Service!EnqueueCreate(r) \/ Service!EnqueueAction(r)
    BY <1>1, <1>3 DEF Service!RequestStep, Service!InsertTenant, Service!SelectHost, Service!GiveUp,
       Service!Provision, Service!AssignHost, Service!ReserveCapacity, Service!RecordBackup,
       Service!SetStatus, Service!ReleaseCapacity
  <2> QED  BY <1>1, <2>1, CalmEnqueueCreate, CalmEnqueueAction
<1> QED  BY <1>2, <1>3

-----------------------------------------------------------------------------
(***************************************************************************)
(* The steps of the polls, in calm use.                                    *)
(***************************************************************************)

\* The polls take up queued rows only, and write only rows they hold.
Handled ==
    /\ SameCommands
    /\ \A o \in Queue!Poll, d \in DOMAIN cmds :
          Holding(o, d)' => Holding(o, d) \/ cmds[d].status = "queued"
    /\ \A d \in DOMAIN cmds :
          \/ cmds'[d].status = cmds[d].status
          \/ /\ \E o \in Queue!Poll : Holding(o, d)
             /\ cmds'[d].status \in {"queued", "claimed"} => cmds[d].status \in {"queued", "claimed"}

\* Then the rows go onward.
LEMMA HandledOnward ==
  ASSUME Handled
  PROVE  /\ Onward
         /\ \A t : Service!CommandsFor(t)' = Service!CommandsFor(t)
<1>1. \A d \in DOMAIN cmds : Settled(d) => Settled(d)'
  <2> SUFFICES ASSUME NEW d \in DOMAIN cmds, Settled(d) PROVE Settled(d)'
    OBVIOUS
  <2>1. cmds'[d].status = cmds[d].status /\ cmds[d].status # "queued"
    BY DEF Handled, Settled, Completed
  <2>2. \A o \in Queue!Poll : ~Holding(o, d)'
    BY <2>1 DEF Handled, Settled
  <2> QED  BY <2>1, <2>2 DEF Settled
<1>2. Onward
  BY <1>1 DEF Onward, Handled, SameCommands
<1> QED  BY <1>2, SameCommandsSay DEF Handled

\* A step of the polls that leaves the tenants' rows alone: it begins no creation of a
\* tenant that is shown as failed.
LEMMA CalmPoll ==
  ASSUME AllCalm, Handled, status' = status,
         reqs' = reqs \/ \A r \in Requests : reqs'[r].tenant = NoTenant,
         \A t \in Tenants : status[t] = "failed" /\ BeingCreated(t)' => BeingCreated(t)
  PROVE  CalmlyOn
<1>1. Onward /\ \A t : Service!CommandsFor(t)' = Service!CommandsFor(t)
  BY HandledOnward
<1>2. ASSUME NEW t \in Tenants
      PROVE  Calm(t)' /\ LivesOn(t)
  <2>1. \A r \in Requests : reqs'[r].tenant = t => reqs'[r] = reqs[r]
    BY NoTenantAssumption
  <2>2. Calm(t)'
    BY <1>1, <2>1, UntouchedCalm DEF AllCalm
  <2>3. LivesOn(t)
    BY DEF LivesOn, LifeStep, Life
  <2> QED  BY <2>2, <2>3
<1> QED  BY <1>2 DEF CalmlyOn, AllCalm

\* A creation that is reported is one whose command is running, or was so until now.
LEMMA CreationsFade ==
  ASSUME WellTyped, InOrder, SameCommands,
         \A d \in DOMAIN cmds : cmds'[d].status = "running" => cmds[d].status = "running",
         \A o \in Queue!Poll : Queue!At(o, "reconcileResult")' =>
            \/ Queue!At(o, "reconcileResult") /\ polls'[o].cmd = polls[o].cmd
            \/ polls'[o].cmd \in DOMAIN cmds /\ cmds[polls'[o].cmd].status = "running"
  PROVE  \A t \in Tenants : BeingCreated(t)' => BeingCreated(t)
<1> SUFFICES ASSUME NEW t \in Tenants, BeingCreated(t)' PROVE BeingCreated(t)
  OBVIOUS
<1>1. \A d \in DOMAIN cmds : cmds'[d].tenant = cmds[d].tenant /\ cmds'[d].type = cmds[d].type
  BY DEF SameCommands, SameCommand
<1>2. Service!CommandsFor(t)' = Service!CommandsFor(t)
  BY SameCommandsSay
<1>3. CASE \E c \in Service!CommandsFor(t)' :
              cmds'[c].type = "create_tenant" /\ cmds'[c].status = "running"
  BY <1>1, <1>2, <1>3 DEF BeingCreated, Service!CommandsFor
<1>4. CASE \E o \in Queue!Poll :
              /\ Queue!At(o, "reconcileResult")'
              /\ cmds'[polls'[o].cmd].tenant = t
              /\ cmds'[polls'[o].cmd].type = "create_tenant"
  <2>1. PICK o \in Queue!Poll :
              /\ Queue!At(o, "reconcileResult")'
              /\ cmds'[polls'[o].cmd].tenant = t
              /\ cmds'[polls'[o].cmd].type = "create_tenant"
    BY <1>4
  <2>2. CASE Queue!At(o, "reconcileResult") /\ polls'[o].cmd = polls[o].cmd
    <3>1. polls[o].cmd \in DOMAIN cmds
      BY <2>2, HeldCommand DEF Queue!At, HoldingPc
    <3> QED  BY <1>1, <2>1, <2>2, <3>1 DEF BeingCreated
  <2>3. CASE polls'[o].cmd \in DOMAIN cmds /\ cmds[polls'[o].cmd].status = "running"
    BY <1>1, <2>1, <2>3 DEF BeingCreated, Service!CommandsFor
  <2> QED  BY <2>1, <2>2, <2>3
<1> QED  BY <1>3, <1>4 DEF BeingCreated

\* Once its creation is settled, a tenant is not being created.
LEMMA SettledCreation ==
  ASSUME WellTyped, InOrder, NEW t \in Tenants,
         \A c \in Service!CommandsFor(t) : Creation(c) => Settled(c)
  PROVE  ~BeingCreated(t)
<1>1. \A c \in Service!CommandsFor(t) : Creation(c) => cmds[c].status # "running"
  BY DEF Settled, Completed
<1>2. ASSUME NEW p \in Queue!Poll, Queue!At(p, "reconcileResult"),
             cmds[polls[p].cmd].tenant = t, cmds[polls[p].cmd].type = "create_tenant"
      PROVE  FALSE
  <2>1. Holding(p, polls[p].cmd) /\ polls[p].cmd \in DOMAIN cmds
    BY <1>2, HeldCommand DEF Queue!At, HoldingPc, Holding
  <2>2. Settled(polls[p].cmd)
    BY <1>2, <2>1 DEF Service!CommandsFor, Creation
  <2> QED  BY <2>1, <2>2 DEF Settled
<1> QED  BY <1>1, <1>2 DEF BeingCreated, Creation

-----------------------------------------------------------------------------
\* A poll that writes no row.
LEMMA CalmQuietPoll ==
  ASSUME WellTyped, InOrder, AllCalm, NEW p \in Queue!Poll, cmds' = cmds, status' = status,
         reqs' = reqs, \A o \in Queue!Poll : o # p => polls'[o] = polls[o],
         polls'[p].pc # "reconcileResult",
         \/ polls'[p].pc \notin HoldingPc
         \/ polls'[p].pc = "selected" /\ cmds[polls'[p].cmd].status = "queued"
         \/ polls[p].pc \in HoldingPc /\ polls'[p].cmd = polls[p].cmd
  PROVE  CalmlyOn
<1>1. SameCommands
  BY DEF SameCommands, SameCommand
<1>2. Handled
  BY <1>1 DEF Handled, Holding
<1>3. \A t \in Tenants : BeingCreated(t)' => BeingCreated(t)
  BY <1>1, CreationsFade DEF Queue!At
<1> QED  BY <1>2, <1>3, CalmPoll

\* What a claim and a report write into the row they hold.
LEMMA CalmClaim ==
  ASSUME WellTyped, InOrder, AllCalm, NEW p \in Queue!Poll, Queue!ClaimSelected(p), reqs' = reqs
  PROVE  CalmlyOn
<1>1. PICK c : c = polls[p].cmd
  OBVIOUS
<1>2. /\ Worked /\ status' = status
      /\ \A o \in Queue!Poll : o # p => polls'[o] = polls[o]
      /\ polls[p].pc = "selected" /\ c \in DOMAIN cmds /\ Written(c, "claimed")
      /\ (polls'[p].pc = "claimed" /\ polls'[p].cmd = c) \/ polls'[p].pc = "idle"
      /\ cmds[c].status = "queued"
  BY <1>1, ClaimStep DEF Queue!ClaimSelected
<1>3. Holding(p, c) /\ \A o \in Queue!Poll, d \in DOMAIN cmds : Holding(o, d)' => Holding(o, d)
  BY <1>1, <1>2 DEF Holding, HoldingPc
<1>4. Handled
  BY <1>2, <1>3 DEF Handled, Worked, Written
<1>5. \A t \in Tenants : BeingCreated(t)' => BeingCreated(t)
  BY <1>2, CreationsFade DEF Worked, Written, Queue!At
<1> QED  BY <1>2, <1>4, <1>5, CalmPoll

\* A creation that starts to run is of a tenant shown as provisioning.
LEMMA CalmRecord ==
  ASSUME WellTyped, AllAgree, InOrder, AllCalm, NEW p \in Queue!Poll, Queue!RecordResult(p),
         reqs' = reqs
  PROVE  CalmlyOn
<1>1. PICK c : c = polls[p].cmd
  OBVIOUS
<1>2. /\ Worked /\ status' = status
      /\ \A o \in Queue!Poll : o # p => polls'[o] = polls[o]
      /\ polls'[p].cmd = c /\ c \in DOMAIN cmds
      /\ \/ /\ polls[p].pc = "reportRunning" /\ polls'[p].pc = "reconcileRunning"
            /\ cmds[c].status = "claimed" /\ Written(c, "running")
         \/ /\ polls[p].pc = "reportResult" /\ polls'[p].pc = "reconcileResult"
            /\ cmds[c].status = "running" /\ polls[p].result \in Completed
            /\ Written(c, polls[p].result)
  BY <1>1, RecordStep DEF Queue!RecordResult
<1>3. Holding(p, c) /\ \A o \in Queue!Poll, d \in DOMAIN cmds : Holding(o, d)' => Holding(o, d)
  BY <1>1, <1>2 DEF Holding, HoldingPc
<1>4. cmds'[c].status \notin {"queued", "claimed"} /\ \A d \in DOMAIN cmds : d # c => cmds'[d] = cmds[d]
  BY <1>2 DEF Written, Completed
<1>5. Handled
  BY <1>2, <1>3, <1>4 DEF Handled, Worked
<1>6. CASE polls[p].pc = "reportResult"
  <2>1. \A d \in DOMAIN cmds : cmds'[d].status = "running" => cmds[d].status = "running"
    BY <1>2, <1>4, <1>6
  <2>2. \A t \in Tenants : BeingCreated(t)' => BeingCreated(t)
    BY <1>2, <1>6, <2>1, CreationsFade DEF Worked, Queue!At
  <2> QED  BY <1>2, <1>5, <2>2, CalmPoll
<1>7. CASE polls[p].pc = "reportRunning"
  <2>1. cmds[c].status = "claimed" /\ polls'[p].pc = "reconcileRunning"
    BY <1>2, <1>7
  <2>2. ASSUME NEW t \in Tenants, status[t] = "failed", BeingCreated(t)'
        PROVE  BeingCreated(t)
    <3>1. ~(c \in Service!CommandsFor(t) /\ Creation(c))
      BY <1>3, <2>1, <2>2 DEF AllCalm, Calm, CalmRow, Settled, Completed
    <3>2. /\ Service!CommandsFor(t)' = Service!CommandsFor(t)
          /\ \A d \in DOMAIN cmds : cmds'[d].type = cmds[d].type /\ cmds'[d].tenant = cmds[d].tenant
      BY <1>2, SameCommandsSay DEF Worked, SameCommands, SameCommand
    <3>3. CASE \E d \in Service!CommandsFor(t)' :
                  cmds'[d].type = "create_tenant" /\ cmds'[d].status = "running"
      BY <1>4, <3>1, <3>2, <3>3 DEF BeingCreated, Service!CommandsFor, Creation
    <3>4. CASE \E o \in Queue!Poll :
                  /\ Queue!At(o, "reconcileResult")'
                  /\ cmds'[polls'[o].cmd].tenant = t
                  /\ cmds'[polls'[o].cmd].type = "create_tenant"
      <4>1. PICK o \in Queue!Poll :
                  /\ Queue!At(o, "reconcileResult")'
                  /\ cmds'[polls'[o].cmd].tenant = t
                  /\ cmds'[polls'[o].cmd].type = "create_tenant"
        BY <3>4
      <4>2. o # p /\ polls'[o] = polls[o]
        BY <1>2, <2>1, <4>1 DEF Queue!At
      <4>3. polls[o].cmd \in DOMAIN cmds
        BY <4>1, <4>2, HeldCommand DEF Queue!At, HoldingPc
      <4> QED  BY <3>2, <4>1, <4>2, <4>3 DEF BeingCreated, Queue!At
    <3> QED  BY <2>2, <3>3, <3>4 DEF BeingCreated
  <2> QED  BY <1>2, <1>5, <2>2, CalmPoll
<1> QED  BY <1>2, <1>6, <1>7

\* While its creation is under way, a tenant has no request.
LEMMA CreationAlone ==
  ASSUME AllAgree, AllCalm, NEW t \in Tenants, NEW c \in Service!CommandsFor(t), Creation(c),
         ~Settled(c), NEW r \in Requests
  PROVE  reqs[r].tenant # t
<1> SUFFICES ASSUME reqs[r].tenant = t PROVE FALSE
  OBVIOUS
<1>1. Serves(reqs[r], t) /\ CalmRequest(reqs[r], t)
  BY DEF AllAgree, Agrees, AllCalm, Calm
<1>2. reqs[r].pc \in ActionPc
  BY <1>1 DEF Serves
<1>3. cmds[c].type = Service!CommandOf[reqs[r].action] /\ reqs[r].action \in Service!TenantAction
  BY <1>1, <1>2 DEF CalmRequest, Serves
<1> QED  BY <1>3 DEF Creation, Service!CommandOf, Service!TenantAction

\* What the two reports of a creation do: the first shows its tenant as failed though it
\* lives on as provisioning, the second decides what becomes of it.
LEMMA CalmReconcileCreation ==
  ASSUME WellTyped, AllAgree, InOrder, AllCalm, NEW p \in Queue!Poll, NEW t \in Tenants,
         NEW c \in Service!CommandsFor(t), Creation(c), Holding(p, c), cmds' = cmds,
         Onward, Service!CommandsFor(t)' = Service!CommandsFor(t),
         \A d \in Service!CommandsFor(t) : d # c => Settled(d),
         \A r \in Requests : reqs'[r].tenant = t => reqs[r].tenant = t,
         \/ /\ polls[p].pc = "reconcileRunning" /\ status'[t] = "failed"
         \/ /\ polls[p].pc = "reconcileResult" /\ status'[t] \in {"active", "failed"}
            /\ \A o \in Queue!Poll : ~Holding(o, c)' /\ cmds[c].status \in Completed
  PROVE  Calm(t)' /\ LivesOn(t)
<1>1. ~Settled(c) /\ \A r \in Requests : reqs'[r].tenant # t
  BY CreationAlone DEF Settled
<1>2. /\ status[t] \in {"provisioning", "failed"}
      /\ c \in DOMAIN cmds /\ cmds[c].type = "create_tenant" /\ cmds[c].tenant = t
  BY <1>1 DEF AllCalm, Calm, CalmRow, Service!CommandsFor, Creation
<1>3. \A d \in Service!CommandsFor(t) : d # c => Settled(d)' /\ d \in DOMAIN cmds
  BY DEF Onward, Service!CommandsFor
<1>4. \A d, e \in Service!CommandsFor(t)' : d < e => Settled(d)'
  BY DEF AllCalm, Calm, Onward, Service!CommandsFor
<1>5. CASE polls[p].pc = "reconcileRunning"
  <2>1. cmds[c].status = "running" /\ status'[t] = "failed"
    BY <1>5, HeldCommand DEF Holding, RowStatus
  <2>2. BeingCreated(t) /\ BeingCreated(t)'
    BY <1>2, <2>1 DEF BeingCreated
  <2>3. CalmRow(t)'
    <3>1. \A d \in Service!CommandsFor(t) : Settled(d)' \/ cmds[d].status = "running"
      BY <1>3, <2>1
    <3> QED  BY <2>1, <3>1 DEF CalmRow
  <2>4. LivesOn(t)
    BY <1>2, <2>1, <2>2 DEF LivesOn, LifeStep, Life
  <2> QED  BY <1>1, <1>4, <2>3, <2>4 DEF Calm
<1>6. CASE polls[p].pc = "reconcileResult"
  <2>1. /\ status'[t] \in {"active", "failed"} /\ Settled(c)'
    BY <1>6 DEF Settled
  <2>2. \A d \in Service!CommandsFor(t)' : Settled(d)'
    BY <1>3, <2>1
  <2>3. CalmRow(t)'
    BY <2>1, <2>2 DEF CalmRow
  <2>4. BeingCreated(t)
    BY <1>2, <1>6 DEF BeingCreated, Queue!At, Holding
  <2>5. Life(t) = "provisioning" /\ Life(t)' \in {"provisioning", "active", "failed"}
    BY <1>2, <2>1, <2>4 DEF Life
  <2>6. LivesOn(t)
    BY <2>5 DEF LivesOn, LifeStep, Lifecycle!Live
  <2> QED  BY <1>1, <1>4, <2>3, <2>6 DEF Calm
<1> QED  BY <1>5, <1>6

\* What the reports of any other command do.
LEMMA CalmReconcileOther ==
  ASSUME WellTyped, AllAgree, InOrder, AllCalm, NEW p \in Queue!Poll, NEW t \in Tenants,
         NEW c \in Service!CommandsFor(t), ~Creation(c), Holding(p, c), cmds' = cmds,
         Onward, Service!CommandsFor(t)' = Service!CommandsFor(t),
         \A d \in Service!CommandsFor(t) : d # c => Settled(d),
         reqs' = reqs, BeingCreated(t)' => BeingCreated(t),
         NEW s, status'[t] = Reconciled(cmds[c].type, s, status[t])
  PROVE  Calm(t)' /\ LivesOn(t)
<1>1. ~Settled(c) /\ \A d \in Service!CommandsFor(t) : Creation(d) => Settled(d)
  BY DEF Settled
<1>2. ~BeingCreated(t) /\ ~BeingCreated(t)'
  BY <1>1, SettledCreation
<1>3. status[t] # "absent" /\ status[t] \in TenantStatus \cup {"absent"}
  BY DEF AllAgree, Agrees, Row, Follows, WellTyped, TablesOK
<1>4. status[t] = "deleted" => cmds[c].type = "delete_tenant"
  BY <1>1 DEF AllCalm, Calm, CalmRow
<1>5. /\ status'[t] = status[t] \/ status'[t] \in {"active", "suspended", "deleted"}
      /\ status'[t] = "deleted" => status'[t] = status[t] \/ cmds[c].type = "delete_tenant"
  BY ReconciledIs DEF Creation
<1>6. cmds[c].type = "delete_tenant" => status'[t] \in {"deleted", status[t]}
  BY DEF Reconciled, OnSuccess
<1>7. status'[t] = status[t] \/ status[t] \in Lifecycle!Live
  BY <1>3, <1>4, <1>6 DEF Lifecycle!Live, TenantStatus
<1>8. \A d \in Service!CommandsFor(t) : (Settled(d) => Settled(d)') /\ d \in DOMAIN cmds
  BY DEF Onward, Service!CommandsFor
<1>9. \A r \in Requests : reqs'[r].tenant = t => CalmRequest(reqs[r], t)'
  <2> SUFFICES ASSUME NEW r \in Requests, reqs[r].tenant = t PROVE CalmRequest(reqs[r], t)'
    OBVIOUS
  <2>1. Serves(reqs[r], t) /\ CalmRequest(reqs[r], t)
    BY DEF AllAgree, Agrees, AllCalm, Calm
  <2>2. reqs[r].pc \in ActionPc /\ reqs[r].pc # "command"
    BY <1>1, <2>1 DEF Serves, CalmRequest
  <2>3. /\ cmds[c].type = Service!CommandOf[reqs[r].action]
        /\ reqs[r].action \in Service!TenantAction
    BY <1>1, <2>1, <2>2 DEF Serves, CalmRequest
  <2>4. cmds[c].type = "delete_tenant" => reqs[r].action = "delete"
    BY <2>3 DEF Service!CommandOf, Service!TenantAction
  <2>5. status'[t] = "deleted" => reqs[r].action = "delete"
    BY <1>5, <2>1, <2>2, <2>4 DEF CalmRequest
  <2>6. \A d \in Service!CommandsFor(t) :
           Settled(d)' \/ cmds[d].type = Service!CommandOf[reqs[r].action]
    BY <1>8, <2>1, <2>2 DEF CalmRequest
  <2> QED  BY <2>2, <2>5, <2>6 DEF CalmRequest, ActionPc, Choosing, Placed
<1>10. Calm(t)'
  <2>1. \A d \in Service!CommandsFor(t) : Creation(d) => Settled(d)'
    BY <1>1, <1>8
  <2>2. status'[t] # status[t] /\ status'[t] = "deleted" =>
           \A d \in Service!CommandsFor(t) : Settled(d)' \/ cmds[d].type = "delete_tenant"
    BY <1>5, <1>8
  <2> QED  BY <1>9, <2>1, <2>2, CalmStays DEF AllCalm
<1>11. LivesOn(t)
  BY <1>2, <1>5, <1>7, StatusMovesLife
<1> QED  BY <1>10, <1>11

\* The two kinds of reports together; other tenants are not touched.
LEMMA CalmReconcile ==
  ASSUME WellTyped, AllAgree, InOrder, AllCalm, NEW p \in Queue!Poll, Queue!ReconcileTenant(p),
         reqs' = reqs
  PROVE  CalmlyOn
<1>1. PICK c : c = polls[p].cmd
  OBVIOUS
<1>2. PICK t : t = cmds[c].tenant
  OBVIOUS
<1>3. /\ Worked /\ cmds' = cmds
      /\ \A o \in Queue!Poll : o # p => polls'[o] = polls[o]
      /\ c \in DOMAIN cmds /\ t \in Tenants
      /\ \/ /\ polls[p].pc = "reconcileRunning"
            /\ (polls'[p].cmd = c /\ polls'[p].pc = "running") \/ polls'[p].pc = "idle"
            /\ status' = [status EXCEPT ![t] = Reconciled(cmds[c].type, "running", @)]
         \/ /\ polls[p].pc = "reconcileResult" /\ polls'[p].pc = "idle"
            /\ polls[p].result \in Completed
            /\ status' = [status EXCEPT ![t] = Reconciled(cmds[c].type, polls[p].result, @)]
  BY <1>1, <1>2, ReconcileStep
<1>4. PICK s :
        /\ status' = [status EXCEPT ![t] = Reconciled(cmds[c].type, s, @)]
        /\ \/ polls[p].pc = "reconcileRunning" /\ s = "running"
           \/ /\ polls[p].pc = "reconcileResult" /\ s \in Completed /\ polls'[p].pc = "idle"
              /\ s = polls[p].result
  BY <1>3
<1>5. /\ status'[t] = Reconciled(cmds[c].type, s, status[t])
      /\ \A u \in Tenants : u # t => status'[u] = status[u]
  BY <1>3, <1>4 DEF WellTyped, TablesOK
<1>6. /\ Holding(p, c) /\ c \in Service!CommandsFor(t)
      /\ \A o \in Queue!Poll, d \in DOMAIN cmds : Holding(o, d)' => Holding(o, d)
  BY <1>1, <1>2, <1>3 DEF Holding, HoldingPc, Service!CommandsFor
<1>7. Handled
  BY <1>3, <1>6 DEF Handled, Worked
<1>8. Onward /\ \A u : Service!CommandsFor(u)' = Service!CommandsFor(u)
  BY <1>7, HandledOnward
<1>9. \A u \in Tenants : BeingCreated(u)' => BeingCreated(u)
  BY <1>3, CreationsFade DEF Worked, Queue!At
<1>10. \A d \in Service!CommandsFor(t) : d # c => Settled(d)
  <2>1. \A d \in DOMAIN cmds : d \in Nat
    BY DEF WellTyped, CommandsOK
  <2>2. ~Settled(c) /\ \A d \in Service!CommandsFor(t) : d \in DOMAIN cmds
    BY <1>6 DEF Settled, Service!CommandsFor
  <2>3. \A d, e \in Service!CommandsFor(t) : d < e => Settled(d)
    BY <1>3 DEF AllCalm, Calm
  <2> QED  BY <1>6, <2>1, <2>2, <2>3
<1>11. ASSUME NEW u \in Tenants, u # t
       PROVE  Calm(u)' /\ LivesOn(u)
  <2>1. Calm(u)'
    BY <1>5, <1>8, <1>11, UntouchedCalm DEF AllCalm
  <2>2. LivesOn(u)
    BY <1>5, <1>9, <1>11 DEF LivesOn, LifeStep, Life
  <2> QED  BY <2>1, <2>2
<1>12. Calm(t)' /\ LivesOn(t)
  <2>1. CASE Creation(c)
    <3>1. status'[t] = IF s = "succeeded" THEN "active" ELSE "failed"
      BY <1>5, <2>1, ReconciledIs DEF Creation
    <3>2. CASE polls[p].pc = "reconcileRunning"
      BY <1>3, <1>4, <1>6, <1>8, <1>10, <2>1, <3>1, <3>2, CalmReconcileCreation
    <3>3. CASE polls[p].pc = "reconcileResult"
      <4>1. cmds[c].status \in Completed
        BY <1>4, <1>6, <3>3, HeldCommand DEF Holding, RowStatus
      <4>2. \A o \in Queue!Poll : ~Holding(o, c)'
        <5> SUFFICES ASSUME NEW o \in Queue!Poll, Holding(o, c)' PROVE FALSE
          OBVIOUS
        <5>1. o # p
          BY <1>4, <3>3 DEF Holding, HoldingPc
        <5>2. Holding(o, c)
          BY <1>3, <1>6
        <5>3. o[1] = p[1]
          BY <1>6, <5>2, HeldCommand DEF Holding
        <5> QED  BY <1>6, <5>1, <5>2, <5>3, Alone DEF Holding, HoldingPc
      <4> QED  BY <1>3, <1>6, <1>8, <1>10, <2>1, <3>1, <3>3, <4>1, <4>2, CalmReconcileCreation
    <3> QED  BY <1>4, <3>2, <3>3
  <2>2. CASE ~Creation(c)
    BY <1>3, <1>5, <1>6, <1>8, <1>9, <1>10, <2>2, CalmReconcileOther
  <2> QED  BY <2>1, <2>2
<1> QED  BY <1>11, <1>12 DEF CalmlyOn, AllCalm

-----------------------------------------------------------------------------
\* A death ends polls, and at most the knowledge that a creation runs.
LEMMA CalmDeath ==
  ASSUME WellTyped, InOrder, AllCalm, \A p \in Queue!Poll : Left(p), cmds' = cmds,
         executions' = executions, status' = status,
         reqs' = reqs \/ \A r \in Requests : reqs'[r].tenant = NoTenant
  PROVE  CalmlyOn
<1>1. \A p \in Queue!Poll : polls'[p].pc # "idle" =>
         polls'[p].pc = polls[p].pc /\ polls'[p].cmd = polls[p].cmd
  BY LeftWorks
<1>2. SameCommands
  BY DEF SameCommands, SameCommand
<1>3. Handled
  BY <1>1, <1>2 DEF Handled, Holding, HoldingPc
<1>4. \A t \in Tenants : BeingCreated(t)' => BeingCreated(t)
  BY <1>1, <1>2, CreationsFade DEF Queue!At
<1> QED  BY <1>3, <1>4, CalmPoll

\* Every step of a poll.
LEMMA CalmPollStep ==
  ASSUME WellTyped, AllAgree, InOrder, AllCalm, use = "calm", NEW p \in Queue!Poll, PollStep(p)
  PROVE  CalmlyOn
<1>1. reqs' = reqs /\ Queue!PollStep(p)
  BY DEF PollStep, serviceVars
<1>2. ASSUME Queue!StartPoll(p) PROVE CalmlyOn
  <2>1. p[2] = FirstSlot
    BY <1>2 DEF PollStep, MayPoll, Queue!StartPoll
  <2>2. cmds' = cmds /\ status' = status
    BY <1>2 DEF Queue!StartPoll
  <2> QED  BY <1>1, <1>2, <2>1, <2>2, StartPollStep, CalmQuietPoll DEF HoldingPc
<1>3. ASSUME Queue!SelectOldest(p) PROVE CalmlyOn
  <2>1. cmds' = cmds /\ status' = status
    BY <1>3 DEF Queue!SelectOldest
  <2> QED  BY <1>1, <1>3, <2>1, SelectPollStep, CalmQuietPoll DEF HoldingPc
<1>4. ASSUME Queue!AuthoriseReport(p) PROVE CalmlyOn
  <2>1. cmds' = cmds /\ status' = status
    BY <1>4 DEF Queue!AuthoriseReport
  <2> QED  BY <1>1, <1>4, <2>1, AuthoriseStep, CalmQuietPoll DEF HoldingPc
<1>5. ASSUME Queue!Execute(p) PROVE CalmlyOn
  <2>1. PICK c : c = polls[p].cmd
    OBVIOUS
  <2>2. PICK t : t = cmds[c].tenant
    OBVIOUS
  <2>3. /\ \A o \in Queue!Poll : o # p => polls'[o] = polls[o]
        /\ polls[p].pc = "running" /\ polls'[p].pc = "executed" /\ polls'[p].cmd = c
        /\ cmds' = cmds
    BY <1>5, <2>1, <2>2, ExecuteStep
  <2>4. status' = status
    BY <1>5 DEF Queue!Execute
  <2> QED  BY <1>1, <2>1, <2>3, <2>4, CalmQuietPoll DEF HoldingPc
<1> QED  BY <1>1, <1>2, <1>3, <1>4, <1>5, CalmClaim, CalmRecord, CalmReconcile
         DEF Queue!PollStep

-----------------------------------------------------------------------------
(***************************************************************************)
(* The life of a tenant is the one TenantLifecycle promises.               *)
(***************************************************************************)

\* Where admins wait, every tenant is calm.
CalmInv == use = "calm" => AllCalm

\* Without requests and commands everything is calm, and no tenant lives.
LEMMA CalmInit == Init => CalmInv /\ Lifecycle!Init
<1> SUFFICES ASSUME Init PROVE CalmInv /\ Lifecycle!Init
  OBVIOUS
<1>1. /\ status = [t \in Tenants |-> "absent"] /\ cmds = <<>>
      /\ reqs = [r \in Requests |-> Service!Idle]
  BY DEF Init, Service!Init
<1>2. DOMAIN cmds = {} /\ \A r \in Requests : reqs[r].tenant = NoTenant
  BY <1>1, IdleRequest
<1>3. CalmInv
  BY <1>1, <1>2, NoTenantAssumption DEF CalmInv, AllCalm, Calm, CalmRow, Service!CommandsFor
<1>4. \A t \in Tenants : Life(t) = "absent"
  BY <1>1 DEF Life
<1>5. Lifecycle!Init
  BY <1>4 DEF Lifecycle!Init
<1> QED  BY <1>3, <1>5

\* A use of the system never turns into another.
LEMMA UseStays ==
  ASSUME [Next]_vars
  PROVE  use' = use
<1>1. CASE Next
  BY <1>1 DEF Next, BeginRequest, RequestStep, PollStep, FallSilent, ApiCrash, ownVars
<1>2. CASE UNCHANGED vars
  BY <1>2 DEF vars, ownVars
<1> QED  BY <1>1, <1>2

\* In calm use every step keeps calm.
LEMMA CalmStep ==
  ASSUME PlaneInv, use = "calm", AllCalm, Next
  PROVE  CalmlyOn
<1>1. WellTyped /\ AllAgree /\ InOrder
  BY DEF PlaneInv
<1>2. ASSUME NEW r \in Requests, BeginRequest(r) \/ RequestStep(r) PROVE CalmlyOn
  BY <1>1, <1>2, CalmBeginRequest, CalmRequestStep
<1>3. ASSUME NEW p \in Queue!Poll, PollStep(p) PROVE CalmlyOn
  BY <1>1, <1>3, CalmPollStep
<1>4. ASSUME NEW h \in Hosts, FallSilent(h) PROVE CalmlyOn
  <2>1. reqs' = reqs /\ Queue!AgentCrash(h) /\ executions' = executions
    BY <1>4 DEF FallSilent, serviceVars, Queue!AgentCrash
  <2> QED  BY <1>1, <2>1, AgentCrashLeaves, CalmDeath
<1>5. CASE ApiCrash
  <2>1. /\ reqs' = [r \in Requests |-> Service!Idle]
        /\ Queue!ApiCrash /\ executions' = executions
    BY <1>5 DEF ApiCrash, Service!ApiCrash, Queue!ApiCrash
  <2>2. \A r \in Requests : reqs'[r].tenant = NoTenant
    BY <2>1, IdleRequest
  <2> QED  BY <1>1, <2>1, <2>2, ApiCrashLeaves, CalmDeath
<1> QED  BY <1>2, <1>3, <1>4, <1>5 DEF Next

\* A life that moves on is a step of the life of a tenant, as TenantLifecycle has it.
LEMMA LivesAreLifecycle ==
  ASSUME use' = use, WellTyped', use = "calm" => \A t \in Tenants : LivesOn(t)
  PROVE  Lifecycle!Next
<1> DEFINE f == [t \in Tenants |-> IF use = "calm" THEN Life(t) ELSE "absent"]
           g == [t \in Tenants |-> IF use' = "calm" THEN Life(t)' ELSE "absent"]
<1>1. \A t \in Tenants : Life(t)' \in Lifecycle!Live \cup {"absent", "deleted"}
  BY DEF Life, WellTyped, TablesOK, TenantStatus, Lifecycle!Live
<1>2. g \in [Tenants -> Lifecycle!Live \cup {"absent", "deleted"}]
  BY <1>1
<1>3. \A t \in Tenants : LifeStep(f[t], g[t])
  BY DEF LivesOn, LifeStep
<1>4. \A t \in Tenants : g[t] = f[t] \/ Lifecycle!Step(t)
  BY <1>3 DEF LifeStep, Lifecycle!Step, Lifecycle!Create, Lifecycle!Place, Lifecycle!FailToCreate,
     Lifecycle!Activate, Lifecycle!Suspend, Lifecycle!Delete, Lifecycle!Becomes, Lifecycle!Live
<1> QED  BY <1>2, <1>4 DEF Lifecycle!Next

\* Every step keeps calm and is one of the life of the tenants, or none.
LEMMA CalmNext == PlaneInv /\ PlaneInv' /\ CalmInv /\ [Next]_vars
                    => /\ CalmInv'
                       /\ [Lifecycle!Next]_([t \in Tenants |-> IF use = "calm" THEN Life(t) ELSE "absent"])
<1> SUFFICES ASSUME PlaneInv, PlaneInv', CalmInv, [Next]_vars
             PROVE  /\ CalmInv'
                    /\ [Lifecycle!Next]_([t \in Tenants |-> IF use = "calm" THEN Life(t) ELSE "absent"])
  OBVIOUS
<1>1. use' = use
  BY UseStays
<1>2. CASE use = "calm" /\ Next
  <2>1. CalmlyOn
    BY <1>2, CalmStep DEF CalmInv
  <2>2. WellTyped'
    BY <1>1, <1>2 DEF PlaneInv
  <2> QED  BY <1>1, <2>1, <2>2, LivesAreLifecycle DEF CalmlyOn, CalmInv
<1>3. CASE use # "calm"
  <2>1. \A t \in Tenants : (IF use' = "calm" THEN Life(t)' ELSE "absent")
                             = IF use = "calm" THEN Life(t) ELSE "absent"
    BY <1>1, <1>3
  <2> QED  BY <1>1, <1>3, <2>1 DEF CalmInv
<1>4. CASE UNCHANGED vars
  <2>1. /\ cmds' = cmds /\ status' = status /\ polls' = polls /\ reqs' = reqs
    BY <1>4 DEF vars, queueVars, serviceVars
  <2>2. AllCalm => AllCalm'
    BY <2>1 DEF AllCalm, Calm, CalmRow, CalmRequest, Settled, Holding, Creation, Service!CommandsFor
  <2>3. \A t : Life(t)' = Life(t)
    BY <2>1 DEF Life, BeingCreated, Service!CommandsFor, Queue!At
  <2> QED  BY <1>1, <2>2, <2>3 DEF CalmInv
<1> QED  BY <1>2, <1>3, <1>4

\* Where admins act on tenants at rest, the requests of createTenant and runAction, the
\* polls and the reports of reconcileTenant implement TenantLifecycle, agents and an API
\* that die included: a tenant is created and placed once, only a creation fails, and
\* nothing follows a deletion, though status has two writers that do not know of each
\* other and the first report of a creation shows its tenant as failed.
THEOREM LifecycleIsImplemented == Spec => ImplementsLifecycle
<1>1. Spec => [](PlaneInv /\ CalmInv)
  BY PlaneInit, PlaneNext, CalmInit, CalmNext, PTL DEF Spec
<1>2. PlaneInv /\ CalmInv /\ PlaneInv' /\ [Next]_vars
        => [Lifecycle!Next]_([t \in Tenants |-> IF use = "calm" THEN Life(t) ELSE "absent"])
  BY CalmNext
<1> QED  BY <1>1, <1>2, CalmInit, PTL DEF Spec, ImplementsLifecycle, Lifecycle!Spec
=============================================================================
