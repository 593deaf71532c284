------------------------- MODULE TenantServiceProofs ------------------------
(***************************************************************************)
(* What holds of TenantService for every number of hosts, tenants and      *)
(* requests.  Each result is an inductive invariant.  Whatever is allowed  *)
(* to happen: the types, the order in which the statements of a creation   *)
(* claim a tenant, the host it is assigned, and who still has to take on a *)
(* tenant that waits.  Under the conditions that Orderly and Scheduled     *)
(* name: that a host's pools are its totals less what its tenants hold,    *)
(* and by how much racing requests can overdraw them.                      *)
(***************************************************************************)
EXTENDS TenantService, SequenceTheorems, FiniteSetTheorems, TLAPS

\* The tables, the commands and the requests, each well formed.
RowsOK ==
    /\ status \in [Tenants -> TenantStatus \cup {"absent"}]
    /\ assigned \in [Tenants -> Hosts \cup {NoHost}]
    /\ limits \in [Tenants -> Size]
    /\ avail \in [Hosts -> [Resource -> Int]]
    /\ schedulable \in [Hosts -> BOOLEAN]
    /\ backups \in [Tenants -> Nat]
    /\ made \in 0 .. MaxRequests
    /\ crashed \in BOOLEAN
    /\ forgotten \in [Hosts -> [Resource -> Int]]

CmdsOK ==
    /\ cmds \in Seq(CommandRow)
    /\ \A c \in DOMAIN cmds : cmds[c].tenant \in Tenants

NeedsHost == {"provision", "assign", "reserve", "enqueue", "command", "backup", "release"}

\* What TypeOK says of one request, and that the requests of runAction have its actions.
WellFormed(q) ==
    /\ q \in Request
    /\ q.pc # "idle" => q.tenant \in Tenants
    /\ q.pc \in NeedsHost => q.host \in Hosts
    /\ q.pc \in ActionPc => q.action \in TenantAction

ReqsOK ==
    /\ reqs \in [Requests -> Request]
    /\ \A r \in Requests : WellFormed(reqs[r])

TypeInv == RowsOK /\ CmdsOK /\ ReqsOK

-----------------------------------------------------------------------------
(***************************************************************************)
(* A creation has claimed its tenant once it is past the insert.  Only one *)
(* request can claim a tenant, because the unique slug lets one insert     *)
(* through and the status never goes back to absent; its command is the    *)
(* tenant's only create_tenant.                                            *)
(***************************************************************************)
Claims(q, t) == q.tenant = t /\ q.pc \in CreatePc \ {"insert"}

Creates(c, t) == cmds[c].tenant = t /\ cmds[c].type = "create_tenant"

\* Only a tenant whose row exists is worked on.
RowExists ==
    /\ \A r \in Requests : ~At(r, "idle") /\ ~At(r, "insert") => status[reqs[r].tenant] # "absent"
    /\ \A c \in DOMAIN cmds : status[cmds[c].tenant] # "absent"

\* At most one request or command creates a tenant.
OneCreation ==
    \A t \in Tenants :
        /\ \A r, o \in Requests : Claims(reqs[r], t) /\ Claims(reqs[o], t) => r = o
        /\ \A c, d \in DOMAIN cmds : Creates(c, t) /\ Creates(d, t) => c = d
        /\ \A r \in Requests, c \in DOMAIN cmds : ~(Claims(reqs[r], t) /\ Creates(c, t))

Claimed == RowExists /\ OneCreation

(***************************************************************************)
(* The assignment of a tenant is written once, by the creation that claims *)
(* it; what any other request read of it is still so.                      *)
(***************************************************************************)
Unassigned(q) == q.pc \in {"select", "giveUp", "provision", "assign"}

Assigned(q) == q.pc \in {"reserve", "enqueue"} \/ (q.pc \in ActionPc /\ q.host # NoHost)

Followed ==
    /\ \A t \in Tenants : status[t] = "absent" => assigned[t] = NoHost
    /\ \A r \in Requests : Unassigned(reqs[r]) => assigned[reqs[r].tenant] = NoHost
    /\ \A r \in Requests : Assigned(reqs[r]) => assigned[reqs[r].tenant] = reqs[r].host
    /\ CommandsFollowAssignment

\* A tenant in provisioning still has its creation between the assignment and
\* the command, or the command in the queue.
Awaited ==
    ~crashed =>
        \A t \in Tenants : status[t] = "provisioning" =>
            \/ \E r \in Requests : reqs[r].tenant = t /\ reqs[r].pc \in {"reserve", "enqueue"}
            \/ \E c \in DOMAIN cmds : Creates(c, t) /\ cmds[c].status = "queued"

-----------------------------------------------------------------------------
(***************************************************************************)
(* What the helpers return.                                                *)
(***************************************************************************)

\* Idle is a request, and holds no tenant.
LEMMA IdleType == WellFormed(Idle) /\ Idle.pc = "idle"
  BY SMT DEF Idle, WellFormed, Request, CreatePc, ActionPc, NoSize, Size, NeedsHost

\* Reserving and releasing keep the pools integers.
LEMMA PoolType ==
  ASSUME NEW a \in [Resource -> Int], NEW b \in [Resource -> Int]
  PROVE  Less(a, b) \in [Resource -> Int] /\ More(a, b) \in [Resource -> Int]
  BY SMT DEF Less, More

\* A new command is a row, for the tenant and the host it was made with.
LEMMA QueuedType ==
  ASSUME NEW h \in Hosts, NEW t \in Tenants, NEW ty \in CommandType, NEW pl \in Payload
  PROVE  /\ QueuedRow(h, t, ty, pl) \in CommandRow
         /\ QueuedRow(h, t, ty, pl).tenant = t
         /\ QueuedRow(h, t, ty, pl).host = h
         /\ QueuedRow(h, t, ty, pl).type = ty
         /\ QueuedRow(h, t, ty, pl).status = "queued"
  BY SMT DEF QueuedRow, CommandRow, CommandStatus

\* runAction's map gives no action the command of a creation.
LEMMA CommandOfType ==
  ASSUME NEW a \in TenantAction
  PROVE  CommandOf[a] \in CommandType \ {"create_tenant"}
  BY SMT DEF TenantAction, CommandOf, CommandType

\* No statement takes a tenant's row away.
LEMMA StatusStays ==
  ASSUME NEW current \in TenantStatus
  PROVE  /\ \A a : StatusAfter(a, current) \in TenantStatus
         /\ \A ty, s : Reconciled(ty, s, current) \in TenantStatus
<1>1. ASSUME NEW a PROVE StatusAfter(a, current) \in TenantStatus
  BY SMT DEF StatusAfter, TenantStatus
<1>2. ASSUME NEW ty, NEW s PROVE Reconciled(ty, s, current) \in TenantStatus
  BY SMT DEF Reconciled, OnSuccess, TenantStatus
<1> QED  BY <1>1, <1>2

\* An action leaves a tenant in provisioning only if it was there.
LEMMA ActionMovesOn ==
  ASSUME NEW a, NEW current, StatusAfter(a, current) = "provisioning"
  PROVE  current = "provisioning"
  BY SMT DEF StatusAfter

\* A report leaves a tenant in provisioning only if it was there and the command
\* was not its creation.
LEMMA ReportMovesOn ==
  ASSUME NEW ty, NEW s, NEW current, Reconciled(ty, s, current) = "provisioning"
  PROVE  current = "provisioning" /\ ty # "create_tenant"
  BY SMT DEF Reconciled, OnSuccess

-----------------------------------------------------------------------------
(***************************************************************************)
(* What a step does to the requests.                                       *)
(***************************************************************************)

\* r goes on at pc with what it holds, and the other requests stay.
GoesTo(r, pc) ==
    /\ \A o \in Requests : o # r => reqs'[o] = reqs[o]
    /\ reqs'[r].pc = pc
    /\ reqs'[r].tenant = reqs[r].tenant
    /\ reqs'[r].host = reqs[r].host

\* r becomes q, and the other requests stay.
Becomes(r, q) ==
    /\ \A o \in Requests : o # r => reqs'[o] = reqs[o]
    /\ reqs'[r] = q

\* A request that is replaced by a well-formed one leaves them all well formed.
LEMMA OneMoves ==
  ASSUME ReqsOK, NEW r \in Requests, NEW q, WellFormed(q), reqs' = [reqs EXCEPT ![r] = q]
  PROVE  ReqsOK' /\ Becomes(r, q)
<1>1. q \in Request  BY DEF WellFormed
<1>2. reqs' \in [Requests -> Request]  BY <1>1 DEF ReqsOK
<1>3. Becomes(r, q)  BY DEF Becomes, ReqsOK
<1>4. ASSUME NEW o \in Requests PROVE WellFormed(reqs'[o])
  BY <1>3 DEF ReqsOK, Becomes
<1>5. \A o \in Requests : WellFormed(reqs[o])'  BY <1>4 DEF WellFormed
<1> QED  BY <1>2, <1>3, <1>5 DEF ReqsOK

\* Goto keeps the tenant, and the host where the next statement needs one.
LEMMA GotoMoves ==
  ASSUME ReqsOK, NEW r \in Requests, NEW pc \in CreatePc \cup ActionPc, ~At(r, "idle"),
         pc \in NeedsHost => reqs[r].host \in Hosts,
         pc \in ActionPc => reqs[r].pc \in ActionPc, Goto(r, pc)
  PROVE  ReqsOK' /\ GoesTo(r, pc)
<1> DEFINE q == [reqs[r] EXCEPT !.pc = pc]
<1>1. reqs[r] \in Request /\ WellFormed(reqs[r])  BY DEF ReqsOK
<1>2. /\ q \in Request
      /\ q.pc = pc /\ q.tenant = reqs[r].tenant /\ q.host = reqs[r].host
      /\ q.action = reqs[r].action
  BY <1>1 DEF Request
<1>3. WellFormed(q)  BY <1>1, <1>2 DEF WellFormed, At
<1>4. reqs' = [reqs EXCEPT ![r] = q]  BY DEF Goto
<1> HIDE DEF q
<1>5. ReqsOK' /\ Becomes(r, q)  BY <1>3, <1>4, OneMoves
<1> QED  BY <1>2, <1>5 DEF GoesTo, Becomes

\* A request that is done is idle.
LEMMA DoneMoves ==
  ASSUME ReqsOK, NEW r \in Requests, Done(r)
  PROVE  ReqsOK' /\ Becomes(r, Idle)
  BY IdleType, OneMoves DEF Done

\* A request that begins is well formed when what it was given is.
LEMMA BeginMoves ==
  ASSUME ReqsOK, NEW r \in Requests, NEW q, WellFormed(q), Begin(r, q), made \in 0 .. MaxRequests
  PROVE  ReqsOK' /\ Becomes(r, q) /\ made' \in 0 .. MaxRequests /\ At(r, "idle")
<1>1. ReqsOK' /\ Becomes(r, q)  BY OneMoves DEF Begin
<1>2. made' \in 0 .. MaxRequests  BY ServiceAssumption DEF Begin
<1> QED  BY <1>1, <1>2 DEF Begin

\* A creation begins with the tenant it was asked for.
LEMMA CreateBegins ==
  ASSUME TypeInv, NEW r \in Requests, NEW t \in Tenants, NEW size \in Sizes,
         NEW auto \in BOOLEAN, NEW h \in Hosts \cup {NoHost}, BeginCreate(r, t, size, auto, h)
  PROVE  /\ TypeInv'
         /\ \A o \in Requests : o # r => reqs'[o] = reqs[o]
         /\ reqs'[r].pc = "insert" /\ reqs'[r].tenant = t
         /\ At(r, "idle")
<1> DEFINE q == [Idle EXCEPT !.pc = "insert", !.tenant = t, !.host = h, !.size = size,
                             !.auto = auto]
<1>a. size \in Size /\ "insert" \in CreatePc /\ "create" \in TenantAction \cup {"create"}
  BY ServiceAssumption DEF Size, CreatePc
<1>b. Idle \in Request  BY IdleType DEF WellFormed
<1>c. [Idle EXCEPT !.pc = "insert"] \in Request  BY <1>a, <1>b DEF Request
<1>d. [Idle EXCEPT !.pc = "insert", !.tenant = t] \in Request  BY <1>c DEF Request
<1>e. [Idle EXCEPT !.pc = "insert", !.tenant = t, !.host = h] \in Request  BY <1>d DEF Request
<1>f. [Idle EXCEPT !.pc = "insert", !.tenant = t, !.host = h, !.size = size] \in Request
  BY <1>a, <1>e DEF Request
<1>1. q \in Request /\ q.pc = "insert" /\ q.tenant = t
  BY <1>b, <1>f, ZenonT(60) DEF Request
<1>2. WellFormed(q)  BY <1>1 DEF WellFormed, NeedsHost, ActionPc
<1>3. Begin(r, q)  BY DEF BeginCreate
<1> HIDE DEF q
<1>4. ReqsOK' /\ Becomes(r, q) /\ made' \in 0 .. MaxRequests /\ At(r, "idle")
  BY <1>2, <1>3, BeginMoves DEF TypeInv, RowsOK
<1>5. RowsOK' /\ CmdsOK'  BY <1>4 DEF BeginCreate, TypeInv, RowsOK, CmdsOK, history
<1> QED  BY <1>1, <1>4, <1>5 DEF TypeInv, Becomes

\* An action begins with the tenant's host as it is assigned, or without a command.
LEMMA ActionBegins ==
  ASSUME TypeInv, NEW r \in Requests, NEW t \in Tenants, NEW a \in Actions, BeginAction(r, t, a)
  PROVE  /\ TypeInv'
         /\ \A o \in Requests : o # r => reqs'[o] = reqs[o]
         /\ reqs'[r].pc \in {"status", "command"}
         /\ reqs'[r].tenant = t /\ reqs'[r].host = assigned[t]
         /\ reqs'[r].size = limits[t] /\ reqs'[r].action = a
         /\ At(r, "idle")
<1> DEFINE pc == IF assigned[t] = NoHost THEN "status" ELSE "command"
           q == [Idle EXCEPT !.pc = pc, !.tenant = t, !.host = assigned[t], !.size = limits[t],
                             !.action = a]
<1>1. assigned[t] \in Hosts \cup {NoHost} /\ limits[t] \in Size  BY DEF TypeInv, RowsOK
<1>2. pc \in {"status", "command"} /\ (pc = "command" => assigned[t] \in Hosts)  BY <1>1
<1>3. Begin(r, q)  BY DEF BeginAction
<1> HIDE DEF pc
<1>a. a \in TenantAction /\ pc \in ActionPc /\ FALSE \in BOOLEAN
  BY <1>2, ServiceAssumption DEF ActionPc
<1>b. Idle \in Request  BY IdleType DEF WellFormed
<1>c. [Idle EXCEPT !.pc = pc] \in Request  BY <1>a, <1>b DEF Request
<1>d. [Idle EXCEPT !.pc = pc, !.tenant = t] \in Request  BY <1>c DEF Request
<1>e. [Idle EXCEPT !.pc = pc, !.tenant = t, !.host = assigned[t]] \in Request
  BY <1>1, <1>d DEF Request
<1>f. [Idle EXCEPT !.pc = pc, !.tenant = t, !.host = assigned[t], !.size = limits[t]]
        \in Request
  BY <1>1, <1>e DEF Request
<1>4. /\ q \in Request /\ q.pc = pc /\ q.tenant = t /\ q.host = assigned[t]
      /\ q.size = limits[t] /\ q.action = a
  BY <1>a, <1>b, <1>f DEF Request
<1>5. WellFormed(q)  BY <1>1, <1>2, <1>4, <1>a DEF WellFormed, NeedsHost
<1> HIDE DEF q
<1>6. ReqsOK' /\ Becomes(r, q) /\ made' \in 0 .. MaxRequests /\ At(r, "idle")
  BY <1>3, <1>5, BeginMoves DEF TypeInv, RowsOK
<1>7. RowsOK' /\ CmdsOK'  BY <1>6 DEF BeginAction, TypeInv, RowsOK, CmdsOK, history
<1> QED  BY <1>2, <1>4, <1>6, <1>7 DEF TypeInv, Becomes

-----------------------------------------------------------------------------
(***************************************************************************)
(* The statements of a request, one lemma each: where it goes next.        *)
(***************************************************************************)

\* The insert claims an absent tenant, or ends the request.
LEMMA InsertMoves ==
  ASSUME ReqsOK, NEW r \in Requests, InsertTenant(r)
  PROVE  /\ ReqsOK'
         /\ \/ GoesTo(r, "select") /\ status[reqs[r].tenant] = "absent"
               /\ status' = [status EXCEPT ![reqs[r].tenant] = "pending"]
               /\ limits' = [limits EXCEPT ![reqs[r].tenant] = reqs[r].size]
            \/ Becomes(r, Idle) /\ UNCHANGED <<status, limits>>
<1>1. ASSUME Goto(r, "select") PROVE ReqsOK' /\ GoesTo(r, "select")
  BY <1>1, GotoMoves DEF InsertTenant, At, CreatePc, ActionPc, NeedsHost
<1>2. ASSUME Done(r) PROVE ReqsOK' /\ Becomes(r, Idle)
  BY <1>2, DoneMoves
<1> QED  BY <1>1, <1>2 DEF InsertTenant

\* The scheduler gives a creation its host, unless it was pinned to one, or up.
LEMMA SelectMoves ==
  ASSUME ReqsOK, NEW r \in Requests, SelectHost(r)
  PROVE  /\ ReqsOK'
         /\ \A o \in Requests : o # r => reqs'[o] = reqs[o]
         /\ reqs'[r].pc \in {"provision", "giveUp"}
         /\ reqs'[r].tenant = reqs[r].tenant
<1>1. ASSUME reqs[r].host # NoHost, Goto(r, "provision")
      PROVE  ReqsOK' /\ GoesTo(r, "provision")
  <2>1. reqs[r].host \in Hosts  BY <1>1 DEF ReqsOK, Request
  <2> QED  BY <1>1, <2>1, GotoMoves DEF SelectHost, At, CreatePc, ActionPc
<1>2. ASSUME Goto(r, "giveUp") PROVE ReqsOK' /\ GoesTo(r, "giveUp")
  BY <1>2, GotoMoves DEF SelectHost, At, CreatePc, ActionPc, NeedsHost
<1>3. ASSUME NEW h \in Preferred(reqs[r].size),
             reqs' = [reqs EXCEPT ![r].pc = "provision", ![r].host = h]
      PROVE  ReqsOK' /\ \E q : Becomes(r, q) /\ q.pc = "provision" /\ q.tenant = reqs[r].tenant
  <2> DEFINE p == [reqs[r] EXCEPT !.pc = "provision"]
             q == [p EXCEPT !.host = h]
  <2>1. h \in Hosts  BY DEF Preferred, Candidates
  <2>2. reqs[r] \in Request /\ reqs[r].tenant \in Tenants
    BY DEF ReqsOK, WellFormed, SelectHost, At
  <2>3. p \in Request /\ p.pc = "provision" /\ p.tenant = reqs[r].tenant
    BY <2>2 DEF Request, CreatePc
  <2>4. reqs' = [reqs EXCEPT ![r] = q]  BY <1>3 DEF ReqsOK
  <2> HIDE DEF p
  <2>5. q \in Request /\ q.pc = "provision" /\ q.tenant = reqs[r].tenant /\ q.host = h
    BY <2>1, <2>3 DEF Request
  <2>6. WellFormed(q)  BY <2>1, <2>2, <2>5 DEF WellFormed, ActionPc
  <2> HIDE DEF q
  <2> QED  BY <2>4, <2>5, <2>6, OneMoves
<1> QED  BY <1>1, <1>2, <1>3 DEF SelectHost, GoesTo, Becomes

\* Provisioning goes on to the assignment, or throws.
LEMMA ProvisionMoves ==
  ASSUME ReqsOK, NEW r \in Requests, Provision(r)
  PROVE  ReqsOK' /\ (GoesTo(r, "assign") \/ Becomes(r, Idle))
<1>1. reqs[r].host \in Hosts  BY DEF ReqsOK, WellFormed, Provision, At, NeedsHost
<1>2. ASSUME Goto(r, "assign") PROVE ReqsOK' /\ GoesTo(r, "assign")
  BY <1>1, <1>2, GotoMoves DEF Provision, At, CreatePc, ActionPc
<1> QED  BY <1>2, DoneMoves DEF Provision

\* The other statements of a creation follow each other.
LEMMA CreationMoves ==
  ASSUME ReqsOK, NEW r \in Requests
  PROVE  /\ GiveUp(r) => ReqsOK' /\ Becomes(r, Idle)
         /\ AssignHost(r) => ReqsOK' /\ GoesTo(r, "reserve") /\ reqs[r].host \in Hosts
         /\ ReserveCapacity(r) => ReqsOK' /\ GoesTo(r, "enqueue") /\ reqs[r].host \in Hosts
         /\ EnqueueCreate(r) => ReqsOK' /\ Becomes(r, Idle) /\ reqs[r].host \in Hosts
<1>1. GiveUp(r) => ReqsOK' /\ Becomes(r, Idle)
  BY DoneMoves DEF GiveUp
<1>2. reqs[r].pc \in {"assign", "reserve", "enqueue"} => reqs[r].host \in Hosts
  BY DEF ReqsOK, WellFormed, NeedsHost
<1>3. AssignHost(r) => ReqsOK' /\ GoesTo(r, "reserve")
  BY <1>2, GotoMoves DEF AssignHost, At, CreatePc, ActionPc
<1>4. ReserveCapacity(r) => ReqsOK' /\ GoesTo(r, "enqueue")
  BY <1>2, GotoMoves DEF ReserveCapacity, At, CreatePc, ActionPc
<1>5. EnqueueCreate(r) => ReqsOK' /\ Becomes(r, Idle)
  BY DoneMoves DEF EnqueueCreate
<1> QED  BY <1>1, <1>2, <1>3, <1>4, <1>5 DEF AssignHost, ReserveCapacity, EnqueueCreate, At

\* So do those of an action.
LEMMA ActionMoves ==
  ASSUME ReqsOK, NEW r \in Requests
  PROVE  /\ EnqueueAction(r) =>
              ReqsOK' /\ (GoesTo(r, "backup") \/ GoesTo(r, "status")) /\ reqs[r].host \in Hosts
         /\ RecordBackup(r) => ReqsOK' /\ GoesTo(r, "status")
         /\ SetStatus(r) => ReqsOK' /\ (GoesTo(r, "release") \/ Becomes(r, Idle))
         /\ ReleaseCapacity(r) => ReqsOK' /\ Becomes(r, Idle) /\ reqs[r].host \in Hosts
<1>1. reqs[r].pc \in {"command", "release"} => reqs[r].host \in Hosts
  BY DEF ReqsOK, WellFormed, NeedsHost
<1>2. ASSUME EnqueueAction(r)
      PROVE  ReqsOK' /\ (GoesTo(r, "backup") \/ GoesTo(r, "status")) /\ reqs[r].host \in Hosts
  <2>1. reqs[r].host \in Hosts  BY <1>1, <1>2 DEF EnqueueAction, At
  <2>2. Goto(r, "backup") \/ Goto(r, "status")  BY <1>2 DEF EnqueueAction
  <2>3. ASSUME NEW pc \in {"backup", "status"}, Goto(r, pc) PROVE ReqsOK' /\ GoesTo(r, pc)
    BY <1>2, <2>1, <2>3, GotoMoves DEF EnqueueAction, At, ActionPc
  <2> QED  BY <2>1, <2>2, <2>3
<1>3. RecordBackup(r) => ReqsOK' /\ GoesTo(r, "status")
  BY GotoMoves DEF RecordBackup, At, ActionPc, NeedsHost
<1>4. ASSUME SetStatus(r) PROVE ReqsOK' /\ (GoesTo(r, "release") \/ Becomes(r, Idle))
  <2>1. CASE Releases(reqs[r])
    <3>1. reqs[r].host \in Hosts  BY <2>1 DEF Releases, ReqsOK, Request
    <3> QED  BY <1>4, <2>1, <3>1, GotoMoves DEF SetStatus, At, ActionPc
  <2>2. CASE ~Releases(reqs[r])
    BY <1>4, <2>2, DoneMoves DEF SetStatus
  <2> QED  BY <2>1, <2>2
<1>5. ReleaseCapacity(r) => ReqsOK' /\ Becomes(r, Idle)
  BY DoneMoves DEF ReleaseCapacity
<1> QED  BY <1>1, <1>2, <1>3, <1>4, <1>5 DEF ReleaseCapacity, At

-----------------------------------------------------------------------------
(***************************************************************************)
(* What a step does to the commands.                                       *)
(***************************************************************************)

\* One command joins the others, for tenant t on host h.
Joined(h, t, ty) ==
    \E n \in Nat \ DOMAIN cmds :
        /\ DOMAIN cmds' = DOMAIN cmds \cup {n}
        /\ \A c \in DOMAIN cmds : cmds'[c] = cmds[c]
        /\ cmds'[n].tenant = t /\ cmds'[n].host = h /\ cmds'[n].type = ty
        /\ cmds'[n].status = "queued"

\* Only the status of command c changes.
Reported(c) ==
    /\ DOMAIN cmds' = DOMAIN cmds
    /\ \A d \in DOMAIN cmds : d # c => cmds'[d] = cmds[d]
    /\ cmds'[c].tenant = cmds[c].tenant
    /\ cmds'[c].host = cmds[c].host
    /\ cmds'[c].type = cmds[c].type

\* An enqueued command joins the others.
LEMMA EnqueueJoins ==
  ASSUME CmdsOK, NEW h \in Hosts, NEW t \in Tenants, NEW ty \in CommandType, NEW pl \in Payload,
         cmds' = Append(cmds, QueuedRow(h, t, ty, pl))
  PROVE  CmdsOK' /\ Joined(h, t, ty)
<1> DEFINE row == QueuedRow(h, t, ty, pl)
           n == Len(cmds) + 1
<1>1. /\ row \in CommandRow /\ row.tenant = t /\ row.host = h /\ row.type = ty
      /\ row.status = "queued"
  BY QueuedType
<1> HIDE DEF row
<1>2. cmds \in Seq(CommandRow) /\ cmds' = Append(cmds, row)  BY DEF CmdsOK, row
<1>3. /\ cmds' \in Seq(CommandRow) /\ Len(cmds') = n
      /\ \A i \in 1 .. Len(cmds) : cmds'[i] = cmds[i]
      /\ cmds'[n] = row
  BY <1>1, <1>2, AppendProperties
<1>4. DOMAIN cmds = 1 .. Len(cmds) /\ DOMAIN cmds' = 1 .. n /\ Len(cmds) \in Nat
  BY <1>2, <1>3, LenProperties
<1>5. /\ n \in Nat \ DOMAIN cmds /\ DOMAIN cmds' = DOMAIN cmds \cup {n}
      /\ \A i \in DOMAIN cmds : cmds'[i] = cmds[i]
  BY <1>3, <1>4
<1> HIDE DEF n
<1>6. CmdsOK'  BY <1>1, <1>3, <1>5 DEF CmdsOK
<1>7. Joined(h, t, ty)  BY <1>1, <1>3, <1>5 DEF Joined
<1> QED  BY <1>6, <1>7

\* A report changes nothing else of its command.
LEMMA ReportKeeps ==
  ASSUME CmdsOK, NEW c \in DOMAIN cmds, NEW s \in Completed \cup {"running"},
         cmds' = [cmds EXCEPT ![c].status = s]
  PROVE  CmdsOK' /\ Reported(c) /\ cmds[c].tenant \in Tenants
<1> DEFINE row == [cmds[c] EXCEPT !.status = s]
<1>1. cmds \in Seq(CommandRow)  BY DEF CmdsOK
<1>2. cmds[c] \in CommandRow  BY <1>1
<1>3. row \in CommandRow /\ row.tenant = cmds[c].tenant /\ row.host = cmds[c].host
      /\ row.type = cmds[c].type
  BY <1>2 DEF CommandRow, Completed, CommandStatus
<1>4. cmds' = [cmds EXCEPT ![c] = row]  OBVIOUS
<1> HIDE DEF row
<1>5. cmds' \in Seq(CommandRow)  BY <1>1, <1>3, <1>4
<1>6. DOMAIN cmds' = DOMAIN cmds /\ cmds'[c] = row /\ \A d \in DOMAIN cmds : d # c => cmds'[d] = cmds[d]
  BY <1>1, <1>4
<1>7. Reported(c)  BY <1>3, <1>6 DEF Reported
<1>8. CmdsOK'  BY <1>3, <1>5, <1>6 DEF CmdsOK
<1> QED  BY <1>7, <1>8 DEF CmdsOK

\* The command of a creation joins the queue when it is enqueued.
LEMMA CreateJoins ==
  ASSUME TypeInv, NEW r \in Requests, EnqueueCreate(r)
  PROVE  /\ CmdsOK' /\ reqs[r].tenant \in Tenants
         /\ Joined(reqs[r].host, reqs[r].tenant, "create_tenant")
<1>1. reqs[r].tenant \in Tenants /\ reqs[r].host \in Hosts
  BY DEF TypeInv, ReqsOK, WellFormed, EnqueueCreate, At, NeedsHost
<1>2. "create_tenant" \in CommandType /\ "full" \in Payload  BY DEF CommandType, Payload
<1>3. cmds' = Append(cmds, QueuedRow(reqs[r].host, reqs[r].tenant, "create_tenant", "full"))
  BY DEF EnqueueCreate
<1> QED  BY <1>1, <1>2, <1>3, EnqueueJoins DEF TypeInv

\* So does the command of an action, which creates nothing.
LEMMA ActionJoins ==
  ASSUME TypeInv, NEW r \in Requests, EnqueueAction(r)
  PROVE  /\ CmdsOK' /\ reqs[r].tenant \in Tenants
         /\ \E ty \in CommandType \ {"create_tenant"} : Joined(reqs[r].host, reqs[r].tenant, ty)
<1>1. reqs[r].tenant \in Tenants /\ reqs[r].host \in Hosts /\ reqs[r].action \in TenantAction
  BY DEF TypeInv, ReqsOK, WellFormed, EnqueueAction, At, NeedsHost, ActionPc
<1> DEFINE ty == CommandOf[reqs[r].action]
<1>2. ty \in CommandType \ {"create_tenant"}  BY <1>1, CommandOfType
<1>3. "slug" \in Payload  BY DEF Payload
<1>4. cmds' = Append(cmds, QueuedRow(reqs[r].host, reqs[r].tenant, ty, "slug"))
  BY DEF EnqueueAction
<1> HIDE DEF ty
<1>5. CmdsOK' /\ Joined(reqs[r].host, reqs[r].tenant, ty)
  BY <1>1, <1>2, <1>3, <1>4, EnqueueJoins DEF TypeInv
<1> QED  BY <1>1, <1>2, <1>5

-----------------------------------------------------------------------------
(***************************************************************************)
(* Types.                                                                  *)
(***************************************************************************)

\* The initial rows, commands and requests are well formed.
LEMMA InitType == Init => TypeInv
<1> SUFFICES ASSUME Init PROVE TypeInv
  OBVIOUS
<1>1. NoSize \in Size /\ NoSize \in [Resource -> Int] /\ Capacity \in [Resource -> Int]
  BY ServiceAssumption, SMT DEF NoSize, Size
<1>2. RowsOK
  <2>1. /\ status \in [Tenants -> TenantStatus \cup {"absent"}]
        /\ assigned \in [Tenants -> Hosts \cup {NoHost}]
        /\ limits \in [Tenants -> Size]
        /\ avail \in [Hosts -> [Resource -> Int]]
        /\ forgotten \in [Hosts -> [Resource -> Int]]
        /\ backups \in [Tenants -> Nat]
        /\ made \in 0 .. MaxRequests
    BY <1>1, ServiceAssumption DEF Init
  <2>2. schedulable \in [Hosts -> BOOLEAN] /\ crashed \in BOOLEAN
    BY Zenon DEF Init
  <2> QED  BY <2>1, <2>2 DEF RowsOK
<1>3. CmdsOK  BY DEF Init, CmdsOK
<1>4. ReqsOK  BY IdleType DEF Init, ReqsOK, WellFormed
<1> QED  BY <1>2, <1>3, <1>4 DEF TypeInv

\* Every statement of a request keeps what it writes well formed.
LEMMA StatementType ==
  ASSUME TypeInv, NEW r \in Requests, RequestStep(r)
  PROVE  TypeInv'
<1> DEFINE q == reqs[r]
<1> USE DEF TypeInv
<1>t. q \in Request /\ (q.pc # "idle" => q.tenant \in Tenants) /\ q.size \in [Resource -> Int]
      /\ q.size \in Size
  BY DEF ReqsOK, WellFormed, Request, Size
<1>1. CASE InsertTenant(r)
  <2>1. q.tenant \in Tenants  BY <1>1, <1>t DEF InsertTenant, At
  <2>2. ReqsOK'  BY <1>1, InsertMoves
  <2>3. status' \in [Tenants -> TenantStatus \cup {"absent"}] /\ limits' \in [Tenants -> Size]
    BY <1>1, <1>t, <2>1, InsertMoves DEF RowsOK, TenantStatus
  <2> QED  BY <1>1, <2>2, <2>3 DEF InsertTenant, RowsOK, CmdsOK, history
<1>2. CASE SelectHost(r)
  BY <1>2, SelectMoves DEF SelectHost, RowsOK, CmdsOK, history
<1>3. CASE GiveUp(r)
  BY <1>3, <1>t, CreationMoves DEF GiveUp, At, RowsOK, CmdsOK, history, TenantStatus
<1>4. CASE Provision(r)
  BY <1>4, ProvisionMoves DEF Provision, RowsOK, CmdsOK, history
<1>5. CASE AssignHost(r)
  <2>1. ReqsOK' /\ q.tenant \in Tenants /\ q.host \in Hosts
    BY <1>5, <1>t, CreationMoves DEF AssignHost, At
  <2> QED  BY <1>5, <2>1 DEF AssignHost, RowsOK, CmdsOK, history, TenantStatus
<1>6. CASE ReserveCapacity(r)
  <2>1. ReqsOK' /\ q.host \in Hosts  BY <1>6, CreationMoves
  <2>2. Less(avail[q.host], q.size) \in [Resource -> Int]
    BY <1>t, <2>1, PoolType DEF RowsOK
  <2> QED  BY <1>6, <2>1, <2>2 DEF ReserveCapacity, RowsOK, CmdsOK, history
<1>7. CASE EnqueueCreate(r)
  BY <1>7, CreationMoves, CreateJoins DEF EnqueueCreate, RowsOK, history
<1>8. CASE EnqueueAction(r)
  BY <1>8, ActionMoves, ActionJoins DEF EnqueueAction, RowsOK, history
<1>9. CASE RecordBackup(r)
  <2>1. ReqsOK' /\ q.tenant \in Tenants  BY <1>9, <1>t, ActionMoves DEF RecordBackup, At
  <2>2. backups' \in [Tenants -> Nat]  BY <1>9, <2>1 DEF RecordBackup, RowsOK
  <2> QED  BY <1>9, <2>1, <2>2 DEF RecordBackup, RowsOK, CmdsOK, history
<1>10. CASE SetStatus(r)
  <2>1. ReqsOK' /\ q.tenant \in Tenants  BY <1>10, <1>t, ActionMoves DEF SetStatus, At
  <2> DEFINE new == StatusAfter(q.action, status[q.tenant])
  <2>2. new \in TenantStatus \cup {"absent"}
    BY <2>1 DEF StatusAfter, TenantStatus, RowsOK
  <2>3. status' = [status EXCEPT ![q.tenant] = new]  BY <1>10 DEF SetStatus
  <2> HIDE DEF new
  <2> QED  BY <1>10, <2>1, <2>2, <2>3 DEF SetStatus, RowsOK, CmdsOK, history
<1>11. CASE ReleaseCapacity(r)
  <2>1. ReqsOK' /\ q.host \in Hosts  BY <1>11, ActionMoves
  <2>2. More(avail[q.host], q.size) \in [Resource -> Int]
    BY <1>t, <2>1, PoolType DEF RowsOK
  <2> QED  BY <1>11, <2>1, <2>2 DEF ReleaseCapacity, RowsOK, CmdsOK, history
<1> QED  BY <1>1, <1>2, <1>3, <1>4, <1>5, <1>6, <1>7, <1>8, <1>9, <1>10, <1>11 DEF RequestStep

\* So does what else happens.
LEMMA EnvironmentType ==
  ASSUME TypeInv, Environment
  PROVE  TypeInv'
<1> USE DEF TypeInv
<1>1. ASSUME NEW t \in Tenants, NEW size \in Sizes, PatchLimits(t, size) PROVE TypeInv'
  BY <1>1, ServiceAssumption DEF PatchLimits, RowsOK, CmdsOK, ReqsOK, history, Size, WellFormed
<1>2. ASSUME NEW h \in Hosts, ReRegisterHost(h) PROVE TypeInv'
  <2>1. Capacity \in [Resource -> Int] /\ avail[h] \in [Resource -> Int]
        /\ forgotten[h] \in [Resource -> Int]
    BY ServiceAssumption, SMT DEF RowsOK
  <2>2. More(forgotten[h], Less(Capacity, avail[h])) \in [Resource -> Int]
    BY <2>1, PoolType
  <2>3. schedulable' \in [Hosts -> BOOLEAN]  BY <1>2, Zenon DEF ReRegisterHost, RowsOK
  <2>4. avail' \in [Hosts -> [Resource -> Int]] /\ forgotten' \in [Hosts -> [Resource -> Int]]
    BY <1>2, <2>1, <2>2 DEF ReRegisterHost, RowsOK
  <2>5. CmdsOK' /\ ReqsOK'
    BY <1>2 DEF ReRegisterHost, CmdsOK, ReqsOK, WellFormed
  <2> QED  BY <1>2, <2>3, <2>4, <2>5 DEF ReRegisterHost, RowsOK
<1>3. ASSUME NEW h \in Hosts, ChangeHost(h) PROVE TypeInv'
  BY <1>3 DEF ChangeHost, RowsOK, CmdsOK, ReqsOK, history, WellFormed
<1>4. ASSUME NEW c \in DOMAIN cmds, NEW s \in Completed \cup {"running"}, ReportCommand(c, s)
      PROVE  TypeInv'
  <2>1. CmdsOK' /\ cmds[c].tenant \in Tenants  BY <1>4, ReportKeeps DEF ReportCommand
  <2> DEFINE new == Reconciled(cmds[c].type, s, status[cmds[c].tenant])
  <2>2. new \in TenantStatus \cup {"absent"}
    BY <2>1 DEF Reconciled, OnSuccess, TenantStatus, RowsOK
  <2>3. status' = [status EXCEPT ![cmds[c].tenant] = new]  BY <1>4 DEF ReportCommand
  <2> HIDE DEF new
  <2>4. RowsOK'  BY <1>4, <2>1, <2>2, <2>3 DEF ReportCommand, RowsOK, history
  <2>5. ReqsOK'  BY <1>4 DEF ReportCommand, ReqsOK, WellFormed
  <2> QED  BY <2>1, <2>4, <2>5
<1>5. ASSUME ApiCrash PROVE TypeInv'
  BY <1>5, IdleType DEF ApiCrash, RowsOK, CmdsOK, ReqsOK, WellFormed
<1> QED  BY <1>1, <1>2, <1>3, <1>4, <1>5 DEF Environment

\* A step that changes nothing.
LEMMA StutterType ==
  ASSUME TypeInv, UNCHANGED svars
  PROVE  TypeInv'
  BY DEF svars, history, TypeInv, RowsOK, CmdsOK, ReqsOK, WellFormed

\* Every step keeps the types.
LEMMA StepType == TypeInv /\ [Next]_svars => TypeInv'
<1> SUFFICES ASSUME TypeInv, [Next]_svars PROVE TypeInv'
  OBVIOUS
<1>1. ASSUME NEW r \in Requests, BeginRequest(r) PROVE TypeInv'
  BY <1>1, CreateBegins, ActionBegins DEF BeginRequest
<1> QED  BY <1>1, StatementType, EnvironmentType, StutterType DEF Next

\* Rows, commands and requests are well formed, and the requests past the selection
\* have a host, whatever interleaves, throws, crashes or is patched.
THEOREM ServiceTypeCorrect == Spec => []TypeOK
<1>1. Spec => []TypeInv
  BY InitType, StepType, PTL DEF Spec
<1>2. TypeInv => TypeOK
  BY DEF TypeInv, RowsOK, CmdsOK, ReqsOK, WellFormed, TypeOK, At, NeedsHost
<1> QED  BY <1>1, <1>2, PTL

-----------------------------------------------------------------------------
(***************************************************************************)
(* Every slug is provisioned once.                                         *)
(***************************************************************************)

\* The requests that work on a tenant whose row they know of.
Works(q) == q.pc \notin {"idle", "insert"}

\* No row disappears.
Grows == \A t \in Tenants : status[t] # "absent" => status'[t] # "absent"

\* The requests and commands after a step were there before.
NoNewWork ==
    \A o \in Requests :
        Works(reqs'[o]) => Works(reqs[o]) /\ reqs'[o].tenant = reqs[o].tenant

SameCommands ==
    /\ DOMAIN cmds' = DOMAIN cmds
    /\ \A c \in DOMAIN cmds :
          /\ cmds'[c].tenant = cmds[c].tenant
          /\ cmds'[c].type = cmds[c].type
          /\ cmds'[c].host = cmds[c].host

\* Nothing new refers to a tenant, so the rows it needs exist.
LEMMA NoNewRow ==
  ASSUME TypeInv, TypeInv', RowExists, Grows, NoNewWork, SameCommands
  PROVE  RowExists'
<1>1. ASSUME NEW o \in Requests, Works(reqs'[o]) PROVE status'[reqs'[o].tenant] # "absent"
  <2>1. Works(reqs[o]) /\ reqs'[o].tenant = reqs[o].tenant  BY <1>1 DEF NoNewWork
  <2>2. reqs[o].tenant \in Tenants /\ status[reqs[o].tenant] # "absent"
    BY <2>1 DEF Works, TypeInv, ReqsOK, WellFormed, RowExists, At
  <2> QED  BY <2>1, <2>2 DEF Grows
<1>2. ASSUME NEW c \in DOMAIN cmds' PROVE status'[cmds'[c].tenant] # "absent"
  BY DEF SameCommands, RowExists, TypeInv, CmdsOK, Grows
<1> QED  BY <1>1, <1>2 DEF RowExists, Works, At

\* A step that starts no creation keeps the one there is.
LEMMA NoNewCreation ==
  ASSUME OneCreation,
         \A t \in Tenants, o \in Requests : Claims(reqs'[o], t) => Claims(reqs[o], t),
         \A t \in Tenants, c \in DOMAIN cmds' :
            Creates(c, t)' => c \in DOMAIN cmds /\ Creates(c, t)
  PROVE  OneCreation'
<1>1. ASSUME NEW t \in Tenants
      PROVE  /\ \A r, o \in Requests : Claims(reqs'[r], t) /\ Claims(reqs'[o], t) => r = o
             /\ \A c, d \in DOMAIN cmds' : Creates(c, t)' /\ Creates(d, t)' => c = d
             /\ \A r \in Requests, c \in DOMAIN cmds' : ~(Claims(reqs'[r], t) /\ Creates(c, t)')
  BY DEF OneCreation
<1>2. \A t, r : Claims(reqs[r], t)' <=> Claims(reqs'[r], t)  BY DEF Claims
<1> QED  BY <1>1, <1>2 DEF OneCreation

\* What is so for each step that starts no creation, from those two.
LEMMA NothingClaimed ==
  ASSUME TypeInv, TypeInv', Claimed, Grows, NoNewWork, SameCommands,
         \A o \in Requests : reqs'[o].pc \in CreatePc \ {"insert"} => reqs[o].pc \in CreatePc \ {"insert"}
  PROVE  Claimed'
<1>1. RowExists'  BY NoNewRow DEF Claimed
<1>2. ASSUME NEW t \in Tenants, NEW o \in Requests, Claims(reqs'[o], t) PROVE Claims(reqs[o], t)
  <2>1. Works(reqs'[o])  BY <1>2 DEF Claims, Works, CreatePc
  <2>2. reqs'[o].tenant = reqs[o].tenant  BY <2>1 DEF NoNewWork
  <2> QED  BY <1>2, <2>2 DEF Claims
<1>3. ASSUME NEW t \in Tenants, NEW c \in DOMAIN cmds', Creates(c, t)'
      PROVE  c \in DOMAIN cmds /\ Creates(c, t)
  BY <1>3 DEF SameCommands, Creates
<1>4. OneCreation'  BY <1>2, <1>3, NoNewCreation DEF Claimed
<1> QED  BY <1>1, <1>4 DEF Claimed

\* A status that is written to be something leaves every row where it is.
LEMMA WrittenGrows ==
  ASSUME TypeInv, NEW t \in Tenants, NEW x \in TenantStatus, status' = [status EXCEPT ![t] = x]
  PROVE  Grows
  BY DEF Grows, TypeInv, RowsOK, TenantStatus

\* At first nothing is claimed.
LEMMA InitClaimed == Init => Claimed
  BY DEF Init, Claimed, RowExists, OneCreation, Claims, Creates, At, Idle, CreatePc

\* The insert claims a tenant that had no row, so nobody had claimed it.
LEMMA InsertClaims ==
  ASSUME TypeInv, TypeInv', Claimed, NEW r \in Requests, InsertTenant(r)
  PROVE  Claimed'
<1>1. ReqsOK /\ reqs[r].tenant \in Tenants /\ ~Works(reqs[r]) /\ UNCHANGED cmds
  BY DEF TypeInv, ReqsOK, WellFormed, InsertTenant, At, Works
<1>2. SameCommands  BY <1>1 DEF SameCommands
<1>3. CASE Becomes(r, Idle) /\ UNCHANGED <<status, limits>>
  <2>1. NoNewWork /\ Grows  BY <1>3, IdleType DEF NoNewWork, Becomes, Works, Grows
  <2>2. \A o \in Requests :
           reqs'[o].pc \in CreatePc \ {"insert"} => reqs[o].pc \in CreatePc \ {"insert"}
    BY <1>3, IdleType DEF Becomes, CreatePc
  <2> QED  BY <1>2, <2>1, <2>2, NothingClaimed
<1>4. CASE /\ GoesTo(r, "select") /\ status[reqs[r].tenant] = "absent"
           /\ status' = [status EXCEPT ![reqs[r].tenant] = "pending"]
  <2> DEFINE u == reqs[r].tenant
  <2>1. Grows /\ status'[u] # "absent"
    BY <1>1, <1>4, WrittenGrows DEF TenantStatus, TypeInv, RowsOK
  <2>2. ASSUME NEW o \in Requests, Works(reqs'[o]) PROVE status'[reqs'[o].tenant] # "absent"
    <3>1. CASE o = r  BY <1>4, <2>1, <3>1 DEF GoesTo
    <3>2. CASE o # r
      <4>1. reqs'[o] = reqs[o]  BY <1>4, <3>2 DEF GoesTo
      <4>2. reqs[o].tenant \in Tenants /\ status[reqs[o].tenant] # "absent"
        BY <2>2, <4>1 DEF Works, TypeInv, ReqsOK, WellFormed, Claimed, RowExists, At
      <4> QED  BY <2>1, <4>1, <4>2 DEF Grows
    <3> QED  BY <3>1, <3>2
  <2>3. ASSUME NEW c \in DOMAIN cmds PROVE status'[cmds[c].tenant] # "absent"
    BY <2>1 DEF Grows, Claimed, RowExists, TypeInv, CmdsOK
  <2>4. RowExists'  BY <1>1, <2>2, <2>3 DEF RowExists, Works, At
  <2>5. ASSUME NEW o \in Requests PROVE ~Claims(reqs[o], u)
    BY <1>4 DEF Claims, CreatePc, Claimed, RowExists, At
  <2>6. ASSUME NEW c \in DOMAIN cmds PROVE ~Creates(c, u)
    BY <1>4 DEF Creates, Claimed, RowExists
  <2>7. ASSUME NEW t \in Tenants, NEW o \in Requests, Claims(reqs'[o], t)
        PROVE  (o = r /\ t = u) \/ (o # r /\ Claims(reqs[o], t))
    BY <1>4, <2>7 DEF Claims, GoesTo
  <2>8. \A t \in Tenants, c \in DOMAIN cmds : Creates(c, t)' <=> Creates(c, t)
    BY <1>1 DEF Creates
  <2> HIDE DEF u
  <2>9. ASSUME NEW t \in Tenants
        PROVE  /\ \A o, p \in Requests : Claims(reqs'[o], t) /\ Claims(reqs'[p], t) => o = p
               /\ \A c, d \in DOMAIN cmds' : Creates(c, t)' /\ Creates(d, t)' => c = d
               /\ \A o \in Requests, c \in DOMAIN cmds' : ~(Claims(reqs'[o], t) /\ Creates(c, t)')
    BY <1>1, <2>5, <2>6, <2>7, <2>8 DEF Claimed, OneCreation
  <2>10. \A t, o : Claims(reqs[o], t)' <=> Claims(reqs'[o], t)  BY DEF Claims
  <2>11. OneCreation'  BY <2>9, <2>10 DEF OneCreation
  <2> QED  BY <2>4, <2>11 DEF Claimed
<1> QED  BY <1>1, <1>3, <1>4, InsertMoves

\* The command takes over the claim of the request that enqueues it.
LEMMA EnqueueClaims ==
  ASSUME TypeInv, TypeInv', Claimed, NEW r \in Requests, EnqueueCreate(r)
  PROVE  Claimed'
<1> DEFINE u == reqs[r].tenant
<1>1. ReqsOK /\ u \in Tenants /\ Works(reqs[r]) /\ Claims(reqs[r], u) /\ UNCHANGED status
  BY DEF TypeInv, ReqsOK, WellFormed, EnqueueCreate, At, Works, Claims, CreatePc
<1>2. Becomes(r, Idle)  BY <1>1, CreationMoves
<1>3. PICK n \in Nat \ DOMAIN cmds :
         /\ DOMAIN cmds' = DOMAIN cmds \cup {n}
         /\ \A c \in DOMAIN cmds : cmds'[c] = cmds[c]
         /\ cmds'[n].tenant = u /\ cmds'[n].type = "create_tenant"
  BY CreateJoins DEF Joined
<1>4. status[u] # "absent"  BY <1>1 DEF Claimed, RowExists, Works, At
<1>5. \A o \in Requests : Works(reqs'[o]) => o # r /\ reqs'[o] = reqs[o]
  BY <1>2, IdleType DEF Becomes, Works
<1>6. RowExists'
  <2>1. \A o \in Requests : Works(reqs'[o]) => status'[reqs'[o].tenant] # "absent"
    BY <1>1, <1>5 DEF Claimed, RowExists, Works, At
  <2>2. \A c \in DOMAIN cmds' : status'[cmds'[c].tenant] # "absent"
    BY <1>1, <1>3, <1>4 DEF Claimed, RowExists
  <2> QED  BY <2>1, <2>2 DEF RowExists, Works, At
<1>7. ASSUME NEW t \in Tenants, NEW o \in Requests, Claims(reqs'[o], t)
      PROVE  o # r /\ Claims(reqs[o], t)
  BY <1>2, <1>7, IdleType DEF Claims, CreatePc, Becomes
<1>8. \A t \in Tenants, c \in DOMAIN cmds' :
         Creates(c, t)' => (c = n /\ t = u) \/ (c \in DOMAIN cmds /\ Creates(c, t))
  BY <1>3 DEF Creates
<1> HIDE DEF u
<1>9. ASSUME NEW t \in Tenants
      PROVE  /\ \A o, p \in Requests : Claims(reqs'[o], t) /\ Claims(reqs'[p], t) => o = p
             /\ \A c, d \in DOMAIN cmds' : Creates(c, t)' /\ Creates(d, t)' => c = d
             /\ \A o \in Requests, c \in DOMAIN cmds' : ~(Claims(reqs'[o], t) /\ Creates(c, t)')
  <2>1. \A o, p \in Requests : Claims(reqs'[o], t) /\ Claims(reqs'[p], t) => o = p
    BY <1>7 DEF Claimed, OneCreation
  <2>2. \A c, d \in DOMAIN cmds' : Creates(c, t)' /\ Creates(d, t)' => c = d
    BY <1>1, <1>8 DEF Claimed, OneCreation
  <2>3. \A o \in Requests, c \in DOMAIN cmds' : ~(Claims(reqs'[o], t) /\ Creates(c, t)')
    BY <1>1, <1>7, <1>8 DEF Claimed, OneCreation
  <2> QED  BY <2>1, <2>2, <2>3
<1>10. \A t, o : Claims(reqs[o], t)' <=> Claims(reqs'[o], t)  BY DEF Claims
<1>11. OneCreation'  BY <1>9, <1>10 DEF OneCreation
<1> QED  BY <1>6, <1>11 DEF Claimed

\* The command of an action creates nothing, and its tenant has a row.
LEMMA ActionClaims ==
  ASSUME TypeInv, TypeInv', Claimed, NEW r \in Requests, EnqueueAction(r)
  PROVE  Claimed'
<1> DEFINE u == reqs[r].tenant
<1>1. ReqsOK /\ Works(reqs[r]) /\ UNCHANGED status
  BY DEF TypeInv, EnqueueAction, At, Works
<1>2. \A o \in Requests :
         /\ reqs'[o].tenant = reqs[o].tenant
         /\ Works(reqs'[o]) => Works(reqs[o])
         /\ reqs'[o].pc \in CreatePc \ {"insert"} => reqs[o].pc \in CreatePc \ {"insert"}
  BY <1>1, ActionMoves DEF GoesTo, CreatePc
<1>3. PICK n \in Nat \ DOMAIN cmds :
         /\ DOMAIN cmds' = DOMAIN cmds \cup {n}
         /\ \A c \in DOMAIN cmds : cmds'[c] = cmds[c]
         /\ cmds'[n].tenant = u /\ cmds'[n].type # "create_tenant"
  BY ActionJoins DEF Joined
<1>4. status[u] # "absent"  BY <1>1 DEF Claimed, RowExists, Works, At
<1>5. RowExists'
  <2>1. \A o \in Requests : Works(reqs'[o]) => status'[reqs'[o].tenant] # "absent"
    BY <1>1, <1>2 DEF Claimed, RowExists, Works, At
  <2>2. \A c \in DOMAIN cmds' : status'[cmds'[c].tenant] # "absent"
    BY <1>1, <1>3, <1>4 DEF Claimed, RowExists
  <2> QED  BY <2>1, <2>2 DEF RowExists, Works, At
<1>6. \A t \in Tenants, o \in Requests : Claims(reqs'[o], t) => Claims(reqs[o], t)
  BY <1>2 DEF Claims
<1>7. \A t \in Tenants, c \in DOMAIN cmds' :
         Creates(c, t)' => c \in DOMAIN cmds /\ Creates(c, t)
  BY <1>3 DEF Creates
<1>8. OneCreation'  BY <1>6, <1>7, NoNewCreation DEF Claimed
<1> QED  BY <1>5, <1>8 DEF Claimed

\* Every other statement leaves the claims alone, and takes no row away.
LEMMA StatementClaims ==
  ASSUME TypeInv, TypeInv', Claimed, NEW r \in Requests, RequestStep(r)
  PROVE  Claimed'
<1> DEFINE Same == \A o \in Requests :
                     /\ Works(reqs'[o]) => Works(reqs[o]) /\ reqs'[o].tenant = reqs[o].tenant
                     /\ reqs'[o].pc \in CreatePc \ {"insert"} => reqs[o].pc \in CreatePc \ {"insert"}
<1>r. ReqsOK  BY DEF TypeInv
<1>a. ASSUME Same, Grows, UNCHANGED cmds PROVE Claimed'
  <2>1. NoNewWork /\ SameCommands  BY <1>a DEF NoNewWork, SameCommands
  <2>2. \A o \in Requests :
           reqs'[o].pc \in CreatePc \ {"insert"} => reqs[o].pc \in CreatePc \ {"insert"}
    BY <1>a
  <2> QED  BY <1>a, <2>1, <2>2, NothingClaimed
<1>b. ASSUME Becomes(r, Idle), Works(reqs[r]) PROVE Same
  BY <1>b, IdleType DEF Becomes, Works, CreatePc
<1>c. UNCHANGED status => Grows  BY DEF Grows
<1>w. reqs[r].pc \in (CreatePc \ {"insert"}) \cup ActionPc => reqs[r].tenant \in Tenants /\ Works(reqs[r])
  BY <1>r DEF ReqsOK, WellFormed, Works, CreatePc, ActionPc
<1>2. CASE SelectHost(r)
  <2>1. Same  BY <1>r, <1>2, SelectMoves DEF SelectHost, At, Works, CreatePc
  <2> QED  BY <1>2, <1>a, <1>c, <2>1 DEF SelectHost
<1>3. CASE GiveUp(r)
  <2>1. Same  BY <1>r, <1>3, <1>b, <1>w, CreationMoves DEF GiveUp, At, CreatePc
  <2>2. Grows  BY <1>3, <1>w, WrittenGrows DEF GiveUp, At, CreatePc, TenantStatus
  <2> QED  BY <1>3, <1>a, <2>1, <2>2 DEF GiveUp
<1>4. CASE Provision(r)
  <2>1. Same
    BY <1>r, <1>4, <1>b, <1>w, ProvisionMoves DEF Provision, At, GoesTo, Works, CreatePc
  <2> QED  BY <1>4, <1>a, <1>c, <2>1 DEF Provision
<1>5. CASE AssignHost(r)
  <2>1. Same  BY <1>r, <1>5, CreationMoves DEF AssignHost, At, GoesTo, Works, CreatePc
  <2>2. Grows  BY <1>5, <1>w, WrittenGrows DEF AssignHost, At, CreatePc, TenantStatus
  <2> QED  BY <1>5, <1>a, <2>1, <2>2 DEF AssignHost
<1>6. CASE ReserveCapacity(r)
  <2>1. Same  BY <1>r, <1>6, CreationMoves DEF ReserveCapacity, At, GoesTo, Works, CreatePc
  <2> QED  BY <1>6, <1>a, <1>c, <2>1 DEF ReserveCapacity
<1>9. CASE RecordBackup(r)
  <2>1. Same  BY <1>r, <1>9, ActionMoves DEF RecordBackup, At, GoesTo, Works, CreatePc
  <2> QED  BY <1>9, <1>a, <1>c, <2>1 DEF RecordBackup
<1>10. CASE SetStatus(r)
  <2>1. Same
    BY <1>r, <1>10, <1>b, <1>w, ActionMoves DEF SetStatus, At, GoesTo, Works, CreatePc, ActionPc
  <2> DEFINE u == reqs[r].tenant
             new == StatusAfter(reqs[r].action, status[u])
  <2>2. u \in Tenants /\ status[u] # "absent"
    BY <1>10, <1>w DEF SetStatus, At, ActionPc, Claimed, RowExists
  <2>3. status[u] \in TenantStatus  BY <2>2 DEF TypeInv, RowsOK
  <2>4. new \in TenantStatus  BY <2>3, StatusStays
  <2>5. status' = [status EXCEPT ![u] = new]  BY <1>10 DEF SetStatus
  <2> HIDE DEF u, new
  <2>6. Grows  BY <2>2, <2>4, <2>5, WrittenGrows
  <2> QED  BY <1>10, <1>a, <2>1, <2>6 DEF SetStatus
<1>11. CASE ReleaseCapacity(r)
  <2>1. Same  BY <1>r, <1>11, <1>b, <1>w, ActionMoves DEF ReleaseCapacity, At, ActionPc
  <2> QED  BY <1>11, <1>a, <1>c, <2>1 DEF ReleaseCapacity
<1> QED
  BY <1>2, <1>3, <1>4, <1>5, <1>6, <1>9, <1>10, <1>11, InsertClaims, EnqueueClaims, ActionClaims
  DEF RequestStep

\* A request that begins has claimed nothing, and acts on a tenant with a row.
LEMMA BeginClaims ==
  ASSUME TypeInv, TypeInv', Claimed, NEW r \in Requests, BeginRequest(r)
  PROVE  Claimed'
<1>1. ASSUME NEW t \in Tenants, NEW size \in Sizes, NEW auto \in BOOLEAN,
             NEW h \in Hosts \cup {NoHost}, BeginCreate(r, t, size, auto, h)
      PROVE  Claimed'
  <2>1. UNCHANGED <<status, cmds>>  BY <1>1 DEF BeginCreate
  <2>2. NoNewWork  BY <1>1, CreateBegins DEF NoNewWork, Works
  <2>3. \A o \in Requests :
           reqs'[o].pc \in CreatePc \ {"insert"} => reqs[o].pc \in CreatePc \ {"insert"}
    BY <1>1, CreateBegins DEF CreatePc
  <2> QED  BY <2>1, <2>2, <2>3, NothingClaimed DEF Grows, SameCommands
<1>2. ASSUME NEW t \in Tenants, NEW a \in Actions, BeginAction(r, t, a) PROVE Claimed'
  <2>1. UNCHANGED <<status, cmds>> /\ status[t] # "absent"  BY <1>2 DEF BeginAction
  <2>2. /\ \A o \in Requests : o # r => reqs'[o] = reqs[o]
        /\ reqs'[r].pc \in {"status", "command"} /\ reqs'[r].tenant = t
    BY <1>2, ActionBegins
  <2>3. \A o \in Requests : Works(reqs'[o]) => status'[reqs'[o].tenant] # "absent"
    BY <2>1, <2>2 DEF Works, Claimed, RowExists, At
  <2>4. RowExists'  BY <2>1, <2>3 DEF Claimed, RowExists, Works, At
  <2>5. \A u \in Tenants, o \in Requests : Claims(reqs'[o], u) => Claims(reqs[o], u)
    BY <2>2 DEF Claims, CreatePc
  <2>6. \A u \in Tenants, c \in DOMAIN cmds' :
           Creates(c, u)' => c \in DOMAIN cmds /\ Creates(c, u)
    BY <2>1 DEF Creates
  <2>7. OneCreation'  BY <2>5, <2>6, NoNewCreation DEF Claimed
  <2> QED  BY <2>4, <2>7 DEF Claimed
<1> QED  BY <1>1, <1>2 DEF BeginRequest

\* Nothing else claims a tenant or takes its row away.
LEMMA EnvironmentClaims ==
  ASSUME TypeInv, TypeInv', Claimed, Environment
  PROVE  Claimed'
<1>1. ASSUME UNCHANGED <<status, cmds, reqs>> PROVE Claimed'
  BY <1>1 DEF Claimed, RowExists, OneCreation, Claims, Creates, At
<1>2. ASSUME NEW c \in DOMAIN cmds, NEW s \in Completed \cup {"running"}, ReportCommand(c, s)
      PROVE  Claimed'
  <2> DEFINE u == cmds[c].tenant
             new == Reconciled(cmds[c].type, s, status[u])
  <2>1. Reported(c) /\ u \in Tenants /\ UNCHANGED reqs
    BY <1>2, ReportKeeps DEF ReportCommand, TypeInv
  <2>2. status[u] \in TenantStatus
    BY <2>1 DEF Claimed, RowExists, TypeInv, RowsOK
  <2>3. new \in TenantStatus  BY <2>2, StatusStays
  <2>4. status' = [status EXCEPT ![u] = new]  BY <1>2 DEF ReportCommand
  <2> HIDE DEF new
  <2>5. Grows  BY <2>1, <2>3, <2>4, WrittenGrows
  <2>6. SameCommands  BY <2>1 DEF Reported, SameCommands
  <2>7. NoNewWork  BY <2>1 DEF NoNewWork
  <2> QED  BY <2>1, <2>5, <2>6, <2>7, NothingClaimed
<1>3. ASSUME ApiCrash PROVE Claimed'
  <2>1. \A o \in Requests : reqs'[o] = Idle  BY <1>3 DEF ApiCrash
  <2>2. UNCHANGED <<status, cmds>>  BY <1>3 DEF ApiCrash
  <2>3. NoNewWork /\ Grows /\ SameCommands
    BY <2>1, <2>2, IdleType DEF NoNewWork, Works, Grows, SameCommands
  <2>4. \A o \in Requests : reqs'[o].pc \notin CreatePc  BY <2>1, IdleType DEF CreatePc
  <2> QED  BY <2>3, <2>4, NothingClaimed
<1> QED  BY <1>1, <1>2, <1>3 DEF Environment, PatchLimits, ReRegisterHost, ChangeHost

\* Every step keeps the claims.
LEMMA StepClaims == TypeInv /\ Claimed /\ [Next]_svars => Claimed'
<1> SUFFICES ASSUME TypeInv, Claimed, [Next]_svars PROVE Claimed'
  OBVIOUS
<1>1. TypeInv'  BY StepType
<1>2. ASSUME UNCHANGED svars PROVE Claimed'
  BY <1>2 DEF svars, Claimed, RowExists, OneCreation, Claims, Creates, At
<1> QED  BY <1>1, <1>2, StatementClaims, BeginClaims, EnvironmentClaims DEF Next

\* The inductive invariant of the claims.
LEMMA AlwaysClaimed == Spec => [](TypeInv /\ Claimed)
  BY InitType, StepType, InitClaimed, StepClaims, PTL DEF Spec

\* A slug has at most one create_tenant command, however many requests for it race,
\* throw, die or are repeated.
THEOREM SlugIsCreatedOnce == Spec => []CreatedOnce
<1>1. TypeInv /\ Claimed => CreatedOnce
  <2> SUFFICES ASSUME TypeInv, Claimed, NEW t \in Tenants
               PROVE  Cardinality({c \in CommandsFor(t) : cmds[c].type = "create_tenant"}) <= 1
    BY DEF CreatedOnce
  <2> DEFINE S == {c \in CommandsFor(t) : cmds[c].type = "create_tenant"}
  <2>1. \A c, d \in S : c = d  BY DEF CommandsFor, Claimed, OneCreation, Creates
  <2> HIDE DEF S
  <2>4. Cardinality(S) <= 1
    <3>1. CASE S = {}  BY <3>1, FS_EmptySet
    <3>2. CASE S # {}
      <4>1. PICK c \in S : TRUE  BY <3>2
      <4>2. S \subseteq {c}  BY <2>1, <4>1
      <4>3. IsFiniteSet({c}) /\ Cardinality({c}) = 1  BY FS_Singleton
      <4> QED  BY <4>2, <4>3, FS_Subset
    <3> QED  BY <3>1, <3>2
  <2> QED  BY <2>4 DEF S
<1> QED  BY <1>1, AlwaysClaimed, PTL

-----------------------------------------------------------------------------
(***************************************************************************)
(* Every command goes to the host of its tenant.                           *)
(***************************************************************************)

\* Before the assignment there is no host, and after it the one that was read.
Holds(q, as) ==
    /\ Unassigned(q) => as[q.tenant] = NoHost
    /\ Assigned(q) => as[q.tenant] = q.host

\* Followed, one request and one command at a time.
LEMMA FollowedIs ==
  Followed <=>
    /\ \A t \in Tenants : status[t] = "absent" => assigned[t] = NoHost
    /\ \A r \in Requests : Holds(reqs[r], assigned)
    /\ \A c \in DOMAIN cmds : cmds[c].host = assigned[cmds[c].tenant]
  BY DEF Followed, Holds, CommandsFollowAssignment

\* A step that assigns nothing, and whose request still holds what it read.
LEMMA NothingAssigned ==
  ASSUME TypeInv, TypeInv', Followed, Grows, SameCommands, UNCHANGED assigned,
         NEW r \in Requests, \A o \in Requests : o # r => reqs'[o] = reqs[o],
         Holds(reqs'[r], assigned)
  PROVE  Followed'
<1>1. ASSUME NEW t \in Tenants, status'[t] = "absent" PROVE assigned'[t] = NoHost
  BY <1>1 DEF Grows, Followed
<1>2. ASSUME NEW o \in Requests PROVE Holds(reqs'[o], assigned')
  BY FollowedIs
<1>3. ASSUME NEW c \in DOMAIN cmds' PROVE cmds'[c].host = assigned'[cmds'[c].tenant]
  BY FollowedIs DEF SameCommands
<1>4. /\ \A o \in Requests : Unassigned(reqs[o])' => assigned'[reqs'[o].tenant] = NoHost
      /\ \A o \in Requests : Assigned(reqs[o])' => assigned'[reqs'[o].tenant] = reqs'[o].host
  BY <1>2 DEF Holds, Unassigned, Assigned
<1> QED  BY <1>1, <1>3, <1>4 DEF Followed, CommandsFollowAssignment

\* An idle request holds nothing.
LEMMA IdleHolds == \A as : Holds(Idle, as)
  BY IdleType DEF Holds, Unassigned, Assigned, ActionPc

\* At first no tenant is assigned.
LEMMA InitFollowed == Init => Followed
  BY IdleType
  DEF Init, Followed, CommandsFollowAssignment, Unassigned, Assigned, ActionPc

\* The assignment is made by the only request that claims the tenant, before the
\* tenant has a command and before any action could read a host.
LEMMA AssignFollows ==
  ASSUME TypeInv, TypeInv', Claimed, Followed, NEW r \in Requests, AssignHost(r)
  PROVE  Followed'
<1> DEFINE u == reqs[r].tenant
<1>1. /\ ReqsOK /\ u \in Tenants /\ Claims(reqs[r], u) /\ assigned[u] = NoHost
      /\ status[u] # "absent"
  BY DEF TypeInv, ReqsOK, WellFormed, AssignHost, At, Claims, CreatePc, Followed, Unassigned,
         Claimed, RowExists
<1>2. GoesTo(r, "reserve") /\ reqs[r].host \in Hosts  BY <1>1, CreationMoves
<1>3. /\ assigned'[u] = reqs[r].host /\ status'[u] = "provisioning"
      /\ \A t \in Tenants : t # u => assigned'[t] = assigned[t] /\ status'[t] = status[t]
      /\ UNCHANGED cmds
  BY <1>1 DEF AssignHost, TypeInv, RowsOK
<1>4. \A t \in Tenants : status'[t] = "absent" => assigned'[t] = NoHost
  BY <1>3 DEF Followed
<1>5. ASSUME NEW o \in Requests
      PROVE  /\ Unassigned(reqs'[o]) => assigned'[reqs'[o].tenant] = NoHost
             /\ Assigned(reqs'[o]) => assigned'[reqs'[o].tenant] = reqs'[o].host
  <2>1. CASE o = r
    BY <1>2, <1>3, <2>1 DEF GoesTo, Unassigned, Assigned
  <2>2. CASE o # r
    <3>1. reqs'[o] = reqs[o]  BY <1>2, <2>2 DEF GoesTo
    <3>2. ~Claims(reqs[o], u)  BY <1>1, <2>2 DEF Claimed, OneCreation
    <3>3. ASSUME Unassigned(reqs[o]) PROVE reqs[o].tenant # u
      BY <3>2, <3>3 DEF Claims, Unassigned, CreatePc
    <3>4. ASSUME Assigned(reqs[o]) PROVE reqs[o].tenant # u
      <4>1. reqs[o].host \in Hosts
        BY <3>4 DEF Assigned, TypeInv, ReqsOK, WellFormed, NeedsHost, Request
      <4> QED  BY <1>1, <3>4, <4>1, ServiceAssumption DEF Followed
    <3>5. Unassigned(reqs[o]) \/ Assigned(reqs[o]) => reqs[o].tenant \in Tenants
      BY DEF Unassigned, Assigned, ActionPc, TypeInv, ReqsOK, WellFormed
    <3> QED  BY <1>3, <3>1, <3>3, <3>4, <3>5 DEF Followed
  <2> QED  BY <2>1, <2>2
<1>6. ASSUME NEW c \in DOMAIN cmds PROVE cmds[c].host = assigned'[cmds[c].tenant]
  <2>0. cmds[c] \in CommandRow /\ cmds[c].tenant \in Tenants  BY DEF TypeInv, CmdsOK
  <2>1. cmds[c].host \in Hosts /\ cmds[c].tenant \in Tenants  BY <2>0 DEF CommandRow
  <2>2. cmds[c].host = assigned[cmds[c].tenant]  BY DEF Followed, CommandsFollowAssignment
  <2>3. cmds[c].tenant # u  BY <1>1, <2>1, <2>2, ServiceAssumption
  <2> QED  BY <1>3, <2>1, <2>2, <2>3
<1>7. /\ \A o \in Requests : Unassigned(reqs[o])' => assigned'[reqs'[o].tenant] = NoHost
      /\ \A o \in Requests : Assigned(reqs[o])' => assigned'[reqs'[o].tenant] = reqs'[o].host
  BY <1>5 DEF Unassigned, Assigned
<1> QED  BY <1>3, <1>4, <1>6, <1>7 DEF Followed, CommandsFollowAssignment

\* A command goes to the host that its request holds.
LEMMA JoinFollows ==
  ASSUME TypeInv, TypeInv', Followed, NEW r \in Requests, NEW ty,
         Assigned(reqs[r]), Joined(reqs[r].host, reqs[r].tenant, ty),
         \A o \in Requests : o # r => reqs'[o] = reqs[o],
         Holds(reqs'[r], assigned), UNCHANGED <<status, assigned>>
  PROVE  Followed'
<1>1. \A c \in DOMAIN cmds' : cmds'[c].host = assigned[cmds'[c].tenant]
  BY DEF Joined, Followed, CommandsFollowAssignment
<1>2. \A o \in Requests : Holds(reqs'[o], assigned')
  BY FollowedIs
<1>3. /\ \A o \in Requests : Unassigned(reqs[o])' => assigned'[reqs'[o].tenant] = NoHost
      /\ \A o \in Requests : Assigned(reqs[o])' => assigned'[reqs'[o].tenant] = reqs'[o].host
  BY <1>2 DEF Holds, Unassigned, Assigned
<1> QED  BY <1>1, <1>3 DEF Followed, CommandsFollowAssignment

\* Every other statement assigns nothing.
LEMMA StatementFollows ==
  ASSUME TypeInv, TypeInv', Claimed, Claimed', Followed, NEW r \in Requests, RequestStep(r)
  PROVE  Followed'
<1> DEFINE q == reqs[r]
           Others == \A o \in Requests : o # r => reqs'[o] = reqs[o]
<1>r. ReqsOK /\ Holds(q, assigned)  BY FollowedIs DEF TypeInv
<1>g. Grows
  <2>1. UNCHANGED status => Grows  BY DEF Grows
  <2>2. q.pc # "idle" => q.tenant \in Tenants  BY <1>r DEF ReqsOK, WellFormed
  <2>3. ASSUME SetStatus(r) PROVE Grows
    <3> DEFINE new == StatusAfter(q.action, status[q.tenant])
    <3>1. q.tenant \in Tenants /\ status[q.tenant] # "absent"
      BY <2>2, <2>3 DEF SetStatus, At, Claimed, RowExists
    <3>2. status[q.tenant] \in TenantStatus  BY <3>1 DEF TypeInv, RowsOK
    <3>3. new \in TenantStatus  BY <3>2, StatusStays
    <3>4. status' = [status EXCEPT ![q.tenant] = new]  BY <2>3 DEF SetStatus
    <3> HIDE DEF new
    <3> QED  BY <3>1, <3>3, <3>4, WrittenGrows
  <2>4. ASSUME InsertTenant(r) \/ GiveUp(r) \/ AssignHost(r) PROVE Grows
    <3>1. q.tenant \in Tenants
      BY <2>2, <2>4 DEF InsertTenant, GiveUp, AssignHost, At
    <3>2. \/ UNCHANGED status
          \/ \E x \in {"pending", "failed", "provisioning"} : status' = [status EXCEPT ![q.tenant] = x]
      BY <1>r, <2>4, InsertMoves DEF GiveUp, AssignHost
    <3> QED  BY <2>1, <3>1, <3>2, WrittenGrows DEF TenantStatus
  <2> QED
    BY <2>1, <2>3, <2>4 DEF RequestStep, SelectHost, Provision, ReserveCapacity, EnqueueCreate,
       EnqueueAction, RecordBackup, ReleaseCapacity
<1>a. ASSUME Others, Holds(reqs'[r], assigned), UNCHANGED <<assigned, cmds>> PROVE Followed'
  <2>1. SameCommands  BY <1>a DEF SameCommands
  <2> QED  BY <1>a, <1>g, <2>1, NothingAssigned
<1>b. ASSUME Becomes(r, Idle) PROVE Others /\ Holds(reqs'[r], assigned)
  BY <1>b, IdleHolds DEF Becomes
<1>1. CASE InsertTenant(r)
  <2>1. ASSUME GoesTo(r, "select"), status[q.tenant] = "absent"
        PROVE  Others /\ Holds(reqs'[r], assigned)
    <3>1. q.tenant \in Tenants  BY <1>1, <1>r DEF InsertTenant, At, ReqsOK, WellFormed
    <3>2. assigned[q.tenant] = NoHost  BY <2>1, <3>1 DEF Followed
    <3> QED  BY <2>1, <3>2 DEF GoesTo, Holds, Unassigned, Assigned, ActionPc
  <2> QED  BY <1>1, <1>r, <1>a, <1>b, <2>1, InsertMoves DEF InsertTenant
<1>2. CASE SelectHost(r)
  <2>1. Others /\ Holds(reqs'[r], assigned)
    BY <1>2, <1>r, SelectMoves DEF SelectHost, At, Holds, Unassigned, Assigned, ActionPc
  <2> QED  BY <1>2, <1>a, <2>1 DEF SelectHost
<1>3. CASE GiveUp(r)
  BY <1>3, <1>r, <1>a, <1>b, CreationMoves DEF GiveUp
<1>4. CASE Provision(r)
  <2>1. ASSUME GoesTo(r, "assign") PROVE Others /\ Holds(reqs'[r], assigned)
    BY <1>4, <1>r, <2>1 DEF Provision, At, GoesTo, Holds, Unassigned, Assigned, ActionPc
  <2> QED  BY <1>4, <1>r, <1>a, <1>b, <2>1, ProvisionMoves DEF Provision
<1>6. CASE ReserveCapacity(r)
  <2>1. Others /\ Holds(reqs'[r], assigned)
    BY <1>6, <1>r, CreationMoves
    DEF ReserveCapacity, At, GoesTo, Holds, Unassigned, Assigned, ActionPc
  <2> QED  BY <1>6, <1>a, <2>1 DEF ReserveCapacity
<1>7. CASE EnqueueCreate(r)
  <2>1. Others /\ Holds(reqs'[r], assigned)  BY <1>7, <1>r, <1>b, CreationMoves
  <2>2. Assigned(q)  BY <1>7 DEF EnqueueCreate, At, Assigned
  <2>3. Joined(q.host, q.tenant, "create_tenant")  BY <1>7, CreateJoins
  <2> QED  BY <1>7, <2>1, <2>2, <2>3, JoinFollows DEF EnqueueCreate
<1>8. CASE EnqueueAction(r)
  <2>1. q.host \in Hosts /\ (GoesTo(r, "backup") \/ GoesTo(r, "status"))
    BY <1>8, <1>r, ActionMoves
  <2>2. Assigned(q)
    BY <1>8, <2>1, ServiceAssumption DEF EnqueueAction, At, Assigned, ActionPc
  <2>3. Others /\ Holds(reqs'[r], assigned)
    BY <1>r, <2>1, <2>2 DEF GoesTo, Holds, Unassigned, Assigned, ActionPc
  <2>4. PICK ty \in CommandType \ {"create_tenant"} : Joined(q.host, q.tenant, ty)
    BY <1>8, ActionJoins
  <2> QED  BY <1>8, <2>2, <2>3, <2>4, JoinFollows DEF EnqueueAction
<1>9. CASE RecordBackup(r)
  <2>1. Others /\ Holds(reqs'[r], assigned)
    BY <1>9, <1>r, ActionMoves DEF RecordBackup, At, GoesTo, Holds, Unassigned, Assigned, ActionPc
  <2> QED  BY <1>9, <1>a, <2>1 DEF RecordBackup
<1>10. CASE SetStatus(r)
  <2>1. ASSUME GoesTo(r, "release") PROVE Others /\ Holds(reqs'[r], assigned)
    BY <1>10, <1>r, <2>1 DEF SetStatus, At, GoesTo, Holds, Unassigned, Assigned, ActionPc
  <2> QED  BY <1>10, <1>r, <1>a, <1>b, <2>1, ActionMoves DEF SetStatus
<1>11. CASE ReleaseCapacity(r)
  BY <1>11, <1>r, <1>a, <1>b, ActionMoves DEF ReleaseCapacity
<1> QED
  BY <1>1, <1>2, <1>3, <1>4, <1>6, <1>7, <1>8, <1>9, <1>10, <1>11, AssignFollows DEF RequestStep

\* An action begins with the host its tenant is assigned, a creation with none.
LEMMA BeginFollows ==
  ASSUME TypeInv, TypeInv', Followed, NEW r \in Requests, BeginRequest(r)
  PROVE  Followed'
<1>1. ASSUME NEW t \in Tenants, NEW size \in Sizes, NEW auto \in BOOLEAN,
             NEW h \in Hosts \cup {NoHost}, BeginCreate(r, t, size, auto, h)
      PROVE  Followed'
  <2>1. UNCHANGED <<status, assigned, cmds>>  BY <1>1 DEF BeginCreate
  <2>2. Holds(reqs'[r], assigned) /\ \A o \in Requests : o # r => reqs'[o] = reqs[o]
    BY <1>1, CreateBegins DEF Holds, Unassigned, Assigned, ActionPc
  <2>3. Grows /\ SameCommands  BY <2>1 DEF Grows, SameCommands
  <2> QED  BY <2>1, <2>2, <2>3, NothingAssigned
<1>2. ASSUME NEW t \in Tenants, NEW a \in Actions, BeginAction(r, t, a) PROVE Followed'
  <2>1. UNCHANGED <<status, assigned, cmds>>  BY <1>2 DEF BeginAction
  <2>2. Holds(reqs'[r], assigned) /\ \A o \in Requests : o # r => reqs'[o] = reqs[o]
    BY <1>2, ActionBegins DEF Holds, Unassigned, Assigned, ActionPc
  <2>3. Grows /\ SameCommands  BY <2>1 DEF Grows, SameCommands
  <2> QED  BY <2>1, <2>2, <2>3, NothingAssigned
<1> QED  BY <1>1, <1>2 DEF BeginRequest

\* Nothing else assigns a host.
LEMMA EnvironmentFollows ==
  ASSUME TypeInv, TypeInv', Claimed, Followed, Environment
  PROVE  Followed'
<1>1. ASSUME UNCHANGED <<status, assigned, cmds, reqs>> PROVE Followed'
  BY <1>1 DEF Followed, CommandsFollowAssignment, Unassigned, Assigned
<1>2. ASSUME NEW c \in DOMAIN cmds, NEW s \in Completed \cup {"running"}, ReportCommand(c, s)
      PROVE  Followed'
  <2>1. Reported(c) /\ cmds[c].tenant \in Tenants /\ UNCHANGED <<reqs, assigned>>
    BY <1>2, ReportKeeps DEF ReportCommand, TypeInv
  <2> DEFINE u == cmds[c].tenant
             new == Reconciled(cmds[c].type, s, status[u])
  <2>2. status[u] \in TenantStatus
    BY <2>1 DEF Claimed, RowExists, TypeInv, RowsOK
  <2>3. new \in TenantStatus  BY <2>2, StatusStays
  <2>4. status' = [status EXCEPT ![u] = new]  BY <1>2 DEF ReportCommand
  <2> HIDE DEF new
  <2>5. Grows  BY <2>1, <2>3, <2>4, WrittenGrows
  <2>6. \A t \in Tenants : status'[t] = "absent" => assigned'[t] = NoHost
    BY <2>1, <2>5 DEF Grows, Followed
  <2>7. \A d \in DOMAIN cmds' : cmds'[d].host = assigned'[cmds'[d].tenant]
    BY <2>1 DEF Reported, Followed, CommandsFollowAssignment
  <2>8. /\ \A o \in Requests : Unassigned(reqs[o])' => assigned'[reqs'[o].tenant] = NoHost
        /\ \A o \in Requests : Assigned(reqs[o])' => assigned'[reqs'[o].tenant] = reqs'[o].host
    BY <2>1 DEF Followed, Unassigned, Assigned
  <2> QED  BY <2>6, <2>7, <2>8 DEF Followed, CommandsFollowAssignment
<1>3. ASSUME ApiCrash PROVE Followed'
  <2>1. (\A o \in Requests : reqs'[o] = Idle) /\ UNCHANGED <<status, assigned, cmds>>
    BY <1>3 DEF ApiCrash
  <2>2. \A o \in Requests : ~Unassigned(reqs[o])' /\ ~Assigned(reqs[o])'
    BY <2>1, IdleType DEF Unassigned, Assigned, ActionPc
  <2> QED  BY <2>1, <2>2 DEF Followed, CommandsFollowAssignment
<1> QED  BY <1>1, <1>2, <1>3 DEF Environment, PatchLimits, ReRegisterHost, ChangeHost

\* Every step keeps the commands with the assignment.
LEMMA StepFollows == TypeInv /\ Claimed /\ Followed /\ [Next]_svars => Followed'
<1> SUFFICES ASSUME TypeInv, Claimed, Followed, [Next]_svars PROVE Followed'
  OBVIOUS
<1>1. TypeInv' /\ Claimed'  BY StepType, StepClaims
<1>2. ASSUME UNCHANGED svars PROVE Followed'
  BY <1>2 DEF svars, Followed, CommandsFollowAssignment, Unassigned, Assigned
<1> QED  BY <1>1, <1>2, StatementFollows, BeginFollows, EnvironmentFollows DEF Next

\* Every command goes to the host its tenant is assigned to, although it is built from
\* a host that its request read or chose statements earlier.
THEOREM CommandsReachTheirHost == Spec => []CommandsFollowAssignment
<1>1. Init => TypeInv /\ Claimed /\ Followed
  BY InitType, InitClaimed, InitFollowed
<1>2. TypeInv /\ Claimed /\ Followed /\ [Next]_svars => (TypeInv /\ Claimed /\ Followed)'
  BY StepType, StepClaims, StepFollows
<1>3. Followed => CommandsFollowAssignment
  BY DEF Followed
<1> QED  BY <1>1, <1>2, <1>3, PTL DEF Spec

-----------------------------------------------------------------------------
(***************************************************************************)
(* A tenant in provisioning has a command that will take it on.            *)
(***************************************************************************)

\* What a tenant in provisioning waits for.
Enqueues(q, t) == q.tenant = t /\ q.pc \in {"reserve", "enqueue"}

Queued(c, t) == Creates(c, t) /\ cmds[c].status = "queued"

Taken(t) ==
    \/ \E r \in Requests : Enqueues(reqs[r], t)
    \/ \E c \in DOMAIN cmds : Queued(c, t)

\* Awaited, in these words.
LEMMA AwaitedIs ==
  Awaited <=> (~crashed => \A t \in Tenants : status[t] = "provisioning" => Taken(t))
  BY DEF Awaited, Taken, Enqueues, Queued

\* A step that puts nobody into provisioning, and takes nothing they wait for away.
LEMMA NobodyWaits ==
  ASSUME Awaited, crashed' = crashed,
         \A t \in Tenants : status'[t] = "provisioning" => status[t] = "provisioning",
         \A t \in Tenants, o \in Requests : Enqueues(reqs[o], t) => Enqueues(reqs'[o], t),
         \A c \in DOMAIN cmds : c \in DOMAIN cmds' /\ cmds'[c] = cmds[c]
  PROVE  Awaited'
<1>1. ASSUME ~crashed', NEW t \in Tenants, status'[t] = "provisioning" PROVE Taken(t)'
  <2>1. Taken(t)  BY <1>1, AwaitedIs
  <2>2. \A o \in Requests : Enqueues(reqs[o], t) => Enqueues(reqs[o], t)'
    BY DEF Enqueues
  <2>3. \A c \in DOMAIN cmds : Queued(c, t) => c \in DOMAIN cmds' /\ Queued(c, t)'
    BY DEF Queued, Creates
  <2> QED  BY <2>1, <2>2, <2>3 DEF Taken
<1>2. ASSUME NEW t \in Tenants, Taken(t)'
      PROVE  \/ \E r \in Requests : reqs'[r].tenant = t /\ reqs'[r].pc \in {"reserve", "enqueue"}
             \/ \E c \in DOMAIN cmds' : Creates(c, t)' /\ cmds'[c].status = "queued"
  BY <1>2 DEF Taken, Enqueues, Queued
<1> QED  BY <1>1, <1>2 DEF Awaited

\* At first no tenant waits.
LEMMA InitAwaited == Init => Awaited
  BY DEF Init, Awaited

\* The assignment, the reservation and the command follow each other, and no other
\* statement puts a tenant into provisioning.
LEMMA StatementAwaits ==
  ASSUME TypeInv, Awaited, NEW r \in Requests, RequestStep(r)
  PROVE  Awaited'
<1> DEFINE q == reqs[r]
           Others == \A o \in Requests : o # r => reqs'[o] = reqs[o]
           Still == \A t \in Tenants : status'[t] = "provisioning" => status[t] = "provisioning"
<1>r. ReqsOK /\ (q.pc # "idle" => q.tenant \in Tenants)  BY DEF TypeInv, ReqsOK, WellFormed
<1>u. UNCHANGED status => Still  OBVIOUS
<1>a. ASSUME Others, q.pc \notin {"reserve", "enqueue"}, Still, crashed' = crashed,
             \A c \in DOMAIN cmds : c \in DOMAIN cmds' /\ cmds'[c] = cmds[c]
      PROVE  Awaited'
  <2>1. \A t \in Tenants, o \in Requests : Enqueues(reqs[o], t) => Enqueues(reqs'[o], t)
    BY <1>a DEF Enqueues
  <2> QED  BY <1>a, <2>1, NobodyWaits
<1>s. ASSUME NEW x, x # "provisioning", status' = [status EXCEPT ![q.tenant] = x] PROVE Still
  BY <1>s DEF TypeInv, RowsOK
<1>1. CASE InsertTenant(r)
  <2>1. Others  BY <1>1, <1>r, InsertMoves DEF GoesTo, Becomes
  <2>2. Still  BY <1>1, <1>u, <1>s DEF InsertTenant
  <2> QED  BY <1>1, <1>a, <2>1, <2>2 DEF InsertTenant, At, history
<1>2. CASE SelectHost(r)
  <2>1. Others  BY <1>2, <1>r, SelectMoves
  <2> QED  BY <1>2, <1>a, <1>u, <2>1 DEF SelectHost, At, history
<1>3. CASE GiveUp(r)
  <2>1. Others  BY <1>3, <1>r, CreationMoves DEF Becomes
  <2>2. Still  BY <1>3, <1>s DEF GiveUp
  <2> QED  BY <1>3, <1>a, <2>1, <2>2 DEF GiveUp, At, history
<1>4. CASE Provision(r)
  <2>1. Others  BY <1>4, <1>r, ProvisionMoves DEF GoesTo, Becomes
  <2> QED  BY <1>4, <1>a, <1>u, <2>1 DEF Provision, At, history
<1>5. CASE AssignHost(r)
  <2>1. GoesTo(r, "reserve") /\ q.tenant \in Tenants
    BY <1>5, <1>r, CreationMoves DEF AssignHost, At
  <2>2. UNCHANGED <<cmds, crashed>>  BY <1>5 DEF AssignHost, history
  <2>3. ASSUME ~crashed', NEW t \in Tenants, status'[t] = "provisioning"
        PROVE  \/ \E o \in Requests : reqs'[o].tenant = t /\ reqs'[o].pc \in {"reserve", "enqueue"}
               \/ \E c \in DOMAIN cmds' : Creates(c, t)' /\ cmds'[c].status = "queued"
    <3>1. CASE t = q.tenant
      <4>1. reqs'[r].tenant = t /\ reqs'[r].pc = "reserve"  BY <2>1, <3>1 DEF GoesTo
      <4> QED  BY <4>1
    <3>2. CASE t # q.tenant
      <4>1. status[t] = "provisioning"
        BY <1>5, <2>3, <3>2 DEF AssignHost, TypeInv, RowsOK
      <4>2. Taken(t)  BY <2>2, <2>3, <4>1, AwaitedIs
      <4>3. \A o \in Requests : Enqueues(reqs[o], t) => Enqueues(reqs'[o], t)
        BY <1>5, <2>1 DEF Enqueues, GoesTo, AssignHost, At
      <4>4. \A c \in DOMAIN cmds : Queued(c, t) => Creates(c, t)' /\ cmds'[c].status = "queued"
        BY <2>2 DEF Queued, Creates
      <4> QED  BY <2>2, <4>2, <4>3, <4>4 DEF Taken, Enqueues
    <3> QED  BY <3>1, <3>2
  <2> QED  BY <2>3 DEF Awaited
<1>6. CASE ReserveCapacity(r)
  <2>1. GoesTo(r, "enqueue")  BY <1>6, <1>r, CreationMoves
  <2>2. \A t \in Tenants, o \in Requests : Enqueues(reqs[o], t) => Enqueues(reqs'[o], t)
    BY <2>1 DEF Enqueues, GoesTo
  <2> QED  BY <1>6, <2>2, NobodyWaits DEF ReserveCapacity, history
<1>7. CASE EnqueueCreate(r)
  <2>1. Becomes(r, Idle)  BY <1>7, <1>r, CreationMoves
  <2>2. UNCHANGED <<status, crashed>>  BY <1>7 DEF EnqueueCreate, history
  <2>3. PICK n \in Nat \ DOMAIN cmds :
           /\ DOMAIN cmds' = DOMAIN cmds \cup {n}
           /\ \A c \in DOMAIN cmds : cmds'[c] = cmds[c]
           /\ cmds'[n].tenant = q.tenant /\ cmds'[n].type = "create_tenant"
           /\ cmds'[n].status = "queued"
    BY <1>7, CreateJoins DEF Joined
  <2>4. ASSUME ~crashed', NEW t \in Tenants, status'[t] = "provisioning"
        PROVE  \/ \E o \in Requests : reqs'[o].tenant = t /\ reqs'[o].pc \in {"reserve", "enqueue"}
               \/ \E c \in DOMAIN cmds' : Creates(c, t)' /\ cmds'[c].status = "queued"
    <3>1. Taken(t)  BY <2>2, <2>4, AwaitedIs
    <3>2. CASE t = q.tenant
      <4>1. n \in DOMAIN cmds' /\ Creates(n, t)' /\ cmds'[n].status = "queued"
        BY <2>3, <3>2 DEF Creates
      <4> QED  BY <4>1
    <3>3. CASE t # q.tenant
      <4>1. \A o \in Requests : Enqueues(reqs[o], t) => Enqueues(reqs'[o], t)
        BY <2>1, <3>3 DEF Enqueues, Becomes
      <4>2. \A c \in DOMAIN cmds :
               Queued(c, t) => c \in DOMAIN cmds' /\ Creates(c, t)' /\ cmds'[c].status = "queued"
        BY <2>3 DEF Queued, Creates
      <4> QED  BY <3>1, <4>1, <4>2 DEF Taken, Enqueues
    <3> QED  BY <3>2, <3>3
  <2> QED  BY <2>4 DEF Awaited
<1>8. CASE EnqueueAction(r)
  <2>1. Others  BY <1>8, <1>r, ActionMoves DEF GoesTo
  <2>2. \A c \in DOMAIN cmds : c \in DOMAIN cmds' /\ cmds'[c] = cmds[c]
    BY <1>8, ActionJoins DEF Joined
  <2> QED  BY <1>8, <1>a, <1>u, <2>1, <2>2 DEF EnqueueAction, At, history
<1>9. CASE RecordBackup(r)
  <2>1. Others  BY <1>9, <1>r, ActionMoves DEF GoesTo
  <2> QED  BY <1>9, <1>a, <1>u, <2>1 DEF RecordBackup, At, history
<1>10. CASE SetStatus(r)
  <2>1. Others  BY <1>10, <1>r, ActionMoves DEF GoesTo, Becomes
  <2>2. Still
    <3> DEFINE new == StatusAfter(q.action, status[q.tenant])
    <3>1. new = "provisioning" => status[q.tenant] = "provisioning"  BY ActionMovesOn
    <3>2. status' = [status EXCEPT ![q.tenant] = new]  BY <1>10 DEF SetStatus
    <3> HIDE DEF new
    <3> QED  BY <3>1, <3>2 DEF TypeInv, RowsOK
  <2> QED  BY <1>10, <1>a, <2>1, <2>2 DEF SetStatus, At, history
<1>11. CASE ReleaseCapacity(r)
  <2>1. Others  BY <1>11, <1>r, ActionMoves DEF Becomes
  <2> QED  BY <1>11, <1>a, <1>u, <2>1 DEF ReleaseCapacity, At, history
<1> QED
  BY <1>1, <1>2, <1>3, <1>4, <1>5, <1>6, <1>7, <1>8, <1>9, <1>10, <1>11 DEF RequestStep

\* A request that begins was waited for by nobody.
LEMMA BeginAwaits ==
  ASSUME TypeInv, Awaited, NEW r \in Requests, BeginRequest(r)
  PROVE  Awaited'
<1>1. UNCHANGED <<status, cmds, crashed>>
  BY DEF BeginRequest, BeginCreate, BeginAction, history
<1>2. At(r, "idle") /\ \A o \in Requests : o # r => reqs'[o] = reqs[o]
  BY CreateBegins, ActionBegins DEF BeginRequest
<1>3. \A t \in Tenants, o \in Requests : Enqueues(reqs[o], t) => Enqueues(reqs'[o], t)
  BY <1>2 DEF Enqueues, At
<1> QED  BY <1>1, <1>3, NobodyWaits

\* A report takes a create_tenant command out of the queue and its tenant out of
\* provisioning at once; a crash is excluded.
LEMMA EnvironmentAwaits ==
  ASSUME TypeInv, Awaited, Environment
  PROVE  Awaited'
<1>1. ASSUME UNCHANGED <<status, cmds, reqs, crashed>> PROVE Awaited'
  BY <1>1, NobodyWaits
<1>2. ASSUME NEW c \in DOMAIN cmds, NEW s \in Completed \cup {"running"}, ReportCommand(c, s)
      PROVE  Awaited'
  <2> DEFINE u == cmds[c].tenant
             new == Reconciled(cmds[c].type, s, status[u])
  <2>1. Reported(c) /\ u \in Tenants /\ UNCHANGED <<reqs, crashed>>
    BY <1>2, ReportKeeps DEF ReportCommand, TypeInv, history
  <2>2. new = "provisioning" => status[u] = "provisioning" /\ cmds[c].type # "create_tenant"
    BY ReportMovesOn
  <2>3. status' = [status EXCEPT ![u] = new]  BY <1>2 DEF ReportCommand
  <2> HIDE DEF new
  <2>4. ASSUME ~crashed', NEW t \in Tenants, status'[t] = "provisioning"
        PROVE  \/ \E o \in Requests : reqs'[o].tenant = t /\ reqs'[o].pc \in {"reserve", "enqueue"}
               \/ \E d \in DOMAIN cmds' : Creates(d, t)' /\ cmds'[d].status = "queued"
    <3>1. status[t] = "provisioning" /\ (t = u => cmds[c].type # "create_tenant")
      BY <2>1, <2>2, <2>3, <2>4 DEF TypeInv, RowsOK
    <3>2. Taken(t)  BY <2>1, <2>4, <3>1, AwaitedIs
    <3>3. ~Queued(c, t)  BY <3>1 DEF Queued, Creates
    <3>4. \A d \in DOMAIN cmds :
             Queued(d, t) => d \in DOMAIN cmds' /\ Creates(d, t)' /\ cmds'[d].status = "queued"
      BY <2>1, <3>3 DEF Reported, Queued, Creates
    <3> QED  BY <2>1, <3>2, <3>4 DEF Taken, Enqueues
  <2> QED  BY <2>4 DEF Awaited
<1>3. ASSUME ApiCrash PROVE Awaited'
  BY <1>3 DEF ApiCrash, Awaited
<1> QED  BY <1>1, <1>2, <1>3 DEF Environment, PatchLimits, ReRegisterHost, ChangeHost, history

\* Every step keeps what the tenants wait for.
LEMMA StepAwaits == TypeInv /\ Awaited /\ [Next]_svars => Awaited'
<1> SUFFICES ASSUME TypeInv, Awaited, [Next]_svars PROVE Awaited'
  OBVIOUS
<1>1. ASSUME UNCHANGED svars PROVE Awaited'
  BY <1>1, NobodyWaits DEF svars, history
<1> QED  BY <1>1, StatementAwaits, BeginAwaits, EnvironmentAwaits DEF Next

\* While the API has not died, a tenant is never left in provisioning without the
\* create_tenant command that will take it on, once no request is in progress.
THEOREM ProvisioningGoesOn == Spec => []ProvisioningIsQueued
<1>1. Init => TypeInv /\ Awaited
  BY InitType, InitAwaited
<1>2. TypeInv /\ Awaited /\ [Next]_svars => (TypeInv /\ Awaited)'
  BY StepType, StepAwaits
<1>3. Awaited => ProvisioningIsQueued
  BY DEF Awaited, ProvisioningIsQueued, NoRequests, At, Creates, CommandsFor
<1> QED  BY <1>1, <1>2, <1>3, PTL DEF Spec

-----------------------------------------------------------------------------
(***************************************************************************)
(* Sums, counted unit by unit.                                             *)
(***************************************************************************)

\* Nothing adds up to nothing.
LEMMA UnitsNone ==
  ASSUME NEW f
  PROVE  IsFiniteSet(Units({}, f)) /\ Total({}, f) = 0
<1>1. Units({}, f) = {}  BY DEF Units
<1> QED  BY <1>1, FS_EmptySet DEF Total

\* One more term adds its units.
LEMMA UnitsAdd ==
  ASSUME NEW S, NEW f, NEW x, x \notin S, f[x] \in Nat, IsFiniteSet(Units(S, f))
  PROVE  /\ IsFiniteSet(Units(S \cup {x}, f))
         /\ Total(S \cup {x}, f) = Total(S, f) + f[x]
<1> DEFINE N == {x} \X (1 .. f[x])
<1>1. IsFiniteSet(1 .. f[x]) /\ Cardinality(1 .. f[x]) = f[x]
  BY FS_Interval, SMTT(30)
<1>2. IsFiniteSet({x}) /\ Cardinality({x}) = 1
  BY FS_Singleton
<1>3. IsFiniteSet(N) /\ Cardinality(N) = Cardinality({x}) * Cardinality(1 .. f[x])
  BY <1>1, <1>2, FS_Product
<1>4. Cardinality(N) = f[x]
  BY <1>1, <1>2, <1>3
<1>5. Units(S \cup {x}, f) = Units(S, f) \cup N
  BY DEF Units
<1>6. Units(S, f) \cap N = {}
  BY DEF Units
<1> HIDE DEF N
<1>7. /\ IsFiniteSet(Units(S, f) \cup N)
      /\ Cardinality(Units(S, f) \cup N) =
           Cardinality(Units(S, f)) + Cardinality(N) - Cardinality(Units(S, f) \cap N)
  BY <1>3, FS_Union
<1>8. Cardinality(Units(S, f) \cap N) = 0 /\ Cardinality(Units(S, f)) \in Nat
  BY <1>6, FS_EmptySet, FS_CardinalityType
<1>9. Cardinality(Units(S, f) \cup N) = Cardinality(Units(S, f)) + f[x]
  BY <1>4, <1>7, <1>8
<1>10. Total(S \cup {x}, f) = Total(S, f) + f[x]
  BY <1>5, <1>9 DEF Total
<1> QED  BY <1>5, <1>7, <1>10

\* Fewer terms add up to no more.
LEMMA UnitsFewer ==
  ASSUME NEW S, NEW f, NEW T, T \subseteq S, IsFiniteSet(Units(S, f))
  PROVE  /\ IsFiniteSet(Units(T, f))
         /\ Total(T, f) \in Nat /\ Total(S, f) \in Nat
         /\ Total(T, f) <= Total(S, f)
<1>1. Units(T, f) \subseteq Units(S, f)
  BY DEF Units
<1>2. IsFiniteSet(Units(T, f)) /\ Cardinality(Units(T, f)) <= Cardinality(Units(S, f))
  BY <1>1, FS_Subset
<1> QED  BY <1>2, FS_CardinalityType DEF Total

\* One term less takes its units away.
LEMMA UnitsLess ==
  ASSUME NEW S, NEW f, NEW x \in S, f[x] \in Nat, IsFiniteSet(Units(S, f))
  PROVE  /\ IsFiniteSet(Units(S \ {x}, f))
         /\ Total(S \ {x}, f) = Total(S, f) - f[x]
<1> DEFINE T == S \ {x}
<1>1. x \notin T /\ T \cup {x} = S /\ T \subseteq S
  OBVIOUS
<1> HIDE DEF T
<1>2. IsFiniteSet(Units(T, f)) /\ Total(T, f) \in Nat
  BY <1>1, UnitsFewer
<1>3. Total(T \cup {x}, f) = Total(T, f) + f[x]
  BY <1>1, <1>2, UnitsAdd
<1>a. Total(S, f) = Total(T, f) + f[x]
  BY <1>1, <1>3, Zenon
<1>4. Total(T, f) = Total(S, f) - f[x]
  BY <1>2, <1>a
<1> QED  BY <1>2, <1>4 DEF T

\* Only the values of the terms count.
LEMMA UnitsSame ==
  ASSUME NEW S, NEW f, NEW g, \A x \in S : f[x] = g[x]
  PROVE  Units(S, f) = Units(S, g) /\ Total(S, f) = Total(S, g)
<1>1. ASSUME NEW a, NEW b, \A x \in S : a[x] = b[x]
      PROVE  Units(S, a) \subseteq Units(S, b)
  <2>1. ASSUME NEW u \in Units(S, a) PROVE u \in Units(S, b)
    <3>1. PICK x \in S : u \in {x} \X (1 .. a[x])
      BY DEF Units
    <3>2. u \in {x} \X (1 .. b[x])
      BY <1>1, <3>1
    <3> QED  BY <3>2 DEF Units
  <2> QED  BY <2>1
<1>2. Units(S, f) \subseteq Units(S, g)
  BY <1>1
<1>3. Units(S, g) \subseteq Units(S, f)
  BY <1>1
<1> QED  BY <1>2, <1>3 DEF Total

\* Bounded terms add up to at most their number times the bound.
LEMMA UnitsBounded ==
  ASSUME NEW S, IsFiniteSet(S), NEW f, NEW n \in Nat, \A x \in S : f[x] \in 0 .. n
  PROVE  /\ IsFiniteSet(Units(S, f))
         /\ Total(S, f) \in Nat
         /\ Total(S, f) <= Cardinality(S) * n
<1>1. IsFiniteSet(1 .. n) /\ Cardinality(1 .. n) = n
  BY FS_Interval, SMTT(30)
<1>2. IsFiniteSet(S \X (1 .. n)) /\ Cardinality(S \X (1 .. n)) = Cardinality(S) * Cardinality(1 .. n)
  BY <1>1, FS_Product
<1>3. Units(S, f) \subseteq S \X (1 .. n)
  <2>1. ASSUME NEW x \in S PROVE {x} \X (1 .. f[x]) \subseteq S \X (1 .. n)
    <3>1. 1 .. f[x] \subseteq 1 .. n
      BY <2>1
    <3> QED  BY <3>1
  <2> QED  BY <2>1 DEF Units
<1>4. IsFiniteSet(Units(S, f)) /\ Cardinality(Units(S, f)) <= Cardinality(S \X (1 .. n))
  BY <1>2, <1>3, FS_Subset
<1> QED  BY <1>1, <1>2, <1>4, FS_CardinalityType DEF Total

-----------------------------------------------------------------------------
(***************************************************************************)
(* A tenant's part of the state: its row, its requests and its commands.   *)
(* Where requests of one tenant do not overlap, wait for its commands and  *)
(* leave deleted tenants and limits alone, each part says by itself whose  *)
(* room a host's pools have given away.                                    *)
(***************************************************************************)
Orderly == Allowed \cap {"collide", "hurry", "repeat", "patch", "crash"} = {}

Opens(t) == {c \in CommandsFor(t) : cmds[c].status \in Open}

\* A delete that has yet to give back the room.
Releasing(t) ==
    \E r \in Requests : /\ reqs[r].tenant = t
                        /\ reqs[r].pc \in ActionPc
                        /\ reqs[r].action = "delete" /\ reqs[r].host # NoHost

\* A creation that has yet to take the room of the host it assigned.
Reserving(t) == \E r \in Requests : reqs[r].tenant = t /\ At(r, "reserve")

\* The room that t asked for is taken from the pools of h.
Counts(t, h) ==
    assigned[t] = h /\ ~Reserving(t) /\ (status[t] # "deleted" \/ Releasing(t))

\* What the request r knows of its tenant t is still so.
Serves(r, t) ==
    /\ ~At(r, "idle")
    /\ ~At(r, "insert") => reqs[r].size = limits[t]
    /\ reqs[r].pc \in CreatePc => CommandsFor(t) = {} /\ status[t] # "deleted"
    /\ reqs[r].pc \in ActionPc =>
          /\ reqs[r].host = assigned[t]
          /\ At(r, "command") => Opens(t) = {}
          /\ \A c \in Opens(t) : cmds[c].type = CommandOf[reqs[r].action]
          /\ status[t] = "deleted" => reqs[r].action = "delete"
          /\ At(r, "release") => status[t] = "deleted"

\* The open command of t, if it has one, and its deletion agree.
Settling(t) ==
    /\ \A c, d \in Opens(t) : c = d
    /\ status[t] = "deleted" => \A c \in Opens(t) : cmds[c].type = "delete_tenant"
    /\ \A c \in Opens(t) :
          cmds[c].type = "delete_tenant" => status[t] = "deleted" \/ Releasing(t)

Apart(t) ==
    /\ \A r, o \in Requests : reqs[r].tenant = t /\ reqs[o].tenant = t => r = o
    /\ \A r \in Requests : reqs[r].tenant = t => Serves(r, t)
    /\ Settling(t)

\* Nothing happens to t.
Untouched(t) ==
    /\ status'[t] = status[t] /\ assigned'[t] = assigned[t] /\ limits'[t] = limits[t]
    /\ \A r \in Requests : reqs[r].tenant = t \/ reqs'[r].tenant = t => reqs'[r] = reqs[r]
    /\ CommandsFor(t)' = CommandsFor(t)
    /\ \A c \in CommandsFor(t) : cmds'[c] = cmds[c]

\* t stays apart, and the room it has stays as it is.
KeepsRoom(t) ==
    /\ Apart(t)'
    /\ \A h \in Hosts : /\ Counts(t, h)' <=> Counts(t, h)
                        /\ Counts(t, h) => limits'[t] = limits[t]

\* What happens to other tenants changes nothing for t.
LEMMA UntouchedKeeps ==
  ASSUME NEW t, Apart(t), Untouched(t)
  PROVE  KeepsRoom(t)
<1>1. Opens(t)' = Opens(t) /\ \A c \in Opens(t) : cmds'[c] = cmds[c]
  BY DEF Untouched, Opens, CommandsFor
<1>2. \A r \in Requests : (reqs'[r].tenant = t <=> reqs[r].tenant = t)
  BY DEF Untouched
<1>3. \A r \in Requests : reqs[r].tenant = t => reqs'[r] = reqs[r]
  BY DEF Untouched
<1>4. (Releasing(t)' <=> Releasing(t)) /\ (Reserving(t)' <=> Reserving(t))
  BY <1>2, <1>3 DEF Releasing, Reserving, At
<1>5. \A h \in Hosts : (Counts(t, h)' <=> Counts(t, h)) /\ limits'[t] = limits[t]
  BY <1>4 DEF Counts, Untouched
<1>6. ASSUME NEW r \in Requests, reqs'[r].tenant = t PROVE Serves(r, t)'
  <2>1. Serves(r, t) /\ reqs'[r] = reqs[r]
    BY <1>2, <1>3, <1>6 DEF Apart
  <2> QED  BY <1>1, <2>1 DEF Serves, Untouched, At
<1>7. Settling(t)'
  BY <1>1, <1>4 DEF Settling, Apart, Untouched
<1>8. \A r, o \in Requests : reqs'[r].tenant = t /\ reqs'[o].tenant = t => r = o
  BY <1>2 DEF Apart
<1>9. Apart(t)'
  BY <1>6, <1>7, <1>8 DEF Apart
<1> QED  BY <1>5, <1>9 DEF KeepsRoom

-----------------------------------------------------------------------------
\* The request of a tenant is the only one, so it alone reserves or releases.
LEMMA OnlyRequest ==
  ASSUME NEW t, Apart(t), NEW r \in Requests, reqs[r].tenant = t
  PROVE  /\ \A o \in Requests : o # r => reqs[o].tenant # t
         /\ Reserving(t) <=> At(r, "reserve")
         /\ Releasing(t) <=> /\ reqs[r].pc \in ActionPc
                             /\ reqs[r].action = "delete" /\ reqs[r].host # NoHost
<1>1. \A o \in Requests : o # r => reqs[o].tenant # t
  BY DEF Apart
<1> QED  BY <1>1 DEF Reserving, Releasing

\* So it is after a step of that request.
LEMMA OnlyAfter ==
  ASSUME NEW t, NEW r \in Requests, \A o \in Requests : o # r => reqs[o].tenant # t,
         \A o \in Requests : o # r => reqs'[o] = reqs[o], reqs'[r].tenant = t
  PROVE  /\ Reserving(t)' <=> At(r, "reserve")'
         /\ Releasing(t)' <=> /\ reqs'[r].pc \in ActionPc
                              /\ reqs'[r].action = "delete" /\ reqs'[r].host # NoHost
         /\ Serves(r, t)' /\ Settling(t)' => Apart(t)'
<1>1. \A o \in Requests : o # r => reqs'[o].tenant # t
  OBVIOUS
<1>2. /\ Reserving(t)' <=> At(r, "reserve")'
      /\ Releasing(t)' <=> /\ reqs'[r].pc \in ActionPc
                           /\ reqs'[r].action = "delete" /\ reqs'[r].host # NoHost
  BY <1>1 DEF Reserving, Releasing, At
<1>3. ASSUME Serves(r, t)', Settling(t)' PROVE Apart(t)'
  BY <1>1, <1>3 DEF Apart
<1> QED  BY <1>2, <1>3

\* Once the request is done the tenant has none.
LEMMA NoneAfter ==
  ASSUME NEW t, NEW r \in Requests, \A o \in Requests : o # r => reqs[o].tenant # t,
         \A o \in Requests : o # r => reqs'[o] = reqs[o], reqs'[r].tenant # t
  PROVE  /\ ~Reserving(t)' /\ ~Releasing(t)'
         /\ Settling(t)' => Apart(t)'
<1>1. \A o \in Requests : reqs'[o].tenant # t
  OBVIOUS
<1>2. ~Reserving(t)' /\ ~Releasing(t)'
  BY <1>1 DEF Reserving, Releasing
<1>3. ASSUME Settling(t)' PROVE Apart(t)'
  BY <1>1, <1>3 DEF Apart
<1> QED  BY <1>2, <1>3

\* The request goes on at pc, and keeps everything it read.
Keeps(r, pc) ==
    /\ \A o \in Requests : o # r => reqs'[o] = reqs[o]
    /\ reqs'[r].pc = pc /\ reqs'[r].tenant = reqs[r].tenant /\ reqs'[r].host = reqs[r].host
    /\ reqs'[r].size = reqs[r].size /\ reqs'[r].action = reqs[r].action

\* So does Goto.
LEMMA GotoKeeps ==
  ASSUME ReqsOK, NEW r \in Requests, NEW pc, Goto(r, pc)
  PROVE  Keeps(r, pc)
<1>1. reqs[r] \in Request  BY DEF ReqsOK
<1>2. reqs' = [reqs EXCEPT ![r] = [reqs[r] EXCEPT !.pc = pc]]  BY DEF Goto
<1> DEFINE q == [reqs[r] EXCEPT !.pc = pc]
<1>3. /\ q.pc = pc /\ q.tenant = reqs[r].tenant /\ q.host = reqs[r].host
      /\ q.size = reqs[r].size /\ q.action = reqs[r].action
  BY <1>1 DEF Request
<1> HIDE DEF q
<1>4. reqs'[r] = q /\ \A o \in Requests : o # r => reqs'[o] = reqs[o]
  BY <1>2 DEF ReqsOK, q
<1> QED  BY <1>3, <1>4 DEF Keeps

\* A request that is done leaves the others and holds no tenant.
LEMMA DoneLeaves ==
  ASSUME ReqsOK, NEW r \in Requests, Done(r)
  PROVE  /\ \A o \in Requests : o # r => reqs'[o] = reqs[o]
         /\ reqs'[r] = Idle /\ \A t \in Tenants : reqs'[r].tenant # t
<1>1. Becomes(r, Idle)  BY DoneMoves
<1>2. Idle.tenant = NoTenant  BY DEF Idle
<1> QED  BY <1>1, <1>2, NoTenantAssumption DEF Becomes

-----------------------------------------------------------------------------
\* The rows and commands of every tenant but t stay.
OnlyRow(t) ==
    \A u \in Tenants \ {t} :
        /\ status'[u] = status[u] /\ assigned'[u] = assigned[u] /\ limits'[u] = limits[u]
        /\ CommandsFor(u)' = CommandsFor(u)
        /\ \A c \in CommandsFor(u) : cmds'[c] = cmds[c]

\* A command that joins the others is its tenant's alone.
LEMMA JoinedFor ==
  ASSUME NEW h, NEW t, NEW ty, Joined(h, t, ty), NEW u, u # t
  PROVE  CommandsFor(u)' = CommandsFor(u) /\ \A c \in CommandsFor(u) : cmds'[c] = cmds[c]
<1>1. PICK n \in Nat \ DOMAIN cmds :
        /\ DOMAIN cmds' = DOMAIN cmds \cup {n}
        /\ \A c \in DOMAIN cmds : cmds'[c] = cmds[c]
        /\ cmds'[n].tenant = t
  BY DEF Joined
<1> QED  BY <1>1 DEF CommandsFor

\* It is open, and what else its tenant has stays.
LEMMA JoinedOpens ==
  ASSUME NEW h, NEW t, NEW ty, Joined(h, t, ty)
  PROVE  \E n \in Nat \ DOMAIN cmds :
            /\ Opens(t)' = Opens(t) \cup {n}
            /\ cmds'[n].type = ty
            /\ \A c \in Opens(t) : cmds'[c] = cmds[c]
<1>1. PICK n \in Nat \ DOMAIN cmds :
        /\ DOMAIN cmds' = DOMAIN cmds \cup {n}
        /\ \A c \in DOMAIN cmds : cmds'[c] = cmds[c]
        /\ cmds'[n].tenant = t /\ cmds'[n].type = ty /\ cmds'[n].status = "queued"
  BY DEF Joined
<1>2. Opens(t)' = Opens(t) \cup {n}
  BY <1>1 DEF Opens, CommandsFor, Open
<1>3. \A c \in Opens(t) : cmds'[c] = cmds[c]
  BY <1>1 DEF Opens, CommandsFor
<1> QED  BY <1>1, <1>2, <1>3

\* The statements of a request change the row and the commands of its tenant only.
LEMMA StatementRow ==
  ASSUME TypeInv, NEW r \in Requests, RequestStep(r)
  PROVE  /\ reqs[r].tenant \in Tenants
         /\ OnlyRow(reqs[r].tenant)
<1> DEFINE t == reqs[r].tenant
<1>0. ~At(r, "idle") => t \in Tenants
  BY DEF TypeInv, ReqsOK, WellFormed, At
<1>1. CASE InsertTenant(r)
  <2>1. t \in Tenants /\ UNCHANGED <<assigned, cmds>>
    BY <1>0, <1>1 DEF InsertTenant, At
  <2>2. \A u \in Tenants \ {t} : status'[u] = status[u] /\ limits'[u] = limits[u]
    BY <1>1 DEF InsertTenant, TypeInv, RowsOK
  <2> QED  BY <2>1, <2>2 DEF OnlyRow, CommandsFor
<1>2. CASE SelectHost(r) \/ Provision(r) \/ ReserveCapacity(r) \/ RecordBackup(r) \/ ReleaseCapacity(r)
  <2>1. UNCHANGED <<status, assigned, limits, cmds>> /\ ~At(r, "idle")
    BY <1>2 DEF SelectHost, Provision, ReserveCapacity, RecordBackup, ReleaseCapacity, At
  <2> QED  BY <1>0, <2>1 DEF OnlyRow, CommandsFor
<1>3. CASE GiveUp(r) \/ AssignHost(r) \/ SetStatus(r)
  <2>1. ~At(r, "idle") /\ UNCHANGED <<limits, cmds>>
    BY <1>3 DEF GiveUp, AssignHost, SetStatus, At
  <2>2. \A u \in Tenants \ {t} : status'[u] = status[u] /\ assigned'[u] = assigned[u]
    BY <1>3 DEF GiveUp, AssignHost, SetStatus, TypeInv, RowsOK
  <2> QED  BY <1>0, <2>1, <2>2 DEF OnlyRow, CommandsFor
<1>4. CASE EnqueueCreate(r) \/ EnqueueAction(r)
  <2>1. ~At(r, "idle") /\ UNCHANGED <<limits, assigned, status>>
    BY <1>4 DEF EnqueueCreate, EnqueueAction, At
  <2>2. \E ty : Joined(reqs[r].host, t, ty)
    BY <1>4, CreateJoins, ActionJoins
  <2>3. \A u \in Tenants \ {t} :
          CommandsFor(u)' = CommandsFor(u) /\ \A c \in CommandsFor(u) : cmds'[c] = cmds[c]
    BY <2>2, JoinedFor
  <2> QED  BY <1>0, <2>1, <2>3 DEF OnlyRow
<1> QED  BY <1>1, <1>2, <1>3, <1>4 DEF RequestStep

\* A statement is of a request that goes on with its tenant or is done.
LEMMA StatementRequest ==
  ASSUME TypeInv, NEW r \in Requests, RequestStep(r)
  PROVE  /\ \A o \in Requests : o # r => reqs'[o] = reqs[o]
         /\ reqs'[r].tenant = reqs[r].tenant \/ (\A t \in Tenants : reqs'[r].tenant # t)
<1>0. ReqsOK  BY DEF TypeInv
<1>1. ASSUME NEW pc, Goto(r, pc)
      PROVE  /\ \A o \in Requests : o # r => reqs'[o] = reqs[o]
             /\ reqs'[r].tenant = reqs[r].tenant
  BY <1>0, <1>1, GotoKeeps DEF Keeps
<1>2. ASSUME Done(r)
      PROVE  /\ \A o \in Requests : o # r => reqs'[o] = reqs[o]
             /\ \A t \in Tenants : reqs'[r].tenant # t
  BY <1>0, <1>2, DoneLeaves
<1>3. CASE SelectHost(r)
  BY <1>0, <1>3, SelectMoves
<1>4. CASE ~SelectHost(r)
  <2>1. (\E pc : Goto(r, pc)) \/ Done(r)
    BY <1>4 DEF RequestStep, InsertTenant, GiveUp, Provision, AssignHost, ReserveCapacity,
         EnqueueCreate, EnqueueAction, RecordBackup, SetStatus, ReleaseCapacity
  <2> QED  BY <1>1, <1>2, <2>1
<1> QED  BY <1>3, <1>4

\* Nothing happens to the other tenants in a statement of a request.
LEMMA StatementTouchesOne ==
  ASSUME TypeInv, NEW r \in Requests, RequestStep(r), NEW u \in Tenants, u # reqs[r].tenant
  PROVE  Untouched(u)
<1>1. \A o \in Requests : o # r => reqs'[o] = reqs[o]
  BY StatementRequest
<1>2. reqs'[r].tenant # u
  BY StatementRequest
<1>3. \A o \in Requests : reqs[o].tenant = u \/ reqs'[o].tenant = u => reqs'[o] = reqs[o]
  BY <1>1, <1>2
<1> QED  BY <1>3, StatementRow DEF OnlyRow, Untouched

-----------------------------------------------------------------------------
(***************************************************************************)
(* What a statement does to its own tenant.                                *)
(***************************************************************************)

\* A request is the only one of its tenant, and knows it.
LEMMA Serving ==
  ASSUME TypeInv, \A t \in Tenants : Apart(t), NEW r \in Requests, RequestStep(r),
         NEW t \in Tenants, t = reqs[r].tenant
  PROVE  /\ Serves(r, t) /\ Settling(t)
         /\ \A o \in Requests : o # r => reqs[o].tenant # t
         /\ \A o \in Requests : o # r => reqs'[o] = reqs[o]
         /\ Reserving(t) <=> At(r, "reserve")
         /\ Releasing(t) <=> /\ reqs[r].pc \in ActionPc
                                          /\ reqs[r].action = "delete" /\ reqs[r].host # NoHost
<1>2. Apart(t)
  OBVIOUS
<1>3. Serves(r, t) /\ Settling(t)
  BY <1>2 DEF Apart
<1> QED  BY <1>2, <1>3, OnlyRequest, StatementRequest

\* A tenant without commands stays without, while none is enqueued.
LEMMA NoCommandsStay ==
  ASSUME NEW t, CommandsFor(t) = {}, cmds' = cmds
  PROVE  CommandsFor(t)' = {} /\ Opens(t)' = {} /\ Settling(t)'
<1>1. CommandsFor(t)' = {}  BY DEF CommandsFor
<1>2. Opens(t)' = {}  BY <1>1 DEF Opens
<1> QED  BY <1>1, <1>2 DEF Settling

\* The insert is of a tenant that has no host yet.
LEMMA InsertKeepsRoom ==
  ASSUME TypeInv, Followed, \A t \in Tenants : Apart(t), NEW r \in Requests, InsertTenant(r),
         NEW t \in Tenants, t = reqs[r].tenant
  PROVE  KeepsRoom(t)
<1>0. /\ Serves(r, t) /\ Settling(t)
      /\ \A o \in Requests : o # r => reqs[o].tenant # t
      /\ \A o \in Requests : o # r => reqs'[o] = reqs[o]
      /\ ~Reserving(t) /\ ~Releasing(t)
  BY Serving DEF RequestStep, InsertTenant, At, ActionPc
<1>a. At(r, "insert") /\ assigned' = assigned /\ cmds' = cmds
  BY DEF InsertTenant
<1>1. CommandsFor(t) = {} /\ status[t] # "deleted"
  BY <1>0, <1>a DEF Serves, At, CreatePc
<1>b. CommandsFor(t)' = {} /\ Settling(t)'
  BY <1>a, <1>1, NoCommandsStay
<1>2. CASE Goto(r, "select") /\ status[t] = "absent"
  <2>1. Keeps(r, "select")
    BY <1>2, GotoKeeps DEF TypeInv
  <2>2. status'[t] = "pending" /\ limits'[t] = reqs[r].size
    BY <1>0, <1>2 DEF InsertTenant, TypeInv, RowsOK
  <2>3. \A h \in Hosts : assigned[t] # h
    BY <1>0, <1>2, ServiceAssumption DEF Followed
  <2>4. /\ ~Reserving(t)' /\ ~Releasing(t)'
        /\ Serves(r, t)' /\ Settling(t)' => Apart(t)'
    BY <1>0, <2>1, OnlyAfter DEF Keeps, At, ActionPc
  <2>5. Serves(r, t)'
    BY <1>b, <2>1, <2>2 DEF Keeps, Serves, At, ActionPc
  <2> QED  BY <1>a, <1>b, <2>3, <2>4, <2>5 DEF KeepsRoom, Counts
<1>3. CASE Done(r) /\ UNCHANGED <<status, limits>>
  <2>1. reqs'[r].tenant # t
    BY <1>0, <1>3, DoneLeaves DEF TypeInv
  <2>2. /\ ~Reserving(t)' /\ ~Releasing(t)'
        /\ Settling(t)' => Apart(t)'
    BY <1>0, <2>1, NoneAfter
  <2> QED  BY <1>0, <1>a, <1>b, <1>3, <2>2 DEF KeepsRoom, Counts
<1> QED  BY <1>2, <1>3 DEF InsertTenant

\* Before the assignment a creation takes no room, and it ends without one.
LEMMA CreationKeepsRoom ==
  ASSUME TypeInv, Followed, \A t \in Tenants : Apart(t), NEW r \in Requests,
         NEW t \in Tenants, t = reqs[r].tenant, SelectHost(r) \/ GiveUp(r) \/ Provision(r)
  PROVE  KeepsRoom(t)
<1>0. /\ Serves(r, t)
      /\ \A o \in Requests : o # r => reqs[o].tenant # t
      /\ \A o \in Requests : o # r => reqs'[o] = reqs[o]
  BY Serving DEF RequestStep
<1>1. /\ reqs[r].pc \in {"select", "giveUp", "provision"}
      /\ assigned' = assigned /\ cmds' = cmds /\ limits' = limits
  BY DEF SelectHost, GiveUp, Provision, At
<1>2. CommandsFor(t) = {} /\ status[t] # "deleted" /\ reqs[r].size = limits[t]
  BY <1>0, <1>1 DEF Serves, At, CreatePc
<1>3. \A h \in Hosts : assigned[t] # h
  BY <1>1, ServiceAssumption DEF Followed, Unassigned
<1>4. status'[t] # "deleted"
  BY <1>0, <1>2 DEF SelectHost, GiveUp, Provision, TypeInv, RowsOK
<1>5. CommandsFor(t)' = {} /\ Settling(t)'
  BY <1>1, <1>2, NoCommandsStay
<1>6. ASSUME Done(r) PROVE Apart(t)'
  <2>1. reqs'[r].tenant # t
    BY <1>0, <1>6, DoneLeaves DEF TypeInv
  <2> QED  BY <1>0, <1>5, <2>1, NoneAfter
<1>7. ASSUME reqs'[r].tenant = t, reqs'[r].size = reqs[r].size,
             reqs'[r].pc \in {"giveUp", "provision", "assign"}
      PROVE  Apart(t)'
  <2>1. Serves(r, t)'
    BY <1>1, <1>2, <1>4, <1>5, <1>7 DEF Serves, At, ActionPc
  <2> QED  BY <1>0, <1>5, <1>7, <2>1, OnlyAfter
<1>8. ASSUME NEW pc \in {"giveUp", "provision", "assign"}, Goto(r, pc) PROVE Apart(t)'
  BY <1>7, <1>8, GotoKeeps DEF Keeps, TypeInv
<1>9. ASSUME NEW h, reqs' = [reqs EXCEPT ![r].pc = "provision", ![r].host = h] PROVE Apart(t)'
  <2>1. /\ reqs'[r].tenant = t /\ reqs'[r].size = reqs[r].size /\ reqs'[r].pc = "provision"
    BY <1>9 DEF TypeInv, ReqsOK, Request
  <2> QED  BY <1>7, <2>1
<1>10. Apart(t)'
  BY <1>6, <1>8, <1>9 DEF SelectHost, GiveUp, Provision
<1> QED  BY <1>1, <1>3, <1>10 DEF KeepsRoom, Counts

\* The assignment takes no room yet.
LEMMA AssignKeepsRoom ==
  ASSUME TypeInv, Followed, \A t \in Tenants : Apart(t), NEW r \in Requests, AssignHost(r),
         NEW t \in Tenants, t = reqs[r].tenant
  PROVE  KeepsRoom(t)
<1>0. /\ Serves(r, t)
      /\ \A o \in Requests : o # r => reqs[o].tenant # t
      /\ \A o \in Requests : o # r => reqs'[o] = reqs[o]
  BY Serving DEF RequestStep
<1>a. At(r, "assign") /\ cmds' = cmds /\ limits' = limits
  BY DEF AssignHost
<1>1. CommandsFor(t) = {} /\ reqs[r].size = limits[t]
  BY <1>0, <1>a DEF Serves, At, CreatePc
<1>b. CommandsFor(t)' = {} /\ Settling(t)'
  BY <1>a, <1>1, NoCommandsStay
<1>2. \A h \in Hosts : assigned[t] # h
  BY <1>a, ServiceAssumption DEF Followed, Unassigned, At
<1>3. status'[t] = "provisioning"
  BY <1>0 DEF AssignHost, TypeInv, RowsOK
<1>4. Keeps(r, "reserve")
  BY GotoKeeps DEF AssignHost, TypeInv
<1>5. Serves(r, t)'
  BY <1>a, <1>b, <1>1, <1>3, <1>4 DEF Keeps, Serves, At, ActionPc
<1>6. Apart(t)' /\ Reserving(t)'
  BY <1>0, <1>b, <1>4, <1>5, OnlyAfter DEF Keeps, At
<1> QED  BY <1>2, <1>6 DEF KeepsRoom, Counts

\* The reservation takes the room of the host it assigned.
LEMMA ReserveTakesRoom ==
  ASSUME TypeInv, Followed, \A t \in Tenants : Apart(t), NEW r \in Requests, ReserveCapacity(r),
         NEW t \in Tenants, t = reqs[r].tenant
  PROVE  /\ Apart(t)'
         /\ limits' = limits /\ reqs[r].size = limits[t]
         /\ \A h \in Hosts : /\ ~Counts(t, h)
                             /\ Counts(t, h)' <=> h = reqs[r].host
<1>z. RequestStep(r) /\ At(r, "reserve")
  BY DEF RequestStep, ReserveCapacity
<1>0. /\ Serves(r, t) /\ Reserving(t)
      /\ \A o \in Requests : o # r => reqs[o].tenant # t
      /\ \A o \in Requests : o # r => reqs'[o] = reqs[o]
  BY <1>z, Serving
<1>a. /\ At(r, "reserve") /\ cmds' = cmds /\ limits' = limits /\ status' = status
      /\ assigned' = assigned
  BY DEF ReserveCapacity
<1>1. CommandsFor(t) = {} /\ reqs[r].size = limits[t] /\ status[t] # "deleted"
  BY <1>0, <1>a DEF Serves, At, CreatePc
<1>b. CommandsFor(t)' = {} /\ Settling(t)'
  BY <1>a, <1>1, NoCommandsStay
<1>2. assigned[t] = reqs[r].host
  BY <1>a DEF Followed, Assigned, At
<1>3. Keeps(r, "enqueue")
  BY GotoKeeps DEF ReserveCapacity, TypeInv
<1>4. Serves(r, t)'
  BY <1>a, <1>b, <1>1, <1>3 DEF Keeps, Serves, At, ActionPc
<1>5. Apart(t)' /\ ~Reserving(t)'
  BY <1>0, <1>b, <1>3, <1>4, OnlyAfter DEF Keeps, At
<1> QED  BY <1>0, <1>a, <1>1, <1>2, <1>5 DEF Counts

-----------------------------------------------------------------------------
\* The command of an action is a delete_tenant when the action is a delete, and else not.
LEMMA DeletesOnly ==
  ASSUME NEW a \in TenantAction
  PROVE  CommandOf[a] = "delete_tenant" <=> a = "delete"
  BY SMT DEF TenantAction, CommandOf

\* The creation ends with its command in the queue; it has its room already.
LEMMA CreateKeepsRoom ==
  ASSUME TypeInv, \A t \in Tenants : Apart(t), NEW r \in Requests, EnqueueCreate(r),
         NEW t \in Tenants, t = reqs[r].tenant
  PROVE  KeepsRoom(t)
<1>0. /\ Serves(r, t) /\ ~Reserving(t) /\ ~Releasing(t)
      /\ \A o \in Requests : o # r => reqs[o].tenant # t
      /\ \A o \in Requests : o # r => reqs'[o] = reqs[o]
  BY Serving DEF RequestStep, EnqueueCreate, At, ActionPc
<1>a. At(r, "enqueue") /\ status' = status /\ assigned' = assigned /\ limits' = limits
  BY DEF EnqueueCreate
<1>1. CommandsFor(t) = {} /\ status[t] # "deleted"
  BY <1>0, <1>a DEF Serves, At, CreatePc
<1>2. Joined(reqs[r].host, t, "create_tenant")
  BY CreateJoins
<1>3. PICK n \in Nat \ DOMAIN cmds : Opens(t)' = Opens(t) \cup {n} /\ cmds'[n].type = "create_tenant"
  BY <1>2, JoinedOpens
<1>4. Opens(t)' = {n}
  BY <1>1, <1>3 DEF Opens
<1>5. Settling(t)'
  BY <1>1, <1>3, <1>4, <1>a DEF Settling
<1>6. reqs'[r].tenant # t
  BY DoneLeaves DEF TypeInv, EnqueueCreate
<1>7. Apart(t)' /\ ~Reserving(t)' /\ ~Releasing(t)'
  BY <1>0, <1>5, <1>6, NoneAfter
<1> QED  BY <1>0, <1>a, <1>7 DEF KeepsRoom, Counts

\* The command of an action is its tenant's only open one.
LEMMA ActionKeepsRoom ==
  ASSUME TypeInv, \A t \in Tenants : Apart(t), NEW r \in Requests, EnqueueAction(r),
         NEW t \in Tenants, t = reqs[r].tenant
  PROVE  KeepsRoom(t)
<1> DEFINE a == reqs[r].action
<1>0. /\ Serves(r, t) /\ ~Reserving(t)
      /\ Releasing(t) <=> reqs[r].pc \in ActionPc /\ a = "delete" /\ reqs[r].host # NoHost
      /\ \A o \in Requests : o # r => reqs[o].tenant # t
      /\ \A o \in Requests : o # r => reqs'[o] = reqs[o]
  BY Serving DEF RequestStep, EnqueueAction, At
<1>a. At(r, "command") /\ status' = status /\ assigned' = assigned /\ limits' = limits
  BY DEF EnqueueAction
<1>b. a \in TenantAction /\ reqs[r].host \in Hosts
  BY <1>a DEF TypeInv, ReqsOK, WellFormed, At, ActionPc, NeedsHost
<1>1. /\ Opens(t) = {} /\ (status[t] = "deleted" => a = "delete") /\ reqs[r].size = limits[t]
      /\ reqs[r].host = assigned[t]
  BY <1>0, <1>a DEF Serves, At, ActionPc
<1>2. Joined(reqs[r].host, t, CommandOf[a])
  <2>1. CommandOf[a] \in CommandType /\ "slug" \in Payload
    BY <1>b, CommandOfType DEF Payload
  <2>2. cmds' = Append(cmds, QueuedRow(reqs[r].host, t, CommandOf[a], "slug"))
    BY DEF EnqueueAction
  <2> QED  BY <1>b, <2>1, <2>2, EnqueueJoins DEF TypeInv
<1>3. PICK n \in Nat \ DOMAIN cmds : Opens(t)' = Opens(t) \cup {n} /\ cmds'[n].type = CommandOf[a]
  BY <1>2, JoinedOpens
<1>4. Opens(t)' = {n}
  BY <1>1, <1>3
<1>5. PICK pc \in {"backup", "status"} : Keeps(r, pc)
  BY GotoKeeps DEF TypeInv, EnqueueAction
<1>6. Serves(r, t)'
  BY <1>1, <1>3, <1>4, <1>5, <1>a DEF Keeps, Serves, At, ActionPc, CreatePc
<1>7. /\ ~Reserving(t)' /\ (Releasing(t)' <=> a = "delete" /\ reqs[r].host # NoHost)
      /\ Settling(t)' => Apart(t)'
  BY <1>0, <1>5, <1>6, OnlyAfter DEF Keeps, At, ActionPc
<1>8. NoHost \notin Hosts
  BY ServiceAssumption
<1>9. Settling(t)'
  BY <1>1, <1>3, <1>4, <1>7, <1>8, <1>a, <1>b, DeletesOnly DEF Settling
<1> QED  BY <1>0, <1>7, <1>9, <1>a DEF KeepsRoom, Counts, At, ActionPc

\* The backup row is nobody's room.
LEMMA BackupKeepsRoom ==
  ASSUME TypeInv, \A t \in Tenants : Apart(t), NEW r \in Requests, RecordBackup(r),
         NEW t \in Tenants, t = reqs[r].tenant
  PROVE  KeepsRoom(t)
<1>0. /\ Serves(r, t) /\ Settling(t) /\ ~Reserving(t)
      /\ Releasing(t) <=> /\ reqs[r].pc \in ActionPc
                          /\ reqs[r].action = "delete" /\ reqs[r].host # NoHost
      /\ \A o \in Requests : o # r => reqs[o].tenant # t
      /\ \A o \in Requests : o # r => reqs'[o] = reqs[o]
  BY Serving DEF RequestStep, RecordBackup, At
<1>a. /\ At(r, "backup") /\ status' = status /\ assigned' = assigned /\ limits' = limits
      /\ cmds' = cmds
  BY DEF RecordBackup
<1>1. Opens(t)' = Opens(t) /\ \A c \in Opens(t) : cmds'[c] = cmds[c]
  BY <1>a DEF Opens, CommandsFor
<1>2. Keeps(r, "status")
  BY GotoKeeps DEF TypeInv, RecordBackup
<1>3. Serves(r, t)'
  BY <1>0, <1>1, <1>2, <1>a DEF Keeps, Serves, At, ActionPc, CreatePc
<1>4. /\ ~Reserving(t)' /\ (Releasing(t)' <=> Releasing(t))
      /\ Settling(t)' => Apart(t)'
  BY <1>0, <1>2, <1>3, <1>a, OnlyAfter DEF Keeps, At, ActionPc
<1>5. Settling(t)'
  BY <1>0, <1>1, <1>4, <1>a DEF Settling
<1> QED  BY <1>0, <1>4, <1>5, <1>a DEF KeepsRoom, Counts

\* A delete marks the tenant and keeps its room a while; any other action keeps it.
LEMMA StatusKeepsRoom ==
  ASSUME TypeInv, \A t \in Tenants : Apart(t), NEW r \in Requests, SetStatus(r),
         NEW t \in Tenants, t = reqs[r].tenant
  PROVE  KeepsRoom(t)
<1> DEFINE a == reqs[r].action
<1>0. /\ Serves(r, t) /\ Settling(t) /\ ~Reserving(t)
      /\ Releasing(t) <=> reqs[r].pc \in ActionPc /\ a = "delete" /\ reqs[r].host # NoHost
      /\ \A o \in Requests : o # r => reqs[o].tenant # t
      /\ \A o \in Requests : o # r => reqs'[o] = reqs[o]
  BY Serving DEF RequestStep, SetStatus, At
<1>a. At(r, "status") /\ assigned' = assigned /\ limits' = limits /\ cmds' = cmds
  BY DEF SetStatus
<1>b. a \in TenantAction
  BY <1>a DEF TypeInv, ReqsOK, WellFormed, At, ActionPc
<1>1. /\ (status[t] = "deleted" => a = "delete") /\ reqs[r].size = limits[t]
      /\ reqs[r].host = assigned[t]
      /\ \A c \in Opens(t) : cmds[c].type = CommandOf[a]
  BY <1>0, <1>a DEF Serves, At, ActionPc
<1>2. Opens(t)' = Opens(t) /\ \A c \in Opens(t) : cmds'[c] = cmds[c]
  BY <1>a DEF Opens, CommandsFor
<1>3. status'[t] = "deleted" <=> a = "delete"
  <2>1. status'[t] = StatusAfter(a, status[t])
    BY DEF SetStatus, TypeInv, RowsOK
  <2>2. a # "delete" => StatusAfter(a, status[t]) # "deleted"
    BY <1>1 DEF StatusAfter
  <2>3. a = "delete" => StatusAfter(a, status[t]) = "deleted"
    BY DEF StatusAfter
  <2> QED  BY <2>1, <2>2, <2>3
<1>4. Settling(t)'
  <2>1. \A c \in Opens(t) : cmds[c].type = "delete_tenant" <=> a = "delete"
    BY <1>1, <1>b, DeletesOnly
  <2>2. \A c, d \in Opens(t) : c = d
    BY <1>0 DEF Settling
  <2> QED  BY <1>2, <1>3, <2>1, <2>2 DEF Settling
<1>5. CASE a = "delete" /\ reqs[r].host # NoHost
  <2>1. Keeps(r, "release")
    BY <1>5, GotoKeeps DEF TypeInv, SetStatus, Releases
  <2>2. Serves(r, t)'
    BY <1>1, <1>2, <1>3, <1>5, <1>a, <2>1 DEF Keeps, Serves, At, ActionPc, CreatePc
  <2>3. ~Reserving(t)' /\ Releasing(t)' /\ Apart(t)'
    BY <1>0, <1>4, <1>5, <2>1, <2>2, OnlyAfter DEF Keeps, At, ActionPc
  <2>4. Releasing(t)
    BY <1>0, <1>5, <1>a DEF At, ActionPc
  <2> QED  BY <1>0, <1>a, <2>3, <2>4 DEF KeepsRoom, Counts
<1>6. CASE ~(a = "delete" /\ reqs[r].host # NoHost)
  <2>1. reqs'[r].tenant # t
    BY <1>6, DoneLeaves DEF TypeInv, SetStatus, Releases
  <2>2. ~Reserving(t)' /\ ~Releasing(t)' /\ Apart(t)'
    BY <1>0, <1>4, <2>1, NoneAfter
  <2>3. ~Releasing(t)
    BY <1>0, <1>6
  <2>4. a = "delete" => \A h \in Hosts : assigned[t] # h
    BY <1>1, <1>6, ServiceAssumption
  <2> QED  BY <1>0, <1>1, <1>3, <1>a, <2>2, <2>3, <2>4 DEF KeepsRoom, Counts
<1> QED  BY <1>5, <1>6

\* The release gives back the room of the host, which was still taken.
LEMMA ReleaseLeavesRoom ==
  ASSUME TypeInv, \A t \in Tenants : Apart(t), NEW r \in Requests, ReleaseCapacity(r),
         NEW t \in Tenants, t = reqs[r].tenant
  PROVE  /\ Apart(t)'
         /\ limits' = limits /\ reqs[r].size = limits[t]
         /\ \A h \in Hosts : /\ Counts(t, h) <=> h = reqs[r].host
                             /\ ~Counts(t, h)'
<1>0. /\ Serves(r, t) /\ Settling(t) /\ ~Reserving(t)
      /\ Releasing(t) <=> /\ reqs[r].pc \in ActionPc
                          /\ reqs[r].action = "delete" /\ reqs[r].host # NoHost
      /\ \A o \in Requests : o # r => reqs[o].tenant # t
      /\ \A o \in Requests : o # r => reqs'[o] = reqs[o]
  BY Serving DEF RequestStep, ReleaseCapacity, At
<1>a. /\ At(r, "release") /\ status' = status /\ assigned' = assigned /\ limits' = limits
      /\ cmds' = cmds
  BY DEF ReleaseCapacity
<1>b. reqs[r].host \in Hosts /\ NoHost \notin Hosts
  BY <1>a, ServiceAssumption DEF TypeInv, ReqsOK, WellFormed, At, NeedsHost
<1>1. /\ status[t] = "deleted" /\ reqs[r].action = "delete" /\ reqs[r].size = limits[t]
      /\ reqs[r].host = assigned[t]
  BY <1>0, <1>a DEF Serves, At, ActionPc
<1>2. Opens(t)' = Opens(t) /\ \A c \in Opens(t) : cmds'[c] = cmds[c]
  BY <1>a DEF Opens, CommandsFor
<1>3. Settling(t)'
  BY <1>0, <1>1, <1>2, <1>a DEF Settling
<1>4. reqs'[r].tenant # t
  BY DoneLeaves DEF TypeInv, ReleaseCapacity
<1>5. Apart(t)' /\ ~Releasing(t)'
  BY <1>0, <1>3, <1>4, NoneAfter
<1>6. Releasing(t)
  BY <1>0, <1>1, <1>a, <1>b DEF At, ActionPc
<1> QED  BY <1>0, <1>1, <1>5, <1>6, <1>a DEF Counts

-----------------------------------------------------------------------------
\* The rows and the commands of all tenants stay.
SameRows == UNCHANGED <<status, assigned, limits, cmds>>

\* A request that begins is of a tenant that had none, and the others notice nothing.
LEMMA BeginTouchesOne ==
  ASSUME \A t \in Tenants : Apart(t), NEW r \in Requests, At(r, "idle"), SameRows,
         \A o \in Requests : o # r => reqs'[o] = reqs[o],
         NEW t \in Tenants, reqs'[r].tenant = t, NEW u \in Tenants, u # t
  PROVE  Untouched(u)
<1>1. reqs[r].tenant # u
  BY DEF Apart, Serves
<1> QED  BY <1>1 DEF Untouched, SameRows, CommandsFor

\* A creation begins with a tenant without a row, hence without commands.
LEMMA BeginCreateKeepsRoom ==
  ASSUME TypeInv, RowExists, Orderly, \A t \in Tenants : Apart(t), NEW r \in Requests,
         NEW t \in Tenants, NEW size \in Sizes, NEW auto \in BOOLEAN,
         NEW h \in Hosts \cup {NoHost}, BeginCreate(r, t, size, auto, h)
  PROVE  /\ KeepsRoom(t)
         /\ \A u \in Tenants : u # t => Untouched(u)
<1>1. /\ \A o \in Requests : o # r => reqs'[o] = reqs[o]
      /\ reqs'[r].pc = "insert" /\ reqs'[r].tenant = t
      /\ At(r, "idle")
  BY CreateBegins
<1>2. SameRows /\ status[t] = "absent"
  BY DEF BeginCreate, SameRows
<1>3. \A o \in Requests : reqs[o].tenant # t
  <2>1. [Idle EXCEPT !.pc = "insert", !.tenant = t, !.host = h, !.size = size, !.auto = auto].tenant = t
    BY DEF Idle
  <2> QED  BY <2>1 DEF BeginCreate, Begin, Orderly
<1>4. CommandsFor(t) = {} /\ CommandsFor(t)' = {}
  BY <1>2 DEF CommandsFor, RowExists, SameRows
<1>5. Opens(t)' = {} /\ Settling(t)'
  BY <1>4 DEF Opens, Settling
<1>6. Serves(r, t)'
  BY <1>1, <1>2, <1>4 DEF Serves, At, ActionPc, SameRows
<1>7. ~Reserving(t)' /\ ~Releasing(t)' /\ Apart(t)'
  BY <1>1, <1>3, <1>5, <1>6, OnlyAfter DEF At, ActionPc
<1>8. ~Reserving(t) /\ ~Releasing(t)
  BY <1>3 DEF Reserving, Releasing
<1>9. KeepsRoom(t)
  BY <1>2, <1>7, <1>8 DEF KeepsRoom, Counts, SameRows
<1>10. \A u \in Tenants : u # t => Untouched(u)
  BY <1>1, <1>2, BeginTouchesOne
<1> QED  BY <1>9, <1>10

\* An action begins with what the row of a tenant says that is not deleted and
\* has no open command.
LEMMA BeginActionKeepsRoom ==
  ASSUME TypeInv, Orderly, \A t \in Tenants : Apart(t), NEW r \in Requests,
         NEW t \in Tenants, NEW a \in Actions, BeginAction(r, t, a)
  PROVE  /\ KeepsRoom(t)
         /\ \A u \in Tenants : u # t => Untouched(u)
<1>1. /\ \A o \in Requests : o # r => reqs'[o] = reqs[o]
      /\ reqs'[r].pc \in {"status", "command"}
      /\ reqs'[r].tenant = t /\ reqs'[r].host = assigned[t]
      /\ reqs'[r].size = limits[t] /\ reqs'[r].action = a
      /\ At(r, "idle")
  BY ActionBegins
<1>2. SameRows /\ status[t] # "deleted"
  BY DEF BeginAction, SameRows, Orderly
<1>3. \A o \in Requests : reqs[o].tenant # t
  <2> DEFINE q == [Idle EXCEPT !.pc = IF assigned[t] = NoHost THEN "status" ELSE "command",
                               !.tenant = t, !.host = assigned[t], !.size = limits[t],
                               !.action = a]
  <2>1. q.tenant = t
    BY DEF Idle
  <2>2. Begin(r, q)
    BY DEF BeginAction
  <2> HIDE DEF q
  <2> QED  BY <2>1, <2>2 DEF Begin, Orderly
<1>4. Opens(t) = {} /\ Opens(t)' = {}
  BY <1>2 DEF BeginAction, Orderly, Opens, CommandsFor, SameRows
<1>5. Settling(t)'
  BY <1>4 DEF Settling
<1>6. Serves(r, t)'
  BY <1>1, <1>2, <1>4 DEF Serves, At, CreatePc, SameRows
<1>7. ~Reserving(t)' /\ Apart(t)'
  BY <1>1, <1>3, <1>5, <1>6, OnlyAfter DEF At
<1>8. ~Reserving(t) /\ ~Releasing(t)
  BY <1>3 DEF Reserving, Releasing
<1>9. KeepsRoom(t)
  BY <1>2, <1>7, <1>8 DEF KeepsRoom, Counts, SameRows
<1>10. \A u \in Tenants : u # t => Untouched(u)
  BY <1>1, <1>2, BeginTouchesOne
<1> QED  BY <1>9, <1>10

\* Only a succeeded delete_tenant deletes a tenant that was not.
LEMMA ReportDeletes ==
  ASSUME NEW ty, NEW s, NEW current
  PROVE  /\ Reconciled(ty, s, current) = "deleted" => current = "deleted" \/ ty = "delete_tenant"
         /\ current = "deleted" /\ ty = "delete_tenant" => Reconciled(ty, s, current) = "deleted"
  BY SMT DEF Reconciled, OnSuccess

\* A report settles its command, and deletes a tenant only whose room is on its way back.
LEMMA ReportKeepsRoom ==
  ASSUME TypeInv, \A t \in Tenants : Apart(t), NEW c \in DOMAIN cmds,
         NEW s \in Completed \cup {"running"}, ReportCommand(c, s)
  PROVE  \A u \in Tenants : KeepsRoom(u)
<1> DEFINE t == cmds[c].tenant
<1>1. Reported(c) /\ t \in Tenants
  BY ReportKeeps DEF TypeInv, ReportCommand
<1>2. /\ assigned' = assigned /\ limits' = limits /\ reqs' = reqs
      /\ status' = [status EXCEPT ![t] = Reconciled(cmds[c].type, s, @)]
      /\ cmds[c].status \in Open
  BY DEF ReportCommand, Open
<1>3. \A u \in Tenants \ {t} : status'[u] = status[u]
  BY <1>2 DEF TypeInv, RowsOK
<1>a. DOMAIN cmds' = DOMAIN cmds
      /\ \A d \in DOMAIN cmds : cmds'[d].tenant = cmds[d].tenant /\ cmds'[d].type = cmds[d].type
  BY <1>1 DEF Reported
<1>b. \A u : CommandsFor(u)' = CommandsFor(u)
  BY <1>a DEF CommandsFor
<1>4. ASSUME NEW u \in Tenants, u # t PROVE KeepsRoom(u)
  <2>1. \A d \in CommandsFor(u) : cmds'[d] = cmds[d]
    BY <1>1, <1>4 DEF CommandsFor, Reported
  <2>2. Untouched(u)
    BY <1>2, <1>3, <1>4, <1>b, <2>1 DEF Untouched
  <2> QED  BY <2>2, UntouchedKeeps
<1>5. ASSUME NEW u \in Tenants, u = t PROVE KeepsRoom(u)
  <2>1. /\ status'[u] = Reconciled(cmds[c].type, s, status[u])
        /\ c \in Opens(u)
    BY <1>2, <1>5 DEF TypeInv, RowsOK, Opens, CommandsFor
  <2>2. Opens(u)' \subseteq Opens(u)
    <3>1. \A d \in Opens(u)' : d \in DOMAIN cmds /\ cmds[d].tenant = u
      BY <1>a DEF Opens, CommandsFor
    <3>2. \A d \in Opens(u)' : d # c => cmds'[d] = cmds[d]
      BY <1>1, <3>1 DEF Reported
    <3>3. \A d \in Opens(u)' : cmds'[d].status \in Open
      BY DEF Opens
    <3> QED  BY <2>1, <3>1, <3>2, <3>3 DEF Opens, CommandsFor
  <2>3. \A d \in Opens(u)' : cmds'[d].type = cmds[d].type
    BY <1>a, <2>2 DEF Opens, CommandsFor
  <2>4. (Releasing(u)' <=> Releasing(u)) /\ (Reserving(u)' <=> Reserving(u))
    BY <1>2 DEF Releasing, Reserving, At
  <2>5. Apart(u) /\ Settling(u) /\ CommandsFor(u) # {}
    BY <2>1 DEF Apart, Opens
  <2>6. /\ status[u] = "deleted" => status'[u] = "deleted"
        /\ status'[u] = "deleted" => cmds[c].type = "delete_tenant"
        /\ status'[u] = "deleted" => status[u] = "deleted" \/ Releasing(u)
    <3>1. status[u] = "deleted" => cmds[c].type = "delete_tenant"
      BY <2>1, <2>5 DEF Settling
    <3>2. cmds[c].type = "delete_tenant" => status[u] = "deleted" \/ Releasing(u)
      BY <2>1, <2>5 DEF Settling
    <3> QED  BY <2>1, <3>1, <3>2, ReportDeletes
  <2>7. \A d, e \in Opens(u) : d = e
    BY <2>5 DEF Settling
  <2>8. Settling(u)'
    <3>1. \A d, e \in Opens(u)' : d = e
      BY <2>2, <2>7
    <3>2. status'[u] = "deleted" => \A d \in Opens(u)' : cmds'[d].type = "delete_tenant"
      BY <2>1, <2>2, <2>3, <2>6, <2>7
    <3>3. \A d \in Opens(u)' :
            cmds'[d].type = "delete_tenant" => status'[u] = "deleted" \/ Releasing(u)'
      BY <2>2, <2>3, <2>4, <2>5, <2>6 DEF Settling
    <3> QED  BY <3>1, <3>2, <3>3 DEF Settling
  <2>9. ASSUME NEW r \in Requests, reqs'[r].tenant = u PROVE Serves(r, u)'
    <3>1. Serves(r, u) /\ reqs'[r] = reqs[r] /\ WellFormed(reqs[r])
      BY <1>2, <2>5, <2>9 DEF Apart, TypeInv, ReqsOK
    <3>2. reqs[r].pc \notin CreatePc /\ ~At(r, "command")
      BY <2>1, <2>5, <3>1 DEF Serves, At, ActionPc
    <3>3. \A d \in Opens(u)' : reqs[r].pc \in ActionPc => cmds'[d].type = CommandOf[reqs[r].action]
      BY <2>2, <2>3, <3>1 DEF Serves
    <3>4. reqs[r].pc \in ActionPc /\ status'[u] = "deleted" => reqs[r].action = "delete"
      BY <2>1, <2>6, <3>1, DeletesOnly DEF Serves, WellFormed
    <3>5. At(r, "release") => status'[u] = "deleted"
      BY <2>6, <3>1 DEF Serves, At, ActionPc
    <3> QED  BY <1>2, <3>1, <3>2, <3>3, <3>4, <3>5 DEF Serves, At
  <2>10. Apart(u)'
    BY <1>2, <2>5, <2>8, <2>9 DEF Apart
  <2>11. \A h \in Hosts : Counts(u, h)' <=> Counts(u, h)
    BY <1>2, <2>4, <2>6 DEF Counts
  <2> QED  BY <1>2, <2>10, <2>11 DEF KeepsRoom
<1> QED  BY <1>4, <1>5

\* A host that changes or registers again touches no tenant.
LEMMA HostsTouchNone ==
  ASSUME NEW h \in Hosts, ReRegisterHost(h) \/ ChangeHost(h)
  PROVE  \A t \in Tenants : Untouched(t)
  BY DEF ReRegisterHost, ChangeHost, Untouched, CommandsFor

-----------------------------------------------------------------------------
(***************************************************************************)
(* What the pools of a host have given away, and the theorem.              *)
(***************************************************************************)
Limit(k) == [t \in Tenants |-> limits[t][k]]

Counted(h) == {t \in Tenants : Counts(t, h)}

Balanced(h, k) ==
    /\ IsFiniteSet(Units(Counted(h), Limit(k)))
    /\ avail[h][k] = Capacity[k] - Total(Counted(h), Limit(k)) + forgotten[h][k]

Accounts == \A h \in Hosts, k \in Resource : Balanced(h, k)

AllApart == \A t \in Tenants : Apart(t)

\* While every tenant keeps its room, a host that keeps its pools stays balanced.
LEMMA RoomKept ==
  ASSUME AllApart, \A t \in Tenants : KeepsRoom(t),
         NEW h \in Hosts, NEW k \in Resource, Balanced(h, k)
  PROVE  /\ AllApart'
         /\ IsFiniteSet(Units(Counted(h), Limit(k)))'
         /\ Total(Counted(h), Limit(k))' = Total(Counted(h), Limit(k))
<1>1. AllApart'
  BY DEF AllApart, KeepsRoom
<1>2. Counted(h)' = Counted(h)
  BY DEF Counted, KeepsRoom
<1>3. \A t \in Counted(h) : Limit(k)'[t] = Limit(k)[t]
  BY DEF Counted, KeepsRoom, Limit
<1> DEFINE S == Counted(h)
           f == Limit(k)
           g == Limit(k)'
<1>4. Units(S, g) = Units(S, f) /\ Total(S, g) = Total(S, f)
  <2>1. \A t \in S : g[t] = f[t]  BY <1>3
  <2> HIDE DEF S, f, g
  <2> QED  BY <2>1, UnitsSame
<1>5. Units(Counted(h), Limit(k))' = Units(Counted(h), Limit(k))
  BY <1>2, <1>4 DEF Units
<1>6. Total(Counted(h), Limit(k))' = Total(Counted(h), Limit(k))
  BY <1>5 DEF Total
<1> QED  BY <1>1, <1>5, <1>6 DEF Balanced

\* Every host keeps its pools.
SamePools == UNCHANGED <<avail, forgotten>>

\* Where nobody's room changes and no pool does, the accounts go on.
LEMMA NothingTaken ==
  ASSUME AllApart, Accounts, \A t \in Tenants : KeepsRoom(t), SamePools
  PROVE  AllApart' /\ Accounts'
<1>1. AllApart'
  BY DEF AllApart, KeepsRoom
<1>2. ASSUME NEW h \in Hosts, NEW k \in Resource PROVE Balanced(h, k)'
  <2>1. Balanced(h, k)  BY DEF Accounts
  <2>2. /\ IsFiniteSet(Units(Counted(h), Limit(k)))'
        /\ Total(Counted(h), Limit(k))' = Total(Counted(h), Limit(k))
    BY <2>1, RoomKept
  <2> QED  BY <2>1, <2>2 DEF Balanced, SamePools
<1> QED  BY <1>1, <1>2 DEF Accounts

\* The reservation moves the room of its tenant from the pools to the tenant.
LEMMA ReserveBalances ==
  ASSUME TypeInv, Followed, AllApart, Accounts, NEW r \in Requests, ReserveCapacity(r)
  PROVE  AllApart' /\ Accounts'
<1>0. RequestStep(r)
  BY DEF RequestStep
<1>1. PICK t \in Tenants : t = reqs[r].tenant
  BY <1>0, StatementRow
<1>2. /\ Apart(t)' /\ limits' = limits /\ reqs[r].size = limits[t]
      /\ \A h \in Hosts : ~Counts(t, h) /\ (Counts(t, h)' <=> h = reqs[r].host)
  BY <1>1, ReserveTakesRoom DEF AllApart
<1>3. \A u \in Tenants : u # t => KeepsRoom(u)
  BY <1>0, <1>1, StatementTouchesOne, UntouchedKeeps DEF AllApart
<1>4. AllApart'
  BY <1>2, <1>3 DEF AllApart, KeepsRoom
<1>5. ASSUME NEW h \in Hosts, NEW k \in Resource PROVE Balanced(h, k)'
  <2> DEFINE S == Counted(h)
             f == Limit(k)
  <2>1. f[t] = reqs[r].size[k] /\ f[t] \in Nat /\ Limit(k)' = Limit(k)
    BY <1>2 DEF Limit, TypeInv, RowsOK, Size
  <2>2. t \notin S /\ (Counted(h))' = IF h = reqs[r].host THEN S \cup {t} ELSE S
    BY <1>2, <1>3 DEF Counted, KeepsRoom
  <2>3. IsFiniteSet(Units(S, f)) /\ avail[h][k] = Capacity[k] - Total(S, f) + forgotten[h][k]
    BY DEF Accounts, Balanced
  <2>4. /\ forgotten' = forgotten /\ avail \in [Hosts -> [Resource -> Int]]
        /\ avail'[h][k] = IF h = reqs[r].host THEN avail[h][k] - f[t] ELSE avail[h][k]
    BY <2>1 DEF ReserveCapacity, history, Less, TypeInv, RowsOK
  <2>5. avail[h][k] \in Int /\ forgotten[h][k] \in Int /\ Capacity[k] \in Nat
    BY ServiceAssumption DEF TypeInv, RowsOK
  <2> HIDE DEF S, f
  <2>6. Total(S, f) \in Nat
    BY <2>3, UnitsFewer
  <2>7. /\ IsFiniteSet(Units(S \cup {t}, f))
        /\ Total(S \cup {t}, f) = Total(S, f) + f[t]
    BY <2>1, <2>2, <2>3, UnitsAdd
  <2>8. CASE h = reqs[r].host
    <3>1. Counted(h)' = S \cup {t} /\ Limit(k)' = f
      BY <2>1, <2>2, <2>8 DEF f
    <3>2. avail'[h][k] = Capacity[k] - Total(S \cup {t}, f) + forgotten'[h][k]
      BY <2>1, <2>3, <2>4, <2>5, <2>6, <2>7, <2>8
    <3> QED  BY <2>7, <3>1, <3>2 DEF Balanced, Total, Units
  <2>9. CASE h # reqs[r].host
    <3>1. Counted(h)' = S /\ Limit(k)' = f
      BY <2>1, <2>2, <2>9 DEF f
    <3>2. avail'[h][k] = Capacity[k] - Total(S, f) + forgotten'[h][k]
      BY <2>3, <2>4, <2>9
    <3> QED  BY <2>3, <3>1, <3>2 DEF Balanced, Total, Units
  <2> QED  BY <2>8, <2>9
<1> QED  BY <1>4, <1>5 DEF Accounts

\* The release moves it back.
LEMMA ReleaseBalances ==
  ASSUME TypeInv, AllApart, Accounts, NEW r \in Requests, ReleaseCapacity(r)
  PROVE  AllApart' /\ Accounts'
<1>0. RequestStep(r)
  BY DEF RequestStep
<1>1. PICK t \in Tenants : t = reqs[r].tenant
  BY <1>0, StatementRow
<1>2. /\ Apart(t)' /\ limits' = limits /\ reqs[r].size = limits[t]
      /\ \A h \in Hosts : (Counts(t, h) <=> h = reqs[r].host) /\ ~Counts(t, h)'
  BY <1>1, ReleaseLeavesRoom DEF AllApart
<1>3. \A u \in Tenants : u # t => KeepsRoom(u)
  BY <1>0, <1>1, StatementTouchesOne, UntouchedKeeps DEF AllApart
<1>4. AllApart'
  BY <1>2, <1>3 DEF AllApart, KeepsRoom
<1>5. ASSUME NEW h \in Hosts, NEW k \in Resource PROVE Balanced(h, k)'
  <2> DEFINE S == Counted(h)
             f == Limit(k)
  <2>1. f[t] = reqs[r].size[k] /\ f[t] \in Nat /\ Limit(k)' = Limit(k)
    BY <1>2 DEF Limit, TypeInv, RowsOK, Size
  <2>2. (t \in S <=> h = reqs[r].host) /\ (Counted(h))' = S \ {t}
    BY <1>2, <1>3 DEF Counted, KeepsRoom
  <2>3. IsFiniteSet(Units(S, f)) /\ avail[h][k] = Capacity[k] - Total(S, f) + forgotten[h][k]
    BY DEF Accounts, Balanced
  <2>4. /\ forgotten' = forgotten /\ avail \in [Hosts -> [Resource -> Int]]
        /\ avail'[h][k] = IF h = reqs[r].host THEN avail[h][k] + f[t] ELSE avail[h][k]
    BY <2>1 DEF ReleaseCapacity, history, More, TypeInv, RowsOK
  <2>5. avail[h][k] \in Int /\ forgotten[h][k] \in Int /\ Capacity[k] \in Nat
    BY ServiceAssumption DEF TypeInv, RowsOK
  <2> HIDE DEF S, f
  <2>6. Total(S, f) \in Nat
    BY <2>3, UnitsFewer
  <2>8. CASE h = reqs[r].host
    <3>1. Counted(h)' = S \ {t} /\ Limit(k)' = f
      BY <2>1, <2>2 DEF f
    <3>2. /\ IsFiniteSet(Units(S \ {t}, f))
          /\ Total(S \ {t}, f) = Total(S, f) - f[t]
      BY <2>1, <2>2, <2>3, <2>8, UnitsLess
    <3>3. avail'[h][k] = Capacity[k] - Total(S \ {t}, f) + forgotten'[h][k]
      BY <2>1, <2>3, <2>4, <2>5, <2>6, <2>8, <3>2
    <3> QED  BY <3>1, <3>2, <3>3 DEF Balanced, Total, Units
  <2>9. CASE h # reqs[r].host
    <3>1. Counted(h)' = S /\ Limit(k)' = f
      BY <2>1, <2>2, <2>9 DEF f
    <3>2. avail'[h][k] = Capacity[k] - Total(S, f) + forgotten'[h][k]
      BY <2>3, <2>4, <2>9
    <3> QED  BY <2>3, <3>1, <3>2 DEF Balanced, Total, Units
  <2> QED  BY <2>8, <2>9
<1> QED  BY <1>4, <1>5 DEF Accounts

\* Registering again fills the pools, and what was taken is written down as forgotten.
LEMMA ReRegisterBalances ==
  ASSUME TypeInv, AllApart, Accounts, NEW g \in Hosts, ReRegisterHost(g)
  PROVE  AllApart' /\ Accounts'
<1>1. \A t \in Tenants : KeepsRoom(t)
  BY HostsTouchNone, UntouchedKeeps DEF AllApart
<1>2. AllApart'
  BY <1>1 DEF AllApart, KeepsRoom
<1>3. ASSUME NEW h \in Hosts, NEW k \in Resource PROVE Balanced(h, k)'
  <2>1. Balanced(h, k)  BY DEF Accounts
  <2>2. /\ IsFiniteSet(Units(Counted(h), Limit(k)))'
        /\ Total(Counted(h), Limit(k))' = Total(Counted(h), Limit(k))
    BY <1>1, <2>1, RoomKept
  <2>3. /\ avail[h][k] \in Int /\ forgotten[h][k] \in Int /\ Capacity[k] \in Nat
        /\ avail \in [Hosts -> [Resource -> Int]] /\ forgotten \in [Hosts -> [Resource -> Int]]
        /\ Capacity \in [Resource -> Nat]
    BY ServiceAssumption DEF TypeInv, RowsOK
  <2>4. Total(Counted(h), Limit(k)) \in Nat
    BY <2>1, UnitsFewer DEF Balanced
  <2>5. CASE h = g
    <3>1. /\ avail'[h][k] = Capacity[k]
          /\ forgotten'[h][k] = forgotten[h][k] + (Capacity[k] - avail[h][k])
      BY <2>3, <2>5 DEF ReRegisterHost, More, Less
    <3> QED  BY <2>1, <2>2, <2>3, <2>4, <3>1 DEF Balanced
  <2>6. CASE h # g
    <3>1. avail'[h][k] = avail[h][k] /\ forgotten'[h][k] = forgotten[h][k]
      BY <2>3, <2>6 DEF ReRegisterHost
    <3> QED  BY <2>1, <2>2, <3>1 DEF Balanced
  <2> QED  BY <2>5, <2>6
<1> QED  BY <1>2, <1>3 DEF Accounts

-----------------------------------------------------------------------------
\* Every step keeps the tenants apart and the pools balanced.
LEMMA StepBalances ==
  ASSUME Orderly, TypeInv, Claimed, Followed, AllApart, Accounts, [Next]_svars
  PROVE  AllApart' /\ Accounts'
<1> USE DEF AllApart
<1>1. ASSUME NEW r \in Requests, RequestStep(r) PROVE AllApart' /\ Accounts'
  <2>1. PICK t \in Tenants : t = reqs[r].tenant
    BY <1>1, StatementRow
  <2>2. \A u \in Tenants : u # t => KeepsRoom(u)
    BY <1>1, <2>1, StatementTouchesOne, UntouchedKeeps
  <2>3. CASE InsertTenant(r)
    <3>1. KeepsRoom(t) /\ SamePools
      BY <2>1, <2>3, InsertKeepsRoom DEF InsertTenant, SamePools, history
    <3> QED  BY <2>2, <3>1, NothingTaken
  <2>4. CASE SelectHost(r) \/ GiveUp(r) \/ Provision(r)
    <3>1. KeepsRoom(t) /\ SamePools
      BY <2>1, <2>4, CreationKeepsRoom DEF SelectHost, GiveUp, Provision, SamePools, history
    <3> QED  BY <2>2, <3>1, NothingTaken
  <2>5. CASE AssignHost(r)
    <3>1. KeepsRoom(t) /\ SamePools
      BY <2>1, <2>5, AssignKeepsRoom DEF AssignHost, SamePools, history
    <3> QED  BY <2>2, <3>1, NothingTaken
  <2>6. CASE ReserveCapacity(r)
    BY <2>6, ReserveBalances
  <2>7. CASE EnqueueCreate(r)
    <3>1. KeepsRoom(t) /\ SamePools
      BY <2>1, <2>7, CreateKeepsRoom DEF EnqueueCreate, SamePools, history
    <3> QED  BY <2>2, <3>1, NothingTaken
  <2>8. CASE EnqueueAction(r)
    <3>1. KeepsRoom(t) /\ SamePools
      BY <2>1, <2>8, ActionKeepsRoom DEF EnqueueAction, SamePools, history
    <3> QED  BY <2>2, <3>1, NothingTaken
  <2>9. CASE RecordBackup(r)
    <3>1. KeepsRoom(t) /\ SamePools
      BY <2>1, <2>9, BackupKeepsRoom DEF RecordBackup, SamePools, history
    <3> QED  BY <2>2, <3>1, NothingTaken
  <2>10. CASE SetStatus(r)
    <3>1. KeepsRoom(t) /\ SamePools
      BY <2>1, <2>10, StatusKeepsRoom DEF SetStatus, SamePools, history
    <3> QED  BY <2>2, <3>1, NothingTaken
  <2>11. CASE ReleaseCapacity(r)
    BY <2>11, ReleaseBalances
  <2> QED  BY <1>1, <2>3, <2>4, <2>5, <2>6, <2>7, <2>8, <2>9, <2>10, <2>11 DEF RequestStep
<1>2. ASSUME NEW r \in Requests, BeginRequest(r) PROVE AllApart' /\ Accounts'
  <2>1. ASSUME NEW t \in Tenants, NEW size \in Sizes, NEW auto \in BOOLEAN,
               NEW h \in Hosts \cup {NoHost}, BeginCreate(r, t, size, auto, h)
        PROVE  AllApart' /\ Accounts'
    <3>1. \A u \in Tenants : KeepsRoom(u)
      BY <2>1, BeginCreateKeepsRoom, UntouchedKeeps DEF Claimed
    <3>2. SamePools
      BY <2>1 DEF BeginCreate, SamePools, history
    <3> QED  BY <3>1, <3>2, NothingTaken
  <2>2. ASSUME NEW t \in Tenants, NEW a \in Actions, BeginAction(r, t, a)
        PROVE  AllApart' /\ Accounts'
    <3>1. \A u \in Tenants : KeepsRoom(u)
      BY <2>2, BeginActionKeepsRoom, UntouchedKeeps
    <3>2. SamePools
      BY <2>2 DEF BeginAction, SamePools, history
    <3> QED  BY <3>1, <3>2, NothingTaken
  <2> QED  BY <1>2, <2>1, <2>2 DEF BeginRequest
<1>3. ASSUME NEW h \in Hosts, ChangeHost(h) PROVE AllApart' /\ Accounts'
  <2>1. \A u \in Tenants : KeepsRoom(u)
    BY <1>3, HostsTouchNone, UntouchedKeeps
  <2>2. SamePools
    BY <1>3 DEF ChangeHost, SamePools, history
  <2> QED  BY <2>1, <2>2, NothingTaken
<1>4. ASSUME NEW c \in DOMAIN cmds, NEW s \in Completed \cup {"running"}, ReportCommand(c, s)
      PROVE  AllApart' /\ Accounts'
  <2>1. \A u \in Tenants : KeepsRoom(u)
    BY <1>4, ReportKeepsRoom
  <2>2. SamePools
    BY <1>4 DEF ReportCommand, SamePools, history
  <2> QED  BY <2>1, <2>2, NothingTaken
<1>5. CASE Environment
  <2>1. \A t \in Tenants, size \in Sizes : ~PatchLimits(t, size)
    BY DEF PatchLimits, Orderly
  <2>2. ~ApiCrash
    BY DEF ApiCrash, Orderly
  <2> QED  BY <1>3, <1>4, <1>5, <2>1, <2>2, ReRegisterBalances DEF Environment
<1>6. CASE UNCHANGED svars
  <2>1. \A t \in Tenants : Untouched(t)
    BY <1>6 DEF svars, Untouched, CommandsFor
  <2>2. SamePools
    BY <1>6 DEF svars, SamePools, history
  <2> QED  BY <2>1, <2>2, UntouchedKeeps, NothingTaken
<1> QED  BY <1>1, <1>2, <1>5, <1>6 DEF Next

\* Nothing is taken and nobody has a request in the beginning.
LEMMA InitBalances == Init => AllApart /\ Accounts
<1> SUFFICES ASSUME Init PROVE AllApart /\ Accounts
  OBVIOUS
<1>1. Idle.tenant = NoTenant
  BY DEF Idle
<1>2. \A r \in Requests, t \in Tenants : reqs[r].tenant # t
  BY <1>1, NoTenantAssumption DEF Init
<1>3. \A t \in Tenants : Opens(t) = {}
  BY DEF Init, Opens, CommandsFor
<1>4. AllApart
  BY <1>2, <1>3 DEF AllApart, Apart, Settling
<1>5. \A h \in Hosts : Counted(h) = {}
  BY ServiceAssumption DEF Init, Counted, Counts
<1>6. ASSUME NEW h \in Hosts, NEW k \in Resource PROVE Balanced(h, k)
  <2>1. IsFiniteSet(Units({}, Limit(k))) /\ Total({}, Limit(k)) = 0
    BY UnitsNone
  <2>2. avail[h][k] = Capacity[k] /\ forgotten[h][k] = 0 /\ Capacity[k] \in Nat
    BY ServiceAssumption DEF Init, NoSize
  <2>3. Counted(h) = {}
    BY <1>5
  <2> QED  BY <2>1, <2>2, <2>3 DEF Balanced
<1> QED  BY <1>4, <1>6 DEF Accounts

\* With requests of a tenant one at a time and none on one with open commands, a
\* host's pools are its totals less what its tenants hold, once no request is open:
\* whatever order the statements of different tenants' requests come in, every
\* creation takes its room once and every delete gives it back once.
THEOREM CapacityIsConserved == ASSUME Orderly PROVE Spec => []CapacityConserved
<1> DEFINE Inv == TypeInv /\ Claimed /\ Followed /\ AllApart /\ Accounts
<1>1. Init => Inv
  BY InitType, InitClaimed, InitFollowed, InitBalances
<1>2. Inv /\ [Next]_svars => Inv'
  BY StepType, StepClaims, StepFollows, StepBalances
<1>3. Inv => CapacityConserved
  <2> SUFFICES ASSUME Inv, NoRequests, NEW h \in Hosts, NEW k \in Resource
               PROVE  avail[h][k] = Capacity[k] - Held(h, k) + forgotten[h][k]
    BY DEF CapacityConserved
  <2>1. \A t \in Tenants : ~Reserving(t) /\ ~Releasing(t)
    BY DEF NoRequests, Reserving, Releasing, At, ActionPc
  <2>2. Counted(h) = {t \in Tenants : assigned[t] = h /\ status[t] # "deleted"}
    BY <2>1 DEF Counted, Counts
  <2>3. Held(h, k) = Total(Counted(h), Limit(k))
    BY <2>2 DEF Held, Limit
  <2> QED  BY <2>3 DEF Accounts, Balanced
<1> QED  BY <1>1, <1>2, <1>3, PTL DEF Spec

-----------------------------------------------------------------------------
(***************************************************************************)
(* How much a host can be promised beyond what it has.  The scheduler      *)
(* compares a host's pools with what the request asks for; what others     *)
(* have chosen on that host and not yet reserved it does not see, and      *)
(* there are at most Cardinality(Requests) - 1 of them.                    *)
(***************************************************************************)

\* No host is pinned, and a host that registers again could take any one tenant.
Scheduled ==
    /\ "pin" \notin Allowed
    /\ "reregister" \in Allowed => \A k \in Resource : LargestSize(k) <= Capacity[k]

\* A creation asks for one of the sizes, and has no host before its selection.
Asking(q) ==
    /\ q.pc \in CreatePc => q.size \in Sizes
    /\ q.pc \in {"insert", "select"} => q.host = NoHost

Sized == \A r \in Requests : Asking(reqs[r])

Asked(k) == [r \in Requests |-> reqs[r].size[k]]

RacingPc == {"provision", "assign", "reserve"}

\* The largest size is a size of some tenant, and none is larger.
LEMMA LargestIs ==
  ASSUME NEW k \in Resource
  PROVE  /\ LargestSize(k) \in Nat
         /\ \A size \in Sizes : size[k] \in 0 .. LargestSize(k)
<1>1. PICK top \in Sizes : \A other \in Sizes : other[k] <= top[k]
  BY ServiceAssumption
<1>2. \A size \in Sizes : size[k] \in Nat
  BY ServiceAssumption
<1>3. \E n \in {size[k] : size \in Sizes} : \A size \in Sizes : size[k] <= n
  BY <1>1
<1>4. /\ LargestSize(k) \in {size[k] : size \in Sizes}
      /\ \A size \in Sizes : size[k] <= LargestSize(k)
  BY <1>3, Zenon DEF LargestSize
<1> QED  BY <1>2, <1>4

\* What the requests of a set have chosen on a host is at most a largest size each.
LEMMA RacingBounded ==
  ASSUME ReqsOK, Sized, NEW h, NEW k \in Resource, NEW T \in SUBSET Requests, Racing(h) \subseteq T
  PROVE  /\ IsFiniteSet(Units(Racing(h), Asked(k)))
         /\ Chosen(h, k) \in Nat
         /\ Chosen(h, k) <= Cardinality(T) * LargestSize(k)
<1> DEFINE L == LargestSize(k)
           g == [r \in T |-> IF r \in Racing(h) THEN reqs[r].size[k] ELSE 0]
<1>1. L \in Nat /\ \A size \in Sizes : size[k] \in 0 .. L
  BY LargestIs
<1>2. \A r \in Racing(h) : reqs[r].size \in Sizes
  BY DEF Racing, Sized, Asking, CreatePc
<1>3. \A r \in T : g[r] \in 0 .. L
  BY <1>1, <1>2
<1>4. \A r \in Racing(h) : g[r] = Asked(k)[r]
  BY DEF Asked
<1>5. IsFiniteSet(T)
  BY FS_Subset, ServiceAssumption
<1> HIDE DEF g, L
<1>6. IsFiniteSet(Units(T, g)) /\ Total(T, g) <= Cardinality(T) * L
  BY <1>1, <1>3, <1>5, UnitsBounded
<1>7. /\ IsFiniteSet(Units(Racing(h), g))
      /\ Total(Racing(h), g) \in Nat /\ Total(T, g) \in Nat
      /\ Total(Racing(h), g) <= Total(T, g)
  BY <1>6, UnitsFewer
<1>8. /\ Units(Racing(h), g) = Units(Racing(h), Asked(k))
      /\ Total(Racing(h), g) = Total(Racing(h), Asked(k))
  BY <1>4, UnitsSame
<1>9. Chosen(h, k) = Total(Racing(h), Asked(k))
  BY DEF Chosen, Asked
<1>10. Cardinality(T) \in Nat
  BY <1>5, FS_CardinalityType
<1>11. Chosen(h, k) <= Cardinality(T) * L
  BY <1>1, <1>6, <1>7, <1>8, <1>9, <1>10
<1> QED  BY <1>7, <1>8, <1>9, <1>11 DEF L

\* The margin: all but one of the requests, each with a largest size.
Margin(k) == (Cardinality(Requests) - 1) * LargestSize(k)

\* It is what the other requests can choose, and one size short of what all can.
LEMMA MarginIs ==
  ASSUME NEW k \in Resource
  PROVE  /\ Margin(k) \in Nat
         /\ \A r \in Requests : Cardinality(Requests \ {r}) * LargestSize(k) = Margin(k)
         /\ Cardinality(Requests) * LargestSize(k) = Margin(k) + LargestSize(k)
<1> DEFINE n == Cardinality(Requests)
           L == LargestSize(k)
<1>1. IsFiniteSet(Requests) /\ Requests # {}
  BY ServiceAssumption
<1>2. n \in Nat /\ n # 0
  BY <1>1, FS_CardinalityType, FS_EmptySet
<1>3. \A r \in Requests : Cardinality(Requests \ {r}) = n - 1
  BY <1>1, FS_RemoveElement
<1>4. L \in Nat
  BY LargestIs
<1> HIDE DEF n, L
<1>5. (n - 1) * L \in Nat /\ n * L = (n - 1) * L + L
  <2>1. n - 1 \in Nat  BY <1>2
  <2>2. n * L = (n - 1) * L + L  BY <1>2, <1>4
  <2> QED  BY <1>4, <2>1, <2>2
<1> QED  BY <1>3, <1>5 DEF Margin, n, L

\* The same requests race for h, or fewer, with what they asked for.
NoMoreRace(h) ==
    /\ Racing(h)' \subseteq Racing(h)
    /\ \A r \in Racing(h)' : reqs'[r].size = reqs[r].size

\* Fewer requests have chosen no more.
LEMMA ChosenFalls ==
  ASSUME ReqsOK, Sized, NEW h, NEW k \in Resource, NoMoreRace(h)
  PROVE  Chosen(h, k)' \in Nat /\ Chosen(h, k) \in Nat /\ Chosen(h, k)' <= Chosen(h, k)
<1> DEFINE S == Racing(h)
           T == Racing(h)'
           f == Asked(k)
           g == Asked(k)'
<1>1. IsFiniteSet(Units(S, f)) /\ Chosen(h, k) = Total(S, f)
  BY RacingBounded DEF Racing, Chosen, Asked
<1>2. T \subseteq S /\ (\A r \in T : g[r] = f[r]) /\ Chosen(h, k)' = Total(T, g)
  BY DEF NoMoreRace, Racing, Asked, Chosen, Total, Units
<1> HIDE DEF S, T, f, g
<1>3. Total(T, f) \in Nat /\ Total(S, f) \in Nat /\ Total(T, f) <= Total(S, f)
  BY <1>1, <1>2, UnitsFewer
<1>4. Total(T, g) = Total(T, f)
  BY <1>2, UnitsSame
<1> QED  BY <1>1, <1>2, <1>3, <1>4

Within(h, k) == avail[h][k] - Chosen(h, k) >= -Margin(k)

Bounded == \A h \in Hosts, k \in Resource : Within(h, k)

\* With no more of a race and no fewer pools, every host stays within its margin.
LEMMA RaceFalls ==
  ASSUME TypeInv, TypeInv', Sized, Bounded, \A h \in Hosts : NoMoreRace(h),
         \A h \in Hosts, k \in Resource : avail'[h][k] >= avail[h][k]
  PROVE  Bounded'
<1>1. ASSUME NEW h \in Hosts, NEW k \in Resource PROVE Within(h, k)'
  <2>1. Chosen(h, k)' \in Nat /\ Chosen(h, k) \in Nat /\ Chosen(h, k)' <= Chosen(h, k)
    BY ChosenFalls DEF TypeInv
  <2>2. avail[h][k] \in Int /\ avail'[h][k] \in Int /\ avail'[h][k] >= avail[h][k]
    BY DEF TypeInv, RowsOK
  <2>3. avail[h][k] - Chosen(h, k) >= -Margin(k) /\ Margin(k) \in Nat
    BY MarginIs DEF Bounded, Within
  <2>4. avail'[h][k] - Chosen(h, k)' >= -Margin(k)
    BY <2>1, <2>2, <2>3
  <2>5. Margin(k)' = Margin(k)
    BY DEF Margin, LargestSize
  <2> QED  BY <2>4, <2>5 DEF Within
<1> QED  BY <1>1 DEF Bounded

-----------------------------------------------------------------------------
\* Only a request that goes on racing, or stops, leaves the race as it is or smaller.
LEMMA OneRaces ==
  ASSUME NEW r \in Requests, \A o \in Requests : o # r => reqs'[o] = reqs[o],
         \/ reqs'[r].pc \notin RacingPc
         \/ /\ reqs[r].pc \in RacingPc
            /\ reqs'[r].host = reqs[r].host /\ reqs'[r].size = reqs[r].size
  PROVE  \A h \in Hosts : NoMoreRace(h)
  BY DEF NoMoreRace, Racing, RacingPc

\* A request that goes on keeps its size, and its host unless it has just selected it.
LEMMA StatementSized ==
  ASSUME TypeInv, Sized, NEW r \in Requests, RequestStep(r)
  PROVE  Sized'
<1>1. \A o \in Requests : o # r => reqs'[o] = reqs[o]
  BY StatementRequest
<1>2. SUFFICES Asking(reqs[r])'
  BY <1>1 DEF Sized, Asking
<1>3. Asking(reqs[r])
  BY DEF Sized
<1>4. ASSUME Done(r) PROVE Asking(reqs[r])'
  <2>1. reqs'[r] = Idle
    BY <1>4, DoneLeaves DEF TypeInv
  <2> QED  BY <2>1 DEF Asking, Idle, CreatePc
<1>5. ASSUME NEW pc, Goto(r, pc),
             \/ pc \in ActionPc
             \/ pc # "insert" /\ reqs[r].pc \in CreatePc /\ (pc = "select" => At(r, "insert"))
      PROVE  Asking(reqs[r])'
  <2>1. Keeps(r, pc)
    BY <1>5, GotoKeeps DEF TypeInv
  <2> QED  BY <1>3, <1>5, <2>1 DEF Keeps, Asking, CreatePc, ActionPc, At
<1>6. ASSUME NEW h, At(r, "select"), reqs' = [reqs EXCEPT ![r].pc = "provision", ![r].host = h]
      PROVE  Asking(reqs[r])'
  <2>1. reqs'[r].pc = "provision" /\ reqs'[r].size = reqs[r].size
    BY <1>6 DEF TypeInv, ReqsOK, Request
  <2> QED  BY <1>3, <1>6, <2>1 DEF Asking, CreatePc, At
<1>7. CASE InsertTenant(r)
  BY <1>4, <1>5, <1>7 DEF InsertTenant, At, CreatePc
<1>8. CASE SelectHost(r)
  BY <1>5, <1>6, <1>8 DEF SelectHost, At, CreatePc
<1>9. CASE GiveUp(r) \/ Provision(r) \/ AssignHost(r) \/ ReserveCapacity(r) \/ EnqueueCreate(r)
  BY <1>4, <1>5, <1>9
  DEF GiveUp, Provision, AssignHost, ReserveCapacity, EnqueueCreate, At, CreatePc
<1>10. CASE EnqueueAction(r) \/ RecordBackup(r) \/ SetStatus(r) \/ ReleaseCapacity(r)
  BY <1>4, <1>5, <1>10
  DEF EnqueueAction, RecordBackup, SetStatus, ReleaseCapacity, ActionPc
<1> QED  BY <1>7, <1>8, <1>9, <1>10 DEF RequestStep

\* The selection joins the race for a host that has room for what it asks for.
LEMMA SelectBounded ==
  ASSUME TypeInv, Sized, Bounded, NEW r \in Requests, SelectHost(r)
  PROVE  Bounded'
<1>0. /\ At(r, "select") /\ reqs[r].host = NoHost /\ avail' = avail
      /\ reqs[r].size \in Sizes
  BY DEF SelectHost, Sized, Asking, At, CreatePc
<1>1. CASE Goto(r, "giveUp")
  <2>1. Keeps(r, "giveUp")
    BY <1>1, GotoKeeps DEF TypeInv
  <2>2. \A h \in Hosts : NoMoreRace(h)
    BY <2>1, OneRaces DEF Keeps, RacingPc
  <2>3. \A h \in Hosts, k \in Resource : avail'[h][k] >= avail[h][k]
    BY <1>0 DEF TypeInv, RowsOK
  <2>4. TypeInv'
    BY StatementType DEF RequestStep
  <2> QED  BY <2>2, <2>3, <2>4, RaceFalls
<1>2. ASSUME NEW g \in Preferred(reqs[r].size),
             reqs' = [reqs EXCEPT ![r].pc = "provision", ![r].host = g]
      PROVE  Bounded'
  <2>1. /\ \A o \in Requests : o # r => reqs'[o] = reqs[o]
        /\ reqs'[r].pc = "provision" /\ reqs'[r].host = g /\ reqs'[r].size = reqs[r].size
    BY <1>2 DEF TypeInv, ReqsOK, Request
  <2>2. \A k \in Resource : avail[g][k] >= reqs[r].size[k]
    BY DEF Preferred, Candidates, Fits
  <2>3. ASSUME NEW h \in Hosts, h # g, NEW k \in Resource PROVE Within(h, k)'
    <3>1. NoMoreRace(h)
      BY <1>0, <2>1, <2>3 DEF NoMoreRace, Racing
    <3>2. Chosen(h, k)' \in Nat /\ Chosen(h, k) \in Nat /\ Chosen(h, k)' <= Chosen(h, k)
      BY <3>1, ChosenFalls DEF TypeInv
    <3>3. avail[h][k] \in Int /\ avail[h][k] - Chosen(h, k) >= -Margin(k) /\ Margin(k) \in Nat
      BY MarginIs DEF TypeInv, RowsOK, Bounded, Within
    <3>4. avail[h][k] - Chosen(h, k)' >= -Margin(k)
      BY <3>2, <3>3
    <3>5. Margin(k)' = Margin(k)
      BY DEF Margin, LargestSize
    <3> QED  BY <1>0, <3>4, <3>5 DEF Within
  <2>4. ASSUME NEW k \in Resource PROVE Within(g, k)'
    <3> DEFINE S == Racing(g)
               f == Asked(k)
               d == Asked(k)'
               n == reqs[r].size[k]
    <3>1. /\ Racing(g) \subseteq Requests \ {r} /\ Racing(g)' = S \cup {r}
          /\ d[r] = n
      BY <1>0, <2>1 DEF Racing, At, Asked
    <3>2. \A o \in S : f[o] = d[o]
      BY <2>1, <3>1 DEF Asked
    <3>3. n \in Nat
      BY <1>0, LargestIs
    <3>4. IsFiniteSet(Units(S, f)) /\ Chosen(g, k) \in Nat /\ Chosen(g, k) <= Margin(k)
      <4>1. Requests \ {r} \in SUBSET Requests
        OBVIOUS
      <4>2. Cardinality(Requests \ {r}) * LargestSize(k) = Margin(k)
        BY MarginIs
      <4>3. Racing(g) \subseteq Requests \ {r}
        BY <3>1
      <4>4. /\ IsFiniteSet(Units(Racing(g), Asked(k)))
            /\ Chosen(g, k) \in Nat
            /\ Chosen(g, k) <= Cardinality(Requests \ {r}) * LargestSize(k)
        BY <4>1, <4>3, RacingBounded DEF TypeInv
      <4> QED  BY <4>2, <4>4
    <3>5. Chosen(g, k) = Total(S, f) /\ Chosen(g, k)' = Total(S \cup {r}, d)
      BY <3>1 DEF Chosen, Asked, Total, Units
    <3>6. r \notin S
      BY <3>1
    <3> HIDE DEF S, f, d, n
    <3>7. Units(S, f) = Units(S, d) /\ Total(S, f) = Total(S, d)
      BY <3>2, UnitsSame
    <3>8. Total(S \cup {r}, d) = Total(S, d) + d[r]
      BY <3>1, <3>3, <3>4, <3>6, <3>7, UnitsAdd
    <3>9. Chosen(g, k)' = Chosen(g, k) + n
      BY <3>1, <3>5, <3>7, <3>8
    <3>10. avail[g][k] \in Int /\ avail[g][k] >= n /\ Margin(k) \in Nat
      BY <2>2, MarginIs DEF TypeInv, RowsOK, Preferred, Candidates, n
    <3>11. avail[g][k] - Chosen(g, k)' >= -Margin(k)
      BY <3>3, <3>4, <3>9, <3>10
    <3>12. Margin(k)' = Margin(k)
      BY DEF Margin, LargestSize
    <3> QED  BY <1>0, <3>11, <3>12 DEF Within
  <2> QED  BY <2>3, <2>4 DEF Bounded
<1> QED  BY <1>0, <1>1, <1>2 DEF SelectHost

\* The reservation takes from the pools what it had chosen.
LEMMA ReserveBounded ==
  ASSUME TypeInv, Sized, Bounded, NEW r \in Requests, ReserveCapacity(r)
  PROVE  Bounded'
<1> DEFINE g == reqs[r].host
<1>0. /\ At(r, "reserve") /\ g \in Hosts /\ reqs[r].size \in Sizes
      /\ avail' = [avail EXCEPT ![g] = Less(@, reqs[r].size)]
  BY CreationMoves DEF ReserveCapacity, Sized, Asking, At, CreatePc, TypeInv
<1>1. Keeps(r, "enqueue")
  BY GotoKeeps DEF TypeInv, ReserveCapacity
<1>2. \A h \in Hosts : NoMoreRace(h)
  BY <1>1, OneRaces DEF Keeps, RacingPc
<1>3. ASSUME NEW h \in Hosts, NEW k \in Resource PROVE Within(h, k)'
  <2> DEFINE S == Racing(h)
             f == Asked(k)
             d == Asked(k)'
  <2>1. Chosen(h, k)' \in Nat /\ Chosen(h, k) \in Nat /\ Chosen(h, k)' <= Chosen(h, k)
    BY <1>2, ChosenFalls DEF TypeInv
  <2>2. avail[h][k] \in Int /\ avail[h][k] - Chosen(h, k) >= -Margin(k) /\ Margin(k) \in Nat
    BY MarginIs DEF TypeInv, RowsOK, Bounded, Within
  <2>3. Margin(k)' = Margin(k)
    BY DEF Margin, LargestSize
  <2>4. CASE h # g
    <3>1. avail'[h][k] = avail[h][k]
      BY <1>0, <2>4 DEF TypeInv, RowsOK
    <3>2. avail'[h][k] - Chosen(h, k)' >= -Margin(k)
      BY <2>1, <2>2, <3>1
    <3> QED  BY <2>3, <3>2 DEF Within
  <2>5. CASE h = g
    <3>1. r \in S /\ Racing(h)' = S \ {r} /\ f[r] = reqs[r].size[k]
      BY <1>0, <1>1, <2>5 DEF Racing, At, Keeps, Asked
    <3>2. \A o \in S \ {r} : f[o] = d[o]
      BY <1>1 DEF Asked, Keeps, Racing
    <3>3. f[r] \in Nat
      BY <1>0, <3>1, LargestIs
    <3>4. IsFiniteSet(Units(S, f))
      BY RacingBounded DEF Racing, TypeInv
    <3>5. Chosen(h, k) = Total(S, f) /\ Chosen(h, k)' = Total(S \ {r}, d)
      BY <3>1 DEF Chosen, Asked, Total, Units
    <3>6. avail'[h][k] = avail[h][k] - f[r]
      BY <1>0, <2>5, <3>1 DEF TypeInv, RowsOK, Less
    <3> HIDE DEF S, f, d
    <3>7. Total(S \ {r}, f) = Total(S \ {r}, d)
      BY <3>2, UnitsSame
    <3>8. Total(S \ {r}, f) = Total(S, f) - f[r]
      BY <3>1, <3>3, <3>4, UnitsLess
    <3>9. avail'[h][k] - Chosen(h, k)' = avail[h][k] - Chosen(h, k)
      BY <2>1, <2>2, <3>3, <3>5, <3>6, <3>7, <3>8
    <3> QED  BY <2>2, <2>3, <3>9 DEF Within
  <2> QED  BY <2>4, <2>5
<1> QED  BY <1>3 DEF Bounded

\* No other statement takes from a pool or joins a race.
LEMMA StatementBounded ==
  ASSUME TypeInv, Sized, Bounded, NEW r \in Requests, RequestStep(r)
  PROVE  Bounded'
<1>0. TypeInv'
  BY StatementType
<1>a. \A o \in Requests : o # r => reqs'[o] = reqs[o]
  BY StatementRequest
<1>b. \A h \in Hosts, k \in Resource : avail[h][k] \in Int
  BY DEF TypeInv, RowsOK
<1>1. ASSUME avail' = avail PROVE \A h \in Hosts, k \in Resource : avail'[h][k] >= avail[h][k]
  BY <1>1, <1>b
<1>2. ASSUME Done(r) PROVE \A h \in Hosts : NoMoreRace(h)
  <2>1. reqs'[r].pc = "idle"
    BY <1>2, DoneLeaves DEF Idle, TypeInv
  <2> QED  BY <1>a, <2>1, OneRaces DEF RacingPc
<1>3. ASSUME NEW pc, Goto(r, pc), pc \in RacingPc => reqs[r].pc \in RacingPc
      PROVE  \A h \in Hosts : NoMoreRace(h)
  <2>1. Keeps(r, pc)
    BY <1>3, GotoKeeps DEF TypeInv
  <2> QED  BY <1>a, <1>3, <2>1, OneRaces DEF Keeps
<1>4. CASE InsertTenant(r) \/ GiveUp(r) \/ EnqueueCreate(r) \/ EnqueueAction(r) \/ RecordBackup(r)
           \/ SetStatus(r)
  <2>1. avail' = avail
    BY <1>4 DEF InsertTenant, GiveUp, EnqueueCreate, EnqueueAction, RecordBackup, SetStatus
  <2>2. \A h \in Hosts : NoMoreRace(h)
    BY <1>2, <1>3, <1>4
    DEF InsertTenant, GiveUp, EnqueueCreate, EnqueueAction, RecordBackup, SetStatus, RacingPc
  <2> QED  BY <1>0, <1>1, <2>1, <2>2, RaceFalls
<1>5. CASE Provision(r) \/ AssignHost(r)
  <2>1. avail' = avail /\ reqs[r].pc \in RacingPc
    BY <1>5 DEF Provision, AssignHost, At, RacingPc
  <2>2. \A h \in Hosts : NoMoreRace(h)
    BY <1>2, <1>3, <1>5, <2>1 DEF Provision, AssignHost
  <2> QED  BY <1>0, <1>1, <2>1, <2>2, RaceFalls
<1>6. CASE ReleaseCapacity(r)
  <2>1. \A h \in Hosts : NoMoreRace(h)
    BY <1>2, <1>6 DEF ReleaseCapacity
  <2>2. reqs[r].size \in [Resource -> Nat]
    BY DEF TypeInv, ReqsOK, Request, Size
  <2>3. \A h \in Hosts, k \in Resource : avail'[h][k] >= avail[h][k]
    BY <1>6, <2>2 DEF ReleaseCapacity, More, TypeInv, RowsOK
  <2> QED  BY <1>0, <2>1, <2>3, RaceFalls
<1> QED  BY <1>4, <1>5, <1>6, SelectBounded, ReserveBounded DEF RequestStep

\* A request that begins asks for a size, without a host, and does not race yet.
LEMMA BeginBounded ==
  ASSUME Scheduled, TypeInv, Sized, Bounded, NEW r \in Requests, BeginRequest(r)
  PROVE  Sized' /\ Bounded'
<1>1. ASSUME NEW t \in Tenants, NEW size \in Sizes, NEW auto \in BOOLEAN,
             NEW h \in Hosts \cup {NoHost}, BeginCreate(r, t, size, auto, h)
      PROVE  /\ \A o \in Requests : o # r => reqs'[o] = reqs[o]
             /\ reqs'[r].pc = "insert" /\ Asking(reqs[r])' /\ TypeInv' /\ avail' = avail
  <2> DEFINE q == [Idle EXCEPT !.pc = "insert", !.tenant = t, !.host = h, !.size = size,
                               !.auto = auto]
  <2>1. q.size = size /\ q.host = h
    BY DEF Idle
  <2>2. reqs'[r] = q /\ h = NoHost /\ avail' = avail
    BY <1>1 DEF BeginCreate, Begin, TypeInv, ReqsOK, Scheduled
  <2> HIDE DEF q
  <2> QED  BY <1>1, <2>1, <2>2, CreateBegins DEF Asking
<1>2. ASSUME NEW t \in Tenants, NEW a \in Actions, BeginAction(r, t, a)
      PROVE  /\ \A o \in Requests : o # r => reqs'[o] = reqs[o]
             /\ reqs'[r].pc \in ActionPc /\ Asking(reqs[r])' /\ TypeInv' /\ avail' = avail
  <2>1. avail' = avail
    BY <1>2 DEF BeginAction
  <2> QED  BY <1>2, <2>1, ActionBegins DEF Asking, ActionPc, CreatePc
<1>3. /\ \A o \in Requests : o # r => reqs'[o] = reqs[o]
      /\ reqs'[r].pc \in ActionPc \cup {"insert"} /\ Asking(reqs[r])' /\ TypeInv' /\ avail' = avail
  BY <1>1, <1>2 DEF BeginRequest
<1>4. Sized'
  BY <1>3 DEF Sized, Asking
<1>5. \A h \in Hosts : NoMoreRace(h)
  BY <1>3, OneRaces DEF RacingPc, ActionPc
<1>6. \A h \in Hosts, k \in Resource : avail'[h][k] >= avail[h][k]
  BY <1>3 DEF TypeInv, RowsOK
<1> QED  BY <1>3, <1>4, <1>5, <1>6, RaceFalls

\* A host that registers again has its totals, which could take any one tenant.
LEMMA ReRegisterBounded ==
  ASSUME Scheduled, TypeInv, Sized, Bounded, NEW g \in Hosts, ReRegisterHost(g)
  PROVE  Sized' /\ Bounded'
<1>1. reqs' = reqs /\ avail' = [avail EXCEPT ![g] = Capacity] /\ "reregister" \in Allowed
  BY DEF ReRegisterHost
<1>2. Sized'
  BY <1>1 DEF Sized, Asking
<1>3. ASSUME NEW h \in Hosts, NEW k \in Resource PROVE Within(h, k)'
  <2>1. Chosen(h, k)' = Chosen(h, k) /\ Margin(k)' = Margin(k)
    BY <1>1 DEF Chosen, Racing, Total, Units, Margin, LargestSize
  <2>2. /\ Chosen(h, k) \in Nat /\ Chosen(h, k) <= Margin(k) + LargestSize(k)
        /\ Margin(k) \in Nat /\ LargestSize(k) \in Nat
    <3>1. Racing(h) \subseteq Requests /\ Requests \in SUBSET Requests
      BY DEF Racing
    <3> QED  BY <3>1, RacingBounded, MarginIs, LargestIs DEF TypeInv
  <2>3. CASE h = g
    <3>1. avail'[h][k] = Capacity[k] /\ Capacity[k] \in Nat /\ LargestSize(k) <= Capacity[k]
      BY <1>1, <2>3, ServiceAssumption DEF TypeInv, RowsOK, Scheduled
    <3>2. avail'[h][k] - Chosen(h, k) >= -Margin(k)
      BY <2>2, <3>1
    <3> QED  BY <2>1, <3>2 DEF Within
  <2>4. CASE h # g
    <3>1. avail'[h][k] = avail[h][k]
      BY <1>1, <2>4 DEF TypeInv, RowsOK
    <3> QED  BY <2>1, <3>1 DEF Within, Bounded
  <2> QED  BY <2>3, <2>4
<1> QED  BY <1>2, <1>3 DEF Bounded

\* Nothing else touches a pool or joins a race; a crash ends every race.
LEMMA EnvironmentBounded ==
  ASSUME Scheduled, TypeInv, Sized, Bounded, Environment
  PROVE  Sized' /\ Bounded'
<1>0. TypeInv'
  BY EnvironmentType
<1>1. ASSUME avail' = avail, reqs' = reqs PROVE Sized' /\ Bounded'
  <2>1. Sized'
    BY <1>1 DEF Sized, Asking
  <2>2. \A h \in Hosts : NoMoreRace(h)
    BY <1>1 DEF NoMoreRace, Racing
  <2>3. \A h \in Hosts, k \in Resource : avail'[h][k] >= avail[h][k]
    BY <1>1 DEF TypeInv, RowsOK
  <2> QED  BY <1>0, <2>1, <2>2, <2>3, RaceFalls
<1>2. CASE ApiCrash
  <2>1. \A r \in Requests : reqs'[r] = Idle
    BY <1>2 DEF ApiCrash
  <2>2. Sized'
    BY <2>1 DEF Sized, Asking, Idle, CreatePc
  <2>3. \A h \in Hosts : NoMoreRace(h)
    BY <2>1 DEF NoMoreRace, Racing, Idle
  <2>4. \A h \in Hosts, k \in Resource : avail'[h][k] >= avail[h][k]
    BY <1>2 DEF ApiCrash, TypeInv, RowsOK
  <2> QED  BY <1>0, <2>2, <2>3, <2>4, RaceFalls
<1>3. ASSUME NEW t \in Tenants, NEW size \in Sizes, PatchLimits(t, size) PROVE Sized' /\ Bounded'
  BY <1>1, <1>3 DEF PatchLimits
<1>4. ASSUME NEW h \in Hosts, ChangeHost(h) PROVE Sized' /\ Bounded'
  BY <1>1, <1>4 DEF ChangeHost
<1>5. ASSUME NEW c \in DOMAIN cmds, NEW s \in Completed \cup {"running"}, ReportCommand(c, s)
      PROVE  Sized' /\ Bounded'
  BY <1>1, <1>5 DEF ReportCommand
<1> QED  BY <1>2, <1>3, <1>4, <1>5, ReRegisterBounded DEF Environment

\* Where the admins leave the choice to the scheduler, a host is promised more than
\* it has by at most one largest tenant for every other request that may be in
\* progress, however the selections and the reservations interleave.
THEOREM OversubscriptionIsBounded == ASSUME Scheduled PROVE Spec => []OversubscriptionBounded
<1> DEFINE Inv == TypeInv /\ Sized /\ Bounded
<1>1. Init => Inv
  <2> SUFFICES ASSUME Init PROVE Inv
    OBVIOUS
  <2>1. TypeInv
    BY InitType
  <2>2. \A r \in Requests : reqs[r].pc = "idle"
    BY DEF Init, Idle
  <2>3. Sized
    BY <2>2 DEF Sized, Asking, CreatePc
  <2>4. ASSUME NEW h \in Hosts, NEW k \in Resource PROVE Within(h, k)
    <3>1. Racing(h) = {}
      BY <2>2 DEF Racing
    <3>2. Chosen(h, k) = 0
      BY <3>1, UnitsNone DEF Chosen
    <3>3. avail[h][k] = Capacity[k] /\ Capacity[k] \in Nat /\ Margin(k) \in Nat
      BY ServiceAssumption, MarginIs DEF Init
    <3> QED  BY <3>2, <3>3 DEF Within
  <2> QED  BY <2>1, <2>3, <2>4 DEF Bounded
<1>2. Inv /\ [Next]_svars => Inv'
  <2> SUFFICES ASSUME Inv, [Next]_svars PROVE Sized' /\ Bounded'
    BY StepType
  <2>1. CASE UNCHANGED svars
    <3>1. reqs' = reqs /\ avail' = avail
      BY <2>1 DEF svars
    <3>2. TypeInv'
      BY StepType
    <3>3. \A h \in Hosts : NoMoreRace(h)
      BY <3>1 DEF NoMoreRace, Racing
    <3>4. \A h \in Hosts, k \in Resource : avail'[h][k] >= avail[h][k]
      BY <3>1 DEF TypeInv, RowsOK
    <3> QED  BY <3>1, <3>2, <3>3, <3>4, RaceFalls DEF Sized, Asking
  <2> QED  BY <2>1, StatementSized, StatementBounded, BeginBounded, EnvironmentBounded DEF Next
<1>3. Inv => OversubscriptionBounded
  BY DEF Bounded, Within, Margin, OversubscriptionBounded
<1> QED  BY <1>1, <1>2, <1>3, PTL DEF Spec
=============================================================================
