------------------------ MODULE CommandReportProofs -------------------------
(***************************************************************************)
(* What CommandQueue makes of a command once it has left the queue: claims *)
(* and executions counted against each other with any number of overlapping *)
(* polls, and, with one poll at a time, the order of a row's statuses, the *)
(* agent's registry and the status of the tenant.                          *)
(***************************************************************************)
EXTENDS CommandQueueProofs, FiniteSetTheorems

-----------------------------------------------------------------------------
(***************************************************************************)
(* What a step does, field by field.                                       *)
(***************************************************************************)

\* Polls other than p stay where they are.
OthersStay(p) == \A r \in Poll : r # p => polls'[r] = polls[r]

\* What nothing ever changes of a row.
Address(row) == <<row.host, row.tenant, row.type, row.payload>>

\* The rows stay, but for the status and attempts of some.
RowsStay ==
    /\ DOMAIN cmds' = DOMAIN cmds
    /\ \A c \in DOMAIN cmds : Address(cmds'[c]) = Address(cmds[c])

\* Only row c is written.
WritesOnly(c) ==
    /\ RowsStay
    /\ \A d \in DOMAIN cmds : d # c => cmds'[d] = cmds[d]

\* A poll starts, finds nothing, sends its report or gives up.
Quiet(p) ==
    /\ OthersStay(p)
    /\ UNCHANGED <<cmds, tenantStatus, vms, executions>>
    /\ \/ polls'[p].pc \in {"idle", "polling"}
       \/ /\ \/ At(p, "claimed") /\ polls'[p].pc = "reportRunning"
             \/ At(p, "executed") /\ polls'[p].pc = "reportResult"
          /\ polls'[p].cmd = polls[p].cmd /\ polls'[p].result = polls[p].result
    /\ polls[p].pc \notin {"reconcileRunning", "reconcileResult"}

\* A poll selects the oldest row of its host that is queued.
Selects(p) ==
    /\ OthersStay(p)
    /\ UNCHANGED <<cmds, tenantStatus, vms, executions>>
    /\ At(p, "polling") /\ polls'[p].pc = "selected"
    /\ polls'[p].cmd \in Waiting(p[1])
    /\ \A d \in Waiting(p[1]) : polls'[p].cmd <= d

\* A poll claims the row it has selected.
Claims(p) ==
    /\ OthersStay(p)
    /\ UNCHANGED <<tenantStatus, vms, executions>>
    /\ At(p, "selected")
    /\ \/ polls'[p].pc = "idle"
       \/ polls'[p].pc = "claimed" /\ polls'[p].cmd = polls[p].cmd
    /\ WritesOnly(polls[p].cmd)
    /\ cmds'[polls[p].cmd].status = "claimed"
    /\ cmds'[polls[p].cmd].attempts = cmds[polls[p].cmd].attempts + 1

\* A report writes the row of its poll.
Records(p) ==
    /\ OthersStay(p)
    /\ UNCHANGED <<tenantStatus, vms, executions>>
    /\ \/ /\ At(p, "reportRunning") /\ polls'[p].pc = "reconcileRunning"
          /\ cmds'[polls[p].cmd].status = "running"
       \/ /\ At(p, "reportResult") /\ polls'[p].pc = "reconcileResult"
          /\ cmds'[polls[p].cmd].status = polls[p].result
          /\ polls[p].result \in Completed
    /\ polls'[p].cmd = polls[p].cmd /\ polls'[p].result = polls[p].result
    /\ WritesOnly(polls[p].cmd)
    /\ cmds'[polls[p].cmd].attempts = cmds[polls[p].cmd].attempts

\* What a poll that reconciles has reported.
ReportedBy(p) == IF At(p, "reconcileRunning") THEN "running" ELSE polls[p].result

\* A report reaches the tenant of its row.
Reconciles(p) ==
    /\ OthersStay(p)
    /\ UNCHANGED <<cmds, vms, executions>>
    /\ polls[p].pc \in {"reconcileRunning", "reconcileResult"}
    /\ \/ polls'[p].pc = "idle"
       \/ /\ At(p, "reconcileRunning") /\ polls'[p].pc = "running"
          /\ polls'[p].cmd = polls[p].cmd
    /\ Reconcile(cmds[polls[p].cmd].tenant, cmds[polls[p].cmd].type, ReportedBy(p))

\* The agent executes the command of its poll.
Executes(p) ==
    /\ OthersStay(p)
    /\ UNCHANGED <<cmds, tenantStatus>>
    /\ At(p, "running") /\ polls'[p].pc = "executed" /\ polls'[p].cmd = polls[p].cmd
    /\ LET c == polls[p].cmd
           t == cmds[c].tenant
       IN  /\ executions'[c] = executions[c] + 1
           /\ \A d \in DOMAIN cmds : d # c => executions'[d] = executions[d]
           /\ \A h \in Hosts : h # p[1] => vms'[h] = vms[h]
           /\ \E o \in Outcomes(cmds[c].type, cmds[c].payload, t \in vms[p[1]]) :
                 vms'[p[1]] = IF o.vm THEN vms[p[1]] \cup {t} ELSE vms[p[1]] \ {t}

\* The admin adds a row that nobody has touched.
Grows ==
    /\ UNCHANGED <<polls, tenantStatus, vms>>
    /\ DOMAIN cmds' = DOMAIN cmds \cup {Len(cmds) + 1}
    /\ DOMAIN cmds = 1 .. Len(cmds)
    /\ cmds'[Len(cmds) + 1].status = "queued" /\ cmds'[Len(cmds) + 1].attempts = 0
    /\ executions'[Len(cmds) + 1] = 0
    /\ \A c \in DOMAIN cmds : cmds'[c] = cmds[c] /\ executions'[c] = executions[c]

\* An approval changes, or a fault ends polls or takes their client away, and an
\* agent's registry; only a dying API ends a report that is under way.
Recedes ==
    /\ UNCHANGED <<cmds, tenantStatus, executions>>
    /\ \A p \in Poll :
          \/ polls'[p].pc = "idle"
             /\ ("api" \notin Faults => polls[p].pc \notin {"reconcileRunning", "reconcileResult"})
          \/ /\ polls'[p].pc = polls[p].pc /\ polls'[p].cmd = polls[p].cmd
             /\ polls'[p].result = polls[p].result
    /\ \A h \in Hosts : vms'[h] = vms[h] \/ vms'[h] = {}

-----------------------------------------------------------------------------
(***************************************************************************)
(* Every step is one of these.                                             *)
(***************************************************************************)

\* A poll past its select holds a row of its host.
LEMMA HeldRow ==
    ASSUME TypeOK, NEW p \in Poll, polls[p].pc \notin {"idle", "polling"}
    PROVE  /\ polls[p].cmd \in DOMAIN cmds /\ polls[p].cmd \in 1 .. Len(cmds)
           /\ cmds[polls[p].cmd] \in CommandRow
           /\ cmds[polls[p].cmd].host = p[1] /\ p[1] \in Hosts
           /\ DOMAIN cmds = 1 .. Len(cmds) /\ Len(cmds) \in Nat
           /\ polls[p] \in PollState
BY ElementOfSeq, LenProperties DEF TypeOK, Poll

\* Replacing a row by one of the same address writes only that row.
LEMMA ReplaceWrites ==
    ASSUME TypeOK, NEW c \in DOMAIN cmds, NEW r \in CommandRow,
           cmds' = [cmds EXCEPT ![c] = r], Address(r) = Address(cmds[c])
    PROVE  WritesOnly(c) /\ cmds'[c] = r
<1>1. /\ DOMAIN cmds' = DOMAIN cmds
      /\ \A d \in DOMAIN cmds : cmds'[d] = IF d = c THEN r ELSE cmds[d]
  BY ReplaceRow DEF TypeOK
<1>2. QED
  BY <1>1 DEF WritesOnly, RowsStay

\* The claim and a report keep the address of a row.
LEMMA AddressKept ==
    ASSUME NEW row \in CommandRow, NEW s \in CommandStatus
    PROVE  Address(Claimed(row)) = Address(row) /\ Address(WithStatus(row, s)) = Address(row)
BY DEF Address, Claimed, WithStatus, CommandRow

\* A step of a poll.
LEMMA PollKinds ==
    ASSUME TypeOK, NEW p \in Poll, PollStep(p)
    PROVE  \/ Quiet(p) \/ Selects(p) \/ Claims(p)
           \/ Records(p) \/ Reconciles(p) \/ Executes(p)
<1> DEFINE q == polls[p]
           c == q.cmd
           row == cmds[c]
<1>0. /\ q \in PollState /\ polls \in [Poll -> PollState]
      /\ q.pc \notin {"idle", "polling"} => c \in DOMAIN cmds /\ row \in CommandRow
  BY HeldRow DEF TypeOK
<1>1. CASE StartPoll(p)
  BY <1>0, <1>1, IdleType DEF StartPoll, Quiet, OthersStay, At
<1>2. CASE SelectOldest(p)
  <2>1. CASE Abandon(p)
    BY <1>0, <1>2, <2>1, IdleType DEF SelectOldest, Abandon, Quiet, OthersStay, At
  <2>2. ASSUME NEW d \in Waiting(p[1]), \A e \in Waiting(p[1]) : d <= e,
               polls' = [polls EXCEPT ![p] = Selected(q, d)]
        PROVE  Selects(p)
    <3>1. d \in Nat  BY LenProperties DEF Waiting, TypeOK
    <3>2. Selected(q, d).pc = "selected" /\ Selected(q, d).cmd = d
      BY <1>0, <3>1, SelectedType
    <3>3. polls'[p] = Selected(q, d) /\ OthersStay(p)
      BY <1>0, <2>2 DEF OthersStay
    <3>4. QED
      BY <1>2, <2>2, <3>2, <3>3 DEF SelectOldest, Selects, At
  <2>3. QED
    BY <1>2, <2>1, <2>2 DEF SelectOldest
<1>3. CASE ClaimSelected(p)
  <2>1. At(p, "selected") /\ c \in DOMAIN cmds /\ row \in CommandRow
    BY <1>0, <1>3 DEF ClaimSelected, At
  <2>2. /\ Claimed(row) \in CommandRow /\ Claimed(row).status = "claimed"
        /\ Claimed(row).attempts = row.attempts + 1 /\ Address(Claimed(row)) = Address(row)
    BY <2>1, ClaimedType, AddressKept DEF CommandStatus
  <2>3. WritesOnly(c) /\ cmds'[c] = Claimed(row)
    BY <1>3, <2>1, <2>2, ReplaceWrites DEF ClaimSelected
  <2>4. OthersStay(p) /\ polls'[p] \in {Moved(q, "claimed"), Idle}
    BY <1>0, <1>3 DEF ClaimSelected, Return, OthersStay
  <2>5. Moved(q, "claimed").pc = "claimed" /\ Moved(q, "claimed").cmd = c
    BY <1>0, MovedType DEF AgentPc
  <2>6. QED
    BY <1>3, <2>1, <2>2, <2>3, <2>4, <2>5, IdleType DEF Claims, ClaimSelected
<1>4. CASE AuthoriseReport(p)
  <2>1. CASE Abandon(p) /\ q.pc \in SendingPc
    BY <1>0, <1>4, <2>1, IdleType DEF AuthoriseReport, Abandon, Quiet, OthersStay, SendingPc
  <2>2. ASSUME NEW pc \in {"reportRunning", "reportResult"}, Goto(p, pc),
               At(p, IF pc = "reportRunning" THEN "claimed" ELSE "executed")
        PROVE  Quiet(p)
    <3>1. /\ Moved(q, pc).pc = pc /\ Moved(q, pc).cmd = c /\ Moved(q, pc).result = q.result
      BY <1>0, MovedType DEF HandlerPc
    <3>2. polls'[p] = Moved(q, pc) /\ OthersStay(p)
      BY <1>0, <2>2 DEF Goto, OthersStay
    <3>3. UNCHANGED <<cmds, tenantStatus, vms, executions>>
      BY <1>4 DEF AuthoriseReport
    <3>4. QED
      BY <2>2, <3>1, <3>2, <3>3 DEF Quiet, At
  <2>3. QED
    BY <1>4, <2>1, <2>2 DEF AuthoriseReport
<1>5. CASE RecordResult(p)
  <2>1. ASSUME NEW s \in {"running"} \cup Completed, NEW pc \in HandlerPc,
               ReplaceStatus(c, s), Goto(p, pc), q.pc \in {"reportRunning", "reportResult"}
        PROVE  /\ WritesOnly(c) /\ cmds'[c].status = s /\ cmds'[c].attempts = row.attempts
               /\ OthersStay(p) /\ polls'[p].pc = pc
               /\ polls'[p].cmd = c /\ polls'[p].result = q.result
    <3>1. c \in DOMAIN cmds /\ row \in CommandRow /\ s \in CommandStatus
      BY <1>0, <2>1 DEF CommandStatus, Completed
    <3>2. /\ WithStatus(row, s) \in CommandRow /\ WithStatus(row, s).status = s
          /\ WithStatus(row, s).attempts = row.attempts
          /\ Address(WithStatus(row, s)) = Address(row)
      BY <3>1, WithStatusType, AddressKept
    <3>3. WritesOnly(c) /\ cmds'[c] = WithStatus(row, s)
      BY <2>1, <3>1, <3>2, ReplaceWrites DEF ReplaceStatus
    <3>4. polls'[p] = Moved(q, pc) /\ OthersStay(p)
      BY <1>0, <2>1 DEF Goto, OthersStay
    <3>5. Moved(q, pc).pc = pc /\ Moved(q, pc).cmd = c /\ Moved(q, pc).result = q.result
      BY <1>0, MovedType
    <3>6. QED
      BY <3>2, <3>3, <3>4, <3>5
  <2>2. CASE At(p, "reportRunning")
    <3>1. ReplaceStatus(c, "running") /\ Goto(p, "reconcileRunning")
      BY <1>5, <2>2 DEF RecordResult, At
    <3>2. QED
      BY <1>5, <2>1, <2>2, <3>1 DEF RecordResult, Records, At, HandlerPc
  <2>3. CASE At(p, "reportResult")
    <3>1. ReplaceStatus(c, q.result) /\ Goto(p, "reconcileResult") /\ q.result \in Completed
      BY <1>5, <2>3 DEF RecordResult, At, TypeOK
    <3>2. QED
      BY <1>5, <2>1, <2>3, <3>1 DEF RecordResult, Records, At, HandlerPc
  <2>4. QED
    BY <1>5, <2>2, <2>3 DEF RecordResult
<1>6. CASE ReconcileTenant(p)
  <2>1. Moved(q, "running").pc = "running" /\ Moved(q, "running").cmd = c
    BY <1>0, MovedType DEF AgentPc
  <2>2. CASE At(p, "reconcileRunning")
    <3>1. Return(p, "running") /\ Reconcile(row.tenant, row.type, "running")
      BY <1>6, <2>2 DEF ReconcileTenant, At
    <3>2. OthersStay(p) /\ polls'[p] \in {Moved(q, "running"), Idle}
      BY <1>0, <3>1 DEF Return, OthersStay
    <3>3. QED
      BY <1>6, <2>1, <2>2, <3>1, <3>2, IdleType DEF ReconcileTenant, Reconciles, ReportedBy, At
  <2>3. CASE At(p, "reconcileResult")
    <3>1. Abandon(p) /\ Reconcile(row.tenant, row.type, q.result)
      BY <1>6, <2>3 DEF ReconcileTenant, At
    <3>2. OthersStay(p) /\ polls'[p] = Idle
      BY <1>0, <3>1 DEF Abandon, OthersStay
    <3>3. QED
      BY <1>6, <2>3, <3>1, <3>2, IdleType DEF ReconcileTenant, Reconciles, ReportedBy, At
  <2>4. QED
    BY <1>6, <2>2, <2>3 DEF ReconcileTenant
<1>7. CASE Execute(p)
  <2>1. At(p, "running") /\ c \in DOMAIN cmds /\ p[1] \in Hosts
    BY <1>7, HeldRow DEF Execute, At
  <2>2. PICK o \in Outcomes(row.type, row.payload, row.tenant \in vms[p[1]]) :
           /\ polls' = [polls EXCEPT ![p] = Finished(q, o.result)]
           /\ vms' = [vms EXCEPT ![p[1]] = IF o.vm THEN @ \cup {row.tenant} ELSE @ \ {row.tenant}]
           /\ executions' = [executions EXCEPT ![c] = @ + 1]
    BY <1>7 DEF Execute
  <2>3. Finished(q, o.result).pc = "executed" /\ Finished(q, o.result).cmd = c
    BY <1>0, <2>2, OutcomeType, FinishedType
  <2>4. OthersStay(p) /\ polls'[p] = Finished(q, o.result)
    BY <1>0, <2>2 DEF OthersStay
  <2>5. /\ executions'[c] = executions[c] + 1
        /\ \A d \in DOMAIN cmds : d # c => executions'[d] = executions[d]
    <3>1. DOMAIN executions = DOMAIN cmds
      BY LenProperties DEF TypeOK
    <3>2. QED
      BY <2>1, <2>2, <3>1
  <2>6. /\ vms'[p[1]] = IF o.vm THEN vms[p[1]] \cup {row.tenant} ELSE vms[p[1]] \ {row.tenant}
        /\ \A h \in Hosts : h # p[1] => vms'[h] = vms[h]
    BY <2>1, <2>2 DEF TypeOK
  <2>7. Executes(p)
    BY <1>7, <2>1, <2>3, <2>4, <2>5, <2>6 DEF Execute, Executes
  <2>8. QED
    BY <2>7
<1>8. QED
  BY <1>1, <1>2, <1>3, <1>4, <1>5, <1>6, <1>7 DEF PollStep

\* A step of the admin.
LEMMA AdminKinds ==
    ASSUME TypeOK, Admin
    PROVE  Grows \/ Recedes
<1>1. ASSUME NEW r \in CommandRow, Enqueue(r), r.status = "queued", r.attempts = 0
      PROVE  Grows
  <2>1. /\ DOMAIN cmds = 1 .. Len(cmds) /\ DOMAIN cmds' = 1 .. Len(cmds) + 1
        /\ Len(cmds) \in Nat
        /\ \A d \in DOMAIN cmds : cmds'[d] = cmds[d]
        /\ cmds'[Len(cmds) + 1] = r
    BY <1>1, AppendRow, LenProperties DEF Enqueue, TypeOK
  <2>2. /\ \A d \in 1 .. Len(executions) : executions'[d] = executions[d]
        /\ executions'[Len(executions) + 1] = 0
    BY <1>1, AppendProperties DEF Enqueue, TypeOK
  <2>3. Len(executions) = Len(cmds)
    BY DEF TypeOK
  <2>4. QED
    BY <1>1, <2>1, <2>2, <2>3 DEF Enqueue, Grows
<1>2. ASSUME NEW h \in Hosts, NEW t \in Tenants \cup {NoTenant},
             NEW ty \in EnqueuedTypes, NEW pl \in EnqueuedPayloads,
             CreateCommand(h, t, ty, pl)
      PROVE  Grows
  <2>1. ty \in CommandType /\ pl \in Payload
    BY QueueAssumption
  <2>2. QED
    BY <1>1, <1>2, <2>1, QueuedRowType DEF CreateCommand
<1>3. ASSUME NEW c \in DOMAIN cmds, RetryCommand(c)
      PROVE  Grows
  <2>1. cmds[c] \in CommandRow
    BY ElementOfSeq, LenProperties DEF TypeOK
  <2>2. /\ cmds[c].host \in Hosts /\ cmds[c].tenant \in Tenants \cup {NoTenant}
        /\ cmds[c].type \in CommandType /\ cmds[c].payload \in Payload
    BY <2>1 DEF CommandRow
  <2>3. QED
    BY <1>1, <1>3, <2>2, QueuedRowType DEF RetryCommand
<1>4. ASSUME NEW h \in Hosts, ApproveHost(h)
      PROVE  Recedes
  BY <1>4 DEF ApproveHost, Recedes
<1>5. QED
  BY <1>2, <1>3, <1>4 DEF Admin

\* A fault.
LEMMA FaultRecedes ==
    ASSUME TypeOK, Fault
    PROVE  Recedes
<1>1. \A p \in Poll :
         \/ polls'[p].pc = "idle"
         \/ /\ polls'[p].pc = polls[p].pc /\ polls'[p].cmd = polls[p].cmd
            /\ polls'[p].result = polls[p].result
  BY FaultMoves, IdleType, OrphanedType DEF TypeOK
<1>2. UNCHANGED <<cmds, tenantStatus, executions>>
  BY FaultMoves
<1>3. \A h \in Hosts : vms'[h] = vms[h] \/ vms'[h] = {}
  BY DEF Fault, LoseConnection, AgentCrash, ApiCrash, TypeOK
<1>4. ASSUME "api" \notin Faults, NEW p \in Poll,
             polls[p].pc \in {"reconcileRunning", "reconcileResult"}
      PROVE  polls'[p].pc = polls[p].pc
  <2>1. polls \in [Poll -> PollState] /\ Orphaned(polls[p]).pc = polls[p].pc
    BY OrphanedType DEF TypeOK
  <2>2. ASSUME NEW r \in Poll, LoseConnection(r) PROVE polls'[p].pc = polls[p].pc
    BY <1>4, <2>1, <2>2 DEF LoseConnection, Abandon, SendingPc
  <2>3. ASSUME NEW h \in Hosts, AgentCrash(h) PROVE polls'[p].pc = polls[p].pc
    BY <1>4, <2>1, <2>3 DEF AgentCrash, AgentPc
  <2>4. QED
    BY <1>4, <2>2, <2>3 DEF Fault, ApiCrash
<1>5. QED
  <2>1. ASSUME NEW p \in Poll
        PROVE  \/ /\ polls'[p].pc = "idle"
                  /\ "api" \notin Faults =>
                        polls[p].pc \notin {"reconcileRunning", "reconcileResult"}
               \/ /\ polls'[p].pc = polls[p].pc /\ polls'[p].cmd = polls[p].cmd
                  /\ polls'[p].result = polls[p].result
    BY <1>1, <1>4
  <2>2. QED
    BY <1>2, <1>3, <2>1 DEF Recedes

\* Every step.
LEMMA NextKinds ==
    ASSUME TypeOK, [Next]_vars
    PROVE  \/ Grows \/ Recedes
           \/ \E p \in Poll : \/ Quiet(p) \/ Selects(p) \/ Claims(p)
                              \/ Records(p) \/ Reconciles(p) \/ Executes(p)
<1>1. CASE UNCHANGED vars
  BY <1>1 DEF vars, Recedes
<1>2. CASE Next
  BY <1>2, AdminKinds, FaultRecedes, PollKinds DEF Next
<1>3. QED
  BY <1>1, <1>2

-----------------------------------------------------------------------------
(***************************************************************************)
(* Executions against claims, and claims against polls.                    *)
(***************************************************************************)

\* Where a poll has executed its command.
HasRun(p) == polls[p].pc \in {"executed", "reportResult", "reconcileResult"}

\* Every execution and every poll that is on its way to one has its claim.
Counted ==
    \A c \in DOMAIN cmds : executions[c] + Cardinality(Holders(c)) <= cmds[c].attempts

\* What reports a result, or has one on record, has run.
RanBefore ==
    /\ \A p \in Poll : HasRun(p) => executions[polls[p].cmd] > 0
    /\ \A c \in DOMAIN cmds : cmds[c].status \in Completed => executions[c] > 0

\* A queued row has not been claimed, and the polls that hold it are as many as the
\* claims that may follow.
Claimable ==
    \A c \in DOMAIN cmds :
        IF cmds[c].status = "queued" THEN cmds[c].attempts = 0
        ELSE cmds[c].attempts + Cardinality(Selectors(c)) <= Cardinality(Slots)

ClaimInv == TypeOK /\ HeldClaimed /\ Counted /\ RanBefore /\ Claimable

\* The polls that hold a row are polls of its host, so there are finitely many.
LEMMA HoldersFinite ==
    ASSUME TypeOK, NEW c \in DOMAIN cmds
    PROVE  /\ IsFiniteSet(Holders(c)) /\ Cardinality(Holders(c)) \in Nat
           /\ IsFiniteSet(Selectors(c)) /\ Cardinality(Selectors(c)) \in Nat
           /\ Cardinality(Selectors(c)) <= Cardinality(Slots)
           /\ Cardinality(Slots) \in Nat
           /\ executions[c] \in Nat /\ cmds[c].attempts \in Nat
<1> DEFINE S == {cmds[c].host} \X Slots
<1>1. IsFiniteSet(Slots) /\ Cardinality(Slots) \in Nat
  BY QueueAssumption, FS_CardinalityType
<1>2. IsFiniteSet({cmds[c].host}) /\ Cardinality({cmds[c].host}) = 1
  BY FS_Singleton
<1>3. IsFiniteSet(S) /\ Cardinality(S) = 1 * Cardinality(Slots)
  BY <1>1, <1>2, FS_Product
<1>4. \A p \in Poll : cmds[c].host = p[1] => p \in S
  BY DEF Poll
<1>5. Holders(c) \subseteq S /\ Selectors(c) \subseteq S
  BY <1>4, HeldRow DEF Holders, Selectors, At
<1> HIDE DEF S
<1>6. /\ IsFiniteSet(Holders(c)) /\ IsFiniteSet(Selectors(c))
      /\ Cardinality(Selectors(c)) <= Cardinality(S)
  BY <1>3, <1>5, FS_Subset
<1>7. Cardinality(Holders(c)) \in Nat /\ Cardinality(Selectors(c)) \in Nat
  BY <1>6, FS_CardinalityType
<1>8. executions[c] \in Nat /\ cmds[c].attempts \in Nat
  <2>1. cmds[c] \in CommandRow
    BY ElementOfSeq, LenProperties DEF TypeOK
  <2>2. executions[c] \in Nat
    BY ElementOfSeq, LenProperties DEF TypeOK
  <2>3. QED
    BY <2>1, <2>2 DEF CommandRow
<1>9. QED
  BY <1>1, <1>3, <1>6, <1>7, <1>8

\* At most as many as before.
LEMMA FewerOf ==
    ASSUME NEW S, NEW T, IsFiniteSet(S), T \subseteq S
    PROVE  Cardinality(T) <= Cardinality(S) /\ Cardinality(T) \in Nat /\ Cardinality(S) \in Nat
BY FS_Subset, FS_CardinalityType

\* One of them less.
LEMMA OneLess ==
    ASSUME NEW S, NEW x \in S, NEW T, IsFiniteSet(S), T \subseteq S, x \notin T
    PROVE  Cardinality(T) + 1 <= Cardinality(S) /\ Cardinality(T) \in Nat
<1>1. IsFiniteSet(S \ {x}) /\ Cardinality(S \ {x}) = Cardinality(S) - 1
  BY FS_RemoveElement
<1>2. T \subseteq S \ {x}
  OBVIOUS
<1>3. Cardinality(T) <= Cardinality(S \ {x}) /\ Cardinality(T) \in Nat /\ Cardinality(S) \in Nat
  BY <1>1, <1>2, FS_Subset, FS_CardinalityType
<1>4. QED
  BY <1>1, <1>3

\* One more at most.
LEMMA OneMore ==
    ASSUME NEW S, NEW x, NEW T, IsFiniteSet(S), T \subseteq S \cup {x}
    PROVE  Cardinality(T) <= Cardinality(S) + 1 /\ Cardinality(T) \in Nat
<1>1. /\ IsFiniteSet(S \cup {x}) /\ Cardinality(S) \in Nat
      /\ Cardinality(S \cup {x}) \in {Cardinality(S), Cardinality(S) + 1}
  BY FS_AddElement, FS_CardinalityType
<1>2. Cardinality(T) <= Cardinality(S \cup {x}) /\ Cardinality(T) \in Nat
  BY <1>1, FewerOf
<1>3. QED
  BY <1>1, <1>2

\* The polls that hold row c after the step, and those that may claim it.
LEMMA HoldersIs ==
    ASSUME NEW c
    PROVE  /\ Holders(c)' = {p \in Poll : polls'[p].cmd = c /\ polls'[p].pc \in
                               {"claimed", "reportRunning", "reconcileRunning", "running"}}
           /\ Selectors(c)' = {p \in Poll : polls'[p].cmd = c /\ polls'[p].pc = "selected"}
BY DEF Holders, Selectors, At

\* Only a claim adds to the polls that hold a row, and itself only.
LEMMA HoldersStep ==
    ASSUME TypeOK, NEW p \in Poll, NEW c \in DOMAIN cmds
    PROVE  /\ Quiet(p) \/ Selects(p) \/ Records(p) \/ Reconciles(p) => Holders(c)' \subseteq Holders(c)
           /\ Executes(p) => /\ Holders(c)' \subseteq Holders(c)
                             /\ c = polls[p].cmd => p \in Holders(c) /\ p \notin Holders(c)'
           /\ Claims(p) => /\ Holders(c)' \subseteq Holders(c) \cup {p}
                           /\ c # polls[p].cmd => Holders(c)' \subseteq Holders(c)
<1>1. \A r : r \in Holders(c)' <=> /\ r \in Poll /\ polls'[r].cmd = c
                                   /\ polls'[r].pc \in {"claimed", "reportRunning",
                                                        "reconcileRunning", "running"}
  BY HoldersIs
<1>2. \A r : r \in Holders(c) <=> /\ r \in Poll /\ polls[r].cmd = c
                                  /\ polls[r].pc \in {"claimed", "reportRunning",
                                                      "reconcileRunning", "running"}
  BY DEF Holders
<1>3. Quiet(p) => Holders(c)' \subseteq Holders(c)
  BY <1>1, <1>2 DEF Quiet, OthersStay, At
<1>4. Selects(p) => Holders(c)' \subseteq Holders(c)
  BY <1>1, <1>2 DEF Selects, OthersStay, At
<1>5. Records(p) => Holders(c)' \subseteq Holders(c)
  BY <1>1, <1>2 DEF Records, OthersStay, At
<1>6. Reconciles(p) => Holders(c)' \subseteq Holders(c)
  BY <1>1, <1>2 DEF Reconciles, OthersStay, At
<1>7. Executes(p) => /\ Holders(c)' \subseteq Holders(c)
                     /\ c = polls[p].cmd => p \in Holders(c) /\ p \notin Holders(c)'
  BY <1>1, <1>2 DEF Executes, OthersStay, At
<1>8. Claims(p) => /\ Holders(c)' \subseteq Holders(c) \cup {p}
                   /\ c # polls[p].cmd => Holders(c)' \subseteq Holders(c)
  BY <1>1, <1>2 DEF Claims, OthersStay, At
<1>9. QED
  BY <1>3, <1>4, <1>5, <1>6, <1>7, <1>8

\* Claims are counted before executions, and by one each.
LEMMA CountedStep ==
    ASSUME TypeOK, Counted, [Next]_vars
    PROVE  Counted'
<1>0. /\ DOMAIN cmds = 1 .. Len(cmds) /\ Len(cmds) \in Nat
      /\ \A c \in DOMAIN cmds : /\ IsFiniteSet(Holders(c)) /\ Cardinality(Holders(c)) \in Nat
                                /\ executions[c] \in Nat /\ cmds[c].attempts \in Nat
                                /\ executions[c] + Cardinality(Holders(c)) <= cmds[c].attempts
  BY HoldersFinite, LenProperties DEF TypeOK, Counted
\* A row whose counters stay and whose holders do not become more.
<1>1. ASSUME NEW c \in DOMAIN cmds, Holders(c)' \subseteq Holders(c),
             executions'[c] = executions[c], cmds'[c].attempts = cmds[c].attempts
      PROVE  executions'[c] + Cardinality(Holders(c)') <= cmds'[c].attempts
  <2>1. Cardinality(Holders(c)') <= Cardinality(Holders(c)) /\ Cardinality(Holders(c)') \in Nat
    BY <1>0, <1>1, FewerOf
  <2>2. QED
    BY <1>0, <1>1, <2>1
<1>2. CASE Grows
  <2>1. ASSUME NEW c \in DOMAIN cmds
        PROVE  executions'[c] + Cardinality(Holders(c)') <= cmds'[c].attempts
    <3>1. Holders(c)' \subseteq Holders(c)
      BY <1>2, HoldersIs DEF Grows, Holders
    <3>2. QED
      BY <1>1, <1>2, <3>1 DEF Grows
  <2>2. PICK n : n = Len(cmds) + 1
    OBVIOUS
  <2>3. Holders(n)' = {}
    <3>1. n \notin DOMAIN cmds
      BY <1>0, <2>2
    <3>2. ASSUME NEW r \in Holders(n)' PROVE FALSE
      <4>1. r \in Poll /\ polls[r].cmd = n /\ polls[r].pc \notin {"idle", "polling"}
        BY <1>2, <3>2, HoldersIs DEF Grows
      <4>2. QED
        BY <3>1, <4>1, HeldRow
    <3>3. QED
      BY <3>2
  <2>4. Cardinality(Holders(n)') = 0
    BY <2>3, FS_EmptySet
  <2>5. /\ executions'[n] = 0 /\ cmds'[n].attempts = 0
        /\ DOMAIN cmds' = DOMAIN cmds \cup {n}
    BY <1>2, <2>2 DEF Grows
  <2>6. \A c \in DOMAIN cmds' : executions'[c] + Cardinality(Holders(c)') <= cmds'[c].attempts
    BY <2>1, <2>4, <2>5
  <2>7. QED
    BY <2>6 DEF Counted
<1>3. CASE Recedes
  <2>1. ASSUME NEW c \in DOMAIN cmds PROVE Holders(c)' \subseteq Holders(c)
    BY <1>3, HoldersIs DEF Recedes, Holders
  <2>2. QED
    BY <1>1, <1>3, <2>1 DEF Recedes, Counted
<1>4. ASSUME NEW p \in Poll, Quiet(p) \/ Selects(p) \/ Records(p) \/ Reconciles(p)
      PROVE  Counted'
  <2>1. /\ DOMAIN cmds' = DOMAIN cmds
        /\ \A c \in DOMAIN cmds : /\ executions'[c] = executions[c]
                                  /\ cmds'[c].attempts = cmds[c].attempts
    BY <1>4 DEF Quiet, Selects, Records, Reconciles, WritesOnly, RowsStay
  <2>2. \A c \in DOMAIN cmds : Holders(c)' \subseteq Holders(c)
    BY <1>4, HoldersStep
  <2>3. QED
    BY <1>1, <2>1, <2>2 DEF Counted
<1>5. ASSUME NEW p \in Poll, Claims(p)
      PROVE  Counted'
  <2>1. polls[p].cmd \in DOMAIN cmds
    BY <1>5, HeldRow DEF Claims, At
  <2>2. ASSUME NEW c \in DOMAIN cmds
        PROVE  executions'[c] + Cardinality(Holders(c)') <= cmds'[c].attempts
    <3>1. CASE c = polls[p].cmd
      <4>1. Holders(c)' \subseteq Holders(c) \cup {p}
        BY <1>5, HoldersStep
      <4>2. Cardinality(Holders(c)') <= Cardinality(Holders(c)) + 1 /\ Cardinality(Holders(c)') \in Nat
        BY <1>0, <4>1, OneMore
      <4>3. executions'[c] = executions[c] /\ cmds'[c].attempts = cmds[c].attempts + 1
        BY <1>5, <3>1 DEF Claims
      <4>4. QED
        BY <1>0, <4>2, <4>3
    <3>2. CASE c # polls[p].cmd
      <4>1. executions'[c] = executions[c] /\ cmds'[c].attempts = cmds[c].attempts
        BY <1>5, <3>2 DEF Claims, WritesOnly
      <4>2. QED
        BY <1>1, <1>5, <3>2, <4>1, HoldersStep
    <3>3. QED
      BY <3>1, <3>2
  <2>3. QED
    BY <1>5, <2>2 DEF Counted, Claims, WritesOnly, RowsStay
<1>6. ASSUME NEW p \in Poll, Executes(p)
      PROVE  Counted'
  <2>1. UNCHANGED cmds
    BY <1>6 DEF Executes
  <2>2. ASSUME NEW c \in DOMAIN cmds
        PROVE  executions'[c] + Cardinality(Holders(c)') <= cmds'[c].attempts
    <3>1. CASE c = polls[p].cmd
      <4>1. Holders(c)' \subseteq Holders(c) /\ p \in Holders(c) /\ p \notin Holders(c)'
        BY <1>6, <3>1, HoldersStep
      <4>2. Cardinality(Holders(c)') + 1 <= Cardinality(Holders(c)) /\ Cardinality(Holders(c)') \in Nat
        BY <1>0, <4>1, OneLess
      <4>3. executions'[c] = executions[c] + 1
        BY <1>6, <3>1 DEF Executes
      <4>4. QED
        BY <1>0, <2>1, <4>2, <4>3
    <3>2. CASE c # polls[p].cmd
      <4>1. executions'[c] = executions[c]
        BY <1>6, <3>2 DEF Executes
      <4>2. QED
        BY <1>1, <1>6, <2>1, <4>1, HoldersStep
    <3>3. QED
      BY <3>1, <3>2
  <2>3. QED
    BY <2>1, <2>2 DEF Counted
<1>7. QED
  BY <1>2, <1>3, <1>4, <1>5, <1>6, NextKinds

\* What has run stays so, and only a poll that has run reports it.
LEMMA RanStep ==
    ASSUME TypeOK, RanBefore, [Next]_vars
    PROVE  RanBefore'
<1>0. \A c \in DOMAIN cmds : executions[c] \in Nat
  BY HoldersFinite
<1>1. /\ \A c \in DOMAIN cmds : c \in DOMAIN cmds'
      /\ \A c \in DOMAIN cmds : executions[c] > 0 => executions'[c] > 0
  <2>1. CASE Grows \/ Recedes
    BY <2>1 DEF Grows, Recedes
  <2>2. ASSUME NEW p \in Poll, Executes(p)
        PROVE  \A c \in DOMAIN cmds : executions[c] > 0 => executions'[c] > 0
    BY <1>0, <2>2 DEF Executes
  <2>3. QED
    BY <2>1, <2>2, NextKinds DEF Quiet, Selects, Claims, Records, Reconciles, Executes,
                                 WritesOnly, RowsStay
<1>2. ASSUME NEW r \in Poll, polls'[r].pc \in {"executed", "reportResult", "reconcileResult"}
      PROVE  executions'[polls'[r].cmd] > 0
  <2>1. CASE HasRun(r) /\ polls'[r].cmd = polls[r].cmd
    <3>1. polls[r].cmd \in DOMAIN cmds /\ executions[polls[r].cmd] > 0
      BY <2>1, HeldRow DEF HasRun, RanBefore
    <3>2. QED
      BY <1>1, <2>1, <3>1
  <2>2. CASE Executes(r)
    <3>1. polls[r].cmd \in DOMAIN cmds
      BY <2>2, HeldRow DEF Executes, At
    <3>2. QED
      BY <1>0, <2>2, <3>1 DEF Executes
  <2>3. ASSUME NEW p \in Poll, \/ Quiet(p) \/ Selects(p) \/ Claims(p)
                               \/ Records(p) \/ Reconciles(p) \/ Executes(p)
        PROVE  (HasRun(r) /\ polls'[r].cmd = polls[r].cmd) \/ Executes(r)
    <3>1. CASE r # p
      <4>1. polls'[r] = polls[r]
        BY <2>3, <3>1 DEF Quiet, Selects, Claims, Records, Reconciles, Executes, OthersStay
      <4>2. QED
        BY <1>2, <4>1 DEF HasRun
    <3>2. CASE r = p
      BY <1>2, <2>3, <3>2 DEF Quiet, Selects, Claims, Records, Reconciles, HasRun, At
    <3>3. QED
      BY <3>1, <3>2
  <2>4. CASE Grows \/ Recedes
    BY <1>2, <2>1, <2>4 DEF Grows, Recedes, HasRun
  <2>5. QED
    BY <2>1, <2>2, <2>3, <2>4, NextKinds
<1>3. ASSUME NEW c \in DOMAIN cmds', cmds'[c].status \in Completed
      PROVE  executions'[c] > 0
  <2>1. CASE c \in DOMAIN cmds /\ cmds[c].status \in Completed
    BY <1>1, <2>1 DEF RanBefore
  <2>2. ASSUME NEW p \in Poll, HasRun(p), c = polls[p].cmd
        PROVE  executions'[c] > 0
    <3>1. c \in DOMAIN cmds /\ executions[c] > 0
      BY <2>2, HeldRow DEF HasRun, RanBefore
    <3>2. QED
      BY <1>1, <3>1
  <2>3. CASE Grows
    BY <1>3, <2>1, <2>3 DEF Grows, Completed
  <2>4. CASE Recedes
    BY <1>3, <2>1, <2>4 DEF Recedes
  <2>5. ASSUME NEW p \in Poll, \/ Quiet(p) \/ Selects(p) \/ Claims(p)
                               \/ Records(p) \/ Reconciles(p) \/ Executes(p)
        PROVE  executions'[c] > 0
    <3>1. CASE cmds'[c] = cmds[c] /\ DOMAIN cmds' = DOMAIN cmds
      BY <1>3, <2>1, <3>1
    <3>2. CASE Claims(p) /\ c = polls[p].cmd
      BY <1>3, <3>2 DEF Claims, Completed
    <3>3. CASE Records(p) /\ c = polls[p].cmd
      BY <1>3, <2>2, <3>3 DEF Records, Completed, HasRun, At
    <3>4. QED
      BY <1>3, <2>5, <3>1, <3>2, <3>3 DEF Quiet, Selects, Claims, Records, Reconciles, Executes,
                                         WritesOnly, RowsStay
  <2>6. QED
    BY <2>3, <2>4, <2>5, NextKinds
<1>4. QED
  BY <1>2, <1>3 DEF RanBefore, HasRun

\* Only a queued row gains a poll that may claim it; a claim takes one away.
LEMMA SelectorsStep ==
    ASSUME TypeOK, NEW p \in Poll, NEW c \in DOMAIN cmds
    PROVE  /\ Quiet(p) \/ Claims(p) \/ Records(p) \/ Reconciles(p) \/ Executes(p)
                => Selectors(c)' \subseteq Selectors(c)
           /\ Selects(p) /\ cmds[c].status # "queued" => Selectors(c)' \subseteq Selectors(c)
           /\ Claims(p) /\ c = polls[p].cmd => p \in Selectors(c) /\ p \notin Selectors(c)'
<1>1. \A r : r \in Selectors(c)' <=> r \in Poll /\ polls'[r].cmd = c /\ polls'[r].pc = "selected"
  BY HoldersIs
<1>2. \A r : r \in Selectors(c) <=> r \in Poll /\ polls[r].cmd = c /\ polls[r].pc = "selected"
  BY DEF Selectors, At
<1>3. Quiet(p) => Selectors(c)' \subseteq Selectors(c)
  BY <1>1, <1>2 DEF Quiet, OthersStay, At
<1>4. Selects(p) /\ cmds[c].status # "queued" => Selectors(c)' \subseteq Selectors(c)
  BY <1>1, <1>2 DEF Selects, OthersStay, At, Waiting
<1>5. Claims(p) => /\ Selectors(c)' \subseteq Selectors(c)
                   /\ c = polls[p].cmd => p \in Selectors(c) /\ p \notin Selectors(c)'
  BY <1>1, <1>2 DEF Claims, OthersStay, At
<1>6. Records(p) => Selectors(c)' \subseteq Selectors(c)
  BY <1>1, <1>2 DEF Records, OthersStay, At
<1>7. Reconciles(p) => Selectors(c)' \subseteq Selectors(c)
  BY <1>1, <1>2 DEF Reconciles, OthersStay, At
<1>8. Executes(p) => Selectors(c)' \subseteq Selectors(c)
  BY <1>1, <1>2 DEF Executes, OthersStay, At
<1>9. QED
  BY <1>3, <1>4, <1>5, <1>6, <1>7, <1>8

\* A row that is claimed keeps its polls or trades one for a claim.
LEMMA ClaimableStep ==
    ASSUME TypeOK, HeldClaimed, Claimable, [Next]_vars
    PROVE  Claimable'
<1>0. ASSUME NEW c \in DOMAIN cmds
      PROVE  /\ IsFiniteSet(Selectors(c)) /\ Cardinality(Selectors(c)) \in Nat
             /\ cmds[c].attempts \in Nat /\ Cardinality(Slots) \in Nat
             /\ cmds[c].attempts + Cardinality(Selectors(c)) <= Cardinality(Slots)
  <2>1. /\ IsFiniteSet(Selectors(c)) /\ Cardinality(Selectors(c)) \in Nat
        /\ cmds[c].attempts \in Nat /\ Cardinality(Slots) \in Nat
        /\ Cardinality(Selectors(c)) <= Cardinality(Slots)
    BY HoldersFinite
  <2>2. QED
    BY <2>1 DEF Claimable
<1> DEFINE Fine(c) == IF cmds'[c].status = "queued" THEN cmds'[c].attempts = 0
                      ELSE cmds'[c].attempts + Cardinality(Selectors(c)') <= Cardinality(Slots)
\* A row that nobody writes.
<1>1. ASSUME NEW c \in DOMAIN cmds, cmds'[c] = cmds[c],
             cmds[c].status # "queued" => Selectors(c)' \subseteq Selectors(c)
      PROVE  Fine(c)
  <2>1. CASE cmds[c].status = "queued"
    BY <1>1, <2>1 DEF Claimable
  <2>2. CASE cmds[c].status # "queued"
    <3>1. Cardinality(Selectors(c)') <= Cardinality(Selectors(c)) /\ Cardinality(Selectors(c)') \in Nat
      BY <1>0, <1>1, <2>2, FewerOf
    <3>2. QED
      BY <1>0, <1>1, <2>2, <3>1
  <2>3. QED
    BY <2>1, <2>2
<1>2. CASE Grows
  <2>1. ASSUME NEW c \in DOMAIN cmds PROVE Fine(c)
    <3>1. Selectors(c)' \subseteq Selectors(c)
      BY <1>2, HoldersIs DEF Grows, Selectors, At
    <3>2. QED
      BY <1>1, <1>2, <3>1 DEF Grows
  <2>2. PICK n : n = Len(cmds) + 1
    OBVIOUS
  <2>3. DOMAIN cmds' = DOMAIN cmds \cup {n} /\ Fine(n)
    BY <1>2, <2>2 DEF Grows
  <2>4. QED
    BY <2>1, <2>3 DEF Claimable
<1>3. CASE Recedes
  <2>1. ASSUME NEW c \in DOMAIN cmds PROVE Selectors(c)' \subseteq Selectors(c)
    BY <1>3, HoldersIs DEF Recedes, Selectors, At
  <2>2. QED
    BY <1>1, <1>3, <2>1 DEF Recedes, Claimable
<1>4. ASSUME NEW p \in Poll, Quiet(p) \/ Selects(p) \/ Reconciles(p) \/ Executes(p)
      PROVE  Claimable'
  <2>1. UNCHANGED cmds
    BY <1>4 DEF Quiet, Selects, Reconciles, Executes
  <2>2. \A c \in DOMAIN cmds : cmds[c].status # "queued" => Selectors(c)' \subseteq Selectors(c)
    BY <1>4, SelectorsStep
  <2>3. \A c \in DOMAIN cmds : Fine(c)
    BY <1>1, <2>1, <2>2
  <2>4. QED
    BY <2>1, <2>3 DEF Claimable
<1>5. ASSUME NEW p \in Poll, Claims(p)
      PROVE  Claimable'
  <2>1. ASSUME NEW c \in DOMAIN cmds PROVE Fine(c)
    <3>1. CASE c = polls[p].cmd
      <4>1. Selectors(c)' \subseteq Selectors(c) /\ p \in Selectors(c) /\ p \notin Selectors(c)'
        BY <1>5, <3>1, SelectorsStep
      <4>2. Cardinality(Selectors(c)') + 1 <= Cardinality(Selectors(c)) /\ Cardinality(Selectors(c)') \in Nat
        BY <1>0, <4>1, OneLess
      <4>3. cmds'[c].attempts = cmds[c].attempts + 1 /\ cmds'[c].status = "claimed"
        BY <1>5, <3>1 DEF Claims
      <4>4. QED
        BY <1>0, <4>2, <4>3
    <3>2. CASE c # polls[p].cmd
      <4>1. cmds'[c] = cmds[c]
        BY <1>5, <3>2 DEF Claims, WritesOnly
      <4>2. QED
        BY <1>1, <1>5, <4>1, SelectorsStep
    <3>3. QED
      BY <3>1, <3>2
  <2>2. DOMAIN cmds' = DOMAIN cmds
    BY <1>5 DEF Claims, WritesOnly, RowsStay
  <2>3. QED
    BY <2>1, <2>2 DEF Claimable
<1>6. ASSUME NEW p \in Poll, Records(p)
      PROVE  Claimable'
  <2>1. ASSUME NEW c \in DOMAIN cmds PROVE Fine(c)
    <3>0. Selectors(c)' \subseteq Selectors(c)
      BY <1>6, SelectorsStep
    <3>1. CASE c = polls[p].cmd
      <4>1. Cardinality(Selectors(c)') <= Cardinality(Selectors(c)) /\ Cardinality(Selectors(c)') \in Nat
        BY <1>0, <3>0, FewerOf
      <4>2. cmds'[c].attempts = cmds[c].attempts /\ cmds'[c].status # "queued"
        BY <1>6, <3>1 DEF Records, Completed
      <4>3. QED
        BY <1>0, <4>1, <4>2
    <3>2. CASE c # polls[p].cmd
      <4>1. cmds'[c] = cmds[c]
        BY <1>6, <3>2 DEF Records, WritesOnly
      <4>2. QED
        BY <1>1, <3>0, <4>1
    <3>3. QED
      BY <3>1, <3>2
  <2>2. DOMAIN cmds' = DOMAIN cmds
    BY <1>6 DEF Records, WritesOnly, RowsStay
  <2>3. QED
    BY <2>1, <2>2 DEF Claimable
<1>7. QED
  BY <1>2, <1>3, <1>4, <1>5, <1>6, NextKinds

\* The claims, the executions and the polls of a command stay in balance.
THEOREM ClaimInvariant == Spec => []ClaimInv
<1>1. Init => Counted /\ RanBefore /\ Claimable
  <2>1. ASSUME Init PROVE DOMAIN cmds = {} /\ \A p \in Poll : polls[p].pc = "idle"
    BY <2>1, IdleType, EmptySeq, LenProperties DEF Init
  <2>2. QED
    BY <2>1 DEF Counted, RanBefore, Claimable, HasRun
<1>2. TypeOK /\ HeldClaimed /\ Counted /\ RanBefore /\ Claimable /\ [Next]_vars
        => Counted' /\ RanBefore' /\ Claimable'
  BY CountedStep, RanStep, ClaimableStep
<1>3. FifoInv => TypeOK /\ HeldClaimed
  BY DEF FifoInv
<1>4. QED
  BY <1>1, <1>2, <1>3, FifoInvariant, PTL DEF Spec, ClaimInv

\* attempts counts every execution, also of the polls that are cut short: a command
\* runs no more often than it was claimed (agent.routes.ts counts, the agent runs),
\* and a row that is finished has run.
THEOREM NothingRunsUnclaimed == Spec => []ExecutionsClaimed
<1>1. ClaimInv => ExecutionsClaimed
  BY DEF ClaimInv, Counted, RanBefore, ExecutionsClaimed
<1>2. QED
  BY <1>1, ClaimInvariant, PTL

\* A command is claimed no more often than its agent may have polls open, since the
\* claim itself does not look at the row: exactly-once claiming is the case of one.
THEOREM ClaimedOncePerPoll == Spec => []ClaimsBounded
<1>1. ASSUME ClaimInv, NEW c \in DOMAIN cmds
      PROVE  cmds[c].attempts + Cardinality(Selectors(c)) <= Cardinality(Slots)
  <2>1. /\ Cardinality(Selectors(c)) \in Nat /\ Cardinality(Slots) \in Nat
        /\ Cardinality(Selectors(c)) <= Cardinality(Slots)
    BY <1>1, HoldersFinite DEF ClaimInv
  <2>2. QED
    BY <1>1, <2>1 DEF ClaimInv, Claimable
<1>2. ClaimInv => ClaimsBounded
  BY <1>1 DEF ClaimsBounded
<1>3. QED
  BY <1>2, ClaimInvariant, PTL

-----------------------------------------------------------------------------
(***************************************************************************)
(* One poll at a time.                                                     *)
(***************************************************************************)

\* The agent's polls do not overlap: every command ends before the next tick.
OneSlot == \E s : Slots = {s}

\* The status of the row that a poll holds is the one its poll has given it.
InStepWith(q, status) ==
    /\ q.pc = "selected" => status = "queued"
    /\ q.pc \in {"claimed", "reportRunning"} => status = "claimed"
    /\ q.pc \in {"reconcileRunning", "running", "executed", "reportResult"} => status = "running"
    /\ q.pc = "reconcileResult" => status = q.result

InStep == \A p \in Poll : InStepWith(polls[p], cmds[polls[p].cmd].status)

\* Behind the row that a poll holds, its host's rows are queued.
Ahead ==
    \A p \in Poll : polls[p].pc \notin {"idle", "polling"} =>
        \A d \in DOMAIN cmds : d > polls[p].cmd /\ cmds[d].host = p[1] => cmds[d].status = "queued"

\* A row is held by one poll.
LEMMA OneHolder ==
    ASSUME OneSlot, TypeOK, NEW p \in Poll, NEW r \in Poll, p # r,
           polls[p].pc \notin {"idle", "polling"}, polls[r].pc \notin {"idle", "polling"}
    PROVE  /\ polls[p].cmd # polls[r].cmd /\ p[1] # r[1]
<1>1. p[1] = r[1] => p = r
  BY DEF Poll, OneSlot
<1>2. cmds[polls[p].cmd].host = p[1] /\ cmds[polls[r].cmd].host = r[1]
  BY HeldRow
<1>3. QED
  BY <1>1, <1>2

\* No other poll writes the row of a poll.
LEMMA HeldRowStays ==
    ASSUME OneSlot, TypeOK, NEW p \in Poll, NEW r \in Poll, p # r,
           polls[r].pc \notin {"idle", "polling"},
           Quiet(p) \/ Selects(p) \/ Claims(p) \/ Records(p) \/ Reconciles(p) \/ Executes(p)
    PROVE  polls'[r] = polls[r] /\ cmds'[polls[r].cmd] = cmds[polls[r].cmd]
<1>1. polls'[r] = polls[r] /\ polls[r].cmd \in DOMAIN cmds
  BY HeldRow DEF Quiet, Selects, Claims, Records, Reconciles, Executes, OthersStay
<1>2. CASE Claims(p) \/ Records(p)
  <2>1. polls[p].pc \notin {"idle", "polling"}
    BY <1>2 DEF Claims, Records, At
  <2>2. polls[p].cmd # polls[r].cmd
    BY <2>1, OneHolder
  <2>3. QED
    BY <1>1, <1>2, <2>2 DEF Claims, Records, WritesOnly
<1>3. CASE Quiet(p) \/ Selects(p) \/ Reconciles(p) \/ Executes(p)
  BY <1>1, <1>3 DEF Quiet, Selects, Reconciles, Executes
<1>4. QED
  BY <1>2, <1>3

\* A poll and its row go through their states together.
LEMMA InStepStep ==
    ASSUME OneSlot, TypeOK, InStep, [Next]_vars
    PROVE  InStep'
<1>1. CASE Grows
  <2>1. ASSUME NEW r \in Poll PROVE InStepWith(polls'[r], cmds'[polls'[r].cmd].status)
    <3>1. CASE polls[r].pc \in {"idle", "polling"}
      BY <1>1, <3>1 DEF Grows, InStepWith
    <3>2. CASE polls[r].pc \notin {"idle", "polling"}
      BY <1>1, <3>2, HeldRow DEF Grows, InStep
    <3>3. QED
      BY <3>1, <3>2
  <2>2. QED
    BY <2>1 DEF InStep
<1>2. CASE Recedes
  BY <1>2 DEF Recedes, InStep, InStepWith
<1>3. ASSUME NEW p \in Poll, \/ Quiet(p) \/ Selects(p) \/ Claims(p)
                             \/ Records(p) \/ Reconciles(p) \/ Executes(p)
      PROVE  InStep'
  <2>1. ASSUME NEW r \in Poll, r # p PROVE InStepWith(polls'[r], cmds'[polls'[r].cmd].status)
    <3>1. CASE polls[r].pc \in {"idle", "polling"}
      <4>1. polls'[r] = polls[r]
        BY <1>3, <2>1 DEF Quiet, Selects, Claims, Records, Reconciles, Executes, OthersStay
      <4>2. QED
        BY <3>1, <4>1 DEF InStepWith
    <3>2. CASE polls[r].pc \notin {"idle", "polling"}
      BY <1>3, <2>1, <3>2, HeldRowStays DEF InStep
    <3>3. QED
      BY <3>1, <3>2
  <2>2. InStepWith(polls[p], cmds[polls[p].cmd].status)
    BY DEF InStep
  <2>3. InStepWith(polls'[p], cmds'[polls'[p].cmd].status)
    <3>1. CASE Quiet(p)
      BY <2>2, <3>1 DEF Quiet, InStepWith, At
    <3>2. CASE Selects(p)
      BY <3>2 DEF Selects, InStepWith, Waiting
    <3>3. CASE Claims(p)
      BY <2>2, <3>3 DEF Claims, InStepWith, At
    <3>4. CASE Records(p)
      BY <2>2, <3>4 DEF Records, InStepWith, At
    <3>5. CASE Reconciles(p)
      BY <2>2, <3>5 DEF Reconciles, InStepWith, At
    <3>6. CASE Executes(p)
      BY <2>2, <3>6 DEF Executes, InStepWith, At
    <3>7. QED
      BY <1>3, <3>1, <3>2, <3>3, <3>4, <3>5, <3>6
  <2>4. QED
    BY <2>1, <2>3 DEF InStep
<1>4. QED
  BY <1>1, <1>2, <1>3, NextKinds

\* A poll selects the oldest row of its host, and nobody else takes one behind it.
LEMMA AheadStep ==
    ASSUME OneSlot, TypeOK, TypeOK', OldestFirst, Ahead, [Next]_vars
    PROVE  Ahead'
<1>0. /\ DOMAIN cmds = 1 .. Len(cmds) /\ Len(cmds) \in Nat
      /\ \A c \in DOMAIN cmds : c \in Nat
  BY LenProperties DEF TypeOK
<1>1. CASE Grows
  <2>1. ASSUME NEW r \in Poll, polls'[r].pc \notin {"idle", "polling"},
               NEW d \in DOMAIN cmds', d > polls'[r].cmd, cmds'[d].host = r[1]
        PROVE  cmds'[d].status = "queued"
    BY <1>1, <2>1 DEF Grows, Ahead
  <2>2. QED
    BY <2>1 DEF Ahead
<1>2. CASE Recedes
  BY <1>2 DEF Recedes, Ahead
<1>3. ASSUME NEW p \in Poll, \/ Quiet(p) \/ Selects(p) \/ Claims(p)
                             \/ Records(p) \/ Reconciles(p) \/ Executes(p)
      PROVE  Ahead'
  <2>0. /\ DOMAIN cmds' = DOMAIN cmds
        /\ \A d \in DOMAIN cmds : cmds'[d].host = cmds[d].host
        /\ \A d \in DOMAIN cmds : cmds'[d] = cmds[d] \/ (d = polls[p].cmd /\ cmds[d].host = p[1])
    <3>1. CASE Quiet(p) \/ Selects(p) \/ Reconciles(p) \/ Executes(p)
      BY <3>1 DEF Quiet, Selects, Reconciles, Executes
    <3>2. CASE Claims(p) \/ Records(p)
      <4>1. cmds[polls[p].cmd].host = p[1]
        BY <3>2, HeldRow DEF Claims, Records, At
      <4>2. QED
        BY <3>2, <4>1 DEF Claims, Records, WritesOnly, RowsStay, Address
    <3>3. QED
      BY <1>3, <3>1, <3>2
  <2>1. ASSUME NEW r \in Poll, r # p, polls'[r].pc \notin {"idle", "polling"},
               NEW d \in DOMAIN cmds', d > polls'[r].cmd, cmds'[d].host = r[1]
        PROVE  cmds'[d].status = "queued"
    <3>1. polls'[r] = polls[r]
      BY <1>3, <2>1 DEF Quiet, Selects, Claims, Records, Reconciles, Executes, OthersStay
    <3>2. cmds[d].status = "queued"
      BY <2>0, <2>1, <3>1 DEF Ahead
    <3>3. p[1] # r[1]
      BY <2>1 DEF Poll, OneSlot
    <3>4. QED
      BY <2>0, <2>1, <3>2, <3>3
  <2>2. ASSUME polls'[p].pc \notin {"idle", "polling"},
               NEW d \in DOMAIN cmds', d > polls'[p].cmd, cmds'[d].host = p[1]
        PROVE  cmds'[d].status = "queued"
    <3>1. CASE Selects(p)
      <4>1. /\ polls'[p].cmd \in DOMAIN cmds /\ cmds[polls'[p].cmd].status = "queued"
            /\ cmds[polls'[p].cmd].host = p[1] /\ UNCHANGED cmds
        BY <3>1 DEF Selects, Waiting
      <4>2. polls'[p].cmd < d
        BY <1>0, <2>0, <2>2, <4>1
      <4>3. QED
        BY <2>2, <4>1, <4>2 DEF OldestFirst
    <3>2. CASE ~Selects(p)
      <4>1. polls'[p].cmd = polls[p].cmd /\ polls[p].pc \notin {"idle", "polling"}
        BY <1>3, <2>2, <3>2 DEF Quiet, Claims, Records, Reconciles, Executes, At
      <4>2. cmds[d].status = "queued" /\ d # polls[p].cmd
        BY <1>0, <2>0, <2>2, <4>1 DEF Ahead
      <4>3. QED
        BY <2>0, <2>2, <4>2
    <3>3. QED
      BY <3>1, <3>2
  <2>3. QED
    BY <2>1, <2>2 DEF Ahead
<1>4. QED
  BY <1>1, <1>2, <1>3, NextKinds

SerialInv == ClaimInv /\ FifoInv /\ InStep /\ Ahead

\* With one poll at a time the row that is held is the front of its queue.
LEMMA SerialInvariant ==
    ASSUME OneSlot
    PROVE  Spec => []SerialInv
<1>1. Init => InStep /\ Ahead
  <2>1. ASSUME Init PROVE \A p \in Poll : polls[p].pc = "idle"
    BY <2>1, IdleType DEF Init
  <2>2. QED
    BY <2>1 DEF InStep, InStepWith, Ahead
<1>2. ClaimInv /\ FifoInv /\ TypeOK' /\ InStep /\ Ahead /\ [Next]_vars => InStep' /\ Ahead'
  BY InStepStep, AheadStep DEF ClaimInv, FifoInv
<1>3. FifoInv => TypeOK
  BY DEF FifoInv
<1>4. QED
  BY <1>1, <1>2, <1>3, FifoInvariant, ClaimInvariant, PTL DEF Spec, SerialInv

\* With one poll at a time a row goes from queued over claimed and running to its
\* result, and never back, whatever the network and the processes do.
THEOREM RowsMoveForward ==
    ASSUME OneSlot
    PROVE  Spec => ForwardOnly
<1> DEFINE Forward == \A c \in DOMAIN cmds :
                         cmds'[c].status # cmds[c].status
                            => Rank[cmds[c].status] < Rank[cmds'[c].status]
<1>1. ASSUME SerialInv, [Next]_vars PROVE [Forward]_cmds
  <2>1. TypeOK /\ InStep
    BY <1>1 DEF SerialInv, ClaimInv
  <2>2. ASSUME NEW p \in Poll, Claims(p) PROVE Forward
    <3>1. cmds[polls[p].cmd].status = "queued"
      BY <2>1, <2>2 DEF Claims, At, InStep, InStepWith
    <3>2. QED
      BY <2>2, <3>1 DEF Claims, WritesOnly, Rank
  <2>3. ASSUME NEW p \in Poll, Records(p) PROVE Forward
    <3>1. CASE At(p, "reportRunning")
      <4>1. cmds[polls[p].cmd].status = "claimed"
        BY <2>1, <3>1 DEF At, InStep, InStepWith
      <4>2. QED
        BY <2>3, <3>1, <4>1 DEF Records, WritesOnly, Rank, At
    <3>2. CASE At(p, "reportResult")
      <4>1. cmds[polls[p].cmd].status = "running"
        BY <2>1, <3>2 DEF At, InStep, InStepWith
      <4>2. cmds'[polls[p].cmd].status \in {"succeeded", "failed"}
        BY <2>3, <3>2 DEF Records, Completed, At
      <4>3. QED
        BY <2>3, <4>1, <4>2 DEF Records, WritesOnly, Rank
    <3>3. QED
      BY <2>3, <3>1, <3>2 DEF Records
  <2>4. CASE Grows
    BY <2>4 DEF Grows
  <2>5. QED
    BY <1>1, <2>1, <2>2, <2>3, <2>4, NextKinds DEF Recedes, Quiet, Selects, Reconciles, Executes
<1>2. QED
  BY <1>1, SerialInvariant, PTL DEF Spec, ForwardOnly

-----------------------------------------------------------------------------
(***************************************************************************)
(* The agent's registry.                                                   *)
(***************************************************************************)

\* The commands that decide whether a MicroVM runs, and the newest of them.
Decides(row) == Installs(row.type, row.payload) \/ Removes(row.type, row.payload)

NewestInstalls(h, t) ==
    \E c \in Deciding(h, t) :
        /\ \A d \in Deciding(h, t) : d <= c
        /\ Installs(cmds[c].type, cmds[c].payload)

\* Who decides, in words of the rows, before and after a step.
LEMMA DecidingIs ==
    ASSUME NEW h, NEW t
    PROVE  /\ \A c : c \in Deciding(h, t) <=>
                 /\ c \in DOMAIN cmds /\ executions[c] > 0
                 /\ cmds[c].host = h /\ cmds[c].tenant = t /\ Decides(cmds[c])
           /\ \A c : c \in Deciding(h, t)' <=>
                 /\ c \in DOMAIN cmds' /\ executions'[c] > 0
                 /\ cmds'[c].host = h /\ cmds'[c].tenant = t /\ Decides(cmds'[c])
BY DEF Deciding, Decides

\* A row whose address stays decides as before.
LEMMA AddressDecides ==
    ASSUME NEW r, NEW s, Address(r) = Address(s)
    PROVE  /\ r.host = s.host /\ r.tenant = s.tenant
           /\ Decides(r) <=> Decides(s)
           /\ Installs(r.type, r.payload) <=> Installs(s.type, s.payload)
<1>1. r.host = s.host /\ r.tenant = s.tenant /\ r.type = s.type /\ r.payload = s.payload
  BY DEF Address
<1>2. QED
  BY <1>1 DEF Decides

\* With the same commands executed, the newest one that decides is the same.
LEMMA NewestStays ==
    ASSUME NEW h, NEW t, NewestInstalls(h, t), DOMAIN cmds \subseteq DOMAIN cmds',
           \A c \in DOMAIN cmds : Address(cmds'[c]) = Address(cmds[c]),
           \A c \in DOMAIN cmds' : cmds'[c].host = h /\ cmds'[c].tenant = t
                                      /\ Decides(cmds'[c]) /\ executions'[c] > 0
                                      => c \in DOMAIN cmds /\ executions[c] > 0,
           \A c \in Deciding(h, t) : executions'[c] > 0
    PROVE  NewestInstalls(h, t)'
<1>1. ASSUME NEW c \in Deciding(h, t)
      PROVE  /\ c \in Deciding(h, t)'
             /\ Installs(cmds[c].type, cmds[c].payload) => Installs(cmds'[c].type, cmds'[c].payload)
  <2>1. c \in DOMAIN cmds /\ cmds[c].host = h /\ cmds[c].tenant = t /\ Decides(cmds[c])
    BY DecidingIs
  <2>2. Address(cmds'[c]) = Address(cmds[c])
    BY <2>1
  <2>3. QED
    BY <2>1, <2>2, AddressDecides, DecidingIs
<1>2. ASSUME NEW c \in Deciding(h, t)' PROVE c \in Deciding(h, t)
  <2>1. c \in DOMAIN cmds' /\ executions'[c] > 0
        /\ cmds'[c].host = h /\ cmds'[c].tenant = t /\ Decides(cmds'[c])
    BY DecidingIs
  <2>2. c \in DOMAIN cmds /\ executions[c] > 0
    BY <2>1
  <2>3. Address(cmds'[c]) = Address(cmds[c])
    BY <2>2
  <2>4. QED
    BY <2>1, <2>2, <2>3, AddressDecides, DecidingIs
<1>3. PICK c \in Deciding(h, t) : /\ \A d \in Deciding(h, t) : d <= c
                                  /\ Installs(cmds[c].type, cmds[c].payload)
  BY DEF NewestInstalls
<1>4. /\ c \in Deciding(h, t)' /\ Installs(cmds'[c].type, cmds'[c].payload)
      /\ \A d \in Deciding(h, t)' : d <= c
  BY <1>1, <1>2, <1>3
<1>5. QED
  BY <1>4 DEF NewestInstalls

\* No newer command of the host has run when a poll executes its own.
LEMMA RunsInOrder ==
    ASSUME ClaimInv, Ahead, NEW p \in Poll, At(p, "running"),
           NEW d \in DOMAIN cmds, cmds[d].host = p[1], executions[d] > 0
    PROVE  d <= polls[p].cmd
<1>1. SUFFICES ASSUME d > polls[p].cmd PROVE FALSE
  BY HeldRow, LenProperties DEF ClaimInv, At
<1>2. cmds[d].status = "queued"
  BY <1>1 DEF Ahead, At
<1>3. cmds[d].attempts = 0
  BY <1>2 DEF ClaimInv, Claimable
<1>4. executions[d] + Cardinality(Holders(d)) <= 0
  BY <1>3 DEF ClaimInv, Counted
<1>5. Cardinality(Holders(d)) \in Nat /\ executions[d] \in Nat
  BY HoldersFinite DEF ClaimInv
<1>6. QED
  BY <1>4, <1>5

\* What execute leaves of a MicroVM: an installing command may put it in the registry,
\* a removing one never leaves it there, and any other leaves it as it was.
LEMMA OutcomeVm ==
    ASSUME NEW ty, NEW pl, NEW S, NEW t, NEW o \in Outcomes(ty, pl, t \in S)
    PROVE  /\ Removes(ty, pl) => ~o.vm
           /\ ~Installs(ty, pl) /\ ~Removes(ty, pl) => (o.vm <=> t \in S)
<1> DEFINE vm == t \in S
<1>1. Removes(ty, pl) => ~Installs(ty, pl) /\ ty # "create_tenant"
  BY DEF Removes, Installs
<1>2. Failed(vm).vm = vm /\ Failed(vm /\ ~Removes(ty, pl)).vm = (vm /\ ~Removes(ty, pl))
  BY DEF Failed
<1>3. \/ ty = "create_tenant" /\ pl # "full" /\ o = Failed(vm)
      \/ o.vm = (Installs(ty, pl) \/ (vm /\ ~Removes(ty, pl)))
      \/ o = Failed(vm /\ ~Removes(ty, pl))
  BY DEF Outcomes
<1>4. QED
  BY <1>1, <1>2, <1>3

\* An execution leaves the registry as the newest command executed wants it.
LEMMA ExecuteFollows ==
    ASSUME ClaimInv, Ahead, RegistryFollowsQueue, NEW p \in Poll, Executes(p)
    PROVE  RegistryFollowsQueue'
<1> DEFINE n == polls[p].cmd
<1>0. /\ At(p, "running") /\ n \in DOMAIN cmds /\ cmds[n].host = p[1] /\ p[1] \in Hosts
      /\ UNCHANGED cmds /\ executions[n] \in Nat /\ executions'[n] = executions[n] + 1
      /\ \A d \in DOMAIN cmds : d # n => executions'[d] = executions[d]
  BY HeldRow, HoldersFinite DEF ClaimInv, Executes, At
<1> HIDE DEF n
<1>1. SUFFICES ASSUME NEW h \in Hosts, NEW t \in Tenants, t \in vms'[h]
               PROVE  NewestInstalls(h, t)'
  BY DEF RegistryFollowsQueue, NewestInstalls
<1>2. CASE t \in vms[h] /\ ~(cmds[n].host = h /\ cmds[n].tenant = t /\ Decides(cmds[n]))
  <2>1. NewestInstalls(h, t)
    BY <1>2 DEF RegistryFollowsQueue, NewestInstalls
  <2>2. \A c \in DOMAIN cmds' : cmds'[c].host = h /\ cmds'[c].tenant = t
                                   /\ Decides(cmds'[c]) /\ executions'[c] > 0
                                   => c \in DOMAIN cmds /\ executions[c] > 0
    BY <1>0, <1>2
  <2>3. \A c \in Deciding(h, t) : executions'[c] > 0
    BY <1>0, <1>2, DecidingIs
  <2>4. QED
    BY <1>0, <2>1, <2>2, <2>3, NewestStays
<1>3. CASE cmds[n].host = h /\ cmds[n].tenant = t /\ Installs(cmds[n].type, cmds[n].payload)
  <2>1. n \in Deciding(h, t)'
    BY <1>0, <1>3, DecidingIs DEF Decides
  <2>2. ASSUME NEW d \in Deciding(h, t)' PROVE d <= n
    <3>1. d \in DOMAIN cmds /\ executions'[d] > 0 /\ cmds[d].host = h
      BY <1>0, DecidingIs
    <3>2. d \in Nat
      BY <3>1, LenProperties DEF ClaimInv, TypeOK
    <3>3. CASE d = n
      BY <3>2, <3>3
    <3>4. CASE d # n
      BY <1>0, <1>3, <3>1, <3>4, RunsInOrder DEF n
    <3>5. QED
      BY <3>3, <3>4
  <2>3. QED
    BY <1>0, <1>3, <2>1, <2>2 DEF NewestInstalls
<1>4. CASE ~Installs(cmds[n].type, cmds[n].payload) /\ cmds[n].host = h /\ cmds[n].tenant = t
  <2>1. PICK o \in Outcomes(cmds[n].type, cmds[n].payload, t \in vms[h]) :
           vms'[h] = IF o.vm THEN vms[h] \cup {t} ELSE vms[h] \ {t}
    BY <1>0, <1>4 DEF Executes, n
  <2>2. o.vm
    BY <1>1, <2>1
  <2>3. ~Removes(cmds[n].type, cmds[n].payload) /\ t \in vms[h]
    BY <1>4, <2>2, OutcomeVm
  <2>4. QED
    BY <1>2, <1>4, <2>3 DEF Decides
<1>5. CASE ~(cmds[n].host = h /\ cmds[n].tenant = t)
  <2>1. t \in vms[h]
    BY <1>0, <1>1, <1>5 DEF Executes, n
  <2>2. QED
    BY <1>2, <1>5, <2>1
<1>6. QED
  BY <1>3, <1>4, <1>5

\* The agent's registry follows the order of the queue: with one poll at a time an
\* agent that knows of a tenant's MicroVM has run no newer command that removes it,
\* whatever is lost, refused or restarted in between.
THEOREM RegistryFollows ==
    ASSUME OneSlot
    PROVE  Spec => []RegistryFollowsQueue
<1>1. Init => RegistryFollowsQueue
  BY DEF Init, RegistryFollowsQueue
<1>2. ASSUME SerialInv, RegistryFollowsQueue, [Next]_vars
      PROVE  RegistryFollowsQueue'
  <2>0. TypeOK /\ ClaimInv /\ Ahead
    BY <1>2 DEF SerialInv, ClaimInv
  <2>1. ASSUME DOMAIN cmds \subseteq DOMAIN cmds',
               \A c \in DOMAIN cmds : /\ Address(cmds'[c]) = Address(cmds[c])
                                      /\ executions'[c] = executions[c],
               \A c \in DOMAIN cmds' : c \in DOMAIN cmds \/ executions'[c] = 0,
               \A h \in Hosts : vms'[h] \subseteq vms[h]
        PROVE  RegistryFollowsQueue'
    <3>1. ASSUME NEW h \in Hosts, NEW t \in Tenants, t \in vms'[h]
          PROVE  NewestInstalls(h, t)'
      <4>1. NewestInstalls(h, t)
        BY <1>2, <2>1, <3>1 DEF RegistryFollowsQueue, NewestInstalls
      <4>2. \A c \in Deciding(h, t) : executions'[c] > 0
        BY <2>1, DecidingIs
      <4>3. QED
        BY <2>1, <4>1, <4>2, NewestStays
    <3>2. QED
      BY <3>1 DEF RegistryFollowsQueue, NewestInstalls
  <2>2. CASE Grows
    BY <2>1, <2>2 DEF Grows
  <2>3. CASE Recedes
    BY <2>1, <2>3 DEF Recedes
  <2>4. ASSUME NEW p \in Poll, Quiet(p) \/ Selects(p) \/ Reconciles(p)
        PROVE  RegistryFollowsQueue'
    BY <2>1, <2>4 DEF Quiet, Selects, Reconciles
  <2>5. ASSUME NEW p \in Poll, Claims(p) \/ Records(p)
        PROVE  RegistryFollowsQueue'
    BY <2>1, <2>5 DEF Claims, Records, WritesOnly, RowsStay
  <2>6. QED
    BY <1>2, <2>0, <2>2, <2>3, <2>4, <2>5, ExecuteFollows, NextKinds
<1>3. QED
  BY <1>1, <1>2, SerialInvariant, PTL DEF Spec

-----------------------------------------------------------------------------
(***************************************************************************)
(* The status of the tenant.                                               *)
(***************************************************************************)

\* A tenant's commands all go to one host: TenantService.CommandsFollowAssignment
\* is what the control plane's own commands keep, POST /api/commands may not.
OneHostPerTenant ==
    \A c, d \in DOMAIN cmds : cmds[c].tenant = cmds[d].tenant => cmds[c].host = cmds[d].host

ReconcilePc == {"reconcileRunning", "reconcileResult"}

\* A report on row c has written the row and not yet the tenant.
Pending(c) == \E p \in Poll : polls[p].cmd = c /\ polls[p].pc \in ReconcilePc

\* The commands whose reports move the status of their tenant.
Moves(row) ==
    \/ /\ row.type \in {"start_tenant", "restart_tenant", "stop_tenant", "delete_tenant"}
       /\ row.status = "succeeded"
    \/ /\ row.type = "create_tenant"
       /\ row.status \in Completed \cup {"running"}

\* The tenant shows its newest report, unless that is the one half applied.
Shown(t) ==
    \A c \in Reported(t) :
        (\A d \in Reported(t) : d <= c) /\ ~Pending(c) =>
            tenantStatus[t] = Reconciled(cmds[c].type, cmds[c].status, tenantStatus[t])

AllShown == OneHostPerTenant => \A t \in Tenants : Shown(t)

\* A report applied twice is a report applied once.
LEMMA ReconciledTwice ==
    ASSUME NEW ty, NEW st, NEW s
    PROVE  Reconciled(ty, st, Reconciled(ty, st, s)) = Reconciled(ty, st, s)
BY DEF Reconciled, OnSuccess

\* A report that does not move the tenant leaves it alone.
LEMMA UnmovedStays ==
    ASSUME NEW row, NEW s, row.status \in {"running", "succeeded", "failed"}, ~Moves(row)
    PROVE  Reconciled(row.type, row.status, s) = s
BY DEF Reconciled, OnSuccess, Moves, Completed

\* Who is reported, in words of the rows, before and after a step.
LEMMA ReportedIs ==
    ASSUME NEW t
    PROVE  /\ \A c : c \in Reported(t) <=> c \in DOMAIN cmds /\ cmds[c].tenant = t /\ Moves(cmds[c])
           /\ \A c : c \in Reported(t)' <=>
                        c \in DOMAIN cmds' /\ cmds'[c].tenant = t /\ Moves(cmds'[c])
BY DEF Reported, Moves

\* A row that is queued or claimed says nothing of its tenant.
LEMMA EarlyUnmoved ==
    ASSUME NEW row, row.status \in {"queued", "claimed"}
    PROVE  ~Moves(row)
BY DEF Moves, Completed

\* What shows after a step, when the newest report was the newest before, and the
\* tenant is as it was.
LEMMA ShownStays ==
    ASSUME NEW t, Shown(t), tenantStatus'[t] = tenantStatus[t],
           \A c \in Reported(t)' :
              (\A d \in Reported(t)' : d <= c) /\ ~Pending(c)' =>
                 /\ c \in Reported(t) /\ ~Pending(c)
                 /\ \A d \in Reported(t) : d <= c
                 /\ cmds'[c].type = cmds[c].type /\ cmds'[c].status = cmds[c].status
    PROVE  Shown(t)'
<1>1. ASSUME NEW c \in Reported(t)', \A d \in Reported(t)' : d <= c, ~Pending(c)'
      PROVE  tenantStatus'[t] = Reconciled(cmds'[c].type, cmds'[c].status, tenantStatus'[t])
  BY <1>1 DEF Shown
<1>2. QED
  BY <1>1 DEF Shown

\* A pending report stays pending in a step that does not apply it.
LEMMA PendingStays ==
    ASSUME NEW c,
           \A p \in Poll : polls[p].pc \in ReconcilePc /\ polls[p].cmd = c =>
                              polls'[p].pc = polls[p].pc /\ polls'[p].cmd = polls[p].cmd
    PROVE  ~Pending(c)' => ~Pending(c)
BY DEF Pending

\* A step that writes no report, neither in the row nor in the tenant.
LEMMA UnreportedShown ==
    ASSUME NEW t \in Tenants, Shown(t), UNCHANGED tenantStatus, DOMAIN cmds \subseteq DOMAIN cmds',
           \A c \in DOMAIN cmds' : c \in DOMAIN cmds \/ ~Moves(cmds'[c]),
           \A c \in DOMAIN cmds : \/ cmds'[c] = cmds[c]
                                  \/ ~Moves(cmds[c]) /\ ~Moves(cmds'[c]),
           \A p \in Poll : polls[p].pc \in ReconcilePc =>
                              polls'[p].pc = polls[p].pc /\ polls'[p].cmd = polls[p].cmd
    PROVE  Shown(t)'
<1>1. \A c : c \in Reported(t)' <=> c \in Reported(t)
  BY ReportedIs
<1>2. \A c \in Reported(t) : cmds'[c] = cmds[c]
  BY ReportedIs
<1>3. \A c : ~Pending(c)' => ~Pending(c)
  BY PendingStays
<1>4. QED
  BY <1>1, <1>2, <1>3, ShownStays

\* The row of the report becomes the one that is half applied.
LEMMA RecordShown ==
    ASSUME OneSlot, TypeOK, InStep, NEW t \in Tenants, Shown(t), NEW p \in Poll, Records(p)
    PROVE  Shown(t)'
<1>0. PICK n : n = polls[p].cmd
  OBVIOUS
<1>1. /\ DOMAIN cmds' = DOMAIN cmds /\ n \in DOMAIN cmds
      /\ cmds'[n].tenant = cmds[n].tenant /\ cmds'[n].type = cmds[n].type
      /\ \A d \in DOMAIN cmds : d # n => cmds'[d] = cmds[d]
      /\ UNCHANGED tenantStatus
  BY <1>0, HeldRow DEF Records, WritesOnly, RowsStay, Address, At
<1>2. polls'[p].cmd = n /\ polls'[p].pc \in ReconcilePc /\ polls[p].pc \notin ReconcilePc
  BY <1>0 DEF Records, ReconcilePc, At
<1>3. Pending(n)'
  BY <1>2 DEF Pending
<1>4. \A c : ~Pending(c)' => ~Pending(c)
  BY <1>2, PendingStays DEF Records, OthersStay
<1>5. Moves(cmds[n]) => Moves(cmds'[n])
  <2>1. CASE At(p, "reportRunning")
    <3>1. cmds[n].status = "claimed"
      BY <1>0, <2>1 DEF At, InStep, InStepWith
    <3>2. QED
      BY <3>1, EarlyUnmoved
  <2>2. CASE At(p, "reportResult")
    <3>1. cmds[n].status = "running" /\ cmds'[n].status \in Completed
      BY <1>0, <2>2 DEF At, InStep, InStepWith, Records
    <3>2. QED
      BY <1>1, <3>1 DEF Moves
  <2>3. QED
    BY <2>1, <2>2 DEF Records
<1>6. ASSUME NEW c \in Reported(t)', \A d \in Reported(t)' : d <= c, ~Pending(c)'
      PROVE  /\ c \in Reported(t) /\ ~Pending(c)
             /\ \A d \in Reported(t) : d <= c
             /\ cmds'[c].type = cmds[c].type /\ cmds'[c].status = cmds[c].status
  <2>1. c # n /\ c \in DOMAIN cmds /\ cmds'[c] = cmds[c]
    BY <1>1, <1>3, <1>6, ReportedIs
  <2>2. \A d \in Reported(t) : d \in Reported(t)'
    BY <1>1, <1>5, ReportedIs
  <2>3. c \in Reported(t)
    BY <2>1, ReportedIs
  <2>4. QED
    BY <1>4, <1>6, <2>1, <2>2, <2>3
<1>7. QED
  BY <1>1, <1>6, ShownStays

\* The report that reaches the tenant is the newest of the tenant's, or says nothing.
LEMMA ReconcileShown ==
    ASSUME OneSlot, TypeOK, InStep, Ahead, OneHostPerTenant,
           NEW t \in Tenants, Shown(t), NEW p \in Poll, Reconciles(p)
    PROVE  Shown(t)'
<1> DEFINE n == polls[p].cmd
<1>1. /\ n \in DOMAIN cmds /\ cmds[n].host = p[1] /\ UNCHANGED cmds
      /\ cmds[n].status = ReportedBy(p) /\ polls[p].pc \notin {"idle", "polling"}
      /\ cmds[n].status \in {"running", "succeeded", "failed"}
      /\ \A d \in DOMAIN cmds : d \in Nat
  <2>1. polls[p].pc \in {"reconcileRunning", "reconcileResult"}
    BY DEF Reconciles
  <2>2. n \in DOMAIN cmds /\ cmds[n].host = p[1] /\ UNCHANGED cmds
    BY <2>1, HeldRow DEF Reconciles
  <2>3. /\ polls[p].pc = "reconcileRunning" => cmds[n].status = "running"
        /\ polls[p].pc = "reconcileResult" => cmds[n].status = polls[p].result
        /\ polls[p].pc = "reconcileResult" => polls[p].result \in {"succeeded", "failed"}
    BY DEF InStep, InStepWith, TypeOK, Completed
  <2>4. cmds[n].status = ReportedBy(p)
    BY <2>1, <2>3 DEF ReportedBy, At
  <2>5. \A d \in DOMAIN cmds : d \in Nat
    BY LenProperties DEF TypeOK
  <2>6. QED
    BY <2>1, <2>2, <2>3, <2>4, <2>5
<1>2. tenantStatus'[t] = IF cmds[n].tenant = t
                         THEN Reconciled(cmds[n].type, cmds[n].status, tenantStatus[t])
                         ELSE tenantStatus[t]
  BY <1>1, NoTenantAssumption DEF Reconciles, Reconcile, TypeOK
<1>3. \A r \in Poll : r # p => polls'[r] = polls[r]
  BY DEF Reconciles, OthersStay
<1> HIDE DEF n
<1>4. \A c : c \in Reported(t)' <=> c \in Reported(t)
  BY <1>1, ReportedIs
<1>5. CASE n \in Reported(t)
  <2>1. cmds[n].tenant = t
    BY <1>5, ReportedIs
  <2>2. ASSUME NEW c \in Reported(t), \A d \in Reported(t) : d <= c
        PROVE  c = n
    <3>1. n <= c /\ c \in DOMAIN cmds /\ cmds[c].tenant = t /\ Moves(cmds[c])
      BY <1>5, <2>2, ReportedIs
    <3>2. cmds[c].host = cmds[n].host
      BY <1>1, <2>1, <3>1 DEF OneHostPerTenant
    <3>3. c > n => cmds[c].status = "queued"
      BY <1>1, <3>1, <3>2 DEF Ahead, n
    <3>4. ~(c > n)
      BY <3>1, <3>3, EarlyUnmoved
    <3>5. c \in Nat /\ n \in Nat
      BY <1>1, <3>1
    <3>6. QED
      BY <3>1, <3>4, <3>5
  <2>3. tenantStatus'[t] = Reconciled(cmds[n].type, cmds[n].status, tenantStatus'[t])
    BY <1>2, <2>1, ReconciledTwice
  <2>4. ASSUME NEW c \in Reported(t)', \A d \in Reported(t)' : d <= c, ~Pending(c)'
        PROVE  tenantStatus'[t] = Reconciled(cmds'[c].type, cmds'[c].status, tenantStatus'[t])
    BY <1>1, <1>4, <2>2, <2>3, <2>4
  <2>5. QED
    BY <2>4 DEF Shown
<1>6. CASE n \notin Reported(t)
  <2>1. tenantStatus'[t] = tenantStatus[t]
    <3>1. CASE cmds[n].tenant # t
      BY <1>2, <3>1
    <3>2. CASE cmds[n].tenant = t
      <4>1. ~Moves(cmds[n])
        BY <1>1, <1>6, <3>2, ReportedIs
      <4>2. Reconciled(cmds[n].type, cmds[n].status, tenantStatus[t]) = tenantStatus[t]
        BY <1>1, <4>1, UnmovedStays
      <4>3. QED
        BY <1>2, <3>2, <4>2
    <3>3. QED
      BY <3>1, <3>2
  <2>2. ASSUME NEW c \in Reported(t), ~Pending(c)' PROVE ~Pending(c)
    <3>1. c # n
      BY <1>6, <2>2
    <3>2. \A r \in Poll : polls[r].cmd = c => polls'[r] = polls[r]
      BY <1>3, <3>1 DEF n
    <3>3. QED
      BY <2>2, <3>2, PendingStays
  <2>3. QED
    BY <1>1, <1>4, <2>1, <2>2, ShownStays
<1>7. QED
  BY <1>5, <1>6

\* Every step shows the newest report, as long as the API lives.
LEMMA AllShownStep ==
    ASSUME OneSlot, "api" \notin Faults, SerialInv, AllShown, [Next]_vars
    PROVE  AllShown'
<1>0. TypeOK /\ InStep /\ Ahead
  BY DEF SerialInv, ClaimInv
<1>1. SUFFICES ASSUME OneHostPerTenant', NEW t \in Tenants
               PROVE  Shown(t)'
  BY DEF AllShown
<1>2. /\ DOMAIN cmds \subseteq DOMAIN cmds'
      /\ \A c \in DOMAIN cmds : Address(cmds'[c]) = Address(cmds[c])
  <2>1. ASSUME NEW p \in Poll, \/ Quiet(p) \/ Selects(p) \/ Claims(p)
                               \/ Records(p) \/ Reconciles(p) \/ Executes(p)
        PROVE  RowsStay
    BY <2>1 DEF Quiet, Selects, Claims, Records, Reconciles, Executes, WritesOnly, RowsStay
  <2>2. QED
    BY <1>0, <2>1, NextKinds DEF Grows, Recedes, RowsStay
<1>3. OneHostPerTenant
  BY <1>1, <1>2, AddressDecides DEF OneHostPerTenant
<1>4. Shown(t)
  BY <1>3 DEF AllShown
<1>5. CASE Grows
  <2>1. ASSUME NEW c \in DOMAIN cmds' PROVE c \in DOMAIN cmds \/ ~Moves(cmds'[c])
    <3>1. c \in DOMAIN cmds \/ cmds'[c].status = "queued"
      BY <1>5 DEF Grows
    <3>2. QED
      BY <3>1, EarlyUnmoved
  <2>2. QED
    BY <1>4, <1>5, <2>1, UnreportedShown DEF Grows
<1>6. CASE Recedes
  BY <1>4, <1>6, UnreportedShown DEF Recedes, ReconcilePc
<1>7. ASSUME NEW p \in Poll, Quiet(p) \/ Selects(p) \/ Executes(p)
      PROVE  Shown(t)'
  BY <1>4, <1>7, UnreportedShown DEF Quiet, Selects, Executes, OthersStay, ReconcilePc, At
<1>8. ASSUME NEW p \in Poll, Claims(p)
      PROVE  Shown(t)'
  <2>1. cmds[polls[p].cmd].status = "queued" /\ cmds'[polls[p].cmd].status = "claimed"
    BY <1>0, <1>8 DEF Claims, InStep, InStepWith, At
  <2>2. ~Moves(cmds[polls[p].cmd]) /\ ~Moves(cmds'[polls[p].cmd])
    BY <2>1, EarlyUnmoved
  <2>3. QED
    BY <1>4, <1>8, <2>2, UnreportedShown DEF Claims, OthersStay, ReconcilePc, At, WritesOnly, RowsStay
<1>9. QED
  BY <1>0, <1>3, <1>4, <1>5, <1>6, <1>7, <1>8, RecordShown, ReconcileShown, NextKinds

\* With one poll at a time, and an API that does not die between its two writes, a
\* tenant whose commands go to one host shows what the newest reported of them says.
THEOREM TenantShowsLastReport ==
    ASSUME OneSlot, "api" \notin Faults
    PROVE  Spec => [](OneHostPerTenant => TenantReflectsLastReport)
<1>1. Init => AllShown
  BY EmptySeq, LenProperties DEF Init, AllShown, Shown, Reported
<1>2. SerialInv /\ AllShown /\ [Next]_vars => AllShown'
  BY AllShownStep
<1>3. AllShown => (OneHostPerTenant => TenantReflectsLastReport)
  BY DEF AllShown, Shown, TenantReflectsLastReport, NoReportPending, Pending, ReconcilePc
<1>4. QED
  BY <1>1, <1>2, <1>3, SerialInvariant, PTL DEF Spec
=============================================================================
