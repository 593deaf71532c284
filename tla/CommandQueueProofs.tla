------------------------- MODULE CommandQueueProofs -------------------------
(***************************************************************************)
(* Proofs about CommandQueue, for any hosts, tenants, slots, bound, fault  *)
(* set and mode.                                                           *)
(***************************************************************************)
EXTENDS CommandQueue, SequenceTheorems, TLAPS

-----------------------------------------------------------------------------
(***************************************************************************)
(* The two ways the table changes: a row is appended, or one is replaced.  *)
(***************************************************************************)

\* QueuedRow builds a row of the table (hostCommand.create).
LEMMA QueuedRowType ==
    ASSUME NEW h \in Hosts, NEW t \in Tenants \cup {NoTenant},
           NEW ty \in CommandType, NEW pl \in Payload
    PROVE  /\ QueuedRow(h, t, ty, pl) \in CommandRow
           /\ QueuedRow(h, t, ty, pl).status = "queued"
           /\ QueuedRow(h, t, ty, pl).host = h
           /\ QueuedRow(h, t, ty, pl).attempts = 0
BY DEF QueuedRow, CommandRow, CommandStatus

\* Replacing a row by another leaves the length and every other row alone.
LEMMA ReplaceRow ==
    ASSUME NEW rows \in Seq(CommandRow), NEW c \in DOMAIN rows, NEW r \in CommandRow
    PROVE  LET new == [rows EXCEPT ![c] = r] IN
           /\ new \in Seq(CommandRow)
           /\ Len(new) = Len(rows)
           /\ DOMAIN new = DOMAIN rows
           /\ \A d \in DOMAIN rows : new[d] = IF d = c THEN r ELSE rows[d]
<1>1. DOMAIN rows = 1 .. Len(rows)
  BY LenProperties
<1>2. [rows EXCEPT ![c] = r] \in Seq(CommandRow) /\ Len([rows EXCEPT ![c] = r]) = Len(rows)
  BY <1>1, ExceptSeq
<1>3. QED
  BY <1>1, <1>2, ExceptSeq, LenProperties

\* Appending a row leaves the older rows alone.
LEMMA AppendRow ==
    ASSUME NEW rows \in Seq(CommandRow), NEW r \in CommandRow
    PROVE  LET new == Append(rows, r) IN
           /\ new \in Seq(CommandRow)
           /\ Len(new) = Len(rows) + 1
           /\ DOMAIN rows = 1 .. Len(rows)
           /\ DOMAIN new = 1 .. Len(rows) + 1
           /\ \A d \in DOMAIN rows : new[d] = rows[d]
           /\ new[Len(rows) + 1] = r
BY AppendProperties, LenProperties

-----------------------------------------------------------------------------
(***************************************************************************)
(* Type correctness, action by action.                                     *)
(***************************************************************************)

\* Adding a row of the table (POST /api/commands, retry) keeps every type, and
\* no poll loses its row.
LEMMA EnqueueType ==
    ASSUME TypeOK, NEW row \in CommandRow, Enqueue(row)
    PROVE  TypeOK'
<1> USE DEF TypeOK, Enqueue
<1>1. /\ cmds' \in Seq(CommandRow)
      /\ Len(cmds') = Len(cmds) + 1
      /\ DOMAIN cmds \subseteq DOMAIN cmds'
      /\ \A d \in DOMAIN cmds : cmds'[d] = cmds[d]
  BY AppendRow
<1>2. executions' \in Seq(Nat) /\ Len(executions') = Len(executions) + 1
  BY AppendProperties
<1>3. QED
  BY <1>1, <1>2

\* A step that moves one poll and leaves the rows, the tenants and the registry.
LEMMA MoveType ==
    ASSUME TypeOK, UNCHANGED <<approved, cmds, tenantStatus, vms, executions>>,
           NEW p \in Poll, NEW q \in PollState,
           polls' = [polls EXCEPT ![p] = q],
           q.pc \notin {"idle", "polling"} =>
               q.cmd \in DOMAIN cmds /\ cmds[q.cmd].host = p[1],
           q.pc \in {"executed", "reportResult", "reconcileResult"} => q.result \in Completed
    PROVE  TypeOK'
BY DEF TypeOK

\* A step that replaces the row of poll p and moves p to q, on the same row.
LEMMA WriteType ==
    ASSUME TypeOK, UNCHANGED <<approved, tenantStatus, vms, executions>>,
           NEW p \in Poll, NEW q \in PollState, NEW r \in CommandRow,
           polls' = [polls EXCEPT ![p] = q],
           polls[p].pc \notin {"idle", "polling"},
           cmds' = [cmds EXCEPT ![polls[p].cmd] = r],
           r.host = cmds[polls[p].cmd].host,
           q.pc \notin {"idle", "polling"} => q.cmd = polls[p].cmd,
           q.pc \in {"executed", "reportResult", "reconcileResult"} => q.result \in Completed
    PROVE  TypeOK'
<1> USE DEF TypeOK
<1>1. polls[p].cmd \in DOMAIN cmds /\ cmds[polls[p].cmd].host = p[1]
  OBVIOUS
<1>2. /\ cmds' \in Seq(CommandRow)
      /\ Len(cmds') = Len(cmds)
      /\ DOMAIN cmds' = DOMAIN cmds
      /\ \A d \in DOMAIN cmds : cmds'[d] = IF d = polls[p].cmd THEN r ELSE cmds[d]
  BY <1>1, ReplaceRow
<1>3. \A d \in DOMAIN cmds : cmds'[d].host = cmds[d].host
  BY <1>1, <1>2
<1>4. QED
  BY <1>1, <1>2, <1>3

\* The states a poll of agent.ts starts and ends in.
LEMMA IdleType ==
    /\ Idle \in PollState /\ Idle.pc = "idle"
    /\ Started \in PollState /\ Started.pc = "polling"
BY DEF Idle, Started, PollState, HandlerPc

\* What each poll transition keeps and changes.
LEMMA MovedType ==
    ASSUME NEW q \in PollState, NEW pc \in {"idle"} \cup HandlerPc \cup AgentPc
    PROVE  /\ Moved(q, pc) \in PollState
           /\ Moved(q, pc).pc = pc
           /\ Moved(q, pc).cmd = q.cmd
           /\ Moved(q, pc).result = q.result
BY DEF Moved, PollState

\* findFirst gives the poll its row and moves it to "selected".
LEMMA SelectedType ==
    ASSUME NEW q \in PollState, NEW c \in Nat
    PROVE  /\ Selected(q, c) \in PollState
           /\ Selected(q, c).pc = "selected"
           /\ Selected(q, c).cmd = c
BY DEF Selected, PollState, HandlerPc

\* execute leaves the poll with the result it will report, on the same row.
LEMMA FinishedType ==
    ASSUME NEW q \in PollState, NEW r \in Completed
    PROVE  /\ Finished(q, r) \in PollState
           /\ Finished(q, r).pc = "executed"
           /\ Finished(q, r).cmd = q.cmd
           /\ Finished(q, r).result = r
BY DEF Finished, PollState, AgentPc

\* A poll whose client is gone stands where it stood.
LEMMA OrphanedType ==
    ASSUME NEW q \in PollState
    PROVE  /\ Orphaned(q) \in PollState
           /\ Orphaned(q).pc = q.pc
           /\ Orphaned(q).cmd = q.cmd
           /\ Orphaned(q).result = q.result
BY DEF Orphaned, PollState

\* The claim of agent.routes.ts:131 counts an attempt and keeps the row's host.
LEMMA ClaimedType ==
    ASSUME NEW row \in CommandRow
    PROVE  /\ Claimed(row) \in CommandRow
           /\ Claimed(row).status = "claimed"
           /\ Claimed(row).attempts = row.attempts + 1
           /\ Claimed(row).host = row.host
<1>1. row.attempts + 1 \in Nat
  BY DEF CommandRow
<1>2. QED
  BY <1>1, Zenon DEF Claimed, CommandRow, CommandStatus

\* A recorded result changes the row's status only.
LEMMA WithStatusType ==
    ASSUME NEW row \in CommandRow, NEW s \in CommandStatus
    PROVE  /\ WithStatus(row, s) \in CommandRow
           /\ WithStatus(row, s).status = s
           /\ WithStatus(row, s).attempts = row.attempts
           /\ WithStatus(row, s).host = row.host
BY DEF WithStatus, CommandRow

\* What execute may report.
LEMMA OutcomeType ==
    ASSUME NEW ty, NEW pl, NEW vm, NEW o \in Outcomes(ty, pl, vm)
    PROVE  o.result \in Completed
BY DEF Outcomes, Failed, Completed

\* The tenant table stays well typed under reconciliation.
LEMMA ReconcileType ==
    ASSUME TypeOK, NEW t \in Tenants \cup {NoTenant}, NEW ty, NEW r,
           Reconcile(t, ty, r)
    PROVE  tenantStatus' \in [Tenants -> TenantStatus]
<1>1. ASSUME NEW s \in TenantStatus
      PROVE  Reconciled(ty, r, s) \in TenantStatus
  BY DEF Reconciled, OnSuccess, TenantStatus
<1>2. QED
  BY <1>1 DEF Reconcile, TypeOK

\* Each step of a poll, in the agent or in a handler, keeps every type.
LEMMA PollStepType ==
    ASSUME TypeOK, NEW p \in Poll, PollStep(p)
    PROVE  TypeOK'
<1> DEFINE q == polls[p]
           row == cmds[q.cmd]
<1>0. q \in PollState
  BY DEF TypeOK
<1>1. CASE StartPoll(p)
  BY <1>1, IdleType, MoveType DEF StartPoll
<1>2. CASE SelectOldest(p)
  <2>1. CASE Waiting(p[1]) = {} /\ Abandon(p)
    BY <1>2, <2>1, IdleType, MoveType DEF SelectOldest, Abandon
  <2>2. ASSUME NEW c \in Waiting(p[1]),
               polls' = [polls EXCEPT ![p] = Selected(q, c)]
        PROVE  TypeOK'
    <3>1. c \in DOMAIN cmds /\ cmds[c].host = p[1] /\ c \in Nat
      BY <2>2, LenProperties DEF Waiting, TypeOK
    <3>2. QED
      BY <1>0, <1>2, <2>2, <3>1, SelectedType, MoveType DEF SelectOldest
  <2>3. QED
    BY <1>2, <2>1, <2>2 DEF SelectOldest
<1>3. CASE ClaimSelected(p)
  <2> DEFINE r == Claimed(row)
             n == IF q.live THEN Moved(q, "claimed") ELSE Idle
  <2>1. q.cmd \in DOMAIN cmds /\ row \in CommandRow
    BY <1>3, ElementOfSeq, LenProperties DEF ClaimSelected, At, TypeOK
  <2>2. r \in CommandRow /\ r.host = row.host
    BY <2>1, ClaimedType
  <2>3. /\ n \in PollState
        /\ n.pc \in {"claimed", "idle"}
        /\ n.pc # "idle" => n.cmd = q.cmd
    BY <1>0, IdleType, MovedType DEF AgentPc
  <2>4. polls' = [polls EXCEPT ![p] = n] /\ cmds' = [cmds EXCEPT ![q.cmd] = r]
    BY <1>3 DEF ClaimSelected, Return
  <2>5. QED
    BY <1>3, <2>2, <2>3, <2>4, WriteType DEF ClaimSelected, At
<1>4. CASE AuthoriseReport(p)
  <2>1. CASE Abandon(p)
    BY <1>4, <2>1, IdleType, MoveType DEF AuthoriseReport, Abandon
  <2>2. ASSUME NEW s \in {"claimed", "executed"}, At(p, s),
               Goto(p, IF s = "claimed" THEN "reportRunning" ELSE "reportResult")
        PROVE  TypeOK'
    <3> DEFINE n == Moved(q, IF s = "claimed" THEN "reportRunning" ELSE "reportResult")
    <3>1. /\ n \in PollState
          /\ n.pc = IF s = "claimed" THEN "reportRunning" ELSE "reportResult"
          /\ n.cmd = q.cmd
          /\ n.result = q.result
      BY <1>0, MovedType DEF HandlerPc
    <3>2. /\ q.cmd \in DOMAIN cmds
          /\ row.host = p[1]
          /\ s = "executed" => q.result \in Completed
      BY <2>2 DEF At, TypeOK
    <3>3. polls' = [polls EXCEPT ![p] = n]
      BY <2>2 DEF Goto
    <3>4. QED
      BY <1>4, <3>1, <3>2, <3>3, MoveType DEF AuthoriseReport
  <2>3. QED
    BY <1>4, <2>1, <2>2 DEF AuthoriseReport
<1>5. CASE RecordResult(p)
  <2>1. ASSUME NEW s \in {"reportRunning", "reportResult"}, At(p, s)
        PROVE  q.cmd \in DOMAIN cmds /\ row \in CommandRow
    BY <2>1, ElementOfSeq, LenProperties DEF At, TypeOK
  <2>2. ASSUME NEW s \in {"reportRunning", "reportResult"}, At(p, s),
               NEW x \in Completed \cup {"running"},
               ReplaceStatus(q.cmd, x),
               Goto(p, IF s = "reportRunning" THEN "reconcileRunning" ELSE "reconcileResult")
        PROVE  TypeOK'
    <3> DEFINE r == WithStatus(row, x)
               n == Moved(q, IF s = "reportRunning" THEN "reconcileRunning"
                                                    ELSE "reconcileResult")
    <3>1. r \in CommandRow /\ r.host = row.host
      BY <2>1, <2>2, WithStatusType DEF CommandStatus, Completed
    <3>2. /\ n \in PollState
          /\ n.pc = IF s = "reportRunning" THEN "reconcileRunning" ELSE "reconcileResult"
          /\ n.cmd = q.cmd
          /\ n.result = q.result
      BY <1>0, MovedType DEF HandlerPc
    <3>3. s = "reportResult" => q.result \in Completed
      BY <2>2 DEF At, TypeOK
    <3>4. polls' = [polls EXCEPT ![p] = n] /\ cmds' = [cmds EXCEPT ![q.cmd] = r]
      BY <2>2 DEF Goto, ReplaceStatus
    <3>5. QED
      BY <1>5, <2>2, <3>1, <3>2, <3>3, <3>4, WriteType DEF RecordResult, At
  <2>3. CASE At(p, "reportRunning")
    BY <1>5, <2>2, <2>3 DEF RecordResult, At
  <2>4. CASE At(p, "reportResult")
    <3>1. q.result \in Completed
      BY <2>4 DEF At, TypeOK
    <3>2. QED
      BY <1>5, <2>2, <2>4, <3>1 DEF RecordResult, At
  <2>5. QED
    BY <1>5, <2>3, <2>4 DEF RecordResult
<1>6. CASE ReconcileTenant(p)
  <2>1. q.cmd \in DOMAIN cmds /\ row \in CommandRow /\ row.host = p[1]
    BY <1>6, ElementOfSeq, LenProperties DEF ReconcileTenant, At, TypeOK
  <2>2. tenantStatus' \in [Tenants -> TenantStatus]
    BY <1>6, <2>1, ReconcileType DEF ReconcileTenant, CommandRow
  <2> DEFINE n == IF At(p, "reconcileRunning") /\ q.live THEN Moved(q, "running") ELSE Idle
  <2>3. /\ n \in PollState
        /\ n.pc \in {"running", "idle"}
        /\ n.pc = "running" => n.cmd = q.cmd
    BY <1>0, IdleType, MovedType DEF AgentPc
  <2>4. polls' = [polls EXCEPT ![p] = n]
    BY <1>6 DEF ReconcileTenant, Return, Abandon, At
  <2>5. UNCHANGED <<approved, cmds, vms, executions>>
    BY <1>6 DEF ReconcileTenant
  <2>6. QED
    BY <2>1, <2>2, <2>3, <2>4, <2>5 DEF TypeOK
<1>7. CASE Execute(p)
  <2>1. q.cmd \in DOMAIN cmds /\ row \in CommandRow /\ row.host = p[1] /\ p[1] \in Hosts
    BY <1>7, ElementOfSeq, LenProperties DEF Execute, At, TypeOK, Poll
  <2>2. PICK o \in Outcomes(row.type, row.payload, row.tenant \in vms[p[1]]) :
           /\ polls' = [polls EXCEPT ![p] = Finished(q, o.result)]
           /\ vms' = [vms EXCEPT ![p[1]] = IF o.vm THEN @ \cup {row.tenant} ELSE @ \ {row.tenant}]
           /\ executions' = [executions EXCEPT ![q.cmd] = @ + 1]
    BY <1>7 DEF Execute
  <2>3. o.result \in Completed
    BY <2>2, OutcomeType
  <2> DEFINE n == Finished(q, o.result)
  <2>4. /\ n \in PollState
        /\ n.pc = "executed"
        /\ n.cmd = q.cmd
        /\ n.result = o.result
    BY <1>0, <2>3, FinishedType
  <2>5. vms' \in [Hosts -> SUBSET (Tenants \cup {NoTenant})]
    <3>1. row.tenant \in Tenants \cup {NoTenant}
      BY <2>1 DEF CommandRow
    <3>2. QED
      BY <2>1, <2>2, <3>1 DEF TypeOK
  <2>6. executions' \in Seq(Nat) /\ Len(executions') = Len(executions)
    <3>1. q.cmd \in 1 .. Len(executions)
      BY <2>1, LenProperties DEF TypeOK
    <3>2. executions[q.cmd] + 1 \in Nat
      BY <3>1, ElementOfSeq DEF TypeOK
    <3>3. QED
      BY <2>2, <3>1, <3>2, ExceptSeq DEF TypeOK
  <2>7. UNCHANGED <<approved, cmds, tenantStatus>> /\ polls' = [polls EXCEPT ![p] = n]
    BY <1>7, <2>2 DEF Execute
  <2>8. QED
    BY <2>1, <2>3, <2>4, <2>5, <2>6, <2>7 DEF TypeOK
<1>8. QED
  BY <1>1, <1>2, <1>3, <1>4, <1>5, <1>6, <1>7 DEF PollStep

\* The admin API keeps every type.
LEMMA AdminType ==
    ASSUME TypeOK, Admin
    PROVE  TypeOK'
<1>1. ASSUME NEW h \in Hosts, NEW t \in Tenants \cup {NoTenant},
             NEW ty \in EnqueuedTypes, NEW pl \in EnqueuedPayloads,
             CreateCommand(h, t, ty, pl)
      PROVE  TypeOK'
  <2>1. ty \in CommandType /\ pl \in Payload
    BY QueueAssumption
  <2>2. QueuedRow(h, t, ty, pl) \in CommandRow
    BY <2>1, QueuedRowType
  <2>3. QED
    BY <1>1, <2>2, EnqueueType DEF CreateCommand
<1>2. ASSUME NEW c \in DOMAIN cmds, RetryCommand(c)
      PROVE  TypeOK'
  <2>1. cmds[c] \in CommandRow
    BY ElementOfSeq, LenProperties DEF TypeOK
  <2>2. QueuedRow(cmds[c].host, cmds[c].tenant, cmds[c].type, cmds[c].payload) \in CommandRow
    BY <2>1, QueuedRowType DEF CommandRow
  <2>3. QED
    BY <1>2, <2>2, EnqueueType DEF RetryCommand
<1>3. ASSUME NEW h \in Hosts, ApproveHost(h)
      PROVE  TypeOK'
  BY <1>3 DEF ApproveHost, TypeOK
<1>4. QED
  BY <1>1, <1>2, <1>3 DEF Admin

\* A fault moves polls to Idle or takes their client away, and nothing else that
\* typing sees but the registry of a crashed agent.
LEMMA FaultMoves ==
    ASSUME TypeOK, Fault
    PROVE  /\ polls' \in [Poll -> PollState]
           /\ \A p \in Poll : polls'[p] \in {polls[p], Idle, Orphaned(polls[p])}
           /\ vms' \in [Hosts -> SUBSET (Tenants \cup {NoTenant})]
           /\ UNCHANGED <<cmds, tenantStatus, executions, approved>>
<1>0. /\ polls \in [Poll -> PollState]
      /\ vms \in [Hosts -> SUBSET (Tenants \cup {NoTenant})]
      /\ \A p \in Poll : polls[p] \in PollState /\ Orphaned(polls[p]) \in PollState
      /\ Idle \in PollState
  BY IdleType, OrphanedType DEF TypeOK
<1>1. ASSUME NEW p \in Poll, LoseConnection(p)
      PROVE  /\ polls' \in [Poll -> PollState]
             /\ \A q \in Poll : polls'[q] \in {polls[q], Idle, Orphaned(polls[q])}
             /\ UNCHANGED <<cmds, tenantStatus, executions, approved, vms>>
  BY <1>0, <1>1 DEF LoseConnection, Abandon
<1>2. ASSUME NEW h \in Hosts, AgentCrash(h)
      PROVE  /\ polls' \in [Poll -> PollState]
             /\ \A q \in Poll : polls'[q] \in {polls[q], Idle, Orphaned(polls[q])}
             /\ vms' \in [Hosts -> SUBSET (Tenants \cup {NoTenant})]
             /\ UNCHANGED <<cmds, tenantStatus, executions, approved>>
  BY <1>0, <1>2 DEF AgentCrash
<1>3. ASSUME ApiCrash
      PROVE  /\ polls' \in [Poll -> PollState]
             /\ \A q \in Poll : polls'[q] \in {polls[q], Idle, Orphaned(polls[q])}
             /\ UNCHANGED <<cmds, tenantStatus, executions, approved, vms>>
  BY <1>0, <1>3 DEF ApiCrash
<1>4. QED
  BY <1>0, <1>1, <1>2, <1>3 DEF Fault

\* A lost connection, a dying agent or a dying API process keeps every type.
LEMMA FaultType ==
    ASSUME TypeOK, Fault
    PROVE  TypeOK'
<1>1. \A p \in Poll : /\ polls[p] \in PollState
                      /\ polls'[p].pc \in {polls[p].pc, "idle"}
                      /\ polls'[p].pc # "idle" => /\ polls'[p].cmd = polls[p].cmd
                                                  /\ polls'[p].result = polls[p].result
  BY FaultMoves, IdleType, OrphanedType DEF TypeOK
<1>2. QED
  BY <1>1, FaultMoves DEF TypeOK

\* The state is well formed in every behaviour: rows, polls and registry have
\* their types, and a poll past its select holds a row of its own host.
THEOREM TypeCorrect == Spec => []TypeOK
<1>1. Init => TypeOK
  BY QueueAssumption, IdleType, EmptySeq DEF Init, TypeOK
<1>2. TypeOK /\ [Next]_vars => TypeOK'
  <2>1. ASSUME TypeOK, Next
        PROVE  TypeOK'
    BY <2>1, AdminType, FaultType, PollStepType DEF Next
  <2>2. ASSUME TypeOK, UNCHANGED vars
        PROVE  TypeOK'
    BY <2>2 DEF TypeOK, vars, At
  <2>3. QED
    BY <2>1, <2>2
<1>3. QED
  BY <1>1, <1>2, PTL DEF Spec

-----------------------------------------------------------------------------
(***************************************************************************)
(* First in, first out.  OldestFirst is not inductive: a claim writes the  *)
(* row that was selected earlier, and a report writes the row its poll     *)
(* holds.  The invariant adds what those writes rely on.                   *)
(***************************************************************************)

EarlyPc == {"idle", "polling", "selected"}

\* A selected row may have been claimed meanwhile, but none older is queued.
SelectedOldest ==
    \A p \in Poll : At(p, "selected") =>
        \A c \in DOMAIN cmds :
            c < polls[p].cmd /\ cmds[c].host = p[1] => cmds[c].status # "queued"

\* The row of a poll past its claim has left the queue.
HeldClaimed ==
    \A p \in Poll : polls[p].pc \notin EarlyPc => cmds[polls[p].cmd].status # "queued"

FifoInv == TypeOK /\ OldestFirst /\ SelectedOldest /\ HeldClaimed

(***************************************************************************)
(* To dispatching, every step is one of three.                             *)
(***************************************************************************)

\* A queued row is appended.
Appends ==
    \E row \in CommandRow : /\ row.status = "queued"
                            /\ cmds' = Append(cmds, row)
                            /\ UNCHANGED polls

SameRows ==
    /\ cmds' \in Seq(CommandRow)
    /\ Len(cmds') = Len(cmds)
    /\ DOMAIN cmds' = DOMAIN cmds
    /\ \A c \in DOMAIN cmds : cmds'[c].host = cmds[c].host

\* Poll p takes the row it has selected out of the queue.
Takes(p) ==
    /\ At(p, "selected")
    /\ SameRows
    /\ \A c \in DOMAIN cmds :
          cmds'[c].status = "queued" <=> cmds[c].status = "queued" /\ c # polls[p].cmd
    /\ polls'[p].pc # "selected"
    /\ polls'[p].pc \notin EarlyPc => polls'[p].cmd = polls[p].cmd
    /\ \A r \in Poll : r # p => polls'[r] = polls[r]

\* The queue stays, and a poll that selects a row selects the oldest.
Keeps ==
    /\ SameRows
    /\ \A c \in DOMAIN cmds : cmds'[c].status = "queued" <=> cmds[c].status = "queued"
    /\ \A p \in Poll :
          /\ polls'[p].pc = "selected" =>
                \/ At(p, "selected") /\ polls'[p].cmd = polls[p].cmd
                \/ \A c \in Waiting(p[1]) : polls'[p].cmd <= c
          /\ polls'[p].pc \notin EarlyPc =>
                polls[p].pc \notin EarlyPc /\ polls'[p].cmd = polls[p].cmd

\* A step that leaves the rows alone and moves one poll onward keeps the queue.
LEMMA MoveKeeps ==
    ASSUME TypeOK, UNCHANGED cmds, NEW p \in Poll, NEW q \in PollState,
           polls' = [polls EXCEPT ![p] = q],
           q.pc # "selected",
           q.pc \notin EarlyPc => polls[p].pc \notin EarlyPc /\ q.cmd = polls[p].cmd
    PROVE  Keeps
BY LenProperties DEF TypeOK, Keeps, SameRows, At

\* A recorded result never puts a row back into the queue, nor takes one out:
\* its poll has claimed it.
LEMMA RecordKeeps ==
    ASSUME TypeOK, HeldClaimed, NEW p \in Poll, RecordResult(p)
    PROVE  Keeps
<1> DEFINE q == polls[p]
           row == cmds[q.cmd]
<1>1. /\ q \in PollState
      /\ q.pc \in {"reportRunning", "reportResult"}
      /\ q.cmd \in DOMAIN cmds
      /\ row \in CommandRow
      /\ row.status # "queued"
  BY ElementOfSeq, LenProperties DEF RecordResult, At, TypeOK, HeldClaimed, EarlyPc
<1>2. PICK s \in {"running", "succeeded", "failed"},
           pc \in {"reconcileRunning", "reconcileResult"} :
         ReplaceStatus(q.cmd, s) /\ Goto(p, pc)
  BY DEF RecordResult, At, TypeOK, Completed
<1>3. /\ WithStatus(row, s) \in CommandRow
      /\ WithStatus(row, s).status = s
      /\ WithStatus(row, s).host = row.host
  BY <1>1, WithStatusType DEF CommandStatus
<1>4. /\ SameRows
      /\ \A c \in DOMAIN cmds : cmds'[c] = IF c = q.cmd THEN WithStatus(row, s) ELSE cmds[c]
  BY <1>1, <1>2, <1>3, ReplaceRow DEF ReplaceStatus, SameRows, TypeOK
<1>5. Moved(q, pc).pc = pc /\ Moved(q, pc).cmd = q.cmd
  BY <1>1, MovedType DEF HandlerPc
<1>6. QED
  BY <1>1, <1>2, <1>3, <1>4, <1>5 DEF Keeps, Goto, At, EarlyPc, TypeOK

\* The claim takes its row, and no other, out of the queue.
LEMMA ClaimTakes ==
    ASSUME TypeOK, NEW p \in Poll, ClaimSelected(p)
    PROVE  Takes(p)
<1> DEFINE q == polls[p]
           row == cmds[q.cmd]
<1>1. q \in PollState /\ q.cmd \in DOMAIN cmds /\ row \in CommandRow
  BY ElementOfSeq, LenProperties DEF ClaimSelected, At, TypeOK
<1>2. /\ Claimed(row) \in CommandRow
      /\ Claimed(row).status = "claimed"
      /\ Claimed(row).host = row.host
  BY <1>1, ClaimedType
<1>3. /\ SameRows
      /\ \A c \in DOMAIN cmds : cmds'[c] = IF c = q.cmd THEN Claimed(row) ELSE cmds[c]
  BY <1>1, <1>2, ReplaceRow DEF ClaimSelected, SameRows, TypeOK
<1>4. /\ polls'[p] \in {Moved(q, "claimed"), Idle}
      /\ \A r \in Poll : r # p => polls'[r] = polls[r]
  BY DEF ClaimSelected, Return, TypeOK
<1>5. Moved(q, "claimed").pc = "claimed" /\ Moved(q, "claimed").cmd = q.cmd
  BY <1>1, MovedType DEF AgentPc
<1>6. QED
  BY <1>2, <1>3, <1>4, <1>5, IdleType DEF Takes, ClaimSelected, EarlyPc

\* Every other step of a poll leaves the queued rows alone, and a poll that
\* selects does so at the head of its host's queue.
LEMMA PollKeeps ==
    ASSUME TypeOK, HeldClaimed, NEW p \in Poll, PollStep(p), ~ClaimSelected(p)
    PROVE  Keeps
<1> DEFINE q == polls[p]
<1>0. q \in PollState
  BY DEF TypeOK
<1>1. CASE StartPoll(p)
  BY <1>1, IdleType, MoveKeeps DEF StartPoll, EarlyPc
<1>2. CASE SelectOldest(p)
  <2>1. CASE Waiting(p[1]) = {} /\ Abandon(p)
    BY <1>2, <2>1, IdleType, MoveKeeps DEF SelectOldest, Abandon, EarlyPc
  <2>2. ASSUME NEW c \in Waiting(p[1]), \A d \in Waiting(p[1]) : c <= d,
               polls' = [polls EXCEPT ![p] = Selected(q, c)]
        PROVE  Keeps
    <3>1. c \in Nat
      BY LenProperties DEF Waiting, TypeOK
    <3>2. Selected(q, c).pc = "selected" /\ Selected(q, c).cmd = c
      BY <1>0, <3>1, SelectedType
    <3>3. polls'[p] = Selected(q, c) /\ \A r \in Poll : r # p => polls'[r] = polls[r]
      BY <2>2 DEF TypeOK
    <3>4. UNCHANGED cmds
      BY <1>2 DEF SelectOldest
    <3>5. QED
      BY <2>2, <3>2, <3>3, <3>4 DEF Keeps, SameRows, EarlyPc, At, TypeOK
  <2>3. QED
    BY <1>2, <2>1, <2>2 DEF SelectOldest
<1>3. CASE AuthoriseReport(p)
  <2>1. CASE Abandon(p)
    BY <1>3, <2>1, IdleType, MoveKeeps DEF AuthoriseReport, Abandon, EarlyPc
  <2>2. ASSUME NEW pc \in {"reportRunning", "reportResult"}, Goto(p, pc), q.pc \in SendingPc
        PROVE  Keeps
    <3>1. /\ Moved(q, pc) \in PollState
          /\ Moved(q, pc).pc = pc
          /\ Moved(q, pc).cmd = q.cmd
      BY <1>0, MovedType DEF HandlerPc
    <3>2. QED
      BY <1>3, <2>2, <3>1, MoveKeeps DEF AuthoriseReport, Goto, EarlyPc, SendingPc
  <2>3. QED
    BY <1>3, <2>1, <2>2 DEF AuthoriseReport, At, SendingPc
<1>4. CASE RecordResult(p)
  BY <1>4, RecordKeeps
<1>5. CASE ReconcileTenant(p)
  <2>1. /\ Moved(q, "running") \in PollState
        /\ Moved(q, "running").pc = "running"
        /\ Moved(q, "running").cmd = q.cmd
    BY <1>0, MovedType DEF AgentPc
  <2> DEFINE n == IF At(p, "reconcileRunning") /\ q.live THEN Moved(q, "running") ELSE Idle
  <2>2. polls' = [polls EXCEPT ![p] = n] /\ UNCHANGED cmds
    BY <1>5 DEF ReconcileTenant, Return, Abandon, At
  <2>3. q.pc \notin EarlyPc
    BY <1>5 DEF ReconcileTenant, At, EarlyPc
  <2>4. n \in PollState /\ n.pc # "selected" /\ (n.pc \notin EarlyPc => n.cmd = q.cmd)
    BY <2>1, IdleType DEF EarlyPc
  <2>5. QED
    BY <2>2, <2>3, <2>4, MoveKeeps
<1>6. CASE Execute(p)
  <2>1. PICK r \in Completed : polls' = [polls EXCEPT ![p] = Finished(q, r)]
    BY <1>6, OutcomeType DEF Execute
  <2>2. /\ Finished(q, r) \in PollState
        /\ Finished(q, r).pc = "executed"
        /\ Finished(q, r).cmd = q.cmd
    BY <1>0, FinishedType
  <2>3. q.pc \notin EarlyPc /\ UNCHANGED cmds
    BY <1>6 DEF Execute, At, EarlyPc
  <2>4. QED
    BY <2>1, <2>2, <2>3, MoveKeeps
<1>7. QED
  BY <1>1, <1>2, <1>3, <1>4, <1>5, <1>6 DEF PollStep

\* The admin API appends a queued row or leaves the queue alone.
LEMMA AdminAppends ==
    ASSUME TypeOK, Admin
    PROVE  Appends \/ Keeps
<1>1. ASSUME NEW h \in Hosts, NEW t \in Tenants \cup {NoTenant},
             NEW ty \in EnqueuedTypes, NEW pl \in EnqueuedPayloads,
             CreateCommand(h, t, ty, pl)
      PROVE  Appends
  <2>1. ty \in CommandType /\ pl \in Payload
    BY QueueAssumption
  <2>2. /\ QueuedRow(h, t, ty, pl) \in CommandRow
        /\ QueuedRow(h, t, ty, pl).status = "queued"
    BY <2>1, QueuedRowType
  <2>3. QED
    BY <1>1, <2>2 DEF CreateCommand, Enqueue, Appends
<1>2. ASSUME NEW c \in DOMAIN cmds, RetryCommand(c)
      PROVE  Appends
  <2> DEFINE r == QueuedRow(cmds[c].host, cmds[c].tenant, cmds[c].type, cmds[c].payload)
  <2>1. cmds[c] \in CommandRow
    BY ElementOfSeq, LenProperties DEF TypeOK
  <2>2. r \in CommandRow /\ r.status = "queued"
    BY <2>1, QueuedRowType DEF CommandRow
  <2>3. cmds' = Append(cmds, r) /\ UNCHANGED polls
    BY <1>2 DEF RetryCommand, Enqueue
  <2> HIDE DEF r
  <2>4. QED
    BY <2>2, <2>3 DEF Appends
<1>3. ASSUME NEW h \in Hosts, ApproveHost(h)
      PROVE  Keeps
  BY <1>3 DEF ApproveHost, Keeps, SameRows, At, TypeOK
<1>4. QED
  BY <1>1, <1>2, <1>3 DEF Admin

\* A fault leaves the queued rows alone.
LEMMA FaultKeeps ==
    ASSUME TypeOK, Fault
    PROVE  Keeps
<1>1. \A p \in Poll : /\ polls'[p].pc \in {polls[p].pc, "idle"}
                      /\ polls'[p].pc # "idle" => polls'[p].cmd = polls[p].cmd
  BY FaultMoves, IdleType, OrphanedType DEF TypeOK
<1>2. QED
  BY <1>1, FaultMoves DEF Keeps, SameRows, At, EarlyPc, TypeOK

\* Every step is of one of the three kinds.
LEMMA StepKinds ==
    ASSUME TypeOK, HeldClaimed, [Next]_vars
    PROVE  Appends \/ Keeps \/ \E p \in Poll : Takes(p)
<1>1. CASE UNCHANGED vars
  BY <1>1 DEF vars, Keeps, SameRows, At, TypeOK
<1>2. CASE Next
  BY <1>2, AdminAppends, FaultKeeps, ClaimTakes, PollKeeps DEF Next
<1>3. QED
  BY <1>1, <1>2

\* A new row is the youngest, so appending it keeps the order.
LEMMA AppendsFifo ==
    ASSUME FifoInv, TypeOK', Appends
    PROVE  FifoInv'
<1>1. PICK row \in CommandRow : /\ row.status = "queued"
                                /\ cmds' = Append(cmds, row)
                                /\ UNCHANGED polls
  BY DEF Appends
<1>2. /\ Len(cmds) \in Nat
      /\ DOMAIN cmds = 1 .. Len(cmds)
      /\ DOMAIN cmds' = 1 .. Len(cmds) + 1
      /\ \A d \in DOMAIN cmds : cmds'[d] = cmds[d]
      /\ cmds'[Len(cmds) + 1].status = "queued"
  BY <1>1, AppendRow, LenProperties DEF FifoInv, TypeOK
<1>3. OldestFirst'
  BY <1>2 DEF FifoInv, OldestFirst
<1>4. SelectedOldest'
  <2>1. \A p \in Poll : At(p, "selected") => polls[p].cmd \in DOMAIN cmds
    BY DEF FifoInv, TypeOK, At
  <2>2. QED
    BY <1>1, <1>2, <2>1 DEF FifoInv, SelectedOldest, At
<1>5. HeldClaimed'
  <2>1. \A p \in Poll : polls[p].pc \notin EarlyPc => polls[p].cmd \in DOMAIN cmds
    BY DEF FifoInv, TypeOK, EarlyPc
  <2>2. QED
    BY <1>1, <1>2, <2>1 DEF FifoInv, HeldClaimed
<1>6. QED
  BY <1>3, <1>4, <1>5 DEF FifoInv

\* A poll that takes a row holds one with no older queued row of its host before
\* it, now or when it was selected: the order is kept.
LEMMA TakesFifo ==
    ASSUME FifoInv, TypeOK', NEW p \in Poll, Takes(p)
    PROVE  FifoInv'
<1>1. /\ polls[p].cmd \in DOMAIN cmds
      /\ cmds[polls[p].cmd].host = p[1]
      /\ DOMAIN cmds' = DOMAIN cmds
      /\ \A c \in DOMAIN cmds : cmds'[c].host = cmds[c].host
      /\ \A c \in DOMAIN cmds : cmds'[c].status # "queued"
                                   <=> cmds[c].status # "queued" \/ c = polls[p].cmd
  BY DEF FifoInv, TypeOK, Takes, SameRows, At
<1>2. OldestFirst'
  BY <1>1 DEF FifoInv, OldestFirst, SelectedOldest, Takes
<1>3. SelectedOldest'
  <2>1. \A r \in Poll : At(r, "selected")' => At(r, "selected") /\ polls'[r] = polls[r]
    BY DEF Takes, At
  <2>2. QED
    BY <1>1, <2>1 DEF FifoInv, SelectedOldest, At
<1>4. HeldClaimed'
  <2>1. ASSUME NEW r \in Poll, polls'[r].pc \notin EarlyPc
        PROVE  cmds'[polls'[r].cmd].status # "queued"
    <3>1. CASE r = p
      BY <1>1, <2>1, <3>1 DEF Takes
    <3>2. CASE r # p
      <4>1. polls'[r] = polls[r] /\ polls[r].cmd \in DOMAIN cmds
        BY <2>1, <3>2 DEF Takes, FifoInv, TypeOK, EarlyPc
      <4>2. QED
        BY <1>1, <2>1, <4>1 DEF FifoInv, HeldClaimed
    <3>3. QED
      BY <3>1, <3>2
  <2>2. QED
    BY <2>1 DEF HeldClaimed
<1>5. QED
  BY <1>2, <1>3, <1>4 DEF FifoInv

\* A step that keeps the queue keeps the order, and a poll that just selected
\* holds the oldest row.
LEMMA KeepsFifo ==
    ASSUME FifoInv, TypeOK', Keeps
    PROVE  FifoInv'
<1>1. /\ DOMAIN cmds' = DOMAIN cmds
      /\ \A c \in DOMAIN cmds : c \in Nat
      /\ \A c \in DOMAIN cmds : cmds'[c].host = cmds[c].host
      /\ \A c \in DOMAIN cmds : cmds'[c].status = "queued" <=> cmds[c].status = "queued"
  BY LenProperties DEF FifoInv, TypeOK, Keeps, SameRows
<1>2. OldestFirst'
  BY <1>1 DEF FifoInv, OldestFirst
<1>3. SelectedOldest'
  <2>1. ASSUME NEW p \in Poll, polls'[p].pc = "selected",
               NEW c \in DOMAIN cmds, c < polls'[p].cmd, cmds[c].host = p[1]
        PROVE  cmds[c].status # "queued"
    <3>1. CASE At(p, "selected") /\ polls'[p].cmd = polls[p].cmd
      BY <2>1, <3>1 DEF FifoInv, SelectedOldest
    <3>2. CASE \A d \in Waiting(p[1]) : polls'[p].cmd <= d
      <4>1. polls'[p].cmd \in Nat
        BY DEF TypeOK, PollState
      <4>2. c \notin Waiting(p[1])
        BY <1>1, <2>1, <3>2, <4>1
      <4>3. QED
        BY <2>1, <4>2 DEF Waiting
    <3>3. QED
      BY <2>1, <3>1, <3>2 DEF Keeps
  <2>2. QED
    BY <1>1, <2>1 DEF SelectedOldest, At
<1>4. HeldClaimed'
  <2>1. ASSUME NEW p \in Poll, polls'[p].pc \notin EarlyPc
        PROVE  /\ polls'[p].cmd \in DOMAIN cmds
               /\ cmds[polls'[p].cmd].status # "queued"
    BY <2>1 DEF Keeps, FifoInv, HeldClaimed, TypeOK, EarlyPc
  <2>2. QED
    BY <1>1, <2>1 DEF HeldClaimed
<1>5. QED
  BY <1>2, <1>3, <1>4 DEF FifoInv

\* The inductive invariant of dispatching.
THEOREM FifoInvariant == Spec => []FifoInv
<1>1. Init => FifoInv
  <2>1. Init => TypeOK
    BY QueueAssumption, IdleType, EmptySeq DEF Init, TypeOK
  <2>2. Init => OldestFirst /\ SelectedOldest /\ HeldClaimed
    BY IdleType, EmptySeq DEF Init, OldestFirst, SelectedOldest, HeldClaimed, EarlyPc, At
  <2>3. QED
    BY <2>1, <2>2 DEF FifoInv
<1>2. FifoInv /\ TypeOK' /\ [Next]_vars => FifoInv'
  BY StepKinds, AppendsFifo, TakesFifo, KeepsFifo DEF FifoInv
<1>3. QED
  BY <1>1, <1>2, TypeCorrect, PTL DEF Spec

\* No command leaves the queue before an older one of its host, whatever polls
\* overlap and whatever fails.
THEOREM FirstInFirstOut == Spec => []OldestFirst
<1>1. FifoInv => OldestFirst
  BY DEF FifoInv
<1>2. QED
  BY <1>1, FifoInvariant, PTL

-----------------------------------------------------------------------------
(***************************************************************************)
(* The queue implements FifoDispatch.                                      *)
(***************************************************************************)

logOf == [c \in DOMAIN cmds |-> cmds[c].host]
waitingOf == {c \in DOMAIN cmds : cmds[c].status = "queued"}

\* Appending a queued row is a Submit of FifoDispatch.
LEMMA AppendsSubmits ==
    ASSUME FifoInv, Appends
    PROVE  \E h \in Hosts : Dispatch!Submit(h)
<1>1. PICK row \in CommandRow : row.status = "queued" /\ cmds' = Append(cmds, row)
  BY DEF Appends
<1>2. /\ cmds \in Seq(CommandRow)
      /\ Len(cmds) \in Nat
      /\ DOMAIN cmds = 1 .. Len(cmds)
      /\ DOMAIN cmds' = 1 .. Len(cmds) + 1
      /\ \A d \in DOMAIN cmds : cmds'[d] = cmds[d] /\ cmds[d].host \in Hosts
      /\ cmds'[Len(cmds) + 1] = row
  <2>1. cmds \in Seq(CommandRow)
    BY DEF FifoInv, TypeOK
  <2>2. \A d \in DOMAIN cmds : cmds[d] \in CommandRow
    BY <2>1, ElementOfSeq, LenProperties
  <2>3. \A d \in DOMAIN cmds : cmds[d].host \in Hosts
    BY <2>2 DEF CommandRow
  <2>4. QED
    BY <1>1, <2>1, <2>3, AppendRow, LenProperties
<1>3. row.host \in Hosts
  BY DEF CommandRow
<1>4. logOf \in Seq(Hosts) /\ Len(logOf) = Len(cmds)
  BY <1>2, IsASeq, LenProperties DEF logOf
<1>5. /\ Append(logOf, row.host) \in Seq(Hosts)
      /\ Len(Append(logOf, row.host)) = Len(cmds) + 1
      /\ \A d \in 1 .. Len(cmds) : Append(logOf, row.host)[d] = logOf[d]
      /\ Append(logOf, row.host)[Len(cmds) + 1] = row.host
  BY <1>3, <1>4, AppendProperties
<1>6. logOf' \in Seq(Hosts) /\ Len(logOf') = Len(cmds) + 1
  <2>1. \A d \in 1 .. Len(cmds) + 1 : cmds'[d].host \in Hosts
    BY <1>2, <1>3
  <2>2. [d \in 1 .. Len(cmds) + 1 |-> cmds'[d].host] \in Seq(Hosts)
    BY <1>2, <2>1, IsASeq
  <2>3. logOf' = [d \in 1 .. Len(cmds) + 1 |-> cmds'[d].host]
    BY <1>2 DEF logOf
  <2>4. QED
    BY <1>2, <2>2, <2>3, LenProperties
<1>7. \A d \in 1 .. Len(cmds) + 1 : logOf'[d] = Append(logOf, row.host)[d]
  BY <1>2, <1>5 DEF logOf
<1>8. logOf' = Append(logOf, row.host)
  BY <1>5, <1>6, <1>7, SeqEqual
<1>9. waitingOf' = waitingOf \cup {Len(logOf) + 1}
  BY <1>1, <1>2, <1>4 DEF waitingOf
<1>10. QED
  BY <1>3, <1>8, <1>9 DEF Dispatch!Submit, logOf, waitingOf

\* Claiming a row is a HandOut of FifoDispatch, or a stutter when the row had been
\* claimed by an overlapping poll.
LEMMA TakesHandsOut ==
    ASSUME FifoInv, NEW p \in Poll, Takes(p)
    PROVE  \/ \E c \in waitingOf : Dispatch!HandOut(c)
           \/ UNCHANGED <<logOf, waitingOf>>
<1> DEFINE c == polls[p].cmd
<1>1. /\ c \in DOMAIN cmds
      /\ cmds[c].host = p[1]
      /\ DOMAIN cmds = 1 .. Len(cmds)
      /\ Len(cmds) \in Nat
      /\ DOMAIN cmds' = DOMAIN cmds
      /\ \A d \in DOMAIN cmds : cmds'[d].host = cmds[d].host
      /\ \A d \in DOMAIN cmds : cmds'[d].status = "queued"
                                   <=> cmds[d].status = "queued" /\ d # c
  BY LenProperties DEF FifoInv, TypeOK, Takes, SameRows, At
<1>2. UNCHANGED logOf /\ waitingOf' = waitingOf \ {c}
  BY <1>1 DEF logOf, waitingOf
<1>3. CASE c \in waitingOf
  <2>1. \A d \in waitingOf : logOf[d] = logOf[c] => c <= d
    BY <1>1, <1>3 DEF logOf, waitingOf, FifoInv, SelectedOldest, Takes
  <2>2. QED
    BY <1>2, <1>3, <2>1 DEF Dispatch!HandOut, logOf, waitingOf
<1>4. CASE c \notin waitingOf
  BY <1>2, <1>4
<1>5. QED
  BY <1>3, <1>4

\* Every other step is a stutter of FifoDispatch.
LEMMA KeepsStutters ==
    ASSUME FifoInv, Keeps
    PROVE  UNCHANGED <<logOf, waitingOf>>
BY DEF Keeps, SameRows, logOf, waitingOf

\* Every behaviour of the queue is one of FifoDispatch: each host is handed its
\* commands in order, each leaves the queue once, and none comes back.
THEOREM QueueImplementsFifo == Spec => ImplementsFifo
<1>1. Init => Dispatch!Init
  <2>1. ASSUME Init
        PROVE  cmds = <<>> /\ DOMAIN cmds = {}
    BY <2>1, EmptySeq, LenProperties DEF Init
  <2>2. ASSUME Init
        PROVE  logOf = <<>> /\ waitingOf = {}
    <3>1. logOf = [c \in {} |-> cmds[c].host] /\ waitingOf = {}
      BY <2>1, <2>2 DEF logOf, waitingOf
    <3>2. [c \in {} |-> cmds[c].host] = <<>>
      OBVIOUS
    <3>3. QED
      BY <3>1, <3>2
  <2>3. QED
    BY <2>2 DEF Dispatch!Init, logOf, waitingOf
<1>2. FifoInv /\ [Next]_vars => [Dispatch!Next]_<<logOf, waitingOf>>
  <2>1. ASSUME FifoInv, [Next]_vars
        PROVE  Dispatch!Next \/ UNCHANGED <<logOf, waitingOf>>
    <3>1. CASE Appends
      BY <2>1, <3>1, AppendsSubmits DEF Dispatch!Next
    <3>2. ASSUME NEW p \in Poll, Takes(p)
          PROVE  Dispatch!Next \/ UNCHANGED <<logOf, waitingOf>>
      BY <2>1, <3>2, TakesHandsOut DEF Dispatch!Next, waitingOf
    <3>3. CASE Keeps
      BY <2>1, <3>3, KeepsStutters
    <3>4. QED
      BY <2>1, <3>1, <3>2, <3>3, StepKinds DEF FifoInv
  <2>2. QED
    BY <2>1
<1>3. QED
  BY <1>1, <1>2, FifoInvariant, PTL DEF Spec, ImplementsFifo, Dispatch!Spec, logOf, waitingOf
=============================================================================
