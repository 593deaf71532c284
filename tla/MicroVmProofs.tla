---------------------------- MODULE MicroVmProofs ---------------------------
(***************************************************************************)
(* Proofs about MicroVm, for any tenants with any slugs, so with any       *)
(* addresses and taps that coincide, and any number and kind of commands.  *)
(***************************************************************************)
EXTENDS MicroVm, TLAPS

-----------------------------------------------------------------------------
(***************************************************************************)
(* The command in progress.                                                *)
(***************************************************************************)

\* A command that is in progress has all fields, and may go from step to step.
LEMMA JobType ==
    ASSUME TypeOK, job.pc # "idle"
    PROVE  /\ job \in Job
           /\ job.tenant \in Tenants
           /\ ThisTap \in Taps
           /\ \A pc \in {"boot", "register", "remove"} \cup DiskPc \cup TapPc :
                 Goto(pc) => /\ job' \in Job
                             /\ job'.pc = pc
                             /\ job'.tenant = job.tenant
                             /\ job'.type = job.type
                             /\ job'.payload = job.payload
                             /\ job'.known = job.known
BY DEF TypeOK, Job, NoJob, ThisTap, Taps, Goto

\* A command that goes to another step keeps its other fields.
LEMMA StepOfType ==
    ASSUME NEW j \in Job, NEW pc \in {"boot", "register", "remove"} \cup DiskPc \cup TapPc
    PROVE  LET k == [j EXCEPT !.pc = pc] IN
           /\ k \in Job
           /\ k.pc = pc /\ k.tenant = j.tenant /\ k.type = j.type /\ k.payload = j.payload
           /\ k.known = j.known
BY DEF Job

\* What arrives is a command of some type, payload and tenant, not begun yet.
Arrival(t, ty, pl) == [pc |-> "idle", type |-> ty, payload |-> pl, tenant |-> t, known |-> t \in vms]

\* What a command brings along when it arrives at the executor.
LEMMA ArrivalType ==
    ASSUME NEW t \in Tenants, NEW ty \in CommandType, NEW pl \in Payload
    PROVE  /\ Arrival(t, ty, pl) \in Job
           /\ Arrival(t, ty, pl).tenant = t
           /\ Arrival(t, ty, pl).type = ty
           /\ Arrival(t, ty, pl).payload = pl
           /\ Arrival(t, ty, pl).known <=> t \in vms
<1>1. Arrival(t, ty, pl) \in Job
  BY SMT DEF Arrival, Job
<1>2. Arrival(t, ty, pl).tenant = t /\ Arrival(t, ty, pl).type = ty /\ Arrival(t, ty, pl).payload = pl
  BY SMT DEF Arrival
<1>3. Arrival(t, ty, pl).known = (t \in vms)
  BY Zenon DEF Arrival
<1>4. QED
  BY <1>1, <1>2, <1>3, Zenon

\* What the agent does first with command j, by the step it is taken to.
Acknowledged == UNCHANGED <<host, history>> /\ job' = NoJob

Stopped(j) == StopMicrovm(j) /\ job' = NoJob /\ UNCHANGED <<disk, tap, nat, cut, spoiled, exited>>

\* A command that arrives is acknowledged, stops a machine, or begins to create or
\* to delete one; what it knows of the tenant is so.
LEMMA ReceiveCases ==
    ASSUME TypeOK, NEW t \in Tenants, NEW ty \in Received, NEW pl \in Payloads, Receive(t, ty, pl)
    PROVE  \E j \in Job :
               /\ j.tenant = t /\ j.type = ty /\ j.payload = pl /\ (j.known <=> t \in vms)
               /\ \/ CreateTenant(j) \/ StartTenant(j) \/ StopOrRestart(j) \/ DeleteTenant(j)
                  \/ OtherCommand(j)
<1> DEFINE j == Arrival(t, ty, pl)
<1>1. \/ CreateTenant(j) \/ StartTenant(j) \/ StopOrRestart(j) \/ DeleteTenant(j)
      \/ OtherCommand(j)
  BY Zenon DEF Receive, Arrival
<1>2. j \in Job /\ j.tenant = t /\ j.type = ty /\ j.payload = pl /\ (j.known <=> t \in vms)
  BY ArrivalType, MicroVmAssumption
<1> HIDE DEF j
<1>3. QED
  BY <1>1, <1>2

\* What a command that begins does, by the step it is taken to.
LEMMA BeginCases ==
    ASSUME NEW j \in Job,
           \/ CreateTenant(j) \/ StartTenant(j) \/ StopOrRestart(j) \/ DeleteTenant(j)
           \/ OtherCommand(j)
    PROVE  \/ Acknowledged
           \/ Stopped(j)
           \/ /\ CreateMicrovm(j)
              /\ j.payload = "full"
              /\ j.type = "create_tenant" \/ (j.type = "start_tenant" /\ j.tenant \notin vms)
           \/ DeleteTenant(j)
BY DEF CreateTenant, StartTenant, StopOrRestart, DeleteTenant, OtherCommand, Acknowledge, Acknowledged,
       Stopped, Result, host, history

-----------------------------------------------------------------------------
(***************************************************************************)
(* The inductive invariant: what a command in progress knows.              *)
(***************************************************************************)

\* The steps of createMicrovm after the disk, and before it.
Networked == TapPc \cup {"boot", "register"}
Creating == DiskPc \cup Networked

\* What was known of the tenant when the command arrived is still so: nothing
\* else writes the registry while the agent is blocked.
KnownStill ==
    /\ job.pc \in Creating =>
          /\ Installs(job.type, job.payload)
          /\ job.type = "start_tenant" => ~job.known
          /\ job.known <=> job.tenant \in vms
    /\ At("remove") =>
          /\ job.type = "delete_tenant"
          /\ job.tenant \in vms <=> job.known /\ job.payload = "empty"

\* A machine that was booted runs or has ended by itself, and only the machine
\* that is about to be registered may be missing from the registry.
Booted ==
    /\ RegistryMatchesMachines
    /\ At("register") => job.tenant \in running \cup exited

\* A machine's disk is there while it is created, and not complete only where an
\* attempt was cut short; what was cut short has left something.  No disk is made
\* for a machine that is registered, and none is removed but the payload's.
DiskRight ==
    /\ \A t \in Tenants :
          /\ t \in cut => disk[t] # "none"
          /\ \/ disk[t] \in {"none", "resized"}
             \/ t \in cut
             \/ job.pc \in {"truncate", "resize"} /\ job.tenant = t
    /\ job.pc \in Networked => disk[job.tenant] # "none"
    /\ job.pc \in DiskPc => job.tenant \notin vms
    /\ At("remove") => job.payload # "empty"
    /\ \A t \in vms : disk[t] # "none"
    /\ \A t \in running : t \in orphaned \/ disk[t] # "none"

\* A tap is as far as the step before left it; one that nobody is setting up is
\* missing, complete with the rule of one of its tenants, or was left unfinished.
Settled(n) ==
    \/ tap[n] = "none"
    \/ n \in spoiled
    \/ tap[n] = "up" /\ \E u \in Tenants : TapName[u] = n /\ Address[u] \in nat

Reached(t) ==
    \/ Connected(t)
    \/ TapName[t] \in spoiled
    \/ \E u \in Tenants \ {t} : TapName[u] = TapName[t] /\ Address[u] \in nat

TapRight ==
    /\ At("add address") => tap[ThisTap] = "added"
    /\ At("bring up") => tap[ThisTap] = "addressed"
    /\ At("add rule") => tap[ThisTap] = "up"
    /\ \A n \in Taps : Settled(n) \/ (job.pc \in TapPc \ {"add tap"} /\ ThisTap = n)
    /\ job.pc \in {"boot", "register"} => Reached(job.tenant)
    /\ \A t \in vms : Reached(t)

\* No delete_tenant arrives without a slug: what runAction writes has one.
SlugsGiven == "delete_tenant" \in Received => "empty" \notin Payloads

-----------------------------------------------------------------------------
(***************************************************************************)
(* Type correctness.                                                       *)
(***************************************************************************)

\* Every step of a command keeps the types, and leaves what the next step expects.
LEMMA BeginType ==
    ASSUME TypeOK, NEW j \in Job, UNCHANGED supervised, commands' \in 0 .. MaxCommands,
           \/ CreateTenant(j) \/ StartTenant(j) \/ StopOrRestart(j) \/ DeleteTenant(j)
           \/ OtherCommand(j)
    PROVE  TypeOK'
<1> USE DEF TypeOK, At
<1>0. j.tenant \in Tenants
  BY DEF Job
<1>1. CASE Acknowledged
  BY <1>1 DEF Acknowledged, host, history, NoJob
<1>2. CASE Stopped(j)
  BY <1>2 DEF Stopped, StopMicrovm, NoJob
<1>3. CASE CreateMicrovm(j)
  <2>1. PICK pc \in {"copy", "add tap"} :
           /\ job' = [j EXCEPT !.pc = pc]
           /\ pc = "copy" => disk[j.tenant] = "none"
    BY <1>3 DEF CreateMicrovm
  <2>2. job' \in Job /\ job'.pc = pc /\ job'.tenant = j.tenant
    BY <2>1, StepOfType DEF DiskPc, TapPc
  <2>3. QED
    BY <1>3, <2>1, <2>2 DEF CreateMicrovm, host, history
<1>4. CASE DeleteTenant(j)
  <2>1. job' \in Job /\ job'.pc = "remove"
    BY <1>4, StepOfType DEF DeleteTenant
  <2>2. QED
    BY <1>4, <2>1 DEF DeleteTenant, StopMicrovm
<1>5. QED
  BY <1>1, <1>2, <1>3, <1>4, BeginCases

\* A disk step: the disk of the command's tenant, and where the command is after it.
LEMMA DiskType ==
    ASSUME TypeOK, CopyRootfs \/ Truncate \/ Resize
    PROVE  TypeOK'
<1> USE DEF TypeOK, At, Same
<1>1. job.pc \in DiskPc /\ job.pc # "idle"
  BY DEF CopyRootfs, Truncate, Resize, DiskPc
<1>2. PICK state \in DiskState :
         /\ HasDisk(state)
         /\ \/ /\ cut' = cut
               /\ \/ state = "copied" /\ Goto("truncate")
                  \/ state = "truncated" /\ Goto("resize")
                  \/ state = "resized" /\ Goto("add tap")
            \/ job' = NoJob /\ cut' \subseteq cut \cup {job.tenant}
  <2>1. CASE CopyRootfs
    BY <2>1, Zenon DEF CopyRootfs, DiskThrows, Fail, Result, DiskState
  <2>2. CASE Truncate
    BY <2>2 DEF Truncate, DiskThrows, Fail, Result, DiskState
  <2>3. CASE Resize
    BY <2>3 DEF Resize, DiskThrows, Fail, Result, DiskState
  <2>4. QED
    BY <2>1, <2>2, <2>3
<1>3. UNCHANGED <<vms, running, tap, nat, spoiled, exited, orphaned, commands, supervised>>
  BY DEF CopyRootfs, Truncate, Resize
<1>4. job.tenant \in Tenants /\ disk' = [disk EXCEPT ![job.tenant] = state]
  BY <1>1, <1>2, JobType DEF HasDisk
<1>5. CASE job' = NoJob /\ cut' \subseteq cut \cup {job.tenant}
  BY <1>3, <1>4, <1>5 DEF NoJob
<1>6. ASSUME NEW pc \in {"truncate", "resize", "add tap"}, Goto(pc), cut' = cut,
             pc = "truncate" => state = "copied", pc = "resize" => state = "truncated"
      PROVE  TypeOK'
  <2>1. job' \in Job /\ job'.pc = pc /\ job'.tenant = job.tenant
    BY <1>1, <1>6, JobType DEF DiskPc, TapPc
  <2>2. QED
    BY <1>3, <1>4, <1>6, <2>1
<1>7. QED
  BY <1>2, <1>5, <1>6

\* A step of ensureTap: the tap of the command's tenant, or its rule.
LEMMA TapType ==
    ASSUME TypeOK, AddTap \/ AddAddress \/ BringUp \/ AddRule
    PROVE  TypeOK'
<1> USE DEF TypeOK, At, Same
<1>1. job.pc # "idle"
  BY DEF AddTap, AddAddress, BringUp, AddRule
<1>2. UNCHANGED <<vms, running, disk, cut, exited, orphaned, commands, supervised>>
  BY DEF AddTap, AddAddress, BringUp, AddRule
<1>3. \E pc \in {"add address", "bring up", "add rule", "boot"} : Goto(pc)
  BY DEF AddTap, AddAddress, BringUp, AddRule, HasTap, TapGivesUp
<1>4. /\ \/ tap' = tap
         \/ \E state \in TapState : tap' = [tap EXCEPT ![ThisTap] = state]
      /\ nat' = nat \/ nat' = nat \cup {Address[job.tenant]}
      /\ spoiled' = spoiled \/ spoiled' = spoiled \cup {ThisTap}
  <2>1. CASE AddTap
    BY <2>1 DEF AddTap, HasTap, TapGivesUp, TapState
  <2>2. CASE AddAddress \/ BringUp
    BY <2>2 DEF AddAddress, BringUp, HasTap, TapGivesUp, TapState
  <2>3. CASE AddRule
    BY <2>3 DEF AddRule, TapGivesUp
  <2>4. QED
    BY <2>1, <2>2, <2>3
<1>5. /\ job' \in Job /\ job'.pc \in {"add address", "bring up", "add rule", "boot"}
      /\ job.tenant \in Tenants /\ ThisTap \in Taps
  BY <1>1, <1>3, JobType DEF TapPc
<1>6. nat' \subseteq {Address[t] : t \in Tenants}
  BY <1>4, <1>5
<1>7. tap' \in [Taps -> TapState]
  BY <1>4, <1>5
<1>8. QED
  BY <1>2, <1>4, <1>5, <1>6, <1>7

\* Booting, registering and removing.
LEMMA EndType ==
    ASSUME TypeOK, Boot \/ Register \/ RemoveDir
    PROVE  TypeOK'
<1> USE DEF TypeOK, At, Same
<1>1. job.pc # "idle" /\ job.tenant \in Tenants
  BY JobType DEF Boot, Register, RemoveDir
<1>2. CASE Boot
  <2>1. \/ job' \in Job /\ job'.pc = "register"
        \/ job' = NoJob
    BY <1>1, <1>2, JobType DEF Boot, Fail, Result
  <2>2. job' \in Job \cup {NoJob} /\ job'.pc \in {"register", "idle"}
    BY <2>1 DEF NoJob
  <2>3. /\ running' \subseteq running \cup {job.tenant} /\ exited' \subseteq exited
        /\ UNCHANGED <<vms, disk, tap, nat, cut, spoiled, orphaned, commands, supervised>>
    BY <1>2 DEF Boot
  <2>4. QED
    BY <1>1, <2>2, <2>3
<1>3. CASE Register
  BY <1>1, <1>3 DEF Register, Result, NoJob, history
<1>4. CASE RemoveDir
  <2>1. /\ disk' \in [Tenants -> DiskState]
        /\ cut' \subseteq cut
    BY <1>4 DEF RemoveDir, DiskState
  <2>2. job' = NoJob
    BY <1>4 DEF RemoveDir, Result
  <2>3. UNCHANGED <<vms, running, tap, nat, spoiled, exited, orphaned, commands, supervised>>
    BY <1>4 DEF RemoveDir
  <2>4. QED
    BY <2>1, <2>2, <2>3 DEF NoJob
<1>5. QED
  BY <1>2, <1>3, <1>4

\* What a command leaves when its agent dies.
LEMMA UnfinishedType ==
    ASSUME TypeOK, LeaveUnfinished
    PROVE  /\ job' = NoJob /\ vms' = {}
           /\ disk' \in [Tenants -> DiskState]
           /\ cut' \subseteq Tenants
<1>1. At("copy") \/ job.pc \in DiskPc => job.tenant \in Tenants
  BY JobType DEF At, DiskPc
<1>2. QED
  BY <1>1 DEF LeaveUnfinished, TypeOK, DiskState

\* The end of the agent, and of its host, leave the machines well formed.
LEMMA HostType ==
    ASSUME TypeOK, AgentDies \/ HostReboots
    PROVE  TypeOK'
<1> USE DEF TypeOK, At, Same
<1>1. job' = NoJob /\ vms' = {} /\ disk' \in [Tenants -> DiskState] /\ cut' \subseteq Tenants
  BY UnfinishedType DEF AgentDies, HostReboots
<1>2. CASE AgentDies
  <2>1. spoiled' \subseteq Taps
    BY <1>2, JobType DEF AgentDies, TapPc
  <2>2. QED
    BY <1>1, <1>2, <2>1 DEF AgentDies, NoJob
<1>3. CASE HostReboots
  BY <1>1, <1>3 DEF HostReboots, NoJob, TapState
<1>4. QED
  BY <1>2, <1>3

\* Every step of a command, and every accident of the host, keeps the types.
LEMMA StepType ==
    ASSUME TypeOK, Next
    PROVE  TypeOK'
<1>1. ASSUME NEW t \in Tenants, NEW ty \in Received, NEW pl \in Payloads, Receive(t, ty, pl)
      PROVE  TypeOK'
  <2>1. commands' \in 0 .. MaxCommands /\ UNCHANGED supervised
    BY <1>1, MicroVmAssumption DEF Receive, TypeOK
  <2>2. QED
    BY <1>1, <2>1, ReceiveCases, BeginType
<1>2. ASSUME NEW t \in Tenants, GuestExits(t)
      PROVE  TypeOK'
  BY <1>2 DEF GuestExits, TypeOK, Same, At
<1>3. QED
  BY <1>1, <1>2, DiskType, TapType, EndType, HostType DEF Next

\* The host, the registry and the command in progress are well formed in every
\* reachable state, and each disk step finds what its step before left.
THEOREM HostTypeCorrect == Spec => []TypeOK
<1>1. Init => TypeOK
  BY MicroVmAssumption DEF Init, TypeOK, NoJob, At, DiskState, TapState
<1>2. TypeOK /\ UNCHANGED mvars => TypeOK'
  BY DEF TypeOK, mvars, host, history, At
<1>3. QED
  BY <1>1, <1>2, StepType, PTL DEF Spec
-----------------------------------------------------------------------------
(***************************************************************************)
(* The result of every command is one the queue expects.                   *)
(***************************************************************************)

\* What Outcomes allows of a command, case by case: vm is whether the tenant's
\* machine is in the registry after it, and known whether it was before.
Allowed(ty, pl, known, r, vm) ==
    \/ /\ r = "succeeded"
       /\ ty = "create_tenant" => pl = "full"
       /\ vm <=> Installs(ty, pl) \/ (known /\ ~Removes(ty, pl))
    \/ r = "failed" /\ ty = "create_tenant" /\ pl # "full" /\ (vm <=> known)
    \/ r = "failed" /\ MayThrow(ty, pl, known) /\ (vm <=> known /\ ~Removes(ty, pl))

\* Allowed is Outcomes of Executor, said of the result and the registry.
LEMMA AllowedOutcome ==
    ASSUME NEW ty \in CommandType, NEW pl \in Payload, NEW known \in BOOLEAN,
           NEW r, NEW vm \in BOOLEAN, Allowed(ty, pl, known, r, vm)
    PROVE  [result |-> r, vm |-> vm] \in Outcomes(ty, pl, known)
BY DEF Allowed, Outcomes, Failed, MayThrow, Installs, Removes

\* A command that ends as Outcomes allows is recorded so.
LEMMA EndsAllowed ==
    ASSUME NEW j \in Job, NEW r, NEW registry, Result(j, r, registry),
           Allowed(j.type, j.payload, j.known, r, j.tenant \in registry)
    PROVE  OutcomesAllowed'
<1>1. j.type \in CommandType /\ j.payload \in Payload /\ j.known \in BOOLEAN
  BY DEF Job
<1>2. /\ last'.type = j.type /\ last'.payload = j.payload /\ last'.known = j.known
      /\ last'.result = r
      /\ last'.vm = (j.tenant \in registry)
  BY Zenon DEF Result
<1>3. last'.vm \in BOOLEAN /\ Allowed(j.type, j.payload, j.known, r, last'.vm)
  <2>1. last' \in [type : {j.type}, payload : {j.payload}, known : {j.known}, result : {r},
                   vm : BOOLEAN]
    BY SMT DEF Result
  <2>2. last'.vm \in BOOLEAN
    BY <2>1
  <2>3. last'.vm <=> j.tenant \in registry
    BY <1>2, Zenon
  <2>4. QED
    BY <2>2, <2>3 DEF Allowed
<1>4. [result |-> r, vm |-> last'.vm] \in Outcomes(j.type, j.payload, j.known)
  BY <1>1, <1>3, AllowedOutcome
<1>5. QED
  BY <1>2, <1>4, Zenon DEF OutcomesAllowed

\* What a command that creates or deletes a machine knew when it arrived is still
\* so when it has begun.
LEMMA BeginKnown ==
    ASSUME TypeOK, OutcomesAllowed, NEW j \in Job, j.known <=> j.tenant \in vms,
           \/ CreateTenant(j) \/ StartTenant(j) \/ StopOrRestart(j) \/ DeleteTenant(j)
           \/ OtherCommand(j)
    PROVE  KnownStill' /\ OutcomesAllowed'
<1> USE DEF At
<1>1. CASE job' = NoJob
  <2>1. KnownStill'
    BY <1>1 DEF KnownStill, NoJob, Creating, Networked, DiskPc, TapPc
  <2>2. CASE CreateTenant(j) \/ StartTenant(j) \/ OtherCommand(j)
    <3>1. PICK r : Result(j, r, vms) /\ Allowed(j.type, j.payload, j.known, r, j.tenant \in vms)
      <4>1. ASSUME NEW k \in Job, NEW pc \in {"copy", "add tap"}, job' = [k EXCEPT !.pc = pc]
            PROVE  FALSE
        <5>1. job'.pc = pc
          BY <4>1, StepOfType DEF DiskPc, TapPc
        <5>2. QED
          BY <1>1, <5>1 DEF NoJob
      <4>2. ~CreateMicrovm(j)
        BY <4>1 DEF CreateMicrovm
      <4>3. CASE CreateTenant(j)
        BY <4>2, <4>3 DEF CreateTenant, Acknowledge, Allowed
      <4>4. CASE StartTenant(j)
        BY <4>2, <4>4 DEF StartTenant, Acknowledge, Allowed, Installs, Removes
      <4>5. CASE OtherCommand(j)
        BY <4>5 DEF OtherCommand, Acknowledge, Allowed, Installs, Removes
      <4>6. QED
        BY <2>2, <4>3, <4>4, <4>5
    <3>2. QED
      BY <2>1, <3>1, EndsAllowed
  <2>3. CASE StopOrRestart(j)
    <3>1. Allowed(j.type, j.payload, j.known, "succeeded", j.tenant \in vms')
      BY <2>3 DEF StopOrRestart, StopMicrovm, Allowed, Installs, Removes
    <3>2. QED
      BY <2>1, <2>3, <3>1, EndsAllowed DEF StopOrRestart
  <2>4. CASE DeleteTenant(j)
    <3>1. job'.pc = "remove"
      BY <2>4, StepOfType DEF DeleteTenant
    <3>2. QED
      BY <1>1, <3>1 DEF NoJob
  <2>5. QED
    BY <2>2, <2>3, <2>4
<1>2. CASE CreateMicrovm(j) /\ j.payload = "full"
           /\ (j.type = "create_tenant" \/ (j.type = "start_tenant" /\ j.tenant \notin vms))
  <2>1. PICK pc \in {"copy", "add tap"} : job' = [j EXCEPT !.pc = pc]
    BY <1>2 DEF CreateMicrovm
  <2>2. /\ job'.pc \in {"copy", "add tap"} /\ job'.tenant = j.tenant /\ job'.type = j.type
        /\ job'.payload = j.payload /\ job'.known = j.known
    BY <2>1, StepOfType DEF DiskPc, TapPc
  <2>3. vms' = vms /\ last' = last
    BY <1>2 DEF CreateMicrovm, host
  <2>4. KnownStill'
    BY <1>2, <2>2, <2>3 DEF KnownStill, Installs, Creating, Networked, DiskPc, TapPc
  <2>5. QED
    BY <2>3, <2>4 DEF OutcomesAllowed
<1>3. CASE DeleteTenant(j)
  <2>1. /\ job'.pc = "remove" /\ job'.tenant = j.tenant /\ job'.type = j.type
        /\ job'.payload = j.payload /\ job'.known = j.known
    BY <1>3, StepOfType DEF DeleteTenant
  <2>2. KnownStill'
    BY <1>3, <2>1 DEF DeleteTenant, StopMicrovm, KnownStill, Creating, Networked, DiskPc, TapPc
  <2>3. QED
    BY <1>3, <2>2 DEF DeleteTenant, OutcomesAllowed
<1>4. QED
  BY <1>1, <1>2, <1>3, BeginCases DEF Acknowledged, Stopped

\* A step of createMicrovm that goes on to the next knows what it knew.
LEMMA GoesOn ==
    ASSUME TypeOK, KnownStill, OutcomesAllowed, job.pc \in Creating,
           NEW pc \in Creating, Goto(pc), vms' = vms, last' = last
    PROVE  KnownStill' /\ OutcomesAllowed'
<1>1. /\ job'.pc = pc /\ job'.tenant = job.tenant /\ job'.type = job.type
      /\ job'.payload = job.payload /\ job'.known = job.known
  BY JobType DEF Creating, Networked, DiskPc, TapPc
<1>2. KnownStill'
  BY <1>1 DEF KnownStill, At, Creating, Networked, DiskPc, TapPc
<1>3. QED
  BY <1>2 DEF OutcomesAllowed

\* A step of createMicrovm that throws leaves the registry as it was, and the
\* command failed.
LEMMA Throws ==
    ASSUME TypeOK, KnownStill, job.pc \in Creating, Fail
    PROVE  KnownStill' /\ OutcomesAllowed'
<1>1. job \in Job /\ job' = NoJob
  BY JobType DEF Creating, Networked, DiskPc, TapPc, Fail, Result
<1>2. KnownStill'
  BY <1>1 DEF KnownStill, At, NoJob, Creating, Networked, DiskPc, TapPc
<1>3. Allowed(job.type, job.payload, job.known, "failed", job.tenant \in vms)
  BY MicroVmAssumption DEF KnownStill, Allowed, MayThrow, Installs, Removes
<1>4. QED
  BY <1>1, <1>2, <1>3, EndsAllowed DEF Fail

\* Every step of a command keeps what the command knows, and ends as allowed.
LEMMA StepKnown ==
    ASSUME TypeOK, KnownStill, OutcomesAllowed, Next
    PROVE  KnownStill' /\ OutcomesAllowed'
<1> USE DEF At, Same
<1>1. ASSUME NEW t \in Tenants, NEW ty \in Received, NEW pl \in Payloads, Receive(t, ty, pl)
      PROVE  KnownStill' /\ OutcomesAllowed'
  BY <1>1, ReceiveCases, BeginKnown
<1>2. CASE CopyRootfs \/ Truncate \/ Resize
  <2>1. job.pc \in Creating
    BY <1>2 DEF CopyRootfs, Truncate, Resize, Creating, DiskPc
  <2>2. \/ Fail
        \/ vms' = vms /\ last' = last /\ \E pc \in {"truncate", "resize", "add tap"} : Goto(pc)
    BY <1>2 DEF CopyRootfs, Truncate, Resize, DiskThrows
  <2>3. QED
    BY <2>1, <2>2, GoesOn, Throws DEF Creating, Networked, DiskPc, TapPc
<1>3. CASE AddTap \/ AddAddress \/ BringUp \/ AddRule
  <2>1. job.pc \in Creating
    BY <1>3 DEF AddTap, AddAddress, BringUp, AddRule, Creating, Networked, TapPc
  <2>2. \E pc \in {"add address", "bring up", "add rule", "boot"} : Goto(pc)
    BY <1>3 DEF AddTap, AddAddress, BringUp, AddRule, HasTap, TapGivesUp
  <2>3. vms' = vms /\ last' = last
    BY <1>3 DEF AddTap, AddAddress, BringUp, AddRule
  <2>4. QED
    BY <2>1, <2>2, <2>3, GoesOn DEF Creating, Networked, DiskPc, TapPc
<1>4. CASE Boot
  BY <1>4, GoesOn, Throws DEF Boot, Creating, Networked
<1>5. CASE Register
  <2>1. job \in Job /\ job' = NoJob /\ job.pc \in Creating
    BY <1>5, JobType DEF Register, Result, Creating, Networked
  <2>2. Allowed(job.type, job.payload, job.known, "succeeded", job.tenant \in vms')
    BY <1>5, <2>1 DEF Register, KnownStill, Allowed, Installs
  <2>3. KnownStill'
    BY <2>1 DEF KnownStill, NoJob, Creating, Networked, DiskPc, TapPc
  <2>4. QED
    BY <1>5, <2>1, <2>2, <2>3, EndsAllowed DEF Register
<1>6. CASE RemoveDir
  <2>1. job \in Job
    BY <1>6, JobType DEF RemoveDir
  <2>2. PICK r \in {"succeeded", "failed"} : Result(job, r, vms)
    BY <1>6 DEF RemoveDir
  <2>3. job.type = "delete_tenant" /\ (job.tenant \in vms <=> job.known /\ job.payload = "empty")
    BY <1>6 DEF RemoveDir, KnownStill
  <2>4. Allowed(job.type, job.payload, job.known, r, job.tenant \in vms)
    BY <2>2, <2>3, MicroVmAssumption DEF Allowed, MayThrow, Installs, Removes
  <2>5. KnownStill'
    BY <2>2 DEF Result, KnownStill, NoJob, Creating, Networked, DiskPc, TapPc
  <2>6. QED
    BY <2>1, <2>2, <2>4, <2>5, EndsAllowed
<1>7. CASE AgentDies \/ HostReboots
  <2>1. job' = NoJob /\ last' = last
    BY <1>7 DEF AgentDies, HostReboots, LeaveUnfinished
  <2>2. QED
    BY <2>1 DEF KnownStill, OutcomesAllowed, NoJob, Creating, Networked, DiskPc, TapPc
<1>8. ASSUME NEW t \in Tenants, GuestExits(t)
      PROVE  KnownStill' /\ OutcomesAllowed'
  BY <1>8 DEF GuestExits, KnownStill, OutcomesAllowed
<1>9. QED
  BY <1>1, <1>2, <1>3, <1>4, <1>5, <1>6, <1>7, <1>8 DEF Next

\* Whatever step throws, and whatever earlier commands, deaths of the agent and
\* reboots have left, a command ends with a result and a registry that the queue's
\* Executor allows it.
THEOREM EveryOutcomeAllowed == Spec => []OutcomesAllowed
<1> DEFINE Inv == TypeOK /\ KnownStill /\ OutcomesAllowed
<1>1. Init => Inv
  BY MicroVmAssumption DEF Init, TypeOK, DiskState, TapState, KnownStill, OutcomesAllowed, NoJob, At, Creating, Networked, DiskPc, TapPc
<1>2. Inv /\ [Next]_mvars => Inv'
  BY StepType, StepKnown DEF TypeOK, KnownStill, OutcomesAllowed, mvars, host, history, At
<1>3. QED
  BY <1>1, <1>2, PTL DEF Spec
-----------------------------------------------------------------------------
(***************************************************************************)
(* The registry and the machines.                                          *)
(***************************************************************************)

\* A disk or a tap step leaves the machines alone, and boots nothing.
LEMMA MachinesAlone ==
    ASSUME TypeOK, CopyRootfs \/ Truncate \/ Resize \/ AddTap \/ AddAddress \/ BringUp \/ AddRule
    PROVE  /\ UNCHANGED <<vms, running, exited, orphaned>>
           /\ job.pc # "register" /\ job'.pc # "register"
<1>1. \A pc \in {"truncate", "resize", "add tap", "add address", "bring up", "add rule", "boot"} :
         job.pc # "idle" /\ Goto(pc) => job'.pc = pc
  BY JobType DEF DiskPc, TapPc
<1>2. CASE CopyRootfs \/ Truncate \/ Resize
  <2>1. Fail \/ \E pc \in {"truncate", "resize", "add tap"} : Goto(pc)
    BY <1>2 DEF CopyRootfs, Truncate, Resize, DiskThrows
  <2>2. UNCHANGED <<vms, running, exited, orphaned>> /\ job.pc \in DiskPc
    BY <1>2 DEF CopyRootfs, Truncate, Resize, DiskPc, At, Same
  <2>3. Fail => job'.pc = "idle"
    BY DEF Fail, Result, NoJob
  <2>4. QED
    BY <1>1, <2>1, <2>2, <2>3 DEF DiskPc
<1>3. CASE AddTap \/ AddAddress \/ BringUp \/ AddRule
  <2>1. \E pc \in {"add address", "bring up", "add rule", "boot"} : Goto(pc)
    BY <1>3 DEF AddTap, AddAddress, BringUp, AddRule, HasTap, TapGivesUp
  <2>2. UNCHANGED <<vms, running, exited, orphaned>> /\ job.pc \in TapPc
    BY <1>3 DEF AddTap, AddAddress, BringUp, AddRule, TapPc, At, Same
  <2>3. QED
    BY <1>1, <2>1, <2>2 DEF TapPc
<1>4. QED
  BY <1>2, <1>3

\* A command that begins stops what it stops in the registry and on the host alike.
LEMMA BeginBooted ==
    ASSUME Booted, TypeOK, At("idle"), NEW j \in Job,
           \/ CreateTenant(j) \/ StartTenant(j) \/ StopOrRestart(j) \/ DeleteTenant(j)
           \/ OtherCommand(j)
    PROVE  Booted'
<1> USE DEF Booted, RegistryMatchesMachines, At
<1>1. CASE Acknowledged
  BY <1>1 DEF Acknowledged, host, history, NoJob
<1>2. CASE Stopped(j)
  BY <1>2 DEF Stopped, StopMicrovm, NoJob
<1>3. CASE CreateMicrovm(j)
  <2>1. PICK pc \in {"copy", "add tap"} : job' = [j EXCEPT !.pc = pc]
    BY <1>3 DEF CreateMicrovm
  <2>2. job'.pc = pc
    BY <2>1, StepOfType DEF DiskPc, TapPc
  <2>3. QED
    BY <1>3, <2>2 DEF CreateMicrovm, host, history
<1>4. CASE DeleteTenant(j)
  <2>1. job'.pc = "remove"
    BY <1>4, StepOfType DEF DeleteTenant
  <2>2. QED
    BY <1>4, <2>1 DEF DeleteTenant, StopMicrovm
<1>5. QED
  BY <1>1, <1>2, <1>3, <1>4, BeginCases

\* Every step leaves the registry and the machines in agreement.
LEMMA StepBooted ==
    ASSUME TypeOK, Booted, Next
    PROVE  Booted'
<1> USE DEF Booted, RegistryMatchesMachines, At, Same
<1>1. ASSUME NEW t \in Tenants, NEW ty \in Received, NEW pl \in Payloads, Receive(t, ty, pl)
      PROVE  Booted'
  <2>1. At("idle")
    BY <1>1 DEF Receive
  <2>2. QED
    BY <1>1, <2>1, ReceiveCases, BeginBooted
<1>2. CASE CopyRootfs \/ Truncate \/ Resize \/ AddTap \/ AddAddress \/ BringUp \/ AddRule
  BY <1>2, MachinesAlone
<1>3. CASE Boot
  <2>1. CASE Fail /\ UNCHANGED <<running, exited>>
    BY <1>3, <2>1 DEF Boot, Fail, Result, NoJob
  <2>2. CASE Goto("register")
    <3>1. job'.pc = "register" /\ job'.tenant = job.tenant
      BY <1>3, <2>2, JobType DEF Boot
    <3>2. QED
      BY <1>3, <3>1 DEF Boot, Fail, Result, NoJob
  <2>3. QED
    BY <1>3, <2>1, <2>2 DEF Boot
<1>4. CASE Register
  BY <1>4 DEF Register, Result, NoJob, history
<1>5. CASE RemoveDir
  BY <1>5 DEF RemoveDir, Result, NoJob
<1>6. CASE AgentDies
  BY <1>6 DEF AgentDies, LeaveUnfinished, NoJob
<1>7. CASE HostReboots
  BY <1>7 DEF HostReboots, LeaveUnfinished, NoJob
<1>8. ASSUME NEW t \in Tenants, GuestExits(t)
      PROVE  Booted'
  BY <1>8 DEF GuestExits
<1>9. QED
  BY <1>1, <1>2, <1>3, <1>4, <1>5, <1>6, <1>7, <1>8 DEF Next

\* What the agent reports as running runs or has ended by itself, and no machine
\* runs without the agent's knowledge unless an agent outside its unit has died.
THEOREM MachinesAreRegistered == Spec => []RegistryMatchesMachines
<1> DEFINE Inv == TypeOK /\ Booted
<1>1. Init => Inv
  BY MicroVmAssumption DEF Init, TypeOK, DiskState, TapState, NoJob, At, Booted, RegistryMatchesMachines
<1>2. Inv /\ [Next]_mvars => Inv'
  BY StepType, StepBooted DEF TypeOK, Booted, RegistryMatchesMachines, mvars, host, history, At
<1>3. Inv => RegistryMatchesMachines
  BY DEF Booted
<1>4. QED
  BY <1>1, <1>2, <1>3, PTL DEF Spec

-----------------------------------------------------------------------------
(***************************************************************************)
(* The disk of every machine.                                              *)
(***************************************************************************)

\* A command that begins touches no disk, and makes one only where there is none.
LEMMA BeginDisk ==
    ASSUME SlugsGiven, TypeOK, DiskRight, At("idle"), NEW j \in Job,
           j.type \in Received, j.payload \in Payloads,
           \/ CreateTenant(j) \/ StartTenant(j) \/ StopOrRestart(j) \/ DeleteTenant(j)
           \/ OtherCommand(j)
    PROVE  DiskRight'
<1> USE DEF DiskRight, At
<1>1. CASE Acknowledged
  BY <1>1 DEF Acknowledged, host, history, NoJob, Networked, TapPc, DiskPc
<1>2. CASE Stopped(j)
  BY <1>2 DEF Stopped, StopMicrovm, NoJob, Networked, TapPc, DiskPc
<1>3. CASE CreateMicrovm(j)
  <2>1. PICK pc \in {"copy", "add tap"} :
           /\ job' = [j EXCEPT !.pc = pc]
           /\ pc = "copy" <=> disk[j.tenant] = "none"
    BY <1>3 DEF CreateMicrovm
  <2>2. [j EXCEPT !.pc = pc].pc = pc /\ [j EXCEPT !.pc = pc].tenant = j.tenant
    BY StepOfType DEF DiskPc, TapPc
  <2>3. UNCHANGED <<vms, running, disk, cut, orphaned>>
    BY <1>3 DEF CreateMicrovm, host, history
  <2>4. QED
    <3>1. job'.pc = pc /\ job'.tenant = j.tenant
      BY <2>1, <2>2, Zenon
    <3>2. QED
      BY <2>1, <2>3, <3>1 DEF Networked, TapPc, DiskPc
<1>4. CASE DeleteTenant(j)
  <2>1. job'.pc = "remove" /\ job'.payload = j.payload
    BY <1>4, StepOfType DEF DeleteTenant
  <2>2. j.payload # "empty"
    BY <1>4 DEF DeleteTenant, SlugsGiven
  <2>3. QED
    BY <1>4, <2>1, <2>2 DEF DeleteTenant, StopMicrovm, Networked, TapPc, DiskPc
<1>5. QED
  BY <1>1, <1>2, <1>3, <1>4, BeginCases

\* A disk step takes the disk of its tenant, whom no machine has, one step further,
\* or leaves it cut short.
LEMMA StepDisk ==
    ASSUME TypeOK, DiskRight, CopyRootfs \/ Truncate \/ Resize
    PROVE  DiskRight'
<1> USE DEF At, Same
<1>1. job.pc \in DiskPc /\ job.tenant \in Tenants
  BY JobType DEF CopyRootfs, Truncate, Resize, DiskPc
<1>2. UNCHANGED <<vms, running, orphaned>>
  BY DEF CopyRootfs, Truncate, Resize
<1>3. PICK state \in DiskState :
         /\ disk' = [disk EXCEPT ![job.tenant] = state]
         /\ \/ /\ cut' = cut
               /\ \/ state = "copied" /\ Goto("truncate")
                  \/ state = "truncated" /\ Goto("resize")
                  \/ state = "resized" /\ Goto("add tap")
            \/ /\ job' = NoJob
               /\ IF state = "none" THEN cut' = cut /\ job.pc = "copy"
                                    ELSE cut' = cut \cup {job.tenant}
  <2>1. CASE CopyRootfs
    BY <2>1, Zenon DEF CopyRootfs, DiskThrows, HasDisk, Fail, Result, DiskState
  <2>2. CASE Truncate
    BY <2>2 DEF Truncate, DiskThrows, HasDisk, Fail, Result, DiskState
  <2>3. CASE Resize
    BY <2>3 DEF Resize, DiskThrows, HasDisk, Fail, Result, DiskState
  <2>4. QED
    BY <2>1, <2>2, <2>3
<1>4. /\ disk'[job.tenant] = state
      /\ \A t \in Tenants \ {job.tenant} : disk'[t] = disk[t]
      /\ job.tenant \notin vms
  BY <1>1, <1>3 DEF DiskRight, TypeOK
<1>5. job.pc = "copy" => disk[job.tenant] = "none" /\ job.tenant \notin cut
  BY <1>1 DEF DiskRight, TypeOK
<1>6. vms \subseteq Tenants /\ running \subseteq Tenants
  BY DEF TypeOK
<1>7. CASE job' = NoJob
  <2>1. ~(\E pc \in {"truncate", "resize", "add tap"} : Goto(pc))
    BY <1>1, <1>7, JobType DEF NoJob, DiskPc, TapPc
  <2>2. \A t \in Tenants :
          /\ t \in cut' => disk'[t] # "none"
          /\ disk'[t] \in {"none", "resized"} \/ t \in cut'
    BY <1>1, <1>3, <1>4, <1>5, <2>1, ZenonT(60) DEF DiskRight, DiskPc
  <2>3. \A t \in running : t \in orphaned \/ disk'[t] # "none"
    BY <1>1, <1>3, <1>4, <1>5, <1>6, <2>1 DEF DiskRight
  <2>4. QED
    BY <1>2, <1>4, <1>6, <1>7, <2>2, <2>3 DEF DiskRight, NoJob, Networked, DiskPc, TapPc
<1>8. ASSUME NEW pc \in {"truncate", "resize", "add tap"}, Goto(pc), cut' = cut,
             state = IF pc = "truncate" THEN "copied" ELSE IF pc = "resize" THEN "truncated"
                     ELSE "resized"
      PROVE  DiskRight'
  <2>1. job'.pc = pc /\ job'.tenant = job.tenant
    BY <1>1, <1>8, JobType DEF DiskPc, TapPc
  <2>2. \A t \in Tenants :
          /\ t \in cut' => disk'[t] # "none"
          /\ \/ disk'[t] \in {"none", "resized"}
             \/ t \in cut'
             \/ job'.pc \in {"truncate", "resize"} /\ job'.tenant = t
    BY <1>1, <1>4, <1>8, <2>1 DEF DiskRight
  <2>3. \A t \in running : t \in orphaned \/ disk'[t] # "none"
    BY <1>1, <1>4, <1>6, <1>8 DEF DiskRight
  <2>4. QED
    BY <1>2, <1>4, <1>6, <1>8, <2>1, <2>2, <2>3 DEF DiskRight, Networked, DiskPc, TapPc
<1>9. QED
  BY <1>3, <1>7, <1>8

\* The steps after the disk, which leave every disk alone.
LEMMA DisksAlone ==
    ASSUME TypeOK, DiskRight, AddTap \/ AddAddress \/ BringUp \/ AddRule \/ Boot \/ Register
    PROVE  DiskRight'
<1> USE DEF At, Same
<1>1. /\ job.pc \in Networked /\ job.pc # "idle" /\ job.tenant \in Tenants
      /\ disk[job.tenant] # "none"
      /\ job.pc \notin {"truncate", "resize"}
  BY JobType DEF DiskRight, AddTap, AddAddress, BringUp, AddRule, Boot, Register, Networked, TapPc
<1>2. UNCHANGED <<disk, cut, orphaned>>
  BY DEF AddTap, AddAddress, BringUp, AddRule, Boot, Register, history
<1>3. vms' \subseteq vms \cup {job.tenant} /\ running' \subseteq running \cup {job.tenant}
  BY DEF AddTap, AddAddress, BringUp, AddRule, Boot, Register
<1>4. \/ job' = NoJob
      \/ \E pc \in {"add address", "bring up", "add rule", "boot", "register"} : Goto(pc)
  BY DEF AddTap, AddAddress, BringUp, AddRule, Boot, Register, HasTap, TapGivesUp, Fail, Result
<1>5. \/ job' = NoJob
      \/ job'.pc \in TapPc \cup {"boot", "register"} /\ job'.tenant = job.tenant
  BY <1>1, <1>4, JobType DEF TapPc
<1>6. \A t \in Tenants :
          /\ t \in cut' => disk'[t] # "none"
          /\ disk'[t] \in {"none", "resized"} \/ t \in cut'
  BY <1>1, <1>2 DEF DiskRight
<1>7. /\ \A t \in vms' : disk'[t] # "none"
      /\ \A t \in running' : t \in orphaned' \/ disk'[t] # "none"
  BY <1>1, <1>2, <1>3 DEF DiskRight
<1>8. /\ job'.pc \in Networked => disk'[job'.tenant] # "none"
      /\ job'.pc \notin DiskPc /\ job'.pc # "remove"
  <2>1. CASE job' = NoJob
    BY <2>1 DEF NoJob, Networked, DiskPc, TapPc
  <2>2. CASE job'.pc \in TapPc \cup {"boot", "register"} /\ job'.tenant = job.tenant
    BY <1>1, <1>2, <2>2 DEF DiskPc, TapPc
  <2>3. QED
    BY <1>5, <2>1, <2>2
<1>9. QED
  BY <1>6, <1>7, <1>8 DEF DiskRight

\* The disk that is removed belongs to no machine: its own has been stopped.
LEMMA RemoveDisk ==
    ASSUME TypeOK, DiskRight, KnownStill, Booted, RemoveDir
    PROVE  DiskRight'
<1> USE DEF At, Same
<1>1. /\ job.pc = "remove" /\ job.tenant \in Tenants /\ Removed = {job.tenant}
      /\ job.tenant \notin vms /\ job.tenant \notin running \ orphaned
  BY JobType DEF RemoveDir, DiskRight, Removed, KnownStill, Booted, RegistryMatchesMachines
<1>2. PICK gone \in SUBSET {job.tenant} :
         /\ disk' = [t \in Tenants |-> IF t \in gone THEN "none" ELSE disk[t]]
         /\ cut' = cut \ gone
  BY <1>1 DEF RemoveDir
<1>3. job' = NoJob /\ UNCHANGED <<vms, running, orphaned>>
  BY DEF RemoveDir, Result
<1>4. \A t \in Tenants :
          /\ t \in cut' => disk'[t] # "none"
          /\ disk'[t] \in {"none", "resized"} \/ t \in cut'
  BY <1>1, <1>2 DEF DiskRight
<1>5. /\ \A t \in vms : disk'[t] # "none"
      /\ \A t \in running : t \in orphaned \/ disk'[t] # "none"
  BY <1>1, <1>2 DEF DiskRight, TypeOK
<1>6. QED
  BY <1>3, <1>4, <1>5 DEF DiskRight, NoJob, Networked, DiskPc, TapPc

\* A command whose agent dies leaves its disk cut short, and no registry.
LEMMA UnfinishedDisk ==
    ASSUME TypeOK, DiskRight, LeaveUnfinished
    PROVE  /\ job' = NoJob /\ vms' = {}
           /\ \A t \in Tenants :
                 /\ t \in cut' => disk'[t] # "none"
                 /\ disk'[t] \in {"none", "resized"} \/ t \in cut'
                 /\ disk[t] # "none" => disk'[t] # "none"
<1> USE DEF At
<1>1. job.pc \in DiskPc => job.tenant \in Tenants
  BY JobType DEF DiskPc
<1>2. CASE job.pc = "copy"
  <2>1. PICK copied \in {"none", "partial", "copied"} :
           /\ disk' = [disk EXCEPT ![job.tenant] = copied]
           /\ cut' = IF copied # "none" THEN cut \cup {job.tenant} ELSE cut
    BY <1>2, Zenon DEF LeaveUnfinished, DiskPc
  <2>2. disk[job.tenant] = "none" /\ job.tenant \notin cut /\ job.tenant \in Tenants
    BY <1>1, <1>2 DEF TypeOK, DiskRight, DiskPc
  <2>3. /\ disk'[job.tenant] = copied
        /\ \A t \in Tenants \ {job.tenant} : disk'[t] = disk[t]
    BY <2>1, <2>2 DEF TypeOK
  <2>4. QED
    BY <1>2, <2>1, <2>2, <2>3 DEF DiskRight, LeaveUnfinished
<1>3. CASE job.pc # "copy"
  <2>1. /\ disk' = disk
        /\ cut' = IF job.pc \in DiskPc THEN cut \cup {job.tenant} ELSE cut
    BY <1>3, Zenon DEF LeaveUnfinished
  <2>2. job.pc \in DiskPc => disk[job.tenant] # "none"
    BY <1>3 DEF TypeOK, DiskPc
  <2>3. QED
    BY <1>1, <1>3, <2>1, <2>2 DEF DiskRight, LeaveUnfinished, DiskPc
<1>4. QED
  BY <1>2, <1>3

\* Every step keeps the disks of the machines.
LEMMA NextDisk ==
    ASSUME SlugsGiven, TypeOK, KnownStill, Booted, DiskRight, Next
    PROVE  DiskRight'
<1>1. ASSUME NEW t \in Tenants, NEW ty \in Received, NEW pl \in Payloads, Receive(t, ty, pl)
      PROVE  DiskRight'
  <2>1. At("idle")
    BY <1>1 DEF Receive
  <2>2. QED
    BY <1>1, <2>1, ReceiveCases, BeginDisk
<1>2. CASE AgentDies \/ HostReboots
  <2>1. LeaveUnfinished
    BY <1>2 DEF AgentDies, HostReboots
  <2>2. running' \subseteq running /\ orphaned' = running'
    BY <1>2 DEF AgentDies, HostReboots
  <2>3. /\ job' = NoJob /\ vms' = {}
        /\ \A t \in Tenants :
              /\ t \in cut' => disk'[t] # "none"
              /\ disk'[t] \in {"none", "resized"} \/ t \in cut'
    BY <2>1, UnfinishedDisk
  <2>4. QED
    BY <2>2, <2>3 DEF DiskRight, At, NoJob, Networked, DiskPc, TapPc
<1>3. ASSUME NEW t \in Tenants, GuestExits(t)
      PROVE  DiskRight'
  BY <1>3 DEF GuestExits, DiskRight, Same, At
<1>4. QED
  BY <1>1, <1>2, <1>3, StepDisk, DisksAlone, RemoveDisk DEF Next

DiskInv == TypeOK /\ KnownStill /\ OutcomesAllowed /\ Booted /\ DiskRight

\* Where no deletion arrives without a slug, all parts together are inductive.
LEMMA DiskInvariant ==
    ASSUME SlugsGiven
    PROVE  Spec => []DiskInv
<1>1. Init => DiskInv
  BY MicroVmAssumption DEF Init, DiskInv, TypeOK, DiskState, TapState, NoJob, At, KnownStill,
       OutcomesAllowed, Booted, RegistryMatchesMachines, DiskRight, Creating, Networked, DiskPc, TapPc
<1>2. DiskInv /\ [Next]_mvars => DiskInv'
  <2>1. ASSUME DiskInv, Next
        PROVE  DiskInv'
    BY <2>1, StepType, StepKnown, StepBooted, NextDisk DEF DiskInv
  <2>2. ASSUME DiskInv, UNCHANGED mvars
        PROVE  DiskInv'
    BY <2>2 DEF DiskInv, TypeOK, KnownStill, OutcomesAllowed, Booted, RegistryMatchesMachines, DiskRight,
                mvars, host, history, At
  <2>3. QED
    BY <2>1, <2>2
<1>3. QED
  BY <1>1, <1>2, PTL DEF Spec

\* Where no deletion arrives without a slug, the disk of a machine is never removed
\* under it, unless it is a machine that ran on when its agent died.
THEOREM MachineKeepsDisk ==
    ASSUME SlugsGiven
    PROVE  Spec => []MachineHasDisk
<1>1. DiskInv => MachineHasDisk
  BY DEF DiskInv, DiskRight, MachineHasDisk
<1>2. QED
  BY <1>1, DiskInvariant, PTL

\* A machine that was reported created has the disk it asked for, unless an attempt
\* for its tenant was cut short in the disk and no deletion has succeeded since.
THEOREM MachineHasWholeDisk ==
    ASSUME SlugsGiven
    PROVE  Spec => []DiskResized
<1>1. DiskInv => DiskResized
  BY DEF DiskInv, DiskRight, DiskResized, TypeOK, DiskPc
<1>2. QED
  BY <1>1, DiskInvariant, PTL

-----------------------------------------------------------------------------
(***************************************************************************)
(* The network of every machine.                                           *)
(***************************************************************************)

\* A tap that is up and a rule that is there are taken away by no command, so what
\* a machine reaches it goes on reaching.
LEMMA StaysReached ==
    ASSUME NEW t \in Tenants, Reached(t), nat \subseteq nat', spoiled \subseteq spoiled',
           tap[TapName[t]] = "up" => tap'[TapName[t]] = "up"
    PROVE  Reached(t)'
BY DEF Reached, Connected

\* A step that leaves the taps alone and goes on to no step that asks for one.
LEMMA TapsAlone ==
    ASSUME TapRight, UNCHANGED <<tap, nat, spoiled>>,
           job.pc \notin TapPc \ {"add tap"},
           job'.pc \notin TapPc \ {"add tap"},
           job'.pc \in {"boot", "register"} => Reached(job'.tenant),
           \A t \in vms' : Reached(t)
    PROVE  TapRight'
<1>1. \A t : Reached(t)' <=> Reached(t)
  BY DEF Reached, Connected
<1>2. \A n \in Taps : Settled(n)'
  BY DEF TapRight, Settled
<1>3. QED
  BY <1>1, <1>2 DEF TapRight, At, TapPc

\* The invariant where nothing is being set up.
LEMMA BeginTap ==
    ASSUME TapRight, At("idle"), NEW j \in Job,
           \/ CreateTenant(j) \/ StartTenant(j) \/ StopOrRestart(j) \/ DeleteTenant(j)
           \/ OtherCommand(j)
    PROVE  TapRight'
<1>1. /\ UNCHANGED <<tap, nat, spoiled>> /\ vms' \subseteq vms
      /\ job'.pc \in {"idle", "copy", "add tap", "remove"}
  <2>1. CASE Acknowledged
    BY <2>1 DEF Acknowledged, host, history, NoJob
  <2>2. CASE Stopped(j)
    BY <2>2 DEF Stopped, StopMicrovm, NoJob
  <2>3. CASE CreateMicrovm(j)
    <3>1. PICK pc \in {"copy", "add tap"} : job' = [j EXCEPT !.pc = pc]
      BY <2>3 DEF CreateMicrovm
    <3>2. job'.pc = pc
      BY <3>1, StepOfType DEF DiskPc, TapPc
    <3>3. QED
      BY <2>3, <3>2 DEF CreateMicrovm, host, history
  <2>4. CASE DeleteTenant(j)
    <3>1. job'.pc = "remove"
      BY <2>4, StepOfType DEF DeleteTenant
    <3>2. QED
      BY <2>4, <3>1 DEF DeleteTenant, StopMicrovm
  <2>5. QED
    BY <2>1, <2>2, <2>3, <2>4, BeginCases
<1>2. \A t \in vms' : Reached(t)
  BY <1>1 DEF TapRight
<1>3. QED
  BY <1>1, <1>2, TapsAlone DEF At, TapPc

\* The set-up of a tap leaves it as the next step expects, and what other machines
\* reach alone; where it gives up, the tap is known to be unfinished.
LEMMA StepTap ==
    ASSUME TypeOK, TapRight, AddTap \/ AddAddress \/ BringUp \/ AddRule
    PROVE  TapRight'
<1> USE DEF At, Same
<1>1. /\ job.pc \in TapPc /\ job.tenant \in Tenants /\ ThisTap \in Taps
      /\ ThisTap = TapName[job.tenant]
  BY JobType DEF AddTap, AddAddress, BringUp, AddRule, TapPc, ThisTap
<1>2. vms' = vms /\ vms \subseteq Tenants /\ tap \in [Taps -> TapState]
  BY DEF AddTap, AddAddress, BringUp, AddRule, TypeOK
<1>3. \A t \in Tenants : TapName[t] \in Taps
  BY DEF Taps
<1>4. ASSUME NEW pc \in {"add address", "bring up", "add rule", "boot"}, Goto(pc)
      PROVE  job'.pc = pc /\ job'.tenant = job.tenant /\ ThisTap' = ThisTap
  <2>1. job'.pc = pc /\ job'.tenant = job.tenant
    BY <1>1, <1>4, JobType DEF TapPc
  <2>2. QED
    BY <2>1 DEF ThisTap
<1>5. CASE TapGivesUp
  <2>1. /\ job'.pc = "boot" /\ job'.tenant = job.tenant /\ ThisTap' = ThisTap
        /\ UNCHANGED <<tap, nat>> /\ spoiled' = spoiled \cup {ThisTap}
    BY <1>4, <1>5 DEF TapGivesUp
  <2>2. \A n \in Taps : Settled(n)'
    BY <2>1 DEF TapRight, Settled
  <2>3. \A t \in vms : Reached(t)'
    BY <1>2, <2>1, StaysReached DEF TapRight
  <2>4. Reached(job.tenant)'
    BY <1>1, <2>1 DEF Reached
  <2>5. QED
    BY <1>2, <2>1, <2>2, <2>3, <2>4 DEF TapRight
<1>6. ASSUME NEW state \in {"added", "addressed", "up"}, NEW pc \in {"add address", "bring up", "add rule"},
             HasTap(state, pc), tap[ThisTap] # "up",
             state = IF pc = "add address" THEN "added"
                     ELSE IF pc = "bring up" THEN "addressed" ELSE "up"
      PROVE  TapRight'
  <2>1. /\ job'.pc = pc /\ job'.tenant = job.tenant /\ ThisTap' = ThisTap
        /\ UNCHANGED <<nat, spoiled>>
    BY <1>4, <1>6 DEF HasTap
  <2>2. /\ tap'[ThisTap] = state
        /\ \A n \in Taps \ {ThisTap} : tap'[n] = tap[n]
    BY <1>1, <1>2, <1>6 DEF HasTap
  <2>3. \A n \in Taps \ {ThisTap} : Settled(n)'
    BY <2>1, <2>2 DEF TapRight, Settled
  <2>4. \A t \in vms : Reached(t)'
    <3>1. \A t \in vms : tap[TapName[t]] = "up" => tap'[TapName[t]] = "up"
      BY <1>2, <1>3, <1>6, <2>2
    <3>2. QED
      BY <1>2, <2>1, <3>1, StaysReached DEF TapRight
  <2>5. QED
    BY <1>2, <1>6, <2>1, <2>2, <2>3, <2>4 DEF TapRight, TapPc
<1>7. CASE AddTap /\ ~TapGivesUp
  <2>1. CASE tap[ThisTap] = "none" /\ HasTap("added", "add address")
    BY <1>6, <2>1
  <2>2. CASE tap[ThisTap] # "none" /\ Goto("boot") /\ UNCHANGED <<tap, nat, spoiled>>
    <3>1. job'.pc = "boot" /\ job'.tenant = job.tenant
      BY <1>4, <2>2
    <3>2. Settled(ThisTap)
      BY <1>1, <1>7 DEF TapRight, AddTap
    <3>3. Reached(job.tenant)
      BY <1>1, <2>2, <3>2 DEF Settled, Reached, Connected
    <3>4. job.pc = "add tap"
      BY <1>7 DEF AddTap
    <3>5. \A t \in vms' : Reached(t)
      BY <1>2 DEF TapRight
    <3>6. Reached(job'.tenant)
      BY <3>1, <3>3
    <3>7. QED
      BY <2>2, <3>1, <3>4, <3>5, <3>6, TapsAlone DEF TapPc
  <2>3. QED
    BY <1>7, <2>1, <2>2 DEF AddTap
<1>8. CASE AddAddress /\ ~TapGivesUp
  BY <1>6, <1>8 DEF AddAddress, TapRight
<1>9. CASE BringUp /\ ~TapGivesUp
  BY <1>6, <1>9 DEF BringUp, TapRight
<1>10. CASE AddRule /\ ~TapGivesUp
  <2>1. /\ nat' = nat \cup {Address[job.tenant]} /\ UNCHANGED <<tap, spoiled>>
        /\ job'.pc = "boot" /\ job'.tenant = job.tenant /\ ThisTap' = ThisTap
        /\ tap[ThisTap] = "up"
    BY <1>4, <1>10 DEF AddRule, TapRight
  <2>2. \A n \in Taps \ {ThisTap} : Settled(n)'
    BY <1>10, <2>1 DEF TapRight, Settled
  <2>3. Settled(ThisTap)'
    BY <1>1, <2>1 DEF Settled
  <2>4. \A t \in vms : Reached(t)'
    BY <1>2, <2>1, StaysReached DEF TapRight
  <2>5. Reached(job.tenant)'
    BY <1>1, <2>1 DEF Reached, Connected
  <2>6. QED
    BY <1>2, <2>1, <2>2, <2>3, <2>4, <2>5 DEF TapRight
<1>11. QED
  BY <1>5, <1>7, <1>8, <1>9, <1>10

\* Every step keeps the taps: the boot and the registry ask for what has been reached.
LEMMA NextTap ==
    ASSUME TypeOK, TapRight, Next
    PROVE  TapRight'
<1> USE DEF At, Same
<1>1. ASSUME NEW t \in Tenants, NEW ty \in Received, NEW pl \in Payloads, Receive(t, ty, pl)
      PROVE  TapRight'
  <2>1. At("idle")
    BY <1>1 DEF Receive
  <2>2. QED
    BY <1>1, <2>1, ReceiveCases, BeginTap
<1>2. CASE CopyRootfs \/ Truncate \/ Resize
  <2>1. Fail \/ \E pc \in {"truncate", "resize", "add tap"} : Goto(pc)
    BY <1>2 DEF CopyRootfs, Truncate, Resize, DiskThrows
  <2>2. UNCHANGED <<vms, tap, nat, spoiled>> /\ job.pc \in DiskPc
    BY <1>2 DEF CopyRootfs, Truncate, Resize, DiskPc
  <2>3. job'.pc \in {"idle", "truncate", "resize", "add tap"}
    <3>1. CASE Fail
      BY <3>1 DEF Fail, Result, NoJob
    <3>2. ASSUME NEW pc \in {"truncate", "resize", "add tap"}, Goto(pc)
          PROVE  job'.pc = pc
      BY <2>2, <3>2, JobType DEF DiskPc, TapPc
    <3>3. QED
      BY <2>1, <3>1, <3>2
  <2>4. \A t \in vms' : Reached(t)
    BY <2>2 DEF TapRight
  <2>5. QED
    BY <2>2, <2>3, <2>4, TapsAlone DEF DiskPc, TapPc
<1>3. CASE Boot
  <2>1. /\ job'.pc = "idle" \/ (job'.pc = "register" /\ job'.tenant = job.tenant)
        /\ UNCHANGED <<vms, tap, nat, spoiled>> /\ job.pc = "boot"
    BY <1>3, JobType DEF Boot, Fail, Result, NoJob
  <2>2. \A t \in vms' : Reached(t)
    BY <2>1 DEF TapRight
  <2>3. job'.pc = "register" => Reached(job'.tenant)
    BY <2>1 DEF TapRight
  <2>4. QED
    BY <2>1, <2>2, <2>3, TapsAlone DEF TapPc
<1>4. CASE Register
  <2>1. /\ job'.pc = "idle" /\ job.pc = "register" /\ vms' = vms \cup {job.tenant}
        /\ UNCHANGED <<tap, nat, spoiled>>
    BY <1>4 DEF Register, Result, NoJob, history
  <2>2. \A t \in vms' : Reached(t)
    BY <2>1 DEF TapRight
  <2>3. QED
    BY <2>1, <2>2, TapsAlone DEF TapPc
<1>5. CASE RemoveDir
  <2>1. /\ job'.pc = "idle" /\ job.pc = "remove" /\ UNCHANGED <<vms, tap, nat, spoiled>>
    BY <1>5 DEF RemoveDir, Result, NoJob
  <2>2. \A t \in vms' : Reached(t)
    BY <2>1 DEF TapRight
  <2>3. QED
    BY <2>1, <2>2, TapsAlone DEF TapPc
<1>6. CASE AgentDies
  <2>1. /\ job'.pc = "idle" /\ vms' = {} /\ UNCHANGED <<tap, nat>>
        /\ spoiled' = IF job.pc \in TapPc \ {"add tap"} THEN spoiled \cup {ThisTap} ELSE spoiled
    BY <1>6 DEF AgentDies, LeaveUnfinished, NoJob
  <2>2. \A n \in Taps : Settled(n)'
    BY <2>1 DEF TapRight, Settled
  <2>3. QED
    BY <2>1, <2>2 DEF TapRight
<1>7. CASE HostReboots
  <2>1. job'.pc = "idle" /\ vms' = {} /\ tap' = [n \in Taps |-> "none"]
    BY <1>7 DEF HostReboots, LeaveUnfinished, NoJob
  <2>2. \A n \in Taps : Settled(n)'
    BY <2>1 DEF Settled
  <2>3. QED
    BY <2>1, <2>2 DEF TapRight
<1>8. ASSUME NEW t \in Tenants, GuestExits(t)
      PROVE  TapRight'
  <2>1. UNCHANGED <<vms, tap, nat, spoiled, job>>
    BY <1>8 DEF GuestExits
  <2>2. QED
    BY <2>1 DEF TapRight, Settled, Reached, Connected, ThisTap
<1>9. QED
  BY <1>1, <1>2, <1>3, <1>4, <1>5, <1>6, <1>7, <1>8, StepTap DEF Next

\* A machine that was reported created reaches the network, unless its tap was left
\* unfinished once, or a tenant whose slug starts alike had made the tap before.
THEOREM MachineIsReached == Spec => []NetworkComplete
<1> DEFINE Inv == TypeOK /\ TapRight
<1>1. Init => Inv
  BY MicroVmAssumption DEF Init, TypeOK, DiskState, TapState, NoJob, At, TapRight, Settled, TapPc
<1>2. Inv /\ [Next]_mvars => Inv'
  <2>1. ASSUME Inv, Next
        PROVE  Inv'
    BY <2>1, StepType, NextTap
  <2>2. ASSUME Inv, UNCHANGED mvars
        PROVE  Inv'
    BY <2>2 DEF TypeOK, TapRight, Settled, Reached, Connected, ThisTap, mvars, host, history, At
  <2>3. QED
    BY <2>1, <2>2
<1>3. Inv => NetworkComplete
  BY DEF TapRight, Reached, NetworkComplete
<1>4. QED
  BY <1>1, <1>2, <1>3, PTL DEF Spec

=============================================================================
