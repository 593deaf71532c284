------------------------------- MODULE MicroVm ------------------------------
(***************************************************************************)
(* FirecrackerManager off mock mode (host-agent/src/firecracker.ts): a     *)
(* command as the shell commands it runs on one host, the disk, the tap    *)
(* device, the NAT rule and the machine they leave, and the registry.      *)
(*                                                                         *)
(* execFileSync blocks the agent, so that one command is in progress at a  *)
(* time; but each step may throw, or the agent die in it, and what was     *)
(* done before is not undone.  The firecracker process is taken, as the    *)
(* code takes it, to leave a machine running when execFileSync returns.    *)
(***************************************************************************)
EXTENDS Executor, Sequences, FiniteSets, SequencesExt

CONSTANTS Slug,          \* the slug of each tenant, as character codes
          Received,      \* the types of the commands that arrive
          Payloads,      \* their payloads
          MaxCommands    \* bound on the commands that arrive

ASSUME MicroVmAssumption ==
    /\ Slug \in [Tenants -> Seq(Nat)]
    /\ Received \subseteq CommandType
    /\ Payloads \subseteq Payload
    /\ MaxCommands \in Nat
    /\ ~MockMode

VARIABLES
    vms,        \* the registry of the agent: lost with the process
    running,    \* tenants with a firecracker process
    disk,       \* what is in the tenant's directory as rootfs.ext4
    tap,        \* how far each tap device has been set up
    nat,        \* the addresses with a masquerade rule
    job,        \* the command in progress
    commands,   \* how many commands have arrived
    supervised, \* whether the agent runs as the systemd unit, which kills its children
    last,       \* history: the last command that ended, with its result
    cut,        \* history: tenants whose disk was left unfinished by some command
    spoiled,    \* history: taps whose set-up was left unfinished
    exited,     \* history: machines that ended by themselves
    orphaned    \* history: machines that ran on when their agent died

host == <<vms, running, disk, tap, nat>>
history == <<cut, spoiled, exited, orphaned>>
mvars == <<host, job, commands, supervised, last, history>>

-----------------------------------------------------------------------------
(***************************************************************************)
(* allocateIp, and the name of the tap: "tap-" takes 4 of 15 characters.   *)
(***************************************************************************)
Hash(s) == FoldLeft(LAMBDA h, c : (h * 31 + c) % 60000, 0, s)

Address == [t \in Tenants |-> <<1 + (Hash(Slug[t]) % 250), 10 + (Hash(Slug[t]) % 240)>>]

TapName == [t \in Tenants |-> SubSeq(Slug[t], 1, IF Len(Slug[t]) < 11 THEN Len(Slug[t]) ELSE 11)]

Taps == {TapName[t] : t \in Tenants}

-----------------------------------------------------------------------------
DiskState == {"none", "partial", "copied", "truncated", "resized"}

TapState == {"none", "added", "addressed", "up"}

DiskPc == {"copy", "truncate", "resize"}

TapPc == {"add tap", "add address", "bring up", "add rule"}

Job == [pc : {"idle", "boot", "register", "remove"} \cup DiskPc \cup TapPc,
        type : CommandType, payload : Payload, tenant : Tenants, known : BOOLEAN]

NoJob == [pc |-> "idle"]

At(pc) == job.pc = pc

Goto(pc) == job' = [job EXCEPT !.pc = pc]

\* The result of command j, with the registry as it leaves it.
Result(j, r, registry) ==
    /\ job' = NoJob
    /\ last' = [type |-> j.type, payload |-> j.payload, known |-> j.known, result |-> r,
                vm |-> j.tenant \in registry]

Fail == Result(job, "failed", vms)

Same(v) == UNCHANGED <<v, commands, supervised>>

(***************************************************************************)
(* CommandExecutor.execute, up to the first step that may fail.            *)
(***************************************************************************)

\* Mutant of CreateMicrovm: the base image is copied whatever is there.
CreateMicrovmAnew(j) == job' = [j EXCEPT !.pc = "copy"] /\ UNCHANGED <<host, last, history>>

\* An image that is there is taken for a complete one.
CreateMicrovm(j) ==
    /\ job' = [j EXCEPT !.pc = IF disk[j.tenant] = "none" THEN "copy" ELSE "add tap"]
    /\ UNCHANGED <<host, last, history>>

Acknowledge(j, r) == Result(j, r, vms) /\ UNCHANGED <<host, history>>

\* Mutant of StopMicrovm: the machine is forgotten, not killed.
StopForgets(j) ==
    /\ vms' = IF j.payload = "empty" THEN vms ELSE vms \ {j.tenant}
    /\ UNCHANGED <<running, orphaned>>

\* Mutant of StopMicrovm: the machine is killed and stays in the registry.
StopRemembers(j) ==
    /\ UNCHANGED vms
    /\ running' = IF j.payload = "empty" THEN running ELSE running \ ({j.tenant} \cap vms)
    /\ orphaned' = orphaned \cap running'

\* stopMicrovm kills what is in the registry under the slug of the payload.
StopMicrovm(j) ==
    LET stopped == IF j.payload = "empty" THEN {} ELSE {j.tenant} \cap vms IN
    /\ vms' = vms \ stopped
    /\ running' = running \ stopped
    /\ orphaned' = orphaned \ stopped

\* Mutant of StartTenant: a machine that is known is created again.
StartTenantAgain(j) ==
    /\ j.type = "start_tenant"
    /\ IF j.payload = "full" THEN CreateMicrovm(j) ELSE Acknowledge(j, "succeeded")

CreateTenant(j) ==
    /\ j.type = "create_tenant"
    /\ IF j.payload = "full" THEN CreateMicrovm(j) ELSE Acknowledge(j, "failed")

StartTenant(j) ==
    /\ j.type = "start_tenant"
    /\ IF j.payload = "full" /\ j.tenant \notin vms
       THEN CreateMicrovm(j) ELSE Acknowledge(j, "succeeded")

StopOrRestart(j) ==
    /\ j.type \in {"stop_tenant", "restart_tenant"}
    /\ StopMicrovm(j)
    /\ Result(j, "succeeded", vms')
    /\ UNCHANGED <<disk, tap, nat, cut, spoiled, exited>>

DeleteTenant(j) ==
    /\ j.type = "delete_tenant"
    /\ StopMicrovm(j)
    /\ job' = [j EXCEPT !.pc = "remove"]
    /\ UNCHANGED <<disk, tap, nat, last, cut, spoiled, exited>>

\* Backup, restore, update and logs are acknowledged.
OtherCommand(j) ==
    /\ j.type \in {"update_runtime", "backup_tenant", "restore_tenant", "collect_logs"}
    /\ Acknowledge(j, "succeeded")

Receive(t, ty, pl) ==
    /\ At("idle")
    /\ commands < MaxCommands
    /\ commands' = commands + 1
    /\ UNCHANGED supervised
    /\ LET j == [pc |-> "idle", type |-> ty, payload |-> pl, tenant |-> t, known |-> t \in vms] IN
       \/ CreateTenant(j) \/ StartTenant(j) \/ StopOrRestart(j) \/ DeleteTenant(j)
       \/ OtherCommand(j)

-----------------------------------------------------------------------------
(***************************************************************************)
(* createMicrovm: the disk.                                                *)
(***************************************************************************)
HasDisk(state) == disk' = [disk EXCEPT ![job.tenant] = state]

\* The command throws in the middle of the disk: what there is of it stays.
DiskThrows(state) ==
    /\ HasDisk(state)
    /\ Fail
    /\ cut' = IF state = "none" THEN cut ELSE cut \cup {job.tenant}

CopyRootfs ==
    /\ At("copy")
    /\ \/ HasDisk("copied") /\ Goto("truncate") /\ UNCHANGED <<last, cut>>
       \/ \E left \in {"none", "partial"} : DiskThrows(left)
    /\ Same(<<vms, running, tap, nat, spoiled, exited, orphaned>>)

Truncate ==
    /\ At("truncate")
    /\ \/ HasDisk("truncated") /\ Goto("resize") /\ UNCHANGED <<last, cut>>
       \/ DiskThrows("copied")
    /\ Same(<<vms, running, tap, nat, spoiled, exited, orphaned>>)

\* Mutant of Resize: a resize2fs that fails is ignored, as a failing ip or nft is.
ResizeIgnored ==
    /\ At("resize")
    /\ \/ HasDisk("resized")
       \/ HasDisk("truncated")
    /\ Goto("add tap")
    /\ Same(<<vms, running, tap, nat, last, history>>)

Resize ==
    /\ At("resize")
    /\ \/ HasDisk("resized") /\ Goto("add tap") /\ UNCHANGED <<last, cut>>
       \/ DiskThrows("truncated")
    /\ Same(<<vms, running, tap, nat, spoiled, exited, orphaned>>)

-----------------------------------------------------------------------------
(***************************************************************************)
(* ensureTap: the first command that fails ends it, and is not noticed.    *)
(***************************************************************************)
ThisTap == TapName[job.tenant]

HasTap(state, pc) ==
    /\ tap' = [tap EXCEPT ![ThisTap] = state]
    /\ Goto(pc)
    /\ UNCHANGED <<nat, spoiled>>

TapGivesUp ==
    /\ Goto("boot")
    /\ spoiled' = spoiled \cup {ThisTap}
    /\ UNCHANGED <<tap, nat>>

AddTap ==
    /\ At("add tap")
    /\ \/ tap[ThisTap] = "none" /\ (HasTap("added", "add address") \/ TapGivesUp)
       \/ tap[ThisTap] # "none" /\ Goto("boot") /\ UNCHANGED <<tap, nat, spoiled>>
    /\ Same(<<vms, running, disk, last, cut, exited, orphaned>>)

AddAddress ==
    /\ At("add address")
    /\ HasTap("addressed", "bring up") \/ TapGivesUp
    /\ Same(<<vms, running, disk, last, cut, exited, orphaned>>)

\* Mutant of BringUp: an interface that is up is taken for one with a rule.
BringUpOnly ==
    /\ At("bring up")
    /\ HasTap("up", "boot") \/ TapGivesUp
    /\ Same(<<vms, running, disk, last, cut, exited, orphaned>>)

BringUp ==
    /\ At("bring up")
    /\ HasTap("up", "add rule") \/ TapGivesUp
    /\ Same(<<vms, running, disk, last, cut, exited, orphaned>>)

AddRule ==
    /\ At("add rule")
    /\ \/ nat' = nat \cup {Address[job.tenant]} /\ Goto("boot") /\ UNCHANGED <<tap, spoiled>>
       \/ TapGivesUp
    /\ Same(<<vms, running, disk, last, cut, exited, orphaned>>)

-----------------------------------------------------------------------------
\* The machine config and the firecracker process.
Boot ==
    /\ At("boot")
    /\ \/ /\ running' = running \cup {job.tenant}
          /\ exited' = exited \ {job.tenant}
          /\ Goto("register")
          /\ UNCHANGED last
       \/ Fail /\ UNCHANGED <<running, exited>>
    /\ Same(<<vms, disk, tap, nat, cut, spoiled, orphaned>>)

\* this.vms.set and the result; installAndStart only computes it.
Register ==
    /\ At("register")
    /\ vms' = vms \cup {job.tenant}
    /\ Result(job, "succeeded", vms')
    /\ Same(<<running, disk, tap, nat, history>>)

\* join(tenantsDir, "") is the directory of all tenants.
Removed == IF job.payload = "empty" THEN Tenants ELSE {job.tenant}

\* deleteMicrovm: rmSync of the directory, which may throw in the middle.
RemoveDir ==
    /\ At("remove")
    /\ \E gone \in SUBSET Removed :
          /\ disk' = [t \in Tenants |-> IF t \in gone THEN "none" ELSE disk[t]]
          /\ cut' = cut \ gone
          /\ Result(job, IF gone = Removed THEN "succeeded" ELSE "failed", vms)
    /\ Same(<<vms, running, tap, nat, spoiled, exited, orphaned>>)

-----------------------------------------------------------------------------
(***************************************************************************)
(* What happens to the host.                                               *)
(***************************************************************************)

\* Where a command stands when the agent dies, its disk or its tap is unfinished.
LeaveUnfinished ==
    /\ job' = NoJob
    /\ vms' = {}
    /\ \E copied \in IF At("copy") THEN {"none", "partial", "copied"} ELSE {"as it is"} :
          /\ disk' = IF At("copy") THEN [disk EXCEPT ![job.tenant] = copied] ELSE disk
          /\ cut' = IF job.pc \in DiskPc /\ copied # "none" THEN cut \cup {job.tenant} ELSE cut

\* The process dies.  The unit has the default KillMode: systemd kills what it
\* has started before it starts it again.  By hand, machines run on.
AgentDies ==
    /\ LeaveUnfinished
    /\ running' = IF supervised THEN {} ELSE running
    /\ orphaned' = IF supervised THEN {} ELSE running
    /\ exited' = {}
    /\ spoiled' = IF job.pc \in TapPc \ {"add tap"} THEN spoiled \cup {ThisTap} ELSE spoiled
    /\ Same(<<tap, nat, last>>)

\* Taps and rules are the kernel's: a reboot clears them, and starts no machine.
HostReboots ==
    /\ LeaveUnfinished
    /\ running' = {} /\ orphaned' = {} /\ exited' = {}
    /\ tap' = [n \in Taps |-> "none"] /\ nat' = {} /\ spoiled' = {}
    /\ Same(last)

\* The guest powers off or panics (panic=1): nobody tells the registry.
GuestExits(t) ==
    /\ t \in running
    /\ running' = running \ {t}
    /\ orphaned' = orphaned \ {t}
    /\ exited' = exited \cup {t}
    /\ Same(<<vms, disk, tap, nat, job, last, cut, spoiled>>)

-----------------------------------------------------------------------------
Init ==
    /\ vms = {} /\ running = {}
    /\ disk = [t \in Tenants |-> "none"]
    /\ tap = [n \in Taps |-> "none"] /\ nat = {}
    /\ job = NoJob
    /\ commands = 0
    /\ supervised \in BOOLEAN
    /\ last = NoJob
    /\ cut = {} /\ spoiled = {} /\ exited = {} /\ orphaned = {}

Next ==
    \/ \E t \in Tenants, ty \in Received, pl \in Payloads : Receive(t, ty, pl)
    \/ CopyRootfs \/ Truncate \/ Resize
    \/ AddTap \/ AddAddress \/ BringUp \/ AddRule
    \/ Boot \/ Register \/ RemoveDir
    \/ AgentDies \/ HostReboots \/ (\E t \in Tenants : GuestExits(t))

Spec == Init /\ [][Next]_mvars

-----------------------------------------------------------------------------
(***************************************************************************)
(* Properties.                                                             *)
(***************************************************************************)

\* Every part of the host is well formed, and a command in its disk steps finds
\* there what its step before left.
TypeOK ==
    /\ vms \subseteq Tenants /\ running \subseteq Tenants
    /\ disk \in [Tenants -> DiskState]
    /\ tap \in [Taps -> TapState]
    /\ nat \subseteq {Address[t] : t \in Tenants}
    /\ job \in Job \cup {NoJob}
    /\ commands \in 0 .. MaxCommands
    /\ supervised \in BOOLEAN
    /\ cut \subseteq Tenants /\ spoiled \subseteq Taps
    /\ exited \subseteq Tenants /\ orphaned \subseteq Tenants
    /\ At("copy") => disk[job.tenant] = "none"
    /\ At("truncate") => disk[job.tenant] = "copied"
    /\ At("resize") => disk[job.tenant] = "truncated"

\* The queue's view of the executor is right: whatever step throws, and whatever
\* earlier commands, crashes and reboots have left, a command ends with a result
\* and a registry that Outcomes allows.
OutcomesAllowed ==
    last # NoJob =>
        [result |-> last.result, vm |-> last.vm] \in Outcomes(last.type, last.payload, last.known)

\* The registry and the machines agree: what the agent reports as running does
\* run, unless the guest has ended by itself; and no machine runs without the
\* agent's knowledge, unless the agent has died outside its unit: then it is beyond
\* every stop and delete that follows.
RegistryMatchesMachines ==
    /\ vms \subseteq running \cup exited
    /\ running \subseteq vms \cup orphaned \cup (IF At("register") THEN {job.tenant} ELSE {})

\* The disk of a machine is never removed under it, unless it is such an orphan.
MachineHasDisk == \A t \in running \ orphaned : disk[t] # "none"

\* A machine that was reported created has the disk it asked for, unless an earlier
\* attempt was cut short in the disk and its leavings were taken for a disk, which
\* a delete that succeeds is the only way to end.
DiskResized == \A t \in vms : disk[t] = "resized" \/ t \in cut

\* A machine that was reported created reaches the network, unless its tap was left
\* unfinished once, or a tenant whose slug starts alike had made the tap before.
Connected(t) == tap[TapName[t]] = "up" /\ Address[t] \in nat

NetworkComplete ==
    \A t \in vms :
        \/ Connected(t)
        \/ TapName[t] \in spoiled
        \/ \E u \in Tenants \ {t} : TapName[u] = TapName[t] /\ Address[u] \in nat

-----------------------------------------------------------------------------
(***************************************************************************)
(* What the documentation says, and the code does not do.                  *)
(***************************************************************************)

\* host-agent.md:192: delete_tenant removes the tenant's directory, so a disk
\* disappears only by the deletion of its own tenant.
OnlyOwnDisk ==
    [][\A t \in Tenants :
          disk[t] # "none" /\ disk'[t] = "none" =>
             At("remove") /\ job.payload # "empty" /\ job.tenant = t]_disk
=============================================================================
