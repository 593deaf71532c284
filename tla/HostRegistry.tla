----------------------------- MODULE HostRegistry ---------------------------
(***************************************************************************)
(* Table hosts and the handlers that write it: registration and heartbeats *)
(* by the agents, approval and maintenance by the admins; and the agent's  *)
(* start-up, which registers unless its state file holds credentials.      *)
(*                                                                         *)
(* A registration looks its host up by name and writes it in two database  *)
(* statements.  An agent that dies while it waits is restarted by systemd  *)
(* and registers again while the first handler may still be running.       *)
(***************************************************************************)
EXTENDS Naturals, Sequences, FiniteSets

CONSTANTS Names,             \* the host machines, by the name they register
          Overlap,           \* how many registrations of a name may be open at the server
          MaxRegistrations,  \* bound on the registrations made, so on the keys minted
          Faults             \* a subset of FaultKinds

FaultKinds == {"network", "agent", "api", "state"}

ASSUME RegistryAssumption ==
    /\ Overlap \in [Names -> Nat \ {0}]
    /\ MaxRegistrations \in Nat
    /\ Faults \subseteq FaultKinds

VARIABLES
    hosts,   \* table hosts: name, the key whose hash is stored, approved, status
    minted,  \* how many agent keys were minted; a key is its number
    regs,    \* the registration handlers
    saved,   \* each machine's state file
    agent,   \* each agent process: down, registering, running
    creds,   \* the credentials the running process uses
    beat,    \* the heartbeat handler that is past requireHost: its row, or 0
    told     \* the desired_status of the last heartbeat's reply

hvars == <<hosts, minted, regs, saved, agent, creds, beat, told>>

-----------------------------------------------------------------------------
Steered == {"maintenance", "draining"}

HostRow == [name : Names, key : Nat, approved : BOOLEAN,
            status : {"online", "offline"} \cup Steered]

\* Credentials: a row of hosts and a key; row 0 stands for none.
Credentials == [host : Nat, key : Nat]
NoCredentials == [host |-> 0, key |-> 0]

\* A handler: the row it found (0: none), the key it minted, and whether the
\* agent still waits for it.  pc "reply": it has written row "found".
Registration == UNION {{n} \X (1 .. Overlap[n]) : n \in Names}
RegState == [pc : {"idle", "lookup", "write", "reply"}, key : Nat, found : Nat, live : BOOLEAN]
NoReg == [pc |-> "idle", key |-> 0, found |-> 0, live |-> FALSE]

At(g, pc) == regs[g].pc = pc

Named(n) == {i \in DOMAIN hosts : hosts[i].name = n}

\* requireHost: the row exists, is approved, and its key hash matches.
Authorised(n) ==
    /\ creds[n].host \in DOMAIN hosts
    /\ hosts[creds[n].host].approved
    /\ hosts[creds[n].host].key = creds[n].key

-----------------------------------------------------------------------------
(***************************************************************************)
(* The agent's start, and POST /api/hosts/register.                        *)
(***************************************************************************)

\* ensureRegistered with credentials in the state file: nothing is sent.
StartRegistered(n) ==
    /\ agent[n] = "down"
    /\ saved[n] # NoCredentials
    /\ agent' = [agent EXCEPT ![n] = "running"]
    /\ creds' = [creds EXCEPT ![n] = saved[n]]
    /\ UNCHANGED <<hosts, minted, regs, saved, beat, told>>

\* Without: the register request arrives and a key is minted for it.
StartRegistering(g) ==
    LET n == g[1] IN
    /\ agent[n] = "down"
    /\ saved[n] = NoCredentials
    /\ At(g, "idle")
    /\ minted < MaxRegistrations
    /\ minted' = minted + 1
    /\ regs' = [regs EXCEPT ![g] = [NoReg EXCEPT !.pc = "lookup", !.key = minted + 1, !.live = TRUE]]
    /\ agent' = [agent EXCEPT ![n] = "registering"]
    /\ UNCHANGED <<hosts, saved, creds, beat, told>>

\* Mutants of LookUp: it finds no row, or a row of another name.
LookUpNothing(g) ==
    /\ At(g, "lookup")
    /\ regs' = [regs EXCEPT ![g].pc = "write"]
    /\ UNCHANGED <<hosts, minted, saved, agent, creds, beat, told>>

LookUpAny(g) ==
    /\ At(g, "lookup")
    /\ \E i \in IF hosts = <<>> THEN {0} ELSE DOMAIN hosts :
          regs' = [regs EXCEPT ![g].pc = "write", ![g].found = i]
    /\ UNCHANGED <<hosts, minted, saved, agent, creds, beat, told>>

\* host.findFirst by name, in no particular order; the name is not unique.
LookUp(g) ==
    /\ At(g, "lookup")
    /\ \E i \in IF Named(g[1]) = {} THEN {0} ELSE Named(g[1]) :
          regs' = [regs EXCEPT ![g].pc = "write", ![g].found = i]
    /\ UNCHANGED <<hosts, minted, saved, agent, creds, beat, told>>

\* The row a registration creates, and what it makes of a row it found, whose
\* approval stays.  The mutant forgets the key.
NewRow(n, k) == [name |-> n, key |-> k, approved |-> FALSE, status |-> "online"]
Reonlined(row, k) == [row EXCEPT !.status = "online"]
Renewed(row, k) == [row EXCEPT !.key = k, !.status = "online"]

\* Update the row that was found, or create one.
WriteHost(g) ==
    /\ At(g, "write")
    /\ \/ /\ regs[g].found # 0
          /\ hosts' = [hosts EXCEPT ![regs[g].found] = Renewed(@, regs[g].key)]
          /\ regs' = [regs EXCEPT ![g].pc = "reply"]
       \/ /\ regs[g].found = 0
          /\ hosts' = Append(hosts, NewRow(g[1], regs[g].key))
          /\ regs' = [regs EXCEPT ![g].pc = "reply", ![g].found = Len(hosts) + 1]
    /\ UNCHANGED <<minted, saved, agent, creds, beat, told>>

\* The agent that still waits saves the credentials and starts its loop.
Reply(g) ==
    LET n == g[1]
        c == [host |-> regs[g].found, key |-> regs[g].key]
    IN
    /\ At(g, "reply")
    /\ regs' = [regs EXCEPT ![g] = NoReg]
    /\ IF regs[g].live
       THEN /\ saved' = [saved EXCEPT ![n] = c]
            /\ creds' = [creds EXCEPT ![n] = c]
            /\ agent' = [agent EXCEPT ![n] = "running"]
       ELSE UNCHANGED <<saved, creds, agent>>
    /\ UNCHANGED <<hosts, minted, beat, told>>

-----------------------------------------------------------------------------
(***************************************************************************)
(* POST /api/hosts/:host_id/heartbeat: the status the agent reports, which *)
(* is always online, is written before the row is looked at for the reply. *)
(***************************************************************************)

StartHeartbeat(n) ==
    /\ agent[n] = "running"
    /\ beat[n] = 0
    /\ Authorised(n)
    /\ beat' = [beat EXCEPT ![n] = creds[n].host]
    /\ UNCHANGED <<hosts, minted, regs, saved, agent, creds, told>>

RecordHeartbeat(n) ==
    /\ beat[n] # 0
    /\ hosts' = [hosts EXCEPT ![beat[n]].status = "online"]
    /\ beat' = [beat EXCEPT ![n] = 0]
    /\ told' = [told EXCEPT ![n] = IF hosts'[beat[n]].status \in Steered
                                   THEN hosts'[beat[n]].status ELSE "none"]
    /\ UNCHANGED <<minted, regs, saved, agent, creds>>

-----------------------------------------------------------------------------
(***************************************************************************)
(* The admins: POST /api/hosts/:id/approve and /maintenance.               *)
(***************************************************************************)

ApproveHost(i, b) ==
    /\ hosts[i].approved # b
    /\ hosts' = [hosts EXCEPT ![i].approved = b]
    /\ UNCHANGED <<minted, regs, saved, agent, creds, beat, told>>

SetMaintenance(i, s) ==
    /\ hosts[i].status # s
    /\ hosts' = [hosts EXCEPT ![i].status = s]
    /\ UNCHANGED <<minted, regs, saved, agent, creds, beat, told>>

-----------------------------------------------------------------------------
(***************************************************************************)
(* Faults.                                                                 *)
(***************************************************************************)

\* The handlers whose client is agent n run on for nobody.
Orphan(n) ==
    regs' = [g \in Registration |->
               IF g[1] = n /\ regs[g].pc # "idle" THEN [regs[g] EXCEPT !.live = FALSE] ELSE regs[g]]

\* The connection breaks: ensureRegistered rejects and the process exits.
LoseConnection(n) ==
    /\ "network" \in Faults
    /\ agent[n] = "registering"
    /\ agent' = [agent EXCEPT ![n] = "down"]
    /\ Orphan(n)
    /\ UNCHANGED <<hosts, minted, saved, creds, beat, told>>

AgentCrash(n) ==
    /\ "agent" \in Faults
    /\ agent[n] = "running"
    /\ agent' = [agent EXCEPT ![n] = "down"]
    /\ Orphan(n)
    /\ UNCHANGED <<hosts, minted, saved, creds, beat, told>>

\* The API process dies with its handlers; agents that wait for one exit.
ApiCrash ==
    /\ "api" \in Faults
    /\ regs' = [g \in Registration |-> NoReg]
    /\ beat' = [n \in Names |-> 0]
    /\ agent' = [n \in Names |-> IF agent[n] = "registering" THEN "down" ELSE agent[n]]
    /\ UNCHANGED <<hosts, minted, saved, creds, told>>

\* The state file is lost or cut short: loadState then returns {}.
LoseState(n) ==
    /\ "state" \in Faults
    /\ agent[n] = "down"
    /\ saved' = [saved EXCEPT ![n] = NoCredentials]
    /\ UNCHANGED <<hosts, minted, regs, agent, creds, beat, told>>

-----------------------------------------------------------------------------
Init ==
    /\ hosts = <<>>
    /\ minted = 0
    /\ regs = [g \in Registration |-> NoReg]
    /\ saved = [n \in Names |-> NoCredentials]
    /\ agent = [n \in Names |-> "down"]
    /\ creds = [n \in Names |-> NoCredentials]
    /\ beat = [n \in Names |-> 0]
    /\ told = [n \in Names |-> "none"]

RegisterStep(g) == StartRegistering(g) \/ LookUp(g) \/ WriteHost(g) \/ Reply(g)

Heartbeat(n) == StartHeartbeat(n) \/ RecordHeartbeat(n)

Admin ==
    \E i \in DOMAIN hosts :
       \/ \E b \in BOOLEAN : ApproveHost(i, b)
       \/ \E s \in Steered \cup {"online"} : SetMaintenance(i, s)

Fault ==
    \/ \E n \in Names : LoseConnection(n) \/ AgentCrash(n) \/ LoseState(n)
    \/ ApiCrash

Next ==
    \/ \E g \in Registration : RegisterStep(g)
    \/ \E n \in Names : StartRegistered(n) \/ Heartbeat(n)
    \/ Admin
    \/ Fault

Spec == Init /\ [][Next]_hvars

-----------------------------------------------------------------------------
(***************************************************************************)
(* Properties.                                                             *)
(***************************************************************************)

\* Rows, handlers and processes are well formed; what is remembered of a row
\* (by a handler, a file, a heartbeat) is a row of the table.
TypeOK ==
    /\ hosts \in Seq(HostRow)
    /\ minted \in 0 .. MaxRegistrations
    /\ regs \in [Registration -> RegState]
    /\ saved \in [Names -> Credentials]
    /\ agent \in [Names -> {"down", "registering", "running"}]
    /\ creds \in [Names -> Credentials]
    /\ beat \in [Names -> Nat]
    /\ told \in [Names -> {"none"} \cup Steered]
    /\ \A g \in Registration : regs[g].found \in {0} \cup Named(g[1])
    /\ \A n \in Names : /\ saved[n].host \in {0} \cup Named(n)
                        /\ beat[n] \in {0} \cup Named(n)

\* Registration finds a row of its name once there is one, so a name has at most
\* as many rows as registrations of it overlap: one when none do.
RowsBounded ==
    \A n \in Names :
        Cardinality(Named(n))
          + Cardinality({g \in Registration : g[1] = n /\ At(g, "write") /\ regs[g].found = 0})
        <= Overlap[n]

\* When registrations do not overlap, the key a machine has saved is the one its
\* row accepts, through crashes and lost replies: no agent is locked out for good
\* (it never registers again while it has credentials).
SavedKeyWorks ==
    \A n \in Names :
        Overlap[n] = 1 /\ saved[n] # NoCredentials /\ (\A g \in Registration : g[1] = n => At(g, "idle"))
            => hosts[saved[n].host].key = saved[n].key

-----------------------------------------------------------------------------
(***************************************************************************)
(* What the documentation says, and the code does not do.                  *)
(***************************************************************************)

\* host-agent.md:103, a heartbeat's reply carries maintenance or draining when
\* the operator has put the host into that state.
DesiredStatusTold ==
    [][\A n \in Names :
          beat[n] # 0 /\ beat'[n] = 0 /\ hosts[beat[n]].status \in Steered
             => told'[n] = hosts[beat[n]].status]_hvars
=============================================================================
