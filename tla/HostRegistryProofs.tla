-------------------------- MODULE HostRegistryProofs ------------------------
(***************************************************************************)
(* Proofs about HostRegistry, for any machines, any number of overlapping  *)
(* registrations of each, any bound and any set of faults.                 *)
(***************************************************************************)
EXTENDS HostRegistry, SequenceTheorems, FiniteSetTheorems, TLAPS

-----------------------------------------------------------------------------
(***************************************************************************)
(* Handlers and rows.                                                      *)
(***************************************************************************)

\* A handler is one of those a name may have open.
LEMMA RegistrationType ==
    /\ \A g \in Registration : g[1] \in Names /\ g[2] \in 1 .. Overlap[g[1]] /\ g = <<g[1], g[2]>>
    /\ \A n \in Names : \A k \in 1 .. Overlap[n] : <<n, k>> \in Registration
BY RegistryAssumption DEF Registration

\* A row a handler or an admin writes stays where it is, under its name.
LEMMA RowWritten ==
    ASSUME hosts \in Seq(HostRow), NEW i \in DOMAIN hosts, NEW r \in HostRow,
           r.name = hosts[i].name, hosts' = [hosts EXCEPT ![i] = r]
    PROVE  /\ hosts' \in Seq(HostRow)
           /\ DOMAIN hosts' = DOMAIN hosts
           /\ hosts'[i] = r
           /\ \A j \in DOMAIN hosts \ {i} : hosts'[j] = hosts[j]
           /\ \A n : Named(n)' = Named(n)
<1>1. DOMAIN hosts = 1 .. Len(hosts)
  BY LenProperties
<1>2. hosts' \in Seq(HostRow) /\ Len(hosts') = Len(hosts)
  BY <1>1, ExceptSeq
<1>3. DOMAIN hosts' = DOMAIN hosts
  BY <1>1, <1>2, LenProperties
<1>4. hosts'[i] = r /\ \A j \in DOMAIN hosts \ {i} : hosts'[j] = hosts[j]
  OBVIOUS
<1>5. QED
  BY <1>2, <1>3, <1>4 DEF Named

\* A row that is added is the only new row of its name.
LEMMA RowAdded ==
    ASSUME hosts \in Seq(HostRow), NEW r \in HostRow, hosts' = Append(hosts, r)
    PROVE  /\ hosts' \in Seq(HostRow)
           /\ DOMAIN hosts' = DOMAIN hosts \cup {Len(hosts) + 1}
           /\ Len(hosts) + 1 \in Nat \ {0}
           /\ Len(hosts) + 1 \notin DOMAIN hosts
           /\ hosts'[Len(hosts) + 1] = r
           /\ \A j \in DOMAIN hosts : hosts'[j] = hosts[j]
           /\ \A n : Named(n)' = IF n = r.name THEN Named(n) \cup {Len(hosts) + 1} ELSE Named(n)
<1>1. DOMAIN hosts = 1 .. Len(hosts) /\ Len(hosts) \in Nat
  BY LenProperties
<1>2. /\ hosts' \in Seq(HostRow) /\ Len(hosts') = Len(hosts) + 1
      /\ DOMAIN hosts' = 1 .. Len(hosts) + 1
      /\ \A j \in DOMAIN hosts : hosts'[j] = hosts[j]
      /\ hosts'[Len(hosts) + 1] = r
  BY <1>1, AppendProperties, LenProperties
<1>3. \A n : Named(n)' = IF n = r.name THEN Named(n) \cup {Len(hosts) + 1} ELSE Named(n)
  BY <1>1, <1>2 DEF Named
<1>4. QED
  BY <1>1, <1>2, <1>3

\* The rows the handlers make, of a row or of a name.
LEMMA RowType ==
    /\ \A n \in Names, k \in Nat : /\ NewRow(n, k) \in HostRow
                                   /\ NewRow(n, k).name = n /\ NewRow(n, k).key = k
    /\ \A r \in HostRow, k \in Nat : /\ Renewed(r, k) \in HostRow
                                     /\ Renewed(r, k).name = r.name /\ Renewed(r, k).key = k
    /\ \A r \in HostRow, s \in Steered \cup {"online"} :
          /\ [r EXCEPT !.status = s] \in HostRow
          /\ [r EXCEPT !.status = s].name = r.name
          /\ [r EXCEPT !.status = s].key = r.key
    /\ \A r \in HostRow, b \in BOOLEAN :
          /\ [r EXCEPT !.approved = b] \in HostRow
          /\ [r EXCEPT !.approved = b].name = r.name
          /\ [r EXCEPT !.approved = b].key = r.key
<1>1. ASSUME NEW n \in Names, NEW k \in Nat
      PROVE  NewRow(n, k) \in HostRow /\ NewRow(n, k).name = n /\ NewRow(n, k).key = k
  BY DEF NewRow, HostRow
<1>2. ASSUME NEW r \in HostRow, NEW k \in Nat
      PROVE  Renewed(r, k) \in HostRow /\ Renewed(r, k).name = r.name /\ Renewed(r, k).key = k
  BY DEF Renewed, HostRow
<1>3. ASSUME NEW r \in HostRow, NEW s \in Steered \cup {"online"}
      PROVE  LET q == [r EXCEPT !.status = s] IN
             q \in HostRow /\ q.name = r.name /\ q.key = r.key
  BY DEF Steered, HostRow
<1>4. ASSUME NEW r \in HostRow, NEW b \in BOOLEAN
      PROVE  LET q == [r EXCEPT !.approved = b] IN
             q \in HostRow /\ q.name = r.name /\ q.key = r.key
  BY DEF HostRow
<1>5. QED
  BY <1>1, <1>2, <1>3, <1>4, ZenonT(60)

\* The states a handler goes through: its arrival, and what it finds.
Opened(k) == [NoReg EXCEPT !.pc = "lookup", !.key = k, !.live = TRUE]

MovedTo(q, pc, i) == [q EXCEPT !.pc = pc, !.found = i]

Ignored(q) == [q EXCEPT !.live = FALSE]

\* What a handler of POST /hosts/register keeps when it moves on.
LEMMA MovedToType ==
    ASSUME NEW q \in RegState, NEW pc \in {"write", "reply"}, NEW i \in Nat
    PROVE  /\ MovedTo(q, pc, i) \in RegState /\ MovedTo(q, pc, i).pc = pc
           /\ MovedTo(q, pc, i).key = q.key /\ MovedTo(q, pc, i).found = i
BY DEF MovedTo, RegState

\* The states a registration begins and ends in, and one whose agent is gone.
LEMMA RegType ==
    /\ NoReg \in RegState /\ NoReg.pc = "idle" /\ NoReg.found = 0
    /\ \A k \in Nat : /\ Opened(k) \in RegState /\ Opened(k).pc = "lookup"
                      /\ Opened(k).key = k /\ Opened(k).found = 0
    /\ \A q \in RegState : /\ Ignored(q) \in RegState /\ Ignored(q).pc = q.pc
                           /\ Ignored(q).key = q.key /\ Ignored(q).found = q.found
<1>1. NoReg \in RegState /\ NoReg.pc = "idle" /\ NoReg.found = 0
  BY DEF NoReg, RegState
<1>2. ASSUME NEW k \in Nat
      PROVE  /\ Opened(k) \in RegState /\ Opened(k).pc = "lookup"
             /\ Opened(k).key = k /\ Opened(k).found = 0
  BY DEF Opened, NoReg, RegState
<1>3. ASSUME NEW q \in RegState
      PROVE  /\ Ignored(q) \in RegState /\ Ignored(q).pc = q.pc
             /\ Ignored(q).key = q.key /\ Ignored(q).found = q.found
  BY DEF Ignored, RegState
<1>4. QED
  BY <1>1, <1>2, <1>3

-----------------------------------------------------------------------------
(***************************************************************************)
(* Type correctness: TypeOK by parts, and the row the running process has  *)
(* credentials of, which is the row its heartbeat will remember.           *)
(***************************************************************************)
RowsOK == hosts \in Seq(HostRow) /\ minted \in 0 .. MaxRegistrations

RegsOK ==
    /\ regs \in [Registration -> RegState]
    /\ \A g \in Registration : regs[g].found \in {0} \cup Named(g[1])

AgentsOK ==
    /\ saved \in [Names -> Credentials]
    /\ agent \in [Names -> {"down", "registering", "running"}]
    /\ creds \in [Names -> Credentials]
    /\ beat \in [Names -> Nat]
    /\ told \in [Names -> {"none"} \cup Steered]
    /\ \A n \in Names : /\ saved[n].host \in {0} \cup Named(n)
                        /\ creds[n].host \in {0} \cup Named(n)
                        /\ beat[n] \in {0} \cup Named(n)

TypeInv == RowsOK /\ RegsOK /\ AgentsOK

\* Rows are numbered from 1.
LEMMA RowNumbers ==
    ASSUME RowsOK
    PROVE  /\ \A i \in DOMAIN hosts : i \in Nat \ {0} /\ hosts[i] \in HostRow
           /\ \A n : Named(n) \subseteq DOMAIN hosts
BY ElementOfSeq, LenProperties DEF RowsOK, Named

\* Rows that stay under their names leave what is remembered of them right.
LEMMA AgentsAlone ==
    ASSUME AgentsOK, UNCHANGED <<saved, agent, creds, beat, told>>,
           \A n \in Names : Named(n) \subseteq Named(n)'
    PROVE  AgentsOK'
BY DEF AgentsOK

\* A step of no handler leaves the handlers well formed.
LEMMA HandlersAlone ==
    ASSUME RegsOK, UNCHANGED regs, \A n \in Names : Named(n) \subseteq Named(n)'
    PROVE  RegsOK'
BY RegistrationType DEF RegsOK

\* One handler moves to q, which remembers a row of its name or none.
LEMMA HandlerMoved ==
    ASSUME RegsOK, \A n \in Names : Named(n) \subseteq Named(n)',
           NEW g \in Registration, NEW q \in RegState, q.found \in {0} \cup Named(g[1])',
           regs' = [regs EXCEPT ![g] = q]
    PROVE  RegsOK'
<1>1. \A h \in Registration : regs'[h] = IF h = g THEN q ELSE regs[h]
  BY DEF RegsOK
<1>2. \A h \in Registration : regs[h].found \in {0} \cup Named(h[1])'
  BY RegistrationType DEF RegsOK
<1>3. \A h \in Registration : regs'[h].found \in {0} \cup Named(h[1])'
  BY <1>1, <1>2
<1>4. QED
  BY <1>3 DEF RegsOK

\* The step of a registration, as what it does to its handler and to the rows.
LEMMA RegisterCases ==
    ASSUME TypeInv, NEW g \in Registration
    PROVE  /\ StartRegistering(g) =>
                 /\ minted + 1 \in 0 .. MaxRegistrations
                 /\ regs' = [regs EXCEPT ![g] = Opened(minted + 1)]
           /\ LookUp(g) => \E i \in {0} \cup Named(g[1]) :
                 /\ i = 0 => Named(g[1]) = {}
                 /\ regs' = [regs EXCEPT ![g] = MovedTo(regs[g], "write", i)]
           /\ WriteHost(g) =>
                 \/ /\ regs[g].found \in Named(g[1])
                    /\ hosts' = [hosts EXCEPT ![regs[g].found] =
                                    Renewed(hosts[regs[g].found], regs[g].key)]
                    /\ regs' = [regs EXCEPT ![g] = MovedTo(regs[g], "reply", regs[g].found)]
                 \/ /\ regs[g].found = 0
                    /\ hosts' = Append(hosts, NewRow(g[1], regs[g].key))
                    /\ regs' = [regs EXCEPT ![g] = MovedTo(regs[g], "reply", Len(hosts) + 1)]
           /\ regs[g] \in RegState /\ regs[g].key \in Nat /\ regs[g].found \in Nat
<1> USE DEF TypeInv
<1>0. regs[g] \in RegState /\ regs[g].key \in Nat /\ regs[g].found \in Nat
  BY DEF RegsOK, RegState
<1>1. ASSUME StartRegistering(g)
      PROVE  /\ minted + 1 \in 0 .. MaxRegistrations
             /\ regs' = [regs EXCEPT ![g] = Opened(minted + 1)]
  BY <1>1, RegistryAssumption DEF StartRegistering, RowsOK, Opened
<1>2. ASSUME LookUp(g)
      PROVE  \E i \in {0} \cup Named(g[1]) :
                 /\ i = 0 => Named(g[1]) = {}
                 /\ regs' = [regs EXCEPT ![g] = MovedTo(regs[g], "write", i)]
  <2>1. PICK i \in IF Named(g[1]) = {} THEN {0} ELSE Named(g[1]) :
           regs' = [regs EXCEPT ![g].pc = "write", ![g].found = i]
    BY <1>2 DEF LookUp
  <2>2. regs' = [regs EXCEPT ![g] = MovedTo(regs[g], "write", i)]
    BY <2>1 DEF RegsOK, MovedTo
  <2>3. i \in {0} \cup Named(g[1]) /\ (i = 0 => Named(g[1]) = {})
    BY <2>1, RowNumbers
  <2>4. QED
    BY <2>2, <2>3
<1>3. ASSUME WriteHost(g)
      PROVE  \/ /\ regs[g].found \in Named(g[1])
                /\ hosts' = [hosts EXCEPT ![regs[g].found] =
                                Renewed(hosts[regs[g].found], regs[g].key)]
                /\ regs' = [regs EXCEPT ![g] = MovedTo(regs[g], "reply", regs[g].found)]
             \/ /\ regs[g].found = 0
                /\ hosts' = Append(hosts, NewRow(g[1], regs[g].key))
                /\ regs' = [regs EXCEPT ![g] = MovedTo(regs[g], "reply", Len(hosts) + 1)]
  <2>1. CASE regs[g].found # 0
    <3>1. regs[g].found \in Named(g[1])
      BY <2>1 DEF RegsOK
    <3>2. hosts' = [hosts EXCEPT ![regs[g].found] = Renewed(hosts[regs[g].found], regs[g].key)]
      BY <1>3, <2>1 DEF WriteHost
    <3>3. regs' = [regs EXCEPT ![g].pc = "reply"]
      BY <1>3, <2>1 DEF WriteHost
    <3>4. regs' = [regs EXCEPT ![g] = MovedTo(regs[g], "reply", regs[g].found)]
      <4>1. [regs[g] EXCEPT !.pc = "reply"] = MovedTo(regs[g], "reply", regs[g].found)
        BY <1>0 DEF MovedTo, RegState
      <4>2. regs' = [regs EXCEPT ![g] = [regs[g] EXCEPT !.pc = "reply"]]
        BY <3>3
      <4>3. QED
        BY <4>1, <4>2, Zenon
    <3>5. QED
      BY <3>1, <3>2, <3>4
  <2>2. CASE regs[g].found = 0
    <3>1. /\ hosts' = Append(hosts, NewRow(g[1], regs[g].key))
          /\ regs' = [regs EXCEPT ![g].pc = "reply", ![g].found = Len(hosts) + 1]
      BY <1>3, <2>2 DEF WriteHost
    <3>2. regs' = [regs EXCEPT ![g] = MovedTo(regs[g], "reply", Len(hosts) + 1)]
      BY <3>1 DEF RegsOK, MovedTo
    <3>3. QED
      BY <2>2, <3>1, <3>2
  <2>3. QED
    BY <2>1, <2>2
<1>4. QED
  BY <1>0, <1>1, <1>2, <1>3

\* A registration, from the start of its agent to the reply, keeps every type.
LEMMA RegisterType ==
    ASSUME TypeInv, NEW g \in Registration, RegisterStep(g)
    PROVE  TypeInv'
<1> DEFINE n == g[1]
<1> USE DEF TypeInv
<1>0. n \in Names /\ regs[g] \in RegState /\ regs[g].key \in Nat
  BY RegistrationType, RegisterCases
<1>1. CASE StartRegistering(g)
  <2>1. minted' \in 0 .. MaxRegistrations /\ regs' = [regs EXCEPT ![g] = Opened(minted + 1)]
    BY <1>1, RegisterCases DEF StartRegistering
  <2>2. UNCHANGED <<hosts, saved, creds, beat, told>> /\ agent' = [agent EXCEPT ![n] = "registering"]
    BY <1>1 DEF StartRegistering
  <2>3. \A m : Named(m)' = Named(m)
    BY <2>2 DEF Named
  <2>4. AgentsOK'
    BY <2>2, <2>3 DEF AgentsOK
  <2>5. Opened(minted + 1) \in RegState /\ Opened(minted + 1).found = 0
    <3>1. minted + 1 \in Nat
      BY <1>1, RegisterCases, RegistryAssumption
    <3>2. QED
      BY <3>1, RegType, Zenon
  <2>6. RegsOK'
    BY <2>1, <2>3, <2>5, HandlerMoved
  <2>7. QED
    BY <2>1, <2>2, <2>4, <2>6 DEF RowsOK
<1>2. CASE LookUp(g)
  <2>1. PICK i \in {0} \cup Named(n) : regs' = [regs EXCEPT ![g] = MovedTo(regs[g], "write", i)]
    BY <1>2, RegisterCases
  <2>2. MovedTo(regs[g], "write", i) \in RegState /\ MovedTo(regs[g], "write", i).found = i
    <3>1. i \in Nat
      BY RowNumbers
    <3>2. QED
      BY <1>0, <3>1, MovedToType
  <2>3. UNCHANGED <<hosts, minted, saved, agent, creds, beat, told>>
    BY <1>2 DEF LookUp
  <2>4. \A m : Named(m)' = Named(m)
    BY <2>3 DEF Named
  <2>5. RegsOK'
    BY <2>1, <2>2, <2>4, HandlerMoved
  <2>6. AgentsOK'
    BY <2>3, <2>4, AgentsAlone
  <2>7. QED
    BY <2>3, <2>5, <2>6 DEF RowsOK
<1>3. CASE WriteHost(g)
  <2>1. UNCHANGED <<minted, saved, agent, creds, beat, told>>
    BY <1>3 DEF WriteHost
  <2>2. ASSUME NEW i \in Nat, regs' = [regs EXCEPT ![g] = MovedTo(regs[g], "reply", i)],
               hosts' \in Seq(HostRow), \A m \in Names : Named(m) \subseteq Named(m)', i \in Named(n)'
        PROVE  TypeInv'
    <3>1. MovedTo(regs[g], "reply", i) \in RegState /\ MovedTo(regs[g], "reply", i).found = i
      BY <1>0, MovedToType
    <3>2. RegsOK'
      BY <2>2, <3>1, HandlerMoved
    <3>3. AgentsOK'
      BY <2>1, <2>2, AgentsAlone
    <3>4. QED
      BY <2>1, <2>2, <3>2, <3>3 DEF RowsOK
  <2>3. CASE /\ regs[g].found \in Named(n)
             /\ hosts' = [hosts EXCEPT ![regs[g].found] = Renewed(hosts[regs[g].found], regs[g].key)]
             /\ regs' = [regs EXCEPT ![g] = MovedTo(regs[g], "reply", regs[g].found)]
    <3>1. regs[g].found \in DOMAIN hosts /\ regs[g].found \in Nat
      BY <2>3, RowNumbers
    <3>2. /\ Renewed(hosts[regs[g].found], regs[g].key) \in HostRow
          /\ Renewed(hosts[regs[g].found], regs[g].key).name = hosts[regs[g].found].name
      BY <1>0, <3>1, RowNumbers, RowType
    <3>3. hosts' \in Seq(HostRow) /\ \A m : Named(m)' = Named(m)
      BY <2>3, <3>1, <3>2, RowWritten DEF RowsOK
    <3>4. QED
      BY <2>2, <2>3, <3>1, <3>3
  <2>4. CASE /\ hosts' = Append(hosts, NewRow(n, regs[g].key))
             /\ regs' = [regs EXCEPT ![g] = MovedTo(regs[g], "reply", Len(hosts) + 1)]
    <3>1. NewRow(n, regs[g].key) \in HostRow /\ NewRow(n, regs[g].key).name = n
      BY <1>0, RowType
    <3>2. /\ hosts' \in Seq(HostRow) /\ Len(hosts) + 1 \in Nat
          /\ \A m : Named(m)' = IF m = n THEN Named(m) \cup {Len(hosts) + 1} ELSE Named(m)
      BY <2>4, <3>1, RowAdded DEF RowsOK
    <3>3. QED
      BY <2>2, <2>4, <3>2
  <2>5. QED
    BY <1>3, <2>3, <2>4, RegisterCases
<1>4. CASE Reply(g)
  <2>1. /\ [host |-> regs[g].found, key |-> regs[g].key] \in Credentials
        /\ regs[g].found \in {0} \cup Named(n)
    BY <1>0 DEF RegState, RegsOK, Credentials
  <2>2. UNCHANGED <<hosts, minted, beat, told>> /\ regs' = [regs EXCEPT ![g] = NoReg]
    BY <1>4 DEF Reply
  <2>3. \A m : Named(m)' = Named(m)
    BY <2>2 DEF Named
  <2>4. AgentsOK'
    <3> DEFINE c == [host |-> regs[g].found, key |-> regs[g].key]
    <3>1. c.host = regs[g].found /\ c \in Credentials
      BY <2>1
    <3>2. \/ UNCHANGED <<saved, creds, agent>>
          \/ /\ saved' = [saved EXCEPT ![n] = c] /\ creds' = [creds EXCEPT ![n] = c]
             /\ agent' = [agent EXCEPT ![n] = "running"]
      BY <1>4 DEF Reply
    <3> HIDE DEF c
    <3>3. QED
      BY <1>0, <2>1, <2>2, <2>3, <3>1, <3>2 DEF AgentsOK
  <2>5. RegsOK'
    BY <2>2, <2>3, RegType, HandlerMoved
  <2>6. QED
    BY <2>2, <2>4, <2>5 DEF RowsOK
<1>5. QED
  BY <1>1, <1>2, <1>3, <1>4 DEF RegisterStep

\* What a heartbeat and an admin write: a column of a row, under the same name and key.
LEMMA RowEdited ==
    ASSUME TypeInv
    PROVE  /\ \A n \in Names : RecordHeartbeat(n) =>
                 \E i \in DOMAIN hosts, r \in HostRow :
                    r.name = hosts[i].name /\ r.key = hosts[i].key /\ hosts' = [hosts EXCEPT ![i] = r]
           /\ Admin =>
                 \E i \in DOMAIN hosts, r \in HostRow :
                    r.name = hosts[i].name /\ r.key = hosts[i].key /\ hosts' = [hosts EXCEPT ![i] = r]
<1> USE DEF TypeInv
<1>1. ASSUME NEW i \in DOMAIN hosts, NEW s \in Steered \cup {"online"},
             hosts' = [hosts EXCEPT ![i].status = s]
      PROVE  \E r \in HostRow :
                r.name = hosts[i].name /\ r.key = hosts[i].key /\ hosts' = [hosts EXCEPT ![i] = r]
  <2> DEFINE r == [hosts[i] EXCEPT !.status = s]
  <2>1. r \in HostRow /\ r.name = hosts[i].name /\ r.key = hosts[i].key
    BY RowNumbers, RowType
  <2>2. hosts' = [hosts EXCEPT ![i] = r]
    BY <1>1
  <2> HIDE DEF r
  <2>3. QED
    BY <2>1, <2>2
<1>2. ASSUME NEW i \in DOMAIN hosts, NEW b \in BOOLEAN,
             hosts' = [hosts EXCEPT ![i].approved = b]
      PROVE  \E r \in HostRow :
                r.name = hosts[i].name /\ r.key = hosts[i].key /\ hosts' = [hosts EXCEPT ![i] = r]
  <2> DEFINE r == [hosts[i] EXCEPT !.approved = b]
  <2>1. r \in HostRow /\ r.name = hosts[i].name /\ r.key = hosts[i].key
    BY RowNumbers, RowType
  <2>2. hosts' = [hosts EXCEPT ![i] = r]
    BY <1>2
  <2> HIDE DEF r
  <2>3. QED
    BY <2>1, <2>2
<1>3. ASSUME NEW n \in Names, RecordHeartbeat(n)
      PROVE  beat[n] \in DOMAIN hosts /\ hosts' = [hosts EXCEPT ![beat[n]].status = "online"]
  BY <1>3, RowNumbers DEF RecordHeartbeat, AgentsOK
<1>4. QED
  BY <1>1, <1>2, <1>3 DEF Admin, ApproveHost, SetMaintenance

\* A row whose columns are written keeps the types of everything else.
LEMMA EditType ==
    ASSUME TypeInv, UNCHANGED <<minted, regs, saved, agent, creds>>,
           beat' \in [Names -> Nat], \A n \in Names : beat'[n] \in {0, beat[n]},
           told' \in [Names -> {"none"} \cup Steered],
           \E i \in DOMAIN hosts, r \in HostRow :
              r.name = hosts[i].name /\ r.key = hosts[i].key /\ hosts' = [hosts EXCEPT ![i] = r]
    PROVE  TypeInv'
<1>1. hosts' \in Seq(HostRow) /\ \A n : Named(n)' = Named(n)
  BY RowWritten DEF TypeInv, RowsOK
<1>2. RegsOK'
  BY <1>1, HandlersAlone DEF TypeInv
<1>3. AgentsOK'
  BY <1>1 DEF TypeInv, AgentsOK
<1>4. QED
  BY <1>1, <1>2, <1>3 DEF TypeInv, RowsOK

\* The handlers that run on for nobody stand where they stood.
LEMMA OrphanType ==
    ASSUME RegsOK, NEW n \in Names, Orphan(n), UNCHANGED hosts
    PROVE  /\ RegsOK'
           /\ \A g \in Registration : /\ regs'[g].pc = regs[g].pc /\ regs'[g].key = regs[g].key
                                      /\ regs'[g].found = regs[g].found
<1>1. regs' = [g \in Registration |->
                  IF g[1] = n /\ regs[g].pc # "idle" THEN Ignored(regs[g]) ELSE regs[g]]
  BY DEF Orphan, Ignored
<1>2. \A g \in Registration : regs'[g] \in {regs[g], Ignored(regs[g])}
  BY <1>1
<1>3. \A g \in Registration : /\ regs'[g] \in RegState /\ regs'[g].pc = regs[g].pc
                              /\ regs'[g].key = regs[g].key /\ regs'[g].found = regs[g].found
  <2>1. ASSUME NEW g \in Registration
        PROVE  /\ regs'[g] \in RegState /\ regs'[g].pc = regs[g].pc
               /\ regs'[g].key = regs[g].key /\ regs'[g].found = regs[g].found
    <3>1. regs[g] \in RegState
      BY DEF RegsOK
    <3>2. QED
      BY <1>2, <3>1, RegType
  <2>2. QED
    BY <2>1
<1>4. \A m : Named(m)' = Named(m)
  BY DEF Named
<1>5. QED
  BY <1>1, <1>3, <1>4 DEF RegsOK

\* Every step keeps the types.
LEMMA StepType ==
    ASSUME TypeInv, Next
    PROVE  TypeInv'
<1>0. UNCHANGED hosts => \A m : Named(m)' = Named(m)
  BY DEF Named
<1>1. ASSUME NEW n \in Names, StartRegistered(n)
      PROVE  TypeInv'
  <2>1. /\ UNCHANGED <<hosts, minted, regs, saved, beat, told>>
        /\ agent' = [agent EXCEPT ![n] = "running"] /\ creds' = [creds EXCEPT ![n] = saved[n]]
    BY <1>1 DEF StartRegistered
  <2>2. AgentsOK'
    BY <1>0, <2>1 DEF TypeInv, AgentsOK
  <2>3. RegsOK'
    BY <1>0, <2>1, HandlersAlone DEF TypeInv
  <2>4. QED
    BY <2>1, <2>2, <2>3 DEF TypeInv, RowsOK
<1>2. ASSUME NEW n \in Names, StartHeartbeat(n)
      PROVE  TypeInv'
  <2>1. /\ UNCHANGED <<hosts, minted, regs, saved, agent, creds, told>>
        /\ beat' = [beat EXCEPT ![n] = creds[n].host]
    BY <1>2 DEF StartHeartbeat
  <2>2. creds[n].host \in Nat
    BY DEF TypeInv, AgentsOK, Credentials
  <2>3. AgentsOK'
    BY <1>0, <2>1, <2>2 DEF TypeInv, AgentsOK
  <2>4. RegsOK'
    BY <1>0, <2>1, HandlersAlone DEF TypeInv
  <2>5. QED
    BY <2>1, <2>3, <2>4 DEF TypeInv, RowsOK
<1>3. ASSUME NEW n \in Names, RecordHeartbeat(n)
      PROVE  TypeInv'
  <2>1. UNCHANGED <<minted, regs, saved, agent, creds>>
    BY <1>3 DEF RecordHeartbeat
  <2>2. beat' \in [Names -> Nat] /\ \A m \in Names : beat'[m] \in {0, beat[m]}
    BY <1>3 DEF RecordHeartbeat, TypeInv, AgentsOK
  <2>3. told' \in [Names -> {"none"} \cup Steered]
    BY <1>3 DEF RecordHeartbeat, TypeInv, AgentsOK
  <2>4. QED
    BY <1>3, <2>1, <2>2, <2>3, RowEdited, EditType
<1>4. CASE Admin
  <2>1. UNCHANGED <<minted, regs, saved, agent, creds, beat, told>>
    BY <1>4 DEF Admin, ApproveHost, SetMaintenance
  <2>2. beat' \in [Names -> Nat] /\ told' \in [Names -> {"none"} \cup Steered]
    BY <2>1 DEF TypeInv, AgentsOK
  <2>3. QED
    BY <1>4, <2>1, <2>2, RowEdited, EditType
<1>5. ASSUME NEW n \in Names, LoseConnection(n) \/ AgentCrash(n)
      PROVE  TypeInv'
  <2>1. /\ Orphan(n) /\ UNCHANGED <<hosts, minted, saved, creds, beat, told>>
        /\ agent' = [agent EXCEPT ![n] = "down"]
    BY <1>5 DEF LoseConnection, AgentCrash
  <2>2. RegsOK'
    BY <2>1, OrphanType DEF TypeInv
  <2>3. AgentsOK'
    BY <1>0, <2>1 DEF TypeInv, AgentsOK
  <2>4. QED
    BY <2>1, <2>2, <2>3 DEF TypeInv, RowsOK
<1>6. ASSUME NEW n \in Names, LoseState(n)
      PROVE  TypeInv'
  <2>1. UNCHANGED <<hosts, minted, regs, agent, creds, beat, told>>
        /\ saved' = [saved EXCEPT ![n] = NoCredentials]
    BY <1>6 DEF LoseState
  <2>2. NoCredentials \in Credentials /\ NoCredentials.host = 0
    BY DEF NoCredentials, Credentials
  <2>3. AgentsOK'
    BY <1>0, <2>1, <2>2 DEF TypeInv, AgentsOK
  <2>4. RegsOK'
    BY <1>0, <2>1, HandlersAlone DEF TypeInv
  <2>5. QED
    BY <2>1, <2>3, <2>4 DEF TypeInv, RowsOK
<1>7. CASE ApiCrash
  <2>1. RegsOK'
    BY <1>7, RegType DEF ApiCrash, RegsOK
  <2>2. AgentsOK'
    BY <1>0, <1>7 DEF ApiCrash, TypeInv, AgentsOK
  <2>3. QED
    BY <1>7, <2>1, <2>2 DEF ApiCrash, TypeInv, RowsOK
<1>8. QED
  BY <1>1, <1>2, <1>3, <1>4, <1>5, <1>6, <1>7, RegisterType DEF Next, Heartbeat, Fault

\* A fresh database and agents that have never run are well formed.
LEMMA InitType ==
    ASSUME Init
    PROVE  TypeInv
<1>1. RowsOK
  BY EmptySeq, RegistryAssumption DEF Init, RowsOK
<1>2. RegsOK
  BY RegType DEF Init, RegsOK
<1>3. AgentsOK
  BY DEF Init, AgentsOK, NoCredentials, Credentials
<1>4. QED
  BY <1>1, <1>2, <1>3 DEF TypeInv

\* A stuttering step, or one of the rest of the program, changes nothing here.
LEMMA StutterType ==
    ASSUME TypeInv, UNCHANGED hvars
    PROVE  TypeInv'
BY DEF TypeInv, RowsOK, RegsOK, AgentsOK, Named, hvars

\* Rows, handlers and processes are well formed in every reachable state, and what a
\* handler, a file or a heartbeat remembers is a row of its own name.
THEOREM RegistryTypeCorrect == Spec => []TypeOK
<1>1. TypeInv => TypeOK
  BY DEF TypeInv, TypeOK, RowsOK, RegsOK, AgentsOK
<1>2. QED
  BY <1>1, InitType, StepType, StutterType, PTL DEF Spec

-----------------------------------------------------------------------------
(***************************************************************************)
(* The key a machine has saved.                                            *)
(***************************************************************************)

\* The only handler of a name whose registrations do not overlap.
Only(n) == <<n, 1>>

\* The machine has nothing saved while its handler runs, and what it has saved, or
\* is about to be told, is what its row accepts.
KeyKept(n) ==
    /\ ~At(Only(n), "idle") => saved[n] = NoCredentials
    /\ At(Only(n), "reply") =>
          /\ regs[Only(n)].found \in Named(n)
          /\ hosts[regs[Only(n)].found].key = regs[Only(n)].key
    /\ saved[n] # NoCredentials =>
          /\ saved[n].host \in Named(n)
          /\ hosts[saved[n].host].key = saved[n].key

KeysKept == \A n \in Names : Overlap[n] = 1 => KeyKept(n)

\* A name with one registration at a time has one handler.
LEMMA OnlyHandler ==
    ASSUME NEW n \in Names, Overlap[n] = 1
    PROVE  /\ Only(n) \in Registration
           /\ Only(n)[1] = n
           /\ \A g \in Registration : g[1] = n => g = Only(n)
<1>1. \A k \in 1 .. Overlap[n] : k = 1
  OBVIOUS
<1>2. QED
  BY <1>1, RegistrationType DEF Only

\* Steps of other handlers, and rows whose keys stay, do not matter to a machine.
LEMMA KeyAlone ==
    ASSUME NEW n \in Names, KeyKept(n),
           saved'[n] = saved[n], regs'[Only(n)] = regs[Only(n)],
           \A i \in Named(n) : i \in Named(n)' /\ hosts'[i].key = hosts[i].key
    PROVE  KeyKept(n)'
BY DEF KeyKept, At

\* A step of the handler of a name: only the rows of its name change.
LEMMA WriteElsewhere ==
    ASSUME TypeInv, NEW g \in Registration, RegisterStep(g), NEW n \in Names, g[1] # n
    PROVE  /\ saved'[n] = saved[n]
           /\ \A i \in Named(n) : i \in Named(n)' /\ hosts'[i].key = hosts[i].key
<1>0. g[1] \in Names /\ regs[g].key \in Nat
  BY RegistrationType, RegisterCases
<1>1. CASE StartRegistering(g) \/ LookUp(g)
  BY <1>1 DEF StartRegistering, LookUp, Named
<1>2. CASE WriteHost(g)
  <2>1. saved' = saved
    BY <1>2 DEF WriteHost
  <2>2. CASE /\ regs[g].found \in Named(g[1])
             /\ hosts' = [hosts EXCEPT ![regs[g].found] = Renewed(hosts[regs[g].found], regs[g].key)]
    <3>1. regs[g].found \in DOMAIN hosts /\ hosts[regs[g].found] \in HostRow
      BY <2>2, RowNumbers DEF TypeInv
    <3>2. /\ Renewed(hosts[regs[g].found], regs[g].key) \in HostRow
          /\ Renewed(hosts[regs[g].found], regs[g].key).name = hosts[regs[g].found].name
      BY <1>0, <3>1, RowType
    <3>3. /\ Named(n)' = Named(n)
          /\ \A i \in DOMAIN hosts \ {regs[g].found} : hosts'[i] = hosts[i]
      BY <2>2, <3>1, <3>2, RowWritten DEF TypeInv, RowsOK
    <3>4. regs[g].found \notin Named(n) /\ Named(n) \subseteq DOMAIN hosts
      BY <2>2 DEF Named
    <3>5. QED
      BY <2>1, <3>3, <3>4
  <2>3. CASE hosts' = Append(hosts, NewRow(g[1], regs[g].key))
    <3>1. NewRow(g[1], regs[g].key) \in HostRow /\ NewRow(g[1], regs[g].key).name = g[1]
      BY <1>0, RowType
    <3>2. /\ Named(n)' = Named(n)
          /\ \A i \in DOMAIN hosts : hosts'[i] = hosts[i]
      BY <2>3, <3>1, RowAdded DEF TypeInv, RowsOK
    <3>3. QED
      BY <2>1, <3>2 DEF Named
  <2>4. QED
    BY <1>2, <2>2, <2>3, RegisterCases
<1>3. CASE Reply(g)
  <2>1. UNCHANGED hosts /\ (saved' = saved \/ \E c : saved' = [saved EXCEPT ![g[1]] = c])
    BY <1>3 DEF Reply
  <2>2. saved'[n] = saved[n]
    BY <2>1 DEF TypeInv, AgentsOK
  <2>3. QED
    BY <2>1, <2>2 DEF Named
<1>4. QED
  BY <1>1, <1>2, <1>3 DEF RegisterStep

\* A step of the only handler of a name.
LEMMA OnlyWrites ==
    ASSUME TypeInv, NEW n \in Names, Overlap[n] = 1, KeyKept(n), RegisterStep(Only(n))
    PROVE  KeyKept(n)'
<1> DEFINE g == Only(n)
<1>0. g \in Registration /\ g[1] = n /\ regs[g] \in RegState /\ regs[g].key \in Nat
  BY OnlyHandler, RegisterCases
<1> HIDE DEF g
<1>1. ASSUME NEW q, regs' = [regs EXCEPT ![g] = q]
      PROVE  regs'[g] = q
  BY <1>0, <1>1 DEF TypeInv, RegsOK
<1>2. CASE StartRegistering(g)
  <2>1. minted + 1 \in Nat
    BY <1>0, <1>2, RegisterCases, RegistryAssumption
  <2>2. Opened(minted + 1).pc = "lookup"
    BY <2>1, RegType, Zenon
  <2>3. regs'[g].pc = "lookup"
    BY <1>0, <1>1, <1>2, <2>2, RegisterCases
  <2>4. saved'[n] = NoCredentials
    BY <1>0, <1>2 DEF StartRegistering
  <2>5. QED
    BY <2>3, <2>4 DEF KeyKept, At, g
<1>3. CASE LookUp(g)
  <2>1. PICK i \in {0} \cup Named(g[1]) : regs' = [regs EXCEPT ![g] = MovedTo(regs[g], "write", i)]
    BY <1>0, <1>3, RegisterCases
  <2>2. i \in Nat
    BY RowNumbers DEF TypeInv
  <2>3. MovedTo(regs[g], "write", i).pc = "write"
    BY <1>0, <2>2, MovedToType
  <2>4. regs'[g].pc = "write"
    BY <1>1, <2>1, <2>3
  <2>5. saved'[n] = NoCredentials
    BY <1>3 DEF LookUp, KeyKept, At, g
  <2>6. QED
    BY <2>4, <2>5 DEF KeyKept, At, g
<1>4. CASE WriteHost(g)
  <2>1. saved'[n] = NoCredentials
    BY <1>4 DEF WriteHost, KeyKept, At, g
  <2>2. ASSUME NEW i \in Nat, regs' = [regs EXCEPT ![g] = MovedTo(regs[g], "reply", i)],
               i \in Named(n)', hosts'[i].key = regs[g].key
        PROVE  KeyKept(n)'
    <3>1. /\ MovedTo(regs[g], "reply", i).pc = "reply" /\ MovedTo(regs[g], "reply", i).found = i
          /\ MovedTo(regs[g], "reply", i).key = regs[g].key
      BY <1>0, MovedToType, ZenonT(60)
    <3>2. regs'[g].pc = "reply" /\ regs'[g].found = i /\ regs'[g].key = regs[g].key
      BY <1>1, <2>2, <3>1
    <3>3. QED
      BY <2>1, <2>2, <3>2 DEF KeyKept, At, g
  <2>3. CASE /\ regs[g].found \in Named(n)
             /\ hosts' = [hosts EXCEPT ![regs[g].found] = Renewed(hosts[regs[g].found], regs[g].key)]
             /\ regs' = [regs EXCEPT ![g] = MovedTo(regs[g], "reply", regs[g].found)]
    <3>1. regs[g].found \in DOMAIN hosts /\ hosts[regs[g].found] \in HostRow /\ regs[g].found \in Nat
      BY <2>3, RowNumbers DEF TypeInv
    <3>2. /\ Renewed(hosts[regs[g].found], regs[g].key) \in HostRow
          /\ Renewed(hosts[regs[g].found], regs[g].key).name = hosts[regs[g].found].name
          /\ Renewed(hosts[regs[g].found], regs[g].key).key = regs[g].key
      BY <1>0, <3>1, RowType
    <3>3. /\ Named(n)' = Named(n)
          /\ hosts'[regs[g].found].key = regs[g].key
      BY <2>3, <3>1, <3>2, RowWritten DEF TypeInv, RowsOK
    <3>4. QED
      BY <2>2, <2>3, <3>1, <3>3
  <2>4. CASE /\ hosts' = Append(hosts, NewRow(n, regs[g].key))
             /\ regs' = [regs EXCEPT ![g] = MovedTo(regs[g], "reply", Len(hosts) + 1)]
    <3>1. /\ NewRow(n, regs[g].key) \in HostRow /\ NewRow(n, regs[g].key).name = n
          /\ NewRow(n, regs[g].key).key = regs[g].key
      BY <1>0, RowType
    <3>2. /\ Len(hosts) + 1 \in Nat /\ Len(hosts) + 1 \in Named(n)'
          /\ hosts'[Len(hosts) + 1].key = regs[g].key
      BY <2>4, <3>1, RowAdded DEF TypeInv, RowsOK
    <3>3. QED
      BY <2>2, <2>4, <3>2
  <2>5. QED
    BY <1>0, <1>4, <2>3, <2>4, RegisterCases
<1>5. CASE Reply(g)
  <2>1. regs'[g].pc = "idle"
    BY <1>0, <1>5, RegType DEF Reply, TypeInv, RegsOK
  <2>2. /\ regs[g].found \in Named(n) /\ hosts[regs[g].found].key = regs[g].key
        /\ UNCHANGED hosts /\ saved[n] = NoCredentials
    BY <1>5 DEF KeyKept, Reply, At, g
  <2>3. \/ saved'[n] = NoCredentials
        \/ saved'[n].host = regs[g].found /\ saved'[n].key = regs[g].key
    BY <1>0, <1>5, <2>2 DEF Reply, TypeInv, AgentsOK
  <2>4. QED
    BY <2>1, <2>2, <2>3 DEF KeyKept, At, Named, g
<1>6. QED
  BY <1>2, <1>3, <1>4, <1>5 DEF RegisterStep, g

\* Every step keeps the keys.
LEMMA StepKeys ==
    ASSUME TypeInv, KeysKept, Next
    PROVE  KeysKept'
<1> SUFFICES ASSUME NEW n \in Names, Overlap[n] = 1
             PROVE  KeyKept(n)'
  BY DEF KeysKept
<1>0. KeyKept(n) /\ Only(n) \in Registration
  BY OnlyHandler DEF KeysKept
<1>1. ASSUME NEW g \in Registration, RegisterStep(g)
      PROVE  KeyKept(n)'
  <2>1. CASE g[1] = n
    BY <1>0, <1>1, <2>1, OnlyHandler, OnlyWrites
  <2>2. CASE g[1] # n
    <3>1. \E q : regs' = [regs EXCEPT ![g] = q]
      BY <1>1, RegisterCases DEF RegisterStep, Reply
    <3>2. regs'[Only(n)] = regs[Only(n)]
      BY <1>0, <2>2, <3>1, OnlyHandler DEF TypeInv, RegsOK
    <3>3. QED
      BY <1>0, <1>1, <2>2, <3>2, WriteElsewhere, KeyAlone
  <2>3. QED
    BY <2>1, <2>2
<1>2. ASSUME NEW m \in Names, StartRegistered(m) \/ StartHeartbeat(m)
      PROVE  KeyKept(n)'
  BY <1>0, <1>2 DEF StartRegistered, StartHeartbeat, KeyKept, At, Named
<1>3. ASSUME UNCHANGED <<regs, saved>>,
             \E i \in DOMAIN hosts, r \in HostRow :
                r.name = hosts[i].name /\ r.key = hosts[i].key /\ hosts' = [hosts EXCEPT ![i] = r]
      PROVE  KeyKept(n)'
  <2>1. Named(n)' = Named(n) /\ \A i \in DOMAIN hosts : hosts'[i].key = hosts[i].key
    BY <1>3, RowWritten DEF TypeInv, RowsOK
  <2>2. QED
    BY <1>0, <1>3, <2>1, KeyAlone DEF Named
<1>4. ASSUME NEW m \in Names, RecordHeartbeat(m)
      PROVE  KeyKept(n)'
  BY <1>3, <1>4, RowEdited DEF RecordHeartbeat
<1>5. CASE Admin
  BY <1>3, <1>5, RowEdited DEF Admin, ApproveHost, SetMaintenance
<1>6. ASSUME NEW m \in Names, LoseConnection(m) \/ AgentCrash(m)
      PROVE  KeyKept(n)'
  <2>1. Orphan(m) /\ UNCHANGED <<hosts, saved>>
    BY <1>6 DEF LoseConnection, AgentCrash
  <2>2. /\ regs'[Only(n)].pc = regs[Only(n)].pc /\ regs'[Only(n)].key = regs[Only(n)].key
        /\ regs'[Only(n)].found = regs[Only(n)].found
    BY <1>0, <2>1, OrphanType DEF TypeInv
  <2>3. QED
    BY <1>0, <2>1, <2>2 DEF KeyKept, At, Named
<1>7. ASSUME NEW m \in Names, LoseState(m)
      PROVE  KeyKept(n)'
  <2>1. UNCHANGED <<hosts, regs>> /\ saved'[n] \in {saved[n], NoCredentials}
    BY <1>7 DEF LoseState, TypeInv, AgentsOK
  <2>2. QED
    BY <1>0, <2>1 DEF KeyKept, At, Named
<1>8. CASE ApiCrash
  <2>1. UNCHANGED <<hosts, saved>> /\ regs'[Only(n)].pc = "idle"
    BY <1>0, <1>8, RegType DEF ApiCrash
  <2>2. QED
    BY <1>0, <2>1 DEF KeyKept, At, Named
<1>9. QED
  BY <1>1, <1>2, <1>4, <1>5, <1>6, <1>7, <1>8 DEF Next, Heartbeat, Fault

\* Where the registrations of a machine do not overlap, the key it has saved is the
\* one its row accepts, through crashes and lost replies.
THEOREM SavedKeyAccepted == Spec => []SavedKeyWorks
<1> DEFINE Inv == TypeInv /\ KeysKept
<1>1. Init => Inv
  <2>1. ASSUME Init, NEW n \in Names, Overlap[n] = 1
        PROVE  KeyKept(n)
    BY <2>1, OnlyHandler, RegType DEF Init, KeyKept, At
  <2>2. QED
    BY <2>1, InitType DEF KeysKept
<1>2. Inv /\ [Next]_hvars => Inv'
  <2>1. ASSUME KeysKept, UNCHANGED hvars
        PROVE  KeysKept'
    BY <2>1 DEF KeysKept, KeyKept, At, Named, hvars
  <2>2. QED
    BY <2>1, StepType, StepKeys, StutterType
<1>3. Inv => SavedKeyWorks
  BY OnlyHandler DEF KeysKept, KeyKept, SavedKeyWorks
<1>4. QED
  BY <1>1, <1>2, <1>3, PTL DEF Spec

-----------------------------------------------------------------------------
(***************************************************************************)
(* The number of rows of a name.                                           *)
(***************************************************************************)

\* The registrations of a name that have found no row, and will create one.
Creators(n) == {g \in Registration : g[1] = n /\ At(g, "write") /\ regs[g].found = 0}

Bounded(n) == Cardinality(Named(n)) + Cardinality(Creators(n)) <= Overlap[n]

\* A name has finitely many handlers, as many as may overlap.
LEMMA CreatorsFinite ==
    ASSUME NEW n \in Names
    PROVE  /\ IsFiniteSet(Creators(n)) /\ Cardinality(Creators(n)) \in Nat
           /\ Cardinality(Creators(n)) <= Overlap[n]
           /\ IsFiniteSet(Creators(n)') /\ Cardinality(Creators(n)') \in Nat
           /\ Cardinality(Creators(n)') <= Overlap[n]
<1> DEFINE H == {n} \X (1 .. Overlap[n])
<1>1. Overlap[n] \in Nat
  BY RegistryAssumption
<1>2. IsFiniteSet(1 .. Overlap[n]) /\ Cardinality(1 .. Overlap[n]) = Overlap[n]
  BY <1>1, FS_Interval, SMTT(30)
<1>3. IsFiniteSet({n}) /\ Cardinality({n}) = 1
  BY FS_Singleton
<1>4. IsFiniteSet(H) /\ Cardinality(H) = Cardinality({n}) * Cardinality(1 .. Overlap[n])
  BY <1>2, <1>3, FS_Product
<1>5. Cardinality(H) = Overlap[n]
  BY <1>1, <1>2, <1>3, <1>4
<1>6. \A g \in Registration : g[1] = n => g \in H
  BY RegistrationType
<1>7. Creators(n) \subseteq H /\ Creators(n)' \subseteq H
  BY <1>6 DEF Creators
<1> HIDE DEF H
<1>8. QED
  BY <1>4, <1>5, <1>7, FS_Subset, FS_CardinalityType

\* A name has finitely many rows.
LEMMA NamedFinite ==
    ASSUME hosts \in Seq(HostRow), NEW n
    PROVE  IsFiniteSet(Named(n)) /\ Cardinality(Named(n)) \in Nat
<1>1. DOMAIN hosts = 1 .. Len(hosts) /\ Len(hosts) \in Nat
  BY LenProperties
<1>2. IsFiniteSet(DOMAIN hosts)
  BY <1>1, FS_Interval
<1>3. QED
  BY <1>2, FS_Subset, FS_CardinalityType DEF Named

\* A step that adds no row of the name and nobody who will create one.
LEMMA BoundStays ==
    ASSUME NEW n \in Names, Bounded(n), Named(n)' = Named(n), Creators(n)' \subseteq Creators(n),
           hosts \in Seq(HostRow)
    PROVE  Bounded(n)'
<1>1. Cardinality(Creators(n)') <= Cardinality(Creators(n))
  BY CreatorsFinite, FS_Subset
<1>2. Overlap[n] \in Nat
  BY RegistryAssumption
<1>3. QED
  BY <1>1, <1>2, CreatorsFinite, NamedFinite DEF Bounded

\* A registration creates a row only if it had found none, and finds one once there
\* is one: so whoever creates the next has found none before the first was created.
LEMMA RegisterBound ==
    ASSUME TypeInv, NEW g \in Registration, RegisterStep(g), NEW n \in Names, Bounded(n)
    PROVE  Bounded(n)'
<1>0. /\ hosts \in Seq(HostRow) /\ regs \in [Registration -> RegState]
      /\ regs[g] \in RegState /\ regs[g].key \in Nat /\ regs[g].found \in Nat /\ g[1] \in Names
  BY RegisterCases, RegistrationType DEF TypeInv, RowsOK, RegsOK
<1>1. ASSUME NEW q, regs' = [regs EXCEPT ![g] = q], q.pc # "write" \/ q.found # 0
      PROVE  Creators(n)' = Creators(n) \ {g}
  BY <1>0, <1>1 DEF Creators, At
<1>2. CASE StartRegistering(g)
  <2>1. minted + 1 \in Nat
    BY <1>2, RegisterCases, RegistryAssumption
  <2>2. Opened(minted + 1).pc = "lookup"
    BY <2>1, RegType, Zenon
  <2>3. Creators(n)' = Creators(n) \ {g}
    BY <1>1, <1>2, <2>2, RegisterCases
  <2>4. Named(n)' = Named(n)
    BY <1>2 DEF StartRegistering, Named
  <2>5. QED
    BY <1>0, <2>3, <2>4, BoundStays
<1>3. CASE LookUp(g)
  <2>1. PICK i \in {0} \cup Named(g[1]) :
           /\ i = 0 => Named(g[1]) = {}
           /\ regs' = [regs EXCEPT ![g] = MovedTo(regs[g], "write", i)]
    BY <1>3, RegisterCases
  <2>2. i \in Nat
    BY RowNumbers DEF TypeInv
  <2>3. MovedTo(regs[g], "write", i).pc = "write" /\ MovedTo(regs[g], "write", i).found = i
    BY <1>0, <2>2, MovedToType, ZenonT(60)
  <2>4. Named(n)' = Named(n)
    BY <1>3 DEF LookUp, Named
  <2>5. CASE i # 0
    <3>1. Creators(n)' = Creators(n) \ {g}
      BY <1>1, <2>1, <2>3, <2>5
    <3>2. QED
      BY <1>0, <2>4, <3>1, BoundStays
  <2>6. CASE g[1] # n
    <3>1. Creators(n)' = Creators(n)
      BY <1>0, <2>1, <2>6 DEF Creators, At
    <3>2. QED
      BY <1>0, <2>4, <3>1, BoundStays
  <2>7. CASE i = 0 /\ g[1] = n
    <3>1. Named(n)' = {}
      BY <2>1, <2>4, <2>7
    <3>2. Cardinality(Named(n)') = 0
      BY <3>1, FS_EmptySet
    <3>3. Overlap[n] \in Nat
      BY RegistryAssumption
    <3>4. QED
      BY <3>2, <3>3, CreatorsFinite DEF Bounded
  <2>8. QED
    BY <2>5, <2>6, <2>7
<1>4. CASE WriteHost(g)
  <2>1. ASSUME NEW i \in Nat, regs' = [regs EXCEPT ![g] = MovedTo(regs[g], "reply", i)]
        PROVE  Creators(n)' = Creators(n) \ {g}
    <3>1. MovedTo(regs[g], "reply", i).pc = "reply"
      BY <1>0, MovedToType
    <3>2. QED
      BY <1>1, <2>1, <3>1
  <2>2. CASE /\ regs[g].found \in Named(g[1])
             /\ hosts' = [hosts EXCEPT ![regs[g].found] = Renewed(hosts[regs[g].found], regs[g].key)]
             /\ regs' = [regs EXCEPT ![g] = MovedTo(regs[g], "reply", regs[g].found)]
    <3>1. regs[g].found \in DOMAIN hosts /\ hosts[regs[g].found] \in HostRow
      BY <2>2, RowNumbers DEF TypeInv
    <3>2. /\ Renewed(hosts[regs[g].found], regs[g].key) \in HostRow
          /\ Renewed(hosts[regs[g].found], regs[g].key).name = hosts[regs[g].found].name
      BY <1>0, <3>1, RowType
    <3>3. Named(n)' = Named(n)
      BY <1>0, <2>2, <3>1, <3>2, RowWritten
    <3>4. QED
      BY <1>0, <2>1, <2>2, <3>3, BoundStays
  <2>3. CASE /\ regs[g].found = 0
             /\ hosts' = Append(hosts, NewRow(g[1], regs[g].key))
             /\ regs' = [regs EXCEPT ![g] = MovedTo(regs[g], "reply", Len(hosts) + 1)]
    <3>1. NewRow(g[1], regs[g].key) \in HostRow /\ NewRow(g[1], regs[g].key).name = g[1]
      BY <1>0, RowType
    <3>2. /\ Len(hosts) + 1 \in Nat /\ Len(hosts) + 1 \notin DOMAIN hosts
          /\ Named(n)' = IF n = g[1] THEN Named(n) \cup {Len(hosts) + 1} ELSE Named(n)
      BY <1>0, <2>3, <3>1, RowAdded
    <3>3. Creators(n)' = Creators(n) \ {g}
      BY <2>1, <2>3, <3>2
    <3>4. CASE g[1] # n
      BY <1>0, <3>2, <3>3, <3>4, BoundStays
    <3>5. CASE g[1] = n
      <4>1. g \in Creators(n)
        BY <1>4, <2>3, <3>5 DEF WriteHost, Creators
      <4>2. Cardinality(Creators(n)') = Cardinality(Creators(n)) - 1
        BY <3>3, <4>1, CreatorsFinite, FS_RemoveElement
      <4>3. Len(hosts) + 1 \notin Named(n)
        BY <3>2 DEF Named
      <4>4. Cardinality(Named(n)') = Cardinality(Named(n)) + 1
        BY <1>0, <3>2, <3>5, <4>3, NamedFinite, FS_AddElement
      <4>5. Overlap[n] \in Nat
        BY RegistryAssumption
      <4>6. QED
        BY <1>0, <4>2, <4>4, <4>5, CreatorsFinite, NamedFinite DEF Bounded
    <3>6. QED
      BY <3>4, <3>5
  <2>4. QED
    BY <1>4, <2>2, <2>3, RegisterCases
<1>5. CASE Reply(g)
  <2>1. Creators(n)' = Creators(n) \ {g}
    BY <1>1, <1>5, RegType DEF Reply
  <2>2. Named(n)' = Named(n)
    BY <1>5 DEF Reply, Named
  <2>3. QED
    BY <1>0, <2>1, <2>2, BoundStays
<1>6. QED
  BY <1>2, <1>3, <1>4, <1>5 DEF RegisterStep

\* Every step keeps the bound: no other step adds a row or a handler.
LEMMA StepBound ==
    ASSUME TypeInv, Next, NEW n \in Names, Bounded(n)
    PROVE  Bounded(n)'
<1>0. hosts \in Seq(HostRow)
  BY DEF TypeInv, RowsOK
<1>1. ASSUME UNCHANGED <<hosts, regs>>
      PROVE  Bounded(n)'
  BY <1>1 DEF Bounded, Named, Creators, At
<1>2. ASSUME UNCHANGED regs,
             \E i \in DOMAIN hosts, r \in HostRow :
                r.name = hosts[i].name /\ r.key = hosts[i].key /\ hosts' = [hosts EXCEPT ![i] = r]
      PROVE  Bounded(n)'
  <2>1. Named(n)' = Named(n)
    BY <1>0, <1>2, RowWritten
  <2>2. Creators(n)' = Creators(n)
    BY <1>2 DEF Creators, At
  <2>3. QED
    BY <2>1, <2>2 DEF Bounded
<1>3. ASSUME UNCHANGED hosts,
             \A g \in Registration :
                \/ regs'[g].pc = "idle"
                \/ regs'[g].pc = regs[g].pc /\ regs'[g].found = regs[g].found
      PROVE  Bounded(n)'
  <2>1. Named(n)' = Named(n)
    BY <1>3 DEF Named
  <2>2. Creators(n)' \subseteq Creators(n)
    BY <1>3 DEF Creators, At
  <2>3. QED
    BY <1>0, <2>1, <2>2, BoundStays
<1>4. ASSUME NEW m \in Names, StartRegistered(m) \/ StartHeartbeat(m) \/ LoseState(m)
      PROVE  Bounded(n)'
  BY <1>1, <1>4 DEF StartRegistered, StartHeartbeat, LoseState
<1>5. ASSUME NEW m \in Names, RecordHeartbeat(m)
      PROVE  Bounded(n)'
  BY <1>2, <1>5, RowEdited DEF RecordHeartbeat
<1>6. CASE Admin
  BY <1>2, <1>6, RowEdited DEF Admin, ApproveHost, SetMaintenance
<1>7. ASSUME NEW m \in Names, LoseConnection(m) \/ AgentCrash(m)
      PROVE  Bounded(n)'
  <2>1. Orphan(m) /\ UNCHANGED hosts
    BY <1>7 DEF LoseConnection, AgentCrash
  <2>2. \A g \in Registration : regs'[g].pc = regs[g].pc /\ regs'[g].found = regs[g].found
    BY <2>1, OrphanType DEF TypeInv
  <2>3. QED
    BY <1>3, <2>1, <2>2
<1>8. CASE ApiCrash
  BY <1>3, <1>8, RegType DEF ApiCrash
<1>9. QED
  BY <1>4, <1>5, <1>6, <1>7, <1>8, RegisterBound DEF Next, Heartbeat, Fault

\* A name has at most as many rows as registrations of it overlap: one row, however
\* often the machine registers, where they never do.
THEOREM RowsAreBounded == Spec => []RowsBounded
<1> DEFINE Inv == TypeInv /\ \A n \in Names : Bounded(n)
<1>1. Init => Inv
  <2>1. ASSUME Init, NEW n \in Names
        PROVE  Bounded(n)
    <3>1. Named(n) = {}
      BY <2>1 DEF Init, Named
    <3>2. Cardinality(Named(n)) = 0
      BY <3>1, FS_EmptySet
    <3>3. Overlap[n] \in Nat
      BY RegistryAssumption
    <3>4. QED
      BY <3>2, <3>3, CreatorsFinite DEF Bounded
  <2>2. QED
    BY <2>1, InitType
<1>2. Inv /\ [Next]_hvars => Inv'
  <2>1. ASSUME UNCHANGED hvars, NEW n \in Names, Bounded(n)
        PROVE  Bounded(n)'
    BY <2>1 DEF Bounded, Named, Creators, At, hvars
  <2>2. QED
    BY <2>1, StepType, StepBound, StutterType
<1>3. Inv => RowsBounded
  BY DEF Bounded, Creators, RowsBounded
<1>4. QED
  BY <1>1, <1>2, <1>3, PTL DEF Spec

=============================================================================
