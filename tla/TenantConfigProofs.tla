-------------------------- MODULE TenantConfigProofs ------------------------
(***************************************************************************)
(* Proofs about TenantConfig, for any tenants, servers, secrets and users, *)
(* any number of requests that overlap at their statements, and any set of *)
(* faults.                                                                 *)
(***************************************************************************)
EXTENDS TenantConfig, SequenceTheorems, FiniteSetTheorems, TLAPS

-----------------------------------------------------------------------------
(***************************************************************************)
(* The requests, by what they are about.                                   *)
(***************************************************************************)
LlmRow == [Limits -> Amounts \cup {"null"}]

LlmReq == [pc : {"update key", "write row"}, id : 1 .. MaxRequests, body : LlmConfigInput,
           current : LlmRow, alone : BOOLEAN]

SecretReq == [pc : {"look up", "create", "update"}, id : 0 .. MaxRequests, name : Names,
              number : 1 .. MaxRequests, provider : Providers, sealed : BOOLEAN]

AccessReq == [pc : {"upsert"}, id : 1 .. MaxRequests, server : Servers, enabled : BOOLEAN,
              approved : {"yes", "no", Absent}, needs : BOOLEAN]

UserReq == [pc : {"create user"}, id : 1 .. MaxRequests, email : Emails]

AuditReq == [pc : {"audit"}, id : 1 .. MaxRequests, target : DOMAIN written]

\* A request is of the kind its step says.
LEMMA Kinds ==
    ASSUME NEW q \in Bodies \cup {Idle}
    PROVE  /\ q \in LlmReq \cup SecretReq \cup AccessReq \cup UserReq \cup AuditReq \cup {Idle}
           /\ q.pc \in {"update key", "write row"} => q \in LlmReq
           /\ q.pc \in {"look up", "create", "update"} => q \in SecretReq
           /\ q.pc = "upsert" => q \in AccessReq
           /\ q.pc = "create user" => q \in UserReq
           /\ q.pc = "audit" => q \in AuditReq
<1>1. q \in LlmReq \cup SecretReq \cup AccessReq \cup UserReq \cup AuditReq \cup {Idle}
  BY DEF Bodies, LlmReq, SecretReq, AccessReq, UserReq, AuditReq, LlmRow
<1>2. /\ \A r \in LlmReq : r.pc \in {"update key", "write row"}
      /\ \A r \in SecretReq : r.pc \in {"look up", "create", "update"}
      /\ \A r \in AccessReq : r.pc = "upsert"
      /\ \A r \in UserReq : r.pc = "create user"
      /\ \A r \in AuditReq : r.pc = "audit"
      /\ Idle.pc = "idle"
  BY DEF LlmReq, SecretReq, AccessReq, UserReq, AuditReq, Idle
<1>3. QED
  BY <1>1, <1>2

\* The owner and the number of a slot.
LEMMA SlotType ==
    ASSUME NEW s \in Slots
    PROVE  s[1] \in Owners /\ s[2] \in 1 .. Overlap[s[1]] /\ s = <<s[1], s[2]>>
BY TenantConfigAssumption DEF Slots
-----------------------------------------------------------------------------
(***************************************************************************)
(* Type correctness: TypeOK by parts, with the type of the trail, and the  *)
(* id of a secret that is still to be created.                             *)
(***************************************************************************)
RestOK == area \in Areas /\ namespace \in [Tenants -> Namespaces] /\ requests \in 0 .. MaxRequests

LlmOK ==
    /\ row \in [Tenants -> LlmRow]
    /\ key \in [Tenants -> [Limits -> Amounts \cup {Unset}]]
    /\ torn \subseteq Tenants \X Limits

SecretsOK == secrets \subseteq Secret

McpOK ==
    /\ required \in [Servers -> BOOLEAN]
    /\ DOMAIN access \subseteq Tenants \X Servers
    /\ \A l \in DOMAIN access : access[l] \in Access
    /\ lax \subseteq Servers

TrailOK ==
    /\ doubtful \subseteq DOMAIN written
    /\ trail \in Seq([target : DOMAIN written, by : Nat])

\* A secret that is still to be created has the number of its request for an id,
\* and what is edited of a tenant is a tenant's.
InPlace(s, q) ==
    /\ q.pc \in {"look up", "create"} => q.id = q.number
    /\ q.pc \in {"update key", "write row", "upsert"} => s[1] \in Tenants

ReqOK ==
    /\ req \in [Slots -> Bodies \cup {Idle}]
    /\ \A s \in Slots : InPlace(s, req[s])

TypeInv == RestOK /\ LlmOK /\ SecretsOK /\ McpOK /\ TrailOK /\ ReqOK

\* Which steps write which part.
LEMMA Frames ==
    ASSUME Next
    PROVE  /\ \/ UNCHANGED llm
              \/ \E s \in Slots : UpdateVirtualKey(s) \/ GatewayThrows(s) \/ WriteRow(s)
              \/ ApiCrash
           /\ \/ UNCHANGED secrets
              \/ \E s \in Slots : CreateSecret(s) \/ UpdateSecret(s) \/ \E r \in secrets : DeleteSecret(s, r)
           /\ \/ UNCHANGED mcp
              \/ \E s \in Slots : UpsertAccess(s)
              \/ \E m \in Servers, needs \in BOOLEAN : PatchServer(m, needs)
           /\ \/ UNCHANGED namespace
              \/ \E s \in Slots, given \in {"named", Absent} : PutMemory(s, given)
<1>1. ASSUME NEW s \in Slots, Step(s)
      PROVE  /\ UNCHANGED llm \/ UpdateVirtualKey(s) \/ GatewayThrows(s) \/ WriteRow(s)
             /\ UNCHANGED secrets \/ CreateSecret(s) \/ UpdateSecret(s)
             /\ UNCHANGED mcp \/ UpsertAccess(s)
             /\ UNCHANGED namespace
  BY <1>1 DEF Step, UpdateVirtualKey, GatewayThrows, WriteRow, LookUpSecret, CreateSecret, UpdateSecret,
              UpsertAccess, CreateUser, RecordAudit, llm, mcp
<1>2. ASSUME NEW s \in Slots, Request(s)
      PROVE  /\ UNCHANGED llm /\ UNCHANGED mcp
             /\ UNCHANGED secrets \/ \E r \in secrets : DeleteSecret(s, r)
             /\ UNCHANGED namespace \/ \E given \in {"named", Absent} : PutMemory(s, given)
  BY <1>2 DEF Request, PutLlm, PutMemory, PostSecret, PutAccess, DeleteSecret, PutSetting, PostUser
<1>3. ASSUME NEW m \in Servers, NEW needs \in BOOLEAN, PatchServer(m, needs)
      PROVE  UNCHANGED <<llm, secrets, namespace>>
  BY <1>3 DEF PatchServer
<1>4. ASSUME ApiCrash
      PROVE  UNCHANGED <<secrets, mcp, namespace>>
  BY <1>4 DEF ApiCrash
<1>5. QED
  BY <1>1, <1>2, <1>3, <1>4 DEF Next

\* The area stays one, and the requests are counted up to their bound.
LEMMA RestStep ==
    ASSUME TypeInv, Next
    PROVE  RestOK'
<1>1. ASSUME NEW a \in Areas, Counted(a)
      PROVE  area' \in Areas /\ requests' \in 1 .. MaxRequests
  BY <1>1, TenantConfigAssumption DEF Counted, TypeInv, RestOK
<1>2. (UNCHANGED <<area, requests>>) \/ \E a \in Areas : Counted(a)
  <2>1. ASSUME NEW s \in Slots, Step(s)
        PROVE  UNCHANGED <<area, requests>>
    BY <2>1 DEF Step, UpdateVirtualKey, GatewayThrows, WriteRow, LookUpSecret, CreateSecret, UpdateSecret,
                UpsertAccess, CreateUser, RecordAudit, Done, Ended
  <2>2. ASSUME NEW s \in Slots, Request(s)
        PROVE  \E a \in Areas : Counted(a)
    BY <2>2 DEF Request, PutLlm, PutMemory, PostSecret, PutAccess, DeleteSecret, PutSetting, PostUser,
                Opened, Areas
  <2>3. ASSUME NEW m \in Servers, NEW needs \in BOOLEAN, PatchServer(m, needs)
        PROVE  \E a \in Areas : Counted(a)
    BY <2>3 DEF PatchServer, Areas
  <2>4. ASSUME ApiCrash
        PROVE  UNCHANGED <<area, requests>>
    BY <2>4 DEF ApiCrash
  <2>5. QED
    BY <2>1, <2>2, <2>3, <2>4 DEF Next
<1>3. area' \in Areas /\ requests' \in 0 .. MaxRequests
  BY <1>1, <1>2 DEF TypeInv, RestOK
<1>4. namespace' \in [Tenants -> Namespaces]
  BY Frames DEF PutMemory, TypeInv, RestOK, Namespaces, Absent
<1>5. QED
  BY <1>3, <1>4 DEF RestOK

\* The limits of a row, and of a key, that an edit makes.
LEMMA LimitsType ==
    /\ \A old \in LlmRow, b \in LlmConfigInput : Merged(old, b) \in LlmRow
    /\ \A old \in [Limits -> Amounts \cup {Unset}], b \in LlmConfigInput :
          UpdatedKey(old, b) \in [Limits -> Amounts \cup {Unset}]
<1>1. ASSUME NEW old \in LlmRow, NEW b \in LlmConfigInput
      PROVE  Merged(old, b) \in LlmRow
  BY DEF Merged, LlmRow, LlmConfigInput
<1>2. ASSUME NEW old \in [Limits -> Amounts \cup {Unset}], NEW b \in LlmConfigInput
      PROVE  UpdatedKey(old, b) \in [Limits -> Amounts \cup {Unset}]
  BY DEF UpdatedKey, LlmConfigInput
<1>3. QED
  BY <1>1, <1>2

\* An edit of the limits concerns a tenant.
LEMMA EditType ==
    ASSUME TypeInv, NEW s \in Slots, Editing(s)
    PROVE  req[s] \in LlmReq /\ req[s].body \in LlmConfigInput /\ req[s].current \in LlmRow
<1>1. req[s] \in LlmReq
  BY Kinds DEF Editing, TypeInv, ReqOK
<1>2. QED
  BY <1>1 DEF LlmReq

\* The limits that an edit names are limits of its tenant.
LEMMA NamedType ==
    ASSUME TypeInv, NEW s \in Slots, Editing(s)
    PROVE  s[1] \in Tenants /\ Named(s) \subseteq Tenants \X Limits
<1>1. s[1] \in Tenants
  BY DEF TypeInv, ReqOK, InPlace, Editing
<1>2. QED
  BY <1>1 DEF Named

\* Edits of the limits keep the types of the row and of the key.
LEMMA LlmStep ==
    ASSUME TypeInv, Next
    PROVE  LlmOK'
<1>1. CASE UNCHANGED llm
  BY <1>1 DEF llm, TypeInv, LlmOK
<1>2. ASSUME NEW s \in Slots, UpdateVirtualKey(s) \/ GatewayThrows(s)
      PROVE  LlmOK'
  <2>1. Editing(s)
    BY <1>2 DEF UpdateVirtualKey, GatewayThrows, At, Editing
  <2>2. UpdatedKey(key[s[1]], req[s].body) \in [Limits -> Amounts \cup {Unset}]
    BY <2>1, EditType, NamedType, LimitsType DEF TypeInv, LlmOK
  <2>3. key' \in [Tenants -> [Limits -> Amounts \cup {Unset}]]
    BY <1>2, <2>2 DEF UpdateVirtualKey, GatewayThrows, TypeInv, LlmOK
  <2>4. row' = row /\ torn' \subseteq torn \cup Named(s)
    BY <1>2 DEF UpdateVirtualKey, GatewayThrows
  <2>5. QED
    BY <2>1, <2>3, <2>4, NamedType DEF TypeInv, LlmOK
<1>3. ASSUME NEW s \in Slots, WriteRow(s)
      PROVE  LlmOK'
  <2>1. Editing(s)
    BY <1>3 DEF WriteRow, At, Editing
  <2>2. Merged(req[s].current, req[s].body) \in LlmRow
    BY <2>1, EditType, LimitsType
  <2>3. row' \in [Tenants -> LlmRow]
    BY <1>3, <2>2 DEF WriteRow, TypeInv, LlmOK
  <2>4. key' = key /\ torn' \subseteq torn \cup Named(s)
    BY <1>3 DEF WriteRow
  <2>5. QED
    BY <2>1, <2>3, <2>4, NamedType DEF TypeInv, LlmOK
<1>4. CASE ApiCrash
  <2>1. \A s \in Slots : At(s, "write row") => Named(s) \subseteq Tenants \X Limits
    BY NamedType DEF At, Editing
  <2>2. torn' \subseteq Tenants \X Limits
    BY <1>4, <2>1, ZenonT(60) DEF ApiCrash, TypeInv, LlmOK
  <2>3. QED
    BY <1>4, <2>2 DEF ApiCrash, TypeInv, LlmOK
<1>5. QED
  BY <1>1, <1>2, <1>3, <1>4, Frames

\* What a request about a secret holds.
LEMMA SecretReqType ==
    ASSUME TypeInv, NEW s \in Slots, req[s].pc \in {"look up", "create", "update"}
    PROVE  /\ req[s] \in SecretReq
           /\ req[s].id \in 0 .. MaxRequests /\ req[s].number \in 1 .. MaxRequests
           /\ req[s].name \in Names /\ req[s].provider \in Providers /\ req[s].sealed \in BOOLEAN
<1>1. req[s] \in SecretReq
  BY Kinds DEF TypeInv, ReqOK
<1>2. QED
  BY <1>1 DEF SecretReq

\* A row keeps its owner, its name and its id when it is written over, and stays
\* or becomes sealed.
LEMMA OverwrittenType ==
    ASSUME NEW r \in Secret, NEW q \in SecretReq
    PROVE  /\ Overwritten(r, q) \in Secret
           /\ Overwritten(r, q).owner = r.owner /\ Overwritten(r, q).name = r.name
           /\ Overwritten(r, q).id = r.id
           /\ Overwritten(r, q).provider = q.provider
           /\ (r.sealed \/ q.sealed) => Overwritten(r, q).sealed
<1>1. q.provider \in Providers /\ q.sealed \in BOOLEAN
  BY DEF SecretReq
<1>2. r.sealed \in BOOLEAN
  BY DEF Secret
<1>3. DEFINE b == r.sealed \/ q.sealed
<1>4. b \in BOOLEAN
  BY <1>1, <1>2
<1>5. Overwritten(r, q) = [r EXCEPT !.provider = q.provider, !.sealed = b]
  BY DEF Overwritten
<1>6. b = (r.sealed \/ q.sealed)
  OBVIOUS
<1>. HIDE DEF b
<1>7. /\ Overwritten(r, q) \in Secret
      /\ Overwritten(r, q).owner = r.owner /\ Overwritten(r, q).name = r.name
      /\ Overwritten(r, q).id = r.id
      /\ Overwritten(r, q).provider = q.provider
      /\ Overwritten(r, q).sealed = b
  BY <1>1, <1>4, <1>5 DEF Secret
<1>8. QED
  BY <1>6, <1>7, Zenon

\* The rows of secrets keep their type.
LEMMA SecretsStep ==
    ASSUME TypeInv, Next
    PROVE  SecretsOK'
<1>1. ASSUME NEW s \in Slots, CreateSecret(s)
      PROVE  SecretsOK'
  <2>1. req[s].pc = "create"
    BY <1>1 DEF CreateSecret, At
  <2>2. [owner |-> s[1], name |-> req[s].name, id |-> req[s].id,
         provider |-> req[s].provider, sealed |-> req[s].sealed] \in Secret
    BY <2>1, SecretReqType, SlotType DEF Secret
  <2>3. QED
    BY <1>1, <2>2 DEF CreateSecret, TypeInv, SecretsOK
<1>2. ASSUME NEW s \in Slots, UpdateSecret(s)
      PROVE  SecretsOK'
  <2>1. req[s] \in SecretReq
    BY <1>2, SecretReqType DEF UpdateSecret, At
  <2>2. \A r \in secrets : Overwritten(r, req[s]) \in Secret
    BY <2>1, OverwrittenType DEF TypeInv, SecretsOK
  <2>3. QED
    BY <1>2, <2>2 DEF UpdateSecret, Rows, TypeInv, SecretsOK
<1>3. ASSUME NEW s \in Slots, NEW r \in secrets, DeleteSecret(s, r)
      PROVE  SecretsOK'
  BY <1>3 DEF DeleteSecret, TypeInv, SecretsOK
<1>4. QED
  BY <1>1, <1>2, <1>3, Frames DEF TypeInv, SecretsOK

\* What a request for an access holds, and the row that it makes of it.
Granted(q) ==
    [enabled |-> q.enabled, approved |-> Approved(q.approved, q.needs), admin |-> q.approved = "yes"]

\* The row that a request for an access makes, and when it is approved.
LEMMA GrantedType ==
    ASSUME NEW q \in AccessReq
    PROVE  /\ Granted(q) \in Access
           /\ q.server \in Servers /\ q.needs \in BOOLEAN
           /\ Granted(q).approved <=> Approved(q.approved, q.needs)
           /\ Granted(q).admin <=> q.approved = "yes"
<1>1. q.enabled \in BOOLEAN /\ q.needs \in BOOLEAN /\ q.server \in Servers
      /\ q.approved \in {"yes", "no", Absent}
  BY DEF AccessReq
<1>2. Approved(q.approved, q.needs) \in BOOLEAN
  BY <1>1 DEF Approved
<1>3. Granted(q) \in Access
  BY <1>1, <1>2 DEF Granted, Access
<1>4. Granted(q).approved = Approved(q.approved, q.needs) /\ Granted(q).admin = (q.approved = "yes")
  BY Zenon DEF Granted
<1>5. QED
  BY <1>1, <1>3, <1>4, Zenon

\* An upsert writes the row that its request stands for.
LEMMA UpsertStep ==
    ASSUME TypeInv, NEW s \in Slots, UpsertAccess(s)
    PROVE  /\ req[s] \in AccessReq
           /\ <<s[1], req[s].server>> \in Tenants \X Servers
           /\ access' = [l \in DOMAIN access \cup {<<s[1], req[s].server>>} |->
                           IF l # <<s[1], req[s].server>> THEN access[l] ELSE Granted(req[s])]
           /\ UNCHANGED <<required, lax>>
<1>1. req[s] \in AccessReq /\ s[1] \in Tenants
  BY Kinds DEF UpsertAccess, At, TypeInv, ReqOK, InPlace
<1>2. req[s].server \in Servers
  BY <1>1, GrantedType
<1>3. QED
  BY <1>1, <1>2 DEF UpsertAccess, Granted

\* The registry and the accesses keep their types.
LEMMA McpStep ==
    ASSUME TypeInv, Next
    PROVE  McpOK'
<1>1. ASSUME NEW s \in Slots, UpsertAccess(s)
      PROVE  McpOK'
  <2>1. Granted(req[s]) \in Access
    BY <1>1, UpsertStep, GrantedType
  <2>2. PICK this \in Tenants \X Servers :
           access' = [l \in DOMAIN access \cup {this} |->
                        IF l # this THEN access[l] ELSE Granted(req[s])]
    BY <1>1, UpsertStep
  <2>3. DOMAIN access' = DOMAIN access \cup {this}
    BY <2>2
  <2>4. \A l \in DOMAIN access' : access'[l] \in Access
    BY <2>1, <2>2, <2>3 DEF TypeInv, McpOK
  <2>5. QED
    BY <1>1, <2>3, <2>4, UpsertStep DEF TypeInv, McpOK
<1>2. ASSUME NEW m \in Servers, NEW needs \in BOOLEAN, PatchServer(m, needs)
      PROVE  McpOK'
  BY <1>2 DEF PatchServer, TypeInv, McpOK
<1>3. QED
  BY <1>1, <1>2, Frames DEF mcp, TypeInv, McpOK

-----------------------------------------------------------------------------
(***************************************************************************)
(* How the requests move: each step starts one, takes one further, ends    *)
(* one, or stops them all; what is written is written by one of them.      *)
(***************************************************************************)
\* The number that a request was given when it came in.
Number(q) == IF q.pc \in {"look up", "create", "update"} THEN q.number ELSE q.id

\* A number that slot s has, or that it is given by this step.
Follows(s, id) ==
    IF req[s] = Idle THEN requests' = requests + 1 /\ id = requests'
    ELSE requests' = requests /\ id = Number(req[s]) /\ ~At(s, "audit")

\* The request of slot s becomes q, which has nothing to record.
Moved(s, q) ==
    /\ req' = [req EXCEPT ![s] = q]
    /\ UNCHANGED audit
    /\ q.pc # "audit" /\ ~At(s, "audit")
    /\ InPlace(s, q)
    /\ IF q = Idle THEN requests' = requests ELSE Follows(s, Number(q))

\* A slot without a request is at no step of one.
LEMMA IdlePc == Idle.pc = "idle"
BY DEF Idle

\* Every kind of request is a request.
LEMMA KindsAreBodies ==
    /\ LlmReq \subseteq Bodies /\ SecretReq \subseteq Bodies /\ AccessReq \subseteq Bodies
    /\ UserReq \subseteq Bodies /\ AuditReq \subseteq Bodies
BY DEF Bodies, LlmReq, SecretReq, AccessReq, UserReq, AuditReq, LlmRow

\* A request is counted, up to the bound.
LEMMA CountedType ==
    ASSUME TypeInv, NEW a, Counted(a)
    PROVE  requests' = requests + 1 /\ requests' \in 1 .. MaxRequests
BY TenantConfigAssumption DEF Counted, TypeInv, RestOK

\* The number of a request that is open.
LEMMA NumberType ==
    ASSUME TypeInv, NEW s \in Slots, req[s] # Idle
    PROVE  Number(req[s]) \in 1 .. MaxRequests
<1>1. req[s] \in LlmReq \cup SecretReq \cup AccessReq \cup UserReq \cup AuditReq
  BY Kinds DEF TypeInv, ReqOK
<1>2. /\ \A q \in LlmReq : Number(q) \in 1 .. MaxRequests
      /\ \A q \in SecretReq : Number(q) \in 1 .. MaxRequests
      /\ \A q \in AccessReq : Number(q) \in 1 .. MaxRequests
      /\ \A q \in UserReq : Number(q) \in 1 .. MaxRequests
      /\ \A q \in AuditReq : Number(q) \in 1 .. MaxRequests
  BY DEF Number, LlmReq, SecretReq, AccessReq, UserReq, AuditReq
<1>3. QED
  BY <1>1, <1>2

\* A request that comes in.
LEMMA OpenedMoves ==
    ASSUME TypeInv, NEW s \in Slots, NEW a, NEW r,
           Opened(s, a, r), UNCHANGED audit, r.pc # "audit", Number(r) = requests', r # Idle, InPlace(s, r)
    PROVE  Moved(s, r)
BY CountedType DEF Opened, Moved, Follows, At, Idle

\* A request about a secret, by what it is about.
LEMMA SecretOpens ==
    ASSUME TypeInv, NEW s \in Slots, NEW n \in Names, NEW p \in Providers, NEW value \in BOOLEAN,
           PostSecret(s, n, p, value)
    PROVE  \E q \in Bodies : /\ Moved(s, q)
                             /\ q.pc = "look up" /\ q.name = n
                             /\ q.provider = "local" => q.sealed
<1>. DEFINE local == p = "local"
            q == [pc |-> "look up", id |-> requests', name |-> n, provider |-> p,
                  number |-> requests', sealed |-> local]
<1>1. Opened(s, "secrets", q) /\ UNCHANGED audit
  BY DEF PostSecret
<1>2. requests' \in 1 .. MaxRequests
  BY <1>1, CountedType DEF Opened
<1>3. local \in BOOLEAN
  OBVIOUS
<1>. HIDE DEF local
<1>4. q.sealed = local
  BY Zenon
<1>5. q \in SecretReq
  BY <1>2, <1>3 DEF SecretReq
<1>6. q.pc = "look up" /\ q.id = requests' /\ q.number = requests' /\ q.name = n /\ q.provider = p
  BY Zenon
<1>7. q.provider = "local" => q.sealed
  BY <1>4, <1>6, Zenon DEF local
<1>. HIDE DEF q
<1>8. InPlace(s, q) /\ Number(q) = requests' /\ q # Idle /\ q.pc # "audit"
  BY <1>6, IdlePc DEF InPlace, Number
<1>9. QED
  BY <1>1, <1>5, <1>6, <1>7, <1>8, OpenedMoves, KindsAreBodies

\* The lookup of a secret leaves its request to create a row or to write over one.
LEMMA SecretFound ==
    ASSUME TypeInv, NEW s \in Slots, LookUpSecret(s)
    PROVE  \E q \in Bodies : /\ Moved(s, q)
                             /\ q \in SecretReq
                             /\ \/ Existing(s) = {} /\ q = [req[s] EXCEPT !.pc = "create"]
                                \/ \E r \in Existing(s) : q = [req[s] EXCEPT !.pc = "update", !.id = r.id]
<1>1. req[s] \in SecretReq /\ req[s].pc = "look up" /\ req[s].id = req[s].number
  BY Kinds DEF LookUpSecret, At, TypeInv, ReqOK, InPlace
<1>2. /\ UNCHANGED audit /\ requests' = requests
      /\ ~At(s, "audit") /\ req[s] # Idle
  BY <1>1, IdlePc DEF LookUpSecret, At
<1>3. ASSUME Existing(s) = {}, req' = [req EXCEPT ![s].pc = "create"]
      PROVE  \E q \in SecretReq : q = [req[s] EXCEPT !.pc = "create"] /\ Moved(s, q)
  <2>. DEFINE q == [req[s] EXCEPT !.pc = "create"]
  <2>1. q \in SecretReq /\ q.pc = "create" /\ q.number = req[s].number /\ q.id = req[s].id
    BY <1>1 DEF SecretReq
  <2>2. req' = [req EXCEPT ![s] = q]
    BY <1>3 DEF TypeInv, ReqOK
  <2>. HIDE DEF q
  <2>3. Moved(s, q)
    BY <1>1, <1>2, <2>1, <2>2 DEF Moved, InPlace, Follows, Number, Idle
  <2>4. QED
    BY <2>1, <2>3 DEF q
<1>4. ASSUME NEW r \in Existing(s), req' = [req EXCEPT ![s].pc = "update", ![s].id = r.id]
      PROVE  \E q \in SecretReq : q = [req[s] EXCEPT !.pc = "update", !.id = r.id] /\ Moved(s, q)
  <2>. DEFINE q == [req[s] EXCEPT !.pc = "update", !.id = r.id]
  <2>1. r.id \in 0 .. MaxRequests
    BY DEF Existing, Rows, TypeInv, SecretsOK, Secret
  <2>2. q \in SecretReq /\ q.pc = "update" /\ q.number = req[s].number
    BY <1>1, <2>1 DEF SecretReq
  <2>3. req' = [req EXCEPT ![s] = q]
    BY <1>4 DEF TypeInv, ReqOK
  <2>. HIDE DEF q
  <2>4. Moved(s, q)
    BY <1>1, <1>2, <2>2, <2>3 DEF Moved, InPlace, Follows, Number, Idle
  <2>5. QED
    BY <2>2, <2>4 DEF q
<1>5. QED
  BY <1>3, <1>4, KindsAreBodies DEF LookUpSecret

\* A request for an access reads the policy of its server as it comes in.
LEMMA AccessOpens ==
    ASSUME TypeInv, NEW s \in Slots, NEW m \in Servers, NEW enabled \in BOOLEAN,
           NEW approved \in {"yes", "no", Absent}, PutAccess(s, m, enabled, approved)
    PROVE  \E q \in Bodies :
              /\ Moved(s, q)
              /\ q.pc = "upsert" /\ q.server = m /\ q.needs = required[m]
<1>. DEFINE q == [pc |-> "upsert", id |-> requests', server |-> m, enabled |-> enabled,
                  approved |-> approved, needs |-> required[m]]
<1>1. Opened(s, "mcp", q) /\ UNCHANGED audit /\ s[1] \in Tenants
  BY DEF PutAccess
<1>2. requests' \in 1 .. MaxRequests
  BY <1>1, CountedType DEF Opened
<1>3. required[m] \in BOOLEAN
  BY DEF TypeInv, McpOK
<1>4. q \in AccessReq
  BY <1>2, <1>3 DEF AccessReq
<1>5. q.pc = "upsert" /\ q.id = requests' /\ q.server = m /\ q.needs = required[m]
  BY <1>3
<1>. HIDE DEF q
<1>6. InPlace(s, q) /\ Number(q) = requests' /\ q # Idle /\ q.pc # "audit"
  BY <1>1, <1>5, IdlePc DEF InPlace, Number
<1>7. QED
  BY <1>1, <1>4, <1>5, <1>6, OpenedMoves, KindsAreBodies

\* A request for a user.
LEMMA UserOpens ==
    ASSUME TypeInv, NEW s \in Slots, NEW e \in Emails, PostUser(s, e)
    PROVE  \E q \in Bodies : Moved(s, q) /\ q.pc = "create user"
<1>. DEFINE q == [pc |-> "create user", id |-> requests', email |-> e]
<1>1. Opened(s, "platform", q) /\ UNCHANGED audit
  BY DEF PostUser
<1>2. requests' \in 1 .. MaxRequests
  BY <1>1, CountedType DEF Opened
<1>3. q \in UserReq
  BY <1>2 DEF UserReq
<1>4. q.pc = "create user" /\ q.id = requests'
  OBVIOUS
<1>. HIDE DEF q
<1>5. InPlace(s, q) /\ Number(q) = requests' /\ q # Idle /\ q.pc # "audit"
  BY <1>4, IdlePc DEF InPlace, Number
<1>6. QED
  BY <1>1, <1>3, <1>4, <1>5, OpenedMoves, KindsAreBodies

\* The key has been updated: the row is next.
LEMMA KeyMoves ==
    ASSUME TypeInv, NEW s \in Slots, UpdateVirtualKey(s)
    PROVE  \E q \in Bodies : Moved(s, q) /\ q = [req[s] EXCEPT !.pc = "write row"] /\ q \in LlmReq
<1>. DEFINE q == [req[s] EXCEPT !.pc = "write row"]
<1>1. req[s] \in LlmReq /\ req[s].pc = "update key" /\ s[1] \in Tenants
  BY Kinds DEF UpdateVirtualKey, At, TypeInv, ReqOK, InPlace
<1>2. UNCHANGED audit /\ requests' = requests /\ ~At(s, "audit") /\ req[s] # Idle
  BY <1>1, IdlePc DEF UpdateVirtualKey, At
<1>3. q \in LlmReq /\ q.pc = "write row" /\ q.id = req[s].id
  BY <1>1 DEF LlmReq
<1>4. req' = [req EXCEPT ![s] = q]
  BY DEF UpdateVirtualKey, TypeInv, ReqOK
<1>. HIDE DEF q
<1>5. Moved(s, q)
  BY <1>1, <1>2, <1>3, <1>4 DEF Moved, InPlace, Follows, Number, Idle
<1>6. QED
  BY <1>3, <1>5, KindsAreBodies DEF q

\* A request that ends without a record of it.
LEMMA DoneMoves ==
    ASSUME NEW s \in Slots, Done(s), ~At(s, "audit")
    PROVE  Moved(s, Idle)
BY DEF Done, Ended, Moved, InPlace, Idle

\* Request number id, in slot s or in no slot until now, has written x; a user is
\* written once.
Writes(s, id, x) ==
    /\ Written(s, id, x)
    /\ Follows(s, id)
    /\ id \in 1 .. MaxRequests
    /\ x[1] = "user" => x \notin DOMAIN written

\* A request past its await that writes does so under its own number.
LEMMA WriterFollows ==
    ASSUME TypeInv, NEW s \in Slots, NEW id, req[s].pc \notin {"idle", "audit"}, id = Number(req[s]),
           requests' = requests
    PROVE  Follows(s, id) /\ id \in 1 .. MaxRequests
<1>1. req[s] # Idle
  BY IdlePc
<1>2. QED
  BY <1>1, NumberType DEF Follows, At

\* A request that writes as it comes in does so under the number it is given.
LEMMA NewWriterFollows ==
    ASSUME TypeInv, NEW s \in Slots, NEW a, Counted(a), req[s] = Idle
    PROVE  Follows(s, requests') /\ requests' \in 1 .. MaxRequests
BY CountedType DEF Follows

\* Which steps write, and what.
LEMMA StepWrites ==
    ASSUME TypeInv, NEW s \in Slots
    PROVE  /\ WriteRow(s) => Writes(s, req[s].id, <<"limits", s[1]>>)
           /\ CreateSecret(s) => \/ Done(s) /\ UNCHANGED secrets /\ ~At(s, "audit")
                                 \/ Writes(s, req[s].id, SecretTarget(s[1], req[s].name, req[s].id))
           /\ UpdateSecret(s) => \/ Done(s) /\ UNCHANGED secrets /\ ~At(s, "audit")
                                 \/ Writes(s, req[s].number, SecretTarget(s[1], req[s].name, req[s].id))
           /\ UpsertAccess(s) => Writes(s, req[s].id, <<"access", s[1], req[s].server>>)
           /\ CreateUser(s) => \/ Done(s) /\ ~At(s, "audit")
                               \/ Writes(s, req[s].id, UserTarget(req[s].email))
<1>1. ASSUME WriteRow(s)
      PROVE  Writes(s, req[s].id, <<"limits", s[1]>>)
  <2>1. req[s].pc = "write row" /\ requests' = requests /\ Number(req[s]) = req[s].id
    BY <1>1 DEF WriteRow, At, Number
  <2>2. QED
    BY <1>1, <2>1, WriterFollows DEF WriteRow, Writes
<1>2. ASSUME CreateSecret(s), ~(Done(s) /\ UNCHANGED secrets)
      PROVE  Writes(s, req[s].id, SecretTarget(s[1], req[s].name, req[s].id))
  <2>1. req[s].pc = "create" /\ requests' = requests /\ Number(req[s]) = req[s].id
    BY <1>2 DEF CreateSecret, At, Number, TypeInv, ReqOK, InPlace
  <2>2. QED
    BY <1>2, <2>1, WriterFollows DEF CreateSecret, Writes, SecretTarget
<1>3. ASSUME UpdateSecret(s), ~(Done(s) /\ UNCHANGED secrets)
      PROVE  Writes(s, req[s].number, SecretTarget(s[1], req[s].name, req[s].id))
  <2>1. req[s].pc = "update" /\ requests' = requests /\ Number(req[s]) = req[s].number
    BY <1>3 DEF UpdateSecret, At, Number
  <2>2. QED
    BY <1>3, <2>1, WriterFollows DEF UpdateSecret, Writes, SecretTarget
<1>4. ASSUME UpsertAccess(s)
      PROVE  Writes(s, req[s].id, <<"access", s[1], req[s].server>>)
  <2>1. req[s].pc = "upsert" /\ requests' = requests /\ Number(req[s]) = req[s].id
    BY <1>4 DEF UpsertAccess, At, Number
  <2>2. QED
    BY <1>4, <2>1, WriterFollows DEF UpsertAccess, Writes
<1>5. ASSUME CreateUser(s), ~Done(s)
      PROVE  Writes(s, req[s].id, UserTarget(req[s].email))
  <2>1. req[s].pc = "create user" /\ requests' = requests /\ Number(req[s]) = req[s].id
    BY <1>5 DEF CreateUser, At, Number
  <2>2. QED
    BY <1>5, <2>1, WriterFollows DEF CreateUser, Writes
<1>6. CreateSecret(s) \/ UpdateSecret(s) \/ CreateUser(s) => ~At(s, "audit")
  BY DEF CreateSecret, UpdateSecret, CreateUser, At
<1>7. QED
  BY <1>1, <1>2, <1>3, <1>4, <1>5, <1>6

\* Which requests write as they come in.
LEMMA RequestWrites ==
    ASSUME TypeInv, NEW s \in Slots
    PROVE  /\ \A r \in secrets : DeleteSecret(s, r) => \E x : Writes(s, requests', x)
           /\ PutSetting(s) => \E x : Writes(s, requests', x)
<1>1. ASSUME NEW r \in secrets, DeleteSecret(s, r)
      PROVE  Writes(s, requests', SecretTarget(r.owner, r.name, r.id))
  BY <1>1, NewWriterFollows DEF DeleteSecret, Writes, SecretTarget
<1>2. ASSUME PutSetting(s)
      PROVE  Writes(s, requests', <<"setting">>)
  BY <1>2, NewWriterFollows DEF PutSetting, Writes
<1>3. QED
  BY <1>1, <1>2

\* What a step does to the requests and to what is recorded of them.
LEMMA Moves ==
    ASSUME TypeInv, Next
    PROVE  \/ UNCHANGED <<req, audit>> /\ requests' \in {requests, requests + 1}
           \/ \E s \in Slots, b \in LlmConfigInput : PutLlm(s, b)
           \/ \E s \in Slots : RecordAudit(s)
           \/ ApiCrash
           \/ \E s \in Slots, id \in 1 .. MaxRequests : \E x : Writes(s, id, x)
           \/ \E s \in Slots, q \in Bodies \cup {Idle} : Moved(s, q)
<1>1. ASSUME NEW s \in Slots, Step(s)
      PROVE  \/ RecordAudit(s)
             \/ \E id \in 1 .. MaxRequests : \E x : Writes(s, id, x)
             \/ \E q \in Bodies \cup {Idle} : Moved(s, q)
  <2>1. CASE UpdateVirtualKey(s)
    BY <2>1, KeyMoves
  <2>2. CASE GatewayThrows(s)
    BY <2>2, DoneMoves DEF GatewayThrows, At
  <2>3. CASE WriteRow(s)
    BY <2>3, StepWrites DEF Writes
  <2>4. CASE LookUpSecret(s)
    BY <2>4, SecretFound
  <2>5. CASE CreateSecret(s)
    BY <2>5, StepWrites, DoneMoves DEF Writes
  <2>6. CASE UpdateSecret(s)
    BY <2>6, StepWrites, DoneMoves DEF Writes
  <2>7. CASE UpsertAccess(s)
    BY <2>7, StepWrites DEF Writes
  <2>8. CASE CreateUser(s)
    BY <2>8, StepWrites, DoneMoves DEF Writes
  <2>9. QED
    BY <1>1, <2>1, <2>2, <2>3, <2>4, <2>5, <2>6, <2>7, <2>8 DEF Step
<1>2. ASSUME NEW s \in Slots, Request(s)
      PROVE  \/ UNCHANGED <<req, audit>> /\ requests' = requests + 1
             \/ \E b \in LlmConfigInput : PutLlm(s, b)
             \/ \E id \in 1 .. MaxRequests : \E x : Writes(s, id, x)
             \/ \E q \in Bodies \cup {Idle} : Moved(s, q)
  <2>1. CASE \E given \in {"named", Absent} : PutMemory(s, given)
    BY <2>1, CountedType DEF PutMemory
  <2>2. CASE \E n \in Names, p \in Providers, value \in BOOLEAN : PostSecret(s, n, p, value)
    BY <2>2, SecretOpens
  <2>3. CASE \E m \in Servers, enabled \in BOOLEAN, approved \in {"yes", "no", Absent} :
                PutAccess(s, m, enabled, approved)
    BY <2>3, AccessOpens
  <2>4. CASE \E r \in secrets : DeleteSecret(s, r)
    BY <2>4, RequestWrites DEF Writes
  <2>5. CASE PutSetting(s)
    BY <2>5, RequestWrites DEF Writes
  <2>6. CASE \E e \in Emails : PostUser(s, e)
    BY <2>6, UserOpens
  <2>7. QED
    BY <1>2, <2>1, <2>2, <2>3, <2>4, <2>5, <2>6 DEF Request
<1>3. ASSUME NEW m \in Servers, NEW needs \in BOOLEAN, PatchServer(m, needs)
      PROVE  UNCHANGED <<req, audit>> /\ requests' = requests + 1
  BY <1>3, CountedType DEF PatchServer
<1>4. QED
  BY <1>1, <1>2, <1>3 DEF Next

-----------------------------------------------------------------------------
(***************************************************************************)
(* The types of the requests and of the trail.                             *)
(***************************************************************************)
\* What is written is not forgotten, so that every body stays one.
LEMMA BodiesGrow ==
    ASSUME DOMAIN written \subseteq DOMAIN written'
    PROVE  Bodies \subseteq Bodies'
BY DEF Bodies

\* The other edits of a tenant are told that they are not alone.
LEMMA DisturbedType ==
    ASSUME TypeInv, NEW s \in Slots, NEW o \in Slots
    PROVE  /\ Disturbed(s)[o] \in Bodies \cup {Idle}
           /\ Disturbed(s)[o].pc = req[o].pc
           /\ Disturbed(s)[o] = Idle <=> req[o] = Idle
           /\ InPlace(o, Disturbed(s)[o])
           /\ Number(Disturbed(s)[o]) = Number(req[o])
           /\ Editing(o) => /\ Disturbed(s)[o].body = req[o].body
                            /\ Disturbed(s)[o].current = req[o].current
                            /\ Disturbed(s)[o].alone \in BOOLEAN
                            /\ Disturbed(s)[o].alone => req[o].alone /\ ~(o # s /\ o[1] = s[1])
           /\ ~Editing(o) => Disturbed(s)[o] = req[o]
<1>1. CASE o # s /\ o[1] = s[1] /\ Editing(o)
  <2>. DEFINE q == [req[o] EXCEPT !.alone = FALSE]
  <2>1. req[o] \in LlmReq /\ InPlace(o, req[o])
    BY <1>1, EditType DEF TypeInv, ReqOK
  <2>2. /\ q \in LlmReq /\ q.pc = req[o].pc /\ q.id = req[o].id /\ q.body = req[o].body
        /\ q.current = req[o].current /\ q.alone = FALSE
    BY <2>1 DEF LlmReq
  <2>3. Disturbed(s)[o] = q
    BY <1>1 DEF Disturbed
  <2>. HIDE DEF q
  <2>4. q.pc \in {"update key", "write row"} /\ q # Idle /\ req[o] # Idle
    BY <2>2, <1>1, IdlePc DEF Editing
  <2>5. QED
    BY <1>1, <2>1, <2>2, <2>3, <2>4, KindsAreBodies DEF InPlace, Number
<1>2. CASE ~(o # s /\ o[1] = s[1] /\ Editing(o))
  <2>1. Disturbed(s)[o] = req[o]
    BY <1>2 DEF Disturbed
  <2>2. req[o] \in Bodies \cup {Idle} /\ InPlace(o, req[o])
    BY DEF TypeInv, ReqOK
  <2>3. Editing(o) => req[o].alone \in BOOLEAN
    BY EditType DEF LlmReq
  <2>4. QED
    BY <1>2, <2>1, <2>2, <2>3
<1>3. QED
  BY <1>1, <1>2

\* An edit of the limits that comes in, by its number, what it has read of the row
\* and whether it is alone.
Edit(n, b, c, a) == [pc |-> "update key", id |-> n, body |-> b, current |-> c, alone |-> a]

\* What an edit of the limits knows when it comes in.
LEMMA EditKind ==
    ASSUME NEW n \in 1 .. MaxRequests, NEW b \in LlmConfigInput, NEW c \in LlmRow, NEW a \in BOOLEAN
    PROVE  /\ Edit(n, b, c, a) \in LlmReq
           /\ Edit(n, b, c, a).pc = "update key" /\ Edit(n, b, c, a).id = n
           /\ Edit(n, b, c, a).body = b /\ Edit(n, b, c, a).current = c
           /\ Edit(n, b, c, a).alone = a
BY DEF Edit, LlmReq

\* An edit comes in with what it read, and disturbs the others of its tenant.
LEMMA EditOpens ==
    ASSUME TypeInv, NEW s \in Slots, NEW b \in LlmConfigInput, PutLlm(s, b)
    PROVE  \E q \in LlmReq :
              /\ q # Idle /\ q.pc = "update key" /\ Number(q) = requests'
              /\ q.body = b /\ q.current = row[s[1]]
              /\ q.alone <=> Alone(s)
              /\ InPlace(s, q)
              /\ req' = [o \in Slots |-> IF o = s THEN q ELSE Disturbed(s)[o]]
              /\ requests' = requests + 1
              /\ req[s] = Idle /\ s[1] \in Tenants
              /\ UNCHANGED <<llm, audit>>
<1>1. requests' = requests + 1 /\ requests' \in 1 .. MaxRequests /\ s[1] \in Tenants /\ req[s] = Idle
  BY CountedType DEF PutLlm
<1>2. row[s[1]] \in LlmRow
  BY <1>1 DEF TypeInv, LlmOK
<1>3. Alone(s) \in BOOLEAN
  BY DEF Alone
<1>4. PICK a \in BOOLEAN : a = Alone(s)
  BY <1>3, Zenon
<1>5. PICK n \in 1 .. MaxRequests : n = requests'
  BY <1>1
<1>6. PICK q \in LlmReq : q = Edit(n, b, row[s[1]], a)
  BY <1>2, EditKind
<1>7. q.pc = "update key" /\ q.id = n /\ q.body = b /\ q.current = row[s[1]] /\ q.alone = a
  BY <1>6, Zenon DEF Edit
<1>8. req' = [o \in Slots |-> IF o = s THEN q ELSE Disturbed(s)[o]]
  <2>1. req' = [Disturbed(s) EXCEPT ![s] = q]
    BY <1>4, <1>5, <1>6, Zenon DEF PutLlm, Edit
  <2>2. QED
    BY <2>1 DEF Disturbed
<1>9. q.alone <=> Alone(s)
  BY <1>4, <1>7, Zenon
<1>10. q # Idle /\ Number(q) = requests' /\ InPlace(s, q)
  BY <1>1, <1>5, <1>7, IdlePc DEF Number, InPlace
<1>11. UNCHANGED <<llm, audit>>
  BY DEF PutLlm
<1>12. QED
  BY <1>1, <1>7, <1>8, <1>9, <1>10, <1>11

\* The requests keep their types, and stay in place.
LEMMA ReqStep ==
    ASSUME TypeInv, Next
    PROVE  ReqOK' /\ DOMAIN written \subseteq DOMAIN written'
<1>1. DOMAIN written \subseteq DOMAIN written'
  <2>1. ASSUME NEW s \in Slots, NEW id, NEW x, Written(s, id, x)
        PROVE  DOMAIN written \subseteq DOMAIN written'
    BY <2>1 DEF Written
  <2>2. QED
    BY <2>1, Moves DEF Writes, Moved, PutLlm, RecordAudit, ApiCrash, audit
<1>2. Bodies \cup {Idle} \subseteq Bodies' \cup {Idle}
  BY <1>1, BodiesGrow
<1>3. ASSUME NEW s \in Slots, NEW q \in Bodies' \cup {Idle}, InPlace(s, q), req' = [req EXCEPT ![s] = q]
      PROVE  ReqOK'
  BY <1>2, <1>3 DEF TypeInv, ReqOK
<1>4. ASSUME NEW s \in Slots, NEW b \in LlmConfigInput, PutLlm(s, b)
      PROVE  ReqOK'
  <2>1. PICK q \in LlmReq : /\ InPlace(s, q)
                             /\ req' = [o \in Slots |-> IF o = s THEN q ELSE Disturbed(s)[o]]
    BY <1>4, EditOpens, ZenonT(60)
  <2>2. \A o \in Slots : req'[o] \in Bodies' \cup {Idle}
    BY <1>2, <2>1, DisturbedType, KindsAreBodies
  <2>3. \A o \in Slots : InPlace(o, req'[o])
    BY <2>1, DisturbedType
  <2>4. req' \in [Slots -> Bodies' \cup {Idle}]
    BY <2>1, <2>2
  <2>5. QED
    BY <2>3, <2>4 DEF ReqOK, InPlace
<1>5. ASSUME NEW s \in Slots, RecordAudit(s)
      PROVE  ReqOK'
  <2>1. InPlace(s, Idle) /\ req' = [req EXCEPT ![s] = Idle]
    BY <1>5, IdlePc DEF InPlace, RecordAudit, Ended
  <2>2. QED
    BY <2>1, <1>3
<1>6. ASSUME ApiCrash
      PROVE  ReqOK'
  BY <1>6, IdlePc DEF ApiCrash, ReqOK, InPlace
<1>7. ASSUME NEW s \in Slots, NEW id \in 1 .. MaxRequests, NEW x, Writes(s, id, x)
      PROVE  ReqOK'
  <2>. DEFINE q == [pc |-> "audit", id |-> id, target |-> x]
  <2>1. req' = [req EXCEPT ![s] = q] /\ x \in DOMAIN written'
    BY <1>7 DEF Writes, Written
  <2>2. q \in Bodies'
    BY <2>1 DEF Bodies
  <2>3. InPlace(s, q)
    BY DEF InPlace
  <2>4. QED
    BY <2>1, <2>2, <2>3, <1>3
<1>8. ASSUME NEW s \in Slots, NEW q \in Bodies \cup {Idle}, Moved(s, q)
      PROVE  ReqOK'
  BY <1>8, <1>2, <1>3 DEF Moved
<1>9. CASE UNCHANGED req
  <2>1. req' \in [Slots -> Bodies' \cup {Idle}]
    BY <1>9, <1>2 DEF TypeInv, ReqOK
  <2>2. \A s \in Slots : InPlace(s, req'[s])
    BY <1>9 DEF TypeInv, ReqOK
  <2>3. QED
    BY <1>1, <2>1, <2>2 DEF ReqOK, InPlace
<1>10. QED
  BY <1>1, <1>4, <1>5, <1>6, <1>7, <1>8, <1>9, Moves

\* The trail keeps its type.
LEMMA TrailStep ==
    ASSUME TypeInv, Next
    PROVE  TrailOK'
<1>1. CASE UNCHANGED audit
  BY <1>1 DEF audit, TypeInv, TrailOK
<1>2. ASSUME NEW s \in Slots, NEW id \in 1 .. MaxRequests, NEW x, Writes(s, id, x)
      PROVE  TrailOK'
  <2>1. /\ DOMAIN written' = DOMAIN written \cup {x}
        /\ doubtful' \subseteq doubtful \cup {x}
        /\ trail' = trail
    BY <1>2 DEF Writes, Written
  <2>2. [target : DOMAIN written, by : Nat] \subseteq [target : DOMAIN written', by : Nat]
    BY <2>1
  <2>3. trail' \in Seq([target : DOMAIN written', by : Nat])
    BY <2>1, <2>2, SeqMonotonic DEF TypeInv, TrailOK
  <2>4. QED
    BY <2>1, <2>3 DEF TypeInv, TrailOK
<1>3. ASSUME NEW s \in Slots, RecordAudit(s)
      PROVE  TrailOK'
  <2>1. req[s] \in AuditReq
    BY <1>3, Kinds DEF RecordAudit, At, TypeInv, ReqOK
  <2>2. req[s].target \in DOMAIN written /\ req[s].id \in Nat
    BY <2>1, TenantConfigAssumption DEF AuditReq
  <2>3. written' = written /\ doubtful' \subseteq doubtful \cup {req[s].target}
    BY <1>3 DEF RecordAudit
  <2>4. trail' = trail \/ trail' = Append(trail, [target |-> req[s].target, by |-> req[s].id])
    BY <1>3 DEF RecordAudit
  <2>5. trail' \in Seq([target : DOMAIN written, by : Nat])
    <3>. DEFINE e == [target |-> req[s].target, by |-> req[s].id]
                E == [target : DOMAIN written, by : Nat]
    <3>1. e \in E /\ trail \in Seq(E)
      BY <2>2 DEF TypeInv, TrailOK
    <3>2. trail' = trail \/ trail' = Append(trail, e)
      BY <2>4
    <3>. HIDE DEF e, E
    <3>3. trail' \in Seq(E)
      BY <3>1, <3>2, AppendProperties
    <3>4. QED
      BY <3>3 DEF E
  <2>6. QED
    BY <2>2, <2>3, <2>5 DEF TypeInv, TrailOK
<1>4. ASSUME ApiCrash
      PROVE  TrailOK'
  <2>1. \A s \in Slots : At(s, "audit") => req[s].target \in DOMAIN written
    <3>1. ASSUME NEW s \in Slots, At(s, "audit")
          PROVE  req[s].target \in DOMAIN written
      <4>1. req[s] \in AuditReq
        BY <3>1, Kinds DEF At, TypeInv, ReqOK
      <4>2. QED
        BY <4>1 DEF AuditReq
    <3>2. QED
      BY <3>1
  <2>2. QED
    BY <1>4, <2>1 DEF ApiCrash, TypeInv, TrailOK
<1>5. QED
  BY <1>1, <1>2, <1>3, <1>4, Moves DEF Moved, PutLlm

-----------------------------------------------------------------------------
\* The limits of every tenant are those that createTenant leaves.
LEMMA InitialLimits ==
    ASSUME Init
    PROVE  \E input \in [Tenants -> LlmConfigInput], budget \in [Tenants -> Amounts] :
              /\ row = [t \in Tenants |-> InitialRow(input[t], budget[t])]
              /\ key = [t \in Tenants |-> InitialKey(input[t], budget[t])]
<1>1. /\ (IF area = "llm" THEN LlmConfigInput ELSE {NoLimits}) \subseteq LlmConfigInput
      /\ (IF area = "llm" THEN Amounts ELSE {"0"}) \subseteq Amounts
  <2>1. NoLimits \in LlmConfigInput
    BY DEF NoLimits, LlmConfigInput
  <2>2. "0" \in Amounts
    BY DEF Amounts
  <2>3. QED
    BY <2>1, <2>2
<1>2. PICK input \in [Tenants -> IF area = "llm" THEN LlmConfigInput ELSE {NoLimits}],
           budget \in [Tenants -> IF area = "llm" THEN Amounts ELSE {"0"}] :
         /\ row = [t \in Tenants |-> InitialRow(input[t], budget[t])]
         /\ key = [t \in Tenants |-> InitialKey(input[t], budget[t])]
  BY DEF Init
<1>3. input \in [Tenants -> LlmConfigInput] /\ budget \in [Tenants -> Amounts]
  BY <1>1, <1>2
<1>4. QED
  BY <1>2, <1>3

\* The limits that createTenant leaves are limits.
LEMMA InitialType ==
    ASSUME Init
    PROVE  row \in [Tenants -> LlmRow] /\ key \in [Tenants -> [Limits -> Amounts \cup {Unset}]]
<1>1. PICK input \in [Tenants -> LlmConfigInput], budget \in [Tenants -> Amounts] :
         /\ row = [t \in Tenants |-> InitialRow(input[t], budget[t])]
         /\ key = [t \in Tenants |-> InitialKey(input[t], budget[t])]
  BY InitialLimits
<1>2. Blank \in [Limits -> {"0", "null"}]
  BY DEF Blank, Limits
<1>3. \A t \in Tenants : /\ InitialRow(input[t], budget[t]) \in LlmRow
                         /\ InitialKey(input[t], budget[t]) \in [Limits -> Amounts \cup {Unset}]
  BY <1>2 DEF InitialRow, InitialKey, LlmRow, LlmConfigInput, Amounts
<1>4. QED
  BY <1>1, <1>3

\* The initial state has the types.
LEMMA InitType == Init => TypeInv
<1>. SUFFICES ASSUME Init PROVE TypeInv
  OBVIOUS
<1>1. RestOK
  BY TenantConfigAssumption DEF Init, RestOK, Namespaces
<1>2. LlmOK
  BY InitialType DEF Init, LlmOK
<1>3. SecretsOK
  <2>1. ASSUME NEW r \in secrets
        PROVE  r \in [owner : Tenants, name : {"litellm_key"}, id : {0}, provider : {"local"}, sealed : BOOLEAN]
    BY DEF Init
  <2>2. QED
    BY <2>1, TenantConfigAssumption DEF SecretsOK, Secret, Owners, Names, Providers
<1>4. McpOK
  <2>1. required \in [Servers -> BOOLEAN] /\ lax \subseteq Servers
    BY DEF Init
  <2>2. PICK linked \in SUBSET (Tenants \X Servers) :
           access = [l \in linked |-> [enabled |-> TRUE, approved |-> ~required[l[2]], admin |-> FALSE]]
    BY DEF Init
  <2>3. ASSUME NEW a \in BOOLEAN
        PROVE  [enabled |-> TRUE, approved |-> a, admin |-> FALSE] \in Access
    BY DEF Access
  <2>4. \A l \in linked : (~required[l[2]]) \in BOOLEAN
    OBVIOUS
  <2>5. \A l \in linked : access[l] \in Access
    BY <2>2, <2>3, <2>4, Zenon
  <2>6. DOMAIN access = linked
    BY <2>2
  <2>7. QED
    BY <2>1, <2>5, <2>6 DEF McpOK
<1>5. TrailOK
  BY DEF Init, TrailOK
<1>6. ReqOK
  BY IdlePc DEF Init, ReqOK, InPlace
<1>7. QED
  BY <1>1, <1>2, <1>3, <1>4, <1>5, <1>6 DEF TypeInv

\* Every step, also one that changes nothing, keeps the types.
LEMMA TypeStep == TypeInv /\ [Next]_tvars => TypeInv'
<1>1. ASSUME TypeInv, Next
      PROVE  TypeInv'
  BY <1>1, RestStep, LlmStep, SecretsStep, McpStep, TrailStep, ReqStep DEF TypeInv
<1>2. ASSUME TypeInv, UNCHANGED tvars
      PROVE  TypeInv'
  BY <1>2 DEF tvars, TypeInv, RestOK, LlmOK, SecretsOK, McpOK, TrailOK, ReqOK, Bodies
<1>3. QED
  BY <1>1, <1>2

\* The parts say at least what TypeOK says.
LEMMA TypeParts == TypeInv => TypeOK
<1>. SUFFICES ASSUME TypeInv PROVE TypeOK
  OBVIOUS
<1>1. \A i \in DOMAIN trail : trail[i].target \in DOMAIN written
  <2>. DEFINE E == [target : DOMAIN written, by : Nat]
  <2>1. trail \in Seq(E)
    BY DEF TypeInv, TrailOK
  <2>. HIDE DEF E
  <2>2. \A i \in DOMAIN trail : trail[i] \in E
    BY <2>1, LenProperties
  <2>3. QED
    BY <2>2 DEF E
<1>2. QED
  BY <1>1 DEF TypeInv, RestOK, LlmOK, SecretsOK, McpOK, TrailOK, ReqOK, TypeOK, LlmRow

\* The parts hold of every behaviour; the theorems below rest on them.
LEMMA Typed == Spec => []TypeInv
BY InitType, TypeStep, PTL DEF Spec

\* Every column, and every limit at the gateway, holds what it may hold, whichever
\* handlers overlap and wherever the API stops.
THEOREM ConfigTypeCorrect == Spec => []TypeOK
BY Typed, TypeParts, PTL

-----------------------------------------------------------------------------
(***************************************************************************)
(* Where a request that is open comes from: the handler's statements are   *)
(* the only ones that move it.                                             *)
(***************************************************************************)
\* A request that writes leaves the other slots alone, and has its entry to come.
LEMMA WritesAlone ==
    ASSUME TypeInv, NEW s \in Slots, NEW id, NEW x, Writes(s, id, x)
    PROVE  /\ req'[s].pc = "audit" /\ req'[s].id = id /\ req'[s].target = x
           /\ \A o \in Slots \ {s} : req'[o] = req[o]
BY DEF Writes, Written, TypeInv, ReqOK

\* What a step leaves of a slot, unless the request is disturbed or moved by
\* its own handler.
LEMMA Arrives ==
    ASSUME TypeInv, Next, NEW o \in Slots
    PROVE  \/ req'[o] \in {req[o], Idle}
           \/ req'[o].pc = "audit"
           \/ \E s \in Slots, b \in LlmConfigInput : PutLlm(s, b)
           \/ UpdateVirtualKey(o) \/ LookUpSecret(o)
           \/ \E n \in Names, p \in Providers, value \in BOOLEAN : PostSecret(o, n, p, value)
           \/ \E m \in Servers, enabled \in BOOLEAN, approved \in {"yes", "no", Absent} :
                 PutAccess(o, m, enabled, approved)
           \/ \E e \in Emails : PostUser(o, e)
<1>1. ASSUME NEW s \in Slots, NEW q, req' = [req EXCEPT ![s] = q], q = Idle \/ o # s
      PROVE  req'[o] \in {req[o], Idle}
  BY <1>1 DEF TypeInv, ReqOK
<1>2. ASSUME NEW s \in Slots, Done(s) \/ RecordAudit(s)
      PROVE  req'[o] \in {req[o], Idle}
  BY <1>1, <1>2 DEF Done, RecordAudit, Ended
<1>3. ASSUME NEW s \in Slots, NEW id, NEW x, Writes(s, id, x)
      PROVE  req'[o] = req[o] \/ req'[o].pc = "audit"
  BY <1>3, WritesAlone
<1>4. ASSUME NEW s \in Slots, Step(s), ~UpdateVirtualKey(o), ~LookUpSecret(o)
      PROVE  req'[o] \in {req[o], Idle} \/ req'[o].pc = "audit"
  <2>1. CASE UpdateVirtualKey(s)
    <3>1. s # o
      BY <2>1, <1>4
    <3>2. QED
      BY <2>1, <3>1, KeyMoves, <1>1 DEF Moved
  <2>2. CASE GatewayThrows(s)
    BY <2>2, <1>2 DEF GatewayThrows
  <2>3. CASE WriteRow(s)
    BY <2>3, StepWrites, <1>3
  <2>4. CASE LookUpSecret(s)
    <3>1. s # o
      BY <2>4, <1>4
    <3>2. QED
      BY <2>4, <3>1, SecretFound, <1>1 DEF Moved
  <2>5. CASE CreateSecret(s)
    BY <2>5, StepWrites, <1>2, <1>3
  <2>6. CASE UpdateSecret(s)
    BY <2>6, StepWrites, <1>2, <1>3
  <2>7. CASE UpsertAccess(s)
    BY <2>7, StepWrites, <1>3
  <2>8. CASE CreateUser(s)
    BY <2>8, StepWrites, <1>2, <1>3
  <2>9. CASE RecordAudit(s)
    BY <2>9, <1>2
  <2>10. QED
    BY <1>4, <2>1, <2>2, <2>3, <2>4, <2>5, <2>6, <2>7, <2>8, <2>9 DEF Step
<1>5. ASSUME NEW s \in Slots, Request(s), ~\E b \in LlmConfigInput : PutLlm(s, b)
      PROVE  \/ req'[o] \in {req[o], Idle}
             \/ req'[o].pc = "audit"
             \/ \E n \in Names, p \in Providers, value \in BOOLEAN : PostSecret(o, n, p, value)
             \/ \E m \in Servers, enabled \in BOOLEAN, approved \in {"yes", "no", Absent} :
                   PutAccess(o, m, enabled, approved)
             \/ \E e \in Emails : PostUser(o, e)
  <2>1. CASE \E given \in {"named", Absent} : PutMemory(s, given)
    BY <2>1 DEF PutMemory
  <2>2. ASSUME NEW n \in Names, NEW p \in Providers, NEW value \in BOOLEAN, PostSecret(s, n, p, value)
        PROVE  o = s \/ req'[o] \in {req[o], Idle}
    <3>1. PICK q \in Bodies : Moved(s, q)
      BY <2>2, SecretOpens, ZenonT(60)
    <3>2. QED
      BY <3>1, <1>1 DEF Moved
  <2>3. ASSUME NEW m \in Servers, NEW enabled \in BOOLEAN, NEW approved \in {"yes", "no", Absent},
               PutAccess(s, m, enabled, approved)
        PROVE  o = s \/ req'[o] \in {req[o], Idle}
    BY <2>3, AccessOpens, <1>1 DEF Moved
  <2>4. CASE \E r \in secrets : DeleteSecret(s, r)
    BY <2>4, RequestWrites, <1>3
  <2>5. CASE PutSetting(s)
    BY <2>5, RequestWrites, <1>3
  <2>6. ASSUME NEW e \in Emails, PostUser(s, e)
        PROVE  o = s \/ req'[o] \in {req[o], Idle}
    BY <2>6, UserOpens, <1>1 DEF Moved
  <2>7. QED
    BY <1>5, <2>1, <2>2, <2>3, <2>4, <2>5, <2>6 DEF Request
<1>6. CASE ApiCrash
  BY <1>6 DEF ApiCrash
<1>7. CASE \E m \in Servers, needs \in BOOLEAN : PatchServer(m, needs)
  BY <1>7 DEF PatchServer
<1>8. QED
  BY <1>4, <1>5, <1>6, <1>7 DEF Next

\* A new edit of the limits moves no other kind of request.
LEMMA EditArrives ==
    ASSUME TypeInv, NEW s \in Slots, NEW b \in LlmConfigInput, PutLlm(s, b), NEW o \in Slots
    PROVE  /\ ~Editing(o)' => req'[o] = req[o]
           /\ Editing(o)' => Editing(o) \/ o = s
<1>1. PICK q \in LlmReq : /\ q.pc = "update key"
                          /\ req' = [p \in Slots |-> IF p = s THEN q ELSE Disturbed(s)[p]]
  BY EditOpens, ZenonT(60)
<1>2. CASE o = s
  BY <1>1, <1>2 DEF Editing
<1>3. CASE o # s
  <2>1. req'[o] = Disturbed(s)[o]
    BY <1>1, <1>3
  <2>2. req'[o].pc = req[o].pc /\ (~Editing(o) => req'[o] = req[o])
    BY <2>1, DisturbedType
  <2>3. QED
    BY <2>2 DEF Editing
<1>4. QED
  BY <1>2, <1>3

-----------------------------------------------------------------------------
(***************************************************************************)
(* Approvals.  A request for an access carries what it read of the server, *)
(* possibly long before its upsert; what it read was so once.              *)
(***************************************************************************)
Explained ==
    /\ ApprovalExplained
    /\ \A m \in Servers : ~required[m] => m \in lax
    /\ \A s \in Slots : At(s, "upsert") /\ ~req[s].needs => req[s].server \in lax

\* createTenant links a server that needs no approval as approved.
LEMMA ExplainedInit == Init => Explained
<1>. SUFFICES ASSUME Init PROVE Explained
  OBVIOUS
<1>1. \A m \in Servers : ~required[m] => m \in lax
  BY DEF Init
<1>2. PICK linked \in SUBSET (Tenants \X Servers) :
         access = [l \in linked |-> [enabled |-> TRUE, approved |-> ~required[l[2]], admin |-> FALSE]]
  BY DEF Init
<1>3. DOMAIN access = linked
  BY <1>2
<1>4. \A l \in linked : access[l].approved = ~required[l[2]]
  BY <1>2, Zenon
<1>5. \A l \in linked : l[2] \in Servers
  OBVIOUS
<1>6. ApprovalExplained
  BY <1>1, <1>3, <1>4, <1>5, Zenon DEF ApprovalExplained
<1>7. QED
  BY <1>1, <1>6, IdlePc DEF Explained, Init, At

\* No step approves what nobody explains.
LEMMA ExplainedStep ==
    ASSUME TypeInv, Explained, Next
    PROVE  Explained'
<1>1. lax \subseteq lax'
  BY Frames DEF UpsertAccess, PatchServer, mcp
<1>2. \A m \in Servers : ~required'[m] => m \in lax'
  <2>1. ASSUME NEW n \in Servers, NEW needs \in BOOLEAN, PatchServer(n, needs), NEW m \in Servers, ~required'[m]
        PROVE  m \in lax'
    BY <2>1 DEF PatchServer, Explained, TypeInv, McpOK
  <2>2. QED
    BY <2>1, Frames DEF UpsertAccess, mcp, Explained
<1>3. ASSUME NEW s \in Slots, At(s, "upsert")', ~req'[s].needs
      PROVE  req'[s].server \in lax'
  <2>1. CASE req'[s] = req[s]
    BY <2>1, <1>1, <1>3 DEF At, Explained
  <2>2. ASSUME NEW m \in Servers, NEW enabled \in BOOLEAN, NEW approved \in {"yes", "no", Absent},
               PutAccess(s, m, enabled, approved)
        PROVE  req'[s].server \in lax'
    <3>1. PICK q : Moved(s, q) /\ q.server = m /\ q.needs = required[m]
      BY <2>2, AccessOpens
    <3>2. req'[s] = q
      BY <3>1 DEF Moved, TypeInv, ReqOK
    <3>3. QED
      BY <1>1, <1>3, <3>1, <3>2 DEF Explained
  <2>3. ASSUME NEW o \in Slots, NEW b \in LlmConfigInput, PutLlm(o, b)
        PROVE  req'[s] = req[s]
    BY <1>3, <2>3, EditArrives DEF At, Editing
  <2>4. req'[s] # Idle /\ req'[s].pc = "upsert"
    BY <1>3, IdlePc DEF At
  <2>5. ~UpdateVirtualKey(s) /\ ~LookUpSecret(s)
        /\ (\A n \in Names, p \in Providers, value \in BOOLEAN : ~PostSecret(s, n, p, value))
        /\ \A e \in Emails : ~PostUser(s, e)
    <3>1. ASSUME NEW q, Moved(s, q) PROVE req'[s] = q
      BY <3>1 DEF Moved, TypeInv, ReqOK
    <3>2. UpdateVirtualKey(s) => req'[s] \in LlmReq
      BY <3>1, KeyMoves
    <3>3. LookUpSecret(s) => req'[s] \in SecretReq
      BY <3>1, SecretFound
    <3>4. \A e \in Emails : PostUser(s, e) => req'[s].pc = "create user"
      BY <3>1, UserOpens
    <3>5. ASSUME NEW n \in Names, NEW p \in Providers, NEW value \in BOOLEAN, PostSecret(s, n, p, value)
          PROVE  req'[s].pc = "look up"
      <4>1. PICK q \in Bodies : Moved(s, q) /\ q.pc = "look up"
        BY <3>5, SecretOpens
      <4>2. QED
        BY <3>1, <4>1
    <3>6. QED
      BY <2>4, <3>2, <3>3, <3>4, <3>5 DEF LlmReq, SecretReq
  <2>6. QED
    BY <2>1, <2>2, <2>3, <2>4, <2>5, Arrives
<1>4. ASSUME NEW s \in Slots, UpsertAccess(s), NEW l \in DOMAIN access', access'[l].approved
      PROVE  access'[l].admin \/ l[2] \in lax'
  <2>1. PICK this \in Tenants \X Servers :
           /\ this = <<s[1], req[s].server>>
           /\ access' = [k \in DOMAIN access \cup {this} |->
                        IF k # this THEN access[k] ELSE Granted(req[s])]
    BY <1>4, UpsertStep
  <2>2. CASE l = this
    <3>1. access'[l] = Granted(req[s]) /\ l[2] = req[s].server
      BY <2>1, <2>2
    <3>2. CASE req[s].approved = Absent
      <4>1. ~req[s].needs
        BY <1>4, <3>1, <3>2, UpsertStep, GrantedType DEF Approved
      <4>2. QED
        BY <1>1, <1>4, <3>1, <4>1 DEF Explained, UpsertAccess
    <3>3. CASE req[s].approved # Absent
      BY <1>4, <3>1, <3>3, UpsertStep, GrantedType DEF Approved
    <3>4. QED
      BY <3>2, <3>3
  <2>3. CASE l # this
    <3>1. l \in DOMAIN access /\ access'[l] = access[l]
      BY <2>1, <2>3
    <3>2. QED
      BY <1>1, <1>4, <3>1 DEF Explained, ApprovalExplained
  <2>4. QED
    BY <2>2, <2>3
<1>5. ApprovalExplained'
  <2>1. CASE access' = access
    BY <2>1, <1>1 DEF Explained, ApprovalExplained
  <2>2. QED
    BY <2>1, <1>4, Frames DEF PatchServer, mcp, ApprovalExplained
<1>6. QED
  BY <1>2, <1>3, <1>5 DEF Explained, At

\* An access is approved by an admin, or by a server that did not require approval
\* once: PUT access decides by what it read of the server before it writes, and
\* never approves beyond that.
THEOREM ApprovalsAreExplained == Spec => []ApprovalExplained
<1>1. TypeInv /\ Explained /\ [Next]_tvars => Explained'
  <2>1. TypeInv /\ Explained /\ UNCHANGED tvars => Explained'
    BY DEF tvars, Explained, ApprovalExplained, At
  <2>2. QED
    BY <2>1, ExplainedStep
<1>2. Explained => ApprovalExplained
  BY DEF Explained
<1>3. QED
  BY <1>1, <1>2, ExplainedInit, Typed, PTL DEF Spec

-----------------------------------------------------------------------------
(***************************************************************************)
(* Secrets.                                                                *)
(***************************************************************************)
SecretStep == {"look up", "create", "update"}

\* A request for a secret is new, or was where it is, or has just been looked up:
\* then it creates a row only if there was none.
LEMMA SecretArrives ==
    ASSUME TypeInv, Next, NEW o \in Slots, req'[o].pc \in SecretStep
    PROVE  \/ req'[o] = req[o]
           \/ req'[o].pc = "look up" /\ (req'[o].provider = "local" => req'[o].sealed)
           \/ /\ LookUpSecret(o) /\ req[o] \in SecretReq /\ req[o].pc = "look up"
              /\ req'[o].name = req[o].name /\ req'[o].provider = req[o].provider
              /\ req'[o].sealed = req[o].sealed
              /\ req'[o].pc = "create" => Existing(o) = {}
<1>1. ASSUME NEW q, Moved(o, q) PROVE req'[o] = q
  BY <1>1 DEF Moved, TypeInv, ReqOK
<1>2. req'[o] # Idle /\ req'[o].pc # "audit"
  BY IdlePc DEF SecretStep
<1>3. CASE LookUpSecret(o)
  <2>1. PICK q : /\ Moved(o, q)
                 /\ \/ Existing(o) = {} /\ q = [req[o] EXCEPT !.pc = "create"]
                    \/ \E r \in Existing(o) : q = [req[o] EXCEPT !.pc = "update", !.id = r.id]
    BY <1>3, SecretFound
  <2>2. req[o] \in SecretReq /\ req[o].pc = "look up"
    BY <1>3, Kinds DEF LookUpSecret, At, TypeInv, ReqOK
  <2>3. /\ q.name = req[o].name /\ q.provider = req[o].provider /\ q.sealed = req[o].sealed
        /\ q.pc = "create" => Existing(o) = {}
    BY <2>1, <2>2 DEF SecretReq
  <2>4. QED
    BY <1>1, <1>3, <2>1, <2>2, <2>3
<1>4. ASSUME NEW n \in Names, NEW p \in Providers, NEW value \in BOOLEAN, PostSecret(o, n, p, value)
      PROVE  req'[o].pc = "look up" /\ (req'[o].provider = "local" => req'[o].sealed)
  <2>1. PICK q \in Bodies : Moved(o, q) /\ q.pc = "look up" /\ (q.provider = "local" => q.sealed)
    BY <1>4, SecretOpens, Zenon
  <2>2. QED
    BY <1>1, <2>1, Zenon
<1>5. ASSUME NEW s \in Slots, NEW b \in LlmConfigInput, PutLlm(s, b)
      PROVE  req'[o] = req[o]
  BY <1>5, EditArrives DEF Editing, SecretStep
<1>6. ~UpdateVirtualKey(o)
  BY <1>1, KeyMoves DEF LlmReq, SecretStep
<1>7. ASSUME NEW m \in Servers, NEW enabled \in BOOLEAN, NEW approved \in {"yes", "no", Absent},
             PutAccess(o, m, enabled, approved)
      PROVE  FALSE
  <2>1. PICK q \in Bodies : Moved(o, q) /\ q.pc = "upsert"
    BY <1>7, AccessOpens
  <2>2. QED
    BY <1>1, <2>1 DEF SecretStep
<1>8. \A e \in Emails : ~PostUser(o, e)
  BY <1>1, UserOpens DEF SecretStep
<1>9. req'[o] = req[o] \/ LookUpSecret(o)
      \/ \E n \in Names, p \in Providers, value \in BOOLEAN : PostSecret(o, n, p, value)
  BY <1>2, <1>5, <1>6, <1>7, <1>8, Arrives
<1>10. QED
  BY <1>3, <1>4, <1>9

\* The row of a request that creates one.
Created(s) == [owner |-> s[1], name |-> req[s].name, id |-> req[s].id,
               provider |-> req[s].provider, sealed |-> req[s].sealed]

\* A body that is local brings its ciphertext along to the row that it ends up in.
Sealed ==
    /\ LocalResolves
    /\ \A s \in Slots : req[s].pc \in SecretStep /\ req[s].provider = "local" => req[s].sealed

\* A local secret keeps the ciphertext of its request through every statement.
LEMMA SealedStep ==
    ASSUME TypeInv, Sealed, Next
    PROVE  Sealed'
<1>1. ASSUME NEW s \in Slots, req'[s].pc \in SecretStep, req'[s].provider = "local"
      PROVE  req'[s].sealed
  <2>1. CASE req'[s] = req[s]
    BY <1>1, <2>1, Zenon DEF Sealed
  <2>2. CASE req[s].pc = "look up" /\ req'[s].provider = req[s].provider /\ req'[s].sealed = req[s].sealed
    <3>1. req[s].pc \in SecretStep
      BY <2>2 DEF SecretStep
    <3>2. QED
      BY <1>1, <2>2, <3>1, Zenon DEF Sealed
  <2>3. QED
    BY <1>1, <2>1, <2>2, SecretArrives, Zenon
<1>2. ASSUME NEW s \in Slots, CreateSecret(s), NEW r \in secrets', r.provider = "local"
      PROVE  r.sealed
  <2>1. r \in secrets \/ r = Created(s)
    BY <1>2 DEF CreateSecret, Created
  <2>2. CASE r \in secrets
    BY <1>2, <2>2 DEF Sealed, LocalResolves
  <2>3. CASE r = Created(s)
    <3>1. r.provider = req[s].provider /\ r.sealed = req[s].sealed
      BY <2>3, Zenon DEF Created
    <3>2. req[s].pc \in SecretStep
      BY <1>2 DEF CreateSecret, At, SecretStep
    <3>3. QED
      BY <1>2, <3>1, <3>2, Zenon DEF Sealed
  <2>4. QED
    BY <2>1, <2>2, <2>3
<1>3. ASSUME NEW s \in Slots, UpdateSecret(s), NEW r \in secrets', r.provider = "local"
      PROVE  r.sealed
  <2>1. req[s] \in SecretReq /\ req[s].pc \in SecretStep
    BY <1>3, SecretReqType DEF UpdateSecret, At, SecretStep
  <2>2. r \in secrets \/ \E f \in secrets : r = Overwritten(f, req[s])
    BY <1>3 DEF UpdateSecret, Rows
  <2>3. CASE r \in secrets
    BY <1>3, <2>3 DEF Sealed, LocalResolves
  <2>4. ASSUME NEW f \in secrets, r = Overwritten(f, req[s])
        PROVE  r.sealed
    <3>1. f \in Secret
      BY DEF TypeInv, SecretsOK
    <3>2. r.provider = req[s].provider /\ (req[s].sealed => r.sealed)
      BY <2>1, <2>4, <3>1, OverwrittenType, Zenon
    <3>3. QED
      BY <1>3, <2>1, <3>2, Zenon DEF Sealed
  <2>5. QED
    BY <2>2, <2>3, <2>4
<1>4. LocalResolves'
  <2>1. ASSUME NEW r \in secrets', r.provider = "local"
        PROVE  r.sealed
    <3>1. CASE secrets' \subseteq secrets
      BY <2>1, <3>1 DEF Sealed, LocalResolves
    <3>2. secrets' \subseteq secrets \/ \E s \in Slots : CreateSecret(s) \/ UpdateSecret(s)
      BY Frames DEF DeleteSecret
    <3>3. QED
      BY <1>2, <1>3, <2>1, <3>1, <3>2
  <2>2. QED
    BY <2>1 DEF LocalResolves
<1>5. QED
  BY <1>1, <1>4 DEF Sealed

\* Whatever provider a row had when it was looked up, and whatever overwrites it,
\* a row that says local has a ciphertext: POST secrets seals what it stores.
THEOREM LocalSecretsResolve == Spec => []LocalResolves
<1>1. Init => Sealed
  <2>. SUFFICES ASSUME Init PROVE Sealed
    OBVIOUS
  <2>1. \A r \in secrets : r.sealed = TRUE
    BY DEF Init
  <2>2. LocalResolves
    BY <2>1, Zenon DEF LocalResolves
  <2>3. \A s \in Slots : req[s].pc = "idle"
    BY IdlePc DEF Init
  <2>4. QED
    BY <2>2, <2>3 DEF Sealed, SecretStep
<1>2. TypeInv /\ Sealed /\ [Next]_tvars => Sealed'
  <2>1. TypeInv /\ Sealed /\ UNCHANGED tvars => Sealed'
    BY DEF tvars, Sealed, LocalResolves
  <2>2. QED
    BY <2>1, SealedStep
<1>3. Sealed => LocalResolves
  BY DEF Sealed
<1>4. QED
  BY <1>1, <1>2, <1>3, Typed, PTL DEF Spec

-----------------------------------------------------------------------------
(***************************************************************************)
(* How many rows a name has.  Whoever creates a row has found none before; *)
(* the database refuses a second one to a tenant, but not to the platform. *)
(***************************************************************************)
Creators(n) == {s \in Slots : s[1] = Platform /\ At(s, "create") /\ req[s].name = n}

FewRows ==
    /\ \A o \in Owners, n \in Names : IsFiniteSet(Rows(o, n))
    /\ \A t \in Tenants, n \in Names : Cardinality(Rows(t, n)) <= 1
    /\ \A n \in Names : Cardinality(Rows(Platform, n)) + Cardinality(Creators(n)) <= Overlap[Platform]

\* The platform has as many slots as its requests may overlap.
LEMMA CreatorsFinite ==
    ASSUME NEW n
    PROVE  /\ Overlap[Platform] \in Nat
           /\ IsFiniteSet(Creators(n)) /\ Cardinality(Creators(n)) \in 0 .. Overlap[Platform]
           /\ IsFiniteSet(Creators(n)') /\ Cardinality(Creators(n)') \in 0 .. Overlap[Platform]
<1>. DEFINE H == {Platform} \X (1 .. Overlap[Platform])
<1>1. Overlap[Platform] \in Nat
  BY TenantConfigAssumption DEF Owners
<1>2. IsFiniteSet(1 .. Overlap[Platform]) /\ Cardinality(1 .. Overlap[Platform]) = Overlap[Platform]
  BY <1>1, FS_Interval, SMTT(30)
<1>3. IsFiniteSet({Platform}) /\ Cardinality({Platform}) = 1
  BY FS_Singleton
<1>4. IsFiniteSet(H) /\ Cardinality(H) = Cardinality({Platform}) * Cardinality(1 .. Overlap[Platform])
  BY <1>2, <1>3, FS_Product
<1>5. Cardinality(H) = Overlap[Platform]
  BY <1>1, <1>2, <1>3, <1>4
<1>6. \A s \in Slots : s[1] = Platform => s \in H
  BY SlotType
<1>7. Creators(n) \subseteq H /\ Creators(n)' \subseteq H
  BY <1>6 DEF Creators
<1>. HIDE DEF H
<1>8. /\ IsFiniteSet(Creators(n)) /\ Cardinality(Creators(n)) <= Overlap[Platform]
      /\ IsFiniteSet(Creators(n)') /\ Cardinality(Creators(n)') <= Overlap[Platform]
  BY <1>4, <1>5, <1>7, FS_Subset
<1>9. Cardinality(Creators(n)) \in Nat /\ Cardinality(Creators(n)') \in Nat
  BY <1>8, FS_CardinalityType
<1>10. QED
  BY <1>1, <1>8, <1>9

\* What a step does to the rows of a name: it removes some, writes over some, or
\* creates one, for a tenant the first one.
LEMMA RowsStep ==
    ASSUME TypeInv, Next, NEW o \in Owners, NEW n \in Names, IsFiniteSet(Rows(o, n))
    PROVE  /\ IsFiniteSet(Rows(o, n)')
           /\ \/ Cardinality(Rows(o, n)') <= Cardinality(Rows(o, n)) /\ (Rows(o, n) = {} => Rows(o, n)' = {})
              \/ \E s \in Slots : /\ s[1] = o /\ At(s, "create") /\ req[s].name = n
                                  /\ req'[s].pc = "audit" /\ \A x \in Slots \ {s} : req'[x] = req[x]
                                  /\ o \in Tenants => Rows(o, n) = {}
                                  /\ Cardinality(Rows(o, n)') <= Cardinality(Rows(o, n)) + 1
<1>1. CASE secrets' \subseteq secrets
  <2>1. Rows(o, n)' \subseteq Rows(o, n)
    BY <1>1 DEF Rows
  <2>2. QED
    BY <2>1, FS_Subset
<1>2. ASSUME NEW s \in Slots, CreateSecret(s), ~(secrets' \subseteq secrets)
      PROVE  /\ req'[s].pc = "audit" /\ \A x \in Slots \ {s} : req'[x] = req[x]
             /\ secrets' = secrets \cup {Created(s)}
             /\ Created(s).owner = s[1] /\ Created(s).name = req[s].name
             /\ s[1] \in Tenants => Rows(s[1], req[s].name) = {}
             /\ At(s, "create")
  <2>1. Writes(s, req[s].id, SecretTarget(s[1], req[s].name, req[s].id))
    BY <1>2, StepWrites
  <2>2. req'[s].pc = "audit" /\ \A x \in Slots \ {s} : req'[x] = req[x]
    BY <2>1, WritesAlone
  <2>3. secrets' = secrets \cup {Created(s)} /\ (s[1] \in Tenants => Rows(s[1], req[s].name) = {})
        /\ At(s, "create")
    BY <1>2 DEF CreateSecret, Created
  <2>4. Created(s).owner = s[1] /\ Created(s).name = req[s].name
    BY Zenon DEF Created
  <2>5. QED
    BY <2>2, <2>3, <2>4
<1>3. ASSUME NEW s \in Slots, CreateSecret(s), ~(secrets' \subseteq secrets)
      PROVE  IsFiniteSet(Rows(o, n)') /\
             \/ Rows(o, n)' = Rows(o, n)
             \/ /\ s[1] = o /\ At(s, "create") /\ req[s].name = n
                /\ req'[s].pc = "audit" /\ \A x \in Slots \ {s} : req'[x] = req[x]
                /\ o \in Tenants => Rows(o, n) = {}
                /\ Cardinality(Rows(o, n)') <= Cardinality(Rows(o, n)) + 1
  <2>1. PICK c : secrets' = secrets \cup {c} /\ c.owner = s[1] /\ c.name = req[s].name
    BY <1>2, <1>3, Zenon
  <2>2. CASE s[1] = o /\ req[s].name = n
    <3>1. Rows(o, n)' = Rows(o, n) \cup {c}
      BY <2>1, <2>2 DEF Rows
    <3>2. /\ IsFiniteSet(Rows(o, n)')
          /\ Cardinality(Rows(o, n)') \in {Cardinality(Rows(o, n)), Cardinality(Rows(o, n)) + 1}
      BY <3>1, FS_AddElement
    <3>3. Cardinality(Rows(o, n)) \in Nat
      BY FS_CardinalityType
    <3>4. Cardinality(Rows(o, n)') <= Cardinality(Rows(o, n)) + 1
      BY <3>2, <3>3
    <3>5. QED
      BY <1>2, <1>3, <2>2, <3>2, <3>4
  <2>3. CASE ~(s[1] = o /\ req[s].name = n)
    BY <2>1, <2>3 DEF Rows
  <2>4. QED
    BY <2>2, <2>3
<1>4. ASSUME NEW s \in Slots, UpdateSecret(s), ~(secrets' \subseteq secrets)
      PROVE  IsFiniteSet(Rows(o, n)') /\ Cardinality(Rows(o, n)') <= Cardinality(Rows(o, n))
             /\ (Rows(o, n) = {} => Rows(o, n)' = {})
  <2>. DEFINE found == {r \in Rows(s[1], req[s].name) : r.id = req[s].id}
              over == [r \in Rows(o, n) |-> IF r \in found THEN Overwritten(r, req[s]) ELSE r]
  <2>1. secrets' = (secrets \ found) \cup {Overwritten(r, req[s]) : r \in found}
    BY <1>4 DEF UpdateSecret
  <2>2. req[s] \in SecretReq
    BY <1>4, SecretReqType DEF UpdateSecret, At
  <2>3. \A r \in secrets : Overwritten(r, req[s]).owner = r.owner /\ Overwritten(r, req[s]).name = r.name
    BY <2>2, OverwrittenType, Zenon DEF TypeInv, SecretsOK
  <2>4. found \subseteq secrets
    BY DEF Rows
  <2>. HIDE DEF found
  <2>5. Rows(o, n)' = (Rows(o, n) \ found) \cup {Overwritten(r, req[s]) : r \in found \cap Rows(o, n)}
    BY <2>1, <2>3, <2>4 DEF Rows
  <2>6. over \in Surjection(Rows(o, n), Rows(o, n)')
    <3>1. \A r \in Rows(o, n) : over[r] \in Rows(o, n)'
      BY <2>5
    <3>2. \A y \in Rows(o, n)' : \E r \in Rows(o, n) : over[r] = y
      BY <2>5
    <3>3. QED
      BY <3>1, <3>2 DEF Surjection
  <2>7. Rows(o, n) = {} => Rows(o, n)' = {}
    BY <2>5
  <2>. HIDE DEF over
  <2>8. QED
    BY <2>6, <2>7, FS_Surjection
<1>5. secrets' \subseteq secrets \/ \E s \in Slots : CreateSecret(s) \/ UpdateSecret(s)
  BY Frames DEF DeleteSecret
<1>6. Cardinality(Rows(o, n)) \in Nat
  BY FS_CardinalityType
<1>7. CASE \E s \in Slots : CreateSecret(s) /\ ~(secrets' \subseteq secrets)
  <2>1. PICK s \in Slots : CreateSecret(s) /\ ~(secrets' \subseteq secrets)
    BY <1>7
  <2>2. CASE Rows(o, n)' = Rows(o, n)
    BY <1>6, <2>2
  <2>3. CASE ~(Rows(o, n)' = Rows(o, n))
    BY <1>3, <2>1, <2>3
  <2>4. QED
    BY <2>2, <2>3
<1>8. QED
  BY <1>1, <1>4, <1>5, <1>7

\* The lookup that lets a request of the platform create a row has found none.
LEMMA CreatorsStep ==
    ASSUME TypeInv, Next, NEW n \in Names
    PROVE  Creators(n)' \subseteq Creators(n) \/ (Rows(Platform, n) = {} /\ secrets' = secrets)
<1>1. ASSUME NEW s \in Creators(n)', s \notin Creators(n)
      PROVE  Rows(Platform, n) = {} /\ secrets' = secrets
  <2>1. s \in Slots /\ s[1] = Platform /\ req'[s].pc = "create" /\ req'[s].name = n
    BY <1>1 DEF Creators, At
  <2>2. req'[s] # req[s]
    BY <1>1, <2>1 DEF Creators, At
  <2>3. LookUpSecret(s) /\ req[s].name = n /\ Existing(s) = {}
    BY <2>1, <2>2, SecretArrives DEF SecretStep
  <2>4. QED
    BY <2>1, <2>3 DEF Existing, LookUpSecret
<1>2. QED
  BY <1>1

\* No step adds a row beyond the bound.
LEMMA FewRowsStep ==
    ASSUME TypeInv, FewRows, Next
    PROVE  FewRows'
<1>1. ASSUME NEW o \in Owners, NEW n \in Names
      PROVE  IsFiniteSet(Rows(o, n)')
  BY RowsStep DEF FewRows
<1>2. ASSUME NEW t \in Tenants, NEW n \in Names
      PROVE  Cardinality(Rows(t, n)') <= 1
  <2>1. t \in Owners /\ IsFiniteSet(Rows(t, n)) /\ Cardinality(Rows(t, n)) <= 1
    BY DEF Owners, FewRows
  <2>2. Cardinality(Rows(t, n)) \in Nat /\ Cardinality(Rows(t, n)') \in Nat
    BY <1>1, <2>1, FS_CardinalityType
  <2>3. Rows(t, n) = {} => Cardinality(Rows(t, n)) = 0
    BY FS_EmptySet
  <2>4. \/ Cardinality(Rows(t, n)') <= Cardinality(Rows(t, n))
        \/ Rows(t, n) = {} /\ Cardinality(Rows(t, n)') <= Cardinality(Rows(t, n)) + 1
    BY <2>1, RowsStep
  <2>5. QED
    BY <2>1, <2>2, <2>3, <2>4
<1>3. ASSUME NEW n \in Names
      PROVE  Cardinality(Rows(Platform, n)') + Cardinality(Creators(n)') <= Overlap[Platform]
  <2>1. Platform \in Owners /\ IsFiniteSet(Rows(Platform, n))
        /\ Cardinality(Rows(Platform, n)) + Cardinality(Creators(n)) <= Overlap[Platform]
    BY DEF Owners, FewRows
  <2>2. Cardinality(Rows(Platform, n)) \in Nat /\ Cardinality(Rows(Platform, n)') \in Nat
    BY <1>1, <2>1, FS_CardinalityType
  <2>3. CASE Rows(Platform, n) = {} /\ secrets' = secrets
    <3>1. Cardinality(Rows(Platform, n)') = 0
      BY <2>3, FS_EmptySet DEF Rows
    <3>2. QED
      BY <3>1, CreatorsFinite
  <2>4. CASE Creators(n)' \subseteq Creators(n)
             /\ Cardinality(Rows(Platform, n)') <= Cardinality(Rows(Platform, n))
    <3>1. Cardinality(Creators(n)') <= Cardinality(Creators(n))
      BY <2>4, CreatorsFinite, FS_Subset
    <3>2. QED
      BY <2>1, <2>2, <2>4, <3>1, CreatorsFinite
  <2>5. ASSUME NEW s \in Slots, s[1] = Platform, At(s, "create"), req[s].name = n,
               req'[s].pc = "audit", \A x \in Slots \ {s} : req'[x] = req[x],
               Cardinality(Rows(Platform, n)') <= Cardinality(Rows(Platform, n)) + 1
        PROVE  Cardinality(Rows(Platform, n)') + Cardinality(Creators(n)') <= Overlap[Platform]
    <3>1. s \in Creators(n) /\ Creators(n)' \subseteq Creators(n) \ {s}
      BY <2>5 DEF Creators, At
    <3>2. /\ IsFiniteSet(Creators(n) \ {s})
          /\ Cardinality(Creators(n) \ {s}) = Cardinality(Creators(n)) - 1
      BY <3>1, CreatorsFinite, FS_RemoveElement
    <3>3. Cardinality(Creators(n)') <= Cardinality(Creators(n)) - 1
      BY <3>1, <3>2, FS_Subset
    <3>4. QED
      BY <2>1, <2>2, <2>5, <3>3, CreatorsFinite
  <2>6. QED
    BY <2>1, <2>3, <2>4, <2>5, RowsStep, CreatorsStep
<1>4. QED
  BY <1>1, <1>2, <1>3 DEF FewRows

\* A tenant never has two secrets of a name, and the platform at most as many as
\* its requests overlap, however lookups, creates, updates and deletes interleave.
THEOREM SecretRowsAreBounded == Spec => []SecretRowsBounded
<1>1. Init => FewRows
  <2>. SUFFICES ASSUME Init PROVE FewRows
    OBVIOUS
  <2>1. ASSUME NEW o \in Owners, NEW n \in Names
        PROVE  \E r : Rows(o, n) \subseteq {r}
    <3>. DEFINE r0 == [owner |-> o, name |-> "litellm_key", id |-> 0, provider |-> "local", sealed |-> TRUE]
    <3>1. ASSUME NEW r \in secrets, r.owner = o
          PROVE  r = r0
      <4>1. /\ r.name = "litellm_key" /\ r.id = 0 /\ r.provider = "local" /\ r.sealed = TRUE
            /\ r = [owner |-> r.owner, name |-> r.name, id |-> r.id, provider |-> r.provider, sealed |-> r.sealed]
        BY DEF Init
      <4>2. QED
        BY <3>1, <4>1, Zenon
    <3>. HIDE DEF r0
    <3>2. QED
      BY <3>1 DEF Rows
  <2>2. ASSUME NEW o \in Owners, NEW n \in Names
        PROVE  IsFiniteSet(Rows(o, n)) /\ Cardinality(Rows(o, n)) <= 1
    <3>1. PICK r : Rows(o, n) \subseteq {r}
      BY <2>1
    <3>2. IsFiniteSet({r}) /\ Cardinality({r}) = 1
      BY FS_Singleton
    <3>3. Rows(o, n) \in SUBSET {r}
      BY <3>1
    <3>4. IsFiniteSet(Rows(o, n)) /\ Cardinality(Rows(o, n)) <= Cardinality({r})
      BY <3>2, <3>3, FS_Subset
    <3>5. QED
      BY <3>2, <3>4
  <2>3. ASSUME NEW n \in Names
        PROVE  Cardinality(Rows(Platform, n)) = 0
    <3>1. Rows(Platform, n) = {}
      BY TenantConfigAssumption DEF Init, Rows
    <3>2. QED
      BY <3>1, FS_EmptySet
  <2>4. QED
    BY <2>2, <2>3, CreatorsFinite DEF FewRows, Owners
<1>2. TypeInv /\ FewRows /\ [Next]_tvars => FewRows'
  <2>1. TypeInv /\ FewRows /\ UNCHANGED tvars => FewRows'
    BY DEF tvars, FewRows, Rows, Creators, At
  <2>2. QED
    BY <2>1, FewRowsStep
<1>3. FewRows => SecretRowsBounded
  <2>. SUFFICES ASSUME FewRows PROVE SecretRowsBounded
    OBVIOUS
  <2>1. ASSUME NEW n \in Names
        PROVE  Cardinality(Rows(Platform, n)) <= Overlap[Platform]
    <3>1. IsFiniteSet(Rows(Platform, n))
          /\ Cardinality(Rows(Platform, n)) + Cardinality(Creators(n)) <= Overlap[Platform]
      BY DEF FewRows, Owners
    <3>2. Cardinality(Rows(Platform, n)) \in Nat
      BY <3>1, FS_CardinalityType
    <3>3. QED
      BY <3>1, <3>2, CreatorsFinite
  <2>2. QED
    BY <2>1 DEF FewRows, SecretRowsBounded
<1>4. QED
  BY <1>1, <1>2, <1>3, Typed, PTL DEF Spec

-----------------------------------------------------------------------------
(***************************************************************************)
(* The trail.  A change and its entry are two statements, so that entries  *)
(* may come in another order than the changes; the requests are told apart *)
(* by their numbers.                                                       *)
(***************************************************************************)
\* The requests that are open have numbers of their own.
Numbered ==
    /\ \A s \in Slots : req[s] # Idle => Number(req[s]) <= requests
    /\ \A s, o \in Slots : req[s] # Idle /\ req[o] # Idle /\ Number(req[s]) = Number(req[o]) => s = o

\* A request keeps its number, and at most one comes in, with the next one.
LEMMA NumberKept ==
    ASSUME TypeInv, Next
    PROVE  /\ requests' \in {requests, requests + 1}
           /\ \/ \A o \in Slots : req'[o] # Idle => req[o] # Idle /\ Number(req'[o]) = Number(req[o])
              \/ \E s \in Slots :
                    /\ requests' = requests + 1 /\ Number(req'[s]) = requests'
                    /\ \A o \in Slots \ {s} :
                          req'[o] # Idle => req[o] # Idle /\ Number(req'[o]) = Number(req[o])
<1>1. ASSUME NEW s \in Slots, NEW b \in LlmConfigInput, PutLlm(s, b)
      PROVE  /\ requests' = requests + 1 /\ Number(req'[s]) = requests'
             /\ \A o \in Slots \ {s} :
                   req'[o] # Idle => req[o] # Idle /\ Number(req'[o]) = Number(req[o])
  <2>1. PICK q \in LlmReq : /\ Number(q) = requests' /\ requests' = requests + 1
                            /\ req' = [o \in Slots |-> IF o = s THEN q ELSE Disturbed(s)[o]]
    BY <1>1, EditOpens, ZenonT(60)
  <2>2. Number(req'[s]) = requests'
    BY <2>1
  <2>3. \A o \in Slots \ {s} : req'[o] = Disturbed(s)[o]
    BY <2>1
  <2>4. QED
    BY <2>1, <2>2, <2>3, DisturbedType
<1>2. ASSUME NEW s \in Slots, NEW q, q # Idle, Follows(s, Number(q)), req' = [req EXCEPT ![s] = q]
      PROVE  /\ requests' \in {requests, requests + 1}
             /\ \/ \A o \in Slots : req'[o] # Idle => req[o] # Idle /\ Number(req'[o]) = Number(req[o])
                \/ /\ requests' = requests + 1 /\ Number(req'[s]) = requests'
                   /\ \A o \in Slots \ {s} :
                         req'[o] # Idle => req[o] # Idle /\ Number(req'[o]) = Number(req[o])
  <2>1. req'[s] = q /\ \A o \in Slots \ {s} : req'[o] = req[o]
    BY <1>2 DEF TypeInv, ReqOK
  <2>2. CASE req[s] = Idle
    BY <1>2, <2>1, <2>2 DEF Follows
  <2>3. CASE req[s] # Idle
    BY <1>2, <2>1, <2>3 DEF Follows
  <2>4. QED
    BY <2>2, <2>3
<1>3. ASSUME NEW s \in Slots, req' = [req EXCEPT ![s] = Idle], requests' = requests
      PROVE  /\ requests' \in {requests, requests + 1}
             /\ \A o \in Slots : req'[o] # Idle => req[o] # Idle /\ Number(req'[o]) = Number(req[o])
  BY <1>3 DEF TypeInv, ReqOK
<1>4. ASSUME NEW s \in Slots, NEW id \in 1 .. MaxRequests, NEW x, Writes(s, id, x)
      PROVE  \E q : /\ q # Idle /\ Follows(s, Number(q))
                    /\ req' = [req EXCEPT ![s] = q]
  <2>. DEFINE q == [pc |-> "audit", id |-> id, target |-> x]
  <2>1. Number(q) = id /\ q # Idle
    BY IdlePc DEF Number
  <2>2. QED
    BY <1>4, <2>1 DEF Writes, Written
<1>5. ASSUME NEW s \in Slots, NEW q, Moved(s, q)
      PROVE  /\ req' = [req EXCEPT ![s] = q]
             /\ IF q = Idle THEN requests' = requests ELSE Follows(s, Number(q))
  BY <1>5, Zenon DEF Moved
<1>6. ASSUME NEW s \in Slots, RecordAudit(s)
      PROVE  req' = [req EXCEPT ![s] = Idle] /\ requests' = requests
  BY <1>6 DEF RecordAudit, Ended
<1>7. ASSUME ApiCrash
      PROVE  requests' = requests /\ \A o \in Slots : req'[o] = Idle
  BY <1>7 DEF ApiCrash
<1>8. QED
  BY <1>1, <1>2, <1>3, <1>4, <1>5, <1>6, <1>7, Moves

\* Every request is given a number of its own, and keeps it.
LEMMA NumberedStep ==
    ASSUME TypeInv, Numbered, Next
    PROVE  Numbered'
<1>1. requests \in Nat /\ \A s \in Slots : req[s] # Idle => Number(req[s]) \in Nat
  BY NumberType, TenantConfigAssumption DEF TypeInv, RestOK
<1>2. CASE \A o \in Slots : req'[o] # Idle => req[o] # Idle /\ Number(req'[o]) = Number(req[o])
  <2>1. requests' \in {requests, requests + 1}
    BY NumberKept
  <2>2. \A s \in Slots : req'[s] # Idle => Number(req'[s]) <= requests'
    BY <1>1, <1>2, <2>1 DEF Numbered
  <2>3. \A s, o \in Slots :
           req'[s] # Idle /\ req'[o] # Idle /\ Number(req'[s]) = Number(req'[o]) => s = o
    BY <1>2 DEF Numbered
  <2>4. QED
    BY <2>2, <2>3, Zenon DEF Numbered, Number
<1>3. ASSUME NEW s \in Slots, requests' = requests + 1, Number(req'[s]) = requests',
             \A o \in Slots \ {s} : req'[o] # Idle => req[o] # Idle /\ Number(req'[o]) = Number(req[o])
      PROVE  Numbered'
  <2>1. \A o \in Slots \ {s} : req'[o] # Idle => Number(req'[o]) <= requests
    BY <1>3 DEF Numbered
  <2>2. \A o \in Slots : req'[o] # Idle => Number(req'[o]) <= requests'
    BY <1>1, <1>3, <2>1
  <2>3. \A p, o \in Slots :
           req'[p] # Idle /\ req'[o] # Idle /\ Number(req'[p]) = Number(req'[o]) => p = o
    BY <1>1, <1>3, <2>1 DEF Numbered
  <2>4. QED
    BY <2>2, <2>3, Zenon DEF Numbered, Number
<1>4. QED
  BY <1>2, <1>3, NumberKept

\* A request that still has an entry to write, and what it is about.
Recorder(s, x) == At(s, "audit") /\ req[s].target = x

\* Entry i is the last about x, and of request number n.
LastBy(i, x, n) ==
    /\ i \in DOMAIN trail /\ trail[i].target = x /\ trail[i].by = n
    /\ \A j \in DOMAIN trail : j > i => trail[j].target # x

\* Whoever has still to record a thing that is not in doubt is the one that wrote
\* it, and when nobody has, its last entry is that one's.
Trailed ==
    \A x \in DOMAIN written \ doubtful :
        /\ \A s \in Slots : Recorder(s, x) => req[s].id = written[x]
        /\ ~Recording(x) => \E i \in DOMAIN trail : LastBy(i, x, written[x])

\* A user has one creator in the trail, or one that has still to record it.
Unique ==
    \A x : x[1] = "user" =>
        /\ \A i, j \in DOMAIN trail : trail[i].target = x /\ trail[j].target = x => i = j
        /\ \A s \in Slots, i \in DOMAIN trail : Recorder(s, x) => trail[i].target # x
        /\ \A s, o \in Slots : Recorder(s, x) /\ Recorder(o, x) => s = o

\* Which steps touch what is recorded, or still to be.
LEMMA AuditCases ==
    ASSUME TypeInv, Next
    PROVE  \/ UNCHANGED audit /\ \A o \in Slots : At(o, "audit") \/ At(o, "audit")' => req'[o] = req[o]
           \/ \E s \in Slots : RecordAudit(s)
           \/ ApiCrash
           \/ \E s \in Slots, id \in 1 .. MaxRequests : \E x : Writes(s, id, x)
<1>1. ASSUME NEW s \in Slots, NEW b \in LlmConfigInput, PutLlm(s, b)
      PROVE  UNCHANGED audit /\ \A o \in Slots : At(o, "audit") \/ At(o, "audit")' => req'[o] = req[o]
  <2>1. PICK q \in LlmReq : /\ q.pc = "update key" /\ req[s] = Idle /\ UNCHANGED audit
                            /\ req' = [o \in Slots |-> IF o = s THEN q ELSE Disturbed(s)[o]]
    BY <1>1, EditOpens
  <2>2. ASSUME NEW o \in Slots, At(o, "audit") \/ At(o, "audit")'
        PROVE  req'[o] = req[o]
    <3>1. o # s
      BY <2>1, <2>2, IdlePc DEF At
    <3>2. req'[o] = Disturbed(s)[o] /\ Disturbed(s)[o].pc = req[o].pc
      BY <2>1, <3>1, DisturbedType
    <3>3. ~Editing(o)
      BY <2>2, <3>2 DEF At, Editing
    <3>4. QED
      BY <3>2, <3>3, DisturbedType
  <2>3. QED
    BY <2>1, <2>2
<1>2. ASSUME NEW s \in Slots, NEW q, Moved(s, q)
      PROVE  UNCHANGED audit /\ \A o \in Slots : At(o, "audit") \/ At(o, "audit")' => req'[o] = req[o]
  BY <1>2 DEF Moved, At, TypeInv, ReqOK
<1>3. QED
  BY <1>1, <1>2, Moves DEF At

\* The entry that a request writes comes last.
LEMMA Appended ==
    ASSUME TypeInv, NEW s \in Slots, RecordAudit(s), trail' # trail
    PROVE  /\ Len(trail) \in Nat /\ DOMAIN trail = 1 .. Len(trail)
           /\ DOMAIN trail' = 1 .. (Len(trail) + 1)
           /\ \A i \in DOMAIN trail : trail'[i] = trail[i]
           /\ trail'[Len(trail) + 1].target = req[s].target
           /\ trail'[Len(trail) + 1].by = req[s].id
<1>. DEFINE e == [target |-> req[s].target, by |-> req[s].id]
            E == [target : DOMAIN written, by : Nat]
<1>1. req[s] \in AuditReq
  BY Kinds DEF RecordAudit, At, TypeInv, ReqOK
<1>2. e \in E /\ e.target = req[s].target /\ e.by = req[s].id
  BY <1>1, TenantConfigAssumption DEF AuditReq
<1>3. trail' = Append(trail, e)
  BY DEF RecordAudit
<1>4. trail \in Seq(E)
  BY DEF TypeInv, TrailOK
<1>. HIDE DEF e, E
<1>5. QED
  BY <1>2, <1>3, <1>4, AppendProperties, LenProperties

\* What recording does to the requests and to what is in doubt.
LEMMA Recorded ==
    ASSUME TypeInv, NEW s \in Slots, RecordAudit(s)
    PROVE  /\ written' = written
           /\ req'[s] = Idle /\ \A o \in Slots \ {s} : req'[o] = req[o]
           /\ \/ doubtful' = doubtful /\ trail' # trail
              \/ doubtful' = doubtful \cup {req[s].target} /\ trail' = trail
<1>. DEFINE e == [target |-> req[s].target, by |-> req[s].id]
            E == [target : DOMAIN written, by : Nat]
<1>1. req[s] \in AuditReq
  BY Kinds DEF RecordAudit, At, TypeInv, ReqOK
<1>2. e \in E
  BY <1>1, TenantConfigAssumption DEF AuditReq
<1>3. trail \in Seq(E)
  BY DEF TypeInv, TrailOK
<1>4. \/ trail' = Append(trail, e) /\ doubtful' = doubtful
      \/ doubtful' = doubtful \cup {req[s].target} /\ trail' = trail
  BY Zenon DEF RecordAudit
<1>. HIDE DEF e, E
<1>5. Append(trail, e) # trail
  <2>1. Len(Append(trail, e)) = Len(trail) + 1 /\ Len(trail) \in Nat
    BY <1>2, <1>3, AppendProperties, LenProperties
  <2>2. QED
    BY <2>1
<1>6. QED
  BY <1>4, <1>5 DEF RecordAudit, Ended, TypeInv, ReqOK

\* What is recorded, or still to be, has been written.
LEMMA RecordedIsWritten ==
    ASSUME TypeInv
    PROVE  /\ \A i \in DOMAIN trail : trail[i].target \in DOMAIN written
           /\ \A s \in Slots : \A x : Recorder(s, x) => x \in DOMAIN written /\ req[s].id = Number(req[s])
                                                    /\ req[s] # Idle
<1>1. \A i \in DOMAIN trail : trail[i].target \in DOMAIN written
  BY TypeParts DEF TypeOK
<1>2. ASSUME NEW s \in Slots, NEW x, Recorder(s, x)
      PROVE  x \in DOMAIN written /\ req[s].id = Number(req[s]) /\ req[s] # Idle
  <2>1. req[s] \in AuditReq /\ req[s].pc = "audit" /\ req[s].target = x
    BY <1>2, Kinds DEF Recorder, At, TypeInv, ReqOK
  <2>2. QED
    BY <2>1, IdlePc DEF AuditReq, Number
<1>3. QED
  BY <1>1, <1>2

\* A write adds its own entry to those that are still to come.
LEMMA WriteRecorders ==
    ASSUME TypeInv, NEW s \in Slots, NEW id, NEW x, Writes(s, id, x)
    PROVE  /\ trail' = trail
           /\ written' = [y \in DOMAIN written \cup {x} |-> IF y = x THEN id ELSE written[y]]
           /\ doubtful' = IF Recording(x) THEN doubtful \cup {x} ELSE doubtful \ {x}
           /\ \A o \in Slots \ {s} : \A y : Recorder(o, y)' <=> Recorder(o, y)
           /\ \A o \in Slots \ {s} : req'[o] = req[o]
           /\ \A y : Recorder(s, y)' <=> y = x
           /\ \A y : ~Recorder(s, y)
           /\ req'[s].id = id
<1>1. /\ req'[s].pc = "audit" /\ req'[s].id = id /\ req'[s].target = x
      /\ \A o \in Slots \ {s} : req'[o] = req[o]
  BY WritesAlone
<1>2. ~At(s, "audit")
  BY IdlePc DEF Writes, Follows, At
<1>3. /\ trail' = trail
      /\ written' = [y \in DOMAIN written \cup {x} |-> IF y = x THEN id ELSE written[y]]
      /\ doubtful' = IF Recording(x) THEN doubtful \cup {x} ELSE doubtful \ {x}
  BY DEF Writes, Written
<1>4. QED
  BY <1>1, <1>2, <1>3 DEF Recorder, At

\* Every step leaves what is not in doubt with its own entry, or its own recorder.
LEMMA TrailedStep ==
    ASSUME TypeInv, Numbered, Trailed, Next
    PROVE  Trailed'
<1>1. ASSUME UNCHANGED audit, \A o \in Slots : At(o, "audit") \/ At(o, "audit")' => req'[o] = req[o]
      PROVE  Trailed'
  <2>1. \A x : \A o \in Slots : /\ Recorder(o, x)' <=> Recorder(o, x)
                                /\ Recorder(o, x) => req'[o] = req[o]
    BY <1>1 DEF Recorder, At
  <2>2. \A x : Recording(x)' <=> Recording(x)
    BY <2>1 DEF Recording, Recorder
  <2>3. written' = written /\ doubtful' = doubtful /\ trail' = trail
    BY <1>1 DEF audit
  <2>4. QED
    BY <2>1, <2>2, <2>3 DEF Trailed, LastBy
<1>2. ASSUME NEW s \in Slots, RecordAudit(s), NEW x \in DOMAIN written' \ doubtful'
      PROVE  /\ \A o \in Slots : Recorder(o, x)' => req'[o].id = written'[x]
             /\ ~Recording(x)' => \E i \in DOMAIN trail' : LastBy(i, x, written[x])'
  <2>1. x \in DOMAIN written \ doubtful /\ written' = written
    BY <1>2, Recorded
  <2>2. \A o \in Slots : Recorder(o, x)' => o # s /\ Recorder(o, x) /\ req'[o] = req[o]
    BY <1>2, Recorded, IdlePc DEF Recorder, At
  <2>3. \A o \in Slots : Recorder(o, x)' => req'[o].id = written'[x]
    BY <2>1, <2>2 DEF Trailed
  <2>4. Recorder(s, req[s].target)
    BY <1>2 DEF RecordAudit, Recorder
  <2>5. CASE x = req[s].target
    <3>1. trail' # trail
      BY <1>2, <2>5, Recorded
    <3>2. req[s].id = written[x]
      BY <2>1, <2>4, <2>5 DEF Trailed
    <3>3. \E i \in DOMAIN trail' : LastBy(i, x, written[x])'
      <4>1. /\ Len(trail) \in Nat /\ DOMAIN trail' = 1 .. (Len(trail) + 1)
            /\ trail'[Len(trail) + 1].target = x /\ trail'[Len(trail) + 1].by = written'[x]
        BY <1>2, <2>1, <2>5, <3>1, <3>2, Appended
      <4>2. QED
        BY <4>1 DEF LastBy
    <3>4. QED
      BY <2>3, <3>3
  <2>6. CASE x # req[s].target
    <3>1. ASSUME ~Recording(x)'
          PROVE  ~Recording(x)
      <4>1. ASSUME NEW o \in Slots, Recorder(o, x)
            PROVE  Recorder(o, x)'
        BY <1>2, <2>6, <4>1, Recorded DEF Recorder, At
      <4>2. QED
        BY <3>1, <4>1 DEF Recording, Recorder
    <3>2. ASSUME NEW i \in DOMAIN trail, LastBy(i, x, written[x])
          PROVE  i \in DOMAIN trail' /\ LastBy(i, x, written[x])'
      <4>1. CASE trail' = trail
        BY <2>1, <3>2, <4>1 DEF LastBy
      <4>2. CASE trail' # trail
        <5>1. /\ Len(trail) \in Nat /\ DOMAIN trail = 1 .. Len(trail)
              /\ DOMAIN trail' = 1 .. (Len(trail) + 1)
              /\ \A j \in DOMAIN trail : trail'[j] = trail[j]
              /\ trail'[Len(trail) + 1].target # x
          BY <1>2, <2>6, <4>2, Appended
        <5>2. QED
          BY <2>1, <3>2, <5>1 DEF LastBy
      <4>3. QED
        BY <4>1, <4>2
    <3>3. QED
      BY <2>1, <2>3, <3>1, <3>2 DEF Trailed
  <2>7. QED
    BY <2>5, <2>6
<1>3. ASSUME ApiCrash, NEW x \in DOMAIN written' \ doubtful'
      PROVE  /\ \A o \in Slots : ~Recorder(o, x)'
             /\ \E i \in DOMAIN trail' : LastBy(i, x, written[x])'
  <2>1. /\ written' = written /\ trail' = trail /\ doubtful \subseteq doubtful'
        /\ \A o \in Slots : req'[o] = Idle
        /\ \A o \in Slots : At(o, "audit") => req[o].target \in doubtful'
    BY <1>3 DEF ApiCrash
  <2>2. \A o \in Slots : ~Recorder(o, x)'
    BY <2>1, IdlePc DEF Recorder, At
  <2>3. ~Recording(x)
    BY <2>1 DEF Recording
  <2>4. \E i \in DOMAIN trail : LastBy(i, x, written[x])
    BY <2>1, <2>3 DEF Trailed
  <2>5. QED
    BY <2>1, <2>2, <2>4 DEF LastBy
<1>4. ASSUME NEW s \in Slots, NEW id \in 1 .. MaxRequests, NEW y, Writes(s, id, y),
             NEW x \in DOMAIN written' \ doubtful'
      PROVE  /\ \A o \in Slots : Recorder(o, x)' => req'[o].id = written'[x]
             /\ ~Recording(x)' => \E i \in DOMAIN trail' : LastBy(i, x, written[x])'
  <2>1. \A z : Recording(z) <=> \E o \in Slots : Recorder(o, z)
    BY DEF Recording, Recorder
  <2>2. \A z : Recording(z)' <=> \E o \in Slots : Recorder(o, z)'
    BY DEF Recording, Recorder
  <2>3. /\ trail' = trail
        /\ written' = [z \in DOMAIN written \cup {y} |-> IF z = y THEN id ELSE written[z]]
        /\ doubtful' = IF Recording(y) THEN doubtful \cup {y} ELSE doubtful \ {y}
        /\ req'[s].id = id
    BY <1>4, WritesAlone, ZenonT(60) DEF Writes, Written
  <2>4. /\ \A o \in Slots \ {s} : \A z : Recorder(o, z)' <=> Recorder(o, z)
        /\ \A o \in Slots \ {s} : req'[o] = req[o]
        /\ \A z : Recorder(s, z)' <=> z = y
        /\ \A z : ~Recorder(s, z)
    BY <1>4, WriteRecorders, Zenon
  <2>5. CASE x = y
    <3>1. ~Recording(y) /\ written'[x] = id
      BY <1>4, <2>5, <2>3
    <3>2. \A o \in Slots \ {s} : ~Recorder(o, x)'
      BY <2>1, <2>5, <3>1, <2>4
    <3>3. Recording(x)' /\ req'[s].id = id
      BY <2>2, <2>5, <2>4, <2>3
    <3>4. QED
      BY <3>1, <3>2, <3>3
  <2>6. CASE x # y
    <3>1. x \in DOMAIN written \ doubtful /\ written'[x] = written[x] /\ trail' = trail
      BY <1>4, <2>6, <2>3
    <3>2. \A o \in Slots : /\ Recorder(o, x)' <=> Recorder(o, x)
                           /\ Recorder(o, x) => req'[o] = req[o]
      BY <2>6, <2>4
    <3>3. \A o \in Slots : Recorder(o, x)' => req'[o].id = written'[x]
      BY <3>1, <3>2 DEF Trailed
    <3>4. ~Recording(x)' => \E i \in DOMAIN trail : LastBy(i, x, written[x])
      BY <2>1, <2>2, <3>1, <3>2 DEF Trailed
    <3>5. QED
      BY <3>1, <3>3, <3>4 DEF LastBy
  <2>7. QED
    BY <2>5, <2>6
<1>5. QED
  <2>1. CASE \E s \in Slots : RecordAudit(s)
    BY <1>2, <2>1 DEF Trailed, Recorder, At
  <2>2. CASE ApiCrash
    BY <1>3, <2>2 DEF Trailed
  <2>3. CASE \E s \in Slots, id \in 1 .. MaxRequests : \E x : Writes(s, id, x)
    BY <1>4, <2>3 DEF Trailed
  <2>4. QED
    BY <1>1, <2>1, <2>2, <2>3, AuditCases

\* A creation of a user finds no other in the trail, or on its way to it.
LEMMA UniqueStep ==
    ASSUME TypeInv, Unique, Next
    PROVE  Unique'
<1>1. ASSUME NEW x, x[1] = "user", trail' = trail,
             \A o \in Slots : Recorder(o, x)' => Recorder(o, x)
      PROVE  /\ \A i, j \in DOMAIN trail' : trail'[i].target = x /\ trail'[j].target = x => i = j
             /\ \A s \in Slots, i \in DOMAIN trail' : Recorder(s, x)' => trail'[i].target # x
             /\ \A s, o \in Slots : Recorder(s, x)' /\ Recorder(o, x)' => s = o
  BY <1>1 DEF Unique
<1>2. ASSUME NEW s \in Slots, RecordAudit(s), trail' # trail, NEW x, x[1] = "user"
      PROVE  /\ \A i, j \in DOMAIN trail' : trail'[i].target = x /\ trail'[j].target = x => i = j
             /\ \A o \in Slots, i \in DOMAIN trail' : Recorder(o, x)' => trail'[i].target # x
             /\ \A p, o \in Slots : Recorder(p, x)' /\ Recorder(o, x)' => p = o
  <2>1. \A o \in Slots : Recorder(o, x)' => o # s /\ Recorder(o, x)
    BY <1>2, Recorded, IdlePc DEF Recorder, At
  <2>2. Recorder(s, req[s].target)
    BY <1>2 DEF RecordAudit, Recorder
  <2>3. /\ Len(trail) \in Nat /\ DOMAIN trail = 1 .. Len(trail)
        /\ DOMAIN trail' = 1 .. (Len(trail) + 1)
        /\ \A j \in DOMAIN trail : trail'[j] = trail[j]
        /\ trail'[Len(trail) + 1].target = req[s].target
    BY <1>2, Appended
  <2>4. CASE x = req[s].target
    <3>1. Recorder(s, x)
      BY <2>2, <2>4
    <3>2. (\A i \in DOMAIN trail : trail[i].target # x) /\ \A o \in Slots : Recorder(o, x) => o = s
      BY <1>2, <3>1 DEF Unique
    <3>3. \A o \in Slots : ~Recorder(o, x)'
      BY <2>1, <3>2
    <3>4. \A i \in DOMAIN trail' : trail'[i].target = x => i = Len(trail) + 1
      BY <2>3, <3>2
    <3>5. QED
      BY <3>3, <3>4
  <2>5. CASE x # req[s].target
    <3>1. \A i \in DOMAIN trail' : trail'[i].target = x => i \in DOMAIN trail /\ trail[i].target = x
      BY <2>3, <2>5
    <3>2. QED
      BY <1>2, <2>1, <3>1 DEF Unique
  <2>6. QED
    BY <2>4, <2>5
<1>3. ASSUME NEW s \in Slots, NEW id, NEW y, Writes(s, id, y), NEW x, x[1] = "user"
      PROVE  /\ \A i, j \in DOMAIN trail' : trail'[i].target = x /\ trail'[j].target = x => i = j
             /\ \A o \in Slots, i \in DOMAIN trail' : Recorder(o, x)' => trail'[i].target # x
             /\ \A p, o \in Slots : Recorder(p, x)' /\ Recorder(o, x)' => p = o
  <2>1. CASE x = y
    <3>1. y \notin DOMAIN written
      BY <1>3, <2>1 DEF Writes
    <3>2. (\A i \in DOMAIN trail : trail[i].target # x) /\ \A o \in Slots : ~Recorder(o, x)
      BY <2>1, <3>1, RecordedIsWritten
    <3>3. \A o \in Slots : Recorder(o, x)' => o = s
      BY <1>3, <3>2, WriteRecorders
    <3>4. QED
      BY <1>3, <3>2, <3>3, WriteRecorders
  <2>2. CASE x # y
    <3>1. trail' = trail /\ \A o \in Slots : Recorder(o, x)' => Recorder(o, x)
      BY <1>3, <2>2, WriteRecorders
    <3>2. QED
      BY <1>1, <1>3, <3>1
  <2>3. QED
    BY <2>1, <2>2
<1>4. ASSUME NEW x, x[1] = "user"
      PROVE  /\ \A i, j \in DOMAIN trail' : trail'[i].target = x /\ trail'[j].target = x => i = j
             /\ \A o \in Slots, i \in DOMAIN trail' : Recorder(o, x)' => trail'[i].target # x
             /\ \A p, o \in Slots : Recorder(p, x)' /\ Recorder(o, x)' => p = o
  <2>1. CASE UNCHANGED audit /\ \A o \in Slots : At(o, "audit") \/ At(o, "audit")' => req'[o] = req[o]
    <3>1. trail' = trail /\ \A o \in Slots : Recorder(o, x)' => Recorder(o, x)
      BY <2>1 DEF audit, Recorder, At
    <3>2. QED
      BY <1>1, <1>4, <3>1
  <2>2. ASSUME NEW s \in Slots, RecordAudit(s), trail' = trail
        PROVE  \A o \in Slots : Recorder(o, x)' => Recorder(o, x)
    BY <2>2, Recorded, IdlePc DEF Recorder, At
  <2>3. CASE \E s \in Slots : RecordAudit(s)
    BY <1>1, <1>2, <1>4, <2>2, <2>3
  <2>4. CASE ApiCrash
    <3>1. trail' = trail /\ \A o \in Slots : ~Recorder(o, x)'
      BY <2>4, IdlePc DEF ApiCrash, Recorder, At
    <3>2. QED
      BY <1>1, <1>4, <3>1
  <2>5. QED
    BY <1>3, <1>4, <2>1, <2>3, <2>4, AuditCases
<1>5. QED
  BY <1>4 DEF Unique

\* No requests, and nothing recorded.
LEMMA TrailInit == Init => Numbered /\ Trailed /\ Unique
<1>. SUFFICES ASSUME Init PROVE Numbered /\ Trailed /\ Unique
  OBVIOUS
<1>1. \A s \in Slots : req[s] = Idle
  BY DEF Init
<1>2. DOMAIN written = {} /\ DOMAIN trail = {}
  BY DEF Init
<1>3. QED
  BY <1>1, <1>2, IdlePc DEF Numbered, Trailed, Unique, Recorder, At

\* A step, also one that changes nothing, keeps the trail as the theorems need it.
LEMMA TrailInvStep ==
    TypeInv /\ (Numbered /\ Trailed /\ Unique) /\ [Next]_tvars => (Numbered /\ Trailed /\ Unique)'
<1>1. ASSUME TypeInv, Numbered, Trailed, Unique, UNCHANGED tvars
      PROVE  (Numbered /\ Trailed /\ Unique)'
  <2>1. req' = req /\ requests' = requests /\ written' = written /\ trail' = trail /\ doubtful' = doubtful
    BY <1>1 DEF tvars, audit
  <2>2. Numbered'
    BY <1>1, <2>1 DEF Numbered, Number
  <2>3. Trailed'
    BY <1>1, <2>1 DEF Trailed, Recording, LastBy, Recorder, At
  <2>4. Unique'
    BY <1>1, <2>1 DEF Unique, Recorder, At
  <2>5. QED
    BY <2>2, <2>3, <2>4
<1>2. QED
  BY <1>1, NumberedStep, TrailedStep, UniqueStep

\* The newest audit entry of a thing is that of the request whose write it holds,
\* whatever interleaves, unless two writes of it overlapped, the process died or
\* the entry failed since the last write on its own.
THEOREM TrailNamesItsWriter == Spec => []TrailNamesWriter
<1>1. TypeInv /\ Trailed => TrailNamesWriter
  <2>. SUFFICES ASSUME TypeInv, Trailed, NEW x \in DOMAIN written \ doubtful, ~Recording(x)
                PROVE  LET i == SelectLastInSeq(trail, LAMBDA a : a.target = x)
                       IN  i # 0 /\ trail[i].by = written[x]
    BY DEF TrailNamesWriter
  <2>1. PICK i \in DOMAIN trail : LastBy(i, x, written[x])
    BY DEF Trailed
  <2>2. SelectLastInSeq(trail, LAMBDA a : a.target = x) = i
    <3>1. DOMAIN trail = 1 .. Len(trail) /\ Len(trail) \in Nat
      BY LenProperties DEF TypeInv, TrailOK
    <3>2. QED
      BY <2>1, <3>1 DEF SelectLastInSeq, Max, LastBy
  <2>3. i # 0
    BY LenProperties DEF TypeInv, TrailOK
  <2>4. QED
    BY <2>1, <2>2, <2>3 DEF LastBy
<1>2. QED
  BY <1>1, TrailInit, TrailInvStep, Typed, PTL DEF Spec

\* However the creations of a user interleave, the trail names one creator of it:
\* create throws for an email that is taken by then.
THEOREM CreatorIsOne == Spec => []OneCreator
<1>1. Unique => OneCreator
  <2>. SUFFICES ASSUME Unique, NEW i \in DOMAIN trail, NEW j \in DOMAIN trail,
                       trail[i].target = trail[j].target, trail[i].target[1] = "user"
                PROVE  i = j
    BY DEF OneCreator
  <2>1. QED
    BY DEF Unique
<1>2. QED
  BY <1>1, TrailInit, TrailInvStep, Typed, PTL DEF Spec

-----------------------------------------------------------------------------
(***************************************************************************)
(* The limits of a tenant, in its row and at the gateway.  An edit updates *)
(* the key, then writes the row with what it read of it at its start.      *)
(***************************************************************************)
Match(t, f) ==
    \/ key[t][f] = row[t][f]
    \/ key[t][f] = Unset /\ row[t][f] = Blank[f]

\* The two agree on a limit, or it is torn, or an edit that names it has still to
\* write the row.
Agreed ==
    \A t \in Tenants, f \in Limits :
        \/ Match(t, f)
        \/ <<t, f>> \in torn
        \/ \E s \in Slots : s[1] = t /\ At(s, "write row") /\ req[s].body[f] # Absent

\* An edit that has been alone is the only one of its tenant; what it read is what
\* the row says, or torn; and the key has what it will write.
Edits ==
    /\ \A s, o \in Slots : s # o /\ s[1] = o[1] /\ Editing(s) /\ Editing(o) => req[s].alone = FALSE
    /\ \A s \in Slots, f \in Limits :
          Editing(s) => req[s].current[f] = row[s[1]][f] \/ <<s[1], f>> \in torn
    /\ \A s \in Slots, f \in Limits :
          At(s, "write row") /\ req[s].alone = TRUE /\ req[s].body[f] # Absent =>
              key[s[1]][f] = req[s].body[f]

\* The key already holds the limits an edit without rivals is about to write.
LEMMA LoneEdit ==
    ASSUME Edits, NEW x \in Slots, NEW f \in Limits,
           At(x, "write row"), req[x].alone = TRUE, req[x].body[f] # Absent
    PROVE  key[x[1]][f] = req[x].body[f]
BY DEF Edits

\* Which steps touch the limits, or an edit of them.
LEMMA EditCases ==
    ASSUME TypeInv, Next
    PROVE  \/ \E s \in Slots, b \in LlmConfigInput : PutLlm(s, b)
           \/ \E s \in Slots : UpdateVirtualKey(s) \/ GatewayThrows(s) \/ WriteRow(s)
           \/ ApiCrash
           \/ UNCHANGED llm /\ \A o \in Slots : Editing(o) \/ Editing(o)' => req'[o] = req[o]
<1>. DEFINE Quiet == UNCHANGED llm /\ \A o \in Slots : Editing(o) \/ Editing(o)' => req'[o] = req[o]
<1>1. ASSUME UNCHANGED llm, NEW s \in Slots, NEW q, ~Editing(s),
             q.pc \notin {"update key", "write row"}, req' = [req EXCEPT ![s] = q]
      PROVE  Quiet
  BY <1>1 DEF Editing, TypeInv, ReqOK
<1>2. ASSUME UNCHANGED llm, NEW s \in Slots, NEW id, NEW x, Writes(s, id, x), ~Editing(s)
      PROVE  Quiet
  <2>1. req'[s].pc = "audit" /\ \A o \in Slots \ {s} : req'[o] = req[o]
    BY <1>2, WritesAlone
  <2>2. QED
    BY <1>2, <2>1 DEF Editing
<1>3. ASSUME UNCHANGED llm, NEW s \in Slots, Done(s) \/ RecordAudit(s), ~Editing(s)
      PROVE  Quiet
  BY <1>1, <1>3, IdlePc DEF Done, RecordAudit, Ended
<1>4. ASSUME NEW s \in Slots, Step(s), ~UpdateVirtualKey(s), ~GatewayThrows(s), ~WriteRow(s)
      PROVE  Quiet
  <2>1. CASE LookUpSecret(s)
    <3>1. PICK q \in Bodies : Moved(s, q) /\ q \in SecretReq
      BY <2>1, SecretFound
    <3>2. ~Editing(s) /\ UNCHANGED llm
      BY <2>1 DEF LookUpSecret, At, Editing
    <3>3. QED
      BY <1>1, <3>1, <3>2 DEF Moved, SecretReq
  <2>2. CASE CreateSecret(s)
    <3>1. ~Editing(s) /\ UNCHANGED llm
      BY <2>2 DEF CreateSecret, At, Editing
    <3>2. QED
      BY <1>2, <1>3, <2>2, <3>1, StepWrites
  <2>3. CASE UpdateSecret(s)
    <3>1. ~Editing(s) /\ UNCHANGED llm
      BY <2>3 DEF UpdateSecret, At, Editing
    <3>2. QED
      BY <1>2, <1>3, <2>3, <3>1, StepWrites
  <2>4. CASE UpsertAccess(s)
    <3>1. ~Editing(s) /\ UNCHANGED llm
      BY <2>4 DEF UpsertAccess, At, Editing
    <3>2. QED
      BY <1>2, <2>4, <3>1, StepWrites
  <2>5. CASE CreateUser(s)
    <3>1. ~Editing(s) /\ UNCHANGED llm
      BY <2>5 DEF CreateUser, At, Editing
    <3>2. QED
      BY <1>2, <1>3, <2>5, <3>1, StepWrites
  <2>6. CASE RecordAudit(s)
    <3>1. ~Editing(s) /\ UNCHANGED llm
      BY <2>6 DEF RecordAudit, At, Editing
    <3>2. QED
      BY <1>3, <2>6, <3>1
  <2>7. QED
    BY <1>4, <2>1, <2>2, <2>3, <2>4, <2>5, <2>6 DEF Step
<1>5. ASSUME NEW s \in Slots, Request(s), ~\E b \in LlmConfigInput : PutLlm(s, b)
      PROVE  Quiet
  <2>1. CASE \E given \in {"named", Absent} : PutMemory(s, given)
    BY <2>1 DEF PutMemory, Editing
  <2>2. ASSUME NEW n \in Names, NEW p \in Providers, NEW value \in BOOLEAN, PostSecret(s, n, p, value)
        PROVE  Quiet
    <3>1. PICK q \in Bodies : Moved(s, q) /\ q.pc = "look up"
      BY <2>2, SecretOpens
    <3>2. ~Editing(s) /\ UNCHANGED llm
      BY <2>2, IdlePc DEF PostSecret, Opened, Editing
    <3>3. QED
      BY <1>1, <3>1, <3>2 DEF Moved
  <2>3. ASSUME NEW m \in Servers, NEW enabled \in BOOLEAN, NEW approved \in {"yes", "no", Absent},
               PutAccess(s, m, enabled, approved)
        PROVE  Quiet
    <3>1. PICK q \in Bodies : Moved(s, q) /\ q.pc = "upsert"
      BY <2>3, AccessOpens
    <3>2. ~Editing(s) /\ UNCHANGED llm
      BY <2>3, IdlePc DEF PutAccess, Opened, Editing
    <3>3. QED
      BY <1>1, <3>1, <3>2 DEF Moved
  <2>4. ASSUME NEW r \in secrets, DeleteSecret(s, r)
        PROVE  Quiet
    <3>1. ~Editing(s) /\ UNCHANGED llm
      BY <2>4, IdlePc DEF DeleteSecret, Editing
    <3>2. QED
      BY <1>2, <2>4, <3>1, RequestWrites
  <2>5. CASE PutSetting(s)
    <3>1. ~Editing(s) /\ UNCHANGED llm
      BY <2>5, IdlePc DEF PutSetting, Editing
    <3>2. QED
      BY <1>2, <2>5, <3>1, RequestWrites
  <2>6. ASSUME NEW e \in Emails, PostUser(s, e)
        PROVE  Quiet
    <3>1. PICK q \in Bodies : Moved(s, q) /\ q.pc = "create user"
      BY <2>6, UserOpens
    <3>2. ~Editing(s) /\ UNCHANGED llm
      BY <2>6, IdlePc DEF PostUser, Opened, Editing
    <3>3. QED
      BY <1>1, <3>1, <3>2 DEF Moved
  <2>7. QED
    BY <1>5, <2>1, <2>2, <2>3, <2>4, <2>5, <2>6 DEF Request
<1>6. ASSUME NEW m \in Servers, NEW needs \in BOOLEAN, PatchServer(m, needs)
      PROVE  Quiet
  BY <1>6 DEF PatchServer, Editing
<1>7. QED
  BY <1>4, <1>5, <1>6 DEF Next

\* What an edit knows of itself.
LEMMA EditKnows ==
    ASSUME TypeInv, NEW s \in Slots, Editing(s)
    PROVE  /\ s[1] \in Tenants /\ req[s].alone \in BOOLEAN
           /\ key[s[1]] \in [Limits -> Amounts \cup {Unset}] /\ row[s[1]] \in LlmRow
           /\ \A t \in Tenants, f \in Limits : <<t, f>> \in Named(s) <=> t = s[1] /\ req[s].body[f] # Absent
<1>1. s[1] \in Tenants /\ req[s].alone \in BOOLEAN
  BY EditType, NamedType DEF LlmReq
<1>2. key[s[1]] \in [Limits -> Amounts \cup {Unset}] /\ row[s[1]] \in LlmRow
  BY <1>1 DEF TypeInv, LlmOK
<1>3. \A t \in Tenants, f \in Limits : <<t, f>> \in Named(s) <=> t = s[1] /\ req[s].body[f] # Absent
  BY DEF Named
<1>4. QED
  BY <1>1, <1>2, <1>3

\* A new edit disturbs those that are open, and reads the row.
LEMMA EditsOpen ==
    ASSUME TypeInv, Edits, Agreed, NEW s \in Slots, NEW b \in LlmConfigInput, PutLlm(s, b)
    PROVE  Edits' /\ Agreed'
<1>1. PICK q \in LlmReq : /\ q.pc = "update key" /\ q.current = row[s[1]] /\ (q.alone <=> Alone(s))
                          /\ req' = [o \in Slots |-> IF o = s THEN q ELSE Disturbed(s)[o]]
                          /\ req[s] = Idle /\ UNCHANGED llm
  BY EditOpens
<1>2. ASSUME NEW o \in Slots \ {s}
      PROVE  /\ req'[o].pc = req[o].pc /\ (Editing(o)' <=> Editing(o))
             /\ Editing(o) => /\ req'[o].body = req[o].body /\ req'[o].current = req[o].current
                              /\ req'[o].alone \in BOOLEAN /\ req[o].alone \in BOOLEAN
                              /\ req'[o].alone = TRUE => req[o].alone = TRUE /\ o[1] # s[1]
  <2>1. req'[o] = Disturbed(s)[o]
    BY <1>1
  <2>2. /\ req'[o].pc = req[o].pc
        /\ Editing(o) => /\ req'[o].body = req[o].body /\ req'[o].current = req[o].current
                         /\ req'[o].alone => req[o].alone /\ o[1] # s[1]
    BY <2>1, DisturbedType
  <2>3. Editing(o)' <=> Editing(o)
    BY <2>2 DEF Editing
  <2>4. Editing(o) => req[o].alone \in BOOLEAN
    BY EditKnows
  <2>5. Editing(o) => req'[o].alone \in BOOLEAN
    BY <2>1, DisturbedType
  <2>6. QED
    BY <2>2, <2>3, <2>4, <2>5
<1>3. req'[s] = q /\ q.alone \in BOOLEAN
  BY <1>1 DEF LlmReq
<1>4. row' = row /\ key' = key /\ torn' = torn
  BY <1>1 DEF llm
<1>5. ~Editing(s)
  BY <1>1, IdlePc DEF Editing
<1>6. ASSUME NEW x \in Slots, NEW o \in Slots, x # o, x[1] = o[1], Editing(x)', Editing(o)'
      PROVE  req'[x].alone = FALSE
  <2>1. CASE x = s
    <3>1. Editing(o) /\ o[1] = s[1]
      BY <1>2, <1>6, <2>1
    <3>2. ~Alone(s)
      BY <1>6, <2>1, <3>1 DEF Alone
    <3>3. QED
      BY <1>1, <1>3, <2>1, <3>2
  <2>2. CASE x # s
    <3>1. Editing(x) /\ req'[x].alone \in BOOLEAN
      BY <1>2, <1>6, <2>2
    <3>2. CASE o = s
      BY <1>2, <1>6, <2>2, <3>1, <3>2
    <3>3. CASE o # s
      <4>1. req[x].alone = FALSE
        BY <1>2, <1>6, <3>1, <3>3 DEF Edits
      <4>2. QED
        BY <1>2, <2>2, <3>1, <4>1
    <3>4. QED
      BY <3>2, <3>3
  <2>3. QED
    BY <2>1, <2>2
<1>7. ASSUME NEW x \in Slots, NEW f \in Limits, Editing(x)'
      PROVE  req'[x].current[f] = row'[x[1]][f] \/ <<x[1], f>> \in torn'
  BY <1>1, <1>2, <1>3, <1>4, <1>7 DEF Edits
<1>8. ASSUME NEW x \in Slots, NEW f \in Limits, At(x, "write row")', req'[x].alone = TRUE,
             req'[x].body[f] # Absent
      PROVE  key'[x[1]][f] = req'[x].body[f]
  <2>1. x # s
    BY <1>1, <1>3, <1>8 DEF At
  <2>2. At(x, "write row") /\ Editing(x)
    BY <1>2, <1>8, <2>1 DEF At, Editing
  <2>3. req'[x].body = req[x].body /\ req[x].alone = TRUE
    BY <1>2, <1>8, <2>1, <2>2
  <2>4. QED
    BY <1>4, <1>8, <2>2, <2>3, ZenonT(60) DEF Edits
<1>9. ASSUME NEW x \in Slots, NEW f \in Limits, At(x, "write row"), req[x].body[f] # Absent
      PROVE  At(x, "write row")' /\ req'[x].body[f] # Absent
  BY <1>2, <1>5, <1>9 DEF At, Editing
<1>10. Edits'
  BY <1>6, <1>7, <1>8 DEF Edits, At
<1>11. Agreed'
  <2>1. ASSUME NEW t \in Tenants, NEW f \in Limits, ~Match(t, f)', <<t, f>> \notin torn'
        PROVE  \E x \in Slots : x[1] = t /\ At(x, "write row")' /\ req'[x].body[f] # Absent
    <3>1. ~Match(t, f) /\ <<t, f>> \notin torn
      BY <1>4, <2>1 DEF Match
    <3>2. PICK x \in Slots : x[1] = t /\ At(x, "write row") /\ req[x].body[f] # Absent
      BY <3>1 DEF Agreed
    <3>3. QED
      BY <1>9, <3>2
  <2>2. QED
    BY <2>1 DEF Agreed, Match, At
<1>12. QED
  BY <1>10, <1>11

\* The key is updated: the row lacks what the body names until it is written.
LEMMA EditsKey ==
    ASSUME TypeInv, Edits, Agreed, NEW s \in Slots, UpdateVirtualKey(s)
    PROVE  Edits' /\ Agreed'
<1>1. Editing(s) /\ req[s] \in LlmReq
  BY Kinds DEF UpdateVirtualKey, At, Editing, TypeInv, ReqOK
<1>2. /\ req'[s].pc = "write row" /\ req'[s].body = req[s].body
      /\ req'[s].current = req[s].current /\ req'[s].alone = req[s].alone
      /\ \A o \in Slots \ {s} : req'[o] = req[o]
  BY <1>1 DEF UpdateVirtualKey, TypeInv, ReqOK, LlmReq
<1>3. row' = row /\ torn' = torn /\ s[1] \in Tenants
  BY <1>1, EditKnows DEF UpdateVirtualKey
<1>4. \A t \in Tenants, f \in Limits :
         key'[t][f] = IF t = s[1] /\ req[s].body[f] # Absent THEN req[s].body[f] ELSE key[t][f]
  BY <1>1, EditKnows DEF UpdateVirtualKey, UpdatedKey, TypeInv, LlmOK
<1>5. \A o \in Slots : Editing(o)' <=> Editing(o)
  BY <1>1, <1>2 DEF Editing
<1>6. \A o \in Slots : req'[o].body = req[o].body /\ req'[o].current = req[o].current
                       /\ req'[o].alone = req[o].alone
  BY <1>2
<1>7. ASSUME NEW x \in Slots, NEW f \in Limits, At(x, "write row")', req'[x].alone = TRUE,
             req'[x].body[f] # Absent
      PROVE  key'[x[1]][f] = req'[x].body[f]
  <2>1. CASE x = s
    BY <1>2, <1>3, <1>4, <1>7, <2>1, ZenonT(60)
  <2>2. CASE x # s
    <3>1. At(x, "write row") /\ Editing(x) /\ req[x].alone = TRUE /\ req[x].body[f] # Absent
      BY <1>2, <1>7, <2>2 DEF At, Editing
    <3>2. x[1] # s[1]
      BY <1>1, <2>2, <3>1 DEF Edits
    <3>3. x[1] \in Tenants
      BY <3>1, EditKnows
    <3>4. key'[x[1]][f] = key[x[1]][f]
      BY <1>4, <3>2, <3>3
    <3>5. key[x[1]][f] = req[x].body[f]
      BY <3>1, LoneEdit
    <3>6. QED
      BY <1>6, <3>4, <3>5, ZenonT(60)
  <2>3. QED
    BY <2>1, <2>2
<1>8. Edits'
  <2>1. \A x, o \in Slots : x # o /\ x[1] = o[1] /\ Editing(x)' /\ Editing(o)' => req'[x].alone = FALSE
    BY <1>5, <1>6 DEF Edits
  <2>2. \A x \in Slots, f \in Limits :
           Editing(x)' => req'[x].current[f] = row'[x[1]][f] \/ <<x[1], f>> \in torn'
    BY <1>3, <1>5, <1>6 DEF Edits
  <2>3. QED
    BY <1>7, <2>1, <2>2 DEF Edits, At
<1>9. ASSUME NEW t \in Tenants, NEW f \in Limits, ~Match(t, f)', <<t, f>> \notin torn'
      PROVE  \E x \in Slots : x[1] = t /\ At(x, "write row")' /\ req'[x].body[f] # Absent
  <2>1. CASE t = s[1] /\ req[s].body[f] # Absent
    BY <1>2, <2>1 DEF At
  <2>2. CASE ~(t = s[1] /\ req[s].body[f] # Absent)
    <3>1. key'[t][f] = key[t][f]
      BY <1>4, <2>2
    <3>2. ~Match(t, f) /\ <<t, f>> \notin torn
      BY <1>3, <1>9, <3>1 DEF Match
    <3>3. PICK x \in Slots : x[1] = t /\ At(x, "write row") /\ req[x].body[f] # Absent
      BY <3>2 DEF Agreed
    <3>4. At(x, "write row")'
      BY <1>2, <3>3 DEF At
    <3>5. QED
      BY <1>6, <3>3, <3>4
  <2>3. QED
    BY <2>1, <2>2
<1>10. Agreed'
  BY <1>9 DEF Agreed, Match, At
<1>11. QED
  BY <1>8, <1>10

\* The call to the gateway fails: if it was served, what it named is torn.
LEMMA EditsThrow ==
    ASSUME TypeInv, Edits, Agreed, NEW s \in Slots, GatewayThrows(s)
    PROVE  Edits' /\ Agreed'
<1>1. Editing(s) /\ At(s, "update key")
  BY DEF GatewayThrows, At, Editing
<1>2. req'[s] = Idle /\ \A o \in Slots \ {s} : req'[o] = req[o]
  BY DEF GatewayThrows, Done, Ended, TypeInv, ReqOK
<1>3. row' = row /\ torn \subseteq torn' /\ s[1] \in Tenants
  BY <1>1, EditKnows DEF GatewayThrows
<1>4. \A t \in Tenants, f \in Limits :
         key'[t][f] = key[t][f] \/ (t = s[1] /\ <<t, f>> \in torn')
  <2>1. CASE UNCHANGED <<key, torn>>
    BY <2>1
  <2>2. CASE key' = [key EXCEPT ![s[1]] = UpdatedKey(@, req[s].body)] /\ torn' = torn \cup Named(s)
    <3>1. \A t \in Tenants, f \in Limits :
             key'[t][f] = IF t = s[1] /\ req[s].body[f] # Absent THEN req[s].body[f] ELSE key[t][f]
      BY <1>1, <2>2, EditKnows DEF UpdatedKey, TypeInv, LlmOK
    <3>2. \A f \in Limits : req[s].body[f] # Absent => <<s[1], f>> \in torn'
      BY <1>1, <1>3, <2>2, EditKnows
    <3>3. QED
      BY <3>1, <3>2
  <2>3. QED
    BY <2>1, <2>2 DEF GatewayThrows
<1>5. \A o \in Slots : Editing(o)' => o # s /\ Editing(o)
  BY <1>2, IdlePc DEF Editing
<1>6. \A o \in Slots : At(o, "write row")' <=> At(o, "write row")
  BY <1>1, <1>2, IdlePc DEF At
<1>7. \A o \in Slots : At(o, "write row") => o # s /\ Editing(o)
  BY <1>1 DEF At, Editing
<1>8. Edits'
  <2>1. \A x, o \in Slots : x # o /\ x[1] = o[1] /\ Editing(x)' /\ Editing(o)' => req'[x].alone = FALSE
    BY <1>2, <1>5 DEF Edits
  <2>2. ASSUME NEW x \in Slots, NEW f \in Limits, Editing(x)'
        PROVE  req'[x].current[f] = row'[x[1]][f] \/ <<x[1], f>> \in torn'
    <3>1. Editing(x) /\ req'[x] = req[x]
      BY <1>2, <1>5, <2>2
    <3>2. req[x].current[f] = row[x[1]][f] \/ <<x[1], f>> \in torn
      BY <3>1 DEF Edits
    <3>3. QED
      BY <1>3, <3>1, <3>2
  <2>3. ASSUME NEW x \in Slots, NEW f \in Limits, At(x, "write row")', req'[x].alone = TRUE,
               req'[x].body[f] # Absent
        PROVE  key'[x[1]][f] = req'[x].body[f]
    <3>1. x # s /\ Editing(x) /\ At(x, "write row") /\ req'[x] = req[x]
      BY <1>2, <1>6, <1>7, <2>3
    <3>2. x[1] # s[1] /\ x[1] \in Tenants
      BY <1>1, <2>3, <3>1, EditKnows DEF Edits
    <3>3. key'[x[1]][f] = key[x[1]][f]
      BY <1>4, <3>2
    <3>4. key[x[1]][f] = req[x].body[f]
      <4>1. req[x].alone = TRUE /\ req[x].body[f] # Absent
        BY <2>3, <3>1, Zenon
      <4>2. QED
        BY <3>1, <4>1, LoneEdit, Zenon
    <3>5. QED
      BY <3>1, <3>3, <3>4, ZenonT(60)
  <2>4. QED
    BY <2>1, <2>2, <2>3 DEF Edits, At
<1>9. ASSUME NEW t \in Tenants, NEW f \in Limits, ~Match(t, f)', <<t, f>> \notin torn'
      PROVE  \E x \in Slots : x[1] = t /\ At(x, "write row")' /\ req'[x].body[f] # Absent
  <2>1. key'[t][f] = key[t][f]
    BY <1>4, <1>9
  <2>2. ~Match(t, f) /\ <<t, f>> \notin torn
    BY <1>3, <1>9, <2>1 DEF Match
  <2>3. PICK x \in Slots : x[1] = t /\ At(x, "write row") /\ req[x].body[f] # Absent
    BY <2>2 DEF Agreed
  <2>4. QED
    BY <1>2, <1>6, <1>7, <2>3
<1>10. Agreed'
  BY <1>9 DEF Agreed, Match, At
<1>11. QED
  BY <1>8, <1>10

\* The row is written: by an edit that was alone, as the key is; by another, torn.
LEMMA EditsWrite ==
    ASSUME TypeInv, Edits, Agreed, NEW s \in Slots, WriteRow(s)
    PROVE  Edits' /\ Agreed'
<1>1. Editing(s) /\ At(s, "write row")
  BY DEF WriteRow, At, Editing
<1>2. req'[s].pc = "audit" /\ \A o \in Slots \ {s} : req'[o] = req[o]
  BY StepWrites, WritesAlone
<1>3. key' = key /\ s[1] \in Tenants
  BY <1>1, EditKnows DEF WriteRow
<1>4. req[s].current \in LlmRow /\ req[s].body \in LlmConfigInput
  BY <1>1, EditType
<1>5. \A t \in Tenants, f \in Limits :
         row'[t][f] = IF t # s[1] THEN row[t][f]
                      ELSE IF req[s].body[f] = Absent THEN req[s].current[f] ELSE req[s].body[f]
  BY <1>3, <1>4 DEF WriteRow, Merged, TypeInv, LlmOK
<1>6. torn' = IF req[s].alone = TRUE THEN torn \ Named(s) ELSE torn \cup Named(s)
  <2>1. req[s].alone \in BOOLEAN
    BY <1>1, EditKnows
  <2>2. QED
    BY <2>1 DEF WriteRow
<1>7. \A t \in Tenants, f \in Limits :
         /\ <<t, f>> \notin Named(s) => (<<t, f>> \in torn' <=> <<t, f>> \in torn)
         /\ <<t, f>> \in Named(s) => (<<t, f>> \in torn' <=> req[s].alone # TRUE)
         /\ <<t, f>> \in Named(s) <=> t = s[1] /\ req[s].body[f] # Absent
  BY <1>1, <1>6, EditKnows
<1>8. \A o \in Slots : Editing(o)' => o # s /\ Editing(o)
  BY <1>2 DEF Editing
<1>9. \A o \in Slots \ {s} : At(o, "write row")' <=> At(o, "write row")
  BY <1>2 DEF At
<1>10. \A t \in Tenants, f \in Limits :
          row'[t][f] = row[t][f] \/ <<t, f>> \in Named(s) \/ <<t, f>> \in torn
  <2>1. ASSUME NEW f \in Limits, req[s].body[f] = Absent
        PROVE  row'[s[1]][f] = row[s[1]][f] \/ <<s[1], f>> \in torn
    <3>1. req[s].current[f] = row[s[1]][f] \/ <<s[1], f>> \in torn
      BY <1>1 DEF Edits
    <3>2. QED
      BY <1>3, <1>5, <2>1, <3>1
  <2>2. QED
    BY <1>5, <1>7, <2>1
<1>11. Edits'
  <2>1. \A x, o \in Slots : x # o /\ x[1] = o[1] /\ Editing(x)' /\ Editing(o)' => req'[x].alone = FALSE
    BY <1>2, <1>8 DEF Edits
  <2>2. ASSUME NEW x \in Slots, NEW f \in Limits, Editing(x)'
        PROVE  req'[x].current[f] = row'[x[1]][f] \/ <<x[1], f>> \in torn'
    <3>1. x # s /\ Editing(x) /\ req'[x] = req[x] /\ x[1] \in Tenants
      BY <1>2, <1>8, <2>2, EditKnows
    <3>2. x[1] = s[1] => req[s].alone = FALSE
      BY <1>1, <3>1 DEF Edits
    <3>3. CASE <<x[1], f>> \in Named(s)
      BY <1>7, <3>1, <3>2, <3>3
    <3>4. CASE <<x[1], f>> \notin Named(s)
      BY <1>7, <1>10, <3>1, <3>4, ZenonT(60) DEF Edits
    <3>5. QED
      BY <3>3, <3>4
  <2>3. ASSUME NEW x \in Slots, NEW f \in Limits, At(x, "write row")', req'[x].alone = TRUE,
               req'[x].body[f] # Absent
        PROVE  key'[x[1]][f] = req'[x].body[f]
    <3>1. x # s
      BY <1>2, <2>3 DEF At
    <3>2. At(x, "write row") /\ req'[x] = req[x]
      BY <1>2, <1>9, <2>3, <3>1
    <3>3. key[x[1]][f] = req[x].body[f]
      <4>1. req[x].alone = TRUE /\ req[x].body[f] # Absent
        BY <2>3, <3>2, Zenon
      <4>2. QED
        BY <3>2, <4>1, LoneEdit, Zenon
    <3>4. QED
      BY <1>3, <3>2, <3>3, ZenonT(60)
  <2>4. QED
    BY <2>1, <2>2, <2>3 DEF Edits, At
<1>12. ASSUME NEW t \in Tenants, NEW f \in Limits, ~Match(t, f)', <<t, f>> \notin torn'
       PROVE  \E x \in Slots : x[1] = t /\ At(x, "write row")' /\ req'[x].body[f] # Absent
  <2>1. CASE <<t, f>> \in Named(s)
    <3>1. req[s].alone = TRUE /\ t = s[1] /\ req[s].body[f] # Absent
      BY <1>7, <1>12, <2>1
    <3>2. key[t][f] = req[s].body[f] /\ row'[t][f] = req[s].body[f]
      BY <1>1, <1>5, <3>1 DEF Edits
    <3>3. QED
      BY <1>3, <1>12, <3>2 DEF Match
  <2>2. CASE <<t, f>> \notin Named(s)
    <3>1. <<t, f>> \notin torn /\ row'[t][f] = row[t][f]
      BY <1>7, <1>10, <1>12, <2>2
    <3>2. ~Match(t, f)
      BY <1>3, <1>12, <3>1 DEF Match
    <3>3. PICK x \in Slots : x[1] = t /\ At(x, "write row") /\ req[x].body[f] # Absent
      BY <3>1, <3>2 DEF Agreed
    <3>4. x # s
      BY <1>7, <2>2, <3>3
    <3>5. QED
      BY <1>2, <1>9, <3>3, <3>4
  <2>3. QED
    BY <2>1, <2>2
<1>13. Agreed'
  BY <1>12 DEF Agreed, Match, At
<1>14. QED
  BY <1>11, <1>13

\* The API stops: the rows that were still to be written leave their limits torn.
LEMMA EditsCrash ==
    ASSUME TypeInv, Edits, Agreed, ApiCrash
    PROVE  Edits' /\ Agreed'
<1>1. row' = row /\ key' = key /\ torn \subseteq torn' /\ \A o \in Slots : req'[o] = Idle
  BY DEF ApiCrash
<1>2. \A x \in Slots : At(x, "write row") => Named(x) \subseteq torn'
  BY DEF ApiCrash
<1>3. Edits'
  BY <1>1, IdlePc DEF Edits, Editing, At
<1>4. ASSUME NEW t \in Tenants, NEW f \in Limits, ~Match(t, f)', <<t, f>> \notin torn'
      PROVE  FALSE
  <2>1. ~Match(t, f) /\ <<t, f>> \notin torn
    BY <1>1, <1>4 DEF Match
  <2>2. PICK x \in Slots : x[1] = t /\ At(x, "write row") /\ req[x].body[f] # Absent
    BY <2>1 DEF Agreed
  <2>3. Editing(x)
    BY <2>2 DEF At, Editing
  <2>4. <<t, f>> \in Named(x)
    BY <2>2, <2>3, EditKnows
  <2>5. QED
    BY <1>2, <1>4, <2>2, <2>4
<1>5. Agreed'
  BY <1>4 DEF Agreed, Match, At
<1>6. QED
  BY <1>3, <1>5

\* Every step keeps row and key in agreement, up to what is torn.
LEMMA EditsStep ==
    ASSUME TypeInv, Edits, Agreed, Next
    PROVE  Edits' /\ Agreed'
<1>1. CASE UNCHANGED llm /\ \A o \in Slots : Editing(o) \/ Editing(o)' => req'[o] = req[o]
  <2>1. row' = row /\ key' = key /\ torn' = torn
    BY <1>1 DEF llm
  <2>2. \A o \in Slots : At(o, "write row") \/ At(o, "write row")' => req'[o] = req[o]
    BY <1>1 DEF At, Editing
  <2>3. \A o \in Slots : Editing(o)' => Editing(o) /\ req'[o] = req[o]
    BY <1>1 DEF Editing
  <2>4. \A o \in Slots : At(o, "write row")' => At(o, "write row") /\ req'[o] = req[o]
    BY <2>2 DEF At
  <2>5. \A o \in Slots : At(o, "write row") => At(o, "write row")' /\ req'[o] = req[o]
    BY <2>2 DEF At
  <2>6. \A x, o \in Slots : x # o /\ x[1] = o[1] /\ Editing(x)' /\ Editing(o)' => req'[x].alone = FALSE
    BY <2>3 DEF Edits
  <2>7. \A x \in Slots, f \in Limits :
           Editing(x)' => req'[x].current[f] = row'[x[1]][f] \/ <<x[1], f>> \in torn'
    BY <2>1, <2>3 DEF Edits
  <2>8. ASSUME NEW x \in Slots, NEW f \in Limits, At(x, "write row")', req'[x].alone = TRUE,
               req'[x].body[f] # Absent
        PROVE  key'[x[1]][f] = req'[x].body[f]
    <3>1. At(x, "write row") /\ req'[x] = req[x]
      BY <2>4, <2>8
    <3>2. key[x[1]][f] = req[x].body[f]
      <4>1. req[x].alone = TRUE /\ req[x].body[f] # Absent
        BY <2>8, <3>1, Zenon
      <4>2. QED
        BY <3>1, <4>1, LoneEdit, Zenon
    <3>3. QED
      BY <2>1, <3>1, <3>2, ZenonT(60)
  <2>9. Edits'
    BY <2>6, <2>7, <2>8 DEF Edits, At
  <2>10. ASSUME NEW t \in Tenants, NEW f \in Limits, ~Match(t, f)', <<t, f>> \notin torn'
         PROVE  \E x \in Slots : x[1] = t /\ At(x, "write row")' /\ req'[x].body[f] # Absent
    <3>1. ~Match(t, f) /\ <<t, f>> \notin torn
      BY <2>1, <2>10 DEF Match
    <3>2. PICK x \in Slots : x[1] = t /\ At(x, "write row") /\ req[x].body[f] # Absent
      BY <3>1 DEF Agreed
    <3>3. QED
      BY <2>5, <3>2
  <2>11. Agreed'
    BY <2>10 DEF Agreed, Match, At
  <2>12. QED
    BY <2>9, <2>11
<1>2. QED
  BY <1>1, EditCases, EditsOpen, EditsKey, EditsThrow, EditsWrite, EditsCrash

\* createTenant asks for a key with the limits that it writes.
LEMMA EditsInit == Init => Edits /\ Agreed
<1>. SUFFICES ASSUME Init PROVE Edits /\ Agreed
  OBVIOUS
<1>1. \A s \in Slots : req[s].pc = "idle"
  BY IdlePc DEF Init
<1>2. PICK input \in [Tenants -> LlmConfigInput], budget \in [Tenants -> Amounts] :
         /\ row = [t \in Tenants |-> InitialRow(input[t], budget[t])]
         /\ key = [t \in Tenants |-> InitialKey(input[t], budget[t])]
  BY InitialLimits
<1>3. Blank["max_monthly_spend"] = "0"
  BY DEF Blank
<1>4. ASSUME NEW t \in Tenants, NEW f \in Limits
      PROVE  Match(t, f)
  <2>1. /\ row[t][f] = InitialRow(input[t], budget[t])[f]
        /\ key[t][f] = InitialKey(input[t], budget[t])[f]
    BY <1>2
  <2>2. QED
    BY <1>3, <2>1 DEF Match, InitialRow, InitialKey
<1>5. QED
  BY <1>1, <1>4 DEF Edits, Agreed, Editing, At

\* The gateway enforces what the row says of every limit, except of one that an
\* edit named that was cut short or overlapped with another of the tenant.
THEOREM GatewayAgreesWithRow == Spec => []GatewayMatchesRow
<1>1. TypeInv /\ (Edits /\ Agreed) /\ [Next]_tvars => (Edits /\ Agreed)'
  <2>1. ASSUME TypeInv, Edits, Agreed, UNCHANGED tvars
        PROVE  (Edits /\ Agreed)'
    <3>1. row' = row /\ key' = key /\ torn' = torn /\ req' = req
      BY <2>1 DEF tvars
    <3>2. QED
      BY <2>1, <3>1, ZenonT(60) DEF Edits, Agreed, Editing, At, Match
  <2>2. QED
    BY <2>1, EditsStep
<1>2. Agreed => GatewayMatchesRow
  BY DEF Agreed, GatewayMatchesRow, Match
<1>3. QED
  BY <1>1, <1>2, EditsInit, Typed, PTL DEF Spec
=============================================================================
