---------------------------- MODULE TenantConfig ----------------------------
(***************************************************************************)
(* What an admin sets for a tenant once it exists: its LLM limits (a row   *)
(* and a virtual key at the gateway that should say the same), the secrets *)
(* that are kept by reference, the MCP servers it may use, the memory      *)
(* namespace, and for the platform its settings and users; with the audit  *)
(* entry that a route writes in a statement of its own after each change.  *)
(* A handler runs from one await to the next, so that requests interleave  *)
(* at their statements; the platform is the owner of what has no tenant.   *)
(***************************************************************************)
EXTENDS Naturals, FiniteSets, Sequences, SequencesExt

CONSTANTS Tenants,     \* tenants that createTenant has set up
          Platform,    \* the owner of the secrets without a tenant
          Servers,     \* the MCP servers that are registered
          SecretNames, \* names of secrets, besides litellm_key
          Emails,      \* of the users that are created
          Overlap,     \* how many requests for an owner may be open at a time
          MaxRequests, \* bound on the requests
          Faults       \* a subset of FaultKinds

FaultKinds == {"gateway", "api", "audit"}

Owners == Tenants \cup {Platform}
Absent == "absent"
Unset == "unset"
Idle == [pc |-> "idle"]

ASSUME TenantConfigAssumption ==
    /\ Platform \notin Tenants
    /\ Overlap \in [Owners -> Nat \ {0}]
    /\ MaxRequests \in Nat
    /\ Faults \subseteq FaultKinds

\* The areas share nothing but the counter of requests, so that a behaviour
\* stays in one of them.
Areas == {"llm", "memory", "secrets", "mcp", "platform"}

VARIABLES
    area,      \* bound: what the admins of this behaviour edit
    row,       \* the limits in tenantRuntimeConfig.llmConfigJson
    key,       \* the limits of the virtual key at the gateway
    namespace, \* memoryConfigJson.namespace
    secrets,   \* the rows of secrets_references
    required,  \* mcp_servers.approval_required
    access,    \* the rows of tenant_mcp_access
    written,   \* what has been written by requests, with the one whose write it holds
    trail,     \* audit_logs: what was written, and the request that did, as it is recorded
    req,       \* the requests that are open
    requests,  \* how many there have been
    torn,      \* history: the limits of tenants whose last edits were cut short or overlapped
    lax,       \* history: the servers that did not require approval once
    doubtful   \* history: what was last written with an entry lost, or another one to come

tvars == <<area, row, key, namespace, secrets, required, access, written, trail, req, requests,
           torn, lax, doubtful>>
llm == <<row, key, torn>>
mcp == <<required, access, lax>>
audit == <<written, trail, doubtful>>

-----------------------------------------------------------------------------
\* The limits that are numbers, of which only 0 matters, and what the row says
\* when nobody set one.
Blank == [max_monthly_spend |-> "0", rate_limit_rpm |-> "null"]
Limits == DOMAIN Blank
Amounts == {"0", "1"}

\* A body of PUT /api/llm/tenants/:id may leave each limit out.
LlmConfigInput == [Limits -> Amounts \cup {Absent}]

\* createTenant asks for a key with the limits of the request, or the budget of
\* the tenant's limits unless that is 0, and writes what it asked for.
InitialKey(input, budget) ==
    [f \in Limits |->
        IF input[f] # Absent THEN input[f]
        ELSE IF f = "max_monthly_spend" /\ budget # "0" THEN budget ELSE Unset]
InitialRow(input, budget) ==
    [f \in Limits |->
        IF input[f] # Absent THEN input[f]
        ELSE IF f = "max_monthly_spend" THEN budget ELSE Blank[f]]

\* Mutant of UpdatedKey: a limit that is left out is cleared.
UpdatedKeyWhole(old, b) == b

\* A field that is undefined is left out of the call to the gateway.
UpdatedKey(old, b) == [f \in Limits |-> IF b[f] = Absent THEN old[f] ELSE b[f]]

\* Mutant of Merged: the new row starts from the defaults.
MergedNot(current, b) == [f \in Limits |-> IF b[f] = Absent THEN Blank[f] ELSE b[f]]

\* next: the body over what the row said when it was read.
Merged(current, b) == [f \in Limits |-> IF b[f] = Absent THEN current[f] ELSE b[f]]

-----------------------------------------------------------------------------
Slots == UNION {{o} \X (1 .. Overlap[o]) : o \in Owners}

\* A request counts, and belongs to the area of the behaviour.
Counted(a) ==
    /\ area = a
    /\ requests < MaxRequests
    /\ requests' = requests + 1
    /\ UNCHANGED area

\* A request that starts in a free slot of its owner, and one that ends.
Opened(s, a, r) ==
    /\ req[s] = Idle
    /\ Counted(a)
    /\ req' = [req EXCEPT ![s] = r]
Ended(s) == req' = [req EXCEPT ![s] = Idle] /\ UNCHANGED <<area, requests>>
At(s, pc) == req[s].pc = pc

\* The request fails, with nothing to record.
Done(s) == Ended(s) /\ UNCHANGED audit

-----------------------------------------------------------------------------
(***************************************************************************)
(* recordAudit, after the change and not in one transaction with it.       *)
(***************************************************************************)
Recording(x) == \E s \in Slots : At(s, "audit") /\ req[s].target = x

\* Request number id of slot s has written x; its entry is still to come.
Written(s, id, x) ==
    /\ written' = [y \in DOMAIN written \cup {x} |-> IF y = x THEN id ELSE written[y]]
    /\ doubtful' = IF Recording(x) THEN doubtful \cup {x} ELSE doubtful \ {x}
    /\ req' = [req EXCEPT ![s] = [pc |-> "audit", id |-> id, target |-> x]]
    /\ UNCHANGED trail

\* The entry is written, or that fails and the request returns all the same.
RecordAudit(s) ==
    /\ At(s, "audit")
    /\ \/ trail' = Append(trail, [target |-> req[s].target, by |-> req[s].id]) /\ UNCHANGED doubtful
       \/ "audit" \in Faults /\ doubtful' = doubtful \cup {req[s].target} /\ UNCHANGED trail
    /\ Ended(s)
    /\ UNCHANGED <<written, llm, namespace, secrets, mcp>>

(***************************************************************************)
(* PUT /api/llm/tenants/:tenant_id: read the row, update the key, write.   *)
(***************************************************************************)
\* Whether no other edit of the tenant is open, and those that are no longer alone.
Editing(s) == req[s].pc \in {"update key", "write row"}
Alone(s) == \A o \in Slots \ {s} : o[1] = s[1] => ~Editing(o)
Disturbed(s) ==
    [o \in Slots |-> IF o # s /\ o[1] = s[1] /\ Editing(o)
                     THEN [req[o] EXCEPT !.alone = FALSE] ELSE req[o]]

\* The limits that the body of a request names.
Named(s) == {<<s[1], f>> : f \in {g \in Limits : req[s].body[g] # Absent}}

PutLlm(s, b) ==
    /\ s[1] \in Tenants
    /\ req[s] = Idle
    /\ Counted("llm")
    /\ req' = [Disturbed(s) EXCEPT ![s] = [pc |-> "update key", id |-> requests', body |-> b,
                                          current |-> row[s[1]], alone |-> Alone(s)]]
    /\ UNCHANGED <<llm, namespace, secrets, mcp, audit>>

UpdateVirtualKey(s) ==
    /\ At(s, "update key")
    /\ key' = [key EXCEPT ![s[1]] = UpdatedKey(@, req[s].body)]
    /\ req' = [req EXCEPT ![s].pc = "write row"]
    /\ UNCHANGED <<area, row, torn, namespace, secrets, mcp, requests, audit>>

\* call throws: the gateway refused, or did it and its answer was lost.
GatewayThrows(s) ==
    /\ "gateway" \in Faults
    /\ At(s, "update key")
    /\ \/ UNCHANGED <<key, torn>>
       \/ /\ key' = [key EXCEPT ![s[1]] = UpdatedKey(@, req[s].body)]
          /\ torn' = torn \cup Named(s)
    /\ Done(s)
    /\ UNCHANGED <<row, namespace, secrets, mcp>>

WriteRow(s) ==
    /\ At(s, "write row")
    /\ row' = [row EXCEPT ![s[1]] = Merged(req[s].current, req[s].body)]
    /\ torn' = IF req[s].alone THEN torn \ Named(s) ELSE torn \cup Named(s)
    /\ Written(s, req[s].id, <<"limits", s[1]>>)
    /\ UNCHANGED <<area, key, namespace, secrets, mcp, requests>>

-----------------------------------------------------------------------------
(***************************************************************************)
(* PUT /api/memory/tenants/:tenant_id.  ensureNamespace only echoes.  A    *)
(* namespace that is left out becomes the tenant's id, where createTenant  *)
(* took the slug.                                                          *)
(***************************************************************************)
Namespaces == {"slug", "id", "named"}

PutMemory(s, given) ==
    /\ s[1] \in Tenants
    /\ req[s] = Idle
    /\ Counted("memory")
    /\ namespace' = [namespace EXCEPT ![s[1]] = IF given = Absent THEN "id" ELSE given]
    /\ UNCHANGED <<llm, secrets, mcp, req, audit>>

-----------------------------------------------------------------------------
(***************************************************************************)
(* POST /api/secrets: findFirst, then update by id or create.              *)
(***************************************************************************)
Names == SecretNames \cup {"litellm_key"}
Providers == {"local", "external"}

\* encryptedValue is null or not: sealed.  A row has the number of the request
\* that created it, or 0, for its id.
Secret == [owner : Owners, name : Names, id : 0 .. MaxRequests, provider : Providers, sealed : BOOLEAN]
Rows(o, n) == {r \in secrets : r.owner = o /\ r.name = n}

\* A local secret needs its value: 400 otherwise.
Accepted(p, value) == p = "local" => value

\* The body up to the lookup, with the ciphertext of a local value.
PostSecret(s, n, p, value) ==
    /\ Accepted(p, value)
    /\ Opened(s, "secrets", [pc |-> "look up", id |-> requests', name |-> n, provider |-> p,
                             number |-> requests', sealed |-> p = "local"])
    /\ UNCHANGED <<llm, namespace, secrets, mcp, audit>>

\* Mutant of Existing: the lookup also asks for the provider of the body.
ExistingOfProvider(s) ==
    {r \in secrets : r.owner = s[1] /\ r.name = req[s].name /\ r.provider = req[s].provider}

\* findFirst where tenantId = b.tenant_id ?? null and name: any such row.
Existing(s) == Rows(s[1], req[s].name)

LookUpSecret(s) ==
    /\ At(s, "look up")
    /\ \/ /\ Existing(s) = {}
          /\ req' = [req EXCEPT ![s].pc = "create"]
       \/ \E r \in Existing(s) :
             req' = [req EXCEPT ![s].pc = "update", ![s].id = r.id]
    /\ UNCHANGED <<area, llm, namespace, secrets, mcp, requests, audit>>

SecretTarget(o, n, id) == <<"secret", o, n, id>>

\* @@unique([tenantId, name]) compares no nulls: it binds tenants only.
CreateSecret(s) ==
    /\ At(s, "create")
    /\ LET o == s[1]
           n == req[s].name
       IN  IF o \in Tenants /\ Rows(o, n) # {} THEN Done(s) /\ UNCHANGED secrets
           ELSE /\ secrets' = secrets \cup {[owner |-> o, name |-> n, id |-> req[s].id,
                                             provider |-> req[s].provider, sealed |-> req[s].sealed]}
                /\ Written(s, req[s].id, SecretTarget(o, n, req[s].id))
                /\ UNCHANGED <<area, requests>>
    /\ UNCHANGED <<llm, namespace, mcp>>

\* Mutant of Overwritten: the ciphertext of the body is not written.
OverwrittenProvider(r, q) == [r EXCEPT !.provider = q.provider]

\* encryptedValue: undefined leaves the column alone, so an external secret
\* keeps the ciphertext of the local one it replaces.
Overwritten(r, q) == [r EXCEPT !.provider = q.provider, !.sealed = @ \/ q.sealed]

\* Mutant of UpdateSecret: the request returns before it records an update.
UpdateSecretQuietly(s) ==
    /\ At(s, "update")
    /\ LET found == {r \in Rows(s[1], req[s].name) : r.id = req[s].id}
       IN  /\ secrets' = (secrets \ found) \cup {Overwritten(r, req[s]) : r \in found}
           /\ written' = [x \in DOMAIN written |->
                             IF \E r \in found : x = SecretTarget(r.owner, r.name, r.id)
                             THEN req[s].number ELSE written[x]]
    /\ Ended(s)
    /\ UNCHANGED <<llm, namespace, mcp, trail, doubtful>>

\* update by id throws when the row has been deleted.
UpdateSecret(s) ==
    /\ At(s, "update")
    /\ LET found == {r \in Rows(s[1], req[s].name) : r.id = req[s].id}
       IN  IF found = {} THEN Done(s) /\ UNCHANGED secrets
           ELSE /\ secrets' = (secrets \ found) \cup {Overwritten(r, req[s]) : r \in found}
                /\ Written(s, req[s].number, SecretTarget(s[1], req[s].name, req[s].id))
                /\ UNCHANGED <<area, requests>>
    /\ UNCHANGED <<llm, namespace, mcp>>

\* DELETE /api/secrets/:id, for an id that a list has shown.
DeleteSecret(s, r) ==
    /\ Counted("secrets")
    /\ req[s] = Idle
    /\ s[1] = r.owner
    /\ secrets' = secrets \ {r}
    /\ Written(s, requests', SecretTarget(r.owner, r.name, r.id))
    /\ UNCHANGED <<llm, namespace, mcp>>

-----------------------------------------------------------------------------
(***************************************************************************)
(* The MCP registry and what a tenant may use of it.                       *)
(***************************************************************************)
\* An access row; admin is history: the body itself said approved.
Access == [enabled : BOOLEAN, approved : BOOLEAN, admin : BOOLEAN]

\* PATCH /api/mcp/servers/:id with an approval_required.
PatchServer(m, needs) ==
    /\ Counted("mcp")
    /\ required' = [required EXCEPT ![m] = needs]
    /\ lax' = IF needs THEN lax ELSE lax \cup {m}
    /\ UNCHANGED <<llm, namespace, secrets, access, req, audit>>

\* PUT /api/mcp/tenants/:tenant_id/access: read the server, then upsert.
PutAccess(s, m, enabled, approved) ==
    /\ s[1] \in Tenants
    /\ Opened(s, "mcp", [pc |-> "upsert", id |-> requests', server |-> m, enabled |-> enabled,
                         approved |-> approved, needs |-> required[m]])
    /\ UNCHANGED <<llm, namespace, secrets, mcp, audit>>

\* Mutant of Approved: an access that is not refused is approved.
ApprovedByDefault(given, needs) == given # "no"

\* b.approved ?? !server.approvalRequired
Approved(given, needs) == IF given = Absent THEN ~needs ELSE given = "yes"

UpsertAccess(s) ==
    /\ At(s, "upsert")
    /\ LET this == <<s[1], req[s].server>>
       IN  access' = [l \in DOMAIN access \cup {this} |->
                        IF l # this THEN access[l]
                        ELSE [enabled |-> req[s].enabled,
                              approved |-> Approved(req[s].approved, req[s].needs),
                              admin |-> req[s].approved = "yes"]]
    /\ Written(s, req[s].id, <<"access", s[1], req[s].server>>)
    /\ UNCHANGED <<area, llm, namespace, secrets, required, lax, requests>>

-----------------------------------------------------------------------------
(***************************************************************************)
(* The settings and the users of the platform, as its admins write them.   *)
(* A value is told apart by the request that wrote it.                     *)
(***************************************************************************)
UserTarget(e) == <<"user", e>>

\* PUT /api/settings/:key, one upsert.
PutSetting(s) ==
    /\ s[1] = Platform
    /\ req[s] = Idle
    /\ Counted("platform")
    /\ Written(s, requests', <<"setting">>)
    /\ UNCHANGED <<llm, namespace, secrets, mcp>>

\* POST /api/auth/users: an email that is found ends the request with 409.
PostUser(s, e) ==
    /\ s[1] = Platform
    /\ UserTarget(e) \notin DOMAIN written
    /\ Opened(s, "platform", [pc |-> "create user", id |-> requests', email |-> e])
    /\ UNCHANGED <<llm, namespace, secrets, mcp, audit>>

\* Mutant of CreateUser: an upsert, so that the email is not unique.
UpsertUser(s) ==
    /\ At(s, "create user")
    /\ Written(s, req[s].id, UserTarget(req[s].email))
    /\ UNCHANGED <<area, llm, namespace, secrets, mcp, requests>>

\* The password is hashed in between: create throws if the email is taken by now.
CreateUser(s) ==
    /\ At(s, "create user")
    /\ IF UserTarget(req[s].email) \in DOMAIN written THEN Done(s)
       ELSE Written(s, req[s].id, UserTarget(req[s].email)) /\ UNCHANGED <<area, requests>>
    /\ UNCHANGED <<llm, namespace, secrets, mcp>>

-----------------------------------------------------------------------------
\* The API stops: its open requests are gone between two statements.
ApiCrash ==
    /\ "api" \in Faults
    /\ \E s \in Slots : req[s] # Idle
    /\ req' = [s \in Slots |-> Idle]
    /\ torn' = torn \cup UNION {Named(s) : s \in {x \in Slots : At(x, "write row")}}
    /\ doubtful' = doubtful \cup {req[s].target : s \in {x \in Slots : At(x, "audit")}}
    /\ UNCHANGED <<area, row, key, namespace, secrets, mcp, requests, written, trail>>

\* createTenant has run for every tenant, with any limits; it has linked the
\* servers that were asked for, as their policy was then.  What lies outside the
\* area of the behaviour starts in one way.
NoLimits == [f \in Limits |-> Absent]

Init ==
    /\ area \in Areas
    /\ \E input \in [Tenants -> IF area = "llm" THEN LlmConfigInput ELSE {NoLimits}],
          budget \in [Tenants -> IF area = "llm" THEN Amounts ELSE {"0"}] :
          /\ row = [t \in Tenants |-> InitialRow(input[t], budget[t])]
          /\ key = [t \in Tenants |-> InitialKey(input[t], budget[t])]
    /\ namespace \in [Tenants -> IF area = "memory" THEN {"slug", "named"} ELSE {"slug"}]
    /\ secrets = [owner : Tenants, name : {"litellm_key"}, id : {0}, provider : {"local"}, sealed : {TRUE}]
    /\ required \in [Servers -> IF area = "mcp" THEN BOOLEAN ELSE {TRUE}]
    /\ lax = {m \in Servers : ~required[m]}
    /\ \E linked \in IF area = "mcp" THEN SUBSET (Tenants \X Servers) ELSE {{}} :
          access = [l \in linked |-> [enabled |-> TRUE, approved |-> ~required[l[2]], admin |-> FALSE]]
    /\ req = [s \in Slots |-> Idle]
    /\ requests = 0
    /\ torn = {}
    /\ written = <<>> /\ trail = <<>> /\ doubtful = {}

Step(s) ==
    \/ UpdateVirtualKey(s)
    \/ GatewayThrows(s)
    \/ WriteRow(s)
    \/ LookUpSecret(s)
    \/ CreateSecret(s)
    \/ UpdateSecret(s)
    \/ UpsertAccess(s)
    \/ CreateUser(s)
    \/ RecordAudit(s)

Request(s) ==
    \/ \E b \in LlmConfigInput : PutLlm(s, b)
    \/ \E given \in {"named", Absent} : PutMemory(s, given)
    \/ \E n \in Names, p \in Providers, value \in BOOLEAN : PostSecret(s, n, p, value)
    \/ \E m \in Servers, enabled \in BOOLEAN, approved \in {"yes", "no", Absent} :
          PutAccess(s, m, enabled, approved)
    \/ \E r \in secrets : DeleteSecret(s, r)
    \/ PutSetting(s)
    \/ \E e \in Emails : PostUser(s, e)

Next ==
    \/ \E s \in Slots : Step(s) \/ Request(s)
    \/ \E m \in Servers, needs \in BOOLEAN : PatchServer(m, needs)
    \/ ApiCrash

Spec == Init /\ [][Next]_tvars

-----------------------------------------------------------------------------
(***************************************************************************)
(* Properties.                                                             *)
(***************************************************************************)

Bodies ==
    [pc : {"update key", "write row"}, id : 1 .. MaxRequests, body : LlmConfigInput, current : [Limits -> Amounts \cup {"null"}],
     alone : BOOLEAN]
    \cup [pc : {"look up", "create", "update"}, id : 0 .. MaxRequests, name : Names,
          number : 1 .. MaxRequests, provider : Providers, sealed : BOOLEAN]
    \cup [pc : {"upsert"}, id : 1 .. MaxRequests, server : Servers, enabled : BOOLEAN,
          approved : {"yes", "no", Absent}, needs : BOOLEAN]
    \cup [pc : {"create user"}, id : 1 .. MaxRequests, email : Emails]
    \cup [pc : {"audit"}, id : 1 .. MaxRequests, target : DOMAIN written]

\* Every column, and the limits at the gateway, hold what they may hold: what a
\* body leaves out is written nowhere.
TypeOK ==
    /\ area \in Areas
    /\ row \in [Tenants -> [Limits -> Amounts \cup {"null"}]]
    /\ key \in [Tenants -> [Limits -> Amounts \cup {Unset}]]
    /\ namespace \in [Tenants -> Namespaces]
    /\ secrets \subseteq Secret
    /\ required \in [Servers -> BOOLEAN]
    /\ DOMAIN access \subseteq Tenants \X Servers
    /\ \A l \in DOMAIN access : access[l] \in Access
    /\ req \in [Slots -> Bodies \cup {Idle}]
    /\ requests \in 0 .. MaxRequests
    /\ torn \subseteq Tenants \X Limits
    /\ lax \subseteq Servers
    /\ doubtful \subseteq DOMAIN written
    /\ \A i \in DOMAIN trail : trail[i].target \in DOMAIN written

\* The gateway enforces what the row says of a limit, except for a limit that was
\* named by an edit that was cut short or overlapped with another: those leave every
\* other limit right, and the next undisturbed edit that names the limit mends it.
GatewayMatchesRow ==
    \A t \in Tenants, f \in Limits :
        <<t, f>> \notin torn /\ (\A s \in Slots : s[1] = t => ~At(s, "write row")) =>
            \/ key[t][f] = row[t][f]
            \/ key[t][f] = Unset /\ row[t][f] = Blank[f]

\* A tenant has one secret of a name, however its requests interleave; of the
\* platform's, whose null tenant_id the database does not compare, there are at
\* most as many as requests overlap, also after any number of later posts.
SecretRowsBounded ==
    /\ \A t \in Tenants, n \in Names : Cardinality(Rows(t, n)) <= 1
    /\ \A n \in Names : Cardinality(Rows(Platform, n)) <= Overlap[Platform]

\* A secret that says it is local can be resolved: its row has a ciphertext,
\* whichever provider the row had when it was looked up or written over.
LocalResolves == \A r \in secrets : r.provider = "local" => r.sealed

\* An access is approved by an admin, or by a server that did not require it:
\* neither a toggle of the access nor a stale read of the server grants one.
ApprovalExplained ==
    \A l \in DOMAIN access : access[l].approved => access[l].admin \/ l[2] \in lax

\* The newest audit entry of a thing is that of the request whose write it holds:
\* limits, secrets, accesses, settings and users alike, unless two writes overlapped,
\* the process died or the entry failed; and then until the next write on its own.
TrailNamesWriter ==
    \A x \in DOMAIN written \ doubtful :
        ~Recording(x) =>
            LET i == SelectLastInSeq(trail, LAMBDA a : a.target = x)
            IN  i # 0 /\ trail[i].by = written[x]

\* The trail names one creator of a user, however the creations interleave.
OneCreator ==
    \A i, j \in DOMAIN trail :
        trail[i].target = trail[j].target /\ trail[i].target[1] = "user" => i = j
=============================================================================
