------------------------------- MODULE Console ------------------------------
(***************************************************************************)
(* The web console of one browser tab: the session in localStorage, the    *)
(* client api(), the hook useFetch that every page reads with, and the     *)
(* buttons of the pages that write.  The API appears as a version number   *)
(* of its data, which a read returns and a write that succeeds increases.  *)
(*                                                                         *)
(* There are pages that only read (the home page, logs, settings, ...),    *)
(* "list" pages (hosts, deployments) that disable only the button that was *)
(* clicked, the "detail" page of a tenant that disables all of them, and   *)
(* the "tenants" page with its dialog.  Leaving a page or a dialog does not *)
(* stop its calls: their replies still run api(), and what they do to the  *)
(* state of what was left is lost.                                         *)
(***************************************************************************)
EXTENDS Naturals, Sequences, FiniteSets

CONSTANTS Paths,      \* what a list may be filtered by: the paths useFetch is given
          Buttons,    \* the buttons of a page
          NoButton,   \* busy = null
          Delete,     \* the button of the detail page that leaves it when done
          MaxClicks,  \* bound on what the user does
          MaxVersion, \* bound on the version that others write
          Faults      \* a subset of FaultKinds

FaultKinds == {"expire", "fail"}

ASSUME ConsoleAssumption ==
    /\ Paths # {} /\ "none" \notin Paths
    /\ NoButton \notin Buttons
    /\ Delete \in Buttons
    /\ MaxClicks \in Nat
    /\ MaxVersion \in Nat
    /\ Faults \subseteq FaultKinds

VARIABLES
    version,  \* how often the data behind the API has changed
    session,  \* the session whose token is in localStorage, 0 for none
    expired,  \* the sessions whose token the API does not accept any more
    view,     \* what the tab shows: a page, or "login"
    path,     \* the path useFetch was rendered with
    due,      \* path or tick changed, and the effect has not run
    data,     \* the hook's data: what it was read from and when, or NoData
    error,    \* the hook's error is not null
    loading,  \* the hook's loading
    busy,     \* the button that is marked busy, or NoButton
    dialog,   \* the dialog that creates a tenant: "closed", "open" or "busy"
    calls,    \* the calls of api() that are open; a slot is used again when it is free
    seen,     \* history: the version written by what the user saw succeed
    clicks    \* how often the user did something

hook == <<path, due, data, error, loading>>
page == <<view, path, due, data, error, loading, busy, dialog>>
cvars == <<version, session, expired, page, calls, seen, clicks>>

-----------------------------------------------------------------------------
Pages == {"read", "list", "detail", "tenants"}

NoData == [path |-> "none", version |-> 0]

(***************************************************************************)
(* A call: what it is for ("get" for the hook, "post" for a button,        *)
(* "create" for the dialog, "login"), where it is, what the API answered,  *)
(* and whose it is: "page" while what made it is there (the effect, the    *)
(* page, the dialog), "closed" when only its dialog is not, "nobody" when  *)
(* it is not, and "gone" when the whole tab was loaded anew.               *)
(***************************************************************************)
Call == [kind : {"get", "post", "create", "login"}, pc : {"request", "reply"},
         path : Paths \cup {"none"}, button : Buttons \cup {NoButton}, session : Nat,
         owner : {"page", "closed", "nobody", "gone"},
         answer : {"none", "ok", "failed", "refused"}, version : Nat]

Over == [kind |-> "over"]

\* What api() sends: the token is read when the call is made.
Get == [kind |-> "get", pc |-> "request", path |-> path, button |-> NoButton,
        session |-> session, owner |-> "page", answer |-> "none", version |-> 0]
Post(b) == [Get EXCEPT !.kind = "post", !.button = b, !.path = "none"]
Create == [Post(NoButton) EXCEPT !.kind = "create"]
Authenticate == [Post(NoButton) EXCEPT !.kind = "login"]

Pending == {i \in DOMAIN calls : calls[i] # Over}
Own(kind) == {i \in Pending : calls[i].kind = kind /\ calls[i].owner = "page"}

\* The calls with a new one in the first free slot.
With(cs, c) ==
    LET free == {i \in DOMAIN cs : cs[i] = Over}
    IN  IF free = {} THEN Append(cs, c)
        ELSE [cs EXCEPT ![CHOOSE i \in free : \A j \in free : i <= j] = c]

\* A call whose reply the page will not see keeps nothing but its token.
Dropped(c, owner) == [c EXCEPT !.owner = owner, !.path = "none", !.button = NoButton, !.version = 0]
DropEach(cs, Which(_), owner) ==
    [i \in DOMAIN cs |-> IF cs[i] # Over /\ Which(cs[i]) THEN Dropped(cs[i], owner) ELSE cs[i]]

\* The calls of the page when it unmounts, and when the tab is loaded anew.
Disowned(cs) == DropEach(cs, LAMBDA c : c.owner \in {"page", "closed"}, "nobody")
Unloaded(cs) == DropEach(cs, LAMBDA c : TRUE, "gone")

\* Mutant of Cancelled: the effect is not cleaned up.
CancelledNot(cs) == cs

\* The cleanup of the effect that was in force.
Cancelled(cs) == DropEach(cs, LAMBDA c : c.kind = "get" /\ c.owner = "page", "nobody")

\* The call of the dialog when it unmounts: what it tells the page still counts.
Closing(cs) ==
    [i \in DOMAIN cs |-> IF cs[i] # Over /\ cs[i].kind = "create" /\ cs[i].owner = "page"
                        THEN [cs[i] EXCEPT !.owner = "closed"] ELSE cs[i]]

User ==
    /\ clicks < MaxClicks
    /\ clicks' = clicks + 1

\* A page is mounted: its hook and its busy start afresh.
Mount(v, p) ==
    /\ view' = v
    /\ path' = p
    /\ due' = TRUE
    /\ data' = NoData
    /\ error' = FALSE
    /\ loading' = TRUE
    /\ busy' = NoButton
    /\ dialog' = "closed"

\* The login page: nothing of the page that was there is left.
ShowLogin ==
    /\ view' = "login"
    /\ due' = FALSE
    /\ data' = NoData
    /\ error' = FALSE
    /\ loading' = FALSE
    /\ busy' = NoButton
    /\ dialog' = "closed"
    /\ UNCHANGED path
-----------------------------------------------------------------------------
(***************************************************************************)
(* The user.                                                               *)
(***************************************************************************)

\* The login form, whose button is disabled while it loads.
SubmitLogin ==
    /\ view = "login"
    /\ ~loading
    /\ User
    /\ error' = FALSE
    /\ loading' = TRUE
    /\ calls' = With(calls, Authenticate)
    /\ UNCHANGED <<version, session, expired, view, path, due, data, busy, dialog, seen>>

\* Shell's logout navigates within the tab: open calls run on.
Logout ==
    /\ view # "login"
    /\ User
    /\ session' = 0
    /\ calls' = Disowned(calls)
    /\ ShowLogin
    /\ UNCHANGED <<version, expired, seen>>

\* A link to another page, or to the same kind of page again.
Visit(v, p) ==
    /\ view # "login"
    /\ User
    /\ calls' = Disowned(calls)
    /\ Mount(v, p)
    /\ UNCHANGED <<version, session, expired, seen>>

\* The filter of a list gives its hook another path and keeps its data.
SetFilter(p) ==
    /\ view = "list"
    /\ p # path
    /\ User
    /\ path' = p
    /\ due' = TRUE
    /\ UNCHANGED <<version, session, expired, view, data, error, loading, busy, dialog, calls, seen>>

\* A list shows its buttons with its data, also while it loads again.
EnabledOnList(b) == view = "list" /\ data # NoData /\ b # busy

\* Mutant of EnabledOnDetail: no button is disabled but the busy one.
EnabledOthers(b) == view = "detail" /\ data # NoData /\ ~loading /\ ~error /\ b # busy

\* The page of a tenant shows none while it loads or once it has seen an error.
EnabledOnDetail(b) ==
    /\ view = "detail"
    /\ data # NoData
    /\ ~loading
    /\ ~error
    /\ busy = NoButton

\* approve, maintenance, retry and runAction up to their await.
Click(b) ==
    /\ EnabledOnList(b) \/ EnabledOnDetail(b)
    /\ User
    /\ busy' = b
    /\ calls' = With(calls, Post(b))
    /\ UNCHANGED <<version, session, expired, view, hook, dialog, seen>>

\* The dialog of the tenants page, whatever the page shows behind it.
OpenDialog ==
    /\ view = "tenants"
    /\ dialog = "closed"
    /\ User
    /\ dialog' = "open"
    /\ UNCHANGED <<version, session, expired, view, hook, busy, calls, seen>>

SubmitDialog ==
    /\ dialog = "open"
    /\ User
    /\ dialog' = "busy"
    /\ calls' = With(calls, Create)
    /\ UNCHANGED <<version, session, expired, view, hook, busy, seen>>

\* Cancel, the cross or the backdrop, also while the dialog is busy.
CloseDialog ==
    /\ dialog # "closed"
    /\ User
    /\ dialog' = "closed"
    /\ calls' = Closing(calls)
    /\ UNCHANGED <<version, session, expired, view, hook, busy, seen>>

-----------------------------------------------------------------------------
(***************************************************************************)
(* The effect of useFetch, and the two halves of a call.                   *)
(***************************************************************************)

\* The effect runs after a render with another path or tick, and cleans up the
\* one before it.
RunEffect ==
    /\ due
    /\ due' = FALSE
    /\ loading' = TRUE
    /\ calls' = With(Cancelled(calls), Get)
    /\ UNCHANGED <<version, session, expired, view, path, data, error, busy, dialog, seen, clicks>>

\* What the API makes of a call: requireUser first, then the handler.  A login
\* is refused for its password and writes nothing that a page reads.
Writes(c) == c.kind \in {"post", "create"}
Answers(c) ==
    IF c.kind # "login" /\ c.session \in expired THEN {[answer |-> "refused", version |-> version]}
    ELSE {[answer |-> "ok", version |-> IF Writes(c) THEN version + 1 ELSE version]}
         \cup (IF c.kind = "login" THEN {[answer |-> "refused", version |-> version]} ELSE {})
         \cup (IF "fail" \in Faults
               THEN {[answer |-> "failed", version |-> v] :
                       v \in {version} \cup (IF Writes(c) THEN {version + 1} ELSE {})}
               ELSE {})

\* The API answers; a failure may come before or after a write took effect.  Of
\* a call whose component or effect is gone only a refusal still matters.
Serve(i) ==
    /\ i \in Pending
    /\ calls[i].pc = "request"
    /\ \E a \in Answers(calls[i]) :
          /\ version' = a.version
          /\ calls' = [calls EXCEPT ![i] =
                         IF @.owner = "gone" \/ (@.owner = "nobody" /\ a.answer # "refused") THEN Over
                         ELSE [@ EXCEPT !.pc = "reply", !.answer = a.answer, !.version = a.version]]
    /\ UNCHANGED <<session, expired, page, seen, clicks>>

Replied(i) == i \in Pending /\ calls[i].pc = "reply"

Closed(i) == [calls EXCEPT ![i] = Over]

\* Mutant of Refused: the session is cleared and the page stays.
RefusedInPlace(i) ==
    /\ Replied(i)
    /\ calls[i].answer = "refused" /\ calls[i].kind # "login"
    /\ session' = 0
    /\ calls' = Closed(i)
    /\ UNCHANGED <<version, expired, page, seen, clicks>>

\* Mutant of Refused: a failure of the API ends the session too.
RefusedOrFailed(i) ==
    /\ Replied(i)
    /\ calls[i].answer \in {"refused", "failed"} /\ calls[i].kind # "login"
    /\ session' = 0
    /\ calls' = Unloaded(Closed(i))
    /\ ShowLogin
    /\ UNCHANGED <<version, expired, seen, clicks>>

\* 401, whoever made the call and with whatever token: the session is cleared
\* and the tab loads the login page.
Refused(i) ==
    /\ Replied(i)
    /\ calls[i].answer = "refused" /\ calls[i].kind # "login"
    /\ session' = 0
    /\ calls' = Unloaded(Closed(i))
    /\ ShowLogin
    /\ UNCHANGED <<version, expired, seen, clicks>>

\* A reply that was on its way when its component or effect went.
Ignored(i) ==
    /\ Replied(i)
    /\ calls[i].answer # "refused"
    /\ calls[i].owner \notin {"page", "closed"}
    /\ calls' = Closed(i)
    /\ UNCHANGED <<version, session, expired, page, seen, clicks>>

\* Mutant of Fetched: a fetch that fails leaves the spinner.
FetchedForEver(i) ==
    /\ Replied(i)
    /\ calls[i].kind = "get" /\ calls[i].owner = "page"
    /\ \/ /\ calls[i].answer = "ok"
          /\ data' = [path |-> calls[i].path, version |-> calls[i].version]
          /\ loading' = FALSE
          /\ UNCHANGED error
       \/ /\ calls[i].answer = "failed"
          /\ error' = TRUE
          /\ UNCHANGED <<data, loading>>
    /\ calls' = Closed(i)
    /\ UNCHANGED <<version, session, expired, view, path, due, busy, dialog, seen, clicks>>

\* then, catch and finally of the effect in force; nothing takes an error back.
Fetched(i) ==
    /\ Replied(i)
    /\ calls[i].kind = "get" /\ calls[i].owner = "page"
    /\ \/ /\ calls[i].answer = "ok"
          /\ data' = [path |-> calls[i].path, version |-> calls[i].version]
          /\ UNCHANGED error
       \/ /\ calls[i].answer = "failed"
          /\ error' = TRUE
          /\ UNCHANGED data
    /\ loading' = FALSE
    /\ calls' = Closed(i)
    /\ UNCHANGED <<version, session, expired, view, path, due, busy, dialog, seen, clicks>>

\* Mutant of ButtonFreed: only a success frees the button.
ButtonKept(i) == IF calls[i].answer = "ok" THEN NoButton ELSE busy

\* finally: setBusy(null), whichever button is busy by now.
ButtonFreed(i) == NoButton

\* After a success the page reads anew, or a deleted tenant's page is left for
\* the tenants; a failure is shown and changes nothing.
Acted(i) ==
    /\ Replied(i)
    /\ calls[i].kind = "post" /\ calls[i].owner = "page"
    /\ \/ /\ calls[i].answer = "ok"
          /\ seen' = IF seen < calls[i].version THEN calls[i].version ELSE seen
          /\ \/ /\ view = "detail" /\ calls[i].button = Delete
                /\ calls' = Disowned(Closed(i))
                /\ \E p \in Paths : Mount("tenants", p)
             \/ /\ ~(view = "detail" /\ calls[i].button = Delete)
                /\ calls' = Closed(i)
                /\ due' = TRUE
                /\ busy' = ButtonFreed(i)
                /\ UNCHANGED <<view, path, data, error, loading, dialog>>
       \/ /\ calls[i].answer = "failed"
          /\ calls' = Closed(i)
          /\ busy' = ButtonFreed(i)
          /\ UNCHANGED <<seen, view, hook, dialog>>
    /\ UNCHANGED <<version, session, expired, clicks>>

\* onCreated closes the dialog that is open by now, whichever it is, and the
\* page reads anew; a failure is shown in the dialog if that is still there.
Created(i) ==
    /\ Replied(i)
    /\ calls[i].kind = "create" /\ calls[i].owner \in {"page", "closed"}
    /\ \/ /\ calls[i].answer = "ok"
          /\ seen' = IF seen < calls[i].version THEN calls[i].version ELSE seen
          /\ due' = TRUE
          /\ dialog' = "closed"
          /\ calls' = Closing(Closed(i))
       \/ /\ calls[i].answer = "failed"
          /\ dialog' = IF calls[i].owner = "page" THEN "open" ELSE dialog
          /\ calls' = Closed(i)
          /\ UNCHANGED <<seen, due>>
    /\ UNCHANGED <<version, session, expired, view, path, data, error, loading, busy, clicks>>

\* onSubmit: the token is stored and the home page follows, or the form says why not.
LoggedIn(i) ==
    /\ Replied(i)
    /\ calls[i].kind = "login" /\ calls[i].owner = "page"
    /\ calls' = Closed(i)
    /\ \/ /\ calls[i].answer = "ok"
          /\ session' = clicks + 1
          /\ \E p \in Paths : Mount("read", p)
       \/ /\ calls[i].answer # "ok"
          /\ error' = TRUE
          /\ loading' = FALSE
          /\ UNCHANGED <<session, view, path, due, data, busy, dialog>>
    /\ UNCHANGED <<version, expired, seen, clicks>>

-----------------------------------------------------------------------------
(***************************************************************************)
(* The rest of the world.                                                  *)
(***************************************************************************)

\* An agent or another admin writes.
OthersWrite ==
    /\ version < MaxVersion
    /\ version' = version + 1
    /\ UNCHANGED <<session, expired, page, calls, seen, clicks>>

\* The token of the session reaches its expiry.
Expire ==
    /\ "expire" \in Faults
    /\ session # 0
    /\ session \notin expired
    /\ expired' = expired \cup {session}
    /\ UNCHANGED <<version, session, page, calls, seen, clicks>>

-----------------------------------------------------------------------------
\* The tab is opened: at the login page, or at any page with the token that an
\* earlier visit left in localStorage.
Init ==
    /\ version = 0
    /\ expired = {}
    /\ session \in {0, 1}
    /\ view \in (IF session = 0 THEN {"login"} ELSE Pages)
    /\ due = (session # 0)
    /\ loading = (session # 0)
    /\ path \in Paths
    /\ data = NoData
    /\ error = FALSE
    /\ busy = NoButton
    /\ dialog = "closed"
    /\ calls = <<>>
    /\ seen = 0
    /\ clicks = 0

UserStep ==
    \/ SubmitLogin
    \/ \E p \in Paths : SetFilter(p)
    \/ \E v \in Pages, p \in Paths : Visit(v, p)
    \/ Logout
    \/ \E b \in Buttons : Click(b)
    \/ OpenDialog \/ SubmitDialog \/ CloseDialog

CallStep(i) ==
    Serve(i) \/ Refused(i) \/ Ignored(i) \/ Fetched(i) \/ Acted(i) \/ Created(i) \/ LoggedIn(i)

Next ==
    \/ UserStep
    \/ RunEffect
    \/ \E i \in DOMAIN calls : CallStep(i)
    \/ OthersWrite
    \/ Expire

Spec == Init /\ [][Next]_cvars

\* Effects run after every render, and every call is answered or rejected; the
\* user need not do anything.  Each click leads to at most two calls.
FairSpec ==
    /\ Spec
    /\ WF_cvars(RunEffect)
    /\ \A i \in 1 .. 2 * MaxClicks + 1 : WF_cvars(CallStep(i))

-----------------------------------------------------------------------------
(***************************************************************************)
(* Properties.                                                             *)
(***************************************************************************)

\* Every variable has its type, a page other than the login is shown with a token
\* only, and nothing that was read or seen is newer than the data.
TypeOK ==
    /\ version \in Nat /\ seen \in 0 .. version
    /\ clicks \in 0 .. MaxClicks
    /\ session \in 0 .. MaxClicks + 1
    /\ expired \subseteq 1 .. MaxClicks + 1
    /\ view \in Pages \cup {"login"}
    /\ view # "login" => session # 0
    /\ path \in Paths
    /\ data \in {NoData} \cup [path : Paths, version : 0 .. version]
    /\ due \in BOOLEAN /\ error \in BOOLEAN /\ loading \in BOOLEAN
    /\ busy \in Buttons \cup {NoButton}
    /\ dialog \in {"closed", "open", "busy"}
    /\ calls \in Seq(Call \cup {Over})
    /\ Len(calls) <= 2 * MaxClicks + 1

\* The page at rest (its effect has run, nothing loads, no error is shown) shows
\* data of its own path that is as new as everything the user saw succeed,
\* whatever replies of earlier paths, clicks or pages are still to come.
RestIsFresh ==
    view # "login" /\ ~due /\ ~loading /\ ~error =>
        /\ data # NoData
        /\ data.path = path
        /\ data.version >= seen

\* What is busy waits for a call of its own: no button is disabled for good,
\* although the reply to any click frees whichever button is busy, and a dialog
\* that is busy has its creation on the way, whatever earlier dialogs sent.
BusyIsPending ==
    /\ busy # NoButton => \E i \in Own("post") : calls[i].button = busy
    /\ dialog = "busy" => Own("create") # {}

\* The detail page has one action on its way at a time, so a tenant's actions
\* reach runAction one after the other as long as the admin stays on its page;
\* a dialog creates one tenant, and the login form one session, at a time.
OneActionAtATime ==
    /\ view = "detail" => Cardinality(Own("post")) <= 1
    /\ Cardinality(Own("create")) <= 1
    /\ Cardinality(Own("login")) <= 1

\* A session ends only when its user logs out, or for a call that was made in a
\* session that has expired: this one, or one before it whose calls run on after
\* the login.  The API's failures, and a login that another visit started, do not
\* end it.
SessionKept ==
    [][session # 0 /\ session' # session =>
          \/ session' = 0 /\ clicks' # clicks
          \/ session' = 0 /\ \E i \in Pending : calls[i].session \in expired]_cvars

\* The spinner ends, with data, an error or another page; the login form's too.
LoadingEnds == loading ~> ~loading
=============================================================================
