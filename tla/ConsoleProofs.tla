---------------------------- MODULE ConsoleProofs ---------------------------
(***************************************************************************)
(* What holds of Console for every number of pages, buttons, clicks and    *)
(* writes of others.  The invariants say whom an open call belongs to, so  *)
(* that what a reply does to the page follows from what the page still     *)
(* waits for.                                                              *)
(***************************************************************************)
EXTENDS Console, Integers, SequenceTheorems, FiniteSetTheorems, WellFoundedInduction, TLAPS

Calls == Seq(Call \cup {Over})

\* Everything but the calls.
TabOK ==
    /\ version \in Nat /\ seen \in 0 .. version
    /\ clicks \in 0 .. MaxClicks
    /\ session \in 0 .. clicks + 1
    /\ expired \subseteq 1 .. clicks + 1
    /\ view \in Pages \cup {"login"}
    /\ path \in Paths
    /\ data \in {NoData} \cup [path : Paths, version : 0 .. version]
    /\ due \in BOOLEAN /\ error \in BOOLEAN /\ loading \in BOOLEAN
    /\ busy \in Buttons \cup {NoButton}
    /\ dialog \in {"closed", "open", "busy"}

\* A call holds no later version than the API has, a path if its effect is in
\* force, and a refusal only of a session that has expired.
Sound(c) ==
    /\ c.version <= version
    /\ c.kind = "get" /\ c.owner = "page" => c.path \in Paths
    /\ c.kind # "login" /\ c.answer = "refused" => c.session \in expired

CallsOK ==
    /\ calls \in Calls
    /\ \A i \in Pending : Sound(calls[i])

\* The calls that may still make an effect run.
Stirring(cs) == {i \in DOMAIN cs : cs[i] # Over /\ cs[i].kind # "get"}

Due == IF due THEN 1 ELSE 0

\* Every click leads to two calls at most: its own, and that of the effect which
\* runs for the reply.
Budget ==
    /\ IsFiniteSet(Stirring(calls))
    /\ Len(calls) + Cardinality(Stirring(calls)) + Due <= 2 * clicks + 1

(***************************************************************************)
(* The login page is shown without a session and has nothing of another    *)
(* page: no effect, no busy button, no dialog, and no call of theirs.      *)
(***************************************************************************)
LoginAlone ==
    IF view = "login"
    THEN /\ session = 0
         /\ ~due /\ busy = NoButton /\ dialog = "closed"
         /\ \A i \in Pending : calls[i].owner \in {"page", "closed"} => calls[i].kind = "login"
    ELSE session # 0 /\ Own("login") = {}

\* Who waits for a call has at most one, and is marked so.
AtMostOne(S) == \A i, j \in S : i = j

OneEach ==
    /\ view = "detail" => AtMostOne(Own("post"))
    /\ view = "detail" /\ busy = NoButton => Own("post") = {}
    /\ AtMostOne(Own("create"))
    /\ dialog # "busy" => Own("create") = {}
    /\ AtMostOne(Own("login"))
    /\ view = "login" /\ ~loading => Own("login") = {}

\* Once the effect has run, the fetch in force is of the page's path, and what it
\* will return is as new as what the user has seen.
FetchIsFresh ==
    view # "login" /\ ~due =>
        \A i \in Own("get") :
            /\ calls[i].path = path
            /\ calls[i].answer = "ok" => calls[i].version >= seen

TypeInv == TabOK /\ CallsOK

-----------------------------------------------------------------------------
(***************************************************************************)
(* What the helpers do to the calls.                                       *)
(***************************************************************************)

\* d is what is left of call c: what it is and holds of the API stays, and it is
\* the page's only if it is all there.
Inherits(c, d) ==
    /\ d \in Call
    /\ d.kind = c.kind /\ d.session = c.session /\ d.answer = c.answer
    /\ d.version <= c.version
    /\ d.owner = "page" => d = c
    /\ d.owner = "closed" => c.owner \in {"page", "closed"}

\* The calls go on, some of them belonging to nobody any more or over.
Shrinks(cs, ds) ==
    /\ ds \in Calls
    /\ DOMAIN ds = DOMAIN cs /\ Len(ds) = Len(cs)
    /\ \A i \in DOMAIN cs : ds[i] = Over \/ (cs[i] # Over /\ Inherits(cs[i], ds[i]))

\* c takes a slot that was free.
Joins(cs, ds, c) ==
    /\ ds \in Calls
    /\ \E n \in Nat :
          /\ n \in DOMAIN cs => cs[n] = Over
          /\ DOMAIN ds = DOMAIN cs \cup {n}
          /\ ds[n] = c
          /\ \A i \in DOMAIN cs : i # n => ds[i] = cs[i]
          /\ Len(ds) <= Len(cs) + 1

\* A non-empty set of numbers has a least one.
LEMMA Least ==
  ASSUME NEW S \in SUBSET Nat, S # {}
  PROVE  \E m \in S : \A n \in S : m <= n
<1> DEFINE R == OpToRel(<, Nat)
<1>1. IsWellFoundedOn(R, Nat)  BY NatLessThanWellFounded
<1>2. ASSUME NEW x \in Nat, NEW y \in Nat, x < y PROVE <<x, y>> \in R
  BY <1>2 DEF OpToRel
<1> HIDE DEF R
<1>3. PICK m \in S : \A n \in S : <<n, m>> \notin R  BY <1>1, WFMin
<1>4. ASSUME NEW n \in S PROVE m <= n
  <2>1. ~(n < m)  BY <1>2, <1>3
  <2>2. n \in Nat /\ m \in Nat  OBVIOUS
  <2> QED  BY <2>1, <2>2
<1> QED  BY <1>4

\* A call is not an empty slot.
LEMMA CallIsNotOver == \A c \in Call : c # Over
  BY DEF Call, Over

\* The calls are numbered from one.
LEMMA CallsDomain ==
  ASSUME NEW cs \in Calls
  PROVE  /\ Len(cs) \in Nat /\ DOMAIN cs = 1 .. Len(cs)
         /\ \A i \in DOMAIN cs : cs[i] \in Call \cup {Over}
         /\ \A i \in DOMAIN cs : cs[i] # Over <=> cs[i] \in Call
<1>1. /\ Len(cs) \in Nat /\ DOMAIN cs = 1 .. Len(cs)
      /\ cs \in [1 .. Len(cs) -> Call \cup {Over}]
  BY LenProperties DEF Calls
<1> QED  BY <1>1, CallIsNotOver

\* Calls that are rewritten slot by slot are calls again.
LEMMA Rewritten ==
  ASSUME NEW cs \in Calls, NEW ds, ds \in [DOMAIN cs -> Call \cup {Over}]
  PROVE  ds \in Calls /\ DOMAIN ds = DOMAIN cs /\ Len(ds) = Len(cs)
<1>1. Len(cs) \in Nat /\ DOMAIN cs = 1 .. Len(cs)  BY CallsDomain
<1>2. ds \in Seq(Call \cup {Over})  BY <1>1, SeqDef
<1>3. Len(ds) = Len(cs)  BY <1>1, <1>2, LenProperties
<1> QED  BY <1>1, <1>2, <1>3 DEF Calls

\* With puts the new call into a slot that was free.
LEMMA WithJoins ==
  ASSUME NEW cs \in Calls, NEW c \in Call
  PROVE  Joins(cs, With(cs, c), c)
<1> DEFINE free == {i \in DOMAIN cs : cs[i] = Over}
<1>1. Len(cs) \in Nat /\ DOMAIN cs = 1 .. Len(cs)  BY CallsDomain
<1>2. CASE free = {}
  <2>1. With(cs, c) = Append(cs, c)  BY <1>2 DEF With
  <2> DEFINE ds == Append(cs, c)
             n == Len(cs) + 1
  <2>2. /\ ds \in Seq(Call \cup {Over}) /\ Len(ds) = n
        /\ \A i \in 1 .. Len(cs) : ds[i] = cs[i]
        /\ ds[n] = c
    BY AppendProperties DEF Calls
  <2>3. DOMAIN ds = 1 .. n  BY <2>2, LenProperties
  <2> HIDE DEF ds
  <2>4. n \in Nat /\ n \notin DOMAIN cs /\ DOMAIN ds = DOMAIN cs \cup {n}
    BY <1>1, <2>3
  <2>5. Joins(cs, ds, c)  BY <1>1, <2>2, <2>4 DEF Joins, Calls
  <2> QED  BY <2>1, <2>5 DEF ds
<1>3. CASE free # {}
  <2> DEFINE n == CHOOSE i \in free : \A j \in free : i <= j
             ds == [cs EXCEPT ![n] = c]
  <2>1. free \in SUBSET Nat  BY <1>1
  <2>2. \E i \in free : \A j \in free : i <= j  BY <1>3, <2>1, Least
  <2>3. n \in free  BY <2>2
  <2>4. With(cs, c) = ds  BY <1>3 DEF With
  <2> HIDE DEF n
  <2>5. n \in DOMAIN cs /\ cs[n] = Over /\ n \in Nat  BY <1>1, <2>3
  <2>6. ds \in [DOMAIN cs -> Call \cup {Over}]  BY <2>5, CallsDomain
  <2>7. ds[n] = c /\ \A i \in DOMAIN cs : i # n => ds[i] = cs[i]  BY <2>5, CallsDomain
  <2> HIDE DEF ds
  <2>8. ds \in Calls /\ DOMAIN ds = DOMAIN cs /\ Len(ds) = Len(cs)  BY <2>6, Rewritten
  <2>9. DOMAIN ds = DOMAIN cs \cup {n} /\ Len(ds) <= Len(cs) + 1  BY <1>1, <2>5, <2>8
  <2>10. Joins(cs, ds, c)  BY <2>5, <2>7, <2>8, <2>9 DEF Joins
  <2> QED  BY <2>4, <2>10
<1> QED  BY <1>2, <1>3

\* What is left of a dropped call.
LEMMA DroppedInherits ==
  ASSUME NEW c \in Call, c.version \in Nat, NEW o \in {"nobody", "gone"}
  PROVE  Inherits(c, Dropped(c, o)) /\ Dropped(c, o).owner = o
<1>1. [c EXCEPT !.owner = o] \in Call  BY DEF Call
<1>2. [c EXCEPT !.owner = o, !.path = "none"] \in Call  BY <1>1 DEF Call
<1>3. [c EXCEPT !.owner = o, !.path = "none", !.button = NoButton] \in Call
  BY <1>2 DEF Call
<1>4. Dropped(c, o) \in Call  BY <1>3 DEF Call, Dropped
<1>5. /\ Dropped(c, o).owner = o /\ Dropped(c, o).kind = c.kind
      /\ Dropped(c, o).session = c.session /\ Dropped(c, o).answer = c.answer
      /\ Dropped(c, o).version = 0
  BY DEF Dropped, Call
<1> QED  BY <1>4, <1>5 DEF Inherits

\* A call is all that is left of itself.
LEMMA InheritsItself ==
  ASSUME NEW c \in Call
  PROVE  Inherits(c, c)
  BY DEF Inherits, Call

\* Calls that go on twice go on.
LEMMA ShrinksTwice ==
  ASSUME NEW cs \in Calls, NEW ds, NEW es, Shrinks(cs, ds), Shrinks(ds, es)
  PROVE  Shrinks(cs, es)
<1>1. DOMAIN es = DOMAIN cs /\ es \in Calls /\ Len(es) = Len(cs)  BY DEF Shrinks
<1>2. ASSUME NEW i \in DOMAIN cs, es[i] # Over PROVE cs[i] # Over /\ Inherits(cs[i], es[i])
  <2>1. ds[i] # Over /\ Inherits(ds[i], es[i])  BY <1>2 DEF Shrinks
  <2>2. cs[i] # Over /\ Inherits(cs[i], ds[i])  BY <2>1 DEF Shrinks
  <2>3. cs[i] \in Call /\ ds[i] \in Call /\ es[i] \in Call
    BY <2>1, <2>2, CallsDomain DEF Inherits
  <2>4. cs[i].version \in Nat /\ ds[i].version \in Nat /\ es[i].version \in Nat
    BY <2>3 DEF Call
  <2> QED  BY <2>1, <2>2, <2>4 DEF Inherits
<1> QED  BY <1>1, <1>2 DEF Shrinks

\* The calls of a page that unmounts belong to nobody.
LEMMA DisownedShrinks ==
  ASSUME NEW cs \in Calls
  PROVE  /\ Shrinks(cs, Disowned(cs))
         /\ \A i \in DOMAIN cs :
               Disowned(cs)[i] # Over => Disowned(cs)[i].owner \notin {"page", "closed"}
<1> DEFINE ds == Disowned(cs)
           Which(c) == c.owner \in {"page", "closed"}
<1>1. /\ DOMAIN ds = DOMAIN cs
      /\ \A i \in DOMAIN cs :
            ds[i] = IF cs[i] # Over /\ Which(cs[i]) THEN Dropped(cs[i], "nobody") ELSE cs[i]
  BY DEF Disowned, DropEach
<1>2. ds = [i \in DOMAIN cs |-> ds[i]]
  BY DEF Disowned, DropEach
<1> HIDE DEF ds
<1>3. ASSUME NEW i \in DOMAIN cs, cs[i] # Over
      PROVE  /\ ds[i] \in Call /\ Inherits(cs[i], ds[i])
             /\ Which(cs[i]) => ds[i].owner = "nobody"
  <2>1. cs[i] \in Call  BY <1>3, CallsDomain
  <2>2. cs[i].version \in Nat  BY <2>1 DEF Call
  <2>3. Inherits(cs[i], Dropped(cs[i], "nobody")) /\ Dropped(cs[i], "nobody").owner = "nobody"
    BY <2>1, <2>2, DroppedInherits
  <2>4. Inherits(cs[i], cs[i])  BY <2>1, InheritsItself
  <2> QED  BY <1>1, <1>3, <2>3, <2>4 DEF Inherits
<1>4. ASSUME NEW i \in DOMAIN cs PROVE ds[i] \in Call \cup {Over}
  BY <1>1, <1>3
<1>5. ds \in Calls /\ Len(ds) = Len(cs)  BY <1>1, <1>2, <1>4, Rewritten
<1>6. \A i \in DOMAIN cs : ds[i] = Over \/ (cs[i] # Over /\ Inherits(cs[i], ds[i]))
  BY <1>1, <1>3
<1>7. Shrinks(cs, ds)  BY <1>1, <1>5, <1>6 DEF Shrinks
<1> QED  BY <1>1, <1>3, <1>7 DEF ds

\* Those of a tab that is loaded anew are all gone.
LEMMA UnloadedShrinks ==
  ASSUME NEW cs \in Calls
  PROVE  /\ Shrinks(cs, Unloaded(cs))
         /\ \A i \in DOMAIN cs : Unloaded(cs)[i] # Over => Unloaded(cs)[i].owner = "gone"
<1> DEFINE ds == Unloaded(cs)
           Which(c) == TRUE
<1>1. /\ DOMAIN ds = DOMAIN cs
      /\ \A i \in DOMAIN cs :
            ds[i] = IF cs[i] # Over /\ Which(cs[i]) THEN Dropped(cs[i], "gone") ELSE cs[i]
  BY DEF Unloaded, DropEach
<1>2. ds = [i \in DOMAIN cs |-> ds[i]]
  BY DEF Unloaded, DropEach
<1> HIDE DEF ds
<1>3. ASSUME NEW i \in DOMAIN cs, cs[i] # Over
      PROVE  /\ ds[i] \in Call /\ Inherits(cs[i], ds[i])
             /\ Which(cs[i]) => ds[i].owner = "gone"
  <2>1. cs[i] \in Call  BY <1>3, CallsDomain
  <2>2. cs[i].version \in Nat  BY <2>1 DEF Call
  <2>3. Inherits(cs[i], Dropped(cs[i], "gone")) /\ Dropped(cs[i], "gone").owner = "gone"
    BY <2>1, <2>2, DroppedInherits
  <2>4. Inherits(cs[i], cs[i])  BY <2>1, InheritsItself
  <2> QED  BY <1>1, <1>3, <2>3, <2>4 DEF Inherits
<1>4. ASSUME NEW i \in DOMAIN cs PROVE ds[i] \in Call \cup {Over}
  BY <1>1, <1>3
<1>5. ds \in Calls /\ Len(ds) = Len(cs)  BY <1>1, <1>2, <1>4, Rewritten
<1>6. \A i \in DOMAIN cs : ds[i] = Over \/ (cs[i] # Over /\ Inherits(cs[i], ds[i]))
  BY <1>1, <1>3
<1>7. Shrinks(cs, ds)  BY <1>1, <1>5, <1>6 DEF Shrinks
<1> QED  BY <1>1, <1>3, <1>7 DEF ds

\* The cleanup of the effect leaves no fetch in force, and all else as it is.
LEMMA CancelledShrinks ==
  ASSUME NEW cs \in Calls
  PROVE  /\ Shrinks(cs, Cancelled(cs))
         /\ \A i \in DOMAIN cs :
               /\ Cancelled(cs)[i] = Over <=> cs[i] = Over
               /\ Cancelled(cs)[i] # Over =>
                     ~(Cancelled(cs)[i].kind = "get" /\ Cancelled(cs)[i].owner = "page")
               /\ cs[i] # Over /\ cs[i].kind # "get" => Cancelled(cs)[i] = cs[i]
<1> DEFINE ds == Cancelled(cs)
           Which(c) == c.kind = "get" /\ c.owner = "page"
<1>1. /\ DOMAIN ds = DOMAIN cs
      /\ \A i \in DOMAIN cs :
            ds[i] = IF cs[i] # Over /\ Which(cs[i]) THEN Dropped(cs[i], "nobody") ELSE cs[i]
  BY DEF Cancelled, DropEach
<1>2. ds = [i \in DOMAIN cs |-> ds[i]]
  BY DEF Cancelled, DropEach
<1> HIDE DEF ds
<1>3. ASSUME NEW i \in DOMAIN cs, cs[i] # Over
      PROVE  /\ ds[i] \in Call /\ Inherits(cs[i], ds[i])
             /\ Which(cs[i]) => ds[i].owner = "nobody"
  <2>1. cs[i] \in Call  BY <1>3, CallsDomain
  <2>2. cs[i].version \in Nat  BY <2>1 DEF Call
  <2>3. Inherits(cs[i], Dropped(cs[i], "nobody")) /\ Dropped(cs[i], "nobody").owner = "nobody"
    BY <2>1, <2>2, DroppedInherits
  <2>4. Inherits(cs[i], cs[i])  BY <2>1, InheritsItself
  <2> QED  BY <1>1, <1>3, <2>3, <2>4 DEF Inherits
<1>4. ASSUME NEW i \in DOMAIN cs PROVE ds[i] \in Call \cup {Over}
  BY <1>1, <1>3
<1>5. ds \in Calls /\ Len(ds) = Len(cs)  BY <1>1, <1>2, <1>4, Rewritten
<1>6. \A i \in DOMAIN cs : ds[i] = Over \/ (cs[i] # Over /\ Inherits(cs[i], ds[i]))
  BY <1>1, <1>3
<1>7. Shrinks(cs, ds)  BY <1>1, <1>5, <1>6 DEF Shrinks
<1>8. ASSUME NEW i \in DOMAIN cs
      PROVE  /\ ds[i] = Over <=> cs[i] = Over
             /\ ds[i] # Over => ~(ds[i].kind = "get" /\ ds[i].owner = "page")
             /\ cs[i] # Over /\ cs[i].kind # "get" => ds[i] = cs[i]
  BY <1>1, <1>3, CallIsNotOver
<1> QED  BY <1>7, <1>8 DEF ds

\* A dialog that closes leaves no creation in force, and all else as it is.
LEMMA ClosingShrinks ==
  ASSUME NEW cs \in Calls
  PROVE  /\ Shrinks(cs, Closing(cs))
         /\ \A i \in DOMAIN cs :
               /\ Closing(cs)[i] # Over =>
                     ~(Closing(cs)[i].kind = "create" /\ Closing(cs)[i].owner = "page")
               /\ cs[i] # Over /\ cs[i].kind # "create" => Closing(cs)[i] = cs[i]
               /\ Closing(cs)[i] # Over /\ Closing(cs)[i].owner = "closed" =>
                     cs[i] # Over /\ cs[i].owner \in {"page", "closed"}
<1> DEFINE ds == Closing(cs)
           Which(c) == c.kind = "create" /\ c.owner = "page"
<1>1. /\ DOMAIN ds = DOMAIN cs
      /\ \A i \in DOMAIN cs :
            ds[i] = IF cs[i] # Over /\ Which(cs[i]) THEN [cs[i] EXCEPT !.owner = "closed"] ELSE cs[i]
  BY DEF Closing
<1>2. ds = [i \in DOMAIN cs |-> ds[i]]  BY DEF Closing
<1> HIDE DEF ds
<1>3. ASSUME NEW i \in DOMAIN cs, cs[i] # Over
      PROVE  /\ ds[i] \in Call /\ Inherits(cs[i], ds[i])
             /\ Which(cs[i]) => ds[i].owner = "closed"
  <2>1. cs[i] \in Call  BY <1>3, CallsDomain
  <2>2. cs[i].version \in Nat  BY <2>1 DEF Call
  <2> DEFINE d == [cs[i] EXCEPT !.owner = "closed"]
  <2>3. /\ d \in Call /\ d.owner = "closed" /\ d.kind = cs[i].kind /\ d.session = cs[i].session
        /\ d.answer = cs[i].answer /\ d.version = cs[i].version
    BY <2>1 DEF Call
  <2>4. Inherits(cs[i], cs[i])  BY <2>1, InheritsItself
  <2> HIDE DEF d
  <2>5. ds[i] = IF Which(cs[i]) THEN d ELSE cs[i]  BY <1>1, <1>3 DEF d
  <2>6. cs[i].owner = "page" => Inherits(cs[i], d)  BY <2>2, <2>3 DEF Inherits
  <2> QED  BY <2>1, <2>3, <2>4, <2>5, <2>6
<1>4. ASSUME NEW i \in DOMAIN cs PROVE ds[i] \in Call \cup {Over}
  BY <1>1, <1>3
<1>5. ds \in Calls /\ Len(ds) = Len(cs)  BY <1>1, <1>2, <1>4, Rewritten
<1>6. \A i \in DOMAIN cs : ds[i] = Over \/ (cs[i] # Over /\ Inherits(cs[i], ds[i]))
  BY <1>1, <1>3
<1>7. Shrinks(cs, ds)  BY <1>1, <1>5, <1>6 DEF Shrinks
<1>8. ASSUME NEW i \in DOMAIN cs
      PROVE  /\ ds[i] # Over => ~(ds[i].kind = "create" /\ ds[i].owner = "page")
             /\ cs[i] # Over /\ cs[i].kind # "create" => ds[i] = cs[i]
             /\ ds[i] # Over /\ ds[i].owner = "closed" =>
                   cs[i] # Over /\ cs[i].owner \in {"page", "closed"}
  BY <1>1, <1>3, CallIsNotOver
<1> QED  BY <1>7, <1>8 DEF ds

\* A call that is answered for frees its slot.
LEMMA ClosedShrinks ==
  ASSUME calls \in Calls, NEW i \in Pending
  PROVE  /\ Shrinks(calls, Closed(i))
         /\ Closed(i)[i] = Over
         /\ \A j \in DOMAIN calls : j # i => Closed(i)[j] = calls[j]
<1> DEFINE ds == Closed(i)
<1>1. i \in DOMAIN calls  BY DEF Pending
<1>2. /\ ds \in [DOMAIN calls -> Call \cup {Over}] /\ ds[i] = Over
      /\ \A j \in DOMAIN calls : j # i => ds[j] = calls[j]
  BY <1>1, CallsDomain DEF Closed
<1> HIDE DEF ds
<1>3. ds \in Calls /\ DOMAIN ds = DOMAIN calls /\ Len(ds) = Len(calls)  BY <1>2, Rewritten
<1>4. ASSUME NEW j \in DOMAIN calls, ds[j] # Over
      PROVE  calls[j] # Over /\ Inherits(calls[j], ds[j])
  <2>1. ds[j] = calls[j]  BY <1>2, <1>4
  <2>2. calls[j] \in Call  BY <1>4, <2>1, CallsDomain
  <2> QED  BY <1>4, <2>1, <2>2, InheritsItself
<1>5. Shrinks(calls, ds)  BY <1>3, <1>4 DEF Shrinks
<1> QED  BY <1>2, <1>5 DEF ds

-----------------------------------------------------------------------------
(***************************************************************************)
(* New calls.                                                              *)
(***************************************************************************)

\* c is a call that was made just now, by the page.
New(c, kind) ==
    /\ c \in Call /\ c.kind = kind /\ c.owner = "page" /\ c.answer = "none"
    /\ c.pc = "request" /\ c.version = 0

\* The fetch of the effect is of the path that was rendered.
LEMMA GetIsNew ==
  ASSUME TabOK
  PROVE  New(Get, "get") /\ Get.path = path
<1>1. session \in Nat  BY DEF TabOK
<1>2. path \in Paths  BY DEF TabOK
<1> QED  BY <1>1, <1>2 DEF New, Get, Call

\* The call of a button knows its button.
LEMMA PostIsNew ==
  ASSUME TabOK, NEW b \in Buttons \cup {NoButton}
  PROVE  New(Post(b), "post") /\ Post(b).button = b
<1>1. New(Get, "get")  BY GetIsNew
<1>2. [Get EXCEPT !.kind = "post"] \in Call  BY <1>1 DEF New, Call
<1>3. [Get EXCEPT !.kind = "post", !.button = b] \in Call  BY <1>2 DEF Call
<1>4. Post(b) \in Call  BY <1>3 DEF Call, Post
<1>5. /\ Post(b).kind = "post" /\ Post(b).button = b /\ Post(b).owner = "page"
      /\ Post(b).answer = "none" /\ Post(b).pc = "request" /\ Post(b).version = 0
  BY DEF Post, Get
<1> QED  BY <1>4, <1>5 DEF New

\* So are the calls of the dialog and of the login form.
LEMMA FormsAreNew ==
  ASSUME TabOK
  PROVE  New(Create, "create") /\ New(Authenticate, "login")
<1>1. New(Post(NoButton), "post")  BY PostIsNew
<1>2. \A kind \in {"create", "login"} : New([Post(NoButton) EXCEPT !.kind = kind], kind)
  BY <1>1 DEF New, Call
<1> QED  BY <1>2 DEF Create, Authenticate

-----------------------------------------------------------------------------
(***************************************************************************)
(* Types, and what a call may hold.                                        *)
(***************************************************************************)

\* CallsOK of any calls.
Sounds(cs) ==
    /\ cs \in Calls
    /\ \A i \in DOMAIN cs : cs[i] # Over => Sound(cs[i])

\* CallsOK, in these words.
LEMMA CallsOKIs == CallsOK <=> Sounds(calls)
  BY DEF CallsOK, Sounds, Pending

\* What goes on holds nothing new.
LEMMA ShrinkSounds ==
  ASSUME version \in Nat, NEW cs, NEW ds, Sounds(cs), Shrinks(cs, ds)
  PROVE  Sounds(ds)
<1>1. ASSUME NEW i \in DOMAIN ds, ds[i] # Over PROVE Sound(ds[i])
  <2>1. i \in DOMAIN cs /\ cs[i] # Over /\ Inherits(cs[i], ds[i])  BY <1>1 DEF Shrinks
  <2>2. Sound(cs[i]) /\ cs[i] \in Call  BY <2>1, CallsDomain DEF Sounds
  <2>3. cs[i].version \in Nat /\ ds[i].version \in Nat
    BY <2>1, <2>2 DEF Call, Inherits
  <2> QED  BY <2>1, <2>2, <2>3 DEF Sound, Inherits
<1> QED  BY <1>1 DEF Sounds, Shrinks

\* A new call holds nothing but its path.
LEMMA JoinSounds ==
  ASSUME version \in Nat, NEW cs, NEW ds, NEW c, NEW kind, New(c, kind), Sounds(cs),
         Joins(cs, ds, c), kind = "get" => c.path \in Paths
  PROVE  Sounds(ds)
<1>1. Sound(c)  BY DEF Sound, New
<1>2. \A i \in DOMAIN ds : ds[i] = c \/ (i \in DOMAIN cs /\ ds[i] = cs[i])
  BY DEF Joins
<1> QED  BY <1>1, <1>2 DEF Sounds, Joins

\* What is sound stays so while the data grows newer and tokens expire.
LEMMA SoundLater ==
  ASSUME version \in Nat, version' \in Nat, version <= version', expired \subseteq expired',
         Sounds(calls')
  PROVE  CallsOK'
<1>1. ASSUME NEW i \in DOMAIN calls', calls'[i] # Over PROVE Sound(calls[i])'
  <2>1. Sound(calls'[i])  BY <1>1 DEF Sounds
  <2>2. calls'[i] \in Call  BY <1>1, CallsDomain DEF Sounds
  <2>3. calls'[i].version \in Nat  BY <2>2 DEF Call
  <2> QED  BY <2>1, <2>3 DEF Sound
<1> QED  BY <1>1 DEF CallsOK, Sounds, Pending

\* The calls of a step that makes none and writes none are sound.
LEMMA ShrinkOK ==
  ASSUME TypeInv, Shrinks(calls, calls'), UNCHANGED <<version, expired>>
  PROVE  CallsOK'
  BY CallsOKIs, ShrinkSounds, SoundLater DEF TypeInv, TabOK

\* So are those of a step that makes one.
LEMMA JoinOK ==
  ASSUME TypeInv, NEW c, NEW kind, New(c, kind), kind # "get", Joins(calls, calls', c),
         UNCHANGED <<version, expired>>
  PROVE  CallsOK'
  BY CallsOKIs, JoinSounds, SoundLater DEF TypeInv, TabOK

\* At first there is no call.
LEMMA InitType == Init => TypeInv
<1> SUFFICES ASSUME Init PROVE TypeInv
  OBVIOUS
<1>1. /\ version \in Nat /\ seen \in 0 .. version
      /\ clicks \in 0 .. MaxClicks
      /\ session \in 0 .. clicks + 1
      /\ expired \subseteq 1 .. clicks + 1
      /\ path \in Paths
      /\ data \in {NoData} \cup [path : Paths, version : 0 .. version]
      /\ busy \in Buttons \cup {NoButton}
      /\ dialog \in {"closed", "open", "busy"}
  BY ConsoleAssumption DEF Init
<1>2. due \in BOOLEAN /\ error \in BOOLEAN /\ loading \in BOOLEAN  BY Zenon DEF Init
<1>3. view \in Pages \cup {"login"}  BY DEF Init
<1>4. CallsOK  BY DEF Init, CallsOK, Calls, Pending
<1> QED  BY <1>1, <1>2, <1>3, <1>4 DEF TypeInv, TabOK

\* The fields of a mounted page.
LEMMA MountType ==
  ASSUME NEW v \in Pages, NEW p \in Paths, Mount(v, p)
  PROVE  /\ view' \in Pages \cup {"login"} /\ path' \in Paths /\ data' = NoData
         /\ due' \in BOOLEAN /\ error' \in BOOLEAN /\ loading' \in BOOLEAN
         /\ busy' \in Buttons \cup {NoButton} /\ dialog' \in {"closed", "open", "busy"}
<1>1. due' \in BOOLEAN /\ error' \in BOOLEAN /\ loading' \in BOOLEAN  BY Zenon DEF Mount
<1> QED  BY <1>1 DEF Mount

\* Those of the login page.
LEMMA LoginType ==
  ASSUME TabOK, ShowLogin
  PROVE  /\ view' \in Pages \cup {"login"} /\ path' \in Paths /\ data' = NoData
         /\ due' \in BOOLEAN /\ error' \in BOOLEAN /\ loading' \in BOOLEAN
         /\ busy' \in Buttons \cup {NoButton} /\ dialog' \in {"closed", "open", "busy"}
<1>1. due' \in BOOLEAN /\ error' \in BOOLEAN /\ loading' \in BOOLEAN
  BY Zenon DEF ShowLogin
<1> QED  BY <1>1 DEF ShowLogin, TabOK

-----------------------------------------------------------------------------
(***************************************************************************)
(* What each step does to the calls.                                       *)
(***************************************************************************)

\* No call is the page's or a dialog's any more.
Orphaned == \A i \in Pending' : calls'[i].owner \notin {"page", "closed"}

\* Calls that stay as they are go on.
LEMMA SameShrinks ==
  ASSUME NEW cs \in Calls
  PROVE  Shrinks(cs, cs)
  BY CallsDomain, InheritsItself DEF Shrinks

\* What the user does: one call more, or the calls of what was left.
LEMMA UserMoves ==
  ASSUME TypeInv
  PROVE  /\ SubmitLogin => New(Authenticate, "login") /\ Joins(calls, calls', Authenticate)
         /\ \A b \in Buttons : Click(b) =>
               New(Post(b), "post") /\ Post(b).button = b /\ Joins(calls, calls', Post(b))
         /\ SubmitDialog => New(Create, "create") /\ Joins(calls, calls', Create)
         /\ Logout => Shrinks(calls, calls') /\ Orphaned
         /\ \A v \in Pages, p \in Paths : Visit(v, p) => Shrinks(calls, calls') /\ Orphaned
         /\ CloseDialog => Shrinks(calls, calls')
<1>1. TabOK /\ calls \in Calls  BY DEF TypeInv, CallsOK
<1>2. ASSUME SubmitLogin PROVE New(Authenticate, "login") /\ Joins(calls, calls', Authenticate)
  BY <1>1, <1>2, FormsAreNew, WithJoins DEF SubmitLogin, New
<1>3. ASSUME NEW b \in Buttons, Click(b)
      PROVE  New(Post(b), "post") /\ Post(b).button = b /\ Joins(calls, calls', Post(b))
  BY <1>1, <1>3, PostIsNew, WithJoins DEF Click, New
<1>4. ASSUME SubmitDialog PROVE New(Create, "create") /\ Joins(calls, calls', Create)
  BY <1>1, <1>4, FormsAreNew, WithJoins DEF SubmitDialog, New
<1>5. ASSUME calls' = Disowned(calls) PROVE Shrinks(calls, calls') /\ Orphaned
  BY <1>1, <1>5, DisownedShrinks DEF Orphaned, Pending, Shrinks
<1>6. CloseDialog => Shrinks(calls, calls')
  BY <1>1, ClosingShrinks DEF CloseDialog
<1> QED  BY <1>2, <1>3, <1>4, <1>5, <1>6 DEF Logout, Visit

\* The effect cancels the fetch before it and makes its own.
LEMMA EffectMoves ==
  ASSUME TypeInv, RunEffect
  PROVE  /\ New(Get, "get") /\ Get.path = path
         /\ Cancelled(calls) \in Calls /\ Shrinks(calls, Cancelled(calls))
         /\ Joins(Cancelled(calls), calls', Get)
<1>1. TabOK /\ calls \in Calls  BY DEF TypeInv, CallsOK
<1>2. Cancelled(calls) \in Calls /\ Shrinks(calls, Cancelled(calls))
  BY <1>1, CancelledShrinks DEF Shrinks
<1> QED  BY <1>1, <1>2, GetIsNew, WithJoins DEF RunEffect, New

\* d is c as the API has answered it.
Answered(c, d) ==
    /\ d \in Call /\ d.pc = "reply"
    /\ d.kind = c.kind /\ d.session = c.session /\ d.owner = c.owner /\ d.path = c.path
    /\ d.button = c.button
    /\ [answer |-> d.answer, version |-> d.version] \in Answers(c)
    /\ d.version = version'

\* The API answers one call, which is over then if nobody minds.
Serves(i) ==
    /\ calls' \in Calls /\ DOMAIN calls' = DOMAIN calls /\ Len(calls') = Len(calls)
    /\ \A j \in DOMAIN calls : j # i => calls'[j] = calls[j]
    /\ \/ calls[i].owner \notin {"page", "closed"} /\ calls'[i] = Over
       \/ Answered(calls[i], calls'[i])

\* What an answer says.
LEMMA AnswersAre ==
  ASSUME NEW c, NEW a \in Answers(c), version \in Nat
  PROVE  /\ a.answer \in {"ok", "failed", "refused"}
         /\ a.version \in {version, version + 1}
         /\ c.kind # "login" /\ a.answer = "refused" => c.session \in expired
         /\ a = [answer |-> a.answer, version |-> a.version]
<1>1. CASE a \in {[answer |-> "refused", version |-> version]}
           /\ c.kind # "login" /\ c.session \in expired
  BY <1>1
<1>2. CASE a = [answer |-> "ok", version |-> IF Writes(c) THEN version + 1 ELSE version]
  BY <1>2
<1>3. CASE c.kind = "login" /\ a = [answer |-> "refused", version |-> version]
  BY <1>3
<1>4. CASE \E v \in {version} \cup (IF Writes(c) THEN {version + 1} ELSE {}) :
              a = [answer |-> "failed", version |-> v]
  <2>1. PICK v \in {version, version + 1} : a = [answer |-> "failed", version |-> v]
    BY <1>4
  <2> QED  BY <2>1
<1> QED  BY <1>1, <1>2, <1>3, <1>4 DEF Answers

\* What Serve does.
LEMMA ServeMoves ==
  ASSUME TypeInv, NEW i \in DOMAIN calls, Serve(i)
  PROVE  /\ i \in Pending /\ calls[i] \in Call
         /\ Serves(i)
         /\ version' \in Nat /\ version <= version'
<1>1. calls \in Calls /\ version \in Nat  BY DEF TypeInv, CallsOK, TabOK
<1>2. i \in Pending /\ calls[i] # Over  BY DEF Serve, Pending
<1>3. calls[i] \in Call  BY <1>1, <1>2, CallsDomain
<1> DEFINE c == calls[i]
<1>4. PICK a \in Answers(c) :
         /\ version' = a.version
         /\ calls' = [calls EXCEPT ![i] =
                        IF @.owner = "gone" \/ (@.owner = "nobody" /\ a.answer # "refused") THEN Over
                        ELSE [@ EXCEPT !.pc = "reply", !.answer = a.answer, !.version = a.version]]
  BY DEF Serve
<1>5. /\ a.answer \in {"ok", "failed", "refused"} /\ a.version \in Nat /\ version <= a.version
      /\ a = [answer |-> a.answer, version |-> a.version]
  BY <1>1, AnswersAre
<1> DEFINE d == [c EXCEPT !.pc = "reply", !.answer = a.answer, !.version = a.version]
           new == IF c.owner = "gone" \/ (c.owner = "nobody" /\ a.answer # "refused") THEN Over ELSE d
<1>6. [c EXCEPT !.pc = "reply"] \in Call  BY <1>3 DEF Call
<1>7. [c EXCEPT !.pc = "reply", !.answer = a.answer] \in Call  BY <1>5, <1>6 DEF Call
<1>8. d \in Call  BY <1>5, <1>7 DEF Call
<1>9. /\ d.pc = "reply" /\ d.kind = c.kind /\ d.session = c.session /\ d.owner = c.owner
      /\ d.path = c.path /\ d.button = c.button /\ d.answer = a.answer /\ d.version = a.version
  BY <1>3 DEF Call
<1>10. calls' = [calls EXCEPT ![i] = new]  BY <1>4
<1> HIDE DEF d
<1>11. new = Over \/ new = d  OBVIOUS
<1>12. new = Over => c.owner \notin {"page", "closed"}  BY <1>8, CallIsNotOver
<1>13. Answered(c, d)  BY <1>4, <1>5, <1>8, <1>9 DEF Answered
<1> HIDE DEF new
<1>14. /\ calls' \in [DOMAIN calls -> Call \cup {Over}] /\ calls'[i] = new
       /\ \A j \in DOMAIN calls : j # i => calls'[j] = calls[j]
  BY <1>1, <1>8, <1>10, <1>11, CallsDomain
<1>15. calls' \in Calls /\ DOMAIN calls' = DOMAIN calls /\ Len(calls') = Len(calls)
  BY <1>1, <1>14, Rewritten
<1>16. Serves(i)  BY <1>11, <1>12, <1>13, <1>14, <1>15 DEF Serves
<1> QED  BY <1>2, <1>3, <1>4, <1>5, <1>16

\* A reply closes its call; the rest of what it does only shrinks the calls.
LEMMA ReplyMoves ==
  ASSUME TypeInv, NEW i \in DOMAIN calls, Replied(i)
  PROVE  /\ i \in Pending /\ calls[i] \in Call /\ Sound(calls[i])
         /\ Shrinks(calls, Closed(i)) /\ Closed(i) \in Calls
         /\ Shrinks(Closed(i), Disowned(Closed(i))) /\ Shrinks(Closed(i), Unloaded(Closed(i)))
         /\ Shrinks(Closed(i), Closing(Closed(i))) /\ Shrinks(Closed(i), Closed(i))
         /\ calls' \in {Closed(i), Disowned(Closed(i)), Unloaded(Closed(i)), Closing(Closed(i))}
              => Shrinks(Closed(i), calls') /\ Shrinks(calls, calls')
         /\ calls' \in {Disowned(Closed(i)), Unloaded(Closed(i))} => Orphaned
<1>1. calls \in Calls /\ i \in Pending  BY DEF TypeInv, CallsOK, Replied
<1>2. calls[i] \in Call /\ Sound(calls[i])
  BY <1>1, CallsDomain DEF Pending, TypeInv, CallsOK
<1>3. Shrinks(calls, Closed(i)) /\ Closed(i) \in Calls
  BY <1>1, ClosedShrinks DEF Shrinks
<1>4. /\ Shrinks(Closed(i), Disowned(Closed(i))) /\ Shrinks(Closed(i), Unloaded(Closed(i)))
      /\ Shrinks(Closed(i), Closing(Closed(i))) /\ Shrinks(Closed(i), Closed(i))
  BY <1>3, DisownedShrinks, UnloadedShrinks, ClosingShrinks, SameShrinks
<1>5. ASSUME calls' \in {Closed(i), Disowned(Closed(i)), Unloaded(Closed(i)), Closing(Closed(i))}
      PROVE  Shrinks(Closed(i), calls') /\ Shrinks(calls, calls')
  BY <1>1, <1>3, <1>4, <1>5, ShrinksTwice
<1>6. ASSUME calls' = Disowned(Closed(i)) PROVE Orphaned
  BY <1>3, <1>6, DisownedShrinks DEF Orphaned, Pending, Shrinks
<1>7. ASSUME calls' = Unloaded(Closed(i)) PROVE Orphaned
  BY <1>3, <1>7, UnloadedShrinks DEF Orphaned, Pending, Shrinks
<1> QED  BY <1>1, <1>2, <1>3, <1>4, <1>5, <1>6, <1>7

-----------------------------------------------------------------------------
(***************************************************************************)
(* Every step keeps the types.                                             *)
(***************************************************************************)

\* The user's steps.
LEMMA UserType ==
  ASSUME TypeInv, UserStep
  PROVE  TypeInv'
<1>t. TabOK /\ CallsOK  BY DEF TypeInv
<1>c. ASSUME User
      PROVE  clicks' \in 0 .. MaxClicks /\ clicks' = clicks + 1 /\ clicks \in Nat
  BY <1>t, <1>c, ConsoleAssumption DEF User, TabOK
<1>1. CASE SubmitLogin
  <2>1. CallsOK'  BY <1>1, UserMoves, JoinOK DEF SubmitLogin
  <2>2. loading' \in BOOLEAN /\ error' \in BOOLEAN  BY <1>1, Zenon DEF SubmitLogin
  <2> QED  BY <1>1, <1>t, <1>c, <2>1, <2>2 DEF SubmitLogin, TypeInv, TabOK
<1>2. CASE \E p \in Paths : SetFilter(p)
  <2>1. PICK p \in Paths : SetFilter(p)  BY <1>2
  <2>2. CallsOK'  BY <1>t, <2>1, SameShrinks, ShrinkOK DEF SetFilter, CallsOK
  <2>3. due' \in BOOLEAN  BY <2>1, Zenon DEF SetFilter
  <2> QED  BY <1>t, <1>c, <2>1, <2>2, <2>3 DEF SetFilter, TypeInv, TabOK
<1>3. CASE \E v \in Pages, p \in Paths : Visit(v, p)
  <2>1. PICK v \in Pages, p \in Paths : Visit(v, p)  BY <1>3
  <2>2. CallsOK'  BY <2>1, UserMoves, ShrinkOK DEF Visit
  <2> QED  BY <1>t, <1>c, <2>1, <2>2, MountType DEF Visit, TypeInv, TabOK
<1>4. CASE Logout
  <2>1. CallsOK'  BY <1>4, UserMoves, ShrinkOK DEF Logout
  <2> QED  BY <1>4, <1>t, <1>c, <2>1, LoginType DEF Logout, TypeInv, TabOK
<1>5. CASE \E b \in Buttons : Click(b)
  <2>1. PICK b \in Buttons : Click(b)  BY <1>5
  <2>2. CallsOK'  BY <2>1, UserMoves, JoinOK DEF Click
  <2> QED  BY <1>t, <1>c, <2>1, <2>2 DEF Click, TypeInv, TabOK, hook
<1>6. CASE OpenDialog
  <2>1. CallsOK'  BY <1>6, <1>t, SameShrinks, ShrinkOK DEF OpenDialog, CallsOK
  <2> QED  BY <1>6, <1>t, <1>c, <2>1 DEF OpenDialog, TypeInv, TabOK, hook
<1>7. CASE SubmitDialog
  <2>1. CallsOK'  BY <1>7, UserMoves, JoinOK DEF SubmitDialog
  <2> QED  BY <1>7, <1>t, <1>c, <2>1 DEF SubmitDialog, TypeInv, TabOK, hook
<1>8. CASE CloseDialog
  <2>1. CallsOK'  BY <1>8, UserMoves, ShrinkOK DEF CloseDialog
  <2> QED  BY <1>8, <1>t, <1>c, <2>1 DEF CloseDialog, TypeInv, TabOK, hook
<1> QED  BY <1>1, <1>2, <1>3, <1>4, <1>5, <1>6, <1>7, <1>8 DEF UserStep

\* The effect.
LEMMA EffectType ==
  ASSUME TypeInv, RunEffect
  PROVE  TypeInv'
<1>1. TabOK /\ version \in Nat /\ path \in Paths  BY DEF TypeInv, TabOK
<1>2. Sounds(Cancelled(calls))  BY <1>1, EffectMoves, CallsOKIs, ShrinkSounds DEF TypeInv
<1>3. Sounds(calls')  BY <1>1, <1>2, EffectMoves, JoinSounds
<1>4. CallsOK'  BY <1>1, <1>3, SoundLater DEF RunEffect
<1>5. due' \in BOOLEAN /\ loading' \in BOOLEAN  BY Zenon DEF RunEffect
<1> QED  BY <1>1, <1>4, <1>5 DEF RunEffect, TypeInv, TabOK

\* What the user saw succeed is not newer than the data.
LEMMA SeenType ==
  ASSUME TabOK, NEW c \in Call, Sound(c)
  PROVE  (IF seen < c.version THEN c.version ELSE seen) \in 0 .. version
<1>1. c.version \in Nat /\ c.version <= version /\ version \in Nat /\ seen \in 0 .. version
  BY DEF Sound, TabOK, Call
<1> QED  BY <1>1

\* An answer.
LEMMA ServeType ==
  ASSUME TypeInv, NEW i \in DOMAIN calls, Serve(i)
  PROVE  TypeInv'
<1>1. TabOK /\ version \in Nat /\ calls \in Calls /\ UNCHANGED <<session, expired, page, seen, clicks>>
  BY DEF TypeInv, TabOK, CallsOK, Serve
<1>2. Serves(i) /\ version' \in Nat /\ version <= version' /\ calls[i] \in Call /\ i \in Pending
  BY ServeMoves
<1>3. TabOK'
  <2>1. data' \in {NoData} \cup [path : Paths, version : 0 .. version']
    <3>1. data = NoData \/ (data \in [path : Paths, version : 0 .. version])  BY <1>1 DEF TabOK
    <3>2. 0 .. version \subseteq 0 .. version'  BY <1>1, <1>2
    <3> QED  BY <1>1, <3>1, <3>2 DEF page
  <2>2. seen' \in 0 .. version'  BY <1>1, <1>2 DEF TabOK
  <2> QED  BY <1>1, <1>2, <2>1, <2>2 DEF TabOK, page
<1>4. ASSUME NEW j \in DOMAIN calls', calls'[j] # Over PROVE Sound(calls[j])'
  <2>1. CASE j # i
    <3>1. j \in Pending /\ calls'[j] = calls[j]  BY <1>2, <1>4, <2>1 DEF Serves, Pending
    <3>2. Sound(calls[j]) /\ calls[j] \in Call
      BY <1>1, <3>1, CallsDomain DEF Pending, TypeInv, CallsOK
    <3>3. calls[j].version \in Nat  BY <3>2 DEF Call
    <3> QED  BY <1>1, <1>2, <3>1, <3>2, <3>3 DEF Sound
  <2>2. CASE j = i
    <3> DEFINE a == [answer |-> calls'[i].answer, version |-> calls'[i].version]
    <3>1. Answered(calls[i], calls'[i])  BY <1>2, <1>4, <2>2 DEF Serves
    <3>2. a \in Answers(calls[i])  BY <3>1 DEF Answered
    <3>3. calls[i].kind # "login" /\ a.answer = "refused" => calls[i].session \in expired
      BY <1>1, <3>2, AnswersAre
    <3>4. Sound(calls[i])  BY <1>2 DEF TypeInv, CallsOK
    <3> QED  BY <1>1, <1>2, <2>2, <3>1, <3>3, <3>4 DEF Sound, Answered
  <2> QED  BY <2>1, <2>2
<1>5. CallsOK'  BY <1>2, <1>4 DEF CallsOK, Serves, Pending
<1> QED  BY <1>3, <1>5 DEF TypeInv

\* A reply.
LEMMA ReplyType ==
  ASSUME TypeInv, NEW i \in DOMAIN calls, CallStep(i), ~Serve(i)
  PROVE  TypeInv'
<1>t. TabOK /\ CallsOK  BY DEF TypeInv
<1>r. Replied(i) => /\ i \in Pending /\ calls[i] \in Call /\ Sound(calls[i])
                    /\ (IF seen < calls[i].version THEN calls[i].version ELSE seen) \in 0 .. version
  BY <1>t, ReplyMoves, SeenType
<1>s. ASSUME Replied(i), UNCHANGED <<version, expired>>,
             calls' \in {Closed(i), Disowned(Closed(i)), Unloaded(Closed(i)), Closing(Closed(i))}
      PROVE  CallsOK'
  BY <1>s, ReplyMoves, ShrinkOK
<1>1. CASE Refused(i)
  <2>1. CallsOK'  BY <1>1, <1>s DEF Refused
  <2> QED  BY <1>1, <1>t, <2>1, LoginType DEF Refused, TypeInv, TabOK
<1>2. CASE Ignored(i)
  <2>1. CallsOK'  BY <1>2, <1>s DEF Ignored
  <2> QED  BY <1>2, <1>t, <2>1 DEF Ignored, TypeInv, TabOK, page
<1>3. CASE Fetched(i)
  <2>1. CallsOK'  BY <1>3, <1>s DEF Fetched
  <2>2. loading' \in BOOLEAN /\ error' \in BOOLEAN  BY <1>3, <1>t, Zenon DEF Fetched, TabOK
  <2>3. data' \in {NoData} \cup [path : Paths, version : 0 .. version]
    <3>1. calls[i].path \in Paths /\ calls[i].version \in 0 .. version
      BY <1>3, <1>r, <1>t DEF Fetched, Sound, Call, TabOK
    <3> QED  BY <1>3, <1>t, <3>1 DEF Fetched, TabOK
  <2> QED  BY <1>3, <1>t, <2>1, <2>2, <2>3 DEF Fetched, TypeInv, TabOK
<1>4. CASE Acted(i)
  <2>1. CallsOK'  BY <1>4, <1>s DEF Acted
  <2>2. seen' \in 0 .. version  BY <1>4, <1>r, <1>t DEF Acted, TabOK
  <2>3. UNCHANGED <<version, session, expired, clicks>>  BY <1>4 DEF Acted
  <2>4. CASE \E p \in Paths : Mount("tenants", p)
    BY <1>t, <2>1, <2>2, <2>3, <2>4, MountType DEF TypeInv, TabOK, Pages
  <2>5. CASE /\ due' = TRUE /\ busy' = NoButton
             /\ UNCHANGED <<view, path, data, error, loading, dialog>>
    <3>1. due' \in BOOLEAN  BY <2>5, Zenon
    <3> QED  BY <1>t, <2>1, <2>2, <2>3, <2>5, <3>1 DEF TypeInv, TabOK
  <2>6. CASE busy' = NoButton /\ UNCHANGED <<view, hook, dialog>>
    BY <1>t, <2>1, <2>2, <2>3, <2>6 DEF TypeInv, TabOK, hook
  <2> QED  BY <1>4, <2>4, <2>5, <2>6 DEF Acted, ButtonFreed
<1>5. CASE Created(i)
  <2>1. CallsOK'  BY <1>5, <1>s DEF Created
  <2>2. seen' \in 0 .. version  BY <1>5, <1>r, <1>t DEF Created, TabOK
  <2>3. due' \in BOOLEAN  BY <1>5, <1>t, Zenon DEF Created, TabOK
  <2>4. dialog' \in {"closed", "open", "busy"}  BY <1>5, <1>t DEF Created, TabOK
  <2> QED  BY <1>5, <1>t, <2>1, <2>2, <2>3, <2>4 DEF Created, TypeInv, TabOK
<1>6. CASE LoggedIn(i)
  <2>1. CallsOK'  BY <1>6, <1>s DEF LoggedIn
  <2>2. UNCHANGED <<version, expired, seen, clicks>>  BY <1>6 DEF LoggedIn
  <2>3. clicks \in Nat  BY <1>t, ConsoleAssumption DEF TabOK
  <2>4. CASE session' = clicks + 1 /\ \E p \in Paths : Mount("read", p)
    BY <1>t, <2>1, <2>2, <2>3, <2>4, MountType DEF TypeInv, TabOK, Pages
  <2>5. CASE /\ error' = TRUE /\ loading' = FALSE
             /\ UNCHANGED <<session, view, path, due, data, busy, dialog>>
    <3>1. error' \in BOOLEAN /\ loading' \in BOOLEAN  BY <2>5, Zenon
    <3> QED  BY <1>t, <2>1, <2>2, <2>5, <3>1 DEF TypeInv, TabOK
  <2> QED  BY <1>6, <2>4, <2>5 DEF LoggedIn
<1> QED  BY <1>1, <1>2, <1>3, <1>4, <1>5, <1>6 DEF CallStep

\* The rest of the world, and a step that changes nothing.
LEMMA OthersType ==
  ASSUME TypeInv, OthersWrite \/ Expire \/ UNCHANGED cvars
  PROVE  TypeInv'
<1>t. TabOK /\ version \in Nat /\ clicks \in Nat /\ Sounds(calls)
  BY CallsOKIs, ConsoleAssumption DEF TypeInv, TabOK
<1>1. CASE OthersWrite
  <2>1. version' \in Nat /\ version <= version'  BY <1>1, <1>t DEF OthersWrite
  <2>2. CallsOK'  BY <1>1, <1>t, <2>1, SoundLater DEF OthersWrite
  <2>3. data' \in {NoData} \cup [path : Paths, version : 0 .. version']
    <3>1. data = NoData \/ (data \in [path : Paths, version : 0 .. version])  BY <1>t DEF TabOK
    <3>2. 0 .. version \subseteq 0 .. version'  BY <1>t, <2>1
    <3> QED  BY <1>1, <3>1, <3>2 DEF OthersWrite, page
  <2>4. seen' \in 0 .. version'  BY <1>1, <1>t, <2>1 DEF TabOK, OthersWrite
  <2> QED  BY <1>1, <1>t, <2>1, <2>2, <2>3, <2>4 DEF OthersWrite, TypeInv, TabOK, page
<1>2. CASE Expire
  <2>1. expired' = expired \cup {session} /\ session \in 1 .. clicks + 1
    BY <1>2, <1>t DEF Expire, TabOK
  <2>2. CallsOK'  BY <1>2, <1>t, <2>1, SoundLater DEF Expire
  <2> QED  BY <1>2, <1>t, <2>1, <2>2 DEF Expire, TypeInv, TabOK, page
<1>3. CASE UNCHANGED cvars
  <2>1. CallsOK'  BY <1>3, <1>t, SoundLater DEF cvars
  <2> QED  BY <1>3, <1>t, <2>1 DEF cvars, page, TypeInv, TabOK
<1> QED  BY <1>1, <1>2, <1>3

\* Every step.
LEMMA StepType == TypeInv /\ [Next]_cvars => TypeInv'
  BY UserType, EffectType, ServeType, ReplyType, OthersType DEF Next

-----------------------------------------------------------------------------
(***************************************************************************)
(* Two calls at most for a click.                                          *)
(***************************************************************************)

\* What goes on stirs no more than before.
LEMMA ShrinkMeasure ==
  ASSUME NEW cs \in Calls, NEW ds, Shrinks(cs, ds)
  PROVE  /\ IsFiniteSet(Stirring(cs)) /\ IsFiniteSet(Stirring(ds))
         /\ Stirring(ds) \subseteq Stirring(cs)
         /\ Cardinality(Stirring(ds)) <= Cardinality(Stirring(cs))
         /\ Cardinality(Stirring(cs)) \in Nat /\ Cardinality(Stirring(ds)) \in Nat
<1>1. IsFiniteSet(1 .. Len(cs)) /\ DOMAIN cs = 1 .. Len(cs)
  BY CallsDomain, FS_Interval
<1>2. Stirring(cs) \subseteq 1 .. Len(cs)  BY <1>1 DEF Stirring
<1>3. IsFiniteSet(Stirring(cs))  BY <1>1, <1>2, FS_Subset
<1>4. Stirring(ds) \subseteq Stirring(cs)  BY DEF Stirring, Shrinks, Inherits
<1> QED  BY <1>3, <1>4, FS_Subset, FS_CardinalityType

\* A call that joins stirs if it is no fetch.
LEMMA JoinMeasure ==
  ASSUME NEW cs \in Calls, NEW ds, NEW c, NEW kind, New(c, kind), Joins(cs, ds, c)
  PROVE  /\ IsFiniteSet(Stirring(ds))
         /\ Cardinality(Stirring(ds)) \in Nat
         /\ Cardinality(Stirring(ds)) <=
               Cardinality(Stirring(cs)) + IF kind = "get" THEN 0 ELSE 1
         /\ Len(ds) \in Nat /\ Len(ds) <= Len(cs) + 1
<1>1. IsFiniteSet(Stirring(cs)) /\ Cardinality(Stirring(cs)) \in Nat
  BY SameShrinks, ShrinkMeasure
<1>2. PICK n : /\ n \in DOMAIN cs => cs[n] = Over
               /\ DOMAIN ds = DOMAIN cs \cup {n} /\ ds[n] = c
               /\ \A i \in DOMAIN cs : i # n => ds[i] = cs[i]
  BY DEF Joins
<1>3. Len(ds) \in Nat /\ Len(ds) <= Len(cs) + 1  BY CallsDomain DEF Joins
<1>4. CASE kind = "get"
  <2>1. Stirring(ds) \subseteq Stirring(cs)  BY <1>2, <1>4 DEF Stirring, New
  <2> QED  BY <1>1, <1>3, <1>4, <2>1, FS_Subset, FS_CardinalityType
<1>5. CASE kind # "get"
  <2> DEFINE S == Stirring(cs) \cup {n}
  <2>1. Stirring(ds) \subseteq S  BY <1>2 DEF Stirring
  <2>2. n \notin Stirring(cs)  BY <1>2 DEF Stirring
  <2>3. IsFiniteSet(S) /\ Cardinality(S) = Cardinality(Stirring(cs)) + 1
    BY <1>1, <2>2, FS_AddElement
  <2> HIDE DEF S
  <2> QED  BY <1>1, <1>3, <1>5, <2>1, <2>3, FS_Subset, FS_CardinalityType
<1> QED  BY <1>4, <1>5

\* A reply to a call that stirs makes room for the effect it leads to.
LEMMA ClosedMeasure ==
  ASSUME calls \in Calls, NEW i \in Pending, calls[i].kind # "get", NEW ds, Shrinks(Closed(i), ds)
  PROVE  /\ IsFiniteSet(Stirring(ds))
         /\ Cardinality(Stirring(ds)) \in Nat /\ Cardinality(Stirring(calls)) \in Nat
         /\ Cardinality(Stirring(ds)) <= Cardinality(Stirring(calls)) - 1
         /\ Len(ds) = Len(calls) /\ Len(calls) \in Nat
<1>1. /\ Shrinks(calls, Closed(i)) /\ Closed(i)[i] = Over /\ Closed(i) \in Calls
  BY ClosedShrinks DEF Shrinks
<1>2. Shrinks(calls, ds)  BY <1>1, ShrinksTwice
<1>3. /\ IsFiniteSet(Stirring(calls)) /\ IsFiniteSet(Stirring(ds))
      /\ Stirring(ds) \subseteq Stirring(calls)
      /\ Cardinality(Stirring(calls)) \in Nat /\ Cardinality(Stirring(ds)) \in Nat
  BY <1>2, ShrinkMeasure
<1>4. i \in Stirring(calls)  BY DEF Pending, Stirring
<1>5. i \notin Stirring(ds)  BY <1>1 DEF Stirring, Shrinks
<1>6. Stirring(ds) \subseteq Stirring(calls) \ {i}  BY <1>3, <1>5
<1>7. /\ IsFiniteSet(Stirring(calls) \ {i})
      /\ Cardinality(Stirring(calls) \ {i}) = Cardinality(Stirring(calls)) - 1
  BY <1>3, <1>4, FS_RemoveElement
<1>8. Cardinality(Stirring(ds)) <= Cardinality(Stirring(calls) \ {i})
  BY <1>6, <1>7, FS_Subset
<1> QED  BY <1>2, <1>3, <1>7, <1>8, CallsDomain DEF Shrinks

\* Budget, from what a step does to the measure.
LEMMA BudgetStep ==
  ASSUME TypeInv, TypeInv', Budget, IsFiniteSet(Stirring(calls')),
         Cardinality(Stirring(calls')) \in Nat,
         (Len(calls') + Cardinality(Stirring(calls')) + Due') - 2 * clicks' <=
           (Len(calls) + Cardinality(Stirring(calls)) + Due) - 2 * clicks
  PROVE  Budget'
<1>1. /\ Len(calls) \in Nat /\ Len(calls') \in Nat
  BY CallsDomain DEF TypeInv, CallsOK
<1>2. Cardinality(Stirring(calls)) \in Nat  BY FS_CardinalityType DEF Budget
<1>3. clicks \in Nat /\ clicks' \in Nat  BY ConsoleAssumption DEF TypeInv, TabOK
<1>4. Due \in Nat /\ Due' \in Nat  BY DEF Due
<1>5. Stirring(calls)' = Stirring(calls')  BY DEF Stirring
<1> DEFINE m == Len(calls') + Cardinality(Stirring(calls')) + Due'
           n == Len(calls) + Cardinality(Stirring(calls)) + Due
           u == 2 * clicks
           v == 2 * clicks'
<1>6. m \in Int /\ n \in Int  BY <1>1, <1>2, <1>4
<1>7. u \in Int /\ v \in Int  BY <1>3
<1>8. n <= u + 1 /\ m - v <= n - u  BY DEF Budget
<1> HIDE DEF m, n, u, v
<1>9. m <= v + 1  BY <1>6, <1>7, <1>8
<1> QED  BY <1>5, <1>9 DEF Budget, m, v

\* A click makes one call, or makes the effect run, or neither.
LEMMA UserBudget ==
  ASSUME TypeInv, TypeInv', Budget, UserStep
  PROVE  Budget'
<1>0. calls \in Calls /\ clicks \in Nat /\ Len(calls) \in Nat
  BY ConsoleAssumption, CallsDomain DEF TypeInv, TabOK, CallsOK
<1>1. clicks' = clicks + 1
  BY DEF UserStep, SubmitLogin, SetFilter, Visit, Logout, Click, OpenDialog, SubmitDialog,
         CloseDialog, User
<1>2. Due \in 0 .. 1 /\ Due' \in 0 .. 1  BY DEF Due
<1>3. ASSUME Shrinks(calls, calls') PROVE Budget'
  <2>1. /\ IsFiniteSet(Stirring(calls')) /\ Cardinality(Stirring(calls')) \in Nat
        /\ Cardinality(Stirring(calls)) \in Nat
        /\ Cardinality(Stirring(calls')) <= Cardinality(Stirring(calls))
        /\ Len(calls') = Len(calls)
    BY <1>0, <1>3, ShrinkMeasure DEF Shrinks
  <2> QED  BY <1>0, <1>1, <1>2, <2>1, BudgetStep
<1>4. ASSUME NEW c, NEW kind, New(c, kind), Joins(calls, calls', c), due' = due PROVE Budget'
  <2>1. /\ IsFiniteSet(Stirring(calls')) /\ Cardinality(Stirring(calls')) \in Nat
        /\ Cardinality(Stirring(calls')) <= Cardinality(Stirring(calls)) + 1
        /\ Len(calls') \in Nat /\ Len(calls') <= Len(calls) + 1
        /\ Cardinality(Stirring(calls)) \in Nat
    BY <1>0, <1>4, JoinMeasure, FS_CardinalityType DEF Budget
  <2>2. Due' = Due  BY <1>4 DEF Due
  <2> QED  BY <1>0, <1>1, <1>2, <2>1, <2>2, BudgetStep
<1>5. CASE SubmitLogin  BY <1>5, <1>4, UserMoves DEF SubmitLogin
<1>6. CASE \E p \in Paths : SetFilter(p)  BY <1>0, <1>6, <1>3, SameShrinks DEF SetFilter
<1>7. CASE \E v \in Pages, p \in Paths : Visit(v, p)  BY <1>7, <1>3, UserMoves
<1>8. CASE Logout  BY <1>8, <1>3, UserMoves
<1>9. CASE \E b \in Buttons : Click(b)  BY <1>9, <1>4, UserMoves DEF Click, hook
<1>10. CASE OpenDialog  BY <1>0, <1>10, <1>3, SameShrinks DEF OpenDialog
<1>11. CASE SubmitDialog  BY <1>11, <1>4, UserMoves DEF SubmitDialog, hook
<1>12. CASE CloseDialog  BY <1>12, <1>3, UserMoves
<1> QED  BY <1>5, <1>6, <1>7, <1>8, <1>9, <1>10, <1>11, <1>12 DEF UserStep

\* The effect that runs is not due any more, and a reply that makes it due has freed
\* its own place.
LEMMA CallBudget ==
  ASSUME TypeInv, TypeInv', Budget,
         RunEffect \/ (\E i \in DOMAIN calls : CallStep(i)) \/ OthersWrite \/ Expire \/ UNCHANGED cvars
  PROVE  Budget'
<1>0. calls \in Calls /\ clicks \in Nat /\ Len(calls) \in Nat
  BY ConsoleAssumption, CallsDomain DEF TypeInv, TabOK, CallsOK
<1>1. Due \in 0 .. 1 /\ Due' \in 0 .. 1  BY DEF Due
<1>2. ASSUME Shrinks(calls, calls'), due' => due, clicks' = clicks PROVE Budget'
  <2>1. /\ IsFiniteSet(Stirring(calls')) /\ Cardinality(Stirring(calls')) \in Nat
        /\ Cardinality(Stirring(calls)) \in Nat
        /\ Cardinality(Stirring(calls')) <= Cardinality(Stirring(calls))
        /\ Len(calls') = Len(calls)
    BY <1>0, <1>2, ShrinkMeasure DEF Shrinks
  <2>2. Due' <= Due  BY <1>2 DEF Due
  <2> QED  BY <1>0, <1>1, <1>2, <2>1, <2>2, BudgetStep
<1>3. ASSUME NEW i \in Pending, calls[i].kind # "get", Shrinks(Closed(i), calls'), clicks' = clicks
      PROVE  Budget'
  <2>1. /\ IsFiniteSet(Stirring(calls')) /\ Cardinality(Stirring(calls')) \in Nat
        /\ Cardinality(Stirring(calls)) \in Nat
        /\ Cardinality(Stirring(calls')) <= Cardinality(Stirring(calls)) - 1
        /\ Len(calls') = Len(calls)
    BY <1>0, <1>3, ClosedMeasure
  <2> QED  BY <1>0, <1>1, <1>3, <2>1, BudgetStep
<1>4. CASE RunEffect
  <2> DEFINE cs == Cancelled(calls)
  <2>1. New(Get, "get") /\ cs \in Calls /\ Shrinks(calls, cs) /\ Joins(cs, calls', Get)
    BY <1>4, EffectMoves
  <2> HIDE DEF cs
  <2>2. /\ Cardinality(Stirring(cs)) <= Cardinality(Stirring(calls))
        /\ Cardinality(Stirring(calls)) \in Nat /\ Cardinality(Stirring(cs)) \in Nat
        /\ Len(cs) = Len(calls)
    BY <1>0, <2>1, ShrinkMeasure DEF Shrinks
  <2>3. /\ IsFiniteSet(Stirring(calls')) /\ Cardinality(Stirring(calls')) \in Nat
        /\ Cardinality(Stirring(calls')) <= Cardinality(Stirring(cs))
        /\ Len(calls') \in Nat /\ Len(calls') <= Len(cs) + 1
    BY <2>1, <2>2, JoinMeasure
  <2>4. Due = 1 /\ Due' = 0 /\ clicks' = clicks  BY <1>4 DEF RunEffect, Due
  <2> QED  BY <1>0, <2>2, <2>3, <2>4, BudgetStep
<1>5. ASSUME NEW i \in DOMAIN calls, CallStep(i) PROVE Budget'
  <2>1. ASSUME Replied(i), calls' \in {Closed(i), Disowned(Closed(i)), Unloaded(Closed(i)),
                                      Closing(Closed(i))}
        PROVE  Shrinks(Closed(i), calls') /\ Shrinks(calls, calls') /\ i \in Pending
    BY <2>1, ReplyMoves
  <2>2. CASE Serve(i)
    <3>1. Serves(i) /\ i \in Pending  BY <2>2, ServeMoves
    <3>2. Stirring(calls') \subseteq Stirring(calls) /\ Len(calls') = Len(calls)
      BY <3>1 DEF Serves, Stirring, Pending, Answered
    <3>3. IsFiniteSet(Stirring(calls))  BY DEF Budget
    <3>4. /\ IsFiniteSet(Stirring(calls'))
          /\ Cardinality(Stirring(calls')) <= Cardinality(Stirring(calls))
          /\ Cardinality(Stirring(calls')) \in Nat /\ Cardinality(Stirring(calls)) \in Nat
      BY <3>2, <3>3, FS_Subset, FS_CardinalityType
    <3>5. Due' = Due /\ clicks' = clicks  BY <2>2 DEF Serve, page, Due
    <3> QED  BY <1>0, <1>1, <3>2, <3>4, <3>5, BudgetStep
  <2>3. CASE Refused(i)  BY <2>3, <2>1, <1>2 DEF Refused, ShowLogin
  <2>4. CASE Ignored(i)  BY <2>4, <2>1, <1>2 DEF Ignored, page
  <2>5. CASE Fetched(i)  BY <2>5, <2>1, <1>2 DEF Fetched
  <2>6. CASE Acted(i)  BY <2>6, <2>1, <1>3 DEF Acted
  <2>7. CASE Created(i)  BY <2>7, <2>1, <1>3 DEF Created
  <2>8. CASE LoggedIn(i)  BY <2>8, <2>1, <1>3 DEF LoggedIn
  <2> QED  BY <1>5, <2>2, <2>3, <2>4, <2>5, <2>6, <2>7, <2>8 DEF CallStep
<1>6. CASE OthersWrite \/ Expire \/ UNCHANGED cvars
  BY <1>0, <1>6, <1>2, SameShrinks DEF OthersWrite, Expire, cvars, page
<1> QED  BY <1>4, <1>5, <1>6

\* Every step keeps within the budget.
LEMMA StepBudget == TypeInv /\ Budget /\ [Next]_cvars => Budget'
  BY StepType, UserBudget, CallBudget DEF Next

\* At first only the effect of the page that was opened is due.
LEMMA InitBudget == Init => Budget
<1> SUFFICES ASSUME Init PROVE Budget
  OBVIOUS
<1>1. calls = <<>> /\ clicks = 0  BY DEF Init
<1>2. Stirring(calls) = {}  BY <1>1 DEF Stirring
<1>3. IsFiniteSet(Stirring(calls)) /\ Cardinality(Stirring(calls)) = 0  BY <1>2, FS_EmptySet
<1>4. Len(calls) = 0  BY <1>1
<1>5. Due \in 0 .. 1  BY DEF Due
<1> QED  BY <1>1, <1>3, <1>4, <1>5 DEF Budget

-----------------------------------------------------------------------------
(***************************************************************************)
(* Whose the calls are after a step.                                       *)
(***************************************************************************)

\* The calls of what is shown that a login page does not make.
Foreign == {i \in Pending : calls[i].owner \in {"page", "closed"} /\ calls[i].kind # "login"}

\* The calls that belong to the page are the page's.
LEMMA OwnIs ==
  /\ \A kind, i : i \in Own(kind)' <=>
        /\ i \in DOMAIN calls' /\ calls'[i] # Over
        /\ calls'[i].kind = kind /\ calls'[i].owner = "page"
  /\ \A i : i \in Foreign' <=>
        /\ i \in DOMAIN calls' /\ calls'[i] # Over
        /\ calls'[i].owner \in {"page", "closed"} /\ calls'[i].kind # "login"
  BY DEF Own, Pending, Foreign

\* When the page is left or the tab loaded anew there are none.
LEMMA OrphanedOwn ==
  ASSUME Orphaned
  PROVE  (\A kind : Own(kind)' = {}) /\ Foreign' = {}
  BY DEF Orphaned, Own, Foreign

\* What goes on may leave the page, and never comes to it.
LEMMA ShrinkOwn ==
  ASSUME Shrinks(calls, calls')
  PROVE  /\ \A kind : Own(kind)' \subseteq Own(kind)
         /\ \A kind : \A i \in Own(kind)' : calls'[i] = calls[i]
         /\ Foreign' \subseteq Foreign
  BY DEF Shrinks, Inherits, Own, Pending, Foreign

\* A new call is the page's; the others are as they were.
LEMMA JoinOwn ==
  ASSUME NEW c, NEW kind, New(c, kind), Joins(calls, calls', c)
  PROVE  /\ \E n : /\ Own(kind)' = Own(kind) \cup {n} /\ calls'[n] = c
                   /\ \A i \in Own(kind) : i # n /\ calls'[i] = calls[i]
         /\ \A k : k # kind => Own(k)' = Own(k) /\ \A i \in Own(k) : calls'[i] = calls[i]
         /\ kind = "login" => Foreign' = Foreign
<1>1. c # Over /\ c.kind = kind /\ c.owner = "page"  BY CallIsNotOver DEF New
<1>2. PICK n \in Nat : /\ n \in DOMAIN calls => calls[n] = Over
                      /\ DOMAIN calls' = DOMAIN calls \cup {n} /\ calls'[n] = c
                      /\ \A i \in DOMAIN calls : i # n => calls'[i] = calls[i]
  BY DEF Joins
<1>3. \A k, i : i \in Own(k)' <=> (i = n /\ k = kind) \/ i \in Own(k)
  BY <1>1, <1>2 DEF Own, Pending
<1>4. \A k : \A i \in Own(k) : i # n /\ calls'[i] = calls[i]
  BY <1>2 DEF Own, Pending
<1>5. Own(kind)' = Own(kind) \cup {n}  BY <1>3
<1>6. ASSUME NEW k, k # kind PROVE Own(k)' = Own(k)  BY <1>3, <1>6
<1>7. ASSUME kind = "login" PROVE Foreign' = Foreign
  <2>1. \A i : i \in Foreign' <=> i \in Foreign
    BY <1>1, <1>2, <1>7 DEF Foreign, Pending
  <2> QED  BY <2>1
<1> QED  BY <1>2, <1>4, <1>5, <1>6, <1>7

\* The effect replaces the fetch in force and leaves the other calls.
LEMMA EffectOwn ==
  ASSUME TypeInv, RunEffect
  PROVE  /\ \A i \in Own("get")' : calls'[i] = Get
         /\ \A k : k # "get" => Own(k)' = Own(k) /\ \A i \in Own(k) : calls'[i] = calls[i]
<1> DEFINE cs == Cancelled(calls)
<1>1. /\ calls \in Calls /\ DOMAIN cs = DOMAIN calls
      /\ \A i \in DOMAIN calls :
            /\ cs[i] = Over <=> calls[i] = Over
            /\ cs[i] # Over => ~(cs[i].kind = "get" /\ cs[i].owner = "page")
            /\ calls[i] # Over /\ calls[i].kind # "get" => cs[i] = calls[i]
            /\ cs[i] # Over => cs[i].kind = calls[i].kind
  BY CancelledShrinks DEF TypeInv, CallsOK, Shrinks, Inherits
<1>2. New(Get, "get") /\ Joins(cs, calls', Get)  BY EffectMoves
<1> HIDE DEF cs
<1>3. Get # Over /\ Get.kind = "get"  BY <1>2, CallIsNotOver DEF New
<1>4. PICK n \in Nat : /\ n \in DOMAIN cs => cs[n] = Over
                      /\ DOMAIN calls' = DOMAIN cs \cup {n} /\ calls'[n] = Get
                      /\ \A i \in DOMAIN cs : i # n => calls'[i] = cs[i]
  BY <1>2 DEF Joins
<1>5. ASSUME NEW i \in Own("get")' PROVE calls'[i] = Get
  BY <1>1, <1>4 DEF Own, Pending
<1>6. ASSUME NEW k, k # "get"
      PROVE  Own(k)' = Own(k) /\ \A i \in Own(k) : calls'[i] = calls[i]
  <2>1. \A i : i \in Own(k)' <=> i \in Own(k)
    BY <1>1, <1>3, <1>4, <1>6 DEF Own, Pending
  <2>2. \A i \in Own(k) : calls'[i] = calls[i]
    BY <1>1, <1>4, <1>6 DEF Own, Pending
  <2> QED  BY <2>1, <2>2
<1> QED  BY <1>5, <1>6

\* An answer leaves every call where it was.
LEMMA ServeOwn ==
  ASSUME TypeInv, NEW i \in DOMAIN calls, Serve(i)
  PROVE  /\ \A k : Own(k)' = Own(k)
         /\ \A k : \A j \in Own(k) :
               /\ calls'[j].path = calls[j].path /\ calls'[j].button = calls[j].button
               /\ calls'[j] = calls[j] \/ (calls'[j].version = version' /\ version <= version')
         /\ Foreign' = Foreign
<1>1. Serves(i) /\ calls[i] \in Call /\ version <= version'  BY ServeMoves
<1>2. calls[i] # Over /\ DOMAIN calls' = DOMAIN calls  BY <1>1, CallIsNotOver DEF Serves
<1>3. \A j \in DOMAIN calls : j # i => calls'[j] = calls[j]  BY <1>1 DEF Serves
<1>4. \/ calls[i].owner \notin {"page", "closed"} /\ calls'[i] = Over
      \/ /\ calls'[i] # Over /\ calls'[i].kind = calls[i].kind /\ calls'[i].owner = calls[i].owner
         /\ calls'[i].path = calls[i].path /\ calls'[i].button = calls[i].button
         /\ calls'[i].version = version'
  BY <1>1, CallIsNotOver DEF Serves, Answered
<1>5. ASSUME NEW k PROVE Own(k)' = Own(k)
  <2>1. \A j : j \in Own(k)' <=> j \in Own(k)  BY <1>2, <1>3, <1>4 DEF Own, Pending
  <2> QED  BY <2>1
<1>6. ASSUME NEW k, NEW j \in Own(k)
      PROVE  /\ calls'[j].path = calls[j].path /\ calls'[j].button = calls[j].button
             /\ calls'[j] = calls[j] \/ (calls'[j].version = version' /\ version <= version')
  <2>1. j \in DOMAIN calls /\ calls[j].owner = "page"  BY DEF Own, Pending
  <2>2. CASE j # i  BY <1>3, <2>1, <2>2
  <2>3. CASE j = i  BY <1>1, <1>4, <2>1, <2>3
  <2> QED  BY <2>2, <2>3
<1>7. \A j : j \in Foreign' <=> j \in Foreign  BY <1>2, <1>3, <1>4 DEF Foreign, Pending
<1> QED  BY <1>5, <1>6, <1>7

\* A reply takes its own call away.
LEMMA ClosedOwn ==
  ASSUME TypeInv, NEW i \in Pending, calls' = Closed(i)
  PROVE  \A k : Own(k)' = Own(k) \ {i} /\ \A j \in Own(k) \ {i} : calls'[j] = calls[j]
<1>1. /\ DOMAIN calls' = DOMAIN calls /\ calls'[i] = Over
      /\ \A j \in DOMAIN calls : j # i => calls'[j] = calls[j]
  BY ClosedShrinks DEF TypeInv, CallsOK, Shrinks
<1>2. ASSUME NEW k PROVE Own(k)' = Own(k) \ {i}
  <2>1. \A j : j \in Own(k)' <=> j \in Own(k) /\ j # i  BY <1>1 DEF Own, Pending
  <2> QED  BY <2>1
<1> QED  BY <1>1, <1>2 DEF Own, Pending

\* A dialog that closes takes the creations with it, and a reply its own call.
LEMMA ClosingOwn ==
  ASSUME TypeInv, NEW cs \in Calls, DOMAIN cs = DOMAIN calls, NEW S,
         \A i \in DOMAIN calls : IF i \in S THEN cs[i] = Over ELSE cs[i] = calls[i],
         calls' = Closing(cs)
  PROVE  /\ Own("create")' = {}
         /\ \A k : k # "create" => Own(k)' = Own(k) \ S /\ \A j \in Own(k) \ S : calls'[j] = calls[j]
<1>1. /\ DOMAIN calls' = DOMAIN calls
      /\ \A i \in DOMAIN calls :
            /\ calls'[i] # Over => ~(calls'[i].kind = "create" /\ calls'[i].owner = "page")
            /\ cs[i] # Over /\ cs[i].kind # "create" => calls'[i] = cs[i]
            /\ calls'[i] # Over => cs[i] # Over /\ calls'[i].kind = cs[i].kind
  BY ClosingShrinks DEF Shrinks, Inherits
<1>2. Own("create")' = {}  BY <1>1 DEF Own, Pending
<1>3. ASSUME NEW k, k # "create" PROVE Own(k)' = Own(k) \ S
  <2>1. \A j : j \in Own(k)' <=> j \in Own(k) /\ j \notin S
    BY <1>1, <1>3 DEF Own, Pending
  <2> QED  BY <2>1
<1>4. ASSUME NEW k, k # "create", NEW j \in Own(k) \ S PROVE calls'[j] = calls[j]
  BY <1>1, <1>4 DEF Own, Pending
<1> QED  BY <1>2, <1>3, <1>4

\* Calls that stay are whose they were.
LEMMA SameOwn ==
  ASSUME calls' = calls
  PROVE  (\A k : Own(k)' = Own(k)) /\ Foreign' = Foreign
  BY DEF Own, Pending, Foreign

\* LoginAlone, in these words.
LEMMA LoginAloneIs ==
  /\ LoginAlone <=> IF view = "login"
                    THEN /\ session = 0 /\ ~due /\ busy = NoButton /\ dialog = "closed"
                         /\ Foreign = {}
                    ELSE session # 0 /\ Own("login") = {}
  /\ LoginAlone' <=> IF view' = "login"
                     THEN /\ session' = 0 /\ ~due' /\ busy' = NoButton /\ dialog' = "closed"
                          /\ Foreign' = {}
                     ELSE session' # 0 /\ Own("login")' = {}
  BY DEF LoginAlone, Foreign, Pending

\* The user leaves the login page only by logging in, and comes to it with nothing.
LEMMA UserAlone ==
  ASSUME TypeInv, LoginAlone, UserStep
  PROVE  LoginAlone'
<1>1. CASE SubmitLogin
  <2>1. Foreign' = Foreign  BY <1>1, UserMoves, JoinOwn
  <2> QED  BY <1>1, <2>1, LoginAloneIs DEF SubmitLogin
<1>2. CASE \E p \in Paths : SetFilter(p)
  BY <1>2, SameOwn, LoginAloneIs DEF SetFilter
<1>3. CASE \E v \in Pages, p \in Paths : Visit(v, p)
  <2>1. PICK v \in Pages, p \in Paths : Visit(v, p)  BY <1>3
  <2>2. Own("login")' = {}  BY <2>1, UserMoves, OrphanedOwn
  <2>3. view' # "login"  BY <2>1 DEF Visit, Mount, Pages
  <2> QED  BY <2>1, <2>2, <2>3, LoginAloneIs DEF Visit
<1>4. CASE Logout
  <2>1. Foreign' = {}  BY <1>4, UserMoves, OrphanedOwn
  <2> QED  BY <1>4, <2>1, LoginAloneIs DEF Logout, ShowLogin
<1>5. CASE \E b \in Buttons : Click(b)
  <2>1. PICK b \in Buttons : Click(b)  BY <1>5
  <2>2. Own("login")' = Own("login")  BY <2>1, UserMoves, JoinOwn
  <2>3. view # "login"  BY <2>1 DEF Click, EnabledOnList, EnabledOnDetail
  <2> QED  BY <2>1, <2>2, <2>3, LoginAloneIs DEF Click
<1>6. CASE OpenDialog
  BY <1>6, SameOwn, LoginAloneIs DEF OpenDialog
<1>7. CASE SubmitDialog
  <2>1. Own("login")' = Own("login")  BY <1>7, UserMoves, JoinOwn
  <2>2. view # "login"  BY <1>7, LoginAloneIs DEF SubmitDialog
  <2> QED  BY <1>7, <2>1, <2>2, LoginAloneIs DEF SubmitDialog
<1>8. CASE CloseDialog
  <2>1. Own("login")' \subseteq Own("login")  BY <1>8, UserMoves, ShrinkOwn
  <2>2. view # "login"  BY <1>8, LoginAloneIs DEF CloseDialog
  <2> QED  BY <1>8, <2>1, <2>2, LoginAloneIs DEF CloseDialog
<1> QED  BY <1>1, <1>2, <1>3, <1>4, <1>5, <1>6, <1>7, <1>8 DEF UserStep

\* Where a reply that the page waits for finds the page.
LEMMA WaitsWhere ==
  ASSUME LoginAlone, NEW i \in Pending
  PROVE  /\ calls[i].owner \in {"page", "closed"} /\ calls[i].kind # "login" => view # "login"
         /\ calls[i].owner = "page" /\ calls[i].kind = "login" => view = "login"
  BY DEF LoginAlone, Own

\* The effect and the replies: only a login opens a page, and takes the one login
\* that was on its way.
LEMMA CallAlone ==
  ASSUME TypeInv, LoginAlone, OneEach,
         RunEffect \/ (\E i \in DOMAIN calls : CallStep(i)) \/ OthersWrite \/ Expire \/ UNCHANGED cvars
  PROVE  LoginAlone'
<1>1. CASE RunEffect
  <2>1. Own("login")' = Own("login")  BY <1>1, EffectOwn
  <2>2. view # "login"  BY <1>1, LoginAloneIs DEF RunEffect
  <2> QED  BY <1>1, <2>1, <2>2, LoginAloneIs DEF RunEffect
<1>2. ASSUME NEW i \in DOMAIN calls, CallStep(i) PROVE LoginAlone'
  <2>1. ASSUME Replied(i), calls' \in {Closed(i), Disowned(Closed(i)), Unloaded(Closed(i)),
                                      Closing(Closed(i))}
        PROVE  Own("login")' \subseteq Own("login") /\ Foreign' \subseteq Foreign /\ i \in Pending
    BY <2>1, ReplyMoves, ShrinkOwn
  <2>2. CASE Serve(i)
    BY <2>2, ServeOwn, LoginAloneIs DEF Serve, page
  <2>3. CASE Refused(i)
    <3>1. Foreign' = {}  BY <2>3, ReplyMoves, OrphanedOwn DEF Refused
    <3> QED  BY <2>3, <3>1, LoginAloneIs DEF Refused, ShowLogin
  <2>4. CASE Ignored(i)  BY <2>4, <2>1, LoginAloneIs DEF Ignored, page
  <2>5. CASE Fetched(i)
    <3>1. view # "login"  BY <2>5, <2>1, WaitsWhere DEF Fetched
    <3> QED  BY <2>5, <2>1, <3>1, LoginAloneIs DEF Fetched
  <2>6. CASE Acted(i)
    <3>1. view # "login"  BY <2>6, <2>1, WaitsWhere DEF Acted
    <3>2. view' # "login" /\ session' = session  BY <2>6, <3>1 DEF Acted, Mount, hook
    <3> QED  BY <2>6, <2>1, <3>1, <3>2, LoginAloneIs DEF Acted
  <2>7. CASE Created(i)
    <3>1. view # "login"  BY <2>7, <2>1, WaitsWhere DEF Created
    <3> QED  BY <2>7, <2>1, <3>1, LoginAloneIs DEF Created
  <2>8. CASE LoggedIn(i)
    <3>1. view = "login" /\ i \in Own("login")  BY <2>8, <2>1, WaitsWhere DEF LoggedIn, Own
    <3>2. Own("login")' = Own("login") \ {i}  BY <2>8, <2>1, ClosedOwn DEF LoggedIn
    <3>3. Own("login")' = {}  BY <3>1, <3>2 DEF OneEach, AtMostOne
    <3>4. CASE session' = clicks + 1 /\ \E p \in Paths : Mount("read", p)
      <4>1. view' # "login"  BY <3>4 DEF Mount
      <4>2. clicks \in Nat  BY ConsoleAssumption DEF TypeInv, TabOK
      <4> QED  BY <3>3, <3>4, <4>1, <4>2, LoginAloneIs
    <3>5. CASE UNCHANGED <<session, view, path, due, data, busy, dialog>>
      BY <2>8, <2>1, <3>1, <3>5, LoginAloneIs DEF LoggedIn
    <3> QED  BY <2>8, <3>4, <3>5 DEF LoggedIn
  <2> QED  BY <1>2, <2>2, <2>3, <2>4, <2>5, <2>6, <2>7, <2>8 DEF CallStep
<1>3. CASE OthersWrite \/ Expire \/ UNCHANGED cvars
  BY <1>3, SameOwn, LoginAloneIs DEF OthersWrite, Expire, cvars, page
<1> QED  BY <1>1, <1>2, <1>3

\* What shrinks keeps to one.
LEMMA OneOfFewer ==
  ASSUME NEW S, AtMostOne(S)
  PROVE  /\ \A T \in SUBSET S : AtMostOne(T)
         /\ \A i \in S : S \ {i} = {}
  BY DEF AtMostOne

\* OneEach of the next state, in its words.
LEMMA OneEachIs ==
  OneEach' <=>
    /\ view' = "detail" => AtMostOne(Own("post")')
    /\ view' = "detail" /\ busy' = NoButton => Own("post")' = {}
    /\ AtMostOne(Own("create")')
    /\ dialog' # "busy" => Own("create")' = {}
    /\ AtMostOne(Own("login")')
    /\ view' = "login" /\ ~loading' => Own("login")' = {}
  BY DEF OneEach, AtMostOne

\* Who marks himself free has his call answered.
LEMMA FewerOneEach ==
  ASSUME OneEach,
         \A k : Own(k)' \subseteq Own(k),
         view' = "detail" => view = "detail" \/ Own("post")' = {},
         view' = "detail" /\ busy' = NoButton => busy = NoButton \/ Own("post")' = {},
         dialog' # "busy" => dialog # "busy" \/ Own("create")' = {},
         view' = "login" /\ ~loading' => (view = "login" /\ ~loading) \/ Own("login")' = {}
  PROVE  OneEach'
<1>1. /\ view' = "detail" => AtMostOne(Own("post")')
      /\ view' = "detail" /\ busy' = NoButton => Own("post")' = {}
  BY DEF OneEach, AtMostOne
<1>2. AtMostOne(Own("create")') /\ AtMostOne(Own("login")')
  BY OneOfFewer DEF OneEach
<1>3. /\ dialog' # "busy" => Own("create")' = {}
      /\ view' = "login" /\ ~loading' => Own("login")' = {}
  BY DEF OneEach
<1> QED  BY <1>1, <1>2, <1>3, OneEachIs

\* A call is made only by who waits for none.
LEMMA UserOneEach ==
  ASSUME TypeInv, LoginAlone, OneEach, UserStep
  PROVE  OneEach'
<1>1. CASE SubmitLogin
  <2>1. /\ \E n : Own("login")' = Own("login") \cup {n}
        /\ \A k : k # "login" => Own(k)' = Own(k)
    BY <1>1, UserMoves, JoinOwn
  <2>2. Own("login") = {} /\ view' = "login" /\ loading' /\ UNCHANGED <<busy, dialog>>
    BY <1>1 DEF SubmitLogin, OneEach
  <2>3. Own("post")' = Own("post") /\ Own("create")' = Own("create")  BY <2>1
  <2>4. AtMostOne(Own("login")')  BY <2>1, <2>2 DEF AtMostOne
  <2> QED  BY <2>2, <2>3, <2>4, OneEachIs DEF OneEach
<1>2. CASE \E p \in Paths : SetFilter(p)
  BY <1>2, SameOwn, FewerOneEach DEF SetFilter
<1>3. CASE (\E v \in Pages, p \in Paths : Visit(v, p)) \/ Logout
  <2>1. \A k : Own(k)' = {}  BY <1>3, UserMoves, OrphanedOwn
  <2> QED  BY <2>1, OneEachIs DEF AtMostOne
<1>4. CASE \E b \in Buttons : Click(b)
  <2>1. PICK b \in Buttons : Click(b)  BY <1>4
  <2>2. /\ \E n : Own("post")' = Own("post") \cup {n}
        /\ \A k : k # "post" => Own(k)' = Own(k)
    <3>1. New(Post(b), "post") /\ Joins(calls, calls', Post(b))  BY <2>1, UserMoves
    <3> QED  BY <3>1, JoinOwn
  <2>3. view' = view /\ dialog' = dialog /\ loading' = loading /\ busy' # NoButton
    BY <2>1, ConsoleAssumption DEF Click, hook
  <2>4. ASSUME view' = "detail" PROVE AtMostOne(Own("post")')
    <3>1. busy = NoButton /\ view = "detail"
      BY <2>1, <2>3, <2>4 DEF Click, EnabledOnList, EnabledOnDetail
    <3> QED  BY <2>2, <3>1 DEF OneEach, AtMostOne
  <2>5. Own("create")' = Own("create") /\ Own("login")' = Own("login")  BY <2>2
  <2> QED  BY <2>3, <2>4, <2>5, OneEachIs DEF OneEach
<1>5. CASE OpenDialog
  BY <1>5, SameOwn, FewerOneEach DEF OpenDialog, hook
<1>6. CASE SubmitDialog
  <2>1. /\ \E n : Own("create")' = Own("create") \cup {n}
        /\ \A k : k # "create" => Own(k)' = Own(k)
    BY <1>6, UserMoves, JoinOwn
  <2>2. Own("create") = {} /\ dialog' = "busy" /\ UNCHANGED <<view, loading, busy>>
    BY <1>6 DEF SubmitDialog, OneEach, hook
  <2>3. Own("post")' = Own("post") /\ Own("login")' = Own("login")  BY <2>1
  <2>4. AtMostOne(Own("create")')  BY <2>1, <2>2 DEF AtMostOne
  <2> QED  BY <2>2, <2>3, <2>4, OneEachIs DEF OneEach
<1>7. CASE CloseDialog
  <2>1. calls \in Calls /\ calls' = Closing(calls)  BY <1>7 DEF CloseDialog, TypeInv, CallsOK
  <2>2. Own("create")' = {}
    BY <2>1, ClosingShrinks DEF Own, Pending, Shrinks
  <2>3. \A k : Own(k)' \subseteq Own(k)  BY <1>7, UserMoves, ShrinkOwn
  <2> QED  BY <1>7, <2>2, <2>3, FewerOneEach DEF CloseDialog, hook
<1> QED  BY <1>1, <1>2, <1>3, <1>4, <1>5, <1>6, <1>7 DEF UserStep

\* A reply frees who waited for it.
LEMMA CallOneEach ==
  ASSUME TypeInv, LoginAlone, OneEach,
         RunEffect \/ (\E i \in DOMAIN calls : CallStep(i)) \/ OthersWrite \/ Expire \/ UNCHANGED cvars
  PROVE  OneEach'
<1>1. CASE RunEffect
  <2>1. Own("post")' = Own("post") /\ Own("create")' = Own("create") /\ Own("login")' = Own("login")
    BY <1>1, EffectOwn
  <2>2. view # "login"  BY <1>1, LoginAloneIs DEF RunEffect
  <2> QED  BY <1>1, <2>1, <2>2, OneEachIs DEF RunEffect, OneEach
<1>2. ASSUME NEW i \in DOMAIN calls, CallStep(i) PROVE OneEach'
  <2>1. ASSUME Replied(i), calls' \in {Closed(i), Disowned(Closed(i)), Unloaded(Closed(i)),
                                      Closing(Closed(i))}
        PROVE  (\A k : Own(k)' \subseteq Own(k)) /\ i \in Pending
    BY <2>1, ReplyMoves, ShrinkOwn
  <2>2. ASSUME Orphaned PROVE OneEach'
    BY <2>2, OrphanedOwn, OneEachIs DEF AtMostOne
  <2>3. CASE Serve(i)  BY <2>3, ServeOwn, FewerOneEach DEF Serve, page
  <2>4. CASE Refused(i)  BY <2>4, <2>2, ReplyMoves DEF Refused
  <2>5. CASE Ignored(i)  BY <2>5, <2>1, FewerOneEach DEF Ignored, page
  <2>6. CASE Fetched(i)
    <3>1. view # "login"  BY <2>6, <2>1, WaitsWhere DEF Fetched
    <3> QED  BY <2>6, <2>1, <3>1, FewerOneEach DEF Fetched
  <2>7. CASE Acted(i)
    <3>1. view # "login" /\ i \in Own("post")  BY <2>7, <2>1, WaitsWhere DEF Acted, Own
    <3>2. CASE calls' = Disowned(Closed(i))  BY <2>7, <3>2, <2>2, ReplyMoves DEF Acted
    <3>3. CASE /\ calls' = Closed(i) /\ busy' = NoButton
               /\ UNCHANGED <<view, loading, dialog>>
      <4>1. Own("post")' = Own("post") \ {i}  BY <2>1, <2>7, <3>3, ClosedOwn DEF Acted
      <4>2. view = "detail" => Own("post")' = {}  BY <3>1, <4>1, OneOfFewer DEF OneEach
      <4> QED  BY <2>1, <2>7, <3>1, <3>3, <4>2, FewerOneEach DEF Acted
    <3> QED  BY <2>7, <3>2, <3>3 DEF Acted, ButtonFreed, hook
  <2>8. CASE Created(i)
    <3>1. view # "login"  BY <2>8, <2>1, WaitsWhere DEF Created
    <3>2. CASE calls' = Closing(Closed(i)) /\ dialog' = "closed"
      <4>1. Closed(i) \in Calls  BY <2>8, ReplyMoves DEF Created
      <4>2. Own("create")' = {}
        BY <3>2, <4>1, ClosingShrinks DEF Own, Pending, Shrinks
      <4> QED  BY <2>1, <2>8, <3>1, <3>2, <4>2, FewerOneEach DEF Created
    <3>3. CASE /\ calls' = Closed(i)
               /\ dialog' = IF calls[i].owner = "page" THEN "open" ELSE dialog
      <4>1. calls[i].owner = "page" => i \in Own("create")  BY <2>1, <2>8, <3>3 DEF Created, Own
      <4>2. Own("create")' = Own("create") \ {i}  BY <2>1, <2>8, <3>3, ClosedOwn DEF Created
      <4>3. calls[i].owner = "page" => Own("create")' = {}  BY <4>1, <4>2, OneOfFewer DEF OneEach
      <4>4. dialog' # "busy" => dialog # "busy" \/ Own("create")' = {}  BY <3>3, <4>3
      <4> QED  BY <2>1, <2>8, <3>1, <3>3, <4>4, FewerOneEach DEF Created
    <3> QED  BY <2>8, <3>2, <3>3 DEF Created
  <2>9. CASE LoggedIn(i)
    <3>1. view = "login" /\ i \in Own("login")  BY <2>9, <2>1, WaitsWhere DEF LoggedIn, Own
    <3>2. Own("login")' = Own("login") \ {i}  BY <2>9, <2>1, ClosedOwn DEF LoggedIn
    <3>3. Own("login")' = {}  BY <3>1, <3>2, OneOfFewer DEF OneEach
    <3>4. Own("create")' = {} /\ Own("post")' = {}
      <4>1. Foreign = {}  BY <3>1, LoginAloneIs
      <4>2. Own("create") = {} /\ Own("post") = {}  BY <4>1 DEF Own, Foreign
      <4> QED  BY <2>9, <2>1, <4>2 DEF LoggedIn
    <3> QED  BY <3>3, <3>4, OneEachIs DEF AtMostOne
  <2> QED  BY <1>2, <2>3, <2>4, <2>5, <2>6, <2>7, <2>8, <2>9 DEF CallStep
<1>3. CASE OthersWrite \/ Expire \/ UNCHANGED cvars
  BY <1>3, SameOwn, FewerOneEach DEF OthersWrite, Expire, cvars, page
<1> QED  BY <1>1, <1>2, <1>3

\* Every step keeps who waits for what.
LEMMA StepWaits == TypeInv /\ LoginAlone /\ OneEach /\ [Next]_cvars => LoginAlone' /\ OneEach'
  BY UserAlone, CallAlone, UserOneEach, CallOneEach DEF Next

\* At first nobody waits for anything.
LEMMA InitWaits == Init => LoginAlone /\ OneEach
<1> SUFFICES ASSUME Init PROVE LoginAlone /\ OneEach
  OBVIOUS
<1>1. Pending = {}  BY DEF Init, Pending
<1>2. \A k : Own(k) = {}  BY <1>1 DEF Own
<1>3. LoginAlone  BY <1>1, <1>2 DEF Init, LoginAlone, Pages
<1> QED  BY <1>2, <1>3 DEF OneEach, AtMostOne

-----------------------------------------------------------------------------
(***************************************************************************)
(* What is busy is pending.                                                *)
(***************************************************************************)

\* BusyIsPending of the next state, in its words.
LEMMA BusyIsPendingIs ==
  BusyIsPending' <=>
    /\ busy' # NoButton => \E i \in Own("post")' : calls'[i].button = busy'
    /\ dialog' = "busy" => Own("create")' # {}
  BY DEF BusyIsPending

\* What stays busy keeps its call.
LEMMA BusyStays ==
  ASSUME BusyIsPending,
         \/ busy' = NoButton
         \/ /\ busy' = busy
            /\ \A i \in Own("post") : i \in Own("post")' /\ calls'[i].button = calls[i].button,
         \/ dialog' # "busy"
         \/ dialog' = dialog /\ Own("create") \subseteq Own("create")'
  PROVE  BusyIsPending'
<1>1. busy' # NoButton => \E i \in Own("post")' : calls'[i].button = busy'
  BY DEF BusyIsPending
<1>2. dialog' = "busy" => Own("create")' # {}
  BY DEF BusyIsPending
<1> QED  BY <1>1, <1>2, BusyIsPendingIs

\* What becomes busy has just made its call.
LEMMA UserBusy ==
  ASSUME TypeInv, LoginAlone, BusyIsPending, UserStep
  PROVE  BusyIsPending'
<1>1. CASE SubmitLogin
  <2>1. view = "login" /\ UNCHANGED <<busy, dialog>>  BY <1>1 DEF SubmitLogin
  <2>2. busy' = NoButton /\ dialog' # "busy"  BY <2>1 DEF LoginAlone
  <2> QED  BY <2>2, BusyStays
<1>2. CASE (\E p \in Paths : SetFilter(p)) \/ OpenDialog
  <2>1. calls' = calls /\ busy' = busy /\ (dialog' = dialog \/ dialog' # "busy")
    BY <1>2 DEF SetFilter, OpenDialog
  <2>2. \A k : Own(k)' = Own(k)  BY <2>1, SameOwn
  <2> QED  BY <2>1, <2>2, BusyStays
<1>3. CASE (\E v \in Pages, p \in Paths : Visit(v, p)) \/ Logout
  BY <1>3, BusyStays DEF Visit, Mount, Logout, ShowLogin
<1>4. CASE \E b \in Buttons : Click(b)
  <2>1. PICK b \in Buttons : Click(b)  BY <1>4
  <2>2. New(Post(b), "post") /\ Post(b).button = b /\ Joins(calls, calls', Post(b))
    BY <2>1, UserMoves
  <2>3. \E n \in Own("post")' : calls'[n] = Post(b)  BY <2>2, JoinOwn
  <2>4. Own("create")' = Own("create")  BY <2>2, JoinOwn
  <2>5. busy' = b /\ dialog' = dialog  BY <2>1 DEF Click
  <2> QED  BY <2>2, <2>3, <2>4, <2>5, BusyIsPendingIs DEF BusyIsPending
<1>5. CASE SubmitDialog
  <2>1. New(Create, "create") /\ Joins(calls, calls', Create)  BY <1>5, UserMoves
  <2>2. Own("create")' # {}  BY <2>1, JoinOwn
  <2>3. Own("post")' = Own("post") /\ \A i \in Own("post") : calls'[i] = calls[i]
    BY <2>1, JoinOwn
  <2>4. busy' = busy  BY <1>5 DEF SubmitDialog
  <2> QED  BY <2>2, <2>3, <2>4, BusyIsPendingIs DEF BusyIsPending
<1>6. CASE CloseDialog
  <2>1. calls \in Calls /\ calls' = Closing(calls)  BY <1>6 DEF CloseDialog, TypeInv, CallsOK
  <2>2. Own("post")' = Own("post") /\ \A i \in Own("post") : calls'[i] = calls[i]
    <3>1. \A k : k # "create" => Own(k)' = Own(k) \ {} /\ \A j \in Own(k) \ {} : calls'[j] = calls[j]
      BY <2>1, ClosingOwn
    <3> QED  BY <3>1
  <2>3. busy' = busy /\ dialog' # "busy"  BY <1>6 DEF CloseDialog
  <2> QED  BY <2>2, <2>3, BusyStays
<1> QED  BY <1>1, <1>2, <1>3, <1>4, <1>5, <1>6 DEF UserStep

\* What is still busy after a reply waits for another.
LEMMA CallBusy ==
  ASSUME TypeInv, LoginAlone, OneEach, BusyIsPending,
         RunEffect \/ (\E i \in DOMAIN calls : CallStep(i)) \/ OthersWrite \/ Expire \/ UNCHANGED cvars
  PROVE  BusyIsPending'
<1>1. CASE RunEffect
  <2>1. /\ Own("post")' = Own("post") /\ Own("create")' = Own("create")
        /\ \A i \in Own("post") : calls'[i] = calls[i]
    BY <1>1, EffectOwn
  <2> QED  BY <1>1, <2>1, BusyStays DEF RunEffect
<1>2. ASSUME NEW i \in DOMAIN calls, CallStep(i) PROVE BusyIsPending'
  \* A reply that is not the one waited for.
  <2>1. ASSUME Replied(i), calls' = Closed(i), UNCHANGED <<busy, dialog>>,
               i \notin Own("post") \/ busy = NoButton, i \notin Own("create") \/ dialog # "busy"
        PROVE  BusyIsPending'
    <3>1. \A k : Own(k)' = Own(k) \ {i} /\ \A j \in Own(k) \ {i} : calls'[j] = calls[j]
      BY <2>1, ClosedOwn DEF Replied
    <3>2. \/ busy' = NoButton
          \/ /\ busy' = busy
             /\ \A j \in Own("post") : j \in Own("post")' /\ calls'[j].button = calls[j].button
      BY <2>1, <3>1
    <3>3. \/ dialog' # "busy"
          \/ dialog' = dialog /\ Own("create") \subseteq Own("create")'
      BY <2>1, <3>1
    <3> QED  BY <3>2, <3>3, BusyStays
  <2>2. CASE Serve(i)
    <3>1. /\ Own("post")' = Own("post") /\ Own("create")' = Own("create")
          /\ \A j \in Own("post") : calls'[j].button = calls[j].button
      BY <2>2, ServeOwn
    <3> QED  BY <2>2, <3>1, BusyStays DEF Serve, page
  <2>3. CASE Refused(i)  BY <2>3, BusyStays DEF Refused, ShowLogin
  <2>4. CASE Ignored(i)  BY <2>4, <2>1 DEF Ignored, page, Own
  <2>5. CASE Fetched(i)  BY <2>5, <2>1 DEF Fetched, Own
  <2>6. CASE Acted(i)
    <3>1. CASE \E p \in Paths : Mount("tenants", p)  BY <3>1, BusyStays DEF Mount
    <3>2. CASE busy' = NoButton /\ dialog' = dialog /\ calls' = Closed(i)
      <4>1. Own("create")' = Own("create") \ {i} /\ i \notin Own("create")
        BY <2>6, <3>2, ClosedOwn DEF Acted, Replied, Own
      <4> QED  BY <3>2, <4>1, BusyStays
    <3> QED  BY <2>6, <3>1, <3>2 DEF Acted, ButtonFreed, hook
  <2>7. CASE Created(i)
    <3>1. i \notin Own("post") /\ busy' = busy /\ i \in Pending
      BY <2>7 DEF Created, Own, Replied
    <3>2. CASE calls' = Closing(Closed(i)) /\ dialog' = "closed"
      <4>1. /\ Closed(i) \in Calls /\ DOMAIN Closed(i) = DOMAIN calls
            /\ Closed(i)[i] = Over /\ \A j \in DOMAIN calls : j # i => Closed(i)[j] = calls[j]
        BY <2>7, <3>1, ReplyMoves, ClosedShrinks DEF Created, Shrinks, TypeInv, CallsOK
      <4>2. \A j \in DOMAIN calls :
               IF j \in {i} THEN Closed(i)[j] = Over ELSE Closed(i)[j] = calls[j]
        BY <4>1
      <4>3. \A k : k # "create" => Own(k)' = Own(k) \ {i} /\ \A j \in Own(k) \ {i} : calls'[j] = calls[j]
        BY <3>2, <4>1, <4>2, ClosingOwn
      <4>4. Own("post")' = Own("post") /\ \A j \in Own("post") : calls'[j] = calls[j]
        BY <3>1, <4>3
      <4> QED  BY <3>1, <3>2, <4>4, BusyStays
    <3>3. CASE calls' = Closed(i) /\ calls[i].owner = "page" /\ dialog' = "open"
      <4>1. Own("post")' = Own("post") /\ \A j \in Own("post") : calls'[j] = calls[j]
        BY <3>1, <3>3, ClosedOwn
      <4> QED  BY <3>1, <3>3, <4>1, BusyStays
    <3>4. CASE calls' = Closed(i) /\ calls[i].owner # "page" /\ dialog' = dialog
      BY <2>7, <2>1, <3>1, <3>4 DEF Created, Own
    <3> QED  BY <2>7, <3>2, <3>3, <3>4 DEF Created
  <2>8. CASE LoggedIn(i)
    <3>1. view = "login"  BY <2>8, WaitsWhere DEF LoggedIn, Replied
    <3>2. busy' = NoButton /\ dialog' = "closed"
      BY <2>8, <3>1 DEF LoggedIn, Mount, LoginAlone
    <3> QED  BY <3>2, BusyStays
  <2> QED  BY <1>2, <2>2, <2>3, <2>4, <2>5, <2>6, <2>7, <2>8 DEF CallStep
<1>3. CASE OthersWrite \/ Expire \/ UNCHANGED cvars
  <2>1. calls' = calls /\ busy' = busy /\ dialog' = dialog
    BY <1>3 DEF OthersWrite, Expire, cvars, page
  <2>2. \A k : Own(k)' = Own(k)  BY <2>1, SameOwn
  <2> QED  BY <2>1, <2>2, BusyStays
<1> QED  BY <1>1, <1>2, <1>3

\* Every step keeps what is busy pending.
LEMMA StepBusy ==
  TypeInv /\ LoginAlone /\ OneEach /\ BusyIsPending /\ [Next]_cvars => BusyIsPending'
  BY UserBusy, CallBusy DEF Next

\* At first nothing is busy.
LEMMA InitBusy == Init => BusyIsPending
  BY DEF Init, BusyIsPending

-----------------------------------------------------------------------------
(***************************************************************************)
(* A page at rest is fresh.                                                *)
(***************************************************************************)

\* FetchIsFresh of the next state, in its words.
LEMMA FetchIsFreshIs ==
  FetchIsFresh' <=>
    (view' # "login" /\ ~due' =>
        \A i \in Own("get")' :
            /\ calls'[i].path = path'
            /\ calls'[i].answer = "ok" => calls'[i].version >= seen')
  BY DEF FetchIsFresh

\* A page that is not touched, with no fetch that it had not.
LEMMA FetchStays ==
  ASSUME FetchIsFresh, UNCHANGED <<view, path, due, seen>>,
         \A i \in Own("get")' : i \in Own("get") /\ calls'[i] = calls[i]
  PROVE  FetchIsFresh'
  BY FetchIsFreshIs DEF FetchIsFresh

\* The user makes the effect due or leaves the fetch in force alone.
LEMMA UserFetch ==
  ASSUME TypeInv, FetchIsFresh, UserStep
  PROVE  FetchIsFresh'
<1>1. ASSUME NEW c, NEW kind, New(c, kind), kind # "get", Joins(calls, calls', c),
             UNCHANGED <<view, path, due, seen>>
      PROVE  FetchIsFresh'
  <2>1. Own("get")' = Own("get") /\ \A i \in Own("get") : calls'[i] = calls[i]
    BY <1>1, JoinOwn
  <2> QED  BY <1>1, <2>1, FetchStays
<1>2. CASE SubmitLogin  BY <1>2, FetchIsFreshIs DEF SubmitLogin
<1>3. CASE \E p \in Paths : SetFilter(p)  BY <1>3, FetchIsFreshIs DEF SetFilter
<1>4. CASE \E v \in Pages, p \in Paths : Visit(v, p)  BY <1>4, FetchIsFreshIs DEF Visit, Mount
<1>5. CASE Logout  BY <1>5, FetchIsFreshIs DEF Logout, ShowLogin
<1>6. CASE \E b \in Buttons : Click(b)  BY <1>6, <1>1, UserMoves DEF Click, hook
<1>7. CASE OpenDialog
  <2>1. calls' = calls /\ UNCHANGED <<view, path, due, seen>>  BY <1>7 DEF OpenDialog, hook
  <2>2. Own("get")' = Own("get")  BY <2>1, SameOwn
  <2> QED  BY <2>1, <2>2, FetchStays
<1>8. CASE SubmitDialog  BY <1>8, <1>1, UserMoves DEF SubmitDialog, hook
<1>9. CASE CloseDialog
  <2>1. calls \in Calls /\ calls' = Closing(calls)  BY <1>9 DEF CloseDialog, TypeInv, CallsOK
  <2>2. Own("get")' = Own("get") \ {} /\ \A j \in Own("get") \ {} : calls'[j] = calls[j]
    BY <2>1, ClosingOwn
  <2>3. UNCHANGED <<view, path, due, seen>>  BY <1>9 DEF CloseDialog, hook
  <2> QED  BY <2>2, <2>3, FetchStays
<1> QED  BY <1>2, <1>3, <1>4, <1>5, <1>6, <1>7, <1>8, <1>9 DEF UserStep

\* The effect fetches the path that is shown, and the API answers with what it has
\* by then, which is all that the user can have seen.
LEMMA CallFetch ==
  ASSUME TypeInv, FetchIsFresh,
         RunEffect \/ (\E i \in DOMAIN calls : CallStep(i)) \/ OthersWrite \/ Expire \/ UNCHANGED cvars
  PROVE  FetchIsFresh'
<1>1. CASE RunEffect
  <2>1. \A i \in Own("get")' : calls'[i] = Get  BY <1>1, EffectOwn
  <2>2. Get.path = path /\ Get.answer = "none"  BY DEF Get
  <2>3. path' = path  BY <1>1 DEF RunEffect
  <2> QED  BY <2>1, <2>2, <2>3, FetchIsFreshIs
<1>2. ASSUME NEW i \in DOMAIN calls, CallStep(i) PROVE FetchIsFresh'
  <2>1. ASSUME Replied(i), calls' \in {Closed(i), Disowned(Closed(i)), Unloaded(Closed(i)),
                                      Closing(Closed(i))}
        PROVE  \A j \in Own("get")' : j \in Own("get") /\ calls'[j] = calls[j]
    BY <2>1, ReplyMoves, ShrinkOwn
  <2>2. CASE Serve(i)
    <3>1. /\ Own("get")' = Own("get")
          /\ \A j \in Own("get") :
                /\ calls'[j].path = calls[j].path
                /\ calls'[j] = calls[j] \/ (calls'[j].version = version' /\ version <= version')
      BY <2>2, ServeOwn
    <3>2. version' \in Nat /\ version \in Nat /\ seen \in 0 .. version
      BY <2>2, ServeMoves DEF TypeInv, TabOK
    <3>3. UNCHANGED <<view, path, due, seen>>  BY <2>2 DEF Serve, page
    <3>4. ASSUME view # "login", ~due, NEW j \in Own("get")
          PROVE  /\ calls'[j].path = path
                 /\ calls'[j].answer = "ok" => calls'[j].version >= seen
      <4>1. /\ calls[j].path = path
            /\ calls[j].answer = "ok" => calls[j].version >= seen
        BY <3>4 DEF FetchIsFresh
      <4>2. CASE calls'[j] = calls[j]  BY <4>1, <4>2
      <4>3. CASE calls'[j].version = version' /\ version <= version'
        BY <3>1, <3>2, <4>1, <4>3
      <4> QED  BY <3>1, <4>2, <4>3
    <3> QED  BY <3>1, <3>3, <3>4, FetchIsFreshIs
  <2>3. CASE Refused(i)  BY <2>3, FetchIsFreshIs DEF Refused, ShowLogin
  <2>4. CASE Ignored(i)  BY <2>4, <2>1, FetchStays DEF Ignored, page
  <2>5. CASE Fetched(i)  BY <2>5, <2>1, FetchStays DEF Fetched
  <2>6. CASE Acted(i)
    <3>1. CASE due' = TRUE  BY <3>1, FetchIsFreshIs
    <3>2. CASE calls' = Closed(i) /\ UNCHANGED <<seen, view, hook>>
      BY <2>6, <2>1, <3>2, FetchStays DEF Acted, hook
    <3> QED  BY <2>6, <3>1, <3>2 DEF Acted, Mount
  <2>7. CASE Created(i)
    <3>1. CASE due' = TRUE  BY <3>1, FetchIsFreshIs
    <3>2. CASE calls' = Closed(i) /\ UNCHANGED <<seen, due>>
      BY <2>7, <2>1, <3>2, FetchStays DEF Created
    <3> QED  BY <2>7, <3>1, <3>2 DEF Created
  <2>8. CASE LoggedIn(i)
    <3>1. CASE \E p \in Paths : Mount("read", p)  BY <3>1, FetchIsFreshIs DEF Mount
    <3>2. CASE UNCHANGED <<view, path, due>>
      BY <2>8, <2>1, <3>2, FetchStays DEF LoggedIn
    <3> QED  BY <2>8, <3>1, <3>2 DEF LoggedIn
  <2> QED  BY <1>2, <2>2, <2>3, <2>4, <2>5, <2>6, <2>7, <2>8 DEF CallStep
<1>3. CASE OthersWrite \/ Expire \/ UNCHANGED cvars
  <2>1. calls' = calls /\ UNCHANGED <<view, path, due, seen>>
    BY <1>3 DEF OthersWrite, Expire, cvars, page
  <2>2. Own("get")' = Own("get")  BY <2>1, SameOwn
  <2> QED  BY <2>1, <2>2, FetchStays
<1> QED  BY <1>1, <1>2, <1>3

\* A step that neither shows data nor ends the loading changes nothing of it.
LEMMA RestStays ==
  ASSUME RestIsFresh,
         \/ view' = "login" \/ due' \/ loading' \/ error'
         \/ UNCHANGED <<view, path, due, data, error, loading, seen>>
  PROVE  RestIsFresh'
  BY DEF RestIsFresh

\* Only a fetch in force brings the page to rest.
LEMMA StepRest ==
  ASSUME TypeInv, LoginAlone, FetchIsFresh, RestIsFresh, [Next]_cvars
  PROVE  RestIsFresh'
<1>1. CASE UserStep
  <2>1. CASE SubmitLogin  BY <2>1, RestStays DEF SubmitLogin
  <2>2. CASE \E p \in Paths : SetFilter(p)  BY <2>2, RestStays DEF SetFilter
  <2>3. CASE \E v \in Pages, p \in Paths : Visit(v, p)  BY <2>3, RestStays DEF Visit, Mount
  <2>4. CASE Logout  BY <2>4, RestStays DEF Logout, ShowLogin
  <2>5. CASE \E b \in Buttons : Click(b)  BY <2>5, RestStays DEF Click, hook
  <2>6. CASE OpenDialog \/ SubmitDialog \/ CloseDialog
    BY <2>6, RestStays DEF OpenDialog, SubmitDialog, CloseDialog, hook
  <2> QED  BY <1>1, <2>1, <2>2, <2>3, <2>4, <2>5, <2>6 DEF UserStep
<1>2. CASE RunEffect  BY <1>2, RestStays DEF RunEffect
<1>3. ASSUME NEW i \in DOMAIN calls, CallStep(i) PROVE RestIsFresh'
  <2>1. CASE Serve(i)  BY <2>1, RestStays DEF Serve, page
  <2>2. CASE Refused(i)  BY <2>2, RestStays DEF Refused, ShowLogin
  <2>3. CASE Ignored(i)  BY <2>3, RestStays DEF Ignored, page
  <2>4. CASE Fetched(i)
    <3>1. CASE error'  BY <3>1, RestStays
    <3>2. CASE /\ calls[i].answer = "ok"
               /\ data' = [path |-> calls[i].path, version |-> calls[i].version]
      <4> SUFFICES ASSUME view' # "login", ~due'
                   PROVE  data' # NoData /\ data'.path = path' /\ data'.version >= seen'
        BY DEF RestIsFresh
      <4>1. UNCHANGED <<view, path, due, seen>> /\ i \in Own("get")
        BY <2>4 DEF Fetched, Replied, Own
      <4>2. calls[i].path = path /\ calls[i].version >= seen
        BY <3>2, <4>1 DEF FetchIsFresh
      <4>3. path # "none"  BY ConsoleAssumption DEF TypeInv, TabOK
      <4> QED  BY <3>2, <4>1, <4>2, <4>3 DEF NoData
    <3> QED  BY <2>4, <3>1, <3>2 DEF Fetched
  <2>5. CASE Acted(i)  BY <2>5, RestStays DEF Acted, Mount, hook
  <2>6. CASE Created(i)  BY <2>6, RestStays DEF Created
  <2>7. CASE LoggedIn(i)  BY <2>7, RestStays DEF LoggedIn, Mount
  <2> QED  BY <1>3, <2>1, <2>2, <2>3, <2>4, <2>5, <2>6, <2>7 DEF CallStep
<1>4. CASE OthersWrite \/ Expire \/ UNCHANGED cvars
  BY <1>4, RestStays DEF OthersWrite, Expire, cvars, page
<1> QED  BY <1>1, <1>2, <1>3, <1>4 DEF Next

\* Every step keeps the fetch and the page fresh.
LEMMA StepFresh ==
  TypeInv /\ LoginAlone /\ FetchIsFresh /\ RestIsFresh /\ [Next]_cvars => FetchIsFresh' /\ RestIsFresh'
  BY UserFetch, CallFetch, StepRest DEF Next

\* At first the effect is due, or the login page is shown.
LEMMA InitFresh == Init => FetchIsFresh /\ RestIsFresh
  BY DEF Init, FetchIsFresh, RestIsFresh, Own, Pending

-----------------------------------------------------------------------------
(***************************************************************************)
(* The theorems.                                                           *)
(***************************************************************************)

\* All that a step needs to know.
ConsoleInv == TypeInv /\ Budget /\ LoginAlone /\ OneEach

\* It is inductive.
LEMMA ConsoleInvariant == Spec => []ConsoleInv
<1>1. Init => ConsoleInv
  BY InitType, InitBudget, InitWaits DEF ConsoleInv
<1>2. ConsoleInv /\ [Next]_cvars => ConsoleInv'
  BY StepType, StepBudget, StepWaits DEF ConsoleInv
<1> QED  BY <1>1, <1>2, PTL DEF Spec

\* A set of numbers of which there is at most one has one at most.
LEMMA OneIsOne ==
  ASSUME NEW S, AtMostOne(S)
  PROVE  Cardinality(S) <= 1
<1>1. CASE S = {}  BY <1>1, FS_EmptySet
<1>2. CASE S # {}
  <2>1. PICK c \in S : TRUE  BY <1>2
  <2>2. S \subseteq {c}  BY <2>1 DEF AtMostOne
  <2>3. IsFiniteSet({c}) /\ Cardinality({c}) = 1  BY FS_Singleton
  <2> QED  BY <2>2, <2>3, FS_Subset
<1> QED  BY <1>1, <1>2

\* Every variable has its type, every page but the login is shown with a session,
\* and the user's clicks bound the calls that are open: the slots of calls that
\* api() has in flight are used again, so no click costs more than its own call and
\* the fetch that follows it.
THEOREM ConsoleTypeCorrect == Spec => []TypeOK
<1>1. ASSUME ConsoleInv PROVE TypeOK
  <2>1. TabOK /\ calls \in Calls  BY <1>1 DEF ConsoleInv, TypeInv, CallsOK
  <2>2. clicks \in 0 .. MaxClicks /\ MaxClicks \in Nat /\ clicks \in Nat
    BY <2>1, ConsoleAssumption DEF TabOK
  <2>3. session \in 0 .. MaxClicks + 1 /\ expired \subseteq 1 .. MaxClicks + 1
    BY <2>1, <2>2 DEF TabOK
  <2>4. Len(calls) <= 2 * MaxClicks + 1
    <3>1. Len(calls) \in Nat  BY <2>1, CallsDomain
    <3>2. Cardinality(Stirring(calls)) \in Nat
      BY <1>1, FS_CardinalityType DEF ConsoleInv, Budget
    <3>3. Due \in Nat  BY DEF Due
    <3>4. Len(calls) + Cardinality(Stirring(calls)) + Due <= 2 * clicks + 1
      BY <1>1 DEF ConsoleInv, Budget
    <3>5. Len(calls) <= 2 * clicks + 1  BY <2>2, <3>1, <3>2, <3>3, <3>4
    <3> QED  BY <2>2, <3>1, <3>5
  <2>5. view # "login" => session # 0  BY <1>1 DEF ConsoleInv, LoginAlone
  <2>6. due \in BOOLEAN /\ error \in BOOLEAN /\ loading \in BOOLEAN  BY <2>1, Zenon DEF TabOK
  <2> QED  BY <2>1, <2>2, <2>3, <2>4, <2>5, <2>6 DEF TypeOK, TabOK, Calls
<1> QED  BY <1>1, ConsoleInvariant, PTL

\* The detail page sends one action at a time, a dialog one creation and the login
\* form one login: what disables their buttons (busy, loading) lasts as long as the
\* call, however replies to earlier pages and dialogs come in between.
THEOREM OneActionIsSent == Spec => []OneActionAtATime
<1>1. ASSUME ConsoleInv PROVE OneActionAtATime
  BY <1>1, OneIsOne DEF ConsoleInv, OneEach, OneActionAtATime
<1> QED  BY <1>1, ConsoleInvariant, PTL

\* No button and no dialog is busy without a call of its own to end that, although
\* every reply to a click frees whichever button is busy.
THEOREM BusyEnds == Spec => []BusyIsPending
<1>1. ConsoleInv /\ BusyIsPending /\ [Next]_cvars => BusyIsPending'
  BY StepBusy DEF ConsoleInv
<1> QED  BY <1>1, InitBusy, ConsoleInvariant, PTL DEF Spec

\* A page at rest shows data of its own path that is as new as all that the user saw
\* succeed: the effect's cleanup keeps the replies of earlier paths out, and the
\* fetch after a write is served after it.
THEOREM PageAtRestIsFresh == Spec => []RestIsFresh
<1>1. ConsoleInv /\ FetchIsFresh /\ RestIsFresh /\ [Next]_cvars => FetchIsFresh' /\ RestIsFresh'
  BY StepFresh DEF ConsoleInv
<1> QED  BY <1>1, InitFresh, ConsoleInvariant, PTL DEF Spec

\* A session ends by a logout, or by a call of a session that had expired: a login
\* finds no session to replace, and a failure of the API leaves it alone.
THEOREM SessionIsKept == Spec => SessionKept
<1> DEFINE Kept == session # 0 /\ session' # session =>
                     \/ session' = 0 /\ clicks' # clicks
                     \/ session' = 0 /\ \E i \in Pending : calls[i].session \in expired
<1>1. ASSUME ConsoleInv, [Next]_cvars PROVE [Kept]_cvars
  <2>1. TypeInv /\ LoginAlone /\ clicks \in Nat
    BY <1>1, ConsoleAssumption DEF ConsoleInv, TypeInv, TabOK
  <2>2. CASE UserStep
    <3>1. CASE Logout  BY <2>1, <3>1 DEF Logout, User
    <3>2. CASE ~Logout
      BY <2>2, <3>2 DEF UserStep, SubmitLogin, SetFilter, Visit, Click, OpenDialog, SubmitDialog,
                        CloseDialog
    <3> QED  BY <3>1, <3>2
  <2>3. CASE RunEffect \/ OthersWrite \/ Expire  BY <2>3 DEF RunEffect, OthersWrite, Expire
  <2>4. ASSUME NEW i \in DOMAIN calls, CallStep(i) PROVE Kept
    <3>1. CASE Serve(i) \/ Ignored(i) \/ Fetched(i) \/ Acted(i) \/ Created(i)
      BY <3>1 DEF Serve, Ignored, Fetched, Acted, Created
    <3>2. CASE Refused(i)
      <4>1. i \in Pending /\ session' = 0 /\ calls[i].session \in expired
        BY <2>1, <3>2, ReplyMoves DEF Refused, Sound
      <4> QED  BY <4>1
    <3>3. CASE LoggedIn(i)
      <4>1. view = "login"  BY <2>1, <3>3, WaitsWhere DEF LoggedIn, Replied
      <4>2. session = 0  BY <2>1, <4>1 DEF LoginAlone
      <4> QED  BY <4>2
    <3> QED  BY <2>4, <3>1, <3>2, <3>3 DEF CallStep
  <2> QED  BY <1>1, <2>2, <2>3, <2>4 DEF Next
<1> QED  BY <1>1, ConsoleInvariant, PTL DEF Spec, SessionKept
=============================================================================
