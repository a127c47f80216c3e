------------------------------- MODULE Session ------------------------------
(***************************************************************************)
(* A browser's requests through StartSession and VerifyCsrfToken           *)
(* (crates/rainier-session/src/middleware.rs, csrf.rs), with the session   *)
(* bag (session.rs), a server-side store (store.rs, database.rs, cache.rs) *)
(* and the session guard's login and logout (crates/rainier-auth/src/      *)
(* guard.rs).  Requests may overlap; the store may fail any call; a        *)
(* response may be lost.                                                   *)
(*                                                                         *)
(* Of what a bag holds two keys are kept: "auth", the identity, and        *)
(* "note", which handlers put, flash, keep and pull.                       *)
(***************************************************************************)
EXTENDS Integers

CONSTANTS
    Requests,       \* requests under way at one time
    Idle,           \* "no request here"
    NoSession,      \* "the store has nothing under this id"
    Lifetime,       \* ticks a session lives without being written
    Overlap,        \* whether the browser sends a request before the last is answered
    MaxMinted,      \* bound: ids and tokens generated
    MaxRequests,    \* bound: requests sent
    MaxEvents       \* bound: failed calls, responses lost or without a token, revocations, ticks

Keys == {"auth", "note"}
Methods == {"exempt", "checked"}
Minted == 1 .. MaxMinted
Ids == 0 .. MaxMinted
Stored == [keys: SUBSET Keys, flash: SUBSET Keys, token: Ids, left: Nat]
Request ==
    [pc: {"load", "reap", "gate", "handle", "save", "store", "respond"}, method: Methods,
     id: Ids, presents: Ids, keys: SUBSET Keys, token: Ids, old: SUBSET Keys, new: SUBSET Keys,
     dirty: BOOLEAN, detached: BOOLEAN, empty: BOOLEAN, superseded: SUBSET Minted,
     op: {"none", "put", "flash", "keep", "pull", "login", "logout"}, named: Ids, sets: Ids]

ASSUME ConstantsAssumption ==
    /\ Lifetime \in Nat \ {0}
    /\ Overlap \in BOOLEAN
    /\ {MaxMinted, MaxRequests, MaxEvents} \subseteq Nat
    /\ Idle \notin Request \cup Requests /\ NoSession \notin Stored

(* Ids and tokens are numbers, 0 is none.                                  *)
VARIABLES
    store,
    cookie, xsrf,   \* the browser's session and XSRF-TOKEN cookies
    req,
    minted,         \* generate_session_id: never the same twice
    dead,           \* ids destroyed so far
    reopened,       \* of these, the ones another request had loaded by then
    signed, note,   \* what the browser's user expects of the session
    overlapped,     \* two requests were under way
    disturbed,      \* an event took, or may have taken, the session away
    bare,           \* a session was stored without a token
    astray,         \* the last response to move a cookie moved only one of the two
    sent, events

browser == <<cookie, xsrf>>
history == <<dead, reopened, signed, note, overlapped, disturbed, bare, astray>>
vars == <<store, browser, req, minted, history, sent, events>>

-----------------------------------------------------------------------------
Active(r) == req[r] # Idle
Alone(r) == \A q \in Requests : Active(q) => q = r
At(r, pc) == Active(r) /\ req[r].pc = pc
Live(id) == store[id] # NoSession /\ store[id].left > 0
Event == events < MaxEvents /\ events' = events + 1
Calm == UNCHANGED <<sent, events>>

(* Session::restore.                                                       *)
Restored(r, id, keys, flash, token) ==
    [req[r] EXCEPT !.pc = "gate", !.id = id, !.keys = keys, !.old = flash, !.token = token,
                   !.empty = (keys = {} /\ token = 0)]

(* Session::new: an id of its own.                                         *)
Fresh(r) ==
    /\ minted < MaxMinted
    /\ minted' = minted + 1
    /\ req' = [req EXCEPT ![r] = Restored(r, minted + 1, {}, {}, 0)]

Init ==
    /\ store = [id \in Minted |-> NoSession]
    /\ cookie = 0 /\ xsrf = 0
    /\ req = [r \in Requests |-> Idle]
    /\ minted = 0
    /\ dead = {} /\ reopened = {}
    /\ signed = FALSE /\ note = "none"
    /\ overlapped = FALSE /\ disturbed = FALSE /\ bare = FALSE /\ astray = FALSE
    /\ sent = 0 /\ events = 0

-----------------------------------------------------------------------------
(* The token a request presents: what a front end copied from XSRF-TOKEN,  *)
(* what a form had, by now perhaps an old one, or none.  It is looked at   *)
(* where nothing else vouches for the request (Passes).                    *)
Presented(method) == IF method = "checked" THEN 0 .. minted ELSE {0}

(* The browser sends its cookies.  "exempt" is what passes without a token:*)
(* a method that only reads, a same-origin Sec-Fetch-Site, an excepted     *)
(* path.                                                                   *)
Send(r, method, token) ==
    /\ ~Active(r)
    /\ Overlap \/ \A q \in Requests : ~Active(q)
    /\ sent < MaxRequests
    /\ sent' = sent + 1
    /\ req' = [req EXCEPT ![r] =
          [pc |-> "load", method |-> method, id |-> cookie, presents |-> token,
           keys |-> {}, token |-> 0, old |-> {}, new |-> {}, dirty |-> FALSE, detached |-> FALSE,
           empty |-> TRUE, superseded |-> {}, op |-> "none", named |-> 0, sets |-> 0]]
    /\ overlapped' = (overlapped \/ \E q \in Requests : Active(q))
    /\ disturbed' = (disturbed \/ \E q \in Requests : Active(q) /\ req[q].op \in {"login", "logout"})
    /\ UNCHANGED <<store, browser, minted, dead, reopened, signed, note, bare, astray, events>>

(* load: no cookie, or one that names nothing: a session of its own.       *)
LoadNone(r) ==
    /\ At(r, "load")
    /\ req[r].id # 0 => store[req[r].id] = NoSession
    /\ Fresh(r)
    /\ UNCHANGED <<store, browser, history>> /\ Calm

LoadFound(r) ==
    /\ At(r, "load") /\ req[r].id # 0
    /\ Live(req[r].id)
    /\ LET data == store[req[r].id]
       IN  req' = [req EXCEPT ![r] = Restored(r, req[r].id, data.keys, data.flash, data.token)]
    /\ UNCHANGED <<store, browser, minted, history>> /\ Calm

(* read finds an expired session, ...                                      *)
LoadExpired(r) ==
    /\ At(r, "load") /\ req[r].id # 0
    /\ store[req[r].id] # NoSession /\ ~Live(req[r].id)
    /\ req' = [req EXCEPT ![r].pc = "reap"]
    /\ UNCHANGED <<store, browser, minted, history>> /\ Calm

(* ... and drops it: from a database by a delete of its own, which does    *)
(* not look at the row again; from memory or a cache with nothing between. *)
Reap(r) ==
    /\ At(r, "reap")
    /\ store' = [store EXCEPT ![req[r].id] = NoSession]
    /\ Fresh(r)
    /\ UNCHANGED <<browser, history>> /\ Calm

(* Mutant: an unreadable session is replaced by a new one.                 *)
LoadFailsAfresh(r) ==
    /\ At(r, "load") \/ At(r, "reap")
    /\ req[r].id # 0
    /\ Event
    /\ Fresh(r)
    /\ UNCHANGED <<store, browser, history, sent>>

(* The store cannot be read: the session is detached, and keeps its id.    *)
LoadFails(r) ==
    /\ At(r, "load") \/ At(r, "reap")
    /\ req[r].id # 0
    /\ Event
    /\ req' = [req EXCEPT ![r] = [Restored(r, req[r].id, {}, {}, 0) EXCEPT !.detached = TRUE]]
    /\ UNCHANGED <<store, browser, minted, history, sent>>

-----------------------------------------------------------------------------
(* VerifyCsrfToken: only a token the session already has counts.           *)
TokensMatch(r) == req[r].token # 0 /\ req[r].presents = req[r].token
Passes(r) == req[r].method = "exempt" \/ TokensMatch(r)

Verify(r) ==
    /\ At(r, "gate")
    /\ req' = [req EXCEPT ![r].pc = IF Passes(r) THEN "handle" ELSE "save"]
    /\ UNCHANGED <<store, browser, minted, history>> /\ Calm

(* The handler, before it has done anything to the bag.                    *)
Handling(r) == At(r, "handle") /\ req[r].op = "none"

Put(r) ==
    /\ Handling(r)
    /\ req' = [req EXCEPT ![r].op = "put", ![r].keys = @ \cup {"note"}, ![r].dirty = TRUE]
    /\ UNCHANGED <<store, browser, minted, history>> /\ Calm

Flash(r) ==
    /\ Handling(r)
    /\ req' = [req EXCEPT ![r].op = "flash", ![r].keys = @ \cup {"note"},
                          ![r].new = @ \cup {"note"}, ![r].dirty = TRUE]
    /\ UNCHANGED <<store, browser, minted, history>> /\ Calm

(* keep, reflash: what was flashed before is flashed again.                *)
Keep(r) ==
    /\ Handling(r)
    /\ req' = [req EXCEPT ![r].op = "keep", ![r].new = @ \cup req[r].old,
                          ![r].dirty = @ \/ req[r].old # {}]
    /\ UNCHANGED <<store, browser, minted, history>> /\ Calm

(* pull, forget.                                                           *)
Pull(r) ==
    /\ Handling(r)
    /\ req' = [req EXCEPT ![r].op = "pull", ![r].keys = @ \ {"note"},
                          ![r].dirty = @ \/ "note" \in req[r].keys]
    /\ UNCHANGED <<store, browser, minted, history>> /\ Calm

(* regenerate: the id so far is one to destroy.                            *)
Regenerated(r, bag) == [bag EXCEPT !.id = minted + 1, !.superseded = @ \cup {req[r].id}, !.dirty = TRUE]

(* The guard's login: regenerate, then the identity.                       *)
Login(r) ==
    /\ Handling(r)
    /\ minted < MaxMinted /\ minted' = minted + 1
    /\ req' = [req EXCEPT ![r] = [Regenerated(r, req[r]) EXCEPT !.op = "login", !.keys = @ \cup {"auth"}]]
    /\ disturbed' = (disturbed \/ ~Alone(r))
    /\ UNCHANGED <<store, browser, dead, reopened, signed, note, overlapped, bare, astray>> /\ Calm

(* The guard's logout: invalidate, that is flush, then regenerate.         *)
Logout(r) ==
    /\ Handling(r)
    /\ minted < MaxMinted /\ minted' = minted + 1
    /\ req' = [req EXCEPT ![r] = [Regenerated(r, req[r]) EXCEPT !.op = "logout", !.keys = {},
                                  !.token = 0, !.old = {}, !.new = {}]]
    /\ disturbed' = (disturbed \/ ~Alone(r))
    /\ UNCHANGED <<store, browser, dead, reopened, signed, note, overlapped, bare, astray>> /\ Calm

(* Mutant: every response mints a token anew.                              *)
FinishRenewing(r) ==
    /\ At(r, "handle")
    /\ minted < MaxMinted /\ minted' = minted + 1
    /\ req' = [req EXCEPT ![r].pc = "save", ![r].sets = minted + 1,
                          ![r].token = minted + 1, ![r].dirty = TRUE]
    /\ UNCHANGED <<store, browser, history>> /\ Calm

(* After the handler, VerifyCsrfToken sets XSRF-TOKEN, minting the token   *)
(* the session does not have yet.                                          *)
Finish(r) ==
    /\ At(r, "handle")
    /\ IF req[r].token = 0
       THEN /\ minted < MaxMinted /\ minted' = minted + 1
            /\ req' = [req EXCEPT ![r].pc = "save", ![r].sets = minted + 1,
                                  ![r].token = minted + 1, ![r].dirty = TRUE]
       ELSE /\ req' = [req EXCEPT ![r].pc = "save", ![r].sets = req[r].token]
            /\ UNCHANGED minted
    /\ UNCHANGED <<store, browser, history>> /\ Calm

(* Or the response goes without it: the cookie is turned off, or the       *)
(* session has no token and reads mint none; or the token, minted or not,  *)
(* could not be sealed.                                                    *)
FinishUntold(r) ==
    /\ At(r, "handle")
    /\ Event
    /\ \/ /\ req' = [req EXCEPT ![r].pc = "save"]
          /\ UNCHANGED minted
       \/ /\ req[r].token = 0
          /\ minted < MaxMinted /\ minted' = minted + 1
          /\ req' = [req EXCEPT ![r].pc = "save", ![r].token = minted + 1, ![r].dirty = TRUE]
    /\ UNCHANGED <<store, browser, history, sent>>

-----------------------------------------------------------------------------
(* Mutant: a session that was not changed is not written.                  *)
UnsavedClean(r) == req[r].detached \/ ~req[r].dirty

(* A detached session is never written back, nor one that was and stayed   *)
(* empty.                                                                  *)
Unsaved(r) == req[r].detached \/ (req[r].empty /\ ~req[r].dirty)

Save(r) ==
    /\ At(r, "save")
    /\ req' = [req EXCEPT ![r].pc = IF Unsaved(r) THEN "respond" ELSE "store"]
    /\ UNCHANGED <<store, browser, minted, history>> /\ Calm

(* Another request has this session in its hands, and may yet write it.    *)
Held(id, r) ==
    \E q \in Requests \ {r} :
        /\ Active(q) /\ req[q].pc \notin {"load", "reap", "respond"}
        /\ req[q].id = id /\ ~req[q].detached

Destroyed(id, r) ==
    /\ store' = [store EXCEPT ![id] = NoSession]
    /\ dead' = dead \cup {id}
    /\ reopened' = IF Held(id, r) THEN reopened \cup {id} ELSE reopened

(* Mutant: superseded sessions are left to expire.                         *)
DestroyNothing(r, id) ==
    /\ At(r, "store") /\ id \in req[r].superseded
    /\ req' = [req EXCEPT ![r].superseded = @ \ {id}]
    /\ dead' = dead \cup {id}
    /\ UNCHANGED <<store, browser, minted, reopened, signed, note, overlapped, disturbed, bare, astray>> /\ Calm

(* save: first the superseded ids, one by one, ...                         *)
Destroy(r, id) ==
    /\ At(r, "store") /\ id \in req[r].superseded
    /\ req' = [req EXCEPT ![r].superseded = @ \ {id}]
    /\ Destroyed(id, r)
    /\ UNCHANGED <<browser, minted, signed, note, overlapped, disturbed, bare, astray>> /\ Calm

(* age_and_take: what was flashed before and not kept goes, what was       *)
(* flashed now becomes the next request's.                                 *)
AgeAndTake(bag) ==
    [keys |-> bag.keys \ (bag.old \ bag.new), flash |-> bag.new, token |-> bag.token, left |-> Lifetime]

(* ... then the session, whole, with its lifetime renewed.                 *)
Write(r) ==
    /\ At(r, "store") /\ req[r].superseded = {}
    /\ store' = [store EXCEPT ![req[r].id] = AgeAndTake(req[r])]
    /\ req' = [req EXCEPT ![r].pc = "respond", ![r].named = req[r].id]
    /\ bare' = (bare \/ req[r].token = 0)
    /\ UNCHANGED <<browser, minted, dead, reopened, signed, note, overlapped, disturbed, astray>> /\ Calm

(* A call of save fails: the response goes out without a session cookie.   *)
SaveFails(r) ==
    /\ At(r, "store")
    /\ Event
    /\ req' = [req EXCEPT ![r].pc = "respond"]
    /\ disturbed' = TRUE
    /\ UNCHANGED <<store, browser, minted, dead, reopened, signed, note, overlapped, bare, astray, sent>>

(* What put, flash, keep and pull make of the note, as their docs say but  *)
(* for one case: a put over a note flashed before does not outlast the     *)
(* request (PutStored).                                                    *)
NoteAfter(op) ==
    CASE op = "put" -> IF note = "flashed" THEN "none" ELSE "stored"
      [] op = "flash" -> "flashed"
      [] op = "keep" -> note
      [] op \in {"pull", "logout"} -> "none"
      [] OTHER -> IF note = "flashed" THEN "none" ELSE note

Kept(new, old) == IF new # 0 THEN new ELSE old

(* A response that carries both cookies brings them together, one that     *)
(* changes one of them may part them.                                      *)
Parted(b) ==
    /\ b.named = 0 \/ b.sets = 0
    /\ astray \/ b.named \notin {0, cookie} \/ b.sets \notin {0, xsrf}

Respond(r) ==
    /\ At(r, "respond")
    /\ cookie' = Kept(req[r].named, cookie)
    /\ xsrf' = Kept(req[r].sets, xsrf)
    /\ signed' = CASE req[r].op = "login" /\ req[r].named # 0 -> TRUE
                   [] req[r].op = "logout" /\ req[r].named # 0 -> FALSE
                   [] OTHER -> signed
    /\ note' = IF req[r].detached THEN note ELSE NoteAfter(req[r].op)
    /\ astray' = Parted(req[r])
    /\ req' = [req EXCEPT ![r] = Idle]
    /\ UNCHANGED <<store, minted, dead, reopened, overlapped, disturbed, bare>> /\ Calm

(* The response does not arrive.                                           *)
LoseResponse(r) ==
    /\ At(r, "respond")
    /\ Event
    /\ req' = [req EXCEPT ![r] = Idle]
    /\ disturbed' = TRUE
    /\ UNCHANGED <<store, browser, minted, dead, reopened, signed, note, overlapped, bare, astray, sent>>

(* SessionManager::destroy: somebody logs this device out.                 *)
Revoke(id) ==
    /\ store[id] # NoSession
    /\ Event
    /\ Destroyed(id, Idle)
    /\ disturbed' = TRUE
    /\ UNCHANGED <<browser, req, minted, signed, note, overlapped, bare, astray, sent>>

(* Time passes, and sessions expire.                                       *)
Tick ==
    /\ Event
    /\ store' = [id \in Minted |-> IF Live(id) THEN [store[id] EXCEPT !.left = @ - 1] ELSE store[id]]
    /\ disturbed' = TRUE
    /\ UNCHANGED <<browser, req, minted, dead, reopened, signed, note, overlapped, bare, astray, sent>>

(* gc: expired sessions go.                                                *)
Gc ==
    /\ \E id \in Minted : store[id] # NoSession /\ ~Live(id)
    /\ store' = [id \in Minted |-> IF Live(id) THEN store[id] ELSE NoSession]
    /\ UNCHANGED <<browser, req, minted, history>> /\ Calm

RequestStep(r) ==
    \/ LoadNone(r)
    \/ LoadFound(r)
    \/ LoadExpired(r)
    \/ Reap(r)
    \/ LoadFails(r)
    \/ Verify(r)
    \/ Put(r)
    \/ Flash(r)
    \/ Keep(r)
    \/ Pull(r)
    \/ Login(r)
    \/ Logout(r)
    \/ Finish(r)
    \/ FinishUntold(r)
    \/ Save(r)
    \/ \E id \in req[r].superseded : Destroy(r, id)
    \/ Write(r)
    \/ SaveFails(r)
    \/ Respond(r)
    \/ LoseResponse(r)

Next ==
    \/ \E r \in Requests, method \in Methods : \E token \in Presented(method) : Send(r, method, token)
    \/ \E r \in Requests : Active(r) /\ RequestStep(r)
    \/ \E id \in Minted : Revoke(id)
    \/ Tick
    \/ Gc

Spec == Init /\ [][Next]_vars

-----------------------------------------------------------------------------
(* Type correctness.                                                       *)
TypeOK ==
    /\ store \in [Minted -> Stored \cup {NoSession}]
    /\ cookie \in Ids /\ xsrf \in Ids
    /\ req \in [Requests -> Request \cup {Idle}]
    /\ minted \in Ids
    /\ dead \subseteq Minted /\ reopened \subseteq Minted
    /\ signed \in BOOLEAN
    /\ note \in {"none", "flashed", "stored"}
    /\ overlapped \in BOOLEAN
    /\ disturbed \in BOOLEAN
    /\ bare \in BOOLEAN /\ astray \in BOOLEAN
    /\ sent \in Nat /\ events \in Nat

Quiet == \A r \in Requests : ~Active(r)

Holds(key) == cookie # 0 /\ Live(cookie) /\ key \in store[cookie].keys

(* "When the store returns, the visitor is still signed in": however many  *)
(* reads failed, and whatever requests overlapped without one of them      *)
(* signing in or out, the session of a user who signed in, and did not     *)
(* sign out, is the one the browser names, and has the identity.           *)
StaysSignedIn == signed /\ ~disturbed /\ Quiet => Holds("auth")

(* "Ids this session has left behind, for the store to delete": a session  *)
(* destroyed, by a login, a logout or the manager, stays destroyed, unless *)
(* another request already had it.                                         *)
DestroyedStayDead == \A id \in dead \ reopened : store[id] = NoSession

(* "The value survives exactly one further request": with one request at a *)
(* time, what the store holds of a note is what the calls so far say.      *)
FlashedForOneRequest ==
    Quiet /\ ~overlapped /\ ~disturbed /\ cookie # 0 =>
        /\ Holds("note") <=> note # "none"
        /\ "note" \in store[cookie].flash => note = "flashed"

(* Both cookies of a browser belong together: the XSRF-TOKEN it copies into*)
(* the header is the token of the session it names, through overlaps,      *)
(* sign-ins, sign-outs, refused requests and outages.  They part only by a *)
(* response that brings one of them alone, and no longer than to the next  *)
(* that brings both; and where sessions are stored without a token.        *)
XsrfOfItsSession ==
    ~bare /\ ~astray /\ cookie # 0 /\ Live(cookie) => xsrf = store[cookie].token

(* They never part.  An outage is to move no cookie: "`handle` neither     *)
(* writes it back nor moves the cookie".                                   *)
XsrfNeverParted ==
    ~bare /\ cookie # 0 /\ Live(cookie) => xsrf = store[cookie].token

(* "`logout` invalidates **everything**": signed out is signed out.        *)
LogoutFinal == ~signed /\ Quiet => ~Holds("auth")

(* put: "Store a value."                                                   *)
PutStored == [][\A r \in Requests : At(r, "store") /\ req[r].op = "put" /\ Active(r)'
                    /\ req'[r].pc = "respond" /\ req'[r].named # 0
                => "note" \in store'[req[r].id].keys]_vars

(* A session lives for its lifetime: nothing but its own requests, the     *)
(* manager and time remove it.                                             *)
LiveIsKept ==
    [][\A id \in Minted : Live(id) /\ store'[id] = NoSession =>
          id \in dead']_vars
=============================================================================
