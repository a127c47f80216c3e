---------------------------- MODULE SessionProofs ----------------------------
(* Proofs about sessions, for any number of requests that overlap, of ids  *)
(* and of failures.                                                        *)
EXTENDS Session, TLAPS

-----------------------------------------------------------------------------
(* The fields of a request, as the proofs group them.                      *)
Ident(b) == <<b.id, b.superseded, b.named, b.detached>>
Tokens(b) == <<b.presents, b.token, b.sets>>
Bag(b) == <<b.keys, b.old, b.new, b.dirty, b.empty, b.op>>

(* A step of one request is about that request.                            *)
Moved(r) ==
    /\ req' \in [Requests -> Request \cup {Idle}]
    /\ req'[r] \in Request
    /\ \A q \in Requests : q # r => req'[q] = req[q]

(* What the assumption says of each constant.                              *)
LEMMA Constants ==
    /\ Lifetime \in Nat /\ Lifetime > 0
    /\ MaxMinted \in Nat /\ MaxRequests \in Nat /\ MaxEvents \in Nat
    /\ Idle \notin Request /\ Idle \notin Requests /\ NoSession \notin Stored
BY ConstantsAssumption

(* Ids are numbers, and the ones that are not 0 are minted.                *)
LEMMA IdNumbers == Ids \subseteq Nat /\ 0 \in Ids /\ \A i \in Ids : i # 0 => i \in Minted
BY Constants DEF Ids, Minted

(* What a request presents is a token, or none.                            *)
LEMMA PresentedIds ==
    ASSUME TypeOK, NEW method, NEW token \in Presented(method)
    PROVE  token \in Ids
BY Constants DEF TypeOK, Presented, Ids

(* A request that is replaced by another one, of the right type.           *)
LEMMA MovedTo ==
    ASSUME TypeOK, NEW r \in Requests, NEW b \in Request, req' = [req EXCEPT ![r] = b]
    PROVE  Moved(r) /\ req'[r] = b
BY DEF TypeOK, Moved

(* Session::new and Session::restore.                                      *)
LEMMA FreshBag ==
    ASSUME TypeOK, NEW r \in Requests, Active(r), Fresh(r)
    PROVE  /\ Moved(r) /\ minted < MaxMinted /\ minted' = minted + 1
           /\ req'[r].pc = "gate" /\ req'[r].method = req[r].method
           /\ Ident(req'[r]) = <<minted + 1, req[r].superseded, req[r].named, req[r].detached>>
           /\ Tokens(req'[r]) = <<req[r].presents, 0, req[r].sets>>
           /\ Bag(req'[r]) = <<{}, {}, req[r].new, req[r].dirty, TRUE, req[r].op>>
<1>1. req[r] \in Request /\ minted + 1 \in Ids /\ 0 \in Ids
  BY Constants DEF TypeOK, Active, Fresh, Ids
<1> DEFINE b == Restored(r, minted + 1, {}, {}, 0)
<1>2. /\ b \in Request /\ b.pc = "gate" /\ b.method = req[r].method
      /\ Ident(b) = <<minted + 1, req[r].superseded, req[r].named, req[r].detached>>
      /\ Tokens(b) = <<req[r].presents, 0, req[r].sets>>
      /\ Bag(b) = <<{}, {}, req[r].new, req[r].dirty, TRUE, req[r].op>>
  BY <1>1 DEF Restored, Request, Ident, Tokens, Bag
<1> HIDE DEF b
<1>3. req' = [req EXCEPT ![r] = b]
  BY DEF Fresh, b
<1> QED BY <1>2, <1>3, MovedTo DEF Fresh

LEMMA FoundBag ==
    ASSUME TypeOK, NEW r \in Requests, LoadFound(r)
    PROVE  /\ Moved(r) /\ req[r].id \in Minted /\ store[req[r].id] \in Stored
           /\ req'[r].pc = "gate" /\ req'[r].method = req[r].method
           /\ Ident(req'[r]) = Ident(req[r])
           /\ Tokens(req'[r]) = <<req[r].presents, store[req[r].id].token, req[r].sets>>
           /\ Bag(req'[r]) = <<store[req[r].id].keys, store[req[r].id].flash, req[r].new, req[r].dirty,
                               store[req[r].id].keys = {} /\ store[req[r].id].token = 0, req[r].op>>
<1>1. req[r] \in Request /\ req[r].id \in Minted
  BY Constants DEF TypeOK, LoadFound, At, Active, Request, Ids, Minted
<1>2. store[req[r].id] \in Stored
  BY <1>1 DEF TypeOK, LoadFound, Live
<1> DEFINE data == store[req[r].id]
           b == Restored(r, req[r].id, data.keys, data.flash, data.token)
<1>3. data.keys \subseteq Keys /\ data.flash \subseteq Keys /\ data.token \in Ids
  BY <1>2 DEF Stored
<1> HIDE DEF data
<1>4. /\ b \in Request /\ b.pc = "gate" /\ b.method = req[r].method
      /\ Ident(b) = Ident(req[r]) /\ Tokens(b) = <<req[r].presents, data.token, req[r].sets>>
  BY <1>1, <1>3 DEF Restored, Request, Ident, Tokens
<1>5. Bag(b) = <<data.keys, data.flash, req[r].new, req[r].dirty, data.keys = {} /\ data.token = 0, req[r].op>>
  BY <1>1, <1>3 DEF Restored, Request, Bag
<1> HIDE DEF b
<1>6. req' = [req EXCEPT ![r] = b]
  BY DEF LoadFound, b, data
<1> QED BY <1>1, <1>2, <1>4, <1>5, <1>6, MovedTo DEF data

LEMMA FailsBag ==
    ASSUME TypeOK, NEW r \in Requests, LoadFails(r)
    PROVE  /\ Moved(r) /\ req'[r].pc = "gate"
           /\ Ident(req'[r]) = <<req[r].id, req[r].superseded, req[r].named, TRUE>>
           /\ Tokens(req'[r]) = <<req[r].presents, 0, req[r].sets>>
           /\ req'[r].op = req[r].op
<1>1. req[r] \in Request /\ 0 \in Ids
  BY Constants DEF TypeOK, LoadFails, At, Active, Ids
<1> DEFINE b == [Restored(r, req[r].id, {}, {}, 0) EXCEPT !.detached = TRUE]
<1>2. /\ b \in Request /\ b.pc = "gate" /\ b.op = req[r].op
      /\ Ident(b) = <<req[r].id, req[r].superseded, req[r].named, TRUE>>
      /\ Tokens(b) = <<req[r].presents, 0, req[r].sets>>
  BY <1>1 DEF Restored, Request, Ident, Tokens
<1> HIDE DEF b
<1>3. req' = [req EXCEPT ![r] = b]
  BY DEF LoadFails, b
<1> QED BY <1>2, <1>3, MovedTo

(* Only where the request is changes.                                      *)
LEMMA PassedBag ==
    ASSUME TypeOK, NEW r \in Requests, Active(r),
           NEW step \in {"reap", "handle", "save", "store", "respond"}, req' = [req EXCEPT ![r].pc = step]
    PROVE  /\ Moved(r) /\ req'[r].pc = step /\ req'[r].method = req[r].method
           /\ Ident(req'[r]) = Ident(req[r]) /\ Tokens(req'[r]) = Tokens(req[r]) /\ Bag(req'[r]) = Bag(req[r])
<1>1. req[r] \in Request
  BY DEF TypeOK, Active
<1> DEFINE b == [req[r] EXCEPT !.pc = step]
<1>2. /\ b \in Request /\ b.pc = step /\ b.method = req[r].method
      /\ Ident(b) = Ident(req[r]) /\ Tokens(b) = Tokens(req[r]) /\ Bag(b) = Bag(req[r])
  BY <1>1 DEF Request, Ident, Tokens, Bag
<1> HIDE DEF b
<1>3. req' = [req EXCEPT ![r] = b]
  BY DEF b
<1> QED BY <1>2, <1>3, MovedTo

(* put, flash, keep and pull: what the handler does to the bag.            *)
LEMMA HandledBag ==
    ASSUME TypeOK, NEW r \in Requests, Put(r) \/ Flash(r) \/ Keep(r) \/ Pull(r)
    PROVE  /\ Moved(r) /\ req[r].pc = "handle" /\ req'[r].pc = "handle" /\ req[r].op = "none"
           /\ Ident(req'[r]) = Ident(req[r]) /\ Tokens(req'[r]) = Tokens(req[r])
           /\ Put(r) => Bag(req'[r]) = <<req[r].keys \cup {"note"}, req[r].old, req[r].new, TRUE, req[r].empty, "put">>
           /\ Flash(r) => Bag(req'[r]) = <<req[r].keys \cup {"note"}, req[r].old, req[r].new \cup {"note"}, TRUE,
                                           req[r].empty, "flash">>
           /\ Keep(r) => Bag(req'[r]) = <<req[r].keys, req[r].old, req[r].new \cup req[r].old,
                                          req[r].dirty \/ req[r].old # {}, req[r].empty, "keep">>
           /\ Pull(r) => Bag(req'[r]) = <<req[r].keys \ {"note"}, req[r].old, req[r].new,
                                          req[r].dirty \/ "note" \in req[r].keys, req[r].empty, "pull">>
<1>1. req[r] \in Request /\ req[r].pc = "handle" /\ req[r].op = "none"
  BY DEF TypeOK, Put, Flash, Keep, Pull, Handling, At, Active
<1>2. ASSUME NEW b, b \in Request, req' = [req EXCEPT ![r] = b] PROVE Moved(r) /\ req'[r] = b
  BY <1>2, MovedTo
<1>3. ASSUME Put(r)
      PROVE  /\ Moved(r) /\ req'[r].pc = "handle" /\ Ident(req'[r]) = Ident(req[r]) /\ Tokens(req'[r]) = Tokens(req[r])
             /\ Bag(req'[r]) = <<req[r].keys \cup {"note"}, req[r].old, req[r].new, TRUE, req[r].empty, "put">>
  <2> DEFINE b == [req[r] EXCEPT !.op = "put", !.keys = @ \cup {"note"}, !.dirty = TRUE]
  <2>1. /\ b \in Request /\ b.pc = "handle" /\ Ident(b) = Ident(req[r]) /\ Tokens(b) = Tokens(req[r])
        /\ Bag(b) = <<req[r].keys \cup {"note"}, req[r].old, req[r].new, TRUE, req[r].empty, "put">>
    BY <1>1 DEF Request, Ident, Tokens, Bag, Keys
  <2>2. req' = [req EXCEPT ![r] = b]
    BY <1>3 DEF Put
  <2> HIDE DEF b
  <2> QED BY <1>2, <2>1, <2>2
<1>4. ASSUME Flash(r)
      PROVE  /\ Moved(r) /\ req'[r].pc = "handle" /\ Ident(req'[r]) = Ident(req[r]) /\ Tokens(req'[r]) = Tokens(req[r])
             /\ Bag(req'[r]) = <<req[r].keys \cup {"note"}, req[r].old, req[r].new \cup {"note"}, TRUE, req[r].empty, "flash">>
  <2> DEFINE b == [req[r] EXCEPT !.op = "flash", !.keys = @ \cup {"note"}, !.new = @ \cup {"note"}, !.dirty = TRUE]
  <2>1. /\ b \in Request /\ b.pc = "handle" /\ Ident(b) = Ident(req[r]) /\ Tokens(b) = Tokens(req[r])
        /\ Bag(b) = <<req[r].keys \cup {"note"}, req[r].old, req[r].new \cup {"note"}, TRUE, req[r].empty, "flash">>
    BY <1>1 DEF Request, Ident, Tokens, Bag, Keys
  <2>2. req' = [req EXCEPT ![r] = b]
    BY <1>4 DEF Flash
  <2> HIDE DEF b
  <2> QED BY <1>2, <2>1, <2>2
<1>5. ASSUME Keep(r)
      PROVE  /\ Moved(r) /\ req'[r].pc = "handle" /\ Ident(req'[r]) = Ident(req[r]) /\ Tokens(req'[r]) = Tokens(req[r])
             /\ Bag(req'[r]) = <<req[r].keys, req[r].old, req[r].new \cup req[r].old,
                                 req[r].dirty \/ req[r].old # {}, req[r].empty, "keep">>
  <2> DEFINE b == [req[r] EXCEPT !.op = "keep", !.new = @ \cup req[r].old, !.dirty = @ \/ req[r].old # {}]
  <2>1. /\ b \in Request /\ b.pc = "handle" /\ Ident(b) = Ident(req[r]) /\ Tokens(b) = Tokens(req[r])
        /\ Bag(b) = <<req[r].keys, req[r].old, req[r].new \cup req[r].old, req[r].dirty \/ req[r].old # {}, req[r].empty, "keep">>
    BY <1>1 DEF Request, Ident, Tokens, Bag, Keys
  <2>2. req' = [req EXCEPT ![r] = b]
    BY <1>5 DEF Keep
  <2> HIDE DEF b
  <2> QED BY <1>2, <2>1, <2>2
<1>6. ASSUME Pull(r)
      PROVE  /\ Moved(r) /\ req'[r].pc = "handle" /\ Ident(req'[r]) = Ident(req[r]) /\ Tokens(req'[r]) = Tokens(req[r])
             /\ Bag(req'[r]) = <<req[r].keys \ {"note"}, req[r].old, req[r].new,
                                 req[r].dirty \/ "note" \in req[r].keys, req[r].empty, "pull">>
  <2> DEFINE b == [req[r] EXCEPT !.op = "pull", !.keys = @ \ {"note"}, !.dirty = @ \/ "note" \in req[r].keys]
  <2>1. /\ b \in Request /\ b.pc = "handle" /\ Ident(b) = Ident(req[r]) /\ Tokens(b) = Tokens(req[r])
        /\ Bag(b) = <<req[r].keys \ {"note"}, req[r].old, req[r].new, req[r].dirty \/ "note" \in req[r].keys, req[r].empty, "pull">>
    BY <1>1 DEF Request, Ident, Tokens, Bag, Keys
  <2>2. req' = [req EXCEPT ![r] = b]
    BY <1>6 DEF Pull
  <2> HIDE DEF b
  <2> QED BY <1>2, <2>1, <2>2
<1> QED BY <1>1, <1>3, <1>4, <1>5, <1>6

(* The guard's login and logout: a new id, and the old one to destroy.     *)
LEMMA SignedBag ==
    ASSUME TypeOK, NEW r \in Requests, Login(r) \/ Logout(r), req[r].id # 0
    PROVE  /\ Moved(r) /\ req[r].pc = "handle" /\ req'[r].pc = "handle" /\ req[r].op = "none"
           /\ minted < MaxMinted /\ minted' = minted + 1
           /\ Ident(req'[r]) = <<minted + 1, req[r].superseded \cup {req[r].id}, req[r].named, req[r].detached>>
           /\ Login(r) => /\ Tokens(req'[r]) = Tokens(req[r])
                          /\ Bag(req'[r]) = <<req[r].keys \cup {"auth"}, req[r].old, req[r].new, TRUE, req[r].empty, "login">>
           /\ Logout(r) => /\ Tokens(req'[r]) = <<req[r].presents, 0, req[r].sets>>
                           /\ Bag(req'[r]) = <<{}, {}, {}, TRUE, req[r].empty, "logout">>
<1>1. req[r] \in Request /\ req[r].pc = "handle" /\ req[r].op = "none" /\ minted < MaxMinted /\ minted' = minted + 1
  BY DEF TypeOK, Login, Logout, Handling, At, Active
<1>2. minted + 1 \in Ids /\ 0 \in Ids /\ req[r].superseded \cup {req[r].id} \in SUBSET Minted
  BY <1>1, Constants DEF TypeOK, Ids, Minted, Request
<1>3. ASSUME Login(r)
      PROVE  /\ Moved(r) /\ req'[r].pc = "handle" /\ Tokens(req'[r]) = Tokens(req[r])
             /\ Ident(req'[r]) = <<minted + 1, req[r].superseded \cup {req[r].id}, req[r].named, req[r].detached>>
             /\ Bag(req'[r]) = <<req[r].keys \cup {"auth"}, req[r].old, req[r].new, TRUE, req[r].empty, "login">>
  <2> DEFINE b == [Regenerated(r, req[r]) EXCEPT !.op = "login", !.keys = @ \cup {"auth"}]
  <2>1. /\ b \in Request /\ b.pc = "handle" /\ Tokens(b) = Tokens(req[r])
        /\ Ident(b) = <<minted + 1, req[r].superseded \cup {req[r].id}, req[r].named, req[r].detached>>
        /\ Bag(b) = <<req[r].keys \cup {"auth"}, req[r].old, req[r].new, TRUE, req[r].empty, "login">>
    BY <1>1, <1>2 DEF Regenerated, Request, Ident, Tokens, Bag, Keys
  <2>2. req' = [req EXCEPT ![r] = b]
    BY <1>3 DEF Login
  <2> HIDE DEF b
  <2> QED BY <2>1, <2>2, MovedTo
<1>4. ASSUME Logout(r)
      PROVE  /\ Moved(r) /\ req'[r].pc = "handle" /\ Tokens(req'[r]) = <<req[r].presents, 0, req[r].sets>>
             /\ Ident(req'[r]) = <<minted + 1, req[r].superseded \cup {req[r].id}, req[r].named, req[r].detached>>
             /\ Bag(req'[r]) = <<{}, {}, {}, TRUE, req[r].empty, "logout">>
  <2> DEFINE b == [Regenerated(r, req[r]) EXCEPT !.op = "logout", !.keys = {}, !.token = 0, !.old = {}, !.new = {}]
  <2>1. /\ b \in Request /\ b.pc = "handle" /\ Tokens(b) = <<req[r].presents, 0, req[r].sets>>
        /\ Ident(b) = <<minted + 1, req[r].superseded \cup {req[r].id}, req[r].named, req[r].detached>>
        /\ Bag(b) = <<{}, {}, {}, TRUE, req[r].empty, "logout">>
    BY <1>1, <1>2 DEF Regenerated, Request, Ident, Tokens, Bag, Keys
  <2>2. req' = [req EXCEPT ![r] = b]
    BY <1>4 DEF Logout
  <2> HIDE DEF b
  <2> QED BY <2>1, <2>2, MovedTo
<1> QED BY <1>1, <1>3, <1>4

(* VerifyCsrfToken, on the way out: the session's token, which it may have *)
(* minted, goes with the response, or does not.                            *)
LEMMA FinishedBag ==
    ASSUME TypeOK, NEW r \in Requests, Finish(r) \/ FinishUntold(r)
    PROVE  /\ Moved(r) /\ req[r].pc = "handle" /\ req'[r].pc = "save"
           /\ Ident(req'[r]) = Ident(req[r])
           /\ req'[r].sets = req'[r].token \/ req'[r].sets = req[r].sets
           /\ <<req'[r].keys, req'[r].old, req'[r].new, req'[r].empty, req'[r].op>> =
                 <<req[r].keys, req[r].old, req[r].new, req[r].empty, req[r].op>>
           /\ req[r].dirty => req'[r].dirty
           /\ \/ req'[r].token = req[r].token /\ UNCHANGED minted
              \/ req[r].token = 0 /\ minted < MaxMinted /\ minted' = minted + 1 /\ req'[r].token = minted + 1
<1>1. req[r] \in Request /\ req[r].pc = "handle" /\ r \in Requests /\ Active(r)
  BY DEF TypeOK, Finish, FinishUntold, At, Active
<1>2. CASE Finish(r) /\ req[r].token # 0
  <2> DEFINE b == [req[r] EXCEPT !.pc = "save", !.sets = req[r].token]
  <2>1. /\ b \in Request /\ b.pc = "save" /\ Ident(b) = Ident(req[r]) /\ Tokens(b) = <<req[r].presents, req[r].token, req[r].token>>
        /\ Bag(b) = Bag(req[r])
    BY <1>1 DEF Request, Ident, Tokens, Bag
  <2>2. req' = [req EXCEPT ![r] = b] /\ UNCHANGED minted
    BY <1>2 DEF Finish
  <2> HIDE DEF b
  <2>3. Moved(r) /\ req'[r] = b
    BY <2>1, <2>2, MovedTo
  <2> QED BY <1>1, <1>2, <2>1, <2>2, <2>3 DEF Bag, Tokens
<1>3. CASE FinishUntold(r) /\ req' = [req EXCEPT ![r].pc = "save"] /\ UNCHANGED minted
  <2>1. /\ Moved(r) /\ req'[r].pc = "save" /\ Ident(req'[r]) = Ident(req[r]) /\ Tokens(req'[r]) = Tokens(req[r])
        /\ Bag(req'[r]) = Bag(req[r])
    BY <1>1, <1>3, PassedBag
  <2> QED BY <1>1, <1>3, <2>1 DEF Bag, Tokens
<1>4. ASSUME req[r].token = 0, minted < MaxMinted, minted' = minted + 1, NEW sets \in {req[r].sets, minted + 1},
             req' = [req EXCEPT ![r] = [req[r] EXCEPT !.pc = "save", !.sets = sets, !.token = minted + 1, !.dirty = TRUE]]
      PROVE  /\ Moved(r) /\ req'[r].pc = "save" /\ Ident(req'[r]) = Ident(req[r])
             /\ Tokens(req'[r]) = <<req[r].presents, minted + 1, sets>>
             /\ Bag(req'[r]) = <<req[r].keys, req[r].old, req[r].new, TRUE, req[r].empty, req[r].op>>
  <2> DEFINE b == [req[r] EXCEPT !.pc = "save", !.sets = sets, !.token = minted + 1, !.dirty = TRUE]
  <2>1. minted + 1 \in Ids /\ sets \in Ids
    BY <1>1, <1>4, Constants DEF TypeOK, Ids, Request
  <2>2. /\ b \in Request /\ b.pc = "save" /\ Ident(b) = Ident(req[r]) /\ Tokens(b) = <<req[r].presents, minted + 1, sets>>
        /\ Bag(b) = <<req[r].keys, req[r].old, req[r].new, TRUE, req[r].empty, req[r].op>>
    BY <1>1, <2>1 DEF Request, Ident, Tokens, Bag
  <2>3. req' = [req EXCEPT ![r] = b]
    BY <1>4
  <2> HIDE DEF b
  <2> QED BY <2>2, <2>3, MovedTo
<1>5. CASE Finish(r) /\ req[r].token = 0
  <2>1. /\ minted < MaxMinted /\ minted' = minted + 1
        /\ req' = [req EXCEPT ![r] = [req[r] EXCEPT !.pc = "save", !.sets = minted + 1, !.token = minted + 1, !.dirty = TRUE]]
    BY <1>5 DEF Finish
  <2>2. /\ Moved(r) /\ req'[r].pc = "save" /\ Ident(req'[r]) = Ident(req[r])
        /\ Tokens(req'[r]) = <<req[r].presents, minted + 1, minted + 1>>
        /\ Bag(req'[r]) = <<req[r].keys, req[r].old, req[r].new, TRUE, req[r].empty, req[r].op>>
    BY <1>4, <1>5, <2>1
  <2> QED BY <1>1, <1>5, <2>1, <2>2 DEF Bag, Tokens
<1>6. CASE /\ FinishUntold(r) /\ req[r].token = 0 /\ minted < MaxMinted /\ minted' = minted + 1
           /\ req' = [req EXCEPT ![r].pc = "save", ![r].token = minted + 1, ![r].dirty = TRUE]
  <2>1. req' = [req EXCEPT ![r] = [req[r] EXCEPT !.pc = "save", !.token = minted + 1, !.dirty = TRUE]]
    BY <1>6
  <2>2. [req[r] EXCEPT !.pc = "save", !.token = minted + 1, !.dirty = TRUE] =
            [req[r] EXCEPT !.pc = "save", !.sets = req[r].sets, !.token = minted + 1, !.dirty = TRUE]
    BY <1>1 DEF Request
  <2>3. /\ Moved(r) /\ req'[r].pc = "save" /\ Ident(req'[r]) = Ident(req[r])
        /\ Tokens(req'[r]) = <<req[r].presents, minted + 1, req[r].sets>>
        /\ Bag(req'[r]) = <<req[r].keys, req[r].old, req[r].new, TRUE, req[r].empty, req[r].op>>
    BY <1>4, <1>6, <2>1, <2>2
  <2> QED BY <1>1, <1>6, <2>3 DEF Bag, Tokens
<1>7. FinishUntold(r) =>
          \/ req' = [req EXCEPT ![r].pc = "save"] /\ UNCHANGED minted
          \/ /\ req[r].token = 0 /\ minted < MaxMinted /\ minted' = minted + 1
             /\ req' = [req EXCEPT ![r].pc = "save", ![r].token = minted + 1, ![r].dirty = TRUE]
  BY DEF FinishUntold
<1> QED BY <1>2, <1>3, <1>5, <1>6, <1>7

(* save: a superseded id less, and then the session.                       *)
LEMMA DestroyedBag ==
    ASSUME TypeOK, NEW r \in Requests, NEW id, Destroy(r, id)
    PROVE  /\ Moved(r) /\ req[r].pc = "store" /\ req'[r].pc = "store" /\ id \in req[r].superseded /\ id \in Minted
           /\ Ident(req'[r]) = <<req[r].id, req[r].superseded \ {id}, req[r].named, req[r].detached>>
           /\ Tokens(req'[r]) = Tokens(req[r]) /\ Bag(req'[r]) = Bag(req[r])
<1>1. req[r] \in Request /\ req[r].pc = "store" /\ id \in req[r].superseded
  BY DEF TypeOK, Destroy, At, Active
<1> DEFINE b == [req[r] EXCEPT !.superseded = @ \ {id}]
<1>2. req[r].superseded \ {id} \in SUBSET Minted /\ id \in Minted
  BY <1>1 DEF Request
<1>3. /\ b \in Request /\ b.pc = "store" /\ Ident(b) = <<req[r].id, req[r].superseded \ {id}, req[r].named, req[r].detached>>
      /\ Tokens(b) = Tokens(req[r]) /\ Bag(b) = Bag(req[r])
  BY <1>1, <1>2 DEF Request, Ident, Tokens, Bag
<1>4. req' = [req EXCEPT ![r] = b]
  BY DEF Destroy
<1> HIDE DEF b
<1> QED BY <1>1, <1>2, <1>3, <1>4, MovedTo

LEMMA WrittenBag ==
    ASSUME TypeOK, NEW r \in Requests, Write(r)
    PROVE  /\ Moved(r) /\ req[r].pc = "store" /\ req'[r].pc = "respond" /\ req[r].superseded = {}
           /\ Ident(req'[r]) = <<req[r].id, req[r].superseded, req[r].id, req[r].detached>>
           /\ Tokens(req'[r]) = Tokens(req[r]) /\ Bag(req'[r]) = Bag(req[r])
           /\ AgeAndTake(req[r]) \in Stored /\ AgeAndTake(req[r]) # NoSession
           /\ AgeAndTake(req[r]).keys = req[r].keys \ (req[r].old \ req[r].new)
           /\ AgeAndTake(req[r]).flash = req[r].new /\ AgeAndTake(req[r]).token = req[r].token
           /\ AgeAndTake(req[r]).left = Lifetime
<1>1. req[r] \in Request /\ req[r].pc = "store" /\ req[r].superseded = {}
  BY DEF TypeOK, Write, At, Active
<1> DEFINE b == [req[r] EXCEPT !.pc = "respond", !.named = req[r].id]
<1>2. /\ b \in Request /\ b.pc = "respond" /\ Ident(b) = <<req[r].id, req[r].superseded, req[r].id, req[r].detached>>
      /\ Tokens(b) = Tokens(req[r]) /\ Bag(b) = Bag(req[r])
  BY <1>1 DEF Request, Ident, Tokens, Bag
<1>3. req' = [req EXCEPT ![r] = b]
  BY DEF Write
<1>4. AgeAndTake(req[r]) \in Stored
  BY <1>1, Constants DEF AgeAndTake, Stored, Request
<1>5. /\ AgeAndTake(req[r]).keys = req[r].keys \ (req[r].old \ req[r].new)
      /\ AgeAndTake(req[r]).flash = req[r].new /\ AgeAndTake(req[r]).token = req[r].token
      /\ AgeAndTake(req[r]).left = Lifetime
  BY DEF AgeAndTake
<1> HIDE DEF b
<1> QED BY <1>1, <1>2, <1>3, <1>4, <1>5, MovedTo, Constants


-----------------------------------------------------------------------------
(* A request: its ids were all minted, it does not destroy the session it  *)
(* writes, and it writes none that is gone.                                *)
BagSafe(b, top, gone) ==
    /\ b.id <= top /\ b.named <= top
    /\ \A i \in b.superseded : i <= top /\ i # b.id
    /\ b.pc # "load" => b.id # 0
    /\ b.pc = "store" => ~b.detached
    /\ b.pc \notin {"load", "reap", "respond"} /\ ~b.detached => b.id \notin gone

SafeInv ==
    /\ TypeOK
    /\ cookie <= minted
    /\ \A id \in Minted : store[id] # NoSession => id <= minted
    /\ \A id \in dead : id <= minted
    /\ \A r \in Requests : Active(r) => BagSafe(req[r], minted, dead \ reopened)
    /\ DestroyedStayDead

(* Every action keeps the types.                                           *)
LEMMA TypeStep == SafeInv /\ [Next]_vars => TypeOK'
<1> SUFFICES ASSUME SafeInv, [Next]_vars PROVE TypeOK'
  OBVIOUS
<1>0. TypeOK /\ minted \in Nat /\ MaxMinted \in Nat
  BY Constants DEF SafeInv, TypeOK, Ids
<1>1. ASSUME NEW r \in Requests, Active(r) PROVE req[r] \in Request
  BY <1>0, <1>1 DEF TypeOK, Active
<1>2. \A b \in Request : b.id \in Ids /\ b.named \in Ids /\ b.sets \in Ids /\ b.superseded \subseteq Minted
  BY DEF Request
<1>3. ASSUME NEW id, NEW data, data \in Stored \cup {NoSession}, store' = [store EXCEPT ![id] = data]
      PROVE  (store \in [Minted -> Stored \cup {NoSession}])'
  BY <1>0, <1>3 DEF TypeOK
<1>4. minted < MaxMinted => minted + 1 \in Ids
  BY <1>0 DEF Ids
<1>5. ASSUME NEW r \in Requests, NEW method \in Methods, NEW token \in Presented(method), Send(r, method, token) PROVE TypeOK'
  <2> DEFINE b == [pc |-> "load", method |-> method, id |-> cookie, presents |-> token,
                   keys |-> {}, token |-> 0, old |-> {}, new |-> {}, dirty |-> FALSE, detached |-> FALSE,
                   empty |-> TRUE, superseded |-> {}, op |-> "none", named |-> 0, sets |-> 0]
  <2>0. cookie \in Ids /\ token \in Ids /\ 0 \in Ids
    BY <1>0, IdNumbers, PresentedIds DEF TypeOK
  <2>1. b \in Request
    BY <2>0 DEF Request
  <2>2. req' = [req EXCEPT ![r] = b]
    BY <1>5 DEF Send
  <2> HIDE DEF b
  <2>3. req' \in [Requests -> Request \cup {Idle}]
    BY <1>0, <2>1, <2>2, MovedTo DEF Moved
  <2>4. overlapped' \in BOOLEAN
    BY <1>5 DEF Send
  <2>5. disturbed' \in BOOLEAN
    BY <1>5 DEF Send
  <2> QED BY <1>0, <1>5, <2>3, <2>4, <2>5 DEF Send, TypeOK, browser
<1>6. ASSUME NEW r \in Requests, LoadNone(r) PROVE TypeOK'
  <2>1. Moved(r) /\ minted' \in Ids
    BY <1>0, <1>4, <1>6, FreshBag DEF LoadNone, At
  <2> QED BY <1>0, <1>6, <2>1 DEF LoadNone, TypeOK, browser, history, Calm, Moved
<1>7. ASSUME NEW r \in Requests, LoadFound(r) PROVE TypeOK'
  BY <1>0, <1>7, FoundBag DEF LoadFound, TypeOK, browser, history, Calm, Moved
<1>8. ASSUME NEW r \in Requests, LoadExpired(r) PROVE TypeOK'
  <2>1. Moved(r)
    BY <1>0, <1>8, PassedBag DEF LoadExpired, At
  <2> QED BY <1>0, <1>8, <2>1 DEF LoadExpired, TypeOK, browser, history, Calm, Moved
<1>9. ASSUME NEW r \in Requests, Reap(r) PROVE TypeOK'
  <2>1. Moved(r) /\ minted' \in Ids
    BY <1>0, <1>4, <1>9, FreshBag DEF Reap, At
  <2>2. (store \in [Minted -> Stored \cup {NoSession}])'
    BY <1>3, <1>9 DEF Reap
  <2> QED BY <1>0, <1>9, <2>1, <2>2 DEF Reap, TypeOK, browser, history, Calm, Moved
<1>10. ASSUME NEW r \in Requests, LoadFails(r) PROVE TypeOK'
  <2>1. Moved(r)
    BY <1>0, <1>10, FailsBag
  <2> QED BY <1>0, <1>10, <2>1 DEF LoadFails, TypeOK, browser, history, Event, Moved
<1>11. ASSUME NEW r \in Requests, Verify(r) \/ Save(r) PROVE TypeOK'
  <2>1. \E step \in {"reap", "handle", "save", "store", "respond"} : req' = [req EXCEPT ![r].pc = step]
    BY <1>11 DEF Verify, Save
  <2>2. Moved(r)
    BY <1>0, <1>11, <2>1, PassedBag DEF Verify, Save, At
  <2> QED BY <1>0, <1>11, <2>2 DEF Verify, Save, TypeOK, browser, history, Calm, Moved
<1>12. ASSUME NEW r \in Requests, Put(r) \/ Flash(r) \/ Keep(r) \/ Pull(r) PROVE TypeOK'
  <2>1. Moved(r)
    BY <1>0, <1>12, HandledBag
  <2> QED BY <1>0, <1>12, <2>1 DEF Put, Flash, Keep, Pull, TypeOK, browser, history, Calm, Moved
<1>13. ASSUME NEW r \in Requests, Login(r) \/ Logout(r) PROVE TypeOK'
  <2>1. req[r].id # 0
    BY <1>13 DEF SafeInv, BagSafe, Login, Logout, Handling, At
  <2>2. Moved(r) /\ minted' \in Ids
    BY <1>0, <1>4, <1>13, <2>1, SignedBag
  <2>3. disturbed' \in BOOLEAN
    BY <1>13 DEF Login, Logout
  <2> QED BY <1>0, <1>13, <2>2, <2>3 DEF Login, Logout, TypeOK, browser, Calm, Moved
<1>14. ASSUME NEW r \in Requests, Finish(r) \/ FinishUntold(r) PROVE TypeOK'
  <2>1. Moved(r) /\ minted' \in Ids
    BY <1>0, <1>4, <1>14, FinishedBag DEF TypeOK
  <2>2. UNCHANGED <<store, browser, history>>
    BY <1>14 DEF Finish, FinishUntold
  <2>3. sent' \in Nat /\ events' \in Nat
    BY <1>0, <1>14 DEF Finish, FinishUntold, Calm, Event, TypeOK
  <2> QED BY <1>0, <2>1, <2>2, <2>3 DEF TypeOK, browser, history, Moved
<1>15. ASSUME NEW id \in Minted, NEW q, Destroyed(id, q)
       PROVE  (store \in [Minted -> Stored \cup {NoSession}] /\ dead \subseteq Minted /\ reopened \subseteq Minted)'
  <2>1. (store \in [Minted -> Stored \cup {NoSession}])'
    BY <1>3, <1>15 DEF Destroyed
  <2> QED BY <1>0, <1>15, <2>1 DEF Destroyed, TypeOK
<1>16. ASSUME NEW r \in Requests, NEW id, Destroy(r, id) PROVE TypeOK'
  <2>1. Moved(r) /\ id \in Minted
    BY <1>0, <1>16, DestroyedBag
  <2>2. (store \in [Minted -> Stored \cup {NoSession}] /\ dead \subseteq Minted /\ reopened \subseteq Minted)'
    BY <1>15, <1>16, <2>1 DEF Destroy
  <2> QED BY <1>0, <1>16, <2>1, <2>2 DEF Destroy, TypeOK, browser, Calm, Moved
<1>17. ASSUME NEW r \in Requests, Write(r) PROVE TypeOK'
  <2>1. Moved(r) /\ AgeAndTake(req[r]) \in Stored
    BY <1>0, <1>17, WrittenBag
  <2>2. (store \in [Minted -> Stored \cup {NoSession}])'
    BY <1>3, <1>17, <2>1 DEF Write
  <2>3. bare' \in BOOLEAN
    BY <1>17 DEF Write
  <2> QED BY <1>0, <1>17, <2>1, <2>2, <2>3 DEF Write, TypeOK, browser, Calm, Moved
<1>18. ASSUME NEW r \in Requests, SaveFails(r) PROVE TypeOK'
  <2>1. Moved(r)
    BY <1>0, <1>18, PassedBag DEF SaveFails, At
  <2>2. disturbed' \in BOOLEAN
    BY <1>18, Zenon DEF SaveFails
  <2> QED BY <1>0, <1>18, <2>1, <2>2 DEF SaveFails, TypeOK, browser, Event, Moved
<1>19. ASSUME NEW r \in Requests, req' = [req EXCEPT ![r] = Idle]
       PROVE  (req \in [Requests -> Request \cup {Idle}])'
  BY <1>0, <1>19 DEF TypeOK
<1>20. ASSUME NEW r \in Requests, Respond(r) PROVE TypeOK'
  <2>1. cookie' \in Ids /\ xsrf' \in Ids
    BY <1>0, <1>1, <1>2, <1>20 DEF Respond, At, Kept, TypeOK
  <2>2. signed' \in BOOLEAN
    <3>1. signed \in BOOLEAN
      BY <1>0 DEF TypeOK
    <3>2. \/ signed' = TRUE
          \/ signed' = FALSE
          \/ signed' = signed
      BY <1>20, Zenon DEF Respond
    <3> QED BY <3>1, <3>2, Zenon
  <2>3. note' \in {"none", "flashed", "stored"}
    <3>1. note \in {"none", "flashed", "stored"}
      BY <1>0 DEF TypeOK
    <3>2. NoteAfter(req[r].op) \in {note, "none", "flashed", "stored"}
      BY Zenon DEF NoteAfter
    <3> QED BY <1>20, <3>1, <3>2 DEF Respond
  <2>4. (req \in [Requests -> Request \cup {Idle}])'
    BY <1>19, <1>20 DEF Respond
  <2>5. astray' \in BOOLEAN
    BY <1>20 DEF Respond, Parted
  <2> QED BY <1>0, <1>20, <2>1, <2>2, <2>3, <2>4, <2>5 DEF Respond, TypeOK, Calm
<1>21. ASSUME NEW r \in Requests, LoseResponse(r) PROVE TypeOK'
  <2>1. disturbed' \in BOOLEAN
    BY <1>21 DEF LoseResponse
  <2>2. (req \in [Requests -> Request \cup {Idle}])'
    BY <1>19, <1>21 DEF LoseResponse
  <2> QED BY <1>0, <1>21, <2>1, <2>2 DEF LoseResponse, TypeOK, browser, Event
<1>22. ASSUME NEW id \in Minted, Revoke(id) PROVE TypeOK'
  <2>1. disturbed' \in BOOLEAN
    BY <1>22 DEF Revoke
  <2>2. (store \in [Minted -> Stored \cup {NoSession}] /\ dead \subseteq Minted /\ reopened \subseteq Minted)'
    BY <1>15, <1>22 DEF Revoke
  <2> QED BY <1>0, <1>22, <2>1, <2>2 DEF Revoke, TypeOK, browser, Event
<1>23. ASSUME Tick PROVE TypeOK'
  <2>1. disturbed' \in BOOLEAN
    BY <1>23 DEF Tick
  <2>2. \A id \in Minted : Live(id) => [store[id] EXCEPT !.left = @ - 1] \in Stored
    BY <1>0 DEF TypeOK, Live, Stored
  <2>3. (store \in [Minted -> Stored \cup {NoSession}])'
    BY <1>0, <1>23, <2>2 DEF Tick, TypeOK
  <2> QED BY <1>0, <1>23, <2>1, <2>3 DEF Tick, TypeOK, browser, Event
<1>24. ASSUME Gc PROVE TypeOK'
  <2>1. (store \in [Minted -> Stored \cup {NoSession}])'
    BY <1>0, <1>24 DEF Gc, TypeOK
  <2> QED BY <1>0, <1>24, <2>1 DEF Gc, TypeOK, browser, history, Calm
<1>25. CASE UNCHANGED vars
  BY <1>0, <1>25 DEF vars, TypeOK, browser, history
<1> QED
  BY <1>5, <1>6, <1>7, <1>8, <1>9, <1>10, <1>11, <1>12, <1>13, <1>14, <1>16, <1>17, <1>18, <1>20, <1>21, <1>22,
     <1>23, <1>24, <1>25 DEF Next, RequestStep

(* A request keeps BagSafe while ids are minted and no session goes that   *)
(* it has.                                                                 *)
LEMMA SafeBagKept ==
    ASSUME NEW b \in Request, NEW top \in Nat, NEW above \in Nat, top <= above, NEW gone, NEW goner,
           BagSafe(b, top, gone),
           b.pc \notin {"load", "reap", "respond"} /\ ~b.detached => b.id \notin goner
    PROVE  BagSafe(b, above, goner)
<1>1. b.id \in Nat /\ b.named \in Nat /\ \A i \in b.superseded : i \in Nat
  BY Constants DEF Request, Ids, Minted
<1>2. b.id <= above /\ b.named <= above
  BY <1>1 DEF BagSafe
<1>3. \A i \in b.superseded : i <= above /\ i # b.id
  BY <1>1 DEF BagSafe
<1> QED BY <1>2, <1>3 DEF BagSafe

(* A step that destroys nothing, and stores only what is not gone.         *)
LEMMA SafeKept ==
    ASSUME SafeInv, TypeOK', minted <= minted', cookie' <= minted', UNCHANGED <<dead, reopened>>,
           \A id \in Minted : store'[id] # NoSession =>
               store[id] # NoSession \/ (id <= minted' /\ id \notin dead \ reopened),
           \A r \in Requests : Active(r)' =>
               (Active(r) /\ req'[r] = req[r]) \/ BagSafe(req'[r], minted', dead \ reopened)
    PROVE  SafeInv'
<1>1. minted \in Nat /\ minted' \in Nat /\ Minted \subseteq Nat /\ dead \subseteq Minted
  BY Constants DEF SafeInv, TypeOK, Ids, Minted
<1>2. (\A id \in Minted : store[id] # NoSession => id <= minted)'
  <2>1. SUFFICES ASSUME NEW id \in Minted, store'[id] # NoSession PROVE id <= minted'
    OBVIOUS
  <2> QED BY <1>1, <2>1 DEF SafeInv
<1>3. (\A id \in dead : id <= minted)'
  BY <1>1 DEF SafeInv
<1>4. (\A r \in Requests : Active(r) => BagSafe(req[r], minted, dead \ reopened))'
  <2>1. SUFFICES ASSUME NEW r \in Requests, Active(r)' PROVE BagSafe(req'[r], minted', dead \ reopened)
    OBVIOUS
  <2>2. CASE Active(r) /\ req'[r] = req[r]
    <3>1. req[r] \in Request
      BY <2>2 DEF SafeInv, TypeOK, Active
    <3>2. BagSafe(req[r], minted, dead \ reopened)
      BY <2>2 DEF SafeInv
    <3>3. req[r].pc \notin {"load", "reap", "respond"} /\ ~req[r].detached => req[r].id \notin dead \ reopened
      BY <3>2 DEF BagSafe
    <3> QED BY <1>1, <2>2, <3>1, <3>2, <3>3, SafeBagKept
  <2> QED BY <2>1, <2>2
<1>5. DestroyedStayDead'
  BY <1>1 DEF SafeInv, DestroyedStayDead
<1> QED BY <1>2, <1>3, <1>4, <1>5 DEF SafeInv

(* An id is destroyed: no request that will write it is under way, or it   *)
(* counts as reopened.                                                     *)
LEMMA SafeDestroyed ==
    ASSUME SafeInv, TypeOK', NEW id \in Minted, id <= minted, NEW r, Destroyed(id, r), UNCHANGED <<minted, cookie>>,
           \A q \in Requests : Active(q)' /\ q # r => Active(q) /\ req'[q] = req[q],
           r \in Requests => ~Active(r)' \/ BagSafe(req'[r], minted, (dead \cup {id}) \ reopened)
    PROVE  SafeInv'
<1>1. minted \in Nat /\ dead \subseteq Minted /\ store \in [Minted -> Stored \cup {NoSession}]
  BY DEF SafeInv, TypeOK, Ids
<1>2. /\ store' = [store EXCEPT ![id] = NoSession] /\ dead' = dead \cup {id}
      /\ reopened \subseteq reopened' /\ (Held(id, r) => id \in reopened') /\ (~Held(id, r) => reopened' = reopened)
  BY DEF Destroyed
<1>3. (\A i \in Minted : store[i] # NoSession => i <= minted)' /\ (\A i \in dead : i <= minted)'
  BY <1>1, <1>2 DEF SafeInv
<1>4. (\A q \in Requests : Active(q) => BagSafe(req[q], minted, dead \ reopened))'
  <2>1. SUFFICES ASSUME NEW q \in Requests, Active(q)' PROVE BagSafe(req'[q], minted, dead' \ reopened')
    BY DEF SafeInv
  <2>2. CASE q # r
    <3>1. req'[q] = req[q] /\ Active(q) /\ req[q] \in Request /\ BagSafe(req[q], minted, dead \ reopened)
      BY <2>1, <2>2 DEF SafeInv, TypeOK, Active
    <3>2. ASSUME req[q].pc \notin {"load", "reap", "respond"} /\ ~req[q].detached PROVE req[q].id \notin dead' \ reopened'
      <4>1. req[q].id \notin dead \ reopened
        BY <3>1, <3>2 DEF BagSafe
      <4>2. req[q].id = id => Held(id, r)
        BY <2>2, <3>1, <3>2 DEF Held
      <4> QED BY <1>2, <4>1, <4>2
    <3> QED BY <1>1, <3>1, <3>2, SafeBagKept
  <2>3. CASE q = r
    <3>1. req'[q] \in Request /\ BagSafe(req'[q], minted, (dead \cup {id}) \ reopened)
      BY <2>1, <2>3 DEF TypeOK, Active
    <3>2. req'[q].pc \notin {"load", "reap", "respond"} /\ ~req'[q].detached => req'[q].id \notin dead' \ reopened'
      BY <1>2, <3>1 DEF BagSafe
    <3> QED BY <1>1, <3>1, <3>2, SafeBagKept
  <2> QED BY <2>2, <2>3
<1>5. DestroyedStayDead'
  BY <1>1, <1>2 DEF SafeInv, DestroyedStayDead
<1> QED BY <1>3, <1>4, <1>5 DEF SafeInv

(* Every action keeps the invariant of destroyed sessions.                 *)
LEMMA SafeStep == SafeInv /\ [Next]_vars => SafeInv'
<1> SUFFICES ASSUME SafeInv, [Next]_vars PROVE SafeInv'
  OBVIOUS
<1>0. TypeOK /\ TypeOK'
  BY TypeStep DEF SafeInv
<1>1. minted \in Nat /\ minted' \in Nat /\ cookie \in Nat /\ cookie' \in Nat /\ cookie <= minted /\ minted <= minted
  BY <1>0, Constants DEF SafeInv, TypeOK, Ids
<1>2. ASSUME NEW r \in Requests, Active(r)
      PROVE  /\ req[r] \in Request /\ BagSafe(req[r], minted, dead \ reopened)
             /\ req[r].id \in Nat /\ req[r].named \in Nat /\ req[r].superseded \subseteq Minted
  <2>1. req[r] \in Request
    BY <1>0, <1>2 DEF TypeOK, Active
  <2>2. req[r].id \in Ids /\ req[r].named \in Ids /\ req[r].superseded \subseteq Minted
    BY <2>1 DEF Request
  <2>3. BagSafe(req[r], minted, dead \ reopened)
    BY <1>2 DEF SafeInv
  <2> QED BY <2>1, <2>2, <2>3, IdNumbers
<1>3. ASSUME NEW r \in Requests, Moved(r), minted <= minted', UNCHANGED <<cookie, dead, reopened>>,
             \A id \in Minted : store'[id] # NoSession => store[id] # NoSession,
             BagSafe(req'[r], minted', dead \ reopened)
      PROVE  SafeInv'
  <2>1. \A q \in Requests : Active(q)' =>
            (Active(q) /\ req'[q] = req[q]) \/ BagSafe(req'[q], minted', dead \ reopened)
    BY <1>3 DEF Moved, Active
  <2>2. cookie' <= minted'
    BY <1>1, <1>3
  <2> QED BY <1>0, <1>3, <2>1, <2>2, SafeKept
(* A request whose ids stay as they are keeps its part of the invariant.   *)
<1>4. ASSUME NEW r \in Requests, Active(r), Moved(r), Ident(req'[r]) = Ident(req[r]), minted <= minted',
             req[r].pc \notin {"load", "reap", "respond"}, req'[r].pc = "store" => ~req[r].detached
      PROVE  BagSafe(req'[r], minted', dead \ reopened)
  <2>1. /\ req'[r].id = req[r].id /\ req'[r].named = req[r].named /\ req'[r].superseded = req[r].superseded
        /\ req'[r].detached = req[r].detached
    BY <1>4 DEF Ident
  <2>2. BagSafe(req[r], minted', dead \ reopened)
    <3>1. req[r].pc \notin {"load", "reap", "respond"} /\ ~req[r].detached => req[r].id \notin dead \ reopened
      BY <1>2, <1>4 DEF BagSafe
    <3> QED BY <1>1, <1>2, <1>4, <3>1, SafeBagKept
  <2> QED BY <1>4, <2>1, <2>2 DEF BagSafe
<1>5. ASSUME NEW r \in Requests, Active(r), Fresh(r)
      PROVE  Moved(r) /\ minted <= minted' /\ BagSafe(req'[r], minted', dead \ reopened)
  <2>1. /\ Moved(r) /\ minted' = minted + 1 /\ req'[r].pc = "gate" /\ req'[r].id = minted + 1
        /\ req'[r].named = req[r].named /\ req'[r].superseded = req[r].superseded
    BY <1>0, <1>5, FreshBag DEF Ident
  <2>2. \A id \in dead \ reopened : id <= minted
    BY DEF SafeInv
  <2>3. req[r].named <= minted /\ (\A i \in req[r].superseded : i <= minted)
    BY <1>2, <1>5 DEF BagSafe
  <2>4. req[r].superseded \subseteq Nat /\ dead \subseteq Nat
    BY <1>0, <1>2, <1>5 DEF Minted, TypeOK
  <2> QED BY <1>1, <1>2, <1>5, <2>1, <2>2, <2>3, <2>4 DEF BagSafe
<1>6. ASSUME NEW r \in Requests, NEW method \in Methods, NEW token \in Presented(method), Send(r, method, token) PROVE SafeInv'
  <2>1. /\ req'[r].pc = "load" /\ req'[r].id = cookie /\ req'[r].named = 0 /\ req'[r].superseded = {}
        /\ \A q \in Requests : q # r => req'[q] = req[q]
    BY <1>0, <1>6 DEF Send, TypeOK
  <2>2. BagSafe(req'[r], minted', dead \ reopened)
    BY <1>1, <1>6, <2>1 DEF BagSafe, Send
  <2>3. \A q \in Requests : Active(q)' =>
            (Active(q) /\ req'[q] = req[q]) \/ BagSafe(req'[q], minted', dead \ reopened)
    BY <2>1, <2>2 DEF Active
  <2> QED BY <1>0, <1>1, <1>6, <2>3, SafeKept DEF Send, browser
<1>7. ASSUME NEW r \in Requests, LoadNone(r) PROVE SafeInv'
  <2>1. Active(r) /\ Fresh(r) /\ UNCHANGED <<store, cookie, dead, reopened>>
    BY <1>7 DEF LoadNone, At, browser, history
  <2> QED BY <1>3, <1>5, <2>1
<1>8. ASSUME NEW r \in Requests, Reap(r) PROVE SafeInv'
  <2>1. Active(r) /\ Fresh(r) /\ UNCHANGED <<cookie, dead, reopened>>
    BY <1>8 DEF Reap, At, browser, history
  <2>2. \A id \in Minted : store'[id] # NoSession => store[id] # NoSession
    BY <1>0, <1>8 DEF Reap, TypeOK
  <2> QED BY <1>3, <1>5, <2>1, <2>2
<1>9. ASSUME NEW r \in Requests, LoadFound(r) PROVE SafeInv'
  <2>1. /\ Moved(r) /\ req[r].id \in Minted /\ store[req[r].id] # NoSession /\ req'[r].pc = "gate"
        /\ Ident(req'[r]) = Ident(req[r]) /\ UNCHANGED <<store, minted, cookie, dead, reopened>> /\ Active(r)
    BY <1>0, <1>9, FoundBag DEF LoadFound, Live, At, browser, history
  <2>2. req[r].id \notin dead \ reopened
    BY <2>1 DEF SafeInv, DestroyedStayDead
  <2>3. /\ req'[r].id = req[r].id /\ req'[r].named = req[r].named /\ req'[r].superseded = req[r].superseded
    BY <2>1 DEF Ident
  <2>4. BagSafe(req'[r], minted', dead \ reopened)
    BY <1>2, <2>1, <2>2, <2>3 DEF BagSafe, Minted
  <2> QED BY <1>1, <1>3, <2>1, <2>4
<1>10. ASSUME NEW r \in Requests, LoadExpired(r) PROVE SafeInv'
  <2>1. Active(r) /\ req[r].id # 0 /\ UNCHANGED <<store, minted, cookie, dead, reopened>>
    BY <1>10 DEF LoadExpired, At, browser, history
  <2>2. Moved(r) /\ req'[r].pc = "reap" /\ Ident(req'[r]) = Ident(req[r])
    BY <1>0, <1>10, <2>1, PassedBag DEF LoadExpired
  <2>3. /\ req'[r].id = req[r].id /\ req'[r].named = req[r].named /\ req'[r].superseded = req[r].superseded
    BY <2>2 DEF Ident
  <2>4. BagSafe(req'[r], minted', dead \ reopened)
    BY <1>2, <2>1, <2>2, <2>3 DEF BagSafe
  <2> QED BY <1>1, <1>3, <2>1, <2>2, <2>4
<1>11. ASSUME NEW r \in Requests, LoadFails(r) PROVE SafeInv'
  <2>1. Active(r) /\ req[r].id # 0 /\ UNCHANGED <<store, minted, cookie, dead, reopened>>
    BY <1>11 DEF LoadFails, At, browser, history
  <2>2. /\ Moved(r) /\ req'[r].pc = "gate" /\ req'[r].id = req[r].id /\ req'[r].named = req[r].named
        /\ req'[r].superseded = req[r].superseded /\ req'[r].detached
    BY <1>0, <1>11, FailsBag DEF Ident
  <2>4. BagSafe(req'[r], minted', dead \ reopened)
    BY <1>2, <2>1, <2>2 DEF BagSafe
  <2> QED BY <1>1, <1>3, <2>1, <2>2, <2>4
<1>12. ASSUME NEW r \in Requests, Verify(r) \/ Save(r) \/ SaveFails(r) PROVE SafeInv'
  <2>1. Active(r) /\ UNCHANGED <<store, minted, cookie, dead, reopened>> /\ req[r].pc \notin {"load", "reap", "respond"}
    BY <1>12 DEF Verify, Save, SaveFails, At, browser, history
  <2>2. PICK step \in {"reap", "handle", "save", "store", "respond"} :
            req' = [req EXCEPT ![r].pc = step] /\ (step = "store" => ~req[r].detached)
    BY <1>12 DEF Verify, Save, SaveFails, Unsaved
  <2>3. Moved(r) /\ req'[r].pc = step /\ Ident(req'[r]) = Ident(req[r])
    BY <1>0, <2>1, <2>2, PassedBag
  <2> QED BY <1>1, <1>3, <1>4, <2>1, <2>2, <2>3
<1>13. ASSUME NEW r \in Requests, Put(r) \/ Flash(r) \/ Keep(r) \/ Pull(r) PROVE SafeInv'
  <2>1. Active(r) /\ UNCHANGED <<store, minted, cookie, dead, reopened>>
    BY <1>13 DEF Put, Flash, Keep, Pull, Handling, At, browser, history
  <2>2. Moved(r) /\ req[r].pc = "handle" /\ req'[r].pc = "handle" /\ Ident(req'[r]) = Ident(req[r])
    BY <1>0, <1>13, HandledBag
  <2> QED BY <1>1, <1>3, <1>4, <2>1, <2>2
<1>14. ASSUME NEW r \in Requests, Login(r) \/ Logout(r) PROVE SafeInv'
  <2>1. Active(r) /\ req[r].pc = "handle" /\ UNCHANGED <<store, cookie, dead, reopened>>
    BY <1>14 DEF Login, Logout, Handling, At, browser
  <2>2. req[r].id # 0 /\ req[r].id <= minted /\ req[r].named <= minted /\ \A i \in req[r].superseded : i <= minted
    BY <1>2, <2>1 DEF BagSafe
  <2>3. /\ Moved(r) /\ req'[r].pc = "handle" /\ minted' = minted + 1 /\ req'[r].id = minted + 1
        /\ req'[r].superseded = req[r].superseded \cup {req[r].id} /\ req'[r].named = req[r].named
    BY <1>0, <1>14, <2>2, SignedBag DEF Ident
  <2>4. \A i \in req'[r].superseded : i <= minted' /\ i # minted + 1
    BY <1>1, <1>2, <2>1, <2>2, <2>3 DEF Minted
  <2>5. minted + 1 \notin dead \ reopened
    BY <1>1 DEF SafeInv
  <2>6. minted <= minted' /\ req[r].named <= minted' /\ minted + 1 <= minted' /\ minted + 1 # 0
    BY <1>1, <1>2, <2>1, <2>2, <2>3
  <2>7. BagSafe(req'[r], minted', dead \ reopened)
    BY <2>3, <2>4, <2>5, <2>6 DEF BagSafe
  <2> QED BY <1>3, <2>1, <2>3, <2>6, <2>7
<1>15. ASSUME NEW r \in Requests, Finish(r) \/ FinishUntold(r) PROVE SafeInv'
  <2>1. Active(r) /\ UNCHANGED <<store, cookie, dead, reopened>>
    BY <1>15 DEF Finish, FinishUntold, At, browser, history
  <2>2. Moved(r) /\ req[r].pc = "handle" /\ req'[r].pc = "save" /\ Ident(req'[r]) = Ident(req[r])
    BY <1>0, <1>15, FinishedBag
  <2>3. minted' = minted \/ minted' = minted + 1
    BY <1>0, <1>15, FinishedBag
  <2>4. minted <= minted'
    BY <1>1, <2>3
  <2> QED BY <1>3, <1>4, <2>1, <2>2, <2>4
<1>16. ASSUME NEW r \in Requests, NEW id, Destroy(r, id) PROVE SafeInv'
  <2>1. Active(r) /\ UNCHANGED <<minted, cookie>> /\ Destroyed(id, r)
    BY <1>16 DEF Destroy, At, browser
  <2>2. /\ Moved(r) /\ req[r].pc = "store" /\ req'[r].pc = "store" /\ id \in req[r].superseded /\ id \in Minted
        /\ req'[r].id = req[r].id /\ req'[r].superseded = req[r].superseded \ {id} /\ req'[r].named = req[r].named
        /\ req'[r].detached = req[r].detached
    BY <1>0, <1>16, DestroyedBag DEF Ident
  <2>3. id <= minted /\ id # req[r].id /\ BagSafe(req[r], minted, dead \ reopened)
    BY <1>2, <2>1, <2>2 DEF BagSafe
  <2>4. BagSafe(req'[r], minted, (dead \cup {id}) \ reopened)
    BY <2>2, <2>3 DEF BagSafe
  <2>5. \A q \in Requests : Active(q)' /\ q # r => Active(q) /\ req'[q] = req[q]
    BY <2>2 DEF Moved, Active
  <2> QED BY <1>0, <2>1, <2>2, <2>3, <2>4, <2>5, SafeDestroyed
<1>17. ASSUME NEW r \in Requests, Write(r) PROVE SafeInv'
  <2>1. /\ Active(r) /\ UNCHANGED <<minted, cookie, dead, reopened>>
        /\ store' = [store EXCEPT ![req[r].id] = AgeAndTake(req[r])]
    BY <1>17 DEF Write, At, browser, history
  <2>2. /\ Moved(r) /\ req[r].pc = "store" /\ req'[r].pc = "respond" /\ req'[r].named = req[r].id
        /\ req'[r].id = req[r].id /\ req'[r].superseded = req[r].superseded /\ req'[r].detached = req[r].detached
    BY <1>0, <1>17, WrittenBag DEF Ident
  <2>3. req[r].id <= minted /\ req[r].id \notin dead \ reopened /\ BagSafe(req[r], minted, dead \ reopened)
    BY <1>2, <2>1, <2>2 DEF BagSafe
  <2>4. BagSafe(req'[r], minted, dead \ reopened)
    BY <2>2, <2>3 DEF BagSafe
  <2>5. \A id \in Minted : store'[id] # NoSession =>
            store[id] # NoSession \/ (id <= minted' /\ id \notin dead \ reopened)
    BY <1>0, <2>1, <2>3 DEF TypeOK
  <2>6. \A q \in Requests : Active(q)' =>
            (Active(q) /\ req'[q] = req[q]) \/ BagSafe(req'[q], minted', dead \ reopened)
    BY <2>1, <2>2, <2>4 DEF Moved, Active
  <2> QED BY <1>0, <1>1, <2>1, <2>5, <2>6, SafeKept
<1>18. ASSUME NEW r \in Requests, Respond(r) \/ LoseResponse(r) PROVE SafeInv'
  <2>1. req' = [req EXCEPT ![r] = Idle] /\ UNCHANGED <<store, minted, dead, reopened>> /\ Active(r)
    BY <1>18 DEF Respond, LoseResponse, At, browser
  <2>2. cookie' \in {cookie, req[r].named}
    BY <1>18 DEF Respond, LoseResponse, Kept, browser
  <2>3. cookie' <= minted'
    BY <1>1, <1>2, <2>1, <2>2 DEF BagSafe
  <2>4. \A q \in Requests : Active(q)' => Active(q) /\ req'[q] = req[q]
    BY <1>0, <2>1 DEF TypeOK, Active
  <2> QED BY <1>0, <1>1, <2>1, <2>3, <2>4, SafeKept
<1>19. ASSUME NEW id \in Minted, Revoke(id) PROVE SafeInv'
  <2>1. id <= minted /\ Destroyed(id, Idle) /\ UNCHANGED <<minted, cookie, req>>
    BY <1>19 DEF Revoke, SafeInv, browser
  <2>2. Idle \notin Requests /\ \A q \in Requests : Active(q)' => Active(q) /\ req'[q] = req[q]
    BY <2>1, Constants DEF Active
  <2> QED BY <1>0, <2>1, <2>2, SafeDestroyed
<1>20. ASSUME Tick \/ Gc PROVE SafeInv'
  <2>1. UNCHANGED <<minted, cookie, req, dead, reopened>>
    BY <1>20 DEF Tick, Gc, browser, history
  <2>2. \A id \in Minted : store'[id] # NoSession => store[id] # NoSession
    <3>1. CASE Tick
      BY <3>1 DEF Tick, Live
    <3>2. CASE Gc
      BY <3>2 DEF Gc, Live
    <3> QED BY <1>20, <3>1, <3>2
  <2>3. \A q \in Requests : Active(q)' => Active(q) /\ req'[q] = req[q]
    BY <2>1 DEF Active
  <2> QED BY <1>0, <1>1, <2>1, <2>2, <2>3, SafeKept
<1>21. CASE UNCHANGED vars
  BY <1>0, <1>21 DEF vars, browser, history, SafeInv, DestroyedStayDead, Active
<1> QED
  BY <1>6, <1>7, <1>8, <1>9, <1>10, <1>11, <1>12, <1>13, <1>14, <1>15, <1>16, <1>17, <1>18, <1>19, <1>20, <1>21
  DEF Next, RequestStep

(* Of every run of the sessions: types, and what is destroyed stays so.    *)
THEOREM SafeCorrect == Spec => []SafeInv
<1>1. Init => SafeInv
  <2> SUFFICES ASSUME Init PROVE SafeInv
    OBVIOUS
  <2>1. /\ signed \in BOOLEAN /\ overlapped \in BOOLEAN /\ disturbed \in BOOLEAN /\ bare \in BOOLEAN /\ astray \in BOOLEAN
        /\ dead \subseteq Minted /\ reopened \subseteq Minted
    BY Zenon DEF Init
  <2>2. /\ store \in [Minted -> Stored \cup {NoSession}] /\ req \in [Requests -> Request \cup {Idle}]
        /\ cookie \in Ids /\ xsrf \in Ids /\ minted \in Ids /\ sent \in Nat /\ events \in Nat
        /\ note \in {"none", "flashed", "stored"}
    BY Constants DEF Init, Ids
  <2>3. TypeOK
    BY <2>1, <2>2 DEF TypeOK
  <2> QED BY <2>3 DEF Init, SafeInv, DestroyedStayDead, Active
<1> QED BY <1>1, SafeStep, PTL DEF Spec

(* A session destroyed by a login, a logout or the manager is never in the *)
(* store again, unless another request had it when it was destroyed:       *)
(* however requests overlap, fail and expire.                              *)
THEOREM DeadCorrect == Spec => []DestroyedStayDead
<1>1. SafeInv => DestroyedStayDead
  BY DEF SafeInv
<1> QED BY <1>1, SafeCorrect, PTL

-----------------------------------------------------------------------------
(* XSRF-TOKEN.  T gives every id the token of its session, for good: a     *)
(* login's new id takes over the token, and no session has its token       *)
(* changed.                                                                *)
BagTokens(b, T) ==
    /\ b.pc # "respond" => b.named = 0
    /\ b.detached => b.named = 0
    /\ ~b.detached /\ b.pc \in {"load", "reap", "gate", "handle"} => b.sets = 0
    /\ ~b.detached /\ b.pc \in {"gate", "handle", "save", "store"} => b.token \in {0, T[b.id]}
    /\ ~b.detached /\ b.pc \in {"save", "store"} => b.sets \in {0, b.token}
    /\ b.pc = "respond" /\ b.named # 0 => b.sets \in {0, T[b.named]}

(* The browser, the store and the requests agree on the tokens; the        *)
(* browser, unless a response moved one of its cookies alone.              *)
TokensOf(T) ==
    /\ ~astray /\ cookie # 0 => xsrf = T[cookie]
    /\ \A id \in Minted : store[id] # NoSession => store[id].token = T[id] /\ T[id] # 0
    /\ \A r \in Requests : Active(r) => BagTokens(req[r], T)

(* A session without a token yet is known to the one request that made it. *)
Untokened(b) == ~b.detached /\ b.pc \in {"gate", "handle"} /\ b.token = 0
Unknown(id, r) ==
    /\ id # cookie /\ store[id] = NoSession
    /\ \A q \in Requests : q # r /\ Active(q) => req[q].id # id /\ req[q].named # id

SoleOwners == \A r \in Requests : Active(r) /\ Untokened(req[r]) => Unknown(req[r].id, r)

(* All this while every session stored has a token.                        *)
TokenInv == ~bare => SoleOwners /\ \E T \in [Ids -> Ids] : TokensOf(T)

(* The id that would be minted next is unknown.                            *)
LEMMA NextUnknown ==
    ASSUME SafeInv, minted < MaxMinted, NEW r
    PROVE  minted + 1 \in Minted /\ minted + 1 \in Ids /\ Unknown(minted + 1, r)
<1>1. minted \in Nat /\ minted + 1 \in Minted /\ minted + 1 \in Ids /\ cookie \in Nat
  BY Constants DEF SafeInv, TypeOK, Ids, Minted
<1>2. minted + 1 # cookie /\ store[minted + 1] = NoSession
  BY <1>1 DEF SafeInv
<1>3. ASSUME NEW q \in Requests, Active(q) PROVE req[q].id # minted + 1 /\ req[q].named # minted + 1
  <2>1. req[q] \in Request /\ req[q].id <= minted /\ req[q].named <= minted
    BY <1>3 DEF SafeInv, TypeOK, Active, BagSafe
  <2> QED BY <1>1, <2>1 DEF Request, Ids
<1> QED BY <1>1, <1>2, <1>3 DEF Unknown

(* A step of one request, under which only tokens of unknown ids change.   *)
LEMMA TokenMoved ==
    ASSUME SafeInv, SafeInv', SoleOwners, NEW r \in Requests, Moved(r), UNCHANGED <<cookie, xsrf, astray>>,
           NEW T \in [Ids -> Ids], TokensOf(T), NEW U \in [Ids -> Ids],
           \A id \in Ids : U[id] = T[id] \/ (id \in Minted /\ Unknown(id, r)),
           \A id \in Minted : store'[id] # NoSession =>
               /\ store'[id].token = U[id] /\ U[id] # 0
               /\ store[id] # NoSession \/ (Active(r) /\ id = req[r].id /\ ~Untokened(req'[r])),
           BagTokens(req'[r], U),
           Untokened(req'[r]) =>
               \/ Active(r) /\ Untokened(req[r]) /\ req'[r].id = req[r].id
               \/ minted < MaxMinted /\ req'[r].id = minted + 1,
           \/ req'[r].id = cookie
           \/ minted < MaxMinted /\ req'[r].id = minted + 1
           \/ Active(r) /\ req'[r].id = req[r].id,
           req'[r].named = 0 \/ (Active(r) /\ req'[r].named \in {req[r].id, req[r].named})
    PROVE  SoleOwners' /\ TokensOf(U)'
<1>0. TypeOK /\ TypeOK' /\ cookie \in Ids
  BY DEF SafeInv, TypeOK
<1>1. ASSUME NEW q \in Requests, Active(q) PROVE req[q] \in Request /\ req[q].id \in Ids /\ req[q].named \in Ids
  <2>1. req[q] \in Request
    BY <1>0, <1>1 DEF TypeOK, Active
  <2> QED BY <2>1 DEF Request
<1>2. ~astray /\ cookie # 0 => xsrf = U[cookie]
  BY <1>0 DEF TokensOf, Unknown
<1>3. ASSUME NEW q \in Requests, q # r, Active(q)' PROVE BagTokens(req'[q], U)
  <2>1. Active(q) /\ req'[q] = req[q] /\ BagTokens(req[q], T)
    BY <1>3 DEF Moved, Active, TokensOf
  <2>2. req[q].id \in Ids /\ req[q].named \in Ids
    BY <1>1, <2>1
  <2>3. U[req[q].id] = T[req[q].id] /\ U[req[q].named] = T[req[q].named]
    BY <1>3, <2>1, <2>2 DEF Unknown
  <2> QED BY <2>1, <2>3 DEF BagTokens
<1>4. TokensOf(U)'
  BY <1>2, <1>3 DEF TokensOf
<1>5. ASSUME NEW q \in Requests, q # r, Active(q)', Untokened(req'[q]) PROVE Unknown(req[q].id, q)'
  <2>1. Active(q) /\ req'[q] = req[q] /\ Untokened(req[q])
    BY <1>5 DEF Moved, Active
  <2>2. /\ req[q].id # cookie /\ store[req[q].id] = NoSession
        /\ \A p \in Requests : p # q /\ Active(p) => req[p].id # req[q].id /\ req[p].named # req[q].id
    BY <2>1 DEF SoleOwners, Unknown
  <2>3. req[q].id \in Minted /\ req[q].id # 0 /\ (minted < MaxMinted => req[q].id # minted + 1)
    <3>1. req[q].id # 0 /\ req[q].id <= minted
      BY <2>1 DEF SafeInv, BagSafe, Untokened
    <3>2. minted \in Nat /\ req[q].id \in Nat /\ req[q].id \in Minted
      BY <1>0, <1>1, <2>1, <3>1, IdNumbers DEF TypeOK
    <3> QED BY <3>1, <3>2
  <2>4. req'[r].id # req[q].id /\ req'[r].named # req[q].id
    BY <1>5, <2>2, <2>3
  <2>5. store'[req[q].id] = NoSession
    BY <1>5, <2>2, <2>3
  <2>6. ASSUME NEW p \in Requests, p # q, Active(p)' PROVE req'[p].id # req[q].id /\ req'[p].named # req[q].id
    BY <2>2, <2>4, <2>6 DEF Moved, Active
  <2> QED BY <2>1, <2>2, <2>5, <2>6 DEF Unknown
<1>6. ASSUME Active(r)', Untokened(req'[r]) PROVE Unknown(req[r].id, r)'
  <2>1. Unknown(req'[r].id, r) /\ req'[r].id \in Minted
    <3>1. CASE Active(r) /\ Untokened(req[r]) /\ req'[r].id = req[r].id
      <4>1. req[r].id # 0
        BY <3>1 DEF SafeInv, BagSafe, Untokened
      <4> QED BY <1>1, <3>1, <4>1, IdNumbers DEF SoleOwners
    <3>2. CASE minted < MaxMinted /\ req'[r].id = minted + 1
      BY <3>2, NextUnknown
    <3> QED BY <1>6, <3>1, <3>2
  <2>2. store'[req'[r].id] = NoSession
    BY <1>6, <2>1 DEF Unknown
  <2> QED BY <2>1, <2>2 DEF Unknown, Moved, Active
<1> QED BY <1>4, <1>5, <1>6 DEF SoleOwners

(* What went wrong once stays on record, whatever comes next.              *)
LEMMA OnRecord ==
    ASSUME [Next]_vars
    PROVE  (overlapped => overlapped') /\ (disturbed => disturbed') /\ (bare => bare')
<1> DEFINE Goal == (overlapped => overlapped') /\ (disturbed => disturbed') /\ (bare => bare')
<1> USE DEF history
<1>1. ASSUME NEW r \in Requests, NEW method \in Methods, NEW token \in Presented(method), Send(r, method, token) PROVE Goal
  BY <1>1 DEF Send
<1>2. ASSUME NEW r \in Requests, LoadNone(r) \/ LoadFound(r) \/ LoadExpired(r) \/ Reap(r) \/ LoadFails(r) PROVE Goal
  BY <1>2 DEF LoadNone, LoadFound, LoadExpired, Reap, LoadFails
<1>3. ASSUME NEW r \in Requests, Verify(r) \/ Put(r) \/ Flash(r) \/ Keep(r) \/ Pull(r) PROVE Goal
  BY <1>3 DEF Verify, Put, Flash, Keep, Pull
<1>4. ASSUME NEW r \in Requests, Login(r) \/ Logout(r) \/ Finish(r) \/ FinishUntold(r) \/ Save(r) PROVE Goal
  <2>1. CASE Login(r) \/ Logout(r)
    <3>1. UNCHANGED <<overlapped, bare>>
      BY <2>1 DEF Login, Logout
    <3>2. disturbed => disturbed'
      BY <2>1, Zenon DEF Login, Logout
    <3> QED BY <3>1, <3>2
  <2>2. CASE Finish(r) \/ FinishUntold(r) \/ Save(r)
    BY <2>2 DEF Finish, FinishUntold, Save
  <2> QED BY <1>4, <2>1, <2>2
<1>5. ASSUME NEW r \in Requests, (\E id \in req[r].superseded : Destroy(r, id)) \/ Write(r) \/ SaveFails(r) PROVE Goal
  <2>1. CASE Write(r)
    BY <2>1, Zenon DEF Write
  <2>2. CASE (\E id \in req[r].superseded : Destroy(r, id)) \/ SaveFails(r)
    BY <2>2 DEF Destroy, SaveFails
  <2> QED BY <1>5, <2>1, <2>2
<1>6. ASSUME NEW r \in Requests, Respond(r) \/ LoseResponse(r) PROVE Goal
  <2>1. CASE Respond(r)
    BY <2>1 DEF Respond
  <2>2. CASE LoseResponse(r)
    BY <2>2 DEF LoseResponse
  <2> QED BY <1>6, <2>1, <2>2
<1>7. ASSUME (\E id \in Minted : Revoke(id)) \/ Tick \/ Gc PROVE Goal
  BY <1>7 DEF Revoke, Tick, Gc
<1>8. ASSUME UNCHANGED vars PROVE Goal
  BY <1>8 DEF vars
<1> HIDE DEF Goal, history
<1>9. Goal
  BY <1>1, <1>2, <1>3, <1>4, <1>5, <1>6, <1>7, <1>8 DEF Next, RequestStep
<1> QED BY <1>9 DEF Goal

(* Every action keeps the agreement on the tokens.                         *)
LEMMA TokenStep == SafeInv /\ SafeInv' /\ TokenInv /\ [Next]_vars => TokenInv'
<1> SUFFICES ASSUME SafeInv, SafeInv', TokenInv, [Next]_vars, ~bare'
             PROVE  SoleOwners' /\ (\E T \in [Ids -> Ids] : TokensOf(T))'
  BY DEF TokenInv
<1>0. TypeOK /\ TypeOK' /\ store \in [Minted -> Stored \cup {NoSession}] /\ minted \in Nat /\ cookie \in Ids
  BY IdNumbers DEF SafeInv, TypeOK
<1>1. ~bare
  BY OnRecord
<1>2. PICK T \in [Ids -> Ids] : SoleOwners /\ TokensOf(T)
  BY <1>1 DEF TokenInv
<1>3. ASSUME NEW r \in Requests, Active(r)
      PROVE  /\ req[r] \in Request /\ BagTokens(req[r], T) /\ req[r].id \in Ids /\ req[r].named \in Ids /\ req[r].token \in Ids
             /\ (req[r].pc # "load" => req[r].id # 0)
             /\ (Untokened(req[r]) => Unknown(req[r].id, r))
  <2>1. req[r] \in Request
    BY <1>0, <1>3 DEF TypeOK, Active
  <2>2. req[r].id \in Ids /\ req[r].named \in Ids /\ req[r].token \in Ids
    BY <2>1 DEF Request
  <2>3. req[r].pc # "load" => req[r].id # 0
    BY <1>3 DEF SafeInv, BagSafe
  <2> QED BY <1>2, <1>3, <2>1, <2>2, <2>3 DEF TokensOf, SoleOwners
(* A step of one request that gives no id its token.                       *)
<1>4. ASSUME NEW r \in Requests, Moved(r), UNCHANGED <<cookie, xsrf, astray>>,
             \A id \in Minted : store'[id] # NoSession => store[id] # NoSession /\ store'[id].token = store[id].token,
             BagTokens(req'[r], T),
             Untokened(req'[r]) =>
                 \/ Active(r) /\ Untokened(req[r]) /\ req'[r].id = req[r].id
                 \/ minted < MaxMinted /\ req'[r].id = minted + 1,
             \/ req'[r].id = cookie
             \/ minted < MaxMinted /\ req'[r].id = minted + 1
             \/ Active(r) /\ req'[r].id = req[r].id,
             req'[r].named = 0 \/ (Active(r) /\ req'[r].named = req[r].named)
      PROVE  SoleOwners' /\ (\E U \in [Ids -> Ids] : TokensOf(U))'
  <2>1. \A id \in Minted : store'[id] # NoSession => store[id] # NoSession /\ store'[id].token = T[id] /\ T[id] # 0
    BY <1>2, <1>4 DEF TokensOf
  <2>2. SoleOwners' /\ TokensOf(T)'
    BY <1>2, <1>4, <2>1, TokenMoved
  <2> QED BY <2>2
<1>5. ASSUME NEW r \in Requests, NEW method \in Methods, NEW token \in Presented(method), Send(r, method, token) PROVE SoleOwners' /\ (\E U \in [Ids -> Ids] : TokensOf(U))'
  <2> DEFINE b == [pc |-> "load", method |-> method, id |-> cookie, presents |-> token,
                   keys |-> {}, token |-> 0, old |-> {}, new |-> {}, dirty |-> FALSE, detached |-> FALSE,
                   empty |-> TRUE, superseded |-> {}, op |-> "none", named |-> 0, sets |-> 0]
  <2>0. cookie \in Ids /\ token \in Ids /\ 0 \in Ids
    BY <1>0, IdNumbers, PresentedIds DEF TypeOK
  <2>1. b \in Request
    BY <2>0 DEF Request
  <2>2. req' = [req EXCEPT ![r] = b] /\ UNCHANGED <<store, cookie, xsrf, astray>>
    BY <1>5 DEF Send, browser, history
  <2>3. BagTokens(b, T) /\ ~Untokened(b) /\ b.id = cookie /\ b.named = 0
    BY <1>2 DEF BagTokens, TokensOf, Untokened
  <2> HIDE DEF b
  <2>4. Moved(r) /\ req'[r] = b
    BY <1>0, <2>1, <2>2, MovedTo
  <2> QED BY <1>4, <2>2, <2>3, <2>4
<1>6. ASSUME NEW r \in Requests, LoadNone(r) \/ Reap(r) PROVE SoleOwners' /\ (\E U \in [Ids -> Ids] : TokensOf(U))'
  <2>1. Active(r) /\ Fresh(r) /\ req[r].pc \in {"load", "reap"} /\ UNCHANGED <<cookie, xsrf, astray>>
    BY <1>6 DEF LoadNone, Reap, At, browser, history
  <2>2. \A id \in Minted : store'[id] # NoSession => store[id] # NoSession /\ store'[id].token = store[id].token
    <3>1. CASE LoadNone(r)
      BY <3>1 DEF LoadNone
    <3>2. CASE Reap(r)
      BY <1>0, <3>2 DEF Reap
    <3> QED BY <1>6, <3>1, <3>2
  <2>3. /\ Moved(r) /\ minted < MaxMinted /\ req'[r].pc = "gate" /\ req'[r].id = minted + 1
        /\ req'[r].named = req[r].named /\ req'[r].detached = req[r].detached
        /\ req'[r].token = 0 /\ req'[r].sets = req[r].sets
    BY <1>0, <2>1, FreshBag DEF Ident, Tokens
  <2>4. BagTokens(req'[r], T)
    BY <1>3, <2>1, <2>3 DEF BagTokens
  <2> QED BY <1>4, <2>1, <2>2, <2>3, <2>4
<1>7. ASSUME NEW r \in Requests, LoadFound(r) PROVE SoleOwners' /\ (\E U \in [Ids -> Ids] : TokensOf(U))'
  <2>1. Active(r) /\ req[r].pc = "load" /\ req[r].id # 0 /\ store[req[r].id] # NoSession /\ UNCHANGED <<store, cookie, xsrf, astray>>
    BY <1>7 DEF LoadFound, Live, At, browser, history
  <2>2. /\ Moved(r) /\ req[r].id \in Minted /\ req'[r].pc = "gate" /\ req'[r].id = req[r].id
        /\ req'[r].named = req[r].named /\ req'[r].detached = req[r].detached
        /\ req'[r].token = store[req[r].id].token /\ req'[r].sets = req[r].sets
    BY <1>0, <1>7, FoundBag DEF Ident, Tokens
  <2>3. req'[r].token = T[req[r].id] /\ req'[r].token # 0
    BY <1>2, <2>1, <2>2 DEF TokensOf
  <2>4. BagTokens(req'[r], T) /\ ~Untokened(req'[r])
    BY <1>3, <2>1, <2>2, <2>3 DEF BagTokens, Untokened
  <2> QED BY <1>4, <2>1, <2>2, <2>4
<1>8. ASSUME NEW r \in Requests, Active(r), NEW step \in {"reap", "handle", "save", "store", "respond"},
             req' = [req EXCEPT ![r].pc = step], UNCHANGED <<store, cookie, xsrf, astray>>,
             BagTokens([req[r] EXCEPT !.pc = step], T),
             step = "handle" => req[r].pc = "gate"
      PROVE  SoleOwners' /\ (\E U \in [Ids -> Ids] : TokensOf(U))'
  <2> DEFINE b == [req[r] EXCEPT !.pc = step]
  <2>1. /\ b \in Request /\ b.pc = step /\ b.id = req[r].id /\ b.named = req[r].named /\ b.token = req[r].token
        /\ b.detached = req[r].detached
    BY <1>3, <1>8 DEF Request
  <2>2. req' = [req EXCEPT ![r] = b] /\ BagTokens(b, T)
    BY <1>8
  <2> HIDE DEF b
  <2>3. Moved(r) /\ req'[r] = b
    BY <1>0, <2>1, <2>2, MovedTo
  <2>4. Untokened(b) => Untokened(req[r])
    BY <1>8, <2>1 DEF Untokened
  <2> QED BY <1>4, <1>8, <2>1, <2>2, <2>3, <2>4
<1>9. ASSUME NEW r \in Requests, LoadExpired(r) PROVE SoleOwners' /\ (\E U \in [Ids -> Ids] : TokensOf(U))'
  <2>1. Active(r) /\ req[r].pc = "load" /\ UNCHANGED <<store, cookie, xsrf, astray>> /\ req' = [req EXCEPT ![r].pc = "reap"]
    BY <1>9 DEF LoadExpired, At, browser, history
  <2>2. BagTokens([req[r] EXCEPT !.pc = "reap"], T)
    BY <1>3, <2>1 DEF BagTokens, Request
  <2> QED BY <1>8, <2>1, <2>2
<1>10. ASSUME NEW r \in Requests, Verify(r) PROVE SoleOwners' /\ (\E U \in [Ids -> Ids] : TokensOf(U))'
  <2>1. /\ Active(r) /\ req[r].pc = "gate" /\ UNCHANGED <<store, cookie, xsrf, astray>>
        /\ req' = [req EXCEPT ![r].pc = IF Passes(r) THEN "handle" ELSE "save"]
    BY <1>10 DEF Verify, At, browser, history
  <2>2. BagTokens([req[r] EXCEPT !.pc = "handle"], T) /\ BagTokens([req[r] EXCEPT !.pc = "save"], T)
    BY <1>3, <2>1 DEF BagTokens, Request
  <2> QED BY <1>8, <2>1, <2>2
<1>11. ASSUME NEW r \in Requests, Save(r) PROVE SoleOwners' /\ (\E U \in [Ids -> Ids] : TokensOf(U))'
  <2>1. /\ Active(r) /\ req[r].pc = "save" /\ UNCHANGED <<store, cookie, xsrf, astray>>
        /\ req' = [req EXCEPT ![r].pc = IF Unsaved(r) THEN "respond" ELSE "store"]
    BY <1>11 DEF Save, At, browser, history
  <2>2. BagTokens([req[r] EXCEPT !.pc = "respond"], T) /\ BagTokens([req[r] EXCEPT !.pc = "store"], T)
    BY <1>3, <2>1 DEF BagTokens, Request
  <2> QED BY <1>8, <2>1, <2>2
<1>12. ASSUME NEW r \in Requests, Put(r) \/ Flash(r) \/ Keep(r) \/ Pull(r) PROVE SoleOwners' /\ (\E U \in [Ids -> Ids] : TokensOf(U))'
  <2>1. Active(r) /\ UNCHANGED <<store, cookie, xsrf, astray>>
    BY <1>12 DEF Put, Flash, Keep, Pull, Handling, At, browser, history
  <2>2. /\ Moved(r) /\ req[r].pc = "handle" /\ req'[r].pc = "handle" /\ req'[r].id = req[r].id
        /\ req'[r].named = req[r].named /\ req'[r].detached = req[r].detached
        /\ req'[r].token = req[r].token /\ req'[r].sets = req[r].sets
    BY <1>0, <1>12, HandledBag DEF Ident, Tokens
  <2>3. BagTokens(req'[r], T) /\ (Untokened(req'[r]) => Untokened(req[r]))
    BY <1>3, <2>1, <2>2 DEF BagTokens, Untokened
  <2> QED BY <1>4, <2>1, <2>2, <2>3
<1>13. ASSUME NEW r \in Requests, Login(r) \/ Logout(r) PROVE SoleOwners' /\ (\E U \in [Ids -> Ids] : TokensOf(U))'
  <2>1. Active(r) /\ UNCHANGED <<store, cookie, xsrf, astray>> /\ req[r].pc = "handle" /\ req[r].id # 0
    BY <1>3, <1>13 DEF Login, Logout, Handling, At, browser, history
  <2>2. /\ Moved(r) /\ req'[r].pc = "handle" /\ minted < MaxMinted /\ req'[r].id = minted + 1
        /\ req'[r].named = req[r].named /\ req'[r].detached = req[r].detached
    BY <1>0, <1>13, <2>1, SignedBag DEF Ident
  <2>3. (req'[r].token = 0 \/ req'[r].token = req[r].token) /\ req'[r].sets = req[r].sets
    BY <1>0, <1>13, <2>1, SignedBag DEF Tokens
  <2>5. req[r].token \in Ids /\ minted + 1 \in Minted /\ minted + 1 \in Ids /\ Unknown(minted + 1, r)
    BY <1>3, <2>1, <2>2, NextUnknown
  <2>6. PICK U \in [Ids -> Ids] : U = [T EXCEPT ![minted + 1] = req[r].token]
    BY <2>5
  <2>7. U[minted + 1] = req[r].token /\ \A id \in Ids : id # minted + 1 => U[id] = T[id]
    BY <2>5, <2>6
  <2>8. BagTokens(req'[r], U)
    BY <1>3, <2>1, <2>2, <2>3, <2>7 DEF BagTokens
  <2>9. \A id \in Minted : store'[id] # NoSession => store'[id].token = U[id] /\ U[id] # 0 /\ store[id] # NoSession
    BY <1>2, <2>1, <2>5, <2>7 DEF TokensOf, Unknown, Minted, Ids
  <2>10. SoleOwners' /\ TokensOf(U)'
    BY <1>2, <2>1, <2>2, <2>5, <2>7, <2>8, <2>9, <1>3, TokenMoved
  <2> QED BY <2>10
<1>14. ASSUME NEW r \in Requests, Finish(r) \/ FinishUntold(r) PROVE SoleOwners' /\ (\E U \in [Ids -> Ids] : TokensOf(U))'
  <2>1. Active(r) /\ UNCHANGED <<store, cookie, xsrf, astray>> /\ req[r].pc = "handle" /\ req[r].id # 0
    BY <1>3, <1>14 DEF Finish, FinishUntold, At, browser, history
  <2>2. /\ Moved(r) /\ req'[r].pc = "save" /\ req'[r].id = req[r].id
        /\ req'[r].named = req[r].named /\ req'[r].detached = req[r].detached
        /\ req'[r].sets = req'[r].token \/ req'[r].sets = req[r].sets
        /\ \/ req'[r].token = req[r].token
           \/ req[r].token = 0 /\ minted < MaxMinted /\ req'[r].token = minted + 1
    BY <1>0, <1>14, FinishedBag DEF Ident
  <2>3. ~Untokened(req'[r])
    BY <2>2 DEF Untokened
  <2>4. CASE req'[r].token = req[r].token \/ req[r].detached
    <3>1. BagTokens(req'[r], T)
      BY <1>3, <2>1, <2>2, <2>4 DEF BagTokens
    <3> QED BY <1>4, <2>1, <2>2, <2>3, <3>1
  <2>5. CASE req'[r].token # req[r].token /\ ~req[r].detached
    <3>1. req[r].token = 0 /\ minted < MaxMinted /\ req'[r].token = minted + 1
      BY <2>2, <2>5
    <3>2. Unknown(req[r].id, r) /\ req[r].id \in Minted /\ req[r].id \in Ids /\ minted + 1 \in Ids
      BY <1>3, <2>1, <2>5, <3>1, NextUnknown, IdNumbers DEF Untokened
    <3>3. PICK U \in [Ids -> Ids] : U = [T EXCEPT ![req[r].id] = minted + 1]
      BY <3>2
    <3>4. U[req[r].id] = minted + 1 /\ \A id \in Ids : id # req[r].id => U[id] = T[id]
      BY <3>2, <3>3
    <3>5. BagTokens(req'[r], U)
      BY <1>3, <2>1, <2>2, <3>1, <3>4 DEF BagTokens
    <3>6. \A id \in Minted : store'[id] # NoSession => store'[id].token = U[id] /\ U[id] # 0 /\ store[id] # NoSession
      BY <1>2, <2>1, <3>2, <3>4 DEF TokensOf, Unknown, Minted, Ids
    <3>7. SoleOwners' /\ TokensOf(U)'
      BY <1>2, <2>1, <2>2, <2>3, <3>2, <3>4, <3>5, <3>6, TokenMoved
    <3> QED BY <3>7
  <2> QED BY <2>4, <2>5
<1>15. ASSUME NEW r \in Requests, NEW id, Destroy(r, id) PROVE SoleOwners' /\ (\E U \in [Ids -> Ids] : TokensOf(U))'
  <2>1. Active(r) /\ store' = [store EXCEPT ![id] = NoSession] /\ UNCHANGED <<cookie, xsrf, astray>>
    BY <1>15 DEF Destroy, Destroyed, At, browser, history
  <2>2. /\ Moved(r) /\ req[r].pc = "store" /\ req'[r].pc = "store" /\ req'[r].id = req[r].id
        /\ req'[r].named = req[r].named /\ req'[r].detached = req[r].detached
        /\ req'[r].token = req[r].token /\ req'[r].sets = req[r].sets
    BY <1>0, <1>15, DestroyedBag DEF Ident, Tokens
  <2>3. BagTokens(req'[r], T) /\ ~Untokened(req'[r])
    BY <1>3, <2>1, <2>2 DEF BagTokens, Untokened
  <2>4. \A i \in Minted : store'[i] # NoSession => store[i] # NoSession /\ store'[i].token = store[i].token
    BY <1>0, <2>1
  <2> QED BY <1>4, <2>1, <2>2, <2>3, <2>4
<1>16. ASSUME NEW r \in Requests, Write(r) PROVE SoleOwners' /\ (\E U \in [Ids -> Ids] : TokensOf(U))'
  <2>1. Active(r) /\ store' = [store EXCEPT ![req[r].id] = AgeAndTake(req[r])] /\ UNCHANGED <<cookie, xsrf, astray>>
    BY <1>16 DEF Write, At, browser, history
  <2>2. /\ Moved(r) /\ req[r].pc = "store" /\ req'[r].pc = "respond" /\ req'[r].id = req[r].id
        /\ req'[r].named = req[r].id /\ req'[r].detached = req[r].detached
        /\ req'[r].token = req[r].token /\ req'[r].sets = req[r].sets /\ AgeAndTake(req[r]).token = req[r].token
    BY <1>0, <1>16, WrittenBag DEF Ident, Tokens
  <2>3. req[r].token = T[req[r].id] /\ req[r].token # 0 /\ req[r].sets \in {0, T[req[r].id]} /\ req[r].id # 0 /\ ~req[r].detached
    <3>1. req[r].token # 0 /\ ~req[r].detached
      BY <1>16, <2>1, <2>2 DEF Write, SafeInv, BagSafe
    <3> QED BY <1>3, <2>1, <2>2, <3>1 DEF BagTokens
  <2>4. BagTokens(req'[r], T) /\ ~Untokened(req'[r])
    BY <1>3, <2>1, <2>2, <2>3 DEF BagTokens, Untokened
  <2>5. \A id \in Minted : store'[id] # NoSession =>
            /\ store'[id].token = T[id] /\ T[id] # 0
            /\ store[id] # NoSession \/ (Active(r) /\ id = req[r].id /\ ~Untokened(req'[r]))
    BY <1>0, <1>2, <2>1, <2>2, <2>3, <2>4 DEF TokensOf
  <2>6. SoleOwners' /\ TokensOf(T)'
    BY <1>2, <2>1, <2>2, <2>4, <2>5, TokenMoved
  <2> QED BY <2>6
(* A response, or none, and the request is over.                           *)
<1>17. ASSUME NEW r \in Requests, Respond(r) \/ LoseResponse(r) PROVE SoleOwners' /\ (\E U \in [Ids -> Ids] : TokensOf(U))'
  <2>1. Active(r) /\ req[r].pc = "respond" /\ req' = [req EXCEPT ![r] = Idle] /\ UNCHANGED store
    BY <1>17 DEF Respond, LoseResponse, At, browser, history
  <2>2. \A q \in Requests : Active(q)' => Active(q) /\ q # r /\ req'[q] = req[q]
    BY <1>0, <2>1 DEF TypeOK, Active
  <2>3. /\ cookie' \in {cookie, req[r].named}
        /\ ~astray' => \/ ~astray /\ cookie' = cookie /\ xsrf' = xsrf
                       \/ cookie' = req[r].named /\ xsrf' = req[r].sets /\ req[r].named # 0 /\ req[r].sets # 0
    <3>1. CASE Respond(r)
      BY <3>1 DEF Respond, Parted, Kept
    <3>2. CASE LoseResponse(r)
      BY <3>2 DEF LoseResponse, browser
    <3> QED BY <1>17, <3>1, <3>2
  <2>4. ~astray' /\ cookie' # 0 => xsrf' = T[cookie']
    BY <1>2, <1>3, <2>1, <2>3 DEF TokensOf, BagTokens
  <2>5. TokensOf(T)'
    BY <1>2, <2>1, <2>2, <2>4 DEF TokensOf
  <2>6. SoleOwners'
    <3>1. SUFFICES ASSUME NEW q \in Requests, Active(q)', Untokened(req'[q]) PROVE Unknown(req[q].id, q)'
      BY DEF SoleOwners
    <3>2. Unknown(req[q].id, q) /\ Active(q) /\ q # r /\ req'[q] = req[q]
      BY <1>2, <2>2, <3>1 DEF SoleOwners
    <3>3. req[q].id # cookie'
      BY <2>1, <2>3, <3>2 DEF Unknown
    <3>4. store'[req[q].id] = NoSession
      BY <2>1, <3>2 DEF Unknown
    <3>5. \A p \in Requests : p # q /\ Active(p)' => req'[p].id # req[q].id /\ req'[p].named # req[q].id
      BY <2>2, <3>2 DEF Unknown
    <3> QED BY <3>2, <3>3, <3>4, <3>5 DEF Unknown
  <2> QED BY <2>5, <2>6
(* Sessions go, or come nearer to their end.                               *)
<1>18. ASSUME UNCHANGED <<cookie, xsrf, astray, req>>,
              \A id \in Minted : store'[id] # NoSession => store[id] # NoSession /\ store'[id].token = store[id].token
       PROVE  SoleOwners' /\ (\E U \in [Ids -> Ids] : TokensOf(U))'
  <2>1. TokensOf(T)'
    BY <1>2, <1>18 DEF TokensOf, Active
  <2>2. SoleOwners'
    <3>1. SUFFICES ASSUME NEW q \in Requests, Active(q), Untokened(req[q]) PROVE Unknown(req[q].id, q)'
      BY <1>18 DEF SoleOwners, Active
    <3>2. Unknown(req[q].id, q) /\ req[q].id \in Minted
      BY <1>2, <1>3, <3>1, IdNumbers DEF Untokened
    <3> QED BY <1>18, <3>2 DEF Unknown, Active
  <2> QED BY <2>1, <2>2
<1>19. ASSUME NEW id \in Minted, Revoke(id) PROVE SoleOwners' /\ (\E U \in [Ids -> Ids] : TokensOf(U))'
  <2>1. UNCHANGED <<cookie, xsrf, astray, req>> /\ store' = [store EXCEPT ![id] = NoSession]
    BY <1>19 DEF Revoke, Destroyed, browser, history
  <2> QED BY <1>0, <1>18, <2>1
<1>20. ASSUME Tick PROVE SoleOwners' /\ (\E U \in [Ids -> Ids] : TokensOf(U))'
  <2>1. UNCHANGED <<cookie, xsrf, astray, req>>
    BY <1>20 DEF Tick, browser, history
  <2>2. ASSUME NEW id \in Minted, store'[id] # NoSession PROVE store[id] # NoSession /\ store'[id].token = store[id].token
    <3>1. store'[id] = IF Live(id) THEN [store[id] EXCEPT !.left = @ - 1] ELSE store[id]
      BY <1>20 DEF Tick
    <3>2. Live(id) => store[id] \in Stored
      BY <1>0 DEF Live
    <3> QED BY <2>2, <3>1, <3>2 DEF Live, Stored
  <2> QED BY <1>18, <2>1, <2>2
<1>21. ASSUME Gc PROVE SoleOwners' /\ (\E U \in [Ids -> Ids] : TokensOf(U))'
  <2>1. UNCHANGED <<cookie, xsrf, astray, req>>
    BY <1>21 DEF Gc, browser, history
  <2>2. \A id \in Minted : store'[id] # NoSession => store[id] # NoSession /\ store'[id].token = store[id].token
    BY <1>21 DEF Gc
  <2> QED BY <1>18, <2>1, <2>2
(* A call of the store fails.                                              *)
<1>22. ASSUME NEW r \in Requests, LoadFails(r) PROVE SoleOwners' /\ (\E U \in [Ids -> Ids] : TokensOf(U))'
  <2>1. Active(r) /\ req[r].pc \in {"load", "reap"} /\ UNCHANGED <<store, cookie, xsrf, astray>>
    BY <1>22 DEF LoadFails, At, browser, history
  <2>2. Moved(r) /\ req'[r].pc = "gate" /\ req'[r].id = req[r].id /\ req'[r].named = req[r].named /\ req'[r].detached = TRUE
    BY <1>0, <1>22, FailsBag DEF Ident
  <2>3. BagTokens(req'[r], T) /\ ~Untokened(req'[r])
    BY <1>3, <2>1, <2>2 DEF BagTokens, Untokened
  <2> QED BY <1>4, <2>1, <2>2, <2>3
<1>23. ASSUME NEW r \in Requests, SaveFails(r) PROVE SoleOwners' /\ (\E U \in [Ids -> Ids] : TokensOf(U))'
  <2>1. Active(r) /\ req[r].pc = "store" /\ UNCHANGED <<store, cookie, xsrf, astray>> /\ req' = [req EXCEPT ![r].pc = "respond"]
    BY <1>23 DEF SaveFails, At, browser
  <2>2. BagTokens([req[r] EXCEPT !.pc = "respond"], T)
    BY <1>3, <2>1 DEF BagTokens, Request
  <2> QED BY <1>8, <2>1, <2>2
<1>24. CASE UNCHANGED vars
  <2>1. UNCHANGED <<cookie, xsrf, astray, req, store>>
    BY <1>24 DEF vars, browser, history
  <2> QED BY <1>18, <2>1
<1> QED
  BY <1>5, <1>6, <1>7, <1>9, <1>10, <1>11, <1>12, <1>13, <1>14, <1>15, <1>16, <1>17, <1>19, <1>20, <1>21, <1>22, <1>23, <1>24
  DEF Next, RequestStep

(* The two cookies of a browser belong together, through every overlap of  *)
(* requests, token presented, refusal, sign-in, sign-out, outage, expiry,  *)
(* revocation and lost response, but from a response that moves one of     *)
(* them alone to the next that brings both.                                *)
THEOREM XsrfCorrect == Spec => []XsrfOfItsSession
<1>1. Init => TokenInv
  <2> SUFFICES ASSUME Init PROVE TokenInv
    OBVIOUS
  <2>1. [id \in Ids |-> 0] \in [Ids -> Ids]
    BY IdNumbers
  <2>2. TokensOf([id \in Ids |-> 0]) /\ SoleOwners
    BY DEF Init, TokensOf, SoleOwners, Active
  <2> QED BY <2>1, <2>2 DEF TokenInv
<1>2. SafeInv /\ TokenInv => XsrfOfItsSession
  <2> SUFFICES ASSUME SafeInv, TokenInv, ~bare, ~astray, cookie # 0, Live(cookie) PROVE xsrf = store[cookie].token
    BY DEF XsrfOfItsSession
  <2>1. PICK T \in [Ids -> Ids] : TokensOf(T)
    BY DEF TokenInv
  <2>2. cookie \in Minted
    BY IdNumbers DEF SafeInv, TypeOK
  <2> QED BY <2>1, <2>2 DEF TokensOf, Live
<1> QED BY <1>1, <1>2, SafeCorrect, TokenStep, PTL DEF Spec

-----------------------------------------------------------------------------
(* What every request and every stored session looks like: only notes are  *)
(* flashed; only a login or a logout leaves an id behind; only what was    *)
(* written is named.                                                       *)
Signs(b) == b.op \in {"login", "logout"}

BagPlain(b) ==
    /\ b.old \subseteq {"note"} /\ b.new \subseteq {"note"}
    /\ b.pc \in {"load", "reap", "gate"} => b.op = "none"
    /\ b.named \in {0, b.id} /\ (b.pc # "respond" => b.named = 0)
    /\ b.detached => b.named = 0
    /\ b.superseded # {} => Signs(b)
    /\ Signs(b) => b.dirty
    /\ b.op = "login" => "auth" \in b.keys

PlainInv ==
    /\ \A id \in Minted : store[id] # NoSession => store[id].flash \subseteq {"note"}
    /\ \A r \in Requests : Active(r) => BagPlain(req[r])

(* Every action keeps it.                                                  *)
LEMMA PlainStep == SafeInv /\ PlainInv /\ [Next]_vars => PlainInv'
<1> SUFFICES ASSUME SafeInv, PlainInv, [Next]_vars PROVE PlainInv'
  OBVIOUS
<1>0. TypeOK /\ store \in [Minted -> Stored \cup {NoSession}]
  BY DEF SafeInv, TypeOK
<1>1. ASSUME NEW r \in Requests, Active(r) PROVE req[r] \in Request /\ BagPlain(req[r]) /\ BagSafe(req[r], minted, dead \ reopened)
  BY <1>0, <1>1 DEF TypeOK, Active, PlainInv, SafeInv
<1>2. ASSUME \A id \in Minted : store'[id] # NoSession =>
                 (store[id] # NoSession /\ store'[id].flash = store[id].flash) \/ store'[id].flash \subseteq {"note"},
             \A r \in Requests : Active(r)' => (Active(r) /\ req'[r] = req[r]) \/ BagPlain(req'[r])
      PROVE  PlainInv'
  BY <1>2 DEF PlainInv
<1>3. ASSUME NEW r \in Requests, Moved(r), UNCHANGED store, BagPlain(req'[r]) PROVE PlainInv'
  BY <1>2, <1>3 DEF Moved, Active
<1>4. ASSUME NEW r \in Requests, NEW method \in Methods, NEW token \in Presented(method), Send(r, method, token) PROVE PlainInv'
  <2>1. /\ req'[r] = [pc |-> "load", method |-> method, id |-> cookie, presents |-> token,
                      keys |-> {}, token |-> 0, old |-> {}, new |-> {}, dirty |-> FALSE, detached |-> FALSE,
                      empty |-> TRUE, superseded |-> {}, op |-> "none", named |-> 0, sets |-> 0]
        /\ UNCHANGED store /\ \A q \in Requests : q # r => req'[q] = req[q]
    BY <1>0, <1>4 DEF Send, TypeOK
  <2>2. BagPlain(req'[r])
    BY <2>1 DEF BagPlain, Signs
  <2>3. \A q \in Requests : Active(q)' => (Active(q) /\ req'[q] = req[q]) \/ BagPlain(req'[q])
    BY <2>1, <2>2 DEF Active
  <2>4. UNCHANGED store
    BY <2>1
  <2> QED BY <1>2, <2>3, <2>4
<1>5. ASSUME NEW r \in Requests, LoadNone(r) \/ Reap(r) PROVE PlainInv'
  <2>1. Active(r) /\ Fresh(r) /\ req[r].pc \in {"load", "reap"}
    BY <1>5 DEF LoadNone, Reap, At
  <2>2. \A id \in Minted : store'[id] # NoSession => store[id] # NoSession /\ store'[id].flash = store[id].flash
    <3>1. CASE LoadNone(r)
      BY <3>1 DEF LoadNone
    <3>2. CASE Reap(r)
      BY <1>0, <3>2 DEF Reap
    <3> QED BY <1>5, <3>1, <3>2
  <2>3. /\ Moved(r) /\ req'[r].pc = "gate" /\ req'[r].named = req[r].named
        /\ req'[r].detached = req[r].detached /\ req'[r].superseded = req[r].superseded
    BY <1>0, <2>1, FreshBag DEF Ident
  <2>4. req'[r].old = {} /\ req'[r].new = req[r].new /\ req'[r].op = req[r].op /\ req'[r].dirty = req[r].dirty
    BY <1>0, <2>1, FreshBag DEF Bag
  <2>5. BagPlain(req'[r])
    BY <1>1, <2>1, <2>3, <2>4 DEF BagPlain, Signs
  <2>6. \A q \in Requests : Active(q)' => (Active(q) /\ req'[q] = req[q]) \/ BagPlain(req'[q])
    BY <2>3, <2>5 DEF Moved, Active
  <2> QED BY <1>2, <2>2, <2>6
<1>6. ASSUME NEW r \in Requests, LoadFound(r) PROVE PlainInv'
  <2>1. Active(r) /\ req[r].pc = "load" /\ UNCHANGED store /\ store[req[r].id] # NoSession
    BY <1>6 DEF LoadFound, Live, At
  <2>2. /\ Moved(r) /\ req'[r].pc = "gate" /\ req'[r].named = req[r].named /\ req'[r].id = req[r].id
        /\ req'[r].detached = req[r].detached /\ req'[r].superseded = req[r].superseded
    BY <1>0, <1>6, FoundBag DEF Ident
  <2>3. /\ req'[r].old = store[req[r].id].flash /\ req'[r].new = req[r].new /\ req'[r].op = req[r].op
        /\ req'[r].dirty = req[r].dirty /\ req[r].id \in Minted
    BY <1>0, <1>6, FoundBag DEF Bag
  <2>4. BagPlain(req'[r])
    BY <1>1, <2>1, <2>2, <2>3 DEF BagPlain, Signs, PlainInv
  <2> QED BY <1>3, <2>1, <2>2, <2>4
<1>7. ASSUME NEW r \in Requests, LoadFails(r) PROVE PlainInv'
  <2> DEFINE b == [Restored(r, req[r].id, {}, {}, 0) EXCEPT !.detached = TRUE]
  <2>1. Active(r) /\ req[r].pc \in {"load", "reap"} /\ UNCHANGED store /\ req' = [req EXCEPT ![r] = b]
    BY <1>7 DEF LoadFails, At
  <2>2. /\ b.pc = "gate" /\ b.named = req[r].named /\ b.superseded = req[r].superseded
        /\ b.old = {} /\ b.new = req[r].new /\ b.op = req[r].op /\ b.dirty = req[r].dirty
    BY <1>1, <2>1 DEF Restored, Request
  <2>3. BagPlain(b)
    BY <1>1, <2>1, <2>2 DEF BagPlain, Signs
  <2>4. Moved(r)
    BY <1>0, <1>7, FailsBag
  <2> HIDE DEF b
  <2>5. req'[r] = b
    BY <1>0, <2>1 DEF TypeOK
  <2> QED BY <1>3, <2>1, <2>3, <2>4, <2>5
<1>8. ASSUME NEW r \in Requests, LoadExpired(r) \/ Verify(r) \/ Save(r) \/ SaveFails(r) PROVE PlainInv'
  <2>1. Active(r) /\ UNCHANGED store /\ req[r].pc # "respond"
    BY <1>8 DEF LoadExpired, Verify, Save, SaveFails, At
  <2>2. PICK step \in {"reap", "handle", "save", "store", "respond"} :
            req' = [req EXCEPT ![r].pc = step] /\ (step = "reap" => req[r].pc = "load")
    BY <1>8 DEF LoadExpired, Verify, Save, SaveFails, At
  <2>3. /\ Moved(r) /\ req'[r].pc = step /\ req'[r].named = req[r].named /\ req'[r].id = req[r].id
        /\ req'[r].detached = req[r].detached /\ req'[r].superseded = req[r].superseded
    BY <1>0, <2>1, <2>2, PassedBag DEF Ident
  <2>4. /\ req'[r].keys = req[r].keys /\ req'[r].old = req[r].old /\ req'[r].new = req[r].new
        /\ req'[r].op = req[r].op /\ req'[r].dirty = req[r].dirty
    BY <1>0, <2>1, <2>2, PassedBag DEF Bag
  <2>5. BagPlain(req'[r])
    BY <1>1, <2>1, <2>2, <2>3, <2>4 DEF BagPlain, Signs
  <2> QED BY <1>3, <2>1, <2>3, <2>5
<1>9. ASSUME NEW r \in Requests, Put(r) \/ Flash(r) \/ Keep(r) \/ Pull(r) PROVE PlainInv'
  <2>1. Active(r) /\ UNCHANGED store
    BY <1>9 DEF Put, Flash, Keep, Pull, Handling, At
  <2>2. /\ Moved(r) /\ req[r].pc = "handle" /\ req'[r].pc = "handle" /\ req[r].op = "none"
        /\ req'[r].named = req[r].named /\ req'[r].id = req[r].id
        /\ req'[r].detached = req[r].detached /\ req'[r].superseded = req[r].superseded
    BY <1>0, <1>9, HandledBag DEF Ident
  <2>3. /\ req'[r].old = req[r].old /\ req'[r].new \subseteq req[r].new \cup req[r].old \cup {"note"}
        /\ req'[r].op \in {"put", "flash", "keep", "pull"}
    BY <1>0, <1>9, HandledBag DEF Bag
  <2>4. BagPlain(req'[r])
    BY <1>1, <2>1, <2>2, <2>3 DEF BagPlain, Signs
  <2> QED BY <1>3, <2>1, <2>2, <2>4
<1>10. ASSUME NEW r \in Requests, Login(r) \/ Logout(r) PROVE PlainInv'
  <2>1. Active(r) /\ UNCHANGED store /\ req[r].pc = "handle"
    BY <1>10 DEF Login, Logout, Handling, At
  <2>2. req[r].id # 0
    BY <1>1, <2>1 DEF BagSafe
  <2>3. Moved(r) /\ req'[r].pc = "handle" /\ req'[r].named = req[r].named
    BY <1>0, <1>10, <2>2, SignedBag DEF Ident
  <2>4. /\ req'[r].old \subseteq req[r].old /\ req'[r].new \subseteq req[r].new /\ req'[r].dirty = TRUE
        /\ \/ req'[r].op = "login" /\ "auth" \in req'[r].keys
           \/ req'[r].op = "logout"
    BY <1>0, <1>10, <2>2, SignedBag DEF Bag
  <2>5. BagPlain(req'[r])
    BY <1>1, <2>1, <2>3, <2>4 DEF BagPlain, Signs
  <2> QED BY <1>3, <2>1, <2>3, <2>5
<1>11. ASSUME NEW r \in Requests, Finish(r) \/ FinishUntold(r) PROVE PlainInv'
  <2>1. Active(r) /\ UNCHANGED store
    BY <1>11 DEF Finish, FinishUntold, At
  <2>2. /\ Moved(r) /\ req[r].pc = "handle" /\ req'[r].pc = "save" /\ req'[r].named = req[r].named /\ req'[r].id = req[r].id
        /\ req'[r].detached = req[r].detached /\ req'[r].superseded = req[r].superseded
    BY <1>0, <1>11, FinishedBag DEF Ident
  <2>3. /\ req'[r].keys = req[r].keys /\ req'[r].old = req[r].old /\ req'[r].new = req[r].new
        /\ req'[r].op = req[r].op /\ (req[r].dirty => req'[r].dirty)
    BY <1>0, <1>11, FinishedBag
  <2>4. BagPlain(req'[r])
    BY <1>1, <2>1, <2>2, <2>3 DEF BagPlain, Signs
  <2> QED BY <1>3, <2>1, <2>2, <2>4
<1>12. ASSUME NEW r \in Requests, NEW id, Destroy(r, id) PROVE PlainInv'
  <2>1. Active(r) /\ store' = [store EXCEPT ![id] = NoSession]
    BY <1>12 DEF Destroy, Destroyed, At
  <2>2. /\ Moved(r) /\ req[r].pc = "store" /\ req'[r].pc = "store" /\ req'[r].named = req[r].named /\ req'[r].id = req[r].id
        /\ req'[r].detached = req[r].detached /\ req'[r].superseded \subseteq req[r].superseded
    BY <1>0, <1>12, DestroyedBag DEF Ident
  <2>3. /\ req'[r].keys = req[r].keys /\ req'[r].old = req[r].old /\ req'[r].new = req[r].new
        /\ req'[r].op = req[r].op /\ req'[r].dirty = req[r].dirty
    BY <1>0, <1>12, DestroyedBag DEF Bag
  <2>4. BagPlain(req'[r])
    BY <1>1, <2>1, <2>2, <2>3 DEF BagPlain, Signs
  <2>5. \A q \in Requests : Active(q)' => (Active(q) /\ req'[q] = req[q]) \/ BagPlain(req'[q])
    BY <2>2, <2>4 DEF Moved, Active
  <2>6. \A i \in Minted : store'[i] # NoSession => store[i] # NoSession /\ store'[i].flash = store[i].flash
    BY <1>0, <2>1
  <2> QED BY <1>2, <2>5, <2>6
<1>13. ASSUME NEW r \in Requests, Write(r) PROVE PlainInv'
  <2>1. Active(r) /\ store' = [store EXCEPT ![req[r].id] = AgeAndTake(req[r])]
    BY <1>13 DEF Write, At
  <2>2. /\ Moved(r) /\ req[r].pc = "store" /\ req'[r].pc = "respond" /\ req'[r].named = req[r].id /\ req'[r].id = req[r].id
        /\ req'[r].detached = req[r].detached /\ req'[r].superseded = req[r].superseded
    BY <1>0, <1>13, WrittenBag DEF Ident
  <2>3. /\ req'[r].keys = req[r].keys /\ req'[r].old = req[r].old /\ req'[r].new = req[r].new
        /\ req'[r].op = req[r].op /\ req'[r].dirty = req[r].dirty /\ AgeAndTake(req[r]).flash = req[r].new
    BY <1>0, <1>13, WrittenBag DEF Bag
  <2>4. BagPlain(req'[r]) /\ req[r].new \subseteq {"note"}
    BY <1>1, <2>1, <2>2, <2>3 DEF BagPlain, Signs, BagSafe
  <2>5. \A q \in Requests : Active(q)' => (Active(q) /\ req'[q] = req[q]) \/ BagPlain(req'[q])
    BY <2>2, <2>4 DEF Moved, Active
  <2>6. \A i \in Minted : store'[i] # NoSession =>
            (store[i] # NoSession /\ store'[i].flash = store[i].flash) \/ store'[i].flash \subseteq {"note"}
    BY <1>0, <2>1, <2>3, <2>4
  <2> QED BY <1>2, <2>5, <2>6
<1>14. ASSUME NEW r \in Requests, Respond(r) \/ LoseResponse(r) PROVE PlainInv'
  <2>1. req' = [req EXCEPT ![r] = Idle] /\ UNCHANGED store
    BY <1>14 DEF Respond, LoseResponse
  <2>2. \A q \in Requests : Active(q)' => Active(q) /\ req'[q] = req[q]
    BY <1>0, <2>1 DEF TypeOK, Active
  <2> QED BY <1>2, <2>1, <2>2
<1>15. ASSUME UNCHANGED req,
              \A id \in Minted : store'[id] # NoSession => store[id] # NoSession /\ store'[id].flash = store[id].flash
       PROVE  PlainInv'
  BY <1>2, <1>15 DEF Active
<1>16. ASSUME NEW id \in Minted, Revoke(id) PROVE PlainInv'
  <2>1. UNCHANGED req /\ store' = [store EXCEPT ![id] = NoSession]
    BY <1>16 DEF Revoke, Destroyed
  <2> QED BY <1>0, <1>15, <2>1
<1>17. ASSUME Tick PROVE PlainInv'
  <2>1. UNCHANGED req
    BY <1>17 DEF Tick
  <2>2. ASSUME NEW id \in Minted, store'[id] # NoSession PROVE store[id] # NoSession /\ store'[id].flash = store[id].flash
    <3>1. store'[id] = IF Live(id) THEN [store[id] EXCEPT !.left = @ - 1] ELSE store[id]
      BY <1>17 DEF Tick
    <3>2. Live(id) => store[id] \in Stored
      BY <1>0 DEF Live
    <3> QED BY <2>2, <3>1, <3>2 DEF Live, Stored
  <2> QED BY <1>15, <2>1, <2>2
<1>18. ASSUME Gc PROVE PlainInv'
  BY <1>15, <1>18 DEF Gc
<1>19. CASE UNCHANGED vars
  BY <1>15, <1>19 DEF vars
<1> QED
  BY <1>4, <1>5, <1>6, <1>7, <1>8, <1>9, <1>10, <1>11, <1>12, <1>13, <1>14, <1>16, <1>17, <1>18, <1>19
  DEF Next, RequestStep

-----------------------------------------------------------------------------
(* Signed in.  A login or logout replaces the browser's session when it    *)
(* saves, until its response arrives.                                      *)
Replacing(b) == Signs(b) /\ ~b.detached /\ b.pc \in {"store", "respond"}
Authed(id) == id # 0 /\ store[id] # NoSession /\ "auth" \in store[id].keys

(* While nothing disturbs: no session expires, and who signs in or out     *)
(* does so alone.                                                          *)
CalmInv ==
    /\ \A id \in Minted : store[id] # NoSession => store[id].left > 0
    /\ \A r \in Requests : Active(r) => req[r].pc # "reap" /\ (Signs(req[r]) => Alone(r))

(* The bag of a signed-in browser's request is that browser's.             *)
BagSigned(b, id) == b.id = id /\ (b.pc # "load" /\ ~b.detached => "auth" \in b.keys)

Replaced(r) ==
    Replacing(req[r]) /\ req[r].pc = "respond" => req[r].named # 0 /\ (req[r].op = "login" => Authed(req[r].named))

SignedInv ==
    ~disturbed =>
       /\ CalmInv
       /\ \A r \in Requests : Active(r) => Replaced(r)
       /\ signed => \A r \in Requests : Active(r) /\ ~Signs(req[r]) => BagSigned(req[r], cookie)
       /\ signed /\ (\A r \in Requests : Active(r) => ~Replacing(req[r])) => Authed(cookie)

(* Every action keeps it.                                                  *)
LEMMA SignedStep == SafeInv /\ PlainInv /\ SignedInv /\ [Next]_vars => SignedInv'
<1> SUFFICES ASSUME SafeInv, PlainInv, SignedInv, [Next]_vars, ~disturbed'
             PROVE  /\ CalmInv'
                    /\ (\A r \in Requests : Active(r) => Replaced(r))'
                    /\ (signed => \A r \in Requests : Active(r) /\ ~Signs(req[r]) => BagSigned(req[r], cookie))'
                    /\ (signed /\ (\A r \in Requests : Active(r) => ~Replacing(req[r])) => Authed(cookie))'
  BY DEF SignedInv
<1> DEFINE Goal == /\ CalmInv'
                   /\ (\A r \in Requests : Active(r) => Replaced(r))'
                   /\ (signed => \A r \in Requests : Active(r) /\ ~Signs(req[r]) => BagSigned(req[r], cookie))'
                   /\ (signed /\ (\A r \in Requests : Active(r) => ~Replacing(req[r])) => Authed(cookie))'
<1>0. TypeOK /\ store \in [Minted -> Stored \cup {NoSession}] /\ cookie \in Ids
  BY DEF SafeInv, TypeOK
<1>1. ~disturbed
  BY OnRecord
<1>2. /\ CalmInv
      /\ \A r \in Requests : Active(r) => Replaced(r)
      /\ signed => \A r \in Requests : Active(r) /\ ~Signs(req[r]) => BagSigned(req[r], cookie)
      /\ signed /\ (\A r \in Requests : Active(r) => ~Replacing(req[r])) => Authed(cookie)
  BY <1>1 DEF SignedInv
<1>3. ASSUME NEW r \in Requests, Active(r)
      PROVE  /\ req[r] \in Request /\ BagPlain(req[r]) /\ BagSafe(req[r], minted, dead \ reopened)
             /\ req[r].pc # "reap" /\ (Signs(req[r]) => Alone(r))
             /\ \A q \in Requests : Active(q) /\ Signs(req[q]) => q = r
  BY <1>0, <1>2, <1>3 DEF TypeOK, Active, PlainInv, SafeInv, CalmInv, Alone
(* Before it saves, a request moves only itself.                           *)
<1>4. ASSUME NEW r \in Requests, Moved(r), UNCHANGED <<store, cookie, signed>>,
             Active(r) \/ \A q \in Requests : Active(q) => ~Signs(req[q]),
             Active(r) => req[r].pc \notin {"store", "respond"},
             req'[r].pc # "reap", Replacing(req'[r]) => req'[r].pc = "store",
             Signs(req'[r]) => Alone(r),
             signed /\ ~Signs(req'[r]) => BagSigned(req'[r], cookie)
      PROVE  Goal
  <2>0. \A q \in Requests : q # r => req'[q] = req[q]
    BY <1>4 DEF Moved
  <2>1. \A q \in Requests : q # r /\ Active(q) => ~Signs(req[q])
    BY <1>3, <1>4
  <2>2. ASSUME NEW q \in Requests, Active(q)' PROVE req'[q].pc # "reap" /\ (Signs(req'[q]) => Alone(q)')
    <3>1. CASE q = r
      BY <1>4, <2>0, <3>1 DEF Alone, Active
    <3>2. CASE q # r
      BY <1>3, <2>0, <2>1, <2>2, <3>2 DEF Active
    <3> QED BY <3>1, <3>2
  <2>3. CalmInv'
    BY <1>2, <1>4, <2>2 DEF CalmInv
  <2>4. (\A q \in Requests : Active(q) => Replaced(q))'
    BY <1>4, <2>0, <2>1 DEF Replaced, Replacing, Active
  <2>5. (signed => \A q \in Requests : Active(q) /\ ~Signs(req[q]) => BagSigned(req[q], cookie))'
    BY <1>2, <1>4, <2>0 DEF Active
  <2>6. (signed /\ (\A q \in Requests : Active(q) => ~Replacing(req[q])) => Authed(cookie))'
    BY <1>2, <1>4, <2>0, <2>1 DEF Authed, Active, Replacing
  <2> QED BY <2>3, <2>4, <2>5, <2>6
(* A signed-in browser's session is there for a request to load.           *)
<1>5. ASSUME NEW r \in Requests, Active(r), req[r].pc = "load", signed
      PROVE  Authed(cookie) /\ req[r].id = cookie /\ ~Signs(req[r])
  <2>1. ~Signs(req[r])
    BY <1>3, <1>5 DEF BagPlain, Signs
  <2>2. \A q \in Requests : Active(q) => ~Replacing(req[q])
    BY <1>3, <1>5, <2>1 DEF Replacing
  <2> QED BY <1>2, <1>5, <2>1, <2>2 DEF BagSigned
<1>6. ASSUME NEW r \in Requests, NEW method \in Methods, NEW token \in Presented(method), Send(r, method, token) PROVE Goal
  <2> DEFINE b == [pc |-> "load", method |-> method, id |-> cookie, presents |-> token,
                   keys |-> {}, token |-> 0, old |-> {}, new |-> {}, dirty |-> FALSE, detached |-> FALSE,
                   empty |-> TRUE, superseded |-> {}, op |-> "none", named |-> 0, sets |-> 0]
  <2>0. cookie \in Ids /\ token \in Ids /\ 0 \in Ids
    BY <1>0, IdNumbers, PresentedIds DEF TypeOK
  <2>1. b \in Request
    BY <2>0 DEF Request
  <2>2. /\ req' = [req EXCEPT ![r] = b] /\ UNCHANGED <<store, cookie, signed>>
        /\ ~Active(r) /\ \A q \in Requests : Active(q) => ~Signs(req[q])
    BY <1>6 DEF Send, browser, Signs
  <2>3. ~Signs(b) /\ b.pc = "load" /\ BagSigned(b, cookie)
    BY DEF Signs, BagSigned
  <2> HIDE DEF b
  <2>4. Moved(r) /\ req'[r] = b
    BY <1>0, <2>1, <2>2, MovedTo
  <2>5. ~Replacing(req'[r])
    BY <2>3, <2>4 DEF Replacing
  <2> HIDE DEF Goal
  <2> QED BY <1>4, <2>2, <2>3, <2>4, <2>5
<1>7. ASSUME NEW r \in Requests, LoadNone(r) PROVE Goal
  <2>1. /\ Active(r) /\ Fresh(r) /\ req[r].pc = "load" /\ UNCHANGED <<store, cookie, signed>>
        /\ (req[r].id # 0 => store[req[r].id] = NoSession)
    BY <1>7 DEF LoadNone, At, browser, history
  <2>2. ~signed
    BY <1>5, <2>1 DEF Authed
  <2>3. Moved(r) /\ req'[r].pc = "gate" /\ req'[r].op = req[r].op
    BY <1>0, <2>1, FreshBag DEF Bag
  <2>4. ~Signs(req'[r]) /\ ~Replacing(req'[r])
    BY <1>3, <2>1, <2>3 DEF BagPlain, Signs, Replacing
  <2> HIDE DEF Goal
  <2> QED BY <1>4, <2>1, <2>2, <2>3, <2>4
<1>8. ASSUME NEW r \in Requests, LoadFound(r) PROVE Goal
  <2>1. Active(r) /\ req[r].pc = "load" /\ UNCHANGED <<store, cookie, signed>>
    BY <1>8 DEF LoadFound, At, browser, history
  <2>2. Moved(r) /\ req'[r].pc = "gate" /\ req'[r].id = req[r].id
    BY <1>0, <1>8, FoundBag DEF Ident
  <2>3. req'[r].op = req[r].op /\ req'[r].keys = store[req[r].id].keys
    BY <1>0, <1>8, FoundBag DEF Bag
  <2>4. ~Signs(req'[r]) /\ ~Replacing(req'[r])
    BY <1>3, <2>1, <2>3 DEF BagPlain, Signs, Replacing
  <2>5. signed => BagSigned(req'[r], cookie)
    BY <1>5, <2>1, <2>2, <2>3 DEF BagSigned, Authed
  <2> HIDE DEF Goal
  <2> QED BY <1>4, <2>1, <2>2, <2>4, <2>5
<1>9. ASSUME NEW r \in Requests, LoadFails(r) PROVE Goal
  <2>1. Active(r) /\ req[r].pc = "load" /\ UNCHANGED <<store, cookie, signed>>
    BY <1>3, <1>9 DEF LoadFails, At, browser, history
  <2>2. Moved(r) /\ req'[r].pc = "gate" /\ req'[r].id = req[r].id /\ req'[r].detached /\ req'[r].op = req[r].op
    BY <1>0, <1>9, FailsBag DEF Ident
  <2>4. ~Signs(req'[r]) /\ ~Replacing(req'[r])
    BY <1>3, <2>1, <2>2 DEF BagPlain, Signs, Replacing
  <2>5. signed => BagSigned(req'[r], cookie)
    BY <1>5, <2>1, <2>2 DEF BagSigned, Authed
  <2> HIDE DEF Goal
  <2> QED BY <1>4, <2>1, <2>2, <2>4, <2>5
<1>10. ASSUME NEW r \in Requests, Active(r), Moved(r), UNCHANGED <<store, cookie, signed>>,
              req[r].pc \notin {"load", "reap", "store", "respond"}, req'[r].pc \notin {"load", "reap"},
              req'[r].id = req[r].id, req'[r].detached = req[r].detached, Signs(req'[r]) = Signs(req[r]),
              "auth" \in req[r].keys => "auth" \in req'[r].keys,
              Replacing(req'[r]) => req'[r].pc = "store"
       PROVE  Goal
  <2>1. Signs(req'[r]) => Alone(r)
    BY <1>3, <1>10
  <2>2. signed /\ ~Signs(req'[r]) => BagSigned(req'[r], cookie)
    BY <1>2, <1>10 DEF BagSigned
  <2> HIDE DEF Goal
  <2> QED BY <1>4, <1>10, <2>1, <2>2
<1>11. ASSUME NEW r \in Requests, Verify(r) \/ Save(r) PROVE Goal
  <2>1. Active(r) /\ req[r].pc \in {"gate", "save"} /\ UNCHANGED <<store, cookie, signed>>
    BY <1>11 DEF Verify, Save, At, browser, history
  <2>2. PICK step \in {"reap", "handle", "save", "store", "respond"} :
            /\ req' = [req EXCEPT ![r].pc = step] /\ step # "reap"
            /\ step = "respond" => req[r].detached \/ ~req[r].dirty
    BY <1>11 DEF Verify, Save, Unsaved
  <2>3. /\ Moved(r) /\ req'[r].pc = step /\ req'[r].id = req[r].id /\ req'[r].detached = req[r].detached
    BY <1>0, <2>1, <2>2, PassedBag DEF Ident
  <2>4. req'[r].op = req[r].op /\ req'[r].keys = req[r].keys
    BY <1>0, <2>1, <2>2, PassedBag DEF Bag
  <2>5. Signs(req'[r]) = Signs(req[r])
    BY <2>4 DEF Signs
  <2>6. Replacing(req'[r]) => req'[r].pc = "store"
    BY <1>3, <2>1, <2>2, <2>3, <2>4, <2>5 DEF Replacing, BagPlain
  <2> HIDE DEF Goal
  <2> QED BY <1>10, <2>1, <2>2, <2>3, <2>4, <2>5, <2>6
<1>12. ASSUME NEW r \in Requests, Put(r) \/ Flash(r) \/ Keep(r) \/ Pull(r) PROVE Goal
  <2>1. Active(r) /\ UNCHANGED <<store, cookie, signed>>
    BY <1>12 DEF Put, Flash, Keep, Pull, Handling, At, browser, history
  <2>2. /\ Moved(r) /\ req[r].pc = "handle" /\ req'[r].pc = "handle" /\ req[r].op = "none"
        /\ req'[r].id = req[r].id /\ req'[r].detached = req[r].detached
    BY <1>0, <1>12, HandledBag DEF Ident
  <2>3. ("auth" \in req[r].keys => "auth" \in req'[r].keys) /\ req'[r].op \in {"put", "flash", "keep", "pull"}
    BY <1>0, <1>12, HandledBag DEF Bag
  <2>4. Signs(req'[r]) = Signs(req[r]) /\ ~Replacing(req'[r])
    BY <2>2, <2>3 DEF Signs, Replacing
  <2> HIDE DEF Goal
  <2> QED BY <1>10, <2>1, <2>2, <2>3, <2>4
<1>13. ASSUME NEW r \in Requests, Login(r) \/ Logout(r) PROVE Goal
  <2>1. Active(r) /\ UNCHANGED <<store, cookie, signed>> /\ req[r].pc = "handle" /\ Alone(r)
    BY <1>13 DEF Login, Logout, Handling, At, browser
  <2>2. req[r].id # 0
    BY <1>3, <2>1 DEF BagSafe
  <2>3. Moved(r) /\ req'[r].pc = "handle" /\ ~Replacing(req'[r])
    BY <1>0, <1>13, <2>2, SignedBag DEF Replacing
  <2>4. Signs(req'[r])
    BY <1>0, <1>13, <2>2, SignedBag DEF Bag, Signs
  <2> HIDE DEF Goal
  <2> QED BY <1>4, <2>1, <2>3, <2>4
<1>14. ASSUME NEW r \in Requests, Finish(r) \/ FinishUntold(r) PROVE Goal
  <2>1. Active(r) /\ UNCHANGED <<store, cookie, signed>>
    BY <1>14 DEF Finish, FinishUntold, At, browser, history
  <2>2. /\ Moved(r) /\ req[r].pc = "handle" /\ req'[r].pc = "save" /\ req'[r].id = req[r].id
        /\ req'[r].detached = req[r].detached
    BY <1>0, <1>14, FinishedBag DEF Ident
  <2>3. req'[r].keys = req[r].keys /\ req'[r].op = req[r].op
    BY <1>0, <1>14, FinishedBag
  <2>4. Signs(req'[r]) = Signs(req[r]) /\ ~Replacing(req'[r])
    BY <2>2, <2>3 DEF Signs, Replacing
  <2> HIDE DEF Goal
  <2> QED BY <1>10, <2>1, <2>2, <2>3, <2>4
(* Only a login or a logout destroys what the browser names.               *)
<1>15. ASSUME NEW r \in Requests, NEW id, Destroy(r, id) PROVE Goal
  <2>1. Active(r) /\ store' = [store EXCEPT ![id] = NoSession]
    BY <1>15 DEF Destroy, Destroyed, At
  <2>2. /\ Moved(r) /\ req[r].pc = "store" /\ req'[r].pc = "store" /\ id \in req[r].superseded
        /\ req'[r].detached = req[r].detached
    BY <1>0, <1>15, DestroyedBag DEF Ident
  <2>3. req'[r].op = req[r].op
    BY <1>0, <1>15, DestroyedBag DEF Bag
  <2>4. Signs(req[r]) /\ Alone(r) /\ Signs(req'[r]) /\ Replacing(req'[r]) /\ Active(r)'
    <3>1. Signs(req[r]) /\ ~req[r].detached
      BY <1>3, <2>1, <2>2 DEF BagPlain, BagSafe
    <3> QED BY <1>3, <2>1, <2>2, <2>3, <3>1, Constants DEF Signs, Replacing, Moved, Active
  <2>5. \A q \in Requests : Active(q)' => q = r
    BY <2>2, <2>4 DEF Moved, Active, Alone
  <2>6. CalmInv'
    BY <1>0, <1>2, <2>1, <2>2, <2>5 DEF CalmInv, Alone
  <2> QED BY <2>2, <2>4, <2>5, <2>6 DEF Replaced
<1>16. ASSUME NEW r \in Requests, Write(r) PROVE Goal
  <2>1. /\ Active(r) /\ store' = [store EXCEPT ![req[r].id] = AgeAndTake(req[r])] /\ UNCHANGED <<cookie, signed>>
    BY <1>16 DEF Write, At, browser, history
  <2>2. /\ Moved(r) /\ req[r].pc = "store" /\ req'[r].pc = "respond" /\ req'[r].named = req[r].id /\ req'[r].id = req[r].id
        /\ req'[r].detached = req[r].detached /\ AgeAndTake(req[r]) # NoSession
        /\ AgeAndTake(req[r]).keys = req[r].keys \ (req[r].old \ req[r].new) /\ AgeAndTake(req[r]).left = Lifetime
    BY <1>0, <1>16, WrittenBag DEF Ident
  <2>3. req'[r].keys = req[r].keys /\ req'[r].op = req[r].op
    BY <1>0, <1>16, WrittenBag DEF Bag
  <2>4. /\ req[r].id # 0 /\ req[r].id \in Minted /\ ~req[r].detached /\ Active(r)'
        /\ ("auth" \in req[r].keys => "auth" \in AgeAndTake(req[r]).keys)
    <3>1. req[r].id # 0 /\ ~req[r].detached /\ req[r].id \in Ids /\ req[r].old \subseteq {"note"}
      BY <1>3, <2>1, <2>2 DEF BagSafe, Request, BagPlain
    <3>2. Active(r)'
      BY <2>2, Constants DEF Moved, Active
    <3> QED BY <2>2, <3>1, <3>2, IdNumbers
  <2>5. /\ store'[req[r].id] = AgeAndTake(req[r])
        /\ \A id \in Minted : id # req[r].id => store'[id] = store[id]
    BY <1>0, <2>1, <2>4
  <2>6. \A id \in Minted : store'[id] # NoSession => store'[id].left > 0
    BY <1>2, <2>2, <2>5, Constants DEF CalmInv
  <2>7. (\A q \in Requests : Active(q) => req[q].pc # "reap" /\ (Signs(req[q]) => Alone(q)))'
    <3>1. SUFFICES ASSUME NEW q \in Requests, Active(q)' PROVE req'[q].pc # "reap" /\ (Signs(req'[q]) => Alone(q)')
      OBVIOUS
    <3>2. Active(q)
      BY <2>1, <2>2, <3>1 DEF Moved, Active
    <3>3. \A p \in Requests : Active(p)' => Active(p)
      BY <2>1, <2>2 DEF Moved, Active
    <3>4. Signs(req'[q]) = Signs(req[q]) /\ (q # r => req'[q] = req[q])
      BY <2>2, <2>3 DEF Moved, Signs
    <3> QED BY <1>3, <2>2, <3>2, <3>3, <3>4 DEF Alone
  <2>8. CalmInv'
    BY <2>6, <2>7 DEF CalmInv
  <2>9. CASE Signs(req[r])
    <3>1. \A q \in Requests : Active(q)' => q = r
      BY <1>3, <2>1, <2>2, <2>9 DEF Moved, Active
    <3>2. Replacing(req'[r]) /\ Signs(req'[r])
      BY <2>2, <2>3, <2>4, <2>9 DEF Replacing, Signs
    <3>3. req'[r].op = "login" => "auth" \in store'[req'[r].named].keys
      <4>1. req[r].op = "login" => "auth" \in req[r].keys
        BY <1>3, <2>1 DEF BagPlain
      <4>2. req'[r].named = req[r].id /\ req'[r].op = req[r].op
        BY <2>2, <2>3
      <4> QED BY <2>4, <2>5, <4>1, <4>2
    <3>4. Replaced(r)'
      BY <2>2, <2>4, <2>5, <3>3 DEF Replaced, Authed
    <3> QED BY <2>4, <2>8, <3>1, <3>2, <3>4
  <2>10. CASE ~Signs(req[r])
    <3>1. \A q \in Requests : Active(q)' => Active(q) /\ ~Signs(req'[q])
      <4>1. SUFFICES ASSUME NEW q \in Requests, Active(q)' PROVE Active(q) /\ ~Signs(req'[q])
        OBVIOUS
      <4>2. Active(q) /\ (q # r => req'[q] = req[q])
        BY <2>1, <2>2, <4>1 DEF Moved, Active
      <4>3. ~Signs(req[q])
        BY <1>3, <2>1, <2>10, <4>2
      <4> QED BY <2>3, <2>10, <4>2, <4>3 DEF Signs
    <3>2. (\A q \in Requests : Active(q) => Replaced(q))'
      BY <3>1 DEF Replaced, Replacing
    <3>3. ASSUME signed PROVE BagSigned(req[r], cookie)
      BY <1>2, <2>1, <2>10, <3>3
    <3>4. (signed => \A q \in Requests : Active(q) /\ ~Signs(req[q]) => BagSigned(req[q], cookie))'
      <4>1. SUFFICES ASSUME signed, NEW q \in Requests, Active(q)' PROVE BagSigned(req'[q], cookie)
        BY <2>1
      <4>2. CASE q = r
        BY <2>2, <2>3, <2>4, <3>3, <4>1, <4>2 DEF BagSigned
      <4>3. CASE q # r
        <5>1. Active(q) /\ ~Signs(req[q]) /\ req'[q] = req[q]
          BY <2>2, <3>1, <4>1, <4>3 DEF Moved
        <5> QED BY <1>2, <4>1, <5>1
      <4> QED BY <4>2, <4>3
    <3>5. (signed => Authed(cookie))'
      BY <2>1, <2>2, <2>4, <2>5, <3>3 DEF BagSigned, Authed
    <3> QED BY <2>8, <3>2, <3>4, <3>5
  <2> QED BY <2>9, <2>10
(* The response.                                                           *)
<1>17. ASSUME NEW r \in Requests, Respond(r) PROVE Goal
  <2>1. /\ Active(r) /\ req[r].pc = "respond" /\ req' = [req EXCEPT ![r] = Idle] /\ UNCHANGED store
        /\ cookie' = IF req[r].named # 0 THEN req[r].named ELSE cookie
    BY <1>17 DEF Respond, At, Kept
  <2>2. \A q \in Requests : Active(q)' => Active(q) /\ req'[q] = req[q] /\ q # r
    BY <1>0, <2>1 DEF TypeOK, Active
  <2>3. CalmInv'
    BY <1>2, <2>1, <2>2 DEF CalmInv, Alone
  <2>4. CASE Signs(req[r])
    <3>1. \A q \in Requests : ~Active(q)'
      BY <1>3, <2>1, <2>2, <2>4
    <3>2. ASSUME signed' PROVE Authed(cookie)'
      <4>1. CASE req[r].detached
        <5>1. req[r].named = 0
          BY <1>3, <2>1, <4>1 DEF BagPlain
        <5>2. signed' = signed
          BY <1>17, <5>1, Zenon DEF Respond
        <5>3. \A q \in Requests : Active(q) => ~Replacing(req[q])
          BY <1>3, <2>1, <2>4, <4>1 DEF Replacing
        <5> QED BY <1>2, <2>1, <3>2, <5>1, <5>2, <5>3 DEF Authed
      <4>2. CASE ~req[r].detached
        <5>1. req[r].named # 0 /\ (req[r].op = "login" => Authed(req[r].named))
          BY <1>2, <2>1, <2>4, <4>2 DEF Replaced, Replacing
        <5>2. req[r].op = "login"
          <6>1. req[r].op = "logout" => signed' = FALSE
            BY <1>17, <5>1, Zenon DEF Respond
          <6> QED BY <2>4, <3>2, <6>1 DEF Signs
        <5> QED BY <2>1, <5>1, <5>2 DEF Authed
      <4> QED BY <4>1, <4>2
    <3> QED BY <2>3, <3>1, <3>2
  <2>5. CASE ~Signs(req[r])
    <3>1. signed' = signed
      <4>1. req[r].op # "login" /\ req[r].op # "logout"
        BY <2>5 DEF Signs
      <4> QED BY <1>17, <4>1, Zenon DEF Respond
    <3>2. signed => cookie' = cookie
      BY <1>2, <1>3, <2>1, <2>5 DEF BagSigned, BagPlain
    <3>3. (\A q \in Requests : Active(q) => Replaced(q))'
      <4>1. \A q \in Requests : Active(q)' => ~Signs(req'[q])
        BY <1>3, <2>1, <2>2
      <4> QED BY <4>1 DEF Replaced, Replacing
    <3>4. (signed => \A q \in Requests : Active(q) /\ ~Signs(req[q]) => BagSigned(req[q], cookie))'
      BY <1>2, <2>2, <3>1, <3>2
    <3>5. (signed => Authed(cookie))'
      <4>1. \A q \in Requests : Active(q) => ~Replacing(req[q])
        BY <1>3, <2>1, <2>5 DEF Replacing
      <4> QED BY <1>2, <2>1, <3>1, <3>2, <4>1 DEF Authed
    <3> QED BY <2>3, <3>3, <3>4, <3>5
  <2> QED BY <2>4, <2>5
(* Nothing expires, and nothing disturbs.                                  *)
<1>18. ASSUME NEW r \in Requests, LoadExpired(r) \/ Reap(r) PROVE FALSE
  <2>1. Active(r) /\ req[r].pc = "load" /\ LoadExpired(r)
    BY <1>3, <1>18 DEF LoadExpired, Reap, At
  <2>2. req[r].id \in Minted /\ store[req[r].id] # NoSession /\ ~Live(req[r].id)
    BY <1>3, <2>1, IdNumbers DEF LoadExpired, Request
  <2> QED BY <1>2, <2>2 DEF CalmInv, Live
<1>19. ~Gc
  BY <1>2 DEF Gc, Live, CalmInv
<1>20. ASSUME NEW r \in Requests, SaveFails(r) \/ LoseResponse(r) PROVE FALSE
  BY <1>20 DEF SaveFails, LoseResponse
<1>21. ~Tick /\ \A id \in Minted : ~Revoke(id)
  BY DEF Tick, Revoke
<1>22. ASSUME UNCHANGED vars PROVE Goal
  BY <1>2, <1>22 DEF vars, browser, history, CalmInv, Replaced, Authed, Active, Alone
<1> HIDE DEF Goal
<1>23. Goal
  BY <1>6, <1>7, <1>8, <1>9, <1>11, <1>12, <1>13, <1>14, <1>15, <1>16, <1>17, <1>18, <1>19, <1>20, <1>21, <1>22
  DEF Next, RequestStep
<1> QED BY <1>23 DEF Goal

(* A user who signed in, and did not sign out, finds the identity in the   *)
(* session the browser names whenever no request is under way: however     *)
(* many reads failed and whatever requests overlapped, short of a sign-in  *)
(* or sign-out among them, a lost response, a failed write, a revocation   *)
(* or the session's end.                                                   *)
THEOREM SignedCorrect == Spec => []StaysSignedIn
<1>1. Init => PlainInv /\ SignedInv
  BY DEF Init, PlainInv, SignedInv, CalmInv, Active
<1>2. SafeInv /\ SignedInv => StaysSignedIn
  <2> SUFFICES ASSUME SafeInv, SignedInv, signed, ~disturbed, Quiet PROVE Holds("auth")
    BY DEF StaysSignedIn
  <2>1. Authed(cookie) /\ CalmInv
    BY DEF SignedInv, Quiet
  <2>2. cookie \in Minted
    BY <2>1, IdNumbers DEF SafeInv, TypeOK, Authed
  <2> QED BY <2>1, <2>2 DEF Holds, Live, Authed, CalmInv
<1> QED BY <1>1, <1>2, SafeCorrect, PlainStep, SignedStep, PTL DEF Spec

-----------------------------------------------------------------------------
(* The note.  What a handler's call makes of a note, NoteAfter, of any     *)
(* note.                                                                   *)
After(op, n) ==
    IF op = "flash" THEN "flashed"
    ELSE IF op = "keep" THEN n
    ELSE IF op \in {"pull", "logout"} THEN "none"
    ELSE IF n = "flashed" THEN "none"
    ELSE IF op = "put" THEN "stored" ELSE n

LEMMA NoteAfterIs ==
    ASSUME NEW op \in {"none", "put", "flash", "keep", "pull", "login", "logout"}
    PROVE  NoteAfter(op) = After(op, note)
<1>1. CASE op = "none"
  BY <1>1, Zenon DEF NoteAfter, After
<1>2. CASE op = "put"
  BY <1>2, Zenon DEF NoteAfter, After
<1>3. CASE op = "flash"
  BY <1>3, Zenon DEF NoteAfter, After
<1>4. CASE op = "keep"
  BY <1>4, Zenon DEF NoteAfter, After
<1>5. CASE op = "pull"
  BY <1>5, Zenon DEF NoteAfter, After
<1>6. CASE op = "login"
  BY <1>6, Zenon DEF NoteAfter, After
<1>7. CASE op = "logout"
  BY <1>7, Zenon DEF NoteAfter, After
<1> QED BY <1>1, <1>2, <1>3, <1>4, <1>5, <1>6, <1>7

(* A bag and the note it should hold.                                      *)
Matches(keys, flash, n) == ("note" \in keys <=> n # "none") /\ ("note" \in flash <=> n = "flashed")
Noted(id, n) == store[id] # NoSession /\ Matches(store[id].keys, store[id].flash, n)

(* The one request under way: as it was loaded, the note so far; as it     *)
(* will be aged, the note its call makes; unwritten, no change to the note.*)
BagNoted(b, id, n) ==
    /\ b.pc = "load" => b.id = id /\ b.new = {}
    /\ b.pc # "load" /\ ~b.detached =>
         /\ b.pc \in {"gate", "handle"} /\ b.op = "none" => Matches(b.keys, b.old, n) /\ b.new = {}
         /\ b.pc # "respond" => Matches(b.keys \ (b.old \ b.new), b.new, After(b.op, n))
         /\ b.empty => n = "none"
         /\ b.dirty \/ b.op \in {"none", "keep", "pull"}
         /\ b.pc = "respond" /\ b.named = 0 => After(b.op, n) = n

Takes(b) == b.pc = "store" \/ (b.pc = "respond" /\ b.named # 0)

NotesHold ==
    /\ \A r, q \in Requests : Active(r) /\ Active(q) => r = q
    /\ cookie = 0 => note = "none"
    /\ cookie # 0 /\ (\A r \in Requests : Active(r) => ~Takes(req[r])) => Noted(cookie, note)
    /\ \A r \in Requests : Active(r) => BagNoted(req[r], cookie, note)
    /\ \A r \in Requests : Active(r) /\ req[r].pc = "respond" /\ req[r].named # 0 =>
           Noted(req[r].named, After(req[r].op, note))

NoteInv == ~overlapped /\ ~disturbed => NotesHold

(* Every action keeps it.                                                  *)
LEMMA NoteStep == SafeInv /\ PlainInv /\ SignedInv /\ NoteInv /\ [Next]_vars => NoteInv'
<1> SUFFICES ASSUME SafeInv, PlainInv, SignedInv, NoteInv, [Next]_vars, ~overlapped', ~disturbed' PROVE NotesHold'
  BY DEF NoteInv
<1>0. TypeOK /\ store \in [Minted -> Stored \cup {NoSession}] /\ cookie \in Ids /\ note \in {"none", "flashed", "stored"}
  BY DEF SafeInv, TypeOK
<1>1. ~disturbed /\ ~overlapped
  BY OnRecord
<1>2. NotesHold /\ CalmInv
  BY <1>1 DEF NoteInv, SignedInv
<1>3. ASSUME NEW r \in Requests, Active(r)
      PROVE  /\ req[r] \in Request /\ BagPlain(req[r]) /\ BagSafe(req[r], minted, dead \ reopened)
             /\ req[r].pc # "reap" /\ BagNoted(req[r], cookie, note)
             /\ \A q \in Requests : Active(q) => q = r
  BY <1>0, <1>2, <1>3 DEF TypeOK, Active, PlainInv, SafeInv, CalmInv, NotesHold
(* The request moves, and has not written yet.                             *)
<1>4. ASSUME NEW r \in Requests, Moved(r), UNCHANGED <<store, cookie, note>>,
             \A q \in Requests : Active(q) => q = r /\ ~Takes(req[q]),
             req'[r].named = 0,
             BagNoted(req'[r], cookie, note)
      PROVE  NotesHold'
  <2>1. \A q \in Requests : Active(q)' => q = r
    BY <1>4 DEF Moved, Active
  <2>2. (cookie # 0 => Noted(cookie, note))'
    BY <1>2, <1>4 DEF NotesHold, Noted
  <2> QED BY <1>2, <1>4, <2>1, <2>2 DEF NotesHold
<1>5. ASSUME NEW r \in Requests, Active(r), req[r].pc \notin {"store", "respond"}
      PROVE  (\A q \in Requests : Active(q) => q = r /\ ~Takes(req[q])) /\ req[r].named = 0
  BY <1>3, <1>5 DEF Takes, BagPlain
<1>6. ASSUME NEW r \in Requests, NEW method \in Methods, NEW token \in Presented(method), Send(r, method, token) PROVE NotesHold'
  <2> DEFINE b == [pc |-> "load", method |-> method, id |-> cookie, presents |-> token,
                   keys |-> {}, token |-> 0, old |-> {}, new |-> {}, dirty |-> FALSE, detached |-> FALSE,
                   empty |-> TRUE, superseded |-> {}, op |-> "none", named |-> 0, sets |-> 0]
  <2>0. cookie \in Ids /\ token \in Ids /\ 0 \in Ids
    BY <1>0, IdNumbers, PresentedIds DEF TypeOK
  <2>1. b \in Request
    BY <2>0 DEF Request
  <2>2. req' = [req EXCEPT ![r] = b] /\ UNCHANGED <<store, cookie, note>> /\ \A q \in Requests : ~Active(q)
    BY <1>6 DEF Send, browser
  <2>3. b.named = 0 /\ BagNoted(b, cookie, note)
    BY DEF BagNoted
  <2> HIDE DEF b
  <2>4. Moved(r) /\ req'[r] = b
    BY <1>0, <2>1, <2>2, MovedTo
  <2> QED BY <1>4, <2>2, <2>3, <2>4
<1>7. ASSUME NEW r \in Requests, LoadNone(r) PROVE NotesHold'
  <2>1. /\ Active(r) /\ Fresh(r) /\ req[r].pc = "load" /\ UNCHANGED <<store, cookie, note>>
        /\ (req[r].id # 0 => store[req[r].id] = NoSession)
    BY <1>7 DEF LoadNone, At, browser, history
  <2>2. note = "none" /\ req[r].new = {}
    <3>1. req[r].id = cookie /\ req[r].new = {}
      BY <1>3, <2>1 DEF BagNoted
    <3>2. cookie # 0 => Noted(cookie, note)
      BY <1>2, <1>5, <2>1 DEF NotesHold
    <3> QED BY <1>2, <2>1, <3>1, <3>2 DEF NotesHold, Noted
  <2>3. Moved(r) /\ req'[r].pc = "gate" /\ req'[r].named = req[r].named
    BY <1>0, <2>1, FreshBag DEF Ident
  <2>4. req'[r].keys = {} /\ req'[r].old = {} /\ req'[r].new = req[r].new /\ req'[r].op = req[r].op
    BY <1>0, <2>1, FreshBag DEF Bag
  <2>5. req'[r].op = "none"
    BY <1>3, <2>1, <2>4 DEF BagPlain
  <2>6. BagNoted(req'[r], cookie, note)
    BY <2>2, <2>3, <2>4, <2>5 DEF BagNoted, Matches, After
  <2> QED BY <1>4, <1>5, <2>1, <2>3, <2>6
<1>8. ASSUME NEW r \in Requests, LoadFound(r) PROVE NotesHold'
  <2>1. Active(r) /\ req[r].pc = "load" /\ UNCHANGED <<store, cookie, note>> /\ req[r].id # 0
    BY <1>8 DEF LoadFound, At, browser, history
  <2>2. req[r].id = cookie /\ req[r].new = {} /\ Matches(store[cookie].keys, store[cookie].flash, note)
    <3>1. req[r].id = cookie /\ req[r].new = {}
      BY <1>3, <2>1 DEF BagNoted
    <3>2. Noted(cookie, note)
      BY <1>2, <1>5, <2>1, <3>1 DEF NotesHold
    <3> QED BY <3>1, <3>2 DEF Noted
  <2>3. Moved(r) /\ req'[r].pc = "gate" /\ req'[r].named = req[r].named
    BY <1>0, <1>8, FoundBag DEF Ident
  <2>4. /\ req'[r].keys = store[cookie].keys /\ req'[r].old = store[cookie].flash /\ req'[r].new = {}
        /\ req'[r].op = req[r].op
    BY <1>0, <1>8, <2>2, FoundBag DEF Bag
  <2>5. req'[r].empty = (store[cookie].keys = {} /\ store[cookie].token = 0)
    BY <1>0, <1>8, <2>2, FoundBag DEF Bag
  <2>6. req'[r].op = "none" /\ (req'[r].empty => note = "none")
    BY <1>3, <2>1, <2>2, <2>4, <2>5 DEF BagPlain, Matches
  <2>7. BagNoted(req'[r], cookie, note)
    BY <1>0, <2>2, <2>3, <2>4, <2>6 DEF BagNoted, Matches, After
  <2> QED BY <1>4, <1>5, <2>1, <2>3, <2>7
<1>9. ASSUME NEW r \in Requests, LoadFails(r) PROVE NotesHold'
  <2>1. Active(r) /\ req[r].pc = "load" /\ UNCHANGED <<store, cookie, note>>
    BY <1>3, <1>9 DEF LoadFails, At, browser, history
  <2>2. Moved(r) /\ req'[r].pc = "gate" /\ req'[r].detached /\ req'[r].named = req[r].named
    BY <1>0, <1>9, FailsBag DEF Ident
  <2>3. BagNoted(req'[r], cookie, note)
    BY <2>2 DEF BagNoted
  <2> QED BY <1>4, <1>5, <2>1, <2>2, <2>3
<1>10. ASSUME NEW r \in Requests, Verify(r) \/ Save(r) PROVE NotesHold'
  <2>1. Active(r) /\ req[r].pc \in {"gate", "save"} /\ UNCHANGED <<store, cookie, note>>
    BY <1>10 DEF Verify, Save, At, browser, history
  <2>2. PICK step \in {"reap", "handle", "save", "store", "respond"} :
            /\ req' = [req EXCEPT ![r].pc = step] /\ step # "reap" /\ (step = "handle" => req[r].pc = "gate")
            /\ step = "respond" => req[r].detached \/ (req[r].empty /\ ~req[r].dirty)
    BY <1>10 DEF Verify, Save, Unsaved, At
  <2>3. Moved(r) /\ req'[r].pc = step /\ req'[r].named = req[r].named /\ req'[r].detached = req[r].detached
    BY <1>0, <2>1, <2>2, PassedBag DEF Ident
  <2>4. /\ req'[r].keys = req[r].keys /\ req'[r].old = req[r].old /\ req'[r].new = req[r].new /\ req'[r].op = req[r].op
        /\ req'[r].dirty = req[r].dirty /\ req'[r].empty = req[r].empty
    BY <1>0, <2>1, <2>2, PassedBag DEF Bag
  <2>5. step = "respond" /\ ~req[r].detached => After(req[r].op, note) = note
    BY <1>3, <2>1, <2>2 DEF BagNoted, After
  <2>6. BagNoted(req'[r], cookie, note)
    BY <1>3, <2>1, <2>2, <2>3, <2>4, <2>5 DEF BagNoted
  <2> QED BY <1>4, <1>5, <2>1, <2>3, <2>6
<1>11. ASSUME NEW r \in Requests, Put(r) \/ Flash(r) \/ Keep(r) \/ Pull(r) PROVE NotesHold'
  <2>1. Active(r) /\ UNCHANGED <<store, cookie, note>>
    BY <1>11 DEF Put, Flash, Keep, Pull, Handling, At, browser, history
  <2>2. /\ Moved(r) /\ req[r].pc = "handle" /\ req'[r].pc = "handle" /\ req[r].op = "none"
        /\ req'[r].named = req[r].named /\ req'[r].detached = req[r].detached
    BY <1>0, <1>11, HandledBag DEF Ident
  <2>3. /\ req'[r].old = req[r].old /\ req'[r].empty = req[r].empty
        /\ \/ /\ req'[r].op = "put" /\ req'[r].keys = req[r].keys \cup {"note"} /\ req'[r].new = req[r].new /\ req'[r].dirty
           \/ /\ req'[r].op = "flash" /\ req'[r].keys = req[r].keys \cup {"note"} /\ req'[r].new = req[r].new \cup {"note"}
              /\ req'[r].dirty
           \/ /\ req'[r].op = "keep" /\ req'[r].keys = req[r].keys /\ req'[r].new = req[r].new \cup req[r].old
           \/ /\ req'[r].op = "pull" /\ req'[r].keys = req[r].keys \ {"note"} /\ req'[r].new = req[r].new
    BY <1>0, <1>11, HandledBag DEF Bag
  <2>4. ~req[r].detached => Matches(req[r].keys, req[r].old, note) /\ req[r].new = {} /\ (req[r].empty => note = "none")
    BY <1>3, <2>1, <2>2 DEF BagNoted
  <2>5. BagNoted(req'[r], cookie, note)
    BY <1>0, <2>2, <2>3, <2>4 DEF BagNoted, Matches, After
  <2> QED BY <1>4, <1>5, <2>1, <2>2, <2>5
<1>12. ASSUME NEW r \in Requests, Login(r) \/ Logout(r) PROVE NotesHold'
  <2>1. Active(r) /\ UNCHANGED <<store, cookie, note>> /\ req[r].pc = "handle"
    BY <1>12 DEF Login, Logout, Handling, At, browser
  <2>2. req[r].id # 0
    BY <1>3, <2>1 DEF BagSafe
  <2>3. /\ Moved(r) /\ req'[r].pc = "handle" /\ req'[r].named = req[r].named /\ req'[r].detached = req[r].detached
        /\ req[r].op = "none"
    BY <1>0, <1>12, <2>2, SignedBag DEF Ident
  <2>4. /\ req'[r].empty = req[r].empty /\ req'[r].dirty = TRUE
        /\ \/ /\ req'[r].op = "login" /\ req'[r].keys = req[r].keys \cup {"auth"} /\ req'[r].old = req[r].old
              /\ req'[r].new = req[r].new
           \/ req'[r].op = "logout" /\ req'[r].keys = {} /\ req'[r].old = {} /\ req'[r].new = {}
    BY <1>0, <1>12, <2>2, SignedBag DEF Bag
  <2>5. ~req[r].detached => Matches(req[r].keys, req[r].old, note) /\ req[r].new = {} /\ (req[r].empty => note = "none")
    BY <1>3, <2>1, <2>3 DEF BagNoted
  <2>6. BagNoted(req'[r], cookie, note)
    BY <1>0, <2>3, <2>4, <2>5 DEF BagNoted, Matches, After
  <2> QED BY <1>4, <1>5, <2>1, <2>3, <2>6
<1>13. ASSUME NEW r \in Requests, Finish(r) \/ FinishUntold(r) PROVE NotesHold'
  <2>1. Active(r) /\ UNCHANGED <<store, cookie, note>>
    BY <1>13 DEF Finish, FinishUntold, At, browser, history
  <2>2. /\ Moved(r) /\ req[r].pc = "handle" /\ req'[r].pc = "save" /\ req'[r].named = req[r].named
        /\ req'[r].detached = req[r].detached
    BY <1>0, <1>13, FinishedBag DEF Ident
  <2>3. /\ req'[r].keys = req[r].keys /\ req'[r].old = req[r].old /\ req'[r].new = req[r].new
        /\ req'[r].op = req[r].op /\ req'[r].empty = req[r].empty /\ (req[r].dirty => req'[r].dirty)
    BY <1>0, <1>13, FinishedBag
  <2>4. BagNoted(req'[r], cookie, note)
    BY <1>3, <2>1, <2>2, <2>3 DEF BagNoted
  <2> QED BY <1>4, <1>5, <2>1, <2>2, <2>4
(* It saves.                                                               *)
<1>14. ASSUME NEW r \in Requests, NEW id, Destroy(r, id) PROVE NotesHold'
  <2>1. Active(r) /\ UNCHANGED <<cookie, note>>
    BY <1>14 DEF Destroy, At, browser
  <2>2. /\ Moved(r) /\ req[r].pc = "store" /\ req'[r].pc = "store" /\ req'[r].named = req[r].named
        /\ req'[r].detached = req[r].detached
    BY <1>0, <1>14, DestroyedBag DEF Ident
  <2>3. /\ req'[r].keys = req[r].keys /\ req'[r].old = req[r].old /\ req'[r].new = req[r].new
        /\ req'[r].op = req[r].op /\ req'[r].dirty = req[r].dirty /\ req'[r].empty = req[r].empty
    BY <1>0, <1>14, DestroyedBag DEF Bag
  <2>4. BagNoted(req'[r], cookie, note)
    BY <1>3, <2>1, <2>2, <2>3 DEF BagNoted
  <2>5. \A q \in Requests : Active(q)' => q = r
    BY <1>3, <2>1, <2>2 DEF Moved, Active
  <2>6. Active(r)' /\ Takes(req'[r])
    BY <2>2, Constants DEF Takes, Moved, Active
  <2> QED BY <1>2, <2>1, <2>2, <2>4, <2>5, <2>6 DEF NotesHold
<1>15. ASSUME NEW r \in Requests, Write(r) PROVE NotesHold'
  <2>1. Active(r) /\ store' = [store EXCEPT ![req[r].id] = AgeAndTake(req[r])] /\ UNCHANGED <<cookie, note>>
    BY <1>15 DEF Write, At, browser, history
  <2>2. /\ Moved(r) /\ req[r].pc = "store" /\ req'[r].pc = "respond" /\ req'[r].named = req[r].id
        /\ req'[r].detached = req[r].detached /\ AgeAndTake(req[r]) # NoSession
        /\ AgeAndTake(req[r]).keys = req[r].keys \ (req[r].old \ req[r].new) /\ AgeAndTake(req[r]).flash = req[r].new
    BY <1>0, <1>15, WrittenBag DEF Ident
  <2>3. req'[r].op = req[r].op /\ req'[r].dirty = req[r].dirty /\ req'[r].empty = req[r].empty
    BY <1>0, <1>15, WrittenBag DEF Bag
  <2>4. req[r].id # 0 /\ req[r].id \in Minted /\ ~req[r].detached
    BY <1>3, <2>1, <2>2, IdNumbers DEF BagSafe, Request
  <2>5. BagNoted(req'[r], cookie, note) /\ Matches(req[r].keys \ (req[r].old \ req[r].new), req[r].new, After(req[r].op, note))
    BY <1>3, <2>1, <2>2, <2>3, <2>4 DEF BagNoted
  <2>6. \A q \in Requests : Active(q)' => q = r
    BY <1>3, <2>1, <2>2 DEF Moved, Active
  <2>7. Active(r)' /\ Takes(req'[r])
    BY <2>2, <2>4, Constants DEF Takes, Moved, Active
  <2>8. store'[req'[r].named] = AgeAndTake(req[r])
    BY <1>0, <2>1, <2>2, <2>4
  <2>9. Noted(req[r].named, After(req[r].op, note))'
    BY <2>1, <2>2, <2>3, <2>5, <2>8 DEF Noted
  <2> QED BY <1>2, <2>1, <2>5, <2>6, <2>7, <2>9 DEF NotesHold
<1>16. ASSUME NEW r \in Requests, Respond(r) PROVE NotesHold'
  <2>1. /\ Active(r) /\ req[r].pc = "respond" /\ req' = [req EXCEPT ![r] = Idle] /\ UNCHANGED store
        /\ cookie' = IF req[r].named # 0 THEN req[r].named ELSE cookie
        /\ note' = IF req[r].detached THEN note ELSE NoteAfter(req[r].op)
    BY <1>16 DEF Respond, At, Kept
  <2>2. \A q \in Requests : ~Active(q)'
    BY <1>0, <1>3, <2>1 DEF TypeOK, Active
  <2>3. NoteAfter(req[r].op) = After(req[r].op, note)
    BY <1>3, <2>1, NoteAfterIs DEF Request
  <2>4. CASE req[r].named = 0
    <3>1. note' = note /\ cookie' = cookie
      BY <1>3, <2>1, <2>3, <2>4 DEF BagNoted
    <3>2. \A q \in Requests : Active(q) => ~Takes(req[q])
      BY <1>3, <2>1, <2>4 DEF Takes
    <3> QED BY <1>2, <2>1, <2>2, <3>1, <3>2 DEF NotesHold, Noted
  <2>5. CASE req[r].named # 0
    <3>1. ~req[r].detached /\ Noted(req[r].named, After(req[r].op, note))
      BY <1>2, <1>3, <2>1, <2>5 DEF BagPlain, NotesHold
    <3>2. cookie' # 0 /\ Noted(cookie, note)'
      BY <2>1, <2>3, <2>5, <3>1 DEF Noted
    <3> QED BY <2>2, <3>2 DEF NotesHold
  <2> QED BY <2>4, <2>5
(* Nothing expires, and nothing disturbs.                                  *)
<1>17. ASSUME NEW r \in Requests, LoadExpired(r) \/ Reap(r) PROVE FALSE
  <2>1. Active(r) /\ req[r].pc = "load" /\ LoadExpired(r)
    BY <1>3, <1>17 DEF LoadExpired, Reap, At
  <2>2. req[r].id \in Minted /\ store[req[r].id] # NoSession /\ ~Live(req[r].id)
    BY <1>3, <2>1, IdNumbers DEF LoadExpired, Request
  <2> QED BY <1>2, <2>2 DEF CalmInv, Live
<1>18. ~Gc
  BY <1>2 DEF Gc, Live, CalmInv
<1>19. ASSUME NEW r \in Requests, SaveFails(r) \/ LoseResponse(r) PROVE FALSE
  BY <1>19 DEF SaveFails, LoseResponse
<1>20. ~Tick /\ \A id \in Minted : ~Revoke(id)
  BY DEF Tick, Revoke
<1>21. CASE UNCHANGED vars
  BY <1>2, <1>21 DEF vars, browser, history, NotesHold, Noted, Active
<1> QED
  BY <1>6, <1>7, <1>8, <1>9, <1>10, <1>11, <1>12, <1>13, <1>14, <1>15, <1>16, <1>17, <1>18, <1>19, <1>20, <1>21
  DEF Next, RequestStep

(* With one request at a time and nothing that takes the session away, the *)
(* store holds exactly the note that the puts, flashes, keeps and pulls so *)
(* far say: a flashed value is there for one further request, and no more. *)
THEOREM FlashCorrect == Spec => []FlashedForOneRequest
<1>1. Init => PlainInv /\ SignedInv /\ NoteInv
  BY DEF Init, PlainInv, SignedInv, CalmInv, Active, NoteInv, NotesHold
<1>2. SafeInv /\ SignedInv /\ NoteInv => FlashedForOneRequest
  <2> SUFFICES ASSUME SafeInv, SignedInv, NoteInv, Quiet, ~overlapped, ~disturbed, cookie # 0
               PROVE  (Holds("note") <=> note # "none") /\ ("note" \in store[cookie].flash => note = "flashed")
    BY DEF FlashedForOneRequest
  <2>1. Noted(cookie, note) /\ CalmInv
    BY DEF NoteInv, NotesHold, SignedInv, Quiet
  <2>2. cookie \in Minted
    BY IdNumbers DEF SafeInv, TypeOK
  <2>3. Live(cookie)
    BY <2>1, <2>2 DEF Live, Noted, CalmInv
  <2> QED BY <2>1, <2>3 DEF Holds, Noted, Matches
<1> QED BY <1>1, <1>2, SafeCorrect, PlainStep, SignedStep, NoteStep, PTL DEF Spec
=============================================================================
