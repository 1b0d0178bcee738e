----------------------------- MODULE AuthSession -----------------------------
(***************************************************************************)
(* Sign-in sessions: service/auth.py over the Redis of infra/redis.py, the *)
(* dependency require_authenticated_user of biz/dependencies/auth.py, the  *)
(* handlers of biz/handler/auth.py and the cookies of biz/auth_cookies.py. *)
(*                                                                         *)
(* A request is a coroutine of one API process; it gives way at every      *)
(* await, so each call to Redis or to the user center is an action and     *)
(* what it read is kept in the request until it runs again.  One browser   *)
(* sends the cookie requests, with as many in flight as there are request  *)
(* slots, and takes their responses in any order.  Other callers present   *)
(* an access token in an Authorization header.                             *)
(*                                                                         *)
(* An access token is the number of its issue.  Clocks are abstracted to   *)
(* the two facts the code reads: a token is within 30 seconds of its end,  *)
(* and a Redis key has outlived its TTL.                                   *)
(***************************************************************************)
EXTENDS Naturals

CONSTANTS
  Process,   \* API processes
  Request,   \* slots for requests in flight
  Session,   \* session ids that secrets.token_urlsafe may mint
  State,     \* OAuth states it may mint
  MaxToken,  \* bound on the access tokens the user center issues
  MaxSent,   \* bound on the requests sent
  MaxFaults, \* bound on crashes, lost responses and keys or tokens that lapse
  None       \* no session, no token, no record

Token == 1..MaxToken

ASSUME MaxTokenAssumption == MaxToken \in Nat
ASSUME MaxSentAssumption == MaxSent \in Nat
ASSUME MaxFaultsAssumption == MaxFaults \in Nat
ASSUME NoneAssumption == None \notin Process \cup Request \cup Session \cup State \cup Token

Source == {"oauth", "portal"}
Record == [access : Token, refresh : Token \cup {None}, source : Source]
NoRecord == [access |-> None, refresh |-> None, source |-> "none"]
Stored == Record \cup {None}

Kind == {"api", "refresh", "logout", "callback", "bearer", "bearerLogout"}

(* Where a request waits: for Redis ("session", "touch", "mint", "pop",    *)
(* "drop", "uncache", "state", "open", "cached", "cache"), for the user    *)
(* center ("portal", "revoke", "exchange", "check"), for the refresh task  *)
(* of its session ("wait"), for its own turn ("context", "join").          *)
PC == {"idle", "session", "context", "join", "wait", "portal", "mint",
       "pop", "drop", "revoke", "uncache", "state", "exchange", "open",
       "cached", "check", "cache", "answered"}

VARIABLES
  store,       \* Redis, techkg:auth:session:<id>
  minted,      \* session ids that were ever written
  states,      \* Redis, techkg:auth:state:<state>
  bearer,      \* Redis, tokens with a key techkg:auth:bearer:<digest>
  refreshing,  \* _refresh_tasks of each process: the request that started the task
  task,        \* the refresh task a request started
  req,         \* requests in flight
  cookie,      \* the browser's cookies
  begun,       \* OAuth states ever minted
  sent,        \* requests sent so far
  faults,      \* faults so far
  issued,      \* user center: tokens issued so far
  valid,       \* user center: access tokens it accepts
  refreshable, \* user center: tokens whose refresh token it accepts
  expiring     \* tokens whose expires_at is less than 30 seconds away

redis == <<store, minted, states, bearer>>
center == <<issued, valid, refreshable, expiring>>
bounds == <<sent, faults>>
vars == <<redis, refreshing, task, req, cookie, begun, bounds, center>>

IdleTask == [pc |-> "none", proc |-> None, sid |-> None, prev |-> None,
             rec |-> NoRecord, new |-> NoRecord]
IdleReq == [pc |-> "idle", kind |-> "api", proc |-> None, sid |-> None, portal |-> None,
            marker |-> None, token |-> None, state |-> None, ctx |-> NoRecord,
            again |-> FALSE, on |-> None, ok |-> FALSE]

AnyRecord == Record \cup {NoRecord}
Task == [pc : {"none", "read", "call", "save", "delete", "touch"}, proc : Process \cup {None},
         sid : Session \cup {None}, prev : Token \cup {None}, rec : AnyRecord, new : AnyRecord]
Req == [pc : PC, kind : Kind, proc : Process \cup {None}, sid : Session \cup {None},
        portal : Token \cup {None}, marker : Token \cup {None}, token : Token \cup {None},
        state : State \cup {None}, ctx : AnyRecord, again : BOOLEAN,
        on : Request \cup {None}, ok : BOOLEAN]
Cookie == [session : Session \cup {None}, portal : Token \cup {None},
           marker : Token \cup {None}, state : State \cup {None}]

TypeOK ==
  /\ store \in [Session -> Stored]
  /\ minted \in SUBSET Session
  /\ states \in SUBSET State
  /\ bearer \in SUBSET Token
  /\ refreshing \in [Process -> [Session -> Request \cup {None}]]
  /\ task \in [Request -> Task]
  /\ req \in [Request -> Req]
  /\ cookie \in Cookie
  /\ begun \in SUBSET State
  /\ sent \in 0..MaxSent
  /\ faults \in 0..MaxFaults
  /\ issued \in 0..MaxToken
  /\ valid \in SUBSET Token
  /\ refreshable \in SUBSET Token
  /\ expiring \in SUBSET Token

Init ==
  /\ store = [s \in Session |-> None]
  /\ minted = {}
  /\ states = {}
  /\ bearer = {}
  /\ refreshing = [p \in Process |-> [s \in Session |-> None]]
  /\ task = [r \in Request |-> IdleTask]
  /\ req = [r \in Request |-> IdleReq]
  /\ cookie = [session |-> None, portal |-> None, marker |-> None, state |-> None]
  /\ begun = {}
  /\ sent = 0
  /\ faults = 0
  /\ issued = 0
  /\ valid = {}
  /\ refreshable = {}
  /\ expiring = {}

-----------------------------------------------------------------------------
(* Helpers.                                                                *)

At(r, pc) == req[r].pc = pc
Goto(r, pc) == req' = [req EXCEPT ![r].pc = pc]

(* A response that leaves the browser's cookies alone is not followed.     *)
Reply(q, ok) ==
  IF q.kind \in {"logout", "callback"} \/ (q.kind \in {"api", "refresh"} /\ ok)
  THEN [q EXCEPT !.pc = "answered", !.ok = ok, !.token = None, !.state = None, !.on = None]
  ELSE IdleReq

Answer(r, ok) == req' = [req EXCEPT ![r] = Reply(req[r], ok)]

(* portal_sso_blocked: the marker is the digest of this token.             *)
Blocked(q, token) == token # None /\ token = q.marker

(* Mutant: the marker is compared with the portal cookie only.             *)
MutantRefused(q, rec) == FALSE

(* A portal session whose token the browser signed out is refused.         *)
Refused(q, rec) == rec.source = "portal" /\ Blocked(q, rec.access)

(* Mutant: the missing record is passed on.                                *)
MutantNoSession(q) == [q EXCEPT !.pc = "portal", !.ctx = store[q.sid]]

(* get_session raised: the dependency keeps the error and tries the portal *)
(* cookie.  The second refresh of POST /auth/refresh answers with it.      *)
NoSession(q) == IF q.again THEN Reply(q, FALSE)
                ELSE [q EXCEPT !.pc = "portal", !.ctx = NoRecord, !.on = None]

(* It returned: POST /auth/refresh goes on to refresh the session.         *)
HasSession(q, rec) ==
  LET found == [q EXCEPT !.ctx = rec, !.on = None] IN
  CASE ~q.again /\ Refused(q, rec) -> NoSession(q)
    [] ~q.again /\ ~Refused(q, rec) /\ q.kind = "refresh" ->
         [found EXCEPT !.pc = "join", !.again = TRUE]
    [] OTHER -> Reply(found, TRUE)

(* Bounds of the model, not of the code.                                   *)
CountRequest == sent < MaxSent /\ sent' = sent + 1 /\ UNCHANGED faults
CountFault == faults < MaxFaults /\ faults' = faults + 1 /\ UNCHANGED sent

(* The user center issues an access token and its refresh token.           *)
Issue(t) ==
  /\ issued < MaxToken
  /\ t = issued + 1
  /\ issued' = t
  /\ valid' = valid \cup {t}

-----------------------------------------------------------------------------
(* The browser and the other callers.                                      *)

(* GET /auth/login-url                                                     *)
LoginUrl(st) ==
  /\ st \notin begun
  /\ begun' = begun \cup {st}
  /\ states' = states \cup {st}
  /\ cookie' = [cookie EXCEPT !.state = st]
  /\ UNCHANGED <<store, minted, bearer, refreshing, task, req, bounds, center>>

(* A request of the browser carries the cookies of the moment it is sent.  *)
SendCookies(r, p, kind) ==
  /\ At(r, "idle")
  /\ kind \in {"api", "refresh", "logout", "callback"}
  /\ kind = "callback" => cookie.state # None
  /\ req' = [req EXCEPT ![r] =
       [IdleReq EXCEPT !.kind = kind, !.proc = p,
          !.sid = IF kind = "callback" THEN None ELSE cookie.session,
          !.portal = cookie.portal, !.marker = cookie.marker,
          !.state = IF kind = "callback" THEN cookie.state ELSE None,
          !.ok = (kind = "logout"),
          !.pc = CASE kind = "callback" -> "state"
                   [] kind = "logout" -> IF cookie.session = None THEN "answered" ELSE "pop"
                   [] OTHER -> IF cookie.session = None THEN "portal" ELSE "session"]]
  /\ CountRequest
  /\ UNCHANGED <<redis, refreshing, task, cookie, begun, center>>

SendBearer(r, p, kind, t) ==
  /\ At(r, "idle")
  /\ kind \in {"bearer", "bearerLogout"}
  /\ t <= issued
  /\ req' = [req EXCEPT ![r] =
       [IdleReq EXCEPT !.kind = kind, !.proc = p, !.token = t, !.pc = "cached"]]
  /\ CountRequest
  /\ UNCHANGED <<redis, refreshing, task, cookie, begun, center>>

(* The response arrives: the middleware's sliding session cookie, the      *)
(* callback's and the logout's cookies.                                    *)
Receive(r) ==
  LET q == req[r] IN
  /\ At(r, "answered")
  /\ cookie' =
       CASE q.kind \in {"api", "refresh"} /\ q.ok -> [cookie EXCEPT !.session = q.sid]
         [] q.kind = "logout" ->
              [cookie EXCEPT !.session = None, !.marker = q.portal, !.state = None]
         [] q.kind = "callback" /\ q.ok ->
              [cookie EXCEPT !.session = q.sid, !.marker = None, !.state = None]
         [] q.kind = "callback" /\ ~q.ok -> [cookie EXCEPT !.state = None]
         [] OTHER -> cookie
  /\ req' = [req EXCEPT ![r] = IdleReq]
  /\ UNCHANGED <<redis, refreshing, task, begun, bounds, center>>

(* The response is lost on its way.                                        *)
LoseResponse(r) ==
  /\ At(r, "answered")
  /\ req' = [req EXCEPT ![r] = IdleReq]
  /\ CountFault
  /\ UNCHANGED <<redis, refreshing, task, cookie, begun, center>>

(* The portal signs its user in with a new token, or out.                  *)
PortalLogin(t) ==
  /\ cookie.portal = None
  /\ Issue(t)
  /\ cookie' = [cookie EXCEPT !.portal = t]
  /\ UNCHANGED <<redis, refreshing, task, req, begun, bounds, refreshable, expiring>>

PortalLogout ==
  /\ cookie.portal # None
  /\ valid' = valid \ {cookie.portal}
  /\ cookie' = [cookie EXCEPT !.portal = None]
  /\ CountFault
  /\ UNCHANGED <<redis, refreshing, task, req, begun, issued, refreshable, expiring>>

-----------------------------------------------------------------------------
(* require_authenticated_user, with the session cookie.                    *)

(* get_session reads the record.                                           *)
GetSession(r) ==
  /\ At(r, "session")
  /\ req' = [req EXCEPT ![r] =
       IF store[req[r].sid] = None THEN NoSession(req[r])
       ELSE [req[r] EXCEPT !.pc = "context", !.ctx = store[req[r].sid]]]
  /\ UNCHANGED <<redis, refreshing, task, cookie, begun, bounds, center>>

(* Redis is unreachable: a 503 that the dependency treats like any error   *)
(* of get_session.                                                         *)
StoreDown(r) ==
  /\ At(r, "session")
  /\ req' = [req EXCEPT ![r] = NoSession(req[r])]
  /\ UNCHANGED <<redis, refreshing, task, cookie, begun, bounds, center>>

(* A token with time left: EXPIRE, which fails when the key is gone.       *)
TouchSession(r) ==
  LET q == req[r] IN
  /\ At(r, "context")
  /\ q.ctx.access \notin expiring
  /\ req' = [req EXCEPT ![r] =
       IF store[q.sid] = None THEN NoSession(q) ELSE HasSession(q, q.ctx)]
  /\ UNCHANGED <<redis, refreshing, task, cookie, begun, bounds, center>>

(* Mutant: every request refreshes for itself.                             *)
MutantMayStart(p, s) == TRUE

(* refresh_session: join the task of this process for the session, or      *)
(* start it.                                                               *)
MayStart(p, s) == refreshing[p][s] = None

JoinRefresh(r) ==
  LET q == req[r] IN
  /\ \/ At(r, "context") /\ q.ctx.access \in expiring
     \/ At(r, "join")
  /\ IF MayStart(q.proc, q.sid)
     THEN /\ refreshing' = [refreshing EXCEPT ![q.proc][q.sid] = r]
          /\ task' = [task EXCEPT ![r] = [pc |-> "read", proc |-> q.proc, sid |-> q.sid,
                        prev |-> q.ctx.access, rec |-> NoRecord, new |-> NoRecord]]
          /\ req' = [req EXCEPT ![r].pc = "wait", ![r].on = r]
     ELSE /\ req' = [req EXCEPT ![r].pc = "wait", ![r].on = refreshing[q.proc][q.sid]]
          /\ UNCHANGED <<refreshing, task>>
  /\ UNCHANGED <<redis, cookie, begun, bounds, center>>

(* The portal cookie, unless the browser signed out of this token:         *)
(* create_session_from_access_token asks the user center about the token.  *)
CheckPortal(r) ==
  LET q == req[r] IN
  /\ At(r, "portal")
  /\ \/ /\ q.portal \in valid
        /\ ~Blocked(q, q.portal)
        /\ Goto(r, "mint")
     \/ Answer(r, FALSE)
  /\ UNCHANGED <<redis, refreshing, task, cookie, begun, bounds, center>>

(* ... and opens a session for it.                                         *)
MintPortal(r, s) ==
  LET q == req[r]
      rec == [access |-> q.portal, refresh |-> None, source |-> "portal"]
  IN
  /\ At(r, "mint")
  /\ s \notin minted
  /\ minted' = minted \cup {s}
  /\ store' = [store EXCEPT ![s] = rec]
  /\ req' = [req EXCEPT ![r] = HasSession([q EXCEPT !.sid = s], rec)]
  /\ UNCHANGED <<states, bearer, refreshing, task, cookie, begun, bounds, center>>

-----------------------------------------------------------------------------
(* The refresh task: _refresh_session.                                     *)

(* Mutant: a failed refresh leaves its entry in _refresh_tasks.            *)
MutantFinish(k, rec) ==
  /\ task' = [task EXCEPT ![k] = IdleTask]
  /\ IF rec = NoRecord THEN UNCHANGED refreshing
     ELSE refreshing' = [refreshing EXCEPT ![task[k].proc][task[k].sid] = None]
  /\ req' = [r \in Request |->
       IF ~(At(r, "wait") /\ req[r].on = k) THEN req[r]
       ELSE IF rec = NoRecord THEN NoSession(req[r]) ELSE HasSession(req[r], rec)]

(* The task ends: its entry leaves _refresh_tasks and every request that   *)
(* waits for it gets its record or its error.                              *)
Finish(k, rec) ==
  /\ task' = [task EXCEPT ![k] = IdleTask]
  /\ refreshing' = [refreshing EXCEPT ![task[k].proc][task[k].sid] = None]
  /\ req' = [r \in Request |->
       CASE ~(At(r, "wait") /\ req[r].on = k) -> req[r]
         [] At(r, "wait") /\ req[r].on = k /\ rec = NoRecord -> NoSession(req[r])
         [] OTHER -> HasSession(req[r], rec)]

TaskGoto(k, pc) == task' = [task EXCEPT ![k].pc = pc]

(* Re-read the record: gone, refreshed meanwhile, or still the one the     *)
(* request read.                                                           *)
TaskRead(k) ==
  LET old == store[task[k].sid] IN
  /\ task[k].pc = "read"
  /\ \/ old = None /\ Finish(k, NoRecord)
     \/ /\ old # None
        /\ task' = [task EXCEPT ![k].rec = old,
                      ![k].pc = IF old.access # task[k].prev THEN "touch" ELSE "call"]
        /\ UNCHANGED <<refreshing, req>>
  /\ UNCHANGED <<redis, cookie, begun, bounds, center>>

TaskTouch(k) ==
  /\ task[k].pc = "touch"
  /\ Finish(k, IF store[task[k].sid] = None THEN NoRecord ELSE task[k].rec)
  /\ UNCHANGED <<redis, cookie, begun, bounds, center>>

(* No refresh token: the user center confirms the access token and its     *)
(* expiry, or refuses it (401), or does not answer (503).  check_token and *)
(* get_permission_info are one step, and a 401 means that the user center  *)
(* does not accept the token.                                              *)
TaskCheck(k) ==
  /\ task[k].pc = "call"
  /\ task[k].rec.refresh = None
  /\ \/ /\ task[k].rec.access \in valid
        /\ task' = [task EXCEPT ![k].pc = "save", ![k].new = task[k].rec]
        /\ UNCHANGED <<refreshing, req>>
     \/ /\ task[k].rec.access \notin valid
        /\ TaskGoto(k, "delete")
        /\ UNCHANGED <<refreshing, req>>
     \/ Finish(k, NoRecord)
  /\ UNCHANGED <<redis, cookie, begun, bounds, center>>

(* The user center trades the refresh token for new tokens and takes the   *)
(* old refresh token back when it issues another.                          *)
TaskRefresh(k, t) ==
  LET old == task[k].rec.refresh IN
  /\ task[k].pc = "call"
  /\ old \in refreshable
  /\ Issue(t)
  /\ \/ /\ refreshable' = (refreshable \ {old}) \cup {t}
        /\ task' = [task EXCEPT ![k].pc = "save",
                      ![k].new = [access |-> t, refresh |-> t, source |-> "oauth"]]
     \/ /\ UNCHANGED refreshable
        /\ task' = [task EXCEPT ![k].pc = "save",
                      ![k].new = [access |-> t, refresh |-> old, source |-> "oauth"]]
  /\ UNCHANGED <<redis, refreshing, req, cookie, begun, bounds, expiring>>

(* A refresh token the user center does not accept: 401.                   *)
TaskRefused(k) ==
  /\ task[k].pc = "call"
  /\ task[k].rec.refresh # None
  /\ task[k].rec.refresh \notin refreshable
  /\ TaskGoto(k, "delete")
  /\ UNCHANGED <<redis, refreshing, req, cookie, begun, bounds, center>>

(* The call fails otherwise: before the user center acted on it, or after  *)
(* (the answer is lost, or get_permission_info of the new token fails), so *)
(* that the new tokens reach nobody.                                       *)
TaskFailed(k) ==
  /\ task[k].pc = "call"
  /\ task[k].rec.refresh # None
  /\ Finish(k, NoRecord)
  /\ \/ UNCHANGED <<refreshable, bounds>>
     \/ refreshable' = refreshable \ {task[k].rec.refresh} /\ CountFault
  /\ UNCHANGED <<redis, cookie, begun, issued, valid, expiring>>

(* Mutant: SET without XX.                                                 *)
MutantReplace(old, new) == new

(* _save_session(existing=True): SET XX writes only over a live session.   *)
Replace(old, new) == IF old = None THEN None ELSE new

TaskSave(k) ==
  LET s == task[k].sid IN
  /\ task[k].pc = "save"
  /\ store' = [store EXCEPT ![s] = Replace(store[s], task[k].new)]
  /\ Finish(k, IF store[s] = None THEN NoRecord ELSE task[k].new)
  /\ UNCHANGED <<minted, states, bearer, cookie, begun, bounds, center>>

TaskDelete(k) ==
  /\ task[k].pc = "delete"
  /\ store' = [store EXCEPT ![task[k].sid] = None]
  /\ Finish(k, NoRecord)
  /\ UNCHANGED <<minted, states, bearer, cookie, begun, bounds, center>>

-----------------------------------------------------------------------------
(* POST /auth/logout.                                                      *)

(* logout_session: GETDEL of the record, which only one request gets.      *)
PopSession(r) ==
  LET old == store[req[r].sid] IN
  /\ At(r, "pop")
  /\ store' = [store EXCEPT ![req[r].sid] = None]
  /\ req' = [req EXCEPT ![r] =
       IF old = None THEN Reply(req[r], TRUE)
       ELSE [req[r] EXCEPT !.pc = "drop", !.ctx = old]]
  /\ UNCHANGED <<minted, states, bearer, refreshing, task, cookie, begun, bounds, center>>

(* Redis is unreachable: 503, and the browser's cookies are cleared.       *)
PopFails(r) ==
  /\ At(r, "pop")
  /\ Answer(r, FALSE)
  /\ UNCHANGED <<redis, refreshing, task, cookie, begun, bounds, center>>

(* logout deletes the session again and revokes tokens of this system.     *)
DropSession(r) ==
  /\ At(r, "drop")
  /\ store' = [store EXCEPT ![req[r].sid] = None]
  /\ req' = [req EXCEPT ![r] =
       IF req[r].ctx.source = "oauth"
       THEN [req[r] EXCEPT !.pc = "revoke", !.token = req[r].ctx.access]
       ELSE Reply(req[r], TRUE)]
  /\ UNCHANGED <<minted, states, bearer, refreshing, task, cookie, begun, bounds, center>>

Revoke(r) ==
  LET t == req[r].token IN
  /\ At(r, "revoke")
  /\ \/ /\ valid' = valid \ {t}
        /\ \E lost \in SUBSET {req[r].ctx.refresh} : refreshable' = refreshable \ lost
        /\ Goto(r, "uncache")
     \/ /\ Answer(r, TRUE)
        /\ UNCHANGED <<valid, refreshable>>
  /\ UNCHANGED <<redis, refreshing, task, cookie, begun, bounds, issued, expiring>>

Uncache(r) ==
  /\ At(r, "uncache")
  /\ bearer' = bearer \ {req[r].token}
  /\ Answer(r, TRUE)
  /\ UNCHANGED <<store, minted, states, refreshing, task, cookie, begun, bounds, center>>

-----------------------------------------------------------------------------
(* GET /auth/callback.                                                     *)

(* The state is taken out of Redis: a second callback finds none.          *)
PopState(r) ==
  /\ At(r, "state")
  /\ states' = states \ {req[r].state}
  /\ IF req[r].state \in states THEN Goto(r, "exchange") ELSE Answer(r, FALSE)
  /\ UNCHANGED <<store, minted, bearer, refreshing, task, cookie, begun, bounds, center>>

Exchange(r, t) ==
  /\ At(r, "exchange")
  /\ Issue(t)
  /\ refreshable' = refreshable \cup {t}
  /\ req' = [req EXCEPT ![r].pc = "open",
               ![r].ctx = [access |-> t, refresh |-> t, source |-> "oauth"]]
  /\ UNCHANGED <<redis, refreshing, task, cookie, begun, bounds, expiring>>

ExchangeFails(r) ==
  /\ At(r, "exchange")
  /\ Answer(r, FALSE)
  /\ UNCHANGED <<redis, refreshing, task, cookie, begun, bounds, center>>

OpenSession(r, s) ==
  /\ At(r, "open")
  /\ s \notin minted
  /\ minted' = minted \cup {s}
  /\ store' = [store EXCEPT ![s] = req[r].ctx]
  /\ req' = [req EXCEPT ![r] = Reply([req[r] EXCEPT !.sid = s], TRUE)]
  /\ UNCHANGED <<states, bearer, refreshing, task, cookie, begun, bounds, center>>

-----------------------------------------------------------------------------
(* Authorization: Bearer -- resolve_bearer and the logout of such a caller.*)

AfterBearer(q) == IF q.kind = "bearerLogout" THEN [q EXCEPT !.pc = "revoke"]
                  ELSE Reply(q, TRUE)

BearerCached(r) ==
  /\ At(r, "cached")
  /\ req' = [req EXCEPT ![r] =
       IF req[r].token \in bearer THEN AfterBearer(req[r]) ELSE [req[r] EXCEPT !.pc = "check"]]
  /\ UNCHANGED <<redis, refreshing, task, cookie, begun, bounds, center>>

(* check_token and get_permission_info; either may fail.                   *)
BearerCheck(r) ==
  /\ At(r, "check")
  /\ \/ req[r].token \in valid /\ Goto(r, "cache")
     \/ Answer(r, FALSE)
  /\ UNCHANGED <<redis, refreshing, task, cookie, begun, bounds, center>>

BearerCache(r) ==
  /\ At(r, "cache")
  /\ bearer' = bearer \cup {req[r].token}
  /\ req' = [req EXCEPT ![r] = AfterBearer(req[r])]
  /\ UNCHANGED <<store, minted, states, refreshing, task, cookie, begun, bounds, center>>

-----------------------------------------------------------------------------
(* Time, the user center's own decisions, and crashes.                     *)

(* expires_at is read from the record of a session.                        *)
NearsExpiry(t) ==
  /\ \E s \in Session : store[s] # None /\ store[s].access = t
  /\ t \notin expiring
  /\ expiring' = expiring \cup {t}
  /\ UNCHANGED <<redis, refreshing, task, req, cookie, begun, bounds, issued, valid, refreshable>>

(* A token ends; the TTL of its cached permissions ends no later.          *)
TokenEnds(t) ==
  /\ t \in expiring \cap valid
  /\ valid' = valid \ {t}
  /\ bearer' = bearer \ {t}
  /\ CountFault
  /\ UNCHANGED <<store, minted, states, refreshing, task, req, cookie, begun,
                 issued, refreshable, expiring>>

RefreshTokenEnds(t) ==
  /\ t \in refreshable
  /\ refreshable' = refreshable \ {t}
  /\ CountFault
  /\ UNCHANGED <<redis, refreshing, task, req, cookie, begun, issued, valid, expiring>>

SessionTTL(s) ==
  /\ store[s] # None
  /\ store' = [store EXCEPT ![s] = None]
  /\ CountFault
  /\ UNCHANGED <<minted, states, bearer, refreshing, task, req, cookie, begun, center>>

(* Mutant: the key is written without a TTL.                              *)
MutantBearerTTL(t) == t \in {} /\ UNCHANGED vars

BearerTTL(t) ==
  /\ t \in bearer
  /\ bearer' = bearer \ {t}
  /\ UNCHANGED <<store, minted, states, refreshing, task, req, cookie, begun, bounds, center>>

StateTTL(st) ==
  /\ st \in states
  /\ states' = states \ {st}
  /\ CountFault
  /\ UNCHANGED <<store, minted, bearer, refreshing, task, req, cookie, begun, center>>

(* A process stops: its requests get no response, its tasks are gone.      *)
Crash(p) ==
  /\ \E r \in Request : req[r].proc = p \/ task[r].proc = p
  /\ req' = [r \in Request |-> IF req[r].proc = p THEN IdleReq ELSE req[r]]
  /\ task' = [r \in Request |-> IF task[r].proc = p THEN IdleTask ELSE task[r]]
  /\ refreshing' = [refreshing EXCEPT ![p] = [s \in Session |-> None]]
  /\ CountFault
  /\ UNCHANGED <<redis, cookie, begun, center>>

-----------------------------------------------------------------------------
Browser ==
  \/ \E st \in State : LoginUrl(st)
  \/ \E r \in Request, p \in Process, kind \in Kind : SendCookies(r, p, kind)
  \/ \E r \in Request, p \in Process, kind \in Kind, t \in Token : SendBearer(r, p, kind, t)
  \/ \E r \in Request : Receive(r) \/ LoseResponse(r)
  \/ \E t \in Token : PortalLogin(t)
  \/ PortalLogout

RequestStep(r) ==
  \/ GetSession(r) \/ StoreDown(r) \/ TouchSession(r) \/ JoinRefresh(r)
  \/ CheckPortal(r) \/ \E s \in Session : MintPortal(r, s)
  \/ PopSession(r) \/ PopFails(r) \/ DropSession(r) \/ Revoke(r) \/ Uncache(r)
  \/ PopState(r) \/ ExchangeFails(r)
  \/ \E t \in Token : Exchange(r, t)
  \/ \E s \in Session : OpenSession(r, s)
  \/ BearerCached(r) \/ BearerCheck(r) \/ BearerCache(r)

TaskStep(k) ==
  \/ TaskRead(k) \/ TaskTouch(k) \/ TaskCheck(k) \/ TaskRefused(k) \/ TaskFailed(k)
  \/ \E t \in Token : TaskRefresh(k, t)
  \/ TaskSave(k) \/ TaskDelete(k)

Environment ==
  \/ \E t \in Token : NearsExpiry(t) \/ TokenEnds(t) \/ RefreshTokenEnds(t) \/ BearerTTL(t)
  \/ \E s \in Session : SessionTTL(s)
  \/ \E st \in State : StateTTL(st)
  \/ \E p \in Process : Crash(p)

Next ==
  \/ Browser
  \/ \E r \in Request : RequestStep(r) \/ TaskStep(r)
  \/ Environment

Spec == Init /\ [][Next]_vars

(* The event loop runs every coroutine that is ready, each call to Redis   *)
(* or to the user center returns or times out, and Redis drops a key whose *)
(* TTL has passed.                                                         *)
Fairness ==
  /\ \A r \in Request : WF_vars(RequestStep(r)) /\ WF_vars(TaskStep(r))
  /\ \A t \in Token : WF_vars(BearerTTL(t))

FairSpec == Spec /\ Fairness

-----------------------------------------------------------------------------
(* Properties.                                                             *)

(* A session that was logged out, refused or left to expire is never       *)
(* written again, whatever refresh of it was in flight: GETDEL of          *)
(* logout_session against the SET XX of _save_session.                     *)
LoggedOutStaysOut ==
  [][\A s \in minted : store[s] = None => store'[s] = None]_vars

(* After the browser signed out of a portal token, a request it sends with *)
(* that mark is never served under that token again: neither by the portal *)
(* cookie nor by a session that a request in flight at the time of the     *)
(* logout opened for it (portal_sso_blocked, both uses).                   *)
LogoutSticks ==
  \A r \in Request :
    LET q == req[r] IN
    At(r, "answered") /\ q.ok /\ q.kind \in {"api", "refresh"} /\ q.ctx.source = "portal"
      => q.ctx.access # q.marker

(* A process has at most one refresh of a session in flight, so a rotated  *)
(* refresh token is presented once (refresh_session, _refresh_tasks).      *)
RefreshesMerged ==
  \A k1, k2 \in Request :
    /\ task[k1].pc # "none" /\ task[k2].pc # "none"
    /\ task[k1].proc = task[k2].proc /\ task[k1].sid = task[k2].sid
    => k1 = k2

(* With one API process a refresh ends a session only when the tokens the  *)
(* session holds at that moment are refused, never because another request *)
(* has just renewed them (_refresh_session, the 401 branches).             *)
DeletesOnlyDead ==
  [][\A k \in Request :
       TaskDelete(k) =>
         LET rec == store[task[k].sid] IN
         rec # None => IF rec.refresh = None THEN rec.access \notin valid
                       ELSE rec.refresh \notin refreshable]_vars

(* With one API process the reads, calls and writes of all requests and    *)
(* refreshes amount to atomic operations on the sessions: a refresh that   *)
(* was slow never puts older tokens back over newer ones, and never opens  *)
(* a session again (_refresh_session, _save_session).                      *)
Sessions == INSTANCE SessionLife WITH record <- store, opened <- minted

ImplementsSessions == Sessions!Spec

(* No request waits for a refresh for ever, also when the refresh fails    *)
(* (refresh_session, the done callback).                                   *)
WaitersWake == \A r \in Request : []<>~At(r, "wait")

(* A token the user center no longer accepts is in the end refused by the  *)
(* API for good: no late check puts it back into the cache for ever and no *)
(* hit extends it (resolve_bearer, the TTL of the bearer cache).           *)
RevokedIsRefused == \A t \in Token : <>[](t \in bearer => t \in valid)
=============================================================================
