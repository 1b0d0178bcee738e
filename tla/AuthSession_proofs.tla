-------------------------- MODULE AuthSession_proofs --------------------------
(***************************************************************************)
(* Theorems about AuthSession and their proofs, for any processes,         *)
(* requests, sessions and bounds; that a refresh deletes only dead         *)
(* sessions, and that SessionLife is implemented, for one process.         *)
(***************************************************************************)
EXTENDS AuthSession, TLAPS

-----------------------------------------------------------------------------
(***************************************************************************)
(* The inductive invariant.  All records of one session, in Redis, in a    *)
(* request or in a refresh task, are of one source, and those of a portal  *)
(* session hold one token: so a request that refreshes a session a second  *)
(* time may rely on its first look at the browser's mark.                  *)
(***************************************************************************)

Like(a, b) == a.source = b.source /\ (a.source = "portal" => a.access = b.access)

\* The tokens of a record were issued, and only the portal gives no refresh token.
Fits(rec, n) ==
  /\ rec.access <= n
  /\ rec.refresh # None => rec.refresh <= n
  /\ rec.refresh = None <=> rec.source = "portal"

Unmarked(q) == q.ctx.source = "portal" => q.ctx.access # q.marker

\* Where a request holds a record of its session, and a task one it works on.
Holding == {"context", "join", "wait"}
Working == {"touch", "call", "save", "delete"}

Signing == {"session", "context", "join", "wait", "portal", "mint"}

ReqOK(q, n) ==
  /\ q.pc # "idle" => q.proc \in Process
  /\ q.pc \in {"session", "context", "join", "wait", "pop", "drop"} => q.sid \in Session
  /\ q.pc \in Holding \cup {"open", "drop"} => q.ctx \in Record
  /\ q.pc \in Holding \cup {"open"} => Fits(q.ctx, n)
  /\ q.pc = "mint" => q.portal \in Token /\ q.portal <= n
  /\ q.pc \in {"cached", "check", "cache", "revoke", "uncache"} => q.token \in Token
  /\ q.pc \in Signing => q.kind \in {"api", "refresh"}
  /\ q.pc \in {"pop", "drop"} => q.kind = "logout"
  /\ q.pc \in {"state", "exchange", "open"} => q.kind = "callback"
  /\ q.pc \in {"cached", "check", "cache"} => q.kind \in {"bearer", "bearerLogout"}
  /\ q.pc \in {"revoke", "uncache"} => q.kind \in {"logout", "bearerLogout"}
  /\ q.pc \in {"session", "context", "portal", "mint"} => ~q.again
  /\ q.pc \in {"join", "wait"} /\ q.again => Unmarked(q)
  /\ q.pc = "answered" /\ q.ok /\ q.kind \in {"api", "refresh"} => Unmarked(q)

TaskOK(t, n) ==
  /\ t.pc \in Working => t.rec \in Record /\ Fits(t.rec, n)
  /\ t.pc = "save" => t.new \in Record /\ Fits(t.new, n) /\ Like(t.new, t.rec)

\* A task works for the request that started it and for those that joined.
Active(k, p, s) == task[k].pc # "none" /\ task[k].proc = p /\ task[k].sid = s

Waits(r) == At(r, "wait") =>
  req[r].on \in Request /\ Active(req[r].on, req[r].proc, req[r].sid)

Runs(k) == task[k].pc # "none" =>
  /\ task[k].proc \in Process /\ task[k].sid \in Session
  /\ At(k, "wait") /\ req[k].on = k
  /\ refreshing[task[k].proc][task[k].sid] = k

Listed(p, s) == refreshing[p][s] # None => Active(refreshing[p][s], p, s)

\* Every record of a session is like the one it was opened with.
Origin(s, o) ==
  /\ store[s] # None => Like(store[s], o)
  /\ \A r \in Request : req[r].pc \in Holding /\ req[r].sid = s => Like(req[r].ctx, o)
  /\ \A k \in Request : task[k].pc \in Working /\ task[k].sid = s => Like(task[k].rec, o)

Unknown(s) ==
  /\ store[s] = None
  /\ \A r \in Request : req[r].pc \in Holding => req[r].sid # s
  /\ \A k \in Request : task[k].pc \in Working => task[k].sid # s

Rooted(s) == IF s \in minted THEN \E o \in Record : Origin(s, o) ELSE Unknown(s)

\* What only a step of its own concerns.
Rest ==
  /\ minted \in SUBSET Session
  /\ states \in SUBSET State
  /\ bearer \in SUBSET Token
  /\ cookie \in Cookie
  /\ begun \in SUBSET State
  /\ sent \in 0..MaxSent
  /\ faults \in 0..MaxFaults
  /\ issued \in 0..MaxToken
  /\ valid \in SUBSET Token
  /\ refreshable \in SUBSET Token
  /\ expiring \in SUBSET Token
  /\ \A t \in valid : t <= issued

Core ==
  /\ store \in [Session -> Stored]
  /\ refreshing \in [Process -> [Session -> Request \cup {None}]]
  /\ task \in [Request -> Task]
  /\ req \in [Request -> Req]

Requests == \A r \in Request : ReqOK(req[r], issued) /\ Waits(r)
Tasks == \A k \in Request : TaskOK(task[k], issued) /\ Runs(k)
Lists == \A p \in Process, s \in Session : Listed(p, s)
Records == \A s \in Session : (store[s] # None => Fits(store[s], issued)) /\ Rooted(s)

IndInv == Rest /\ Core /\ Requests /\ Tasks /\ Lists /\ Records

(* With one process a task is the only one that renews its session, and    *)
(* what it is about to delete holds tokens that were refused.              *)
OneProcess == \A p, q \in Process : p = q

Refuses(rec) == IF rec.refresh = None THEN rec.access \notin valid
                ELSE rec.refresh \notin refreshable

Owns(k) ==
  /\ task[k].pc \in Working => store[task[k].sid] \in {None, task[k].rec}
  /\ task[k].pc = "delete" => Refuses(task[k].rec)

OwnInv == \A k \in Request : Owns(k)

-----------------------------------------------------------------------------
(* Requests and their answers.                                             *)

LEMMA Values ==
  /\ None \notin Token /\ None \notin Session /\ None \notin Request /\ None \notin Process
  /\ Token \subseteq Nat
  /\ NoRecord \in AnyRecord /\ NoRecord \notin Record /\ Record \subseteq AnyRecord
  /\ IdleReq \in Req /\ IdleTask \in Task
<1>1. NoRecord \notin Record
  BY NoneAssumption DEF NoRecord, Record
<1>2. IdleReq \in Req /\ IdleTask \in Task /\ NoRecord \in AnyRecord
  BY DEF IdleReq, Req, PC, Kind, IdleTask, Task, AnyRecord
<1> QED BY <1>1, <1>2, NoneAssumption DEF Token, AnyRecord

LEMMA Idle ==
  ASSUME NEW n
  PROVE  IdleReq.pc = "idle" /\ ReqOK(IdleReq, n) /\ IdleTask.pc = "none" /\ TaskOK(IdleTask, n)
BY DEF IdleReq, ReqOK, Holding, Signing, IdleTask, TaskOK, Working

LEMMA Replied ==
  ASSUME NEW q \in Req, NEW ok \in BOOLEAN, NEW n, q.proc \in Process,
         ok /\ q.kind \in {"api", "refresh"} => Unmarked(q)
  PROVE  /\ Reply(q, ok) \in Req /\ ReqOK(Reply(q, ok), n)
         /\ Reply(q, ok).pc \in {"idle", "answered"}
<1> DEFINE a == [q EXCEPT !.pc = "answered", !.ok = ok, !.token = None, !.state = None,
                          !.on = None]
<1>1. a \in Req /\ a.pc = "answered" /\ a.kind = q.kind /\ a.ok = ok /\ a.ctx = q.ctx
      /\ a.marker = q.marker /\ a.proc = q.proc
  BY DEF Req, PC
<1> HIDE DEF a
<1>2. ReqOK(a, n)
  BY <1>1 DEF ReqOK, Holding, Signing, Unmarked
<1>3. Reply(q, ok) \in {a, IdleReq}
  BY DEF Reply, a
<1> QED BY <1>1, <1>2, <1>3, Values, Idle

LEMMA Failed ==
  ASSUME NEW q \in Req, NEW n, q.proc \in Process, q.kind \in {"api", "refresh"}
  PROVE  /\ NoSession(q) \in Req /\ ReqOK(NoSession(q), n)
         /\ NoSession(q).pc \in {"idle", "answered", "portal"}
<1> DEFINE a == [q EXCEPT !.pc = "portal", !.ctx = NoRecord, !.on = None]
<1>1. a \in Req /\ a.pc = "portal" /\ a.kind = q.kind /\ a.again = q.again /\ a.proc = q.proc
  BY Values DEF Req, PC
<1> HIDE DEF a
<1>2. CASE q.again
  BY <1>2, Replied DEF NoSession
<1>3. CASE ~q.again
  <2>1. ReqOK(a, n)
    BY <1>1, <1>3 DEF ReqOK, Holding, Signing
  <2> QED BY <1>1, <1>3, <2>1 DEF NoSession, a
<1> QED BY <1>2, <1>3 DEF Req

LEMMA Found ==
  ASSUME NEW q \in Req, NEW rec \in Record, NEW n, Fits(rec, n),
         q.proc \in Process, q.sid \in Session, q.kind \in {"api", "refresh"},
         q.again => Unmarked(q) /\ Like(rec, q.ctx)
  PROVE  /\ HasSession(q, rec) \in Req /\ ReqOK(HasSession(q, rec), n)
         /\ HasSession(q, rec).pc \in {"idle", "answered", "portal", "join"}
         /\ HasSession(q, rec).pc = "join" =>
              HasSession(q, rec).ctx = rec /\ HasSession(q, rec).sid = q.sid
<1> DEFINE f == [q EXCEPT !.ctx = rec, !.on = None]
           j == [f EXCEPT !.pc = "join", !.again = TRUE]
<1>1. f \in Req /\ f.ctx = rec /\ f.kind = q.kind /\ f.proc = q.proc /\ f.sid = q.sid
      /\ f.marker = q.marker
  BY Values DEF Req
<1>2. j \in Req /\ j.pc = "join" /\ j.ctx = rec /\ j.kind = q.kind /\ j.proc = q.proc
      /\ j.sid = q.sid /\ j.marker = q.marker
  BY Values DEF Req, PC
<1> HIDE DEF f, j
<1>3. rec.access # None
  BY Values DEF Record
<1>4. CASE ~q.again /\ Refused(q, rec)
  BY <1>4, Failed DEF HasSession
<1>5. ~Refused(q, rec) => Unmarked(f) /\ Unmarked(j)
  BY <1>1, <1>2, <1>3 DEF Refused, Blocked, Unmarked
<1>6. CASE ~q.again /\ ~Refused(q, rec) /\ q.kind = "refresh"
  <2>1. HasSession(q, rec) = j
    BY <1>6 DEF HasSession, j, f
  <2>2. ReqOK(j, n)
    BY <1>2, <1>5, <1>6 DEF ReqOK, Holding, Signing
  <2> QED BY <1>2, <2>1, <2>2
<1>7. CASE q.again \/ (~Refused(q, rec) /\ q.kind # "refresh")
  <2>1. HasSession(q, rec) = Reply(f, TRUE)
    BY <1>7 DEF HasSession, f
  <2>2. Unmarked(f)
    BY <1>1, <1>5, <1>7 DEF Unmarked, Like
  <2> QED BY <1>1, <2>1, <2>2, Replied
<1> QED BY <1>4, <1>6, <1>7 DEF Req

LEMMA Grows ==
  ASSUME NEW n \in Nat, NEW m \in Nat, n <= m
  PROVE  /\ \A q \in Req : ReqOK(q, n) => ReqOK(q, m)
         /\ \A t \in Task : TaskOK(t, n) => TaskOK(t, m)
         /\ \A rec \in Record : Fits(rec, n) => Fits(rec, m)
<1>0. \A a \in Token : a <= n => a <= m
  BY Values
<1>1. ASSUME NEW rec \in Record, Fits(rec, n)
      PROVE  Fits(rec, m)
  <2>1. rec.access \in Token /\ rec.refresh \in Token \cup {None}
    BY DEF Record
  <2> QED BY <1>0, <1>1, <2>1, Zenon DEF Fits
<1>2. ASSUME NEW q \in Req, ReqOK(q, n)
      PROVE  ReqOK(q, m)
  <2>1. q.pc \in Holding \cup {"open"} => Fits(q.ctx, m)
    BY <1>1, <1>2 DEF ReqOK
  <2>2. q.pc = "mint" => q.portal \in Token /\ q.portal <= m
    BY <1>0, <1>2, Zenon DEF ReqOK
  <2> QED BY <1>2, <2>1, <2>2 DEF ReqOK
<1>3. ASSUME NEW t \in Task, TaskOK(t, n)
      PROVE  TaskOK(t, m)
  BY <1>1, <1>3 DEF TaskOK
<1> QED BY <1>1, <1>2, <1>3

-----------------------------------------------------------------------------
(* The shapes of a step.                                                   *)

LEMMA FaultCounted ==
  ASSUME IndInv, CountFault
  PROVE  sent' \in 0..MaxSent /\ faults' \in 0..MaxFaults
BY MaxFaultsAssumption DEF IndInv, Rest, CountFault

LEMMA RequestCounted ==
  ASSUME IndInv, CountRequest
  PROVE  sent' \in 0..MaxSent /\ faults' \in 0..MaxFaults
BY MaxSentAssumption DEF IndInv, Rest, CountRequest

LEMMA TokenIssued ==
  ASSUME IndInv, NEW t \in Token, Issue(t)
  PROVE  /\ issued' \in 0..MaxToken /\ issued' = t /\ issued < t
         /\ valid' \in SUBSET Token /\ \A u \in valid' : u <= issued'
BY MaxTokenAssumption DEF IndInv, Rest, Issue, Token

LEMMA Moved ==
  ASSUME IndInv, issued' \in Nat, issued <= issued'
  PROVE  /\ \A r \in Request : req[r] \in Req /\ ReqOK(req[r], issued')
         /\ \A k \in Request : task[k] \in Task /\ TaskOK(task[k], issued')
         /\ \A s \in Session : store[s] # None => Fits(store[s], issued')
<1>1. issued \in Nat
  BY MaxTokenAssumption DEF IndInv, Rest
<1>2. \A r \in Request : req[r] \in Req /\ ReqOK(req[r], issued)
  BY DEF IndInv, Core, Requests
<1>3. \A k \in Request : task[k] \in Task /\ TaskOK(task[k], issued)
  BY DEF IndInv, Core, Tasks
<1>4. \A s \in Session : store[s] # None => store[s] \in Record /\ Fits(store[s], issued)
  BY DEF IndInv, Core, Records, Stored
<1> QED BY <1>1, <1>2, <1>3, <1>4, Grows

\* Nothing but requests moves, and records may vanish.
Quiet ==
  /\ UNCHANGED <<minted, task, refreshing>>
  /\ store' \in [Session -> Stored]
  /\ \A s \in Session : store'[s] \in {store[s], None}
  /\ issued' \in Nat /\ issued <= issued'

\* A request of one slot moves, not to or from a refresh task.
LEMMA RequestMoves ==
  ASSUME IndInv, Rest', Quiet, NEW r \in Request, NEW q \in Req,
         req' = [req EXCEPT ![r] = q], ~At(r, "wait"), q.pc # "wait", ReqOK(q, issued'),
         q.pc \in Holding =>
           q.sid \in minted /\ \A o \in Record : Origin(q.sid, o) => Like(q.ctx, o)
  PROVE  IndInv'
<1>1. req'[r] = q /\ \A x \in Request : x # r => req'[x] = req[x]
  BY DEF IndInv, Core
<1>2. Core'
  BY DEF Core, IndInv, Quiet
<1>3. Requests'
  <2> SUFFICES ASSUME NEW x \in Request
               PROVE  ReqOK(req'[x], issued') /\ Waits(x)'
    BY DEF Requests
  <2>1. CASE x = r
    BY <1>1, <2>1 DEF Waits, At
  <2>2. CASE x # r
    BY <1>1, <2>2, Moved DEF Waits, At, Active, Quiet, IndInv, Requests
  <2> QED BY <2>1, <2>2
<1>4. Tasks'
  <2> SUFFICES ASSUME NEW k \in Request
               PROVE  TaskOK(task'[k], issued') /\ Runs(k)'
    BY DEF Tasks
  <2>1. Runs(k)
    BY DEF IndInv, Tasks
  <2> QED BY <1>1, <2>1, Moved DEF Runs, At, Quiet
<1>5. Lists'
  BY DEF Lists, Listed, Active, Quiet, IndInv
<1>6. Records'
  <2> SUFFICES ASSUME NEW s \in Session
               PROVE  (store'[s] # None => Fits(store'[s], issued')) /\ Rooted(s)'
    BY DEF Records
  <2>1. Rooted(s)
    BY DEF IndInv, Records
  <2>2. CASE s \in minted
    <3>1. PICK o \in Record : Origin(s, o)
      BY <2>1, <2>2 DEF Rooted
    <3>2. Origin(s, o)'
      BY <1>1, <3>1 DEF Origin, Quiet
    <3> QED BY <2>2, <3>2, Moved DEF Rooted, Quiet
  <2>3. CASE s \notin minted
    BY <1>1, <2>1, <2>3 DEF Rooted, Unknown, Quiet
  <2> QED BY <2>2, <2>3
<1> QED BY <1>2, <1>3, <1>4, <1>5, <1>6 DEF IndInv

\* No request moves.
LEMMA OthersMove ==
  ASSUME IndInv, Rest', Quiet, req' = req
  PROVE  IndInv'
<1>1. Core' /\ Lists'
  BY DEF Core, Lists, Listed, Active, IndInv, Quiet
<1>2. Requests' /\ Tasks'
  BY Moved DEF Requests, Waits, At, Active, Tasks, Runs, Quiet, IndInv
<1>3. Records'
  <2> SUFFICES ASSUME NEW s \in Session
               PROVE  (store'[s] # None => Fits(store'[s], issued')) /\ Rooted(s)'
    BY DEF Records
  <2>1. Rooted(s)
    BY DEF IndInv, Records
  <2>2. CASE s \in minted
    <3>1. PICK o \in Record : Origin(s, o)
      BY <2>1, <2>2 DEF Rooted
    <3>2. Origin(s, o)'
      BY <3>1 DEF Origin, Quiet
    <3> QED BY <2>2, <3>2, Moved DEF Rooted, Quiet
  <2>3. CASE s \notin minted
    BY <2>1, <2>3 DEF Rooted, Unknown, Quiet
  <2> QED BY <2>2, <2>3
<1> QED BY <1>1, <1>2, <1>3 DEF IndInv

\* A session is opened under a fresh id.
LEMMA Opens ==
  ASSUME IndInv, Rest', NEW r \in Request, NEW q \in Req, NEW s \in Session,
         NEW rec \in Record, Fits(rec, issued), s \notin minted, minted' = minted \cup {s},
         store' = [store EXCEPT ![s] = rec], req' = [req EXCEPT ![r] = q],
         ~At(r, "wait"), q.pc # "wait", ReqOK(q, issued),
         q.pc \in Holding => q.sid = s /\ q.ctx = rec,
         UNCHANGED <<task, refreshing, issued>>
  PROVE  IndInv'
<1>1. req'[r] = q /\ \A x \in Request : x # r => req'[x] = req[x]
  BY DEF IndInv, Core
<1>2. store'[s] = rec /\ \A x \in Session : x # s => store'[x] = store[x]
  BY DEF IndInv, Core
<1>3. Core'
  BY DEF Core, IndInv, Stored
<1>4. Requests'
  <2> SUFFICES ASSUME NEW x \in Request
               PROVE  ReqOK(req'[x], issued') /\ Waits(x)'
    BY DEF Requests
  <2>1. ReqOK(req[x], issued) /\ Waits(x)
    BY DEF IndInv, Requests
  <2> QED BY <1>1, <2>1 DEF Waits, At, Active
<1>5. Tasks'
  <2> SUFFICES ASSUME NEW k \in Request
               PROVE  TaskOK(task'[k], issued') /\ Runs(k)'
    BY DEF Tasks
  <2>1. Runs(k) /\ TaskOK(task[k], issued)
    BY DEF IndInv, Tasks
  <2> QED BY <1>1, <2>1 DEF Runs, At
<1>6. Lists'
  BY DEF Lists, Listed, Active, IndInv
<1>7. Records'
  <2> SUFFICES ASSUME NEW x \in Session
               PROVE  (store'[x] # None => Fits(store'[x], issued')) /\ Rooted(x)'
    BY DEF Records
  <2>1. Rooted(x) /\ (store[x] # None => Fits(store[x], issued))
    BY DEF IndInv, Records
  <2>2. CASE x = s
    <3>1. Unknown(s)
      BY <2>1, <2>2 DEF Rooted
    <3>2. Origin(s, rec)'
      BY <1>1, <1>2, <3>1 DEF Origin, Unknown, Like
    <3> QED BY <1>2, <2>2, <3>2 DEF Rooted
  <2>3. CASE x # s /\ x \in minted
    <3>1. PICK o \in Record : Origin(x, o)
      BY <2>1, <2>3 DEF Rooted
    <3>2. Origin(x, o)'
      BY <1>1, <1>2, <2>3, <3>1 DEF Origin
    <3> QED BY <1>2, <2>1, <2>3, <3>2 DEF Rooted
  <2>4. CASE x # s /\ x \notin minted
    BY <1>1, <1>2, <2>1, <2>4 DEF Rooted, Unknown
  <2> QED BY <2>2, <2>3, <2>4
<1> QED BY <1>3, <1>4, <1>5, <1>6, <1>7 DEF IndInv

\* A refresh task goes on.
LEMMA TaskMoves ==
  ASSUME IndInv, Rest', NEW k \in Request, NEW t \in Task,
         task' = [task EXCEPT ![k] = t], task[k].pc # "none", t.pc # "none",
         t.proc = task[k].proc, t.sid = task[k].sid, TaskOK(t, issued'),
         t.pc \in Working =>
           t.sid \in minted /\ \A o \in Record : Origin(t.sid, o) => Like(t.rec, o),
         UNCHANGED <<store, minted, refreshing, req>>, issued' \in Nat, issued <= issued'
  PROVE  IndInv'
<1>1. task'[k] = t /\ \A x \in Request : x # k => task'[x] = task[x]
  BY DEF IndInv, Core
<1>2. Core'
  BY DEF Core, IndInv
<1>3. \A p, s : \A x \in Request : Active(x, p, s)' <=> Active(x, p, s)
  BY <1>1 DEF Active
<1>4. Requests'
  BY <1>3, Moved DEF Requests, Waits, At, IndInv
<1>5. Tasks'
  <2> SUFFICES ASSUME NEW x \in Request
               PROVE  TaskOK(task'[x], issued') /\ Runs(x)'
    BY DEF Tasks
  <2>1. Runs(x)
    BY DEF IndInv, Tasks
  <2> QED BY <1>1, <2>1, Moved DEF Runs, At
<1>6. Lists'
  BY <1>3 DEF Lists, Listed, IndInv, Core
<1>7. Records'
  <2> SUFFICES ASSUME NEW s \in Session
               PROVE  (store'[s] # None => Fits(store'[s], issued')) /\ Rooted(s)'
    BY DEF Records
  <2>1. Rooted(s)
    BY DEF IndInv, Records
  <2>2. CASE s \in minted
    <3>1. PICK o \in Record : Origin(s, o)
      BY <2>1, <2>2 DEF Rooted
    <3>2. Origin(s, o)'
      BY <1>1, <3>1 DEF Origin
    <3> QED BY <2>2, <3>2, Moved DEF Rooted
  <2>3. CASE s \notin minted
    BY <1>1, <2>1, <2>3 DEF Rooted, Unknown
  <2> QED BY <2>2, <2>3
<1> QED BY <1>2, <1>4, <1>5, <1>6, <1>7 DEF IndInv

-----------------------------------------------------------------------------
(* The refresh tasks.                                                      *)

\* The record a task ends with is one of its session.
Suits(k, rec) ==
  /\ rec \in Record /\ Fits(rec, issued)
  /\ task[k].sid \in minted
  /\ \A o \in Record : Origin(task[k].sid, o) => Like(rec, o)

\* A task ends, and with it the wait of its requests.
LEMMA Finishes ==
  ASSUME IndInv, Rest', NEW k \in Request, NEW rec, Finish(k, rec), task[k].pc # "none",
         rec = NoRecord \/ Suits(k, rec),
         store' \in [Session -> Stored],
         \A s \in Session : \/ store'[s] \in {store[s], None}
                            \/ s = task[k].sid /\ rec # NoRecord /\ store'[s] = rec,
         UNCHANGED <<minted, issued>>
  PROVE  IndInv'
<1> DEFINE p == task[k].proc
           s == task[k].sid
<1>1. p \in Process /\ s \in Session /\ refreshing[p][s] = k /\ At(k, "wait") /\ req[k].on = k
  BY DEF IndInv, Tasks, Runs
<1>2. task'[k] = IdleTask /\ \A x \in Request : x # k => task'[x] = task[x]
  BY DEF IndInv, Core, Finish
<1>3. refreshing' \in [Process -> [Session -> Request \cup {None}]]
  BY <1>1 DEF IndInv, Core, Finish
<1>4. \A a \in Process, b \in Session :
        refreshing'[a][b] = IF a = p /\ b = s THEN None ELSE refreshing[a][b]
  BY <1>1 DEF IndInv, Core, Finish
<1> HIDE DEF p, s
<1>5. \A r \in Request : At(r, "wait") /\ req[r].on = k =>
        /\ req[r] \in Req /\ ReqOK(req[r], issued)
        /\ req[r].proc = p /\ req[r].sid = s /\ req[r].ctx \in Record
        /\ req[r].kind \in {"api", "refresh"} /\ req[r].proc \in Process
        /\ req[r].again => Unmarked(req[r])
  BY <1>1 DEF IndInv, Core, Requests, ReqOK, Waits, At, Active, Holding, Signing, p, s
<1>6. \A r \in Request : ~(At(r, "wait") /\ req[r].on = k) => req'[r] = req[r]
  BY DEF Finish
<1>7. ASSUME NEW r \in Request, At(r, "wait"), req[r].on = k
      PROVE  /\ req'[r] \in Req /\ ReqOK(req'[r], issued)
             /\ req'[r].pc \in {"idle", "answered", "portal", "join"}
             /\ req'[r].pc = "join" => rec # NoRecord /\ req'[r].ctx = rec /\ req'[r].sid = s
  <2>1. CASE rec = NoRecord
    <3>1. req'[r] = NoSession(req[r])
      BY <1>7, <2>1 DEF Finish
    <3> QED BY <1>5, <1>7, <3>1, Failed
  <2>2. CASE rec # NoRecord
    <3>1. Suits(k, rec) /\ rec \in Record /\ Fits(rec, issued)
      BY <2>2 DEF Suits
    <3>2. req'[r] = HasSession(req[r], rec)
      BY <1>7, <2>2 DEF Finish
    <3>3. Like(rec, req[r].ctx)
      <4>1. PICK o \in Record : Origin(s, o)
        BY <1>1, <3>1 DEF IndInv, Records, Rooted, Suits, s
      <4>2. Like(rec, o) /\ Like(req[r].ctx, o)
        BY <1>5, <1>7, <3>1, <4>1 DEF Suits, s, Origin, At, Holding
      <4> QED BY <4>2 DEF Like
    <3> QED BY <1>1, <1>5, <1>7, <2>2, <3>1, <3>2, <3>3, Found
  <2> QED BY <2>1, <2>2
<1>8. \A r \in Request : req'[r] \in Req /\ ReqOK(req'[r], issued)
  BY <1>6, <1>7 DEF IndInv, Core, Requests
<1>9. Core'
  <2>1. req' \in [Request -> Req]
    BY <1>8 DEF Finish
  <2>2. task' \in [Request -> Task]
    BY Values DEF Finish, IndInv, Core
  <2> QED BY <1>3, <2>1, <2>2 DEF Core
<1>10. Requests'
  <2> SUFFICES ASSUME NEW r \in Request
               PROVE  ReqOK(req'[r], issued) /\ Waits(r)'
    BY DEF Requests
  <2>1. CASE At(r, "wait") /\ req[r].on = k
    BY <1>7, <2>1 DEF Waits, At
  <2>2. CASE ~(At(r, "wait") /\ req[r].on = k)
    BY <1>2, <1>6, <1>8, <2>2 DEF Waits, At, Active, IndInv, Requests
  <2> QED BY <2>1, <2>2
<1>11. Tasks'
  <2> SUFFICES ASSUME NEW x \in Request
               PROVE  TaskOK(task'[x], issued) /\ Runs(x)'
    BY DEF Tasks
  <2>1. CASE x = k
    BY <1>2, <2>1, Idle DEF Runs
  <2>2. CASE x # k
    <3>1. Runs(x) /\ TaskOK(task[x], issued) /\ task'[x] = task[x]
      BY <1>2, <2>2 DEF IndInv, Tasks
    <3> QED BY <1>1, <1>4, <1>6, <2>2, <3>1 DEF Runs, At
  <2> QED BY <2>1, <2>2
<1>12. Lists'
  <2> SUFFICES ASSUME NEW a \in Process, NEW b \in Session, refreshing'[a][b] # None
               PROVE  Active(refreshing[a][b], a, b)'
    BY DEF Lists, Listed
  <2>1. ~(a = p /\ b = s) /\ refreshing'[a][b] = refreshing[a][b]
    BY <1>4
  <2>2. refreshing[a][b] \in Request /\ Active(refreshing[a][b], a, b)
    BY <2>1 DEF IndInv, Core, Lists, Listed
  <2> QED BY <1>2, <2>1, <2>2 DEF Active, p, s
<1>13. Records'
  <2> SUFFICES ASSUME NEW b \in Session
               PROVE  (store'[b] # None => Fits(store'[b], issued)) /\ Rooted(b)'
    BY DEF Records
  <2>1. Rooted(b) /\ (store[b] # None => Fits(store[b], issued))
    BY DEF IndInv, Records
  <2>2. store'[b] # None => Fits(store'[b], issued)
    BY <2>1 DEF Suits
  <2>3. CASE b \in minted
    <3>1. PICK o \in Record : Origin(b, o)
      BY <2>1, <2>3 DEF Rooted
    <3>2. b = s /\ rec # NoRecord => Like(rec, o)
      BY <3>1 DEF Suits, s
    <3>3. store'[b] # None => Like(store'[b], o)
      BY <3>1, <3>2 DEF Origin, s
    <3>4. \A r \in Request : req'[r].pc \in Holding /\ req'[r].sid = b => Like(req'[r].ctx, o)
      BY <1>6, <1>7, <3>1, <3>2 DEF Origin, Holding
    <3>5. \A x \in Request : task'[x].pc \in Working /\ task'[x].sid = b => Like(task'[x].rec, o)
      BY <1>2, <3>1 DEF Origin, Working, IdleTask
    <3> QED BY <2>2, <2>3, <3>3, <3>4, <3>5 DEF Rooted, Origin
  <2>4. CASE b \notin minted
    <3>1. Unknown(b)
      BY <2>1, <2>4 DEF Rooted
    <3>2. b = s => rec = NoRecord
      BY <2>4 DEF Suits, s
    <3>3. store'[b] = None
      BY <3>1, <3>2 DEF Unknown, s
    <3>4. \A r \in Request : req'[r].pc \in Holding => req'[r].sid # b
      BY <1>6, <1>7, <3>1, <3>2 DEF Unknown, Holding
    <3>5. \A x \in Request : task'[x].pc \in Working => task'[x].sid # b
      BY <1>2, <3>1 DEF Unknown, Working, IdleTask
    <3> QED BY <2>2, <2>4, <3>3, <3>4, <3>5 DEF Rooted, Unknown
  <2> QED BY <2>3, <2>4
<1> QED BY <1>9, <1>10, <1>11, <1>12, <1>13 DEF IndInv

\* A request waits for the task of its session, or starts it.
LEMMA JoinRefreshKeeps ==
  ASSUME IndInv, NEW r \in Request, JoinRefresh(r)
  PROVE  IndInv'
<1> DEFINE q == req[r]
<1>1. q \in Req /\ ReqOK(q, issued) /\ q.pc \in {"context", "join"}
  BY DEF JoinRefresh, At, IndInv, Core, Requests
<1>2. PICK p \in Process, s \in Session : p = q.proc /\ s = q.sid /\ q.ctx \in Record
  BY <1>1 DEF ReqOK, Holding
<1> DEFINE start == [pc |-> "read", proc |-> p, sid |-> s, prev |-> q.ctx.access,
                            rec |-> NoRecord, new |-> NoRecord]
<1>3. task[r].pc = "none"
  BY <1>1 DEF IndInv, Tasks, Runs, At
<1>4. PICK k \in Request :
        /\ req' = [req EXCEPT ![r].pc = "wait", ![r].on = k]
        /\ \/ /\ refreshing[p][s] = None /\ k = r
              /\ refreshing' = [refreshing EXCEPT ![p][s] = r]
              /\ task' = [task EXCEPT ![r] = start]
           \/ /\ refreshing[p][s] = k /\ k # None
              /\ UNCHANGED <<refreshing, task>>
  <2>1. CASE MayStart(p, s)
    BY <1>2, <2>1 DEF JoinRefresh, MayStart
  <2>2. CASE ~MayStart(p, s)
    <3>1. refreshing[p][s] \in Request
      BY <1>2, <2>2 DEF MayStart, IndInv, Core
    <3> QED BY <1>2, <2>2, <3>1 DEF JoinRefresh, MayStart
  <2> QED BY <2>1, <2>2
<1>5. UNCHANGED <<store, minted, issued>> /\ Rest'
  BY DEF JoinRefresh, redis, bounds, center, IndInv, Rest
<1>6. start \in Task /\ start.pc = "read" /\ start.proc = p /\ start.sid = s
      /\ TaskOK(start, issued)
  BY <1>2, Values DEF Task, Record, TaskOK, Working
<1> DEFINE w == req'[r]
<1>7. /\ w \in Req /\ w.pc = "wait" /\ w.on = k /\ w.proc = p /\ w.sid = s /\ w.ctx = q.ctx
      /\ w.again = q.again /\ w.kind = q.kind /\ w.marker = q.marker
      /\ \A x \in Request : x # r => req'[x] = req[x]
  BY <1>1, <1>2, <1>4 DEF IndInv, Core, Req, PC
<1>8. ReqOK(w, issued)
  BY <1>1, <1>7 DEF ReqOK, Holding, Signing, Unmarked
<1>9. \A a \in Process, b \in Session :
        refreshing'[a][b] = IF a = p /\ b = s THEN k ELSE refreshing[a][b]
  BY <1>2, <1>4 DEF IndInv, Core
<1>10. (\A x \in Request : x # r => task'[x] = task[x]) /\ task'[r] \in {task[r], start}
  BY <1>4 DEF IndInv, Core
<1>11. Active(k, p, s)'
  <2>1. CASE k = r /\ task' = [task EXCEPT ![r] = start]
    BY <1>6, <2>1 DEF Active, IndInv, Core
  <2>2. CASE refreshing[p][s] = k /\ k # None /\ task' = task
    BY <1>2, <2>2 DEF Active, IndInv, Lists, Listed
  <2> QED BY <1>4, <2>1, <2>2
<1>12. Core'
  <2>1. req' \in [Request -> Req] /\ task' \in [Request -> Task]
    BY <1>4, <1>6, <1>7 DEF IndInv, Core
  <2>2. refreshing' \in [Process -> [Session -> Request \cup {None}]]
    BY <1>2, <1>4 DEF IndInv, Core
  <2> QED BY <1>5, <2>1, <2>2 DEF Core, IndInv
<1> HIDE DEF q, start, w
<1>13. \A a, b : \A x \in Request : Active(x, a, b) => Active(x, a, b)'
  BY <1>3, <1>10 DEF Active
<1>14. Requests'
  <2> SUFFICES ASSUME NEW x \in Request
               PROVE  ReqOK(req'[x], issued') /\ Waits(x)'
    BY DEF Requests
  <2>1. CASE x = r
    BY <1>5, <1>7, <1>8, <1>11, <2>1 DEF Waits, At, w
  <2>2. CASE x # r
    <3>1. req'[x] = req[x] /\ ReqOK(req[x], issued) /\ Waits(x)
      BY <1>7, <2>2 DEF IndInv, Requests
    <3> QED BY <1>5, <1>13, <3>1 DEF Waits, At
  <2> QED BY <2>1, <2>2
<1>15. Tasks'
  <2> SUFFICES ASSUME NEW x \in Request
               PROVE  TaskOK(task'[x], issued') /\ Runs(x)'
    BY DEF Tasks
  <2>1. TaskOK(task[x], issued) /\ Runs(x)
    BY DEF IndInv, Tasks
  <2>2. CASE x = r /\ task'[r] = task[r]
    BY <1>3, <1>5, <2>1, <2>2 DEF Runs
  <2>3. CASE x = r /\ task'[r] # task[r]
    <3>1. k = r /\ task'[r] = start
      BY <1>4, <1>10, <2>3
    <3> QED BY <1>2, <1>5, <1>6, <1>7, <1>9, <2>3, <3>1 DEF Runs, At, w
  <2>4. CASE x # r
    <3>1. task'[x] = task[x] /\ req'[x] = req[x]
      BY <1>7, <1>10, <2>4
    <3>2. task[x].pc # "none" => refreshing'[task[x].proc][task[x].sid] = x
      BY <1>4, <1>9, <2>1, Values DEF Runs
    <3> QED BY <1>5, <2>1, <3>1, <3>2 DEF Runs, At
  <2> QED BY <2>2, <2>3, <2>4
<1>16. Lists'
  <2> SUFFICES ASSUME NEW a \in Process, NEW b \in Session, refreshing'[a][b] # None
               PROVE  Active(refreshing[a][b], a, b)'
    BY DEF Lists, Listed
  <2>1. CASE a = p /\ b = s
    BY <1>9, <1>11, <2>1
  <2>2. CASE ~(a = p /\ b = s)
    <3>1. refreshing'[a][b] = refreshing[a][b]
      BY <1>9, <2>2
    <3>2. refreshing[a][b] \in Request /\ Active(refreshing[a][b], a, b)
      BY <3>1 DEF IndInv, Core, Lists, Listed
    <3> QED BY <1>13, <3>1, <3>2
  <2> QED BY <2>1, <2>2
<1>17. Records'
  <2> SUFFICES ASSUME NEW b \in Session
               PROVE  (store'[b] # None => Fits(store'[b], issued')) /\ Rooted(b)'
    BY DEF Records
  <2>1. Rooted(b) /\ (store[b] # None => Fits(store[b], issued))
    BY DEF IndInv, Records
  <2>2. task'[r].pc \notin Working
    BY <1>3, <1>6, <1>10 DEF Working
  <2>3. CASE b \in minted
    <3>1. PICK o \in Record : Origin(b, o)
      BY <2>1, <2>3 DEF Rooted
    <3>2. Like(q.ctx, o) \/ s # b
      BY <1>1, <1>2, <3>1 DEF Origin, Holding, q
    <3>3. Origin(b, o)'
      BY <1>5, <1>7, <1>10, <2>2, <3>1, <3>2 DEF Origin, w
    <3> QED BY <1>5, <2>1, <2>3, <3>3 DEF Rooted
  <2>4. CASE b \notin minted
    <3>1. Unknown(b) /\ s # b
      BY <1>1, <1>2, <2>1, <2>4 DEF Rooted, Unknown, Holding, q
    <3>2. Unknown(b)'
      BY <1>5, <1>7, <1>10, <2>2, <3>1 DEF Unknown, w
    <3> QED BY <1>5, <2>1, <2>4, <3>2 DEF Rooted
  <2> QED BY <2>3, <2>4
<1> QED BY <1>5, <1>12, <1>14, <1>15, <1>16, <1>17 DEF IndInv

\* A process stops with its requests and its tasks.
LEMMA CrashKeeps ==
  ASSUME IndInv, NEW p \in Process, Crash(p)
  PROVE  IndInv'
<1>1. /\ \A r \in Request : req'[r] = IF req[r].proc = p THEN IdleReq ELSE req[r]
      /\ \A k \in Request : task'[k] = IF task[k].proc = p THEN IdleTask ELSE task[k]
      /\ \A a \in Process, b \in Session :
           refreshing'[a][b] = IF a = p THEN None ELSE refreshing[a][b]
  BY DEF Crash, IndInv, Core
<1>2. UNCHANGED <<store, minted, issued>> /\ Rest'
  BY FaultCounted DEF Crash, redis, center, IndInv, Rest
<1>3. Core'
  BY <1>2, Values DEF Crash, IndInv, Core
<1>4. Requests'
  <2> SUFFICES ASSUME NEW r \in Request
               PROVE  ReqOK(req'[r], issued') /\ Waits(r)'
    BY DEF Requests
  <2>1. ReqOK(req[r], issued) /\ Waits(r)
    BY DEF IndInv, Requests
  <2> QED BY <1>1, <1>2, <2>1, Idle DEF Waits, At, Active
<1>5. Tasks'
  <2> SUFFICES ASSUME NEW k \in Request
               PROVE  TaskOK(task'[k], issued') /\ Runs(k)'
    BY DEF Tasks
  <2>1. TaskOK(task[k], issued) /\ Runs(k) /\ Waits(k)
    BY DEF IndInv, Tasks, Requests
  <2>2. CASE task[k].proc = p
    BY <1>1, <1>2, <2>2, Idle DEF Runs
  <2>3. CASE task[k].proc # p
    BY <1>1, <1>2, <2>1, <2>3 DEF Runs, Waits, Active, At
  <2> QED BY <2>2, <2>3
<1>6. Lists'
  <2> SUFFICES ASSUME NEW a \in Process, NEW b \in Session, refreshing'[a][b] # None
               PROVE  Active(refreshing[a][b], a, b)'
    BY DEF Lists, Listed
  <2>1. a # p /\ refreshing'[a][b] = refreshing[a][b]
    BY <1>1
  <2>2. refreshing[a][b] \in Request /\ Active(refreshing[a][b], a, b)
    BY <2>1 DEF IndInv, Core, Lists, Listed
  <2> QED BY <1>1, <2>1, <2>2 DEF Active
<1>7. Records'
  <2> SUFFICES ASSUME NEW s \in Session
               PROVE  (store'[s] # None => Fits(store'[s], issued')) /\ Rooted(s)'
    BY DEF Records
  <2>1. Rooted(s) /\ (store[s] # None => Fits(store[s], issued))
    BY DEF IndInv, Records
  <2>2. \A r \in Request : req'[r].pc \in Holding => req'[r] = req[r]
    BY <1>1 DEF IdleReq, Holding
  <2>3. \A k \in Request : task'[k].pc \in Working => task'[k] = task[k]
    BY <1>1 DEF IdleTask, Working
  <2>4. CASE s \in minted
    <3>1. PICK o \in Record : Origin(s, o)
      BY <2>1, <2>4 DEF Rooted
    <3>2. Origin(s, o)'
      BY <1>2, <2>2, <2>3, <3>1 DEF Origin
    <3> QED BY <1>2, <2>1, <2>4, <3>2 DEF Rooted
  <2>5. CASE s \notin minted
    BY <1>2, <2>1, <2>2, <2>3, <2>5 DEF Rooted, Unknown
  <2> QED BY <2>4, <2>5
<1> QED BY <1>2, <1>3, <1>4, <1>5, <1>6, <1>7 DEF IndInv

-----------------------------------------------------------------------------
(* The browser, other callers and the environment.                         *)

LEMMA InitEstablishes == Init => IndInv
<1> SUFFICES ASSUME Init
             PROVE  IndInv
  OBVIOUS
<1>1. Rest
  BY MaxTokenAssumption, MaxSentAssumption, MaxFaultsAssumption DEF Init, Rest, Cookie
<1>2. Core
  BY Values DEF Init, Core, Stored
<1>3. Requests /\ Tasks
  BY Idle DEF Init, Requests, Waits, At, Tasks, Runs
<1>4. Lists /\ Records
  BY Idle DEF Init, Lists, Listed, Records, Rooted, Unknown, Holding, Working
<1> QED BY <1>1, <1>2, <1>3, <1>4 DEF IndInv

LEMMA QuietOr ==
  ASSUME IndInv, UNCHANGED <<store, minted, task, refreshing>>,
         issued' = issued \/ \E t \in Token : Issue(t)
  PROVE  Quiet
BY TokenIssued, MaxTokenAssumption DEF Quiet, IndInv, Core, Rest, Token

LEMMA LoginUrlKeeps ==
  ASSUME IndInv, NEW st \in State, LoginUrl(st)
  PROVE  IndInv'
<1>1. Rest'
  BY DEF LoginUrl, bounds, center, IndInv, Rest, Cookie
<1> QED BY <1>1, QuietOr, OthersMove DEF LoginUrl, center

LEMMA PortalLoginKeeps ==
  ASSUME IndInv, NEW t \in Token, PortalLogin(t)
  PROVE  IndInv'
<1>1. Rest'
  BY TokenIssued DEF PortalLogin, bounds, redis, IndInv, Rest, Cookie
<1> QED BY <1>1, QuietOr, OthersMove DEF PortalLogin, redis

LEMMA PortalLogoutKeeps ==
  ASSUME IndInv, PortalLogout
  PROVE  IndInv'
<1>1. Rest'
  BY FaultCounted DEF PortalLogout, redis, IndInv, Rest, Cookie
<1> QED BY <1>1, QuietOr, OthersMove DEF PortalLogout, redis

LEMMA EnvironmentKeeps ==
  ASSUME IndInv, Environment
  PROVE  IndInv'
<1>1. ASSUME NEW t \in Token,
             NearsExpiry(t) \/ TokenEnds(t) \/ RefreshTokenEnds(t) \/ BearerTTL(t)
      PROVE  IndInv'
  <2>1. Rest'
    BY <1>1, FaultCounted
    DEF NearsExpiry, TokenEnds, RefreshTokenEnds, BearerTTL, redis, bounds, center, IndInv, Rest
  <2> QED BY <1>1, <2>1, QuietOr, OthersMove
          DEF NearsExpiry, TokenEnds, RefreshTokenEnds, BearerTTL, redis, center
<1>2. ASSUME NEW s \in Session, SessionTTL(s)
      PROVE  IndInv'
  <2>1. Rest'
    BY <1>2, FaultCounted DEF SessionTTL, center, IndInv, Rest
  <2>2. Quiet
    BY <1>2, MaxTokenAssumption DEF SessionTTL, center, Quiet, IndInv, Core, Rest, Stored
  <2> QED BY <1>2, <2>1, <2>2, OthersMove DEF SessionTTL
<1>3. ASSUME NEW st \in State, StateTTL(st)
      PROVE  IndInv'
  <2>1. Rest'
    BY <1>3, FaultCounted DEF StateTTL, center, IndInv, Rest
  <2> QED BY <1>3, <2>1, QuietOr, OthersMove DEF StateTTL, center
<1> QED BY <1>1, <1>2, <1>3, CrashKeeps DEF Environment

LEMMA SendCookiesKeeps ==
  ASSUME IndInv, NEW r \in Request, NEW p \in Process, NEW kind \in Kind, SendCookies(r, p, kind)
  PROVE  IndInv'
<1> DEFINE sid == IF kind = "callback" THEN None ELSE cookie.session
           state == IF kind = "callback" THEN cookie.state ELSE None
           ok == (kind = "logout")
           pc == CASE kind = "callback" -> "state"
                   [] kind = "logout" -> IF cookie.session = None THEN "answered" ELSE "pop"
                   [] OTHER -> IF cookie.session = None THEN "portal" ELSE "session"
           q == [IdleReq EXCEPT !.kind = kind, !.proc = p, !.sid = sid,
                   !.portal = cookie.portal, !.marker = cookie.marker,
                   !.state = state, !.ok = ok, !.pc = pc]
<1>1. cookie \in Cookie /\ kind \in {"api", "refresh", "logout", "callback"}
  BY DEF IndInv, Rest, SendCookies
<1>2. /\ sid \in Session \cup {None} /\ state \in State \cup {None} /\ ok \in BOOLEAN
      /\ pc \in {"state", "answered", "pop", "portal", "session"}
      /\ pc = "answered" => kind = "logout"
      /\ pc = "state" => kind = "callback"
      /\ pc = "pop" => kind = "logout" /\ sid \in Session
      /\ pc = "session" => kind \in {"api", "refresh"} /\ sid \in Session
      /\ pc = "portal" => kind \in {"api", "refresh"}
  BY <1>1 DEF Cookie
<1> HIDE DEF sid, state, ok, pc
<1>3. /\ q \in Req /\ q.kind = kind /\ q.proc = p /\ q.again = FALSE /\ q.sid = sid
      /\ q.pc = pc
  <2>1. pc \in PC /\ cookie.portal \in Token \cup {None} /\ cookie.marker \in Token \cup {None}
    BY <1>1, <1>2 DEF PC, Cookie
  <2>2. ASSUME NEW x \in BOOLEAN
        PROVE  LET z == [IdleReq EXCEPT !.kind = kind, !.proc = p, !.sid = sid,
                           !.portal = cookie.portal, !.marker = cookie.marker,
                           !.state = state, !.ok = x, !.pc = pc] IN
               z \in Req /\ z.kind = kind /\ z.proc = p /\ z.again = FALSE /\ z.sid = sid
               /\ z.pc = pc
    <3> DEFINE z == [IdleReq EXCEPT !.kind = kind, !.proc = p, !.sid = sid,
                       !.portal = cookie.portal, !.marker = cookie.marker,
                       !.state = state, !.ok = x, !.pc = pc]
    <3>1. z \in Req
      BY <1>2, <2>1, Values DEF Req
    <3>2. z.kind = kind /\ z.proc = p /\ z.again = FALSE /\ z.sid = sid /\ z.pc = pc
      BY DEF IdleReq
    <3> QED BY <3>1, <3>2
  <2> QED BY <1>2, <2>2, Zenon
<1>4. req' = [req EXCEPT ![r] = q]
  BY DEF SendCookies, sid, state, ok, pc
<1> HIDE DEF q
<1>5. ReqOK(q, issued)
  BY <1>2, <1>3 DEF ReqOK, Holding, Signing
<1>6. Rest'
  BY RequestCounted DEF SendCookies, redis, center, IndInv, Rest
<1>7. Quiet /\ issued' = issued
  BY QuietOr DEF SendCookies, redis, center
<1>8. q.pc \notin Holding /\ q.pc # "wait"
  BY <1>2, <1>3 DEF Holding
<1> QED BY <1>3, <1>4, <1>5, <1>6, <1>7, <1>8, RequestMoves DEF SendCookies, At

LEMMA SendBearerKeeps ==
  ASSUME IndInv, NEW r \in Request, NEW p \in Process, NEW kind \in Kind, NEW t \in Token,
         SendBearer(r, p, kind, t)
  PROVE  IndInv'
<1> DEFINE q == [IdleReq EXCEPT !.kind = kind, !.proc = p, !.token = t, !.pc = "cached"]
<1>1. q \in Req /\ q.kind = kind /\ q.proc = p /\ q.token = t /\ q.pc = "cached"
  BY Values DEF Req, PC, IdleReq
<1>2. req' = [req EXCEPT ![r] = q]
  BY DEF SendBearer
<1> HIDE DEF q
<1>3. ReqOK(q, issued) /\ q.pc \notin Holding
  BY <1>1 DEF SendBearer, ReqOK, Holding, Signing
<1>4. Rest'
  BY RequestCounted DEF SendBearer, redis, center, IndInv, Rest
<1>5. Quiet /\ issued' = issued
  BY QuietOr DEF SendBearer, redis, center
<1> QED BY <1>1, <1>2, <1>3, <1>4, <1>5, RequestMoves DEF SendBearer, At

LEMMA ReceiveKeeps ==
  ASSUME IndInv, NEW r \in Request, Receive(r) \/ LoseResponse(r)
  PROVE  IndInv'
<1>1. At(r, "answered") /\ req' = [req EXCEPT ![r] = IdleReq]
  BY DEF Receive, LoseResponse
<1>2. Quiet
  BY QuietOr DEF Receive, LoseResponse, redis, center
<1>3. Rest'
  <2>1. req[r] \in Req /\ cookie \in Cookie
    BY DEF IndInv, Core, Rest
  <2>2. cookie' \in Cookie
    BY <2>1, Zenon DEF Receive, LoseResponse, Cookie, Req
  <2>3. CASE Receive(r)
    BY <2>2, <2>3 DEF Receive, redis, bounds, center, IndInv, Rest
  <2>4. CASE LoseResponse(r)
    BY <2>2, <2>4, FaultCounted DEF LoseResponse, redis, center, IndInv, Rest
  <2> QED BY <2>3, <2>4
<1>4. IdleReq.pc \notin Holding
  BY Idle DEF Holding
<1> QED BY <1>1, <1>2, <1>3, <1>4, Values, Idle, RequestMoves DEF At

-----------------------------------------------------------------------------
(* The requests.                                                           *)

\* A request goes on to its next wait; only its place changes.
LEMMA Going ==
  ASSUME NEW q \in Req, NEW pc \in PC
  PROVE  LET a == [q EXCEPT !.pc = pc] IN
         /\ a \in Req /\ a.pc = pc /\ a.kind = q.kind /\ a.proc = q.proc /\ a.sid = q.sid
         /\ a.portal = q.portal /\ a.marker = q.marker /\ a.token = q.token
         /\ a.ctx = q.ctx /\ a.again = q.again
BY DEF Req

\* What a request knows where it waits.
LEMMA Here ==
  ASSUME IndInv, NEW r \in Request
  PROVE  req[r] \in Req /\ ReqOK(req[r], issued) /\ issued \in Nat
BY MaxTokenAssumption DEF IndInv, Core, Requests, Rest

\* An answer is a request that neither waits nor holds a record.
LEMMA AnswerKeeps ==
  ASSUME IndInv, Rest', Quiet, NEW r \in Request, NEW q \in Req, ReqOK(q, issued'),
         req' = [req EXCEPT ![r] = q], ~At(r, "wait"), q.pc \notin Holding
  PROVE  IndInv'
BY RequestMoves DEF Holding

LEMMA GetSessionKeeps ==
  ASSUME IndInv, NEW r \in Request, GetSession(r)
  PROVE  IndInv'
<1> DEFINE q == req[r]
           n == IF store[q.sid] = None THEN NoSession(q)
                ELSE [q EXCEPT !.pc = "context", !.ctx = store[q.sid]]
<1>1. q \in Req /\ ReqOK(q, issued) /\ q.pc = "session"
  BY Here DEF GetSession, At
<1>2. q.sid \in Session /\ q.proc \in Process /\ q.kind \in {"api", "refresh"} /\ ~q.again
  BY <1>1 DEF ReqOK, Signing
<1>3. Rest' /\ Quiet /\ issued' = issued
  BY QuietOr DEF GetSession, redis, bounds, center, IndInv, Rest
<1>4. req' = [req EXCEPT ![r] = n] /\ ~At(r, "wait")
  BY DEF GetSession, At
<1>5. CASE store[q.sid] = None
  <2>1. n = NoSession(q)
    BY <1>5
  <2> QED BY <1>1, <1>2, <1>3, <1>4, <2>1, Failed, AnswerKeeps DEF Holding
<1>6. CASE store[q.sid] # None
  <2>1. store[q.sid] \in Record /\ Fits(store[q.sid], issued) /\ Rooted(q.sid)
    BY <1>2, <1>6 DEF IndInv, Core, Records, Stored
  <2>2. q.sid \in minted /\ \A o \in Record : Origin(q.sid, o) => Like(store[q.sid], o)
    BY <1>6, <2>1 DEF Rooted, Unknown, Origin
  <2>3. /\ n \in Req /\ n.pc = "context" /\ n.ctx = store[q.sid] /\ n.sid = q.sid
        /\ n.proc = q.proc /\ n.kind = q.kind /\ n.again = q.again
    BY <1>1, <1>6, <2>1, Values DEF Req, PC
  <2>4. ReqOK(n, issued)
    BY <1>2, <2>1, <2>3 DEF ReqOK, Holding, Signing
  <2> HIDE DEF n, q
  <2> QED BY <1>3, <1>4, <2>2, <2>3, <2>4, RequestMoves
<1> QED BY <1>5, <1>6

LEMMA StoreDownKeeps ==
  ASSUME IndInv, NEW r \in Request, StoreDown(r)
  PROVE  IndInv'
<1> DEFINE q == req[r]
<1>1. q \in Req /\ ReqOK(q, issued) /\ q.pc = "session"
  BY Here DEF StoreDown, At
<1>2. q.proc \in Process /\ q.kind \in {"api", "refresh"}
  BY <1>1 DEF ReqOK, Signing
<1>3. Rest' /\ Quiet /\ issued' = issued
  BY QuietOr DEF StoreDown, redis, bounds, center, IndInv, Rest
<1>4. req' = [req EXCEPT ![r] = NoSession(q)] /\ ~At(r, "wait")
  BY DEF StoreDown, At
<1> QED BY <1>1, <1>2, <1>3, <1>4, Failed, AnswerKeeps DEF Holding

LEMMA TouchSessionKeeps ==
  ASSUME IndInv, NEW r \in Request, TouchSession(r)
  PROVE  IndInv'
<1> DEFINE q == req[r]
<1>1. q \in Req /\ ReqOK(q, issued) /\ q.pc = "context"
  BY Here DEF TouchSession, At
<1>2. /\ q.sid \in Session /\ q.proc \in Process /\ q.kind \in {"api", "refresh"} /\ ~q.again
      /\ q.ctx \in Record /\ Fits(q.ctx, issued)
  BY <1>1 DEF ReqOK, Signing, Holding
<1>3. Rest' /\ Quiet /\ issued' = issued
  BY QuietOr DEF TouchSession, redis, bounds, center, IndInv, Rest
<1>4. ~At(r, "wait")
  BY DEF TouchSession, At
<1>5. CASE store[q.sid] = None
  <2>1. req' = [req EXCEPT ![r] = NoSession(q)]
    BY <1>5 DEF TouchSession
  <2> QED BY <1>1, <1>2, <1>3, <1>4, <2>1, Failed, AnswerKeeps DEF Holding
<1>6. CASE store[q.sid] # None
  <2> DEFINE n == HasSession(q, q.ctx)
  <2>1. req' = [req EXCEPT ![r] = n]
    BY <1>6 DEF TouchSession
  <2>2. n \in Req /\ ReqOK(n, issued) /\ n.pc \in {"idle", "answered", "portal", "join"}
        /\ (n.pc = "join" => n.ctx = q.ctx /\ n.sid = q.sid)
    BY <1>1, <1>2, Found
  <2>3. Rooted(q.sid)
    BY <1>2 DEF IndInv, Records
  <2>4. q.sid \in minted /\ \A o \in Record : Origin(q.sid, o) => Like(q.ctx, o)
    BY <1>1, <2>3 DEF Rooted, Unknown, Origin, Holding
  <2>5. n.pc \in Holding => n.sid \in minted /\ \A o \in Record : Origin(n.sid, o) => Like(n.ctx, o)
    BY <2>2, <2>4 DEF Holding
  <2> HIDE DEF n
  <2> QED BY <1>3, <1>4, <2>1, <2>2, <2>5, RequestMoves
<1> QED BY <1>5, <1>6

LEMMA CheckPortalKeeps ==
  ASSUME IndInv, NEW r \in Request, CheckPortal(r)
  PROVE  IndInv'
<1> DEFINE q == req[r]
<1>1. q \in Req /\ ReqOK(q, issued) /\ q.pc = "portal"
  BY Here DEF CheckPortal, At
<1>2. q.proc \in Process /\ q.kind \in {"api", "refresh"} /\ ~q.again
  BY <1>1 DEF ReqOK, Signing
<1>3. Rest' /\ Quiet /\ issued' = issued /\ ~At(r, "wait")
  BY QuietOr DEF CheckPortal, redis, bounds, center, IndInv, Rest, At
<1>4. CASE q.portal \in valid /\ Goto(r, "mint")
  <2> DEFINE n == [q EXCEPT !.pc = "mint"]
  <2>1. /\ n \in Req /\ n.pc = "mint" /\ n.kind = q.kind /\ n.proc = q.proc
        /\ n.portal = q.portal /\ n.again = q.again
    <3>1. "mint" \in PC
      BY DEF PC
    <3> QED BY <1>1, <3>1, Going
  <2>2. req' = [req EXCEPT ![r] = n]
    BY <1>4 DEF Goto
  <2> HIDE DEF n
  <2>3. q.portal \in Token /\ q.portal <= issued
    BY <1>4 DEF IndInv, Rest
  <2>4. ReqOK(n, issued) /\ n.pc \notin Holding
    BY <1>2, <2>1, <2>3 DEF ReqOK, Holding, Signing
  <2> QED BY <1>3, <2>1, <2>2, <2>4, AnswerKeeps
<1>5. CASE Answer(r, FALSE)
  BY <1>1, <1>2, <1>3, <1>5, Replied, AnswerKeeps DEF Answer, Holding
<1> QED BY <1>4, <1>5 DEF CheckPortal

LEMMA MintPortalKeeps ==
  ASSUME IndInv, NEW r \in Request, NEW s \in Session, MintPortal(r, s)
  PROVE  IndInv'
<1> DEFINE q == req[r]
           rec == [access |-> q.portal, refresh |-> None, source |-> "portal"]
           a == [q EXCEPT !.sid = s]
           n == HasSession(a, rec)
<1>1. q \in Req /\ ReqOK(q, issued) /\ q.pc = "mint"
  BY Here DEF MintPortal, At
<1>2. /\ q.proc \in Process /\ q.kind \in {"api", "refresh"} /\ ~q.again
      /\ q.portal \in Token /\ q.portal <= issued
  BY <1>1 DEF ReqOK, Signing
<1>3. rec \in Record /\ Fits(rec, issued)
  BY <1>2 DEF Record, Source, Fits
<1>4. a \in Req /\ a.sid = s /\ a.proc = q.proc /\ a.kind = q.kind /\ a.again = q.again
  BY <1>1 DEF Req
<1>5. /\ s \notin minted /\ minted' = minted \cup {s} /\ store' = [store EXCEPT ![s] = rec]
      /\ req' = [req EXCEPT ![r] = n] /\ ~At(r, "wait")
      /\ UNCHANGED <<task, refreshing, issued>>
  BY DEF MintPortal, At, center
<1>6. Rest'
  BY DEF MintPortal, bounds, center, IndInv, Rest
<1> HIDE DEF rec, a
<1>7. n \in Req /\ ReqOK(n, issued) /\ n.pc \in {"idle", "answered", "portal", "join"}
      /\ (n.pc = "join" => n.ctx = rec /\ n.sid = s)
  BY <1>2, <1>3, <1>4, Found
<1>8. n.pc # "wait" /\ (n.pc \in Holding => n.sid = s /\ n.ctx = rec)
  BY <1>7 DEF Holding
<1> HIDE DEF n
<1> QED BY <1>3, <1>5, <1>6, <1>7, <1>8, Opens

LEMMA PopSessionKeeps ==
  ASSUME IndInv, NEW r \in Request, PopSession(r) \/ PopFails(r)
  PROVE  IndInv'
<1> DEFINE q == req[r]
<1>1. q \in Req /\ ReqOK(q, issued) /\ q.pc = "pop"
  BY Here DEF PopSession, PopFails, At
<1>2. q.proc \in Process /\ q.kind = "logout" /\ q.sid \in Session
  BY <1>1 DEF ReqOK
<1>3. Rest' /\ issued' = issued /\ ~At(r, "wait")
  BY DEF PopSession, PopFails, redis, bounds, center, IndInv, Rest, At
<1>4. Quiet
  <2>1. CASE PopFails(r)
    BY <2>1, QuietOr DEF PopFails, redis, center
  <2>2. CASE PopSession(r)
    BY <1>2, <2>2, MaxTokenAssumption DEF PopSession, center, Quiet, IndInv, Core, Rest, Stored
  <2> QED BY <2>1, <2>2
<1>5. ASSUME NEW ok \in BOOLEAN, req' = [req EXCEPT ![r] = Reply(q, ok)]
      PROVE  IndInv'
  BY <1>1, <1>2, <1>3, <1>4, <1>5, Replied, AnswerKeeps DEF Holding
<1>6. CASE PopFails(r)
  BY <1>5, <1>6 DEF PopFails, Answer
<1>7. CASE PopSession(r) /\ store[q.sid] = None
  <2>1. req' = [req EXCEPT ![r] = Reply(q, TRUE)]
    BY <1>7 DEF PopSession
  <2> QED BY <1>5, <2>1
<1>8. CASE PopSession(r) /\ store[q.sid] # None
  <2> DEFINE n == [q EXCEPT !.pc = "drop", !.ctx = store[q.sid]]
  <2>1. req' = [req EXCEPT ![r] = n]
    BY <1>8 DEF PopSession
  <2>2. store[q.sid] \in Record
    BY <1>2, <1>8 DEF IndInv, Core, Stored
  <2>3. /\ n \in Req /\ n.pc = "drop" /\ n.ctx \in Record
        /\ n.kind = q.kind /\ n.proc = q.proc /\ n.sid = q.sid
    BY <1>1, <2>2, Values DEF Req, PC
  <2> HIDE DEF n
  <2>4. ReqOK(n, issued) /\ n.pc \notin Holding
    BY <1>2, <2>3 DEF ReqOK, Holding, Signing
  <2> QED BY <1>3, <1>4, <2>1, <2>3, <2>4, AnswerKeeps
<1> QED BY <1>6, <1>7, <1>8

LEMMA DropSessionKeeps ==
  ASSUME IndInv, NEW r \in Request, DropSession(r)
  PROVE  IndInv'
<1> DEFINE q == req[r]
<1>1. q \in Req /\ ReqOK(q, issued) /\ q.pc = "drop"
  BY Here DEF DropSession, At
<1>2. q.proc \in Process /\ q.kind = "logout" /\ q.sid \in Session /\ q.ctx \in Record
  BY <1>1 DEF ReqOK
<1>3. Rest' /\ issued' = issued /\ ~At(r, "wait")
  BY DEF DropSession, bounds, center, IndInv, Rest, At
<1>4. Quiet
  BY <1>2, MaxTokenAssumption DEF DropSession, center, Quiet, IndInv, Core, Rest, Stored
<1>5. CASE q.ctx.source = "oauth"
  <2> DEFINE n == [q EXCEPT !.pc = "revoke", !.token = q.ctx.access]
  <2>1. req' = [req EXCEPT ![r] = n]
    BY <1>5 DEF DropSession
  <2>2. q.ctx.access \in Token
    BY <1>2 DEF Record
  <2>3. n \in Req /\ n.pc = "revoke" /\ n.token \in Token /\ n.kind = q.kind /\ n.proc = q.proc
    BY <1>1, <2>2 DEF Req, PC
  <2> HIDE DEF n
  <2>4. ReqOK(n, issued) /\ n.pc \notin Holding
    BY <1>2, <2>3 DEF ReqOK, Holding, Signing
  <2> QED BY <1>3, <1>4, <2>1, <2>3, <2>4, AnswerKeeps
<1>6. CASE q.ctx.source # "oauth"
  <2>1. req' = [req EXCEPT ![r] = Reply(q, TRUE)]
    BY <1>6 DEF DropSession
  <2> QED BY <1>1, <1>2, <1>3, <1>4, <2>1, Replied, AnswerKeeps DEF Holding
<1> QED BY <1>5, <1>6

LEMMA RevokeKeeps ==
  ASSUME IndInv, NEW r \in Request, Revoke(r)
  PROVE  IndInv'
<1> DEFINE q == req[r]
           n == [q EXCEPT !.pc = "uncache"]
<1>1. q \in Req /\ ReqOK(q, issued) /\ q.pc = "revoke"
  BY Here DEF Revoke, At
<1>2. q.proc \in Process /\ q.kind \in {"logout", "bearerLogout"} /\ q.token \in Token
  BY <1>1 DEF ReqOK
<1>3. Rest' /\ issued' = issued /\ ~At(r, "wait")
  BY DEF Revoke, redis, bounds, IndInv, Rest, At
<1>4. Quiet
  BY QuietOr DEF Revoke, redis
<1>5. n \in Req /\ n.pc = "uncache" /\ n.kind = q.kind /\ n.proc = q.proc /\ n.token = q.token
  BY <1>1, Going DEF PC
<1>6. req' = [req EXCEPT ![r] = n] \/ req' = [req EXCEPT ![r] = Reply(q, TRUE)]
  BY DEF Revoke, Goto, Answer
<1> HIDE DEF n
<1>7. ReqOK(n, issued) /\ n.pc \notin Holding
  BY <1>2, <1>5 DEF ReqOK, Holding, Signing
<1>8. CASE req' = [req EXCEPT ![r] = n]
  BY <1>3, <1>4, <1>5, <1>7, <1>8, AnswerKeeps
<1>9. CASE req' = [req EXCEPT ![r] = Reply(q, TRUE)]
  BY <1>1, <1>2, <1>3, <1>4, <1>9, Replied, AnswerKeeps DEF Holding
<1> QED BY <1>6, <1>8, <1>9

LEMMA UncacheKeeps ==
  ASSUME IndInv, NEW r \in Request, Uncache(r)
  PROVE  IndInv'
<1> DEFINE q == req[r]
<1>1. q \in Req /\ ReqOK(q, issued) /\ q.pc = "uncache"
  BY Here DEF Uncache, At
<1>2. q.proc \in Process /\ q.kind \in {"logout", "bearerLogout"}
  BY <1>1 DEF ReqOK
<1>3. Rest' /\ Quiet /\ issued' = issued /\ ~At(r, "wait")
  BY QuietOr DEF Uncache, bounds, center, IndInv, Rest, At
<1> QED BY <1>1, <1>2, <1>3, Replied, AnswerKeeps DEF Uncache, Answer, Holding

LEMMA PopStateKeeps ==
  ASSUME IndInv, NEW r \in Request, PopState(r)
  PROVE  IndInv'
<1> DEFINE q == req[r]
           n == [q EXCEPT !.pc = "exchange"]
<1>1. q \in Req /\ ReqOK(q, issued) /\ q.pc = "state"
  BY Here DEF PopState, At
<1>2. q.proc \in Process /\ q.kind = "callback"
  BY <1>1 DEF ReqOK
<1>3. Rest' /\ Quiet /\ issued' = issued /\ ~At(r, "wait")
  BY QuietOr DEF PopState, bounds, center, IndInv, Rest, At
<1>4. n \in Req /\ n.pc = "exchange" /\ n.kind = q.kind /\ n.proc = q.proc
  BY <1>1, Going DEF PC
<1>5. req' = [req EXCEPT ![r] = n] \/ req' = [req EXCEPT ![r] = Reply(q, FALSE)]
  BY DEF PopState, Goto, Answer
<1> HIDE DEF n
<1>6. ReqOK(n, issued) /\ n.pc \notin Holding
  BY <1>2, <1>4 DEF ReqOK, Holding, Signing
<1>7. CASE req' = [req EXCEPT ![r] = n]
  BY <1>3, <1>4, <1>6, <1>7, AnswerKeeps
<1>8. CASE req' = [req EXCEPT ![r] = Reply(q, FALSE)]
  BY <1>1, <1>2, <1>3, <1>8, Replied, AnswerKeeps DEF Holding
<1> QED BY <1>5, <1>7, <1>8

LEMMA ExchangeKeeps ==
  ASSUME IndInv, NEW r \in Request, NEW t \in Token, Exchange(r, t)
  PROVE  IndInv'
<1> DEFINE q == req[r]
           rec == [access |-> t, refresh |-> t, source |-> "oauth"]
           n == [q EXCEPT !.pc = "open", !.ctx = rec]
<1>1. q \in Req /\ ReqOK(q, issued) /\ q.pc = "exchange"
  BY Here DEF Exchange, At
<1>2. q.proc \in Process /\ q.kind = "callback"
  BY <1>1 DEF ReqOK
<1>3. issued' = t /\ rec \in Record /\ Fits(rec, issued')
  BY TokenIssued, Values DEF Exchange, Record, Source, Fits
<1>4. Rest'
  BY TokenIssued DEF Exchange, redis, bounds, IndInv, Rest
<1>5. Quiet /\ ~At(r, "wait")
  BY QuietOr DEF Exchange, redis, At
<1>6. n \in Req /\ n.pc = "open" /\ n.ctx = rec /\ n.kind = q.kind /\ n.proc = q.proc
  BY <1>1, <1>3, Values DEF Req, PC
<1>7. req' = [req EXCEPT ![r] = n]
  BY DEF Exchange
<1> HIDE DEF rec, n
<1>8. ReqOK(n, issued') /\ n.pc \notin Holding
  BY <1>2, <1>3, <1>6 DEF ReqOK, Holding, Signing
<1> QED BY <1>4, <1>5, <1>6, <1>7, <1>8, AnswerKeeps

LEMMA ExchangeFailsKeeps ==
  ASSUME IndInv, NEW r \in Request, ExchangeFails(r)
  PROVE  IndInv'
<1> DEFINE q == req[r]
<1>1. q \in Req /\ ReqOK(q, issued) /\ q.pc = "exchange"
  BY Here DEF ExchangeFails, At
<1>2. q.proc \in Process /\ q.kind = "callback"
  BY <1>1 DEF ReqOK
<1>3. Rest' /\ Quiet /\ issued' = issued /\ ~At(r, "wait")
  BY QuietOr DEF ExchangeFails, redis, bounds, center, IndInv, Rest, At
<1> QED BY <1>1, <1>2, <1>3, Replied, AnswerKeeps DEF ExchangeFails, Answer, Holding

LEMMA OpenSessionKeeps ==
  ASSUME IndInv, NEW r \in Request, NEW s \in Session, OpenSession(r, s)
  PROVE  IndInv'
<1> DEFINE q == req[r]
           a == [q EXCEPT !.sid = s]
           n == Reply(a, TRUE)
<1>1. q \in Req /\ ReqOK(q, issued) /\ q.pc = "open"
  BY Here DEF OpenSession, At
<1>2. q.proc \in Process /\ q.kind = "callback" /\ q.ctx \in Record /\ Fits(q.ctx, issued)
  BY <1>1 DEF ReqOK, Holding
<1>3. a \in Req /\ a.proc = q.proc /\ a.kind = q.kind
  BY <1>1 DEF Req
<1>4. n \in Req /\ ReqOK(n, issued) /\ n.pc \notin Holding /\ n.pc # "wait"
  BY <1>2, <1>3, Replied DEF Holding
<1>5. /\ s \notin minted /\ minted' = minted \cup {s} /\ store' = [store EXCEPT ![s] = q.ctx]
      /\ req' = [req EXCEPT ![r] = n] /\ ~At(r, "wait")
      /\ UNCHANGED <<task, refreshing, issued>>
  BY DEF OpenSession, At, center
<1>6. Rest'
  BY DEF OpenSession, bounds, center, IndInv, Rest
<1> HIDE DEF n
<1> QED BY <1>2, <1>4, <1>5, <1>6, Opens

LEMMA BearerKeeps ==
  ASSUME IndInv, NEW r \in Request, BearerCached(r) \/ BearerCheck(r) \/ BearerCache(r)
  PROVE  IndInv'
<1> DEFINE q == req[r]
<1>1. q \in Req /\ ReqOK(q, issued) /\ q.pc \in {"cached", "check", "cache"}
  BY Here DEF BearerCached, BearerCheck, BearerCache, At
<1>2. q.proc \in Process /\ q.kind \in {"bearer", "bearerLogout"} /\ q.token \in Token
  BY <1>1 DEF ReqOK
<1>3. Rest' /\ issued' = issued /\ ~At(r, "wait")
  BY <1>2 DEF BearerCached, BearerCheck, BearerCache, redis, bounds, center, IndInv, Rest, At
<1>4. Quiet
  BY QuietOr DEF BearerCached, BearerCheck, BearerCache, redis, center
<1>5. ASSUME NEW pc \in {"revoke", "check", "cache"}, q.kind = "bearerLogout" \/ pc # "revoke"
      PROVE  LET n == [q EXCEPT !.pc = pc] IN n \in Req /\ ReqOK(n, issued) /\ n.pc \notin Holding
  <2> DEFINE n == [q EXCEPT !.pc = pc]
  <2>1. n \in Req /\ n.pc = pc /\ n.kind = q.kind /\ n.proc = q.proc /\ n.token = q.token
    <3>1. pc \in PC
      BY DEF PC
    <3> QED BY <1>1, <3>1, Going
  <2> HIDE DEF n
  <2>2. ReqOK(n, issued) /\ n.pc \notin Holding
    BY <1>2, <1>5, <2>1 DEF ReqOK, Holding, Signing
  <2> QED BY <2>1, <2>2 DEF n
<1>6. \A ok \in BOOLEAN :
        Reply(q, ok) \in Req /\ ReqOK(Reply(q, ok), issued) /\ Reply(q, ok).pc \notin Holding
  BY <1>1, <1>2, Replied DEF Holding
<1>7. AfterBearer(q) \in Req /\ ReqOK(AfterBearer(q), issued) /\ AfterBearer(q).pc \notin Holding
  BY <1>5, <1>6 DEF AfterBearer
<1>8. \E n \in Req : req' = [req EXCEPT ![r] = n] /\ ReqOK(n, issued) /\ n.pc \notin Holding
  <2>1. CASE BearerCached(r)
    BY <1>5, <1>7, <2>1 DEF BearerCached
  <2>2. CASE BearerCheck(r)
    BY <1>5, <1>6, <2>2 DEF BearerCheck, Goto, Answer
  <2>3. CASE BearerCache(r)
    BY <1>7, <2>3 DEF BearerCache
  <2> QED BY <2>1, <2>2, <2>3
<1> QED BY <1>3, <1>4, <1>8, AnswerKeeps

LEMMA RequestKeeps ==
  ASSUME IndInv, NEW r \in Request, RequestStep(r)
  PROVE  IndInv'
BY GetSessionKeeps, StoreDownKeeps, TouchSessionKeeps, JoinRefreshKeeps, CheckPortalKeeps,
   MintPortalKeeps, PopSessionKeeps, DropSessionKeeps, RevokeKeeps, UncacheKeeps,
   PopStateKeeps, ExchangeKeeps, ExchangeFailsKeeps, OpenSessionKeeps, BearerKeeps
DEF RequestStep

-----------------------------------------------------------------------------
(* The steps of a refresh task.                                            *)

\* What a task knows where it waits.
LEMMA TaskHere ==
  ASSUME IndInv, NEW k \in Request, task[k].pc # "none"
  PROVE  /\ task[k] \in Task /\ TaskOK(task[k], issued) /\ issued \in Nat
         /\ task[k].sid \in Session /\ task[k].proc \in Process
         /\ store[task[k].sid] # None =>
              /\ store[task[k].sid] \in Record /\ Fits(store[task[k].sid], issued)
              /\ task[k].sid \in minted
              /\ \A o \in Record : Origin(task[k].sid, o) => Like(store[task[k].sid], o)
         /\ task[k].pc \in Working =>
              /\ task[k].sid \in minted
              /\ \A o \in Record : Origin(task[k].sid, o) => Like(task[k].rec, o)
<1>1. task[k] \in Task /\ TaskOK(task[k], issued) /\ Runs(k) /\ issued \in Nat
  BY MaxTokenAssumption DEF IndInv, Core, Tasks, Rest
<1>2. task[k].sid \in Session /\ task[k].proc \in Process
  BY <1>1 DEF Runs
<1>3. Rooted(task[k].sid) /\ store[task[k].sid] \in Stored
      /\ (store[task[k].sid] # None => Fits(store[task[k].sid], issued))
  BY <1>2 DEF IndInv, Core, Records
<1> QED BY <1>1, <1>2, <1>3 DEF Stored, Rooted, Unknown, Origin

\* Ending without a record, or with that of the store or of the task.
LEMMA EndsKeeps ==
  ASSUME IndInv, NEW k \in Request, task[k].pc # "none", NEW rec, Finish(k, rec),
         rec \in {NoRecord} \/ Suits(k, rec),
         UNCHANGED <<store, minted, issued>>, Rest'
  PROVE  IndInv'
<1>1. store' \in [Session -> Stored] /\ \A s \in Session : store'[s] \in {store[s], None}
  BY DEF IndInv, Core
<1> QED BY <1>1, Finishes

LEMMA TaskReadKeeps ==
  ASSUME IndInv, NEW k \in Request, TaskRead(k)
  PROVE  IndInv'
<1> DEFINE old == store[task[k].sid]
           pc == IF old.access # task[k].prev THEN "touch" ELSE "call"
           t == [task[k] EXCEPT !.rec = old, !.pc = pc]
<1>1. task[k].pc = "read" /\ UNCHANGED <<store, minted, issued>> /\ Rest'
  BY DEF TaskRead, redis, bounds, center, IndInv, Rest
<1>2. CASE Finish(k, NoRecord)
  BY <1>1, <1>2, EndsKeeps
<1>3. CASE /\ old # None /\ task' = [task EXCEPT ![k].rec = old, ![k].pc = pc]
           /\ UNCHANGED <<refreshing, req>>
  <2>1. /\ task[k] \in Task /\ old \in Record /\ Fits(old, issued)
        /\ task[k].sid \in minted /\ \A o \in Record : Origin(task[k].sid, o) => Like(old, o)
    BY <1>1, <1>3, TaskHere
  <2>2. t \in Task /\ t.pc \in {"touch", "call"} /\ t.rec = old /\ t.sid = task[k].sid
        /\ t.proc = task[k].proc
    BY <2>1, Values DEF Task
  <2>3. task' = [task EXCEPT ![k] = t]
    BY <1>3
  <2> HIDE DEF t
  <2>4. TaskOK(t, issued)
    BY <2>1, <2>2 DEF TaskOK
  <2>5. issued' \in Nat /\ issued <= issued'
    BY <1>1, MaxTokenAssumption DEF IndInv, Rest
  <2> QED BY <1>1, <1>3, <2>1, <2>2, <2>3, <2>4, <2>5, TaskMoves
<1> QED BY <1>2, <1>3 DEF TaskRead

LEMMA TaskTouchKeeps ==
  ASSUME IndInv, NEW k \in Request, TaskTouch(k)
  PROVE  IndInv'
<1>1. task[k].pc = "touch" /\ UNCHANGED <<store, minted, issued>> /\ Rest'
  BY DEF TaskTouch, redis, bounds, center, IndInv, Rest
<1>2. Suits(k, task[k].rec)
  BY <1>1, TaskHere DEF Suits, TaskOK, Working
<1> QED BY <1>1, <1>2, EndsKeeps DEF TaskTouch

\* A task that only goes on to its next call.
LEMMA TaskGoes ==
  ASSUME IndInv, NEW k \in Request, task[k].pc = "call", NEW t \in Task,
         t.pc \in {"save", "delete"}, t.rec = task[k].rec, t.sid = task[k].sid,
         t.proc = task[k].proc,
         t.pc = "save" => t.new \in Record /\ Fits(t.new, issued') /\ Like(t.new, t.rec),
         task' = [task EXCEPT ![k] = t],
         UNCHANGED <<store, minted, refreshing, req>>, issued' \in Nat, issued <= issued', Rest'
  PROVE  IndInv'
<1>1. /\ task[k] \in Task /\ task[k].rec \in Record /\ TaskOK(task[k], issued')
      /\ task[k].sid \in minted
      /\ \A o \in Record : Origin(task[k].sid, o) => Like(task[k].rec, o)
  BY TaskHere, Moved DEF TaskOK, Working
<1>2. TaskOK(t, issued')
  BY <1>1 DEF TaskOK, Working
<1> QED BY <1>1, <1>2, TaskMoves

LEMMA TaskCheckKeeps ==
  ASSUME IndInv, NEW k \in Request, TaskCheck(k)
  PROVE  IndInv'
<1>1. /\ task[k].pc = "call" /\ UNCHANGED <<store, minted, issued>> /\ Rest'
      /\ issued' \in Nat /\ issued <= issued'
  BY MaxTokenAssumption DEF TaskCheck, redis, bounds, center, IndInv, Rest
<1>2. task[k] \in Task /\ task[k].rec \in Record /\ Fits(task[k].rec, issued)
  BY <1>1, TaskHere DEF TaskOK, Working
<1>3. CASE /\ task' = [task EXCEPT ![k].pc = "save", ![k].new = task[k].rec]
           /\ UNCHANGED <<refreshing, req>>
  <2> DEFINE t == [task[k] EXCEPT !.pc = "save", !.new = task[k].rec]
  <2>1. /\ t \in Task /\ t.pc = "save" /\ t.rec = task[k].rec /\ t.sid = task[k].sid
        /\ t.proc = task[k].proc /\ t.new = task[k].rec
    BY <1>2, Values DEF Task
  <2>2. task' = [task EXCEPT ![k] = t]
    BY <1>3
  <2> HIDE DEF t
  <2>3. Like(t.new, t.rec)
    BY <2>1 DEF Like
  <2> QED BY <1>1, <1>2, <1>3, <2>1, <2>2, <2>3, TaskGoes
<1>4. CASE TaskGoto(k, "delete") /\ UNCHANGED <<refreshing, req>>
  <2> DEFINE t == [task[k] EXCEPT !.pc = "delete"]
  <2>1. /\ t \in Task /\ t.pc = "delete" /\ t.rec = task[k].rec /\ t.sid = task[k].sid
        /\ t.proc = task[k].proc
    BY <1>2 DEF Task
  <2>2. task' = [task EXCEPT ![k] = t]
    BY <1>4 DEF TaskGoto
  <2> HIDE DEF t
  <2> QED BY <1>1, <1>4, <2>1, <2>2, TaskGoes
<1>5. CASE Finish(k, NoRecord)
  BY <1>1, <1>5, EndsKeeps
<1> QED BY <1>3, <1>4, <1>5 DEF TaskCheck

LEMMA TaskRefreshKeeps ==
  ASSUME IndInv, NEW k \in Request, NEW t \in Token, TaskRefresh(k, t)
  PROVE  IndInv'
<1>1. /\ task[k].pc = "call" /\ UNCHANGED <<store, minted, refreshing, req>>
      /\ task[k].rec.refresh \in refreshable
  BY DEF TaskRefresh, redis
<1>2. task[k] \in Task /\ task[k].rec \in Record /\ Fits(task[k].rec, issued)
  BY <1>1, TaskHere DEF TaskOK, Working
<1>3. /\ issued' = t /\ issued < t /\ issued \in Nat /\ issued' \in Nat /\ issued <= issued'
      /\ task[k].rec.refresh \in Token /\ task[k].rec.refresh <= t
      /\ task[k].rec.refresh # None
  <2>1. issued' = t /\ issued < t /\ issued \in Nat
    BY TokenIssued, MaxTokenAssumption DEF TaskRefresh, IndInv, Rest
  <2>2. task[k].rec.refresh \in Token /\ task[k].rec.refresh # None
    BY <1>1, Values DEF IndInv, Rest
  <2>3. task[k].rec.refresh <= issued
    BY <1>2, <2>2 DEF Fits
  <2> QED BY <2>1, <2>2, <2>3, Values
<1>4. Rest'
  BY TokenIssued DEF TaskRefresh, redis, bounds, IndInv, Rest
<1>5. PICK old \in {t, task[k].rec.refresh} :
        task' = [task EXCEPT ![k].pc = "save",
                   ![k].new = [access |-> t, refresh |-> old, source |-> "oauth"]]
  BY DEF TaskRefresh
<1> DEFINE new == [access |-> t, refresh |-> old, source |-> "oauth"]
           n == [task[k] EXCEPT !.pc = "save", !.new = new]
<1>6. new \in Record /\ Fits(new, issued')
  BY <1>3, Values DEF Record, Source, Fits
<1>7. task[k].rec.source = "oauth"
  BY <1>2, <1>3 DEF Fits, Record, Source
<1>8. Like(new, task[k].rec)
  BY <1>7 DEF Like
<1>9. task' = [task EXCEPT ![k] = n]
  BY <1>5
<1> HIDE DEF new
<1>10. /\ n \in Task /\ n.pc = "save" /\ n.rec = task[k].rec /\ n.sid = task[k].sid
       /\ n.proc = task[k].proc /\ n.new = new
  BY <1>2, <1>6, Values DEF Task
<1> HIDE DEF n
<1> QED BY <1>1, <1>3, <1>4, <1>6, <1>8, <1>9, <1>10, TaskGoes

LEMMA TaskRefusedKeeps ==
  ASSUME IndInv, NEW k \in Request, TaskRefused(k)
  PROVE  IndInv'
<1> DEFINE t == [task[k] EXCEPT !.pc = "delete"]
<1>1. /\ task[k].pc = "call" /\ UNCHANGED <<store, minted, refreshing, req>> /\ Rest'
      /\ issued' \in Nat /\ issued <= issued'
  BY MaxTokenAssumption DEF TaskRefused, redis, bounds, center, IndInv, Rest
<1>2. task[k] \in Task
  BY DEF IndInv, Core
<1>3. /\ t \in Task /\ t.pc = "delete" /\ t.rec = task[k].rec /\ t.sid = task[k].sid
      /\ t.proc = task[k].proc
  BY <1>2 DEF Task
<1>4. task' = [task EXCEPT ![k] = t]
  BY DEF TaskRefused, TaskGoto
<1> HIDE DEF t
<1> QED BY <1>1, <1>3, <1>4, TaskGoes

LEMMA TaskFailedKeeps ==
  ASSUME IndInv, NEW k \in Request, TaskFailed(k)
  PROVE  IndInv'
<1>1. task[k].pc = "call" /\ UNCHANGED <<store, minted, issued>> /\ Finish(k, NoRecord)
  BY DEF TaskFailed, redis
<1>2. Rest'
  BY FaultCounted DEF TaskFailed, redis, bounds, IndInv, Rest
<1> QED BY <1>1, <1>2, EndsKeeps

LEMMA TaskSaveKeeps ==
  ASSUME IndInv, NEW k \in Request, TaskSave(k)
  PROVE  IndInv'
<1> DEFINE s == task[k].sid
           new == task[k].new
<1>1. task[k].pc = "save" /\ UNCHANGED <<minted, issued>> /\ Rest'
  BY DEF TaskSave, bounds, center, IndInv, Rest
<1>2. /\ s \in Session /\ new \in Record /\ Fits(new, issued) /\ Like(new, task[k].rec)
      /\ s \in minted /\ \A o \in Record : Origin(s, o) => Like(task[k].rec, o)
  BY <1>1, TaskHere DEF TaskOK, Working
<1>3. Suits(k, new) /\ new # NoRecord
  BY <1>2, Values DEF Suits, Like
<1>4. store' = [store EXCEPT ![s] = IF store[s] = None THEN None ELSE new]
  BY DEF TaskSave, Replace
<1>5. store' \in [Session -> Stored]
  BY <1>2, <1>4 DEF IndInv, Core, Stored
<1>6. CASE store[s] = None
  <2>1. Finish(k, NoRecord)
    BY <1>6 DEF TaskSave
  <2>2. \A x \in Session : store'[x] \in {store[x], None}
    BY <1>4, <1>6 DEF IndInv, Core
  <2> QED BY <1>1, <1>5, <2>1, <2>2, Finishes
<1>7. CASE store[s] # None
  <2>1. Finish(k, new)
    BY <1>7 DEF TaskSave
  <2>2. \A x \in Session : store'[x] = store[x] \/ (x = s /\ store'[x] = new)
    BY <1>2, <1>4, <1>7 DEF IndInv, Core
  <2> QED BY <1>1, <1>3, <1>5, <2>1, <2>2, Finishes
<1> QED BY <1>6, <1>7

LEMMA TaskDeleteKeeps ==
  ASSUME IndInv, NEW k \in Request, TaskDelete(k)
  PROVE  IndInv'
<1>1. task[k].pc = "delete" /\ UNCHANGED <<minted, issued>> /\ Rest' /\ Finish(k, NoRecord)
  BY DEF TaskDelete, bounds, center, IndInv, Rest
<1>2. store' \in [Session -> Stored] /\ \A x \in Session : store'[x] \in {store[x], None}
  BY DEF TaskDelete, IndInv, Core, Stored
<1> QED BY <1>1, <1>2, Finishes

LEMMA TaskKeeps ==
  ASSUME IndInv, NEW k \in Request, TaskStep(k)
  PROVE  IndInv'
BY TaskReadKeeps, TaskTouchKeeps, TaskCheckKeeps, TaskRefusedKeeps, TaskFailedKeeps,
   TaskRefreshKeeps, TaskSaveKeeps, TaskDeleteKeeps
DEF TaskStep

-----------------------------------------------------------------------------
(* The theorems.                                                           *)

LEMMA StutterKeeps ==
  ASSUME IndInv, UNCHANGED vars
  PROVE  IndInv'
<1>1. Rest'
  BY DEF vars, redis, bounds, center, IndInv, Rest
<1> QED BY <1>1, QuietOr, OthersMove DEF vars, redis, center

LEMMA StepPreserves == IndInv /\ [Next]_vars => IndInv'
<1> SUFFICES ASSUME IndInv, [Next]_vars
             PROVE  IndInv'
  OBVIOUS
<1>1. ASSUME Browser
      PROVE  IndInv'
  BY <1>1, LoginUrlKeeps, SendCookiesKeeps, SendBearerKeeps, ReceiveKeeps, PortalLoginKeeps,
     PortalLogoutKeeps
  DEF Browser
<1> QED BY <1>1, RequestKeeps, TaskKeeps, EnvironmentKeeps, StutterKeeps DEF Next

(* The inductive invariant holds in every state.                           *)
THEOREM Invariance == Spec => []IndInv
<1> QED BY InitEstablishes, StepPreserves, PTL DEF Spec

(* Every variable keeps its type, so a request never looks up a session,   *)
(* calls with a token or answers with a record it does not have.           *)
THEOREM TypeCorrect == Spec => []TypeOK
<1>1. IndInv => TypeOK
  BY DEF IndInv, Rest, Core, TypeOK
<1> QED BY <1>1, Invariance, PTL

(* A process has at most one refresh of a session in flight.               *)
THEOREM RefreshesAreMerged == Spec => []RefreshesMerged
<1>1. IndInv => RefreshesMerged
  BY DEF IndInv, Tasks, Runs, RefreshesMerged
<1> QED BY <1>1, Invariance, PTL

(* After the browser signed out of a portal token it is not served under   *)
(* it, also by a request that refreshed its session twice on the way.      *)
THEOREM LogoutHolds == Spec => []LogoutSticks
<1>1. IndInv => LogoutSticks
  BY DEF IndInv, Requests, ReqOK, Unmarked, LogoutSticks, At
<1> QED BY <1>1, Invariance, PTL

(* A session that ended is never written again: only a refresh writes an   *)
(* id that was minted, and it writes over a record that is still there.    *)
THEOREM LoggedOutHolds == Spec => LoggedOutStaysOut
<1>1. ASSUME IndInv, Next, NEW s \in minted, store[s] = None
      PROVE  store'[s] = None
  <2>1. s \in Session /\ store \in [Session -> Stored]
    BY <1>1 DEF IndInv, Rest, Core
  <2>2. CASE Browser
    BY <1>1, <2>2
    DEF Browser, LoginUrl, SendCookies, SendBearer, Receive, LoseResponse, PortalLogin,
        PortalLogout, redis
  <2>3. ASSUME NEW r \in Request, RequestStep(r)
        PROVE  store'[s] = None
    <3>1. CASE \E x \in Session : MintPortal(r, x) \/ OpenSession(r, x)
      BY <1>1, <2>1, <3>1 DEF MintPortal, OpenSession
    <3>2. CASE PopSession(r) \/ DropSession(r)
      BY <1>1, <2>1, <3>2 DEF PopSession, DropSession
    <3>3. CASE UNCHANGED store
      BY <1>1, <3>3
    <3> QED BY <2>3, <3>1, <3>2, <3>3
        DEF RequestStep, GetSession, StoreDown, TouchSession, JoinRefresh, CheckPortal, PopFails,
            Revoke, Uncache, PopState, Exchange, ExchangeFails, BearerCached, BearerCheck,
            BearerCache, redis
  <2>4. ASSUME NEW k \in Request, TaskStep(k)
        PROVE  store'[s] = None
    <3>1. CASE TaskSave(k) \/ TaskDelete(k)
      BY <1>1, <2>1, <3>1 DEF TaskSave, TaskDelete, Replace
    <3>2. CASE UNCHANGED store
      BY <1>1, <3>2
    <3> QED BY <2>4, <3>1, <3>2
        DEF TaskStep, TaskRead, TaskTouch, TaskCheck, TaskRefused, TaskFailed, TaskRefresh, redis
  <2>5. CASE Environment
    <3>1. CASE \E x \in Session : SessionTTL(x)
      BY <1>1, <2>1, <3>1 DEF SessionTTL
    <3>2. CASE UNCHANGED store
      BY <1>1, <3>2
    <3> QED BY <2>5, <3>1, <3>2
        DEF Environment, NearsExpiry, TokenEnds, RefreshTokenEnds, BearerTTL, StateTTL, Crash, redis
  <2> QED BY <1>1, <2>2, <2>3, <2>4, <2>5 DEF Next
<1>2. IndInv /\ [Next]_vars => [\A s \in minted : store[s] = None => store'[s] = None]_vars
  BY <1>1
<1> QED BY <1>2, Invariance, PTL DEF Spec, LoggedOutStaysOut

-----------------------------------------------------------------------------
(* One API process.                                                        *)

\* The user center accepts no token again that it has refused.
Lapses ==
  /\ \A t \in valid' : t \in valid \/ issued < t
  /\ \A t \in refreshable' : t \in refreshable \/ issued < t

LEMMA LapsesAlways == IndInv /\ [Next]_vars => Lapses
<1> SUFFICES ASSUME IndInv, [Next]_vars
             PROVE  Lapses
  OBVIOUS
<1>1. ASSUME NEW t \in Token, Issue(t), refreshable' \subseteq refreshable \cup {t}
      PROVE  Lapses
  BY <1>1, TokenIssued DEF Lapses, Issue
<1>2. CASE Browser
  BY <1>1, <1>2
  DEF Browser, LoginUrl, SendCookies, SendBearer, Receive, LoseResponse, PortalLogin,
      PortalLogout, center, Lapses
<1>3. ASSUME NEW r \in Request, RequestStep(r)
      PROVE  Lapses
  <2>1. CASE \E t \in Token : Exchange(r, t)
    BY <1>1, <2>1 DEF Exchange
  <2>2. CASE Revoke(r)
    BY <2>2 DEF Revoke, Lapses
  <2>3. CASE UNCHANGED center
    BY <2>3 DEF center, Lapses
  <2> QED BY <1>3, <2>1, <2>2, <2>3
      DEF RequestStep, GetSession, StoreDown, TouchSession, JoinRefresh, CheckPortal, MintPortal,
          PopSession, PopFails, DropSession, Uncache, PopState, ExchangeFails, OpenSession,
          BearerCached, BearerCheck, BearerCache
<1>4. ASSUME NEW k \in Request, TaskStep(k)
      PROVE  Lapses
  <2>1. CASE \E t \in Token : TaskRefresh(k, t)
    BY <1>1, <2>1 DEF TaskRefresh
  <2>2. CASE TaskFailed(k)
    BY <2>2 DEF TaskFailed, Lapses
  <2>3. CASE UNCHANGED center
    BY <2>3 DEF center, Lapses
  <2> QED BY <1>4, <2>1, <2>2, <2>3
      DEF TaskStep, TaskRead, TaskTouch, TaskCheck, TaskRefused, TaskSave, TaskDelete
<1>5. CASE Environment
  BY <1>5 DEF Environment, NearsExpiry, TokenEnds, RefreshTokenEnds, BearerTTL, SessionTTL,
              StateTTL, Crash, center, Lapses
<1>6. CASE UNCHANGED vars
  BY <1>6 DEF vars, center, Lapses
<1> QED BY <1>2, <1>3, <1>4, <1>5, <1>6 DEF Next

LEMMA StillRefuses ==
  ASSUME IndInv, Lapses, NEW rec \in Record, Fits(rec, issued), Refuses(rec)
  PROVE  Refuses(rec)'
<1>1. rec.access \in Token /\ rec.refresh \in Token \cup {None} /\ issued \in Nat
  BY MaxTokenAssumption DEF Record, IndInv, Rest
<1>0. \A t \in Token : t <= issued => ~(issued < t)
  BY <1>1, Values
<1>2. ~(issued < rec.access)
  BY <1>0, <1>1, Zenon DEF Fits
<1>3. rec.refresh # None => ~(issued < rec.refresh)
  BY <1>0, <1>1, Zenon DEF Fits
<1> QED BY <1>2, <1>3 DEF Refuses, Lapses

\* A task that stays where it is, or ends, and whose record is not renewed.
LEMMA OwnsKept ==
  ASSUME IndInv, Lapses, NEW k \in Request, Owns(k),
         task'[k].pc \in Working =>
           task'[k] = task[k] /\ store'[task[k].sid] \in {store[task[k].sid], None}
  PROVE  Owns(k)'
<1>1. CASE task'[k].pc \notin Working
  BY <1>1 DEF Owns, Working
<1>2. CASE task'[k].pc \in Working
  <2>1. task'[k] = task[k] /\ store'[task[k].sid] \in {store[task[k].sid], None}
    BY <1>2
  <2>2. task[k].rec \in Record /\ Fits(task[k].rec, issued)
    BY <1>2, <2>1, TaskHere DEF TaskOK, Working
  <2>3. PICK rec \in Record : rec = task[k].rec
    BY <2>2
  <2>4. Refuses(rec) => Refuses(rec)'
    BY <2>2, <2>3, StillRefuses
  <2>5. task[k].pc = "delete" => Refuses(rec)
    BY <2>3 DEF Owns
  <2>6. task'[k].pc = "delete" => Refuses(rec)'
    BY <2>1, <2>4, <2>5
  <2>7. task'[k].rec = rec
    BY <2>1, <2>3
  <2>8. task'[k].pc = "delete" => Refuses(task[k].rec)'
    BY <2>6, <2>7 DEF Refuses
  <2> QED BY <1>2, <2>1, <2>8 DEF Owns
<1> QED BY <1>1, <1>2

\* Requests, the browser and the environment renew no record.
LEMMA OthersOwn ==
  ASSUME IndInv, Lapses, OwnInv,
         Browser \/ Environment \/ UNCHANGED vars \/ \E r \in Request : RequestStep(r)
  PROVE  OwnInv'
<1> SUFFICES ASSUME NEW k \in Request
             PROVE  Owns(k)'
  BY DEF OwnInv
<1>1. Owns(k)
  BY DEF OwnInv
<1>2. task[k].pc \in Working => task[k].sid \in Session /\ task[k].sid \in minted
  BY TaskHere DEF Working
<1>3. store \in [Session -> Stored] /\ task \in [Request -> Task]
  BY DEF IndInv, Core
<1>4. ASSUME UNCHANGED <<store, task>>
      PROVE  Owns(k)'
  BY <1>1, <1>4, OwnsKept
<1>5. ASSUME UNCHANGED task, \A s \in minted : store'[s] \in {store[s], None}
      PROVE  Owns(k)'
  BY <1>1, <1>2, <1>5, OwnsKept
<1>6. CASE Browser \/ UNCHANGED vars
  BY <1>4, <1>6 DEF Browser, LoginUrl, SendCookies, SendBearer, Receive, LoseResponse,
                    PortalLogin, PortalLogout, redis, vars
<1>7. ASSUME NEW r \in Request, RequestStep(r)
      PROVE  Owns(k)'
  <2>1. CASE JoinRefresh(r)
    <3>1. task'[k] = task[k] \/ task'[k].pc = "read"
      BY <1>3, <2>1 DEF JoinRefresh
    <3> QED BY <1>1, <2>1, <3>1, OwnsKept DEF JoinRefresh, redis, Working
  <2>2. CASE \E x \in Session : MintPortal(r, x) \/ OpenSession(r, x)
    BY <1>3, <1>5, <2>2 DEF MintPortal, OpenSession, IndInv, Rest
  <2>3. CASE PopSession(r) \/ DropSession(r)
    BY <1>3, <1>5, <2>3 DEF PopSession, DropSession, IndInv, Rest
  <2>4. CASE UNCHANGED <<store, task>>
    BY <1>4, <2>4
  <2> QED BY <1>7, <2>1, <2>2, <2>3, <2>4
      DEF RequestStep, GetSession, StoreDown, TouchSession, CheckPortal, PopFails, Revoke,
          Uncache, PopState, Exchange, ExchangeFails, BearerCached, BearerCheck, BearerCache, redis
<1>8. CASE Environment
  <2>1. CASE \E s \in Session : SessionTTL(s)
    BY <1>3, <1>5, <2>1 DEF SessionTTL, IndInv, Rest
  <2>2. CASE \E p \in Process : Crash(p)
    <3>1. task'[k] \in {task[k], IdleTask} /\ UNCHANGED store
      BY <1>3, <2>2 DEF Crash, redis
    <3> QED BY <1>1, <3>1, Idle, OwnsKept DEF Working
  <2>3. CASE UNCHANGED <<store, task>>
    BY <1>4, <2>3
  <2> QED BY <1>8, <2>1, <2>2, <2>3
      DEF Environment, NearsExpiry, TokenEnds, RefreshTokenEnds, BearerTTL, StateTTL, redis
<1> QED BY <1>6, <1>7, <1>8

\* A step of a task does not touch what the task of another session owns.
LEMMA TaskOwns ==
  ASSUME OneProcess, IndInv, Lapses, OwnInv, NEW j \in Request, TaskStep(j)
  PROVE  OwnInv'
<1> SUFFICES ASSUME NEW k \in Request
             PROVE  Owns(k)'
  BY DEF OwnInv
<1>1. Owns(k) /\ Owns(j)
  BY DEF OwnInv
<1>2. store \in [Session -> Stored] /\ task \in [Request -> Task]
  BY DEF IndInv, Core
<1>3. task[j].pc # "none"
  BY DEF TaskStep, TaskRead, TaskTouch, TaskCheck, TaskRefused, TaskFailed, TaskRefresh,
         TaskSave, TaskDelete
<1>4. \A x \in Request : x # j => task'[x] = task[x]
  BY <1>2 DEF TaskStep, TaskRead, TaskTouch, TaskCheck, TaskRefused, TaskFailed, TaskRefresh,
              TaskSave, TaskDelete, Finish, TaskGoto
<1>5. \A s \in Session : s # task[j].sid => store'[s] = store[s]
  BY <1>2 DEF TaskStep, TaskRead, TaskTouch, TaskCheck, TaskRefused, TaskFailed, TaskRefresh,
              TaskSave, TaskDelete, redis
<1>6. CASE k # j
  <2>1. task[k].pc # "none" => task[k].sid # task[j].sid
    BY <1>3, <1>6 DEF IndInv, Tasks, Runs, OneProcess
  <2>2. task[k].pc # "none" => task[k].sid \in Session
    BY TaskHere
  <2> QED BY <1>1, <1>4, <1>5, <1>6, <2>1, <2>2, OwnsKept DEF Working
<1>7. ASSUME \E rec : Finish(j, rec)
      PROVE  Owns(j)'
  <2>1. task'[j].pc = "none"
    BY <1>2, <1>7, Idle DEF Finish
  <2> QED BY <2>1 DEF Owns, Working
<1>8. ASSUME NEW t \in Task, task' = [task EXCEPT ![j] = t], task[j].pc = "call",
             t.rec = task[j].rec, t.sid = task[j].sid, UNCHANGED store,
             t.pc = "delete" => Refuses(task[j].rec)
      PROVE  Owns(j)'
  <2>1. task'[j] = t
    BY <1>2, <1>8
  <2>2. task[j].rec \in Record /\ Fits(task[j].rec, issued)
    BY <1>8, TaskHere DEF TaskOK, Working
  <2>3. PICK rec \in Record : rec = task[j].rec
    BY <2>2
  <2>4. t.pc = "delete" => Refuses(rec)'
    BY <1>8, <2>2, <2>3, StillRefuses
  <2>5. store[t.sid] \in {None, rec}
    BY <1>1, <1>8, <2>3 DEF Owns, Working
  <2> QED BY <1>8, <2>1, <2>3, <2>4, <2>5 DEF Owns, Refuses
<1>9. Owns(j)'
  <2>1. CASE \E rec : Finish(j, rec)
    BY <1>7, <2>1
  <2>2. CASE TaskRead(j) /\ ~\E rec : Finish(j, rec)
    <3>1. /\ task'[j].rec = store[task[j].sid] /\ task'[j].sid = task[j].sid
          /\ task'[j].pc \in {"touch", "call"} /\ UNCHANGED store
      BY <1>2, <2>2 DEF TaskRead, redis, Task
    <3> QED BY <3>1 DEF Owns
  <2>3. CASE TaskCheck(j) /\ ~\E rec : Finish(j, rec)
    <3>1. task[j] \in Task /\ task[j].rec \in AnyRecord
      BY <1>2 DEF Task
    <3>2. CASE task' = [task EXCEPT ![j].pc = "save", ![j].new = task[j].rec]
      <4> DEFINE t == [task[j] EXCEPT !.pc = "save", !.new = task[j].rec]
      <4>1. t \in Task /\ t.pc = "save" /\ t.rec = task[j].rec /\ t.sid = task[j].sid
        BY <3>1 DEF Task
      <4>2. task' = [task EXCEPT ![j] = t]
        BY <3>2
      <4> HIDE DEF t
      <4> QED BY <1>8, <2>3, <4>1, <4>2 DEF TaskCheck, redis
    <3>3. CASE task[j].rec.access \notin valid /\ TaskGoto(j, "delete")
      <4> DEFINE t == [task[j] EXCEPT !.pc = "delete"]
      <4>1. t \in Task /\ t.pc = "delete" /\ t.rec = task[j].rec /\ t.sid = task[j].sid
        BY <3>1 DEF Task
      <4>2. task' = [task EXCEPT ![j] = t]
        BY <3>3 DEF TaskGoto
      <4>3. Refuses(task[j].rec)
        BY <2>3, <3>3 DEF TaskCheck, Refuses
      <4> HIDE DEF t
      <4> QED BY <1>8, <2>3, <4>1, <4>2, <4>3 DEF TaskCheck, redis
    <3> QED BY <2>3, <3>2, <3>3 DEF TaskCheck
  <2>4. CASE TaskRefused(j)
    <3> DEFINE t == [task[j] EXCEPT !.pc = "delete"]
    <3>1. t \in Task /\ t.pc = "delete" /\ t.rec = task[j].rec /\ t.sid = task[j].sid
      BY <1>2 DEF Task
    <3>2. task' = [task EXCEPT ![j] = t]
      BY <2>4 DEF TaskRefused, TaskGoto
    <3>3. Refuses(task[j].rec)
      BY <2>4 DEF TaskRefused, Refuses
    <3> HIDE DEF t
    <3> QED BY <1>8, <2>4, <3>1, <3>2, <3>3 DEF TaskRefused, redis
  <2>5. ASSUME NEW u \in Token, TaskRefresh(j, u)
        PROVE  Owns(j)'
    <3>1. PICK old \in {u, task[j].rec.refresh} :
            task' = [task EXCEPT ![j].pc = "save",
                       ![j].new = [access |-> u, refresh |-> old, source |-> "oauth"]]
      BY <2>5 DEF TaskRefresh
    <3>2. old \in Token
      BY <2>5 DEF TaskRefresh, IndInv, Rest
    <3> DEFINE new == [access |-> u, refresh |-> old, source |-> "oauth"]
               t == [task[j] EXCEPT !.pc = "save", !.new = new]
    <3>3. new \in AnyRecord
      BY <3>2 DEF AnyRecord, Record, Source
    <3>4. task' = [task EXCEPT ![j] = t]
      BY <3>1
    <3> HIDE DEF new
    <3>5. t \in Task /\ t.pc = "save" /\ t.rec = task[j].rec /\ t.sid = task[j].sid
      BY <1>2, <3>3 DEF Task
    <3> HIDE DEF t
    <3> QED BY <1>8, <2>5, <3>4, <3>5 DEF TaskRefresh, redis
  <2> QED BY <2>1, <2>2, <2>3, <2>4, <2>5
      DEF TaskStep, TaskTouch, TaskFailed, TaskSave, TaskDelete
<1> QED BY <1>6, <1>9

(* With one API process a refresh deletes a session only while the tokens  *)
(* the session holds are refused, never one that was renewed meanwhile.    *)
THEOREM DeletesHold ==
  ASSUME OneProcess
  PROVE  Spec => DeletesOnlyDead
<1>1. Init => OwnInv
  BY DEF Init, OwnInv, Owns, IdleTask, Working
<1>2. IndInv /\ OwnInv /\ [Next]_vars => OwnInv'
  BY LapsesAlways, OthersOwn, TaskOwns DEF Next
<1>3. ASSUME OwnInv, NEW k \in Request, TaskDelete(k), store[task[k].sid] # None
      PROVE  Refuses(store[task[k].sid])
  BY <1>3 DEF OwnInv, Owns, TaskDelete, Working
<1>4. OwnInv /\ [Next]_vars =>
        [\A k \in Request :
           TaskDelete(k) =>
             LET rec == store[task[k].sid] IN
             rec # None => IF rec.refresh = None THEN rec.access \notin valid
                           ELSE rec.refresh \notin refreshable]_vars
  BY <1>3 DEF Refuses
<1> QED BY <1>1, <1>2, <1>4, Invariance, PTL DEF Spec, DeletesOnlyDead

-----------------------------------------------------------------------------
(***************************************************************************)
(* The refinement of SessionLife, with one process.  A refresh reads the   *)
(* record, calls the user center and writes; that is one operation because *)
(* the task owns the record (OwnInv) and what it is about to write is made *)
(* from that record.                                                       *)
(***************************************************************************)

\* What a refresh makes of a record.
Renews(rec, new) ==
  \/ new = rec
  \/ /\ rec.refresh # None /\ new.source = rec.source
     /\ rec.access < new.access
     /\ new.refresh \in {rec.refresh, new.access}

SaveInv == \A k \in Request : task[k].pc = "save" => Renews(task[k].rec, task[k].new)

\* A task saves what its call gave it.
LEMMA SaveStep == IndInv /\ SaveInv /\ [Next]_vars => SaveInv'
<1> SUFFICES ASSUME IndInv, SaveInv, [Next]_vars, NEW k \in Request
             PROVE  task'[k].pc = "save" => Renews(task'[k].rec, task'[k].new)
  BY DEF SaveInv, Renews
<1>1. task \in [Request -> Task]
  BY DEF IndInv, Core
<1>2. CASE task'[k] = task[k] \/ task'[k].pc # "save"
  BY <1>2 DEF SaveInv
<1>3. CASE Browser \/ UNCHANGED vars
  BY <1>2, <1>3 DEF Browser, LoginUrl, SendCookies, SendBearer, Receive, LoseResponse,
                    PortalLogin, PortalLogout, vars
<1>4. ASSUME NEW r \in Request, RequestStep(r)
      PROVE  task'[k] = task[k] \/ task'[k].pc # "save"
  <2>1. CASE JoinRefresh(r)
    BY <1>1, <2>1 DEF JoinRefresh
  <2>2. CASE UNCHANGED task
    BY <2>2
  <2> QED BY <1>4, <2>1, <2>2
      DEF RequestStep, GetSession, StoreDown, TouchSession, CheckPortal, MintPortal, PopSession,
          PopFails, DropSession, Revoke, Uncache, PopState, Exchange, ExchangeFails, OpenSession,
          BearerCached, BearerCheck, BearerCache
<1>5. CASE Environment
  <2>1. task'[k] \in {task[k], IdleTask}
    BY <1>1, <1>5 DEF Environment, NearsExpiry, TokenEnds, RefreshTokenEnds, BearerTTL,
                      SessionTTL, StateTTL, Crash
  <2> QED BY <1>2, <2>1, Idle
<1>6. ASSUME NEW j \in Request, TaskStep(j), task'[k] # task[k], task'[k].pc = "save"
      PROVE  Renews(task'[k].rec, task'[k].new)
  <2>1. ASSUME NEW rec, Finish(j, rec)
        PROVE  FALSE
    <3>1. task'[k] \in {task[k], IdleTask}
      BY <1>1, <2>1 DEF Finish
    <3> QED BY <1>6, <3>1, Idle
  <2>2. CASE TaskRead(j) /\ ~\E rec : Finish(j, rec)
    <3>1. task'[j].pc \in {"touch", "call"}
      BY <1>1, <2>2 DEF TaskRead, Task
    <3>2. k # j => task'[k] = task[k]
      BY <1>1, <2>2 DEF TaskRead
    <3> QED BY <1>6, <3>1, <3>2
  <2>3. CASE TaskCheck(j) /\ ~\E rec : Finish(j, rec)
    <3>1. j = k /\ task'[k].new = task'[k].rec
      BY <1>1, <1>6, <2>3 DEF TaskCheck, TaskGoto, Task
    <3> QED BY <3>1 DEF Renews
  <2>4. CASE TaskRefused(j)
    BY <1>1, <1>6, <2>4 DEF TaskRefused, TaskGoto
  <2>5. ASSUME NEW t \in Token, TaskRefresh(j, t)
        PROVE  Renews(task'[k].rec, task'[k].new)
    <3>1. /\ j = k /\ task'[k].rec = task[k].rec
          /\ task'[k].new.access = t /\ task'[k].new.source = "oauth"
          /\ task'[k].new.refresh \in {task[k].rec.refresh, t}
      BY <1>1, <1>6, <2>5 DEF TaskRefresh, Task
    <3>2. task[k].rec \in Record /\ Fits(task[k].rec, issued) /\ task[k].rec.refresh \in Token
      BY <2>5, <3>1 DEF TaskRefresh, IndInv, Rest, Tasks, TaskOK, Working
    <3>3. task[k].rec.refresh # None /\ task[k].rec.source = "oauth"
      BY <3>2, Values DEF Fits, Record, Source
    <3>4. task[k].rec.access < t
      BY <2>5, <3>2, TokenIssued, MaxTokenAssumption DEF TaskRefresh, Fits, Record, Token, IndInv, Rest
    <3> QED BY <3>1, <3>3, <3>4 DEF Renews
  <2> QED BY <1>6, <2>1, <2>2, <2>3, <2>4, <2>5
      DEF TaskStep, TaskTouch, TaskFailed, TaskSave, TaskDelete
<1> QED BY <1>2, <1>3, <1>4, <1>5, <1>6 DEF Next

\* Every step opens, renews or ends one session, or is not seen.
LEMMA LifeStep ==
  IndInv /\ OwnInv /\ SaveInv /\ [Next]_vars => [Sessions!Next]_Sessions!vars
<1> SUFFICES ASSUME IndInv, OwnInv, SaveInv, [Next]_vars
             PROVE  Sessions!Next \/ UNCHANGED <<store, minted>>
  BY DEF Sessions!vars
<1>1. store \in [Session -> Stored]
  BY DEF IndInv, Core
<1>2. ASSUME NEW s \in Session, store' = [store EXCEPT ![s] = None], UNCHANGED minted
      PROVE  Sessions!Next \/ UNCHANGED <<store, minted>>
  <2>1. CASE store[s] = None
    BY <1>1, <1>2, <2>1
  <2>2. CASE store[s] # None
    BY <1>2, <2>2 DEF Sessions!Next, Sessions!End
  <2> QED BY <2>1, <2>2
<1>3. ASSUME NEW s \in Session, NEW rec \in Record, s \notin minted,
             minted' = minted \cup {s}, store' = [store EXCEPT ![s] = rec]
      PROVE  Sessions!Next
  BY <1>3 DEF Sessions!Next, Sessions!Open
<1>4. CASE Browser \/ UNCHANGED vars
  BY <1>4 DEF Browser, LoginUrl, SendCookies, SendBearer, Receive, LoseResponse, PortalLogin,
              PortalLogout, redis, vars
<1>5. ASSUME NEW r \in Request, RequestStep(r)
      PROVE  Sessions!Next \/ UNCHANGED <<store, minted>>
  <2>0. req[r] \in Req /\ ReqOK(req[r], issued)
    BY DEF IndInv, Core, Requests
  <2>1. ASSUME NEW s \in Session, MintPortal(r, s)
        PROVE  Sessions!Next
    <3>1. PICK rec \in Record : store' = [store EXCEPT ![s] = rec]
      BY <2>0, <2>1 DEF MintPortal, ReqOK, Record, Source, At
    <3> QED BY <1>3, <2>1, <3>1 DEF MintPortal
  <2>2. ASSUME NEW s \in Session, OpenSession(r, s)
        PROVE  Sessions!Next
    <3>1. req[r].ctx \in Record
      BY <2>0, <2>2 DEF OpenSession, ReqOK, At
    <3> QED BY <1>3, <2>2, <3>1 DEF OpenSession
  <2>3. CASE PopSession(r) \/ DropSession(r)
    <3>1. req[r].sid \in Session
      BY <2>0, <2>3 DEF PopSession, DropSession, ReqOK, At
    <3> QED BY <1>2, <2>3, <3>1 DEF PopSession, DropSession
  <2>4. CASE UNCHANGED <<store, minted>>
    BY <2>4
  <2> QED BY <1>5, <2>1, <2>2, <2>3, <2>4
      DEF RequestStep, GetSession, StoreDown, TouchSession, JoinRefresh, CheckPortal, PopFails,
          Revoke, Uncache, PopState, Exchange, ExchangeFails, BearerCached, BearerCheck,
          BearerCache, redis
<1>6. ASSUME NEW k \in Request, TaskStep(k)
      PROVE  Sessions!Next \/ UNCHANGED <<store, minted>>
  <2>1. ASSUME TaskSave(k)
        PROVE  Sessions!Next \/ UNCHANGED <<store, minted>>
    <3>1. PICK s \in Session : s = task[k].sid
      BY <2>1 DEF TaskSave, IndInv, Tasks, Runs
    <3>2. PICK new \in Record : new = task[k].new
      BY <2>1 DEF TaskSave, IndInv, Tasks, TaskOK
    <3>3. /\ store' = [store EXCEPT ![s] = Replace(store[s], new)] /\ UNCHANGED minted
          /\ store[s] = None \/ (store[s] = task[k].rec /\ Renews(task[k].rec, new))
      BY <2>1, <3>1, <3>2 DEF TaskSave, OwnInv, Owns, SaveInv, Working
    <3>4. CASE store[s] = None \/ store[s] = new
      BY <1>1, <3>3, <3>4 DEF Replace
    <3>5. CASE store[s] # None /\ store[s] # new
      <4>1. Sessions!Renew(s, new)
        BY <3>3, <3>5 DEF Sessions!Renew, Renews, Replace
      <4> QED BY <4>1 DEF Sessions!Next
    <3> QED BY <3>4, <3>5
  <2>2. CASE TaskDelete(k)
    <3>1. task[k].sid \in Session
      BY <2>2 DEF TaskDelete, IndInv, Tasks, Runs
    <3> QED BY <1>2, <2>2, <3>1 DEF TaskDelete
  <2>3. CASE UNCHANGED <<store, minted>>
    BY <2>3
  <2> QED BY <1>6, <2>1, <2>2, <2>3
      DEF TaskStep, TaskRead, TaskTouch, TaskCheck, TaskRefused, TaskFailed, TaskRefresh, redis
<1>7. CASE Environment
  <2>1. ASSUME NEW s \in Session, SessionTTL(s)
        PROVE  Sessions!Next \/ UNCHANGED <<store, minted>>
    BY <1>2, <2>1 DEF SessionTTL
  <2>2. CASE UNCHANGED <<store, minted>>
    BY <2>2
  <2> QED BY <1>7, <2>1, <2>2
      DEF Environment, NearsExpiry, TokenEnds, RefreshTokenEnds, BearerTTL, StateTTL, Crash, redis
<1> QED BY <1>4, <1>5, <1>6, <1>7 DEF Next

(* With one API process a slow refresh, however late it writes, makes its  *)
(* record from the one it replaces, and opens no session again.            *)
THEOREM SessionsImplemented ==
  ASSUME OneProcess
  PROVE  Spec => ImplementsSessions
<1>1. Init => OwnInv /\ SaveInv /\ Sessions!Init
  BY DEF Init, OwnInv, Owns, SaveInv, IdleTask, Working, Sessions!Init
<1>2. IndInv /\ OwnInv /\ [Next]_vars => OwnInv'
  BY LapsesAlways, OthersOwn, TaskOwns DEF Next
<1> QED BY <1>1, <1>2, SaveStep, LifeStep, Invariance, PTL
    DEF Spec, ImplementsSessions, Sessions!Spec

=============================================================================
