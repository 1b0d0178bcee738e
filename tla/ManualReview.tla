---------------------------- MODULE ManualReview ----------------------------
(***************************************************************************)
(* The production manual-review service: cases that the graph-build        *)
(* pipeline reports, reviewers who claim, edit and decide them, a second   *)
(* person who approves risky decisions, a transactional outbox that asks   *)
(* graph-build to resume, and the callbacks that close the case.           *)
(*                                                                         *)
(* A request handler is one SQLAlchemy session.  It reads the rows it      *)
(* needs, checks its guards and computes what the unit of work will flush  *)
(* (`Stage'); the flush reaches MySQL when the session commits (the        *)
(* Commit... actions).  Between the two, other processes may commit: the   *)
(* handlers never lock the row and their UPDATE names only the primary     *)
(* key, so the last commit wins column by column.  A column set to the     *)
(* value that was read is left out of the UPDATE (`Change').  `claim' is   *)
(* the exception: it is one conditional UPDATE.                            *)
(*                                                                         *)
(* The outbox worker holds a session open across the HTTP call to          *)
(* graph-build, so its window is as long as that call.                     *)
(***************************************************************************)
EXTENDS ReviewDomain, Sequences, FiniteSets

CONSTANTS
    Case,          \* review cases, one per business key
    User,          \* people who use the review pages
    Reviewer,      \* those with a reviewer role
    Approver,      \* those with the approver role
    Admin,         \* those with the review_admin role
    P0,            \* the cases whose risk level is P0
    Api,           \* API processes (one event loop each)
    Worker,        \* processes that run process_outbox
    NoUser,        \* a NULL assignee
    Keep,          \* a column that an UPDATE leaves out
    SlowDispatch,  \* a live worker may outlast the outbox lock timeout
    MaxAttempts,   \* REVIEW_RESUME_MAX_ATTEMPTS
    Requests,      \* bound: what people do: kinds of request, and "idle"
    Emits,         \* bound: the types of event graph-build sends
    MaxVersion,    \* bound: no claim or edit from this row version on
    MaxRows,       \* bound: outbox rows (and so corrections) of a case
    MaxRuns        \* bound: runs graph-build starts for one correction

ASSUME RolesAssumption ==
    /\ Reviewer \subseteq User /\ Approver \subseteq User /\ Admin \subseteq User
    /\ P0 \subseteq Case
    /\ NoUser \notin User
ASSUME BoundAssumption ==
    /\ MaxAttempts \in Nat \ {0}
    /\ MaxVersion \in Nat /\ MaxRows \in Nat /\ MaxRuns \in Nat
    /\ SlowDispatch \in BOOLEAN

VARIABLES
    row,         \* manual_review_case: status, assignee, version, age of the heartbeat
    decision,    \* manual_review_decision, in id order
    correction,  \* manual_review_correction, in creation order
    outbox,      \* manual_review_outbox, in creation order
    execution,   \* manual_review_execution: the ids <<correction, run>> on record
    event,       \* manual_review_execution_event: <<execution, type, sender>>
    tx,          \* the session a process has read for and not yet committed
    delivery,    \* where a worker is in process_outbox
    build        \* graph-build (external): the runs it has started

tables == <<row, decision, correction, outbox, execution, event>>
vars == <<tables, tx, delivery, build>>

Proc == Api \cup Worker
Index == Nat \ {0}
ExecId == (1..MaxRows) \X (1..MaxRuns)

Beat == {"none", "fresh", "stale"}
RowType == [status: Status, assignee: User \cup {NoUser}, version: Nat, beat: Beat]
DecisionType == [by: User, needs: BOOLEAN, approver: User \cup {NoUser},
                 status: {"PENDING_APPROVAL", "APPROVED", "REJECTED"}]
CorStatus == {"PENDING", "DISPATCHED", "APPLIED"}
CorrectionType == [decision: Index, status: CorStatus]
OutStatus == {"PENDING", "PROCESSING", "RETRY", "DONE", "DEAD"}
OutType == [cor: Index, status: OutStatus, attempts: Nat]
Sender == {"graph", "admin"}
EventRow == ExecId \X EventType \X Sender
RunState == {"none", "accepted", "started", "succeeded", "failed", "verified", "unverified"}

ASSUME KeepAssumption ==
    Keep \notin Status \cup User \cup {NoUser} \cup Beat \cup CorStatus \cup OutStatus

(***************************************************************************)
(* A staged unit of work: the new values of the columns of the case, and   *)
(* what goes with them to the other tables.                                *)
(***************************************************************************)
SetType == [status: Status \cup {Keep}, assignee: User \cup {NoUser, Keep},
            version: Nat, beat: Beat \cup {Keep}]
RowUnit == [kind: {"row"}, case: Case, set: SetType]
DecisionUnit == [kind: {"decision"}, case: Case, set: SetType,
                 at: Nat, dec: DecisionType, enqueue: BOOLEAN]
RetryUnit == [kind: {"retry"}, case: Case, set: SetType,
              cor: Index, corSet: CorStatus \cup {Keep}]
EventUnit == [kind: {"event"}, case: Case, set: SetType, exe: ExecId, insert: BOOLEAN,
              type: EventType, src: Sender, cor: Nat, corSet: CorStatus \cup {Keep}]
FailureUnit == [kind: {"failure"}, case: Case, set: SetType, ob: Index,
                obSet: OutStatus \cup {Keep}, attempts: Nat,
                cor: Index, corSet: CorStatus \cup {Keep}]
NoTx == [kind |-> "none"]
UnitType == {NoTx} \cup RowUnit \cup DecisionUnit \cup RetryUnit \cup EventUnit \cup FailureUnit

\* What the worker's session read before it awaited graph-build.
SawType == [status: Status, version: Nat, cor: CorStatus, known: SUBSET ExecId]
NoAnswer == <<0, 0>>
Idle == [phase |-> "idle"]
ClaimedPhase == [phase: {"claimed"}, case: Case, ob: Index]
SentPhase == [phase: {"sent"}, case: Case, ob: Index, saw: SawType,
              answer: ExecId \cup {NoAnswer}]
DeliveryType == {Idle} \cup ClaimedPhase \cup SentPhase

TypeOK ==
    /\ row \in [Case -> RowType]
    /\ decision \in [Case -> Seq(DecisionType)]
    /\ correction \in [Case -> Seq(CorrectionType)]
    /\ outbox \in [Case -> Seq(OutType)]
    /\ execution \in [Case -> SUBSET ExecId]
    /\ event \in [Case -> SUBSET EventRow]
    /\ tx \in [Proc -> UnitType]
    /\ delivery \in [Worker -> DeliveryType]
    /\ build \in [Case -> [ExecId -> RunState]]

Init ==
    /\ row = [c \in Case |-> [status |-> "ABSENT", assignee |-> NoUser,
                              version |-> 0, beat |-> "none"]]
    /\ decision = [c \in Case |-> <<>>]
    /\ correction = [c \in Case |-> <<>>]
    /\ outbox = [c \in Case |-> <<>>]
    /\ execution = [c \in Case |-> {}]
    /\ event = [c \in Case |-> {}]
    /\ tx = [p \in Proc |-> NoTx]
    /\ delivery = [w \in Worker |-> Idle]
    /\ build = [c \in Case |-> [x \in ExecId |-> "none"]]

-----------------------------------------------------------------------------
(* The unit of work *)

\* What the UPDATE carries for a column read as `seen' and assigned `new'.
Change(seen, new) == IF new = seen THEN Keep ELSE new
\* The column after an UPDATE that carries `set' for it.
MutantWrite(cur, set) == set
Write(cur, set) == IF set = Keep THEN cur ELSE set

\* Every handler that changes a case also moves its version one up from the
\* version it read.  A heartbeat time is a new value each time it is assigned.
RowSet(c, status, assignee, beat) ==
    [status |-> Change(row[c].status, status),
     assignee |-> Change(row[c].assignee, assignee),
     version |-> row[c].version + 1,
     beat |-> beat]
StatusSet(c, status) == RowSet(c, status, row[c].assignee, Keep)

Flushed(r, set) ==
    [status |-> Write(r.status, set.status),
     assignee |-> Write(r.assignee, set.assignee),
     version |-> set.version,
     beat |-> Write(r.beat, set.beat)]

Stage(p, unit) ==
    /\ tx[p] = NoTx
    /\ tx' = [tx EXCEPT ![p] = unit]
    /\ UNCHANGED <<tables, build>>

\* A request of some kind on an existing case.
Request(kind, p, c) ==
    /\ kind \in Requests
    /\ p \in Api
    /\ row[c].status # "ABSENT"
    /\ UNCHANGED delivery

CanReview(u) == u \in Reviewer \cup Admin
CanApprove(u) == u \in Approver \cup Admin
IsAdmin(u) == u \in Admin
Owned(c, u) == row[c].assignee = u \/ IsAdmin(u)

-----------------------------------------------------------------------------
(* Reporting and claiming *)

\* The two unique keys make a second report of the same exception return the
\* case that is there; only the first one inserts.
CreateReviewRequired(p, c) ==
    /\ tx[p] = NoTx
    /\ row[c].status = "ABSENT"
    /\ row' = [row EXCEPT ![c] = [@ EXCEPT !.status = "OPEN", !.version = 1]]
    /\ UNCHANGED <<decision, correction, outbox, execution, event, tx, delivery, build>>

\* One conditional UPDATE: the only compare-and-set of the service.
ClaimCase(p, c, u) ==
    /\ tx[p] = NoTx
    /\ CanReview(u)
    /\ "claim" \in Requests
    /\ row[c].status = "OPEN"
    /\ row[c].version < MaxVersion
    /\ row' = [row EXCEPT ![c] = [status |-> "CLAIMED", assignee |-> u,
                                  version |-> @.version + 1, beat |-> "fresh"]]
    /\ UNCHANGED <<decision, correction, outbox, execution, event, tx, delivery, build>>

-----------------------------------------------------------------------------
(* Requests that go through `mutate': owner or admin, version, no status guard *)

Mutate(kind, p, c, set) ==
    /\ Request(kind, p, c)
    /\ row[c].version < MaxVersion
    /\ Stage(p, [kind |-> "row", case |-> c, set |-> set])

Heartbeat(p, c, u) ==
    /\ row[c].assignee = u
    /\ Mutate("heartbeat", p, c, RowSet(c, row[c].status, row[c].assignee, "fresh"))

Release(p, c, u) ==
    /\ row[c].assignee = u
    /\ Mutate("release", p, c, RowSet(c, "OPEN", NoUser, "none"))

Transfer(p, c, u, to) ==
    /\ IsAdmin(u)
    /\ Mutate("transfer", p, c, RowSet(c, row[c].status, to, "fresh"))

Cancel(p, c, u) ==
    /\ IsAdmin(u)
    /\ Mutate("cancel", p, c, StatusSet(c, "CANCELLED"))

SaveDraft(p, c, u) ==
    /\ Owned(c, u)
    /\ row[c].status \in EditableStatuses
    /\ Mutate("draft", p, c, StatusSet(c, "IN_REVIEW"))

-----------------------------------------------------------------------------
(* Decisions *)

RequiresApproval(c, risky) == c \in P0 \/ risky

\* `risky' is a high-risk action or a high-value entity in the result.
Submit(p, c, u, risky) ==
    LET needs == RequiresApproval(c, risky)
    IN  /\ Owned(c, u)
        /\ row[c].status \in EditableStatuses
        /\ Len(outbox[c]) < MaxRows
        /\ Len(decision[c]) < MaxRows
        /\ Request("submit", p, c)
        /\ Stage(p, [kind |-> "decision", case |-> c,
                     set |-> StatusSet(c, IF needs THEN "PENDING_APPROVAL" ELSE "APPLYING"),
                     at |-> 0, enqueue |-> ~needs,
                     dec |-> [by |-> u, needs |-> needs, approver |-> NoUser,
                              status |-> IF needs THEN "PENDING_APPROVAL" ELSE "APPROVED"]])

Pending(c) == {i \in DOMAIN decision[c] : decision[c][i].status = "PENDING_APPROVAL"}

\* The reviewer's own decision is refused: d.submitted_by == a.user_id.
MutantMayDecide(u, d) == TRUE
MayDecide(u, d) == d.by # u

\* Decisions are read newest first.
MutantNewest(S) == CHOOSE i \in S : \A j \in S : i <= j
Newest(S) == CHOOSE i \in S : \A j \in S : j <= i

MutantDecided(d, u, ok) == [d EXCEPT !.approver = u]
Decided(d, u, ok) ==
    [d EXCEPT !.approver = u, !.status = IF ok THEN "APPROVED" ELSE "REJECTED"]

Approve(p, c, u, ok) ==
    /\ CanApprove(u)
    /\ row[c].status = "PENDING_APPROVAL"
    /\ Request("approve", p, c)
    /\ \E i \in Pending(c) :
        /\ i = Newest(Pending(c))
        /\ MayDecide(u, decision[c][i])
        /\ Stage(p, [kind |-> "decision", case |-> c,
                     set |-> StatusSet(c, IF ok THEN "APPLYING" ELSE "REJECTED"),
                     at |-> i, enqueue |-> ok,
                     dec |-> Decided(decision[c][i], u, ok)])

Retry(p, c) ==
    LET k == Len(correction[c])
    IN  /\ row[c].status \in RetryableStatuses
        /\ k > 0
        /\ Len(outbox[c]) < MaxRows
        /\ Request("retry", p, c)
        /\ Stage(p, [kind |-> "retry", case |-> c, set |-> StatusSet(c, "APPLYING"),
                     cor |-> k, corSet |-> Change(correction[c][k].status, "PENDING")])

-----------------------------------------------------------------------------
(* Callbacks of graph-build *)

Max0(S) == IF S = {} THEN 0 ELSE CHOOSE n \in S : \A m \in S : m <= n
LastStage(c, x) == Max0({EventStage[e[2]] : e \in {f \in event[c] : f[1] = x}})

\* Only a succeeded verification writes the correction, and it writes the
\* newest one, whichever correction the execution ran.
StageEvent(p, c, x, t, src) ==
    LET k == IF t = "VERIFICATION_SUCCEEDED" THEN Len(correction[c]) ELSE 0
    IN  /\ EventStage[t] >= LastStage(c, x)
        /\ row[c].status \in Allowed[t]
        /\ t = "VERIFICATION_SUCCEEDED" => k > 0
        /\ Stage(p, [kind |-> "event", case |-> c, set |-> StatusSet(c, Effect[t]),
                     exe |-> x, insert |-> x \notin execution[c], type |-> t, src |-> src,
                     cor |-> k,
                     corSet |-> IF k = 0 THEN Keep
                                ELSE Change(correction[c][k].status, "APPLIED")])

\* The events a run has emitted by now.  Each may arrive late, twice or never.
Emitted(s) ==
    (IF s # "none" THEN {"CORRECTION_ACCEPTED"} ELSE {})
      \cup (IF s \notin {"none", "accepted"} THEN {"RERUN_STARTED"} ELSE {})
      \cup (IF s \in {"succeeded", "verified", "unverified"}
              THEN {"RERUN_PROGRESS", "RERUN_SUCCEEDED"} ELSE {})
      \cup (IF s = "failed" THEN {"RERUN_FAILED"} ELSE {})
      \cup (IF s = "verified" THEN {"VERIFICATION_SUCCEEDED"} ELSE {})
      \cup (IF s = "unverified" THEN {"VERIFICATION_FAILED"} ELSE {})

ExecutionEvent(p, c, x, t) ==
    /\ p \in Api
    /\ t \in Emitted(build[c][x]) \cap Emits
    /\ <<x, t, "graph">> \notin event[c]
    /\ StageEvent(p, c, x, t, "graph")
    /\ UNCHANGED delivery

\* The legacy endpoint makes up an event with an id of its own.
CompleteExecution(p, c, u, x, success) ==
    /\ IsAdmin(u)
    /\ x \in execution[c]
    /\ Request("complete", p, c)
    /\ StageEvent(p, c, x, IF success THEN "VERIFICATION_SUCCEEDED" ELSE "RERUN_FAILED",
                  "admin")

-----------------------------------------------------------------------------
(* Expired claims *)

\* Five minutes without a heartbeat.
HeartbeatExpires(c) ==
    /\ "idle" \in Requests
    /\ row[c].beat = "fresh"
    /\ row' = [row EXCEPT ![c].beat = "stale"]
    /\ UNCHANGED <<decision, correction, outbox, execution, event, tx, delivery, build>>

ReclaimExpired(p, c) ==
    /\ p \in Worker => delivery[p] = Idle
    /\ row[c].status \in EditableStatuses
    /\ row[c].beat = "stale"
    /\ Stage(p, [kind |-> "row", case |-> c, set |-> RowSet(c, "OPEN", NoUser, "none")])
    /\ UNCHANGED delivery

-----------------------------------------------------------------------------
(* Commits *)

Done(p) == tx' = [tx EXCEPT ![p] = NoTx]
WriteRow(unit) == row' = [row EXCEPT ![unit.case] = Flushed(@, unit.set)]
SetCorrection(unit) ==
    correction' = [correction EXCEPT ![unit.case][unit.cor].status = Write(@, unit.corSet)]

CommitRow(p) ==
    LET unit == tx[p]
    IN  /\ unit.kind = "row"
        /\ WriteRow(unit)
        /\ Done(p)
        /\ UNCHANGED <<decision, correction, outbox, execution, event, delivery, build>>

NewRow(k) == [cor |-> k, status |-> "PENDING", attempts |-> 0]

\* enqueue_correction: the correction and its outbox row, in the same
\* transaction as the decision they come from.
MutantEnqueue(c, d) ==
    /\ correction' = [correction EXCEPT ![c] = Append(@, [decision |-> d, status |-> "PENDING"])]
    /\ outbox' = outbox
EnqueueCorrection(c, d) ==
    /\ correction' = [correction EXCEPT ![c] = Append(@, [decision |-> d, status |-> "PENDING"])]
    /\ outbox' = [outbox EXCEPT ![c] = Append(@, NewRow(Len(correction[c]) + 1))]

CommitDecision(p) ==
    LET unit == tx[p]
        c == unit.case
        id == IF unit.at = 0 THEN Len(decision[c]) + 1 ELSE unit.at
    IN  /\ unit.kind = "decision"
        /\ WriteRow(unit)
        /\ decision' = [decision EXCEPT ![c] = IF unit.at = 0 THEN Append(@, unit.dec)
                                               ELSE [@ EXCEPT ![unit.at] = unit.dec]]
        /\ IF unit.enqueue THEN EnqueueCorrection(c, id)
                           ELSE UNCHANGED <<correction, outbox>>
        /\ Done(p)
        /\ UNCHANGED <<execution, event, delivery, build>>

CommitRetry(p) ==
    LET unit == tx[p]
    IN  /\ unit.kind = "retry"
        /\ WriteRow(unit)
        /\ SetCorrection(unit)
        /\ outbox' = [outbox EXCEPT ![unit.case] = Append(@, NewRow(unit.cor))]
        /\ Done(p)
        /\ UNCHANGED <<decision, execution, event, delivery, build>>

\* Refused by the primary keys when another session inserted the event or the
\* execution first: then only Rollback is left.
CommitEvent(p) ==
    LET unit == tx[p]
        c == unit.case
        e == <<unit.exe, unit.type, unit.src>>
    IN  /\ unit.kind = "event"
        /\ unit.insert => unit.exe \notin execution[c]
        /\ unit.src = "graph" => e \notin event[c]
        /\ WriteRow(unit)
        /\ IF unit.cor = 0 THEN UNCHANGED correction ELSE SetCorrection(unit)
        /\ execution' = [execution EXCEPT ![c] = @ \cup {unit.exe}]
        /\ event' = [event EXCEPT ![c] = @ \cup {e}]
        /\ Done(p)
        /\ UNCHANGED <<decision, outbox, delivery, build>>

CommitFailure(p) ==
    LET unit == tx[p]
        c == unit.case
    IN  /\ unit.kind = "failure"
        /\ WriteRow(unit)
        /\ SetCorrection(unit)
        /\ outbox' = [outbox EXCEPT ![c][unit.ob].status = Write(@, unit.obSet),
                                    ![c][unit.ob].attempts = unit.attempts]
        /\ Done(p)
        /\ UNCHANGED <<decision, execution, event, delivery, build>>

\* A session ends without its commit: a key conflict, a lost connection, or
\* the process stops.
Rollback(p) ==
    /\ tx[p] # NoTx
    /\ Done(p)
    /\ UNCHANGED <<tables, delivery, build>>

-----------------------------------------------------------------------------
(* process_outbox *)

\* The statuses process_outbox selects.
MutantReady == {"PENDING"}
Ready == {"PENDING", "RETRY"}

\* The worker is at work on the row: its lock is younger than its request.
HasRow(w, c, o) ==
    \/ delivery[w].phase # "idle" /\ delivery[w].case = c /\ delivery[w].ob = o
    \/ tx[w].kind = "failure" /\ tx[w].case = c /\ tx[w].ob = o

\* REVIEW_OUTBOX_LOCK_TIMEOUT_SECONDS have passed since the row was locked.
\* The HTTP call times out well before, unless SlowDispatch.
MutantLockExpired(c, o) == TRUE
LockExpired(c, o) == SlowDispatch \/ \A w \in Worker : ~HasRow(w, c, o)

ReleaseStaleLock(c, o) ==
    /\ o \in DOMAIN outbox[c]
    /\ outbox[c][o].status = "PROCESSING"
    /\ LockExpired(c, o)
    /\ outbox' = [outbox EXCEPT ![c][o].status = "RETRY"]
    /\ UNCHANGED <<row, decision, correction, execution, event, tx, delivery, build>>

\* A conditional UPDATE, committed before the row is worked on.
MutantCanClaim(c, o) == outbox[c][o].status \in Ready \cup {"PROCESSING"}
CanClaim(c, o) == outbox[c][o].status \in Ready
ClaimRow(w, c, o) ==
    /\ delivery[w] = Idle /\ tx[w] = NoTx
    /\ o \in DOMAIN outbox[c]
    /\ CanClaim(c, o)
    /\ outbox' = [outbox EXCEPT ![c][o].status = "PROCESSING"]
    /\ delivery' = [delivery EXCEPT ![w] = [phase |-> "claimed", case |-> c, ob |-> o]]
    /\ UNCHANGED <<row, decision, correction, execution, event, tx, build>>

\* The second session reads the row, the case and the correction, and posts.
SendResume(w) ==
    LET c == delivery[w].case
        o == delivery[w].ob
    IN  /\ tx[w] = NoTx
        /\ delivery[w].phase = "claimed"
        /\ delivery' = [delivery EXCEPT ![w] =
             IF outbox[c][o].status # "PROCESSING" THEN Idle
             ELSE [phase |-> "sent", case |-> c, ob |-> o, answer |-> NoAnswer,
                   saw |-> [status |-> row[c].status, version |-> row[c].version,
                            cor |-> correction[c][outbox[c][o].cor].status,
                            known |-> execution[c]]]]
        /\ UNCHANGED <<tables, tx, build>>

\* The 2xx answer has come: the values written are computed from what was
\* read before the call.  An execution id that appeared meanwhile is not in
\* the session's snapshot: the INSERT then fails and ResumeFailed follows.
ResumeAccepted(w) ==
    LET d == delivery[w]
        c == d.case
        k == outbox[c][d.ob].cor
    IN  /\ tx[w] = NoTx
        /\ d.phase = "sent" /\ d.answer # NoAnswer
        /\ d.answer \notin execution[c] \ d.saw.known
        /\ row' = [row EXCEPT ![c] =
             Flushed(@, [status |-> Change(d.saw.status, "RERUNNING"), assignee |-> Keep,
                         version |-> d.saw.version + 1, beat |-> Keep])]
        /\ correction' = [correction EXCEPT ![c][k].status =
                            Write(@, Change(d.saw.cor, "DISPATCHED"))]
        /\ outbox' = [outbox EXCEPT ![c][d.ob].status = "DONE"]
        /\ execution' = [execution EXCEPT ![c] = @ \cup {d.answer}]
        /\ delivery' = [delivery EXCEPT ![w] = Idle]
        /\ UNCHANGED <<decision, event, tx, build>>

Exhausted(n) == n >= MaxAttempts

\* Refused, timed out (whether or not graph-build took it) or the commit
\* failed: roll back, read the rows again and stage the failure.
ResumeFailed(w) ==
    LET d == delivery[w]
        c == d.case
        x == outbox[c][d.ob]
    IN  /\ d.phase = "sent"
        /\ Stage(w, [kind |-> "failure", case |-> c, set |-> StatusSet(c, "APPLY_FAILED"),
                     ob |-> d.ob, attempts |-> x.attempts + 1,
                     obSet |-> Change(x.status,
                                 IF Exhausted(x.attempts + 1) THEN "DEAD" ELSE "RETRY"),
                     cor |-> x.cor,
                     corSet |-> Change(correction[c][x.cor].status, "PENDING")])
        /\ delivery' = [delivery EXCEPT ![w] = Idle]

\* The worker stops: its sessions roll back, the row stays PROCESSING.
Crash(w) ==
    /\ delivery[w] # Idle
    /\ delivery' = [delivery EXCEPT ![w] = Idle]
    /\ UNCHANGED <<tables, tx, build>>

-----------------------------------------------------------------------------
(* Graph-build (external) *)

RunsOf(c) == {x \in ExecId : build[c][x] # "none"}
Failed == {"failed", "unverified"}

\* The resume endpoint is idempotent in the correction id: posting again gives
\* the run there is, unless that one failed.
BuildAccepts(w) ==
    LET d == delivery[w]
        c == d.case
        k == outbox[c][d.ob].cor
        n == Cardinality({x \in RunsOf(c) : x[1] = k})
        again == n > 0 /\ build[c][<<k, n>>] \notin Failed
        run == IF again THEN n ELSE n + 1
    IN  /\ d.phase = "sent" /\ d.answer = NoAnswer
        /\ <<k, run>> \in ExecId
        /\ delivery' = [delivery EXCEPT ![w].answer = <<k, run>>]
        /\ build' = IF again THEN build
                    ELSE [build EXCEPT ![c][<<k, run>>] = "accepted"]
        /\ UNCHANGED <<tables, tx>>

RunStep == {<<"accepted", "started">>, <<"started", "succeeded">>, <<"started", "failed">>,
            <<"succeeded", "verified">>, <<"succeeded", "unverified">>}
\* Bound: it only moves on when that makes a new event of Emits deliverable.
BuildSteps(c, x, s) ==
    /\ <<build[c][x], s>> \in RunStep
    /\ s = "started" \/ Emitted(s) \cap Emits # Emitted(build[c][x]) \cap Emits
    /\ build' = [build EXCEPT ![c][x] = s]
    /\ UNCHANGED <<tables, tx, delivery>>

-----------------------------------------------------------------------------

Next ==
    \/ \E c \in Case :
        \/ HeartbeatExpires(c)
        \/ \E p \in Proc : ReclaimExpired(p, c)
        \/ \E o \in DOMAIN outbox[c] : ReleaseStaleLock(c, o)
        \/ \E x \in ExecId, s \in RunState : BuildSteps(c, x, s)
    \/ \E p \in Api, c \in Case :
        \/ CreateReviewRequired(p, c)
        \/ \E u \in User :
            \/ ClaimCase(p, c, u)
            \/ Heartbeat(p, c, u)
            \/ Release(p, c, u)
            \/ Cancel(p, c, u)
            \/ SaveDraft(p, c, u)
            \/ \E to \in User : Transfer(p, c, u, to)
            \/ \E risky \in BOOLEAN : Submit(p, c, u, risky)
            \/ \E ok \in BOOLEAN : Approve(p, c, u, ok)
            \/ \E x \in execution[c], ok \in BOOLEAN : CompleteExecution(p, c, u, x, ok)
        \/ Retry(p, c)
        \/ \E x \in ExecId, t \in EventType : ExecutionEvent(p, c, x, t)
    \/ \E p \in Proc :
        \/ CommitRow(p) \/ CommitDecision(p) \/ CommitRetry(p)
        \/ CommitEvent(p) \/ CommitFailure(p) \/ Rollback(p)
    \/ \E w \in Worker :
        \/ \E c \in Case : \E o \in DOMAIN outbox[c] : ClaimRow(w, c, o)
        \/ SendResume(w) \/ BuildAccepts(w)
        \/ ResumeAccepted(w) \/ ResumeFailed(w) \/ Crash(w)

Spec == Init /\ [][Next]_vars

-----------------------------------------------------------------------------
(* Safety *)

\* Four eyes.  Whatever graph-build runs for a case, the decision behind it
\* needed no approval, or somebody other than its author approved it; every
\* decision on a P0 case needs one.  (submit, approve, enqueue_correction and
\* the outbox; test_p0_no_resume_until_second_approver.)
TwoPeople(c, d) ==
    /\ c \in P0 => d.needs
    /\ d.needs => d.approver \notin {NoUser, d.by}
FourEyes ==
    \A c \in Case : \A x \in RunsOf(c) :
        TwoPeople(c, decision[c][correction[c][x[1]].decision])

\* Graph-build never runs a decision that was turned down, not even when the
\* rejection comes late.  (approve with ok = False writes no correction.)
OnlyApprovedRuns ==
    \A c \in Case : \A x \in RunsOf(c) :
        decision[c][correction[c][x[1]].decision].status = "APPROVED"

Outstanding(c, o) == outbox[c][o].status \in {"PENDING", "RETRY", "PROCESSING"}

\* The transactional outbox loses nothing: a correction that still waits for
\* graph-build has an outbox row that has not been reported done, whatever
\* crashes, timeouts and retries came between.
NoResumeLost ==
    \A c \in Case : \A k \in DOMAIN correction[c] :
        correction[c][k].status = "PENDING" =>
            \E o \in DOMAIN outbox[c] :
                outbox[c][o].cor = k /\ outbox[c][o].status # "DONE"

\* A case that says APPLYING has a row the worker will still pick up: it is
\* never left waiting for a resume that nobody is going to send.
NoStrandedApply ==
    \A c \in Case : row[c].status = "APPLYING" =>
        \E o \in DOMAIN outbox[c] : Outstanding(c, o)

Recorded(c, t) == \E e \in event[c] : e[2] = t

\* A case is verified only after a rerun was reported successful, and resolved
\* only after a verification was.  (execution_event; "only
\* VERIFICATION_SUCCEEDED closes the case", tests/integration.)
ResolvedIsVerified ==
    \A c \in Case :
        /\ row[c].status \in {"VERIFYING", "RESOLVED"} => Recorded(c, "RERUN_SUCCEEDED")
        /\ row[c].status = "RESOLVED" => Recorded(c, "VERIFICATION_SUCCEEDED")

\* Two workers never work on the same row at once.  (The conditional claim and
\* the lock timeout of process_outbox.)
OneHolder ==
    \A c \in Case : \A v, w \in Worker : \A o \in DOMAIN outbox[c] :
        HasRow(v, c, o) /\ HasRow(w, c, o) => v = w

-----------------------------------------------------------------------------
(* Action properties *)

\* An approver decides on what was submitted last.  After a release and a
\* resubmission the case has several pending decisions; the leftovers stay.
DecidesTheLatest ==
    [][\A c \in Case : \A i \in DOMAIN decision[c] :
         decision'[c][i].status # decision[c][i].status => i = Len(decision[c])]_vars

-----------------------------------------------------------------------------
(* The promise of the outbox *)

JobState(s) ==
    CASE s = "DONE" -> "delivered"
      [] s = "DEAD" -> "abandoned"
      [] OTHER -> "owed"

Handoff == INSTANCE ResumeHandoff WITH
    Number <- 1..MaxRows,
    job <- [c \in Case |-> [o \in DOMAIN outbox[c] |->
              [cor |-> outbox[c][o].cor, state |-> JobState(outbox[c][o].status)]]],
    taken <- [c \in Case |-> {x[1] : x \in RunsOf(c)}]

\* Sessions, locks, attempts and crashes together keep the promise: graph-build
\* takes nothing that is not owed, no row is done before graph-build took its
\* correction, and a settled row is never taken up again.
ImplementsHandoff == Handoff!Spec

-----------------------------------------------------------------------------
(* Liveness *)

\* The worker loop keeps polling, its HTTP call ends within its timeout, its
\* reclaim of expired cases commits, and it does not crash again and again at
\* the same point.
WorkerFairness ==
    /\ \A c \in Case : \A o \in 1..MaxRows : WF_vars(ReleaseStaleLock(c, o))
    /\ \A w \in Worker :
        /\ \A c \in Case : \A o \in 1..MaxRows : SF_vars(ClaimRow(w, c, o))
        /\ SF_vars(SendResume(w))
        /\ SF_vars(ResumeAccepted(w) \/ ResumeFailed(w))
        /\ SF_vars(CommitFailure(w))
        /\ WF_vars(CommitRow(w) \/ Rollback(w))

FairSpec == Spec /\ WorkerFairness

\* Every outbox row is delivered or declared dead in the end, although the
\* worker may crash between any two steps.
HandoffSettles == Handoff!JobsSettle

\* No case stays APPLYING for ever.
ApplyingEnds ==
    \A c \in Case : row[c].status = "APPLYING" ~> row[c].status # "APPLYING"

=============================================================================
