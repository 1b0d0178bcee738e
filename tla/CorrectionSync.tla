---------------------------- MODULE CorrectionSync ----------------------------
(***************************************************************************)
(* The ledger of manual corrections: people submit corrections of experts, *)
(* organisations and relations, administrators decide them, and a          *)
(* dispatcher in each API process carries the approved ones over to the    *)
(* projection in MySQL and, in `dual' mode, to the graph.                  *)
(*                                                                         *)
(* The handlers are synchronous functions on a thread pool, so several     *)
(* sessions of one process overlap.  A handler reads and checks, then      *)
(* commits; it locks nothing, and its UPDATE carries the columns that      *)
(* differ from what was read (`Change').                                   *)
(*                                                                         *)
(* A poll of the dispatcher is ONE transaction for a whole batch of tasks. *)
(* It locks the tasks (FOR UPDATE SKIP LOCKED), reads everything else from *)
(* the snapshot of its first read and its own writes, and calls the graph  *)
(* as it goes: a batch that is rolled back takes nothing out of the graph. *)
(***************************************************************************)
EXTENDS Naturals, FiniteSets

CONSTANTS
    Correction,    \* identities of corrections
    Target,        \* the objects they correct
    Relation,      \* the targets that are relations, not experts or organisations
    User, Admin,   \* people, and the platform administrators among them
    Session,       \* API sessions that may be open at once
    Dispatcher,    \* API processes with CORRECTION_SYNC_WORKER_ENABLED
    Modes,         \* the values CORRECTION_SYNC_MODE takes over time
    MaxAttempts,   \* CORRECTION_SYNC_MAX_ATTEMPTS
    Limit,         \* tasks a poll takes at most
    NoUser,        \* a NULL reviewer
    None,          \* no correction
    Keep,          \* a column that an UPDATE leaves out
    MaxVersion     \* bound: no edit from this version on

ASSUME SetsAssumption ==
    /\ Admin \subseteq User /\ NoUser \notin User
    /\ Relation \subseteq Target /\ None \notin Correction
    /\ Modes \subseteq {"projection", "dual"}
    /\ IsFiniteSet(Correction)
ASSUME BoundsAssumption ==
    MaxAttempts \in Nat \ {0} /\ Limit \in Nat \ {0} /\ MaxVersion \in Nat

VARIABLES
    correction,  \* kg_manual_correction
    task,        \* kg_correction_sync_task, at most one per correction
    projection,  \* kg_correction_projection, one row per target
    graph,       \* what the graph holds of a target (external)
    tx,          \* what an open API session will flush
    batch        \* the transaction a dispatcher has open

vars == <<correction, task, projection, graph, tx, batch>>

CorStatus == {"ABSENT", "PENDING_REVIEW", "PENDING_SYNC", "SYNC_FAILED",
              "COMPLETED", "REJECTED", "CANCELLED"}
TaskStatus == {"ABSENT", "PENDING", "RETRYING", "SUCCEEDED", "FAILED"}
SideStatus == {"PENDING", "SUCCEEDED", "FAILED", "SKIPPED"}
Operation == {"create", "update", "delete"}

CorrectionType ==
    [status: CorStatus, by: User \cup {NoUser}, reviewer: User \cup {NoUser},
     version: Nat, operation: Operation, target: Target]
\* `key' is the version in the idempotency key, `at' the order of creation.
TaskType ==
    [status: TaskStatus, key: Nat, at: Nat, attempts: Nat,
     mysql: SideStatus, graph: SideStatus]
NoTask == [status |-> "ABSENT", key |-> 0, at |-> 0, attempts |-> 0,
           mysql |-> "PENDING", graph |-> "PENDING"]
\* `data' are the corrections whose data the payload holds; a row that does
\* not exist has `last' = None.
ProjectionType ==
    [data: SUBSET Correction, active: BOOLEAN, last: Correction \cup {None}]
GraphType == [there: BOOLEAN, data: SUBSET Correction, disabled: BOOLEAN]

ASSUME KeepAssumption ==
    /\ Keep \notin CorStatus \cup TaskStatus \cup User \cup Nat \cup BOOLEAN \cup Correction
    /\ \A S \in SUBSET Correction : S # Keep

UnitType ==
    [cor: Correction, status: CorStatus \cup {Keep}, reviewer: User \cup {Keep},
     version: Nat \cup {Keep}, insert: BOOLEAN, key: Nat,
     task: TaskStatus \cup {Keep}, attempts: Nat \cup {Keep}]
NoTx == [cor |-> None]

PutType ==
    [insert: BOOLEAN, data: {Keep} \cup SUBSET Correction, active: BOOLEAN \cup {Keep},
     last: Correction \cup {Keep}]
NoPut == [insert |-> FALSE, data |-> Keep, active |-> Keep, last |-> Keep]
BatchType ==
    [lock: SUBSET Correction, todo: SUBSET Correction, mode: Modes,
     seen: [Correction -> CorStatus], view: [Target -> ProjectionType],
     put: [Target -> PutType], result: [Correction -> TaskType],
     status: [Correction -> CorStatus \cup {Keep}]]
NoBatch == [lock |-> {}, todo |-> {}]

TypeOK ==
    /\ correction \in [Correction -> CorrectionType]
    /\ task \in [Correction -> TaskType]
    /\ projection \in [Target -> ProjectionType]
    /\ graph \in [Target -> GraphType]
    /\ tx \in [Session -> UnitType \cup {NoTx}]
    /\ batch \in [Dispatcher -> BatchType \cup {NoBatch}]

\* The operation and the target are settled before a correction is filed and
\* are never edited.
Init ==
    /\ correction \in [Correction ->
          [status: {"ABSENT"}, by: {NoUser}, reviewer: {NoUser}, version: {0},
           operation: Operation, target: Target]]
    /\ task = [c \in Correction |-> NoTask]
    /\ projection = [t \in Target |-> [data |-> {}, active |-> TRUE, last |-> None]]
    /\ graph \in [Target -> [there: BOOLEAN, data: {{}}, disabled: {FALSE}]]
    /\ tx = [s \in Session |-> NoTx]
    /\ batch = [d \in Dispatcher |-> NoBatch]

-----------------------------------------------------------------------------
(* Requests *)

\* What the UPDATE carries for a column read as `seen' and assigned `new'.
Change(seen, new) == IF new = seen THEN Keep ELSE new
MutantWrite(cur, set) == set
Write(cur, set) == IF set = Keep THEN cur ELSE set

Unit(c) == [cor |-> c, status |-> Keep, reviewer |-> Keep, version |-> Keep,
            insert |-> FALSE, key |-> 0, task |-> Keep, attempts |-> Keep]

Stage(s, unit) ==
    /\ tx[s] = NoTx
    /\ tx' = [tx EXCEPT ![s] = unit]
    /\ UNCHANGED <<correction, task, projection, graph, batch>>

Create(c, u) ==
    /\ correction[c].status = "ABSENT"
    /\ correction' = [correction EXCEPT ![c].status = "PENDING_REVIEW", ![c].by = u,
                                        ![c].version = 1]
    /\ UNCHANGED <<task, projection, graph, tx, batch>>

Owned(c, u) == u \in Admin \/ correction[c].by = u
Undecided(c) == correction[c].status = "PENDING_REVIEW"

Update(s, c, u) ==
    /\ Undecided(c) /\ Owned(c, u)
    /\ correction[c].version < MaxVersion
    /\ Stage(s, [Unit(c) EXCEPT !.version = correction[c].version + 1])

Cancel(s, c, u) ==
    /\ Undecided(c) /\ Owned(c, u)
    /\ Stage(s, [Unit(c) EXCEPT !.status = "CANCELLED"])

\* Submitter and reviewer are different accounts.
MutantMayDecide(c, u) == u \in Admin
MayDecide(c, u) == u \in Admin /\ correction[c].by # u

Reject(s, c, u) ==
    /\ Undecided(c) /\ MayDecide(c, u)
    /\ Stage(s, [Unit(c) EXCEPT !.status = "REJECTED",
                                !.reviewer = Change(correction[c].reviewer, u)])

Approve(s, c, u) ==
    /\ Undecided(c) /\ MayDecide(c, u)
    /\ Stage(s, [Unit(c) EXCEPT !.status = "PENDING_SYNC",
                                !.reviewer = Change(correction[c].reviewer, u),
                                !.insert = (task[c].status = "ABSENT"),
                                !.key = correction[c].version])

MutantRequeued(c) == [Unit(c) EXCEPT !.task = "PENDING", !.attempts = 0]
Requeued(c) ==
    [Unit(c) EXCEPT !.status = Change(correction[c].status, "PENDING_SYNC"),
                    !.task = Change(task[c].status, "PENDING"),
                    !.attempts = Change(task[c].attempts, 0)]

Retry(s, c, u) ==
    /\ u \in Admin
    /\ task[c].status # "ABSENT"
    /\ correction[c].status \in {"SYNC_FAILED", "PENDING_SYNC"}
    /\ Stage(s, Requeued(c))

Locked(c) == \E d \in Dispatcher : c \in batch[d].lock

NewTask(key) ==
    [status |-> "PENDING", key |-> key, attempts |-> 0, mysql |-> "PENDING", graph |-> "PENDING",
     at |-> Cardinality({c \in Correction : task[c].status # "ABSENT"}) + 1]

\* A correction and a task after the UPDATEs of unit u.
Flushed(row, u) ==
    [row EXCEPT !.status = Write(row.status, u.status),
                !.reviewer = Write(row.reviewer, u.reviewer),
                !.version = Write(row.version, u.version)]
Reset(row, u) ==
    [row EXCEPT !.status = Write(row.status, u.task),
                !.attempts = Write(row.attempts, u.attempts)]

\* The session flushes.  A second insert for a correction hits the unique key;
\* an UPDATE of a locked task waits for the batch that holds it.
Commit(s, c) ==
    LET u == tx[s] IN
    /\ u.cor = c
    /\ u.insert => task[c].status = "ABSENT"
    /\ u.task # Keep \/ u.attempts # Keep => ~Locked(c)
    /\ correction' = [correction EXCEPT ![c] = Flushed(correction[c], u)]
    /\ task' = [task EXCEPT ![c] = IF u.insert THEN NewTask(u.key) ELSE Reset(task[c], u)]
    /\ tx' = [tx EXCEPT ![s] = NoTx]
    /\ UNCHANGED <<projection, graph, batch>>

\* A session that ends without its commit: an insert refused, a deadlock, a
\* lost connection.
Rollback(s) ==
    /\ tx[s] # NoTx
    /\ tx' = [tx EXCEPT ![s] = NoTx]
    /\ UNCHANGED <<correction, task, projection, graph, batch>>

-----------------------------------------------------------------------------
(* The dispatcher *)

MutantDue(c) == task[c].status = "PENDING"
Due(c) == task[c].status \in {"PENDING", "RETRYING"}

\* Whether next_retry_at has come is left open: any due tasks that nobody has
\* locked may be the ones of this poll.
Poll(d, S, mode) ==
    /\ batch[d] = NoBatch
    /\ S # {} /\ Cardinality(S) <= Limit
    /\ \A c \in S : Due(c) /\ ~Locked(c)
    /\ batch' = [batch EXCEPT ![d] =
          [lock |-> S, todo |-> S, mode |-> mode, view |-> projection,
           seen |-> [c \in Correction |-> IF c \in S THEN correction[c].status ELSE "ABSENT"],
           put |-> [t \in Target |-> NoPut],
           result |-> [c \in Correction |-> IF c \in S THEN task[c] ELSE NoTask],
           status |-> [c \in Correction |-> Keep]]]
    /\ UNCHANGED <<correction, task, projection, graph, tx>>

\* The batch works in the order in which its tasks were created.
IsNext(d, c) ==
    /\ c \in batch[d].todo
    /\ \A x \in batch[d].todo : batch[d].result[c].at <= batch[d].result[x].at

\* Batch b when it is done with correction c of target t.
After(b, c, t, row, status, put, view) ==
    [b EXCEPT !.todo = b.todo \ {c}, !.result[c] = row, !.status[c] = status,
              !.put[t] = put, !.view[t] = view]

\* The projection row after correction c; nothing happens when it was the last.
MutantProjected(r, c, op) ==
    [data |-> IF op = "delete" THEN r.data ELSE {c}, active |-> op # "delete", last |-> c]
Projected(r, c, op) ==
    IF r.last = c THEN r
    ELSE [data |-> CASE op = "create" -> {c}
                     [] op = "update" -> r.data \cup {c}
                     [] op = "delete" -> r.data,
          active |-> op # "delete",
          last |-> c]

\* The columns flushed so far, after the batch made row `new' of its row `old'.
Put(p, old, new) ==
    [insert |-> p.insert \/ old.last = None,
     data |-> IF new.data = old.data THEN p.data ELSE new.data,
     active |-> IF new.active = old.active THEN p.active ELSE new.active,
     last |-> IF new.last = old.last THEN p.last ELSE new.last]

MutantExhausted(n) == n > MaxAttempts
Exhausted(n) == n >= MaxAttempts

Attempted(d, c) ==
    LET row == batch[d].result[c] IN [row EXCEPT !.attempts = row.attempts + 1]
Failed(row) == [row EXCEPT !.status = IF Exhausted(row.attempts) THEN "FAILED" ELSE "RETRYING"]

\* process_task of one task: `wrote' says that the projection was written,
\* `row' is what becomes of the task and `status' of the correction.
Process(d, c, wrote, row, status) ==
    LET t == correction[c].target
        old == batch[d].view[t]
        new == Projected(old, c, correction[c].operation)
        put == batch[d].put[t]
    IN  batch' = [batch EXCEPT ![d] =
            After(batch[d], c, t, row, Change(batch[d].seen[c], status),
                  IF wrote THEN Put(put, old, new) ELSE put, IF wrote THEN new ELSE old)]

ProjectionFails(d, c) ==
    /\ IsNext(d, c)
    /\ Process(d, c, FALSE,
          [Failed(Attempted(d, c)) EXCEPT
              !.mysql = "FAILED",
              !.graph = IF batch[d].mode = "projection" THEN "SKIPPED"
                        ELSE batch[d].result[c].graph],
          "SYNC_FAILED")
    /\ UNCHANGED <<correction, task, projection, graph, tx>>

ProjectOnly(d, c) ==
    /\ IsNext(d, c)
    /\ batch[d].mode = "projection"
    /\ Process(d, c, TRUE,
          [Attempted(d, c) EXCEPT !.status = "SUCCEEDED", !.mysql = "SUCCEEDED",
                                  !.graph = "SKIPPED"],
          "COMPLETED")
    /\ UNCHANGED <<correction, task, projection, graph, tx>>

\* The graph after correction c (external): nodes are merged, a delete only
\* marks what is there, and update_edge refuses an edge that is not.
MutantGraphWritten(g, c, op) == [g EXCEPT !.there = TRUE, !.disabled = FALSE]
GraphWritten(g, c, op) ==
    IF op = "delete" THEN [g EXCEPT !.disabled = g.there]
    ELSE [there |-> TRUE, data |-> g.data \cup {c}, disabled |-> FALSE]
GraphAccepts(t, op) == t \in Relation /\ op # "create" => graph[t].there

WriteGraph(d, c) ==
    LET t == correction[c].target  op == correction[c].operation IN
    /\ GraphAccepts(t, op)
    /\ graph' = [graph EXCEPT ![t] = GraphWritten(graph[t], c, op)]

ProjectAndGraph(d, c) ==
    /\ IsNext(d, c)
    /\ batch[d].mode = "dual"
    /\ WriteGraph(d, c)
    /\ Process(d, c, TRUE,
          [Attempted(d, c) EXCEPT !.status = "SUCCEEDED", !.mysql = "SUCCEEDED",
                                  !.graph = "SUCCEEDED"],
          "COMPLETED")
    /\ UNCHANGED <<correction, task, projection, tx>>

\* The call fails, before or after the graph did what it was asked to.
GraphFails(d, c) ==
    /\ IsNext(d, c)
    /\ batch[d].mode = "dual"
    /\ WriteGraph(d, c) \/ UNCHANGED graph
    /\ Process(d, c, TRUE,
          [Failed(Attempted(d, c)) EXCEPT !.mysql = "SUCCEEDED", !.graph = "FAILED"],
          "SYNC_FAILED")
    /\ UNCHANGED <<correction, task, projection, tx>>

\* The columns of a projection row after the batch.
Merged(r, p) ==
    [data |-> Write(r.data, p.data), active |-> Write(r.active, p.active),
     last |-> Write(r.last, p.last)]

\* session_scope commits the batch.  A row that the batch inserts must still be
\* missing: (target_type, target_id) is unique.
CommitBatch(d) ==
    LET b == batch[d] IN
    /\ b # NoBatch /\ b.todo = {}
    /\ \A t \in Target : b.put[t].insert => projection[t].last = None
    /\ task' = [c \in Correction |-> IF c \in b.lock THEN b.result[c] ELSE task[c]]
    /\ correction' = [c \in Correction |->
          [correction[c] EXCEPT !.status = Write(correction[c].status, b.status[c])]]
    /\ projection' = [t \in Target |-> Merged(projection[t], b.put[t])]
    /\ batch' = [batch EXCEPT ![d] = NoBatch]
    /\ UNCHANGED <<graph, tx>>

\* The batch is rolled back as a whole: a failed flush, a lost connection, a
\* process that stops.
AbortBatch(d) ==
    /\ batch[d] # NoBatch
    /\ batch' = [batch EXCEPT ![d] = NoBatch]
    /\ UNCHANGED <<correction, task, projection, graph, tx>>

-----------------------------------------------------------------------------
Request(s, c, u) ==
    \/ Update(s, c, u)
    \/ Cancel(s, c, u)
    \/ Reject(s, c, u)
    \/ Approve(s, c, u)
    \/ Retry(s, c, u)

Dispatch(d) ==
    \/ \E S \in SUBSET Correction, mode \in Modes : Poll(d, S, mode)
    \/ \E c \in Correction :
          \/ ProjectionFails(d, c)
          \/ ProjectOnly(d, c)
          \/ ProjectAndGraph(d, c)
          \/ GraphFails(d, c)
    \/ CommitBatch(d)
    \/ AbortBatch(d)

Next ==
    \/ \E c \in Correction, u \in User : Create(c, u)
    \/ \E s \in Session, c \in Correction, u \in User : Request(s, c, u)
    \/ \E s \in Session, c \in Correction : Commit(s, c)
    \/ \E s \in Session : Rollback(s)
    \/ \E d \in Dispatcher : Dispatch(d)

Spec == Init /\ [][Next]_vars

-----------------------------------------------------------------------------
(* Invariants *)

\* However requests and batches overlap, a correction that waits has a task the
\* dispatcher will take, one that failed a task that was tried, and a completed
\* one a task that is over.  (decide, retry and process_task set both rows in
\* one transaction, but none of them locks both.)
TaskAgrees ==
    \A c \in Correction :
        /\ correction[c].status = "PENDING_SYNC" => task[c].status = "PENDING"
        /\ correction[c].status = "SYNC_FAILED" => task[c].status \in {"RETRYING", "FAILED"}
        /\ correction[c].status = "COMPLETED" => task[c].status = "SUCCEEDED"

\* Nothing reaches the projection or the graph that no second person approved,
\* rolled-back batches and late commits included.
OnlyReviewedIsApplied ==
    \A c \in Correction :
        LET t == correction[c].target IN
        c \in projection[t].data \cup graph[t].data =>
            /\ task[c].status # "ABSENT"
            /\ correction[c].reviewer \notin {NoUser, correction[c].by}

\* A completed correction is where its task says it is.
CompletedIsApplied ==
    \A c \in Correction : correction[c].status = "COMPLETED" =>
        LET t == correction[c].target IN
        /\ task[c].mysql = "SUCCEEDED" /\ projection[t].last # None
        /\ task[c].graph \in {"SKIPPED", "SUCCEEDED"}
        /\ task[c].graph = "SUCCEEDED" /\ correction[c].operation # "delete"
              => graph[t].there /\ c \in graph[t].data

\* With one dispatcher the projection loses no correction: its data stays in
\* the payload until a `create' replaces the payload.
NoLostCorrection ==
    \A c \in Correction :
        LET t == correction[c].target IN
        task[c].mysql = "SUCCEEDED" /\ correction[c].operation # "delete" =>
            \/ c \in projection[t].data
            \/ \E x \in projection[t].data : correction[x].operation = "create"

\* A task gives up after MaxAttempts tries and not before; a manual retry, even
\* one that commits late, grants all of them again.
AttemptsRespected ==
    \A c \in Correction :
        /\ task[c].attempts <= MaxAttempts
        /\ task[c].status = "FAILED" => task[c].attempts = MaxAttempts
        /\ task[c].status = "RETRYING" => task[c].attempts \in 1..(MaxAttempts - 1)
        /\ task[c].status = "PENDING" => task[c].attempts = 0

-----------------------------------------------------------------------------
(* Action properties *)

\* The correction id is the idempotency key of the projection
\* (admin_governance.md): a correction that was applied is not applied again.
AppliedOnce ==
    [][\A c \in Correction :
         LET t == correction[c].target IN
         task[c].mysql = "SUCCEEDED" /\ projection'[t].last = c => projection[t].last = c]_vars

-----------------------------------------------------------------------------
(* The abstract ledger *)

JobState(row) ==
    CASE row.status = "ABSENT" -> "none"
      [] row.status \in {"PENDING", "RETRYING"} -> "due"
      [] row.status = "SUCCEEDED" -> IF row.graph = "SUCCEEDED" THEN "delivered" ELSE "stored"
      [] row.status = "FAILED" -> "given_up"

Ledger == INSTANCE CorrectionLedger WITH
    shown <- [c \in Correction |-> correction[c].status],
    author <- [c \in Correction |-> correction[c].by],
    reviewer <- [c \in Correction |-> correction[c].reviewer],
    job <- [c \in Correction |-> [state |-> JobState(task[c]), tries |-> task[c].attempts]],
    sent <- {c \in Correction : c \in graph[correction[c].target].data},
    adds <- {c \in Correction : correction[c].operation # "delete"}

\* Overlapping requests, snapshots and rolled-back batches together keep the
\* promise of the ledger: a batch counts one attempt of each task it holds and
\* moves each task and its correction at once, however late the sessions that
\* changed the correction meanwhile; the graph is called for due tasks only.
ImplementsLedger == Ledger!Spec

-----------------------------------------------------------------------------
(* Liveness *)

\* The dispatcher polls for ever; a poll takes every due task sooner or later,
\* and neither the database nor the process fails at the same point for ever.
DispatcherFairness ==
    \A d \in Dispatcher :
        /\ \A c \in Correction :
              SF_vars(\E S \in SUBSET Correction, mode \in Modes : c \in S /\ Poll(d, S, mode))
        /\ SF_vars(\E c \in Correction : ProjectionFails(d, c) \/ ProjectOnly(d, c)
                                           \/ ProjectAndGraph(d, c) \/ GraphFails(d, c))
        /\ SF_vars(CommitBatch(d))

FairSpec == Spec /\ DispatcherFairness

\* Unless administrators keep resetting it, an approved correction is carried
\* out or given up: no batch that fails keeps a task from its attempts.
SyncSettles ==
    (\A s \in Session : <>[](tx[s] = NoTx)) =>
        \A c \in Correction : Due(c) ~> task[c].status \in {"SUCCEEDED", "FAILED"}
=============================================================================
