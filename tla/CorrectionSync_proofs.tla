------------------------ MODULE CorrectionSync_proofs -------------------------
(***************************************************************************)
(* Proofs about CorrectionSync, for every number of corrections, targets,  *)
(* people, sessions and dispatchers and for both modes: typing, that a     *)
(* correction and its task agree, that attempts are counted right, and     *)
(* that nothing is applied which no second person approved.  These four    *)
(* come from the inductive invariant IndInv.  AppliedInv adds where a      *)
(* completed correction is, KeptInv that one dispatcher loses none, and    *)
(* LedgerInv what the refinement of CorrectionLedger needs.                *)
(***************************************************************************)
EXTENDS CorrectionSync, FiniteSetTheorems, TLAPS

-----------------------------------------------------------------------------
(***************************************************************************)
(* Why TaskAgrees, AttemptsRespected and OnlyReviewedIsApplied survive     *)
(* every overlap: an inductive invariant.  A session that makes a          *)
(* correction wait also makes its task PENDING, or inserts it; a batch     *)
(* holds the lock of its tasks, so what it read of them is still true when *)
(* it commits, and a status it leaves out is one that only a change of the *)
(* locked task could have moved to a state that disagrees.                 *)
(***************************************************************************)

Filed(c) == correction[c].status # "ABSENT"
Approved(c) == task[c].status # "ABSENT"
BySecond(c, u) == u \notin {NoUser, correction[c].by}

RowOK(c) ==
    /\ Filed(c) => correction[c].by # NoUser
    /\ correction[c].reviewer = NoUser \/ (Filed(c) /\ BySecond(c, correction[c].reviewer))
    /\ correction[c].status \in {"ABSENT", "PENDING_REVIEW"} => ~Approved(c)
    /\ Approved(c) => Filed(c) /\ BySecond(c, correction[c].reviewer)

StoresOK(t) == \A c \in projection[t].data \cup graph[t].data : Approved(c)

StagedOK(u) ==
    u # NoTx =>
        /\ Filed(u.cor)
        /\ u.reviewer # Keep => BySecond(u.cor, u.reviewer)
        /\ u.status \in {Keep, "PENDING_SYNC", "REJECTED", "CANCELLED"}
        /\ u.status = "PENDING_SYNC" => u.insert \/ u.task # Keep
        /\ u.insert => /\ u.status = "PENDING_SYNC"
                       /\ u.reviewer # Keep \/ BySecond(u.cor, correction[u.cor].reviewer)
        /\ u.task # Keep \/ u.attempts # Keep =>
              u.task = "PENDING" /\ u.attempts = 0 /\ u.status = "PENDING_SYNC" /\ ~u.insert
        /\ u.task # Keep => Approved(u.cor)

\* What a batch has made of a task it has worked on.
Worked(row, seen, status) ==
    \/ row.status = "SUCCEEDED" /\ row.attempts <= MaxAttempts /\ status = "COMPLETED"
    \/ /\ \/ row.status = "FAILED" /\ row.attempts = MaxAttempts
          \/ row.status = "RETRYING" /\ row.attempts \in 1..(MaxAttempts - 1)
       /\ status = "SYNC_FAILED" \/ (status = Keep /\ seen = "SYNC_FAILED")

BatchOK(b) ==
    b # NoBatch =>
        /\ b.todo \subseteq b.lock
        /\ \A c \in Correction \ b.lock : b.status[c] = Keep
        /\ \A c \in b.lock :
              /\ Due(c)
              /\ b.seen[c] # "COMPLETED"
              /\ b.seen[c] = "SYNC_FAILED" => task[c].status = "RETRYING"
              /\ c \in b.todo => b.result[c] = task[c] /\ b.status[c] = Keep
              /\ c \notin b.todo => Worked(b.result[c], b.seen[c], b.status[c])
        /\ \A t \in Target : \A c \in b.view[t].data : Approved(c)
        /\ \A t \in Target : b.put[t].data # Keep => \A c \in b.put[t].data : Approved(c)

IndInv ==
    /\ TypeOK
    /\ TaskAgrees
    /\ AttemptsRespected
    /\ \A c \in Correction : RowOK(c)
    /\ \A t \in Target : StoresOK(t)
    /\ \A s \in Session : StagedOK(tx[s])
    /\ \A d \in Dispatcher : BatchOK(batch[d])
    /\ \A d, e \in Dispatcher : d # e => batch[d].lock \cap batch[e].lock = {}

-----------------------------------------------------------------------------
(* Shapes *)

\* A session that has staged something has staged a typed unit.
LEMMA UnitShape ==
    ASSUME TypeOK, NEW s \in Session, tx[s] # NoTx
    PROVE  tx[s] \in UnitType
  BY DEF TypeOK

\* A staged unit is not the empty one.
LEMMA UnitIsTx == \A u \in UnitType : u # NoTx
  BY SetsAssumption DEF UnitType, NoTx

\* An open batch is a typed one, and no other batch has tasks.
LEMMA BatchShape ==
    ASSUME TypeOK, NEW d \in Dispatcher
    PROVE  /\ batch[d] # NoBatch => batch[d] \in BatchType
           /\ batch[d] = NoBatch => batch[d].lock = {} /\ batch[d].todo = {}
           /\ batch[d].lock \subseteq Correction
  BY DEF TypeOK, BatchType, NoBatch

\* Initially nothing is filed, staged or locked.
LEMMA InitInv == Init => IndInv
<1> SUFFICES ASSUME Init PROVE IndInv
  OBVIOUS
<1>1. TypeOK
  <2>1. correction \in [Correction -> CorrectionType]
    <3>1. [status: {"ABSENT"}, by: {NoUser}, reviewer: {NoUser}, version: {0},
           operation: Operation, target: Target] \subseteq CorrectionType
      BY DEF CorrectionType, CorStatus
    <3> QED
      BY <3>1 DEF Init
  <2>2. task \in [Correction -> TaskType]
    BY DEF Init, TaskType, TaskStatus, SideStatus, NoTask
  <2>3. projection \in [Target -> ProjectionType]
    BY DEF Init, ProjectionType
  <2>4. graph \in [Target -> GraphType]
    <3>1. [there: BOOLEAN, data: {{}}, disabled: {FALSE}] \subseteq GraphType
      BY DEF GraphType
    <3> QED
      BY <3>1 DEF Init
  <2> QED
    BY <2>1, <2>2, <2>3, <2>4 DEF Init, TypeOK
<1>2. TaskAgrees
  BY DEF Init, TaskAgrees
<1>3. AttemptsRespected
  BY BoundsAssumption DEF Init, AttemptsRespected, NoTask
<1>4. \A c \in Correction : RowOK(c)
  BY DEF Init, RowOK, Filed, Approved, NoTask
<1>5. \A t \in Target : StoresOK(t)
  BY DEF Init, StoresOK
<1>6. \A s \in Session : StagedOK(tx[s])
  BY DEF Init, StagedOK
<1>7. \A d \in Dispatcher : BatchOK(batch[d])
  BY DEF Init, BatchOK
<1>8. \A d, e \in Dispatcher : d # e => batch[d].lock \cap batch[e].lock = {}
  BY DEF Init, NoBatch
<1> QED
  BY <1>1, <1>2, <1>3, <1>4, <1>5, <1>6, <1>7, <1>8 DEF IndInv

-----------------------------------------------------------------------------
(* Requests *)

\* Staging a sound unit of work keeps the invariant.
LEMMA StageStep ==
    ASSUME IndInv, NEW s \in Session, NEW unit \in UnitType, StagedOK(unit), Stage(s, unit)
    PROVE  IndInv'
<1> USE DEF Stage
<1>1. TypeOK'
  BY DEF IndInv, TypeOK
<1>2. \A q \in Session : StagedOK(tx[q])'
  <2> TAKE q \in Session
  <2>1. CASE tx'[q] = tx[q]
    BY <2>1 DEF IndInv, StagedOK, Filed, Approved, BySecond
  <2>2. CASE tx'[q] = unit
    BY <2>2 DEF StagedOK, Filed, Approved, BySecond
  <2> QED
    BY <2>1, <2>2 DEF IndInv, TypeOK
<1>3. \A c \in Correction : RowOK(c)'
  BY DEF IndInv, RowOK, Filed, Approved, BySecond
<1>4. \A t \in Target : StoresOK(t)'
  BY DEF IndInv, StoresOK, Approved
<1>5. \A d \in Dispatcher : BatchOK(batch[d])'
  BY DEF IndInv, BatchOK, Due, Approved
<1> QED
  BY <1>1, <1>2, <1>3, <1>4, <1>5 DEF IndInv, TaskAgrees, AttemptsRespected

\* Staging nothing but a version or a final status of an undecided correction.
LEMMA UpdateStep ==
    ASSUME IndInv, NEW s \in Session, NEW c \in Correction, NEW u \in User, Update(s, c, u)
    PROVE  IndInv'
<1> DEFINE unit == [Unit(c) EXCEPT !.version = correction[c].version + 1]
<1>1. unit \in UnitType
  <2>1. correction[c].version + 1 \in Nat
    BY DEF IndInv, TypeOK, CorrectionType
  <2> QED
    BY <2>1 DEF UnitType, Unit
<1>2. StagedOK(unit)
  BY KeepAssumption DEF StagedOK, Unit, Update, Undecided, Filed, CorStatus
<1>3. Stage(s, unit)
  BY DEF Update
<1> QED
  BY <1>1, <1>2, <1>3, StageStep

\* A withdrawal writes the status alone.
LEMMA CancelStep ==
    ASSUME IndInv, NEW s \in Session, NEW c \in Correction, NEW u \in User, Cancel(s, c, u)
    PROVE  IndInv'
<1> DEFINE unit == [Unit(c) EXCEPT !.status = "CANCELLED"]
<1>1. unit \in UnitType
  BY DEF UnitType, Unit, CorStatus
<1>2. StagedOK(unit)
  BY DEF StagedOK, Unit, Cancel, Undecided, Filed
<1> QED
  BY <1>1, <1>2, StageStep DEF Cancel

\* A rejection records a reviewer who is not the submitter.
LEMMA RejectStep ==
    ASSUME IndInv, NEW s \in Session, NEW c \in Correction, NEW u \in User, Reject(s, c, u)
    PROVE  IndInv'
<1> DEFINE unit == [Unit(c) EXCEPT !.status = "REJECTED",
                                   !.reviewer = Change(correction[c].reviewer, u)]
<1>1. unit \in UnitType
  BY DEF UnitType, Unit, CorStatus, Change
<1>2. StagedOK(unit)
  BY SetsAssumption DEF StagedOK, Unit, Reject, Undecided, Filed, MayDecide, Change, BySecond
<1> QED
  BY <1>1, <1>2, StageStep DEF Reject

\* An approval of an undecided correction inserts its task.
LEMMA ApproveStep ==
    ASSUME IndInv, NEW s \in Session, NEW c \in Correction, NEW u \in User, Approve(s, c, u)
    PROVE  IndInv'
<1> DEFINE unit == [Unit(c) EXCEPT !.status = "PENDING_SYNC",
                                   !.reviewer = Change(correction[c].reviewer, u),
                                   !.insert = (task[c].status = "ABSENT"),
                                   !.key = correction[c].version]
<1>1. unit \in UnitType
  BY DEF IndInv, TypeOK, CorrectionType, UnitType, Unit, CorStatus, Change
<1>2. task[c].status = "ABSENT" /\ Filed(c)
  BY DEF IndInv, Approve, Undecided, RowOK, Filed, Approved
<1>3. u # NoUser /\ u # correction[c].by
  BY SetsAssumption DEF Approve, MayDecide
<1>4. StagedOK(unit)
  BY <1>2, <1>3, KeepAssumption DEF StagedOK, Unit, Change, BySecond
<1> QED
  BY <1>1, <1>4, StageStep DEF Approve

\* A retry resets both rows or, of a task that waits already, neither.
LEMMA RetryStep ==
    ASSUME IndInv, NEW s \in Session, NEW c \in Correction, NEW u \in User, Retry(s, c, u)
    PROVE  IndInv'
<1>1. Requeued(c) \in UnitType
  BY DEF UnitType, Unit, Requeued, CorStatus, TaskStatus, Change
<1>2. Filed(c) /\ Approved(c)
  BY DEF Retry, Filed, Approved
<1>3. CASE correction[c].status = "PENDING_SYNC"
  <2>1. task[c].status = "PENDING" /\ task[c].attempts = 0
    BY <1>3 DEF IndInv, TaskAgrees, AttemptsRespected
  <2>2. StagedOK(Requeued(c))
    BY <1>2, <1>3, <2>1, KeepAssumption
    DEF StagedOK, Requeued, Unit, Change, TaskStatus, CorStatus
  <2> QED
    BY <1>1, <2>2, StageStep DEF Retry
<1>4. CASE correction[c].status = "SYNC_FAILED"
  <2>1. task[c].status # "PENDING" /\ task[c].attempts # 0
    BY <1>4, BoundsAssumption DEF IndInv, TaskAgrees, AttemptsRespected
  <2>2. StagedOK(Requeued(c))
    BY <1>2, <1>4, <2>1, KeepAssumption
    DEF StagedOK, Requeued, Unit, Change, TaskStatus, CorStatus
  <2> QED
    BY <1>1, <2>2, StageStep DEF Retry
<1> QED
  BY <1>3, <1>4 DEF Retry

-----------------------------------------------------------------------------
(* Commits of a session *)

\* What no step takes back: a filed correction stays filed by the same person,
\* an approved one keeps its task, and a reviewer stays a second person.
Grows(c) ==
    /\ Filed(c) => Filed(c)' /\ correction'[c].by = correction[c].by
    /\ Approved(c) => Approved(c)'
    /\ Filed(c) /\ BySecond(c, correction[c].reviewer)
          => correction'[c].reviewer \notin {NoUser, correction[c].by}

\* What a session has staged stays sound while nothing is taken back.
LEMMA StagedKept ==
    ASSUME IndInv, \A c \in Correction : Grows(c), NEW s \in Session, tx'[s] \in {tx[s], NoTx}
    PROVE  StagedOK(tx[s])'
<1>1. CASE tx'[s] = NoTx
  BY <1>1 DEF StagedOK
<1>2. CASE tx[s] # NoTx /\ tx'[s] = tx[s]
  <2> DEFINE k == tx[s].cor
  <2>1. k \in Correction /\ StagedOK(tx[s]) /\ Filed(k)
    BY <1>2, UnitShape DEF IndInv, UnitType, StagedOK
  <2>2. Grows(k)
    BY <2>1
  <2>3. Filed(k)' /\ correction'[k].by = correction[k].by
    BY <2>1, <2>2 DEF Grows
  <2>4. tx[s].task # Keep => Approved(k)'
    BY <1>2, <2>1, <2>2 DEF Grows, StagedOK
  <2>5. tx[s].reviewer # Keep => tx[s].reviewer \notin {NoUser, correction'[k].by}
    BY <1>2, <2>1, <2>3 DEF StagedOK, BySecond
  <2>6. tx[s].insert => tx[s].reviewer # Keep
                       \/ correction'[k].reviewer \notin {NoUser, correction'[k].by}
    BY <1>2, <2>1, <2>2, <2>3 DEF StagedOK, Grows, BySecond
  <2> HIDE DEF k
  <2>7. /\ tx[s].status \in {Keep, "PENDING_SYNC", "REJECTED", "CANCELLED"}
        /\ tx[s].status = "PENDING_SYNC" => tx[s].insert \/ tx[s].task # Keep
        /\ tx[s].insert => tx[s].status = "PENDING_SYNC"
        /\ tx[s].task # Keep \/ tx[s].attempts # Keep =>
             tx[s].task = "PENDING" /\ tx[s].attempts = 0
             /\ tx[s].status = "PENDING_SYNC" /\ ~tx[s].insert
    BY <1>2, <2>1 DEF StagedOK
  <2> QED
    BY <1>2, <2>3, <2>4, <2>5, <2>6, <2>7 DEF StagedOK, BySecond, Filed, Approved, k
<1> QED
  BY <1>1, <1>2

\* So does a batch whose locked tasks nobody touches.
LEMMA BatchKept ==
    ASSUME IndInv, \A c \in Correction : Grows(c), NEW d \in Dispatcher,
           batch'[d] = batch[d], batch[d] # NoBatch,
           \A c \in batch[d].lock : task'[c] = task[c]
    PROVE  BatchOK(batch[d])'
<1> DEFINE b == batch[d]
<1>1. b \in BatchType /\ BatchOK(b)
  BY BatchShape DEF IndInv
<1>2. \A t \in Target : \A c \in b.view[t].data : Approved(c)'
  <2>1. \A t \in Target : b.view[t].data \subseteq Correction
    BY <1>1 DEF BatchType, ProjectionType
  <2> QED
    BY <1>1, <2>1 DEF BatchOK, Grows
<1>3. \A t \in Target : b.put[t].data # Keep => \A c \in b.put[t].data : Approved(c)'
  <2>1. \A t \in Target : b.put[t].data # Keep => b.put[t].data \subseteq Correction
    BY <1>1 DEF BatchType, PutType
  <2> QED
    BY <1>1, <2>1 DEF BatchOK, Grows
<1> QED
  BY <1>1, <1>2, <1>3 DEF BatchOK, Due, Approved

\* A commit that makes good rows, takes nothing back and leaves locked tasks
\* alone keeps the invariant.
LEMMA TablesStep ==
    ASSUME IndInv, TypeOK', TaskAgrees', AttemptsRespected',
           \A c \in Correction : RowOK(c)' /\ Grows(c),
           \A c \in Correction : Locked(c) => task'[c] = task[c],
           \A s \in Session : tx'[s] \in {tx[s], NoTx},
           UNCHANGED <<projection, graph, batch>>
    PROVE  IndInv'
<1>1. \A t \in Target : StoresOK(t)'
  <2>1. \A t \in Target : projection[t].data \subseteq Correction /\ graph[t].data \subseteq Correction
    BY DEF IndInv, TypeOK, ProjectionType, GraphType
  <2> QED
    BY <2>1 DEF IndInv, StoresOK, Grows
<1>2. \A s \in Session : StagedOK(tx[s])'
  BY StagedKept
<1>3. \A d \in Dispatcher : BatchOK(batch[d])'
  <2> SUFFICES ASSUME NEW d \in Dispatcher, batch[d] # NoBatch PROVE BatchOK(batch[d])'
    BY DEF BatchOK
  <2>1. \A c \in batch[d].lock : c \in Correction /\ task'[c] = task[c]
    BY BatchShape DEF Locked, IndInv
  <2> QED
    BY <2>1, BatchKept
<1> QED
  BY <1>1, <1>2, <1>3 DEF IndInv

\* Filing a correction touches a row nobody can have staged or locked.
LEMMA CreateStep ==
    ASSUME IndInv, NEW c \in Correction, NEW u \in User, Create(c, u)
    PROVE  IndInv'
<1>1. /\ correction'[c] = [correction[c] EXCEPT !.status = "PENDING_REVIEW", !.by = u, !.version = 1]
      /\ \A x \in Correction : x # c => correction'[x] = correction[x]
      /\ correction' \in [Correction -> CorrectionType]
  <2>1. [correction[c] EXCEPT !.status = "PENDING_REVIEW", !.by = u, !.version = 1] \in CorrectionType
    BY DEF IndInv, TypeOK, CorrectionType, CorStatus
  <2> QED
    BY <2>1 DEF IndInv, TypeOK, Create
<1>2. correction[c] \in CorrectionType /\ ~Filed(c) /\ ~Approved(c)
  BY DEF IndInv, TypeOK, Create, Filed, RowOK, Approved
<1>3. TypeOK'
  BY <1>1 DEF IndInv, TypeOK, Create
<1>4. \A x \in Correction : RowOK(x)' /\ Grows(x)
  <2> TAKE x \in Correction
  <2>1. CASE x = c
    BY <2>1, <1>1, <1>2, SetsAssumption
    DEF IndInv, RowOK, Grows, Filed, Approved, BySecond, Create, CorrectionType
  <2>2. CASE x # c
    BY <2>2, <1>1 DEF IndInv, RowOK, Grows, Filed, Approved, BySecond, Create
  <2> QED
    BY <2>1, <2>2
<1>5. TaskAgrees' /\ AttemptsRespected'
  BY <1>1, <1>2 DEF IndInv, TaskAgrees, AttemptsRespected, Create, CorrectionType
<1> QED
  BY <1>3, <1>4, <1>5, TablesStep DEF Create

\* A rolled-back session leaves nothing behind.
LEMMA RollbackStep ==
    ASSUME IndInv, NEW s \in Session, Rollback(s)
    PROVE  IndInv'
<1>1. TypeOK'
  BY DEF IndInv, TypeOK, Rollback
<1>2. \A x \in Correction : RowOK(x)' /\ Grows(x)
  BY DEF IndInv, RowOK, Grows, Filed, Approved, BySecond, Rollback
<1>3. TaskAgrees' /\ AttemptsRespected'
  BY DEF IndInv, TaskAgrees, AttemptsRespected, Rollback
<1>4. \A q \in Session : tx'[q] \in {tx[q], NoTx}
  BY DEF IndInv, TypeOK, Rollback
<1> QED
  BY <1>1, <1>2, <1>3, <1>4, TablesStep DEF Rollback

\* A new task is well typed: its place is a number because there are finitely
\* many corrections.
LEMMA NewTaskTyped == \A key \in Nat : NewTask(key) \in TaskType
<1> DEFINE S == {c \in Correction : task[c].status # "ABSENT"}
<1>1. IsFiniteSet(S)
  BY FS_Subset, SetsAssumption
<1>2. Cardinality(S) \in Nat
  BY <1>1, FS_CardinalityType
<1> HIDE DEF S
<1>3. Cardinality(S) + 1 \in Nat
  BY <1>2
<1>4. \A key : NewTask(key) = [status |-> "PENDING", key |-> key, attempts |-> 0,
                              mysql |-> "PENDING", graph |-> "PENDING",
                              at |-> Cardinality(S) + 1]
  BY DEF NewTask, S
<1> QED
  BY <1>3, <1>4 DEF TaskType, TaskStatus, SideStatus

\* A commit: whatever it was staged from, it leaves the two rows in agreement.
LEMMA CommitStep ==
    ASSUME IndInv, NEW s \in Session, NEW k \in Correction, Commit(s, k)
    PROVE  IndInv'
<1> DEFINE u == tx[s]
<1>2. u # NoTx
  BY SetsAssumption DEF Commit, NoTx
<1>a. u \in UnitType
  BY <1>2, UnitShape DEF IndInv
<1>b. u.cor = k
  BY DEF Commit
<1>1. u \in UnitType /\ StagedOK(u) /\ u.cor = k
  BY <1>a, <1>b DEF IndInv
<1>3. correction[k] \in CorrectionType /\ task[k] \in TaskType
  BY <1>1 DEF IndInv, TypeOK
<1> DEFINE row == Flushed(correction[k], u)
           job == IF u.insert THEN NewTask(u.key) ELSE Reset(task[k], u)
<1>c. correction' = [correction EXCEPT ![k] = row] /\ task' = [task EXCEPT ![k] = job]
  <2>1. correction' = [correction EXCEPT ![k] = row]
    BY DEF Commit
  <2>2. task' = [task EXCEPT ![k] = job]
    BY DEF Commit
  <2> QED
    BY <2>1, <2>2
<1>d. /\ correction'[k] = row /\ task'[k] = job
      /\ \A c \in Correction : c # k => correction'[c] = correction[c] /\ task'[c] = task[c]
  BY <1>c DEF IndInv, TypeOK
<1>e. /\ u.status \in CorStatus \cup {Keep} /\ u.reviewer \in User \cup {Keep}
      /\ u.version \in Nat \cup {Keep} /\ u.insert \in BOOLEAN /\ u.key \in Nat
      /\ u.task \in TaskStatus \cup {Keep} /\ u.attempts \in Nat \cup {Keep}
  BY <1>1 DEF UnitType
<1>5. correction'[k] \in CorrectionType
  <2>1. row \in CorrectionType
    BY <1>3, <1>e DEF CorrectionType, Write, Flushed
  <2> QED
    BY <2>1, <1>d
<1>6. task'[k] \in TaskType
  <2>1. ~u.insert => job \in TaskType
    BY <1>3, <1>e DEF TaskType, Write, Reset
  <2>2. u.insert => job \in TaskType
    BY <1>e, NewTaskTyped
  <2> QED
    BY <2>1, <2>2, <1>d
<1>4. /\ \A c \in Correction : c # k => correction'[c] = correction[c] /\ task'[c] = task[c]
      /\ u.insert => task'[k] = NewTask(u.key)
      /\ ~u.insert => task'[k] = Reset(task[k], u)
  BY <1>d
<1>7. TypeOK'
  <2>1. correction' \in [Correction -> CorrectionType]
    BY <1>4, <1>5 DEF IndInv, TypeOK, Commit
  <2>2. task' \in [Correction -> TaskType]
    BY <1>4, <1>6 DEF IndInv, TypeOK, Commit
  <2> QED
    BY <2>1, <2>2 DEF IndInv, TypeOK, Commit
<1>8. /\ correction'[k].by = correction[k].by
      /\ correction'[k].status = IF u.status = Keep THEN correction[k].status ELSE u.status
      /\ correction'[k].reviewer = IF u.reviewer = Keep THEN correction[k].reviewer ELSE u.reviewer
  BY <1>3, <1>d DEF CorrectionType, Write, Flushed
<1>9. CASE u.insert
  <2>1. task'[k].status = "PENDING" /\ task'[k].attempts = 0
    BY <1>4, <1>9 DEF NewTask
  <2>2. correction'[k].status = "PENDING_SYNC"
    BY <1>1, <1>2, <1>8, <1>9, KeepAssumption DEF StagedOK, CorStatus
  <2>3. correction'[k].reviewer \notin {NoUser, correction'[k].by}
    BY <1>1, <1>2, <1>8, <1>9 DEF StagedOK, BySecond
  <2>4. RowOK(k)' /\ Grows(k)
    BY <1>1, <1>2, <1>8, <2>1, <2>2, <2>3
    DEF IndInv, StagedOK, RowOK, Grows, Filed, Approved, BySecond
  <2>5. \A c \in Correction : RowOK(c)' /\ Grows(c)
    BY <1>4, <2>4 DEF IndInv, RowOK, Grows, Filed, Approved, BySecond
  <2>6. TaskAgrees' /\ AttemptsRespected'
    BY <1>4, <2>1, <2>2, BoundsAssumption DEF IndInv, TaskAgrees, AttemptsRespected
  <2>7. \A c \in Correction : Locked(c) => task'[c] = task[c]
    <3>1. ~Locked(k)
      <4>1. \A d \in Dispatcher : \A c \in batch[d].lock : Due(c)
        BY BatchShape DEF IndInv, BatchOK
      <4>2. task[k].status = "ABSENT"
        BY <1>b, <1>9 DEF Commit
      <4> QED
        BY <4>1, <4>2 DEF Locked, Due
    <3> QED
      BY <1>4, <3>1
  <2> QED
    BY <1>7, <2>5, <2>6, <2>7, TablesStep DEF Commit, IndInv, TypeOK
<1>10. CASE ~u.insert
  <2>1. /\ task'[k].status = IF u.task = Keep THEN task[k].status ELSE u.task
        /\ task'[k].attempts = IF u.attempts = Keep THEN task[k].attempts ELSE u.attempts
    BY <1>3, <1>4, <1>10 DEF TaskType, Write, Reset
  <2>2. CASE u.task = Keep
    <3>1. u.attempts = Keep /\ u.status # "PENDING_SYNC"
      BY <1>1, <1>2, <1>10, <2>2, KeepAssumption DEF StagedOK, TaskStatus
    <3>2. task'[k].status = task[k].status /\ task'[k].attempts = task[k].attempts
      BY <2>1, <2>2, <3>1
    <3>3. task'[k] = task[k]
      BY <1>3, <1>4, <1>10, <2>2, <3>1 DEF TaskType, Write, Reset
    <3>4. u.status \in {Keep, "REJECTED", "CANCELLED"}
      BY <1>1, <1>2, <3>1 DEF StagedOK
    <3>5. RowOK(k)' /\ Grows(k)
      BY <1>1, <1>2, <1>8, <3>2, <3>4
      DEF IndInv, StagedOK, RowOK, Grows, Filed, Approved, BySecond
    <3>6. \A c \in Correction : RowOK(c)' /\ Grows(c)
      BY <1>4, <3>5 DEF IndInv, RowOK, Grows, Filed, Approved, BySecond
    <3>7. TaskAgrees' /\ AttemptsRespected'
      BY <1>4, <1>8, <3>2, <3>4 DEF IndInv, TaskAgrees, AttemptsRespected
    <3> QED
      BY <1>4, <1>7, <3>3, <3>6, <3>7, TablesStep DEF Commit, IndInv, TypeOK
  <2>3. CASE u.task # Keep
    <3>1. u.task = "PENDING" /\ u.attempts = 0 /\ u.status = "PENDING_SYNC" /\ Approved(k)
      BY <1>1, <1>2, <2>3 DEF StagedOK
    <3>2. /\ task'[k].status = "PENDING" /\ task'[k].attempts = 0
          /\ correction'[k].status = "PENDING_SYNC"
      BY <1>8, <2>1, <3>1, KeepAssumption DEF CorStatus, TaskStatus
    <3>3. RowOK(k)' /\ Grows(k)
      BY <1>1, <1>2, <1>8, <3>1, <3>2
      DEF IndInv, StagedOK, RowOK, Grows, Filed, Approved, BySecond
    <3>4. \A c \in Correction : RowOK(c)' /\ Grows(c)
      BY <1>4, <3>3 DEF IndInv, RowOK, Grows, Filed, Approved, BySecond
    <3>5. TaskAgrees' /\ AttemptsRespected'
      BY <1>4, <3>2, BoundsAssumption DEF IndInv, TaskAgrees, AttemptsRespected
    <3>6. \A c \in Correction : Locked(c) => task'[c] = task[c]
      BY <1>4, <2>3 DEF Commit
    <3> QED
      BY <1>7, <3>4, <3>5, <3>6, TablesStep DEF Commit, IndInv, TypeOK
  <2> QED
    BY <2>2, <2>3
<1> QED
  BY <1>9, <1>10

-----------------------------------------------------------------------------
(* The dispatcher *)

\* A dispatcher that leaves the tables alone and holds a sound batch.
LEMMA BatchStep ==
    ASSUME IndInv, NEW d \in Dispatcher, NEW b \in BatchType \cup {NoBatch}, BatchOK(b),
           batch' = [batch EXCEPT ![d] = b],
           \A e \in Dispatcher : e # d => batch[e].lock \cap b.lock = {},
           graph' \in [Target -> GraphType],
           \A t \in Target : \A c \in graph'[t].data : c \in graph[t].data \/ Approved(c),
           UNCHANGED <<correction, task, projection, tx>>
    PROVE  IndInv'
<1>1. TypeOK'
  BY DEF IndInv, TypeOK
<1>2. \A e \in Dispatcher : batch'[e] = IF e = d THEN b ELSE batch[e]
  BY DEF IndInv, TypeOK
<1>3. \A c \in Correction : RowOK(c)'
  BY DEF IndInv, RowOK, Filed, Approved, BySecond
<1>4. \A t \in Target : StoresOK(t)'
  BY DEF IndInv, StoresOK, Approved
<1>5. \A s \in Session : StagedOK(tx[s])'
  BY DEF IndInv, StagedOK, Filed, Approved, BySecond
<1>6. \A e \in Dispatcher : BatchOK(batch[e])'
  <2> TAKE e \in Dispatcher
  <2>1. CASE e = d
    BY <1>2, <2>1 DEF BatchOK, Due, Approved
  <2>2. CASE e # d
    BY <1>2, <2>2 DEF IndInv, BatchOK, Due, Approved
  <2> QED
    BY <2>1, <2>2
<1>7. \A e, f \in Dispatcher : e # f => batch'[e].lock \cap batch'[f].lock = {}
  BY <1>2 DEF IndInv
<1> QED
  BY <1>1, <1>3, <1>4, <1>5, <1>6, <1>7 DEF IndInv, TaskAgrees, AttemptsRespected

\* A rollback of the batch, or a crash, releases its locks.
LEMMA AbortBatchStep ==
    ASSUME IndInv, NEW d \in Dispatcher, AbortBatch(d)
    PROVE  IndInv'
<1>1. BatchOK(NoBatch)
  BY DEF BatchOK
<1>2. \A e \in Dispatcher : batch[e].lock \cap NoBatch.lock = {}
  BY DEF NoBatch
<1> QED
  BY <1>1, <1>2, BatchStep DEF AbortBatch, IndInv, TypeOK

\* A poll reads tasks that are due and rows that agree with them.
LEMMA PollStep ==
    ASSUME IndInv, NEW d \in Dispatcher, NEW S \in SUBSET Correction, NEW mode \in Modes,
           Poll(d, S, mode)
    PROVE  IndInv'
<1> DEFINE seen == [c \in Correction |-> IF c \in S THEN correction[c].status ELSE "ABSENT"]
           put == [t \in Target |-> NoPut]
           result == [c \in Correction |-> IF c \in S THEN task[c] ELSE NoTask]
           status == [c \in Correction |-> Keep]
           b == [lock |-> S, todo |-> S, mode |-> mode, view |-> projection,
                 seen |-> seen, put |-> put, result |-> result, status |-> status]
<1>1. b \in BatchType
  <2>1. seen \in [Correction -> CorStatus]
    BY DEF IndInv, TypeOK, CorrectionType, CorStatus
  <2>2. put \in [Target -> PutType]
    BY DEF NoPut, PutType
  <2>3. result \in [Correction -> TaskType]
    BY DEF IndInv, TypeOK, NoTask, TaskType, TaskStatus, SideStatus
  <2>4. status \in [Correction -> CorStatus \cup {Keep}]
    OBVIOUS
  <2>5. projection \in [Target -> ProjectionType]
    BY DEF IndInv, TypeOK
  <2> HIDE DEF seen, put, result, status
  <2> QED
    BY <2>1, <2>2, <2>3, <2>4, <2>5 DEF BatchType
<1>2. BatchOK(b)
  <2>1. \A c \in S : Due(c) /\ c \in Correction
    BY DEF Poll
  <2>2. \A c \in S : seen[c] # "COMPLETED" /\ (seen[c] = "SYNC_FAILED" => task[c].status = "RETRYING")
    BY <2>1 DEF IndInv, TaskAgrees, Due
  <2>3. \A t \in Target : \A c \in projection[t].data : Approved(c)
    BY DEF IndInv, StoresOK
  <2>4. \A t \in Target : put[t].data = Keep
    BY DEF NoPut
  <2>5. \A c \in S : result[c] = task[c] /\ status[c] = Keep
    BY <2>1
  <2>6. \A c \in Correction \ S : status[c] = Keep
    OBVIOUS
  <2> HIDE DEF seen, put, result, status
  <2> QED
    BY <2>1, <2>2, <2>3, <2>4, <2>5, <2>6 DEF BatchOK
<1>3. \A e \in Dispatcher : e # d => batch[e].lock \cap b.lock = {}
  BY DEF Poll, Locked
<1>4. batch' = [batch EXCEPT ![d] = b]
  BY DEF Poll
<1>5. /\ graph' \in [Target -> GraphType]
      /\ \A t \in Target : \A c \in graph'[t].data : c \in graph[t].data \/ Approved(c)
      /\ UNCHANGED <<correction, task, projection, tx>>
  BY DEF Poll, IndInv, TypeOK
<1> HIDE DEF b
<1> QED
  BY <1>1, <1>2, <1>3, <1>4, <1>5, BatchStep

\* What a dispatcher holds after it has worked on correction c.
LEMMA FinishFields ==
    ASSUME NEW b \in BatchType, NEW c \in Correction, NEW t \in Target,
           NEW row \in TaskType, NEW status \in CorStatus \cup {Keep},
           NEW put \in PutType, NEW view \in ProjectionType
    PROVE  LET n == After(b, c, t, row, status, put, view) IN
           /\ n \in BatchType
           /\ n.lock = b.lock /\ n.todo = b.todo \ {c} /\ n.seen = b.seen
           /\ n.result = [b.result EXCEPT ![c] = row]
           /\ n.status = [b.status EXCEPT ![c] = status]
           /\ n.put = [b.put EXCEPT ![t] = put]
           /\ n.view = [b.view EXCEPT ![t] = view]
<1> DEFINE n == After(b, c, t, row, status, put, view)
<1>1. /\ b.todo \in SUBSET Correction /\ b.result \in [Correction -> TaskType]
      /\ b.status \in [Correction -> CorStatus \cup {Keep}]
      /\ b.put \in [Target -> PutType] /\ b.view \in [Target -> ProjectionType]
  BY DEF BatchType
<1>2. /\ [b.result EXCEPT ![c] = row] \in [Correction -> TaskType]
      /\ [b.status EXCEPT ![c] = status] \in [Correction -> CorStatus \cup {Keep}]
      /\ [b.put EXCEPT ![t] = put] \in [Target -> PutType]
      /\ [b.view EXCEPT ![t] = view] \in [Target -> ProjectionType]
  BY <1>1
<1>3. n = [lock |-> b.lock, todo |-> b.todo \ {c}, mode |-> b.mode, seen |-> b.seen,
           view |-> [b.view EXCEPT ![t] = view], put |-> [b.put EXCEPT ![t] = put],
           result |-> [b.result EXCEPT ![c] = row], status |-> [b.status EXCEPT ![c] = status]]
  <2>1. n = [b EXCEPT !.todo = b.todo \ {c}, !.result[c] = row, !.status[c] = status,
                      !.put[t] = put, !.view[t] = view]
    BY DEF After
  <2> HIDE DEF n
  <2> QED
    BY <2>1 DEF BatchType
<1> HIDE DEF n
<1>4. /\ n \in BatchType
      /\ n.lock = b.lock /\ n.todo = b.todo \ {c} /\ n.seen = b.seen
      /\ n.result = [b.result EXCEPT ![c] = row]
      /\ n.status = [b.status EXCEPT ![c] = status]
      /\ n.put = [b.put EXCEPT ![t] = put]
      /\ n.view = [b.view EXCEPT ![t] = view]
  BY <1>1, <1>2, <1>3 DEF BatchType
<1> QED
  BY <1>4 DEF n

\* The projection row after a correction, and what a batch flushes of it.
LEMMA ProjectedShape ==
    ASSUME NEW r \in ProjectionType, NEW p \in PutType, NEW c \in Correction,
           NEW op \in Operation
    PROVE  /\ Projected(r, c, op) \in ProjectionType
           /\ Projected(r, c, op).data \subseteq r.data \cup {c}
           /\ Put(p, r, Projected(r, c, op)) \in PutType
           /\ Put(p, r, Projected(r, c, op)).data \in {p.data, Projected(r, c, op).data}
<1>1. r.data \subseteq Correction /\ r.active \in BOOLEAN /\ r.last \in Correction \cup {None}
  BY DEF ProjectionType
<1>2. Projected(r, c, op) \in ProjectionType /\ Projected(r, c, op).data \subseteq r.data \cup {c}
  <2>1. CASE r.last = c
    BY <2>1 DEF Projected
  <2>2. CASE r.last # c
    <3> DEFINE D == CASE op = "create" -> {c} [] op = "update" -> r.data \cup {c}
                      [] op = "delete" -> r.data
    <3>1. D \subseteq r.data \cup {c}
      BY DEF Operation
    <3>2. Projected(r, c, op) = [data |-> D, active |-> op # "delete", last |-> c]
      BY <2>2 DEF Projected
    <3> HIDE DEF D
    <3> QED
      BY <1>1, <3>1, <3>2 DEF ProjectionType
  <2> QED
    BY <2>1, <2>2
<1>3. /\ p.insert \in BOOLEAN /\ p.data \in {Keep} \cup SUBSET Correction
      /\ p.active \in BOOLEAN \cup {Keep} /\ p.last \in Correction \cup {Keep}
  BY DEF PutType
<1>4. \A n \in ProjectionType : (n.last # r.last => n.last # None) =>
        /\ Put(p, r, n) \in PutType /\ Put(p, r, n).data \in {p.data, n.data}
  BY <1>1, <1>3 DEF Put, PutType, ProjectionType
<1>5. Projected(r, c, op).last # r.last => Projected(r, c, op).last # None
  BY SetsAssumption DEF Projected
<1> QED
  BY <1>2, <1>4, <1>5

\* One task of a batch: the outcome agrees with what the batch read, and what
\* goes to the projection is approved.
LEMMA ProcessStep ==
    ASSUME IndInv, NEW d \in Dispatcher, NEW c \in Correction, IsNext(d, c),
           NEW wrote \in BOOLEAN, NEW row \in TaskType,
           NEW status \in {"SYNC_FAILED", "COMPLETED"},
           Worked(row, batch[d].seen[c], Change(batch[d].seen[c], status)),
           Process(d, c, wrote, row, status),
           graph' = graph \/ WriteGraph(d, c),
           UNCHANGED <<correction, task, projection, tx>>
    PROVE  IndInv'
<1> DEFINE b == batch[d]
           t == correction[c].target
           op == correction[c].operation
           old == b.view[t]
           new == Projected(old, c, op)
           st == Change(b.seen[c], status)
           put == IF wrote THEN Put(b.put[t], old, new) ELSE b.put[t]
           view == IF wrote THEN new ELSE old
           n == After(b, c, t, row, st, put, view)
<1>1. b \in BatchType /\ BatchOK(b)
  <2>1. b # NoBatch
    BY DEF IsNext, NoBatch
  <2> QED
    BY <2>1, BatchShape DEF IndInv
<1>2. t \in Target /\ op \in Operation
  BY DEF IndInv, TypeOK, CorrectionType
<1>3. c \in b.todo /\ c \in b.lock /\ Due(c) /\ Approved(c)
  <2>1. c \in b.todo /\ b # NoBatch
    BY DEF IsNext, NoBatch
  <2> QED
    BY <1>1, <2>1 DEF BatchOK, Due, Approved
<1>4. old \in ProjectionType /\ b.put[t] \in PutType /\ b.seen[c] \in CorStatus
  BY <1>1, <1>2 DEF BatchType
<1>5. /\ view \in ProjectionType /\ view.data \subseteq old.data \cup {c}
      /\ put \in PutType /\ put.data \in {b.put[t].data, view.data}
  BY <1>2, <1>4, ProjectedShape
<1>6. st \in CorStatus \cup {Keep}
  BY DEF Change, CorStatus
<1>7. batch' = [batch EXCEPT ![d] = n]
  BY DEF Process
<1> HIDE DEF b, t, op, old, new, st, put, view
<1>8. /\ n \in BatchType
      /\ n.lock = b.lock /\ n.todo = b.todo \ {c} /\ n.seen = b.seen
      /\ n.result = [b.result EXCEPT ![c] = row]
      /\ n.status = [b.status EXCEPT ![c] = st]
      /\ n.put = [b.put EXCEPT ![t] = put]
      /\ n.view = [b.view EXCEPT ![t] = view]
  BY <1>1, <1>2, <1>5, <1>6, FinishFields
<1> HIDE DEF n
<1>9. /\ \A x \in Correction : n.result[x] = IF x = c THEN row ELSE b.result[x]
      /\ \A x \in Correction : n.status[x] = IF x = c THEN st ELSE b.status[x]
      /\ \A y \in Target : n.put[y] = IF y = t THEN put ELSE b.put[y]
      /\ \A y \in Target : n.view[y] = IF y = t THEN view ELSE b.view[y]
  BY <1>1, <1>8 DEF BatchType
<1>10. b # NoBatch /\ b.lock \subseteq Correction
  BY <1>1, <1>3 DEF BatchType, NoBatch
<1>11. BatchOK(n)
  <2>1. n.todo \subseteq n.lock /\ \A x \in Correction \ n.lock : n.status[x] = Keep
    BY <1>1, <1>3, <1>8, <1>9, <1>10 DEF BatchOK
  <2>2. \A x \in n.lock :
          /\ Due(x)
          /\ n.seen[x] # "COMPLETED"
          /\ n.seen[x] = "SYNC_FAILED" => task[x].status = "RETRYING"
    BY <1>1, <1>8, <1>10 DEF BatchOK
  <2>3. \A x \in n.lock :
          /\ x \in n.todo => n.result[x] = task[x] /\ n.status[x] = Keep
          /\ x \notin n.todo => Worked(n.result[x], n.seen[x], n.status[x])
    <3> TAKE x \in n.lock
    <3>1. CASE x = c
      <4>1. Worked(row, b.seen[c], st)
        BY DEF b, st
      <4> QED
        BY <1>8, <1>9, <3>1, <4>1
    <3>2. CASE x # c
      BY <1>1, <1>8, <1>9, <1>10, <3>2 DEF BatchOK
    <3> QED
      BY <3>1, <3>2
  <2>4. \A y \in Target : \A x \in n.view[y].data : Approved(x)
    BY <1>1, <1>2, <1>3, <1>5, <1>9, <1>10 DEF BatchOK, old
  <2>5. \A y \in Target : n.put[y].data # Keep => \A x \in n.put[y].data : Approved(x)
    <3>1. \A x \in view.data : Approved(x)
      BY <2>4, <1>2, <1>9
    <3>2. put.data # Keep => \A x \in put.data : Approved(x)
      BY <1>1, <1>2, <1>5, <1>10, <3>1 DEF BatchOK
    <3> QED
      BY <1>1, <1>9, <1>10, <3>2 DEF BatchOK
  <2> QED
    BY <2>1, <2>2, <2>3, <2>4, <2>5 DEF BatchOK
<1>12. \A e \in Dispatcher : e # d => batch[e].lock \cap n.lock = {}
  BY <1>8 DEF IndInv, b
<1>13. /\ graph' \in [Target -> GraphType]
       /\ \A y \in Target : \A x \in graph'[y].data : x \in graph[y].data \/ Approved(x)
  <2>1. CASE graph' = graph
    BY <2>1 DEF IndInv, TypeOK
  <2>2. CASE WriteGraph(d, c)
    <3> DEFINE g == GraphWritten(graph[t], c, op)
    <3>1. graph' = [graph EXCEPT ![t] = g]
      BY <2>2 DEF WriteGraph, t, op
    <3>2. graph[t] \in GraphType
      BY <1>2 DEF IndInv, TypeOK
    <3>3. g \in GraphType /\ g.data \subseteq graph[t].data \cup {c}
      BY <3>2 DEF GraphWritten, GraphType
    <3> HIDE DEF g
    <3> QED
      BY <1>3, <3>1, <3>3 DEF IndInv, TypeOK
  <2> QED
    BY <2>1, <2>2
<1> QED
  BY <1>7, <1>8, <1>11, <1>12, <1>13, BatchStep

\* What the batch made of a task it has not worked on yet.
LEMMA AttemptShape ==
    ASSUME IndInv, NEW d \in Dispatcher, NEW c \in Correction, IsNext(d, c)
    PROVE  /\ Attempted(d, c) \in TaskType
           /\ Attempted(d, c).attempts \in 1..MaxAttempts
           /\ batch[d].seen[c] \in CorStatus \ {"COMPLETED"}
<1>1. batch[d] # NoBatch /\ c \in batch[d].todo
  BY DEF IsNext, NoBatch
<1>2. batch[d] \in BatchType /\ BatchOK(batch[d])
  BY <1>1, BatchShape DEF IndInv
<1>3. c \in batch[d].lock /\ batch[d].result[c] = task[c] /\ Due(c) /\ batch[d].seen[c] # "COMPLETED"
  BY <1>1, <1>2 DEF BatchOK
<1>4. task[c] \in TaskType /\ task[c].attempts \in 0..(MaxAttempts - 1)
  <2>1. task[c] \in TaskType
    BY DEF IndInv, TypeOK
  <2>2. task[c].status = "PENDING" => task[c].attempts = 0
    BY DEF IndInv, AttemptsRespected
  <2>3. task[c].status = "RETRYING" => task[c].attempts \in 1..(MaxAttempts - 1)
    BY DEF IndInv, AttemptsRespected
  <2> QED
    BY <1>3, <2>1, <2>2, <2>3, BoundsAssumption DEF Due
<1>5. task[c].attempts + 1 \in 1..MaxAttempts
  BY <1>4, BoundsAssumption
<1>6. Attempted(d, c) = [task[c] EXCEPT !.attempts = task[c].attempts + 1]
  BY <1>3 DEF Attempted
<1>7. task[c].attempts + 1 \in Nat
  BY <1>5
<1>8. Attempted(d, c) \in TaskType /\ Attempted(d, c).attempts = task[c].attempts + 1
  BY <1>4, <1>6, <1>7 DEF TaskType
<1>9. batch[d].seen[c] \in CorStatus
  BY <1>2 DEF BatchType
<1> QED
  BY <1>3, <1>5, <1>8, <1>9

\* A failed attempt gives the task up exactly when it was the last one.
LEMMA FailedShape ==
    ASSUME NEW row \in TaskType, row.attempts \in 1..MaxAttempts
    PROVE  /\ Failed(row) \in TaskType
           /\ \/ Failed(row).status = "FAILED" /\ Failed(row).attempts = MaxAttempts
              \/ /\ Failed(row).status = "RETRYING"
                 /\ Failed(row).attempts \in 1..(MaxAttempts - 1)
<1>1. Failed(row) \in TaskType
  BY DEF Failed, TaskType, TaskStatus
<1>2. /\ Failed(row).attempts = row.attempts
      /\ Failed(row).status = IF Exhausted(row.attempts) THEN "FAILED" ELSE "RETRYING"
  BY DEF Failed, TaskType
<1> QED
  BY <1>1, <1>2, BoundsAssumption DEF Exhausted

\* The projection cannot be written.
LEMMA ProjectionFailsStep ==
    ASSUME IndInv, NEW d \in Dispatcher, NEW c \in Correction, ProjectionFails(d, c)
    PROVE  IndInv'
<1> DEFINE f == Failed(Attempted(d, c))
           g == IF batch[d].mode = "projection" THEN "SKIPPED" ELSE batch[d].result[c].graph
           row == [f EXCEPT !.mysql = "FAILED", !.graph = g]
<1>1. IsNext(d, c)
  BY DEF ProjectionFails
<1>2. f \in TaskType /\ (\/ f.status = "FAILED" /\ f.attempts = MaxAttempts
                         \/ f.status = "RETRYING" /\ f.attempts \in 1..(MaxAttempts - 1))
  BY <1>1, AttemptShape, FailedShape
<1>3. g \in SideStatus
  <2>1. batch[d] \in BatchType
    BY <1>1, BatchShape DEF IndInv, IsNext, NoBatch
  <2> QED
    BY <2>1 DEF BatchType, TaskType, SideStatus
<1> HIDE DEF f, g
<1>4. row \in TaskType /\ row.status = f.status /\ row.attempts = f.attempts
  BY <1>2, <1>3 DEF TaskType, SideStatus
<1>5. Worked(row, batch[d].seen[c], Change(batch[d].seen[c], "SYNC_FAILED"))
  BY <1>2, <1>4 DEF Worked, Change
<1>6. Process(d, c, FALSE, row, "SYNC_FAILED")
  BY DEF ProjectionFails, f, g
<1> HIDE DEF row
<1> QED
  BY <1>1, <1>4, <1>5, <1>6, ProcessStep DEF ProjectionFails

\* The projection is written and, in `projection' mode, that is all.
LEMMA ProjectOnlyStep ==
    ASSUME IndInv, NEW d \in Dispatcher, NEW c \in Correction, ProjectOnly(d, c)
    PROVE  IndInv'
<1> DEFINE a == Attempted(d, c)
           row == [a EXCEPT !.status = "SUCCEEDED", !.mysql = "SUCCEEDED", !.graph = "SKIPPED"]
<1>1. IsNext(d, c)
  BY DEF ProjectOnly
<1>2. a \in TaskType /\ a.attempts \in 1..MaxAttempts /\ batch[d].seen[c] # "COMPLETED"
  BY <1>1, AttemptShape
<1> HIDE DEF a
<1>3. row \in TaskType /\ row.status = "SUCCEEDED" /\ row.attempts = a.attempts
  BY <1>2 DEF TaskType, SideStatus, TaskStatus
<1>4. Worked(row, batch[d].seen[c], Change(batch[d].seen[c], "COMPLETED"))
  BY <1>2, <1>3, BoundsAssumption DEF Worked, Change
<1>5. Process(d, c, TRUE, row, "COMPLETED")
  BY DEF ProjectOnly, a
<1> HIDE DEF row
<1> QED
  BY <1>1, <1>3, <1>4, <1>5, ProcessStep DEF ProjectOnly

\* Both stores take the correction.
LEMMA ProjectAndGraphStep ==
    ASSUME IndInv, NEW d \in Dispatcher, NEW c \in Correction, ProjectAndGraph(d, c)
    PROVE  IndInv'
<1> DEFINE a == Attempted(d, c)
           row == [a EXCEPT !.status = "SUCCEEDED", !.mysql = "SUCCEEDED", !.graph = "SUCCEEDED"]
<1>1. IsNext(d, c)
  BY DEF ProjectAndGraph
<1>2. a \in TaskType /\ a.attempts \in 1..MaxAttempts /\ batch[d].seen[c] # "COMPLETED"
  BY <1>1, AttemptShape
<1> HIDE DEF a
<1>3. row \in TaskType /\ row.status = "SUCCEEDED" /\ row.attempts = a.attempts
  BY <1>2 DEF TaskType, SideStatus, TaskStatus
<1>4. Worked(row, batch[d].seen[c], Change(batch[d].seen[c], "COMPLETED"))
  BY <1>2, <1>3, BoundsAssumption DEF Worked, Change
<1>5. Process(d, c, TRUE, row, "COMPLETED")
  BY DEF ProjectAndGraph, a
<1> HIDE DEF row
<1> QED
  BY <1>1, <1>3, <1>4, <1>5, ProcessStep DEF ProjectAndGraph

\* The graph refuses, or its answer is lost.
LEMMA GraphFailsStep ==
    ASSUME IndInv, NEW d \in Dispatcher, NEW c \in Correction, GraphFails(d, c)
    PROVE  IndInv'
<1> DEFINE f == Failed(Attempted(d, c))
           row == [f EXCEPT !.mysql = "SUCCEEDED", !.graph = "FAILED"]
<1>1. IsNext(d, c)
  BY DEF GraphFails
<1>2. f \in TaskType /\ (\/ f.status = "FAILED" /\ f.attempts = MaxAttempts
                         \/ f.status = "RETRYING" /\ f.attempts \in 1..(MaxAttempts - 1))
  BY <1>1, AttemptShape, FailedShape
<1> HIDE DEF f
<1>3. row \in TaskType /\ row.status = f.status /\ row.attempts = f.attempts
  BY <1>2 DEF TaskType, SideStatus
<1>4. Worked(row, batch[d].seen[c], Change(batch[d].seen[c], "SYNC_FAILED"))
  BY <1>2, <1>3 DEF Worked, Change
<1>5. Process(d, c, TRUE, row, "SYNC_FAILED")
  BY DEF GraphFails, f
<1> HIDE DEF row
<1> QED
  BY <1>1, <1>3, <1>4, <1>5, ProcessStep DEF GraphFails

-----------------------------------------------------------------------------
(* The commit of a batch *)

\* What a batch writes of one correction: a task it holds becomes what the batch
\* made of it, everything else stays.
LEMMA BatchRow ==
    ASSUME IndInv, NEW d \in Dispatcher, CommitBatch(d), NEW c \in Correction
    PROVE  /\ correction'[c] \in CorrectionType /\ task'[c] \in TaskType
           /\ correction'[c].by = correction[c].by
           /\ correction'[c].reviewer = correction[c].reviewer
           /\ c \notin batch[d].lock => correction'[c] = correction[c] /\ task'[c] = task[c]
           /\ c \in batch[d].lock =>
                /\ Due(c)
                /\ batch[d].seen[c] = "SYNC_FAILED" => task[c].status = "RETRYING"
                /\ Worked(task'[c], batch[d].seen[c], batch[d].status[c])
                /\ correction'[c].status = Write(correction[c].status, batch[d].status[c])
<1> DEFINE b == batch[d]
<1>1. b # NoBatch /\ b.todo = {}
  BY DEF CommitBatch
<1>2. b \in BatchType /\ BatchOK(b)
  BY <1>1, BatchShape DEF IndInv
<1>3. /\ task'[c] = IF c \in b.lock THEN b.result[c] ELSE task[c]
      /\ correction'[c] = [correction[c] EXCEPT !.status = Write(correction[c].status, b.status[c])]
  BY DEF CommitBatch
<1>4. correction[c] \in CorrectionType /\ task[c] \in TaskType
  BY DEF IndInv, TypeOK
<1>5. b.result[c] \in TaskType /\ b.status[c] \in CorStatus \cup {Keep}
  BY <1>2 DEF BatchType
<1>6. correction'[c] \in CorrectionType /\ task'[c] \in TaskType
  BY <1>3, <1>4, <1>5 DEF CorrectionType, Write
<1>7. /\ correction'[c].by = correction[c].by
      /\ correction'[c].reviewer = correction[c].reviewer
      /\ correction'[c].status = Write(correction[c].status, b.status[c])
  BY <1>3, <1>4 DEF CorrectionType
<1>8. CASE c \notin b.lock
  <2>1. b.status[c] = Keep
    BY <1>1, <1>2, <1>8 DEF BatchOK
  <2>2. correction'[c] = correction[c]
    BY <1>3, <1>4, <2>1 DEF Write, CorrectionType
  <2> QED
    BY <1>3, <1>6, <1>7, <1>8, <2>2
<1>9. CASE c \in b.lock
  <2>1. /\ Due(c) /\ (b.seen[c] = "SYNC_FAILED" => task[c].status = "RETRYING")
        /\ Worked(b.result[c], b.seen[c], b.status[c])
    BY <1>1, <1>2, <1>9 DEF BatchOK
  <2>2. task'[c] = b.result[c]
    BY <1>3, <1>9
  <2> QED
    BY <1>6, <1>7, <1>9, <2>1, <2>2
<1> QED
  BY <1>8, <1>9

\* After a batch the two rows of each correction agree, attempts are counted
\* right, and nothing is taken back.
LEMMA BatchRowOK ==
    ASSUME IndInv, NEW d \in Dispatcher, CommitBatch(d), NEW c \in Correction
    PROVE  /\ correction'[c].status = "PENDING_SYNC" => task'[c].status = "PENDING"
           /\ correction'[c].status = "SYNC_FAILED" => task'[c].status \in {"RETRYING", "FAILED"}
           /\ correction'[c].status = "COMPLETED" => task'[c].status = "SUCCEEDED"
           /\ task'[c].attempts <= MaxAttempts
           /\ task'[c].status = "FAILED" => task'[c].attempts = MaxAttempts
           /\ task'[c].status = "RETRYING" => task'[c].attempts \in 1..(MaxAttempts - 1)
           /\ task'[c].status = "PENDING" => task'[c].attempts = 0
           /\ RowOK(c)'
           /\ Grows(c)
<1>1. CASE c \notin batch[d].lock
  BY <1>1, BatchRow DEF IndInv, TaskAgrees, AttemptsRespected, RowOK, Grows, Filed, Approved, BySecond
<1>2. CASE c \in batch[d].lock
  <2> DEFINE seen == batch[d].seen[c]
             st == batch[d].status[c]
  <2>1. /\ Due(c) /\ Worked(task'[c], seen, st)
        /\ seen = "SYNC_FAILED" => task[c].status = "RETRYING"
        /\ correction'[c].status = Write(correction[c].status, st)
        /\ correction'[c].by = correction[c].by /\ correction'[c].reviewer = correction[c].reviewer
    BY <1>2, BatchRow
  <2> HIDE DEF seen, st
  <2>2. /\ Approved(c) /\ Filed(c) /\ BySecond(c, correction[c].reviewer)
        /\ correction[c].by # NoUser
        /\ correction[c].status \notin {"ABSENT", "PENDING_REVIEW"}
    BY <2>1 DEF IndInv, Due, Approved, RowOK, Filed
  <2>3. Approved(c)' /\ task'[c].status # "PENDING" /\ task'[c].status # "ABSENT"
    BY <2>1 DEF Worked, Approved
  <2>4. correction'[c].status \notin {"ABSENT", "PENDING_REVIEW"}
    BY <2>1, <2>2, KeepAssumption DEF Worked, Write, CorStatus
  <2>5. RowOK(c)' /\ Grows(c)
    BY <2>1, <2>2, <2>3, <2>4 DEF RowOK, Grows, Filed, BySecond
  <2>6. CASE st = Keep
    <3>1. seen = "SYNC_FAILED" /\ task'[c].status \in {"FAILED", "RETRYING"}
      BY <2>1, <2>6, KeepAssumption DEF Worked, CorStatus
    <3>2. task[c].status = "RETRYING" /\ correction'[c].status = correction[c].status
      BY <2>1, <2>6, <3>1 DEF Write
    <3>3. correction[c].status \notin {"PENDING_SYNC", "COMPLETED"}
      BY <3>2 DEF IndInv, TaskAgrees
    <3> QED
      BY <2>1, <2>5, <3>1, <3>2, <3>3, BoundsAssumption DEF Worked
  <2>7. CASE st # Keep
    BY <2>1, <2>5, <2>7, BoundsAssumption DEF Worked, Write
  <2> QED
    BY <2>6, <2>7
<1> QED
  BY <1>1, <1>2

\* The projection after a batch holds what it held and what the batch flushed.
LEMMA BatchStores ==
    ASSUME IndInv, NEW d \in Dispatcher, CommitBatch(d), NEW t \in Target
    PROVE  /\ projection'[t] \in ProjectionType
           /\ \A c \in projection'[t].data : Approved(c)
<1> DEFINE b == batch[d]
<1>1. b # NoBatch /\ b \in BatchType /\ BatchOK(b)
  BY BatchShape DEF IndInv, CommitBatch
<1>2. projection'[t] = Merged(projection[t], b.put[t])
  BY DEF CommitBatch
<1>3. b.put[t] \in PutType /\ projection[t] \in ProjectionType
  BY <1>1 DEF BatchType, IndInv, TypeOK
<1>4. b.put[t].insert => projection[t].last = None
  BY DEF CommitBatch
<1>5. \A c \in projection[t].data : Approved(c)
  BY DEF IndInv, StoresOK
<1>6. b.put[t].data # Keep => \A c \in b.put[t].data : Approved(c)
  BY <1>1 DEF BatchOK
<1> HIDE DEF b
<1>7. projection'[t] \in ProjectionType
  BY <1>2, <1>3 DEF Merged, Write, PutType, ProjectionType
<1>8. projection'[t].data = IF b.put[t].data = Keep THEN projection[t].data ELSE b.put[t].data
  BY <1>2 DEF Merged, Write
<1> QED
  BY <1>5, <1>6, <1>7, <1>8

\* A batch that commits keeps the invariant, other sessions and batches included.
LEMMA CommitBatchStep ==
    ASSUME IndInv, NEW d \in Dispatcher, CommitBatch(d)
    PROVE  IndInv'
<1>1. \A c \in Correction : RowOK(c)' /\ Grows(c)
  BY BatchRowOK
<1>2. TaskAgrees' /\ AttemptsRespected'
  BY BatchRowOK DEF TaskAgrees, AttemptsRespected
<1>3. \A e \in Dispatcher : batch'[e] = IF e = d THEN NoBatch ELSE batch[e]
  BY DEF CommitBatch, IndInv, TypeOK
<1>4. TypeOK'
  <2>1. correction' \in [Correction -> CorrectionType]
    <3>1. correction' = [c \in Correction |-> correction'[c]]
      BY DEF CommitBatch
    <3> QED
      BY <3>1, BatchRow
  <2>2. task' \in [Correction -> TaskType]
    <3>1. task' = [c \in Correction |-> task'[c]]
      BY DEF CommitBatch
    <3> QED
      BY <3>1, BatchRow
  <2>3. projection' \in [Target -> ProjectionType]
    <3>1. projection' = [t \in Target |-> projection'[t]]
      BY DEF CommitBatch
    <3> QED
      BY <3>1, BatchStores
  <2>4. batch' \in [Dispatcher -> BatchType \cup {NoBatch}]
    BY DEF CommitBatch, IndInv, TypeOK
  <2> QED
    BY <2>1, <2>2, <2>3, <2>4 DEF CommitBatch, IndInv, TypeOK
<1>5. \A t \in Target : StoresOK(t)'
  <2> TAKE t \in Target
  <2>1. projection'[t].data \subseteq Correction /\ graph'[t].data \subseteq Correction
    BY <1>4 DEF TypeOK, ProjectionType, GraphType
  <2>2. \A c \in projection'[t].data : Approved(c)
    BY BatchStores
  <2>3. \A c \in graph'[t].data : Approved(c)
    BY DEF CommitBatch, IndInv, StoresOK
  <2> QED
    BY <1>1, <2>1, <2>2, <2>3 DEF StoresOK, Grows
<1>6. \A s \in Session : StagedOK(tx[s])'
  BY <1>1, StagedKept DEF CommitBatch
<1>7. \A e \in Dispatcher : BatchOK(batch[e])'
  <2> TAKE e \in Dispatcher
  <2>1. CASE batch'[e] = NoBatch
    BY <2>1 DEF BatchOK
  <2>2. CASE batch'[e] # NoBatch
    <3>1. e # d /\ batch'[e] = batch[e] /\ batch[e] # NoBatch
      BY <1>3, <2>2
    <3>2. \A c \in batch[e].lock : task'[c] = task[c]
      <4>1. batch[e].lock \cap batch[d].lock = {} /\ batch[e].lock \subseteq Correction
        BY <3>1, BatchShape DEF IndInv
      <4> QED
        BY <4>1, BatchRow
    <3> QED
      BY <1>1, <3>1, <3>2, BatchKept
  <2> QED
    BY <2>1, <2>2
<1>8. \A e, f \in Dispatcher : e # f => batch'[e].lock \cap batch'[f].lock = {}
  BY <1>3 DEF IndInv, NoBatch
<1> QED
  BY <1>1, <1>2, <1>4, <1>5, <1>6, <1>7, <1>8 DEF IndInv

-----------------------------------------------------------------------------
(* The theorems *)

\* A step that changes nothing.
LEMMA StutterStep == IndInv /\ UNCHANGED vars => IndInv'
<1> SUFFICES ASSUME IndInv, UNCHANGED vars PROVE IndInv'
  OBVIOUS
<1>1. TypeOK'
  BY DEF IndInv, TypeOK, vars
<1>2. \A c \in Correction : RowOK(c)' /\ Grows(c)
  BY DEF IndInv, RowOK, Grows, Filed, Approved, BySecond, vars
<1>3. TaskAgrees' /\ AttemptsRespected'
  BY DEF IndInv, TaskAgrees, AttemptsRespected, vars
<1> QED
  BY <1>1, <1>2, <1>3, TablesStep DEF vars

\* Every step keeps the invariant.
LEMMA NextStep == IndInv /\ [Next]_vars => IndInv'
<1> SUFFICES ASSUME IndInv, [Next]_vars PROVE IndInv'
  OBVIOUS
<1>1. CASE UNCHANGED vars
  BY <1>1, StutterStep
<1>2. ASSUME NEW c \in Correction, NEW u \in User, Create(c, u) PROVE IndInv'
  BY <1>2, CreateStep
<1>3. ASSUME NEW s \in Session, NEW c \in Correction, NEW u \in User, Request(s, c, u)
      PROVE  IndInv'
  BY <1>3, UpdateStep, CancelStep, RejectStep, ApproveStep, RetryStep DEF Request
<1>4. ASSUME NEW s \in Session, NEW c \in Correction, Commit(s, c) PROVE IndInv'
  BY <1>4, CommitStep
<1>5. ASSUME NEW s \in Session, Rollback(s) PROVE IndInv'
  BY <1>5, RollbackStep
<1>6. ASSUME NEW d \in Dispatcher, Dispatch(d) PROVE IndInv'
  <2>1. ASSUME NEW S \in SUBSET Correction, NEW mode \in Modes, Poll(d, S, mode) PROVE IndInv'
    BY <1>6, <2>1, PollStep
  <2>2. ASSUME NEW c \in Correction,
               ProjectionFails(d, c) \/ ProjectOnly(d, c) \/ ProjectAndGraph(d, c)
               \/ GraphFails(d, c)
        PROVE  IndInv'
    BY <1>6, <2>2, ProjectionFailsStep, ProjectOnlyStep, ProjectAndGraphStep, GraphFailsStep
  <2>3. CommitBatch(d) => IndInv'
    BY <1>6, CommitBatchStep
  <2>4. AbortBatch(d) => IndInv'
    BY <1>6, AbortBatchStep
  <2> QED
    BY <1>6, <2>1, <2>2, <2>3, <2>4 DEF Dispatch
<1> QED
  BY <1>1, <1>2, <1>3, <1>4, <1>5, <1>6 DEF Next

\* IndInv holds throughout: rows, staged units, stores and open batches fit
\* together however requests and dispatchers overlap.
THEOREM Invariance == Spec => []IndInv
  BY InitInv, NextStep, PTL DEF Spec

\* Every variable keeps its type.
THEOREM TypeCorrect == Spec => []TypeOK
<1>1. IndInv => TypeOK
  BY DEF IndInv
<1> QED
  BY <1>1, Invariance, PTL

\* decide, retry and process_task leave a correction and its task in agreement.
THEOREM TaskAgreesHolds == Spec => []TaskAgrees
<1>1. IndInv => TaskAgrees
  BY DEF IndInv
<1> QED
  BY <1>1, Invariance, PTL

\* A task is given up after its last attempt and not before.
THEOREM AttemptsRespectedHolds == Spec => []AttemptsRespected
<1>1. IndInv => AttemptsRespected
  BY DEF IndInv
<1> QED
  BY <1>1, Invariance, PTL

\* Neither the projection nor the graph holds anything that no second person
\* approved.
THEOREM OnlyReviewedIsAppliedHolds == Spec => []OnlyReviewedIsApplied
<1>1. IndInv => OnlyReviewedIsApplied
  <2> SUFFICES ASSUME IndInv, NEW c \in Correction,
                      c \in projection[correction[c].target].data
                            \cup graph[correction[c].target].data
               PROVE  /\ task[c].status # "ABSENT"
                      /\ correction[c].reviewer \notin {NoUser, correction[c].by}
    BY DEF OnlyReviewedIsApplied
  <2>1. correction[c].target \in Target
    BY DEF IndInv, TypeOK, CorrectionType
  <2>2. Approved(c)
    BY <2>1 DEF IndInv, StoresOK
  <2> QED
    BY <2>2 DEF IndInv, RowOK, Approved, BySecond
<1> QED
  BY <1>1, Invariance, PTL

-----------------------------------------------------------------------------
(***************************************************************************)
(* Where a completed correction is.  A task that succeeded says which      *)
(* stores took the correction; a batch knows it before the task does, and  *)
(* no store forgets it: rows of the projection are never removed, nodes    *)
(* and data of the graph neither.                                          *)
(***************************************************************************)

\* What a task `row' of correction c must say, and what graph g must hold then.
Applied(c, row, g) ==
    LET t == correction[c].target IN
    /\ row.mysql = "SUCCEEDED" /\ row.graph \in {"SKIPPED", "SUCCEEDED"}
    /\ row.graph = "SUCCEEDED" /\ correction[c].operation # "delete"
          => g[t].there /\ c \in g[t].data

TaskApplied(c) ==
    task[c].status = "SUCCEEDED" =>
        Applied(c, task[c], graph) /\ projection[correction[c].target].last # None

BatchApplied(b) ==
    b # NoBatch =>
        /\ \A c \in b.lock \ b.todo : b.result[c].status = "SUCCEEDED" =>
              Applied(c, b.result[c], graph) /\ b.view[correction[c].target].last # None
        /\ \A t \in Target :
              b.view[t].last # None => projection[t].last # None \/ b.put[t].last # Keep

AppliedInv ==
    /\ \A c \in Correction : TaskApplied(c)
    /\ \A d \in Dispatcher : BatchApplied(batch[d])

\* What no step takes back: what a correction is about, the rows of the
\* projection, and what the graph holds.
Lasts ==
    /\ \A c \in Correction : /\ correction'[c].operation = correction[c].operation
                             /\ correction'[c].target = correction[c].target
    /\ \A t \in Target : /\ projection[t].last # None => projection'[t].last # None
                         /\ graph[t].there => graph'[t].there
                         /\ graph[t].data \subseteq graph'[t].data

\* What the projection row of correction c is for dispatcher d, and what the
\* correction makes of it.
Before(d, c) == batch[d].view[correction[c].target]
Made(d, c) == Projected(Before(d, c), c, correction[c].operation)

\* A dispatcher works on a task it holds, and of its batch only what belongs to
\* that correction and that target changes.
LEMMA ProcessFields ==
    ASSUME IndInv, NEW d \in Dispatcher, NEW c \in Correction, IsNext(d, c),
           NEW wrote \in BOOLEAN, NEW row \in TaskType,
           NEW status \in {"SYNC_FAILED", "COMPLETED"},
           Process(d, c, wrote, row, status)
    PROVE  /\ batch[d] # NoBatch /\ batch[d] \in BatchType /\ batch'[d] \in BatchType
           /\ c \in batch[d].lock /\ batch[d].lock \subseteq Correction
           /\ batch'[d].lock = batch[d].lock /\ batch'[d].todo = batch[d].todo \ {c}
           /\ \A x \in Correction :
                batch'[d].result[x] = IF x = c THEN row ELSE batch[d].result[x]
           /\ \A y \in Target : y # correction[c].target =>
                batch'[d].put[y] = batch[d].put[y] /\ batch'[d].view[y] = batch[d].view[y]
           /\ batch'[d].put[correction[c].target] =
                IF wrote THEN Put(batch[d].put[correction[c].target], Before(d, c), Made(d, c))
                         ELSE batch[d].put[correction[c].target]
           /\ batch'[d].view[correction[c].target] = IF wrote THEN Made(d, c) ELSE Before(d, c)
           /\ \A e \in Dispatcher : e # d => batch'[e] = batch[e]
<1> DEFINE b == batch[d]
           t == correction[c].target
           old == Before(d, c)
           new == Made(d, c)
           st == Change(b.seen[c], status)
           put == IF wrote THEN Put(b.put[t], old, new) ELSE b.put[t]
           view == IF wrote THEN new ELSE old
           n == After(b, c, t, row, st, put, view)
<1>1. b # NoBatch /\ c \in b.todo
  BY DEF IsNext, NoBatch
<1>2. b \in BatchType /\ BatchOK(b)
  BY <1>1, BatchShape DEF IndInv
<1>3. c \in b.lock /\ b.lock \subseteq Correction
  BY <1>1, <1>2 DEF BatchOK, BatchType
<1>4. t \in Target /\ correction[c].operation \in Operation
  BY DEF IndInv, TypeOK, CorrectionType
<1>5. old \in ProjectionType /\ b.put[t] \in PutType /\ b.seen[c] \in CorStatus
  BY <1>2, <1>4 DEF BatchType, Before
<1>6. view \in ProjectionType /\ put \in PutType
  BY <1>4, <1>5, ProjectedShape DEF Made
<1>7. st \in CorStatus \cup {Keep}
  BY DEF Change, CorStatus
<1>8. batch' = [batch EXCEPT ![d] = n]
  BY DEF Process, Before, Made
<1> HIDE DEF b, t, old, new, st, put, view
<1>9. /\ n \in BatchType
      /\ n.lock = b.lock /\ n.todo = b.todo \ {c} /\ n.seen = b.seen
      /\ n.result = [b.result EXCEPT ![c] = row]
      /\ n.status = [b.status EXCEPT ![c] = st]
      /\ n.put = [b.put EXCEPT ![t] = put]
      /\ n.view = [b.view EXCEPT ![t] = view]
  BY <1>2, <1>4, <1>6, <1>7, FinishFields
<1> HIDE DEF n
<1>10. /\ \A x \in Correction : n.result[x] = IF x = c THEN row ELSE b.result[x]
       /\ \A y \in Target : n.put[y] = IF y = t THEN put ELSE b.put[y]
       /\ \A y \in Target : n.view[y] = IF y = t THEN view ELSE b.view[y]
  BY <1>2, <1>9 DEF BatchType
<1>11. batch'[d] = n /\ \A e \in Dispatcher : e # d => batch'[e] = batch[e]
  BY <1>8 DEF IndInv, TypeOK
<1> QED
  BY <1>1, <1>2, <1>3, <1>4, <1>9, <1>10, <1>11 DEF b, t, old, new, put, view

\* Whatever becomes of a task, MySQL succeeded only if the projection was
\* written, the task only if every store it names took the correction, and one
\* more attempt is counted.
LEMMA AttemptOutcome ==
    ASSUME IndInv, NEW d \in Dispatcher, NEW c \in Correction,
           ProjectionFails(d, c) \/ ProjectOnly(d, c) \/ ProjectAndGraph(d, c) \/ GraphFails(d, c)
    PROVE  /\ IsNext(d, c) /\ UNCHANGED <<correction, task, projection>>
           /\ \E wrote \in BOOLEAN, row \in TaskType, status \in {"SYNC_FAILED", "COMPLETED"} :
                /\ Process(d, c, wrote, row, status)
                /\ row.mysql = "SUCCEEDED" => wrote
                /\ row.status = "SUCCEEDED" => wrote /\ Applied(c, row, graph')
                /\ row.attempts = task[c].attempts + 1
<1> DEFINE Goal == \E wrote \in BOOLEAN, row \in TaskType, status \in {"SYNC_FAILED", "COMPLETED"} :
                     /\ Process(d, c, wrote, row, status)
                     /\ row.mysql = "SUCCEEDED" => wrote
                     /\ row.status = "SUCCEEDED" => wrote /\ Applied(c, row, graph')
                     /\ row.attempts = task[c].attempts + 1
           a == Attempted(d, c)
           f == Failed(a)
<1>1. IsNext(d, c) /\ UNCHANGED <<correction, task, projection>>
  BY DEF ProjectionFails, ProjectOnly, ProjectAndGraph, GraphFails
<1>2. a \in TaskType /\ a.attempts \in 1..MaxAttempts /\ a.attempts = task[c].attempts + 1
  <2>1. batch[d] # NoBatch /\ c \in batch[d].todo
    BY <1>1 DEF IsNext, NoBatch
  <2>2. BatchOK(batch[d])
    BY DEF IndInv
  <2>3. batch[d].result[c] = task[c] /\ task[c] \in TaskType
    BY <2>1, <2>2 DEF BatchOK, IndInv, TypeOK
  <2>4. Attempted(d, c).attempts = task[c].attempts + 1
    BY <2>3 DEF Attempted, TaskType
  <2> QED
    BY <1>1, <2>4, AttemptShape
<1>3. f \in TaskType /\ f.status # "SUCCEEDED" /\ f.attempts = a.attempts
  <2>1. f.attempts = a.attempts
    BY <1>2 DEF Failed, TaskType
  <2> QED
    BY <1>2, <2>1, FailedShape
<1>4. correction[c].target \in Target
  BY DEF IndInv, TypeOK, CorrectionType
<1> HIDE DEF a, f
<1>5. ASSUME ProjectionFails(d, c) PROVE Goal
  <2> DEFINE g == IF batch[d].mode = "projection" THEN "SKIPPED" ELSE batch[d].result[c].graph
             row == [f EXCEPT !.mysql = "FAILED", !.graph = g]
  <2>1. g \in SideStatus
    <3>1. batch[d] \in BatchType
      BY <1>1, BatchShape DEF IndInv, IsNext, NoBatch
    <3> QED
      BY <3>1 DEF BatchType, TaskType, SideStatus
  <2>2. Process(d, c, FALSE, row, "SYNC_FAILED")
    BY <1>5 DEF ProjectionFails, f, a
  <2> HIDE DEF g
  <2>3. row \in TaskType /\ row.mysql = "FAILED" /\ row.status = f.status
        /\ row.attempts = f.attempts
    BY <1>3, <2>1 DEF TaskType, SideStatus
  <2> HIDE DEF row
  <2> QED
    BY <1>2, <1>3, <2>2, <2>3
<1>6. ASSUME ProjectOnly(d, c) PROVE Goal
  <2> DEFINE row == [a EXCEPT !.status = "SUCCEEDED", !.mysql = "SUCCEEDED", !.graph = "SKIPPED"]
  <2>1. Process(d, c, TRUE, row, "COMPLETED")
    BY <1>6 DEF ProjectOnly, a
  <2>2. row \in TaskType /\ row.mysql = "SUCCEEDED" /\ row.graph = "SKIPPED"
        /\ row.attempts = a.attempts
    BY <1>2 DEF TaskType, SideStatus, TaskStatus
  <2> HIDE DEF row
  <2>3. Applied(c, row, graph')
    BY <2>2 DEF Applied
  <2> QED
    BY <1>2, <2>1, <2>2, <2>3
<1>7. ASSUME ProjectAndGraph(d, c) PROVE Goal
  <2> DEFINE row == [a EXCEPT !.status = "SUCCEEDED", !.mysql = "SUCCEEDED", !.graph = "SUCCEEDED"]
  <2>1. Process(d, c, TRUE, row, "COMPLETED")
    BY <1>7 DEF ProjectAndGraph, a
  <2>2. row \in TaskType /\ row.mysql = "SUCCEEDED" /\ row.graph = "SUCCEEDED"
        /\ row.attempts = a.attempts
    BY <1>2 DEF TaskType, SideStatus, TaskStatus
  <2> HIDE DEF row
  <2>3. correction[c].operation # "delete" =>
          graph'[correction[c].target].there /\ c \in graph'[correction[c].target].data
    BY <1>4, <1>7 DEF ProjectAndGraph, WriteGraph, GraphWritten, IndInv, TypeOK
  <2>4. Applied(c, row, graph')
    BY <2>2, <2>3 DEF Applied
  <2> QED
    BY <1>2, <2>1, <2>2, <2>4
<1>8. ASSUME GraphFails(d, c) PROVE Goal
  <2> DEFINE row == [f EXCEPT !.mysql = "SUCCEEDED", !.graph = "FAILED"]
  <2>1. Process(d, c, TRUE, row, "SYNC_FAILED")
    BY <1>8 DEF GraphFails, f, a
  <2>2. row \in TaskType /\ row.status = f.status /\ row.attempts = f.attempts
    BY <1>3 DEF TaskType, SideStatus
  <2> HIDE DEF row
  <2> QED
    BY <1>2, <1>3, <2>1, <2>2
<1> QED
  BY <1>1, <1>5, <1>6, <1>7, <1>8

\* Staging, filing and committing requests take nothing back.
LEMMA RequestLasts ==
    ASSUME IndInv, UNCHANGED <<projection, graph>>,
           \/ \E c \in Correction, u \in User : Create(c, u)
           \/ \E s \in Session, c \in Correction : Commit(s, c)
           \/ UNCHANGED correction
    PROVE  Lasts
<1>1. \A c \in Correction : /\ correction'[c].operation = correction[c].operation
                            /\ correction'[c].target = correction[c].target
  <2>1. \A c \in Correction : correction[c] \in CorrectionType
    BY DEF IndInv, TypeOK
  <2>2. ASSUME NEW x \in Correction, NEW u \in User, Create(x, u)
        PROVE  \A c \in Correction : /\ correction'[c].operation = correction[c].operation
                                     /\ correction'[c].target = correction[c].target
    <3> DEFINE row == [correction[x] EXCEPT !.status = "PENDING_REVIEW", !.by = u, !.version = 1]
    <3>1. row.operation = correction[x].operation /\ row.target = correction[x].target
      BY <2>1 DEF CorrectionType
    <3>2. correction' = [correction EXCEPT ![x] = row]
      BY <2>1, <2>2 DEF Create, IndInv, TypeOK
    <3> HIDE DEF row
    <3> QED
      BY <3>1, <3>2 DEF IndInv, TypeOK
  <2>3. ASSUME NEW s \in Session, NEW x \in Correction, Commit(s, x)
        PROVE  \A c \in Correction : /\ correction'[c].operation = correction[c].operation
                                     /\ correction'[c].target = correction[c].target
    <3> DEFINE row == Flushed(correction[x], tx[s])
    <3>1. row.operation = correction[x].operation /\ row.target = correction[x].target
      BY <2>1 DEF CorrectionType, Flushed
    <3>2. correction' = [correction EXCEPT ![x] = row]
      BY <2>3 DEF Commit
    <3> HIDE DEF row
    <3> QED
      BY <3>1, <3>2 DEF IndInv, TypeOK
  <2> QED
    BY <2>2, <2>3
<1> QED
  BY <1>1 DEF Lasts

\* Neither does a write to the graph.
LEMMA GraphLasts ==
    ASSUME IndInv, NEW d \in Dispatcher, NEW c \in Correction,
           UNCHANGED <<correction, projection>>,
           graph' = graph \/ WriteGraph(d, c)
    PROVE  Lasts
<1> DEFINE t == correction[c].target
           g == GraphWritten(graph[t], c, correction[c].operation)
<1>1. t \in Target /\ graph[t] \in GraphType
  BY DEF IndInv, TypeOK, CorrectionType
<1>2. (graph[t].there => g.there) /\ graph[t].data \subseteq g.data
  BY <1>1 DEF GraphWritten, GraphType
<1>3. WriteGraph(d, c) => graph' = [graph EXCEPT ![t] = g]
  BY DEF WriteGraph
<1> HIDE DEF g, t
<1> QED
  BY <1>1, <1>2, <1>3 DEF Lasts, IndInv, TypeOK

\* A batch that commits leaves operations, targets and the graph alone and
\* writes no row back to nothing.
LEMMA CommitLasts ==
    ASSUME IndInv, NEW d \in Dispatcher, CommitBatch(d)
    PROVE  Lasts
<1>1. \A c \in Correction : /\ correction'[c].operation = correction[c].operation
                            /\ correction'[c].target = correction[c].target
  BY DEF CommitBatch, IndInv, TypeOK, CorrectionType
<1>2. ASSUME NEW t \in Target, projection[t].last # None PROVE projection'[t].last # None
  <2>1. batch[d] \in BatchType
    BY BatchShape DEF IndInv, CommitBatch
  <2>2. batch[d].put[t].last \in Correction \cup {Keep}
    BY <2>1 DEF BatchType, PutType
  <2>3. projection'[t].last = Write(projection[t].last, batch[d].put[t].last)
    BY DEF CommitBatch, Merged
  <2> QED
    BY <1>2, <2>2, <2>3, SetsAssumption DEF Write
<1> QED
  BY <1>1, <1>2 DEF Lasts, CommitBatch

\* So nothing of the kind is ever taken back.
LEMMA NextLasts == IndInv /\ [Next]_vars => Lasts
<1> SUFFICES ASSUME IndInv, [Next]_vars PROVE Lasts
  OBVIOUS
<1>1. CASE UNCHANGED vars
  BY <1>1, RequestLasts DEF vars
<1>2. ASSUME NEW c \in Correction, NEW u \in User, Create(c, u) PROVE Lasts
  BY <1>2, RequestLasts DEF Create
<1>3. ASSUME NEW s \in Session, NEW c \in Correction, NEW u \in User, Request(s, c, u)
      PROVE  Lasts
  BY <1>3, RequestLasts DEF Request, Update, Cancel, Reject, Approve, Retry, Stage
<1>4. ASSUME NEW s \in Session, NEW c \in Correction, Commit(s, c) PROVE Lasts
  BY <1>4, RequestLasts DEF Commit
<1>5. ASSUME NEW s \in Session, Rollback(s) PROVE Lasts
  BY <1>5, RequestLasts DEF Rollback
<1>6. ASSUME NEW d \in Dispatcher, Dispatch(d) PROVE Lasts
  <2>1. ASSUME NEW S \in SUBSET Correction, NEW mode \in Modes, Poll(d, S, mode) PROVE Lasts
    BY <2>1, RequestLasts DEF Poll
  <2>2. ASSUME NEW c \in Correction,
               ProjectionFails(d, c) \/ ProjectOnly(d, c) \/ ProjectAndGraph(d, c)
               \/ GraphFails(d, c)
        PROVE  Lasts
    BY <2>2, GraphLasts DEF ProjectionFails, ProjectOnly, ProjectAndGraph, GraphFails
  <2>3. CommitBatch(d) => Lasts
    BY CommitLasts
  <2>4. AbortBatch(d) => Lasts
    BY RequestLasts DEF AbortBatch
  <2> QED
    BY <1>6, <2>1, <2>2, <2>3, <2>4 DEF Dispatch
<1> QED
  BY <1>1, <1>2, <1>3, <1>4, <1>5, <1>6 DEF Next

\* What was applied stays applied.
LEMMA AppliedLasts ==
    ASSUME IndInv, Lasts, NEW c \in Correction, NEW row, Applied(c, row, graph)
    PROVE  /\ row.mysql = "SUCCEEDED" /\ row.graph \in {"SKIPPED", "SUCCEEDED"}
           /\ row.graph = "SUCCEEDED" /\ correction'[c].operation # "delete"
                => /\ graph'[correction'[c].target].there
                   /\ c \in graph'[correction'[c].target].data
  BY DEF IndInv, TypeOK, CorrectionType, Lasts, Applied

\* A task whose row stays the same.
LEMMA TaskAppliedLasts ==
    ASSUME IndInv, Lasts, NEW c \in Correction, TaskApplied(c),
           task'[c].status = "SUCCEEDED" => task'[c] = task[c]
    PROVE  TaskApplied(c)'
<1> SUFFICES ASSUME task'[c].status = "SUCCEEDED" PROVE TaskApplied(c)'
  BY DEF TaskApplied
<1>1. Applied(c, task[c], graph) /\ projection[correction[c].target].last # None
  BY DEF TaskApplied
<1>2. projection'[correction'[c].target].last # None
  BY <1>1 DEF Lasts, IndInv, TypeOK, CorrectionType
<1>3. Applied(c, task[c], graph)'
  BY <1>1, AppliedLasts DEF Applied
<1> QED
  BY <1>2, <1>3 DEF TaskApplied

\* A batch that stays the same.
LEMMA BatchAppliedLasts ==
    ASSUME IndInv, Lasts, NEW d \in Dispatcher, BatchApplied(batch[d]), batch'[d] = batch[d]
    PROVE  BatchApplied(batch[d])'
<1> DEFINE b == batch[d]
<1> SUFFICES ASSUME b # NoBatch PROVE BatchApplied(batch[d])'
  BY DEF BatchApplied
<1>1. b \in BatchType /\ b.lock \subseteq Correction
  BY BatchShape DEF IndInv
<1>2. ASSUME NEW c \in b.lock \ b.todo, b.result[c].status = "SUCCEEDED"
      PROVE  Applied(c, b.result[c], graph)' /\ b.view[correction'[c].target].last # None
  <2>1. c \in Correction /\ correction'[c].target = correction[c].target
    BY <1>1, <1>2 DEF Lasts
  <2>2. Applied(c, b.result[c], graph) /\ b.view[correction[c].target].last # None
    BY <1>2 DEF BatchApplied
  <2>3. Applied(c, b.result[c], graph)'
    BY <2>1, <2>2, AppliedLasts DEF Applied
  <2> QED
    BY <2>1, <2>2, <2>3
<1>3. \A t \in Target :
        b.view[t].last # None => projection'[t].last # None \/ b.put[t].last # Keep
  BY DEF BatchApplied, Lasts
<1> QED
  BY <1>2, <1>3 DEF BatchApplied

\* Staging and rolling back a request.
LEMMA QuietApplied ==
    ASSUME IndInv, AppliedInv, Lasts, UNCHANGED <<task, batch>>
    PROVE  AppliedInv'
  BY TaskAppliedLasts, BatchAppliedLasts DEF AppliedInv

\* What a request that commits makes of its correction and its task: a new task,
\* a task made due afresh that no batch has locked, or the task as it was.
LEMMA CommitFields ==
    ASSUME IndInv, NEW s \in Session, NEW k \in Correction, Commit(s, k)
    PROVE  /\ tx[s] # NoTx /\ tx[s] \in UnitType /\ StagedOK(tx[s]) /\ tx[s].cor = k
           /\ \A c \in Correction : c # k => correction'[c] = correction[c] /\ task'[c] = task[c]
           /\ correction'[k].by = correction[k].by
           /\ correction'[k].status = Write(correction[k].status, tx[s].status)
           /\ correction'[k].reviewer = Write(correction[k].reviewer, tx[s].reviewer)
           /\ \/ /\ tx[s].insert /\ task[k].status = "ABSENT"
                 /\ task'[k].status = "PENDING" /\ task'[k].attempts = 0
              \/ /\ ~tx[s].insert /\ tx[s].task # Keep /\ Approved(k) /\ ~Locked(k)
                 /\ task'[k].status = "PENDING" /\ task'[k].attempts = 0
              \/ ~tx[s].insert /\ tx[s].task = Keep /\ task'[k] = task[k]
<1> DEFINE u == tx[s]
<1>1. u # NoTx /\ u.cor = k
  BY SetsAssumption DEF Commit, NoTx
<1>2. u \in UnitType /\ StagedOK(u) /\ task[k] \in TaskType /\ correction[k] \in CorrectionType
  BY <1>1, UnitShape DEF IndInv, TypeOK
<1>3. /\ correction'[k] = Flushed(correction[k], u)
      /\ task'[k] = IF u.insert THEN NewTask(u.key) ELSE Reset(task[k], u)
      /\ \A c \in Correction : c # k => correction'[c] = correction[c] /\ task'[c] = task[c]
  BY DEF Commit, IndInv, TypeOK
<1>4. /\ correction'[k].by = correction[k].by
      /\ correction'[k].status = Write(correction[k].status, u.status)
      /\ correction'[k].reviewer = Write(correction[k].reviewer, u.reviewer)
  BY <1>2, <1>3 DEF Flushed, CorrectionType
<1>5. /\ u.insert => task[k].status = "ABSENT"
      /\ u.task # Keep => ~Locked(k)
  BY DEF Commit
<1>6. /\ u.task # Keep => /\ u.task = "PENDING" /\ u.attempts = 0 /\ ~u.insert
                          /\ Approved(k)
      /\ u.task = Keep => u.attempts = Keep
      /\ u.insert \in BOOLEAN
  BY <1>1, <1>2, KeepAssumption DEF StagedOK, TaskStatus, UnitType
<1> HIDE DEF u
<1>7. \/ /\ u.insert /\ task[k].status = "ABSENT"
         /\ task'[k].status = "PENDING" /\ task'[k].attempts = 0
      \/ /\ ~u.insert /\ u.task # Keep /\ Approved(k) /\ ~Locked(k)
         /\ task'[k].status = "PENDING" /\ task'[k].attempts = 0
      \/ ~u.insert /\ u.task = Keep /\ task'[k] = task[k]
  <2>1. CASE u.insert
    <3>1. NewTask(u.key).status = "PENDING" /\ NewTask(u.key).attempts = 0
      BY DEF NewTask
    <3>2. task'[k] = NewTask(u.key) /\ task[k].status = "ABSENT"
      BY <1>3, <1>5, <2>1
    <3> QED
      BY <2>1, <3>1, <3>2
  <2>2. CASE ~u.insert /\ u.task # Keep
    <3>1. /\ Reset(task[k], u).status = Write(task[k].status, u.task)
          /\ Reset(task[k], u).attempts = Write(task[k].attempts, u.attempts)
      BY <1>2 DEF Reset, TaskType
    <3>2. u.attempts # Keep
      BY <1>6, <2>2, KeepAssumption
    <3>3. task'[k].status = "PENDING" /\ task'[k].attempts = 0
      BY <1>3, <1>6, <2>2, <3>1, <3>2 DEF Write
    <3> QED
      BY <1>5, <1>6, <2>2, <3>3
  <2>3. CASE ~u.insert /\ u.task = Keep
    <3>1. Reset(task[k], u) = [task[k] EXCEPT !.status = task[k].status,
                                              !.attempts = task[k].attempts]
      BY <1>6, <2>3 DEF Reset, Write
    <3>2. task'[k] = task[k]
      BY <1>2, <1>3, <2>3, <3>1 DEF TaskType
    <3> QED
      BY <2>3, <3>2
  <2> QED
    BY <1>6, <2>1, <2>2, <2>3
<1> QED
  BY <1>1, <1>2, <1>3, <1>4, <1>7 DEF u

\* A request that commits makes a task PENDING or leaves its status alone.
LEMMA CommitApplied ==
    ASSUME IndInv, AppliedInv, Lasts, NEW s \in Session, NEW k \in Correction, Commit(s, k)
    PROVE  AppliedInv'
<1>1. \A c \in Correction : task'[c].status = "SUCCEEDED" => task'[c] = task[c]
  BY CommitFields
<1>2. \A c \in Correction : TaskApplied(c)'
  BY <1>1, TaskAppliedLasts DEF AppliedInv
<1>3. batch' = batch
  BY DEF Commit
<1>4. \A d \in Dispatcher : BatchApplied(batch[d])'
  BY <1>3, BatchAppliedLasts DEF AppliedInv
<1> QED
  BY <1>2, <1>4 DEF AppliedInv

\* A dispatcher opens a batch, works on it or drops it.
LEMMA BatchesApplied ==
    ASSUME IndInv, AppliedInv, Lasts, UNCHANGED task, NEW d \in Dispatcher,
           \A e \in Dispatcher : e # d => batch'[e] = batch[e], BatchApplied(batch[d])'
    PROVE  AppliedInv'
<1>1. \A c \in Correction : TaskApplied(c)'
  BY TaskAppliedLasts DEF AppliedInv
<1>2. \A e \in Dispatcher : BatchApplied(batch[e])'
  BY BatchAppliedLasts DEF AppliedInv
<1> QED
  BY <1>1, <1>2 DEF AppliedInv

\* The work on one task: it succeeds only when the stores took the correction,
\* and the batch then has a row of the projection to flush.
LEMMA AttemptApplied ==
    ASSUME IndInv, AppliedInv, Lasts, NEW d \in Dispatcher, NEW c \in Correction,
           ProjectionFails(d, c) \/ ProjectOnly(d, c) \/ ProjectAndGraph(d, c) \/ GraphFails(d, c)
    PROVE  AppliedInv'
<1> DEFINE b == batch[d]
           n == batch'[d]
           t == correction[c].target
<1>1. IsNext(d, c) /\ UNCHANGED <<correction, task, projection>>
  BY AttemptOutcome
<1>2. PICK wrote \in BOOLEAN, row \in TaskType, status \in {"SYNC_FAILED", "COMPLETED"} :
        /\ Process(d, c, wrote, row, status)
        /\ row.mysql = "SUCCEEDED" => wrote
        /\ row.status = "SUCCEEDED" => wrote /\ Applied(c, row, graph')
  BY AttemptOutcome
<1>3. /\ b # NoBatch /\ b \in BatchType /\ n \in BatchType
      /\ c \in b.lock /\ b.lock \subseteq Correction
      /\ n.lock = b.lock /\ n.todo = b.todo \ {c}
      /\ \A x \in Correction : n.result[x] = IF x = c THEN row ELSE b.result[x]
      /\ \A y \in Target : y # t => n.put[y] = b.put[y] /\ n.view[y] = b.view[y]
      /\ n.put[t] = IF wrote THEN Put(b.put[t], Before(d, c), Made(d, c)) ELSE b.put[t]
      /\ n.view[t] = IF wrote THEN Made(d, c) ELSE Before(d, c)
      /\ \A e \in Dispatcher : e # d => batch'[e] = batch[e]
  BY <1>1, <1>2, ProcessFields
<1>4. BatchApplied(b) /\ b.view[t] = Before(d, c) /\ t \in Target
  BY DEF AppliedInv, Before, IndInv, TypeOK, CorrectionType
<1>5. wrote => n.view[t].last # None
  BY <1>3, SetsAssumption DEF Made, Projected
<1>6. \A y \in Target : n.view[y].last # None => projection[y].last # None \/ n.put[y].last # Keep
  <2>1. \A y \in Target : b.view[y].last # None => projection[y].last # None \/ b.put[y].last # Keep
    BY <1>3, <1>4 DEF BatchApplied
  <2>2. CASE ~wrote
    BY <1>3, <1>4, <2>1, <2>2
  <2>3. CASE wrote
    <3>1. n.put[t].last = IF Made(d, c).last = Before(d, c).last THEN b.put[t].last
                          ELSE Made(d, c).last
      BY <1>3, <2>3 DEF Put
    <3>2. Made(d, c).last = c
      BY DEF Made, Projected
    <3>3. c # Keep
      BY KeepAssumption
    <3> QED
      BY <1>3, <1>4, <2>1, <2>3, <3>1, <3>2, <3>3
  <2> QED
    BY <2>2, <2>3
<1>7. \A y \in Target : b.view[y].last # None => n.view[y].last # None
  BY <1>3, <1>4, <1>5
<1>8. ASSUME NEW x \in n.lock \ n.todo, n.result[x].status = "SUCCEEDED"
      PROVE  Applied(x, n.result[x], graph') /\ n.view[correction[x].target].last # None
  <2>1. x \in Correction /\ correction[x].target \in Target
    BY <1>3, <1>8 DEF IndInv, TypeOK, CorrectionType
  <2>2. CASE x = c
    <3>1. n.result[x] = row
      BY <1>3, <2>1, <2>2
    <3> QED
      BY <1>2, <1>5, <1>8, <2>2, <3>1
  <2>3. CASE x # c
    <3>1. n.result[x] = b.result[x] /\ x \in b.lock \ b.todo
      BY <1>3, <1>8, <2>1, <2>3
    <3>2. Applied(x, n.result[x], graph) /\ b.view[correction[x].target].last # None
      BY <1>3, <1>4, <1>8, <3>1 DEF BatchApplied
    <3> QED
      BY <1>1, <1>7, <2>1, <3>2, AppliedLasts DEF Applied
  <2> QED
    BY <2>2, <2>3
<1>9. BatchApplied(batch[d])'
  BY <1>1, <1>6, <1>8 DEF BatchApplied, Applied
<1> QED
  BY <1>1, <1>3, <1>9, BatchesApplied

\* A batch that commits hands its results to the tasks and its rows to the
\* projection.
LEMMA BatchCommitApplied ==
    ASSUME IndInv, AppliedInv, Lasts, NEW d \in Dispatcher, CommitBatch(d)
    PROVE  AppliedInv'
<1> DEFINE b == batch[d]
<1>1. b # NoBatch /\ b.todo = {} /\ b \in BatchType /\ BatchApplied(b)
  BY BatchShape DEF CommitBatch, IndInv, AppliedInv
<1>2. ASSUME NEW c \in Correction PROVE TaskApplied(c)'
  <2> DEFINE t == correction[c].target
  <2>1. t \in Target /\ correction'[c].target = t
    BY DEF IndInv, TypeOK, CorrectionType, Lasts
  <2>2. task'[c] = IF c \in b.lock THEN b.result[c] ELSE task[c]
    BY DEF CommitBatch
  <2>3. CASE c \notin b.lock
    BY <2>2, <2>3, TaskAppliedLasts DEF AppliedInv
  <2>4. CASE c \in b.lock
    <3> SUFFICES ASSUME task'[c].status = "SUCCEEDED" PROVE TaskApplied(c)'
      BY DEF TaskApplied
    <3>1. Applied(c, task'[c], graph) /\ b.view[t].last # None
      BY <1>1, <2>2, <2>4 DEF BatchApplied
    <3>2. Applied(c, task[c], graph)'
      BY <3>1, AppliedLasts DEF Applied
    <3>3. projection'[t].last = Write(projection[t].last, b.put[t].last)
      BY <2>1 DEF CommitBatch, Merged
    <3>4. b.put[t].last \in Correction \cup {Keep}
      BY <1>1, <2>1 DEF BatchType, PutType
    <3>5. projection[t].last # None \/ b.put[t].last # Keep
      BY <1>1, <2>1, <3>1 DEF BatchApplied
    <3>6. projection'[t].last # None
      BY <2>1, <3>3, <3>4, <3>5, SetsAssumption DEF Write
    <3> QED
      BY <2>1, <3>2, <3>6 DEF TaskApplied
  <2> QED
    BY <2>3, <2>4
<1>3. \A e \in Dispatcher : BatchApplied(batch[e])'
  <2> TAKE e \in Dispatcher
  <2>1. batch'[e] = IF e = d THEN NoBatch ELSE batch[e]
    BY DEF CommitBatch, IndInv, TypeOK
  <2>2. CASE e = d
    BY <2>1, <2>2 DEF BatchApplied
  <2>3. CASE e # d
    BY <2>1, <2>3, BatchAppliedLasts DEF AppliedInv
  <2> QED
    BY <2>2, <2>3
<1> QED
  BY <1>2, <1>3 DEF AppliedInv

\* Every step keeps what was applied applied.
LEMMA AppliedStep == IndInv /\ AppliedInv /\ [Next]_vars => AppliedInv'
<1> SUFFICES ASSUME IndInv, AppliedInv, [Next]_vars PROVE AppliedInv'
  OBVIOUS
<1>0. Lasts
  BY NextLasts
<1>1. CASE UNCHANGED vars
  BY <1>0, <1>1, QuietApplied DEF vars
<1>2. ASSUME NEW c \in Correction, NEW u \in User, Create(c, u) PROVE AppliedInv'
  BY <1>0, <1>2, QuietApplied DEF Create
<1>3. ASSUME NEW s \in Session, NEW c \in Correction, NEW u \in User, Request(s, c, u)
      PROVE  AppliedInv'
  BY <1>0, <1>3, QuietApplied DEF Request, Update, Cancel, Reject, Approve, Retry, Stage
<1>4. ASSUME NEW s \in Session, NEW c \in Correction, Commit(s, c) PROVE AppliedInv'
  BY <1>0, <1>4, CommitApplied
<1>5. ASSUME NEW s \in Session, Rollback(s) PROVE AppliedInv'
  BY <1>0, <1>5, QuietApplied DEF Rollback
<1>6. ASSUME NEW d \in Dispatcher, Dispatch(d) PROVE AppliedInv'
  <2>1. ASSUME NEW S \in SUBSET Correction, NEW mode \in Modes, Poll(d, S, mode)
        PROVE  AppliedInv'
    <3> DEFINE n == batch'[d]
    <3>1. /\ n.lock = S /\ n.todo = S /\ n.view = projection
          /\ UNCHANGED <<task, projection>>
          /\ \A e \in Dispatcher : e # d => batch'[e] = batch[e]
      BY <2>1 DEF Poll, IndInv, TypeOK
    <3>2. BatchApplied(batch[d])'
      BY <3>1 DEF BatchApplied
    <3> QED
      BY <1>0, <3>1, <3>2, BatchesApplied
  <2>2. ASSUME NEW c \in Correction,
               ProjectionFails(d, c) \/ ProjectOnly(d, c) \/ ProjectAndGraph(d, c)
               \/ GraphFails(d, c)
        PROVE  AppliedInv'
    BY <1>0, <2>2, AttemptApplied
  <2>3. CommitBatch(d) => AppliedInv'
    BY <1>0, BatchCommitApplied
  <2>4. ASSUME AbortBatch(d) PROVE AppliedInv'
    <3>1. /\ batch'[d] = NoBatch /\ UNCHANGED task
          /\ \A e \in Dispatcher : e # d => batch'[e] = batch[e]
      BY <2>4 DEF AbortBatch, IndInv, TypeOK
    <3>2. BatchApplied(batch[d])'
      BY <3>1 DEF BatchApplied
    <3> QED
      BY <1>0, <3>1, <3>2, BatchesApplied
  <2> QED
    BY <1>6, <2>1, <2>2, <2>3, <2>4 DEF Dispatch
<1> QED
  BY <1>1, <1>2, <1>3, <1>4, <1>5, <1>6 DEF Next

\* AppliedInv holds throughout, for every number of dispatchers.
THEOREM AppliedInvariance == Spec => []AppliedInv
<1>1. Init => AppliedInv
  BY DEF Init, AppliedInv, TaskApplied, BatchApplied, NoTask
<1>2. IndInv /\ AppliedInv /\ [Next]_vars => AppliedInv'
  BY AppliedStep
<1> QED
  BY <1>1, <1>2, Invariance, PTL DEF Spec

\* A COMPLETED correction is in every store its task names: the row of its
\* target exists and, in `dual' mode, the graph holds its data.
THEOREM CompletedIsAppliedHolds == Spec => []CompletedIsApplied
<1>1. IndInv /\ AppliedInv => CompletedIsApplied
  BY DEF IndInv, TaskAgrees, AppliedInv, TaskApplied, Applied, CompletedIsApplied
<1> QED
  BY <1>1, Invariance, AppliedInvariance, PTL

-----------------------------------------------------------------------------
(***************************************************************************)
(* With one dispatcher the projection loses nothing.  What its batch takes *)
(* for a row is that row with the columns it has flushed so far, so the    *)
(* commit makes the row what the batch saw, and a correction that the      *)
(* batch finds in the payload is there when it skips it.  A second         *)
(* dispatcher breaks the first of these: it writes from an older snapshot. *)
(***************************************************************************)

OneDispatcher == \A d, e \in Dispatcher : d = e

Creates == {c \in Correction : correction[c].operation = "create"}
Deletes == {c \in Correction : correction[c].operation = "delete"}

\* Correction c is in the payload, or in what a `create' put in its place.
Lasting(c, data) == c \in data \/ data \cap Creates # {}

Kept(c, row, r) == row.mysql = "SUCCEEDED" /\ c \notin Deletes => Lasting(c, r.data)

\* A row holds the last correction made of it, unless that was a delete.
LastKept(r) == r.last \in r.data \cup Deletes \cup {None}

\* The task of correction c if batch b committed now.
Outcome(b, c) == IF c \in b.lock THEN b.result[c] ELSE task[c]

BatchKeeps(b) ==
    b # NoBatch =>
        /\ \A t \in Target : b.view[t] = Merged(projection[t], b.put[t]) /\ LastKept(b.view[t])
        /\ \A c \in Correction : Kept(c, Outcome(b, c), b.view[correction[c].target])

KeptInv ==
    /\ \A t \in Target : LastKept(projection[t])
    /\ \A c \in Correction : Kept(c, task[c], projection[correction[c].target])
    /\ \A d \in Dispatcher : BatchKeeps(batch[d])

\* The sets above are as immutable as the operations.
LEMMA KindsLast ==
    ASSUME Lasts
    PROVE  Creates' = Creates /\ Deletes' = Deletes
  BY DEF Lasts, Creates, Deletes

\* A row with no column written is the row.
LEMMA NothingMerged ==
    ASSUME NEW r \in ProjectionType
    PROVE  Merged(r, NoPut) = r
  BY DEF Merged, Write, NoPut, ProjectionType

\* Applying a correction to a row keeps what was in the payload or puts a
\* `create' there, and the columns flushed make the row of the table the same.
LEMMA ProjectedKeeps ==
    ASSUME IndInv, NEW c \in Correction, NEW r \in ProjectionType, LastKept(r),
           NEW q \in ProjectionType, NEW p \in PutType, r = Merged(q, p)
    PROVE  LET new == Projected(r, c, correction[c].operation) IN
           /\ LastKept(new)
           /\ \A x \in Correction : Lasting(x, r.data) => Lasting(x, new.data)
           /\ c \notin Deletes => Lasting(c, new.data)
           /\ new = Merged(q, Put(p, r, new))
<1> DEFINE op == correction[c].operation
           new == Projected(r, c, op)
<1>1. /\ op \in Operation /\ c # None
      /\ c \in Creates <=> op = "create"
      /\ c \in Deletes <=> op = "delete"
  BY SetsAssumption DEF IndInv, TypeOK, CorrectionType, Creates, Deletes
<1> HIDE DEF op
<1>2. new \in ProjectionType /\ new.last = c
  <2>1. new \in ProjectionType
    BY <1>1, ProjectedShape
  <2> QED
    BY <2>1 DEF Projected
<1>3. LastKept(new) /\ (c \notin Deletes => Lasting(c, new.data))
  <2>1. CASE r.last = c
    BY <1>1, <2>1 DEF LastKept, Lasting, Projected
  <2>2. CASE r.last # c
    <3>1. op # "delete" => c \in new.data
      BY <1>1, <2>2 DEF Projected, Operation
    <3> HIDE DEF new
    <3> QED
      BY <1>1, <1>2, <3>1 DEF LastKept, Lasting
  <2> QED
    BY <2>1, <2>2
<1>4. ASSUME NEW x \in Correction, Lasting(x, r.data) PROVE Lasting(x, new.data)
  <2>1. CASE r.last = c
    BY <1>4, <2>1 DEF Projected
  <2>2. CASE r.last # c
    <3>1. op # "create" => r.data \subseteq new.data
      BY <1>1, <2>2 DEF Projected, Operation
    <3>2. op = "create" => c \in new.data
      BY <1>1, <2>2 DEF Projected, Operation
    <3> HIDE DEF new
    <3> QED
      BY <1>1, <1>4, <3>1, <3>2 DEF Lasting
  <2> QED
    BY <2>1, <2>2
<1> HIDE DEF new
<1>5. new = Merged(q, Put(p, r, new))
  <2> DEFINE m == Merged(q, Put(p, r, new))
  <2>1. /\ r.data = Write(q.data, p.data) /\ r.active = Write(q.active, p.active)
        /\ r.last = Write(q.last, p.last)
    BY DEF Merged
  <2>2. new.data # Keep /\ new.active # Keep /\ new.last # Keep
    BY <1>2, KeepAssumption DEF ProjectionType
  <2>3. m.data = new.data
    BY <2>1, <2>2 DEF Merged, Put, Write
  <2>4. m.active = new.active
    BY <2>1, <2>2 DEF Merged, Put, Write
  <2>5. m.last = new.last
    BY <2>1, <2>2 DEF Merged, Put, Write
  <2>6. m = [data |-> m.data, active |-> m.active, last |-> m.last]
    BY DEF Merged
  <2> HIDE DEF m
  <2>7. new = [data |-> new.data, active |-> new.active, last |-> new.last]
    BY <1>2 DEF ProjectionType
  <2>8. new = m
    BY <2>3, <2>4, <2>5, <2>6, <2>7
  <2> QED
    BY <2>8 DEF m
<1> QED
  BY <1>3, <1>4, <1>5 DEF new, op

\* What a task says of MySQL only counts while it stays so.
LEMMA TableKept ==
    ASSUME IndInv, KeptInv, Lasts, UNCHANGED <<projection, batch>>,
           \A c \in Correction : task'[c].mysql = "SUCCEEDED" => task[c].mysql = "SUCCEEDED"
    PROVE  KeptInv'
<1>0. Creates' = Creates /\ Deletes' = Deletes
  BY KindsLast
<1>1. \A t \in Target : LastKept(projection[t])'
  BY <1>0 DEF KeptInv, LastKept
<1>2. \A c \in Correction : Kept(c, task[c], projection[correction[c].target])'
  BY <1>0 DEF KeptInv, Kept, Lasting, Lasts
<1>3. ASSUME NEW d \in Dispatcher PROVE BatchKeeps(batch[d])'
  <2> DEFINE b == batch[d]
  <2> SUFFICES ASSUME b # NoBatch PROVE BatchKeeps(batch[d])'
    BY DEF BatchKeeps
  <2>1. /\ \A t \in Target : b.view[t] = Merged(projection[t], b.put[t]) /\ LastKept(b.view[t])
        /\ \A c \in Correction : Kept(c, Outcome(b, c), b.view[correction[c].target])
    BY DEF KeptInv, BatchKeeps
  <2>2. \A t \in Target : b.view[t] = Merged(projection'[t], b.put[t]) /\ LastKept(b.view[t])'
    BY <1>0, <2>1 DEF LastKept
  <2>3. ASSUME NEW c \in Correction
        PROVE  Kept(c, Outcome(b, c), b.view[correction[c].target])'
    <3>1. Outcome(b, c)'.mysql = "SUCCEEDED" => Outcome(b, c).mysql = "SUCCEEDED"
      BY DEF Outcome
    <3>2. Kept(c, Outcome(b, c), b.view[correction[c].target])
      BY <2>1
    <3>3. correction'[c].target = correction[c].target /\ b' = b
      BY DEF Lasts
    <3> QED
      BY <1>0, <3>1, <3>2, <3>3 DEF Kept, Lasting
  <2> QED
    BY <2>2, <2>3 DEF BatchKeeps
<1> QED
  BY <1>1, <1>2, <1>3 DEF KeptInv

\* A new task has not succeeded, and a reset one keeps what it says of MySQL.
LEMMA CommitKept ==
    ASSUME IndInv, KeptInv, Lasts, NEW s \in Session, NEW k \in Correction, Commit(s, k)
    PROVE  KeptInv'
<1>1. \A c \in Correction : c # k => task'[c] = task[c]
  BY DEF Commit, IndInv, TypeOK
<1>2. task'[k] = IF tx[s].insert THEN NewTask(tx[s].key) ELSE Reset(task[k], tx[s])
  BY DEF Commit, IndInv, TypeOK
<1>3. NewTask(tx[s].key).mysql = "PENDING"
  BY DEF NewTask
<1>4. Reset(task[k], tx[s]).mysql = task[k].mysql
  BY DEF Reset, IndInv, TypeOK, TaskType
<1>5. \A c \in Correction : task'[c].mysql = "SUCCEEDED" => task[c].mysql = "SUCCEEDED"
  BY <1>1, <1>2, <1>3, <1>4
<1> QED
  BY <1>5, TableKept DEF Commit

\* A dispatcher opens a batch, works on it or drops it.
LEMMA BatchesKept ==
    ASSUME OneDispatcher, IndInv, KeptInv, UNCHANGED <<correction, task, projection>>,
           NEW d \in Dispatcher, BatchKeeps(batch[d])'
    PROVE  KeptInv'
<1>1. Creates' = Creates /\ Deletes' = Deletes
  BY DEF Creates, Deletes
<1>2. \A t \in Target : LastKept(projection[t])'
  BY <1>1 DEF KeptInv, LastKept
<1>3. \A c \in Correction : Kept(c, task[c], projection[correction[c].target])'
  BY <1>1 DEF KeptInv, Kept, Lasting
<1>4. \A e \in Dispatcher : BatchKeeps(batch[e])'
  BY DEF OneDispatcher
<1> QED
  BY <1>2, <1>3, <1>4 DEF KeptInv

\* A poll sees the table as it is.
LEMMA PollKept ==
    ASSUME OneDispatcher, IndInv, KeptInv, NEW d \in Dispatcher, NEW S \in SUBSET Correction,
           NEW mode \in Modes, Poll(d, S, mode)
    PROVE  KeptInv'
<1> DEFINE n == batch'[d]
<1>1. UNCHANGED <<correction, task, projection>>
  BY DEF Poll
<1>2. /\ n.lock = S /\ n.view = projection
      /\ \A t \in Target : n.put[t] = NoPut
      /\ \A c \in S : n.result[c] = task[c]
  BY DEF Poll, IndInv, TypeOK
<1> HIDE DEF n
<1>3. Creates' = Creates /\ Deletes' = Deletes
  BY <1>1 DEF Creates, Deletes
<1>4. \A t \in Target : n.view[t] = Merged(projection[t], n.put[t]) /\ LastKept(n.view[t])
  BY <1>2, NothingMerged DEF KeptInv, IndInv, TypeOK
<1>5. ASSUME NEW c \in Correction PROVE Kept(c, Outcome(n, c), n.view[correction[c].target])
  <2>1. Outcome(n, c) = task[c]
    BY <1>2 DEF Outcome
  <2> QED
    BY <1>2, <2>1 DEF KeptInv
<1>6. BatchKeeps(batch[d])'
  BY <1>1, <1>3, <1>4, <1>5 DEF BatchKeeps, LastKept, Kept, Lasting, Outcome, n
<1> QED
  BY <1>1, <1>6, BatchesKept

\* The work on one task: what it says of MySQL is true of the row the batch sees.
LEMMA AttemptKept ==
    ASSUME OneDispatcher, IndInv, KeptInv, NEW d \in Dispatcher, NEW c \in Correction,
           ProjectionFails(d, c) \/ ProjectOnly(d, c) \/ ProjectAndGraph(d, c) \/ GraphFails(d, c)
    PROVE  KeptInv'
<1> DEFINE b == batch[d]
           n == batch'[d]
           t == correction[c].target
<1>1. IsNext(d, c) /\ UNCHANGED <<correction, task, projection>>
  BY AttemptOutcome
<1>2. PICK wrote \in BOOLEAN, row \in TaskType, status \in {"SYNC_FAILED", "COMPLETED"} :
        /\ Process(d, c, wrote, row, status)
        /\ row.mysql = "SUCCEEDED" => wrote
        /\ row.status = "SUCCEEDED" => wrote /\ Applied(c, row, graph')
  BY AttemptOutcome
<1>3. /\ b # NoBatch /\ b \in BatchType /\ n \in BatchType
      /\ c \in b.lock /\ b.lock \subseteq Correction
      /\ n.lock = b.lock /\ n.todo = b.todo \ {c}
      /\ \A x \in Correction : n.result[x] = IF x = c THEN row ELSE b.result[x]
      /\ \A y \in Target : y # t => n.put[y] = b.put[y] /\ n.view[y] = b.view[y]
      /\ n.put[t] = IF wrote THEN Put(b.put[t], Before(d, c), Made(d, c)) ELSE b.put[t]
      /\ n.view[t] = IF wrote THEN Made(d, c) ELSE Before(d, c)
      /\ \A e \in Dispatcher : e # d => batch'[e] = batch[e]
  BY <1>1, <1>2, ProcessFields
<1>4. /\ t \in Target /\ b.view[t] = Before(d, c)
      /\ b.view[t] \in ProjectionType /\ b.put[t] \in PutType
      /\ projection[t] \in ProjectionType
  BY <1>3 DEF Before, BatchType, IndInv, TypeOK, CorrectionType
<1>5. /\ \A y \in Target : b.view[y] = Merged(projection[y], b.put[y]) /\ LastKept(b.view[y])
      /\ \A x \in Correction : Kept(x, Outcome(b, x), b.view[correction[x].target])
  BY <1>3 DEF KeptInv, BatchKeeps
<1>6. /\ LastKept(Made(d, c))
      /\ \A x \in Correction : Lasting(x, Before(d, c).data) => Lasting(x, Made(d, c).data)
      /\ c \notin Deletes => Lasting(c, Made(d, c).data)
      /\ Made(d, c) = Merged(projection[t], Put(b.put[t], Before(d, c), Made(d, c)))
  BY <1>4, <1>5, ProjectedKeeps DEF Made
<1> HIDE DEF b, n
<1>7. \A y \in Target : n.view[y] = Merged(projection[y], n.put[y]) /\ LastKept(n.view[y])
  BY <1>3, <1>4, <1>5, <1>6
<1>8. \A x \in Correction, y \in Target : Lasting(x, b.view[y].data) => Lasting(x, n.view[y].data)
  BY <1>3, <1>4, <1>6
<1>9. ASSUME NEW x \in Correction PROVE Kept(x, Outcome(n, x), n.view[correction[x].target])
  <2>1. correction[x].target \in Target
    BY DEF IndInv, TypeOK, CorrectionType
  <2>2. CASE x = c
    <3>1. Outcome(n, x) = row
      BY <1>3, <2>2 DEF Outcome
    <3> QED
      BY <1>2, <1>3, <1>6, <2>2, <3>1 DEF Kept
  <2>3. CASE x # c
    <3>1. Outcome(n, x) = Outcome(b, x)
      BY <1>3, <2>3 DEF Outcome
    <3> QED
      BY <1>5, <1>8, <2>1, <3>1 DEF Kept
  <2> QED
    BY <2>2, <2>3
<1>10. Creates' = Creates /\ Deletes' = Deletes
  BY <1>1 DEF Creates, Deletes
<1>11. BatchKeeps(batch[d])'
  BY <1>1, <1>7, <1>9, <1>10 DEF BatchKeeps, LastKept, Kept, Lasting, Outcome, n
<1> QED
  BY <1>1, <1>11, BatchesKept

\* A batch that commits makes each row what it saw of it.
LEMMA BatchCommitKept ==
    ASSUME OneDispatcher, IndInv, KeptInv, Lasts, NEW d \in Dispatcher, CommitBatch(d)
    PROVE  KeptInv'
<1> DEFINE b == batch[d]
<1>0. Creates' = Creates /\ Deletes' = Deletes
  BY KindsLast
<1>1. b # NoBatch /\ BatchKeeps(b)
  BY DEF CommitBatch, KeptInv
<1>2. /\ \A t \in Target : b.view[t] = Merged(projection[t], b.put[t]) /\ LastKept(b.view[t])
      /\ \A c \in Correction : Kept(c, Outcome(b, c), b.view[correction[c].target])
  BY <1>1 DEF BatchKeeps
<1>3. \A t \in Target : projection'[t] = b.view[t]
  BY <1>2 DEF CommitBatch
<1>4. \A t \in Target : LastKept(projection[t])'
  BY <1>0, <1>2, <1>3 DEF LastKept
<1>5. ASSUME NEW c \in Correction
      PROVE  Kept(c, task[c], projection[correction[c].target])'
  <2>1. correction'[c].target = correction[c].target /\ correction[c].target \in Target
    BY DEF Lasts, IndInv, TypeOK, CorrectionType
  <2>2. task'[c] = Outcome(b, c)
    BY DEF CommitBatch, Outcome
  <2>3. Kept(c, Outcome(b, c), b.view[correction[c].target])
    BY <1>2
  <2> QED
    BY <1>0, <1>3, <2>1, <2>2, <2>3 DEF Kept, Lasting
<1>6. \A e \in Dispatcher : batch'[e] = NoBatch
  BY DEF CommitBatch, OneDispatcher, IndInv, TypeOK
<1>7. \A e \in Dispatcher : BatchKeeps(batch[e])'
  BY <1>6 DEF BatchKeeps
<1> QED
  BY <1>4, <1>5, <1>7 DEF KeptInv

\* Every step of a system with one dispatcher keeps KeptInv.
LEMMA KeptStep == OneDispatcher /\ IndInv /\ KeptInv /\ [Next]_vars => KeptInv'
<1> SUFFICES ASSUME OneDispatcher, IndInv, KeptInv, [Next]_vars PROVE KeptInv'
  OBVIOUS
<1>0. Lasts
  BY NextLasts
<1>1. CASE UNCHANGED vars
  BY <1>0, <1>1, TableKept DEF vars
<1>2. ASSUME NEW c \in Correction, NEW u \in User, Create(c, u) PROVE KeptInv'
  BY <1>0, <1>2, TableKept DEF Create
<1>3. ASSUME NEW s \in Session, NEW c \in Correction, NEW u \in User, Request(s, c, u)
      PROVE  KeptInv'
  BY <1>0, <1>3, TableKept DEF Request, Update, Cancel, Reject, Approve, Retry, Stage
<1>4. ASSUME NEW s \in Session, NEW c \in Correction, Commit(s, c) PROVE KeptInv'
  BY <1>0, <1>4, CommitKept
<1>5. ASSUME NEW s \in Session, Rollback(s) PROVE KeptInv'
  BY <1>0, <1>5, TableKept DEF Rollback
<1>6. ASSUME NEW d \in Dispatcher, Dispatch(d) PROVE KeptInv'
  <2>1. ASSUME NEW S \in SUBSET Correction, NEW mode \in Modes, Poll(d, S, mode) PROVE KeptInv'
    BY <2>1, PollKept
  <2>2. ASSUME NEW c \in Correction,
               ProjectionFails(d, c) \/ ProjectOnly(d, c) \/ ProjectAndGraph(d, c)
               \/ GraphFails(d, c)
        PROVE  KeptInv'
    BY <2>2, AttemptKept
  <2>3. CommitBatch(d) => KeptInv'
    BY <1>0, BatchCommitKept
  <2>4. ASSUME AbortBatch(d) PROVE KeptInv'
    <3>1. batch'[d] = NoBatch /\ UNCHANGED <<correction, task, projection>>
      BY <2>4 DEF AbortBatch, IndInv, TypeOK
    <3>2. BatchKeeps(batch[d])'
      BY <3>1 DEF BatchKeeps
    <3> QED
      BY <3>1, <3>2, BatchesKept
  <2> QED
    BY <1>6, <2>1, <2>2, <2>3, <2>4 DEF Dispatch
<1> QED
  BY <1>1, <1>2, <1>3, <1>4, <1>5, <1>6 DEF Next

\* KeptInv holds throughout when one process dispatches.
THEOREM KeptInvariance == ASSUME OneDispatcher PROVE Spec => []KeptInv
<1>1. Init => KeptInv
  BY DEF Init, KeptInv, LastKept, Kept, BatchKeeps, NoTask
<1>2. IndInv /\ KeptInv /\ [Next]_vars => KeptInv'
  BY KeptStep
<1> QED
  BY <1>1, <1>2, Invariance, PTL DEF Spec

\* The projection of a system with one dispatcher loses no correction, whatever
\* the batches, rollbacks and retries: only a `create' replaces a payload.
THEOREM NoLostCorrectionHolds == ASSUME OneDispatcher PROVE Spec => []NoLostCorrection
<1>1. IndInv /\ KeptInv => NoLostCorrection
  <2> SUFFICES ASSUME IndInv, KeptInv, NEW c \in Correction,
                      task[c].mysql = "SUCCEEDED", correction[c].operation # "delete"
               PROVE  LET t == correction[c].target IN
                      \/ c \in projection[t].data
                      \/ \E x \in projection[t].data : correction[x].operation = "create"
    BY DEF NoLostCorrection
  <2>1. Kept(c, task[c], projection[correction[c].target]) /\ c \notin Deletes
    BY DEF KeptInv, Deletes
  <2> QED
    BY <2>1 DEF Kept, Lasting, Creates
<1> QED
  BY <1>1, Invariance, KeptInvariance, PTL

-----------------------------------------------------------------------------
(***************************************************************************)
(* The refinement of CorrectionLedger.  Two facts more are needed of what  *)
(* is under way: a staged decision names the person who made it, unless    *)
(* the row names a second person already, and a batch has counted one      *)
(* attempt of each task it has worked on.                                  *)
(***************************************************************************)

Signed(u) ==
    u # NoTx =>
        /\ u.status \in {Keep, "CANCELLED"} \/ u.task # Keep => u.reviewer = Keep
        /\ u.status = "REJECTED" =>
              u.reviewer # Keep \/ BySecond(u.cor, correction[u.cor].reviewer)

Counted(b) ==
    b # NoBatch =>
        \A c \in b.lock \ b.todo : b.result[c].attempts = task[c].attempts + 1

LedgerInv ==
    /\ \A s \in Session : Signed(tx[s])
    /\ \A d \in Dispatcher : Counted(batch[d])

\* A second person who decided stays one.
Standing ==
    \A c \in Correction :
        Filed(c) /\ BySecond(c, correction[c].reviewer)
            => correction'[c].reviewer \notin {NoUser, correction'[c].by}

\* What is staged stays signed, and a batch whose tasks nobody touches stays
\* counted.
LEMMA LedgerKept ==
    ASSUME IndInv, LedgerInv, Standing,
           \A s \in Session : tx'[s] \in {tx[s], NoTx} \/ Signed(tx[s])',
           \A d \in Dispatcher :
              \/ batch'[d] = batch[d] /\ \A c \in batch[d].lock : task'[c] = task[c]
              \/ Counted(batch[d])'
    PROVE  LedgerInv'
<1>1. ASSUME NEW s \in Session, tx'[s] = tx[s] PROVE Signed(tx[s])'
  <2> SUFFICES ASSUME tx[s] # NoTx PROVE Signed(tx[s])'
    BY <1>1 DEF Signed
  <2>1. tx[s] \in UnitType /\ StagedOK(tx[s])
    BY UnitShape DEF IndInv
  <2>2. tx[s].cor \in Correction /\ Filed(tx[s].cor)
    BY <2>1 DEF UnitType, StagedOK
  <2>3. BySecond(tx[s].cor, correction[tx[s].cor].reviewer)
          => correction'[tx[s].cor].reviewer \notin {NoUser, correction'[tx[s].cor].by}
    BY <2>2 DEF Standing
  <2> QED
    BY <1>1, <2>3 DEF LedgerInv, Signed, BySecond
<1>2. \A s \in Session : Signed(tx[s])'
  <2> TAKE s \in Session
  <2>1. CASE tx'[s] = NoTx
    BY <2>1 DEF Signed
  <2> QED
    BY <1>1, <2>1
<1>3. ASSUME NEW d \in Dispatcher, batch'[d] = batch[d],
             \A c \in batch[d].lock : task'[c] = task[c]
      PROVE  Counted(batch[d])'
  BY <1>3 DEF LedgerInv, Counted
<1> QED
  BY <1>2, <1>3 DEF LedgerInv

\* Every request signs what it stages.
LEMMA StageSigned ==
    ASSUME IndInv, LedgerInv, NEW s \in Session, NEW c \in Correction, NEW u \in User,
           Request(s, c, u)
    PROVE  LedgerInv'
<1>1. \A x \in {"CANCELLED", "REJECTED", "PENDING_SYNC"} : x # Keep
  BY KeepAssumption DEF CorStatus
<1>2. PICK unit : Stage(s, unit) /\ Signed(unit)
  <2>1. CASE Update(s, c, u)
    <3> DEFINE unit == [Unit(c) EXCEPT !.version = correction[c].version + 1]
    <3>1. Signed(unit)
      BY <1>1 DEF Signed, Unit
    <3> QED
      BY <2>1, <3>1 DEF Update
  <2>2. CASE Cancel(s, c, u)
    <3> DEFINE unit == [Unit(c) EXCEPT !.status = "CANCELLED"]
    <3>1. Signed(unit)
      BY DEF Signed, Unit
    <3> QED
      BY <2>2, <3>1 DEF Cancel
  <2>3. CASE Reject(s, c, u)
    <3> DEFINE unit == [Unit(c) EXCEPT !.status = "REJECTED",
                                       !.reviewer = Change(correction[c].reviewer, u)]
    <3>1. u # NoUser /\ u # correction[c].by /\ u # Keep
      BY <2>3, SetsAssumption, KeepAssumption DEF Reject, MayDecide
    <3>2. /\ unit.cor = c /\ unit.status = "REJECTED" /\ unit.task = Keep
          /\ unit.reviewer = Change(correction[c].reviewer, u)
      BY DEF Unit
    <3> HIDE DEF unit
    <3>3. Signed(unit)
      BY <1>1, <3>1, <3>2 DEF Signed, Change, BySecond
    <3> QED
      BY <2>3, <3>3 DEF Reject, unit
  <2>4. CASE Approve(s, c, u)
    <3> DEFINE unit == [Unit(c) EXCEPT !.status = "PENDING_SYNC",
                                       !.reviewer = Change(correction[c].reviewer, u),
                                       !.insert = (task[c].status = "ABSENT"),
                                       !.key = correction[c].version]
    <3>1. Signed(unit)
      BY <1>1 DEF Signed, Unit
    <3> QED
      BY <2>4, <3>1 DEF Approve
  <2>5. CASE Retry(s, c, u)
    <3>1. Requeued(c).reviewer = Keep /\ Requeued(c).status \in {Keep, "PENDING_SYNC"}
      BY DEF Unit, Requeued, Change
    <3>2. Signed(Requeued(c))
      BY <1>1, <3>1 DEF Signed
    <3> QED
      BY <2>5, <3>2 DEF Retry
  <2> QED
    BY <2>1, <2>2, <2>3, <2>4, <2>5 DEF Request
<1>3. /\ UNCHANGED <<correction, task, batch>>
      /\ \A q \in Session : tx'[q] = tx[q] \/ tx'[q] = unit
  BY <1>2 DEF Stage, IndInv, TypeOK
<1>4. Standing
  BY <1>3 DEF Standing, BySecond
<1>5. \A q \in Session : tx'[q] \in {tx[q], NoTx} \/ Signed(tx[q])'
  BY <1>2, <1>3 DEF Signed, BySecond
<1> QED
  BY <1>3, <1>4, <1>5, LedgerKept

\* A commit leaves the second person, or puts the one who signed.
LEMMA CommitSigned ==
    ASSUME IndInv, LedgerInv, NEW s \in Session, NEW k \in Correction, Commit(s, k)
    PROVE  LedgerInv'
<1> DEFINE u == tx[s]
<1>1. /\ u # NoTx /\ u \in UnitType /\ StagedOK(u) /\ u.cor = k
      /\ \A c \in Correction : c # k => correction'[c] = correction[c] /\ task'[c] = task[c]
      /\ correction'[k].by = correction[k].by
      /\ correction'[k].reviewer = Write(correction[k].reviewer, u.reviewer)
      /\ \/ u.insert /\ task[k].status = "ABSENT"
         \/ ~Locked(k)
         \/ task'[k] = task[k]
  BY CommitFields
<1>2. u.reviewer # Keep => u.reviewer \notin {NoUser, correction[k].by}
  BY <1>1 DEF StagedOK, BySecond
<1>3. Standing
  BY <1>1, <1>2 DEF Standing, BySecond, Write
<1>4. /\ batch' = batch
      /\ \A q \in Session : tx'[q] \in {tx[q], NoTx}
  BY DEF Commit, IndInv, TypeOK
<1>5. ASSUME NEW d \in Dispatcher, NEW c \in batch[d].lock PROVE task'[c] = task[c]
  <2>1. c \in Correction /\ Due(c) /\ Locked(c)
    BY BatchShape DEF IndInv, BatchOK, Locked
  <2> QED
    BY <1>1, <2>1 DEF Due
<1> QED
  BY <1>3, <1>4, <1>5, LedgerKept

\* The work on one task counts one attempt.
LEMMA AttemptCounted ==
    ASSUME IndInv, LedgerInv, NEW d \in Dispatcher, NEW c \in Correction,
           ProjectionFails(d, c) \/ ProjectOnly(d, c) \/ ProjectAndGraph(d, c) \/ GraphFails(d, c)
    PROVE  LedgerInv'
<1> DEFINE b == batch[d]
           n == batch'[d]
<1>1. IsNext(d, c) /\ UNCHANGED <<correction, task, projection, tx>>
  BY AttemptOutcome DEF ProjectionFails, ProjectOnly, ProjectAndGraph, GraphFails
<1>2. PICK wrote \in BOOLEAN, row \in TaskType, status \in {"SYNC_FAILED", "COMPLETED"} :
        /\ Process(d, c, wrote, row, status)
        /\ row.attempts = task[c].attempts + 1
  BY AttemptOutcome
<1>3. /\ b # NoBatch /\ b.lock \subseteq Correction
      /\ n.lock = b.lock /\ n.todo = b.todo \ {c}
      /\ \A x \in Correction : n.result[x] = IF x = c THEN row ELSE b.result[x]
      /\ \A e \in Dispatcher : e # d => batch'[e] = batch[e]
  BY <1>1, <1>2, ProcessFields
<1>4. ASSUME NEW x \in n.lock \ n.todo PROVE n.result[x].attempts = task[x].attempts + 1
  <2>1. x \in Correction
    BY <1>3, <1>4
  <2>2. CASE x = c
    BY <1>2, <1>3, <2>1, <2>2
  <2>3. CASE x # c
    <3>1. x \in b.lock \ b.todo /\ n.result[x] = b.result[x]
      BY <1>3, <1>4, <2>1, <2>3
    <3> QED
      BY <1>3, <3>1 DEF LedgerInv, Counted
  <2> QED
    BY <2>2, <2>3
<1>5. Counted(batch[d])'
  BY <1>1, <1>4 DEF Counted
<1>6. Standing
  BY <1>1 DEF Standing, BySecond
<1> QED
  BY <1>1, <1>3, <1>5, <1>6, LedgerKept

\* Every step keeps LedgerInv.
LEMMA LedgerStep == IndInv /\ LedgerInv /\ [Next]_vars => LedgerInv'
<1> SUFFICES ASSUME IndInv, LedgerInv, [Next]_vars PROVE LedgerInv'
  OBVIOUS
<1>0. UNCHANGED correction => Standing
  BY DEF Standing, BySecond
<1>1. CASE UNCHANGED vars
  BY <1>0, <1>1, LedgerKept DEF vars
<1>2. ASSUME NEW c \in Correction, NEW u \in User, Create(c, u) PROVE LedgerInv'
  <2>1. \A x \in Correction : x # c => correction'[x] = correction[x]
    BY <1>2 DEF Create, IndInv, TypeOK
  <2>2. Standing
    BY <1>2, <2>1 DEF Standing, Filed, BySecond, Create
  <2> QED
    BY <1>2, <2>2, LedgerKept DEF Create
<1>3. ASSUME NEW s \in Session, NEW c \in Correction, NEW u \in User, Request(s, c, u)
      PROVE  LedgerInv'
  BY <1>3, StageSigned
<1>4. ASSUME NEW s \in Session, NEW c \in Correction, Commit(s, c) PROVE LedgerInv'
  BY <1>4, CommitSigned
<1>5. ASSUME NEW s \in Session, Rollback(s) PROVE LedgerInv'
  <2>1. \A q \in Session : tx'[q] \in {tx[q], NoTx}
    BY <1>5 DEF Rollback, IndInv, TypeOK
  <2> QED
    BY <1>0, <1>5, <2>1, LedgerKept DEF Rollback
<1>6. ASSUME NEW d \in Dispatcher, Dispatch(d) PROVE LedgerInv'
  <2>1. ASSUME NEW S \in SUBSET Correction, NEW mode \in Modes, Poll(d, S, mode)
        PROVE  LedgerInv'
    <3>1. /\ batch'[d].lock = S /\ batch'[d].todo = S
          /\ \A e \in Dispatcher : e # d => batch'[e] = batch[e]
      BY <2>1 DEF Poll, IndInv, TypeOK
    <3>2. Counted(batch[d])'
      BY <3>1 DEF Counted
    <3> QED
      BY <1>0, <2>1, <3>1, <3>2, LedgerKept DEF Poll
  <2>2. ASSUME NEW c \in Correction,
               ProjectionFails(d, c) \/ ProjectOnly(d, c) \/ ProjectAndGraph(d, c)
               \/ GraphFails(d, c)
        PROVE  LedgerInv'
    BY <2>2, AttemptCounted
  <2>3. ASSUME CommitBatch(d) PROVE LedgerInv'
    <3>1. \A e \in Dispatcher : batch'[e] = IF e = d THEN NoBatch ELSE batch[e]
      BY <2>3 DEF CommitBatch, IndInv, TypeOK
    <3>2. ASSUME NEW e \in Dispatcher, e # d
          PROVE  \A c \in batch[e].lock : task'[c] = task[c]
      <4>1. batch[e].lock \cap batch[d].lock = {} /\ batch[e].lock \subseteq Correction
        BY <3>2, BatchShape DEF IndInv
      <4> QED
        BY <2>3, <4>1, BatchRow
    <3>3. Counted(batch[d])'
      BY <3>1 DEF Counted
    <3>4. Standing
      BY <2>3, BatchRow DEF Standing, BySecond
    <3> QED
      BY <2>3, <3>1, <3>2, <3>3, <3>4, LedgerKept DEF CommitBatch
  <2>4. ASSUME AbortBatch(d) PROVE LedgerInv'
    <3>1. /\ batch'[d] = NoBatch
          /\ \A e \in Dispatcher : e # d => batch'[e] = batch[e]
      BY <2>4 DEF AbortBatch, IndInv, TypeOK
    <3>2. Counted(batch[d])'
      BY <3>1 DEF Counted
    <3> QED
      BY <1>0, <2>4, <3>1, <3>2, LedgerKept DEF AbortBatch
  <2> QED
    BY <1>6, <2>1, <2>2, <2>3, <2>4 DEF Dispatch
<1> QED
  BY <1>1, <1>2, <1>3, <1>4, <1>5, <1>6 DEF Next

\* LedgerInv holds throughout.
THEOREM LedgerInvariance == Spec => []LedgerInv
<1>1. Init => LedgerInv
  BY DEF Init, LedgerInv, Signed, Counted
<1>2. IndInv /\ LedgerInv /\ [Next]_vars => LedgerInv'
  BY LedgerStep
<1> QED
  BY <1>1, <1>2, Invariance, PTL DEF Spec

-----------------------------------------------------------------------------
(* The steps of the ledger *)

Shown == [c \in Correction |-> correction[c].status]
Author == [c \in Correction |-> correction[c].by]
Reviewer == [c \in Correction |-> correction[c].reviewer]
JobOf(row) == [state |-> JobState(row), tries |-> row.attempts]
Jobs == [c \in Correction |-> JobOf(task[c])]
Sent == {c \in Correction : c \in graph[correction[c].target].data}
Adds == {c \in Correction : correction[c].operation # "delete"}

\* The states of a job.
LEMMA JobStates ==
    ASSUME NEW row \in TaskType
    PROVE  /\ JobState(row) \in {"none", "due", "stored", "delivered", "given_up"}
           /\ JobState(row) = "none" <=> row.status = "ABSENT"
           /\ JobState(row) = "due" <=> row.status \in {"PENDING", "RETRYING"}
           /\ JobState(row) = "given_up" <=> row.status = "FAILED"
           /\ row.status = "SUCCEEDED" => JobState(row) \in {"stored", "delivered"}
           /\ JobState(row) = "delivered" => row.graph = "SUCCEEDED"
  BY DEF JobState, TaskType, TaskStatus

\* A step that leaves the three tables alone is a stutter.
LEMMA LedgerStutter ==
    ASSUME UNCHANGED <<Shown, Author, Reviewer, Jobs, Sent, Adds>>
    PROVE  UNCHANGED Ledger!vars
  BY DEF Ledger!vars, Shown, Author, Reviewer, Jobs, JobOf, Sent, Adds

\* Nothing but the row of correction k and its task changes.
LEMMA OneRow ==
    ASSUME IndInv, Lasts, UNCHANGED graph, NEW k \in Correction,
           \A c \in Correction : c # k => correction'[c] = correction[c] /\ task'[c] = task[c]
    PROVE  /\ Shown' = [Shown EXCEPT ![k] = correction'[k].status]
           /\ Author' = [Author EXCEPT ![k] = correction'[k].by]
           /\ Reviewer' = [Reviewer EXCEPT ![k] = correction'[k].reviewer]
           /\ Jobs' = [Jobs EXCEPT ![k] = JobOf(task'[k])]
           /\ Sent' = Sent /\ Adds' = Adds
<1>1. Shown' = [Shown EXCEPT ![k] = correction'[k].status]
  BY DEF Shown
<1>2. Author' = [Author EXCEPT ![k] = correction'[k].by]
  BY DEF Author
<1>3. Reviewer' = [Reviewer EXCEPT ![k] = correction'[k].reviewer]
  BY DEF Reviewer
<1>4. Jobs' = [Jobs EXCEPT ![k] = JobOf(task'[k])]
  BY DEF Jobs, JobOf, JobState
<1>5. Sent' = Sent /\ Adds' = Adds
  BY DEF Sent, Adds, Lasts
<1> QED
  BY <1>1, <1>2, <1>3, <1>4, <1>5

\* Filing.
LEMMA CreateLedger ==
    ASSUME IndInv, Lasts, NEW c \in Correction, NEW u \in User, Create(c, u)
    PROVE  Ledger!Next
<1> DEFINE row == [correction[c] EXCEPT !.status = "PENDING_REVIEW", !.by = u, !.version = 1]
<1>1. correction[c] \in CorrectionType
  BY DEF IndInv, TypeOK
<1>2. /\ row.status = "PENDING_REVIEW" /\ row.by = u /\ row.reviewer = correction[c].reviewer
  BY <1>1 DEF CorrectionType
<1>3. correction' = [correction EXCEPT ![c] = row]
  BY <1>1 DEF Create, IndInv, TypeOK
<1> HIDE DEF row
<1>4. /\ correction'[c] = row /\ task' = task
      /\ \A x \in Correction : x # c => correction'[x] = correction[x]
  BY <1>3 DEF Create, IndInv, TypeOK
<1>5. /\ Shown' = [Shown EXCEPT ![c] = "PENDING_REVIEW"]
      /\ Author' = [Author EXCEPT ![c] = u]
      /\ Reviewer' = [Reviewer EXCEPT ![c] = correction[c].reviewer]
      /\ Sent' = Sent /\ Adds' = Adds
  <2>1. graph' = graph /\ \A x \in Correction : x # c => task'[x] = task[x]
    BY <1>4 DEF Create
  <2>2. /\ Shown' = [Shown EXCEPT ![c] = correction'[c].status]
        /\ Author' = [Author EXCEPT ![c] = correction'[c].by]
        /\ Reviewer' = [Reviewer EXCEPT ![c] = correction'[c].reviewer]
        /\ Sent' = Sent /\ Adds' = Adds
    BY <1>4, <2>1, OneRow
  <2> QED
    BY <1>2, <1>4, <2>2
<1>6. Jobs' = Jobs /\ Reviewer' = Reviewer
  BY <1>4, <1>5 DEF Jobs, JobOf, JobState, Reviewer
<1>7. Shown[c] = "ABSENT"
  BY DEF Create, Shown
<1>8. Ledger!File(c, u)
  BY <1>5, <1>6, <1>7
  DEF Ledger!File, Ledger!Filed, Shown, Author, Reviewer, Jobs, JobOf, Sent, Adds
<1> QED
  BY <1>8 DEF Ledger!Next

\* What a request commits is a withdrawal, a rejection, an approval, a retry or
\* nothing that people see.
LEMMA CommitLedger ==
    ASSUME IndInv, LedgerInv, Lasts, NEW s \in Session, NEW k \in Correction, Commit(s, k)
    PROVE  Ledger!Next \/ UNCHANGED Ledger!vars
<1> DEFINE u == tx[s]
<1>1. /\ u # NoTx /\ u \in UnitType /\ StagedOK(u) /\ u.cor = k
      /\ \A c \in Correction : c # k => correction'[c] = correction[c] /\ task'[c] = task[c]
      /\ correction'[k].by = correction[k].by
      /\ correction'[k].status = Write(correction[k].status, u.status)
      /\ correction'[k].reviewer = Write(correction[k].reviewer, u.reviewer)
      /\ \/ /\ u.insert /\ task[k].status = "ABSENT"
            /\ task'[k].status = "PENDING" /\ task'[k].attempts = 0
         \/ /\ ~u.insert /\ u.task # Keep /\ Approved(k) /\ ~Locked(k)
            /\ task'[k].status = "PENDING" /\ task'[k].attempts = 0
         \/ ~u.insert /\ u.task = Keep /\ task'[k] = task[k]
  BY CommitFields
<1>2. Signed(u)
  BY DEF LedgerInv
<1>3. /\ Filed(k) /\ u.status \in {Keep, "PENDING_SYNC", "REJECTED", "CANCELLED"}
      /\ u.reviewer # Keep => BySecond(k, u.reviewer)
  BY <1>1 DEF StagedOK
<1>4. /\ task[k] \in TaskType /\ correction[k] \in CorrectionType
      /\ task'[k] \in TaskType /\ correction'[k] \in CorrectionType
  <2>1. IndInv'
    BY CommitStep
  <2> QED
    BY <2>1 DEF IndInv, TypeOK
<1>5. /\ Shown' = [Shown EXCEPT ![k] = correction'[k].status]
      /\ Author' = [Author EXCEPT ![k] = correction[k].by]
      /\ Reviewer' = [Reviewer EXCEPT ![k] = correction'[k].reviewer]
      /\ Jobs' = [Jobs EXCEPT ![k] = JobOf(task'[k])]
      /\ Sent' = Sent /\ Adds' = Adds
  BY <1>1, OneRow DEF Commit
<1>6. /\ Shown[k] = correction[k].status /\ Author[k] = correction[k].by
      /\ Reviewer[k] = correction[k].reviewer /\ Jobs[k] = JobOf(task[k])
      /\ Shown = [Shown EXCEPT ![k] = Shown[k]] /\ Author = [Author EXCEPT ![k] = Author[k]]
      /\ Reviewer = [Reviewer EXCEPT ![k] = Reviewer[k]] /\ Jobs = [Jobs EXCEPT ![k] = Jobs[k]]
  BY DEF Shown, Author, Reviewer, Jobs
<1>7. \A x \in {"CANCELLED", "REJECTED", "PENDING_SYNC"} : x # Keep
  BY KeepAssumption DEF CorStatus
<1>8. Author' = Author /\ Ledger!Filed(k)
  BY <1>3, <1>5, <1>6 DEF Filed, Ledger!Filed
<1>9. \A v \in User : BySecond(k, v) => Ledger!SecondPerson(k, v)
  BY DEF Ledger!SecondPerson, BySecond
<1>10. ASSUME task'[k].status = "PENDING", task'[k].attempts = 0
       PROVE  JobOf(task'[k]) = [state |-> "due", tries |-> 0]
  BY <1>10 DEF JobOf, JobState
<1> HIDE DEF u
<1>11. CASE u.status = Keep
  <2>1. u.reviewer = Keep /\ ~u.insert /\ u.task = Keep
    BY <1>1, <1>2, <1>7, <1>11 DEF Signed, StagedOK
  <2>2. /\ correction'[k].status = correction[k].status
        /\ correction'[k].reviewer = correction[k].reviewer /\ task'[k] = task[k]
    BY <1>1, <1>11, <2>1 DEF Write
  <2>3. UNCHANGED <<Shown, Author, Reviewer, Jobs, Sent, Adds>>
    BY <1>5, <1>6, <2>2
  <2> QED
    BY <2>3, LedgerStutter
<1>12. CASE u.status = "CANCELLED"
  <2>1. u.reviewer = Keep /\ ~u.insert /\ u.task = Keep
    BY <1>1, <1>2, <1>7, <1>12 DEF Signed, StagedOK
  <2>2. /\ correction'[k].status = "CANCELLED"
        /\ correction'[k].reviewer = correction[k].reviewer /\ task'[k] = task[k]
    BY <1>1, <1>7, <1>12, <2>1 DEF Write
  <2>3. /\ Shown' = [Shown EXCEPT ![k] = "CANCELLED"]
        /\ UNCHANGED <<Author, Reviewer, Jobs, Sent, Adds>>
    BY <1>5, <1>6, <2>2
  <2>4. Ledger!Withdraw(k)
    BY <1>8, <2>3 DEF Ledger!Withdraw, Shown, Author, Reviewer, Jobs, JobOf, Sent, Adds
  <2> QED
    BY <2>4 DEF Ledger!Next
<1>13. CASE u.status = "REJECTED"
  <2>1. ~u.insert /\ u.task = Keep
    BY <1>1, <1>13 DEF StagedOK
  <2>2. u.reviewer # Keep \/ BySecond(k, correction[k].reviewer)
    BY <1>1, <1>2, <1>13 DEF Signed
  <2>3. BySecond(k, correction'[k].reviewer)
    BY <1>1, <1>3, <2>2 DEF Write
  <2>4. PICK v \in User : v = correction'[k].reviewer /\ BySecond(k, v)
    BY <1>4, <2>3 DEF CorrectionType, BySecond
  <2>5. correction'[k].status = "REJECTED" /\ task'[k] = task[k]
    BY <1>1, <1>7, <1>13, <2>1 DEF Write
  <2>6. /\ Shown' = [Shown EXCEPT ![k] = "REJECTED"]
        /\ Reviewer' = [Reviewer EXCEPT ![k] = v]
        /\ UNCHANGED <<Author, Jobs, Sent, Adds>>
    BY <1>5, <1>6, <2>4, <2>5
  <2>7. Ledger!Reject(k, v)
    BY <1>8, <1>9, <2>4, <2>6
    DEF Ledger!Reject, Ledger!Review, Shown, Author, Reviewer, Jobs, JobOf, Sent, Adds
  <2> QED
    BY <2>7 DEF Ledger!Next
<1>14. CASE u.status = "PENDING_SYNC" /\ u.insert
  <2>1. u.reviewer # Keep \/ BySecond(k, correction[k].reviewer)
    BY <1>1, <1>14 DEF StagedOK
  <2>2. BySecond(k, correction'[k].reviewer)
    BY <1>1, <1>3, <2>1 DEF Write
  <2>3. PICK v \in User : v = correction'[k].reviewer /\ BySecond(k, v)
    BY <1>4, <2>2 DEF CorrectionType, BySecond
  <2>4. /\ correction'[k].status = "PENDING_SYNC" /\ task[k].status = "ABSENT"
        /\ JobOf(task'[k]) = [state |-> "due", tries |-> 0]
    BY <1>1, <1>7, <1>10, <1>14 DEF Write
  <2>5. Jobs[k].state = "none"
    BY <1>4, <1>6, <2>4, JobStates DEF JobOf
  <2>6. /\ Shown' = [Shown EXCEPT ![k] = "PENDING_SYNC"]
        /\ Reviewer' = [Reviewer EXCEPT ![k] = v]
        /\ Jobs' = [Jobs EXCEPT ![k] = [state |-> "due", tries |-> 0]]
        /\ UNCHANGED <<Author, Sent, Adds>>
    BY <1>5, <1>6, <2>3, <2>4
  <2>7. Ledger!Approve(k, v)
    BY <1>8, <1>9, <2>3, <2>5, <2>6
    DEF Ledger!Approve, Ledger!Review, Shown, Author, Reviewer, Jobs, JobOf, Sent, Adds
  <2> QED
    BY <2>7 DEF Ledger!Next
<1>15. CASE u.status = "PENDING_SYNC" /\ ~u.insert
  <2>1. u.task # Keep
    BY <1>1, <1>7, <1>15 DEF StagedOK
  <2>2. u.reviewer = Keep
    BY <1>1, <1>2, <2>1 DEF Signed
  <2>3. /\ correction'[k].status = "PENDING_SYNC" /\ task[k].status # "ABSENT"
        /\ correction'[k].reviewer = correction[k].reviewer
        /\ JobOf(task'[k]) = [state |-> "due", tries |-> 0]
    BY <1>1, <1>7, <1>10, <1>15, <2>1, <2>2 DEF Write, Approved
  <2>4. Jobs[k].state # "none"
    BY <1>4, <1>6, <2>3, JobStates DEF JobOf
  <2>5. /\ Shown' = [Shown EXCEPT ![k] = "PENDING_SYNC"]
        /\ Jobs' = [Jobs EXCEPT ![k] = [state |-> "due", tries |-> 0]]
        /\ UNCHANGED <<Author, Reviewer, Sent, Adds>>
    BY <1>5, <1>6, <2>3
  <2>6. Ledger!Retry(k)
    BY <2>4, <2>5 DEF Ledger!Retry, Shown, Author, Reviewer, Jobs, JobOf, Sent, Adds
  <2> QED
    BY <2>6 DEF Ledger!Next
<1> QED
  BY <1>3, <1>11, <1>12, <1>13, <1>14, <1>15

\* The work on one task sends its data to the graph or is not seen at all.
LEMMA AttemptLedger ==
    ASSUME IndInv, NEW d \in Dispatcher, NEW c \in Correction,
           ProjectionFails(d, c) \/ ProjectOnly(d, c) \/ ProjectAndGraph(d, c) \/ GraphFails(d, c)
    PROVE  Ledger!Next \/ UNCHANGED Ledger!vars
<1> DEFINE t == correction[c].target
           op == correction[c].operation
           g == GraphWritten(graph[t], c, op)
<1>1. /\ IsNext(d, c) /\ UNCHANGED <<correction, task>>
      /\ graph' = graph \/ WriteGraph(d, c)
  BY AttemptOutcome DEF ProjectionFails, ProjectOnly, ProjectAndGraph, GraphFails
<1>2. UNCHANGED <<Shown, Author, Reviewer, Jobs, Adds>>
  BY <1>1 DEF Shown, Author, Reviewer, Jobs, JobOf, JobState, Adds
<1>3. t \in Target /\ graph[t] \in GraphType /\ task[c] \in TaskType
  BY DEF IndInv, TypeOK, CorrectionType
<1>4. WriteGraph(d, c) => graph' = [graph EXCEPT ![t] = g]
  BY DEF WriteGraph
<1>5. g.data = IF op = "delete" THEN graph[t].data ELSE graph[t].data \cup {c}
  BY <1>3 DEF GraphWritten, GraphType
<1> HIDE DEF g
<1>6. Sent' = Sent \/ (Sent' = Sent \cup {c} /\ op # "delete")
  <2>1. CASE graph' = graph
    BY <1>1, <2>1 DEF Sent
  <2>2. ASSUME WriteGraph(d, c), op = "delete" PROVE Sent' = Sent
    <3>1. \A y \in Target : graph'[y].data = graph[y].data
      BY <1>3, <1>4, <1>5, <2>2 DEF IndInv, TypeOK
    <3>2. \A x \in Correction : correction[x].target \in Target
      BY DEF IndInv, TypeOK, CorrectionType
    <3> QED
      BY <1>1, <3>1, <3>2 DEF Sent
  <2>3. ASSUME WriteGraph(d, c), op # "delete" PROVE Sent' \in {Sent, Sent \cup {c}}
    <3>1. \A x \in Correction : correction[x].target \in Target
      BY DEF IndInv, TypeOK, CorrectionType
    <3>2. \A y \in Target :
            graph'[y].data = IF y = t THEN graph[y].data \cup {c} ELSE graph[y].data
      BY <1>3, <1>4, <1>5, <2>3 DEF IndInv, TypeOK
    <3>3. \A x \in Correction : x \in graph'[correction[x].target].data
                                  <=> x \in graph[correction[x].target].data \/ x = c
      BY <3>1, <3>2
    <3>4. Sent' = Sent \cup {c}
      BY <1>1, <3>3 DEF Sent
    <3> QED
      BY <3>4
  <2> QED
    BY <1>1, <2>1, <2>2, <2>3
<1>7. CASE Sent' = Sent
  BY <1>2, <1>7, LedgerStutter
<1>8. CASE Sent' = Sent \cup {c} /\ op # "delete"
  <2>1. batch[d] # NoBatch /\ c \in batch[d].todo
    BY <1>1 DEF IsNext, NoBatch
  <2>2. Due(c)
    BY <2>1 DEF IndInv, BatchOK
  <2>3. Jobs[c].state = "due" /\ c \in Adds
    BY <1>3, <1>8, <2>2, JobStates DEF Jobs, JobOf, Adds, Due
  <2>4. Ledger!Send(c)
    BY <1>2, <1>8, <2>3 DEF Ledger!Send, Shown, Author, Reviewer, Jobs, JobOf, Sent, Adds
  <2> QED
    BY <2>4 DEF Ledger!Next
<1> QED
  BY <1>6, <1>7, <1>8

\* A batch that commits settles one attempt of each task it holds.
LEMMA BatchLedger ==
    ASSUME IndInv, AppliedInv, LedgerInv, Lasts, NEW d \in Dispatcher, CommitBatch(d)
    PROVE  Ledger!Next
<1> DEFINE b == batch[d]
<1>1. b # NoBatch /\ b.todo = {} /\ b \in BatchType /\ b.lock \in SUBSET Correction
  BY BatchShape DEF CommitBatch, IndInv
<1>2. PICK S \in SUBSET Correction : S = b.lock
  BY <1>1
<1>3. IndInv' /\ graph' = graph
  BY CommitBatchStep DEF CommitBatch
<1>4. /\ Jobs' \in [Correction -> Ledger!Job] /\ Shown' \in [Correction -> Ledger!Status]
  <2>1. ASSUME NEW c \in Correction
        PROVE  JobOf(task'[c]) \in Ledger!Job /\ correction'[c].status \in Ledger!Status
    <3>1. task'[c] \in TaskType /\ correction'[c] \in CorrectionType
      BY <1>3 DEF IndInv, TypeOK
    <3>2. task'[c].attempts \in 0..MaxAttempts
      BY <1>3, <3>1, BoundsAssumption DEF IndInv, AttemptsRespected, TaskType
    <3>3. JobState(task'[c]) \in {"none", "due", "stored", "delivered", "given_up"}
      BY <3>1, JobStates
    <3> QED
      BY <3>1, <3>2, <3>3 DEF JobOf, Ledger!Job, Ledger!Status, CorrectionType, CorStatus
  <2>2. /\ Jobs' = [c \in Correction |-> JobOf(task'[c])]
        /\ Shown' = [c \in Correction |-> correction'[c].status]
    BY DEF Jobs, Shown, JobOf, JobState
  <2> QED
    BY <2>1, <2>2
<1>5. \A c \in Correction : /\ Jobs[c] = JobOf(task[c]) /\ Jobs'[c] = JobOf(task'[c])
                            /\ Shown[c] = correction[c].status
                            /\ Shown'[c] = correction'[c].status
  BY DEF Jobs, Shown, JobOf, JobState
<1>6. ASSUME NEW c \in S
      PROVE  /\ Jobs[c].state = "due" /\ Jobs'[c].tries = Jobs[c].tries + 1
             /\ \/ /\ Jobs'[c].state \in {"stored", "delivered"}
                   /\ Jobs'[c].state = "delivered" /\ c \in Adds => c \in Sent
                   /\ Shown'[c] = "COMPLETED"
                \/ /\ Jobs'[c].state = IF Jobs'[c].tries = MaxAttempts THEN "given_up" ELSE "due"
                   /\ \/ Shown'[c] = "SYNC_FAILED"
                      \/ /\ Jobs[c].tries > 0 /\ Shown[c] \in {"REJECTED", "CANCELLED"}
                         /\ Shown'[c] = Shown[c]
  <2> DEFINE row == task'[c]
             seen == b.seen[c]
             st == b.status[c]
  <2>1. c \in Correction /\ task[c] \in TaskType /\ correction[c] \in CorrectionType
    BY <1>2 DEF IndInv, TypeOK
  <2>2. /\ row \in TaskType /\ Due(c) /\ Worked(row, seen, st)
        /\ seen = "SYNC_FAILED" => task[c].status = "RETRYING"
        /\ correction'[c].status = Write(correction[c].status, st)
    BY <1>2, <2>1, BatchRow
  <2>3. row = b.result[c] /\ row.attempts = task[c].attempts + 1
    BY <1>2, <1>1, <2>1 DEF CommitBatch, LedgerInv, Counted
  <2>4. /\ Jobs[c].state = "due" /\ Jobs[c].tries = task[c].attempts
        /\ Jobs'[c].state = JobState(row) /\ Jobs'[c].tries = row.attempts
    <3>1. JobState(task[c]) = "due"
      BY <2>1, <2>2, JobStates DEF Due
    <3>2. Jobs[c] = JobOf(task[c]) /\ Jobs'[c] = JobOf(row)
      BY <1>5, <2>1
    <3> HIDE DEF row
    <3>3. Jobs[c].state = JobState(task[c]) /\ Jobs[c].tries = task[c].attempts
      BY <3>2 DEF JobOf
    <3>4. Jobs'[c].state = JobState(row) /\ Jobs'[c].tries = row.attempts
      BY <3>2 DEF JobOf
    <3> QED
      BY <3>1, <3>3, <3>4
  <2>5. \A x \in {"COMPLETED", "SYNC_FAILED"} : x # Keep
    BY KeepAssumption DEF CorStatus
  <2>6. row.status = "SUCCEEDED" => (row.graph = "SUCCEEDED" /\ c \in Adds => c \in Sent)
    <3>1. ASSUME row.status = "SUCCEEDED" PROVE Applied(c, row, graph)
      BY <1>2, <1>1, <2>3, <3>1 DEF AppliedInv, BatchApplied
    <3> QED
      BY <2>1, <3>1 DEF Applied, Adds, Sent
  <2> HIDE DEF row, seen, st
  <2>7. CASE row.status = "SUCCEEDED"
    <3>1. st = "COMPLETED"
      BY <2>2, <2>7 DEF Worked
    <3>2. Shown'[c] = "COMPLETED"
      BY <1>5, <2>1, <2>2, <2>5, <3>1 DEF Write
    <3>3. /\ JobState(row) \in {"stored", "delivered"}
          /\ JobState(row) = "delivered" => row.graph = "SUCCEEDED"
      BY <2>2, <2>7, JobStates
    <3> QED
      BY <2>3, <2>4, <2>6, <2>7, <3>2, <3>3
  <2>8. CASE row.status # "SUCCEEDED"
    <3>1. /\ \/ row.status = "FAILED" /\ row.attempts = MaxAttempts
             \/ row.status = "RETRYING" /\ row.attempts \in 1..(MaxAttempts - 1)
          /\ st = "SYNC_FAILED" \/ (st = Keep /\ seen = "SYNC_FAILED")
      BY <2>2, <2>8 DEF Worked
    <3>2. /\ row.status = "FAILED" => JobState(row) = "given_up"
          /\ row.status = "RETRYING" => JobState(row) = "due"
      BY <2>2, JobStates
    <3>3. JobState(row) = IF row.attempts = MaxAttempts THEN "given_up" ELSE "due"
      BY <3>1, <3>2, BoundsAssumption
    <3>4. CASE st = "SYNC_FAILED"
      <4>1. Shown'[c] = "SYNC_FAILED"
        BY <1>5, <2>1, <2>2, <2>5, <3>4 DEF Write
      <4> QED
        BY <2>3, <2>4, <3>3, <4>1
    <3>5. CASE st = Keep /\ seen = "SYNC_FAILED"
      <4>1. task[c].status = "RETRYING" /\ Shown'[c] = Shown[c]
        BY <1>5, <2>1, <2>2, <3>5 DEF Write
      <4>2. task[c].attempts > 0
        BY <2>1, <4>1, BoundsAssumption DEF IndInv, AttemptsRespected
      <4>3. correction[c].status \in {"SYNC_FAILED", "REJECTED", "CANCELLED"}
        BY <2>1, <4>1 DEF IndInv, TaskAgrees, RowOK, Approved, CorrectionType, CorStatus
      <4> QED
        BY <1>5, <2>1, <2>3, <2>4, <3>3, <4>1, <4>2, <4>3
    <3> QED
      BY <3>1, <3>4, <3>5
  <2> QED
    BY <2>7, <2>8
<1>7. \A c \in Correction \ S : Jobs'[c] = Jobs[c] /\ Shown'[c] = Shown[c]
  BY <1>2, <1>5, BatchRow
<1>8. UNCHANGED <<Author, Reviewer, Sent, Adds>>
  <2>1. \A c \in Correction : /\ correction'[c].by = correction[c].by
                              /\ correction'[c].reviewer = correction[c].reviewer
    BY BatchRow
  <2> QED
    BY <1>3, <2>1 DEF Author, Reviewer, Sent, Adds, Lasts
<1>9. Ledger!Carry(S)
  BY <1>4, <1>6, <1>7, <1>8
  DEF Ledger!Carry, Ledger!Succeeds, Ledger!Fails, Shown, Author, Reviewer, Jobs, JobOf, Sent, Adds
<1> QED
  BY <1>9 DEF Ledger!Next

\* Before anything is filed the ledger is empty.
LEMMA InitLedger == Init => Ledger!Init
<1> SUFFICES ASSUME Init PROVE Ledger!Init
  OBVIOUS
<1>1. ASSUME NEW c \in Correction
      PROVE  /\ correction[c].status = "ABSENT"
             /\ correction[c].by = NoUser /\ correction[c].reviewer = NoUser
             /\ correction[c].target \in Target
  BY DEF Init
<1>2. ASSUME NEW c \in Correction PROVE JobOf(task[c]) = [state |-> "none", tries |-> 0]
  <2>1. task[c] \in TaskType /\ task[c].status = "ABSENT" /\ task[c].attempts = 0
    BY InitInv DEF Init, NoTask, IndInv, TypeOK
  <2> QED
    BY <2>1, JobStates DEF JobOf
<1>3. \A t \in Target : graph[t].data = {}
  BY DEF Init
<1>4. /\ Shown = [c \in Correction |-> "ABSENT"]
      /\ Author = [c \in Correction |-> NoUser] /\ Reviewer = [c \in Correction |-> NoUser]
  BY <1>1 DEF Shown, Author, Reviewer
<1>5. Jobs = [c \in Correction |-> [state |-> "none", tries |-> 0]]
  BY <1>2 DEF Jobs
<1>6. Sent = {} /\ Adds \subseteq Correction
  BY <1>1, <1>3 DEF Sent, Adds
<1> QED
  BY <1>4, <1>5, <1>6
  DEF Ledger!Init, Shown, Author, Reviewer, Jobs, JobOf, Sent, Adds

\* Every step is a step of the ledger or is not seen in it.
LEMMA NextLedger ==
    IndInv /\ AppliedInv /\ LedgerInv /\ [Next]_vars => [Ledger!Next]_Ledger!vars
<1> SUFFICES ASSUME IndInv, AppliedInv, LedgerInv, [Next]_vars
             PROVE  Ledger!Next \/ UNCHANGED Ledger!vars
  OBVIOUS
<1>0. Lasts
  BY NextLasts
<1>1. UNCHANGED <<correction, task, graph>> => UNCHANGED Ledger!vars
  <2> SUFFICES ASSUME UNCHANGED <<correction, task, graph>> PROVE UNCHANGED Ledger!vars
    OBVIOUS
  <2>1. UNCHANGED <<Shown, Author, Reviewer, Jobs, Sent, Adds>>
    BY DEF Shown, Author, Reviewer, Jobs, JobOf, JobState, Sent, Adds
  <2> QED
    BY <2>1, LedgerStutter
<1>2. CASE UNCHANGED vars
  BY <1>1, <1>2 DEF vars
<1>3. ASSUME NEW c \in Correction, NEW u \in User, Create(c, u) PROVE Ledger!Next
  BY <1>0, <1>3, CreateLedger
<1>4. ASSUME NEW s \in Session, NEW c \in Correction, NEW u \in User, Request(s, c, u)
      PROVE  UNCHANGED Ledger!vars
  BY <1>1, <1>4 DEF Request, Update, Cancel, Reject, Approve, Retry, Stage
<1>5. ASSUME NEW s \in Session, NEW c \in Correction, Commit(s, c)
      PROVE  Ledger!Next \/ UNCHANGED Ledger!vars
  BY <1>0, <1>5, CommitLedger
<1>6. ASSUME NEW s \in Session, Rollback(s) PROVE UNCHANGED Ledger!vars
  BY <1>1, <1>6 DEF Rollback
<1>7. ASSUME NEW d \in Dispatcher, Dispatch(d) PROVE Ledger!Next \/ UNCHANGED Ledger!vars
  <2>1. ASSUME NEW S \in SUBSET Correction, NEW mode \in Modes, Poll(d, S, mode)
        PROVE  UNCHANGED Ledger!vars
    BY <1>1, <2>1 DEF Poll
  <2>2. ASSUME NEW c \in Correction,
               ProjectionFails(d, c) \/ ProjectOnly(d, c) \/ ProjectAndGraph(d, c)
               \/ GraphFails(d, c)
        PROVE  Ledger!Next \/ UNCHANGED Ledger!vars
    BY <2>2, AttemptLedger
  <2>3. ASSUME CommitBatch(d) PROVE Ledger!Next
    BY <1>0, <2>3, BatchLedger
  <2>4. ASSUME AbortBatch(d) PROVE UNCHANGED Ledger!vars
    BY <1>1, <2>4 DEF AbortBatch
  <2> QED
    BY <1>7, <2>1, <2>2, <2>3, <2>4 DEF Dispatch
<1> QED
  BY <1>2, <1>3, <1>4, <1>5, <1>6, <1>7 DEF Next

\* However requests, batches and rollbacks interleave, the three tables and the
\* graph move as the ledger promises (decide, retry and process_task of
\* correction.py).
THEOREM LedgerImplemented == Spec => ImplementsLedger
<1>1. IndInv /\ AppliedInv /\ LedgerInv /\ [Next]_vars => [Ledger!Next]_Ledger!vars
  BY NextLedger
<1> QED
  BY <1>1, InitLedger, Invariance, AppliedInvariance, LedgerInvariance, PTL
  DEF Spec, ImplementsLedger, Ledger!Spec

=============================================================================
