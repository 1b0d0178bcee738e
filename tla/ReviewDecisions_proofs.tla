----------------------- MODULE ReviewDecisions_proofs ------------------------
(***************************************************************************)
(* Proofs about what is decided on a case of ManualReview, for any number  *)
(* of cases, people and workers.  A case is verified and resolved only     *)
(* after graph-build, or an administrator, reported so; with one API       *)
(* process, graph-build runs approved decisions only, and an approver      *)
(* decides on the newest one.  None of the three is inductive: what a      *)
(* commit makes of a case was computed when the session read it.           *)
(* VerifiedInv and DecisionInv add what the open sessions carry.           *)
(***************************************************************************)
EXTENDS ManualReview_proofs

\* A session that will close a case carries the event that closes it; and the
\* rerun before it is on record by now (events are never deleted).
VerifiedUnit(u) ==
    u.kind # "none" =>
      /\ u.set.status = "VERIFYING" => u.kind = "event" /\ u.type = "RERUN_SUCCEEDED"
      /\ u.set.status = "RESOLVED" =>
            /\ u.kind = "event" /\ u.type = "VERIFICATION_SUCCEEDED"
            /\ Recorded(u.case, "RERUN_SUCCEEDED")

VerifiedInv == ResolvedIsVerified /\ \A p \in Proc : VerifiedUnit(tx[p])

Closing == {"VERIFYING", "RESOLVED"}
EventsGrow == \A c \in Case : event[c] \subseteq event'[c]

-----------------------------------------------------------------------------
(* What a step may do *)

\* An event on record stays on record.
LEMMA RecordedStays ==
    ASSUME EventsGrow, NEW c \in Case, NEW t, Recorded(c, t)
    PROVE  Recorded(c, t)'
  BY DEF EventsGrow, Recorded

\* The columns of a staged unit belong to a case.
LEMMA UnitColumns ==
    ASSUME NEW u \in UnitType, u.kind # "none"
    PROVE  u.case \in Case /\ u.set \in SetType
  BY DEF UnitType, NoTx, RowUnit, DecisionUnit, RetryUnit, EventUnit, FailureUnit

\* A session that is still open carries what it carried.
LEMMA UnitStays ==
    ASSUME EventsGrow, NEW u \in UnitType, VerifiedUnit(u)
    PROVE  VerifiedUnit(u)'
<1>1. CASE u.kind = "none"
  BY <1>1 DEF VerifiedUnit
<1>2. CASE u.kind # "none"
  <2>1. u.case \in Case
    BY <1>2, UnitColumns
  <2>2. Recorded(u.case, "RERUN_SUCCEEDED") => Recorded(u.case, "RERUN_SUCCEEDED")'
    BY <2>1, RecordedStays
  <2> QED
    BY <1>2, <2>2 DEF VerifiedUnit
<1> QED
  BY <1>1, <1>2

\* A step keeps the invariant if no event is lost, what it stages is sound,
\* and each case it closes has its events on record.
LEMMA Keeps ==
    ASSUME TypeOK, VerifiedInv, EventsGrow,
           \A p \in Proc : tx'[p] = tx[p] \/ VerifiedUnit(tx[p])',
           \A c \in Case :
             \/ row'[c].status = row[c].status
             \/ /\ row'[c].status \in Closing => Recorded(c, "RERUN_SUCCEEDED")'
                /\ row'[c].status = "RESOLVED" => Recorded(c, "VERIFICATION_SUCCEEDED")'
    PROVE  VerifiedInv'
<1>1. ASSUME NEW p \in Proc PROVE VerifiedUnit(tx[p])'
  <2>1. CASE VerifiedUnit(tx[p])'
    BY <2>1
  <2>2. CASE tx'[p] = tx[p]
    <3> DEFINE u == tx[p]
    <3>1. u \in UnitType /\ VerifiedUnit(u)
      BY DEF TypeOK, VerifiedInv
    <3>2. \A v \in UnitType : VerifiedUnit(v) => VerifiedUnit(v)'
      BY UnitStays
    <3> QED
      BY <2>2, <3>1, <3>2 DEF VerifiedUnit
  <2> QED
    BY <2>1, <2>2
<1>2. ASSUME NEW c \in Case
      PROVE  /\ row'[c].status \in Closing => Recorded(c, "RERUN_SUCCEEDED")'
             /\ row'[c].status = "RESOLVED" => Recorded(c, "VERIFICATION_SUCCEEDED")'
  <2>1. /\ row[c].status \in Closing => Recorded(c, "RERUN_SUCCEEDED")
        /\ row[c].status = "RESOLVED" => Recorded(c, "VERIFICATION_SUCCEEDED")
    BY DEF VerifiedInv, ResolvedIsVerified, Closing
  <2> QED
    BY <2>1, RecordedStays
<1> QED
  BY <1>1, <1>2 DEF VerifiedInv, ResolvedIsVerified, Closing

\* Staging a unit of work closes nothing yet.
LEMMA StagesVerified ==
    ASSUME TypeOK, VerifiedInv, NEW p \in Proc, NEW unit, VerifiedUnit(unit), Stage(p, unit)
    PROVE  VerifiedInv'
<1>1. UNCHANGED <<row, event>>
  BY DEF Stage, tables
<1>2. EventsGrow
  BY <1>1 DEF EventsGrow
<1>3. \A q \in Proc : tx'[q] = tx[q] \/ tx'[q] = unit
  BY DEF Stage, TypeOK
<1>4. VerifiedUnit(unit)'
  BY <1>1 DEF VerifiedUnit, Recorded
<1>5. \A q \in Proc : tx'[q] = tx[q] \/ VerifiedUnit(tx[q])'
  BY <1>3, <1>4 DEF VerifiedUnit
<1> QED
  BY <1>1, <1>2, <1>5, Keeps

\* A unit with another status closes nothing.
LEMMA OpenUnit ==
    ASSUME NEW u, u.set.status \notin Closing
    PROVE  VerifiedUnit(u)
  BY DEF VerifiedUnit, Closing

\* The column is left out, or it carries the status asked for.
LEMMA SetOpen ==
    ASSUME TypeOK, NEW c \in Case, NEW s \in Status \ Closing,
           NEW a \in User \cup {NoUser}, NEW b \in Beat \cup {Keep}
    PROVE  RowSet(c, s, a, b).status \notin Closing /\ StatusSet(c, s).status \notin Closing
<1>1. Keep \notin Closing
  BY KeepAssumption DEF Closing, Status
<1> QED
  BY <1>1, SetTyped

\* A handler that assigns the status it read leaves the column out.
LEMMA SetSame ==
    ASSUME NEW c \in Case, NEW a, NEW b
    PROVE  RowSet(c, row[c].status, a, b).status \notin Closing
  BY KeepAssumption DEF RowSet, Change, Closing, Status

-----------------------------------------------------------------------------
(* Requests *)

\* Heartbeats and transfers keep the status; a release, a cancellation, a
\* draft and an expired claim set one that closes nothing.
LEMMA MutateVerified ==
    ASSUME IndInv, VerifiedInv, NEW p \in Proc, NEW c \in Case, NEW u,
           \/ Heartbeat(p, c, u) \/ Release(p, c, u) \/ Cancel(p, c, u)
           \/ SaveDraft(p, c, u) \/ ReclaimExpired(p, c)
           \/ \E to \in User : Transfer(p, c, u, to)
    PROVE  VerifiedInv'
<1>1. TypeOK
  BY DEF IndInv
<1>2. PICK set :
        /\ Stage(p, [kind |-> "row", case |-> c, set |-> set])
        /\ \/ set = RowSet(c, row[c].status, row[c].assignee, "fresh")
           \/ set = RowSet(c, "OPEN", NoUser, "none")
           \/ set = StatusSet(c, "CANCELLED")
           \/ set = StatusSet(c, "IN_REVIEW")
           \/ \E to \in User : set = RowSet(c, row[c].status, to, "fresh")
  BY DEF Heartbeat, Release, Cancel, SaveDraft, ReclaimExpired, Transfer, Mutate
<1>3. set.status \notin Closing
  <2>1. {"OPEN", "CANCELLED", "IN_REVIEW"} \subseteq Status \ Closing
    BY DEF Status, Closing
  <2>2. "none" \in Beat \cup {Keep} /\ NoUser \in User \cup {NoUser}
    BY DEF Beat
  <2> QED
    BY <1>1, <1>2, <2>1, <2>2, SetOpen, SetSame
<1> DEFINE unit == [kind |-> "row", case |-> c, set |-> set]
<1>4. VerifiedUnit(unit)
  BY <1>3, OpenUnit
<1> QED
  BY <1>1, <1>2, <1>4, StagesVerified

\* A decision, or a retry, makes the case PENDING_APPROVAL, APPLYING or REJECTED.
LEMMA DecideVerified ==
    ASSUME IndInv, VerifiedInv, NEW p \in Proc, NEW c \in Case, NEW u,
           \/ \E risky \in BOOLEAN : Submit(p, c, u, risky)
           \/ \E ok \in BOOLEAN : Approve(p, c, u, ok)
           \/ Retry(p, c)
    PROVE  VerifiedInv'
<1>1. TypeOK
  BY DEF IndInv
<1>2. PICK unit :
        /\ Stage(p, unit)
        /\ \E s \in {"PENDING_APPROVAL", "APPLYING", "REJECTED"} :
              unit.set = StatusSet(c, s)
  <2>1. CASE \E risky \in BOOLEAN : Submit(p, c, u, risky)
    BY <2>1 DEF Submit
  <2>2. CASE \E ok \in BOOLEAN : Approve(p, c, u, ok)
    BY <2>2 DEF Approve
  <2>3. CASE Retry(p, c)
    BY <2>3 DEF Retry
  <2> QED
    BY <2>1, <2>2, <2>3
<1>3. unit.set.status \notin Closing
  <2>1. {"PENDING_APPROVAL", "APPLYING", "REJECTED"} \subseteq Status \ Closing
    BY DEF Status, Closing
  <2>2. "none" \in Beat \cup {Keep} /\ NoUser \in User \cup {NoUser}
    BY DEF Beat
  <2> QED
    BY <1>1, <1>2, <2>1, <2>2, SetOpen
<1>4. VerifiedUnit(unit)
  BY <1>3, OpenUnit
<1> QED
  BY <1>1, <1>2, <1>4, StagesVerified

\* A failed dispatch makes the case APPLY_FAILED.
LEMMA ResumeFailedVerified ==
    ASSUME IndInv, VerifiedInv, NEW w \in Worker, ResumeFailed(w)
    PROVE  VerifiedInv'
<1>1. TypeOK /\ w \in Proc
  BY DEF IndInv, Proc
<1> DEFINE c == delivery[w].case
<1>2. c \in Case
  BY DeliveryShape DEF IndInv, TypeOK, ResumeFailed
<1>3. PICK unit : Stage(w, unit) /\ unit.set = StatusSet(c, "APPLY_FAILED")
  BY DEF ResumeFailed
<1>4. unit.set.status \notin Closing
  <2>1. "APPLY_FAILED" \in Status \ Closing /\ "none" \in Beat \cup {Keep}
    BY DEF Status, Closing, Beat
  <2> QED
    BY <1>1, <1>2, <1>3, <2>1, SetOpen
<1>5. VerifiedUnit(unit)
  BY <1>4, OpenUnit
<1> QED
  BY <1>1, <1>3, <1>5, StagesVerified

-----------------------------------------------------------------------------
(* Events *)

\* Only a succeeded rerun makes a case VERIFYING, only a succeeded
\* verification RESOLVED, and that one is refused unless it was VERIFYING.
LEMMA StageEventVerified ==
    ASSUME IndInv, VerifiedInv, NEW p \in Proc, NEW c \in Case, NEW x, NEW t \in EventType,
           NEW src, StageEvent(p, c, x, t, src)
    PROVE  VerifiedInv'
<1>1. TypeOK
  BY DEF IndInv
<1> DEFINE set == StatusSet(c, Effect[t])
           k == IF t = "VERIFICATION_SUCCEEDED" THEN Len(correction[c]) ELSE 0
           unit == [kind |-> "event", case |-> c, set |-> set,
                    exe |-> x, insert |-> x \notin execution[c], type |-> t, src |-> src,
                    cor |-> k,
                    corSet |-> IF k = 0 THEN Keep
                               ELSE Change(correction[c][k].status, "APPLIED")]
<1>2. Stage(p, unit) /\ row[c].status \in Allowed[t]
  BY DEF StageEvent
<1>3. set.status \in {Keep, Effect[t]}
  BY DEF StatusSet, RowSet, Change
<1>4. Keep \notin Closing
  BY KeepAssumption DEF Closing, Status
<1>5. /\ Effect[t] = "VERIFYING" => t = "RERUN_SUCCEEDED"
      /\ Effect[t] = "RESOLVED" => t = "VERIFICATION_SUCCEEDED"
  BY DEF Effect, EventType, EventStage
<1>6. t = "VERIFICATION_SUCCEEDED" => Recorded(c, "RERUN_SUCCEEDED")
  <2>1. Allowed["VERIFICATION_SUCCEEDED"] = {"VERIFYING"}
    BY DEF Allowed, EventType
  <2> QED
    BY <1>2, <2>1 DEF VerifiedInv, ResolvedIsVerified
<1>7. VerifiedUnit(unit)
  <2>1. unit.kind = "event" /\ unit.type = t /\ unit.case = c /\ unit.set = set
    OBVIOUS
  <2> HIDE DEF unit, set
  <2> QED
    BY <2>1, <1>3, <1>4, <1>5, <1>6 DEF VerifiedUnit, Closing
<1> QED
  BY <1>1, <1>2, <1>7, StagesVerified

\* Callbacks of graph-build and the ones an administrator makes up.
LEMMA CallbackVerified ==
    ASSUME IndInv, VerifiedInv, NEW p \in Proc, NEW c \in Case, NEW u,
           \/ \E x \in ExecId, t \in EventType : ExecutionEvent(p, c, x, t)
           \/ \E x \in execution[c], ok \in BOOLEAN : CompleteExecution(p, c, u, x, ok)
    PROVE  VerifiedInv'
<1>1. \E x, src : \E t \in EventType : StageEvent(p, c, x, t, src)
  <2>1. {"VERIFICATION_SUCCEEDED", "RERUN_FAILED"} \subseteq EventType
    BY DEF EventType
  <2> QED
    BY <2>1 DEF ExecutionEvent, CompleteExecution
<1> QED
  BY <1>1, StageEventVerified

-----------------------------------------------------------------------------
(* Commits and the other steps that write *)

\* Ending a session leaves the others as they are.
LEMMA EndsSession ==
    ASSUME TypeOK, NEW p \in Proc, Done(p)
    PROVE  \A q \in Proc : tx'[q] = tx[q] \/ VerifiedUnit(tx[q])'
<1>1. \A q \in Proc : tx'[q] = tx[q] \/ tx'[q] = NoTx
  BY DEF Done, TypeOK
<1> QED
  BY <1>1 DEF VerifiedUnit, NoTx

\* A commit other than an event's closes nothing.
LEMMA CommitVerified ==
    ASSUME IndInv, VerifiedInv, NEW p \in Proc,
           CommitRow(p) \/ CommitDecision(p) \/ CommitRetry(p) \/ CommitFailure(p)
    PROVE  VerifiedInv'
<1>1. /\ tx[p].kind \notin {"none", "event"}
      /\ WriteRow(tx[p]) /\ Done(p) /\ UNCHANGED event
  BY DEF CommitRow, CommitDecision, CommitRetry, CommitFailure
<1>2. PICK unit \in UnitType : unit = tx[p]
  BY DEF IndInv, TypeOK
<1>3. unit.case \in Case /\ unit.set \in SetType
  BY <1>1, <1>2, UnitColumns
<1>4. unit.set.status \notin Closing
  BY <1>1, <1>2 DEF VerifiedInv, VerifiedUnit, Closing
<1>5. \A c \in Case : row'[c].status = row[c].status \/ row'[c].status \notin Closing
  <2>1. row' = [row EXCEPT ![unit.case] = Flushed(@, unit.set)]
    BY <1>1, <1>2 DEF WriteRow
  <2> QED
    BY <2>1, <1>3, <1>4, FlushStep DEF IndInv
<1>6. EventsGrow
  BY <1>1 DEF EventsGrow
<1>7. \A q \in Proc : tx'[q] = tx[q] \/ VerifiedUnit(tx[q])'
  BY <1>1, EndsSession DEF IndInv
<1> QED
  BY <1>5, <1>6, <1>7, Keeps DEF IndInv, Closing

\* The event that closes a case is inserted in the same commit.
LEMMA CommitEventVerified ==
    ASSUME IndInv, VerifiedInv, NEW p \in Proc, CommitEvent(p)
    PROVE  VerifiedInv'
<1>1. PICK unit \in EventUnit, c \in Case : unit = tx[p] /\ c = unit.case
  BY UnitShape DEF IndInv, TypeOK, CommitEvent, EventUnit
<1>2. unit.set \in SetType /\ unit.kind = "event"
  BY DEF EventUnit
<1> DEFINE e == <<unit.exe, unit.type, unit.src>>
<1>3. /\ row' = [row EXCEPT ![c] = Flushed(@, unit.set)]
      /\ event' = [event EXCEPT ![c] = @ \cup {e}]
      /\ Done(p)
  BY <1>1 DEF CommitEvent, WriteRow
<1>4. EventsGrow /\ Recorded(c, unit.type)'
  <2>1. event \in [Case -> SUBSET EventRow] /\ e[2] = unit.type
    BY DEF IndInv, TypeOK
  <2>2. event'[c] = event[c] \cup {e} /\ \A b \in Case : b # c => event'[b] = event[b]
    BY <2>1, <1>3
  <2> HIDE DEF e
  <2> QED
    BY <2>1, <2>2 DEF EventsGrow, Recorded
<1>5. /\ row'[c].status = IF unit.set.status = Keep THEN row[c].status ELSE unit.set.status
      /\ \A b \in Case : b # c => row'[b] = row[b]
  BY <1>2, <1>3, FlushStep DEF IndInv
<1>6. \/ row'[c].status = row[c].status
      \/ /\ row'[c].status \in Closing => Recorded(c, "RERUN_SUCCEEDED")'
         /\ row'[c].status = "RESOLVED" => Recorded(c, "VERIFICATION_SUCCEEDED")'
  <2>1. VerifiedUnit(unit)
    BY <1>1 DEF VerifiedInv
  <2>2. CASE unit.set.status = "VERIFYING"
    <3>1. unit.type = "RERUN_SUCCEEDED"
      BY <2>1, <2>2, <1>2 DEF VerifiedUnit
    <3> QED
      BY <3>1, <2>2, <1>4, <1>5
  <2>3. CASE unit.set.status = "RESOLVED"
    <3>1. unit.type = "VERIFICATION_SUCCEEDED" /\ Recorded(c, "RERUN_SUCCEEDED")
      BY <2>1, <2>3, <1>1, <1>2 DEF VerifiedUnit
    <3>2. Recorded(c, "RERUN_SUCCEEDED")'
      BY <3>1, <1>4, RecordedStays
    <3> QED
      BY <3>1, <3>2, <1>4
  <2>4. CASE unit.set.status \notin Closing
    BY <2>4, <1>5 DEF Closing
  <2> QED
    BY <2>2, <2>3, <2>4 DEF Closing
<1>7. \A q \in Proc : tx'[q] = tx[q] \/ VerifiedUnit(tx[q])'
  BY <1>3, EndsSession DEF IndInv
<1> QED
  BY <1>4, <1>5, <1>6, <1>7, Keeps DEF IndInv

\* An accepted resume writes RERUNNING, or no status at all.
LEMMA ResumeAcceptedVerified ==
    ASSUME IndInv, VerifiedInv, NEW w \in Worker, ResumeAccepted(w)
    PROVE  VerifiedInv'
<1>1. PICK d \in SentPhase, c \in Case : d = delivery[w] /\ c = d.case
  BY DeliveryShape DEF IndInv, TypeOK, ResumeAccepted, SentPhase
<1> DEFINE set == [status |-> Change(d.saw.status, "RERUNNING"), assignee |-> Keep,
                   version |-> d.saw.version + 1, beat |-> Keep]
<1>2. /\ row' = [row EXCEPT ![c] = Flushed(@, set)]
      /\ UNCHANGED <<event, tx>>
  BY <1>1 DEF ResumeAccepted
<1>3. set.status \in {Keep, "RERUNNING"} /\ set \in SetType
  BY DEF Change, SentPhase, SawType, SetType, Status
<1> HIDE DEF set
<1>4. \A b \in Case : row'[b].status = row[b].status \/ row'[b].status \notin Closing
  BY <1>2, <1>3, FlushStep, KeepAssumption DEF IndInv, Closing
<1>5. EventsGrow
  BY <1>2 DEF EventsGrow
<1> QED
  BY <1>2, <1>4, <1>5, Keeps DEF IndInv, Closing

\* A report, a claim and an old heartbeat close nothing.
LEMMA RowVerified ==
    ASSUME IndInv, VerifiedInv, NEW p, NEW c \in Case, NEW u,
           CreateReviewRequired(p, c) \/ ClaimCase(p, c, u) \/ HeartbeatExpires(c)
    PROVE  VerifiedInv'
<1>1. UNCHANGED <<event, tx>>
  BY DEF CreateReviewRequired, ClaimCase, HeartbeatExpires
<1>2. \A b \in Case : row'[b].status = row[b].status \/ row'[b].status \notin Closing
  <2>1. row \in [Case -> RowType]
    BY DEF IndInv, TypeOK
  <2>2. CASE CreateReviewRequired(p, c)
    BY <2>1, <2>2 DEF CreateReviewRequired, Closing, RowType
  <2>3. CASE ClaimCase(p, c, u)
    BY <2>1, <2>3 DEF ClaimCase, Closing
  <2>4. CASE HeartbeatExpires(c)
    BY <2>1, <2>4 DEF HeartbeatExpires, RowType
  <2> QED
    BY <2>2, <2>3, <2>4
<1>3. EventsGrow
  BY <1>1 DEF EventsGrow
<1> QED
  BY <1>1, <1>2, <1>3, Keeps DEF IndInv, Closing

\* The worker's locks and messages, graph-build's runs, a rollback, a crash.
LEMMA QuietVerified ==
    ASSUME IndInv, VerifiedInv, UNCHANGED <<row, event>>,
           tx' = tx \/ \E p \in Proc : Done(p)
    PROVE  VerifiedInv'
<1>1. \A q \in Proc : tx'[q] = tx[q] \/ VerifiedUnit(tx[q])'
  BY EndsSession DEF IndInv
<1>2. EventsGrow
  BY DEF EventsGrow
<1> QED
  BY <1>1, <1>2, Keeps DEF IndInv

-----------------------------------------------------------------------------
(* Verified before resolved *)

\* Initially there are no cases.
LEMMA InitVerified == Init => VerifiedInv
  BY DEF Init, VerifiedInv, ResolvedIsVerified, VerifiedUnit, NoTx

\* Every step keeps the invariant, whichever other sessions are open.
LEMMA NextVerified == IndInv /\ VerifiedInv /\ [Next]_vars => VerifiedInv'
<1> SUFFICES ASSUME IndInv, VerifiedInv, [Next]_vars PROVE VerifiedInv'
  OBVIOUS
<1>1. CASE UNCHANGED vars
  BY <1>1, QuietVerified DEF vars, tables
<1>2. ASSUME NEW c \in Case,
             \/ HeartbeatExpires(c)
             \/ \E p \in Proc : ReclaimExpired(p, c)
             \/ \E o \in DOMAIN outbox[c] : ReleaseStaleLock(c, o)
             \/ \E x \in ExecId, s \in RunState : BuildSteps(c, x, s)
      PROVE  VerifiedInv'
  <2>1. CASE HeartbeatExpires(c)
    BY <2>1, RowVerified
  <2>2. CASE \E p \in Proc : ReclaimExpired(p, c)
    BY <2>2, MutateVerified
  <2>3. CASE \E o \in DOMAIN outbox[c] : ReleaseStaleLock(c, o)
    BY <2>3, QuietVerified DEF ReleaseStaleLock
  <2>4. CASE \E x \in ExecId, s \in RunState : BuildSteps(c, x, s)
    BY <2>4, QuietVerified DEF BuildSteps, tables
  <2> QED
    BY <1>2, <2>1, <2>2, <2>3, <2>4
<1>3. ASSUME NEW p \in Api, NEW c \in Case,
             \/ CreateReviewRequired(p, c)
             \/ Retry(p, c)
             \/ \E x \in ExecId, t \in EventType : ExecutionEvent(p, c, x, t)
      PROVE  VerifiedInv'
  <2>1. p \in Proc
    BY DEF Proc
  <2>2. CASE CreateReviewRequired(p, c)
    BY <2>2, RowVerified
  <2>3. CASE Retry(p, c)
    BY <2>1, <2>3, DecideVerified
  <2>4. CASE \E x \in ExecId, t \in EventType : ExecutionEvent(p, c, x, t)
    BY <2>1, <2>4, CallbackVerified
  <2> QED
    BY <1>3, <2>2, <2>3, <2>4
<1>4. ASSUME NEW p \in Api, NEW c \in Case, NEW u \in User,
             \/ ClaimCase(p, c, u)
             \/ Heartbeat(p, c, u)
             \/ Release(p, c, u)
             \/ Cancel(p, c, u)
             \/ SaveDraft(p, c, u)
             \/ \E to \in User : Transfer(p, c, u, to)
             \/ \E risky \in BOOLEAN : Submit(p, c, u, risky)
             \/ \E ok \in BOOLEAN : Approve(p, c, u, ok)
             \/ \E x \in execution[c], ok \in BOOLEAN : CompleteExecution(p, c, u, x, ok)
      PROVE  VerifiedInv'
  <2>1. p \in Proc
    BY DEF Proc
  <2>2. CASE ClaimCase(p, c, u)
    BY <2>2, RowVerified
  <2>3. CASE \/ Heartbeat(p, c, u) \/ Release(p, c, u) \/ Cancel(p, c, u)
             \/ SaveDraft(p, c, u) \/ \E to \in User : Transfer(p, c, u, to)
    BY <2>1, <2>3, MutateVerified
  <2>4. CASE \/ \E risky \in BOOLEAN : Submit(p, c, u, risky)
             \/ \E ok \in BOOLEAN : Approve(p, c, u, ok)
    BY <2>1, <2>4, DecideVerified
  <2>5. CASE \E x \in execution[c], ok \in BOOLEAN : CompleteExecution(p, c, u, x, ok)
    BY <2>1, <2>5, CallbackVerified
  <2> QED
    BY <1>4, <2>2, <2>3, <2>4, <2>5
<1>5. ASSUME NEW p \in Proc,
             \/ CommitRow(p) \/ CommitDecision(p) \/ CommitRetry(p)
             \/ CommitEvent(p) \/ CommitFailure(p) \/ Rollback(p)
      PROVE  VerifiedInv'
  <2>1. CASE CommitEvent(p)
    BY <2>1, CommitEventVerified
  <2>2. CASE Rollback(p)
    BY <2>2, QuietVerified DEF Rollback, tables
  <2> QED
    BY <1>5, <2>1, <2>2, CommitVerified
<1>6. ASSUME NEW w \in Worker,
             \/ \E c \in Case : \E o \in DOMAIN outbox[c] : ClaimRow(w, c, o)
             \/ SendResume(w) \/ BuildAccepts(w)
             \/ ResumeAccepted(w) \/ ResumeFailed(w) \/ Crash(w)
      PROVE  VerifiedInv'
  <2>1. CASE \E c \in Case : \E o \in DOMAIN outbox[c] : ClaimRow(w, c, o)
    BY <2>1, QuietVerified DEF ClaimRow
  <2>2. CASE SendResume(w) \/ BuildAccepts(w) \/ Crash(w)
    BY <2>2, QuietVerified DEF SendResume, BuildAccepts, Crash, tables
  <2> QED
    BY <1>6, <2>1, <2>2, ResumeAcceptedVerified, ResumeFailedVerified
<1> QED
  BY <1>1, <1>2, <1>3, <1>4, <1>5, <1>6 DEF Next

\* A case is VERIFYING only once a rerun was reported successful, and RESOLVED
\* only once its verification was, in whatever order sessions overlap and
\* callbacks arrive.
THEOREM ResolvedIsVerifiedHolds == Spec => []ResolvedIsVerified
<1>1. VerifiedInv => ResolvedIsVerified
  BY DEF VerifiedInv
<1> QED
  BY <1>1, InitVerified, NextVerified, Invariance, PTL DEF Spec

-----------------------------------------------------------------------------
(* One API process *)

OneApi == \A p, q \in Api : p = q

\* What a session carries to the decisions of a case: an approver's unit is
\* about the newest decision, which is still pending when it commits.
DecisionOK(p) ==
    /\ tx[p].kind = "decision" =>
          /\ p \in Api
          /\ tx[p].enqueue => tx[p].dec.status = "APPROVED"
          /\ tx[p].set.status \in {"PENDING_APPROVAL", "APPLYING", "REJECTED"}
          /\ tx[p].set.status = "PENDING_APPROVAL" =>
                tx[p].at = 0 /\ tx[p].dec.status = "PENDING_APPROVAL"
          /\ tx[p].at # 0 =>
                /\ tx[p].at = Len(decision[tx[p].case])
                /\ decision[tx[p].case][tx[p].at].status = "PENDING_APPROVAL"
    /\ tx[p].kind \notin {"none", "decision"} => tx[p].set.status # "PENDING_APPROVAL"

DecidedOK(c) ==
    /\ \A k \in DOMAIN correction[c] :
          decision[c][correction[c][k].decision].status = "APPROVED"
    /\ row[c].status = "PENDING_APPROVAL" =>
          Len(decision[c]) > 0 /\ decision[c][Len(decision[c])].status = "PENDING_APPROVAL"

DecisionInv ==
    /\ \A c \in Case : DecidedOK(c)
    /\ \A p \in Proc : DecisionOK(p)

\* No correction is added or given to another decision.
SameOrigins ==
    \A c \in Case : \A k \in DOMAIN correction'[c] :
      k \in DOMAIN correction[c] /\ correction'[c][k].decision = correction[c][k].decision

\* A step that writes no decision, asks for no approval and stages a sound
\* unit keeps the invariant.
LEMMA NothingDecided ==
    ASSUME DecisionInv, UNCHANGED decision, SameOrigins,
           \A c \in Case : row'[c].status = row[c].status
                             \/ row'[c].status # "PENDING_APPROVAL",
           \A p \in Proc : tx'[p] = tx[p] \/ DecisionOK(p)'
    PROVE  DecisionInv'
<1>1. \A c \in Case : DecidedOK(c)'
  BY DEF DecisionInv, DecidedOK, SameOrigins
<1>2. \A p \in Proc : DecisionOK(p)'
  BY DEF DecisionInv, DecisionOK
<1> QED
  BY <1>1, <1>2 DEF DecisionInv

\* Staging a sound unit.
LEMMA StagesDecision ==
    ASSUME TypeOK, DecisionInv, NEW p \in Proc, NEW unit, Stage(p, unit),
           tx'[p] = unit => DecisionOK(p)'
    PROVE  DecisionInv'
<1>1. /\ UNCHANGED <<row, decision, correction>>
      /\ \A q \in Proc : tx'[q] = tx[q] \/ (q = p /\ tx'[q] = unit)
  BY DEF Stage, tables, TypeOK
<1>2. SameOrigins
  BY <1>1 DEF SameOrigins
<1> QED
  BY <1>1, <1>2, NothingDecided

\* A unit of another kind asks for no approval.
LEMMA StagesOther ==
    ASSUME TypeOK, DecisionInv, NEW p \in Proc, NEW unit, Stage(p, unit),
           unit.kind # "decision", unit.set.status # "PENDING_APPROVAL"
    PROVE  DecisionInv'
<1>1. tx'[p] = unit => DecisionOK(p)'
  BY DEF DecisionOK
<1> QED
  BY <1>1, StagesDecision

\* Every status a handler other than submit and approve asks for.
LEMMA OtherStatus ==
    ASSUME NEW c, NEW s, s = row[c].status \/ s # "PENDING_APPROVAL",
           NEW a, NEW b
    PROVE  /\ RowSet(c, s, a, b).status # "PENDING_APPROVAL"
           /\ StatusSet(c, s).status # "PENDING_APPROVAL"
<1>1. Keep # "PENDING_APPROVAL"
  BY KeepAssumption DEF Status
<1> QED
  BY <1>1 DEF RowSet, StatusSet, Change

\* Requests on the case row, retries, callbacks and failed dispatches.
LEMMA RequestDecision ==
    ASSUME IndInv, DecisionInv, NEW p \in Proc, NEW c, NEW u,
           \/ Heartbeat(p, c, u) \/ Release(p, c, u) \/ Cancel(p, c, u)
           \/ SaveDraft(p, c, u) \/ ReclaimExpired(p, c) \/ Retry(p, c)
           \/ ResumeFailed(p)
           \/ \E to \in User : Transfer(p, c, u, to)
           \/ \E x \in ExecId, t \in EventType : ExecutionEvent(p, c, x, t)
           \/ \E x \in execution[c], ok \in BOOLEAN : CompleteExecution(p, c, u, x, ok)
    PROVE  DecisionInv'
<1>1. PICK unit : /\ Stage(p, unit) /\ unit.kind # "decision"
                  /\ unit.set.status # "PENDING_APPROVAL"
  <2>1. CASE \/ Heartbeat(p, c, u) \/ Release(p, c, u) \/ Cancel(p, c, u)
             \/ SaveDraft(p, c, u) \/ ReclaimExpired(p, c)
             \/ \E to \in User : Transfer(p, c, u, to)
    <3>1. PICK set : /\ Stage(p, [kind |-> "row", case |-> c, set |-> set])
                     /\ set.status # "PENDING_APPROVAL"
      BY <2>1, OtherStatus
         DEF Heartbeat, Release, Cancel, SaveDraft, ReclaimExpired, Transfer, Mutate
    <3> QED
      BY <3>1
  <2>2. CASE Retry(p, c)
    BY <2>2, OtherStatus DEF Retry
  <2>3. CASE ResumeFailed(p)
    <3> DEFINE d == delivery[p]
               x == outbox[d.case][d.ob]
               set == StatusSet(d.case, "APPLY_FAILED")
               v == [kind |-> "failure", case |-> d.case, set |-> set, ob |-> d.ob,
                     attempts |-> x.attempts + 1,
                     obSet |-> Change(x.status,
                                 IF Exhausted(x.attempts + 1) THEN "DEAD" ELSE "RETRY"),
                     cor |-> x.cor,
                     corSet |-> Change(correction[d.case][x.cor].status, "PENDING")]
    <3>1. Stage(p, v)
      BY <2>3 DEF ResumeFailed
    <3>2. set.status # "PENDING_APPROVAL"
      BY KeepAssumption DEF StatusSet, RowSet, Change, Status
    <3> HIDE DEF set
    <3>3. v.kind = "failure" /\ v.set = set
      OBVIOUS
    <3> HIDE DEF v
    <3> QED
      BY <3>1, <3>2, <3>3
  <2>4. CASE \/ \E x \in ExecId, t \in EventType : ExecutionEvent(p, c, x, t)
             \/ \E x \in execution[c], ok \in BOOLEAN : CompleteExecution(p, c, u, x, ok)
    <3>1. PICK x, t, src : StageEvent(p, c, x, t, src) /\ t \in EventType
      <4>1. {"VERIFICATION_SUCCEEDED", "RERUN_FAILED"} \subseteq EventType
        BY DEF EventType
      <4> QED
        BY <2>4, <4>1 DEF ExecutionEvent, CompleteExecution
    <3>2. StatusSet(c, Effect[t]).status # "PENDING_APPROVAL"
      <4>1. Effect[t] # "PENDING_APPROVAL"
        BY <3>1 DEF Effect, EventType
      <4> QED
        BY <4>1, OtherStatus
    <3> QED
      BY <3>1, <3>2 DEF StageEvent
  <2> QED
    BY <2>1, <2>2, <2>3, <2>4
<1> QED
  BY <1>1, StagesOther DEF IndInv

\* A submitted decision that needs approval is pending, another is approved.
LEMMA SubmitDecision ==
    ASSUME IndInv, DecisionInv, NEW p \in Api, NEW c \in Case, NEW u, NEW risky \in BOOLEAN,
           Submit(p, c, u, risky)
    PROVE  DecisionInv'
<1> DEFINE needs == RequiresApproval(c, risky)
<1>1. needs \in BOOLEAN /\ row[c].status \in EditableStatuses
  BY DEF RequiresApproval, Submit
<1>2. PICK unit :
        /\ Stage(p, unit)
        /\ unit.kind = "decision" /\ unit.at = 0 /\ unit.enqueue = ~needs
        /\ unit.set = StatusSet(c, IF needs THEN "PENDING_APPROVAL" ELSE "APPLYING")
        /\ unit.dec.status = IF needs THEN "PENDING_APPROVAL" ELSE "APPROVED"
  BY DEF Submit
<1>3. unit.set.status = IF needs THEN "PENDING_APPROVAL" ELSE "APPLYING"
  BY <1>1, <1>2 DEF StatusSet, RowSet, Change, EditableStatuses
<1>4. tx'[p] = unit => DecisionOK(p)'
  BY <1>1, <1>2, <1>3 DEF DecisionOK
<1> QED
  BY <1>2, <1>4, StagesDecision DEF IndInv, Proc

\* An approver decides on the newest decision: it is pending, so no pending
\* one is newer.
LEMMA ApproveDecision ==
    ASSUME IndInv, DecisionInv, NEW p \in Api, NEW c \in Case, NEW u, NEW ok \in BOOLEAN,
           Approve(p, c, u, ok)
    PROVE  DecisionInv'
<1>1. PICK i \in Pending(c) :
        /\ i = Newest(Pending(c))
        /\ Stage(p, [kind |-> "decision", case |-> c,
                     set |-> StatusSet(c, IF ok THEN "APPLYING" ELSE "REJECTED"),
                     at |-> i, enqueue |-> ok, dec |-> Decided(decision[c][i], u, ok)])
  BY DEF Approve
<1> DEFINE n == Len(decision[c])
           set == StatusSet(c, IF ok THEN "APPLYING" ELSE "REJECTED")
           unit == [kind |-> "decision", case |-> c, set |-> set,
                    at |-> i, enqueue |-> ok, dec |-> Decided(decision[c][i], u, ok)]
<1>2. /\ row[c].status = "PENDING_APPROVAL"
      /\ n > 0 /\ decision[c][n].status = "PENDING_APPROVAL"
  BY DEF Approve, DecisionInv, DecidedOK
<1>3. DOMAIN decision[c] = 1..n /\ n \in Nat
  BY LenProperties DEF IndInv, TypeOK
<1>4. i = n
  <2>1. n \in Pending(c) /\ \A j \in Pending(c) : j <= n
    BY <1>2, <1>3 DEF Pending
  <2>2. Newest(Pending(c)) \in Pending(c) /\ \A j \in Pending(c) : j <= Newest(Pending(c))
    BY <2>1 DEF Newest
  <2>3. n <= i /\ i <= n /\ i \in Nat
    BY <1>1, <1>3, <2>1, <2>2 DEF Pending
  <2> QED
    BY <2>3, <1>3
<1>5. set.status = IF ok THEN "APPLYING" ELSE "REJECTED"
  BY <1>2 DEF StatusSet, RowSet, Change
<1>6. ok => Decided(decision[c][i], u, ok).status = "APPROVED"
  <2>1. decision[c][i] \in DecisionType
    BY <1>1, LenProperties, ElementOfSeq DEF Pending, IndInv, TypeOK
  <2> QED
    BY <2>1 DEF Decided, DecisionType
<1>7. UNCHANGED decision
  BY <1>1 DEF Stage, tables
<1>8. tx'[p] = unit => DecisionOK(p)'
  <2>1. /\ unit.kind = "decision" /\ unit.case = c /\ unit.set = set /\ unit.at = i
        /\ unit.enqueue = ok /\ unit.dec = Decided(decision[c][i], u, ok)
    OBVIOUS
  <2> HIDE DEF unit, set
  <2> QED
    BY <2>1, <1>2, <1>4, <1>5, <1>6, <1>7 DEF DecisionOK
<1>9. Stage(p, unit)
  BY <1>1
<1> HIDE DEF unit
<1>10. PICK v : v = unit
  OBVIOUS
<1> QED
  BY <1>8, <1>9, <1>10, StagesDecision DEF IndInv, Proc

\* Ending a session leaves the others as they are.
LEMMA EndsDecision ==
    ASSUME TypeOK, NEW p \in Proc, Done(p)
    PROVE  \A q \in Proc : tx'[q] = tx[q] \/ (tx'[q] = NoTx /\ q = p)
  BY DEF Done, TypeOK

\* A session with nothing to commit carries nothing.
LEMMA NothingStaged == ASSUME NEW p, tx'[p] = NoTx PROVE DecisionOK(p)'
  BY DEF DecisionOK, NoTx

\* Another commit writes no decision.
LEMMA CommitOther ==
    ASSUME IndInv, DecisionInv, NEW p \in Proc,
           CommitRow(p) \/ CommitRetry(p) \/ CommitEvent(p) \/ CommitFailure(p)
    PROVE  DecisionInv'
<1>1. /\ tx[p].kind \notin {"none", "decision"}
      /\ WriteRow(tx[p]) /\ Done(p) /\ UNCHANGED decision
      /\ SetCorrection(tx[p]) \/ UNCHANGED correction
  BY DEF CommitRow, CommitRetry, CommitEvent, CommitFailure
<1>2. PICK unit \in UnitType : unit = tx[p]
  BY DEF IndInv, TypeOK
<1>3. unit.case \in Case /\ unit.set \in SetType
  BY <1>1, <1>2, UnitColumns
<1>4. unit.set.status # "PENDING_APPROVAL"
  BY <1>1, <1>2 DEF DecisionInv, DecisionOK
<1>5. \A c \in Case : row'[c].status = row[c].status \/ row'[c].status # "PENDING_APPROVAL"
  <2>1. row' = [row EXCEPT ![unit.case] = Flushed(@, unit.set)]
    BY <1>1, <1>2 DEF WriteRow
  <2> QED
    BY <2>1, <1>3, <1>4, FlushStep DEF IndInv
<1>6. SameOrigins
  <2>1. CASE UNCHANGED correction
    BY <2>1 DEF SameOrigins
  <2>2. CASE correction' # correction
    <3>1. correction' = [correction EXCEPT ![unit.case][unit.cor].status = Write(@, unit.corSet)]
      BY <1>1, <1>2, <2>2 DEF SetCorrection
    <3>2. /\ unit.corSet \in CorStatus \cup {Keep}
          /\ unit.cor \in DOMAIN correction[unit.case]
      <4>1. unit.kind \in {"retry", "failure"} \/ (unit.kind = "event" /\ unit.cor # 0)
        BY <1>1, <1>2, <2>2 DEF CommitRow, CommitRetry, CommitEvent, CommitFailure
      <4>2. unit.cor \in DOMAIN correction[unit.case]
        BY <1>2, <4>1 DEF IndInv, StagedOK
      <4>3. unit.corSet \in CorStatus \cup {Keep}
        BY <4>1, UnitShape DEF RetryUnit, FailureUnit, EventUnit
      <4> QED
        BY <4>2, <4>3
    <3>3. /\ \A b \in Case : b # unit.case => correction'[b] = correction[b]
          /\ SameCorrections(unit.case)
      BY <1>3, <3>1, <3>2, WriteCorrection DEF IndInv
    <3> QED
      BY <3>3 DEF SameOrigins, SameCorrections
  <2> QED
    BY <2>1, <2>2
<1>7. \A q \in Proc : tx'[q] = tx[q] \/ DecisionOK(q)'
  BY <1>1, EndsDecision, NothingStaged DEF IndInv
<1> QED
  BY <1>1, <1>5, <1>6, <1>7, NothingDecided

\* The one session with a decision commits it; an approved one brings the
\* correction, and no correction came from a pending one.
LEMMA CommitDecides ==
    ASSUME OneApi, IndInv, DecisionInv, NEW p \in Proc, CommitDecision(p)
    PROVE  DecisionInv'
<1>1. PICK unit \in DecisionUnit, c \in Case : unit = tx[p] /\ c = unit.case
  BY UnitShape DEF IndInv, TypeOK, CommitDecision, DecisionUnit
<1>2. PICK id : id = IF unit.at = 0 THEN Len(decision[c]) + 1 ELSE unit.at
  OBVIOUS
<1>3. /\ unit.kind = "decision" /\ unit.set \in SetType /\ unit.dec \in DecisionType
      /\ unit.at \in {0} \cup DOMAIN decision[c]
  BY <1>1 DEF DecisionUnit, IndInv, StagedOK
<1>4. /\ p \in Api
      /\ unit.enqueue => unit.dec.status = "APPROVED"
      /\ unit.set.status \in {"PENDING_APPROVAL", "APPLYING", "REJECTED"}
      /\ unit.set.status = "PENDING_APPROVAL" =>
            unit.at = 0 /\ unit.dec.status = "PENDING_APPROVAL"
      /\ unit.at # 0 => /\ unit.at = Len(decision[c])
                        /\ decision[c][unit.at].status = "PENDING_APPROVAL"
  BY <1>1, <1>3 DEF DecisionInv, DecisionOK
<1>5. /\ row'[c].status = unit.set.status
      /\ \A b \in Case : b # c => row'[b] = row[b]
  <2>1. row' = [row EXCEPT ![c] = Flushed(@, unit.set)]
    BY <1>1 DEF CommitDecision, WriteRow
  <2>2. unit.set.status # Keep
    BY <1>4, KeepAssumption DEF Status
  <2> QED
    BY <2>1, <2>2, <1>3, FlushStep DEF IndInv
<1>6. /\ \A b \in Case : b # c => decision'[b] = decision[b]
      /\ Len(decision'[c]) = id /\ decision'[c][id] = unit.dec /\ id > 0
      /\ \A i \in DOMAIN decision[c] : i # id => decision'[c][i] = decision[c][i]
      /\ unit.at = 0 => id \notin DOMAIN decision[c]
  <2>1. decision \in [Case -> Seq(DecisionType)]
    BY DEF IndInv, TypeOK
  <2>2. CASE unit.at = 0
    <3>1. decision' = [decision EXCEPT ![c] = Append(@, unit.dec)]
      BY <1>1, <2>2 DEF CommitDecision
    <3>2. /\ decision[c] \in Seq(DecisionType) /\ decision'[c] = Append(decision[c], unit.dec)
          /\ \A b \in Case : b # c => decision'[b] = decision[b]
      BY <3>1, <2>1
    <3>3. Appended(decision[c], decision'[c], unit.dec)
      BY <3>2, <1>3, AppendTo
    <3> QED
      BY <2>2, <3>2, <3>3, <1>2 DEF Appended
  <2>3. CASE unit.at # 0
    <3>1. decision' = [decision EXCEPT ![c] = [@ EXCEPT ![unit.at] = unit.dec]]
      BY <1>1, <2>3 DEF CommitDecision
    <3>2. /\ decision[c] \in Seq(DecisionType)
          /\ decision'[c] = [decision[c] EXCEPT ![unit.at] = unit.dec]
          /\ \A b \in Case : b # c => decision'[b] = decision[b]
      BY <3>1, <2>1
    <3>3. Replaced(decision[c], decision'[c], unit.at, unit.dec)
      BY <2>3, <3>2, <1>3, ReplaceAt
    <3> QED
      BY <2>3, <3>2, <3>3, <1>2, <1>3, <1>4 DEF Replaced
  <2> QED
    BY <2>2, <2>3
<1>7. /\ \A b \in Case : b # c => correction'[b] = correction[b]
      /\ \A k \in DOMAIN correction'[c] :
           \/ k \in DOMAIN correction[c] /\ correction'[c][k] = correction[c][k]
           \/ unit.enqueue /\ correction'[c][k].decision = id
  <2>1. CASE ~unit.enqueue
    BY <1>1, <2>1 DEF CommitDecision
  <2>2. CASE unit.enqueue
    <3> DEFINE new == [decision |-> id, status |-> "PENDING"]
    <3>1. correction' = [correction EXCEPT ![c] = Append(@, new)]
      BY <1>1, <1>2, <2>2 DEF CommitDecision, EnqueueCorrection
    <3>2. correction \in [Case -> Seq(CorrectionType)] /\ new \in CorrectionType
      <4>1. id \in Index
        BY <1>2, <1>3, LenProperties DEF Index, IndInv, TypeOK
      <4> QED
        BY <4>1 DEF IndInv, TypeOK, CorrectionType, CorStatus
    <3>3. new.decision = id
      OBVIOUS
    <3> HIDE DEF new
    <3>4. /\ correction'[c] = Append(correction[c], new)
          /\ \A b \in Case : b # c => correction'[b] = correction[b]
      BY <3>1, <3>2
    <3>5. Appended(correction[c], correction'[c], new)
      BY <3>2, <3>4, AppendTo
    <3> QED
      BY <2>2, <3>3, <3>4, <3>5 DEF Appended
  <2> QED
    BY <1>3, <2>1, <2>2
<1>8. DecidedOK(c)'
  <2>1. ASSUME NEW k \in DOMAIN correction'[c]
        PROVE  decision'[c][correction'[c][k].decision].status = "APPROVED"
    <3>1. CASE k \in DOMAIN correction[c] /\ correction'[c][k] = correction[c][k]
      <4> DEFINE i == correction[c][k].decision
      <4>1. i \in DOMAIN decision[c] /\ decision[c][i].status = "APPROVED"
        BY <3>1 DEF DecisionInv, DecidedOK, IndInv, TablesOK
      <4>2. i # id
        BY <4>1, <1>2, <1>4, <1>6
      <4> QED
        BY <3>1, <4>1, <4>2, <1>6
    <3>2. CASE unit.enqueue /\ correction'[c][k].decision = id
      BY <3>2, <1>4, <1>6
    <3> QED
      BY <3>1, <3>2, <1>7
  <2>2. row'[c].status = "PENDING_APPROVAL" =>
          Len(decision'[c]) > 0 /\ decision'[c][Len(decision'[c])].status = "PENDING_APPROVAL"
    BY <1>4, <1>5, <1>6
  <2> QED
    BY <2>1, <2>2 DEF DecidedOK
<1>9. \A b \in Case : b # c => DecidedOK(b)'
  BY <1>5, <1>6, <1>7 DEF DecisionInv, DecidedOK
<1>10. ASSUME NEW q \in Proc PROVE DecisionOK(q)'
  <2>1. tx'[q] = tx[q] \/ tx'[q] = NoTx
    BY EndsDecision DEF CommitDecision, IndInv
  <2>2. CASE tx'[q] = NoTx
    BY <2>2, NothingStaged
  <2>3. CASE tx'[q] = tx[q] /\ tx'[q] # NoTx
    <3>1. q # p
      BY <2>3 DEF CommitDecision, Done, IndInv, TypeOK
    <3>2. tx[q].kind # "decision"
      BY <3>1, <1>4 DEF OneApi, DecisionInv, DecisionOK
    <3> QED
      BY <2>3, <3>2 DEF DecisionInv, DecisionOK
  <2> QED
    BY <2>1, <2>2, <2>3
<1> QED
  BY <1>8, <1>9, <1>10 DEF DecisionInv

\* A report, a claim, an old heartbeat and an accepted resume ask for no
\* approval.
LEMMA RowDecision ==
    ASSUME IndInv, DecisionInv, NEW p, NEW c \in Case, NEW u,
           CreateReviewRequired(p, c) \/ ClaimCase(p, c, u) \/ HeartbeatExpires(c)
    PROVE  DecisionInv'
<1>1. UNCHANGED <<decision, correction, tx>>
  BY DEF CreateReviewRequired, ClaimCase, HeartbeatExpires
<1>2. \A b \in Case : row'[b].status = row[b].status \/ row'[b].status # "PENDING_APPROVAL"
  <2>1. row \in [Case -> RowType]
    BY DEF IndInv, TypeOK
  <2>2. CASE CreateReviewRequired(p, c)
    BY <2>1, <2>2 DEF CreateReviewRequired, RowType
  <2>3. CASE ClaimCase(p, c, u)
    BY <2>1, <2>3 DEF ClaimCase
  <2>4. CASE HeartbeatExpires(c)
    BY <2>1, <2>4 DEF HeartbeatExpires, RowType
  <2> QED
    BY <2>2, <2>3, <2>4
<1>3. SameOrigins
  BY <1>1 DEF SameOrigins
<1> QED
  BY <1>1, <1>2, <1>3, NothingDecided

\* An accepted resume writes a correction in place.
LEMMA AcceptedDecision ==
    ASSUME IndInv, DecisionInv, NEW w \in Worker, ResumeAccepted(w)
    PROVE  DecisionInv'
<1>1. PICK d \in SentPhase, c \in Case : d = delivery[w] /\ c = d.case
  BY DeliveryShape DEF IndInv, TypeOK, ResumeAccepted, SentPhase
<1> DEFINE set == [status |-> Change(d.saw.status, "RERUNNING"), assignee |-> Keep,
                   version |-> d.saw.version + 1, beat |-> Keep]
           k == outbox[c][d.ob].cor
           corSet == Change(d.saw.cor, "DISPATCHED")
<1>2. /\ row' = [row EXCEPT ![c] = Flushed(@, set)]
      /\ correction' = [correction EXCEPT ![c][k].status = Write(@, corSet)]
      /\ UNCHANGED <<decision, tx>>
  BY <1>1 DEF ResumeAccepted
<1>3. set.status \in {Keep, "RERUNNING"} /\ set \in SetType
  BY DEF Change, SentPhase, SawType, SetType, Status
<1>4. k \in DOMAIN correction[c] /\ corSet \in CorStatus \cup {Keep}
  BY <1>1 DEF ResumeAccepted, IndInv, HeldOK, TablesOK, Change, CorStatus
<1> HIDE DEF set, k, corSet
<1>5. \A b \in Case : row'[b].status = row[b].status \/ row'[b].status # "PENDING_APPROVAL"
  BY <1>2, <1>3, FlushStep, KeepAssumption DEF IndInv
<1>6. SameOrigins
  <2>1. /\ \A b \in Case : b # c => correction'[b] = correction[b]
        /\ SameCorrections(c)
    BY <1>2, <1>4, WriteCorrection DEF IndInv
  <2> QED
    BY <2>1 DEF SameOrigins, SameCorrections
<1> QED
  BY <1>2, <1>5, <1>6, NothingDecided

\* The worker's locks and messages, graph-build's runs, a rollback, a crash.
LEMMA QuietDecision ==
    ASSUME IndInv, DecisionInv, UNCHANGED <<row, decision, correction>>,
           tx' = tx \/ \E p \in Proc : Done(p)
    PROVE  DecisionInv'
<1>1. \A q \in Proc : tx'[q] = tx[q] \/ DecisionOK(q)'
  BY EndsDecision, NothingStaged DEF IndInv
<1>2. SameOrigins
  BY DEF SameOrigins
<1> QED
  BY <1>1, <1>2, NothingDecided

\* Initially nothing is decided.
LEMMA InitDecision == Init => DecisionInv
  BY DEF Init, DecisionInv, DecidedOK, DecisionOK, NoTx

\* Every step keeps the invariant, if there is one API process.
LEMMA NextDecision ==
    ASSUME OneApi, IndInv, DecisionInv, [Next]_vars
    PROVE  DecisionInv'
<1>1. CASE UNCHANGED vars
  BY <1>1, QuietDecision DEF vars, tables
<1>2. ASSUME NEW c \in Case,
             \/ HeartbeatExpires(c)
             \/ \E p \in Proc : ReclaimExpired(p, c)
             \/ \E o \in DOMAIN outbox[c] : ReleaseStaleLock(c, o)
             \/ \E x \in ExecId, s \in RunState : BuildSteps(c, x, s)
      PROVE  DecisionInv'
  <2>1. CASE HeartbeatExpires(c)
    BY <2>1, RowDecision
  <2>2. CASE \E p \in Proc : ReclaimExpired(p, c)
    BY <2>2, RequestDecision
  <2>3. CASE \E o \in DOMAIN outbox[c] : ReleaseStaleLock(c, o)
    BY <2>3, QuietDecision DEF ReleaseStaleLock
  <2>4. CASE \E x \in ExecId, s \in RunState : BuildSteps(c, x, s)
    BY <2>4, QuietDecision DEF BuildSteps, tables
  <2> QED
    BY <1>2, <2>1, <2>2, <2>3, <2>4
<1>3. ASSUME NEW p \in Api, NEW c \in Case,
             \/ CreateReviewRequired(p, c)
             \/ Retry(p, c)
             \/ \E x \in ExecId, t \in EventType : ExecutionEvent(p, c, x, t)
      PROVE  DecisionInv'
  <2>1. p \in Proc
    BY DEF Proc
  <2>2. CASE CreateReviewRequired(p, c)
    BY <2>2, RowDecision
  <2> QED
    BY <1>3, <2>1, <2>2, RequestDecision
<1>4. ASSUME NEW p \in Api, NEW c \in Case, NEW u \in User,
             \/ ClaimCase(p, c, u)
             \/ Heartbeat(p, c, u)
             \/ Release(p, c, u)
             \/ Cancel(p, c, u)
             \/ SaveDraft(p, c, u)
             \/ \E to \in User : Transfer(p, c, u, to)
             \/ \E risky \in BOOLEAN : Submit(p, c, u, risky)
             \/ \E ok \in BOOLEAN : Approve(p, c, u, ok)
             \/ \E x \in execution[c], ok \in BOOLEAN : CompleteExecution(p, c, u, x, ok)
      PROVE  DecisionInv'
  <2>1. p \in Proc
    BY DEF Proc
  <2>2. CASE ClaimCase(p, c, u)
    BY <2>2, RowDecision
  <2>3. CASE \/ \E risky \in BOOLEAN : Submit(p, c, u, risky)
             \/ \E ok \in BOOLEAN : Approve(p, c, u, ok)
    BY <2>3, SubmitDecision, ApproveDecision
  <2> QED
    BY <1>4, <2>1, <2>2, <2>3, RequestDecision
<1>5. ASSUME NEW p \in Proc,
             \/ CommitRow(p) \/ CommitDecision(p) \/ CommitRetry(p)
             \/ CommitEvent(p) \/ CommitFailure(p) \/ Rollback(p)
      PROVE  DecisionInv'
  <2>1. CASE Rollback(p)
    BY <2>1, QuietDecision DEF Rollback, tables
  <2> QED
    BY <1>5, <2>1, CommitDecides, CommitOther
<1>6. ASSUME NEW w \in Worker,
             \/ \E c \in Case : \E o \in DOMAIN outbox[c] : ClaimRow(w, c, o)
             \/ SendResume(w) \/ BuildAccepts(w)
             \/ ResumeAccepted(w) \/ ResumeFailed(w) \/ Crash(w)
      PROVE  DecisionInv'
  <2>1. CASE \E c \in Case : \E o \in DOMAIN outbox[c] : ClaimRow(w, c, o)
    BY <2>1, QuietDecision DEF ClaimRow
  <2>2. CASE SendResume(w) \/ BuildAccepts(w) \/ Crash(w)
    BY <2>2, QuietDecision DEF SendResume, BuildAccepts, Crash, tables
  <2>3. CASE ResumeFailed(w)
    BY <2>3, RequestDecision DEF Proc
  <2> QED
    BY <1>6, <2>1, <2>2, <2>3, AcceptedDecision
<1> QED
  BY <1>1, <1>2, <1>3, <1>4, <1>5, <1>6 DEF Next

-----------------------------------------------------------------------------
(* What one API process guarantees *)

\* Only the commit of a decision writes decisions.
LEMMA OnlyCommitsDecide ==
    ASSUME [Next]_vars
    PROVE  UNCHANGED decision \/ \E p \in Proc : CommitDecision(p)
<1>1. CASE UNCHANGED vars
  BY <1>1 DEF vars, tables
<1>2. ASSUME NEW c \in Case,
             \/ HeartbeatExpires(c)
             \/ \E p \in Proc : ReclaimExpired(p, c)
             \/ \E o \in DOMAIN outbox[c] : ReleaseStaleLock(c, o)
             \/ \E x \in ExecId, s \in RunState : BuildSteps(c, x, s)
      PROVE  UNCHANGED decision
  BY <1>2 DEF HeartbeatExpires, ReclaimExpired, Stage, ReleaseStaleLock, BuildSteps, tables
<1>3. ASSUME NEW p \in Api, NEW c \in Case,
             \/ CreateReviewRequired(p, c)
             \/ Retry(p, c)
             \/ \E x \in ExecId, t \in EventType : ExecutionEvent(p, c, x, t)
      PROVE  UNCHANGED decision
  BY <1>3 DEF CreateReviewRequired, Retry, ExecutionEvent, StageEvent, Stage, tables
<1>4. ASSUME NEW p \in Api, NEW c \in Case, NEW u \in User,
             \/ ClaimCase(p, c, u)
             \/ Heartbeat(p, c, u)
             \/ Release(p, c, u)
             \/ Cancel(p, c, u)
             \/ SaveDraft(p, c, u)
             \/ \E to \in User : Transfer(p, c, u, to)
             \/ \E risky \in BOOLEAN : Submit(p, c, u, risky)
             \/ \E ok \in BOOLEAN : Approve(p, c, u, ok)
             \/ \E x \in execution[c], ok \in BOOLEAN : CompleteExecution(p, c, u, x, ok)
      PROVE  UNCHANGED decision
  <2>1. CASE ClaimCase(p, c, u)
    BY <2>1 DEF ClaimCase
  <2>2. CASE \/ Heartbeat(p, c, u) \/ Release(p, c, u) \/ Cancel(p, c, u)
             \/ SaveDraft(p, c, u) \/ \E to \in User : Transfer(p, c, u, to)
    BY <2>2 DEF Heartbeat, Release, Cancel, SaveDraft, Transfer, Mutate, Stage, tables
  <2>3. CASE \/ \E risky \in BOOLEAN : Submit(p, c, u, risky)
             \/ \E ok \in BOOLEAN : Approve(p, c, u, ok)
    BY <2>3 DEF Submit, Approve, Stage, tables
  <2>4. CASE \E x \in execution[c], ok \in BOOLEAN : CompleteExecution(p, c, u, x, ok)
    BY <2>4 DEF CompleteExecution, StageEvent, Stage, tables
  <2> QED
    BY <1>4, <2>1, <2>2, <2>3, <2>4
<1>5. ASSUME NEW p \in Proc,
             \/ CommitRow(p) \/ CommitRetry(p)
             \/ CommitEvent(p) \/ CommitFailure(p) \/ Rollback(p)
      PROVE  UNCHANGED decision
  BY <1>5 DEF CommitRow, CommitRetry, CommitEvent, CommitFailure, Rollback, tables
<1>6. ASSUME NEW w \in Worker,
             \/ \E c \in Case : \E o \in DOMAIN outbox[c] : ClaimRow(w, c, o)
             \/ SendResume(w) \/ BuildAccepts(w)
             \/ ResumeAccepted(w) \/ ResumeFailed(w) \/ Crash(w)
      PROVE  UNCHANGED decision
  BY <1>6 DEF ClaimRow, SendResume, BuildAccepts, ResumeAccepted, ResumeFailed, Crash,
     Stage, tables
<1> QED
  BY <1>1, <1>2, <1>3, <1>4, <1>5, <1>6 DEF Next

\* A decision other than the newest one keeps its status.
LatestOnly ==
    \A c \in Case : \A i \in DOMAIN decision[c] :
      decision'[c][i].status # decision[c][i].status => i = Len(decision[c])

LEMMA DecidesLatest ==
    ASSUME IndInv, DecisionInv, [Next]_vars
    PROVE  LatestOnly
<1>1. CASE UNCHANGED decision
  BY <1>1 DEF LatestOnly
<1>2. ASSUME NEW p \in Proc, CommitDecision(p) PROVE LatestOnly
  <2>1. PICK unit \in DecisionUnit, c \in Case : unit = tx[p] /\ c = unit.case
    BY <1>2, UnitShape DEF IndInv, TypeOK, CommitDecision, DecisionUnit
  <2>2. unit.at # 0 => unit.at = Len(decision[c])
    BY <2>1 DEF DecisionInv, DecisionOK, DecisionUnit
  <2>3. decision' = [decision EXCEPT ![c] = IF unit.at = 0 THEN Append(@, unit.dec)
                                            ELSE [@ EXCEPT ![unit.at] = unit.dec]]
    BY <1>2, <2>1 DEF CommitDecision
  <2>4. decision \in [Case -> Seq(DecisionType)] /\ unit.dec \in DecisionType
    BY <2>1 DEF DecisionUnit, IndInv, TypeOK
  <2>5. \A b \in Case : b # c => decision'[b] = decision[b]
    BY <2>3, <2>4
  <2>6. \A i \in DOMAIN decision[c] : i # unit.at => decision'[c][i] = decision[c][i]
    <3>1. CASE unit.at = 0
      <4>1. decision'[c] = Append(decision[c], unit.dec)
        BY <2>3, <2>4, <3>1
      <4>2. Appended(decision[c], decision'[c], unit.dec)
        BY <2>4, <4>1, AppendTo
      <4> QED
        BY <4>2 DEF Appended
    <3>2. CASE unit.at # 0
      BY <2>3, <2>4, <3>2
    <3> QED
      BY <3>1, <3>2
  <2>7. 0 \notin DOMAIN decision[c]
    BY <2>4, LenProperties
  <2> QED
    BY <2>2, <2>5, <2>6, <2>7 DEF LatestOnly
<1> QED
  BY <1>1, <1>2, OnlyCommitsDecide

\* With one API process the invariant holds in every reachable state.
THEOREM DecisionInvariance ==
    ASSUME OneApi
    PROVE  Spec => []DecisionInv
<1>1. IndInv /\ DecisionInv /\ [Next]_vars => DecisionInv'
  BY NextDecision
<1> QED
  BY <1>1, InitDecision, Invariance, PTL DEF Spec

\* With one API process, graph-build runs nothing that was turned down, nor
\* anything still to be decided.
THEOREM OnlyApprovedRunsHolds ==
    ASSUME OneApi
    PROVE  Spec => []OnlyApprovedRuns
<1>1. IndInv /\ DecisionInv => OnlyApprovedRuns
  BY DEF IndInv, DecisionInv, TablesOK, DecidedOK, OnlyApprovedRuns
<1> QED
  BY <1>1, DecisionInvariance, Invariance, PTL

\* With one API process, an approver decides on what was submitted last.
THEOREM DecidesTheLatestHolds ==
    ASSUME OneApi
    PROVE  Spec => DecidesTheLatest
<1>1. IndInv /\ DecisionInv /\ [Next]_vars => [LatestOnly]_vars
  BY DecidesLatest
<1> QED
  BY <1>1, DecisionInvariance, Invariance, PTL DEF Spec, DecidesTheLatest, LatestOnly

=============================================================================
