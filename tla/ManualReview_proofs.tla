------------------------ MODULE ManualReview_proofs -------------------------
(***************************************************************************)
(* Proofs about ManualReview, for every number of cases, people, API       *)
(* processes and workers: typing, the four-eyes rule, and that no case is  *)
(* left APPLYING without an outbox row.  All three come from the inductive *)
(* invariant IndInv.                                                       *)
(***************************************************************************)
EXTENDS ManualReview, SequenceTheorems, TLAPS

-----------------------------------------------------------------------------
(***************************************************************************)
(* Why FourEyes and NoStrandedApply survive any overlap of sessions: an    *)
(* inductive invariant.  A commit that makes a case APPLYING also appends  *)
(* an outbox row, so the newest row is the one that counts: a session that *)
(* works on it read the case when it was already APPLYING, and therefore   *)
(* carries a status of its own.                                            *)
(***************************************************************************)

TablesOK(c) ==
    /\ \A i \in DOMAIN decision[c] : c \in P0 => decision[c][i].needs
    /\ \A k \in DOMAIN correction[c] :
          /\ correction[c][k].decision \in DOMAIN decision[c]
          /\ TwoPeople(c, decision[c][correction[c][k].decision])
    /\ \A o \in DOMAIN outbox[c] : outbox[c][o].cor \in DOMAIN correction[c]
    /\ \A x \in RunsOf(c) : x[1] \in DOMAIN correction[c]
    /\ row[c].status = "APPLYING" =>
          Len(outbox[c]) > 0 /\ Outstanding(c, Len(outbox[c]))

StagedOK(u) ==
    /\ u.kind = "decision" =>
          /\ u.at \in {0} \cup DOMAIN decision[u.case]
          /\ u.case \in P0 => u.dec.needs
          /\ u.at = 0 => (u.enqueue => ~u.dec.needs)
          /\ u.at # 0 => u.dec.approver \notin {NoUser, u.dec.by}
          /\ u.set.status = "APPLYING" => u.enqueue
    /\ u.kind \in {"retry", "failure"} => u.cor \in DOMAIN correction[u.case]
    /\ u.kind = "event" => u.cor \in {0} \cup DOMAIN correction[u.case]
    /\ u.kind = "failure" =>
          /\ u.ob \in DOMAIN outbox[u.case]
          /\ u.ob = Len(outbox[u.case]) /\ row[u.case].status = "APPLYING"
                => u.set.status = "APPLY_FAILED"
    /\ u.kind \in {"row", "event", "failure"} => u.set.status # "APPLYING"

HeldOK(d) ==
    /\ d.phase # "idle" => d.ob \in DOMAIN outbox[d.case]
    /\ d.phase = "sent" /\ d.ob = Len(outbox[d.case]) /\ row[d.case].status = "APPLYING"
          => d.saw.status = "APPLYING"

IndInv ==
    /\ TypeOK
    /\ \A c \in Case : TablesOK(c)
    /\ \A p \in Proc : StagedOK(tx[p])
    /\ \A w \in Worker : HeldOK(delivery[w])

-----------------------------------------------------------------------------
(* Shapes *)

\* The kind of a staged unit tells its shape.
LEMMA UnitShape ==
    ASSUME NEW u \in UnitType
    PROVE  /\ u.kind = "row" => u \in RowUnit
           /\ u.kind = "decision" => u \in DecisionUnit
           /\ u.kind = "retry" => u \in RetryUnit
           /\ u.kind = "event" => u \in EventUnit
           /\ u.kind = "failure" => u \in FailureUnit
  BY DEF UnitType, NoTx, RowUnit, DecisionUnit, RetryUnit, EventUnit, FailureUnit

\* The phase of a delivery tells its shape.
LEMMA DeliveryShape ==
    ASSUME NEW d \in DeliveryType
    PROVE  /\ d.phase = "claimed" => d \in ClaimedPhase
           /\ d.phase = "sent" => d \in SentPhase
           /\ d.phase \notin {"claimed", "sent"} => d = Idle
           /\ d.phase # "idle" => d.case \in Case /\ d.ob \in Index
  BY DEF DeliveryType, Idle, ClaimedPhase, SentPhase

\* What a handler stages for the case row is well typed, and it carries the
\* status asked for unless the case had it already.
LEMMA SetTyped ==
    ASSUME TypeOK, NEW c \in Case, NEW s \in Status,
           NEW a \in User \cup {NoUser}, NEW b \in Beat \cup {Keep}
    PROVE  /\ RowSet(c, s, a, b) \in SetType
           /\ RowSet(c, s, a, b).status = IF s = row[c].status THEN Keep ELSE s
           /\ StatusSet(c, s) \in SetType
           /\ StatusSet(c, s).status = IF s = row[c].status THEN Keep ELSE s
  BY DEF TypeOK, RowType, RowSet, StatusSet, SetType, Change, Beat

\* A flushed row is well typed; its status is the staged one, if there is one.
LEMMA FlushTyped ==
    ASSUME NEW r \in RowType, NEW set \in SetType
    PROVE  /\ Flushed(r, set) \in RowType
           /\ Flushed(r, set).status = IF set.status = Keep THEN r.status ELSE set.status
  BY DEF RowType, SetType, Flushed, Write

\* Initially nothing is reported, staged, or claimed.
LEMMA InitInv == Init => IndInv
<1> SUFFICES ASSUME Init PROVE IndInv
  OBVIOUS
<1>1. TypeOK
  BY DEF Init, TypeOK, RowType, Status, Beat, UnitType, DeliveryType, RunState
<1>2. \A c \in Case : TablesOK(c)
  BY DEF Init, TablesOK, RunsOf, ExecId
<1>3. \A p \in Proc : StagedOK(tx[p])
  BY DEF Init, StagedOK, NoTx
<1>4. \A w \in Worker : HeldOK(delivery[w])
  BY DEF Init, HeldOK, Idle
<1> QED
  BY <1>1, <1>2, <1>3, <1>4 DEF IndInv

\* Staging a sound unit of work keeps the invariant.
LEMMA Stages ==
    ASSUME IndInv, NEW p \in Proc, NEW unit \in UnitType,
           StagedOK(unit), Stage(p, unit),
           \/ delivery' = delivery
           \/ p \in Worker /\ delivery' = [delivery EXCEPT ![p] = Idle]
    PROVE  IndInv'
<1> USE DEF Stage, tables
<1>1. TypeOK'
  BY DEF IndInv, TypeOK, DeliveryType
<1>2. \A c \in Case : TablesOK(c)'
  BY DEF IndInv, TablesOK, RunsOf, Outstanding
<1>3. \A q \in Proc : StagedOK(tx[q])'
  <2> TAKE q \in Proc
  <2>1. tx'[q] = tx[q] \/ tx'[q] = unit
    BY DEF IndInv, TypeOK
  <2>2. CASE tx'[q] = tx[q]
    BY <2>2 DEF IndInv, StagedOK
  <2>3. CASE tx'[q] = unit
    BY <2>3 DEF StagedOK
  <2> QED
    BY <2>1, <2>2, <2>3
<1>4. \A w \in Worker : HeldOK(delivery[w])'
  <2> TAKE w \in Worker
  <2>1. delivery'[w] = delivery[w] \/ delivery'[w] = Idle
    BY DEF IndInv, TypeOK
  <2> QED
    BY <2>1 DEF IndInv, HeldOK, Idle
<1> QED
  BY <1>1, <1>2, <1>3, <1>4 DEF IndInv

-----------------------------------------------------------------------------
(* Requests and other steps that only stage a unit of work *)

\* Staging a change of the case row alone.
LEMMA StagesRow ==
    ASSUME IndInv, NEW p \in Proc, NEW c \in Case, NEW set \in SetType,
           set.status # "APPLYING",
           Stage(p, [kind |-> "row", case |-> c, set |-> set]),
           UNCHANGED delivery
    PROVE  IndInv'
<1> DEFINE unit == [kind |-> "row", case |-> c, set |-> set]
<1>1. unit \in UnitType
  BY DEF UnitType, RowUnit
<1>2. StagedOK(unit)
  BY DEF StagedOK
<1> QED
  BY <1>1, <1>2, Stages

\* A heartbeat keeps the status of the case.
LEMMA HeartbeatStep ==
    ASSUME IndInv, NEW p \in Api, NEW c \in Case, NEW u \in User, Heartbeat(p, c, u)
    PROVE  IndInv'
<1> DEFINE set == RowSet(c, row[c].status, row[c].assignee, "fresh")
<1>1. row[c].status \in Status /\ row[c].assignee \in User \cup {NoUser}
  BY DEF IndInv, TypeOK, RowType
<1>2. set \in SetType /\ set.status # "APPLYING"
  BY <1>1, SetTyped, KeepAssumption DEF IndInv, Beat, Status
<1> QED
  BY <1>2, StagesRow DEF Heartbeat, Mutate, Request, Proc

\* A release gives the case back as OPEN.
LEMMA ReleaseStep ==
    ASSUME IndInv, NEW p \in Api, NEW c \in Case, NEW u \in User, Release(p, c, u)
    PROVE  IndInv'
<1> DEFINE set == RowSet(c, "OPEN", NoUser, "none")
<1>1. set \in SetType /\ set.status # "APPLYING"
  BY SetTyped, KeepAssumption DEF IndInv, Beat, Status
<1> QED
  BY <1>1, StagesRow DEF Release, Mutate, Request, Proc

\* A transfer keeps the status of the case: an APPLYING one stays as it was read.
LEMMA TransferStep ==
    ASSUME IndInv, NEW p \in Api, NEW c \in Case, NEW u \in User, NEW to \in User,
           Transfer(p, c, u, to)
    PROVE  IndInv'
<1> DEFINE set == RowSet(c, row[c].status, to, "fresh")
<1>1. row[c].status \in Status
  BY DEF IndInv, TypeOK, RowType
<1>2. set \in SetType /\ set.status # "APPLYING"
  BY <1>1, SetTyped, KeepAssumption DEF IndInv, Beat, Status
<1> QED
  BY <1>2, StagesRow DEF Transfer, Mutate, Request, Proc

\* A cancellation makes the case CANCELLED, whatever it was.
LEMMA CancelStep ==
    ASSUME IndInv, NEW p \in Api, NEW c \in Case, NEW u \in User, Cancel(p, c, u)
    PROVE  IndInv'
<1> DEFINE set == StatusSet(c, "CANCELLED")
<1>1. set \in SetType /\ set.status # "APPLYING"
  BY SetTyped, KeepAssumption DEF IndInv, Beat, Status
<1> QED
  BY <1>1, StagesRow DEF Cancel, Mutate, Request, Proc

\* A draft makes the case IN_REVIEW.
LEMMA SaveDraftStep ==
    ASSUME IndInv, NEW p \in Api, NEW c \in Case, NEW u \in User, SaveDraft(p, c, u)
    PROVE  IndInv'
<1> DEFINE set == StatusSet(c, "IN_REVIEW")
<1>1. set \in SetType /\ set.status # "APPLYING"
  BY SetTyped, KeepAssumption DEF IndInv, Beat, Status
<1> QED
  BY <1>1, StagesRow DEF SaveDraft, Mutate, Request, Proc

\* An expired claim gives the case back as OPEN.
LEMMA ReclaimStep ==
    ASSUME IndInv, NEW p \in Proc, NEW c \in Case, ReclaimExpired(p, c)
    PROVE  IndInv'
<1> DEFINE set == RowSet(c, "OPEN", NoUser, "none")
<1>1. set \in SetType /\ set.status # "APPLYING"
  BY SetTyped, KeepAssumption DEF IndInv, Beat, Status
<1> QED
  BY <1>1, StagesRow DEF ReclaimExpired

\* A new decision enqueues a correction only when it needs no approval.
LEMMA SubmitStep ==
    ASSUME IndInv, NEW p \in Api, NEW c \in Case, NEW u \in User, NEW risky \in BOOLEAN,
           Submit(p, c, u, risky)
    PROVE  IndInv'
<1> DEFINE needs == RequiresApproval(c, risky)
           dec == [by |-> u, needs |-> needs, approver |-> NoUser,
                   status |-> IF needs THEN "PENDING_APPROVAL" ELSE "APPROVED"]
           set == StatusSet(c, IF needs THEN "PENDING_APPROVAL" ELSE "APPLYING")
           unit == [kind |-> "decision", case |-> c, set |-> set,
                    at |-> 0, enqueue |-> ~needs, dec |-> dec]
<1>1. needs \in BOOLEAN /\ (c \in P0 => needs)
  BY DEF RequiresApproval
<1>2. dec \in DecisionType
  BY <1>1 DEF DecisionType
<1>3. set \in SetType /\ (set.status = "APPLYING" => ~needs)
  BY <1>1, SetTyped, KeepAssumption DEF IndInv, Beat, Status
<1>4. unit \in UnitType
  BY <1>1, <1>2, <1>3 DEF UnitType, DecisionUnit
<1>5. StagedOK(unit)
  BY <1>1, <1>3 DEF StagedOK
<1>6. Stage(p, unit) /\ UNCHANGED delivery
  BY DEF Submit, Request
<1> QED
  BY <1>4, <1>5, <1>6, Stages DEF Proc

\* The approver of a decision is a user other than its author.
LEMMA ApproveStep ==
    ASSUME IndInv, NEW p \in Api, NEW c \in Case, NEW u \in User, NEW ok \in BOOLEAN,
           Approve(p, c, u, ok)
    PROVE  IndInv'
<1>1. PICK i \in Pending(c) :
        /\ MayDecide(u, decision[c][i])
        /\ Stage(p, [kind |-> "decision", case |-> c,
                     set |-> StatusSet(c, IF ok THEN "APPLYING" ELSE "REJECTED"),
                     at |-> i, enqueue |-> ok, dec |-> Decided(decision[c][i], u, ok)])
        /\ UNCHANGED delivery
  BY DEF Approve, Request
<1> DEFINE d == decision[c][i]
           dec == Decided(d, u, ok)
           set == StatusSet(c, IF ok THEN "APPLYING" ELSE "REJECTED")
           unit == [kind |-> "decision", case |-> c, set |-> set,
                    at |-> i, enqueue |-> ok, dec |-> dec]
<1>2. i \in DOMAIN decision[c] /\ i \in Nat \ {0} /\ d \in DecisionType
  BY LenProperties, ElementOfSeq DEF IndInv, TypeOK, Pending
<1>3. /\ dec \in DecisionType
      /\ dec.needs = d.needs /\ dec.by = d.by /\ dec.approver = u
  BY <1>2 DEF Decided, DecisionType
<1>4. u # NoUser /\ u # d.by
  BY <1>1, RolesAssumption DEF MayDecide
<1>5. set \in SetType /\ (set.status = "APPLYING" => ok)
  BY SetTyped, KeepAssumption DEF IndInv, Beat, Status
<1>6. unit \in UnitType
  BY <1>2, <1>3, <1>5 DEF UnitType, DecisionUnit
<1>7. c \in P0 => d.needs
  BY <1>2 DEF IndInv, TablesOK
<1>8. StagedOK(unit)
  BY <1>2, <1>3, <1>4, <1>5, <1>7 DEF StagedOK
<1> QED
  BY <1>1, <1>6, <1>8, Stages DEF Proc

\* A retry asks for a correction that is there.
LEMMA RetryStep ==
    ASSUME IndInv, NEW p \in Api, NEW c \in Case, Retry(p, c)
    PROVE  IndInv'
<1> DEFINE k == Len(correction[c])
           set == StatusSet(c, "APPLYING")
           corSet == Change(correction[c][k].status, "PENDING")
           unit == [kind |-> "retry", case |-> c, set |-> set, cor |-> k, corSet |-> corSet]
<1>1. k \in DOMAIN correction[c] /\ k \in Index
  BY LenProperties DEF Retry, IndInv, TypeOK, Index
<1>2. set \in SetType
  BY SetTyped DEF IndInv, Beat, Status
<1>3. corSet \in CorStatus \cup {Keep}
  BY DEF Change, CorStatus
<1>4. unit \in UnitType
  BY <1>1, <1>2, <1>3 DEF UnitType, RetryUnit
<1>5. StagedOK(unit)
  BY <1>1 DEF StagedOK
<1>6. Stage(p, unit) /\ UNCHANGED delivery
  BY DEF Retry, Request
<1> QED
  BY <1>4, <1>5, <1>6, Stages DEF Proc

\* No event makes a case APPLYING.
LEMMA StageEventStep ==
    ASSUME IndInv, NEW p \in Api, NEW c \in Case, NEW x \in ExecId, NEW t \in EventType,
           NEW src \in Sender, StageEvent(p, c, x, t, src), UNCHANGED delivery
    PROVE  IndInv'
<1> DEFINE k == IF t = "VERIFICATION_SUCCEEDED" THEN Len(correction[c]) ELSE 0
           set == StatusSet(c, Effect[t])
           corSet == IF k = 0 THEN Keep ELSE Change(correction[c][k].status, "APPLIED")
           unit == [kind |-> "event", case |-> c, set |-> set,
                    exe |-> x, insert |-> x \notin execution[c], type |-> t, src |-> src,
                    cor |-> k, corSet |-> corSet]
<1>1. Effect[t] \in Status /\ Effect[t] # "APPLYING"
  BY DEF Effect, EventType, Status
<1>2. set \in SetType /\ set.status # "APPLYING"
  BY <1>1, SetTyped, KeepAssumption DEF IndInv, Beat, Status
<1>3. k \in Nat /\ k \in {0} \cup DOMAIN correction[c]
  BY LenProperties DEF StageEvent, IndInv, TypeOK
<1>4. corSet \in CorStatus \cup {Keep}
  BY DEF Change, CorStatus
<1>5. unit \in UnitType
  BY <1>2, <1>3, <1>4 DEF UnitType, EventUnit
<1>6. StagedOK(unit)
  BY <1>2, <1>3 DEF StagedOK
<1>7. Stage(p, unit)
  BY DEF StageEvent
<1> QED
  BY <1>5, <1>6, <1>7, Stages DEF Proc

\* An event of graph-build is staged like any other.
LEMMA ExecutionEventStep ==
    ASSUME IndInv, NEW p \in Api, NEW c \in Case, NEW x \in ExecId, NEW t \in EventType,
           ExecutionEvent(p, c, x, t)
    PROVE  IndInv'
<1>1. StageEvent(p, c, x, t, "graph") /\ UNCHANGED delivery
  BY DEF ExecutionEvent
<1> QED
  BY <1>1, StageEventStep DEF Sender

\* So is the event an administrator makes up.
LEMMA CompleteExecutionStep ==
    ASSUME IndInv, NEW p \in Api, NEW c \in Case, NEW u \in User, NEW x \in execution[c],
           NEW success \in BOOLEAN, CompleteExecution(p, c, u, x, success)
    PROVE  IndInv'
<1> DEFINE t == IF success THEN "VERIFICATION_SUCCEEDED" ELSE "RERUN_FAILED"
<1>1. StageEvent(p, c, x, t, "admin") /\ UNCHANGED delivery
  BY DEF CompleteExecution, Request
<1>2. x \in ExecId
  BY DEF IndInv, TypeOK
<1>3. t \in EventType
  BY DEF EventType
<1> QED
  BY <1>1, <1>2, <1>3, StageEventStep DEF Sender

\* A failed dispatch reads the case again, so it carries APPLY_FAILED whenever
\* the case is APPLYING.
LEMMA ResumeFailedStep ==
    ASSUME IndInv, NEW w \in Worker, ResumeFailed(w)
    PROVE  IndInv'
<1> DEFINE d == delivery[w]
           c == d.case
           x == outbox[c][d.ob]
           set == StatusSet(c, "APPLY_FAILED")
           obSet == Change(x.status, IF Exhausted(x.attempts + 1) THEN "DEAD" ELSE "RETRY")
           corSet == Change(correction[c][x.cor].status, "PENDING")
           unit == [kind |-> "failure", case |-> c, set |-> set, ob |-> d.ob,
                    attempts |-> x.attempts + 1, obSet |-> obSet,
                    cor |-> x.cor, corSet |-> corSet]
<1>1. d \in DeliveryType /\ d.phase = "sent"
  BY DEF IndInv, TypeOK, ResumeFailed
<1>2. c \in Case /\ d.ob \in Index
  BY <1>1, DeliveryShape
<1>3. d.ob \in DOMAIN outbox[c]
  BY <1>1 DEF IndInv, HeldOK
<1>4. x \in OutType /\ x.cor \in DOMAIN correction[c]
  BY <1>2, <1>3, LenProperties, ElementOfSeq DEF IndInv, TypeOK, TablesOK
<1>5. set \in SetType /\ (row[c].status = "APPLYING" => set.status = "APPLY_FAILED")
                      /\ set.status # "APPLYING"
  BY <1>2, SetTyped, KeepAssumption DEF IndInv, Beat, Status
<1>6. obSet \in OutStatus \cup {Keep} /\ corSet \in CorStatus \cup {Keep}
  BY DEF Change, OutStatus, CorStatus
<1>7. x.cor \in Index /\ x.attempts + 1 \in Nat
  BY <1>4 DEF OutType
<1>8. unit \in UnitType
  BY <1>2, <1>5, <1>6, <1>7 DEF UnitType, FailureUnit
<1>9. StagedOK(unit)
  BY <1>3, <1>4, <1>5 DEF StagedOK
<1>10. Stage(w, unit) /\ delivery' = [delivery EXCEPT ![w] = Idle]
  BY DEF ResumeFailed
<1> QED
  BY <1>8, <1>9, <1>10, Stages DEF Proc

-----------------------------------------------------------------------------
(* Steps that write the tables *)

\* Tables only grow, and a case becomes APPLYING only along with a new row.
GrowsFor(c) ==
    /\ Len(decision[c]) <= Len(decision'[c])
    /\ Len(correction[c]) <= Len(correction'[c])
    /\ Len(outbox[c]) <= Len(outbox'[c])
    /\ row'[c].status = "APPLYING" =>
          row[c].status = "APPLYING" \/ Len(outbox[c]) < Len(outbox'[c])
Grows == \A c \in Case : GrowsFor(c)

\* What the other sessions staged or read before stays sound.
LEMMA Writes ==
    ASSUME IndInv, TypeOK', Grows,
           \A c \in Case : TablesOK(c)',
           \A q \in Proc : tx'[q] = tx[q] \/ tx'[q] = NoTx,
           \A w \in Worker : delivery'[w] = delivery[w] \/ HeldOK(delivery[w])'
    PROVE  IndInv'
<1>1. \A c \in Case : /\ DOMAIN decision[c] = 1..Len(decision[c])
                      /\ DOMAIN correction[c] = 1..Len(correction[c])
                      /\ DOMAIN outbox[c] = 1..Len(outbox[c])
                      /\ Len(decision[c]) \in Nat /\ Len(correction[c]) \in Nat
                      /\ Len(outbox[c]) \in Nat
  BY LenProperties DEF IndInv, TypeOK
<1>2. \A c \in Case : /\ DOMAIN decision'[c] = 1..Len(decision'[c])
                      /\ DOMAIN correction'[c] = 1..Len(correction'[c])
                      /\ DOMAIN outbox'[c] = 1..Len(outbox'[c])
                      /\ Len(decision'[c]) \in Nat /\ Len(correction'[c]) \in Nat
                      /\ Len(outbox'[c]) \in Nat
  BY LenProperties DEF TypeOK
<1>3. \A q \in Proc : StagedOK(tx[q])'
  <2> SUFFICES ASSUME NEW q \in Proc PROVE StagedOK(tx[q])'
    OBVIOUS
  <2>1. CASE tx'[q] = NoTx
    BY <2>1 DEF StagedOK, NoTx
  <2>2. CASE tx'[q] = tx[q] /\ tx[q].kind \in {"decision", "retry", "event", "failure"}
    <3>1. tx[q] \in UnitType
      BY DEF IndInv, TypeOK
    <3>2. tx[q].case \in Case
      BY <2>2, <3>1, UnitShape DEF DecisionUnit, RetryUnit, EventUnit, FailureUnit
    <3>3. /\ DOMAIN decision[tx[q].case] \subseteq DOMAIN decision'[tx[q].case]
          /\ DOMAIN correction[tx[q].case] \subseteq DOMAIN correction'[tx[q].case]
          /\ DOMAIN outbox[tx[q].case] \subseteq DOMAIN outbox'[tx[q].case]
      BY <3>2, <1>1, <1>2 DEF Grows, GrowsFor
    <3>4. StagedOK(tx[q])
      BY DEF IndInv
    <3>5. CASE tx[q].kind # "failure"
      BY <2>2, <3>3, <3>4, <3>5 DEF StagedOK
    <3>6. CASE tx[q].kind = "failure"
      <4>1. /\ tx[q].ob = Len(outbox'[tx[q].case]) /\ row'[tx[q].case].status = "APPLYING"
                => tx[q].ob = Len(outbox[tx[q].case]) /\ row[tx[q].case].status = "APPLYING"
        BY <3>2, <3>4, <3>6, <1>1, <1>2 DEF StagedOK, Grows, GrowsFor
      <4> QED
        BY <2>2, <3>3, <3>4, <3>6, <4>1 DEF StagedOK
    <3> QED
      BY <3>5, <3>6
  <2>3. CASE tx'[q] = tx[q] /\ tx[q].kind \notin {"decision", "retry", "event", "failure"}
    BY <2>3 DEF IndInv, StagedOK
  <2> QED
    BY <2>1, <2>2, <2>3
<1>4. \A w \in Worker : HeldOK(delivery[w])'
  <2> SUFFICES ASSUME NEW w \in Worker PROVE HeldOK(delivery[w])'
    OBVIOUS
  <2>1. CASE HeldOK(delivery[w])'
    BY <2>1
  <2>2. CASE delivery'[w] = delivery[w] /\ delivery[w].phase # "idle"
    <3>1. delivery[w].case \in Case
      BY <2>2, DeliveryShape DEF IndInv, TypeOK
    <3> QED
      BY <2>2, <3>1, <1>1, <1>2 DEF IndInv, HeldOK, Grows, GrowsFor
  <2>3. CASE delivery'[w] = delivery[w] /\ delivery[w].phase = "idle"
    BY <2>3 DEF HeldOK
  <2> QED
    BY <2>1, <2>2, <2>3
<1> QED
  BY <1>3, <1>4 DEF IndInv

\* An idle worker holds no row.
LEMMA IdleHolds == ASSUME NEW d, d = Idle PROVE HeldOK(d)
  BY DEF HeldOK, Idle

\* A step that changes only the case row, and does not make it APPLYING.
LEMMA RowStep ==
    ASSUME IndInv, NEW c \in Case, NEW r \in RowType,
           row' = [row EXCEPT ![c] = r],
           r.status = "APPLYING" => row[c].status = "APPLYING",
           tx' \in [Proc -> UnitType],
           \A q \in Proc : tx'[q] = tx[q] \/ tx'[q] = NoTx,
           UNCHANGED <<decision, correction, outbox, build, delivery>>,
           execution' \in [Case -> SUBSET ExecId], event' \in [Case -> SUBSET EventRow]
    PROVE  IndInv'
<1>1. TypeOK'
  BY DEF IndInv, TypeOK
<1>2. Grows
  BY LenProperties DEF IndInv, TypeOK, Grows, GrowsFor
<1>3. \A e \in Case : TablesOK(e)'
  <2> SUFFICES ASSUME NEW e \in Case PROVE TablesOK(e)'
    OBVIOUS
  <2>1. row'[e].status = "APPLYING" => row[e].status = "APPLYING"
    BY DEF IndInv, TypeOK
  <2> QED
    BY <2>1 DEF IndInv, TablesOK, RunsOf, Outstanding
<1> QED
  BY <1>1, <1>2, <1>3, Writes

\* A case is reported as OPEN, with no decision yet.
LEMMA CreateReviewRequiredStep ==
    ASSUME IndInv, NEW p \in Api, NEW c \in Case, CreateReviewRequired(p, c)
    PROVE  IndInv'
<1> DEFINE r == [row[c] EXCEPT !.status = "OPEN", !.version = 1]
<1>1. r \in RowType /\ r.status = "OPEN"
  BY DEF IndInv, TypeOK, RowType, Status
<1>2. row' = [row EXCEPT ![c] = r]
  BY DEF CreateReviewRequired
<1> QED
  BY <1>1, <1>2, RowStep DEF CreateReviewRequired, IndInv, TypeOK, Proc

\* A claimed case is CLAIMED.
LEMMA ClaimCaseStep ==
    ASSUME IndInv, NEW p \in Api, NEW c \in Case, NEW u \in User, ClaimCase(p, c, u)
    PROVE  IndInv'
<1> DEFINE r == [status |-> "CLAIMED", assignee |-> u,
                 version |-> row[c].version + 1, beat |-> "fresh"]
<1>1. r \in RowType
  BY DEF IndInv, TypeOK, RowType, Status, Beat
<1>2. row' = [row EXCEPT ![c] = r]
  BY DEF ClaimCase
<1> QED
  BY <1>1, <1>2, RowStep DEF ClaimCase, IndInv, TypeOK, Proc

\* A heartbeat that grows old changes no status.
LEMMA HeartbeatExpiresStep ==
    ASSUME IndInv, NEW c \in Case, HeartbeatExpires(c)
    PROVE  IndInv'
<1> DEFINE r == [row[c] EXCEPT !.beat = "stale"]
<1>1. r \in RowType /\ r.status = row[c].status
  BY DEF IndInv, TypeOK, RowType, Beat
<1>2. row' = [row EXCEPT ![c] = r]
  BY DEF HeartbeatExpires
<1> QED
  BY <1>1, <1>2, RowStep DEF HeartbeatExpires, IndInv, TypeOK

\* A unit of work on the case row alone never carries APPLYING.
LEMMA CommitRowStep ==
    ASSUME IndInv, NEW p \in Proc, CommitRow(p)
    PROVE  IndInv'
<1> DEFINE unit == tx[p]
           c == unit.case
           r == Flushed(row[c], unit.set)
<1>1. unit \in RowUnit
  BY UnitShape DEF IndInv, TypeOK, CommitRow
<1>2. c \in Case /\ unit.set \in SetType
  BY <1>1 DEF RowUnit
<1>3. unit.set.status # "APPLYING"
  BY <1>1 DEF IndInv, StagedOK, RowUnit
<1>4. row[c] \in RowType
  BY <1>2 DEF IndInv, TypeOK
<1>5. r \in RowType /\ (r.status = "APPLYING" => row[c].status = "APPLYING")
  BY <1>2, <1>3, <1>4, FlushTyped
<1>6. row' = [row EXCEPT ![c] = r]
  BY DEF CommitRow, WriteRow
<1>7. tx' \in [Proc -> UnitType] /\ \A q \in Proc : tx'[q] = tx[q] \/ tx'[q] = NoTx
  BY DEF CommitRow, Done, UnitType, IndInv, TypeOK
<1> QED
  BY <1>2, <1>5, <1>6, <1>7, RowStep DEF CommitRow, IndInv, TypeOK

-----------------------------------------------------------------------------
(* Tables that hold a sequence for each case *)

\* u is the sequence t with e appended.
Appended(t, u, e) ==
    /\ Len(t) \in Nat /\ Len(u) = Len(t) + 1
    /\ DOMAIN t = 1..Len(t)
    /\ DOMAIN u = DOMAIN t \cup {Len(t) + 1}
    /\ \A i \in DOMAIN t : u[i] = t[i]
    /\ u[Len(t) + 1] = e

\* What Append returns.
LEMMA AppendTo ==
    ASSUME NEW S, NEW t \in Seq(S), NEW e \in S
    PROVE  Append(t, e) \in Seq(S) /\ Appended(t, Append(t, e), e)
<1> DEFINE u == Append(t, e)
<1>1. /\ u \in Seq(S) /\ Len(u) = Len(t) + 1
      /\ \A i \in 1..Len(t) : u[i] = t[i]
      /\ u[Len(t) + 1] = e
  BY AppendProperties
<1>2. /\ Len(t) \in Nat /\ DOMAIN t = 1..Len(t)
      /\ DOMAIN u = 1..Len(u)
  BY <1>1, LenProperties
<1> QED
  BY <1>1, <1>2 DEF Appended

\* u is the sequence t with element i replaced by e.
Replaced(t, u, i, e) ==
    /\ Len(t) \in Nat /\ Len(u) = Len(t)
    /\ DOMAIN t = 1..Len(t)
    /\ DOMAIN u = DOMAIN t
    /\ \A j \in DOMAIN t : u[j] = IF j = i THEN e ELSE t[j]

\* What replacing an element returns.
LEMMA ReplaceAt ==
    ASSUME NEW S, NEW t \in Seq(S), NEW i \in DOMAIN t, NEW e \in S
    PROVE  [t EXCEPT ![i] = e] \in Seq(S) /\ Replaced(t, [t EXCEPT ![i] = e], i, e)
<1> DEFINE u == [t EXCEPT ![i] = e]
<1>1. i \in 1..Len(t) /\ Len(t) \in Nat /\ DOMAIN t = 1..Len(t)
  BY LenProperties
<1>2. /\ u \in Seq(S) /\ Len(u) = Len(t)
      /\ \A j \in 1..Len(t) : u[j] = IF j = i THEN e ELSE t[j]
  BY <1>1, ExceptSeq
<1>3. DOMAIN u = 1..Len(u)
  BY <1>2, LenProperties
<1> QED
  BY <1>1, <1>2, <1>3 DEF Replaced

\* The part of the invariant about a case depends on that case's rows alone.
LEMMA TablesFrame ==
    ASSUME NEW e \in Case, TablesOK(e),
           row'[e] = row[e], decision'[e] = decision[e], correction'[e] = correction[e],
           outbox'[e] = outbox[e], build'[e] = build[e]
    PROVE  TablesOK(e)'
  BY DEF TablesOK, TwoPeople, RunsOf, Outstanding

\* Flushing the staged columns of a case.
LEMMA FlushStep ==
    ASSUME TypeOK, NEW c \in Case, NEW set \in SetType,
           row' = [row EXCEPT ![c] = Flushed(@, set)]
    PROVE  /\ row' \in [Case -> RowType]
           /\ row'[c].status = IF set.status = Keep THEN row[c].status ELSE set.status
           /\ \A b \in Case : b # c => row'[b] = row[b]
<1>1. row \in [Case -> RowType] /\ row[c] \in RowType
  BY DEF TypeOK
<1>2. /\ Flushed(row[c], set) \in RowType
      /\ Flushed(row[c], set).status = IF set.status = Keep THEN row[c].status ELSE set.status
  BY <1>1, FlushTyped
<1> QED
  BY <1>1, <1>2

-----------------------------------------------------------------------------
(* Commits *)

\* The correction and the outbox row of a decision that two people stand
\* behind, or that needed no second one.
LEMMA CommitDecisionStep ==
    ASSUME IndInv, NEW p \in Proc, CommitDecision(p)
    PROVE  IndInv'
<1>1. PICK unit \in DecisionUnit, c \in Case : unit = tx[p] /\ c = unit.case
  BY UnitShape DEF IndInv, TypeOK, CommitDecision, DecisionUnit
<1>2. /\ unit.set \in SetType /\ unit.dec \in DecisionType
      /\ unit.enqueue \in BOOLEAN /\ unit.at \in Nat
  BY DEF DecisionUnit
<1> DEFINE id == IF unit.at = 0 THEN Len(decision[c]) + 1 ELSE unit.at
           cor == [decision |-> id, status |-> "PENDING"]
           out == NewRow(Len(correction[c]) + 1)
<1>3. /\ unit.at # 0 => unit.at \in DOMAIN decision[c]
      /\ c \in P0 => unit.dec.needs
      /\ unit.enqueue \/ unit.at # 0 => TwoPeople(c, unit.dec)
      /\ unit.set.status = "APPLYING" => unit.enqueue
  BY <1>1 DEF IndInv, StagedOK, TwoPeople, DecisionUnit
<1>4. /\ row[c] \in RowType /\ decision \in [Case -> Seq(DecisionType)]
      /\ correction \in [Case -> Seq(CorrectionType)] /\ outbox \in [Case -> Seq(OutType)]
  BY DEF IndInv, TypeOK
<1>5. /\ row' \in [Case -> RowType]
      /\ row'[c].status = "APPLYING" => row[c].status = "APPLYING" \/ unit.enqueue
      /\ \A b \in Case : b # c => row'[b] = row[b]
  <2>1. row' = [row EXCEPT ![c] = Flushed(@, unit.set)]
    BY <1>1 DEF CommitDecision, WriteRow
  <2> QED
    BY <2>1, <1>2, <1>3, FlushStep DEF IndInv
<1>6. /\ decision' \in [Case -> Seq(DecisionType)]
      /\ \A b \in Case : b # c => decision'[b] = decision[b]
      /\ Len(decision[c]) <= Len(decision'[c])
      /\ DOMAIN decision'[c] = DOMAIN decision[c] \cup {id}
      /\ decision'[c][id] = unit.dec
      /\ \A i \in DOMAIN decision[c] : i # id => decision'[c][i] = decision[c][i]
      /\ id \in Index
      /\ unit.at = 0 => id \notin DOMAIN decision[c]
  <2>1. CASE unit.at = 0
    <3>1. decision' = [decision EXCEPT ![c] = Append(@, unit.dec)]
      BY <1>1, <2>1 DEF CommitDecision
    <3>2. decision[c] \in Seq(DecisionType) /\ decision'[c] = Append(decision[c], unit.dec)
      BY <3>1, <1>4
    <3>3. decision'[c] \in Seq(DecisionType) /\ Appended(decision[c], decision'[c], unit.dec)
      BY <3>2, <1>2, AppendTo
    <3>4. decision' \in [Case -> Seq(DecisionType)] /\ \A b \in Case : b # c => decision'[b] = decision[b]
      BY <3>1, <3>2, <3>3, <1>4
    <3> QED
      BY <2>1, <3>3, <3>4 DEF Appended, Index
  <2>2. CASE unit.at # 0
    <3>1. decision' = [decision EXCEPT ![c] = [@ EXCEPT ![unit.at] = unit.dec]]
      BY <1>1, <2>2 DEF CommitDecision
    <3>2. /\ decision[c] \in Seq(DecisionType)
          /\ decision'[c] = [decision[c] EXCEPT ![unit.at] = unit.dec]
      BY <3>1, <1>4
    <3>3. /\ decision'[c] \in Seq(DecisionType)
          /\ Replaced(decision[c], decision'[c], unit.at, unit.dec)
      BY <2>2, <3>2, <1>2, <1>3, ReplaceAt
    <3>4. decision' \in [Case -> Seq(DecisionType)] /\ \A b \in Case : b # c => decision'[b] = decision[b]
      BY <3>1, <3>2, <3>3, <1>4
    <3> QED
      BY <2>2, <3>3, <3>4, <1>2, <1>3 DEF Replaced, Index
  <2> QED
    BY <2>1, <2>2
<1>7. /\ correction' \in [Case -> Seq(CorrectionType)]
      /\ \A b \in Case : b # c => correction'[b] = correction[b]
      /\ Len(correction[c]) \in Nat /\ Len(correction[c]) <= Len(correction'[c])
      /\ \A k \in DOMAIN correction[c] : correction'[c][k] = correction[c][k]
      /\ DOMAIN correction[c] \subseteq DOMAIN correction'[c]
      /\ unit.enqueue => Len(correction[c]) + 1 \in DOMAIN correction'[c]
      /\ \A k \in DOMAIN correction'[c] :
            k \in DOMAIN correction[c] \/ (unit.enqueue /\ correction'[c][k] = cor)
  <2>1. cor \in CorrectionType
    BY <1>6 DEF CorrectionType, CorStatus
  <2>2. CASE unit.enqueue
    <3>1. correction' = [correction EXCEPT ![c] = Append(@, cor)]
      BY <1>1, <2>2 DEF CommitDecision, EnqueueCorrection
    <3>2. correction[c] \in Seq(CorrectionType) /\ correction'[c] = Append(correction[c], cor)
      BY <3>1, <1>4
    <3>3. correction'[c] \in Seq(CorrectionType) /\ Appended(correction[c], correction'[c], cor)
      BY <3>2, <2>1, AppendTo
    <3>4. correction' \in [Case -> Seq(CorrectionType)] /\ \A b \in Case : b # c => correction'[b] = correction[b]
      BY <3>1, <3>2, <3>3, <1>4
    <3> HIDE DEF cor
    <3> QED
      BY <2>2, <3>3, <3>4 DEF Appended
  <2>3. CASE ~unit.enqueue
    <3>1. correction' = correction
      BY <1>1, <2>3 DEF CommitDecision
    <3>2. Len(correction[c]) \in Nat
      BY <1>4, LenProperties
    <3> QED
      BY <3>1, <3>2, <2>3, <1>4
  <2> QED
    BY <1>2, <2>2, <2>3
<1>8. /\ outbox' \in [Case -> Seq(OutType)]
      /\ \A b \in Case : b # c => outbox'[b] = outbox[b]
      /\ Len(outbox[c]) \in Nat
      /\ Len(outbox'[c]) = IF unit.enqueue THEN Len(outbox[c]) + 1 ELSE Len(outbox[c])
      /\ \A o \in DOMAIN outbox[c] : outbox'[c][o] = outbox[c][o]
      /\ unit.enqueue => outbox'[c][Len(outbox'[c])] = out
      /\ ~unit.enqueue => outbox'[c] = outbox[c]
      /\ \A o \in DOMAIN outbox'[c] :
            o \in DOMAIN outbox[c] \/ (unit.enqueue /\ outbox'[c][o] = out)
  <2>1. out \in OutType
    BY <1>7 DEF NewRow, OutType, OutStatus, Index
  <2>2. CASE unit.enqueue
    <3>1. outbox' = [outbox EXCEPT ![c] = Append(@, out)]
      BY <1>1, <2>2 DEF CommitDecision, EnqueueCorrection
    <3>2. outbox[c] \in Seq(OutType) /\ outbox'[c] = Append(outbox[c], out)
      BY <3>1, <1>4
    <3>3. outbox'[c] \in Seq(OutType) /\ Appended(outbox[c], outbox'[c], out)
      BY <3>2, <2>1, AppendTo
    <3>4. outbox' \in [Case -> Seq(OutType)] /\ \A b \in Case : b # c => outbox'[b] = outbox[b]
      BY <3>1, <3>2, <3>3, <1>4
    <3> HIDE DEF out
    <3> QED
      BY <2>2, <3>3, <3>4 DEF Appended
  <2>3. CASE ~unit.enqueue
    <3>1. outbox' = outbox
      BY <1>1, <2>3 DEF CommitDecision
    <3>2. Len(outbox[c]) \in Nat
      BY <1>4, LenProperties
    <3> QED
      BY <3>1, <3>2, <2>3, <1>4
  <2> QED
    BY <1>2, <2>2, <2>3
<1>9. /\ tx' \in [Proc -> UnitType]
      /\ \A q \in Proc : tx'[q] = tx[q] \/ tx'[q] = NoTx
  BY DEF CommitDecision, Done, UnitType, IndInv, TypeOK
<1>10. UNCHANGED <<execution, event, delivery, build>>
  BY DEF CommitDecision
<1>11. TypeOK'
  BY <1>5, <1>6, <1>7, <1>8, <1>9, <1>10 DEF IndInv, TypeOK
<1>12. Grows
  <2>1. \A e \in Case : /\ Len(decision[e]) \in Nat /\ Len(correction[e]) \in Nat
                        /\ Len(outbox[e]) \in Nat
    BY <1>4, LenProperties
  <2>2. SUFFICES ASSUME NEW e \in Case PROVE GrowsFor(e)
    BY DEF Grows
  <2>3. CASE e = c
    BY <2>1, <2>3, <1>5, <1>6, <1>7, <1>8 DEF GrowsFor
  <2>4. CASE e # c
    BY <2>1, <2>4, <1>5, <1>6, <1>7, <1>8 DEF GrowsFor
  <2> QED
    BY <2>3, <2>4
<1>13. TablesOK(c)'
  <2>1. TablesOK(c)
    BY DEF IndInv
  <2>2. \A i \in DOMAIN decision'[c] : c \in P0 => decision'[c][i].needs
    BY <2>1, <1>3, <1>6 DEF TablesOK
  <2>3. ASSUME NEW k \in DOMAIN correction'[c]
        PROVE  /\ correction'[c][k].decision \in DOMAIN decision'[c]
               /\ TwoPeople(c, decision'[c][correction'[c][k].decision])
    <3>1. CASE k \in DOMAIN correction[c]
      <4>1. correction'[c][k] = correction[c][k]
        BY <3>1, <1>7
      <4>2. /\ correction[c][k].decision \in DOMAIN decision[c]
            /\ TwoPeople(c, decision[c][correction[c][k].decision])
        BY <3>1, <2>1 DEF TablesOK
      <4>3. CASE correction[c][k].decision # id
        BY <4>1, <4>2, <4>3, <1>6
      <4>4. CASE correction[c][k].decision = id
        <5>1. unit.at # 0
          BY <4>2, <4>4, <1>6
        <5> QED
          BY <5>1, <4>1, <4>4, <1>3, <1>6
      <4> QED
        BY <4>3, <4>4
    <3>2. CASE unit.enqueue /\ correction'[c][k] = cor
      BY <3>2, <1>3, <1>6
    <3> QED
      BY <3>1, <3>2, <1>7
  <2>4. \A o \in DOMAIN outbox'[c] : outbox'[c][o].cor \in DOMAIN correction'[c]
    BY <2>1, <1>7, <1>8 DEF TablesOK, NewRow
  <2>5. \A x \in RunsOf(c)' : x[1] \in DOMAIN correction'[c]
    BY <2>1, <1>7, <1>10 DEF TablesOK, RunsOf
  <2>6. row'[c].status = "APPLYING" =>
          Len(outbox'[c]) > 0 /\ Outstanding(c, Len(outbox[c]))'
    BY <2>1, <1>5, <1>8 DEF TablesOK, Outstanding, NewRow
  <2> QED
    BY <2>2, <2>3, <2>4, <2>5, <2>6 DEF TablesOK, TwoPeople
<1>14. \A e \in Case : e # c => TablesOK(e)'
  BY <1>5, <1>6, <1>7, <1>8, <1>10, TablesFrame DEF IndInv
<1> QED
  BY <1>9, <1>10, <1>11, <1>12, <1>13, <1>14, Writes

-----------------------------------------------------------------------------
(* Steps that write rows in place *)

\* The corrections of a case keep their decisions, its outbox rows their
\* corrections.
SameCorrections(c) ==
    /\ DOMAIN correction'[c] = DOMAIN correction[c] /\ Len(correction'[c]) = Len(correction[c])
    /\ \A k \in DOMAIN correction[c] : correction'[c][k].decision = correction[c][k].decision
SameOutbox(c) ==
    /\ DOMAIN outbox'[c] = DOMAIN outbox[c] /\ Len(outbox'[c]) = Len(outbox[c])
    /\ \A o \in DOMAIN outbox[c] : outbox'[c][o].cor = outbox[c][o].cor

\* Writing the status of a correction keeps everything else about it.
LEMMA WriteCorrection ==
    ASSUME TypeOK, NEW c \in Case, NEW k \in DOMAIN correction[c],
           NEW set \in CorStatus \cup {Keep},
           correction' = [correction EXCEPT ![c][k].status = Write(@, set)]
    PROVE  /\ correction' \in [Case -> Seq(CorrectionType)]
           /\ \A b \in Case : b # c => correction'[b] = correction[b]
           /\ SameCorrections(c)
<1> DEFINE x == correction[c][k]
           y == [x EXCEPT !.status = Write(x.status, set)]
<1>1. correction \in [Case -> Seq(CorrectionType)] /\ correction[c] \in Seq(CorrectionType)
  BY DEF TypeOK
<1>2. x \in CorrectionType
  BY <1>1, LenProperties, ElementOfSeq
<1>3. y \in CorrectionType /\ y.decision = x.decision
  BY <1>2 DEF CorrectionType, Write, CorStatus
<1>4. correction' = [correction EXCEPT ![c] = [@ EXCEPT ![k] = y]]
  OBVIOUS
<1>5. correction'[c] = [correction[c] EXCEPT ![k] = y]
  BY <1>1, <1>4
<1>6. /\ correction'[c] \in Seq(CorrectionType)
      /\ Replaced(correction[c], correction'[c], k, y)
  <2> HIDE DEF y
  <2> QED
    BY <1>1, <1>3, <1>5, ReplaceAt
<1>7. /\ correction' \in [Case -> Seq(CorrectionType)]
      /\ \A b \in Case : b # c => correction'[b] = correction[b]
  BY <1>1, <1>4, <1>6
<1> QED
  BY <1>3, <1>6, <1>7 DEF Replaced, SameCorrections

\* Writing an outbox row keeps the others, and the correction of each.
LEMMA WriteOutbox ==
    ASSUME TypeOK, NEW c \in Case, NEW o \in DOMAIN outbox[c],
           NEW y \in OutType, y.cor = outbox[c][o].cor,
           outbox' = [outbox EXCEPT ![c] = [@ EXCEPT ![o] = y]]
    PROVE  /\ outbox' \in [Case -> Seq(OutType)]
           /\ \A b \in Case : b # c => outbox'[b] = outbox[b]
           /\ SameOutbox(c)
           /\ \A j \in DOMAIN outbox[c] : outbox'[c][j] = IF j = o THEN y ELSE outbox[c][j]
<1>1. outbox \in [Case -> Seq(OutType)] /\ outbox[c] \in Seq(OutType)
  BY DEF TypeOK
<1>2. outbox'[c] = [outbox[c] EXCEPT ![o] = y]
  BY <1>1
<1>3. outbox'[c] \in Seq(OutType) /\ Replaced(outbox[c], outbox'[c], o, y)
  BY <1>1, <1>2, ReplaceAt
<1>4. outbox' \in [Case -> Seq(OutType)] /\ \A b \in Case : b # c => outbox'[b] = outbox[b]
  BY <1>1, <1>3
<1> QED
  BY <1>3, <1>4 DEF Replaced, SameOutbox

\* Writing in place keeps the tables of a case sound, as long as a case that
\* stays APPLYING keeps its newest row outstanding.
LEMMA InPlace ==
    ASSUME NEW c \in Case, TablesOK(c),
           decision'[c] = decision[c], SameCorrections(c), SameOutbox(c),
           RunsOf(c)' = RunsOf(c),
           row'[c].status = "APPLYING" =>
             /\ row[c].status = "APPLYING"
             /\ Outstanding(c, Len(outbox[c])) => Outstanding(c, Len(outbox[c]))'
    PROVE  TablesOK(c)'
<1>1. \A k \in DOMAIN correction'[c] :
        /\ correction'[c][k].decision \in DOMAIN decision'[c]
        /\ TwoPeople(c, decision'[c][correction'[c][k].decision])
  BY DEF TablesOK, SameCorrections
<1>2. /\ \A o \in DOMAIN outbox'[c] : outbox'[c][o].cor \in DOMAIN correction'[c]
      /\ \A x \in RunsOf(c)' : x[1] \in DOMAIN correction'[c]
  BY DEF TablesOK, SameCorrections, SameOutbox
<1>3. row'[c].status = "APPLYING" =>
        Len(outbox'[c]) > 0 /\ Outstanding(c, Len(outbox[c]))'
  BY DEF TablesOK, SameOutbox
<1>4. \A i \in DOMAIN decision'[c] : c \in P0 => decision'[c][i].needs
  BY DEF TablesOK
<1> QED
  BY <1>1, <1>2, <1>3, <1>4 DEF TablesOK, TwoPeople

\* A step that writes rows of one case in place keeps the invariant.
LEMMA InPlaceStep ==
    ASSUME IndInv, TypeOK', NEW c \in Case,
           SameCorrections(c), SameOutbox(c), UNCHANGED <<decision, build>>,
           \A b \in Case : b # c => /\ row'[b] = row[b] /\ correction'[b] = correction[b]
                                    /\ outbox'[b] = outbox[b],
           row'[c].status = "APPLYING" =>
             /\ row[c].status = "APPLYING"
             /\ Outstanding(c, Len(outbox[c])) => Outstanding(c, Len(outbox[c]))',
           \A q \in Proc : tx'[q] = tx[q] \/ tx'[q] = NoTx,
           \A w \in Worker : delivery'[w] = delivery[w] \/ HeldOK(delivery[w])'
    PROVE  IndInv'
<1>1. \A b \in Case : TablesOK(b)'
  <2> SUFFICES ASSUME NEW b \in Case PROVE TablesOK(b)'
    OBVIOUS
  <2>1. TablesOK(b)
    BY DEF IndInv
  <2>2. CASE b # c
    BY <2>1, <2>2, TablesFrame
  <2>3. CASE b = c
    <3>1. RunsOf(c)' = RunsOf(c)
      BY DEF RunsOf
    <3> QED
      BY <2>1, <2>3, <3>1, InPlace
  <2> QED
    BY <2>2, <2>3
<1>2. Grows
  <2> SUFFICES ASSUME NEW b \in Case PROVE GrowsFor(b)
    BY DEF Grows
  <2>1. /\ Len(decision[b]) \in Nat /\ Len(correction[b]) \in Nat
        /\ Len(outbox[b]) \in Nat
    BY LenProperties DEF IndInv, TypeOK
  <2>2. CASE b # c
    BY <2>1, <2>2 DEF GrowsFor
  <2>3. CASE b = c
    BY <2>1, <2>3 DEF GrowsFor, SameCorrections, SameOutbox
  <2> QED
    BY <2>2, <2>3
<1> QED
  BY <1>1, <1>2, Writes

\* Writing no correction, or no outbox row, leaves them as they are.
LEMMA SameTables ==
    ASSUME NEW c \in Case
    PROVE  /\ correction' = correction => SameCorrections(c)
           /\ outbox' = outbox => SameOutbox(c)
  BY DEF SameCorrections, SameOutbox

\* An event never makes a case APPLYING, and leaves the outbox alone.
LEMMA CommitEventStep ==
    ASSUME IndInv, NEW p \in Proc, CommitEvent(p)
    PROVE  IndInv'
<1>1. PICK unit \in EventUnit, c \in Case : unit = tx[p] /\ c = unit.case
  BY UnitShape DEF IndInv, TypeOK, CommitEvent, EventUnit
<1>2. /\ unit.set \in SetType /\ unit.exe \in ExecId /\ unit.type \in EventType
      /\ unit.src \in Sender /\ unit.corSet \in CorStatus \cup {Keep}
  BY DEF EventUnit
<1>3. /\ unit.set.status # "APPLYING"
      /\ unit.cor \in {0} \cup DOMAIN correction[c]
  BY <1>1 DEF IndInv, StagedOK, EventUnit
<1>4. /\ row' \in [Case -> RowType]
      /\ row'[c].status = "APPLYING" => row[c].status = "APPLYING"
      /\ \A b \in Case : b # c => row'[b] = row[b]
  <2>1. row' = [row EXCEPT ![c] = Flushed(@, unit.set)]
    BY <1>1 DEF CommitEvent, WriteRow
  <2> QED
    BY <2>1, <1>2, <1>3, FlushStep DEF IndInv
<1>5. /\ correction' \in [Case -> Seq(CorrectionType)]
      /\ \A b \in Case : b # c => correction'[b] = correction[b]
      /\ SameCorrections(c)
  <2>1. CASE unit.cor = 0
    BY <1>1, <2>1, SameTables DEF CommitEvent, IndInv, TypeOK
  <2>2. CASE unit.cor # 0
    <3>1. correction' = [correction EXCEPT ![c][unit.cor].status = Write(@, unit.corSet)]
      BY <1>1, <2>2 DEF CommitEvent, SetCorrection
    <3> QED
      BY <2>2, <3>1, <1>2, <1>3, WriteCorrection DEF IndInv
  <2> QED
    BY <2>1, <2>2
<1>6. SameOutbox(c) /\ outbox' = outbox
  BY SameTables DEF CommitEvent
<1>7. /\ execution' \in [Case -> SUBSET ExecId]
      /\ event' \in [Case -> SUBSET EventRow]
  BY <1>1, <1>2 DEF CommitEvent, EventRow, IndInv, TypeOK
<1>8. /\ tx' \in [Proc -> UnitType]
      /\ \A q \in Proc : tx'[q] = tx[q] \/ tx'[q] = NoTx
  BY DEF CommitEvent, Done, UnitType, IndInv, TypeOK
<1>9. UNCHANGED <<decision, outbox, delivery, build>>
  BY DEF CommitEvent
<1>10. TypeOK'
  BY <1>4, <1>5, <1>7, <1>8, <1>9 DEF IndInv, TypeOK
<1>11. Outstanding(c, Len(outbox[c])) => Outstanding(c, Len(outbox[c]))'
  BY <1>9 DEF Outstanding
<1> QED
  BY <1>4, <1>5, <1>6, <1>8, <1>9, <1>10, <1>11, InPlaceStep

\* A failure takes the case out of APPLYING when it settles the newest row.
LEMMA CommitFailureStep ==
    ASSUME IndInv, NEW p \in Proc, CommitFailure(p)
    PROVE  IndInv'
<1>1. PICK unit \in FailureUnit, c \in Case : unit = tx[p] /\ c = unit.case
  BY UnitShape DEF IndInv, TypeOK, CommitFailure, FailureUnit
<1>2. /\ unit.set \in SetType /\ unit.obSet \in OutStatus \cup {Keep}
      /\ unit.attempts \in Nat /\ unit.corSet \in CorStatus \cup {Keep}
  BY DEF FailureUnit
<1>3. /\ unit.set.status # "APPLYING" /\ unit.cor \in DOMAIN correction[c]
      /\ unit.ob \in DOMAIN outbox[c]
      /\ unit.ob = Len(outbox[c]) /\ row[c].status = "APPLYING"
            => unit.set.status = "APPLY_FAILED"
  BY <1>1 DEF IndInv, StagedOK, FailureUnit
<1> DEFINE x == outbox[c][unit.ob]
           y == [x EXCEPT !.status = Write(x.status, unit.obSet), !.attempts = unit.attempts]
<1>4. /\ row' \in [Case -> RowType]
      /\ row'[c].status = IF unit.set.status = Keep THEN row[c].status ELSE unit.set.status
      /\ \A b \in Case : b # c => row'[b] = row[b]
  <2>1. row' = [row EXCEPT ![c] = Flushed(@, unit.set)]
    BY <1>1 DEF CommitFailure, WriteRow
  <2> QED
    BY <2>1, <1>2, <1>3, FlushStep DEF IndInv
<1>5. /\ correction' \in [Case -> Seq(CorrectionType)]
      /\ \A b \in Case : b # c => correction'[b] = correction[b]
      /\ SameCorrections(c)
  <2>1. correction' = [correction EXCEPT ![c][unit.cor].status = Write(@, unit.corSet)]
    BY <1>1 DEF CommitFailure, SetCorrection
  <2> QED
    BY <2>1, <1>2, <1>3, WriteCorrection DEF IndInv
<1>6. /\ outbox' \in [Case -> Seq(OutType)]
      /\ \A b \in Case : b # c => outbox'[b] = outbox[b]
      /\ SameOutbox(c)
      /\ \A j \in DOMAIN outbox[c] : j # unit.ob => outbox'[c][j] = outbox[c][j]
  <2>1. x \in OutType
    BY <1>3, LenProperties, ElementOfSeq DEF IndInv, TypeOK
  <2>2. y \in OutType /\ y.cor = x.cor
    BY <2>1, <1>2 DEF OutType, OutStatus, Write
  <2>3. outbox' = [outbox EXCEPT ![c] = [@ EXCEPT ![unit.ob] = y]]
    BY <1>1 DEF CommitFailure
  <2> HIDE DEF y
  <2> QED
    BY <2>2, <2>3, <1>3, WriteOutbox DEF IndInv
<1>7. /\ tx' \in [Proc -> UnitType]
      /\ \A q \in Proc : tx'[q] = tx[q] \/ tx'[q] = NoTx
  BY DEF CommitFailure, Done, UnitType, IndInv, TypeOK
<1>8. UNCHANGED <<decision, execution, event, delivery, build>>
  BY DEF CommitFailure
<1>9. TypeOK'
  BY <1>4, <1>5, <1>6, <1>7, <1>8 DEF IndInv, TypeOK
<1>10. row'[c].status = "APPLYING" =>
         /\ row[c].status = "APPLYING"
         /\ Outstanding(c, Len(outbox[c])) => Outstanding(c, Len(outbox[c]))'
  <2> SUFFICES ASSUME row'[c].status = "APPLYING"
               PROVE  /\ row[c].status = "APPLYING"
                      /\ Outstanding(c, Len(outbox[c])) => Outstanding(c, Len(outbox[c]))'
    OBVIOUS
  <2>1. row[c].status = "APPLYING" /\ unit.set.status = Keep
    BY <1>3, <1>4
  <2>2. Keep # "APPLY_FAILED"
    BY KeepAssumption DEF Status
  <2>3. unit.ob # Len(outbox[c])
    BY <2>1, <2>2, <1>3
  <2>4. Len(outbox[c]) > 0 /\ Len(outbox[c]) \in DOMAIN outbox[c]
    BY <2>1, LenProperties DEF IndInv, TypeOK, TablesOK
  <2> QED
    BY <2>1, <2>3, <2>4, <1>6 DEF Outstanding, SameOutbox
<1> QED
  BY <1>4, <1>5, <1>6, <1>7, <1>8, <1>9, <1>10, InPlaceStep

\* A retry asks again for a correction there is, with a row of its own.
LEMMA CommitRetryStep ==
    ASSUME IndInv, NEW p \in Proc, CommitRetry(p)
    PROVE  IndInv'
<1>1. PICK unit \in RetryUnit, c \in Case : unit = tx[p] /\ c = unit.case
  BY UnitShape DEF IndInv, TypeOK, CommitRetry, RetryUnit
<1>2. /\ unit.set \in SetType /\ unit.cor \in Index
      /\ unit.corSet \in CorStatus \cup {Keep}
  BY DEF RetryUnit
<1>3. unit.cor \in DOMAIN correction[c]
  BY <1>1 DEF IndInv, StagedOK, RetryUnit
<1> DEFINE out == NewRow(unit.cor)
<1>4. row' \in [Case -> RowType] /\ \A b \in Case : b # c => row'[b] = row[b]
  <2>1. row' = [row EXCEPT ![c] = Flushed(@, unit.set)]
    BY <1>1 DEF CommitRetry, WriteRow
  <2> QED
    BY <2>1, <1>2, FlushStep DEF IndInv
<1>5. /\ correction' \in [Case -> Seq(CorrectionType)]
      /\ \A b \in Case : b # c => correction'[b] = correction[b]
      /\ SameCorrections(c)
  <2>1. correction' = [correction EXCEPT ![c][unit.cor].status = Write(@, unit.corSet)]
    BY <1>1 DEF CommitRetry, SetCorrection
  <2> QED
    BY <2>1, <1>2, <1>3, WriteCorrection DEF IndInv
<1>6. /\ outbox' \in [Case -> Seq(OutType)]
      /\ \A b \in Case : b # c => outbox'[b] = outbox[b]
      /\ Appended(outbox[c], outbox'[c], out)
  <2>1. out \in OutType
    BY <1>2 DEF NewRow, OutType, OutStatus
  <2>2. outbox' = [outbox EXCEPT ![c] = Append(@, out)]
    BY <1>1 DEF CommitRetry
  <2>3. outbox \in [Case -> Seq(OutType)] /\ outbox[c] \in Seq(OutType)
    BY DEF IndInv, TypeOK
  <2>4. outbox'[c] = Append(outbox[c], out)
    BY <2>2, <2>3
  <2>5. outbox'[c] \in Seq(OutType) /\ Appended(outbox[c], outbox'[c], out)
    BY <2>1, <2>3, <2>4, AppendTo
  <2> QED
    BY <2>2, <2>3, <2>5
<1>7. /\ tx' \in [Proc -> UnitType]
      /\ \A q \in Proc : tx'[q] = tx[q] \/ tx'[q] = NoTx
  BY DEF CommitRetry, Done, UnitType, IndInv, TypeOK
<1>8. UNCHANGED <<decision, execution, event, delivery, build>>
  BY DEF CommitRetry
<1>9. TypeOK'
  BY <1>4, <1>5, <1>6, <1>7, <1>8 DEF IndInv, TypeOK
<1>10. TablesOK(c)'
  <2>1. TablesOK(c)
    BY DEF IndInv
  <2>2. \A i \in DOMAIN decision'[c] : c \in P0 => decision'[c][i].needs
    BY <2>1, <1>8 DEF TablesOK
  <2>3. \A k \in DOMAIN correction'[c] :
          /\ correction'[c][k].decision \in DOMAIN decision'[c]
          /\ TwoPeople(c, decision'[c][correction'[c][k].decision])
    BY <2>1, <1>5, <1>8 DEF TablesOK, SameCorrections
  <2>4. \A o \in DOMAIN outbox'[c] : outbox'[c][o].cor \in DOMAIN correction'[c]
    <3>1. /\ out.cor = unit.cor /\ outbox'[c][Len(outbox[c]) + 1] = out
          /\ \A o \in DOMAIN outbox[c] : outbox'[c][o] = outbox[c][o]
          /\ DOMAIN outbox'[c] = DOMAIN outbox[c] \cup {Len(outbox[c]) + 1}
      BY <1>6 DEF Appended, NewRow
    <3>2. \A o \in DOMAIN outbox[c] : outbox'[c][o].cor \in DOMAIN correction[c]
      BY <2>1, <3>1 DEF TablesOK
    <3> HIDE DEF out
    <3> QED
      BY <3>1, <3>2, <1>3, <1>5 DEF SameCorrections
  <2>5. \A x \in RunsOf(c)' : x[1] \in DOMAIN correction'[c]
    BY <2>1, <1>5, <1>8 DEF TablesOK, SameCorrections, RunsOf
  <2>6. Len(outbox'[c]) > 0 /\ Outstanding(c, Len(outbox[c]))'
    BY <1>6 DEF Appended, Outstanding, NewRow
  <2> QED
    BY <2>2, <2>3, <2>4, <2>5, <2>6 DEF TablesOK, TwoPeople
<1>11. \A b \in Case : TablesOK(b)'
  <2> SUFFICES ASSUME NEW b \in Case, b # c PROVE TablesOK(b)'
    BY <1>10
  <2> QED
    BY <1>4, <1>5, <1>6, <1>8, TablesFrame DEF IndInv
<1>12. Grows
  <2> SUFFICES ASSUME NEW b \in Case PROVE GrowsFor(b)
    BY DEF Grows
  <2>1. /\ Len(decision[b]) \in Nat /\ Len(correction[b]) \in Nat
        /\ Len(outbox[b]) \in Nat
    BY LenProperties DEF IndInv, TypeOK
  <2>2. CASE b # c
    BY <2>1, <2>2, <1>4, <1>5, <1>6, <1>8 DEF GrowsFor
  <2>3. CASE b = c
    BY <2>1, <2>3, <1>5, <1>6, <1>8 DEF GrowsFor, SameCorrections, Appended
  <2> QED
    BY <2>2, <2>3
<1> QED
  BY <1>7, <1>8, <1>9, <1>11, <1>12, Writes

\* The worker read the case when it was already APPLYING, or the row it
\* settles is not the newest.
LEMMA ResumeAcceptedStep ==
    ASSUME IndInv, NEW w \in Worker, ResumeAccepted(w)
    PROVE  IndInv'
<1>1. PICK d \in SentPhase, c \in Case : d = delivery[w] /\ c = d.case
  BY DeliveryShape DEF IndInv, TypeOK, ResumeAccepted, SentPhase
<1>2. /\ d.phase = "sent" /\ d.ob \in DOMAIN outbox[c]
      /\ d.ob = Len(outbox[c]) /\ row[c].status = "APPLYING" => d.saw.status = "APPLYING"
      /\ d.saw \in SawType
  BY <1>1 DEF IndInv, HeldOK, SentPhase
<1> DEFINE x == outbox[c][d.ob]
           y == [x EXCEPT !.status = "DONE"]
           corSet == Change(d.saw.cor, "DISPATCHED")
           set == [status |-> Change(d.saw.status, "RERUNNING"), assignee |-> Keep,
                   version |-> d.saw.version + 1, beat |-> Keep]
<1>3. x \in OutType /\ x.cor \in DOMAIN correction[c]
  BY <1>2, LenProperties, ElementOfSeq DEF IndInv, TypeOK, TablesOK
<1>4. /\ set \in SetType /\ corSet \in CorStatus \cup {Keep}
      /\ set.status = IF d.saw.status = "RERUNNING" THEN Keep ELSE "RERUNNING"
  BY <1>2 DEF SawType, SetType, Change, Status, CorStatus
<1>5. /\ row' \in [Case -> RowType]
      /\ row'[c].status = IF set.status = Keep THEN row[c].status ELSE set.status
      /\ \A b \in Case : b # c => row'[b] = row[b]
  <2>1. row' = [row EXCEPT ![c] = Flushed(@, set)]
    BY <1>1 DEF ResumeAccepted
  <2> HIDE DEF set
  <2> QED
    BY <2>1, <1>4, FlushStep DEF IndInv
<1>6. /\ correction' \in [Case -> Seq(CorrectionType)]
      /\ \A b \in Case : b # c => correction'[b] = correction[b]
      /\ SameCorrections(c)
  <2>1. correction' = [correction EXCEPT ![c][x.cor].status = Write(@, corSet)]
    BY <1>1 DEF ResumeAccepted
  <2> HIDE DEF corSet
  <2> QED
    BY <2>1, <1>3, <1>4, WriteCorrection DEF IndInv
<1>7. /\ outbox' \in [Case -> Seq(OutType)]
      /\ \A b \in Case : b # c => outbox'[b] = outbox[b]
      /\ SameOutbox(c)
      /\ \A j \in DOMAIN outbox[c] : j # d.ob => outbox'[c][j] = outbox[c][j]
  <2>1. y \in OutType /\ y.cor = x.cor
    BY <1>3 DEF OutType, OutStatus
  <2>2. outbox' = [outbox EXCEPT ![c] = [@ EXCEPT ![d.ob] = y]]
    BY <1>1 DEF ResumeAccepted
  <2> HIDE DEF y
  <2> QED
    BY <2>1, <2>2, <1>2, WriteOutbox DEF IndInv
<1>8. execution' \in [Case -> SUBSET ExecId]
  <2>1. d.answer \in ExecId
    BY <1>1 DEF ResumeAccepted, SentPhase
  <2> QED
    BY <2>1, <1>1 DEF ResumeAccepted, IndInv, TypeOK
<1>9. /\ delivery' \in [Worker -> DeliveryType]
      /\ \A v \in Worker : delivery'[v] = delivery[v] \/ HeldOK(delivery[v])'
  <2>1. delivery' = [delivery EXCEPT ![w] = Idle]
    BY DEF ResumeAccepted
  <2> QED
    BY <2>1, IdleHolds DEF IndInv, TypeOK, DeliveryType, HeldOK, Idle
<1>10. UNCHANGED <<decision, event, tx, build>>
  BY DEF ResumeAccepted
<1>11. TypeOK'
  BY <1>5, <1>6, <1>7, <1>8, <1>9, <1>10 DEF IndInv, TypeOK
<1>12. row'[c].status = "APPLYING" =>
         /\ row[c].status = "APPLYING"
         /\ Outstanding(c, Len(outbox[c])) => Outstanding(c, Len(outbox[c]))'
  <2> SUFFICES ASSUME row'[c].status = "APPLYING"
               PROVE  /\ row[c].status = "APPLYING"
                      /\ Outstanding(c, Len(outbox[c])) => Outstanding(c, Len(outbox[c]))'
    OBVIOUS
  <2>1. row[c].status = "APPLYING" /\ d.saw.status = "RERUNNING"
    <3> HIDE DEF set
    <3> QED
      BY <1>4, <1>5, KeepAssumption DEF Status
  <2>2. d.ob # Len(outbox[c])
    BY <2>1, <1>2
  <2>3. Len(outbox[c]) > 0 /\ Len(outbox[c]) \in DOMAIN outbox[c]
    BY <2>1, LenProperties DEF IndInv, TypeOK, TablesOK
  <2> QED
    BY <2>1, <2>2, <2>3, <1>7 DEF Outstanding, SameOutbox
<1> QED
  BY <1>5, <1>6, <1>7, <1>9, <1>10, <1>11, <1>12, InPlaceStep

-----------------------------------------------------------------------------
(* Locks, dispatch and graph-build *)

\* A step that writes none of the tables and stages nothing.
LEMMA QuietStep ==
    ASSUME IndInv, UNCHANGED <<tables, build>>,
           tx' \in [Proc -> UnitType], delivery' \in [Worker -> DeliveryType],
           \A q \in Proc : tx'[q] = tx[q] \/ tx'[q] = NoTx,
           \A w \in Worker : delivery'[w] = delivery[w] \/ HeldOK(delivery[w])'
    PROVE  IndInv'
<1>1. TypeOK'
  BY DEF IndInv, TypeOK, tables
<1>2. \A c \in Case : TablesOK(c)'
  BY TablesFrame DEF IndInv, tables
<1>3. Grows
  <2>1. \A c \in Case : /\ Len(decision[c]) \in Nat /\ Len(correction[c]) \in Nat
                        /\ Len(outbox[c]) \in Nat
    BY LenProperties DEF IndInv, TypeOK
  <2> QED
    BY <2>1 DEF Grows, GrowsFor, tables
<1> QED
  BY <1>1, <1>2, <1>3, Writes

\* A session that rolls back leaves nothing behind.
LEMMA RollbackStep ==
    ASSUME IndInv, NEW p \in Proc, Rollback(p)
    PROVE  IndInv'
<1>1. tx' \in [Proc -> UnitType] /\ \A q \in Proc : tx'[q] = tx[q] \/ tx'[q] = NoTx
  BY DEF Rollback, Done, UnitType, IndInv, TypeOK
<1>2. UNCHANGED <<tables, delivery, build>>
  BY DEF Rollback
<1> QED
  BY <1>1, <1>2, QuietStep DEF IndInv, TypeOK

\* A worker that stops holds nothing.
LEMMA CrashStep ==
    ASSUME IndInv, NEW w \in Worker, Crash(w)
    PROVE  IndInv'
<1>1. UNCHANGED <<tables, tx, build>> /\ delivery' = [delivery EXCEPT ![w] = Idle]
  BY DEF Crash
<1>2. /\ delivery' \in [Worker -> DeliveryType]
      /\ \A v \in Worker : delivery'[v] = delivery[v] \/ HeldOK(delivery[v])'
  BY <1>1, IdleHolds DEF IndInv, TypeOK, DeliveryType, HeldOK, Idle
<1> QED
  BY <1>1, <1>2, QuietStep DEF IndInv, TypeOK

\* What the worker reads before it posts is what is there.
LEMMA SendResumeStep ==
    ASSUME IndInv, NEW w \in Worker, SendResume(w)
    PROVE  IndInv'
<1>1. PICK d \in ClaimedPhase, c \in Case : d = delivery[w] /\ c = d.case
  BY DeliveryShape DEF IndInv, TypeOK, SendResume, ClaimedPhase
<1>2. d.ob \in DOMAIN outbox[c] /\ d.ob \in Index
  BY <1>1 DEF IndInv, HeldOK, ClaimedPhase
<1> DEFINE saw == [status |-> row[c].status, version |-> row[c].version,
                   cor |-> correction[c][outbox[c][d.ob].cor].status,
                   known |-> execution[c]]
           sent == [phase |-> "sent", case |-> c, ob |-> d.ob, answer |-> NoAnswer, saw |-> saw]
<1>3. saw \in SawType
  <2>1. outbox[c][d.ob].cor \in DOMAIN correction[c]
    BY <1>2 DEF IndInv, TablesOK
  <2>2. correction[c][outbox[c][d.ob].cor] \in CorrectionType
    BY <2>1, LenProperties, ElementOfSeq DEF IndInv, TypeOK
  <2> QED
    BY <2>2 DEF SawType, IndInv, TypeOK, RowType, CorrectionType
<1>4. sent \in SentPhase
  <2> HIDE DEF saw
  <2> QED
    BY <1>2, <1>3 DEF SentPhase
<1>5. delivery' = [delivery EXCEPT ![w] = Idle] \/ delivery' = [delivery EXCEPT ![w] = sent]
  BY <1>1 DEF SendResume
<1>6. UNCHANGED <<tables, tx, build>>
  BY DEF SendResume
<1>7. delivery' \in [Worker -> DeliveryType]
  BY <1>4, <1>5 DEF IndInv, TypeOK, DeliveryType
<1>8. ASSUME NEW v \in Worker PROVE delivery'[v] = delivery[v] \/ HeldOK(delivery[v])'
  <2>1. CASE delivery'[v] = Idle
    BY <2>1 DEF HeldOK, Idle
  <2>2. CASE delivery'[v] = sent
    BY <2>2, <1>2, <1>6 DEF HeldOK, tables
  <2>3. CASE delivery'[v] = delivery[v]
    BY <2>3
  <2> QED
    BY <2>1, <2>2, <2>3, <1>5 DEF IndInv, TypeOK
<1> QED
  BY <1>6, <1>7, <1>8, QuietStep DEF IndInv, TypeOK

\* The lock is a column of its own: the row keeps its correction.
LEMMA RowLocked ==
    ASSUME IndInv, NEW c \in Case, NEW o \in DOMAIN outbox[c],
           NEW s \in {"PROCESSING", "RETRY"}
    PROVE  \E y \in OutType : /\ y = [outbox[c][o] EXCEPT !.status = s]
                              /\ y.cor = outbox[c][o].cor /\ y.status = s
<1>1. outbox[c][o] \in OutType
  BY LenProperties, ElementOfSeq DEF IndInv, TypeOK
<1> DEFINE y == [outbox[c][o] EXCEPT !.status = s]
<1>2. y \in OutType /\ y.cor = outbox[c][o].cor /\ y.status = s
  BY <1>1 DEF OutType, OutStatus
<1> QED
  BY <1>2, Zenon

\* Locking a row, or taking its lock away, leaves it outstanding.
LEMMA LockStep ==
    ASSUME IndInv, NEW c \in Case, NEW o \in DOMAIN outbox[c], NEW y \in OutType,
           y.cor = outbox[c][o].cor, y.status \in {"PROCESSING", "RETRY"},
           outbox' = [outbox EXCEPT ![c] = [@ EXCEPT ![o] = y]],
           UNCHANGED <<row, decision, correction, execution, event, tx, build>>,
           delivery' \in [Worker -> DeliveryType],
           \A w \in Worker : \/ delivery'[w] = delivery[w]
                             \/ delivery'[w] = [phase |-> "claimed", case |-> c, ob |-> o]
    PROVE  IndInv'
<1>1. /\ outbox' \in [Case -> Seq(OutType)]
      /\ \A b \in Case : b # c => outbox'[b] = outbox[b]
      /\ SameOutbox(c)
      /\ \A j \in DOMAIN outbox[c] : outbox'[c][j] = IF j = o THEN y ELSE outbox[c][j]
  BY WriteOutbox DEF IndInv
<1>2. TypeOK'
  BY <1>1 DEF IndInv, TypeOK
<1>3. row'[c].status = "APPLYING" =>
         /\ row[c].status = "APPLYING"
         /\ Outstanding(c, Len(outbox[c])) => Outstanding(c, Len(outbox[c]))'
  <2> SUFFICES ASSUME row[c].status = "APPLYING"
               PROVE  Outstanding(c, Len(outbox[c]))'
    OBVIOUS
  <2>1. Len(outbox[c]) \in DOMAIN outbox[c] /\ Outstanding(c, Len(outbox[c]))
    BY LenProperties DEF IndInv, TypeOK, TablesOK
  <2> QED
    BY <2>1, <1>1 DEF Outstanding, SameOutbox
<1>4. SameCorrections(c)
  BY SameTables
<1>5. \A w \in Worker : delivery'[w] = delivery[w] \/ HeldOK(delivery[w])'
  BY <1>1 DEF HeldOK, SameOutbox
<1> QED
  BY <1>1, <1>2, <1>3, <1>4, <1>5, InPlaceStep

\* An expired lock returns the row for a retry.
LEMMA ReleaseStaleLockStep ==
    ASSUME IndInv, NEW c \in Case, NEW o, ReleaseStaleLock(c, o)
    PROVE  IndInv'
<1>1. /\ o \in DOMAIN outbox[c]
      /\ UNCHANGED <<row, decision, correction, execution, event, tx, delivery, build>>
  BY DEF ReleaseStaleLock
<1>2. PICK y \in OutType :
        /\ y = [outbox[c][o] EXCEPT !.status = "RETRY"]
        /\ y.cor = outbox[c][o].cor /\ y.status = "RETRY"
  BY <1>1, RowLocked
<1>3. outbox' = [outbox EXCEPT ![c] = [@ EXCEPT ![o] = y]]
  BY <1>2 DEF ReleaseStaleLock
<1>4. delivery' \in [Worker -> DeliveryType]
  BY <1>1 DEF IndInv, TypeOK
<1> QED
  BY <1>1, <1>2, <1>3, <1>4, LockStep

\* The row a worker claims is in the outbox.
LEMMA ClaimRowStep ==
    ASSUME IndInv, NEW w \in Worker, NEW c \in Case, NEW o, ClaimRow(w, c, o)
    PROVE  IndInv'
<1> DEFINE claimed == [phase |-> "claimed", case |-> c, ob |-> o]
<1>1. /\ o \in DOMAIN outbox[c]
      /\ delivery' = [delivery EXCEPT ![w] = claimed]
      /\ UNCHANGED <<row, decision, correction, execution, event, tx, build>>
  BY DEF ClaimRow
<1>2. claimed \in DeliveryType
  BY <1>1, LenProperties DEF DeliveryType, ClaimedPhase, Index, IndInv, TypeOK
<1>3. delivery' \in [Worker -> DeliveryType]
  BY <1>1, <1>2 DEF IndInv, TypeOK
<1>4. \A v \in Worker : delivery'[v] = delivery[v] \/ delivery'[v] = claimed
  BY <1>1 DEF IndInv, TypeOK
<1>5. PICK y \in OutType :
        /\ y = [outbox[c][o] EXCEPT !.status = "PROCESSING"]
        /\ y.cor = outbox[c][o].cor /\ y.status = "PROCESSING"
  BY <1>1, RowLocked
<1>6. outbox' = [outbox EXCEPT ![c] = [@ EXCEPT ![o] = y]]
  BY <1>5 DEF ClaimRow
<1> QED
  BY <1>1, <1>3, <1>4, <1>5, <1>6, LockStep

\* Graph-build starts a run of the correction it was sent.
LEMMA BuildAcceptsStep ==
    ASSUME IndInv, NEW w \in Worker, BuildAccepts(w)
    PROVE  IndInv'
<1>1. PICK d \in SentPhase, c \in Case : d = delivery[w] /\ c = d.case
  BY DeliveryShape DEF IndInv, TypeOK, BuildAccepts, SentPhase
<1> DEFINE k == outbox[c][d.ob].cor
<1>2. PICK run :
        /\ <<k, run>> \in ExecId
        /\ delivery' = [delivery EXCEPT ![w].answer = <<k, run>>]
        /\ build' = build \/ build' = [build EXCEPT ![c][<<k, run>>] = "accepted"]
  BY <1>1 DEF BuildAccepts
<1>3. UNCHANGED <<tables, tx>>
  BY DEF BuildAccepts
<1>4. k \in DOMAIN correction[c]
  BY <1>1 DEF IndInv, HeldOK, TablesOK, SentPhase
<1> DEFINE e == [d EXCEPT !.answer = <<k, run>>]
<1>5. /\ e \in SentPhase /\ e.phase = d.phase /\ e.case = d.case /\ e.ob = d.ob
      /\ e.saw = d.saw
  BY <1>2 DEF SentPhase
<1>6. delivery' = [delivery EXCEPT ![w] = e]
  BY <1>1, <1>2
<1> HIDE DEF e
<1>7. delivery' \in [Worker -> DeliveryType]
  BY <1>5, <1>6 DEF IndInv, TypeOK, DeliveryType
<1>8. ASSUME NEW v \in Worker PROVE delivery'[v] = delivery[v] \/ HeldOK(delivery[v])'
  BY <1>1, <1>3, <1>5, <1>6 DEF IndInv, TypeOK, HeldOK, tables
<1>9. /\ build' \in [Case -> [ExecId -> RunState]]
      /\ \A b \in Case : \A x \in RunsOf(b)' :
            x \in RunsOf(b) \/ (b = c /\ x = <<k, run>>)
  <2>1. build \in [Case -> [ExecId -> RunState]]
    BY DEF IndInv, TypeOK
  <2>2. CASE build' = build
    BY <2>1, <2>2 DEF RunsOf
  <2>3. CASE build' = [build EXCEPT ![c][<<k, run>>] = "accepted"]
    <3> DEFINE id == <<k, run>>
    <3>1. id \in ExecId /\ build' = [build EXCEPT ![c][id] = "accepted"]
      BY <1>2, <2>3
    <3> HIDE DEF id
    <3>2. /\ build' \in [Case -> [ExecId -> RunState]]
          /\ \A b \in Case : \A x \in RunsOf(b)' : x \in RunsOf(b) \/ (b = c /\ x = id)
      BY <2>1, <3>1 DEF RunsOf, RunState
    <3> QED
      BY <3>2 DEF id
  <2> QED
    BY <1>2, <2>2, <2>3
<1>10. TypeOK'
  BY <1>3, <1>7, <1>9 DEF IndInv, TypeOK, tables
<1>11. \A b \in Case : TablesOK(b)'
  BY <1>3, <1>4, <1>9 DEF IndInv, TablesOK, TwoPeople, Outstanding, tables
<1>12. Grows
  <2>1. \A b \in Case : /\ Len(decision[b]) \in Nat /\ Len(correction[b]) \in Nat
                        /\ Len(outbox[b]) \in Nat
    BY LenProperties DEF IndInv, TypeOK
  <2> QED
    BY <2>1, <1>3 DEF Grows, GrowsFor, tables
<1>13. \A q \in Proc : tx'[q] = tx[q]
  BY <1>3
<1> QED
  BY <1>8, <1>10, <1>11, <1>12, <1>13, Writes

\* A run that moves on is still the same run.
LEMMA BuildStepsStep ==
    ASSUME IndInv, NEW c \in Case, NEW x \in ExecId, NEW s \in RunState, BuildSteps(c, x, s)
    PROVE  IndInv'
<1>1. /\ UNCHANGED <<tables, tx, delivery>>
      /\ build' = [build EXCEPT ![c][x] = s]
      /\ build[c][x] # "none" /\ s # "none"
  BY DEF BuildSteps, RunStep
<1>2. /\ build' \in [Case -> [ExecId -> RunState]]
      /\ \A b \in Case : RunsOf(b)' = RunsOf(b)
  BY <1>1 DEF IndInv, TypeOK, RunsOf
<1>3. TypeOK'
  BY <1>1, <1>2 DEF IndInv, TypeOK, tables
<1>4. \A b \in Case : TablesOK(b)'
  BY <1>1, <1>2 DEF IndInv, TablesOK, TwoPeople, Outstanding, tables
<1>5. Grows
  <2>1. \A b \in Case : /\ Len(decision[b]) \in Nat /\ Len(correction[b]) \in Nat
                        /\ Len(outbox[b]) \in Nat
    BY LenProperties DEF IndInv, TypeOK
  <2> QED
    BY <2>1, <1>1 DEF Grows, GrowsFor, tables
<1> QED
  BY <1>1, <1>3, <1>4, <1>5, Writes

-----------------------------------------------------------------------------
(* The theorems *)

\* A step that changes nothing.
LEMMA StutterStep == IndInv /\ UNCHANGED vars => IndInv'
<1> SUFFICES ASSUME IndInv, UNCHANGED vars PROVE IndInv'
  OBVIOUS
<1>1. UNCHANGED <<tables, tx, delivery, build>>
  BY DEF vars
<1>2. delivery' \in [Worker -> DeliveryType] /\ tx' \in [Proc -> UnitType]
  BY <1>1 DEF IndInv, TypeOK
<1> QED
  BY <1>1, <1>2, QuietStep

\* Every step of the service, its worker or graph-build keeps the invariant,
\* whichever other sessions are open.
THEOREM Inductive == IndInv /\ [Next]_vars => IndInv'
<1> SUFFICES ASSUME IndInv, [Next]_vars PROVE IndInv'
  OBVIOUS
<1>1. CASE UNCHANGED vars
  BY <1>1, StutterStep
<1>2. ASSUME NEW c \in Case,
             \/ HeartbeatExpires(c)
             \/ \E p \in Proc : ReclaimExpired(p, c)
             \/ \E o \in DOMAIN outbox[c] : ReleaseStaleLock(c, o)
             \/ \E x \in ExecId, s \in RunState : BuildSteps(c, x, s)
      PROVE  IndInv'
  BY <1>2, HeartbeatExpiresStep, ReclaimStep, ReleaseStaleLockStep, BuildStepsStep
<1>3. ASSUME NEW p \in Api, NEW c \in Case,
             \/ CreateReviewRequired(p, c)
             \/ Retry(p, c)
             \/ \E x \in ExecId, t \in EventType : ExecutionEvent(p, c, x, t)
      PROVE  IndInv'
  BY <1>3, CreateReviewRequiredStep, RetryStep, ExecutionEventStep
<1>4. ASSUME NEW p \in Api, NEW c \in Case, NEW u \in User,
             \/ ClaimCase(p, c, u)
             \/ Heartbeat(p, c, u)
             \/ Release(p, c, u)
             \/ Cancel(p, c, u)
             \/ SaveDraft(p, c, u)
             \/ \E to \in User : Transfer(p, c, u, to)
             \/ \E risky \in BOOLEAN : Submit(p, c, u, risky)
             \/ \E ok \in BOOLEAN : Approve(p, c, u, ok)
             \/ \E x \in execution[c], ok \in BOOLEAN : CompleteExecution(p, c, u, x, ok)
      PROVE  IndInv'
  BY <1>4, ClaimCaseStep, HeartbeatStep, ReleaseStep, CancelStep, SaveDraftStep,
     TransferStep, SubmitStep, ApproveStep, CompleteExecutionStep
<1>5. ASSUME NEW p \in Proc,
             \/ CommitRow(p) \/ CommitDecision(p) \/ CommitRetry(p)
             \/ CommitEvent(p) \/ CommitFailure(p) \/ Rollback(p)
      PROVE  IndInv'
  BY <1>5, CommitRowStep, CommitDecisionStep, CommitRetryStep, CommitEventStep,
     CommitFailureStep, RollbackStep
<1>6. ASSUME NEW w \in Worker,
             \/ \E c \in Case : \E o \in DOMAIN outbox[c] : ClaimRow(w, c, o)
             \/ SendResume(w) \/ BuildAccepts(w)
             \/ ResumeAccepted(w) \/ ResumeFailed(w) \/ Crash(w)
      PROVE  IndInv'
  BY <1>6, ClaimRowStep, SendResumeStep, BuildAcceptsStep, ResumeAcceptedStep,
     ResumeFailedStep, CrashStep
<1> QED
  BY <1>1, <1>2, <1>3, <1>4, <1>5, <1>6 DEF Next

\* A run that graph-build knows of belongs to a correction, and every
\* correction comes from a decision that two people stand behind.
LEMMA FourEyesFollows == IndInv => FourEyes
<1> SUFFICES ASSUME IndInv, NEW c \in Case, NEW x \in RunsOf(c)
             PROVE  TwoPeople(c, decision[c][correction[c][x[1]].decision])
  BY DEF FourEyes
<1> QED
  BY DEF IndInv, TablesOK

\* The newest row of an APPLYING case is outstanding.
LEMMA NoStrandedApplyFollows == IndInv => NoStrandedApply
<1> SUFFICES ASSUME IndInv, NEW c \in Case, row[c].status = "APPLYING"
             PROVE  \E o \in DOMAIN outbox[c] : Outstanding(c, o)
  BY DEF NoStrandedApply
<1>1. Len(outbox[c]) \in DOMAIN outbox[c] /\ Outstanding(c, Len(outbox[c]))
  BY LenProperties DEF IndInv, TypeOK, TablesOK
<1> QED
  BY <1>1

\* The inductive invariant holds in every reachable state.
THEOREM Invariance == Spec => []IndInv
  BY InitInv, Inductive, PTL DEF Spec

\* Every table, session and run keeps its type, for any number of processes.
THEOREM TypeCorrect == Spec => []TypeOK
<1>1. IndInv => TypeOK
  BY DEF IndInv
<1> QED
  BY <1>1, Invariance, PTL

\* Graph-build never runs a decision that needed a second person and has not
\* got one, nor one whose author approved it, however sessions overlap, locks
\* expire and workers crash.
THEOREM FourEyesHolds == Spec => []FourEyes
  BY Invariance, FourEyesFollows, PTL

\* A case that says APPLYING always has an outbox row that a worker has or
\* will take, however sessions overlap, locks expire and workers crash.
THEOREM NoStrandedApplyHolds == Spec => []NoStrandedApply
  BY Invariance, NoStrandedApplyFollows, PTL

=============================================================================
