------------------------- MODULE ReviewOutbox_proofs -------------------------
(***************************************************************************)
(* Proofs about the outbox of ManualReview, for any number of cases and    *)
(* API processes: two workers never have the same row, and a correction    *)
(* that waits for graph-build always has a row that will take it there.    *)
(* Both need that a live worker is never taken for a dead one: the lock    *)
(* outlasts the HTTP call, or there is one worker only.  If it outlasts    *)
(* the call, the service implements ResumeHandoff, step by step.           *)
(***************************************************************************)
EXTENDS ManualReview_proofs, FiniteSetTheorems

OneDispatch == ~SlowDispatch \/ \A v, w \in Worker : v = w

\* A row somebody works on is not done, and its lock is kept.
Locked(c, o) ==
    (\E w \in Worker : HasRow(w, c, o)) =>
      /\ outbox[c][o].status # "DONE"
      /\ ~SlowDispatch => outbox[c][o].status = "PROCESSING"

\* Only a worker stages a failure, it has let go of the row by then, and the
\* correction it puts back is that of the row.
FailureOK(p) ==
    tx[p].kind = "failure" =>
      /\ p \in Worker /\ delivery[p] = Idle
      /\ tx[p].obSet # "DONE"
      /\ tx[p].cor = outbox[tx[p].case][tx[p].ob].cor

\* An event makes no correction wait again.
EventOK(u) == u.kind = "event" => u.corSet # "PENDING"

\* The worker will report the row done and leave the correction as it is:
\* it read a correction that was DISPATCHED already.
Silent(w, c, o) ==
    /\ delivery[w].phase = "sent" /\ delivery[w].case = c /\ delivery[w].ob = o
    /\ delivery[w].saw.cor = "DISPATCHED"

Covers(c, o, k) ==
    /\ o \in DOMAIN outbox[c]
    /\ outbox[c][o].cor = k /\ outbox[c][o].status # "DONE"
    /\ \A w \in Worker : ~Silent(w, c, o)

Waiting(c, k) == k \in DOMAIN correction[c] /\ correction[c][k].status = "PENDING"

OutboxInv ==
    /\ OneHolder
    /\ \A c \in Case : \A o \in DOMAIN outbox[c] : Locked(c, o)
    /\ \A p \in Proc : FailureOK(p) /\ EventOK(tx[p])
    /\ \A c \in Case : \A k : Waiting(c, k) => \E o : Covers(c, o, k)

-----------------------------------------------------------------------------
(* What a step may do *)

\* A row that a worker has is in the outbox.
LEMMA HeldRow ==
    ASSUME IndInv, NEW w \in Worker, NEW c, NEW o, HasRow(w, c, o)
    PROVE  o \in DOMAIN outbox[c]
<1>1. CASE delivery[w].phase # "idle" /\ delivery[w].case = c /\ delivery[w].ob = o
  BY <1>1 DEF IndInv, HeldOK
<1>2. CASE tx[w].kind = "failure" /\ tx[w].case = c /\ tx[w].ob = o
  BY <1>2 DEF IndInv, StagedOK, Proc
<1> QED
  BY <1>1, <1>2 DEF HasRow

\* A step in which no worker takes a row keeps the invariant, if the rows it
\* writes and the failures it stages are sound and what waits is covered.
LEMMA NobodyTakes ==
    ASSUME IndInv, OutboxInv,
           \A w \in Worker : \A c \in Case : \A o : HasRow(w, c, o)' => HasRow(w, c, o),
           \A c \in Case : \A o \in DOMAIN outbox[c] :
             outbox'[c][o] = outbox[c][o] \/ Locked(c, o)',
           \A p \in Proc : FailureOK(p)' /\ EventOK(tx'[p]),
           \A c \in Case : \A k : Waiting(c, k)' => \E o : Covers(c, o, k)'
    PROVE  OutboxInv'
<1>1. OneHolder'
  BY HeldRow DEF OutboxInv, OneHolder
<1>2. ASSUME NEW c \in Case, NEW o \in DOMAIN outbox'[c]
      PROVE  Locked(c, o)'
  <2>1. CASE o \in DOMAIN outbox[c] /\ outbox'[c][o] = outbox[c][o]
    <3>1. Locked(c, o)
      BY <2>1 DEF OutboxInv
    <3> QED
      BY <2>1, <3>1 DEF Locked
  <2>2. CASE o \notin DOMAIN outbox[c]
    BY <2>2, HeldRow DEF Locked
  <2> QED
    BY <2>1, <2>2
<1> QED
  BY <1>1, <1>2 DEF OutboxInv

\* A worker that lets go, or goes on with its row, takes none.
LEMMA LetsGo ==
    ASSUME NEW w \in Worker, NEW c, NEW o,
           delivery'[w] = delivery[w] \/ delivery'[w] = Idle,
           tx'[w] = tx[w] \/ tx'[w].kind # "failure"
    PROVE  HasRow(w, c, o)' => HasRow(w, c, o)
  BY DEF HasRow, Idle

\* A staged failure stays sound while its worker rests and the row keeps its
\* correction.
LEMMA FailureStays ==
    ASSUME IndInv, OutboxInv, NEW p \in Proc,
           \/ tx'[p].kind # "failure"
           \/ tx'[p] = tx[p] /\ (p \in Worker => delivery'[p] \in {delivery[p], Idle}),
           \A c \in Case : \A o \in DOMAIN outbox[c] : outbox'[c][o].cor = outbox[c][o].cor
    PROVE  FailureOK(p)'
<1>1. CASE tx'[p].kind # "failure"
  BY <1>1 DEF FailureOK
<1>2. CASE tx'[p] = tx[p] /\ tx[p].kind = "failure"
                          /\ (p \in Worker => delivery'[p] \in {delivery[p], Idle})
  <2>1. FailureOK(p) /\ StagedOK(tx[p])
    BY DEF IndInv, OutboxInv
  <2>2. tx[p].case \in Case
    BY <1>2, UnitShape DEF IndInv, TypeOK, FailureUnit
  <2> QED
    BY <1>2, <2>1, <2>2 DEF FailureOK, StagedOK
<1> QED
  BY <1>1, <1>2

\* What waited is still covered, if its rows are neither done nor in the hands
\* of a worker that has become silent.
LEMMA StillCovered ==
    ASSUME OutboxInv, NEW c \in Case, NEW k, Waiting(c, k),
           \A o \in DOMAIN outbox[c] :
             Covers(c, o, k) =>
               /\ o \in DOMAIN outbox'[c] /\ outbox'[c][o].cor = outbox[c][o].cor
               /\ outbox'[c][o].status # "DONE"
               /\ \A w \in Worker : ~Silent(w, c, o)'
    PROVE  \E o : Covers(c, o, k)'
<1>1. PICK o : Covers(c, o, k)
  BY DEF OutboxInv
<1>2. o \in DOMAIN outbox[c] /\ outbox[c][o].cor = k
  BY <1>1 DEF Covers
<1>3. Covers(c, o, k)'
  BY <1>1, <1>2 DEF Covers
<1> QED
  BY <1>3

\* A step that writes neither corrections nor the outbox, and in which workers
\* only let go of rows.
LEMMA OutboxQuiet ==
    ASSUME IndInv, OutboxInv, UNCHANGED <<correction, outbox>>,
           \A w \in Worker : delivery'[w] = delivery[w] \/ delivery'[w] = Idle,
           \A p \in Proc : \/ tx'[p] = tx[p]
                           \/ tx'[p].kind # "failure" /\ EventOK(tx'[p])
    PROVE  OutboxInv'
<1>1. \A w \in Worker : \A c \in Case : \A o : HasRow(w, c, o)' => HasRow(w, c, o)
  BY LetsGo DEF Proc
<1>2. \A p \in Proc : FailureOK(p)' /\ EventOK(tx'[p])
  BY FailureStays DEF OutboxInv
<1>3. ASSUME NEW c \in Case, NEW k, Waiting(c, k)'
      PROVE  \E o : Covers(c, o, k)'
  <2>1. Waiting(c, k)
    BY <1>3 DEF Waiting
  <2>2. \A o : \A w \in Worker : Silent(w, c, o)' => Silent(w, c, o)
    BY DEF Silent, Idle
  <2> QED
    BY <2>1, <2>2, StillCovered DEF Covers
<1> QED
  BY <1>1, <1>2, <1>3, NobodyTakes

-----------------------------------------------------------------------------
(* Sessions that do not write the outbox *)

\* A request stages no failure.
LEMMA StageQuiet ==
    ASSUME IndInv, OutboxInv, NEW p \in Proc, NEW unit,
           unit.kind # "failure", EventOK(unit), Stage(p, unit), UNCHANGED delivery
    PROVE  OutboxInv'
<1>1. \A q \in Proc : tx'[q] = tx[q] \/ tx'[q] = unit
  BY DEF Stage, IndInv, TypeOK
<1>2. \A q \in Proc : tx'[q] = tx[q] \/ (tx'[q].kind # "failure" /\ EventOK(tx'[q]))
  BY <1>1
<1> QED
  BY <1>2, OutboxQuiet DEF Stage, tables

\* Requests and callbacks.
LEMMA RequestOutbox ==
    ASSUME IndInv, OutboxInv, NEW p \in Proc, NEW c \in Case, NEW u,
           \/ Heartbeat(p, c, u) \/ Release(p, c, u) \/ Cancel(p, c, u)
           \/ SaveDraft(p, c, u) \/ ReclaimExpired(p, c) \/ Retry(p, c)
           \/ \E to \in User : Transfer(p, c, u, to)
           \/ \E risky \in BOOLEAN : Submit(p, c, u, risky)
           \/ \E ok \in BOOLEAN : Approve(p, c, u, ok)
           \/ \E x \in ExecId, t \in EventType : ExecutionEvent(p, c, x, t)
           \/ \E x \in execution[c], ok \in BOOLEAN : CompleteExecution(p, c, u, x, ok)
    PROVE  OutboxInv'
<1>1. UNCHANGED delivery /\ \E unit : /\ unit.kind # "failure" /\ EventOK(unit)
                                   /\ Stage(p, unit)
  <2>1. CASE \/ Heartbeat(p, c, u) \/ Release(p, c, u) \/ Cancel(p, c, u)
             \/ SaveDraft(p, c, u) \/ \E to \in User : Transfer(p, c, u, to)
    <3>1. UNCHANGED delivery /\ \E set : Stage(p, [kind |-> "row", case |-> c, set |-> set])
      BY <2>1 DEF Heartbeat, Release, Cancel, SaveDraft, Transfer, Mutate, Request
    <3> QED
      BY <3>1 DEF EventOK
  <2>2. CASE ReclaimExpired(p, c)
    BY <2>2 DEF ReclaimExpired, EventOK
  <2>3. CASE \E risky \in BOOLEAN : Submit(p, c, u, risky)
    BY <2>3 DEF Submit, Request, EventOK
  <2>4. CASE \E ok \in BOOLEAN : Approve(p, c, u, ok)
    BY <2>4 DEF Approve, Request, EventOK
  <2>5. CASE Retry(p, c)
    BY <2>5 DEF Retry, Request, EventOK
  <2>6. CASE \/ \E x \in ExecId, t \in EventType : ExecutionEvent(p, c, x, t)
             \/ \E x \in execution[c], ok \in BOOLEAN : CompleteExecution(p, c, u, x, ok)
    <3>1. UNCHANGED delivery /\ \E x, t, src : StageEvent(p, c, x, t, src)
      BY <2>6 DEF ExecutionEvent, CompleteExecution, Request
    <3> QED
      BY <3>1, KeepAssumption DEF StageEvent, EventOK, Change, CorStatus
  <2> QED
    BY <2>1, <2>2, <2>3, <2>4, <2>5, <2>6
<1> QED
  BY <1>1, StageQuiet

\* Sessions that end without touching a correction, and steps of others.
LEMMA OtherOutbox ==
    ASSUME IndInv, OutboxInv, UNCHANGED <<correction, outbox, delivery>>,
           tx' = tx \/ \E p \in Proc : Done(p)
    PROVE  OutboxInv'
<1>1. \A q \in Proc : tx'[q] = tx[q] \/ tx'[q] = NoTx
  BY DEF Done, IndInv, TypeOK
<1> QED
  BY <1>1, OutboxQuiet DEF NoTx, EventOK

-----------------------------------------------------------------------------
(* Commits *)

\* A row nobody can have yet covers its correction.
LEMMA NewRowCovers ==
    ASSUME IndInv, NEW c \in Case, NEW k, UNCHANGED delivery,
           Appended(outbox[c], outbox'[c], NewRow(k))
    PROVE  \E o : Covers(c, o, k)'
<1>1. PICK o : o \in DOMAIN outbox'[c] /\ outbox'[c][o] = NewRow(k) /\ o \notin DOMAIN outbox[c]
  BY DEF Appended
<1>2. \A w \in Worker : ~Silent(w, c, o)'
  BY <1>1 DEF Silent, IndInv, HeldOK
<1>3. Covers(c, o, k)'
  BY <1>1, <1>2 DEF Covers, NewRow
<1> QED
  BY <1>3

\* The status of a correction, and of no other, is written.
LEMMA CorrectionStatus ==
    ASSUME TypeOK, NEW c \in Case, NEW k \in DOMAIN correction[c],
           NEW set \in CorStatus \cup {Keep},
           correction' = [correction EXCEPT ![c][k].status = Write(@, set)]
    PROVE  /\ \A b \in Case : DOMAIN correction'[b] = DOMAIN correction[b]
           /\ \A b \in Case : b # c => correction'[b] = correction[b]
           /\ \A j \in DOMAIN correction[c] : j # k => correction'[c][j] = correction[c][j]
           /\ correction'[c][k].status = Write(correction[c][k].status, set)
<1> DEFINE x == correction[c][k]
           y == [x EXCEPT !.status = Write(x.status, set)]
<1>1. correction \in [Case -> Seq(CorrectionType)] /\ x \in CorrectionType
  BY LenProperties, ElementOfSeq DEF TypeOK
<1>2. y \in CorrectionType /\ y.status = Write(x.status, set)
  BY <1>1 DEF CorrectionType, CorStatus, Write
<1>3. correction' = [correction EXCEPT ![c] = [@ EXCEPT ![k] = y]]
  OBVIOUS
<1>4. correction'[c] = [correction[c] EXCEPT ![k] = y]
  BY <1>1, <1>3
<1>5. \A b \in Case : b # c => correction'[b] = correction[b]
  BY <1>1, <1>3
<1>6. Replaced(correction[c], correction'[c], k, y)
  <2> HIDE DEF y
  <2> QED
    BY <1>1, <1>2, <1>4, ReplaceAt
<1> HIDE DEF y
<1> QED
  BY <1>2, <1>5, <1>6 DEF Replaced

\* A decision that is enqueued brings its own row, any other writes no row.
LEMMA CommitDecisionOutbox ==
    ASSUME IndInv, OutboxInv, NEW p \in Proc, CommitDecision(p)
    PROVE  OutboxInv'
<1>1. PICK unit \in DecisionUnit, c \in Case : unit = tx[p] /\ c = unit.case
  BY UnitShape DEF IndInv, TypeOK, CommitDecision, DecisionUnit
<1>2. UNCHANGED delivery /\ Done(p)
  BY DEF CommitDecision
<1>3. CASE ~unit.enqueue
  BY <1>1, <1>2, <1>3, OtherOutbox DEF CommitDecision
<1>4. CASE unit.enqueue
  <2> DEFINE id == IF unit.at = 0 THEN Len(decision[c]) + 1 ELSE unit.at
             cor == [decision |-> id, status |-> "PENDING"]
             k == Len(correction[c]) + 1
  <2>1. /\ correction' = [correction EXCEPT ![c] = Append(@, cor)]
        /\ outbox' = [outbox EXCEPT ![c] = Append(@, NewRow(k))]
    BY <1>1, <1>4 DEF CommitDecision, EnqueueCorrection
  <2>2. correction \in [Case -> Seq(CorrectionType)] /\ outbox \in [Case -> Seq(OutType)]
    BY DEF IndInv, TypeOK
  <2>3. cor \in CorrectionType /\ NewRow(k) \in OutType
    <3>1. Len(decision[c]) \in Nat /\ Len(correction[c]) \in Nat
      BY LenProperties DEF IndInv, TypeOK
    <3>2. id \in Index
      BY <3>1 DEF DecisionUnit, Index
    <3> QED
      BY <3>1, <3>2 DEF CorrectionType, CorStatus, NewRow, OutType, OutStatus, Index
  <2> HIDE DEF cor, id
  <2>4. /\ correction'[c] = Append(correction[c], cor)
        /\ outbox'[c] = Append(outbox[c], NewRow(k))
        /\ \A b \in Case : b # c => correction'[b] = correction[b] /\ outbox'[b] = outbox[b]
    BY <2>1, <2>2
  <2>5. /\ Appended(correction[c], correction'[c], cor)
        /\ Appended(outbox[c], outbox'[c], NewRow(k))
    BY <2>2, <2>3, <2>4, AppendTo
  <2>6. \A b \in Case : \A o \in DOMAIN outbox[b] :
          o \in DOMAIN outbox'[b] /\ outbox'[b][o] = outbox[b][o]
    BY <2>4, <2>5 DEF Appended
  <2>7. \A q \in Proc : tx'[q] = tx[q] \/ tx'[q] = NoTx
    BY <1>2 DEF Done, IndInv, TypeOK
  <2>8. \A w \in Worker : \A b \in Case : \A o : HasRow(w, b, o)' => HasRow(w, b, o)
    BY <1>2, <2>7, LetsGo DEF Proc, NoTx
  <2>9. \A q \in Proc : FailureOK(q)' /\ EventOK(tx'[q])
    BY <1>2, <2>6, <2>7, FailureStays DEF OutboxInv, EventOK, NoTx
  <2>10. ASSUME NEW b \in Case, NEW j, Waiting(b, j)'
         PROVE  \E o : Covers(b, o, j)'
    <3>1. CASE b = c /\ j = k
      BY <3>1, <1>2, <2>5, NewRowCovers
    <3>2. CASE ~(b = c /\ j = k)
      <4>1. Waiting(b, j)
        <5>1. CASE b # c
          BY <2>10, <5>1, <2>4 DEF Waiting
        <5>2. CASE b = c /\ j # k
          <6>1. /\ DOMAIN correction'[c] = DOMAIN correction[c] \cup {k}
                /\ \A i \in DOMAIN correction[c] : correction'[c][i] = correction[c][i]
            BY <2>5 DEF Appended
          <6> QED
            BY <2>10, <5>2, <6>1 DEF Waiting
        <5> QED
          BY <3>2, <5>1, <5>2
      <4> QED
        BY <1>2, <2>6, <4>1, StillCovered DEF Covers, Silent
    <3> QED
      BY <3>1, <3>2
  <2> QED
    BY <2>6, <2>8, <2>9, <2>10, NobodyTakes
<1> QED
  BY <1>3, <1>4

\* A retry brings a row of its own.
LEMMA CommitRetryOutbox ==
    ASSUME IndInv, OutboxInv, NEW p \in Proc, CommitRetry(p)
    PROVE  OutboxInv'
<1>1. PICK unit \in RetryUnit, c \in Case : unit = tx[p] /\ c = unit.case
  BY UnitShape DEF IndInv, TypeOK, CommitRetry, RetryUnit
<1> DEFINE k == unit.cor
<1>2. k \in Index /\ k \in DOMAIN correction[c]
  BY <1>1 DEF IndInv, StagedOK, RetryUnit
<1>3. /\ correction' = [correction EXCEPT ![c][k].status = Write(@, unit.corSet)]
      /\ outbox' = [outbox EXCEPT ![c] = Append(@, NewRow(k))]
      /\ UNCHANGED delivery /\ Done(p)
  BY <1>1 DEF CommitRetry, SetCorrection
<1>4. /\ \A b \in Case : DOMAIN correction'[b] = DOMAIN correction[b]
      /\ \A b \in Case : b # c => correction'[b] = correction[b]
      /\ \A j \in DOMAIN correction[c] : j # k => correction'[c][j] = correction[c][j]
  BY <1>2, <1>3, CorrectionStatus DEF IndInv, RetryUnit
<1>5. /\ Appended(outbox[c], outbox'[c], NewRow(k))
      /\ \A b \in Case : b # c => outbox'[b] = outbox[b]
  <2>1. outbox \in [Case -> Seq(OutType)] /\ NewRow(k) \in OutType
    BY <1>2 DEF IndInv, TypeOK, NewRow, OutType, OutStatus
  <2>2. outbox'[c] = Append(outbox[c], NewRow(k)) /\ \A b \in Case : b # c => outbox'[b] = outbox[b]
    BY <1>3, <2>1
  <2> QED
    BY <2>1, <2>2, AppendTo
<1> HIDE DEF k
<1>6. \A b \in Case : \A o \in DOMAIN outbox[b] :
        o \in DOMAIN outbox'[b] /\ outbox'[b][o] = outbox[b][o]
  BY <1>5 DEF Appended
<1>7. \A q \in Proc : tx'[q] = tx[q] \/ tx'[q] = NoTx
  BY <1>3 DEF Done, IndInv, TypeOK
<1>8. \A w \in Worker : \A b \in Case : \A o : HasRow(w, b, o)' => HasRow(w, b, o)
  BY <1>3, <1>7, LetsGo DEF Proc, NoTx
<1>9. \A q \in Proc : FailureOK(q)' /\ EventOK(tx'[q])
  BY <1>3, <1>6, <1>7, FailureStays DEF OutboxInv, EventOK, NoTx
<1>10. ASSUME NEW b \in Case, NEW j, Waiting(b, j)'
       PROVE  \E o : Covers(b, o, j)'
  <2>1. CASE b = c /\ j = k
    BY <2>1, <1>3, <1>5, NewRowCovers
  <2>2. CASE ~(b = c /\ j = k)
    <3>1. Waiting(b, j)
      BY <1>10, <2>2, <1>4 DEF Waiting
    <3> QED
      BY <1>3, <1>6, <3>1, StillCovered DEF Covers, Silent
  <2> QED
    BY <2>1, <2>2
<1> QED
  BY <1>6, <1>8, <1>9, <1>10, NobodyTakes

\* An event makes no correction wait.
LEMMA CommitEventOutbox ==
    ASSUME IndInv, OutboxInv, NEW p \in Proc, CommitEvent(p)
    PROVE  OutboxInv'
<1>1. PICK unit \in EventUnit, c \in Case : unit = tx[p] /\ c = unit.case
  BY UnitShape DEF IndInv, TypeOK, CommitEvent, EventUnit
<1>2. UNCHANGED <<outbox, delivery>> /\ Done(p)
  BY DEF CommitEvent
<1>3. CASE unit.cor = 0
  BY <1>1, <1>2, <1>3, OtherOutbox DEF CommitEvent
<1>4. CASE unit.cor # 0
  <2>1. unit.cor \in DOMAIN correction[c]
    BY <1>1, <1>4 DEF IndInv, StagedOK, EventUnit
  <2>2. unit.corSet \in CorStatus \cup {Keep} /\ unit.corSet # "PENDING"
    BY <1>1 DEF OutboxInv, EventOK, EventUnit
  <2>3. correction' = [correction EXCEPT ![c][unit.cor].status = Write(@, unit.corSet)]
    BY <1>1, <1>4 DEF CommitEvent, SetCorrection
  <2>4. /\ \A b \in Case : DOMAIN correction'[b] = DOMAIN correction[b]
        /\ \A b \in Case : b # c => correction'[b] = correction[b]
        /\ \A j \in DOMAIN correction[c] : j # unit.cor => correction'[c][j] = correction[c][j]
        /\ correction'[c][unit.cor].status = Write(correction[c][unit.cor].status, unit.corSet)
    BY <2>1, <2>2, <2>3, CorrectionStatus DEF IndInv
  <2>5. \A q \in Proc : tx'[q] = tx[q] \/ tx'[q] = NoTx
    BY <1>2 DEF Done, IndInv, TypeOK
  <2>6. \A w \in Worker : \A b \in Case : \A o : HasRow(w, b, o)' => HasRow(w, b, o)
    BY <1>2, <2>5, LetsGo DEF Proc, NoTx
  <2>7. \A q \in Proc : FailureOK(q)' /\ EventOK(tx'[q])
    BY <1>2, <2>5, FailureStays DEF OutboxInv, EventOK, NoTx
  <2>8. ASSUME NEW b \in Case, NEW j, Waiting(b, j)'
        PROVE  \E o : Covers(b, o, j)'
    <3>1. Waiting(b, j)
      BY <2>8, <2>2, <2>4 DEF Waiting, Write
    <3> QED
      BY <1>2, <3>1, StillCovered DEF Covers, Silent
  <2> QED
    BY <1>2, <2>6, <2>7, <2>8, NobodyTakes
<1> QED
  BY <1>3, <1>4

\* A failure gives the correction back to its row, which no other worker has.
LEMMA CommitFailureOutbox ==
    ASSUME IndInv, OutboxInv, NEW p \in Proc, CommitFailure(p)
    PROVE  OutboxInv'
<1>1. PICK unit \in FailureUnit, c \in Case : unit = tx[p] /\ c = unit.case
  BY UnitShape DEF IndInv, TypeOK, CommitFailure, FailureUnit
<1>2. /\ unit.kind = "failure" /\ unit.obSet \in OutStatus \cup {Keep}
      /\ unit.attempts \in Nat /\ unit.corSet \in CorStatus \cup {Keep}
  BY DEF FailureUnit
<1> DEFINE k == unit.cor
           ob == unit.ob
<1>3. k \in DOMAIN correction[c] /\ ob \in DOMAIN outbox[c]
  BY <1>1, <1>2 DEF IndInv, StagedOK
<1>4. /\ p \in Worker /\ delivery[p] = Idle
      /\ unit.obSet # "DONE" /\ outbox[c][ob].cor = k
  BY <1>1, <1>2 DEF OutboxInv, FailureOK
<1>5. /\ HasRow(p, c, ob)
      /\ \A w \in Worker : HasRow(w, c, ob) => w = p
      /\ outbox[c][ob].status # "DONE"
  <2>1. HasRow(p, c, ob)
    BY <1>1, <1>2 DEF HasRow
  <2> QED
    BY <2>1, <1>3, <1>4 DEF OutboxInv, OneHolder, Locked
<1>6. /\ correction' = [correction EXCEPT ![c][k].status = Write(@, unit.corSet)]
      /\ outbox' = [outbox EXCEPT ![c][ob].status = Write(@, unit.obSet),
                                  ![c][ob].attempts = unit.attempts]
      /\ UNCHANGED delivery /\ Done(p)
  BY <1>1 DEF CommitFailure, SetCorrection
<1>7. /\ \A b \in Case : DOMAIN correction'[b] = DOMAIN correction[b]
      /\ \A b \in Case : b # c => correction'[b] = correction[b]
      /\ \A j \in DOMAIN correction[c] : j # k => correction'[c][j] = correction[c][j]
  BY <1>2, <1>3, <1>6, CorrectionStatus DEF IndInv
<1>8. /\ \A b \in Case : DOMAIN outbox'[b] = DOMAIN outbox[b]
      /\ \A b \in Case : \A o \in DOMAIN outbox[b] :
            ~(b = c /\ o = ob) => outbox'[b][o] = outbox[b][o]
      /\ outbox'[c][ob].cor = k /\ outbox'[c][ob].status # "DONE"
  <2> DEFINE x == outbox[c][ob]
             y == [x EXCEPT !.status = Write(x.status, unit.obSet), !.attempts = unit.attempts]
  <2>1. x \in OutType
    BY <1>3, LenProperties, ElementOfSeq DEF IndInv, TypeOK
  <2>2. y \in OutType /\ y.cor = x.cor /\ y.status # "DONE"
    BY <2>1, <1>2, <1>4, <1>5 DEF OutType, OutStatus, Write
  <2>3. outbox' = [outbox EXCEPT ![c] = [@ EXCEPT ![ob] = y]]
    BY <1>6
  <2> HIDE DEF y
  <2>4. /\ \A b \in Case : b # c => outbox'[b] = outbox[b]
        /\ SameOutbox(c)
        /\ \A j \in DOMAIN outbox[c] : outbox'[c][j] = IF j = ob THEN y ELSE outbox[c][j]
    BY <2>2, <2>3, <1>3, WriteOutbox DEF IndInv
  <2> QED
    BY <2>2, <2>4, <1>3, <1>4 DEF SameOutbox
<1> HIDE DEF k, ob
<1>9. UNCHANGED delivery /\ \A q \in Proc : tx'[q] = tx[q] \/ tx'[q] = NoTx
  BY <1>6 DEF Done, IndInv, TypeOK
<1>10. \A w \in Worker : \A b \in Case : \A o : HasRow(w, b, o)' => HasRow(w, b, o)
  BY <1>9, LetsGo DEF Proc, NoTx
<1>11. \A q \in Proc : FailureOK(q)' /\ EventOK(tx'[q])
  <2>1. \A b \in Case : \A o \in DOMAIN outbox[b] : outbox'[b][o].cor = outbox[b][o].cor
    BY <1>4, <1>8 DEF k, ob
  <2> QED
    BY <2>1, <1>9, FailureStays DEF OutboxInv, EventOK, NoTx
<1>12. Locked(c, ob)'
  <2>1. ~HasRow(p, c, ob)'
    BY <1>4, <1>6 DEF HasRow, Done, Idle, NoTx, IndInv, TypeOK
  <2> QED
    BY <2>1, <1>5, <1>10 DEF Locked
<1>13. ASSUME NEW b \in Case, NEW j, Waiting(b, j)'
       PROVE  \E o : Covers(b, o, j)'
  <2>1. CASE b = c /\ j = k
    <3>1. \A w \in Worker : ~Silent(w, c, ob)'
      BY <1>4, <1>5, <1>9 DEF Silent, HasRow, Idle
    <3> QED
      BY <2>1, <3>1, <1>3, <1>8 DEF Covers, ob
  <2>2. CASE ~(b = c /\ j = k)
    <3>1. Waiting(b, j)
      BY <1>13, <2>2, <1>7 DEF Waiting
    <3>2. \A o \in DOMAIN outbox[b] : Covers(b, o, j) => outbox'[b][o] = outbox[b][o]
      BY <2>2, <1>4, <1>8 DEF Covers, k, ob
    <3> QED
      BY <1>8, <1>9, <3>1, <3>2, StillCovered DEF Covers, Silent
  <2> QED
    BY <2>1, <2>2
<1> QED
  BY <1>8, <1>10, <1>11, <1>12, <1>13, NobodyTakes

-----------------------------------------------------------------------------
(* The worker *)

\* A row is written in place; the others stay.
LEMMA RowStatus ==
    ASSUME IndInv, NEW c \in Case, NEW o \in DOMAIN outbox[c],
           NEW s \in {"PROCESSING", "RETRY", "DONE"},
           outbox' = [outbox EXCEPT ![c][o].status = s]
    PROVE  /\ \A b \in Case : DOMAIN outbox'[b] = DOMAIN outbox[b]
           /\ \A b \in Case : \A j \in DOMAIN outbox[b] :
                 ~(b = c /\ j = o) => outbox'[b][j] = outbox[b][j]
           /\ outbox'[c][o].cor = outbox[c][o].cor /\ outbox'[c][o].status = s
<1>1. PICK y \in OutType :
        /\ y = [outbox[c][o] EXCEPT !.status = s]
        /\ y.cor = outbox[c][o].cor /\ y.status = s
  <2> DEFINE y == [outbox[c][o] EXCEPT !.status = s]
  <2>1. outbox[c][o] \in OutType
    BY LenProperties, ElementOfSeq DEF IndInv, TypeOK
  <2>2. y \in OutType /\ y.cor = outbox[c][o].cor /\ y.status = s
    BY <2>1 DEF OutType, OutStatus
  <2> QED
    BY <2>2, Zenon
<1>2. /\ outbox[c] \in Seq(OutType) /\ outbox'[c] = [outbox[c] EXCEPT ![o] = y]
      /\ \A b \in Case : b # c => outbox'[b] = outbox[b]
  BY <1>1 DEF IndInv, TypeOK
<1>3. Replaced(outbox[c], outbox'[c], o, y)
  BY <1>2, ReplaceAt
<1> QED
  BY <1>1, <1>2, <1>3 DEF Replaced

\* A lock expires when nobody holds it, unless a dispatch may be slow.
LEMMA ReleaseOutbox ==
    ASSUME IndInv, OutboxInv, NEW c \in Case, NEW o, ReleaseStaleLock(c, o)
    PROVE  OutboxInv'
<1>1. /\ o \in DOMAIN outbox[c] /\ LockExpired(c, o)
      /\ outbox' = [outbox EXCEPT ![c][o].status = "RETRY"]
      /\ UNCHANGED <<correction, tx, delivery>>
  BY DEF ReleaseStaleLock
<1>2. /\ \A b \in Case : DOMAIN outbox'[b] = DOMAIN outbox[b]
      /\ \A b \in Case : \A j \in DOMAIN outbox[b] :
            ~(b = c /\ j = o) => outbox'[b][j] = outbox[b][j]
      /\ outbox'[c][o].cor = outbox[c][o].cor /\ outbox'[c][o].status = "RETRY"
  BY <1>1, RowStatus
<1>3. \A w \in Worker : \A b \in Case : \A j : HasRow(w, b, j)' => HasRow(w, b, j)
  BY <1>1, LetsGo
<1>4. \A p \in Proc : FailureOK(p)' /\ EventOK(tx'[p])
  <2>1. \A b \in Case : \A j \in DOMAIN outbox[b] : outbox'[b][j].cor = outbox[b][j].cor
    BY <1>2
  <2> QED
    BY <2>1, <1>1, FailureStays DEF OutboxInv
<1>5. Locked(c, o)'
  <2>1. ~SlowDispatch => \A w \in Worker : ~HasRow(w, c, o)'
    BY <1>1, <1>3 DEF LockExpired
  <2> QED
    BY <2>1, <1>2 DEF Locked
<1>6. ASSUME NEW b \in Case, NEW k, Waiting(b, k)'
      PROVE  \E j : Covers(b, j, k)'
  <2>1. Waiting(b, k)
    BY <1>1, <1>6 DEF Waiting
  <2>2. \A j \in DOMAIN outbox[b] : Covers(b, j, k) =>
           outbox'[b][j].cor = outbox[b][j].cor /\ outbox'[b][j].status # "DONE"
    BY <1>2 DEF Covers
  <2> QED
    BY <1>1, <1>2, <2>1, <2>2, StillCovered DEF Covers, Silent
<1> QED
  BY <1>2, <1>3, <1>4, <1>5, <1>6, NobodyTakes

\* A claimed row is in nobody else's hands.
LEMMA ClaimOutbox ==
    ASSUME IndInv, OutboxInv, OneDispatch, NEW w \in Worker, NEW c \in Case, NEW o,
           ClaimRow(w, c, o)
    PROVE  OutboxInv'
<1> DEFINE claimed == [phase |-> "claimed", case |-> c, ob |-> o]
<1>1. /\ o \in DOMAIN outbox[c] /\ outbox[c][o].status \in Ready
      /\ outbox' = [outbox EXCEPT ![c][o].status = "PROCESSING"]
      /\ delivery' = [delivery EXCEPT ![w] = claimed]
      /\ delivery[w] = Idle /\ tx[w] = NoTx
      /\ UNCHANGED <<correction, tx>>
  BY DEF ClaimRow, CanClaim
<1>2. /\ \A b \in Case : DOMAIN outbox'[b] = DOMAIN outbox[b]
      /\ \A b \in Case : \A j \in DOMAIN outbox[b] :
            ~(b = c /\ j = o) => outbox'[b][j] = outbox[b][j]
      /\ outbox'[c][o].cor = outbox[c][o].cor /\ outbox'[c][o].status = "PROCESSING"
  BY <1>1, RowStatus
<1>3. delivery'[w] = claimed /\ \A v \in Worker : v # w => delivery'[v] = delivery[v]
  BY <1>1 DEF IndInv, TypeOK
<1>4. \A v \in Worker : \A b, j :
        HasRow(v, b, j)' => HasRow(v, b, j) \/ (v = w /\ b = c /\ j = o)
  BY <1>1, <1>3 DEF HasRow, NoTx
<1>5. \A v \in Worker : v # w => ~HasRow(v, c, o)
  BY <1>1 DEF OneDispatch, OutboxInv, Locked, Ready
<1>6. \A b, j : ~HasRow(w, b, j)
  BY <1>1 DEF HasRow, Idle, NoTx
<1>7. OneHolder'
  BY <1>2, <1>4, <1>5, <1>6 DEF OutboxInv, OneHolder
<1>8. ASSUME NEW b \in Case, NEW j \in DOMAIN outbox'[b] PROVE Locked(b, j)'
  <2>1. CASE b = c /\ j = o
    BY <2>1, <1>2 DEF Locked
  <2>2. CASE ~(b = c /\ j = o)
    <3>1. Locked(b, j) /\ outbox'[b][j] = outbox[b][j]
      BY <2>2, <1>2 DEF OutboxInv
    <3> QED
      BY <2>2, <3>1, <1>4 DEF Locked
  <2> QED
    BY <2>1, <2>2
<1>9. ASSUME NEW p \in Proc PROVE FailureOK(p)' /\ EventOK(tx'[p])
  <2>1. EventOK(tx'[p])
    BY <1>1 DEF OutboxInv
  <2>2. CASE p = w
    BY <2>1, <2>2, <1>1 DEF FailureOK, NoTx
  <2>3. CASE p # w
    <3>1. \A b \in Case : \A j \in DOMAIN outbox[b] : outbox'[b][j].cor = outbox[b][j].cor
      BY <1>2
    <3> QED
      BY <2>1, <2>3, <3>1, <1>1, <1>3, FailureStays
  <2> QED
    BY <2>2, <2>3
<1>10. ASSUME NEW b \in Case, NEW k, Waiting(b, k)'
       PROVE  \E j : Covers(b, j, k)'
  <2>1. Waiting(b, k)
    BY <1>1, <1>10 DEF Waiting
  <2>2. \A j \in DOMAIN outbox[b] : Covers(b, j, k) =>
           outbox'[b][j].cor = outbox[b][j].cor /\ outbox'[b][j].status # "DONE"
    BY <1>2 DEF Covers
  <2>3. \A v \in Worker : \A j : Silent(v, b, j)' => Silent(v, b, j)
    BY <1>3 DEF Silent
  <2> QED
    BY <1>2, <2>1, <2>2, <2>3, StillCovered DEF Covers
<1> QED
  BY <1>7, <1>8, <1>9, <1>10 DEF OutboxInv

\* The worker that is not silent marks the correction DISPATCHED; if it is,
\* the row was not the one that covered the correction.
LEMMA AcceptedOutbox ==
    ASSUME IndInv, OutboxInv, NEW w \in Worker, ResumeAccepted(w)
    PROVE  OutboxInv'
<1>1. PICK d \in SentPhase, c \in Case : d = delivery[w] /\ c = d.case
  BY DeliveryShape DEF IndInv, TypeOK, ResumeAccepted, SentPhase
<1>2. PICK o, k, set :
        /\ o = d.ob /\ k = outbox[c][o].cor /\ set = Change(d.saw.cor, "DISPATCHED")
        /\ correction' = [correction EXCEPT ![c][k].status = Write(@, set)]
        /\ outbox' = [outbox EXCEPT ![c][o].status = "DONE"]
        /\ delivery' = [delivery EXCEPT ![w] = Idle]
        /\ d.phase = "sent" /\ tx[w] = NoTx /\ UNCHANGED tx
  BY <1>1 DEF ResumeAccepted
<1>3. /\ o \in DOMAIN outbox[c] /\ k \in DOMAIN correction[c]
      /\ set \in {Keep, "DISPATCHED"} /\ (set = Keep => d.saw.cor = "DISPATCHED")
  <2>1. o \in DOMAIN outbox[c]
    BY <1>1, <1>2 DEF IndInv, HeldOK
  <2> QED
    BY <2>1, <1>2, KeepAssumption DEF IndInv, TablesOK, Change, CorStatus
<1>4. HasRow(w, c, o) /\ \A v \in Worker : HasRow(v, c, o) => v = w
  <2>1. HasRow(w, c, o)
    BY <1>1, <1>2 DEF HasRow
  <2> QED
    BY <2>1, <1>3 DEF OutboxInv, OneHolder
<1>5. /\ \A b \in Case : DOMAIN correction'[b] = DOMAIN correction[b]
      /\ \A b \in Case : b # c => correction'[b] = correction[b]
      /\ \A j \in DOMAIN correction[c] : j # k => correction'[c][j] = correction[c][j]
      /\ correction'[c][k].status = Write(correction[c][k].status, set)
  <2>1. set \in CorStatus \cup {Keep}
    BY <1>3 DEF CorStatus
  <2> QED
    BY <2>1, <1>2, <1>3, CorrectionStatus DEF IndInv
<1>6. /\ \A b \in Case : DOMAIN outbox'[b] = DOMAIN outbox[b]
      /\ \A b \in Case : \A j \in DOMAIN outbox[b] :
            ~(b = c /\ j = o) => outbox'[b][j] = outbox[b][j]
      /\ outbox'[c][o].cor = outbox[c][o].cor
  <2>1. outbox' = [outbox EXCEPT ![c][o].status = "DONE"]
    BY <1>2
  <2>2. o \in DOMAIN outbox[c]
    BY <1>3
  <2> QED
    BY <2>1, <2>2, RowStatus
<1>7. \A v \in Worker : delivery'[v] = delivery[v] \/ delivery'[v] = Idle
  BY <1>2 DEF IndInv, TypeOK
<1>8. \A v \in Worker : \A b \in Case : \A j : HasRow(v, b, j)' => HasRow(v, b, j)
  BY <1>2, <1>7, LetsGo
<1>9. \A p \in Proc : FailureOK(p)' /\ EventOK(tx'[p])
  <2>1. \A b \in Case : \A j \in DOMAIN outbox[b] : outbox'[b][j].cor = outbox[b][j].cor
    BY <1>6
  <2> QED
    BY <2>1, <1>2, <1>7, FailureStays DEF OutboxInv
<1>10. Locked(c, o)'
  <2>1. ~HasRow(w, c, o)'
    BY <1>2 DEF HasRow, Idle, NoTx, IndInv, TypeOK
  <2> QED
    BY <2>1, <1>4, <1>8 DEF Locked
<1>11. ASSUME NEW b \in Case, NEW j, Waiting(b, j)'
       PROVE  \E i : Covers(b, i, j)'
  <2>1. Waiting(b, j) /\ (b = c /\ j = k => d.saw.cor = "DISPATCHED")
    BY <1>3, <1>5, <1>11 DEF Waiting, Write
  <2>2. ~Covers(b, o, j) \/ b # c
    BY <2>1, <1>1, <1>2 DEF Covers, Silent
  <2>3. \A i \in DOMAIN outbox[b] : Covers(b, i, j) => outbox'[b][i] = outbox[b][i]
    BY <2>2, <1>6
  <2>4. \A v \in Worker : \A i : Silent(v, b, i)' => Silent(v, b, i)
    BY <1>7 DEF Silent, Idle
  <2> QED
    BY <1>6, <2>1, <2>3, <2>4, StillCovered DEF Covers
<1> QED
  BY <1>6, <1>8, <1>9, <1>10, <1>11, NobodyTakes

\* The worker reads the correction as it is; then graph-build answers.
LEMMA SendOutbox ==
    ASSUME IndInv, OutboxInv, NEW w \in Worker, SendResume(w) \/ BuildAccepts(w)
    PROVE  OutboxInv'
<1>1. PICK c, o : c = delivery[w].case /\ o = delivery[w].ob
  OBVIOUS
<1>2. /\ UNCHANGED <<correction, outbox, tx>> /\ delivery[w].phase # "idle"
      /\ \A v \in Worker : v # w => delivery'[v] = delivery[v]
  BY DEF SendResume, BuildAccepts, tables, IndInv, TypeOK
<1>3. c \in Case
  BY <1>1, <1>2, DeliveryShape DEF IndInv, TypeOK
<1>4. \/ delivery'[w] = Idle
      \/ /\ delivery'[w].case = c /\ delivery'[w].ob = o
         /\ \/ delivery'[w].saw.cor = correction[c][outbox[c][o].cor].status
            \/ /\ delivery[w].phase = "sent"
               /\ delivery'[w].saw.cor = delivery[w].saw.cor
  <2>1. CASE SendResume(w)
    <3> DEFINE saw == [status |-> row[c].status, version |-> row[c].version,
                       cor |-> correction[c][outbox[c][o].cor].status,
                       known |-> execution[c]]
               sent == [phase |-> "sent", case |-> c, ob |-> o, answer |-> NoAnswer,
                        saw |-> saw]
    <3>1. delivery'[w] = Idle \/ delivery'[w] = sent
      BY <1>1, <2>1 DEF SendResume, IndInv, TypeOK
    <3>2. sent.case = c /\ sent.ob = o /\ sent.saw.cor = correction[c][outbox[c][o].cor].status
      OBVIOUS
    <3> QED
      BY <3>1, <3>2
  <2>2. CASE BuildAccepts(w)
    <3>1. delivery[w] \in SentPhase
      BY <2>2, DeliveryShape DEF BuildAccepts, IndInv, TypeOK
    <3>2. PICK x : delivery' = [delivery EXCEPT ![w].answer = x]
      BY <2>2 DEF BuildAccepts
    <3>3. delivery'[w] = [delivery[w] EXCEPT !.answer = x]
      BY <3>2 DEF IndInv, TypeOK
    <3> QED
      BY <1>1, <2>2, <3>1, <3>3 DEF SentPhase, BuildAccepts
  <2> QED
    BY <2>1, <2>2
<1>5. \A v \in Worker : \A b \in Case : \A j : HasRow(v, b, j)' => HasRow(v, b, j)
  BY <1>1, <1>2, <1>4 DEF HasRow, Idle
<1>6. ASSUME NEW p \in Proc PROVE FailureOK(p)' /\ EventOK(tx'[p])
  <2>1. CASE p = w
    BY <2>1, <1>2 DEF OutboxInv, FailureOK, Idle
  <2>2. CASE p # w
    BY <2>2, <1>2, FailureStays DEF OutboxInv
  <2> QED
    BY <2>1, <2>2
<1>7. ASSUME NEW b \in Case, NEW k, Waiting(b, k)'
      PROVE  \E j : Covers(b, j, k)'
  <2>1. Waiting(b, k)
    BY <1>2, <1>7 DEF Waiting
  <2>2. ASSUME NEW j \in DOMAIN outbox[b], Covers(b, j, k), NEW v \in Worker
        PROVE  ~Silent(v, b, j)'
    <3>1. CASE v # w
      BY <3>1, <2>2, <1>2 DEF Covers, Silent
    <3>2. CASE v = w /\ (b # c \/ j # o)
      BY <3>2, <1>4 DEF Silent, Idle
    <3>3. CASE v = w /\ b = c /\ j = o
      BY <3>3, <2>1, <2>2, <1>1, <1>4 DEF Covers, Silent, Waiting, Idle
    <3> QED
      BY <3>1, <3>2, <3>3
  <2> QED
    BY <1>2, <2>1, <2>2, StillCovered DEF Covers
<1> QED
  BY <1>2, <1>5, <1>6, <1>7, NobodyTakes

\* The worker keeps its row until the failure is written.
LEMMA FailedOutbox ==
    ASSUME IndInv, OutboxInv, NEW w \in Worker, ResumeFailed(w)
    PROVE  OutboxInv'
<1>1. PICK unit, c, o :
        /\ c = delivery[w].case /\ o = delivery[w].ob /\ delivery[w].phase = "sent"
        /\ unit.kind = "failure" /\ unit.case = c /\ unit.ob = o
        /\ unit.obSet \in {Keep, "DEAD", "RETRY"} /\ unit.cor = outbox[c][o].cor
        /\ Stage(w, unit)
        /\ delivery' = [delivery EXCEPT ![w] = Idle]
  BY DEF ResumeFailed, Change
<1>2. UNCHANGED <<correction, outbox>>
  BY <1>1 DEF Stage, tables
<1>3. /\ tx'[w] = unit /\ \A p \in Proc : p # w => tx'[p] = tx[p]
      /\ delivery'[w] = Idle /\ \A v \in Worker : v # w => delivery'[v] = delivery[v]
  BY <1>1 DEF Stage, IndInv, TypeOK, Proc
<1>4. \A v \in Worker : \A b \in Case : \A j : HasRow(v, b, j)' => HasRow(v, b, j)
  BY <1>1, <1>3 DEF HasRow, Idle, Proc
<1>5. ASSUME NEW p \in Proc PROVE FailureOK(p)' /\ EventOK(tx'[p])
  <2>1. CASE p = w
    BY <2>1, <1>1, <1>2, <1>3, KeepAssumption DEF FailureOK, EventOK, OutStatus
  <2>2. CASE p # w
    BY <2>2, <1>2, <1>3, FailureStays DEF OutboxInv
  <2> QED
    BY <2>1, <2>2
<1>6. ASSUME NEW b \in Case, NEW k, Waiting(b, k)'
      PROVE  \E j : Covers(b, j, k)'
  <2>1. Waiting(b, k)
    BY <1>2, <1>6 DEF Waiting
  <2>2. \A v \in Worker : \A j : Silent(v, b, j)' => Silent(v, b, j)
    BY <1>3 DEF Silent, Idle
  <2> QED
    BY <1>2, <2>1, <2>2, StillCovered DEF Covers
<1> QED
  BY <1>2, <1>4, <1>5, <1>6, NobodyTakes

-----------------------------------------------------------------------------
(* The theorems *)

\* Initially there are no rows.
LEMMA InitOutbox == Init => OutboxInv
<1> SUFFICES ASSUME Init PROVE OutboxInv
  OBVIOUS
<1>1. OneHolder
  BY DEF Init, OneHolder
<1>2. \A c \in Case : \A o \in DOMAIN outbox[c] : Locked(c, o)
  BY DEF Init
<1>3. \A p \in Proc : FailureOK(p) /\ EventOK(tx[p])
  BY DEF Init, FailureOK, EventOK, NoTx
<1>4. \A c \in Case : \A k : ~Waiting(c, k)
  BY DEF Init, Waiting
<1> QED
  BY <1>1, <1>2, <1>3, <1>4 DEF OutboxInv

\* Every step keeps the invariant.
LEMMA NextOutbox ==
    ASSUME OneDispatch, IndInv, OutboxInv, [Next]_vars
    PROVE  OutboxInv'
<1>1. CASE UNCHANGED vars
  BY <1>1, OtherOutbox DEF vars, tables
<1>2. ASSUME NEW c \in Case,
             \/ HeartbeatExpires(c)
             \/ \E p \in Proc : ReclaimExpired(p, c)
             \/ \E o \in DOMAIN outbox[c] : ReleaseStaleLock(c, o)
             \/ \E x \in ExecId, s \in RunState : BuildSteps(c, x, s)
      PROVE  OutboxInv'
  <2>1. CASE HeartbeatExpires(c)
    BY <2>1, OtherOutbox DEF HeartbeatExpires
  <2>2. CASE \E p \in Proc : ReclaimExpired(p, c)
    BY <2>2, RequestOutbox
  <2>3. CASE \E o \in DOMAIN outbox[c] : ReleaseStaleLock(c, o)
    BY <2>3, ReleaseOutbox
  <2>4. CASE \E x \in ExecId, s \in RunState : BuildSteps(c, x, s)
    BY <2>4, OtherOutbox DEF BuildSteps, tables
  <2> QED
    BY <1>2, <2>1, <2>2, <2>3, <2>4
<1>3. ASSUME NEW p \in Api, NEW c \in Case,
             \/ CreateReviewRequired(p, c)
             \/ Retry(p, c)
             \/ \E x \in ExecId, t \in EventType : ExecutionEvent(p, c, x, t)
      PROVE  OutboxInv'
  <2>1. p \in Proc
    BY DEF Proc
  <2>2. CASE CreateReviewRequired(p, c)
    BY <2>2, OtherOutbox DEF CreateReviewRequired
  <2> QED
    BY <1>3, <2>1, <2>2, RequestOutbox
<1>4. ASSUME NEW p \in Api, NEW c \in Case, NEW u \in User,
             \/ ClaimCase(p, c, u)
             \/ Heartbeat(p, c, u)
             \/ Release(p, c, u)
             \/ Cancel(p, c, u)
             \/ SaveDraft(p, c, u)
             \/ \E to \in User : Transfer(p, c, u, to)
             \/ \E risky \in BOOLEAN : Submit(p, c, u, risky)
             \/ \E ok \in BOOLEAN : Approve(p, c, u, ok)
             \/ \E x \in execution[c], ok \in BOOLEAN : CompleteExecution(p, c, u, x, ok)
      PROVE  OutboxInv'
  <2>1. p \in Proc
    BY DEF Proc
  <2>2. CASE ClaimCase(p, c, u)
    BY <2>2, OtherOutbox DEF ClaimCase
  <2> QED
    BY <1>4, <2>1, <2>2, RequestOutbox
<1>5. ASSUME NEW p \in Proc,
             \/ CommitRow(p) \/ CommitDecision(p) \/ CommitRetry(p)
             \/ CommitEvent(p) \/ CommitFailure(p) \/ Rollback(p)
      PROVE  OutboxInv'
  <2>1. CASE CommitRow(p)
    BY <2>1, OtherOutbox DEF CommitRow
  <2>2. CASE Rollback(p)
    BY <2>2, OtherOutbox DEF Rollback, tables
  <2> QED
    BY <1>5, <2>1, <2>2, CommitDecisionOutbox, CommitRetryOutbox, CommitEventOutbox,
       CommitFailureOutbox
<1>6. ASSUME NEW w \in Worker,
             \/ \E c \in Case : \E o \in DOMAIN outbox[c] : ClaimRow(w, c, o)
             \/ SendResume(w) \/ BuildAccepts(w)
             \/ ResumeAccepted(w) \/ ResumeFailed(w) \/ Crash(w)
      PROVE  OutboxInv'
  <2>1. CASE Crash(w)
    <3>1. \A v \in Worker : delivery'[v] = delivery[v] \/ delivery'[v] = Idle
      BY <2>1 DEF Crash, IndInv, TypeOK
    <3> QED
      BY <2>1, <3>1, OutboxQuiet DEF Crash, tables
  <2> QED
    BY <1>6, <2>1, ClaimOutbox, SendOutbox, AcceptedOutbox, FailedOutbox
<1> QED
  BY <1>1, <1>2, <1>3, <1>4, <1>5, <1>6 DEF Next

\* The invariant holds in every reachable state.
THEOREM OutboxInvariance ==
    ASSUME OneDispatch
    PROVE  Spec => []OutboxInv
<1>1. IndInv /\ OutboxInv /\ [Next]_vars => OutboxInv'
  BY NextOutbox
<1> QED
  BY <1>1, InitOutbox, Invariance, PTL DEF Spec

\* No two workers work on the same outbox row, however many there are and
\* wherever they crash, as long as no HTTP call outlasts the lock.
THEOREM OneHolderHolds ==
    ASSUME OneDispatch
    PROVE  Spec => []OneHolder
<1>1. OutboxInv => OneHolder
  BY DEF OutboxInv
<1> QED
  BY <1>1, OutboxInvariance, PTL

\* A correction that waits for graph-build has an outbox row that is not done,
\* whatever crashes, timeouts, retries and verifications came between.
THEOREM NoResumeLostHolds ==
    ASSUME OneDispatch
    PROVE  Spec => []NoResumeLost
<1>1. OutboxInv => NoResumeLost
  BY DEF OutboxInv, NoResumeLost, Waiting, Covers
<1> QED
  BY <1>1, OutboxInvariance, PTL

-----------------------------------------------------------------------------
(* The promise of the outbox: what each step does to the jobs *)

Taken(c) == {x[1] : x \in RunsOf(c)}
Job(x) == [cor |-> x.cor, state |-> JobState(x.status)]
JobType == [cor : Index, state : {"owed", "delivered", "abandoned"}]

\* The jobs of a case, in the abstract specification.
LEMMA JobsShape ==
    ASSUME NEW t \in Seq(OutType), NEW f, f = [o \in DOMAIN t |-> Job(t[o])]
    PROVE  /\ f \in Seq(JobType) /\ Len(f) = Len(t) /\ DOMAIN f = DOMAIN t
           /\ \A o \in DOMAIN t : f[o] = Job(t[o])
           /\ Len(t) \in Nat
<1>1. Len(t) \in Nat /\ DOMAIN t = 1..Len(t)
  BY LenProperties
<1>2. \A o \in 1..Len(t) : Job(t[o]) \in JobType
  <2>1. \A o \in 1..Len(t) : t[o] \in OutType
    BY ElementOfSeq
  <2> QED
    BY <2>1 DEF OutType, Job, JobType, JobState
<1>3. f \in [1..Len(t) -> JobType]
  BY <1>1, <1>2
<1>4. f \in Seq(JobType) /\ DOMAIN f = 1..Len(t)
  BY <1>1, <1>3, SeqDef
<1>5. Len(f) = Len(t)
  BY <1>1, <1>4, LenProperties
<1> QED
  BY <1>1, <1>3, <1>4, <1>5

\* A new row is a new job.
LEMMA AppendsJob ==
    ASSUME NEW t \in Seq(OutType), NEW u \in Seq(OutType), NEW k \in Index,
           Appended(t, u, NewRow(k))
    PROVE  [o \in DOMAIN u |-> Job(u[o])] =
             Append([o \in DOMAIN t |-> Job(t[o])], [cor |-> k, state |-> "owed"])
<1> DEFINE f == [o \in DOMAIN t |-> Job(t[o])]
           g == [o \in DOMAIN u |-> Job(u[o])]
           j == [cor |-> k, state |-> "owed"]
<1>1. /\ f \in Seq(JobType) /\ Len(f) = Len(t) /\ DOMAIN f = DOMAIN t
      /\ \A o \in DOMAIN t : f[o] = Job(t[o])
  BY JobsShape
<1>2. /\ g \in Seq(JobType) /\ Len(g) = Len(u) /\ DOMAIN g = DOMAIN u
      /\ \A o \in DOMAIN u : g[o] = Job(u[o])
  BY JobsShape
<1>3. j \in JobType /\ Job(NewRow(k)) = j
  BY DEF JobType, Job, NewRow, JobState
<1> HIDE DEF f, g, j
<1>4. Append(f, j) \in Seq(JobType) /\ Appended(f, Append(f, j), j)
  BY <1>1, <1>3, AppendTo
<1>5. Len(g) = Len(Append(f, j)) /\ \A o \in 1..Len(g) : g[o] = Append(f, j)[o]
  BY <1>1, <1>2, <1>3, <1>4 DEF Appended
<1> QED
  BY <1>2, <1>4, <1>5, SeqEqual DEF f, g, j

Jobs == [c \in Case |-> [o \in DOMAIN outbox[c] |-> Job(outbox[c][o])]]
Takes == [c \in Case |-> Taken(c)]

\* The rows a step leaves alone, but for their attempts and locks.
SameJob(c, o) == Job(outbox'[c][o]) = Job(outbox[c][o])

\* A step that appends no row and settles none is a stutter.
LEMMA HandStutter ==
    ASSUME \A c \in Case : DOMAIN outbox'[c] = DOMAIN outbox[c],
           \A c \in Case : \A o \in DOMAIN outbox[c] : SameJob(c, o),
           \A c \in Case : Taken(c)' = Taken(c)
    PROVE  UNCHANGED Handoff!vars
<1>1. Jobs' = Jobs
  BY DEF Jobs, SameJob
<1>2. Takes' = Takes
  BY DEF Takes
<1> QED
  BY <1>1, <1>2 DEF Handoff!vars, Jobs, Takes, Job, Taken

\* A new row is a job that is owed.
LEMMA HandOwe ==
    ASSUME outbox \in [Case -> Seq(OutType)], outbox' \in [Case -> Seq(OutType)],
           NEW c \in Case, NEW k \in 1..(Len(outbox[c]) + 1),
           Appended(outbox[c], outbox'[c], NewRow(k)),
           \A b \in Case : b # c => outbox'[b] = outbox[b],
           \A b \in Case : Taken(b)' = Taken(b)
    PROVE  Handoff!Next
<1>1. k \in Index
  BY DEF Index
<1>2. Jobs' = [Jobs EXCEPT ![c] = Append(Jobs[c], [cor |-> k, state |-> "owed"])]
  <2>1. Jobs'[c] = Append(Jobs[c], [cor |-> k, state |-> "owed"])
    <3>1. outbox[c] \in Seq(OutType) /\ outbox'[c] \in Seq(OutType)
      OBVIOUS
    <3>2. [o \in DOMAIN outbox'[c] |-> Job(outbox'[c][o])] =
            Append([o \in DOMAIN outbox[c] |-> Job(outbox[c][o])], [cor |-> k, state |-> "owed"])
      BY <1>1, <3>1, AppendsJob
    <3>3. /\ Jobs[c] = [o \in DOMAIN outbox[c] |-> Job(outbox[c][o])]
          /\ Jobs'[c] = [o \in DOMAIN outbox'[c] |-> Job(outbox'[c][o])]
      BY DEF Jobs
    <3> QED
      BY <3>2, <3>3
  <2>2. \A b \in Case : b # c => Jobs'[b] = Jobs[b]
    BY DEF Jobs
  <2> HIDE DEF Jobs
  <2>3. Jobs = [b \in Case |-> Jobs[b]] /\ Jobs' = [b \in Case |-> Jobs'[b]]
    BY DEF Jobs
  <2> QED
    BY <2>1, <2>2, <2>3
<1>3. Takes' = Takes
  BY DEF Takes
<1>4. Len(Jobs[c]) = Len(outbox[c])
  BY JobsShape DEF Jobs
<1>5. Handoff!Owe(c, k)
  BY <1>2, <1>3 DEF Handoff!Owe, Jobs, Takes, Job, Taken
<1> QED
  BY <1>4, <1>5 DEF Handoff!Next, Jobs, Job

\* A row that was outstanding becomes done or dead.
LEMMA HandSettle ==
    ASSUME outbox \in [Case -> Seq(OutType)],
           NEW c \in Case, NEW o \in DOMAIN outbox[c],
           \A b \in Case : DOMAIN outbox'[b] = DOMAIN outbox[b],
           \A b \in Case : \A j \in DOMAIN outbox[b] : b # c \/ j # o => SameJob(b, j),
           JobState(outbox[c][o].status) = "owed",
           outbox'[c][o].cor = outbox[c][o].cor,
           \/ JobState(outbox'[c][o].status) = "abandoned"
           \/ /\ JobState(outbox'[c][o].status) = "delivered"
              /\ outbox[c][o].cor \in Taken(c),
           \A b \in Case : Taken(b)' = Taken(b)
    PROVE  Handoff!Next
<1> DEFINE s == JobState(outbox'[c][o].status)
<1>1. Jobs' = [Jobs EXCEPT ![c][o].state = s]
  <2>1. /\ \A b \in Case : DOMAIN Jobs'[b] = DOMAIN Jobs[b]
        /\ \A b \in Case : \A j \in DOMAIN Jobs[b] : b # c \/ j # o => Jobs'[b][j] = Jobs[b][j]
        /\ Jobs'[c][o] = [Jobs[c][o] EXCEPT !.state = s]
    <3>1. \A b \in Case : DOMAIN Jobs'[b] = DOMAIN Jobs[b]
      BY DEF Jobs
    <3>2. \A b \in Case : \A j \in DOMAIN Jobs[b] : b # c \/ j # o => Jobs'[b][j] = Jobs[b][j]
      BY DEF Jobs, SameJob
    <3>3. Jobs'[c][o] = Job(outbox'[c][o]) /\ Jobs[c][o] = Job(outbox[c][o])
      BY DEF Jobs
    <3>4. Job(outbox'[c][o]) = [Job(outbox[c][o]) EXCEPT !.state = s]
      BY DEF Job
    <3> QED
      BY <3>1, <3>2, <3>3, <3>4
  <2>2. \A b \in Case : b # c => Jobs'[b] = Jobs[b]
    BY DEF Jobs, SameJob
  <2>3. Jobs'[c] = [Jobs[c] EXCEPT ![o].state = s]
    <3>1. /\ Jobs[c] = [j \in DOMAIN outbox[c] |-> Jobs[c][j]]
          /\ Jobs'[c] = [j \in DOMAIN outbox[c] |-> Jobs'[c][j]]
      BY DEF Jobs
    <3> HIDE DEF Jobs, s
    <3> QED
      BY <2>1, <3>1
  <2>4. Jobs = [b \in Case |-> Jobs[b]] /\ Jobs' = [b \in Case |-> Jobs'[b]]
    BY DEF Jobs
  <2> HIDE DEF Jobs, s
  <2> QED
    BY <2>2, <2>3, <2>4
<1>2. Takes' = Takes
  BY DEF Takes
<1>3. Handoff!Owed(c, o)
  BY DEF Handoff!Owed
<1>4. CASE s = "abandoned"
  <2>1. Handoff!Abandon(c, o)
    BY <1>1, <1>2, <1>3, <1>4 DEF Handoff!Abandon, Jobs, Takes, Job, Taken
  <2> QED
    BY <2>1 DEF Handoff!Next
<1>5. CASE s = "delivered" /\ outbox[c][o].cor \in Taken(c)
  <2>1. Handoff!Deliver(c, o)
    BY <1>1, <1>2, <1>3, <1>5 DEF Handoff!Deliver, Jobs, Takes, Job, Taken
  <2> QED
    BY <2>1 DEF Handoff!Next
<1> QED
  BY <1>4, <1>5

\* Graph-build takes the correction of an outstanding row.
LEMMA HandTake ==
    ASSUME NEW c \in Case, NEW o \in DOMAIN outbox[c],
           UNCHANGED outbox,
           JobState(outbox[c][o].status) = "owed",
           Taken(c)' = Taken(c) \cup {outbox[c][o].cor},
           \A b \in Case : b # c => Taken(b)' = Taken(b)
    PROVE  Handoff!Next
<1>1. Jobs' = Jobs
  BY DEF Jobs
<1>2. Takes' = [Takes EXCEPT ![c] = @ \cup {Jobs[c][o].cor}]
  BY DEF Takes, Jobs, Job
<1>3. Handoff!Take(c, o)
  BY <1>1, <1>2 DEF Handoff!Take, Handoff!Owed, Jobs, Takes, Job, Taken
<1> QED
  BY <1>3 DEF Handoff!Next

-----------------------------------------------------------------------------
(* The promise of the outbox: the steps *)

\* A worker that was answered has a correction that graph-build took.
Answered(w) ==
    delivery[w].phase = "sent" /\ delivery[w].answer # NoAnswer =>
      outbox[delivery[w].case][delivery[w].ob].cor \in Taken(delivery[w].case)

\* Besides, no correction is without a row of its own.
HandInv ==
    /\ \A c \in Case : Len(correction[c]) <= Len(outbox[c])
    /\ \A w \in Worker : Answered(w)

HandStep == HandInv' /\ (Handoff!Next \/ UNCHANGED Handoff!vars)

LEMMA Answers ==
    ASSUME IndInv, HandInv,
           \A c \in Case : \A o \in DOMAIN outbox[c] : outbox'[c][o].cor = outbox[c][o].cor,
           \A c \in Case : Taken(c) \subseteq Taken(c)',
           NEW w \in Worker,
           \/ delivery'[w] = delivery[w]
           \/ delivery'[w].phase # "sent"
           \/ delivery'[w].answer = NoAnswer
    PROVE  Answered(w)'
<1>1. CASE delivery'[w] = delivery[w] /\ delivery[w].phase = "sent"
  <2>1. delivery[w].case \in Case /\ delivery[w].ob \in DOMAIN outbox[delivery[w].case]
    BY <1>1, DeliveryShape DEF IndInv, TypeOK, HeldOK
  <2>2. Answered(w)
    BY DEF HandInv
  <2>3. Answered(w)' <=> (delivery[w].answer # NoAnswer =>
           outbox'[delivery[w].case][delivery[w].ob].cor \in Taken(delivery[w].case)')
    BY <1>1 DEF Answered, Taken, RunsOf
  <2> QED
    BY <1>1, <2>1, <2>2, <2>3 DEF Answered
<1>2. CASE delivery'[w].phase # "sent" \/ delivery'[w].answer = NoAnswer
  BY <1>2 DEF Answered
<1> QED
  BY <1>1, <1>2 DEF Answered

\* A step that leaves corrections, rows and runs as they are.
LEMMA HandQuiet ==
    ASSUME IndInv, HandInv, UNCHANGED <<outbox, build>>,
           \A c \in Case : Len(correction'[c]) = Len(correction[c]),
           \A w \in Worker : \/ delivery'[w] = delivery[w]
                             \/ delivery'[w].phase # "sent"
                             \/ delivery'[w].answer = NoAnswer
    PROVE  HandStep
<1>1. \A c \in Case : Taken(c)' = Taken(c)
  BY DEF Taken, RunsOf
<1>2. UNCHANGED Handoff!vars
  BY <1>1, HandStutter DEF SameJob
<1>3. \A w \in Worker : Answered(w)'
  BY <1>1, Answers
<1> QED
  BY <1>2, <1>3 DEF HandStep, HandInv

\* A row is locked or unlocked.
LEMMA HandLocks ==
    ASSUME IndInv, HandInv, NEW c \in Case, NEW o \in DOMAIN outbox[c],
           NEW s \in {"PROCESSING", "RETRY"},
           outbox[c][o].status \in {"PENDING", "PROCESSING", "RETRY"},
           outbox' = [outbox EXCEPT ![c][o].status = s],
           UNCHANGED <<correction, build>>,
           \A w \in Worker : delivery'[w] = delivery[w] \/ delivery'[w].phase # "sent"
    PROVE  HandStep
<1>1. \A b \in Case : Taken(b)' = Taken(b)
  BY DEF Taken, RunsOf
<1>2. /\ \A b \in Case : DOMAIN outbox'[b] = DOMAIN outbox[b]
      /\ \A b \in Case : \A j \in DOMAIN outbox[b] :
            ~(b = c /\ j = o) => outbox'[b][j] = outbox[b][j]
      /\ outbox'[c][o].cor = outbox[c][o].cor /\ outbox'[c][o].status = s
  BY RowStatus
<1>3. SameJob(c, o)
  BY <1>2 DEF SameJob, Job, JobState
<1>4. UNCHANGED Handoff!vars
  BY <1>1, <1>2, <1>3, HandStutter DEF SameJob
<1>5. \A w \in Worker : Answered(w)'
  BY <1>1, <1>2, Answers
<1>6. \A b \in Case : Len(outbox'[b]) = Len(outbox[b])
  BY DEF IndInv, TypeOK
<1> QED
  BY <1>4, <1>5, <1>6 DEF HandStep, HandInv

\* A decision that is enqueued, or a retry, owes a job.
LEMMA HandAppends ==
    ASSUME IndInv, HandInv, IndInv', NEW c \in Case, NEW k \in 1..(Len(outbox[c]) + 1),
           Appended(outbox[c], outbox'[c], NewRow(k)),
           \A b \in Case : b # c => outbox'[b] = outbox[b],
           \A b \in Case : b # c => correction'[b] = correction[b],
           Len(correction'[c]) <= Len(correction[c]) + 1,
           UNCHANGED <<delivery, build>>
    PROVE  HandStep
<1>1. \A b \in Case : Taken(b)' = Taken(b)
  BY DEF Taken, RunsOf
<1>2. outbox \in [Case -> Seq(OutType)] /\ outbox' \in [Case -> Seq(OutType)]
  BY DEF IndInv, TypeOK
<1>3. Handoff!Next
  BY <1>1, <1>2, HandOwe
<1>4. \A b \in Case : \A o \in DOMAIN outbox[b] : outbox'[b][o].cor = outbox[b][o].cor
  BY DEF Appended
<1>5. \A w \in Worker : Answered(w)'
  BY <1>1, <1>4, Answers
<1>6. ASSUME NEW b \in Case PROVE Len(correction'[b]) <= Len(outbox'[b])
  <2>1. Len(correction[b]) <= Len(outbox[b])
    BY DEF HandInv
  <2>2. Len(correction[b]) \in Nat /\ Len(outbox[b]) \in Nat /\ Len(correction'[b]) \in Nat
    BY LenProperties DEF IndInv, TypeOK
  <2>3. CASE b = c
    BY <2>1, <2>2, <2>3 DEF Appended
  <2> QED
    BY <2>1, <2>3
<1> QED
  BY <1>3, <1>5, <1>6 DEF HandStep, HandInv

LEMMA DecisionHands ==
    ASSUME IndInv, HandInv, IndInv', NEW p \in Proc, CommitDecision(p)
    PROVE  HandStep
<1>1. PICK unit \in DecisionUnit, c \in Case : unit = tx[p] /\ c = unit.case
  BY UnitShape DEF IndInv, TypeOK, CommitDecision, DecisionUnit
<1>2. UNCHANGED <<delivery, build>>
  BY DEF CommitDecision
<1>3. CASE ~unit.enqueue
  BY <1>1, <1>2, <1>3, HandQuiet DEF CommitDecision
<1>4. CASE unit.enqueue
  <2> DEFINE id == IF unit.at = 0 THEN Len(decision[c]) + 1 ELSE unit.at
             cor == [decision |-> id, status |-> "PENDING"]
             k == Len(correction[c]) + 1
  <2>1. /\ correction' = [correction EXCEPT ![c] = Append(@, cor)]
        /\ outbox' = [outbox EXCEPT ![c] = Append(@, NewRow(k))]
    BY <1>1, <1>4 DEF CommitDecision, EnqueueCorrection
  <2>2. correction \in [Case -> Seq(CorrectionType)] /\ outbox \in [Case -> Seq(OutType)]
    BY DEF IndInv, TypeOK
  <2>3. /\ Len(correction[c]) \in Nat /\ Len(outbox[c]) \in Nat
        /\ Len(correction[c]) <= Len(outbox[c])
    BY LenProperties DEF IndInv, TypeOK, HandInv
  <2>4. cor \in CorrectionType /\ NewRow(k) \in OutType
    <3>1. Len(decision[c]) \in Nat
      BY LenProperties DEF IndInv, TypeOK
    <3>2. id \in Index
      BY <3>1 DEF DecisionUnit, Index
    <3> QED
      BY <2>3, <3>2 DEF CorrectionType, CorStatus, NewRow, OutType, OutStatus, Index
  <2>5. k \in 1..(Len(outbox[c]) + 1)
    BY <2>3
  <2> HIDE DEF cor, id
  <2>6. /\ correction'[c] = Append(correction[c], cor)
        /\ outbox'[c] = Append(outbox[c], NewRow(k))
        /\ \A b \in Case : b # c => correction'[b] = correction[b] /\ outbox'[b] = outbox[b]
    BY <2>1, <2>2
  <2>7. /\ Appended(correction[c], correction'[c], cor)
        /\ Appended(outbox[c], outbox'[c], NewRow(k))
    BY <2>2, <2>4, <2>6, AppendTo
  <2>8. Len(correction'[c]) <= Len(correction[c]) + 1
    BY <2>3, <2>7 DEF Appended
  <2> HIDE DEF k
  <2> QED
    BY <1>2, <2>5, <2>6, <2>7, <2>8, HandAppends
<1> QED
  BY <1>3, <1>4

\* What a session writes of a correction adds none.
LEMMA SameLength ==
    ASSUME IndInv, IndInv', \A b \in Case : DOMAIN correction'[b] = DOMAIN correction[b]
    PROVE  \A b \in Case : Len(correction'[b]) = Len(correction[b])
  BY LenProperties DEF IndInv, TypeOK

LEMMA RetryHands ==
    ASSUME IndInv, HandInv, IndInv', NEW p \in Proc, CommitRetry(p)
    PROVE  HandStep
<1>1. PICK unit \in RetryUnit, c \in Case : unit = tx[p] /\ c = unit.case
  BY UnitShape DEF IndInv, TypeOK, CommitRetry, RetryUnit
<1> DEFINE k == unit.cor
<1>2. k \in Index /\ k \in DOMAIN correction[c]
  BY <1>1 DEF IndInv, StagedOK, RetryUnit
<1>3. /\ correction' = [correction EXCEPT ![c][k].status = Write(@, unit.corSet)]
      /\ outbox' = [outbox EXCEPT ![c] = Append(@, NewRow(k))]
      /\ UNCHANGED <<delivery, build>>
  BY <1>1 DEF CommitRetry, SetCorrection
<1>4. /\ \A b \in Case : DOMAIN correction'[b] = DOMAIN correction[b]
      /\ \A b \in Case : b # c => correction'[b] = correction[b]
  BY <1>2, <1>3, CorrectionStatus DEF IndInv, RetryUnit
<1>5. /\ Appended(outbox[c], outbox'[c], NewRow(k))
      /\ \A b \in Case : b # c => outbox'[b] = outbox[b]
  <2>1. outbox \in [Case -> Seq(OutType)] /\ NewRow(k) \in OutType
    BY <1>2 DEF IndInv, TypeOK, NewRow, OutType, OutStatus
  <2>2. outbox'[c] = Append(outbox[c], NewRow(k)) /\ \A b \in Case : b # c => outbox'[b] = outbox[b]
    BY <1>3, <2>1
  <2> QED
    BY <2>1, <2>2, AppendTo
<1>6. k \in 1..(Len(outbox[c]) + 1) /\ Len(correction'[c]) <= Len(correction[c]) + 1
  <2>1. /\ Len(correction[c]) \in Nat /\ Len(outbox[c]) \in Nat
        /\ Len(correction[c]) <= Len(outbox[c]) /\ DOMAIN correction[c] = 1..Len(correction[c])
    BY LenProperties DEF IndInv, TypeOK, HandInv
  <2>2. Len(correction'[c]) = Len(correction[c])
    BY <1>4, SameLength
  <2> QED
    BY <1>2, <2>1, <2>2
<1> HIDE DEF k
<1> QED
  BY <1>3, <1>4, <1>5, <1>6, HandAppends

LEMMA EventHands ==
    ASSUME IndInv, HandInv, IndInv', NEW p \in Proc, CommitEvent(p)
    PROVE  HandStep
<1>1. PICK unit \in EventUnit, c \in Case : unit = tx[p] /\ c = unit.case
  BY UnitShape DEF IndInv, TypeOK, CommitEvent, EventUnit
<1>2. UNCHANGED <<outbox, delivery, build>>
  BY DEF CommitEvent
<1>3. \A b \in Case : DOMAIN correction'[b] = DOMAIN correction[b]
  <2>1. CASE unit.cor = 0
    BY <1>1, <2>1 DEF CommitEvent
  <2>2. CASE unit.cor # 0
    <3>1. unit.cor \in DOMAIN correction[c]
      BY <1>1, <2>2 DEF IndInv, StagedOK, EventUnit
    <3>2. correction' = [correction EXCEPT ![c][unit.cor].status = Write(@, unit.corSet)]
      BY <1>1, <2>2 DEF CommitEvent, SetCorrection
    <3> QED
      BY <3>1, <3>2, CorrectionStatus DEF IndInv, EventUnit
  <2> QED
    BY <2>1, <2>2
<1> QED
  BY <1>2, <1>3, SameLength, HandQuiet

\* A failure abandons the job or leaves it owed: its row is still locked.
LEMMA FailureHands ==
    ASSUME ~SlowDispatch, IndInv, OutboxInv, HandInv, IndInv', NEW p \in Proc, CommitFailure(p)
    PROVE  HandStep
<1>1. PICK unit \in FailureUnit, c \in Case : unit = tx[p] /\ c = unit.case
  BY UnitShape DEF IndInv, TypeOK, CommitFailure, FailureUnit
<1>2. /\ unit.kind = "failure" /\ unit.obSet \in OutStatus \cup {Keep}
      /\ unit.attempts \in Nat /\ unit.corSet \in CorStatus \cup {Keep}
  BY DEF FailureUnit
<1> DEFINE k == unit.cor
           ob == unit.ob
<1>3. k \in DOMAIN correction[c] /\ ob \in DOMAIN outbox[c]
  BY <1>1, <1>2 DEF IndInv, StagedOK
<1>4. p \in Worker /\ unit.obSet # "DONE"
  BY <1>1, <1>2 DEF OutboxInv, FailureOK
<1>5. outbox[c][ob].status = "PROCESSING"
  <2>1. HasRow(p, c, ob)
    BY <1>1, <1>2 DEF HasRow
  <2> QED
    BY <2>1, <1>3, <1>4 DEF OutboxInv, Locked
<1>6. /\ correction' = [correction EXCEPT ![c][k].status = Write(@, unit.corSet)]
      /\ outbox' = [outbox EXCEPT ![c][ob].status = Write(@, unit.obSet),
                                  ![c][ob].attempts = unit.attempts]
      /\ UNCHANGED <<delivery, build>>
  BY <1>1 DEF CommitFailure, SetCorrection
<1>7. \A b \in Case : DOMAIN correction'[b] = DOMAIN correction[b]
  BY <1>2, <1>3, <1>6, CorrectionStatus DEF IndInv
<1>8. /\ \A b \in Case : DOMAIN outbox'[b] = DOMAIN outbox[b]
      /\ \A b \in Case : \A o \in DOMAIN outbox[b] :
            ~(b = c /\ o = ob) => outbox'[b][o] = outbox[b][o]
      /\ outbox'[c][ob].cor = outbox[c][ob].cor
      /\ outbox'[c][ob].status \in {"PENDING", "PROCESSING", "RETRY", "DEAD"}
  <2> DEFINE x == outbox[c][ob]
             y == [x EXCEPT !.status = Write(x.status, unit.obSet), !.attempts = unit.attempts]
  <2>1. x \in OutType
    BY <1>3, LenProperties, ElementOfSeq DEF IndInv, TypeOK
  <2>2. /\ y \in OutType /\ y.cor = x.cor
        /\ y.status \in {"PENDING", "PROCESSING", "RETRY", "DEAD"}
    BY <2>1, <1>2, <1>4, <1>5 DEF OutType, OutStatus, Write
  <2>3. outbox' = [outbox EXCEPT ![c] = [@ EXCEPT ![ob] = y]]
    BY <1>6
  <2> HIDE DEF y
  <2>4. /\ \A b \in Case : b # c => outbox'[b] = outbox[b]
        /\ SameOutbox(c)
        /\ \A j \in DOMAIN outbox[c] : outbox'[c][j] = IF j = ob THEN y ELSE outbox[c][j]
    BY <2>2, <2>3, <1>3, WriteOutbox DEF IndInv
  <2> QED
    BY <2>2, <2>4, <1>3 DEF SameOutbox
<1> HIDE DEF k, ob
<1>9. \A b \in Case : Taken(b)' = Taken(b)
  BY <1>6 DEF Taken, RunsOf
<1>10. Handoff!Next \/ UNCHANGED Handoff!vars
  <2>1. JobState(outbox[c][ob].status) = "owed"
    BY <1>5 DEF JobState
  <2>2. \A b \in Case : \A o \in DOMAIN outbox[b] : b # c \/ o # ob => SameJob(b, o)
    BY <1>8 DEF SameJob
  <2>3. CASE outbox'[c][ob].status = "DEAD"
    <3>1. JobState(outbox'[c][ob].status) = "abandoned"
      BY <2>3 DEF JobState
    <3>2. outbox \in [Case -> Seq(OutType)]
      BY DEF IndInv, TypeOK
    <3> QED
      BY <1>3, <1>8, <1>9, <2>1, <2>2, <3>1, <3>2, HandSettle DEF ob
  <2>4. CASE outbox'[c][ob].status # "DEAD"
    <3>1. SameJob(c, ob)
      BY <1>8, <2>1, <2>4 DEF SameJob, Job, JobState
    <3> QED
      BY <1>8, <1>9, <2>2, <3>1, HandStutter
  <2> QED
    BY <2>3, <2>4
<1>11. \A w \in Worker : Answered(w)'
  BY <1>6, <1>8, <1>9, Answers
<1>12. \A b \in Case : Len(correction'[b]) <= Len(outbox'[b])
  <2>1. \A b \in Case : Len(correction'[b]) = Len(correction[b])
    BY <1>7, SameLength
  <2>2. \A b \in Case : Len(outbox'[b]) = Len(outbox[b])
    BY <1>8, LenProperties DEF IndInv, TypeOK
  <2> QED
    BY <2>1, <2>2 DEF HandInv
<1> QED
  BY <1>10, <1>11, <1>12 DEF HandStep, HandInv

\* The row that is reported done is locked, and its correction was taken.
LEMMA AcceptedHands ==
    ASSUME ~SlowDispatch, IndInv, OutboxInv, HandInv, IndInv',
           NEW w \in Worker, ResumeAccepted(w)
    PROVE  HandStep
<1>1. PICK d \in SentPhase, c \in Case : d = delivery[w] /\ c = d.case
  BY DeliveryShape DEF IndInv, TypeOK, ResumeAccepted, SentPhase
<1>2. PICK o, k, set :
        /\ o = d.ob /\ k = outbox[c][o].cor /\ set = Change(d.saw.cor, "DISPATCHED")
        /\ correction' = [correction EXCEPT ![c][k].status = Write(@, set)]
        /\ outbox' = [outbox EXCEPT ![c][o].status = "DONE"]
        /\ delivery' = [delivery EXCEPT ![w] = Idle]
        /\ d.phase = "sent" /\ d.answer # NoAnswer /\ UNCHANGED build
  BY <1>1 DEF ResumeAccepted
<1>3. o \in DOMAIN outbox[c] /\ k \in DOMAIN correction[c] /\ set \in CorStatus \cup {Keep}
  <2>1. o \in DOMAIN outbox[c]
    BY <1>1, <1>2 DEF IndInv, HeldOK
  <2> QED
    BY <2>1, <1>2 DEF IndInv, TablesOK, Change, CorStatus
<1>4. outbox[c][o].status = "PROCESSING" /\ k \in Taken(c)
  <2>1. HasRow(w, c, o)
    BY <1>1, <1>2 DEF HasRow
  <2> QED
    BY <1>1, <1>2, <1>3, <2>1 DEF OutboxInv, Locked, HandInv, Answered
<1>5. \A b \in Case : DOMAIN correction'[b] = DOMAIN correction[b]
  BY <1>2, <1>3, CorrectionStatus DEF IndInv
<1>6. /\ \A b \in Case : DOMAIN outbox'[b] = DOMAIN outbox[b]
      /\ \A b \in Case : \A j \in DOMAIN outbox[b] :
            ~(b = c /\ j = o) => outbox'[b][j] = outbox[b][j]
      /\ outbox'[c][o].cor = outbox[c][o].cor /\ outbox'[c][o].status = "DONE"
  <2>1. outbox' = [outbox EXCEPT ![c][o].status = "DONE"]
    BY <1>2
  <2> QED
    BY <2>1, <1>3, RowStatus
<1>7. \A b \in Case : Taken(b)' = Taken(b)
  BY <1>2 DEF Taken, RunsOf
<1>8. Handoff!Next
  <2>1. JobState(outbox[c][o].status) = "owed" /\ JobState(outbox'[c][o].status) = "delivered"
    BY <1>4, <1>6 DEF JobState
  <2>2. \A b \in Case : \A j \in DOMAIN outbox[b] : b # c \/ j # o => SameJob(b, j)
    BY <1>6 DEF SameJob
  <2>3. outbox \in [Case -> Seq(OutType)]
    BY DEF IndInv, TypeOK
  <2>4. outbox[c][o].cor \in Taken(c)
    BY <1>2, <1>4
  <2> QED
    BY <1>3, <1>6, <1>7, <2>1, <2>2, <2>3, <2>4, HandSettle
<1>9. \A v \in Worker : delivery'[v] = delivery[v] \/ delivery'[v].phase # "sent"
  BY <1>2 DEF IndInv, TypeOK, Idle
<1>10. \A v \in Worker : Answered(v)'
  <2>1. \A b \in Case : \A j \in DOMAIN outbox[b] : outbox'[b][j].cor = outbox[b][j].cor
    BY <1>6
  <2> QED
    BY <1>7, <1>9, <2>1, Answers
<1>11. \A b \in Case : Len(correction'[b]) <= Len(outbox'[b])
  <2>1. \A b \in Case : Len(correction'[b]) = Len(correction[b])
    BY <1>5, SameLength
  <2>2. \A b \in Case : Len(outbox'[b]) = Len(outbox[b])
    BY <1>6, LenProperties DEF IndInv, TypeOK
  <2> QED
    BY <2>1, <2>2 DEF HandInv
<1> QED
  BY <1>8, <1>10, <1>11 DEF HandStep, HandInv

\* Graph-build takes the correction of a locked row, or took it before.
LEMMA BuildHands ==
    ASSUME ~SlowDispatch, IndInv, OutboxInv, HandInv, NEW w \in Worker, BuildAccepts(w)
    PROVE  HandStep
<1>1. PICK d \in SentPhase, c \in Case : d = delivery[w] /\ c = d.case
  BY DeliveryShape DEF IndInv, TypeOK, BuildAccepts, SentPhase
<1> DEFINE o == d.ob
           k == outbox[c][o].cor
           R == {x \in RunsOf(c) : x[1] = k}
           n == Cardinality(R)
<1>2. PICK run :
        /\ <<k, run>> \in ExecId
        /\ delivery' = [delivery EXCEPT ![w].answer = <<k, run>>]
        /\ \/ build' = build /\ n > 0
           \/ build' = [build EXCEPT ![c][<<k, run>>] = "accepted"]
  BY <1>1 DEF BuildAccepts
<1>3. UNCHANGED <<tables, tx>> /\ d.phase = "sent"
  BY <1>1 DEF BuildAccepts
<1>4. o \in DOMAIN outbox[c] /\ HasRow(w, c, o)
  BY <1>1, <1>3 DEF IndInv, HeldOK, HasRow
<1>5. JobState(outbox[c][o].status) = "owed"
  <2>1. outbox[c][o].status = "PROCESSING"
    BY <1>4 DEF OutboxInv, Locked
  <2> QED
    BY <2>1 DEF JobState
<1>6. /\ \A b \in Case : b # c => Taken(b)' = Taken(b)
      /\ Taken(c)' = Taken(c) \cup {k}
      /\ Taken(c)' = Taken(c) \/ build' # build
  <2>1. CASE build' = build /\ n > 0
    <3>1. R # {}
      BY <2>1, FS_EmptySet
    <3>2. k \in Taken(c)
      BY <3>1 DEF Taken
    <3> HIDE DEF k
    <3> QED
      BY <2>1, <3>2 DEF Taken, RunsOf
  <2>2. CASE build' = [build EXCEPT ![c][<<k, run>>] = "accepted"]
    <3> DEFINE id == <<k, run>>
    <3>1. id \in ExecId /\ id[1] = k /\ build' = [build EXCEPT ![c][id] = "accepted"]
      BY <1>2, <2>2
    <3> HIDE DEF id, k
    <3>2. \A b \in Case : b # c => RunsOf(b)' = RunsOf(b)
      BY <3>1 DEF RunsOf, IndInv, TypeOK
    <3>3. RunsOf(c)' = RunsOf(c) \cup {id}
      BY <3>1 DEF RunsOf, IndInv, TypeOK
    <3>4. Taken(c)' = Taken(c) \cup {k}
      BY <3>1, <3>3 DEF Taken
    <3>5. \A b \in Case : b # c => Taken(b)' = Taken(b)
      BY <3>2 DEF Taken
    <3>6. build' = build => Taken(c)' = Taken(c)
      BY DEF Taken, RunsOf
    <3> QED
      BY <3>4, <3>5, <3>6
  <2> QED
    BY <1>2, <2>1, <2>2
<1>7. Handoff!Next
  BY <1>3, <1>4, <1>5, <1>6, HandTake DEF tables
<1>8. delivery'[w] = [d EXCEPT !.answer = <<k, run>>]
  BY <1>1, <1>2 DEF IndInv, TypeOK
<1>9. ASSUME NEW v \in Worker PROVE Answered(v)'
  <2>1. CASE v = w
    <3>1. delivery'[w].case = c /\ delivery'[w].ob = o
      BY <1>1, <1>8 DEF SentPhase
    <3>2. outbox'[c][o].cor = k /\ k \in Taken(c)'
      BY <1>3, <1>6 DEF tables
    <3>3. \A e, b, j : delivery'[v] = e /\ e.case = b /\ e.ob = j
                         /\ outbox'[b][j].cor \in Taken(b)' => Answered(v)'
      BY DEF Answered, Taken, RunsOf
    <3> QED
      BY <2>1, <3>1, <3>2, <3>3
  <2>2. CASE v # w
    <3>1. delivery'[v] = delivery[v]
      BY <2>2, <1>2 DEF IndInv, TypeOK
    <3>2. \A b \in Case : Taken(b) \subseteq Taken(b)'
      BY <1>6
    <3>3. \A b \in Case : \A j \in DOMAIN outbox[b] : outbox'[b][j].cor = outbox[b][j].cor
      BY <1>3 DEF tables
    <3> QED
      BY <3>1, <3>2, <3>3, Answers
  <2> QED
    BY <2>1, <2>2
<1>10. \A b \in Case : Len(correction'[b]) <= Len(outbox'[b])
  BY <1>3 DEF HandInv, tables
<1> QED
  BY <1>7, <1>9, <1>10 DEF HandStep, HandInv

\* A run that moves on is still the same run.
LEMMA RunHands ==
    ASSUME IndInv, HandInv, NEW c \in Case, NEW x \in ExecId, NEW s \in RunState,
           BuildSteps(c, x, s)
    PROVE  HandStep
<1>1. /\ UNCHANGED <<tables, tx, delivery>>
      /\ build' = [build EXCEPT ![c][x] = s]
      /\ build[c][x] # "none" /\ s # "none"
  BY DEF BuildSteps, RunStep
<1>2. \A b \in Case : RunsOf(b)' = RunsOf(b)
  BY <1>1 DEF IndInv, TypeOK, RunsOf
<1>3. \A b \in Case : Taken(b)' = Taken(b)
  BY <1>2 DEF Taken
<1>4. UNCHANGED Handoff!vars
  BY <1>1, <1>3, HandStutter DEF tables, SameJob
<1>5. \A w \in Worker : Answered(w)'
  BY <1>1, <1>3, Answers DEF tables
<1>6. \A b \in Case : Len(correction'[b]) <= Len(outbox'[b])
  BY <1>1 DEF HandInv, tables
<1> QED
  BY <1>4, <1>5, <1>6 DEF HandStep, HandInv

\* Steps that only stage a unit, write the row of a case, or move a worker.
LEMMA OtherHands ==
    ASSUME IndInv, HandInv, UNCHANGED <<correction, outbox, build>>,
           \A w \in Worker : \/ delivery'[w] = delivery[w]
                             \/ delivery'[w].phase # "sent"
                             \/ delivery'[w].answer = NoAnswer
    PROVE  HandStep
  BY HandQuiet

LEMMA WorkerHands ==
    ASSUME IndInv, HandInv, NEW w \in Worker, SendResume(w) \/ ResumeFailed(w) \/ Crash(w)
    PROVE  HandStep
<1>1. UNCHANGED <<correction, outbox, build>>
  BY DEF SendResume, ResumeFailed, Crash, Stage, tables
<1>2. \/ delivery'[w].phase # "sent"
      \/ delivery'[w].answer = NoAnswer
  BY DEF SendResume, ResumeFailed, Crash, Idle, IndInv, TypeOK
<1>3. \A v \in Worker : v # w => delivery'[v] = delivery[v]
  BY DEF SendResume, ResumeFailed, Crash, IndInv, TypeOK
<1> QED
  BY <1>1, <1>2, <1>3, OtherHands

LEMMA RequestHands ==
    ASSUME IndInv, HandInv, NEW p \in Proc, NEW c \in Case, NEW u,
           \/ Heartbeat(p, c, u) \/ Release(p, c, u) \/ Cancel(p, c, u)
           \/ SaveDraft(p, c, u) \/ ReclaimExpired(p, c) \/ Retry(p, c)
           \/ \E to \in User : Transfer(p, c, u, to)
           \/ \E risky \in BOOLEAN : Submit(p, c, u, risky)
           \/ \E ok \in BOOLEAN : Approve(p, c, u, ok)
           \/ \E x \in ExecId, t \in EventType : ExecutionEvent(p, c, x, t)
           \/ \E x \in execution[c], ok \in BOOLEAN : CompleteExecution(p, c, u, x, ok)
    PROVE  HandStep
<1>1. UNCHANGED delivery /\ \E unit : Stage(p, unit)
  <2>1. CASE \/ Heartbeat(p, c, u) \/ Release(p, c, u) \/ Cancel(p, c, u)
             \/ SaveDraft(p, c, u) \/ \E to \in User : Transfer(p, c, u, to)
    BY <2>1 DEF Heartbeat, Release, Cancel, SaveDraft, Transfer, Mutate, Request
  <2>2. CASE ReclaimExpired(p, c)
    BY <2>2 DEF ReclaimExpired
  <2>3. CASE \/ \E risky \in BOOLEAN : Submit(p, c, u, risky)
             \/ \E ok \in BOOLEAN : Approve(p, c, u, ok)
             \/ Retry(p, c)
    BY <2>3 DEF Submit, Approve, Retry, Request
  <2>4. CASE \/ \E x \in ExecId, t \in EventType : ExecutionEvent(p, c, x, t)
             \/ \E x \in execution[c], ok \in BOOLEAN : CompleteExecution(p, c, u, x, ok)
    BY <2>4 DEF ExecutionEvent, CompleteExecution, StageEvent, Request
  <2> QED
    BY <2>1, <2>2, <2>3, <2>4
<1> QED
  BY <1>1, OtherHands DEF Stage, tables

\* Initially nothing is owed and nothing was taken.
LEMMA InitHands == Init => HandInv /\ Handoff!Init
<1> SUFFICES ASSUME Init PROVE HandInv /\ Handoff!Init
  OBVIOUS
<1>1. \A c \in Case : correction[c] = <<>> /\ outbox[c] = <<>> /\ RunsOf(c) = {}
  BY DEF Init, RunsOf
<1>2. HandInv
  BY <1>1 DEF Init, HandInv, Answered, Idle
<1>3. [c \in Case |-> [o \in DOMAIN outbox[c] |->
          [cor |-> outbox[c][o].cor, state |-> JobState(outbox[c][o].status)]]]
        = [c \in Case |-> <<>>]
  <2>1. \A c \in Case : [o \in DOMAIN outbox[c] |->
          [cor |-> outbox[c][o].cor, state |-> JobState(outbox[c][o].status)]] = <<>>
    BY <1>1
  <2> QED
    BY <2>1
<1>4. [c \in Case |-> {x[1] : x \in RunsOf(c)}] = [c \in Case |-> {}]
  BY <1>1
<1> QED
  BY <1>2, <1>3, <1>4 DEF Handoff!Init

\* Every step is a step of the hand-off, or a stutter.
LEMMA NextHands ==
    ASSUME ~SlowDispatch, IndInv, OutboxInv, HandInv, [Next]_vars
    PROVE  HandStep
<1>0. IndInv'
  BY Inductive
<1>1. CASE UNCHANGED vars
  BY <1>1, OtherHands DEF vars, tables
<1>2. ASSUME NEW c \in Case,
             \/ HeartbeatExpires(c)
             \/ \E p \in Proc : ReclaimExpired(p, c)
             \/ \E o \in DOMAIN outbox[c] : ReleaseStaleLock(c, o)
             \/ \E x \in ExecId, s \in RunState : BuildSteps(c, x, s)
      PROVE  HandStep
  <2>1. CASE HeartbeatExpires(c)
    BY <2>1, OtherHands DEF HeartbeatExpires
  <2>2. CASE \E p \in Proc : ReclaimExpired(p, c)
    BY <2>2, RequestHands
  <2>3. CASE \E o \in DOMAIN outbox[c] : ReleaseStaleLock(c, o)
    BY <2>3, HandLocks DEF ReleaseStaleLock
  <2>4. CASE \E x \in ExecId, s \in RunState : BuildSteps(c, x, s)
    BY <2>4, RunHands
  <2> QED
    BY <1>2, <2>1, <2>2, <2>3, <2>4
<1>3. ASSUME NEW p \in Api, NEW c \in Case,
             \/ CreateReviewRequired(p, c)
             \/ Retry(p, c)
             \/ \E x \in ExecId, t \in EventType : ExecutionEvent(p, c, x, t)
      PROVE  HandStep
  <2>1. p \in Proc
    BY DEF Proc
  <2>2. CASE CreateReviewRequired(p, c)
    BY <2>2, OtherHands DEF CreateReviewRequired
  <2> QED
    BY <1>3, <2>1, <2>2, RequestHands
<1>4. ASSUME NEW p \in Api, NEW c \in Case, NEW u \in User,
             \/ ClaimCase(p, c, u)
             \/ Heartbeat(p, c, u)
             \/ Release(p, c, u)
             \/ Cancel(p, c, u)
             \/ SaveDraft(p, c, u)
             \/ \E to \in User : Transfer(p, c, u, to)
             \/ \E risky \in BOOLEAN : Submit(p, c, u, risky)
             \/ \E ok \in BOOLEAN : Approve(p, c, u, ok)
             \/ \E x \in execution[c], ok \in BOOLEAN : CompleteExecution(p, c, u, x, ok)
      PROVE  HandStep
  <2>1. p \in Proc
    BY DEF Proc
  <2>2. CASE ClaimCase(p, c, u)
    BY <2>2, OtherHands DEF ClaimCase
  <2> QED
    BY <1>4, <2>1, <2>2, RequestHands
<1>5. ASSUME NEW p \in Proc,
             \/ CommitRow(p) \/ CommitDecision(p) \/ CommitRetry(p)
             \/ CommitEvent(p) \/ CommitFailure(p) \/ Rollback(p)
      PROVE  HandStep
  <2>1. CASE CommitRow(p)
    BY <2>1, OtherHands DEF CommitRow
  <2>2. CASE Rollback(p)
    BY <2>2, OtherHands DEF Rollback, tables
  <2> QED
    BY <1>0, <1>5, <2>1, <2>2, DecisionHands, RetryHands, EventHands, FailureHands
<1>6. ASSUME NEW w \in Worker,
             \/ \E c \in Case : \E o \in DOMAIN outbox[c] : ClaimRow(w, c, o)
             \/ SendResume(w) \/ BuildAccepts(w)
             \/ ResumeAccepted(w) \/ ResumeFailed(w) \/ Crash(w)
      PROVE  HandStep
  <2>1. CASE \E c \in Case : \E o \in DOMAIN outbox[c] : ClaimRow(w, c, o)
    <3>0. PICK c \in Case : \E o \in DOMAIN outbox[c] : ClaimRow(w, c, o)
      BY <2>1
    <3>1. PICK o \in DOMAIN outbox[c] : ClaimRow(w, c, o)
      BY <3>0
    <3>2. \A v \in Worker : delivery'[v] = delivery[v] \/ delivery'[v].phase # "sent"
      BY <3>1 DEF ClaimRow, IndInv, TypeOK
    <3> QED
      BY <3>1, <3>2, HandLocks DEF ClaimRow, CanClaim, Ready
  <2> QED
    BY <1>0, <1>6, <2>1, WorkerHands, BuildHands, AcceptedHands
<1> QED
  BY <1>1, <1>2, <1>3, <1>4, <1>5, <1>6 DEF Next

\* Sessions, locks, attempts and crashes together keep the promise of the
\* outbox, for any number of workers, as long as no HTTP call outlasts the lock.
THEOREM HandoffImplemented ==
    ASSUME ~SlowDispatch
    PROVE  Spec => ImplementsHandoff
<1>1. OneDispatch
  BY DEF OneDispatch
<1>2. Spec => []OutboxInv
  BY <1>1, OutboxInvariance
<1>3. IndInv /\ OutboxInv /\ HandInv /\ [Next]_vars => HandInv'
  BY NextHands DEF HandStep
<1>4. IndInv /\ OutboxInv /\ HandInv /\ [Next]_vars => [Handoff!Next]_Handoff!vars
  BY NextHands DEF HandStep
<1> QED
  BY <1>2, <1>3, <1>4, InitHands, Invariance, PTL DEF Spec, ImplementsHandoff, Handoff!Spec

=============================================================================
