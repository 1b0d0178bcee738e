----------------------- MODULE WorkflowOperations_proofs -----------------------
(***************************************************************************)
(* Theorems about the control plane of the workflows and their proofs.     *)
(*                                                                         *)
(* The invariant says, for each place where a request may wait, what it    *)
(* has read and what is already saved.  What others do meanwhile only lets *)
(* things grow (Grows): no run disappears or changes once it has closed,   *)
(* no record and no task is taken back, versions go up.  So what a request *)
(* knows stays true until it acts (ReqKept).                               *)
(***************************************************************************)
EXTENDS WorkflowOperations, TLAPS

Starting == {"execute", "trigger", "rerun", "retry"}
Creating == {"create", "policy"}

PC == {"idle", "start", "execution", "task", "link", "review", "describe", "polled", "sync",
       "define", "unschedule", "schedule", "scheduled", "setting", "pause", "paused",
       "drop", "forget"}
Readable == {None} \cup Definition \cup Review \cup Schedule \cup Execution
Returned == {None} \cup ExecutionId \cup Execution \cup BOOLEAN
Request == [op : Operations \cup {None, "poll"}, pc : PC, n : 0..MaxRequests,
            arg : {None} \cup WorkflowId \cup BOOLEAN, read : Readable, got : Returned,
            torn : BOOLEAN]

\* TypeOK, with what a request holds.
Types ==
  /\ offered \in Mixes
  /\ seq \in 0..MaxRequests /\ faults \in 0..MaxFaults /\ torn \in BOOLEAN
  /\ execs \in [ExecutionId -> Execution \cup {None}]
  /\ tasks \in [ExecutionId -> {None, "working", "done"}]
  /\ runs \in [ExecutionId -> Run \cup {None}]
  /\ review \in Review
  /\ sched \in Schedule \cup {None}
  /\ policy \in Timer \cup {None} /\ timer \in Timer \cup {None}
  /\ script \in 0..MaxRequests /\ defn \in Definition
  /\ req \in [Slot -> Request]

\* The script of an attempt is not older than the definition of its run, the
\* script on disk not older than the definition a worker may still load.
RunOK(n) ==
  runs[n] # None =>
    /\ runs[n].status = "RUNNING" => runs[n].tries < MaxTries
    /\ runs[n].status # "COMPLETED" => runs[n].output = None
    /\ runs[n].script # None =>
         runs[n].kind = "python" /\ runs[n].def # None /\ runs[n].script >= runs[n].def
    /\ (runs[n].kind = "python" /\ runs[n].def # None) => runs[n].def <= script

ScriptOK == script <= seq /\ (defn.python => defn.version <= script)

\* A record is closed only as its run is.
Truthful(n, record) ==
  IF record.status \in Closed
  THEN runs[n] # None /\ record.status = runs[n].status /\ record.output = runs[n].output
  ELSE record.output = None

\* A record of a run: execution n has run n.
Known(n, record) ==
  /\ record \in Execution
  /\ record.run = n /\ runs[n] # None
  /\ record.status # "QUEUED"
  /\ record.task => tasks[n] # None
  /\ Truthful(n, record)

ExecOK(n) ==
  execs[n] # None =>
    \/ Known(n, execs[n])
    \/ /\ execs[n].status = "QUEUED" /\ execs[n].output = None
       /\ execs[n].task => tasks[n] # None

TaskOK(n) ==
  tasks[n] = "done" =>
    runs[n] # None /\ runs[n].status = "COMPLETED" /\ runs[n].output = "stages"

LinkOK(record) == record.exec # None => execs[record.exec] # None

Unused(n) == n > seq => runs[n] = None

\* Where a request stands and what it knows there.
StartOK(r) ==
  /\ r.op \in Starting /\ r.n \in ExecutionId /\ r.n <= seq
  /\ r.op \in {"rerun", "retry"} => r.read \in Review /\ LinkOK(r.read)

ReqOK(q) ==
  LET r == req[q] IN
  /\ r.pc = "idle" => r = NoRequest
  /\ r.pc = "start" => /\ StartOK(r) /\ runs[r.n] = None
                       /\ r.arg \in WorkflowId \cup {None}
                       /\ r.op = "execute" => r.read \in Definition
  /\ r.pc = "execution" => StartOK(r) /\ (r.got = None \/ (r.got = r.n /\ runs[r.n] # None))
  /\ r.pc = "task" => r.op \in {"execute", "trigger"} /\ r.n \in ExecutionId /\ execs[r.n] # None
  /\ r.pc = "link" => r.op = "execute" /\ r.n \in ExecutionId /\ execs[r.n] # None /\ tasks[r.n] # None
  /\ r.pc = "review" => StartOK(r) /\ r.op \in {"rerun", "retry"} /\ execs[r.n] # None
  /\ r.pc = "describe" => /\ r.op = "poll" /\ r.n \in ExecutionId /\ execs[r.n] # None
                          /\ Known(r.n, r.read) /\ r.read.status = "RUNNING"
  /\ r.pc \in {"polled", "sync"} => /\ r.op = "poll" /\ r.n \in ExecutionId /\ execs[r.n] # None
                                    /\ Known(r.n, r.got)
  /\ r.pc = "define" => r.op = "upload" /\ r.n \in Id /\ r.n <= script
  /\ r.pc \in {"unschedule", "schedule", "scheduled", "setting"} =>
       r.op \in Creating /\ r.n \in Id /\ r.arg \in BOOLEAN
  /\ r.pc \in {"pause", "paused"} => r.op = "update" /\ r.arg \in BOOLEAN /\ r.read \in Schedule
  /\ r.pc \in {"scheduled", "paused"} => r.got \in BOOLEAN
  /\ r.pc \in {"drop", "forget"} => r.op = "delete"

\* Two requests that are about to start a run start different ones.
Distinct ==
  \A p, q \in Slot : (req[p].pc = "start" /\ req[q].pc = "start" /\ p # q) => req[p].n # req[q].n

Tables ==
  /\ ScriptOK
  /\ LinkOK(review)
  /\ \A n \in ExecutionId : RunOK(n) /\ ExecOK(n) /\ TaskOK(n) /\ Unused(n)

Requests ==
  /\ \A q \in Slot : ReqOK(q)
  /\ Distinct

Records == Types /\ Tables /\ Requests

\* The record of the schedule and Temporal's schedule.
Busy(q) == req[q].op \in Scheduling

Agreed == (sched # None /\ sched.synced /\ ~torn) => timer # None /\ timer.active = sched.active

Schedules ==
  /\ \A p, q \in Slot : (Busy(p) /\ Busy(q) /\ p # q) => req[p].torn /\ req[q].torn
  /\ \A q \in Slot :
       /\ (req[q].pc \in {"scheduled", "paused"} /\ ~req[q].torn /\ req[q].got = TRUE) =>
            timer # None /\ timer.active = req[q].arg
       /\ req[q].pc = "setting" => torn = req[q].torn /\ Agreed
  /\ (\A q \in Slot : ~Busy(q)) => Agreed

IndInv == Records /\ Schedules

-----------------------------------------------------------------------------
(* Lemmas                                                                  *)

\* What the steps of others may do to the tables.
Grows ==
  /\ seq <= seq' /\ script <= script'
  /\ \A n \in ExecutionId :
       /\ execs[n] # None => execs'[n] # None
       /\ tasks[n] # None => tasks'[n] # None
       /\ runs[n] # None =>
            runs'[n] # None /\ (runs[n].status \in Closed => runs'[n] = runs[n])

\* The request of p is not touched, but for its overlap.
Same(p) == req'[p] = req[p] \/ (Busy(p) /\ req'[p] = [req[p] EXCEPT !.torn = TRUE])

\* What a request knows stays true while others act.
LEMMA ReqKept ==
  ASSUME Types, Types', Requests, Grows, NEW p \in Slot, Same(p),
         req[p].pc = "start" => runs'[req[p].n] = runs[req[p].n]
  PROVE  ReqOK(p)'
<1> USE DEF Types, Requests, Grows
<1>1. ReqOK(p) /\ req[p] \in Request /\ req'[p] \in Request
  OBVIOUS
<1>2. \A record : \A n \in ExecutionId : Known(n, record) => Known(n, record)'
  BY DEF Known, Truthful, Execution
<1>3. \A record \in Review : LinkOK(record) => LinkOK(record)'
  BY WorkflowAssumption, NoneAssumption DEF LinkOK, Review
<1>4. CASE req'[p] = req[p]
  BY <1>1, <1>2, <1>3, <1>4, WorkflowAssumption, NoneAssumption DEF ReqOK, StartOK, ExecutionId, Id
<1>5. CASE Busy(p) /\ req'[p] = [req[p] EXCEPT !.torn = TRUE]
  <2>1. req[p].pc \in {"unschedule", "schedule", "scheduled", "setting", "pause", "paused", "drop", "forget"}
    BY <1>1, <1>5, NoneAssumption DEF Busy, Scheduling, ReqOK, StartOK, Starting, Request, PC, NoRequest, Operations
  <2>2. req'[p].pc = req[p].pc /\ req'[p].op = req[p].op /\ req'[p].n = req[p].n
        /\ req'[p].arg = req[p].arg /\ req'[p].read = req[p].read /\ req'[p].got = req[p].got
    BY <1>1, <1>5 DEF Request
  <2> QED BY <1>1, <2>1, <2>2, WorkflowAssumption DEF ReqOK, Id
<1> QED BY <1>4, <1>5 DEF Same

\* One request moves and the others stay.
LEMMA OneMoves ==
  ASSUME Types, Types', Requests, Grows, NEW q \in Slot,
         \A p \in Slot \ {q} : Same(p) /\ (req[p].pc = "start" => runs'[req[p].n] = runs[req[p].n]),
         ReqOK(q)',
         req'[q].pc = "start" => req'[q] = req[q] \/ \A p \in Slot : req[p].pc = "start" => req[p].n # req'[q].n
  PROVE  Requests'
<1>1. \A p \in Slot : ReqOK(p)'
  BY ReqKept
<1>2. \A p \in Slot \ {q} : req'[p].pc = req[p].pc /\ req'[p].n = req[p].n
  BY DEF Same, Types, Request
<1>3. Distinct'
  BY <1>2 DEF Requests, Distinct
<1> QED BY <1>1, <1>3 DEF Requests

\* Nothing of the tables changes.
LEMMA TablesStay ==
  ASSUME Types, Tables, seq' \in 0..MaxRequests, seq <= seq',
         UNCHANGED <<execs, tasks, runs, review, script, defn>>
  PROVE  Tables' /\ Grows
<1> USE WorkflowAssumption DEF Types, Tables
<1>1. ScriptOK'
  BY DEF ScriptOK, Definition
<1>2. LinkOK(review)'
  BY DEF LinkOK
<1>3. ASSUME NEW n \in ExecutionId PROVE RunOK(n)' /\ ExecOK(n)' /\ TaskOK(n)' /\ Unused(n)'
  <2>1. RunOK(n)' /\ TaskOK(n)'
    BY DEF RunOK, TaskOK
  <2>2. ExecOK(n)'
    BY DEF ExecOK, Known, Truthful
  <2>3. Unused(n)'
    BY DEF Unused, ExecutionId
  <2> QED BY <2>1, <2>2, <2>3
<1>4. Grows
  BY DEF Grows
<1> QED BY <1>1, <1>2, <1>3, <1>4

\* A request is taken up: what it is then.
IsTaken(q, op, pc, arg, read) ==
  /\ seq' = seq + 1 /\ seq' \in 0..MaxRequests /\ seq' \in Id /\ seq <= seq'
  /\ op \notin Scheduling => seq' \in ExecutionId
  /\ req' \in [Slot -> Request]
  /\ \A p \in Slot \ {q} : Same(p)
  /\ req'[q] = [op |-> op, pc |-> pc, n |-> seq + 1, arg |-> arg, read |-> read,
                got |-> None, torn |-> Overlapped(q, op)]

LEMMA Taken ==
  ASSUME Types, NEW q \in Slot, NEW op \in Operations, NEW pc \in PC,
         NEW arg \in {None} \cup WorkflowId \cup BOOLEAN, NEW read \in Readable,
         Begin(q, op, pc, arg, read)
  PROVE  IsTaken(q, op, pc, arg, read)
<1> USE WorkflowAssumption DEF Types
<1>1. seq' = seq + 1 /\ seq < Most /\ op \in offered
  BY DEF Begin
<1>2. Most <= MaxRequests /\ (op \notin Scheduling => Most = MaxStarts)
  BY <1>1 DEF Most
<1>3. /\ seq' \in 0..MaxRequests /\ seq' \in Id /\ seq <= seq'
      /\ op \notin Scheduling => seq' \in ExecutionId
  <2>1. Most \in Nat /\ seq \in Nat
    BY DEF Most
  <2> QED BY <1>1, <1>2, <2>1 DEF Id, ExecutionId
<1> DEFINE new == [op |-> op, pc |-> pc, n |-> seq + 1, arg |-> arg, read |-> read,
                   got |-> None, torn |-> Overlapped(q, op)]
<1>4. new \in Request
  BY <1>1, <1>3 DEF Request, Returned, Overlapped
<1>5. req'[q] = new
  BY DEF Begin
<1>6. ASSUME NEW p \in Slot \ {q} PROVE Same(p) /\ req'[p] \in Request
  <2> DEFINE t == req[p].torn \/ (op \in Scheduling /\ req[p].op \in Scheduling)
  <2>1. req'[p] = [req[p] EXCEPT !.torn = t]
    BY DEF Begin
  <2>2. req[p] \in Request /\ t \in BOOLEAN
    BY DEF Request
  <2>3. [req[p] EXCEPT !.torn = t] \in Request
    BY <2>2 DEF Request
  <2>4. CASE t = req[p].torn
    BY <2>1, <2>2, <2>4 DEF Same, Request
  <2>5. CASE t # req[p].torn
    <3>1. t = TRUE /\ Busy(p)
      BY <2>2, <2>5 DEF Request, Busy
    <3>2. [req[p] EXCEPT !.torn = t] = [req[p] EXCEPT !.torn = TRUE]
      <4> HIDE DEF t
      <4> QED BY <3>1
    <3> QED BY <2>1, <2>3, <3>1, <3>2 DEF Same
  <2> QED BY <2>1, <2>3, <2>4, <2>5
<1>7. req' \in [Slot -> Request]
  <2>1. DOMAIN req' = Slot /\ req' = [p \in Slot |-> req'[p]]
    BY DEF Begin
  <2>2. \A p \in Slot : req'[p] \in Request
    BY <1>4, <1>5, <1>6
  <2> QED BY <2>1, <2>2
<1> QED BY <1>1, <1>3, <1>5, <1>6, <1>7 DEF IsTaken

-----------------------------------------------------------------------------
(* Each step keeps Records: requests that are taken up                     *)

\* What a request is taken up with.
Fits(op, pc, arg, read) ==
  \/ /\ pc = "start" /\ op \in Starting /\ arg \in WorkflowId \cup {None}
     /\ op = "execute" => read = defn
     /\ op \in {"rerun", "retry"} => read = review
  \/ pc = "unschedule" /\ op \in Creating /\ arg \in BOOLEAN
  \/ pc = "pause" /\ op = "update" /\ arg \in BOOLEAN /\ read = sched /\ sched # None
  \/ pc = "drop" /\ op = "delete"

LEMMA TakenKeeps ==
  ASSUME Records, NEW q \in Slot, NEW op \in Operations, NEW pc \in PC,
         NEW arg \in {None} \cup WorkflowId \cup BOOLEAN, NEW read \in Readable,
         Begin(q, op, pc, arg, read), Fits(op, pc, arg, read),
         UNCHANGED <<offered, faults, local, temporal, torn>>
  PROVE  Records'
<1> USE WorkflowAssumption DEF Records, local, temporal
<1>2. IsTaken(q, op, pc, arg, read)
  BY Taken
<1> USE <1>2 DEF IsTaken
<1>3. Tables' /\ Grows
  BY TablesStay
<1>4. Types'
  BY DEF Types
<1>5. ReqOK(q)'
  <2>1. CASE pc = "start"
    <3>1. op \in Starting /\ arg \in WorkflowId \cup {None} /\ (op = "execute" => read \in Definition)
          /\ (op \in {"rerun", "retry"} => read \in Review /\ LinkOK(read)')
      BY <2>1 DEF Fits, Types, Tables, LinkOK
    <3>2. runs[seq + 1] = None /\ seq' \in ExecutionId
      <4>1. seq' \in ExecutionId /\ seq + 1 > seq
        BY <3>1 DEF Starting, Scheduling, Types
      <4> QED BY <4>1 DEF Tables, Unused
    <3>3. req'[q].pc = "start" /\ req'[q].op = op /\ req'[q].n = seq' /\ req'[q].arg = arg
          /\ req'[q].read = read /\ runs'[seq'] = None
      BY <2>1, <3>2
    <3>4. StartOK(req[q])'
      BY <3>1, <3>2, <3>3 DEF StartOK, LinkOK, Types
    <3> QED BY <3>1, <3>3, <3>4 DEF ReqOK
  <2>2. CASE pc \in {"unschedule", "drop"}
    BY <2>2 DEF Fits, ReqOK
  <2>3. CASE pc = "pause"
    BY <2>3 DEF Fits, ReqOK, Types
  <2> QED BY <2>1, <2>2, <2>3 DEF Fits
<1>6. \A p \in Slot : req[p].pc = "start" => req[p].n # req'[q].n
  BY DEF Requests, ReqOK, StartOK, Types
<1> QED BY <1>3, <1>4, <1>5, <1>6, OneMoves

LEMMA TakesKeep ==
  ASSUME Records, NEW q \in Slot,
         \/ \E wid \in WorkflowId \cup {None} : BeginExecute(q, wid)
         \/ BeginTrigger(q) \/ BeginRerun(q) \/ BeginRetry(q)
         \/ \E active \in BOOLEAN : \/ \E op \in Creating : BeginCreate(q, op, active)
                                    \/ BeginUpdate(q, active)
         \/ BeginDelete(q)
  PROVE  Records'
<1>1. defn \in Readable /\ review \in Readable /\ None \in Readable /\ sched \in Readable
  BY DEF Records, Types, Readable
<1>2. Starting \cup Creating \cup {"update", "delete"} \subseteq Operations
      /\ {"start", "unschedule", "pause", "drop"} \subseteq PC
  BY DEF Starting, Creating, Operations, PC
<1>3. ASSUME NEW wid \in WorkflowId \cup {None}, BeginExecute(q, wid) PROVE Records'
  <2>1. Fits("execute", "start", wid, defn) /\ "execute" \in Operations /\ "start" \in PC
    BY <1>2 DEF Fits, Starting
  <2> QED BY <1>1, <1>3, <2>1, TakenKeeps DEF BeginExecute
<1>4. CASE BeginTrigger(q)
  <2>1. Fits("trigger", "start", None, None) /\ "trigger" \in Operations /\ "start" \in PC
    BY <1>2 DEF Fits, Starting
  <2> QED BY <1>1, <1>4, <2>1, TakenKeeps DEF BeginTrigger
<1>5. CASE BeginRerun(q)
  <2>1. Fits("rerun", "start", None, review) /\ "rerun" \in Operations /\ "start" \in PC
    BY <1>2 DEF Fits, Starting
  <2> QED BY <1>1, <1>5, <2>1, TakenKeeps DEF BeginRerun
<1>6. CASE BeginRetry(q)
  <2>1. Fits("retry", "start", None, review) /\ "retry" \in Operations /\ "start" \in PC
    BY <1>2 DEF Fits, Starting
  <2> QED BY <1>1, <1>6, <2>1, TakenKeeps DEF BeginRetry
<1>7. ASSUME NEW active \in BOOLEAN, NEW op \in Creating, BeginCreate(q, op, active) PROVE Records'
  <2>1. Fits(op, "unschedule", active, None) /\ op \in Operations /\ "unschedule" \in PC
    BY <1>2 DEF Fits
  <2> QED BY <1>1, <1>7, <2>1, TakenKeeps DEF BeginCreate
<1>8. ASSUME NEW active \in BOOLEAN, BeginUpdate(q, active) PROVE Records'
  <2>1. Fits("update", "pause", active, sched) /\ "update" \in Operations /\ "pause" \in PC
    BY <1>2, <1>8 DEF Fits, BeginUpdate
  <2> QED BY <1>1, <1>8, <2>1, TakenKeeps DEF BeginUpdate
<1>9. CASE BeginDelete(q)
  <2>1. Fits("delete", "drop", None, None) /\ "delete" \in Operations /\ "drop" \in PC
    BY <1>2 DEF Fits
  <2> QED BY <1>1, <1>9, <2>1, TakenKeeps DEF BeginDelete
<1> QED BY <1>3, <1>4, <1>5, <1>6, <1>7, <1>8, <1>9

-----------------------------------------------------------------------------
(* Each step keeps Records: steps that leave the tables alone              *)

\* The request of q moves on, or ends.
Moved(q, pc, got) ==
  /\ req' \in [Slot -> Request]
  /\ \A p \in Slot \ {q} : req'[p] = req[p]
  /\ req'[q].pc = pc /\ req'[q].got = got
  /\ req'[q].op = req[q].op /\ req'[q].n = req[q].n /\ req'[q].arg = req[q].arg
  /\ req'[q].read = req[q].read /\ req'[q].torn = req[q].torn

Ended(q) ==
  /\ req' \in [Slot -> Request]
  /\ \A p \in Slot \ {q} : req'[p] = req[p]
  /\ req'[q] = NoRequest

LEMMA GotoMoves ==
  ASSUME Types, NEW q \in Slot, NEW pc \in PC, Goto(q, pc)
  PROVE  Moved(q, pc, req[q].got)
BY DEF Types, Goto, Moved, Request

LEMMA AnswerMoves ==
  ASSUME Types, NEW q \in Slot, NEW pc \in PC, NEW got \in Returned, Answer(q, pc, got)
  PROVE  Moved(q, pc, got)
BY DEF Types, Answer, Moved, Request

LEMMA NoRequestTyped == NoRequest \in Request
BY WorkflowAssumption DEF NoRequest, Request, PC, Readable, Returned

LEMMA DoneEnds ==
  ASSUME Types, NEW q \in Slot, Done(q)
  PROVE  Ended(q)
BY NoRequestTyped DEF Types, Done, Ended

LEMMA EndedOK ==
  ASSUME NEW q \in Slot, req'[q] = NoRequest
  PROVE  ReqOK(q)' /\ req'[q].pc # "start"
BY DEF ReqOK, NoRequest

\* A step that leaves the tables alone.
LEMMA Quiet ==
  ASSUME Records, NEW q \in Slot,
         UNCHANGED <<offered, seq, execs, tasks, runs, review, script, defn>>,
         faults' \in 0..MaxFaults, torn' \in BOOLEAN, sched' \in Schedule \cup {None},
         policy' \in Timer \cup {None}, timer' \in Timer \cup {None},
         \/ Ended(q)
         \/ \E pc \in PC \ {"start"}, got \in Returned : Moved(q, pc, got) /\ ReqOK(q)'
  PROVE  Records'
<1> USE DEF Records
<1>1. Types'
  BY DEF Types, Ended, Moved
<1>2. Tables' /\ Grows
  BY TablesStay DEF Types
<1>3. ReqOK(q)' /\ req'[q].pc # "start" /\ \A p \in Slot \ {q} : Same(p)
  BY EndedOK DEF Ended, Moved, Same
<1> QED BY <1>1, <1>2, <1>3, OneMoves

LEMMA FaultTyped ==
  ASSUME Types, Fault
  PROVE  faults' \in 0..MaxFaults
BY WorkflowAssumption DEF Types, Fault

LEMMA QuietSteps ==
  ASSUME Records, NEW q \in Slot,
         \/ StartRefused(q) \/ Describe(q) \/ DescribeFails(q)
         \/ Unschedule(q) \/ UnscheduleFails(q) \/ ScheduleAt(q) \/ ScheduleExists(q)
         \/ SaveSetting(q) \/ Pause(q) \/ PauseRefused(q) \/ SaveUpdate(q)
         \/ Drop(q) \/ DropFails(q) \/ Forget(q)
         \/ \E reached \in BOOLEAN : ScheduleFails(q, reached) \/ PauseFails(q, reached)
  PROVE  Records'
<1> USE WorkflowAssumption DEF Records, local, temporal
<1>0. /\ Types /\ ReqOK(q) /\ req[q] \in Request
      /\ TRUE \in Returned /\ FALSE \in Returned /\ PC \ {"start"} \subseteq PC
  BY DEF Requests, Types, Returned
<1>1. CASE StartRefused(q)
  BY <1>0, <1>1, DoneEnds, Quiet DEF StartRefused, Types
<1>2. CASE Describe(q)
  <2>1. Known(req[q].n, Refreshed(req[q].read)) /\ Refreshed(req[q].read) \in Execution
    <3> DEFINE n == req[q].n
               record == req[q].read
    <3>1. /\ n \in ExecutionId /\ record \in Execution /\ record.run = n /\ record.output = None
          /\ runs[n] # None /\ (record.task => tasks[n] # None)
      BY <1>0, <1>2 DEF Describe, ReqOK, Known, Truthful, Closed
    <3>2. runs[n] \in Run /\ RunOK(n)
      BY <3>1 DEF Types, Tables
    <3>3. PICK output : output = IF runs[n].status = "COMPLETED" THEN runs[n].output ELSE None
      OBVIOUS
    <3>4. Refreshed(record) = [record EXCEPT !.status = runs[n].status, !.output = output]
      BY <3>1, <3>3 DEF Refreshed, Execution
    <3>5. output = runs[n].output \/ runs[n].status = "RUNNING"
      BY <3>1, <3>2, <3>3 DEF Run, Closed, RunOK
    <3>6. output \in {None, "plain", "stages"} /\ (runs[n].status = "RUNNING" => output = None)
      BY <3>2, <3>3 DEF Run
    <3> QED BY <3>1, <3>2, <3>4, <3>5, <3>6 DEF Known, Truthful, Execution, Run, Closed
  <2>2. Moved(q, "polled", Refreshed(req[q].read)) /\ "polled" \in PC \ {"start"}
    BY <1>0, <1>2, <2>1, AnswerMoves DEF Describe, PC, Returned
  <2>3. ReqOK(q)'
    BY <1>0, <1>2, <2>1, <2>2 DEF Describe, ReqOK, Moved, Known, Truthful
  <2> QED BY <1>0, <1>2, <2>1, <2>2, <2>3, Quiet DEF Describe, Types, Returned
<1>3. CASE DescribeFails(q)
  <2>1. Known(req[q].n, req[q].read) /\ req[q].read \in Execution
    BY <1>0, <1>3 DEF DescribeFails, ReqOK, Known
  <2>2. Moved(q, "polled", req[q].read) /\ "polled" \in PC \ {"start"}
    BY <1>0, <1>3, <2>1, AnswerMoves DEF DescribeFails, PC, Returned
  <2>3. ReqOK(q)'
    BY <1>0, <1>3, <2>1, <2>2 DEF DescribeFails, ReqOK, Moved, Known, Truthful
  <2> QED BY <1>0, <1>3, <2>1, <2>2, <2>3, Quiet, FaultTyped DEF DescribeFails, Types, Returned
<1>4. CASE Unschedule(q)
  <2>1. Moved(q, "schedule", req[q].got) /\ "schedule" \in PC \ {"start"} /\ req[q].got \in Returned
    BY <1>0, <1>4, GotoMoves DEF Unschedule, PC, Request
  <2>2. ReqOK(q)'
    BY <1>0, <1>4, <2>1 DEF Unschedule, ReqOK, Moved
  <2> QED BY <1>0, <1>4, <2>1, <2>2, Quiet DEF Unschedule, Types
<1>5. CASE UnscheduleFails(q)
  <2>1. Moved(q, "schedule", req[q].got) /\ "schedule" \in PC \ {"start"} /\ req[q].got \in Returned
    BY <1>0, <1>5, GotoMoves DEF UnscheduleFails, PC, Request
  <2>2. ReqOK(q)'
    BY <1>0, <1>5, <2>1 DEF UnscheduleFails, ReqOK, Moved
  <2> QED BY <1>0, <1>5, <2>1, <2>2, Quiet, FaultTyped DEF UnscheduleFails, Types
<1>6. ASSUME ScheduleAt(q) \/ ScheduleExists(q) \/ \E reached \in BOOLEAN : ScheduleFails(q, reached)
      PROVE  Records'
  <2>1. PICK got \in BOOLEAN : Answer(q, "scheduled", got)
    BY <1>6 DEF ScheduleAt, ScheduleExists, ScheduleFails
  <2>2. Moved(q, "scheduled", got) /\ "scheduled" \in PC \ {"start"} /\ got \in Returned
    BY <1>0, <2>1, AnswerMoves DEF PC, Returned
  <2>3. req[q].pc \in {"unschedule", "schedule"}
    BY <1>6 DEF ScheduleAt, ScheduleExists, ScheduleFails
  <2>4. ReqOK(q)'
    BY <1>0, <2>2, <2>3 DEF ReqOK, Moved
  <2>5. NewTimer(q) \in Timer
    BY <1>0, <2>3 DEF NewTimer, Timer, ReqOK
  <2>6. timer' \in Timer \cup {None} /\ faults' \in 0..MaxFaults
    BY <1>0, <1>6, <2>5, FaultTyped DEF ScheduleAt, ScheduleExists, ScheduleFails, Types
  <2> QED BY <1>0, <1>6, <2>2, <2>4, <2>6, Quiet DEF ScheduleAt, ScheduleExists, ScheduleFails, Types
<1>7. CASE SaveSetting(q)
  <2>1. Ended(q) /\ policy' \in Timer
    BY <1>0, <1>7, DoneEnds DEF SaveSetting, NewTimer, Timer, ReqOK
  <2> QED BY <1>0, <1>7, <2>1, Quiet DEF SaveSetting, Types
<1>8. ASSUME Pause(q) \/ PauseRefused(q) \/ \E reached \in BOOLEAN : PauseFails(q, reached)
      PROVE  Records'
  <2>1. PICK got \in BOOLEAN : Answer(q, "paused", got)
    BY <1>8 DEF Pause, PauseRefused, PauseFails
  <2>2. Moved(q, "paused", got) /\ "paused" \in PC \ {"start"} /\ got \in Returned
    BY <1>0, <2>1, AnswerMoves DEF PC, Returned
  <2>3. req[q].pc = "pause"
    BY <1>8 DEF Pause, PauseRefused, PauseFails
  <2>4. ReqOK(q)'
    BY <1>0, <2>2, <2>3 DEF ReqOK, Moved
  <2>5. timer' \in Timer \cup {None} /\ faults' \in 0..MaxFaults
    BY <1>0, <1>8, <2>3, FaultTyped DEF Pause, PauseRefused, PauseFails, Timer, Types, ReqOK
  <2> QED BY <1>0, <1>8, <2>2, <2>4, <2>5, Quiet DEF Pause, PauseRefused, PauseFails, Types
<1>9. CASE SaveUpdate(q)
  <2>1. Ended(q) /\ sched' \in Schedule /\ torn' \in BOOLEAN
    BY <1>0, <1>9, DoneEnds DEF SaveUpdate, Schedule, ReqOK, Request
  <2> QED BY <1>0, <1>9, <2>1, Quiet DEF SaveUpdate, Types
<1>10. ASSUME Drop(q) \/ DropFails(q) PROVE Records'
  <2>1. Moved(q, "forget", req[q].got) /\ "forget" \in PC \ {"start"} /\ req[q].got \in Returned
    BY <1>0, <1>10, GotoMoves DEF Drop, DropFails, PC, Request
  <2>2. ReqOK(q)'
    BY <1>0, <1>10, <2>1 DEF Drop, DropFails, ReqOK, Moved
  <2> QED BY <1>0, <1>10, <2>1, <2>2, Quiet, FaultTyped DEF Drop, DropFails, Types
<1>11. CASE Forget(q)
  BY <1>0, <1>11, DoneEnds, Quiet DEF Forget, Types
<1> QED BY <1>1, <1>2, <1>3, <1>4, <1>5, <1>6, <1>7, <1>8, <1>9, <1>10, <1>11

LEMMA SaveScheduleKeeps ==
  ASSUME Records, NEW q \in Slot, SaveSchedule(q)
  PROVE  Records'
<1> USE WorkflowAssumption DEF Records, local, temporal
<1>0. /\ Types /\ ReqOK(q) /\ req[q] \in Request
  BY DEF Requests, Types
<1>1. sched' \in Schedule /\ torn' \in BOOLEAN
  BY <1>0 DEF SaveSchedule, ReqOK, Schedule, Request
<1>2. CASE req[q].op = "policy"
  <2>1. Moved(q, "setting", req[q].got) /\ "setting" \in PC \ {"start"} /\ req[q].got \in Returned
    BY <1>0, <1>2, GotoMoves DEF SaveSchedule, PC, Request
  <2>2. ReqOK(q)'
    BY <1>0, <1>2, <2>1 DEF SaveSchedule, ReqOK, Moved, Creating
  <2> QED BY <1>0, <1>1, <2>1, <2>2, Quiet DEF SaveSchedule, Types
<1>3. CASE req[q].op # "policy"
  BY <1>0, <1>1, <1>3, DoneEnds, Quiet DEF SaveSchedule, Types
<1> QED BY <1>2, <1>3

LEMMA PollKeeps ==
  ASSUME Records, NEW q \in Slot, NEW n \in ExecutionId, BeginPoll(q, n)
  PROVE  Records'
<1> USE WorkflowAssumption, NoneAssumption DEF Records, local, temporal
<1>1. execs[n] \in Execution /\ Known(n, execs[n]) /\ execs[n].status = "RUNNING"
  BY DEF BeginPoll, Types, Tables, ExecOK, Known
<1> DEFINE r == [op |-> "poll", pc |-> "describe", n |-> n, arg |-> None, read |-> execs[n],
                 got |-> None, torn |-> FALSE]
<1>2. r \in Request /\ req' = [req EXCEPT ![q] = r]
  <2>2. req' = [req EXCEPT ![q] = r]
    BY DEF BeginPoll
  <2>3. "describe" \in PC /\ n \in 0..MaxRequests /\ execs[n] \in Readable /\ None \in Returned
    BY <1>1 DEF PC, Readable, Returned, ExecutionId
  <2>4. r \in Request
    BY <2>3 DEF Request
  <2> QED BY <2>2, <2>4
<1>3. req' \in [Slot -> Request] /\ req'[q] = r /\ \A p \in Slot \ {q} : req'[p] = req[p]
  BY <1>2 DEF Types
<1>4. Types'
  BY <1>3 DEF BeginPoll, Types
<1>5. Tables' /\ Grows
  BY TablesStay DEF BeginPoll, Types
<1>6. ReqOK(q)'
  BY <1>1, <1>3 DEF BeginPoll, ReqOK, Known, Truthful
<1> QED BY <1>3, <1>4, <1>5, <1>6, OneMoves DEF Same, BeginPoll

-----------------------------------------------------------------------------
(* Each step keeps Records: the tables                                     *)

\* A step of the request q on the tables.
LEMMA Acts ==
  ASSUME Records, NEW q \in Slot, Types', Tables', Grows,
         \A p \in Slot \ {q} : req[p].pc = "start" => runs'[req[p].n] = runs[req[p].n],
         \/ Ended(q)
         \/ \E pc \in PC \ {"start"}, got \in Returned : Moved(q, pc, got) /\ ReqOK(q)'
  PROVE  Records'
<1>1. ReqOK(q)' /\ req'[q].pc # "start" /\ \A p \in Slot \ {q} : Same(p)
  BY EndedOK DEF Ended, Moved, Same
<1> QED BY <1>1, OneMoves DEF Records

LEMMA StartsKeep ==
  ASSUME Records, NEW q \in Slot,
         Start(q) \/ \E reached \in BOOLEAN : StartFails(q, reached)
  PROVE  Records'
<1> USE WorkflowAssumption, NoneAssumption DEF Records, local, temporal
<1> DEFINE n == req[q].n
<1>0. /\ Types /\ ReqOK(q) /\ req[q] \in Request /\ req[q].pc = "start"
  BY DEF Requests, Types, Start, StartFails
<1>1. /\ n \in ExecutionId /\ n <= seq /\ runs[n] = None
      /\ StartOK(req[q]) /\ req[q].arg \in WorkflowId \cup {None}
      /\ (req[q].op = "execute" => req[q].read \in Definition)
  BY <1>0 DEF ReqOK, StartOK
<1>2. NewRun(q) \in Run /\ NewRun(q) # None /\ NewRun(q).status = "RUNNING" /\ NewRun(q).tries = 0
      /\ NewRun(q).output = None /\ NewRun(q).script = None /\ NewRun(q).def = None
  BY <1>1 DEF NewRun, Run, Closed, Definition
<1>3. PICK got \in {None, n} :
        /\ Answer(q, "execution", got)
        /\ runs' = [runs EXCEPT ![n] = NewRun(q)] \/ (runs' = runs /\ got = None)
  BY DEF Start, StartFails
<1>4. Moved(q, "execution", got) /\ got \in Returned /\ "execution" \in PC \ {"start"}
  BY <1>0, <1>1, <1>3, AnswerMoves DEF Returned, PC
<1>5. UNCHANGED <<offered, seq, execs, tasks, review, sched, policy, script, defn, timer, torn>>
      /\ faults' \in 0..MaxFaults
  BY <1>0, FaultTyped DEF Start, StartFails, Types
<1>6. Types'
  BY <1>1, <1>2, <1>3, <1>4, <1>5 DEF Types, Moved
<1>7. Grows
  BY <1>1, <1>3, <1>5 DEF Grows, Types
<1>8. ASSUME NEW m \in ExecutionId PROVE RunOK(m)' /\ ExecOK(m)' /\ TaskOK(m)' /\ Unused(m)'
  <2>1. RunOK(m) /\ ExecOK(m) /\ TaskOK(m) /\ Unused(m)
    BY DEF Tables
  <2>2. CASE m = n /\ runs' = [runs EXCEPT ![n] = NewRun(q)]
    <3>1. runs'[m] = NewRun(q)
      BY <1>0, <1>1, <2>2 DEF Types
    <3>2. ~Known(m, execs[m]) /\ ExecOK(m)'
      BY <1>1, <1>5, <2>1, <2>2 DEF ExecOK, Known
    <3>3. RunOK(m)'
      BY <1>2, <3>1 DEF RunOK
    <3>4. TaskOK(m)'
      BY <1>1, <1>5, <2>1, <2>2 DEF TaskOK
    <3>5. Unused(m)'
      BY <1>0, <1>1, <1>5, <2>2 DEF Unused, Types, ExecutionId
    <3> QED BY <3>2, <3>3, <3>4, <3>5
  <2>3. CASE ~(m = n /\ runs' = [runs EXCEPT ![n] = NewRun(q)])
    <3>1. runs'[m] = runs[m]
      BY <1>0, <1>1, <1>3, <2>3 DEF Types
    <3> QED BY <1>5, <2>1, <3>1 DEF RunOK, ExecOK, Known, Truthful, TaskOK, Unused
  <2> QED BY <2>2, <2>3
<1>9. Tables'
  BY <1>5, <1>8 DEF Tables, ScriptOK, LinkOK
<1>10. ReqOK(q)'
  <2>1. got = n => runs'[n] # None
    BY <1>0, <1>1, <1>2, <1>3 DEF Types, ExecutionId
  <2> QED BY <1>1, <1>4, <1>5, <2>1 DEF ReqOK, Moved, StartOK, LinkOK
<1>11. \A p \in Slot \ {q} : req[p].pc = "start" => runs'[req[p].n] = runs[req[p].n]
  <2>1. \A p \in Slot \ {q} : req[p].pc = "start" => req[p].n # n /\ req[p].n \in ExecutionId
    BY <1>0 DEF Requests, Distinct, ReqOK, StartOK
  <2> QED BY <1>3, <2>1 DEF Types
<1> QED BY <1>4, <1>6, <1>7, <1>9, <1>10, <1>11, Acts

\* Record n is saved.
LEMMA RecordSaved ==
  ASSUME Records, NEW q \in Slot, NEW n \in ExecutionId, NEW record \in Execution,
         execs' = [execs EXCEPT ![n] = record], ExecOK(n)',
         UNCHANGED <<offered, seq, faults, tasks, review, sched, policy, script, defn, temporal, torn>>,
         \/ Ended(q)
         \/ \E pc \in PC \ {"start"}, got \in Returned : Moved(q, pc, got) /\ ReqOK(q)'
  PROVE  Records'
<1> USE NoneAssumption DEF Records, temporal
<1>1. execs'[n] = record /\ \A m \in ExecutionId \ {n} : execs'[m] = execs[m]
  BY DEF Types
<1>2. Types'
  BY DEF Types, Ended, Moved
<1>3. Grows
  BY <1>1 DEF Grows, Types
<1>4. LinkOK(review)'
  BY <1>1 DEF LinkOK, Tables, Types, Review
<1>5. ASSUME NEW m \in ExecutionId PROVE RunOK(m)' /\ ExecOK(m)' /\ TaskOK(m)' /\ Unused(m)'
  <2>1. RunOK(m) /\ ExecOK(m) /\ TaskOK(m) /\ Unused(m)
    BY DEF Tables
  <2>2. RunOK(m)' /\ TaskOK(m)' /\ Unused(m)'
    BY <2>1 DEF RunOK, TaskOK, Unused
  <2>3. ExecOK(m)'
    BY <1>1, <2>1 DEF ExecOK, Known, Truthful
  <2> QED BY <2>2, <2>3
<1>6. Tables'
  BY <1>4, <1>5 DEF Tables, ScriptOK
<1> QED BY <1>2, <1>3, <1>6, Acts

LEMMA RecordsKeep ==
  ASSUME Records, NEW q \in Slot, SaveExecution(q) \/ LinkTask(q) \/ SavePolled(q)
  PROVE  Records'
<1> USE WorkflowAssumption, NoneAssumption DEF Records
<1>0. Types /\ ReqOK(q) /\ req[q] \in Request
  BY DEF Requests, Types
<1>1. PICK n \in ExecutionId : n = req[q].n
  BY <1>0 DEF SaveExecution, LinkTask, SavePolled, ReqOK, StartOK
<1>2. UNCHANGED <<seq, tasks, runs>>
  BY DEF SaveExecution, LinkTask, SavePolled, temporal
<1>3. CASE SaveExecution(q)
  <2>1. PICK got : got = req[q].got /\ (got = None \/ (got = n /\ runs[n] # None))
    BY <1>0, <1>1, <1>3 DEF SaveExecution, ReqOK
  <2>2. PICK record : record = [run |-> got, status |-> IF got = None THEN "QUEUED" ELSE "RUNNING",
                                output |-> None, task |-> FALSE]
    OBVIOUS
  <2>3. PICK pc : pc = IF req[q].op \in {"execute", "trigger"} THEN "task" ELSE "review"
    OBVIOUS
  <2>4. record \in Execution
    BY <2>1, <2>2 DEF Execution
  <2>5. execs' = [execs EXCEPT ![n] = record] /\ execs'[n] = record
    BY <1>0, <1>1, <1>3, <2>1, <2>2 DEF SaveExecution, Types
  <2>6. ExecOK(n)'
    <3>1. CASE got = None
      <4>1. record.status = "QUEUED" /\ record.output = None /\ record.task = FALSE
        BY <2>2, <3>1
      <4> QED BY <2>5, <4>1 DEF ExecOK
    <3>2. CASE got = n /\ runs[n] # None
      <4>1. record.status = "RUNNING" /\ record.run = n /\ record.output = None /\ record.task = FALSE
        BY <2>1, <2>2, <3>2 DEF ExecutionId
      <4> QED BY <1>2, <2>4, <2>5, <3>2, <4>1 DEF ExecOK, Known, Truthful, Closed
    <3> QED BY <2>1, <3>1, <3>2
  <2>7. Moved(q, pc, got) /\ pc \in PC \ {"start"} /\ got \in Returned
    BY <1>0, <1>3, <2>1, <2>3, GotoMoves DEF SaveExecution, PC, Request
  <2>8. ReqOK(q)'
    <3>1. execs'[n] # None /\ StartOK(req[q])
      BY <1>0, <1>3, <2>4, <2>5 DEF SaveExecution, ReqOK
    <3>2. PICK read : read = req[q].read
      OBVIOUS
    <3>3. read \in Review /\ LinkOK(read) => LinkOK(read)'
      BY <2>4, <2>5 DEF LinkOK, Types, Review
    <3>4. req'[q].n = n /\ req'[q].pc = pc /\ req'[q].op = req[q].op /\ req'[q].read = read
      BY <1>1, <2>7, <3>2 DEF Moved
    <3>5. StartOK(req[q])'
      BY <1>1, <1>2, <3>1, <3>2, <3>3, <3>4 DEF StartOK, LinkOK
    <3> QED BY <2>3, <3>1, <3>4, <3>5 DEF ReqOK, StartOK, Starting
  <2> QED BY <1>3, <2>4, <2>5, <2>6, <2>7, <2>8, RecordSaved DEF SaveExecution
<1>4. CASE LinkTask(q)
  <2>1. execs[n] # None /\ tasks[n] # None /\ ExecOK(n)
    BY <1>0, <1>1, <1>4 DEF LinkTask, ReqOK, Tables
  <2>2. execs[n] \in Execution
    BY <1>0, <2>1 DEF Types
  <2>3. PICK record : record = [execs[n] EXCEPT !.task = TRUE]
    OBVIOUS
  <2>4. record \in Execution /\ record.run = execs[n].run /\ record.status = execs[n].status
        /\ record.output = execs[n].output
    BY <2>2, <2>3 DEF Execution
  <2>5. execs' = [execs EXCEPT ![n] = record] /\ execs'[n] = record
    BY <1>0, <1>1, <1>4, <2>3 DEF LinkTask, Types
  <2>6. ExecOK(n)'
    BY <1>2, <2>1, <2>4, <2>5 DEF ExecOK, Known, Truthful
  <2>7. Ended(q)
    BY <1>0, <1>4, DoneEnds DEF LinkTask
  <2> QED BY <1>4, <2>4, <2>5, <2>6, <2>7, RecordSaved DEF LinkTask
<1>5. CASE SavePolled(q)
  <2>1. PICK got : got = req[q].got
    OBVIOUS
  <2>2. Known(n, got) /\ got \in Execution /\ req[q].op = "poll"
    BY <1>0, <1>1, <1>5, <2>1 DEF SavePolled, ReqOK, Known
  <2>3. execs' = [execs EXCEPT ![n] = got] /\ execs'[n] = got
    BY <1>0, <1>1, <1>5, <2>1 DEF SavePolled, Types
  <2>4. Known(n, got)'
    BY <1>2, <2>2 DEF Known, Truthful
  <2>5. Moved(q, "sync", got) /\ "sync" \in PC \ {"start"} /\ got \in Returned
    BY <1>0, <1>5, <2>1, GotoMoves DEF SavePolled, PC, Request
  <2>6. req'[q].n = n /\ req'[q].pc = "sync" /\ req'[q].op = "poll" /\ req'[q].got = got
        /\ execs'[n] # None
    BY <1>1, <2>2, <2>3, <2>5 DEF Moved
  <2>7. ExecOK(n)' /\ ReqOK(q)'
    BY <2>3, <2>4, <2>6 DEF ExecOK, ReqOK
  <2> QED BY <1>5, <2>2, <2>3, <2>5, <2>7, RecordSaved DEF SavePolled
<1> QED BY <1>3, <1>4, <1>5

\* A task is saved.
LEMMA TasksKeep ==
  ASSUME Records, NEW q \in Slot, SaveTask(q) \/ SyncTask(q)
  PROVE  Records'
<1> USE WorkflowAssumption, NoneAssumption DEF Records, temporal
<1> DEFINE n == req[q].n
<1>0. Types /\ ReqOK(q) /\ req[q] \in Request
  BY DEF Requests, Types
<1>1. n \in ExecutionId /\ RunOK(n) /\ execs[n] # None
  BY <1>0 DEF SaveTask, SyncTask, ReqOK, Tables
<1>2. PICK new \in {None, "working", "done"} :
        /\ tasks' = [tasks EXCEPT ![n] = new]
        /\ tasks[n] # None => new # None
        /\ new = "done" /\ new # tasks[n] =>
             runs[n] # None /\ runs[n].status = "COMPLETED" /\ runs[n].output = "stages"
        /\ SaveTask(q) => new = "working"
  <2>1. CASE SaveTask(q)
    BY <2>1 DEF SaveTask, SyncTask
  <2>2. CASE SyncTask(q)
    <3> DEFINE record == req[q].got
    <3>1. Known(n, record)
      BY <1>0, <2>2 DEF SyncTask, ReqOK
    <3>2. ~SaveTask(q)
      BY <2>2 DEF SaveTask, SyncTask
    <3>3. tasks[n] \in {None, "working", "done"} /\ tasks = [tasks EXCEPT ![n] = tasks[n]]
      BY <1>0, <1>1 DEF Types
    <3>4. CASE record.task /\ record.output = "stages" /\ tasks[n] # None
      <4>1. record.status = "COMPLETED" /\ runs[n] # None /\ runs[n].status = "COMPLETED" /\ runs[n].output = "stages"
        BY <1>1, <3>1, <3>4 DEF Known, Truthful, RunOK, Closed, Execution
      <4>2. tasks' = [tasks EXCEPT ![n] = "done"]
        BY <2>2, <3>4, <4>1 DEF SyncTask
      <4> QED BY <3>2, <4>1, <4>2
    <3>5. CASE ~(record.task /\ record.output = "stages" /\ tasks[n] # None)
      BY <2>2, <3>2, <3>3, <3>5 DEF SyncTask
    <3> QED BY <3>4, <3>5
  <2> QED BY <2>1, <2>2
<1>3. UNCHANGED <<offered, seq, faults, execs, review, sched, policy, script, defn, runs, timer, torn>>
  BY DEF SaveTask, SyncTask
<1>4. Ended(q) \/ \E pc \in PC \ {"start"}, got \in Returned : Moved(q, pc, got) /\ ReqOK(q)'
  <2>1. CASE SaveTask(q) /\ req[q].op = "execute"
    <3>1. Moved(q, "link", req[q].got) /\ "link" \in PC \ {"start"} /\ req[q].got \in Returned
      BY <1>0, <2>1, GotoMoves DEF SaveTask, PC, Request
    <3>2. tasks'[n] # None
      BY <1>0, <1>1, <1>2, <2>1 DEF Types
    <3>3. ReqOK(q)'
      BY <1>1, <1>3, <2>1, <3>1, <3>2 DEF ReqOK, Moved
    <3> QED BY <3>1, <3>3
  <2>2. CASE ~(SaveTask(q) /\ req[q].op = "execute")
    BY <1>0, <2>2, DoneEnds DEF SaveTask, SyncTask
  <2> QED BY <2>1, <2>2
<1>5. tasks'[n] = new /\ \A m \in ExecutionId \ {n} : tasks'[m] = tasks[m]
  BY <1>0, <1>1, <1>2 DEF Types
<1>6. Types'
  BY <1>2, <1>3, <1>4 DEF Types, Ended, Moved
<1>7. Grows
  BY <1>2, <1>3, <1>5 DEF Grows, Types
<1>8. ASSUME NEW m \in ExecutionId PROVE RunOK(m)' /\ ExecOK(m)' /\ TaskOK(m)' /\ Unused(m)'
  <2>1. RunOK(m) /\ ExecOK(m) /\ TaskOK(m) /\ Unused(m)
    BY DEF Tables
  <2>2. RunOK(m)' /\ Unused(m)'
    BY <1>3, <2>1 DEF RunOK, Unused
  <2>3. ExecOK(m)'
    BY <1>2, <1>3, <1>5, <2>1 DEF ExecOK, Known, Truthful
  <2>4. TaskOK(m)'
    BY <1>2, <1>3, <1>5, <2>1 DEF TaskOK
  <2> QED BY <2>2, <2>3, <2>4
<1>9. Tables'
  BY <1>3, <1>8 DEF Tables, ScriptOK, LinkOK
<1> QED BY <1>3, <1>4, <1>6, <1>7, <1>9, Acts

\* A review or the definition is saved by a request that ends.
LEMMA EndsKeep ==
  ASSUME Records, NEW q \in Slot, SaveReview(q) \/ SaveDefinition(q)
  PROVE  Records'
<1> USE WorkflowAssumption, NoneAssumption DEF Records, temporal
<1>0. Types /\ ReqOK(q) /\ req[q] \in Request
  BY DEF Requests, Types
<1>1. Ended(q)
  BY <1>0, DoneEnds DEF SaveReview, SaveDefinition
<1>2. UNCHANGED <<offered, seq, faults, execs, tasks, sched, policy, script, runs, timer, torn>>
  BY DEF SaveReview, SaveDefinition
<1>3. review' \in Review /\ LinkOK(review)'
  <2>1. CASE SaveReview(q)
    <3>1. /\ req[q].n \in ExecutionId /\ execs[req[q].n] # None /\ req[q].read \in Review
      BY <1>0, <2>1 DEF SaveReview, ReqOK, StartOK
    <3>2. review' \in Review /\ review'.exec = req[q].n
      BY <2>1, <3>1 DEF SaveReview, Review, ExecutionId
    <3> QED BY <1>2, <3>1, <3>2 DEF LinkOK
  <2>2. CASE SaveDefinition(q)
    BY <1>0, <1>2, <2>2 DEF SaveDefinition, Types, Tables, LinkOK
  <2> QED BY <2>1, <2>2
<1>4. defn' \in Definition /\ ScriptOK'
  <2>1. CASE SaveReview(q)
    BY <1>0, <1>2, <2>1 DEF SaveReview, Types, Tables, ScriptOK
  <2>2. CASE SaveDefinition(q)
    <3>1. req[q].n \in 0..MaxRequests /\ req[q].n <= script
      BY <1>0, <2>2 DEF SaveDefinition, ReqOK, Request
    <3>2. defn' \in Definition /\ defn'.version = req[q].n
      BY <2>2, <3>1 DEF SaveDefinition, Definition
    <3> QED BY <1>2, <3>1, <3>2 DEF ScriptOK, Tables
  <2> QED BY <2>1, <2>2
<1>5. Types'
  BY <1>1, <1>2, <1>3, <1>4 DEF Types, Ended
<1>6. Grows
  BY <1>2 DEF Grows, Types
<1>7. Tables'
  BY <1>2, <1>3, <1>4 DEF Tables, RunOK, ExecOK, Known, Truthful, TaskOK, Unused
<1> QED BY <1>1, <1>2, <1>5, <1>6, <1>7, Acts

\* A step that changes no request.
LEMMA Idles ==
  ASSUME Records, Types', Tables', Grows, UNCHANGED req,
         \A p \in Slot : req[p].pc = "start" => runs'[req[p].n] = runs[req[p].n]
  PROVE  Records'
<1>1. \A p \in Slot : ReqOK(p)'
  BY ReqKept DEF Records, Same
<1> QED BY <1>1 DEF Records, Requests, Distinct

LEMMA AtOnceKeeps ==
  ASSUME Records, NEW q \in Slot,
         HandleReview(q) \/ ModifyReview(q) \/ RevokeReview(q) \/ DeclareDefinition(q)
  PROVE  Records'
<1> USE WorkflowAssumption, NoneAssumption DEF Records, temporal
<1>1. /\ UNCHANGED <<offered, faults, req, execs, tasks, sched, policy, script, runs, timer, torn>>
      /\ seq' = seq + 1 /\ seq < Most /\ seq \in 0..MaxRequests /\ Most \in 0..MaxRequests
  BY DEF HandleReview, ModifyReview, RevokeReview, DeclareDefinition, EditReview, AtOnce, Types, Most
<1>2. seq' \in 0..MaxRequests /\ seq <= seq'
  BY <1>1
<1>3. review' \in Review /\ LinkOK(review)'
  <2>1. review \in Review /\ LinkOK(review)
    BY DEF Types, Tables
  <2>2. review' \in Review /\ review'.exec = review.exec
    <3>1. CASE DeclareDefinition(q)
      BY <2>1, <3>1 DEF DeclareDefinition
    <3>2. CASE HandleReview(q) \/ ModifyReview(q)
      <4>1. PICK new : new = seq + 1 /\ new \in Nat
        BY <1>1
      <4> QED BY <2>1, <3>2, <4>1 DEF HandleReview, ModifyReview, EditReview, Review
    <3>3. CASE RevokeReview(q)
      BY <2>1, <3>3 DEF RevokeReview, EditReview, Review
    <3> QED BY <3>1, <3>2, <3>3
  <2> QED BY <1>1, <2>1, <2>2 DEF LinkOK
<1>4. defn' \in Definition /\ ScriptOK'
  <2>1. defn \in Definition /\ ScriptOK /\ script \in 0..MaxRequests
    BY DEF Types, Tables
  <2>2. script' <= seq'
    BY <1>1, <2>1 DEF ScriptOK
  <2>3. CASE DeclareDefinition(q)
    <3>1. defn' \in Definition /\ defn'.python = FALSE
      BY <1>1, <1>2, <2>3 DEF DeclareDefinition, Definition
    <3> QED BY <2>2, <3>1 DEF ScriptOK
  <2>4. CASE defn' = defn
    BY <1>1, <2>1, <2>2, <2>4 DEF ScriptOK
  <2> QED BY <2>3, <2>4 DEF HandleReview, ModifyReview, RevokeReview, EditReview
<1>5. Types'
  BY <1>1, <1>2, <1>3, <1>4 DEF Types
<1>6. Grows
  BY <1>1, <1>2 DEF Grows, Types
<1>7. ASSUME NEW m \in ExecutionId PROVE RunOK(m)' /\ ExecOK(m)' /\ TaskOK(m)' /\ Unused(m)'
  <2>1. RunOK(m) /\ ExecOK(m) /\ TaskOK(m) /\ Unused(m)
    BY DEF Tables
  <2>2. RunOK(m)' /\ ExecOK(m)' /\ TaskOK(m)'
    BY <1>1, <2>1 DEF RunOK, ExecOK, Known, Truthful, TaskOK
  <2>3. Unused(m)'
    BY <1>1, <2>1 DEF Unused, ExecutionId
  <2> QED BY <2>2, <2>3
<1>8. Tables'
  BY <1>3, <1>4, <1>7 DEF Tables
<1> QED BY <1>1, <1>5, <1>6, <1>8, Idles

LEMMA UploadKeeps ==
  ASSUME Records, NEW q \in Slot, UploadScript(q)
  PROVE  Records'
<1> USE WorkflowAssumption, NoneAssumption DEF Records, temporal
<1>1. Begin(q, "upload", "define", None, None) /\ script' = seq + 1
      /\ UNCHANGED <<offered, faults, execs, tasks, review, sched, policy, defn, runs, timer, torn>>
  BY DEF UploadScript
<1>2. IsTaken(q, "upload", "define", None, None)
  <2>1. "upload" \in Operations /\ "define" \in PC /\ None \in Readable
    BY DEF Operations, PC, Readable
  <2> QED BY <1>1, <2>1, Taken
<1> USE <1>2 DEF IsTaken
<1>3. script \in Nat /\ seq \in Nat /\ script <= seq /\ script' = seq' /\ script <= script'
  BY <1>1 DEF Types, Tables, ScriptOK
<1>4. Types'
  BY <1>1, <1>3 DEF Types
<1>5. Grows
  BY <1>1, <1>3 DEF Grows
<1>6. ScriptOK'
  <2>1. defn.version \in Nat
    BY DEF Types, Definition
  <2> QED BY <1>1, <1>3, <2>1 DEF Tables, ScriptOK
<1>7. ASSUME NEW m \in ExecutionId PROVE RunOK(m)' /\ ExecOK(m)' /\ TaskOK(m)' /\ Unused(m)'
  <2>1. RunOK(m) /\ ExecOK(m) /\ TaskOK(m) /\ Unused(m)
    BY DEF Tables
  <2>2. ExecOK(m)' /\ TaskOK(m)'
    BY <1>1, <2>1 DEF ExecOK, Known, Truthful, TaskOK
  <2>3. RunOK(m)'
    <3>1. runs[m] # None => runs[m].def \in Nat \cup {None}
      BY DEF Types, Run
    <3> QED BY <1>1, <1>3, <2>1, <3>1 DEF RunOK
  <2>4. Unused(m)'
    BY <1>1, <1>3, <2>1 DEF Unused, ExecutionId
  <2> QED BY <2>2, <2>3, <2>4
<1>8. Tables'
  BY <1>1, <1>6, <1>7 DEF Tables, LinkOK
<1>9. ReqOK(q)' /\ req'[q].pc # "start"
  BY <1>1, <1>3 DEF ReqOK
<1> QED BY <1>1, <1>4, <1>5, <1>8, <1>9, OneMoves

\* A run moves on.
LEMMA RunMoves ==
  ASSUME Records, NEW n \in ExecutionId, NEW run \in Run, Running(n),
         runs' = [runs EXCEPT ![n] = run], RunOK(n)',
         UNCHANGED <<offered, seq, faults, req, local, timer, torn>>
  PROVE  Records'
<1> USE NoneAssumption DEF Records, local
<1>1. runs'[n] = run /\ run # None /\ \A m \in ExecutionId \ {n} : runs'[m] = runs[m]
  BY DEF Types
<1>2. Types'
  BY DEF Types
<1>3. Grows
  BY <1>1 DEF Grows, Types, Running, Closed
<1>4. ASSUME NEW m \in ExecutionId PROVE RunOK(m)' /\ ExecOK(m)' /\ TaskOK(m)' /\ Unused(m)'
  <2>1. RunOK(m) /\ ExecOK(m) /\ TaskOK(m) /\ Unused(m)
    BY DEF Tables
  <2>2. RunOK(m)'
    BY <1>1, <2>1 DEF RunOK
  <2>3. ExecOK(m)'
    <3>1. runs[m] # None => runs'[m] # None /\ (runs[m].status \in Closed => runs'[m] = runs[m])
      BY <1>3 DEF Grows
    <3> QED BY <2>1, <3>1 DEF ExecOK, Known, Truthful
  <2>4. TaskOK(m)'
    BY <1>1, <2>1 DEF TaskOK, Running
  <2>5. Unused(m)'
    BY <1>1, <2>1 DEF Unused, Running
  <2> QED BY <2>2, <2>3, <2>4, <2>5
<1>5. Tables'
  BY <1>4 DEF Tables, ScriptOK, LinkOK
<1>6. \A p \in Slot : req[p].pc = "start" => runs'[req[p].n] = runs[req[p].n]
  BY <1>1 DEF Requests, ReqOK, StartOK, Running
<1> QED BY <1>2, <1>3, <1>5, <1>6, Idles

LEMMA WorkKeeps ==
  ASSUME Records, NEW n \in ExecutionId, Work(n)
  PROVE  Records'
<1> USE WorkflowAssumption, NoneAssumption DEF Records
<1>0. Types /\ runs \in [ExecutionId -> Run \cup {None}] /\ script \in Nat
  BY DEF Types
<1>1. Running(n) /\ runs[n] # None /\ runs[n] \in Run /\ runs[n].status = "RUNNING"
      /\ RunOK(n) /\ runs[n].tries \in Nat /\ runs[n].tries < MaxTries
  <2>1. Running(n) /\ RunOK(n)
    BY DEF Work, LoadDefinition, RunScript, ScriptFails, EndSteps, Tables
  <2> QED BY <1>0, <2>1 DEF Running, Run, RunOK
<1>2. CASE LoadDefinition(n)
  <2> DEFINE kind == IF runs[n].kind = "python" /\ ~defn.python THEN "stuck" ELSE runs[n].kind
             run == [runs[n] EXCEPT !.def = defn.version, !.kind = kind]
  <2>1. run \in Run /\ run.def = defn.version /\ run.kind = kind /\ run.status = "RUNNING"
        /\ run.tries = runs[n].tries /\ run.output = runs[n].output /\ run.script = runs[n].script
    <3>1. PICK version \in Nat : version = defn.version
      BY <1>0 DEF Types, Definition
    <3>2. PICK new \in {"python", "declared", "build", "stuck"} : new = kind
      BY <1>1 DEF Run
    <3>3. run = [runs[n] EXCEPT !.def = version, !.kind = new]
      BY <3>1, <3>2
    <3> HIDE DEF run, kind
    <3> QED BY <1>1, <3>1, <3>2, <3>3 DEF Run
  <2>2. runs' = [runs EXCEPT ![n] = run] /\ runs'[n] = run
    BY <1>0, <1>1, <1>2 DEF LoadDefinition
  <2>3. run.script = None
    BY <1>1, <1>2, <2>1 DEF LoadDefinition, RunOK
  <2>4. run.kind = "python" => run.def <= script
    BY <2>1 DEF Tables, ScriptOK
  <2>5. RunOK(n)'
    <3>1. script' = script
      BY <1>2 DEF LoadDefinition, local
    <3> QED BY <1>1, <2>1, <2>2, <2>3, <2>4, <3>1 DEF RunOK
  <2> QED BY <1>1, <1>2, <2>1, <2>2, <2>5, RunMoves DEF LoadDefinition
<1>3. ASSUME NEW status \in {"RUNNING"} \cup Closed, NEW output \in {None, "plain", "stages"},
             Attempt(n, status, output), status # "COMPLETED" => output = None,
             status = "RUNNING" => runs[n].tries + 1 # MaxTries,
             runs[n].kind = "python" /\ runs[n].def # None,
             UNCHANGED <<offered, seq, faults, req, local, timer, torn>>
      PROVE  Records'
  <2> DEFINE run == [runs[n] EXCEPT !.script = script, !.tries = runs[n].tries + 1,
                                    !.status = status, !.output = output]
  <2>1. runs[n].tries + 1 \in 0..MaxTries
    BY <1>1
  <2>2. run \in Run /\ run.def = runs[n].def /\ run.kind = "python" /\ run.status = status
        /\ run.tries = runs[n].tries + 1 /\ run.output = output /\ run.script = script
    BY <1>0, <1>1, <1>3, <2>1 DEF Run
  <2>3. runs' = [runs EXCEPT ![n] = run] /\ runs'[n] = run
    BY <1>0, <1>1, <1>3 DEF Attempt
  <2>4. run.def <= script /\ run.def \in Nat
    BY <1>1, <1>3, <2>2 DEF RunOK, Run
  <2>5. RunOK(n)'
    <3>1. script' = script
      BY <1>3 DEF local
    <3>2. status = "RUNNING" => run.tries < MaxTries
      BY <1>1, <1>3, <2>2
    <3> QED BY <1>0, <1>3, <2>2, <2>3, <2>4, <3>1, <3>2 DEF RunOK
  <2> QED BY <1>1, <1>3, <2>2, <2>3, <2>5, RunMoves
<1>4. ASSUME NEW output \in {"plain", "stages"}, RunScript(n, output) PROVE Records'
  BY <1>3, <1>4 DEF RunScript, Closed
<1>5. CASE ScriptFails(n)
  BY <1>3, <1>5 DEF ScriptFails, Closed
<1>6. ASSUME NEW status \in Closed, EndSteps(n, status) PROVE Records'
  <2> DEFINE output == IF status = "COMPLETED" THEN "plain" ELSE None
             run == [runs[n] EXCEPT !.status = status, !.output = output]
  <2>1. run \in Run /\ run.def = runs[n].def /\ run.kind = runs[n].kind /\ run.status = status
        /\ run.output = output /\ run.script = runs[n].script
    BY <1>1 DEF Run
  <2>2. runs' = [runs EXCEPT ![n] = run] /\ runs'[n] = run
    BY <1>0, <1>1, <1>6 DEF EndSteps
  <2>3. run.kind # "python" /\ run.script = None
    BY <1>1, <1>6, <2>1 DEF EndSteps, RunOK
  <2>4. RunOK(n)'
    BY <1>6, <2>1, <2>2, <2>3 DEF RunOK, Closed
  <2> QED BY <1>1, <1>6, <2>1, <2>2, <2>4, RunMoves DEF EndSteps
<1> QED BY <1>2, <1>4, <1>5, <1>6 DEF Work

LEMMA CrashKeeps ==
  ASSUME Records, Crash
  PROVE  Records'
<1> USE DEF Records, local, temporal
<1>1. \A q \in Slot : req'[q] = NoRequest
  BY DEF Crash
<1>2. req' \in [Slot -> Request]
  BY NoRequestTyped DEF Crash
<1>3. Types'
  BY <1>2, FaultTyped DEF Crash, Types
<1>4. Tables'
  BY TablesStay DEF Crash, Types
<1>5. Requests'
  BY <1>1, EndedOK DEF Requests, Distinct
<1> QED BY <1>3, <1>4, <1>5

LEMMA StutterKeeps ==
  ASSUME Records, UNCHANGED vars
  PROVE  Records'
<1> USE DEF Records, vars, local, temporal
<1>1. Types'
  BY DEF Types
<1>2. Tables' /\ Grows
  BY WorkflowAssumption, TablesStay DEF Types
<1> QED BY <1>1, <1>2, Idles

LEMMA RecordsStep ==
  ASSUME Records, [Next]_vars
  PROVE  Records'
<1>1. ASSUME NEW q \in Slot, Step(q) PROVE Records'
  BY <1>1, QuietSteps, SaveScheduleKeeps, StartsKeep, RecordsKeep, TasksKeep, EndsKeep DEF Step
<1>2. ASSUME NEW q \in Slot, Fails(q) PROVE Records'
  BY <1>2, QuietSteps, StartsKeep DEF Fails
<1>3. ASSUME NEW q \in Slot, Arrive(q) PROVE Records'
  BY <1>3, TakesKeep, PollKeeps, AtOnceKeeps, UploadKeeps DEF Arrive, Creating
<1>4. ASSUME NEW n \in ExecutionId, Work(n) PROVE Records'
  BY <1>4, WorkKeeps
<1> QED BY <1>1, <1>2, <1>3, <1>4, CrashKeeps, StutterKeeps DEF Next

LEMMA RecordsInit ==
  ASSUME Init
  PROVE  Records
<1> USE WorkflowAssumption, NoneAssumption DEF Init
<1>1. Types
  <2>1. review \in Review /\ defn \in Definition
    BY DEF Review, Definition
  <2>2. req \in [Slot -> Request]
    BY NoRequestTyped
  <2>3. execs \in [ExecutionId -> Execution \cup {None}] /\ runs \in [ExecutionId -> Run \cup {None}]
        /\ tasks \in [ExecutionId -> {None, "working", "done"}]
    OBVIOUS
  <2>4. seq \in 0..MaxRequests /\ faults \in 0..MaxFaults /\ script \in 0..MaxRequests
    OBVIOUS
  <2>5. torn \in BOOLEAN /\ sched \in Schedule \cup {None} /\ policy \in Timer \cup {None}
        /\ timer \in Timer \cup {None} /\ offered \in Mixes
    OBVIOUS
  <2> HIDE DEF Init
  <2> QED BY <2>1, <2>2, <2>3, <2>4, <2>5 DEF Types
<1>2. Tables
  BY DEF Tables, ScriptOK, LinkOK, RunOK, ExecOK, TaskOK, Unused
<1>3. Requests
  BY DEF Requests, Distinct, ReqOK, NoRequest
<1> QED BY <1>1, <1>2, <1>3 DEF Records

-----------------------------------------------------------------------------
(* Each step keeps Schedules                                               *)

SchedulingPC == {"unschedule", "schedule", "scheduled", "setting", "pause", "paused", "drop", "forget"}

\* A request for the schedule is known by where it stands.
LEMMA BusyAt ==
  ASSUME Records, NEW q \in Slot
  PROVE  /\ Busy(q) <=> req[q].pc \in SchedulingPC
         /\ req[q] \in Request /\ req[q].torn \in BOOLEAN
<1>1. ReqOK(q) /\ req[q] \in Request
  BY DEF Records, Types, Requests
<1>2. req[q].torn \in BOOLEAN /\ req[q].pc \in PC
  BY <1>1 DEF Request
<1>3. CASE req[q].pc \in SchedulingPC
  <2>1. req[q].op \in {"create", "policy", "update", "delete"}
    BY <1>1, <1>3 DEF SchedulingPC, Creating, ReqOK
  <2>2. Busy(q)
    BY <2>1 DEF Busy, Scheduling
  <2> QED BY <1>1, <1>2, <1>3, <2>2
<1>4. CASE req[q].pc = "idle"
  <2>1. req[q].op = None
    BY <1>1, <1>4 DEF ReqOK, NoRequest
  <2>2. ~Busy(q)
    BY <2>1, NoneAssumption DEF Busy, Scheduling, Operations
  <2> QED BY <1>1, <1>2, <1>4, <2>2 DEF SchedulingPC
<1>5. CASE req[q].pc \in PC \ (SchedulingPC \cup {"idle"})
  <2>1. req[q].op \in {"execute", "trigger", "rerun", "retry", "poll", "upload"}
    BY <1>1, <1>5 DEF ReqOK, StartOK, Starting, SchedulingPC, PC
  <2>2. ~Busy(q)
    BY <2>1 DEF Busy, Scheduling
  <2> QED BY <1>1, <1>2, <1>5, <2>2
<1> QED BY <1>1, <1>2, <1>3, <1>4, <1>5

LEMMA NotBusy ==
  ASSUME NEW q \in Slot, req'[q] = NoRequest
  PROVE  ~Busy(q)' /\ req'[q].pc = "idle"
BY NoneAssumption DEF Busy, NoRequest, Scheduling, Operations

\* Steps that leave the schedule alone.
LEMMA Aside ==
  ASSUME Records, Schedules, UNCHANGED <<sched, timer, torn>>,
         \A p \in Slot : \/ Same(p) /\ (req[p].pc = "setting" => req'[p] = req[p])
                         \/ ~Busy(p) /\ ~Busy(p)' /\ req'[p].pc \notin SchedulingPC
  PROVE  Schedules'
<1>1. Agreed' <=> Agreed
  BY DEF Agreed
<1>2. ASSUME NEW p \in Slot
      PROVE  /\ Busy(p)' <=> Busy(p)
             /\ Busy(p) => /\ req'[p].pc = req[p].pc /\ req'[p].got = req[p].got
                           /\ req'[p].arg = req[p].arg /\ (req[p].torn => req'[p].torn)
                           /\ req[p].pc = "setting" => req'[p].torn = req[p].torn
  <2>1. req[p] \in Request
    BY BusyAt
  <2> QED BY <2>1 DEF Same, Busy, Request
<1>3. \A p \in Slot : req'[p].pc \in SchedulingPC => Busy(p)'
  <2> SUFFICES ASSUME NEW p \in Slot, req'[p].pc \in SchedulingPC PROVE Busy(p)'
    OBVIOUS
  <2>1. req[p] \in Request /\ Same(p)
    BY BusyAt
  <2>2. req'[p].pc = req[p].pc
    BY <2>1 DEF Same, Request
  <2> QED BY <1>2, <2>2, BusyAt
<1>4. \A p, q \in Slot : (Busy(p)' /\ Busy(q)' /\ p # q) => req'[p].torn /\ req'[q].torn
  BY <1>2 DEF Schedules
<1>5. ASSUME NEW q \in Slot
      PROVE  /\ (req'[q].pc \in {"scheduled", "paused"} /\ ~req'[q].torn /\ req'[q].got = TRUE) =>
                  timer' # None /\ timer'.active = req'[q].arg
             /\ req'[q].pc = "setting" => torn' = req'[q].torn /\ Agreed'
  BY <1>1, <1>2, <1>3 DEF Schedules, SchedulingPC
<1>6. (\A q \in Slot : ~Busy(q)') => Agreed'
  BY <1>1, <1>2 DEF Schedules
<1> QED BY <1>4, <1>5, <1>6 DEF Schedules

\* A request for the schedule is taken up.
LEMMA TakesSchedule ==
  ASSUME Records, Schedules, NEW q \in Slot, NEW op \in Scheduling, NEW pc \in PC, NEW arg, NEW read,
         Begin(q, op, pc, arg, read), pc \notin {"scheduled", "paused", "setting"},
         UNCHANGED <<sched, timer, torn>>
  PROVE  Schedules'
<1>1. Busy(q)' /\ req'[q].torn = Overlapped(q, op) /\ req'[q].pc = pc
  BY DEF Begin, Busy
<1>2. ASSUME NEW p \in Slot \ {q}
      PROVE  /\ Busy(p)' <=> Busy(p)
             /\ req'[p].pc = req[p].pc /\ req'[p].got = req[p].got /\ req'[p].arg = req[p].arg
             /\ req'[p].torn = (req[p].torn \/ Busy(p))
             /\ req[p].pc # "setting"
  <2>1. req[p] \in Request
    BY BusyAt
  <2>2. PICK t : t = (req[p].torn \/ (op \in Scheduling /\ req[p].op \in Scheduling))
    OBVIOUS
  <2>3. req'[p] = [req[p] EXCEPT !.torn = t]
    BY <2>2 DEF Begin
  <2> QED BY <2>1, <2>2, <2>3 DEF Request, Busy, Begin, Loop, Mid
<1>3. \A p \in Slot \ {q} : Busy(p) => Overlapped(q, op)
  BY DEF Overlapped, Busy
<1>4. \A p, r \in Slot : (Busy(p)' /\ Busy(r)' /\ p # r) => req'[p].torn /\ req'[r].torn
  BY <1>1, <1>2, <1>3 DEF Schedules
<1>5. ASSUME NEW p \in Slot
      PROVE  /\ (req'[p].pc \in {"scheduled", "paused"} /\ ~req'[p].torn /\ req'[p].got = TRUE) =>
                  timer' # None /\ timer'.active = req'[p].arg
             /\ req'[p].pc # "setting"
  BY <1>1, <1>2 DEF Schedules
<1> QED BY <1>1, <1>4, <1>5 DEF Schedules

\* Others, while q acts on the schedule.
LEMMA Others ==
  ASSUME Records, Schedules, NEW q \in Slot, Busy(q), NEW p \in Slot \ {q},
         req'[p] = req[p]
  PROVE  /\ Busy(p)' <=> Busy(p)
         /\ Busy(p) => req'[p].torn /\ req[q].torn
         /\ req'[p].pc \in SchedulingPC => Busy(p)
         /\ req'[p].pc = "setting" => torn
BY BusyAt DEF Schedules, Busy, SchedulingPC

\* Temporal is asked.
LEMMA TimerMoves ==
  ASSUME Records, Schedules, NEW q \in Slot, Busy(q), NEW pc, NEW got, Moved(q, pc, got),
         pc # "setting", UNCHANGED <<sched, torn>>,
         pc \in {"scheduled", "paused"} /\ got = TRUE => timer' # None /\ timer'.active = req[q].arg
  PROVE  Schedules'
<1>1. Busy(q)' /\ req'[q].torn = req[q].torn /\ req'[q].pc = pc /\ req'[q].got = got /\ req'[q].arg = req[q].arg
  BY DEF Moved, Busy
<1>2. \A p \in Slot \ {q} : /\ Busy(p)' <=> Busy(p)
                            /\ Busy(p) => req'[p].torn /\ req[q].torn
                            /\ req'[p].pc \in SchedulingPC => Busy(p)
                            /\ req'[p].pc = "setting" => torn
  BY Others DEF Moved
<1>3. \A p, r \in Slot : (Busy(p)' /\ Busy(r)' /\ p # r) => req'[p].torn /\ req'[r].torn
  BY <1>1, <1>2
<1>4. torn' => Agreed'
  BY DEF Agreed
<1>5. ASSUME NEW p \in Slot
      PROVE  /\ (req'[p].pc \in {"scheduled", "paused"} /\ ~req'[p].torn /\ req'[p].got = TRUE) =>
                  timer' # None /\ timer'.active = req'[p].arg
             /\ req'[p].pc = "setting" => torn' = req'[p].torn /\ Agreed'
  BY <1>1, <1>2, <1>4 DEF SchedulingPC, Schedules, Moved
<1> QED BY <1>1, <1>3, <1>5 DEF Schedules

\* The record of the schedule is saved.
LEMMA ScheduleSaved ==
  ASSUME Records, Schedules, NEW q \in Slot, req[q].pc \in {"scheduled", "paused"}, Loop(q),
         UNCHANGED timer, torn' = req[q].torn,
         sched'.active = req[q].arg, sched'.synced = req[q].got,
         Ended(q) \/ Moved(q, "setting", req[q].got)
  PROVE  Schedules'
<1>1. Busy(q) /\ req[q].got \in BOOLEAN /\ req[q].torn \in BOOLEAN
  BY BusyAt DEF SchedulingPC, Records, Requests, ReqOK
<1>2. Agreed'
  BY <1>1 DEF Agreed, Schedules
<1>3. ASSUME NEW p \in Slot \ {q}
      PROVE  /\ req'[p] = req[p] /\ (Busy(p)' <=> Busy(p)) /\ req'[p].pc # "setting"
             /\ Busy(p) => req'[p].torn
             /\ req'[p].pc \in SchedulingPC => Busy(p)
  BY <1>1, Others DEF Ended, Moved, Loop, Mid
<1>4. CASE Ended(q)
  <2>1. ~Busy(q)' /\ req'[q].pc = "idle"
    BY <1>4, NotBusy DEF Ended, NoRequest
  <2> QED BY <1>2, <1>3, <2>1 DEF Schedules
<1>5. CASE Moved(q, "setting", req[q].got)
  <2>1. Busy(q)' /\ req'[q].torn = req[q].torn /\ req'[q].pc = "setting"
    BY <1>1, <1>5 DEF Moved, Busy
  <2>2. \A p \in Slot \ {q} : Busy(p) => req[q].torn
    BY <1>1 DEF Schedules
  <2> QED BY <1>2, <1>3, <2>1, <2>2 DEF Schedules
<1> QED BY <1>4, <1>5

\* A request for the schedule ends.
LEMMA ScheduleEnds ==
  ASSUME Records, Schedules, NEW q \in Slot, Busy(q), Ended(q), UNCHANGED <<timer, torn>>, Agreed'
  PROVE  Schedules'
<1>1. ~Busy(q)' /\ req'[q].pc = "idle"
  BY NotBusy DEF Ended, NoRequest
<1>2. \A p \in Slot \ {q} : req'[p] = req[p] /\ (Busy(p)' <=> Busy(p))
  BY DEF Ended, Busy
<1> QED BY <1>1, <1>2 DEF Schedules

LEMMA SchedulesStep ==
  ASSUME Records, Schedules, [Next]_vars
  PROVE  Schedules'
<1> USE DEF local, temporal
<1>0. Types /\ \A q \in Slot : ReqOK(q) /\ req[q] \in Request /\ TRUE \in Returned /\ FALSE \in Returned
  BY DEF Records, Requests, Types, Returned
<1>1. ASSUME NEW q \in Slot,
             \/ Start(q) \/ StartRefused(q) \/ SaveExecution(q) \/ SaveTask(q) \/ LinkTask(q)
             \/ SaveReview(q) \/ Describe(q) \/ SavePolled(q) \/ SyncTask(q) \/ SaveDefinition(q)
             \/ DescribeFails(q) \/ \E reached \in BOOLEAN : StartFails(q, reached)
      PROVE  Schedules'
  <2>1. req[q].pc \in {"start", "execution", "task", "link", "review", "describe", "polled", "sync", "define"}
        /\ UNCHANGED <<sched, timer, torn>>
    BY <1>1 DEF Start, StartRefused, SaveExecution, SaveTask, LinkTask, SaveReview, Describe,
                SavePolled, SyncTask, SaveDefinition, DescribeFails, StartFails
  <2>2. ~Busy(q)
    BY <2>1, BusyAt DEF SchedulingPC
  <2>3. /\ \A p \in Slot \ {q} : req'[p] = req[p]
        /\ req'[q] = NoRequest \/ (req'[q].op = req[q].op /\ req'[q].pc \notin SchedulingPC)
    <3>1. \/ Done(q) \/ Goto(q, "task") \/ Goto(q, "review") \/ Goto(q, "link") \/ Goto(q, "sync")
          \/ \E got : Answer(q, "execution", got) \/ Answer(q, "polled", got)
      BY <1>1 DEF Start, StartRefused, SaveExecution, SaveTask, LinkTask, SaveReview, Describe,
                  SavePolled, SyncTask, SaveDefinition, DescribeFails, StartFails
    <3> QED BY <1>0, <3>1 DEF Done, Goto, Answer, Types, Request, SchedulingPC
  <2>4. ~Busy(q)' /\ req'[q].pc \notin SchedulingPC
    BY <2>2, <2>3, NotBusy DEF Busy, SchedulingPC
  <2> QED BY <2>1, <2>2, <2>3, <2>4, Aside DEF Same
<1>2. ASSUME NEW q \in Slot, NEW op \in Operations \ Scheduling, NEW pc \in PC \ SchedulingPC, NEW arg, NEW read,
             Begin(q, op, pc, arg, read), UNCHANGED <<sched, timer, torn>>
      PROVE  Schedules'
  <2>1. ~Busy(q) /\ ~Busy(q)' /\ req'[q].pc \notin SchedulingPC
    <3>1. req[q].pc = "idle" /\ req'[q].op = op /\ req'[q].pc = pc
      BY <1>2 DEF Begin
    <3> QED BY <3>1, BusyAt DEF Busy, SchedulingPC
  <2>2. ASSUME NEW p \in Slot \ {q} PROVE req'[p] = req[p]
    <3>1. PICK t : t = (req[p].torn \/ (op \in Scheduling /\ req[p].op \in Scheduling))
      OBVIOUS
    <3>2. req'[p] = [req[p] EXCEPT !.torn = t] /\ t = req[p].torn
      BY <1>2, <3>1, BusyAt DEF Begin
    <3> QED BY <1>0, <3>2 DEF Request
  <2> QED BY <1>2, <2>1, <2>2, Aside DEF Same
<1>3. ASSUME NEW q \in Slot, NEW n \in ExecutionId, BeginPoll(q, n) PROVE Schedules'
  <2>1. ~Busy(q) /\ ~Busy(q)' /\ req'[q].pc \notin SchedulingPC /\ UNCHANGED <<sched, timer, torn>>
    <3>1. req[q].pc = "idle" /\ req'[q].op = "poll" /\ req'[q].pc = "describe"
      BY <1>0, <1>3 DEF BeginPoll, Types
    <3> QED BY <1>3, <3>1, BusyAt DEF BeginPoll, Busy, SchedulingPC, Scheduling
  <2> QED BY <1>0, <1>3, <2>1, Aside DEF BeginPoll, Same, Types
<1>4. ASSUME UNCHANGED <<req, sched, timer, torn>> PROVE Schedules'
  BY <1>4, Aside DEF Same
<1>5. ASSUME NEW q \in Slot,
             \/ Unschedule(q) \/ UnscheduleFails(q) \/ ScheduleAt(q) \/ ScheduleExists(q)
             \/ Pause(q) \/ PauseRefused(q) \/ Drop(q) \/ DropFails(q)
             \/ \E reached \in BOOLEAN : ScheduleFails(q, reached) \/ PauseFails(q, reached)
      PROVE  Schedules'
  <2>1. Busy(q) /\ UNCHANGED <<sched, torn>>
    BY <1>5, BusyAt DEF Unschedule, UnscheduleFails, ScheduleAt, ScheduleExists, Pause, PauseRefused,
                        Drop, DropFails, ScheduleFails, PauseFails, SchedulingPC
  <2>2. CASE Unschedule(q) \/ UnscheduleFails(q)
    <3>1. Moved(q, "schedule", req[q].got)
      BY <1>0, <2>2, GotoMoves DEF Unschedule, UnscheduleFails, PC
    <3> QED BY <2>1, <3>1, TimerMoves
  <2>3. CASE Drop(q) \/ DropFails(q)
    <3>1. Moved(q, "forget", req[q].got)
      BY <1>0, <2>3, GotoMoves DEF Drop, DropFails, PC
    <3> QED BY <2>1, <3>1, TimerMoves
  <2>4. CASE ScheduleAt(q)
    <3>1. Moved(q, "scheduled", TRUE) /\ timer' = NewTimer(q)
      BY <1>0, <2>4, AnswerMoves DEF ScheduleAt, PC
    <3>2. NewTimer(q) \in Timer /\ NewTimer(q).active = req[q].arg
      BY <1>0, <2>4 DEF ScheduleAt, NewTimer, Timer, ReqOK
    <3>3. NewTimer(q) # None
      BY <3>2, NoneAssumption
    <3> QED BY <2>1, <3>1, <3>2, <3>3, TimerMoves
  <2>5. CASE ScheduleExists(q) \/ \E reached \in BOOLEAN : ScheduleFails(q, reached)
    <3>1. Moved(q, "scheduled", FALSE)
      BY <1>0, <2>5, AnswerMoves DEF ScheduleExists, ScheduleFails, PC
    <3> QED BY <2>1, <3>1, TimerMoves
  <2>6. CASE Pause(q)
    <3>1. Moved(q, "paused", TRUE) /\ timer' = [timer EXCEPT !.active = req[q].arg] /\ timer \in Timer
      BY <1>0, <2>6, AnswerMoves DEF Pause, PC, Types
    <3>2. timer' \in Timer /\ timer'.active = req[q].arg
      BY <1>0, <2>6, <3>1 DEF Pause, Timer, ReqOK
    <3>3. timer' # None
      BY <3>2, NoneAssumption
    <3> QED BY <2>1, <3>1, <3>2, <3>3, TimerMoves
  <2>7. CASE PauseRefused(q) \/ \E reached \in BOOLEAN : PauseFails(q, reached)
    <3>1. Moved(q, "paused", FALSE)
      BY <1>0, <2>7, AnswerMoves DEF PauseRefused, PauseFails, PC
    <3> QED BY <2>1, <3>1, TimerMoves
  <2> QED BY <1>5, <2>2, <2>3, <2>4, <2>5, <2>6, <2>7
<1>6. ASSUME NEW q \in Slot, SaveSchedule(q) PROVE Schedules'
  <2>1. sched'.active = req[q].arg /\ sched'.synced = req[q].got /\ torn' = req[q].torn
        /\ UNCHANGED timer /\ req[q].pc \in {"scheduled", "paused"} /\ Loop(q)
    BY <1>6 DEF SaveSchedule
  <2>2. Ended(q) \/ Moved(q, "setting", req[q].got)
    BY <1>0, <1>6, DoneEnds, GotoMoves DEF SaveSchedule, PC
  <2> QED BY <2>1, <2>2, ScheduleSaved
<1>7. ASSUME NEW q \in Slot, SaveUpdate(q) PROVE Schedules'
  <2>1. req[q].read \in Schedule
    BY <1>0, <1>7 DEF SaveUpdate, ReqOK
  <2>2. sched'.active = req[q].arg /\ sched'.synced = req[q].got
    BY <1>7, <2>1 DEF SaveUpdate, Schedule
  <2>3. torn' = req[q].torn /\ UNCHANGED timer /\ req[q].pc \in {"scheduled", "paused"} /\ Loop(q)
    BY <1>7 DEF SaveUpdate
  <2>4. Ended(q)
    BY <1>0, <1>7, DoneEnds DEF SaveUpdate
  <2> QED BY <2>2, <2>3, <2>4, ScheduleSaved
<1>8. ASSUME NEW q \in Slot, SaveSetting(q) \/ Forget(q) PROVE Schedules'
  <2>1. Busy(q) /\ UNCHANGED <<timer, torn>>
    BY <1>8, BusyAt DEF SaveSetting, Forget, SchedulingPC
  <2>2. Agreed'
    <3>1. CASE SaveSetting(q)
      BY <3>1 DEF SaveSetting, Schedules, Agreed
    <3>2. CASE Forget(q)
      BY <3>2 DEF Forget, Agreed
    <3> QED BY <1>8, <3>1, <3>2
  <2>3. Ended(q)
    BY <1>0, <1>8, DoneEnds DEF SaveSetting, Forget
  <2> QED BY <2>1, <2>2, <2>3, ScheduleEnds
<1>9. CASE Crash
  <2>1. \A q \in Slot : req'[q] = NoRequest /\ ~Busy(q)' /\ req'[q].pc = "idle"
    BY <1>9, NotBusy DEF Crash, NoRequest
  <2>2. Agreed'
    BY <1>9 DEF Crash, Agreed, Schedules, Busy
  <2> QED BY <2>1, <2>2 DEF Schedules
<1>10. ASSUME NEW q \in Slot, Arrive(q) PROVE Schedules'
  <2>1. CASE \E wid \in WorkflowId \cup {None} : BeginExecute(q, wid)
    BY <1>2, <2>1 DEF BeginExecute, Operations, Scheduling, PC, SchedulingPC
  <2>2. CASE BeginTrigger(q) \/ BeginRerun(q) \/ BeginRetry(q) \/ UploadScript(q)
    BY <1>2, <2>2 DEF BeginTrigger, BeginRerun, BeginRetry, UploadScript, Operations, Scheduling, PC, SchedulingPC
  <2>3. CASE HandleReview(q) \/ ModifyReview(q) \/ RevokeReview(q) \/ DeclareDefinition(q)
    BY <1>4, <2>3 DEF HandleReview, ModifyReview, RevokeReview, EditReview, DeclareDefinition
  <2>4. ASSUME NEW active \in BOOLEAN, NEW op \in {"create", "policy"}, BeginCreate(q, op, active) PROVE Schedules'
    BY <2>4, TakesSchedule DEF BeginCreate, Scheduling, PC
  <2>5. ASSUME NEW active \in BOOLEAN, BeginUpdate(q, active) PROVE Schedules'
    BY <2>5, TakesSchedule DEF BeginUpdate, Scheduling, PC
  <2>6. CASE BeginDelete(q)
    BY <2>6, TakesSchedule DEF BeginDelete, Scheduling, PC
  <2> QED BY <1>3, <1>10, <2>1, <2>2, <2>3, <2>4, <2>5, <2>6 DEF Arrive
<1>11. ASSUME NEW n \in ExecutionId, Work(n) PROVE Schedules'
  BY <1>4, <1>11 DEF Work, LoadDefinition, RunScript, ScriptFails, EndSteps
<1>12. CASE UNCHANGED vars
  BY <1>4, <1>12 DEF vars
<1>13. ASSUME NEW q \in Slot, Step(q) \/ Fails(q) PROVE Schedules'
  BY <1>1, <1>5, <1>6, <1>7, <1>8, <1>13 DEF Step, Fails
<1> QED BY <1>9, <1>10, <1>11, <1>12, <1>13 DEF Next

-----------------------------------------------------------------------------
(* Theorems                                                                *)

\* The invariant: what every request knows where it stands (Records), and what
\* the record of the schedule has to do with Temporal's (Schedules).
THEOREM Invariance == Spec => []IndInv
<1>1. Init => IndInv
  <2> SUFFICES ASSUME Init PROVE Schedules
    BY RecordsInit DEF IndInv
  <2>1. \A q \in Slot : req[q] = NoRequest
    BY DEF Init
  <2> QED BY <2>1, NoneAssumption DEF Init, Schedules, Agreed, Busy, NoRequest, Scheduling, Operations
<1>2. IndInv /\ [Next]_vars => IndInv'
  BY RecordsStep, SchedulesStep DEF IndInv
<1> QED BY <1>1, <1>2, PTL DEF Spec

\* Every variable has its type, whatever requests overlap, fail or crash.
THEOREM TypeCorrect == Spec => []TypeOK
<1>1. IndInv => TypeOK
  BY DEF IndInv, Records, Types, TypeOK, Request, NoRequest
<1> QED BY <1>1, Invariance, PTL

\* A run that fails never shows in the task centre: its record keeps no stages,
\* so the branch that would set the task to "error" is never taken.
THEOREM NoTaskFails == Spec => [](\A n \in ExecutionId : tasks[n] # "error")
<1>1. IndInv => \A n \in ExecutionId : tasks[n] # "error"
  <2> SUFFICES ASSUME IndInv, NEW n \in ExecutionId PROVE tasks[n] # "error"
    OBVIOUS
  <2>1. tasks[n] \in {None, "working", "done"}
    BY DEF IndInv, Records, Types
  <2> QED BY <2>1, NoneAssumption
<1> QED BY <1>1, Invariance, PTL

\* Whatever polls overlap, fail or are cut short by a crash, a record that says
\* how a run ended and a task that says it is done are right about the run.
THEOREM RecordsTrue == Spec => []RecordsAreTrue
<1>1. IndInv => RecordsAreTrue
  <2> SUFFICES ASSUME IndInv, NEW n \in ExecutionId
               PROVE  /\ (execs[n] # None /\ execs[n].status \in Closed) =>
                            execs[n].status = runs[n].status /\ execs[n].output = runs[n].output
                      /\ tasks[n] = "done" => runs[n].status = "COMPLETED" /\ runs[n].output = "stages"
    BY DEF RecordsAreTrue
  <2> QED BY DEF IndInv, Records, Tables, ExecOK, TaskOK, Known, Truthful, Closed
<1> QED BY <1>1, Invariance, PTL

\* Wherever a crash cuts a request, no record points to a task and no review to
\* an execution that was not saved.
THEOREM LinksHold == Spec => []NoDanglingLink
<1>1. IndInv => NoDanglingLink
  BY DEF IndInv, Records, Tables, ExecOK, Known, LinkOK, NoDanglingLink
<1> QED BY <1>1, Invariance, PTL

\* However uploads, declarations, loads and retries interleave, no attempt runs
\* a script older than the definition its run has loaded.
THEOREM ScriptsFollow == Spec => []ScriptNotOlder
<1>1. IndInv => ScriptNotOlder
  BY DEF IndInv, Records, Tables, RunOK, ScriptNotOlder
<1> QED BY <1>1, Invariance, PTL

\* A schedule record that says it was handed to Temporal agrees with Temporal's
\* schedule, unless requests for it overlapped or were cut short.
THEOREM ScheduleAgreement == Spec => []ScheduleAgrees
<1>1. IndInv => ScheduleAgrees
  BY DEF IndInv, Schedules, Agreed, Busy, ScheduleAgrees
<1> QED BY <1>1, Invariance, PTL

=============================================================================
