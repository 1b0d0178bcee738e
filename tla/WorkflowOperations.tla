------------------------- MODULE WorkflowOperations -------------------------
(***************************************************************************)
(* The control plane of the workflows: one API process keeps workflow      *)
(* definitions, execution records, task-centre tasks, legacy review tasks  *)
(* and schedules in SQLite and drives Temporal, which runs the workflows   *)
(* and fires the schedules.  The handlers are coroutines of one event      *)
(* loop: between two awaits a handler runs alone, across an await the      *)
(* others run, and what it read before the await may be stale after it.    *)
(* Every row is committed on its own, so a crash keeps a prefix of them.   *)
(*                                                                         *)
(* The n-th request names what it creates: execution n with its run and    *)
(* its task, version n of the script or of the schedule's specification.   *)
(***************************************************************************)
EXTENDS Naturals

CONSTANTS
  Slot,          \* requests that may be in flight at once
  WorkflowId,    \* the workflow ids that clients choose
  Mixes,         \* bound: the sets of operations that clients mix
  MaxRequests,   \* bound: requests that change something
  MaxStarts,     \* bound: the same, where clients start or review runs
  MaxFaults,     \* bound: calls to Temporal that fail, and crashes of the API
  MaxTries,      \* attempts of an activity (maximum_attempts)
  None

Operations == {"execute", "trigger", "rerun", "retry", "handle", "modify", "revoke",
               "upload", "declare", "create", "policy", "update", "delete"}

ASSUME WorkflowAssumption ==
  /\ MaxRequests \in Nat /\ MaxStarts \in 0..MaxRequests /\ MaxFaults \in Nat /\ MaxTries \in Nat \ {0}
  /\ \A mix \in Mixes : mix \subseteq Operations

VARIABLES
  offered,  \* the operations that the clients of this behaviour use
  seq,      \* requests so far
  faults,   \* faults so far
  req,      \* the request each slot carries
  execs,    \* workflow_executions
  tasks,    \* tasks of the task centre that stand for a run
  review,   \* a review task of the legacy table
  sched,    \* workflow_schedules: the record of the schedule auto-graph-build
  policy,   \* settings: update_policy
  script,   \* version of the uploaded script on the shared disk
  defn,     \* workflow_definitions: version and kind of the custom definition
  runs,     \* Temporal: the runs
  timer,    \* Temporal: the schedule
  torn      \* history: the last request that wrote sched overlapped another

local == <<execs, tasks, review, sched, policy, script, defn>>
temporal == <<runs, timer>>
vars == <<offered, seq, faults, req, local, temporal, torn>>

Id == 1..MaxRequests
ExecutionId == 1..MaxStarts
Closed == {"COMPLETED", "FAILED"}
Scheduling == {"create", "policy", "update", "delete"}

Execution == [run: ExecutionId \cup {None}, status: {"RUNNING", "QUEUED"} \cup Closed,
              output: {None, "plain", "stages"}, task: BOOLEAN]
Review == [status: {"pending", "done", "revoked"}, result: Nat, exec: ExecutionId \cup {None}]
Schedule == [active: BOOLEAN, spec: Id, synced: BOOLEAN]
Timer == [active: BOOLEAN, spec: Id]
Definition == [version: 0..MaxRequests, python: BOOLEAN]
Run == [wid: WorkflowId \cup {None}, kind: {"python", "declared", "build", "stuck"}, status: {"RUNNING"} \cup Closed,
        output: {None, "plain", "stages"}, def: Nat \cup {None}, script: Nat \cup {None},
        tries: 0..MaxTries]

ASSUME NoneAssumption ==
  /\ None \notin WorkflowId \cup Nat \cup BOOLEAN \cup Operations \cup Closed
  /\ None \notin {"poll", "plain", "stages", "working", "done", "error"}
  /\ None \notin Execution \cup Schedule \cup Timer \cup Run

\* Commits that follow one another without an await.
Mid == {"task", "link", "review", "sync", "setting", "define"}

\* A request: its operation, where it stands, its number, its argument, what
\* it read before its await, what the call returned, and whether it overlapped.
NoRequest == [op |-> None, pc |-> "idle", n |-> 0, arg |-> None, read |-> None,
              got |-> None, torn |-> FALSE]

TypeOK ==
  /\ offered \in Mixes
  /\ seq \in 0..MaxRequests /\ faults \in 0..MaxFaults /\ torn \in BOOLEAN
  /\ \A n \in ExecutionId :
       /\ execs[n] = None \/ execs[n] \in Execution
       /\ tasks[n] \in {None, "working", "done", "error"}
       /\ runs[n] = None \/ runs[n] \in Run
  /\ review \in Review
  /\ sched = None \/ sched \in Schedule
  /\ policy = None \/ policy \in Timer
  /\ timer = None \/ timer \in Timer
  /\ script \in 0..MaxRequests /\ defn \in Definition
  /\ \A q \in Slot : DOMAIN req[q] = DOMAIN NoRequest

\* A deployment that holds an uploaded script, a pending review and no schedule.
Init ==
  /\ offered \in Mixes
  /\ seq = 0 /\ faults = 0 /\ torn = FALSE
  /\ req = [q \in Slot |-> NoRequest]
  /\ execs = [n \in ExecutionId |-> None]
  /\ tasks = [n \in ExecutionId |-> None]
  /\ runs = [n \in ExecutionId |-> None]
  /\ review = [status |-> "pending", result |-> 0, exec |-> None]
  /\ sched = None /\ policy = None /\ timer = None
  /\ script = 0 /\ defn = [version |-> 0, python |-> TRUE]

-----------------------------------------------------------------------------
(* Requests                                                                *)

Most == IF offered \subseteq Scheduling THEN MaxRequests ELSE MaxStarts

\* The event loop is q's: no other handler is between two commits.
Loop(q) == \A p \in Slot \ {q} : req[p].pc \notin Mid

Goto(q, pc) == req' = [req EXCEPT ![q].pc = pc]
Done(q) == req' = [req EXCEPT ![q] = NoRequest]
Answer(q, pc, got) == req' = [req EXCEPT ![q].pc = pc, ![q].got = got]

Overlapped(q, op) ==
  op \in Scheduling /\ \E p \in Slot \ {q} : req[p].op \in Scheduling

\* A request that changes something is taken up and reads what it needs.
Begin(q, op, pc, arg, read) ==
  /\ req[q].pc = "idle" /\ Loop(q) /\ op \in offered /\ seq < Most
  /\ seq' = seq + 1
  /\ req' = [p \in Slot |->
       IF p = q THEN [op |-> op, pc |-> pc, n |-> seq + 1, arg |-> arg, read |-> read,
                      got |-> None, torn |-> Overlapped(q, op)]
       ELSE [req[p] EXCEPT !.torn = @ \/ (op \in Scheduling /\ req[p].op \in Scheduling)]]

\* A request that never awaits.
AtOnce(q, op) == /\ req[q].pc = "idle" /\ Loop(q) /\ op \in offered /\ seq < Most
                 /\ seq' = seq + 1

Fault == faults < MaxFaults /\ faults' = faults + 1

-----------------------------------------------------------------------------
(* Executions                                                              *)

BeginExecute(q, wid) ==
  /\ Begin(q, "execute", "start", wid, defn)
  /\ UNCHANGED <<offered, faults, local, temporal, torn>>

BeginTrigger(q) ==
  /\ Begin(q, "trigger", "start", None, None)
  /\ UNCHANGED <<offered, faults, local, temporal, torn>>

\* handle_review(rerun): only a pending review may be handled.
BeginRerun(q) ==
  /\ review.status = "pending"
  /\ Begin(q, "rerun", "start", None, review)
  /\ UNCHANGED <<offered, faults, local, temporal, torn>>

BeginRetry(q) ==
  /\ Begin(q, "retry", "start", None, review)
  /\ UNCHANGED <<offered, faults, local, temporal, torn>>

\* Temporal refuses a workflow id that a running run holds.
Held(wid) == wid # None /\ \E n \in ExecutionId :
  runs[n] # None /\ runs[n].wid = wid /\ runs[n].status = "RUNNING"

NewRun(q) == [wid |-> req[q].arg,
              kind |-> IF req[q].op # "execute" THEN "build"
                       ELSE IF req[q].read.python THEN "python" ELSE "declared",
              status |-> "RUNNING", output |-> None, def |-> None, script |-> None, tries |-> 0]

Start(q) ==
  /\ req[q].pc = "start" /\ ~Held(req[q].arg)
  /\ runs' = [runs EXCEPT ![req[q].n] = NewRun(q)]
  /\ Answer(q, "execution", req[q].n)
  /\ UNCHANGED <<offered, seq, faults, local, timer, torn>>

\* "already started": the request is refused with 409 and nothing is saved.
StartRefused(q) ==
  /\ req[q].pc = "start" /\ Held(req[q].arg)
  /\ Done(q)
  /\ UNCHANGED <<offered, seq, faults, local, temporal, torn>>

\* Any other error leads to a local record, whether or not Temporal had
\* started the run before the answer was lost.
StartFails(q, reached) ==
  /\ req[q].pc = "start" /\ Fault
  /\ reached => ~Held(req[q].arg)
  /\ runs' = IF reached THEN [runs EXCEPT ![req[q].n] = NewRun(q)] ELSE runs
  /\ Answer(q, "execution", None)
  /\ UNCHANGED <<offered, seq, local, timer, torn>>

\* Mutant: The execution is saved with the id of a task that is saved after it.
MutantSaveExecution(q) ==
  /\ req[q].pc = "execution" /\ Loop(q)
  /\ execs' = [execs EXCEPT ![req[q].n] =
       [run |-> req[q].got, status |-> IF req[q].got = None THEN "QUEUED" ELSE "RUNNING",
        output |-> None, task |-> req[q].op = "execute"]]
  /\ Goto(q, IF req[q].op \in {"execute", "trigger"} THEN "task" ELSE "review")
  /\ UNCHANGED <<offered, seq, faults, tasks, review, sched, policy, script, defn, temporal, torn>>

SaveExecution(q) ==
  /\ req[q].pc = "execution" /\ Loop(q)
  /\ execs' = [execs EXCEPT ![req[q].n] =
       [run |-> req[q].got, status |-> IF req[q].got = None THEN "QUEUED" ELSE "RUNNING",
        output |-> None, task |-> FALSE]]
  /\ Goto(q, IF req[q].op \in {"execute", "trigger"} THEN "task" ELSE "review")
  /\ UNCHANGED <<offered, seq, faults, tasks, review, sched, policy, script, defn, temporal, torn>>

\* trigger_graph_build leaves the execution without the id of its task.
SaveTask(q) ==
  /\ req[q].pc = "task"
  /\ tasks' = [tasks EXCEPT ![req[q].n] = "working"]
  /\ IF req[q].op = "execute" THEN Goto(q, "link") ELSE Done(q)
  /\ UNCHANGED <<offered, seq, faults, execs, review, sched, policy, script, defn, temporal, torn>>

LinkTask(q) ==
  /\ req[q].pc = "link"
  /\ execs' = [execs EXCEPT ![req[q].n].task = TRUE]
  /\ Done(q)
  /\ UNCHANGED <<offered, seq, faults, tasks, review, sched, policy, script, defn, temporal, torn>>

\* The review as it was read before the await, with what the request changes.
SaveReview(q) ==
  /\ req[q].pc = "review"
  /\ review' = IF req[q].op = "rerun"
               THEN [status |-> "done", result |-> req[q].n, exec |-> req[q].n]
               ELSE [req[q].read EXCEPT !.exec = req[q].n]
  /\ Done(q)
  /\ UNCHANGED <<offered, seq, faults, execs, tasks, sched, policy, script, defn, temporal, torn>>

\* handle_review without a rerun, modify_review_result and revoke_review.
EditReview(q, op, new) ==
  /\ AtOnce(q, op)
  /\ review' = new
  /\ UNCHANGED <<offered, faults, req, execs, tasks, sched, policy, script, defn, temporal, torn>>

HandleReview(q) ==
  /\ review.status = "pending"
  /\ EditReview(q, "handle", [review EXCEPT !.status = "done", !.result = seq + 1])

ModifyReview(q) == EditReview(q, "modify", [review EXCEPT !.result = seq + 1])

RevokeReview(q) == EditReview(q, "revoke", [review EXCEPT !.status = "revoked"])

\* get_execution asks Temporal only about a record that says RUNNING.
BeginPoll(q, n) ==
  /\ req[q].pc = "idle" /\ Loop(q)
  /\ execs[n] # None /\ execs[n].status = "RUNNING"
  /\ req' = [req EXCEPT ![q] = [op |-> "poll", pc |-> "describe", n |-> n, arg |-> None,
                                 read |-> execs[n], got |-> None, torn |-> FALSE]]
  /\ UNCHANGED <<offered, seq, faults, local, temporal, torn>>

\* refresh_execution keeps the output of a completed run only.
Refreshed(record) ==
  LET run == runs[record.run] IN
  [record EXCEPT !.status = run.status,
                 !.output = IF run.status = "COMPLETED" THEN run.output ELSE @]

Describe(q) ==
  /\ req[q].pc = "describe"
  /\ Answer(q, "polled", Refreshed(req[q].read))
  /\ UNCHANGED <<offered, seq, faults, local, temporal, torn>>

\* Mutant: A refresh that fails is taken for a run that failed.
MutantDescribeFails(q) ==
  /\ req[q].pc = "describe" /\ Fault
  /\ Answer(q, "polled", [req[q].read EXCEPT !.status = "FAILED"])
  /\ UNCHANGED <<offered, seq, local, temporal, torn>>

DescribeFails(q) ==
  /\ req[q].pc = "describe" /\ Fault
  /\ Answer(q, "polled", req[q].read)
  /\ UNCHANGED <<offered, seq, local, temporal, torn>>

\* Mutant: A poll answers the caller and does not save what it learnt.
MutantSavePolled(q) ==
  /\ req[q].pc = "polled" /\ Loop(q)
  /\ Goto(q, "sync")
  /\ UNCHANGED <<offered, seq, faults, local, temporal, torn>>

SavePolled(q) ==
  /\ req[q].pc = "polled" /\ Loop(q)
  /\ execs' = [execs EXCEPT ![req[q].n] = req[q].got]
  /\ Goto(q, "sync")
  /\ UNCHANGED <<offered, seq, faults, tasks, review, sched, policy, script, defn, temporal, torn>>

\* _sync_task_from_execution: only an output with stages reaches the task.
SyncTask(q) ==
  LET record == req[q].got IN
  /\ req[q].pc = "sync"
  /\ tasks' = IF record.task /\ record.output = "stages" /\ tasks[req[q].n] # None
              THEN [tasks EXCEPT ![req[q].n] = IF record.status = "COMPLETED" THEN "done"
                                               ELSE IF record.status = "FAILED" THEN "error"
                                               ELSE @]
              ELSE tasks
  /\ Done(q)
  /\ UNCHANGED <<offered, seq, faults, execs, review, sched, policy, script, defn, temporal, torn>>

-----------------------------------------------------------------------------
(* Definitions and runs                                                    *)

\* Mutant: An upload keeps the file that is there.
MutantUploadScript(q) ==
  /\ Begin(q, "upload", "define", None, None)
  /\ UNCHANGED <<offered, faults, local, temporal, torn>>

\* create_python_definition writes the file, then the definition.
UploadScript(q) ==
  /\ Begin(q, "upload", "define", None, None)
  /\ script' = seq + 1
  /\ UNCHANGED <<offered, faults, execs, tasks, review, sched, policy, defn, temporal, torn>>

SaveDefinition(q) ==
  /\ req[q].pc = "define"
  /\ defn' = [version |-> req[q].n, python |-> TRUE]
  /\ Done(q)
  /\ UNCHANGED <<offered, seq, faults, execs, tasks, review, sched, policy, script, temporal, torn>>

\* create_definition replaces a definition of the same id, whatever its kind.
DeclareDefinition(q) ==
  /\ AtOnce(q, "declare")
  /\ defn' = [version |-> seq + 1, python |-> FALSE]
  /\ UNCHANGED <<offered, faults, req, execs, tasks, review, sched, policy, script, temporal, torn>>

Running(n) == runs[n] # None /\ runs[n].status = "RUNNING"

\* The worker, a process of its own, loads the definition once per run.  A
\* script's run that finds no script path in it is stuck: its workflow task
\* fails again and again.
LoadDefinition(n) ==
  /\ Running(n) /\ runs[n].kind \in {"python", "declared"} /\ runs[n].def = None
  /\ runs' = [runs EXCEPT ![n].def = defn.version,
       ![n].kind = IF @ = "python" /\ ~defn.python THEN "stuck" ELSE @]
  /\ UNCHANGED <<offered, seq, faults, req, local, timer, torn>>

\* An attempt runs the file that the path holds now.  It may succeed or fail,
\* and is retried with the definition that was loaded.
Attempt(n, status, output) ==
  runs' = [runs EXCEPT ![n] = [runs[n] EXCEPT !.script = script, !.tries = runs[n].tries + 1,
                                              !.status = status, !.output = output]]

RunScript(n, output) ==
  /\ Running(n) /\ runs[n].kind = "python" /\ runs[n].def # None
  /\ Attempt(n, "COMPLETED", output)
  /\ UNCHANGED <<offered, seq, faults, req, local, timer, torn>>

\* Mutant: The retry policy allows one attempt too many.
MutantScriptFails(n) ==
  /\ Running(n) /\ runs[n].kind = "python" /\ runs[n].def # None
  /\ Attempt(n, IF runs[n].tries = MaxTries THEN "FAILED" ELSE "RUNNING", None)
  /\ UNCHANGED <<offered, seq, faults, req, local, timer, torn>>

ScriptFails(n) ==
  /\ Running(n) /\ runs[n].kind = "python" /\ runs[n].def # None
  /\ Attempt(n, IF runs[n].tries + 1 = MaxTries THEN "FAILED" ELSE "RUNNING", None)
  /\ UNCHANGED <<offered, seq, faults, req, local, timer, torn>>

\* kg.graph.build and kg.custom.configurable return the results of their steps,
\* which are no stages.
EndSteps(n, status) ==
  /\ Running(n)
  /\ runs[n].kind = "build" \/ (runs[n].kind = "declared" /\ runs[n].def # None)
  /\ runs' = [runs EXCEPT ![n].status = status,
                          ![n].output = IF status = "COMPLETED" THEN "plain" ELSE None]
  /\ UNCHANGED <<offered, seq, faults, req, local, timer, torn>>

-----------------------------------------------------------------------------
(* Schedules                                                               *)

BeginCreate(q, op, active) ==
  /\ Begin(q, op, "unschedule", active, None)
  /\ UNCHANGED <<offered, faults, local, temporal, torn>>

\* create_schedule first deletes; a schedule that is absent is no error.
Unschedule(q) ==
  /\ req[q].pc = "unschedule"
  /\ timer' = None
  /\ Goto(q, "schedule")
  /\ UNCHANGED <<offered, seq, faults, local, runs, torn>>

\* ... nor is a delete that failed.
UnscheduleFails(q) ==
  /\ req[q].pc = "unschedule" /\ Fault
  /\ Goto(q, "schedule")
  /\ UNCHANGED <<offered, seq, local, temporal, torn>>

NewTimer(q) == [active |-> req[q].arg, spec |-> req[q].n]

ScheduleAt(q) ==
  /\ req[q].pc = "schedule" /\ timer = None
  /\ timer' = NewTimer(q)
  /\ Answer(q, "scheduled", TRUE)
  /\ UNCHANGED <<offered, seq, faults, local, runs, torn>>

ScheduleExists(q) ==
  /\ req[q].pc = "schedule" /\ timer # None
  /\ Answer(q, "scheduled", FALSE)
  /\ UNCHANGED <<offered, seq, faults, local, temporal, torn>>

\* No connection, or an answer that is lost before or after the effect.
ScheduleFails(q, reached) ==
  /\ req[q].pc \in {"unschedule", "schedule"} /\ Fault
  /\ reached => req[q].pc = "schedule" /\ timer = None
  /\ timer' = IF reached THEN NewTimer(q) ELSE timer
  /\ Answer(q, "scheduled", FALSE)
  /\ UNCHANGED <<offered, seq, local, runs, torn>>

SaveSchedule(q) ==
  /\ req[q].pc = "scheduled" /\ Loop(q)
  /\ sched' = [active |-> req[q].arg, spec |-> req[q].n, synced |-> req[q].got]
  /\ torn' = req[q].torn
  /\ IF req[q].op = "policy" THEN Goto(q, "setting") ELSE Done(q)
  /\ UNCHANGED <<offered, seq, faults, execs, tasks, review, policy, script, defn, temporal>>

SaveSetting(q) ==
  /\ req[q].pc = "setting"
  /\ policy' = NewTimer(q)
  /\ Done(q)
  /\ UNCHANGED <<offered, seq, faults, execs, tasks, review, sched, script, defn, temporal, torn>>

BeginUpdate(q, active) ==
  /\ sched # None
  /\ Begin(q, "update", "pause", active, sched)
  /\ UNCHANGED <<offered, faults, local, temporal, torn>>

\* Mutant: The state is handed to Temporal as if it were the paused flag.
MutantPause(q) ==
  /\ req[q].pc = "pause" /\ timer # None
  /\ timer' = [timer EXCEPT !.active = ~req[q].arg]
  /\ Answer(q, "paused", TRUE)
  /\ UNCHANGED <<offered, seq, faults, local, runs, torn>>

Pause(q) ==
  /\ req[q].pc = "pause" /\ timer # None
  /\ timer' = [timer EXCEPT !.active = req[q].arg]
  /\ Answer(q, "paused", TRUE)
  /\ UNCHANGED <<offered, seq, faults, local, runs, torn>>

PauseRefused(q) ==
  /\ req[q].pc = "pause" /\ timer = None
  /\ Answer(q, "paused", FALSE)
  /\ UNCHANGED <<offered, seq, faults, local, temporal, torn>>

PauseFails(q, reached) ==
  /\ req[q].pc = "pause" /\ Fault
  /\ reached => timer # None
  /\ timer' = IF reached THEN [timer EXCEPT !.active = req[q].arg] ELSE timer
  /\ Answer(q, "paused", FALSE)
  /\ UNCHANGED <<offered, seq, local, runs, torn>>

\* The record as it was read before the await, with the new state.
SaveUpdate(q) ==
  /\ req[q].pc = "paused" /\ Loop(q)
  /\ sched' = [req[q].read EXCEPT !.active = req[q].arg, !.synced = req[q].got]
  /\ torn' = req[q].torn
  /\ Done(q)
  /\ UNCHANGED <<offered, seq, faults, execs, tasks, review, policy, script, defn, temporal>>

BeginDelete(q) ==
  /\ sched # None
  /\ Begin(q, "delete", "drop", None, None)
  /\ UNCHANGED <<offered, faults, local, temporal, torn>>

Drop(q) ==
  /\ req[q].pc = "drop"
  /\ timer' = None
  /\ Goto(q, "forget")
  /\ UNCHANGED <<offered, seq, faults, local, runs, torn>>

\* The record goes even if Temporal keeps its schedule.
DropFails(q) ==
  /\ req[q].pc = "drop" /\ Fault
  /\ Goto(q, "forget")
  /\ UNCHANGED <<offered, seq, local, temporal, torn>>

Forget(q) ==
  /\ req[q].pc = "forget" /\ Loop(q)
  /\ sched' = None
  /\ Done(q)
  /\ UNCHANGED <<offered, seq, faults, execs, tasks, review, policy, script, defn, temporal, torn>>

\* The API process restarts; its requests are gone, what was committed stays.
Crash ==
  /\ Fault
  /\ \E q \in Slot : req[q].pc # "idle"
  /\ torn' = (torn \/ \E q \in Slot : req[q].op \in Scheduling)
  /\ req' = [q \in Slot |-> NoRequest]
  /\ UNCHANGED <<offered, seq, local, temporal>>

-----------------------------------------------------------------------------
Step(q) ==
  \/ Start(q) \/ StartRefused(q) \/ SaveExecution(q) \/ SaveTask(q) \/ LinkTask(q)
  \/ SaveReview(q) \/ Describe(q) \/ SavePolled(q) \/ SyncTask(q) \/ SaveDefinition(q)
  \/ Unschedule(q) \/ ScheduleAt(q) \/ ScheduleExists(q) \/ SaveSchedule(q) \/ SaveSetting(q)
  \/ Pause(q) \/ PauseRefused(q) \/ SaveUpdate(q) \/ Drop(q) \/ Forget(q)

Fails(q) ==
  \/ \E reached \in BOOLEAN : StartFails(q, reached) \/ ScheduleFails(q, reached)
                              \/ PauseFails(q, reached)
  \/ DescribeFails(q) \/ UnscheduleFails(q) \/ DropFails(q)

Arrive(q) ==
  \/ \E wid \in WorkflowId \cup {None} : BeginExecute(q, wid)
  \/ BeginTrigger(q) \/ BeginRerun(q) \/ BeginRetry(q)
  \/ HandleReview(q) \/ ModifyReview(q) \/ RevokeReview(q)
  \/ \E n \in ExecutionId : BeginPoll(q, n)
  \/ UploadScript(q) \/ DeclareDefinition(q)
  \/ \E active \in BOOLEAN : \/ \E op \in {"create", "policy"} : BeginCreate(q, op, active)
                             \/ BeginUpdate(q, active)
  \/ BeginDelete(q)

Work(n) ==
  \/ LoadDefinition(n) \/ \E output \in {"plain", "stages"} : RunScript(n, output)
  \/ ScriptFails(n) \/ \E status \in Closed : EndSteps(n, status)

Next ==
  \/ \E q \in Slot : Step(q) \/ Fails(q) \/ Arrive(q)
  \/ \E n \in ExecutionId : Work(n)
  \/ Crash

Spec == Init /\ [][Next]_vars

\* The event loop resumes every handler and Temporal answers; as long as someone
\* looks at a running execution, its page polls it every two seconds.
Fairness ==
  /\ \A q \in Slot : WF_vars(Step(q))
  /\ \A n \in ExecutionId : SF_vars(\E q \in Slot : BeginPoll(q, n))

FairSpec == Spec /\ Fairness

-----------------------------------------------------------------------------
(* Properties                                                              *)

\* Whatever polls overlap or fail: a record that says how a run ended, or a
\* task that says it is done, is right about the run at Temporal.
RecordsAreTrue ==
  \A n \in ExecutionId :
    /\ (execs[n] # None /\ execs[n].status \in Closed) =>
         execs[n].status = runs[n].status /\ execs[n].output = runs[n].output
    /\ tasks[n] = "done" => runs[n].status = "COMPLETED" /\ runs[n].output = "stages"

\* A crash between two commits leaves an execution nothing points to, never a
\* pointer to what was not saved: the task of a record, the execution of a review.
NoDanglingLink ==
  /\ \A n \in ExecutionId : (execs[n] # None /\ execs[n].task) => tasks[n] # None
  /\ review.exec # None => execs[review.exec] # None

\* A definition that a run has loaded was saved after its script: no attempt
\* runs a script older than the definition, wherever an upload interleaves.
ScriptNotOlder ==
  \A n \in ExecutionId : (runs[n] # None /\ runs[n].script # None) => runs[n].script >= runs[n].def

\* A schedule record that does not say LOCAL_SAVED has a schedule at Temporal
\* in the same state, unless requests for it overlapped or were cut short.
ScheduleAgrees ==
  (/\ sched # None /\ sched.synced /\ ~torn
   /\ \A q \in Slot : req[q].op \notin Scheduling) =>
     timer # None /\ timer.active = sched.active

\* A record that someone keeps polling ends up saying how its run ended and
\* stays so, although a poll that was slow writes RUNNING over a later answer
\* (get_execution saves what it read before the await).
ClosedRunIsShown ==
  \A n \in ExecutionId :
    <>[](execs[n] # None /\ execs[n].run # None /\ runs[n].status \in Closed
           => execs[n].status \in Closed)
=============================================================================
