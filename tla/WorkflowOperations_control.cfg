\* Two requests in flight, as many as may overlap at an await.
SPECIFICATION FairSpec
CONSTANTS
  Slot = {q1, q2}
  WorkflowId = {w1}
  Mixes = {{"execute", "trigger", "upload", "declare"},
           {"rerun", "retry", "handle", "modify", "revoke"},
           {"create", "policy", "update", "delete"}}
  MaxRequests = 3
  MaxStarts = 2
  MaxFaults = 1
  MaxTries = 2
  None = None
CHECK_DEADLOCK FALSE
INVARIANTS
  TypeOK
  RecordsAreTrue
  NoDanglingLink
  ScriptNotOlder
  ScheduleAgrees
 
