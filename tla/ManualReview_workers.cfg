\* One API process and two workers that may crash between any two steps; the
\* lock timeout of the outbox outlasts every HTTP call.
SPECIFICATION Spec
CONSTANTS
  Case = {c1}
  User = {rev, app}
  Reviewer = {rev}
  Approver = {app}
  Admin = {}
  P0 = {}
  Api = {api1}
  Worker = {w1, w2}
  NoUser = NoUser
  Keep = Keep
  SlowDispatch = FALSE
  MaxAttempts = 2
  Requests = {"claim", "submit", "retry"}
  Emits = {"CORRECTION_ACCEPTED", "RERUN_FAILED"}
  MaxVersion = 4
  MaxRows = 2
  MaxRuns = 2
CHECK_DEADLOCK FALSE
INVARIANT OneHolder
 
