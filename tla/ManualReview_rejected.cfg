\* Two API processes: an approval and a rejection of the same decision overlap.
SPECIFICATION Spec
CONSTANTS
  Case = {c1}
  User = {rev, app}
  Reviewer = {rev}
  Approver = {app}
  Admin = {}
  P0 = {}
  Api = {api1, api2}
  Worker = {w1}
  NoUser = NoUser
  Keep = Keep
  SlowDispatch = FALSE
  MaxAttempts = 1
  Requests = {"claim", "submit", "approve", "release", "retry"}
  Emits = {}
  MaxVersion = 4
  MaxRows = 2
  MaxRuns = 1
CHECK_DEADLOCK FALSE
INVARIANT OnlyApprovedRuns
