\* One API process and one worker, as docker-compose runs them: a reviewer and
\* an approver take one case through decisions, reruns and retries.  The reviewer
\* may approve too, and the lock of a row may expire while its worker waits.
SPECIFICATION Spec
CONSTANTS
  Case = {c1}
  User = {rev, app}
  Reviewer = {rev}
  Approver = {rev, app}
  Admin = {}
  P0 = {}
  Api = {api1}
  Worker = {w1}
  NoUser = NoUser
  Keep = Keep
  SlowDispatch = TRUE
  MaxAttempts = 1
  Requests = {"claim", "submit", "approve", "release", "retry"}
  Emits = {"CORRECTION_ACCEPTED", "RERUN_SUCCEEDED", "RERUN_FAILED", "VERIFICATION_SUCCEEDED"}
  MaxVersion = 6
  MaxRows = 2
  MaxRuns = 1
CHECK_DEADLOCK FALSE
INVARIANTS
  TypeOK
  OnlyApprovedRuns
  NoResumeLost
  ResolvedIsVerified
  NoStrandedApply
PROPERTY DecidesTheLatest
