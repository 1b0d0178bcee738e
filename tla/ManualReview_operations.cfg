\* Every kind of request, with an administrator who may act on the cases of
\* others, claims that expire, and every event of graph-build.
SPECIFICATION FairSpec
CONSTANTS
  Case = {c1}
  User = {rev, adm}
  Reviewer = {rev}
  Approver = {}
  Admin = {adm}
  P0 = {c1}
  Api = {api1}
  Worker = {w1}
  NoUser = NoUser
  Keep = Keep
  SlowDispatch = FALSE
  MaxAttempts = 2
  Requests = {"claim", "heartbeat", "release", "transfer", "cancel", "draft",
              "submit", "approve", "retry", "complete", "idle"}
  Emits = {"CORRECTION_ACCEPTED", "RERUN_STARTED", "RERUN_PROGRESS", "RERUN_SUCCEEDED",
           "RERUN_FAILED", "VERIFICATION_SUCCEEDED", "VERIFICATION_FAILED"}
  MaxVersion = 5
  MaxRows = 1
  MaxRuns = 1
CHECK_DEADLOCK FALSE
INVARIANT FourEyes
PROPERTIES
 HandoffSettles
 ApplyingEnds
