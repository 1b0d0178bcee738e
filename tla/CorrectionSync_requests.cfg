\* Two overlapping requests and two dispatchers on one correction of a relation.
SPECIFICATION FairSpec
CONSTANTS
  Correction = {c1}
  Target = {t1}
  Relation = {t1}
  User = {ann, bob}
  Admin = {bob}
  Session = {s1, s2}
  Dispatcher = {d1, d2}
  Modes = {"dual"}
  MaxAttempts = 2
  Limit = 1
  NoUser = NoUser
  None = None
  Keep = Keep
  MaxVersion = 2
CHECK_DEADLOCK FALSE
INVARIANTS
  TypeOK
  TaskAgrees
  
  AttemptsRespected
PROPERTIES
  ImplementsLedger
  SyncSettles
