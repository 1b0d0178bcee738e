\* One dispatcher in dual mode and two corrections of one expert.
SPECIFICATION Spec
CONSTANTS
  Correction = {c1, c2}
  Target = {t1}
  Relation = {}
  User = {ann, bob}
  Admin = {bob}
  Session = {s1}
  Dispatcher = {d1}
  Modes = {"dual"}
  MaxAttempts = 2
  Limit = 2
  NoUser = NoUser
  None = None
  Keep = Keep
  MaxVersion = 1
CHECK_DEADLOCK FALSE
PROPERTY AppliedOnce
