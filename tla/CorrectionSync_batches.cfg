\* One dispatcher whose batches hold two corrections of one expert.
SPECIFICATION Spec
CONSTANTS
  Correction = {c1, c2}
  Target = {t1}
  Relation = {}
  User = {ann, bob}
  Admin = {bob}
  Session = {s1}
  Dispatcher = {d1}
  Modes = {"projection", "dual"}
  MaxAttempts = 2
  Limit = 2
  NoUser = NoUser
  None = None
  Keep = Keep
  MaxVersion = 1
SYMMETRY Symmetry
CHECK_DEADLOCK FALSE
INVARIANTS
  CompletedIsApplied
  NoLostCorrection
