\* The control plane and one worker, watchers running.
SPECIFICATION Spec
CONSTANTS
  Api = api
  Worker = {w1}
  Name = {n1}
  MaxVersion = 2
  MaxFaults = 1
  Unloadable = {2}
  Damaged = Damaged
  None = None
CHECK_DEADLOCK FALSE
INVARIANTS
  TypeOK
  LatestIsServed
  StoreIsInstalled
PROPERTIES
  KeepsPrevious
