\* One API process, as docker-compose runs it, and two requests in flight.
SPECIFICATION FairSpec
CONSTANTS
  Process = {p1}
  Request = {r1, r2}
  Session = {s1}
  State = {st1}
  MaxToken = 3
  MaxSent = 3
  MaxFaults = 1
  None = None
CHECK_DEADLOCK FALSE
INVARIANTS
  TypeOK
  LogoutSticks
  RefreshesMerged
PROPERTIES
  LoggedOutStaysOut
  ImplementsSessions
  DeletesOnlyDead
  
  
