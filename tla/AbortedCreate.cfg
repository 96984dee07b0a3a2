SPECIFICATION Spec
CONSTANTS
  n1 = n1
  r1 = r1
  c1 = c1
  Api = api
  None = none
  Notifs = {n1}
  Unrenderable = {}
  Runners = {r1}
  Consumers = {c1}
  MaxRetries = 1
  Faults = {"abort"}
  MaxFaults = 1
CHECK_DEADLOCK FALSE
INVARIANTS
  Custody
