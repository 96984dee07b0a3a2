SPECIFICATION FairSpec
CONSTANTS
  n1 = n1
  n2 = n2
  r1 = r1
  c1 = c1
  Api = api
  None = none
  Notifs = {n1, n2}
  Unrenderable = {n2}
  Runners = {r1}
  Consumers = {c1}
  MaxRetries = 1
  Faults = {}
  MaxFaults = 0
CHECK_DEADLOCK FALSE
PROPERTIES
  EventuallyTerminal
  DeliveryAnnounced
