SPECIFICATION Spec
CONSTANTS
  n1 = n1
  r1 = r1
  r2 = r2
  c1 = c1
  c2 = c2
  Api = api
  None = none
  Notifs = {n1}
  Unrenderable = {}
  Runners = {r1, r2}
  Consumers = {c1, c2}
  MaxRetries = 1
  Faults = {"api_conn", "runner_conn", "limiter", "runner_crash", "worker_crash"}
  MaxFaults = 2
SYMMETRY Symmetry
CHECK_DEADLOCK FALSE
INVARIANTS
  Custody
  AckSettled
  DeadLettersSettled
  AnnouncedIsSettled
PROPERTIES
  NoPostAfterCancel
