SPECIFICATION FairSpec
CONSTANTS
  n1 = n1
  n2 = n2
  b1 = b1
  c1 = c1
  c2 = c2
  None = none
  Notifs <- MCNotifs
  Batches <- MCBatches
  BatchOf <- MCBatchOf
  Conns <- MCConns
  Cap = 1
  Stream <- MCStream
  Filter <- MCFilter
  MaxStalls = 1
CHECK_DEADLOCK FALSE
INVARIANTS
  HeardInOrder
  StayingClientHears
  Registered
PROPERTIES
  QueueDrains
  ChannelDrains
