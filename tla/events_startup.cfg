\* Three requests for two topics that may arrive while Connect is still
\* reading the map.
CONSTANTS
  c1 = c1
  c2 = c2
  c3 = c3
  t1 = t1
  t2 = t2
  Clients <- ThreeClients
  SSE = {c1}
  Topics <- TwoTopics
  TopicOf <- SplitTopics
  MaxSubs = 3
  MaxPublished = 0
  MaxDeliveries = 1
  MaxRepeated = 0
  QueueLen = 1
  MessagesCap = 1
  None = None
  ReadyFirst = FALSE
SPECIFICATION Spec
INVARIANTS IInv
PROPERTIES OwnEntryOnly
CHECK_DEADLOCK FALSE
