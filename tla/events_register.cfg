\* A client given a subscriber whose last other client leaves first.
CONSTANTS
  c1 = c1
  c2 = c2
  c3 = c3
  t1 = t1
  t2 = t2
  Clients <- TwoClients
  SSE = {c1}
  Topics <- OneTopic
  TopicOf <- SameTopic
  MaxSubs = 2
  MaxPublished = 0
  MaxDeliveries = 1
  MaxRepeated = 0
  QueueLen = 1
  MessagesCap = 1
  None = None
  ReadyFirst = TRUE
SPECIFICATION FairSpec
PROPERTIES RegisterCompletes
CHECK_DEADLOCK FALSE
