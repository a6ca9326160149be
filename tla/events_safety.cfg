\* One SSE and one websocket client for one topic, after start-up; no fairness
\* for writes, disconnects or publications.
CONSTANTS
  c1 = c1
  c2 = c2
  c3 = c3
  t1 = t1
  t2 = t2
  Clients <- TwoClients
  SSE = {c1}
  Topics <- OneTopic
  TopicOf <- SameTopic
  MaxSubs = 2
  MaxPublished = 2
  MaxDeliveries = 2
  MaxRepeated = 1
  QueueLen = 1
  MessagesCap = 1
  None = None
  ReadyFirst = TRUE
SPECIFICATION FairSpec
INVARIANTS IInv InOrder OneLoopPerTopic ServedWhileStreaming FullCleanup
PROPERTIES OwnEntryOnly FeedSpec NonBlocking UnregisterCompletes
CHECK_DEADLOCK FALSE
