\* One device with two posts, two documents, one client; every fault.
CONSTANTS
  d1 = d1
  c1 = c1
  Devices <- OneDevice
  MaxPosts = 2
  MaxSets = 2
  MaxDeliveries = 2
  MaxRepeated = 1
  MaxDelivered = 2
  Clients <- OneClient
  TopicOf <- OfFirst
  Faults = {"redis", "nats", "lost"}
SPECIFICATION FairSpec
INVARIANTS IInv AcceptedOnce LastContactRegular EndToEnd ConfigKept
PROPERTIES SeenForward Recovers
CHECK_DEADLOCK FALSE
