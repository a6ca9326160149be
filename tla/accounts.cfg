\* Two operations, two calls of the page, a cache for one result; every fault.
CONSTANTS
  o1 = o1
  o2 = o2
  c1 = c1
  c2 = c2
  email = email
  local = local
  Ops <- TwoOps
  Operations <- SomeOperations
  PageOperations = {}
  Calls <- TwoCalls
  Email <- email
  Local <- local
  Names <- TwoNames
  Known <- OneKnown
  UserOf <- UserOfCaller
  CacheSize = 1
  MaxOrphans = 1
  MaxWatchers = 2
  Faults = {"break", "cognito"}
SPECIFICATION FairSpec
INVARIANTS IInv ToldIsDone Watched
PROPERTIES OpsAnswered BackToLogin
