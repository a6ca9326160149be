\* Two phones, three lines, two failing steps, a crash and a restart.
CONSTANTS
  ann = ann
  bob = bob
  Creds <- TwoCreds
  None = None
  Spoiled = Spoiled
  StateCap = 2
  Phones = 2
  MaxLines = 3
  MaxFails = 2
  MaxRestarts = 1
SPECIFICATION FairSpec
INVARIANTS IInv FirstTryHolds NetworkHasOwner
PROPERTIES SuccessEnds
CHECK_DEADLOCK FALSE
