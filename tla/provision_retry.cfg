\* A second attempt after a failing one.
CONSTANTS
  ann = ann
  bob = bob
  Creds <- TwoCreds
  None = None
  Spoiled = Spoiled
  StateCap = 1
  Phones = 2
  MaxLines = 3
  MaxFails = 2
  MaxRestarts = 0
SPECIFICATION Spec
INVARIANTS SuccessHasOwner
CHECK_DEADLOCK FALSE
