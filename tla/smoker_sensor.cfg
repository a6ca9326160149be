\* The sensor fails for a while or for good, with a retry; signals from outside.
CONSTANTS
  warm = warm
  Docs <- JustErrors
  Temps <- OneTemp
  NoTemp = NoTemp
  NoDoc = NoDoc
  ControlCap = 1
  MaxPinErrs = 0
  MaxRestarts = 0
  Faults = {"sensor", "signal"}
  ReadingsCap = 1
  PubCap = 1
  PidCap = 1
  MaxRetries = 1
SPECIFICATION FairSpec
INVARIANTS TypeOK
PROPERTIES Stops
CHECK_DEADLOCK FALSE
