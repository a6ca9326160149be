\* An orderly exit with a pin that works.
CONSTANTS
  warm = warm
  hot = hot
  Docs <- OnStop
  Temps <- TwoTemps
  NoTemp = NoTemp
  NoDoc = NoDoc
  ControlCap = 1
  MaxPinErrs = 0
  MaxRestarts = 0
  Faults = {}
SPECIFICATION Spec
INVARIANTS ExitsCold
CHECK_DEADLOCK FALSE
