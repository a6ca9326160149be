\* Whole and partial documents, two failing writes to the pin, signals, a crash
\* and a restart.
CONSTANTS
  warm = warm
  hot = hot
  Docs <- AllDocs
  Temps <- TwoTemps
  NoTemp = NoTemp
  NoDoc = NoDoc
  ControlCap = 2
  MaxPinErrs = 2
  MaxRestarts = 1
  Faults = {"crash"}
SPECIFICATION Spec
INVARIANTS IInv ConfigConverges RunStateReported HeatsOnlyOnDemand
PROPERTIES OffStaysOff
CHECK_DEADLOCK FALSE
