\* Power on and off, a crash and a restart; every channel has one place, so that
\* each of them fills.
CONSTANTS
  warm = warm
  Docs <- OnStop
  Temps <- OneTemp
  NoTemp = NoTemp
  NoDoc = NoDoc
  ControlCap = 1
  MaxPinErrs = 0
  MaxRestarts = 1
  Faults = {"crash"}
  ReadingsCap = 1
  PubCap = 1
  PidCap = 1
  MaxRetries = 0
SPECIFICATION FairSpec
PROPERTIES PowerOffWorks
CHECK_DEADLOCK FALSE
