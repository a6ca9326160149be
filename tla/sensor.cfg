\* Both packages, a rate too low for each and one that is not, one or two
\* probes; samples fail or the hardware dies, one attempt more.
CONSTANTS
  Temps <- Junction
  Rates = {20, 100, 1000}
  Probes = {1, 2}
  MaxRetries = 1
  Faults = {"sensor"}
  NoReading = NoReading
SPECIFICATION FairSpec
INVARIANTS IInv Measured
PROPERTIES StaysMeasured GivesUp Feed
CHECK_DEADLOCK FALSE
