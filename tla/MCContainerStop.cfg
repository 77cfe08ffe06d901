\* The same without requests: a signal to a process whose server is up.
CONSTANTS
  Worker = {w1}
  MaxSignals = 2
  MaxWrites = 0
  MaxDay = 0
  KeepDays = 0
SPECIFICATION FairSpec
PROPERTY StopsOnSignal
