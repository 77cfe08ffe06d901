\* Two workers, a read during a write and a write during a read; two writes, so that a
\* kill can fall into the checkpoint of one after the other was answered; backups that
\* are one day too old.
CONSTANTS
  Worker = {w1, w2}
  MaxSignals = 2
  MaxWrites = 2
  MaxDay = 1
  KeepDays = 0
SPECIFICATION FairSpec
INVARIANTS TypeOK NoHandlerOutlivesDb CleanExitLeavesWholeFile AnsweredWritesBackedUp
PROPERTIES SignalStopsListening StopEndsProcess
