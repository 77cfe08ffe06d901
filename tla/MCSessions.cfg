\* Two places and three tokens: a login finds the table full of stale sessions, of
\* used ones, or of both; a timeout of 1 second (2 ticks and the rest of a third)
\* passes several times before the horizon.
CONSTANTS
  Address = {a1, a2}
  Token = {k1, k2, k3}
  NoSession = NoSession
  MaxSessions = 2
  Timeout = 1
  TicksPerSec = 2
  Horizon = 10
SPECIFICATION Spec
SYMMETRY Symmetry
INVARIANTS TypeOK WithinCapacity ActiveUsersStayIn
PROPERTIES EndedForGood TurnedAwayOnlyWhenFull
