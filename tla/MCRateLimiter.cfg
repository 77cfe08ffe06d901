\* A second is 2 ticks and a minute 2 seconds: reads refill 2 tokens a second and
\* writes 1 (1 per minute rounds to 0, and 0 to 1); a bucket is dropped after
\* 4 seconds of idleness; the horizon lets a client be banned, served again,
\* forgotten and limited once more.
CONSTANTS
  Client = {c1}
  Nobody = Nobody
  ReadRpm = 4
  WriteRpm = 1
  Burst = 2
  BanThreshold = 2
  BanDuration = 2
  TicksPerSec = 2
  Minute = 2
  IdleMinutes = 1
  Stall = 2
  Horizon = 16
SPECIFICATION Spec
INVARIANTS TypeOK RateBound
PROPERTIES OnlyHastyClientsViolate BanHonoured NoGrantWhileBanned
