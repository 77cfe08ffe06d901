\* One write per minute of two seconds, as the default is 30 per minute of sixty.
CONSTANTS
  Client = {c1}
  Nobody = Nobody
  ReadRpm = 4
  WriteRpm = 1
  Burst = 2
  BanThreshold = 2
  BanDuration = 2
  TicksPerSec = 2
  Minute = 2
  IdleMinutes = 1
  Stall = 2
  Horizon = 16
SPECIFICATION WritesOnlySpec
INVARIANT WritesWithinRpm
