SPECIFICATION Spec
CONSTANTS
  Address = {a, b, p, q}
  Trusted = {p, q}
  a = a
  b = b
  p = p
  q = q
  None = None
  MaxStations = 3
  MaxClaims = 2
INVARIANTS
  TypeOK
  EachRequestAccounted
  TextWithheldFromHead
  UnroutedRefused
