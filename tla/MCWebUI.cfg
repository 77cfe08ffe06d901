\* Two projects with a file of the same name, a second name free at first, and five clicks, also while
\* requests are under way.
CONSTANTS
  p = p
  q = q
  f = f
  g = g
  Slug = {p, q}
  File = {f, g}
  None = None
  CopyOf <- MCCopyOf
  Present <- MCPresent
  Task = {t1, t2, t3}
  MaxActs = 5
  MaxFaults = 1
SPECIFICATION Spec
SYMMETRY Symmetry
INVARIANTS TypeOK SaveTargetKnown NoSilentOverwrite DialogsDoWhatTheySay
\* The clicks are bounded, and the page may come to rest.
CHECK_DEADLOCK FALSE
