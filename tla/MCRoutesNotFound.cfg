\* One request at a time is enough: a file is put empty, then patched.
CONSTANTS
  Thread = {t1}
  Slug = {"s1"}
  Name = {"f"}
  Status = {"active", "archived"}
  Content <- MCContent
  Empty = "empty"
  Patch = {"grow"}
  Edit <- MCEdit
  Rejected = Rejected
  None = None
  NotFound = NotFound
  MaxFaults = 0
  MaxId = 2
SPECIFICATION Spec
INVARIANT NotFoundMeansAbsent
