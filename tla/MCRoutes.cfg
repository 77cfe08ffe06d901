\* Two threads on one file: between the two calls of a PATCH the other thread puts,
\* patches, deletes the file or its project; one call of the database may fail.
CONSTANTS
  Thread = {t1, t2}
  Slug = {"s1"}
  Name = {"f"}
  Status = {"active", "archived"}
  Content <- MCContent
  Empty = "empty"
  Patch = {"grow"}
  Edit <- MCEdit
  Rejected = Rejected
  None = None
  NotFound = NotFound
  MaxFaults = 1
  MaxId = 2
SPECIFICATION Spec
SYMMETRY Symmetry
INVARIANTS TypeOK PatchAnswerWasTrue SuccessIsOneEffect
