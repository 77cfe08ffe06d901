\* Two threads, two slugs, two row ids: an id is looked up on one connection while
\* the other thread deletes the project, or creates it again under a new id.
CONSTANTS
  Thread = {t1, t2}
  Slug = {"s1", "s2"}
  Name = {"f"}
  Status = {"active", "archived"}
  Content <- MCContent
  Empty = "empty"
  Patch = {"grow"}
  Edit <- MCEdit
  Rejected = Rejected
  None = None
  NotFound = NotFound
  MaxFaults = 0
  MaxId = 2
SPECIFICATION Spec
SYMMETRY Symmetry
INVARIANTS IInv NoOrphanFiles IdsFresh NoLostUpdate
PROPERTY ImplementsKVStore
