\* One slug, and a SQLite call that throws at any step; crashes in both runs.
CONSTANTS
  Thread = {t1, t2}
  Slug = {"s1"}
  Name = {"f"}
  Status = {"active", "archived"}
  Content <- MCContent
  Empty = "empty"
  Patch = {"grow"}
  Edit <- MCEdit
  Rejected = Rejected
  None = None
  NotFound = NotFound
  MaxFaults = 1
  MaxId = 2
SPECIFICATION FairSpec
PROPERTIES ImplementsKVStore EveryCallReturns
