\* One entry, two unique IDs: writes, deletes, Clear and Init that fail or are
\* cut by a reset, and a flash that is put back.
CONSTANTS
  Ids = {i1}
  Values = {v1}
  None = None
  MaxCounter = 2
  MaxUid = 2
SPECIFICATION Spec
INVARIANTS
  NoRollback
  Durable
PROPERTIES
  ImplementsStore
