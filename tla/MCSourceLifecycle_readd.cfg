\* A folder is synced, removed and added again.
SPECIFICATION LifecycleSpec
CONSTANTS
  i1 = i1
  Items = {i1}
  Revisions = {r1}
  Absent = Absent
  Idle = Idle
  BatchSize = 1
  OldBatchSize = 1
  Rejected = {}
  MaxEdits <- Edits
  MaxSpent = 0
  MaxGeneration = 1
INVARIANTS
  ReactivationNoticed
