\* The older version's requests are split; a request may come late or again.
SPECIFICATION FairSpec
CONSTANTS
  i1 = i1
  i2 = i2
  r1 = r1
  r2 = r2
  Items = {i1, i2}
  Revisions = {r1, r2}
  Absent = Absent
  Idle = Idle
  BatchSize = 1
  OldBatchSize = 2
  MaxEdits <- Edits
  Rejected <- OneRejected
  MaxSpent = 1
CHECK_DEADLOCK FALSE
INVARIANTS
  TypeOK
  KnownIsStored
PROPERTIES
  MirrorSpec
  EventuallyMirrored
