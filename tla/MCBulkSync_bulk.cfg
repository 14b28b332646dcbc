SPECIFICATION BulkSpec
CONSTANTS
  i1 = i1
  i2 = i2
  r1 = r1
  r2 = r2
  Items = {i1, i2}
  Revisions = {r1, r2}
  Absent = Absent
  Idle = Idle
  BatchSize = 2
  OldBatchSize = 2
  Rejected <- OneRejected
  MaxEdits <- Edits
  MaxSpent = 0
  Imports = {m1, m2}
  Workers = {w1}
  Nobody = Nobody
  MaxAttempts = 2
SYMMETRY Symmetry
CHECK_DEADLOCK FALSE
INVARIANTS
  BulkTypeOK
  
  OneActive
  StageKept

  
