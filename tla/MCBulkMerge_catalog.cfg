SPECIFICATION BulkSpec
CONSTANTS
  s1 = s1
  s2 = s2
  i1 = i1
  i2 = i2
  i3 = i3
  Sources = {s1, s2}
  Items = {i1, i2, i3}
  SourceOf <- ItemSources
  Hashes = {h1, h2}
  NoHash = NoHash
  NoBatch = NoBatch
  Revisions = {1, 2}
  Sizes = {1}
  MaxRows = 2
SYMMETRY Symmetry
INVARIANTS
  TypeOK
  ActiveIffReferenced
  FeedCurrent
  RemovedSourceHidden
  
