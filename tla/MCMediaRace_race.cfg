\* Two requests of one account wait for its lock at the same time.
SPECIFICATION RaceSpec
CONSTANTS
  s1 = s1
  s2 = s2
  i1 = i1
  i2 = i2
  Sources = {s1, s2}
  Items = {i1, i2}
  SourceOf <- ItemSources
  Hashes = {h1}
  NoHash = NoHash
  NoBatch = NoBatch
  Revisions = {1}
  Sizes = {1}
  Clients = {c1, c2}
  Idle = Idle
INVARIANTS
  ReappearedIsRestored
