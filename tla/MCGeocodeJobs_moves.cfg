\* One photo that moves between two distant places while its lookups are
\* queued, running, retried and lost.
SPECIFICATION FairSpec
CONSTANTS
  Photos = {p1}
  Places = {1, 9}
  Radius = 1
  Unresolved = Unresolved
  Workers = {w1}
  MaxAttempts = 1
  MonthlyLimit = 1
  MaxMonth = 2
  MaxCopies = 1
INVARIANTS
  UnitsOwned
  AddressNearby
PROPERTIES
  LookupsFinish
  DueLookupsResume
