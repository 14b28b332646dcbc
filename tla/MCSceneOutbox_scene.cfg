\* The CLI that stages scene previews with the service that owns the jobs:
\* interrupted attempts, replayed plans, lapsed leases, retries.
SPECIFICATION OutboxFairSpec
CHECK_DEADLOCK FALSE
CONSTANTS
  Photos = {p1}
  Messages = {m1}
  NoMessage = NoMessage
  NoPhoto = NoPhoto
  Workers = {w1}
  MaxAttempts = 1
  MaxUploads = 4
  MaxMonth = 1
  RequestLimit = 1
  UsdLimit = 2
  Reservation = 2
  Costs = {2}
  RedeliveryOutlastsLease = TRUE
  MaxFaults = 2
  MaxCommands = 1
INVARIANTS
  OutboxTypeOK
  ConfirmedIsDescribed
PROPERTIES
  PreparedIsStaged
  OutcomeIsLearnt
