\* One photo staged twice, two concurrent deliveries, a late duplicate
\* message, one month.
SPECIFICATION Spec
CONSTANTS
  Photos = {p1}
  Messages = {m1, m2}
  NoMessage = NoMessage
  NoPhoto = NoPhoto
  Workers = {w1, w2}
  MaxAttempts = 2
  MaxUploads = 2
  MaxMonth = 1
  RequestLimit = 2
  UsdLimit = 4
  Reservation = 2
  Costs = {2}
  RedeliveryOutlastsLease = FALSE
SYMMETRY Symmetry
INVARIANTS
  TypeOK
  PreviewKept
  NoOpenUploadBehindQueue
  OneOwner
