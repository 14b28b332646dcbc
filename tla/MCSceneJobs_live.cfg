\* Queued jobs reach an outcome and due deferrals are reopened, under the
\* fairness of Lambda, SQS and leases.
SPECIFICATION FairSpec
CONSTANTS
  Photos = {p1}
  Messages = {m1, m2}
  NoMessage = NoMessage
  NoPhoto = NoPhoto
  Workers = {w1}
  MaxAttempts = 2
  MaxUploads = 1
  MaxMonth = 2
  RequestLimit = 1
  UsdLimit = 2
  Reservation = 2
  Costs = {2}
  RedeliveryOutlastsLease = FALSE
PROPERTIES
  QueuedJobsFinish
  DueDeferralsReopen
