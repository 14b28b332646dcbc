\* Two photos compete for the units of a month, and across its turn.
SPECIFICATION Spec
CONSTANTS
  Photos = {p1, p2}
  Messages = {m1}
  NoMessage = NoMessage
  NoPhoto = NoPhoto
  Workers = {w1}
  MaxAttempts = 1
  MaxUploads = 1
  MaxMonth = 2
  RequestLimit = 2
  UsdLimit = 3
  Reservation = 2
  Costs = {1}
  RedeliveryOutlastsLease = TRUE
SYMMETRY Symmetry
INVARIANTS
  CeilingsHold
  ReservationsBacked
  
PROPERTIES
  CircuitStopsCalls
