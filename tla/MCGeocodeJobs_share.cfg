\* Two photos at one place, two deliveries at a time and the turn of a month:
\* lookups share the monthly limit and their addresses.
SPECIFICATION Spec
CONSTANTS
  Photos = {p1, p2}
  Places = {1}
  Radius = 1
  Unresolved = Unresolved
  Workers = {w1, w2}
  MaxAttempts = 2
  MonthlyLimit = 1
  MaxMonth = 2
  MaxCopies = 1
SYMMETRY Symmetry
INVARIANTS
  TypeOK
  BudgetKept
  UnitsOwned
