\* Two admin calls, two keys; the budget plays no part.
CONSTANTS
  Jobs = {j1}
  Limit = 1
  DayLimit = 1
  LastDate = 0
  MaxUsage = 1
  KeyNames = {n1, n2}
  Admins = {a1, a2}
  MaxCrashes = 0
SPECIFICATION QuotaSpec
CHECK_DEADLOCK FALSE
PROPERTY RevokedStaysRevoked
