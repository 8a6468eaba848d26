SPECIFICATION Spec
CONSTANTS
  r1 = r1
  r2 = r2
  Sessions = {s1}
  Requests = {r1, r2}
  Calls <- Split
  Limit = 3
INVARIANTS OldSessionsEnd BlockedMustChange
PROPERTIES EndedStays
