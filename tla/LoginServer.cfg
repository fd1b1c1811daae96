CONSTANTS
  Session = {s1, s2}
  Realm = {r1}
  Fallback = 3
  MaxId = 4
  MaxLogins = 3
  Request <- MCRequest
  Seeded <- MCSeeded
SPECIFICATION CheckedSpec
INVARIANTS AccountsHold NotFoundIsKnown RealmsHold
CHECK_DEADLOCK FALSE
