\* Two requests of a phone that may send one a day, and a restart.
SPECIFICATION Spec
CONSTANTS
  p1 = p1
  Peer = {p1}
  Req = {q1, q2}
  From <- OnePhone
  Amount <- OneEach
  Grants <- Permissions
  MAX_PHONE_DAILY = 1
  MAX_REQUESTS = 2
  None = None
  MaxCalls = 2
  MaxUnsaved = 0
  MaxCrashes = 1
SYMMETRY Symmetry
INVARIANTS OneSender LimitByReceipt
