\* One request; requests.json is not always written, and the process dies twice.
SPECIFICATION FairSpec
CONSTANTS
  p1 = p1
  Peer = {p1}
  Req = {q1}
  From <- OnePhone
  Amount <- OneEach
  Grants <- Permissions
  MAX_PHONE_DAILY = 1
  MAX_REQUESTS = 2
  None = None
  MaxCalls = 2
  MaxUnsaved = 1
  MaxCrashes = 2
INVARIANTS SendsOnce ClosedIsUnsent
PROPERTY EveryRequestIsClosed
