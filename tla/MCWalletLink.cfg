\* A phone that asks twice and a limit for one payment or two.
SPECIFICATION Spec
CONSTANTS
  l1 = l1
  q1 = q1
  q2 = q2
  Link = {l1}
  Req = {q1, q2}
  LinkOf <- OneLink
  Sats <- OneEach
  Copies <- FirstTwice
  Fee = 1
  Limits = {2}
  None = None
  MaxCrashes = 1
CHECK_DEADLOCK FALSE
INVARIANTS PaidOnce ToldIsTrue RevokedStaysOff NothingIsMissed
PROPERTIES WithinLimit
