\* Three requests for two sales, over two days, with a power loss.
SPECIFICATION Spec
CONSTANTS
  Id = {i1, i2, i3}
  Sale = {s1, s2}
  Price <- Cost
  Sats <- Cost
  Amount = {1, 2}
  Quote <- Rates
  STAFF_DAY_USD = 3
  None = None
  MaxDay = 1
  MaxLosses = 1
SYMMETRY Symmetry
INVARIANTS NotSentIsTrue PaidOnce DailyLossIsBounded RefundsFitThePayment
