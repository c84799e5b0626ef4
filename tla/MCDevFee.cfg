\* Three sales, two callers, refunds of one or two shares, and a power loss.
SPECIFICATION FairFeeSpec
CONSTANTS
  o1 = o1
  Sale = {o1, o2, o3}
  Fee <- Shares
  Back = {1, 2}
  Caller = {button, timer}
  Least = 2
  Most = 3
  NoCaller = NoCaller
  MaxLosses = 1
INVARIANTS NeverOverpaid NothingIsErased FreeLaneIsBooked
PROPERTY WhatIsOwedLeaves
