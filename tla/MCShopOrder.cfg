SPECIFICATION MCSpec
CONSTANTS
  o1 = o1
  o2 = o2
  Order = {o1, o2}
  Booker = {o1, o2}
  MaxStock = 2
  Quote = 1
  Grace = 1
  Hold = 3
  Keep = 3
  MaxTime = 4
  MaxFaults = 2
SYMMETRY Alike
INVARIANTS NoOversell HoldCovers SlotSoldOnce LedgerIsTrue
CHECK_DEADLOCK FALSE
