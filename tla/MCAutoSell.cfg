\* Two rounds of the timer: either two orders that are paid, whose marks the rounds
\* write over each other, or one buyer, with refused and unanswered transfers, saves
\* that fail, payments that leave the window and a process that dies.
SPECIFICATION MCSpec
CONSTANTS
  o1 = o1
  o2 = o2
  Nothing = Nothing
  Claim = {o1, o2}
  Qty <- TwoEach
  Cap = 3
  Round = {1, 2}
  Installments = 1
  Deepest = 1
  MaxPayments = 1
  MaxTransfers = 3
  MaxMishaps = 1
  MaxCrashes = 1
INVARIANTS OnceUnlessInDoubt OnlyPaidOrders
PROPERTY EveryPaidOrderLeaves
