\* Two sales of one asset, of which the first is taken down.
SPECIFICATION Spec
CONSTANTS
  j1 = j1
  j2 = j2
  u1 = u1
  u2 = u2
  Job = {j1, j2}
  Unsell = {u1, u2}
  Target <- OfFirst
  Daily = 2
  Pool = 2
  Coin = {c1, c2}
  c1 = c1
  c2 = c2
  None = None
  MaxLost = 1
SYMMETRY Alike
CHECK_DEADLOCK FALSE
INVARIANTS CoinsAreNotShared LotMadeOnce ReportsAreTrue UnsellsAreKept
