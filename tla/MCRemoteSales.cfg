\* Two order ids, two payments, two contents; every step may be the last before
\* the process dies.
SPECIFICATION FairSpec
CONSTANTS
  a = a
  b = b
  u = u
  v = v
  x = x
  y = y
  OrderId = {a, b}
  Outpoint = {u, v}
  Content = {x, y}
  TxId = {t1, t2}
  None = None
  Asked <- Orders
  ByHand <- Typed
INVARIANT CompletionsAreTrue
PROPERTIES PaymentBuysOnce RecordsArePinned EveryDeliveryIsReported
