\* The "send" lane: the receipt waits for the screen's acknowledgement.
SPECIFICATION Spec
CONSTANTS
  Proc = {p1, p2, p3}
  Id = {a, b, c}
  Intent = {x, y}
  TxId = {t1, t2, t3}
  None = None
  Torn = Torn
  WaitsForAck = TRUE
  MayAbandon = FALSE
  OrderedMetadata = TRUE
SYMMETRY Symmetry
INVARIANT UnsettledIsMarked
PROPERTY PaysOnce
