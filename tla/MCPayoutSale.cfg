\* The "sale" and wallet-link lanes: complete removes the marker itself, and the
\* file system may reorder directory changes.
SPECIFICATION Spec
CONSTANTS
  Proc = {p1, p2, p3}
  Id = {a, b, c}
  Intent = {x, y}
  TxId = {t1, t2, t3}
  None = None
  Torn = Torn
  WaitsForAck = FALSE
  MayAbandon = TRUE
  OrderedMetadata = FALSE
SYMMETRY Symmetry
INVARIANTS AtMostOnePayment UnsettledIsMarked
