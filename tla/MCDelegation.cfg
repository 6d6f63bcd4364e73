SPECIFICATION Spec
CONSTANTS
  Call = {1, 2}
  Cid = {"c1"}
  Size = {1}
  Flaws = {"signature", "mismatch", "none"}
  Window = 2
  MaxRequests <- Requests11
  MaxBytes <- Bytes
  MaxTime = 2
  MaxOpen = 2
INVARIANTS SpanBounded StoredWasPaid
PROPERTIES ImplementsService EveryUploadAnswered
CHECK_DEADLOCK FALSE
