SPECIFICATION Spec
CONSTANTS
  Flow = {1, 2}
  Account = {"ann"}
  Ops = {"create_proposal", "vote", "donation"}
INVARIANTS LedgerNamesPinned ReportedExists
PROPERTIES FlowEnds
CHECK_DEADLOCK FALSE
