SPECIFICATION Spec
CONSTANTS
  Contract <- Named
  Fn = {"f"}
  MinPeriod = 2
  Margin = 1
  MaxPeriod = 4
  Dates = {5}
  MaxEdits = 6
  MaxJobs = 1
  MaxNow = 2
INVARIANTS OutcomeAsWritten
CHECK_DEADLOCK FALSE
