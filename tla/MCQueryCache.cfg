SPECIFICATION Spec
CONSTANTS
  MaxWrites = 1
  MaxInFlight = 4
INVARIANTS ReadYourWrites SpinnerHasRequest NoCircularWait
PROPERTY OutdatedIsReplaced
CHECK_DEADLOCK FALSE
