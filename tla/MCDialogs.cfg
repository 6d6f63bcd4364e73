SPECIFICATION DialogsSpec
CONSTANTS
  ann = ann
  bob = bob
  cyd = cyd
  None = None
  Voter = {bob, cyd}
  Maintainer = {ann, bob}
  Proposer = cyd
  Units <- Powers
  Seed <- Seeds
  Weights <- NoneOrSome
  Decimals = 1
  DefaultDecimals = 0
  MaxWeight = 15
  MaxKeys = 2
  MaxWindows = 2
  Contract <- Named
  Fn = {"f"}
  MinPeriod = 2
  Margin = 1
  MaxPeriod = 4
  Dates = {5}
  MaxEdits = 6
  MaxJobs = 1
  MaxNow = 2
  app = app
  guild = guild
  MaxLooks = 2
  MaxSaves = 2
  MaxSwitches = 1
  Nowhere = Nowhere
  MaxChanges = 3
  MaxSent = 1
  MaxOthers = 1
INVARIANTS TallyIsAccepted ResultIsOfBallots SealedBallotsCanBeOpened
INVARIANTS AcceptableWhenSent CallsAccountedFor ResultIsOfTerm AppliedIsListed
PROPERTIES UntouchedWordsStay SavedAsWished
CHECK_DEADLOCK FALSE
