\* Public and anonymous proposals with outcomes, badges that change, three voters,
\* a limit of two votes, pauses.
CONSTANTS
  k1 = k1  ann = ann  bob = bob  cyd = cyd  xlm = xlm  gov = gov  None = None
  Project = {k1}
  Account = {ann, bob, cyd}
  Asset = {xlm}
  Admin = {ann}
  Maintainers <- MCMaintainers
  Funds <- AnnProposes
  Capacity = 1
  PROPOSAL_COLLATERAL = 2
  VOTE_COLLATERAL = 1
  MIN_VOTING_PERIOD = 1
  MAX_VOTING_PERIOD = 1
  TIMELOCK_DELAY = 1
  MAX_VOTES_PER_PROPOSAL = 2
  Collaterals = {xlm}
  VotingKinds = {TRUE, FALSE}
  TokenKinds <- BadgeOnly
  OutcomeKinds <- WithOutcome
  InitialPower <- AnnHas1
  Preferences = {"Approve", "Reject", "Abstain"}
  Weights = {1, 2}
  Powers = {1}
  ConflictLists <- NoConflicts
  MaxClaim = 4
  MaxTime = 2
SPECIFICATION Spec
INVARIANTS TalliesMatchVotes OutcomeReflectsVotes OutcomeCalledOnce
PROPERTIES ClosedBallotOnlyShrinks ImplementsReferendum
CHECK_DEADLOCK FALSE
