\* Two proposals of one project at once, badge- and token-based, two accounts of
\* which one may be declared to have a conflict of interest.
CONSTANTS
  k1 = k1  ann = ann  bob = bob  cyd = cyd  xlm = xlm  gov = gov  None = None
  Project = {k1}
  Account = {ann, bob}
  Asset = {xlm, gov}
  Admin = {ann}
  Maintainers <- MCMaintainers
  Funds <- TwoProposals
  Capacity = 2
  PROPOSAL_COLLATERAL = 2
  VOTE_COLLATERAL = 1
  MIN_VOTING_PERIOD = 1
  MAX_VOTING_PERIOD = 1
  TIMELOCK_DELAY = 1
  MAX_VOTES_PER_PROPOSAL = 2
  Collaterals = {xlm}
  VotingKinds <- PublicOnly
  TokenKinds <- BadgeAndToken
  OutcomeKinds <- NoOutcome
  InitialPower <- Power2
  Preferences = {"Approve"}
  Weights = {2}
  Powers = {}
  ConflictLists <- BobConflicts
  MaxClaim = 0
  MaxTime = 2
SPECIFICATION Spec
INVARIANTS Solvent MadeWhole
CHECK_DEADLOCK FALSE
