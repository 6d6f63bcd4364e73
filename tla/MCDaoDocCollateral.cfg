\* Admins change the collateral contract while a proposal is active.
CONSTANTS
  k1 = k1  ann = ann  bob = bob  cyd = cyd  xlm = xlm  gov = gov  None = None
  Project = {k1}
  Account = {ann, bob, cyd}
  Asset = {xlm, gov}
  Admin = {ann}
  Maintainers <- MCMaintainers
  Funds <- AnnProposes
  Capacity = 1
  PROPOSAL_COLLATERAL = 2
  VOTE_COLLATERAL = 1
  MIN_VOTING_PERIOD = 1
  MAX_VOTING_PERIOD = 1
  TIMELOCK_DELAY = 1
  MAX_VOTES_PER_PROPOSAL = 2
  Collaterals = {xlm, gov}
  VotingKinds <- PublicOnly
  TokenKinds <- BadgeOnly
  OutcomeKinds <- SomeOutcomes
  InitialPower <- Power2
  Preferences = {"Approve", "Reject", "Abstain"}
  Weights = {1, 2}
  Powers = {}
  ConflictLists <- BobConflicts
  MaxClaim = 0
  MaxTime = 3
SPECIFICATION Spec
INVARIANTS RepaidUponExecution
CHECK_DEADLOCK FALSE
