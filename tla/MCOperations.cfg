\* Administrators that replace one another, with and without repetition; two
\* backfills and a poll of at most three events, and two faults; four tokens.
CONSTANTS
  ann = ann  bob = bob  cyd = cyd  None = None
  v1 = v1  v2 = v2  v3 = v3
  Account = {ann, bob, cyd}
  Founder = ann
  Wasm = {v1, v2, v3}
  FirstWasm = v1
  Uploaded = {v1, v2}
  TIMELOCK_DELAY = 2
  Configs <- AllConfigs
  MaxMotions = 3
  MaxTime = 6
  Content = {"a", "b"}
  Run = {"p", "q"}
  page_limit = 1
  checkpoint_interval = 1
  max_retries = 1
  PollLimit = 2
  Lookback = 1
  MaxLedger = 2
  MaxEvents = 3
  MaxPolls = 1
  MaxFaults = 2
  Admin = ann
  MaxToken = 3
  Values <- RoleValues
SPECIFICATION OperationsSpec
INVARIANTS ApprovalsGenuine CheckpointCovers BalancesMatchOwners
PROPERTIES QuorumUpgrades BackfillEnds
CHECK_DEADLOCK FALSE
