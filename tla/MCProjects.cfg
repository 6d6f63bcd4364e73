\* Two projects on pages of one, handed over between two accounts that are
\* members of them; one has its votes weighted by the quorum contract.
CONSTANTS
  ann = ann  bob = bob  None = None
  core = core  docs = docs  emoji = emoji
  Account = {ann, bob}
  Admin = {ann}
  Name = {core, docs, emoji}
  NameLength <- NameLengths
  Alphanumeric <- Letters
  Config = {u}
  Hash = {h}
  MAX_PROJECTS_PER_PAGE = 1
  REGISTER_COLLATERAL = 2
  MaxNameLength = 30
  MaxSubProjects = 2
  MaintainerLists <- Lists
  SubProjectLists <- SubLists
  Funds <- Wallets
  Meta = {m}
  Power <- WidePowers
  NQG_SCALE = 10
  U32 = 16777216
  BadgeLists <- BadgeChoices
SPECIFICATION Spec
INVARIANTS ListedOnce CopiesAgree BadgesOfProjects
PROPERTY ImplementsDirectory
CHECK_DEADLOCK FALSE
