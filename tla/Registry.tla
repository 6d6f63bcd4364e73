------------------------------ MODULE Registry ------------------------------
(***************************************************************************)
(* The projects of the Tansu contract (contracts/tansu/src/                *)
(* contract_versioning.rs): their registration, the pages of keys by which *)
(* they are listed, their maintainers, sub-projects and last commits.      *)
(* One action is one successful contract call; a call that panics changes  *)
(* nothing.  A project's key is the hash of its name; since the hash is    *)
(* injective on the names that are used, the name stands for both.         *)
(***************************************************************************)
EXTENDS Integers, FiniteSets, SequencesExt

CONSTANTS
  Account,                \* addresses that call the contract
  Admin,                  \* the admins of the contract
  Name,                   \* names given to projects
  NameLength,             \* name -> its number of characters
  Alphanumeric,           \* names made of ASCII letters and digits only
  Config,                 \* url and ipfs of a project
  Hash,                   \* commits
  MAX_PROJECTS_PER_PAGE,
  REGISTER_COLLATERAL,
  MaxNameLength,          \* 30 in register
  MaxSubProjects,         \* 10 in set_sub_projects
  None                    \* an absent key of the storage, or option

CONSTANTS                 \* the bounds of the model
  MaintainerLists,        \* lists of maintainers that callers give
  SubProjectLists,        \* lists of sub-projects that maintainers give
  Funds                   \* what an account has of the collateral asset

Project == [config : Config, maintainers : Seq(Account), sub_projects : Seq(Name) \cup {None}]

ASSUME RegistryAssumption ==
  /\ IsFiniteSet(Name) /\ IsFiniteSet(Account)
  /\ Admin \subseteq Account
  /\ NameLength \in [Name -> Nat] /\ Alphanumeric \subseteq Name
  /\ MAX_PROJECTS_PER_PAGE \in Nat \ {0}
  /\ {REGISTER_COLLATERAL, MaxNameLength, MaxSubProjects} \subseteq Nat
  /\ MaintainerLists \subseteq Seq(Account) /\ SubProjectLists \subseteq Seq(Name)
  /\ Funds \in [Account -> Nat]
  /\ None \notin Project /\ None \notin Hash /\ None \notin Seq(Name)

VARIABLES
  paused,    \* DataKey::Paused
  projects,  \* ProjectKey::Key: name -> project, or None
  pages,     \* ProjectKey::ProjectKeys: the pages that are stored -> their keys
  total,     \* ProjectKey::TotalProjects
  commits,   \* ProjectKey::LastHash: name -> hash, or None
  wallet,    \* collateral asset of the accounts
  vault      \* collateral asset the contract holds for projects

registryVars == <<paused, projects, pages, total, commits, wallet, vault>>

-----------------------------------------------------------------------------
(* Faulty variants of definitions below, each a slip the code could contain; *)
(* nothing here is part of the model.                                        *)

NotOnOpenPage(name) ==
  \A p \in DOMAIN pages : p = total \div MAX_PROJECTS_PER_PAGE => name \notin ToSet(pages[p])

-----------------------------------------------------------------------------
Registered == {n \in Name : projects[n] # None}

\* register: no project of this name is stored.
IsFree(name) == projects[name] = None

ValidName(name) == name \in Alphanumeric /\ NameLength[name] <= MaxNameLength

\* The maintainer has the collateral, so that the transfer of register succeeds.
CanPay(maintainer) == wallet[maintainer] >= REGISTER_COLLATERAL

\* The page that the next project goes to when there are n already.
PageOf(n) == n \div MAX_PROJECTS_PER_PAGE

\* The keys of a page; a page that is not stored is read as an empty one.
KeysOn(page) == IF page \in DOMAIN pages THEN pages[page] ELSE <<>>

\* auth_maintainers: the caller is a maintainer of a registered project.
IsMaintainer(maintainer, name) ==
  /\ projects[name] # None
  /\ maintainer \in ToSet(projects[name].maintainers)

\* update_config: the new list is not empty.
HasMaintainer(maintainers) == maintainers # <<>>

\* __constructor: the contract is paused until an admin opens it.
RegistryInit ==
  /\ paused = TRUE
  /\ projects = [n \in Name |-> None]
  /\ pages = <<>>
  /\ total = 0
  /\ commits = [n \in Name |-> None]
  /\ wallet = Funds
  /\ vault = 0

-----------------------------------------------------------------------------
Pause(admin, value) ==
  /\ admin \in Admin
  /\ paused' = value
  /\ UNCHANGED <<projects, pages, total, commits, wallet, vault>>

\* The caller pays the collateral and becomes, with the accounts it names, a
\* maintainer; the key goes to the end of the last page, or to a new one.
Register(maintainer, name, maintainers, config) ==
  LET page == PageOf(total) IN
  /\ ~paused
  /\ ValidName(name)
  /\ IsFree(name)
  /\ maintainer \in ToSet(maintainers)
  /\ CanPay(maintainer)
  /\ wallet' = [wallet EXCEPT ![maintainer] = @ - REGISTER_COLLATERAL]
  /\ vault' = vault + REGISTER_COLLATERAL
  /\ projects' = [projects EXCEPT ![name] =
       [config |-> config, maintainers |-> maintainers, sub_projects |-> None]]
  /\ pages' = [p \in DOMAIN pages \cup {page} |->
                 IF p = page THEN Append(KeysOn(page), name) ELSE pages[p]]
  /\ total' = total + 1
  /\ UNCHANGED <<paused, commits>>

\* A maintainer replaces the settings and the maintainers, itself included.
UpdateConfig(maintainer, name, maintainers, config) ==
  /\ ~paused
  /\ IsMaintainer(maintainer, name)
  /\ HasMaintainer(maintainers)
  /\ projects' = [projects EXCEPT ![name] =
       [@ EXCEPT !.config = config, !.maintainers = maintainers]]
  /\ UNCHANGED <<paused, pages, total, commits, wallet, vault>>

\* The sub-projects need not be registered.
SetSubProjects(maintainer, name, sub_projects) ==
  /\ ~paused
  /\ IsMaintainer(maintainer, name)
  /\ Len(sub_projects) <= MaxSubProjects
  /\ projects' = [projects EXCEPT ![name] = [@ EXCEPT !.sub_projects = sub_projects]]
  /\ UNCHANGED <<paused, pages, total, commits, wallet, vault>>

Commit(maintainer, name, hash) ==
  /\ ~paused
  /\ IsMaintainer(maintainer, name)
  /\ commits' = [commits EXCEPT ![name] = hash]
  /\ UNCHANGED <<paused, projects, pages, total, wallet, vault>>

MaintainerNext(maintainer, name) ==
  \/ \E maintainers \in MaintainerLists, config \in Config :
        \/ Register(maintainer, name, maintainers, config)
        \/ UpdateConfig(maintainer, name, maintainers, config)
  \/ \E sub_projects \in SubProjectLists : SetSubProjects(maintainer, name, sub_projects)
  \/ \E hash \in Hash : Commit(maintainer, name, hash)

RegistryNext ==
  \/ \E admin \in Account, value \in BOOLEAN : Pause(admin, value)
  \/ \E maintainer \in Account, name \in Name : MaintainerNext(maintainer, name)

RegistrySpec == RegistryInit /\ [][RegistryNext]_registryVars

-----------------------------------------------------------------------------
\* Every variable has the type of its storage key.
RegistryTypeOK ==
  /\ paused \in BOOLEAN
  /\ projects \in [Name -> Project \cup {None}]
  /\ DOMAIN pages \subseteq Nat /\ pages \in [DOMAIN pages -> Seq(Name)]
  /\ total \in Nat
  /\ commits \in [Name -> Hash \cup {None}]
  /\ wallet \in [Account -> Nat]
  /\ vault \in Nat

\* The order in which the pages list the projects, by the counter: the entry of
\* a page that the counter says holds the i-th project.
Listing ==
  [i \in 1..total |-> pages[PageOf(i - 1)][1 + ((i - 1) % MAX_PROJECTS_PER_PAGE)]]

\* The pages that are stored are those the counter says there are; all are full
\* but the last.  A reader that asks for page after page until get_projects
\* panics (NoProjectPageFound) therefore has seen every page.
PagesFilled ==
  /\ DOMAIN pages = {p \in 0..total : p * MAX_PROJECTS_PER_PAGE < total}
  /\ \A p \in DOMAIN pages :
       Len(pages[p]) = LET left == total - p * MAX_PROJECTS_PER_PAGE IN
                       IF left < MAX_PROJECTS_PER_PAGE THEN left ELSE MAX_PROJECTS_PER_PAGE

\* The pages list each registered project, at one position, and nothing else:
\* no project is invisible or shown twice, and get_projects, which expects the
\* project of every key it reads, panics for no stored page.
ListedOnce ==
  /\ \A i, j \in 1..total : Listing[i] = Listing[j] => i = j
  /\ Registered = {Listing[i] : i \in 1..total}

\* Somebody can act for every project, however often maintainers hand it over.
Administrable == \A n \in Registered : projects[n].maintainers # <<>>
=============================================================================
