----------------------------- MODULE Membership -----------------------------
(***************************************************************************)
(* Members of the Tansu contract and their badges (contracts/tansu/src/    *)
(* contract_membership.rs), on top of the projects of Registry, whose      *)
(* maintainers give the badges.  A badge is stored twice: in the record of *)
(* the member, which gives the voting power, and in a list of the project  *)
(* for each kind of badge, which is what is shown.                         *)
(***************************************************************************)
EXTENDS Registry

CONSTANTS
  Meta,        \* what a member says of itself
  Power,       \* account -> answer of the quorum contract, None if its call fails
  NQG_SCALE,   \* 10^12 in get_nqg
  U32,         \* 2^32: weights are numbers below it
  BadgeLists   \* bound of the model: lists of badges that maintainers give

Kind  == {"Developer", "Triage", "Community", "Verified"}
Badge == Kind \cup {"Default"}

BadgeWeight ==
  [Developer |-> 10000000, Triage |-> 5000000, Community |-> 1000000, Verified |-> 500000,
   Default |-> 1]

ProjectBadges == [project : Name, badges : Seq(Badge)]
Member        == [projects : Seq(ProjectBadges), meta : Meta]

ASSUME MembershipAssumption ==
  /\ Power \in [Account -> Nat \cup {None}]
  /\ NQG_SCALE \in Nat \ {0}
  /\ BadgeLists \subseteq Seq(Badge)
  /\ None \notin Member /\ None \notin Nat /\ None \notin Name

\* One badge of each kind has a weight that is a number of the machine.
ASSUME WidthAssumption == U32 \in Nat /\ U32 > 16500001

VARIABLES
  members,     \* DataKey::Member: account -> member, or None
  listed,      \* ProjectKey::Badges: project -> kind of badge -> account -> how
               \* often the list of the kind names the account
  nqg_project  \* DataKey::NqgProjectKey, or None before it is set

memberVars == <<members, listed, nqg_project>>
vars == <<registryVars, memberVars>>

-----------------------------------------------------------------------------
(* Faulty variants of definitions below, each a slip the code could contain; *)
(* nothing here is part of the model.                                        *)

ListsAdded(lists, member, badges) ==
  [kind \in Kind |->
     [lists[kind] EXCEPT ![member] = IF kind \in ToSet(badges) THEN @ + 1 ELSE @]]

-----------------------------------------------------------------------------
IsMember(a) == members[a] # None

\* The entries of a member that are of a project.
Entries(entries, name) == {i \in DOMAIN entries : entries[i].project = name}

FirstOf(indices) == CHOOSE i \in indices : \A j \in indices : i <= j

\* set_badges: the first entry of the project is replaced, or one is appended.
WithBadges(entries, name, badges) ==
  LET found == Entries(entries, name) IN
  IF found = {} THEN Append(entries, [project |-> name, badges |-> badges])
  ELSE [entries EXCEPT ![FirstOf(found)] = [@ EXCEPT !.badges = badges]]

\* set_badges: each list of the project drops the member, and takes it back at
\* the end if the member is to have the badge.
Relisted(lists, member, badges) ==
  [kind \in Kind |->
     [lists[kind] EXCEPT ![member] = IF kind \in ToSet(badges) THEN 1 ELSE 0]]

\* get_max_weight: the badges of the first entry of the project, if any.
BadgesOf(a, name) ==
  IF ~IsMember(a) THEN <<>>
  ELSE LET found == Entries(members[a].projects, name) IN
       IF found = {} THEN <<>> ELSE members[a].projects[FirstOf(found)].badges

Count(badges, badge) == Cardinality({i \in DOMAIN badges : badges[i] = badge})

\* get_max_weight: the sum of the weights of a list of badges.
WeightSum(badges) ==
  BadgeWeight["Developer"] * Count(badges, "Developer")
    + BadgeWeight["Triage"] * Count(badges, "Triage")
    + BadgeWeight["Community"] * Count(badges, "Community")
    + BadgeWeight["Verified"] * Count(badges, "Verified")
    + BadgeWeight["Default"] * Count(badges, "Default")

\* get_nqg: the power scaled, cut to 32 bits, and cleared up to four millions.
NqgWeight(a) ==
  LET answer == IF Power[a] = None THEN 0 ELSE Power[a]
      weight == (answer \div NQG_SCALE) % U32
  IN  IF weight > 4000000 THEN weight ELSE 0

\* The weight of badges; None if the sum overflows, which panics.
SumOrPanic(badges) == IF WeightSum(badges) < U32 THEN WeightSum(badges) ELSE None

\* get_max_weight; None where it panics.
get_max_weight(name, a) ==
  IF nqg_project = None THEN None
  ELSE IF name = nqg_project THEN NqgWeight(a)
  ELSE IF BadgesOf(a, name) = <<>> THEN BadgeWeight["Default"]
  ELSE SumOrPanic(BadgesOf(a, name))

Init ==
  /\ RegistryInit
  /\ members = [a \in Account |-> None]
  /\ listed = [n \in Name |-> [kind \in Kind |-> [a \in Account |-> 0]]]
  /\ nqg_project = None

-----------------------------------------------------------------------------
\* Faulty variant of SetBadges: the maintainer is not looked up in the project.
SetBadgesUnchecked(maintainer, name, member, badges) ==
  /\ ~paused
  /\ IsMember(member)
  /\ members' = [members EXCEPT ![member].projects = WithBadges(@, name, badges)]
  /\ listed' = [listed EXCEPT ![name] = Relisted(@, member, badges)]
  /\ UNCHANGED <<registryVars, nqg_project>>

AddMember(a, meta) ==
  /\ ~paused
  /\ ~IsMember(a)
  /\ members' = [members EXCEPT ![a] = [projects |-> <<>>, meta |-> meta]]
  /\ UNCHANGED <<registryVars, listed, nqg_project>>

UpdateMember(a, meta) ==
  /\ ~paused
  /\ IsMember(a)
  /\ members' = [members EXCEPT ![a] = [@ EXCEPT !.meta = meta]]
  /\ UNCHANGED <<registryVars, listed, nqg_project>>

SetBadges(maintainer, name, member, badges) ==
  /\ ~paused
  /\ IsMaintainer(maintainer, name)
  /\ IsMember(member)
  /\ members' = [members EXCEPT ![member].projects = WithBadges(@, name, badges)]
  /\ listed' = [listed EXCEPT ![name] = Relisted(@, member, badges)]
  /\ UNCHANGED <<registryVars, nqg_project>>

\* An admin names the project whose votes are weighted by the quorum contract.
SetNqgContract(admin, name) ==
  /\ admin \in Admin
  /\ nqg_project' = name
  /\ UNCHANGED <<registryVars, members, listed>>

MemberNext(a) ==
  \/ \E meta \in Meta : AddMember(a, meta) \/ UpdateMember(a, meta)
  \/ \E name \in Name : SetNqgContract(a, name)
  \/ \E name \in Name, member \in Account, badges \in BadgeLists :
        SetBadges(a, name, member, badges)

Next ==
  \/ RegistryNext /\ UNCHANGED memberVars
  \/ \E a \in Account : MemberNext(a)

Spec == Init /\ [][Next]_vars

-----------------------------------------------------------------------------
\* Every variable has the type of its storage key.
TypeOK ==
  /\ RegistryTypeOK
  /\ members \in [Account -> Member \cup {None}]
  /\ listed \in [Name -> [Kind -> [Account -> Nat]]]
  /\ nqg_project \in Name \cup {None}

\* A member has one entry for a project at most: set_badges replaces the first
\* and get_max_weight reads the first, whichever badges came before.
OneEntryPerProject ==
  \A a \in Account : IsMember(a) =>
    \A i, j \in DOMAIN members[a].projects :
      members[a].projects[i].project = members[a].projects[j].project => i = j

\* Both copies of the badges agree after any sequence of set_badges: the list
\* of a kind names an account once if its record has the badge, and never else.
CopiesAgree ==
  \A n \in Name, kind \in Kind, a \in Account :
    listed[n][kind][a] = IF kind \in ToSet(BadgesOf(a, n)) THEN 1 ELSE 0

\* Badges are only of registered projects, in both copies.
BadgesOfProjects ==
  \A a \in Account, n \in Name :
    (BadgesOf(a, n) # <<>> \/ \E kind \in Kind : listed[n][kind][a] # 0) => n \in Registered

\* The weight of the badges that the lists of a project show an account to have.
ShownWeight(n, a) ==
  BadgeWeight["Developer"] * listed[n]["Developer"][a]
    + BadgeWeight["Triage"] * listed[n]["Triage"][a]
    + BadgeWeight["Community"] * listed[n]["Community"][a]
    + BadgeWeight["Verified"] * listed[n]["Verified"][a]

\* Once the quorum project is set, whoever got each badge of a project once has
\* a voting power there, namely what the lists show it to have, or 1 if they
\* show nothing.  (The badge Default counts and is in no list.)
PowerAsShown ==
  nqg_project # None =>
    \A n \in Name \ {nqg_project}, a \in Account :
      (\A badge \in Badge : Count(BadgesOf(a, n), badge) <= 1) =>
        get_max_weight(n, a) =
          IF BadgesOf(a, n) = <<>> THEN 1
          ELSE ShownWeight(n, a) + Count(BadgesOf(a, n), "Default")

\* The members and projects of which a step changes the badges.
ChangedPairs ==
  {x \in Account \X Name : BadgesOf(x[1], x[2])' # BadgesOf(x[1], x[2])}

\* One call changes the badges of one member in one project at most.
OnePairPerCall == [][\A x, y \in ChangedPairs : x = y]_vars
=============================================================================
