-------------------------------- MODULE Dao --------------------------------
(***************************************************************************)
(* Proposals, ballots and collateral of the Tansu contract                 *)
(* (contracts/tansu/src/contract_dao.rs).  One action is one successful    *)
(* contract call: a call that panics is rolled back by the ledger and      *)
(* changes nothing, so every panic is a guard.  Calls are serialised by    *)
(* the ledger, in any order, by any account; ledger time passes between    *)
(* them.                                                                   *)
(*                                                                         *)
(* Amounts are counted in whole units of an asset (the decimals are a      *)
(* constant factor).  An anonymous ballot binds its voter to one choice,   *)
(* as the client builds it; vote itself accepts any three points of the    *)
(* group.  The aggregate commitments of a proposal are kept in tallies as  *)
(* the totals they commit to, and an opening is accepted iff it names      *)
(* exactly these totals.                                                   *)
(***************************************************************************)
EXTENDS Integers, FiniteSets, SequencesExt, Totals

CONSTANTS
  Project,        \* registered project keys
  Account,        \* addresses that call the contract
  Asset,          \* token contracts a collateral can be paid in
  Admin,          \* AdminsConfig.admins
  Maintainers,    \* project -> its Project.maintainers
  Funds,          \* asset -> account -> balance before the first call
  InitialPower,   \* project -> account -> get_max_weight before the first call
  Capacity,       \* proposals a project can hold: MAX_PAGES * MAX_PROPOSALS_PER_PAGE
  PROPOSAL_COLLATERAL, VOTE_COLLATERAL,
  MIN_VOTING_PERIOD, MAX_VOTING_PERIOD, TIMELOCK_DELAY,
  MAX_VOTES_PER_PROPOSAL,
  None            \* an absent option, vote or proposal

CONSTANTS         \* the bounds of the model: which inputs the callers choose from
  Collaterals,    \* assets the admins configure as collateral
  VotingKinds,    \* values of public_voting
  TokenKinds,     \* values of token_contract
  OutcomeKinds,   \* decisions for which a proposal names an outcome contract
  Preferences,    \* choices of ballots
  Weights,        \* weights of ballots
  Powers,         \* voting powers that badges grant
  ConflictLists,  \* values of addresses in the conflict-of-interest calls
  MaxClaim,       \* largest tally an opening names
  MaxTime         \* last instant of ledger time

Pid      == Project \X (0 .. Capacity - 1)     \* (project_key, proposal_id)
Choice   == {"Approve", "Reject", "Abstain"}
Decision == {"Approved", "Rejected", "Cancelled"}
Status   == Decision \cup {"Absent", "Active", "Malicious"}
Ballot   == [choice : Choice, weight : Nat]
Proposal == [proposer : Account, voting_ends_at : Nat, public_voting : BOOLEAN,
             token_contract : Asset \cup {None}, outcome_contracts : SUBSET Decision]
Claim    == [Choice -> 0 .. MaxClaim]

ASSUME ConstantsAssumption ==
  /\ IsFiniteSet(Project) /\ IsFiniteSet(Account) /\ IsFiniteSet(Asset)
  /\ Admin \subseteq Account
  /\ Maintainers \in [Project -> SUBSET Account]
  /\ Funds \in [Asset -> [Account -> Nat]]
  /\ InitialPower \in [Project -> [Account -> Nat]]
  /\ {Capacity, PROPOSAL_COLLATERAL, VOTE_COLLATERAL, MAX_VOTES_PER_PROPOSAL} \subseteq Nat
  /\ {MIN_VOTING_PERIOD, MAX_VOTING_PERIOD, TIMELOCK_DELAY} \subseteq Nat
  /\ {MaxClaim, MaxTime} \subseteq Nat
  /\ Collaterals \subseteq Asset /\ TokenKinds \subseteq Asset \cup {None}
  /\ VotingKinds \subseteq BOOLEAN /\ OutcomeKinds \subseteq SUBSET Decision
  /\ Preferences \subseteq Choice /\ Weights \subseteq Nat /\ Powers \subseteq Nat
  /\ ConflictLists \subseteq SUBSET Account
  /\ None \notin Asset \cup Account \cup Ballot \cup Proposal \cup Claim

VARIABLES
  now,          \* ledger timestamp
  paused,       \* DataKey::Paused
  collateral,   \* ContractKey::Collateral
  votingConfig, \* projects with a ProjectKey::AnonymousVoteConfig
  maxWeight,    \* get_max_weight of every account in every project
  total,        \* ProjectKey::DaoTotalProposals
  proposal,     \* the proposals in ProjectKey::Dao pages: what never changes
  status,       \* the proposals in ProjectKey::Dao pages: their status
  votes,        \* ProjectKey::Vote
  voters,       \* ProjectKey::Voters
  tallies,      \* ProjectKey::ProposalTallies
  conflicts,    \* ProjectKey::ConflictOfInterest
  invoked,      \* calls made to the outcome contracts of every proposal
  wallet,       \* asset -> account -> balance held by the account
  vault,        \* asset -> balance held by the contract
  slashed       \* history: asset -> account -> collateral of removed votes

settings == <<now, paused, collateral, votingConfig, maxWeight>>
book     == <<total, proposal>>
ballots  == <<votes, voters, tallies>>
funds    == <<wallet, vault, slashed>>
vars     == <<settings, book, status, ballots, conflicts, invoked, funds>>

-----------------------------------------------------------------------------
(* Faulty variants of definitions below, each a slip the code could contain; *)
(* nothing here is part of the model.                                        *)

ActiveUnlessRevoked(p) == status[p] \notin {"Absent", "Malicious"}
OpenAtDeadline(p) == now <= proposal[p].voting_ends_at
StaleVoters(p, voter) == voters[p]
StaleTally(p, ballot) == tallies[p]
PluralityResult(t) == IF t["Approve"] > t["Reject"] THEN "Approved"
                      ELSE IF t["Reject"] > t["Approve"] THEN "Rejected"
                      ELSE "Cancelled"
AnyOpening(p, claim) == IF proposal[p].public_voting THEN claim = None ELSE claim # None

-----------------------------------------------------------------------------
(* The tests that the calls share. *)

\* page < MAX_PAGES for the proposal about to be created, and its id.
HasRoom(k) == total[k] < Capacity
NextId(k)  == <<k, total[k]>>

\* The proposal exists and its status is Active.
IsActive(p) == status[p] = "Active"

VotingOpen(p)   == now < proposal[p].voting_ends_at
TimelockOver(p) == now >= proposal[p].voting_ends_at + TIMELOCK_DELAY

\* auth_maintainers, after require_not_paused.
MaintainerCall(maintainer, k) == ~paused /\ maintainer \in Maintainers[k]

-----------------------------------------------------------------------------
(* What a ballot locks, and what a proposal owes. *)

StakeAsset(p) == IF proposal[p].token_contract = None
                 THEN collateral ELSE proposal[p].token_contract

Stake(p, weight) == IF proposal[p].token_contract = None
                    THEN VOTE_COLLATERAL ELSE weight

\* What account a has locked in proposal p, in asset x.
Deposit(p, a, x) ==
  (IF x = collateral /\ a = proposal[p].proposer THEN PROPOSAL_COLLATERAL ELSE 0)
    + (IF x = StakeAsset(p) /\ votes[p][a] # None
       THEN Stake(p, votes[p][a].weight) ELSE 0)

\* get_all_votes follows the list of voters: an account is repaid once for
\* every time the list names it, if its vote is still stored.
Listed(p, a) == Cardinality({i \in DOMAIN voters[p] : voters[p][i] = a})

Refund(p, x) ==
  [a \in Account |->
     (IF x = collateral /\ a = proposal[p].proposer THEN PROPOSAL_COLLATERAL ELSE 0)
       + (IF x = StakeAsset(p) /\ votes[p][a] # None
          THEN Listed(p, a) * Stake(p, votes[p][a].weight) ELSE 0)]

-----------------------------------------------------------------------------
(* Ballots and tallies. *)

\* The list of voters without the first occurrence of voter.
RemainingVoters(p, voter) ==
  LET at == {i \in DOMAIN voters[p] : voters[p][i] = voter} IN
  IF at = {} THEN voters[p] ELSE RemoveAt(voters[p], Min(at))

Zero == [c \in Choice |-> 0]

SaturatingSub(m, n) == IF n > m THEN 0 ELSE m - n

\* u128::saturating_sub for public tallies, the group's subtraction for
\* commitments.
TallyWithout(p, ballot) ==
  [tallies[p] EXCEPT ![ballot.choice] =
     IF proposal[p].public_voting THEN SaturatingSub(@, ballot.weight)
                                  ELSE @ - ballot.weight]

TallyWith(p, ballot) == [tallies[p] EXCEPT ![ballot.choice] = @ + ballot.weight]

\* A choice must outweigh the two others together.
tallies_to_result(t) ==
  IF t["Approve"] > t["Reject"] + t["Abstain"] THEN "Approved"
  ELSE IF t["Reject"] > t["Approve"] + t["Abstain"] THEN "Rejected"
  ELSE "Cancelled"

\* public_execute reads the stored tallies; anonymous_execute the opening
\* that proof_from_aggregates has accepted.
ProvenTally(p, claim) == IF proposal[p].public_voting THEN tallies[p] ELSE claim

ProofAccepted(p, claim) ==
  IF proposal[p].public_voting THEN claim = None ELSE claim = tallies[p]

-----------------------------------------------------------------------------
Init ==
  /\ now = 0
  /\ paused = TRUE
  /\ collateral = None
  /\ votingConfig = {}
  /\ maxWeight = InitialPower
  /\ total = [k \in Project |-> 0]
  /\ proposal = [p \in Pid |-> None]
  /\ status = [p \in Pid |-> "Absent"]
  /\ votes = [p \in Pid |-> [a \in Account |-> None]]
  /\ voters = [p \in Pid |-> <<>>]
  /\ tallies = [p \in Pid |-> Zero]
  /\ conflicts = [p \in Pid |-> {}]
  /\ invoked = [p \in Pid |-> <<>>]
  /\ wallet = Funds
  /\ vault = [x \in Asset |-> 0]
  /\ slashed = [x \in Asset |-> [a \in Account |-> 0]]

\* The ledger closes and time passes.
Tick ==
  /\ now < MaxTime
  /\ now' = now + 1
  /\ UNCHANGED <<paused, collateral, votingConfig, maxWeight, book, status,
                 ballots, conflicts, invoked, funds>>

\* An admin pauses or unpauses the contract.
Pause(admin, value) ==
  /\ admin \in Admin
  /\ paused' = value
  /\ UNCHANGED <<now, collateral, votingConfig, maxWeight, book, status,
                 ballots, conflicts, invoked, funds>>

\* An admin chooses the asset collateral is paid in, paused or not.
SetCollateralContract(admin, x) ==
  /\ admin \in Admin
  /\ collateral' = x
  /\ UNCHANGED <<now, paused, votingConfig, maxWeight, book, status,
                 ballots, conflicts, invoked, funds>>

\* The generator points do not depend on the key: calling again rotates the
\* key and leaves the commitments already stored openable.
AnonymousVotingSetup(maintainer, k) ==
  /\ MaintainerCall(maintainer, k)
  /\ votingConfig' = votingConfig \cup {k}
  /\ UNCHANGED <<now, paused, collateral, maxWeight, book, status,
                 ballots, conflicts, invoked, funds>>

\* A maintainer assigns badges, and with them a voting power.
SetBadges(maintainer, k, a, weight) ==
  /\ MaintainerCall(maintainer, k)
  /\ maxWeight' = [maxWeight EXCEPT ![k][a] = weight]
  /\ UNCHANGED <<now, paused, collateral, votingConfig, book, status,
                 ballots, conflicts, invoked, funds>>

-----------------------------------------------------------------------------
(* The life of a proposal. *)

\* Anyone may propose; the proposer pays the collateral of the proposal and,
\* where votes are paid in collateral, of the abstention recorded with it.
CreateProposal(proposer, k, ends, public, token, outcomes) ==
  LET p       == NextId(k)
      deposit == IF token = None THEN PROPOSAL_COLLATERAL + VOTE_COLLATERAL
                                 ELSE PROPOSAL_COLLATERAL
  IN
  /\ ~paused
  /\ ends \in now + MIN_VOTING_PERIOD .. now + MAX_VOTING_PERIOD
  /\ collateral # None
  /\ wallet[collateral][proposer] >= deposit
  /\ ~public => k \in votingConfig
  /\ HasRoom(k)
  /\ wallet' = [wallet EXCEPT ![collateral][proposer] = @ - deposit]
  /\ vault' = [vault EXCEPT ![collateral] = @ + deposit]
  /\ total' = [total EXCEPT ![k] = @ + 1]
  /\ proposal' = [proposal EXCEPT ![p] =
       [proposer |-> proposer, voting_ends_at |-> ends, public_voting |-> public,
        token_contract |-> token, outcome_contracts |-> outcomes]]
  /\ status' = [status EXCEPT ![p] = "Active"]
  /\ votes' = [votes EXCEPT ![p][proposer] = [choice |-> "Abstain", weight |-> 0]]
  /\ voters' = [voters EXCEPT ![p] = <<proposer>>]
  /\ tallies' = [tallies EXCEPT ![p] = Zero]
  /\ UNCHANGED <<settings, conflicts, invoked, slashed>>

\* weight is bounded by the voter's badges, or by the tokens it locks.
Vote(voter, p, choice, weight) ==
  LET ballot == [choice |-> choice, weight |-> weight]
      x      == StakeAsset(p)
      stake  == Stake(p, weight)
  IN
  /\ ~paused
  /\ IsActive(p)
  /\ VotingOpen(p)
  /\ Len(voters[p]) < MAX_VOTES_PER_PROPOSAL
  /\ votes[p][voter] = None
  /\ voter \notin conflicts[p]
  /\ proposal[p].token_contract = None => weight <= maxWeight[p[1]][voter]
  /\ weight # 0
  /\ wallet[x][voter] >= stake
  /\ wallet' = [wallet EXCEPT ![x][voter] = @ - stake]
  /\ vault' = [vault EXCEPT ![x] = @ + stake]
  /\ votes' = [votes EXCEPT ![p][voter] = ballot]
  /\ voters' = [voters EXCEPT ![p] = Append(@, voter)]
  /\ tallies' = [tallies EXCEPT ![p] = TallyWith(p, ballot)]
  /\ UNCHANGED <<settings, book, status, conflicts, invoked, slashed>>

\* A maintainer strikes a vote, before or after the deadline; the collateral
\* of the vote stays in the contract.
RemoveVote(maintainer, p, voter) ==
  LET ballot == votes[p][voter] IN
  /\ MaintainerCall(maintainer, p[1])
  /\ IsActive(p)
  /\ ballot # None
  /\ votes' = [votes EXCEPT ![p][voter] = None]
  /\ voters' = [voters EXCEPT ![p] = RemainingVoters(p, voter)]
  /\ tallies' = [tallies EXCEPT ![p] = TallyWithout(p, ballot)]
  /\ slashed' = [slashed EXCEPT ![StakeAsset(p)][voter] = @ + Stake(p, ballot.weight)]
  /\ UNCHANGED <<settings, book, status, conflicts, invoked, wallet, vault>>

\* An admin or a maintainer voids a proposal; nobody is repaid.
RevokeProposal(caller, p) ==
  /\ ~paused
  /\ caller \in Admin \cup Maintainers[p[1]]
  /\ IsActive(p)
  /\ status' = [status EXCEPT ![p] = "Malicious"]
  /\ UNCHANGED <<settings, book, ballots, conflicts, invoked, funds>>

\* A maintainer settles a proposal: everybody still listed is repaid, the
\* status is decided and the outcome contract of the decision is called.  If
\* a payment or that contract fails, the whole call is rolled back.
Execute(maintainer, p, claim) ==
  LET decision == tallies_to_result(ProvenTally(p, claim)) IN
  /\ MaintainerCall(maintainer, p[1])
  /\ IsActive(p)
  /\ TimelockOver(p)
  /\ ProofAccepted(p, claim)
  /\ \A x \in Asset : Total(Refund(p, x), Account) <= vault[x]
  /\ wallet' = [x \in Asset |-> [a \in Account |-> wallet[x][a] + Refund(p, x)[a]]]
  /\ vault' = [x \in Asset |-> vault[x] - Total(Refund(p, x), Account)]
  /\ status' = [status EXCEPT ![p] = decision]
  /\ invoked' = IF decision \in proposal[p].outcome_contracts
                THEN [invoked EXCEPT ![p] = Append(@, decision)]
                ELSE invoked
  /\ UNCHANGED <<settings, book, ballots, conflicts, slashed>>

\* A maintainer bars accounts from voting, whether they have voted or not.
AddConflictOfInterest(maintainer, p, addresses) ==
  /\ MaintainerCall(maintainer, p[1])
  /\ IsActive(p)
  /\ conflicts' = [conflicts EXCEPT ![p] = @ \cup addresses]
  /\ UNCHANGED <<settings, book, status, ballots, invoked, funds>>

RemoveConflictOfInterest(maintainer, p, addresses) ==
  /\ MaintainerCall(maintainer, p[1])
  /\ IsActive(p)
  /\ conflicts' = [conflicts EXCEPT ![p] = @ \ addresses]
  /\ UNCHANGED <<settings, book, status, ballots, invoked, funds>>

-----------------------------------------------------------------------------
AdminNext ==
  \E admin \in Account :
    \/ \E value \in BOOLEAN : Pause(admin, value)
    \/ \E x \in Collaterals : SetCollateralContract(admin, x)

ProjectNext ==
  \E caller \in Account, k \in Project :
    \/ AnonymousVotingSetup(caller, k)
    \/ \E a \in Account, w \in Powers : SetBadges(caller, k, a, w)
    \/ \E ends \in 0 .. MaxTime + MAX_VOTING_PERIOD, public \in VotingKinds,
          token \in TokenKinds, outcomes \in OutcomeKinds :
            CreateProposal(caller, k, ends, public, token, outcomes)

ProposalNext ==
  \E caller \in Account, p \in Pid :
    \/ \E choice \in Preferences, w \in Weights : Vote(caller, p, choice, w)
    \/ \E voter \in Account : RemoveVote(caller, p, voter)
    \/ RevokeProposal(caller, p)
    \/ \E claim \in Claim \cup {None} : Execute(caller, p, claim)
    \/ \E addresses \in ConflictLists : AddConflictOfInterest(caller, p, addresses)
    \/ \E addresses \in ConflictLists : RemoveConflictOfInterest(caller, p, addresses)

Next == Tick \/ AdminNext \/ ProjectNext \/ ProposalNext

Spec == Init /\ [][Next]_vars

-----------------------------------------------------------------------------
(* Correctness. *)

\* Every stored value has the type of its storage key.
TypeOK ==
  /\ now \in Nat /\ paused \in BOOLEAN
  /\ collateral \in Asset \cup {None}
  /\ votingConfig \subseteq Project
  /\ maxWeight \in [Project -> [Account -> Nat]]
  /\ total \in [Project -> 0 .. Capacity]
  /\ proposal \in [Pid -> Proposal \cup {None}]
  /\ status \in [Pid -> Status]
  /\ votes \in [Pid -> [Account -> Ballot \cup {None}]]
  /\ voters \in [Pid -> Seq(Account)]
  /\ tallies \in [Pid -> [Choice -> Int]]
  /\ conflicts \in [Pid -> SUBSET Account]
  /\ invoked \in [Pid -> Seq(Decision)]
  /\ wallet \in [Asset -> [Account -> Nat]]
  /\ vault \in [Asset -> Nat]
  /\ slashed \in [Asset -> [Account -> Nat]]

Created(p) == p[2] < total[p[1]]

\* The weight account a's stored ballot gives to choice c.
BallotWeight(p, c) ==
  [a \in Account |-> IF votes[p][a] # None /\ votes[p][a].choice = c
                     THEN votes[p][a].weight ELSE 0]

WeightFor(p, c) == Total(BallotWeight(p, c), Account)

\* The running tallies of a proposal are the sums of the ballots stored for
\* it, whatever was cast, struck and cast again, by voters whose badges may
\* have changed since (vote, remove_vote, update_proposal_tallies): in
\* particular the saturating subtraction never saturates.
TalliesMatchVotes ==
  \A p \in Pid, c \in Choice : tallies[p][c] = WeightFor(p, c)

\* The list of voters that execute follows to repay collateral names every
\* account with a stored vote exactly once and nobody else, and respects the
\* limit of votes (vote, remove_vote, get_all_votes).
VotersMatchVotes ==
  \A p \in Pid :
    /\ IsInjective(voters[p])
    /\ ToSet(voters[p]) = {a \in Account : votes[p][a] # None}
    /\ Len(voters[p]) <= MAX_VOTES_PER_PROPOSAL \/ Len(voters[p]) = 1

\* Proposals are stored in the order of their ids without a gap, and only
\* proposals that exist have a proposer, ballots, tallies or conflicts.
BookConsistent ==
  \A p \in Pid :
    /\ Created(p) <=> status[p] # "Absent"
    /\ Created(p) <=> proposal[p] # None
    /\ Created(p) => collateral # None
    /\ ~Created(p) => /\ votes[p] = [a \in Account |-> None]
                      /\ voters[p] = <<>> /\ conflicts[p] = {} /\ invoked[p] = <<>>

\* What the active proposals owe in asset x.
OwedBy(p, x) ==
  IF status[p] = "Active" THEN Total([a \in Account |-> Deposit(p, a, x)], Account) ELSE 0

Owed(x) == Total([p \in Pid |-> OwedBy(p, x)], Pid)

\* The contract always holds what its active proposals owe, of all projects
\* together: no settlement, slashing or revocation spends collateral that
\* backs another proposal, so execute never fails for lack of funds.
Solvent == \A x \in Asset : vault[x] >= Owed(x)

\* Nobody gains or loses: what an account holds, what it has locked in active
\* proposals, and what it forfeited (votes struck by a maintainer, proposals
\* revoked) add up to what it had, per asset.
LockedBy(a, x, statuses) ==
  Total([p \in Pid |-> IF status[p] \in statuses THEN Deposit(p, a, x) ELSE 0], Pid)

MadeWhole ==
  \A x \in Asset, a \in Account :
    wallet[x][a] + LockedBy(a, x, {"Active", "Malicious"}) + slashed[x][a] = Funds[x][a]

\* A decided proposal was decided by the ballots that are stored for it: an
\* outcome other than Cancelled has more weight behind it than the two other
\* choices together, and a Cancelled one has no such choice.  This holds for
\* anonymous proposals too, and for good: nothing changes the ballots later.
Majority(p, c) ==
  2 * WeightFor(p, c) > Total([d \in Choice |-> WeightFor(p, d)], Choice)

OutcomeReflectsVotes ==
  \A p \in Pid :
    /\ status[p] = "Approved" => Majority(p, "Approve")
    /\ status[p] = "Rejected" => Majority(p, "Reject")
    /\ status[p] = "Cancelled" => ~Majority(p, "Approve") /\ ~Majority(p, "Reject")

\* The outcome contracts of a proposal are called once, by the call that
\* decides it, and only the one named for its decision.
OutcomeCalledOnce ==
  \A p \in Pid :
    invoked[p] = IF status[p] \in Decision
                    /\ status[p] \in proposal[p].outcome_contracts
                 THEN <<status[p]>> ELSE <<>>

\* A proposal leaves Active once: then its status, ballots, tallies, list of
\* voters and conflicts are final, whoever calls whatever.
DecidedForGood ==
  [][\A p \in Pid :
       status[p] \notin {"Absent", "Active"} =>
         /\ status'[p] = status[p] /\ proposal'[p] = proposal[p]
         /\ votes'[p] = votes[p] /\ voters'[p] = voters[p]
         /\ tallies'[p] = tallies[p] /\ conflicts'[p] = conflicts[p]]_vars

\* Once voting has ended ballots are only struck: no ballot appears or
\* changes, so a decision comes from ballots that stood open to review for
\* the whole timelock.
ClosedBallotOnlyShrinks ==
  [][\A p \in Pid, a \in Account :
       Created(p) /\ now >= proposal[p].voting_ends_at =>
         votes'[p][a] \in {votes[p][a], None}]_vars

=============================================================================
