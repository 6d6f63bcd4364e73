----------------------------- MODULE DaoProofs -----------------------------
(***************************************************************************)
(* What the module Dao satisfies for every finite set of projects,         *)
(* accounts and assets, and every value of the limits: its types and the   *)
(* agreement of ballots, tallies and pages; how proposals are decided, and *)
(* that the contract implements the abstract Referendum; and that it holds *)
(* the money it owes.                                                      *)
(***************************************************************************)
EXTENDS DaoRefinement, DaoDocs, FiniteSetTheorems, TLAPS

-----------------------------------------------------------------------------
(* Totals. *)

\* What one summand contributes is finite, and as many as it says.
LEMMA UnitsFinite ==
  ASSUME NEW S, NEW f \in [S -> Nat], NEW s \in S
  PROVE  /\ IsFiniteSet(UnitsOf(f, s))
         /\ Cardinality(UnitsOf(f, s)) = f[s]
<1>1. /\ IsFiniteSet(1 .. f[s])
      /\ Cardinality(1 .. f[s]) = f[s]
  <2>1. f[s] \in Nat
    OBVIOUS
  <2>2. QED  BY <2>1, FS_Interval
<1>2. /\ IsFiniteSet({s})
      /\ Cardinality({s}) = 1
  BY FS_Singleton
<1>3. QED  BY <1>1, <1>2, FS_Product DEF UnitsOf

\* The units of all elements of S except one form a finite set.
LEMMA UnionFinite ==
  ASSUME NEW S, IsFiniteSet(S), NEW f \in [S -> Nat], NEW T \in SUBSET S
  PROVE  IsFiniteSet(UNION {UnitsOf(f, s) : s \in T})
<1>1. IsFiniteSet(T)
  BY FS_Subset
<1>2. IsFiniteSet({UnitsOf(f, s) : s \in T})
  <2> DEFINE unit == [s \in T |-> UnitsOf(f, s)]
             Image == {unit[s] : s \in T}
  <2>1. unit \in Surjection(T, Image)
    BY DEF Surjection
  <2>2. IsFiniteSet(Image)
    <3> HIDE DEF unit, Image
    <3>1. QED  BY <1>1, <2>1, FS_Surjection
  <2>3. QED  BY <2>2
<1>3. \A U \in {UnitsOf(f, s) : s \in T} : IsFiniteSet(U)
  BY UnitsFinite
<1>4. QED  BY <1>2, <1>3, FS_UNION

\* A total splits into the summand of s and the total of the others.
LEMMA TotalSplit ==
  ASSUME NEW S, IsFiniteSet(S), NEW f \in [S -> Nat], NEW s \in S
  PROVE  /\ Total(f, S \ {s}) \in Nat
         /\ Total(f, S) = Total(f, S \ {s}) + f[s]
<1> DEFINE Rest == UNION {UnitsOf(f, t) : t \in S \ {s}}
<1>1. IsFiniteSet(Rest) /\ Cardinality(Rest) \in Nat
  BY UnionFinite, FS_CardinalityType
<1>2. /\ IsFiniteSet(UnitsOf(f, s))
      /\ Cardinality(UnitsOf(f, s)) = f[s]
  BY UnitsFinite
<1>3. Rest \cap UnitsOf(f, s) = {}
  BY DEF UnitsOf
<1>4. UNION {UnitsOf(f, t) : t \in S} = Rest \cup UnitsOf(f, s)
  OBVIOUS
<1>5. Cardinality(Rest \cup UnitsOf(f, s)) = Cardinality(Rest) + f[s]
  <2> HIDE DEF Rest
  <2>1. Cardinality(Rest \cap UnitsOf(f, s)) = 0
    BY <1>3, FS_EmptySet
  <2>2. Cardinality(Rest \cup UnitsOf(f, s))
          = Cardinality(Rest) + Cardinality(UnitsOf(f, s))
              - Cardinality(Rest \cap UnitsOf(f, s))
    BY <1>1, <1>2, FS_Union
  <2>3. f[s] \in Nat
    OBVIOUS
  <2>4. QED  BY <1>1, <1>2, <2>1, <2>2, <2>3
<1>6. QED  BY <1>1, <1>4, <1>5 DEF Total

\* A total is a natural number.
LEMMA TotalType ==
  ASSUME NEW S, IsFiniteSet(S), NEW f \in [S -> Nat]
  PROVE  Total(f, S) \in Nat
BY UnionFinite, FS_CardinalityType DEF Total

\* Changing one summand changes the total by the difference.
LEMMA TotalUpdate ==
  ASSUME NEW S, IsFiniteSet(S), NEW f \in [S -> Nat], NEW g \in [S -> Nat],
         NEW s \in S, \A t \in S \ {s} : g[t] = f[t]
  PROVE  Total(g, S) = Total(f, S) - f[s] + g[s]
<1>1. Total(g, S \ {s}) = Total(f, S \ {s})
  <2>1. \A t \in S \ {s} : UnitsOf(g, t) = UnitsOf(f, t)
    BY DEF UnitsOf
  <2>2. {UnitsOf(g, t) : t \in S \ {s}} = {UnitsOf(f, t) : t \in S \ {s}}
    BY <2>1
  <2>3. QED  BY <2>2 DEF Total
<1>2. f[s] \in Nat /\ g[s] \in Nat
  OBVIOUS
<1>3. QED  BY <1>1, <1>2, TotalSplit

\* Two functions that agree on S have the same total.
LEMMA TotalSame ==
  ASSUME NEW S, NEW f, NEW g, \A t \in S : g[t] = f[t]
  PROVE  Total(g, S) = Total(f, S)
<1>1. \A t \in S : UnitsOf(g, t) = UnitsOf(f, t)
  BY DEF UnitsOf
<1>2. {UnitsOf(g, t) : t \in S} = {UnitsOf(f, t) : t \in S}
  BY <1>1
<1>3. QED  BY <1>2 DEF Total

\* No summand exceeds the total.
LEMMA TotalBounds ==
  ASSUME NEW S, IsFiniteSet(S), NEW f \in [S -> Nat], NEW s \in S
  PROVE  f[s] <= Total(f, S)
<1>1. f[s] \in Nat
  OBVIOUS
<1>2. /\ Total(f, S \ {s}) \in Nat
      /\ Total(f, S) = Total(f, S \ {s}) + f[s]
  BY TotalSplit
<1>3. QED  BY <1>1, <1>2

\* The total of the zero function is zero.
LEMMA TotalZero ==
  ASSUME NEW S, NEW f, \A t \in S : f[t] = 0
  PROVE  Total(f, S) = 0
<1>1. \A t \in S : UnitsOf(f, t) = {}
  BY DEF UnitsOf
<1>2. UNION {UnitsOf(f, t) : t \in S} = {}
  BY <1>1
<1>3. QED  BY <1>2, FS_EmptySet DEF Total

-----------------------------------------------------------------------------
(* Lists. *)

LEMMA RemoveAtProperties ==
  ASSUME NEW S, NEW s \in Seq(S), NEW j \in 1 .. Len(s)
  PROVE  /\ RemoveAt(s, j) \in Seq(S)
         /\ Len(RemoveAt(s, j)) = Len(s) - 1
         /\ \A i \in 1 .. Len(s) - 1 :
              RemoveAt(s, j)[i] = IF i < j THEN s[i] ELSE s[i + 1]
<1> DEFINE front == SubSeq(s, 1, j - 1)
           back  == SubSeq(s, j + 1, Len(s))
<1>1. /\ front \in Seq(S) /\ Len(front) = j - 1
      /\ \A i \in 1 .. j - 1 : front[i] = s[i]
  OBVIOUS
<1>2. /\ back \in Seq(S) /\ Len(back) = Len(s) - j
      /\ \A i \in 1 .. Len(s) - j : back[i] = s[j + i]
  OBVIOUS
<1>3. /\ front \o back \in Seq(S)
      /\ Len(front \o back) = Len(s) - 1
      /\ \A i \in 1 .. Len(s) - 1 :
           (front \o back)[i] = IF i < j THEN s[i] ELSE s[i + 1]
  <2> HIDE DEF front, back
  <2>1. /\ front \o back \in Seq(S)
        /\ Len(front \o back) = Len(s) - 1
    BY <1>1, <1>2
  <2>2. ASSUME NEW i \in 1 .. Len(s) - 1, i < j
        PROVE  (front \o back)[i] = s[i]
    BY <1>1, <1>2, <2>2
  <2>3. ASSUME NEW i \in 1 .. Len(s) - 1, ~(i < j)
        PROVE  (front \o back)[i] = s[i + 1]
    <3>1. (front \o back)[i] = back[i - (j - 1)]
      BY <1>1, <1>2, <2>3
    <3>2. i - (j - 1) \in 1 .. Len(s) - j
      BY <2>3
    <3>3. back[i - (j - 1)] = s[j + (i - (j - 1))]
      BY <1>2, <3>2
    <3>4. j + (i - (j - 1)) = i + 1
      BY <2>3
    <3>5. QED  BY <3>1, <3>3, <3>4
  <2>4. QED  BY <2>1, <2>2, <2>3
<1>4. QED  BY <1>3 DEF RemoveAt

LEMMA MinSingleton == \A j \in Int : Min({j}) = j
BY DEF Min

\* The inductive invariant: the types hold because proposals exist where ids
\* say so, the list of voters loses the right entry because it names each
\* voter once, and the tallies are right because the entries are.
Inv == TypeOK /\ BookConsistent /\ VotersMatchVotes /\ TalliesMatchVotes

-----------------------------------------------------------------------------
(* Which calls touch the ballots. *)

Creates == \E a \in Account, k \in Project, ends \in Nat, public \in BOOLEAN,
              token \in Asset \cup {None}, outcomes \in SUBSET Decision :
             CreateProposal(a, k, ends, public, token, outcomes)

Votes == \E a \in Account, p \in Pid, c \in Choice, w \in Weights : Vote(a, p, c, w)

Removes == \E m \in Account, p \in Pid, a \in Account : RemoveVote(m, p, a)

Settles == \E m \in Account, p \in Pid, claim \in Claim \cup {None} : Execute(m, p, claim)

Revokes == \E a \in Account, p \in Pid : RevokeProposal(a, p)

Conflicts == \E m \in Account, p \in Pid, l \in ConflictLists :
               AddConflictOfInterest(m, p, l) \/ RemoveConflictOfInterest(m, p, l)

Configures == \/ Tick \/ AdminNext
              \/ \E m \in Account, k \in Project :
                   \/ AnonymousVotingSetup(m, k)
                   \/ \E a \in Account, w \in Powers : SetBadges(m, k, a, w)

LEMMA StepCases ==
  ASSUME Next
  PROVE  Creates \/ Votes \/ Removes \/ Settles \/ Revokes \/ Conflicts \/ Configures
<1>1. CASE AdminNext \/ Tick
  BY <1>1 DEF Configures
<1>2. CASE ProjectNext
  <2>1. PICK a \in Account, k \in Project :
          \/ AnonymousVotingSetup(a, k)
          \/ \E b \in Account, w \in Powers : SetBadges(a, k, b, w)
          \/ \E ends \in 0 .. MaxTime + MAX_VOTING_PERIOD, public \in VotingKinds,
                token \in TokenKinds, outcomes \in OutcomeKinds :
                  CreateProposal(a, k, ends, public, token, outcomes)
    BY <1>2 DEF ProjectNext
  <2>2. CASE \E ends \in 0 .. MaxTime + MAX_VOTING_PERIOD, public \in VotingKinds,
                token \in TokenKinds, outcomes \in OutcomeKinds :
                  CreateProposal(a, k, ends, public, token, outcomes)
    <3>1. PICK ends \in 0 .. MaxTime + MAX_VOTING_PERIOD, public \in VotingKinds,
               token \in TokenKinds, outcomes \in OutcomeKinds :
                 CreateProposal(a, k, ends, public, token, outcomes)
      BY <2>2
    <3>2. /\ ends \in Nat /\ public \in BOOLEAN /\ token \in Asset \cup {None}
          /\ outcomes \in SUBSET Decision
      BY ConstantsAssumption
    <3>3. QED  BY <3>1, <3>2 DEF Creates
  <2>3. QED  BY <2>1, <2>2 DEF Configures
<1>3. CASE ProposalNext
  <2>1. PICK m \in Account, p \in Pid :
          \/ \E c \in Preferences, w \in Weights : Vote(m, p, c, w)
          \/ \E a \in Account : RemoveVote(m, p, a)
          \/ RevokeProposal(m, p)
          \/ \E claim \in Claim \cup {None} : Execute(m, p, claim)
          \/ \E addresses \in ConflictLists : AddConflictOfInterest(m, p, addresses)
          \/ \E addresses \in ConflictLists : RemoveConflictOfInterest(m, p, addresses)
    BY <1>3 DEF ProposalNext
  <2>2. CASE \E c \in Preferences, w \in Weights : Vote(m, p, c, w)
    BY <2>2, ConstantsAssumption DEF Votes
  <2>3. QED  BY <2>1, <2>2 DEF Removes, Revokes, Settles, Conflicts
<1>4. QED  BY <1>1, <1>2, <1>3 DEF Next

LEMMA ConfiguresFrame ==
  ASSUME Configures
  PROVE  UNCHANGED <<book, status, ballots, conflicts, invoked, funds>>
<1>1. CASE AdminNext
  BY <1>1 DEF AdminNext, Pause, SetCollateralContract
<1>2. CASE Tick
  BY <1>2 DEF Tick
<1>3. CASE \E m \in Account, k \in Project :
             \/ AnonymousVotingSetup(m, k)
             \/ \E a \in Account, w \in Powers : SetBadges(m, k, a, w)
  BY <1>3 DEF AnonymousVotingSetup, SetBadges
<1>4. QED  BY <1>1, <1>2, <1>3 DEF Configures

\* Only three calls touch the book of proposals or the ballots.
LEMMA BallotCalls ==
  ASSUME [Next]_vars
  PROVE  \/ Creates \/ Votes \/ Removes
         \/ UNCHANGED <<total, proposal, votes, voters, tallies>>
<1>1. CASE UNCHANGED vars
  BY <1>1 DEF vars, book, ballots
<1>2. CASE Configures
  BY <1>2, ConfiguresFrame DEF book, ballots
<1>3. CASE Settles
  BY <1>3 DEF Settles, Execute, book, ballots
<1>4. CASE Revokes
  BY <1>4 DEF Revokes, RevokeProposal, book, ballots
<1>5. CASE Conflicts
  BY <1>5 DEF Conflicts, AddConflictOfInterest, RemoveConflictOfInterest, book, ballots
<1>6. QED  BY <1>1, <1>2, <1>3, <1>4, <1>5, StepCases

-----------------------------------------------------------------------------
(* Types. *)

LEMMA Constants ==
  /\ PROPOSAL_COLLATERAL \in Nat /\ VOTE_COLLATERAL \in Nat /\ Capacity \in Nat
  /\ MAX_VOTES_PER_PROPOSAL \in Nat
  /\ MIN_VOTING_PERIOD \in Nat /\ MAX_VOTING_PERIOD \in Nat /\ TIMELOCK_DELAY \in Nat
  /\ MaxClaim \in Nat /\ MaxTime \in Nat
BY ConstantsAssumption

LEMMA CreateTypes ==
  ASSUME TypeOK, NEW a \in Account, NEW k \in Project, NEW ends \in Nat,
         NEW public \in BOOLEAN, NEW token \in Asset \cup {None},
         NEW outcomes \in SUBSET Decision,
         CreateProposal(a, k, ends, public, token, outcomes)
  PROVE  TypeOK'
<1> DEFINE p       == NextId(k)
           deposit == IF token = None THEN PROPOSAL_COLLATERAL + VOTE_COLLATERAL
                                      ELSE PROPOSAL_COLLATERAL
           entry   == [proposer |-> a, voting_ends_at |-> ends, public_voting |-> public,
                       token_contract |-> token, outcome_contracts |-> outcomes]
<1>1. p \in Pid /\ total[k] + 1 \in 0 .. Capacity
  <2>1. total[k] \in 0 .. Capacity /\ total[k] < Capacity
    BY DEF CreateProposal, TypeOK, HasRoom
  <2>2. total[k] \in 0 .. Capacity - 1 /\ total[k] + 1 \in 0 .. Capacity
    BY <2>1, Constants
  <2>3. QED  BY <2>2 DEF Pid, NextId
<1>2. entry \in Proposal
  BY DEF Proposal
<1>3. deposit \in Nat /\ collateral \in Asset
  <2>1. deposit \in Nat
    BY Constants
  <2>2. collateral \in Asset
    BY DEF CreateProposal, TypeOK
  <2>3. QED  BY <2>1, <2>2
<1>4. /\ wallet' = [wallet EXCEPT ![collateral][a] = @ - deposit]
      /\ vault' = [vault EXCEPT ![collateral] = @ + deposit]
      /\ wallet[collateral][a] >= deposit
      /\ total' = [total EXCEPT ![k] = @ + 1]
      /\ proposal' = [proposal EXCEPT ![p] = entry]
      /\ status' = [status EXCEPT ![p] = "Active"]
      /\ votes' = [votes EXCEPT ![p][a] = [choice |-> "Abstain", weight |-> 0]]
      /\ voters' = [voters EXCEPT ![p] = <<a>>]
      /\ tallies' = [tallies EXCEPT ![p] = Zero]
      /\ UNCHANGED <<settings, conflicts, invoked, slashed>>
  BY DEF CreateProposal
<1> HIDE DEF p, deposit, entry
<1>5. wallet' \in [Asset -> [Account -> Nat]] /\ vault' \in [Asset -> Nat]
  BY <1>3, <1>4 DEF TypeOK
<1>6. total' \in [Project -> 0 .. Capacity] /\ proposal' \in [Pid -> Proposal \cup {None}]
  BY <1>1, <1>2, <1>4 DEF TypeOK
<1>7. status' \in [Pid -> Status]
  BY <1>4 DEF TypeOK, Status
<1>8. /\ votes' \in [Pid -> [Account -> Ballot \cup {None}]]
      /\ voters' \in [Pid -> Seq(Account)]
      /\ tallies' \in [Pid -> [Choice -> Int]]
  <2>1. [choice |-> "Abstain", weight |-> 0] \in Ballot
    BY DEF Ballot, Choice
  <2>2. <<a>> \in Seq(Account) /\ Zero \in [Choice -> Int]
    BY DEF Zero
  <2>3. QED  BY <1>1, <1>4, <2>1, <2>2 DEF TypeOK
<1>9. QED  BY <1>4, <1>5, <1>6, <1>7, <1>8 DEF TypeOK, settings

LEMMA StakeType ==
  ASSUME TypeOK, BookConsistent, NEW p \in Pid, Created(p), NEW w \in Nat
  PROVE  /\ proposal[p] \in Proposal
         /\ collateral \in Asset /\ StakeAsset(p) \in Asset /\ Stake(p, w) \in Nat
<1>1. proposal[p] \in Proposal /\ collateral \in Asset
  BY DEF TypeOK, BookConsistent
<1>2. proposal[p].token_contract \in Asset \cup {None}
  BY <1>1 DEF Proposal
<1>3. QED  BY <1>1, <1>2, Constants DEF StakeAsset, Stake

LEMMA VoteTypes ==
  ASSUME TypeOK, BookConsistent, NEW a \in Account, NEW p \in Pid, NEW c \in Choice,
         NEW w \in Nat, Vote(a, p, c, w)
  PROVE  TypeOK'
<1> DEFINE x == StakeAsset(p)
           s == Stake(p, w)
           ballot == [choice |-> c, weight |-> w]
<1>1. Created(p)
  BY DEF Vote, IsActive, BookConsistent
<1>2. x \in Asset /\ s \in Nat
  BY <1>1, StakeType
<1>3. /\ wallet' = [wallet EXCEPT ![x][a] = @ - s]
      /\ vault' = [vault EXCEPT ![x] = @ + s]
      /\ wallet[x][a] >= s
      /\ votes' = [votes EXCEPT ![p][a] = ballot]
      /\ voters' = [voters EXCEPT ![p] = Append(@, a)]
      /\ tallies' = [tallies EXCEPT ![p] = TallyWith(p, ballot)]
      /\ UNCHANGED <<settings, book, status, conflicts, invoked, slashed>>
  BY DEF Vote
<1>4. ballot \in Ballot
  BY DEF Ballot
<1>5. TallyWith(p, ballot) \in [Choice -> Int]
  BY DEF TypeOK, TallyWith
<1> HIDE DEF x, s, ballot
<1>6. wallet' \in [Asset -> [Account -> Nat]] /\ vault' \in [Asset -> Nat]
  BY <1>2, <1>3 DEF TypeOK
<1>7. votes' \in [Pid -> [Account -> Ballot \cup {None}]]
  BY <1>3, <1>4 DEF TypeOK
<1>8. voters' \in [Pid -> Seq(Account)]
  BY <1>3 DEF TypeOK
<1>9. tallies' \in [Pid -> [Choice -> Int]]
  BY <1>3, <1>5 DEF TypeOK
<1>10. QED  BY <1>3, <1>6, <1>7, <1>8, <1>9 DEF TypeOK, settings, book

\* Striking a voter that is listed once removes its entry, and only that.
LEMMA RemainingVotersProperties ==
  ASSUME TypeOK, VotersMatchVotes, NEW p \in Pid, NEW a \in Account
  PROVE  /\ RemainingVoters(p, a) \in Seq(Account)
         /\ IsInjective(RemainingVoters(p, a))
         /\ ToSet(RemainingVoters(p, a)) = ToSet(voters[p]) \ {a}
         /\ Len(RemainingVoters(p, a)) <= Len(voters[p])
<1> DEFINE s  == voters[p]
           at == {i \in DOMAIN s : s[i] = a}
<1>1. s \in Seq(Account) /\ IsInjective(s)
  BY DEF TypeOK, VotersMatchVotes
<1>2. CASE at = {}
  <2>1. RemainingVoters(p, a) = s
    BY <1>2 DEF RemainingVoters
  <2>2. a \notin ToSet(s)
    BY <1>2 DEF ToSet
  <2>3. Len(s) <= Len(s)
    BY <1>1
  <2>4. QED  BY <1>1, <2>1, <2>2, <2>3
<1>3. CASE at # {}
  <2>1. PICK j \in DOMAIN s : s[j] = a
    BY <1>3
  <2>2. DOMAIN s = 1 .. Len(s) /\ Len(s) \in Nat /\ j \in 1 .. Len(s) /\ j \in Int
    BY <1>1, <2>1
  <2>3. at = {j}
    BY <1>1, <2>1 DEF IsInjective
  <2>4. RemainingVoters(p, a) = RemoveAt(s, j)
    BY <1>3, <2>2, <2>3, MinSingleton DEF RemainingVoters
  <2> HIDE DEF at, s
  <2>5. /\ RemoveAt(s, j) \in Seq(Account)
        /\ Len(RemoveAt(s, j)) = Len(s) - 1
        /\ \A i \in 1 .. Len(s) - 1 :
             RemoveAt(s, j)[i] = IF i < j THEN s[i] ELSE s[i + 1]
    BY <1>1, <2>2, RemoveAtProperties
  <2> DEFINE r == RemoveAt(s, j)
  <2> HIDE DEF r
  <2>6. DOMAIN r = 1 .. Len(s) - 1
    BY <2>2, <2>5 DEF r
  <2>7. IsInjective(r)
    <3> DEFINE from(i) == IF i < j THEN i ELSE i + 1
    <3>1. ASSUME NEW i \in DOMAIN r
          PROVE  from(i) \in DOMAIN s /\ r[i] = s[from(i)]
      BY <2>2, <2>5, <2>6 DEF r
    <3>2. ASSUME NEW i \in DOMAIN r, NEW n \in DOMAIN r, r[i] = r[n]
          PROVE  i = n
      <4>1. from(i) = from(n)
        BY <1>1, <3>1, <3>2 DEF IsInjective
      <4>2. QED  BY <2>2, <2>6, <4>1
    <3>3. QED  BY <3>2 DEF IsInjective
  <2>8. ToSet(r) = ToSet(s) \ {a}
    <3>1. ASSUME NEW i \in DOMAIN r
          PROVE  r[i] \in ToSet(s) /\ r[i] # a
      BY <1>1, <2>1, <2>2, <2>5, <2>6 DEF ToSet, IsInjective, r
    <3>2. ASSUME NEW i \in DOMAIN s, s[i] # a
          PROVE  \E n \in DOMAIN r : r[n] = s[i]
      <4>1. CASE i < j
        BY <4>1, <2>2, <2>5, <2>6 DEF r
      <4>2. CASE i > j
        <5>1. i - 1 \in DOMAIN r /\ ~(i - 1 < j) /\ (i - 1) + 1 = i
          BY <4>2, <2>2, <2>6
        <5>2. QED  BY <5>1, <2>5, <2>6 DEF r
      <4>3. QED  BY <3>2, <4>1, <4>2, <2>1, <2>2
    <3>3. QED  BY <3>1, <3>2 DEF ToSet
  <2>9. QED  BY <2>2, <2>4, <2>5, <2>7, <2>8 DEF r, s
<1>4. QED  BY <1>2, <1>3

LEMMA RemoveTypes ==
  ASSUME TypeOK, BookConsistent, VotersMatchVotes,
         NEW m \in Account, NEW p \in Pid, NEW a \in Account, RemoveVote(m, p, a)
  PROVE  TypeOK'
<1> DEFINE ballot == votes[p][a]
           x == StakeAsset(p)
           s == Stake(p, ballot.weight)
<1>1. Created(p)
  BY DEF RemoveVote, IsActive, BookConsistent
<1>2. ballot \in Ballot /\ ballot.choice \in Choice /\ ballot.weight \in Nat
  BY DEF RemoveVote, TypeOK, Ballot
<1>3. x \in Asset /\ s \in Nat
  BY <1>1, <1>2, StakeType
<1>4. /\ votes' = [votes EXCEPT ![p][a] = None]
      /\ voters' = [voters EXCEPT ![p] = RemainingVoters(p, a)]
      /\ tallies' = [tallies EXCEPT ![p] = TallyWithout(p, ballot)]
      /\ slashed' = [slashed EXCEPT ![x][a] = @ + s]
      /\ UNCHANGED <<settings, book, status, conflicts, invoked, wallet, vault>>
  BY DEF RemoveVote
<1>5. TallyWithout(p, ballot) \in [Choice -> Int]
  BY <1>2 DEF TypeOK, TallyWithout, SaturatingSub
<1>6. RemainingVoters(p, a) \in Seq(Account)
  BY RemainingVotersProperties
<1> HIDE DEF x, s, ballot
<1>7. votes' \in [Pid -> [Account -> Ballot \cup {None}]]
  BY <1>4 DEF TypeOK
<1>8. voters' \in [Pid -> Seq(Account)]
  BY <1>4, <1>6 DEF TypeOK
<1>9. tallies' \in [Pid -> [Choice -> Int]]
  BY <1>4, <1>5 DEF TypeOK
<1>10. slashed' \in [Asset -> [Account -> Nat]]
  BY <1>3, <1>4 DEF TypeOK
<1>11. QED  BY <1>4, <1>7, <1>8, <1>9, <1>10 DEF TypeOK, settings, book

LEMMA RefundType ==
  ASSUME TypeOK, BookConsistent, NEW p \in Pid, Created(p), NEW x \in Asset
  PROVE  Refund(p, x) \in [Account -> Nat]
<1>1. ASSUME NEW a \in Account
      PROVE  Listed(p, a) \in Nat
  <2>1. voters[p] \in Seq(Account) /\ DOMAIN voters[p] = 1 .. Len(voters[p])
        /\ Len(voters[p]) \in Nat
    BY DEF TypeOK
  <2>2. IsFiniteSet(1 .. Len(voters[p]))
    BY <2>1, FS_Interval
  <2>3. {i \in DOMAIN voters[p] : voters[p][i] = a} \subseteq 1 .. Len(voters[p])
    BY <2>1
  <2>4. QED  BY <2>2, <2>3, FS_Subset, FS_CardinalityType DEF Listed
<1>2. ASSUME NEW a \in Account
      PROVE  Refund(p, x)[a] \in Nat
  <2> DEFINE own == IF x = collateral /\ a = proposal[p].proposer THEN PROPOSAL_COLLATERAL ELSE 0
             back == IF x = StakeAsset(p) /\ votes[p][a] # None
                     THEN Listed(p, a) * Stake(p, votes[p][a].weight) ELSE 0
  <2>1. own \in Nat
    BY Constants
  <2>2. back \in Nat
    <3>1. CASE x = StakeAsset(p) /\ votes[p][a] # None
      <4>1. votes[p][a].weight \in Nat
        BY <3>1 DEF TypeOK, Ballot
      <4>2. Stake(p, votes[p][a].weight) \in Nat
        BY <4>1, StakeType
      <4>3. QED  BY <3>1, <4>2, <1>1
    <3>2. CASE ~(x = StakeAsset(p) /\ votes[p][a] # None)
      BY <3>2
    <3>3. QED  BY <3>1, <3>2
  <2>3. Refund(p, x)[a] = own + back
    BY DEF Refund
  <2> HIDE DEF own, back
  <2>4. QED  BY <2>1, <2>2, <2>3
<1>3. QED  BY <1>2 DEF Refund

LEMMA ExecuteTypes ==
  ASSUME TypeOK, BookConsistent, NEW m \in Account, NEW p \in Pid,
         NEW claim \in Claim \cup {None}, Execute(m, p, claim)
  PROVE  TypeOK'
<1> DEFINE decision == tallies_to_result(ProvenTally(p, claim))
           Paid(x)  == Total(Refund(p, x), Account)
<1>1. Created(p)
  BY DEF Execute, IsActive, BookConsistent
<1>2. decision \in Decision
  BY DEF tallies_to_result, Decision
<1>3. /\ wallet' = [x \in Asset |-> [a \in Account |-> wallet[x][a] + Refund(p, x)[a]]]
      /\ vault' = [x \in Asset |-> vault[x] - Paid(x)]
      /\ \A x \in Asset : Paid(x) <= vault[x]
      /\ status' = [status EXCEPT ![p] = decision]
      /\ invoked' = IF decision \in proposal[p].outcome_contracts
                    THEN [invoked EXCEPT ![p] = Append(@, decision)]
                    ELSE invoked
      /\ UNCHANGED <<settings, book, ballots, conflicts, slashed>>
  BY DEF Execute
<1>4. \A x \in Asset : Refund(p, x) \in [Account -> Nat]
  BY <1>1, RefundType
<1>5. \A x \in Asset : Paid(x) \in Nat
  BY <1>4, TotalType, ConstantsAssumption
<1> HIDE DEF decision, Paid
<1>6. wallet' \in [Asset -> [Account -> Nat]]
  <2>1. \A x \in Asset, a \in Account : wallet[x][a] + Refund(p, x)[a] \in Nat
    BY <1>4 DEF TypeOK
  <2>2. QED  BY <1>3, <2>1
<1>7. vault' \in [Asset -> Nat]
  <2>1. \A x \in Asset : vault[x] - Paid(x) \in Nat
    BY <1>3, <1>5 DEF TypeOK
  <2>2. QED  BY <1>3, <2>1
<1>8. status' \in [Pid -> Status]
  BY <1>2, <1>3 DEF TypeOK, Status
<1>9. invoked' \in [Pid -> Seq(Decision)]
  BY <1>2, <1>3 DEF TypeOK
<1>10. QED  BY <1>3, <1>6, <1>7, <1>8, <1>9 DEF TypeOK, settings, book, ballots

LEMMA ConfiguresTypes ==
  ASSUME TypeOK, Configures
  PROVE  TypeOK'
<1>1. CASE Tick
  BY <1>1 DEF TypeOK, Tick, book, ballots, funds
<1>2. CASE AdminNext
  <2>1. PICK admin \in Account :
          \/ \E value \in BOOLEAN : Pause(admin, value)
          \/ \E x \in Collaterals : SetCollateralContract(admin, x)
    BY <1>2 DEF AdminNext
  <2>2. CASE \E value \in BOOLEAN : Pause(admin, value)
    BY <2>2 DEF TypeOK, Pause, book, ballots, funds
  <2>3. CASE \E x \in Collaterals : SetCollateralContract(admin, x)
    <3>1. collateral' \in Asset
      BY <2>3, ConstantsAssumption DEF SetCollateralContract
    <3>2. QED  BY <2>3, <3>1 DEF TypeOK, SetCollateralContract, book, ballots, funds
  <2>4. QED  BY <2>1, <2>2, <2>3
<1>3. ASSUME NEW m \in Account, NEW k \in Project, AnonymousVotingSetup(m, k)
      PROVE  TypeOK'
  BY <1>3 DEF TypeOK, AnonymousVotingSetup, book, ballots, funds
<1>4. ASSUME NEW m \in Account, NEW k \in Project, NEW a \in Account, NEW w \in Powers,
             SetBadges(m, k, a, w)
      PROVE  TypeOK'
  <2>1. w \in Nat
    BY ConstantsAssumption
  <2>2. maxWeight' = [maxWeight EXCEPT ![k][a] = w]
    BY <1>4 DEF SetBadges
  <2>3. maxWeight' \in [Project -> [Account -> Nat]]
    BY <2>1, <2>2 DEF TypeOK
  <2>4. QED  BY <2>3, <1>4 DEF TypeOK, SetBadges, book, ballots, funds
<1>5. QED  BY <1>1, <1>2, <1>3, <1>4 DEF Configures

LEMMA TypeStep ==
  ASSUME TypeOK, BookConsistent, VotersMatchVotes, [Next]_vars
  PROVE  TypeOK'
<1>1. CASE UNCHANGED vars
  BY <1>1 DEF TypeOK, vars, settings, book, ballots, funds
<1>2. CASE Creates
  BY <1>2, CreateTypes DEF Creates
<1>3. CASE Votes
  BY <1>3, VoteTypes, ConstantsAssumption DEF Votes
<1>4. CASE Removes
  BY <1>4, RemoveTypes DEF Removes
<1>5. CASE Settles
  BY <1>5, ExecuteTypes DEF Settles
<1>6. CASE Revokes
  <2>1. PICK a \in Account, p \in Pid : RevokeProposal(a, p)
    BY <1>6 DEF Revokes
  <2>2. status' \in [Pid -> Status]
    BY <2>1 DEF TypeOK, RevokeProposal, Status
  <2>3. QED  BY <2>1, <2>2 DEF TypeOK, RevokeProposal, settings, book, ballots, funds
<1>7. CASE Conflicts
  <2>1. PICK m \in Account, p \in Pid, l \in ConflictLists :
          AddConflictOfInterest(m, p, l) \/ RemoveConflictOfInterest(m, p, l)
    BY <1>7 DEF Conflicts
  <2>2. l \subseteq Account
    BY ConstantsAssumption
  <2>3. conflicts' \in [Pid -> SUBSET Account]
    <3>1. conflicts \in [Pid -> SUBSET Account]
      BY DEF TypeOK
    <3>2. conflicts[p] \cup l \in SUBSET Account /\ conflicts[p] \ l \in SUBSET Account
      BY <2>2, <3>1
    <3>3. \/ conflicts' = [conflicts EXCEPT ![p] = conflicts[p] \cup l]
          \/ conflicts' = [conflicts EXCEPT ![p] = conflicts[p] \ l]
      BY <2>1 DEF AddConflictOfInterest, RemoveConflictOfInterest
    <3>4. QED  BY <3>1, <3>2, <3>3
  <2>4. QED  BY <2>1, <2>3 DEF TypeOK, AddConflictOfInterest, RemoveConflictOfInterest,
                               settings, book, ballots, funds
<1>8. CASE Configures
  BY <1>8, ConfiguresTypes
<1>9. QED  BY <1>1, <1>2, <1>3, <1>4, <1>5, <1>6, <1>7, <1>8, StepCases

-----------------------------------------------------------------------------
(* The book of proposals. *)

LEMMA NewProposal ==
  ASSUME TypeOK, BookConsistent, NEW k \in Project, HasRoom(k)
  PROVE  /\ NextId(k) \in Pid /\ ~Created(NextId(k))
         /\ status[NextId(k)] = "Absent" /\ proposal[NextId(k)] = None
<1>1. total[k] \in 0 .. Capacity /\ total[k] < Capacity
  BY DEF TypeOK, HasRoom
<1>2. total[k] \in 0 .. Capacity - 1 /\ ~(total[k] < total[k])
  BY <1>1, Constants
<1>3. NextId(k) \in Pid /\ ~Created(NextId(k))
  BY <1>2 DEF Pid, NextId, Created
<1>4. QED  BY <1>3 DEF BookConsistent

\* BookConsistent of one proposal.
BookAt(p) ==
  /\ Created(p) <=> status[p] # "Absent"
  /\ Created(p) <=> proposal[p] # None
  /\ Created(p) => collateral # None
  /\ ~Created(p) => /\ votes[p] = [a \in Account |-> None]
                    /\ voters[p] = <<>> /\ conflicts[p] = {} /\ invoked[p] = <<>>

LEMMA CreateBook ==
  ASSUME TypeOK, BookConsistent, NEW a \in Account, NEW k \in Project, NEW ends \in Nat,
         NEW public \in BOOLEAN, NEW token \in Asset \cup {None},
         NEW outcomes \in SUBSET Decision,
         CreateProposal(a, k, ends, public, token, outcomes), NEW p \in Pid
  PROVE  BookAt(p)'
<1> DEFINE n     == NextId(k)
           entry == [proposer |-> a, voting_ends_at |-> ends, public_voting |-> public,
                     token_contract |-> token, outcome_contracts |-> outcomes]
           abstention == [choice |-> "Abstain", weight |-> 0]
<1>1. n \in Pid /\ ~Created(n)
  BY NewProposal DEF CreateProposal
<1>2. /\ total' = [total EXCEPT ![k] = @ + 1]
      /\ proposal' = [proposal EXCEPT ![n] = entry]
      /\ status' = [status EXCEPT ![n] = "Active"]
      /\ votes' = [votes EXCEPT ![n][a] = abstention]
      /\ voters' = [voters EXCEPT ![n] = <<a>>]
      /\ collateral' = collateral /\ collateral # None
      /\ conflicts' = conflicts /\ invoked' = invoked
  BY DEF CreateProposal, settings
<1>3. entry # None
  <2>1. entry \in Proposal
    BY DEF Proposal
  <2>2. QED  BY <2>1, ConstantsAssumption
<1>4. p[1] \in Project /\ p[2] \in Int /\ total[p[1]] \in Int /\ total[k] \in Int
      /\ p = <<p[1], p[2]>>
  BY DEF Pid, TypeOK
<1>5. BookAt(p)
  BY DEF BookConsistent, BookAt
<1>6. CASE p = n
  <2>1. p[1] = k /\ p[2] = total[k]
    BY <1>6 DEF NextId
  <2>2. total'[k] = total[k] + 1
    BY <1>2 DEF TypeOK
  <2>3. Created(p)'
    BY <2>1, <2>2, <1>4 DEF Created
  <2>4. status'[p] # "Absent" /\ proposal'[p] # None
    BY <1>1, <1>2, <1>3, <1>6 DEF TypeOK
  <2>5. QED  BY <1>2, <2>3, <2>4 DEF BookAt
<1>7. CASE p # n
  <2>1. ~(p[1] = k /\ p[2] = total[k])
    BY <1>4, <1>7 DEF NextId
  <2>2. Created(p)' <=> Created(p)
    <3>1. total'[p[1]] = IF p[1] = k THEN total[k] + 1 ELSE total[p[1]]
      BY <1>2, <1>4 DEF TypeOK
    <3>2. QED  BY <1>4, <2>1, <3>1 DEF Created
  <2>3. /\ status'[p] = status[p] /\ proposal'[p] = proposal[p] /\ votes'[p] = votes[p]
        /\ voters'[p] = voters[p] /\ conflicts'[p] = conflicts[p] /\ invoked'[p] = invoked[p]
    BY <1>1, <1>2, <1>7 DEF TypeOK
  <2>4. QED  BY <1>2, <1>5, <2>2, <2>3 DEF BookAt
<1>8. QED  BY <1>6, <1>7

\* Every other call works on a proposal that exists, or on none.
LEMMA BookFrame ==
  ASSUME TypeOK, BookConsistent, NEW p \in Pid,
         total' = total, proposal' = proposal, collateral' # None \/ collateral' = collateral,
         Created(p) => status'[p] # "Absent",
         ~Created(p) => /\ status'[p] = status[p] /\ votes'[p] = votes[p]
                        /\ voters'[p] = voters[p] /\ conflicts'[p] = conflicts[p]
                        /\ invoked'[p] = invoked[p]
  PROVE  BookAt(p)'
<1>1. Created(p)' <=> Created(p)
  BY DEF Created
<1>2. BookAt(p)
  BY DEF BookConsistent, BookAt
<1>3. QED  BY <1>1, <1>2 DEF BookAt

LEMMA BookStep ==
  ASSUME TypeOK, BookConsistent, [Next]_vars
  PROVE  BookConsistent'
<1> SUFFICES ASSUME NEW p \in Pid PROVE BookAt(p)'
  BY DEF BookConsistent, BookAt
<1>1. CASE UNCHANGED vars
  BY <1>1, BookFrame DEF vars, settings, book, ballots, BookConsistent
<1>2. CASE Creates
  BY <1>2, CreateBook DEF Creates
<1>3. ASSUME NEW q \in Pid, IsActive(q),
             UNCHANGED book, collateral' = collateral,
             \A r \in Pid \ {q} : /\ status'[r] = status[r] /\ votes'[r] = votes[r]
                                  /\ voters'[r] = voters[r] /\ conflicts'[r] = conflicts[r]
                                  /\ invoked'[r] = invoked[r],
             status'[q] # "Absent"
      PROVE  BookAt(p)'
  <2>1. Created(q)
    BY <1>3 DEF IsActive, BookConsistent
  <2>2. Created(p) => status[p] # "Absent"
    BY DEF BookConsistent
  <2>3. QED  BY <1>3, <2>1, <2>2, BookFrame DEF book
<1>4. CASE Votes
  <2>1. PICK a \in Account, q \in Pid, c \in Choice, w \in Weights : Vote(a, q, c, w)
    BY <1>4 DEF Votes
  <2>2. QED  BY <2>1, <1>3 DEF Vote, TypeOK, IsActive, settings
<1>5. CASE Removes
  <2>1. PICK m \in Account, q \in Pid, a \in Account : RemoveVote(m, q, a)
    BY <1>5 DEF Removes
  <2>2. QED  BY <2>1, <1>3 DEF RemoveVote, TypeOK, IsActive, settings
<1>6. CASE Settles
  <2>1. PICK m \in Account, q \in Pid, claim \in Claim \cup {None} : Execute(m, q, claim)
    BY <1>6 DEF Settles
  <2>2. tallies_to_result(ProvenTally(q, claim)) # "Absent"
    BY DEF tallies_to_result
  <2>3. QED  BY <2>1, <2>2, <1>3 DEF Execute, TypeOK, settings, ballots
<1>7. CASE Revokes
  <2>1. PICK m \in Account, q \in Pid : RevokeProposal(m, q)
    BY <1>7 DEF Revokes
  <2>2. QED  BY <2>1, <1>3 DEF RevokeProposal, TypeOK, settings, ballots
<1>8. CASE Conflicts
  <2>1. PICK m \in Account, q \in Pid, l \in ConflictLists :
          AddConflictOfInterest(m, q, l) \/ RemoveConflictOfInterest(m, q, l)
    BY <1>8 DEF Conflicts
  <2>2. QED  BY <2>1, <1>3 DEF AddConflictOfInterest, RemoveConflictOfInterest, TypeOK,
                               IsActive, settings, ballots
<1>9. CASE Configures
  <2>1. collateral' # None \/ collateral' = collateral
    <3>1. CASE AdminNext
      BY <3>1, ConstantsAssumption DEF AdminNext, Pause, SetCollateralContract
    <3>2. CASE Tick
      BY <3>2 DEF Tick
    <3>3. CASE \E m \in Account, k \in Project :
                 \/ AnonymousVotingSetup(m, k)
                 \/ \E a \in Account, w \in Powers : SetBadges(m, k, a, w)
      BY <3>3 DEF AnonymousVotingSetup, SetBadges
    <3>4. QED  BY <1>9, <3>1, <3>2, <3>3 DEF Configures
  <2>2. Created(p) => status[p] # "Absent"
    BY DEF BookConsistent
  <2>3. QED  BY <1>9, <2>1, <2>2, ConfiguresFrame, BookFrame DEF book, ballots
<1>10. QED  BY <1>1, <1>2, <1>4, <1>5, <1>6, <1>7, <1>8, <1>9, StepCases

-----------------------------------------------------------------------------
(* The list of voters. *)

VotersAt(p) ==
  /\ IsInjective(voters[p])
  /\ ToSet(voters[p]) = {a \in Account : votes[p][a] # None}
  /\ Len(voters[p]) <= MAX_VOTES_PER_PROPOSAL \/ Len(voters[p]) = 1

LEMMA AppendNew ==
  ASSUME NEW S, NEW s \in Seq(S), NEW a \in S, IsInjective(s), a \notin ToSet(s)
  PROVE  /\ IsInjective(Append(s, a)) /\ ToSet(Append(s, a)) = ToSet(s) \cup {a}
         /\ Len(Append(s, a)) = Len(s) + 1
<1>1. PICK r : r = Append(s, a)
  OBVIOUS
<1>2. /\ DOMAIN s = 1 .. Len(s) /\ Len(s) \in Nat /\ DOMAIN r = 1 .. Len(s) + 1
      /\ r[Len(s) + 1] = a /\ \A i \in 1 .. Len(s) : r[i] = s[i]
      /\ Len(r) = Len(s) + 1
  BY <1>1
<1>3. \A n \in 1 .. Len(s) : r[n] # a
  BY <1>2 DEF ToSet
<1>4. ASSUME NEW i \in DOMAIN r, NEW j \in DOMAIN r, r[i] = r[j]
      PROVE  i = j
  <2>1. CASE i = Len(s) + 1 \/ j = Len(s) + 1
    BY <1>2, <1>3, <1>4, <2>1
  <2>2. CASE i # Len(s) + 1 /\ j # Len(s) + 1
    <3>1. i \in 1 .. Len(s) /\ j \in 1 .. Len(s)
      BY <1>2, <2>2
    <3>2. QED  BY <1>2, <1>4, <3>1 DEF IsInjective
  <2>3. QED  BY <2>1, <2>2
<1>5. \A i \in DOMAIN r : r[i] \in ToSet(s) \cup {a}
  <2>1. ASSUME NEW i \in DOMAIN r
        PROVE  r[i] \in ToSet(s) \cup {a}
    <3>1. CASE i = Len(s) + 1
      BY <1>2, <3>1
    <3>2. CASE i # Len(s) + 1
      <4>1. i \in 1 .. Len(s)
        BY <1>2, <3>2
      <4>2. QED  BY <1>2, <4>1 DEF ToSet
    <3>3. QED  BY <3>1, <3>2
  <2>2. QED  BY <2>1
<1>6. \A x \in ToSet(s) \cup {a} : \E i \in DOMAIN r : r[i] = x
  <2>1. \A i \in DOMAIN s : i \in DOMAIN r /\ r[i] = s[i]
    BY <1>2
  <2>2. Len(s) + 1 \in DOMAIN r
    BY <1>2
  <2>3. QED  BY <1>2, <2>1, <2>2 DEF ToSet
<1>7. IsInjective(r) /\ ToSet(r) = ToSet(s) \cup {a}
  BY <1>4, <1>5, <1>6 DEF IsInjective, ToSet
<1>8. QED  BY <1>1, <1>2, <1>7

LEMMA CreateVoters ==
  ASSUME TypeOK, BookConsistent, VotersMatchVotes, NEW a \in Account, NEW k \in Project,
         NEW ends \in Nat, NEW public \in BOOLEAN, NEW token \in Asset \cup {None},
         NEW outcomes \in SUBSET Decision,
         CreateProposal(a, k, ends, public, token, outcomes), NEW p \in Pid
  PROVE  VotersAt(p)'
<1> DEFINE n == NextId(k)
           abstention == [choice |-> "Abstain", weight |-> 0]
<1>1. n \in Pid /\ ~Created(n)
  BY NewProposal DEF CreateProposal
<1>2. /\ votes' = [votes EXCEPT ![n][a] = abstention]
      /\ voters' = [voters EXCEPT ![n] = <<a>>]
  BY DEF CreateProposal
<1>3. abstention # None
  <2>1. abstention \in Ballot
    BY DEF Ballot, Choice
  <2>2. QED  BY <2>1, ConstantsAssumption
<1> HIDE DEF n, abstention
<1>4. CASE p = n
  <2>1. voters'[p] = <<a>>
    BY <1>1, <1>2, <1>4 DEF TypeOK
  <2>2. \A b \in Account : votes[n][b] = None
    BY <1>1 DEF BookConsistent
  <2>3. {b \in Account : votes'[p][b] # None} = {a}
    BY <1>1, <1>2, <1>3, <1>4, <2>2 DEF TypeOK
  <2>4. DOMAIN <<a>> = {1} /\ <<a>>[1] = a /\ Len(<<a>>) = 1
    OBVIOUS
  <2>5. IsInjective(<<a>>) /\ ToSet(<<a>>) = {a}
    BY <2>4 DEF IsInjective, ToSet
  <2>6. QED  BY <2>1, <2>3, <2>4, <2>5 DEF VotersAt
<1>5. CASE p # n
  <2>1. voters'[p] = voters[p] /\ votes'[p] = votes[p]
    BY <1>1, <1>2, <1>5 DEF TypeOK
  <2>2. QED  BY <2>1 DEF VotersAt, VotersMatchVotes
<1>6. QED  BY <1>4, <1>5

LEMMA VoteVoters ==
  ASSUME TypeOK, VotersMatchVotes, NEW a \in Account, NEW q \in Pid, NEW c \in Choice,
         NEW w \in Nat, Vote(a, q, c, w), NEW p \in Pid
  PROVE  VotersAt(p)'
<1> DEFINE ballot == [choice |-> c, weight |-> w]
<1>1. /\ votes' = [votes EXCEPT ![q][a] = ballot]
      /\ voters' = [voters EXCEPT ![q] = Append(@, a)]
      /\ votes[q][a] = None
      /\ Len(voters[q]) < MAX_VOTES_PER_PROPOSAL
  BY DEF Vote
<1>2. ballot # None
  <2>1. ballot \in Ballot
    BY DEF Ballot
  <2>2. QED  BY <2>1, ConstantsAssumption
<1> HIDE DEF ballot
<1>3. CASE p = q
  <2>1. voters'[p] = Append(voters[p], a) /\ voters[p] \in Seq(Account)
    BY <1>1, <1>3 DEF TypeOK
  <2>2. a \notin ToSet(voters[p]) /\ IsInjective(voters[p])
    BY <1>1, <1>3 DEF VotersMatchVotes
  <2>3. {b \in Account : votes'[p][b] # None} = {b \in Account : votes[p][b] # None} \cup {a}
    BY <1>1, <1>2, <1>3 DEF TypeOK
  <2>4. /\ IsInjective(voters'[p]) /\ ToSet(voters'[p]) = ToSet(voters[p]) \cup {a}
        /\ Len(voters'[p]) = Len(voters[p]) + 1
    <3> DEFINE s == voters[p]
    <3> HIDE DEF s
    <3>1. s \in Seq(Account) /\ a \notin ToSet(s) /\ IsInjective(s)
      BY <2>1, <2>2 DEF s
    <3>2. /\ IsInjective(Append(s, a)) /\ ToSet(Append(s, a)) = ToSet(s) \cup {a}
          /\ Len(Append(s, a)) = Len(s) + 1
      BY <3>1, AppendNew
    <3>3. QED  BY <2>1, <3>2 DEF s
  <2>5. Len(voters'[p]) <= MAX_VOTES_PER_PROPOSAL
    <3>1. Len(voters[p]) \in Nat /\ Len(voters[p]) < MAX_VOTES_PER_PROPOSAL
      BY <1>1, <1>3, <2>1
    <3>2. Len(voters'[p]) = Len(voters[p]) + 1
      BY <2>4
    <3>3. QED  BY <3>1, <3>2, Constants
  <2>6. QED  BY <2>3, <2>4, <2>5 DEF VotersAt, VotersMatchVotes
<1>4. CASE p # q
  <2>1. voters'[p] = voters[p] /\ votes'[p] = votes[p]
    BY <1>1, <1>4 DEF TypeOK
  <2>2. QED  BY <2>1 DEF VotersAt, VotersMatchVotes
<1>5. QED  BY <1>3, <1>4

LEMMA RemoveVoters ==
  ASSUME TypeOK, VotersMatchVotes, NEW m \in Account, NEW q \in Pid, NEW a \in Account,
         RemoveVote(m, q, a), NEW p \in Pid
  PROVE  VotersAt(p)'
<1>1. /\ votes' = [votes EXCEPT ![q][a] = None]
      /\ voters' = [voters EXCEPT ![q] = RemainingVoters(q, a)]
      /\ votes[q][a] # None
  BY DEF RemoveVote
<1>2. CASE p = q
  <2>1. voters'[p] = RemainingVoters(p, a)
    BY <1>1, <1>2 DEF TypeOK
  <2>2. {b \in Account : votes'[p][b] # None} = {b \in Account : votes[p][b] # None} \ {a}
    BY <1>1, <1>2 DEF TypeOK
  <2>3. /\ IsInjective(voters'[p]) /\ ToSet(voters'[p]) = ToSet(voters[p]) \ {a}
        /\ Len(voters'[p]) <= Len(voters[p]) /\ Len(voters'[p]) \in Nat
    BY <2>1, RemainingVotersProperties
  <2>4. Len(voters'[p]) <= MAX_VOTES_PER_PROPOSAL \/ Len(voters'[p]) = 1
    <3>1. Len(voters[p]) \in Nat
      BY DEF TypeOK
    <3>2. Len(voters[p]) <= MAX_VOTES_PER_PROPOSAL \/ Len(voters[p]) = 1
      BY DEF VotersMatchVotes
    <3>3. Len(voters'[p]) <= Len(voters[p]) /\ Len(voters'[p]) \in Nat
      BY <2>3
    <3>4. \A m1, n1, l \in Nat : m1 <= n1 /\ (n1 <= l \/ n1 = 1) => m1 <= l \/ m1 = 1
      OBVIOUS
    <3>5. QED  BY <3>1, <3>2, <3>3, <3>4, Constants
  <2>5. QED  BY <2>2, <2>3, <2>4 DEF VotersAt, VotersMatchVotes
<1>3. CASE p # q
  <2>1. voters'[p] = voters[p] /\ votes'[p] = votes[p]
    BY <1>1, <1>3 DEF TypeOK
  <2>2. QED  BY <2>1 DEF VotersAt, VotersMatchVotes
<1>4. QED  BY <1>2, <1>3

LEMMA VotersStep ==
  ASSUME TypeOK, BookConsistent, VotersMatchVotes, [Next]_vars
  PROVE  VotersMatchVotes'
<1> SUFFICES ASSUME NEW p \in Pid PROVE VotersAt(p)'
  BY DEF VotersMatchVotes, VotersAt
<1>1. CASE Creates
  BY <1>1, CreateVoters DEF Creates
<1>2. CASE Votes
  BY <1>2, VoteVoters, ConstantsAssumption DEF Votes
<1>3. CASE Removes
  BY <1>3, RemoveVoters DEF Removes
<1>4. CASE UNCHANGED <<total, proposal, votes, voters, tallies>>
  BY <1>4 DEF VotersMatchVotes, VotersAt
<1>5. QED  BY <1>1, <1>2, <1>3, <1>4, BallotCalls

-----------------------------------------------------------------------------
(* The tallies. *)

LEMMA BallotWeightType ==
  ASSUME TypeOK, NEW p \in Pid, NEW c
  PROVE  BallotWeight(p, c) \in [Account -> Nat]
BY DEF BallotWeight, TypeOK, Ballot

TallyAt(p, c) == tallies[p][c] = WeightFor(p, c)

LEMMA TallyFrame ==
  ASSUME TypeOK, TalliesMatchVotes, NEW p \in Pid, NEW c \in Choice,
         votes'[p] = votes[p], tallies'[p] = tallies[p]
  PROVE  TallyAt(p, c)'
<1>1. \A a \in Account : BallotWeight(p, c)'[a] = BallotWeight(p, c)[a]
  BY DEF BallotWeight
<1>2. WeightFor(p, c)' = WeightFor(p, c)
  <2> DEFINE f == BallotWeight(p, c)
             g == BallotWeight(p, c)'
  <2> HIDE DEF f, g
  <2>1. Total(g, Account) = Total(f, Account)
    BY <1>1, TotalSame DEF f, g
  <2>2. QED  BY <2>1 DEF WeightFor, f, g
<1>3. QED  BY <1>2 DEF TallyAt, TalliesMatchVotes

LEMMA CreateTallies ==
  ASSUME TypeOK, BookConsistent, TalliesMatchVotes, NEW a \in Account, NEW k \in Project,
         NEW ends \in Nat, NEW public \in BOOLEAN, NEW token \in Asset \cup {None},
         NEW outcomes \in SUBSET Decision,
         CreateProposal(a, k, ends, public, token, outcomes), NEW p \in Pid, NEW c \in Choice
  PROVE  TallyAt(p, c)'
<1> DEFINE n == NextId(k)
           abstention == [choice |-> "Abstain", weight |-> 0]
<1>1. n \in Pid /\ ~Created(n)
  BY NewProposal DEF CreateProposal
<1>2. /\ votes' = [votes EXCEPT ![n][a] = abstention]
      /\ tallies' = [tallies EXCEPT ![n] = Zero]
  BY DEF CreateProposal
<1>3. abstention.weight = 0
  OBVIOUS
<1> HIDE DEF n, abstention
<1>4. CASE p = n
  <2>1. \A b \in Account : votes[n][b] = None
    BY <1>1 DEF BookConsistent
  <2>2. \A b \in Account : votes'[p][b] = None \/ votes'[p][b] = abstention
    BY <1>1, <1>2, <1>4, <2>1 DEF TypeOK
  <2>3. \A b \in Account : BallotWeight(p, c)'[b] = 0
    BY <1>3, <2>2 DEF BallotWeight
  <2> DEFINE g == BallotWeight(p, c)'
  <2> HIDE DEF g
  <2>4. Total(g, Account) = 0
    BY <2>3, TotalZero DEF g
  <2>5. tallies'[p][c] = 0
    BY <1>1, <1>2, <1>4 DEF TypeOK, Zero
  <2>6. QED  BY <2>4, <2>5 DEF TallyAt, WeightFor, g
<1>5. CASE p # n
  <2>1. votes'[p] = votes[p] /\ tallies'[p] = tallies[p]
    BY <1>1, <1>2, <1>5 DEF TypeOK
  <2>2. QED  BY <2>1, TallyFrame
<1>6. QED  BY <1>4, <1>5

\* A change to the ballot of one account.
LEMMA BallotUpdate ==
  ASSUME TypeOK, TypeOK', NEW p \in Pid, NEW c \in Choice, NEW a \in Account,
         \A b \in Account \ {a} : votes'[p][b] = votes[p][b]
  PROVE  /\ BallotWeight(p, c)[a] \in Nat /\ BallotWeight(p, c)'[a] \in Nat
         /\ WeightFor(p, c) \in Nat /\ BallotWeight(p, c)[a] <= WeightFor(p, c)
         /\ WeightFor(p, c)'
              = WeightFor(p, c) - BallotWeight(p, c)[a] + BallotWeight(p, c)'[a]
<1> DEFINE f == BallotWeight(p, c)
           g == BallotWeight(p, c)'
<1>1. f \in [Account -> Nat]
  BY BallotWeightType
<1>2. g \in [Account -> Nat]
  BY DEF BallotWeight, TypeOK, Ballot
<1>3. \A b \in Account \ {a} : g[b] = f[b]
  BY DEF BallotWeight
<1>4. IsFiniteSet(Account)
  BY ConstantsAssumption
<1> HIDE DEF f, g
<1>5. Total(g, Account) = Total(f, Account) - f[a] + g[a]
  BY <1>1, <1>2, <1>3, <1>4, TotalUpdate
<1>6. Total(f, Account) \in Nat /\ f[a] <= Total(f, Account)
  BY <1>1, <1>4, TotalType, TotalBounds
<1>7. f[a] \in Nat /\ g[a] \in Nat
  BY <1>1, <1>2
<1>8. QED  BY <1>5, <1>6, <1>7 DEF WeightFor, f, g

LEMMA VoteTallies ==
  ASSUME TypeOK, TypeOK', TalliesMatchVotes, NEW a \in Account, NEW q \in Pid,
         NEW d \in Choice, NEW w \in Nat, Vote(a, q, d, w), NEW p \in Pid, NEW c \in Choice
  PROVE  TallyAt(p, c)'
<1> DEFINE ballot == [choice |-> d, weight |-> w]
<1>1. /\ votes' = [votes EXCEPT ![q][a] = ballot]
      /\ tallies' = [tallies EXCEPT ![q] = TallyWith(q, ballot)]
      /\ votes[q][a] = None
  BY DEF Vote
<1>2. ballot # None /\ ballot.choice = d /\ ballot.weight = w
  <2>1. ballot \in Ballot
    BY DEF Ballot
  <2>2. QED  BY <2>1, ConstantsAssumption
<1> HIDE DEF ballot
<1>3. CASE p = q
  <2>1. votes'[p][a] = ballot /\ \A b \in Account \ {a} : votes'[p][b] = votes[p][b]
    BY <1>1, <1>3 DEF TypeOK
  <2>2. /\ BallotWeight(p, c)[a] = 0
        /\ BallotWeight(p, c)'[a] = IF c = d THEN w ELSE 0
    BY <1>1, <1>2, <1>3, <2>1 DEF BallotWeight
  <2>3. /\ WeightFor(p, c) \in Nat
        /\ WeightFor(p, c)'
             = WeightFor(p, c) - BallotWeight(p, c)[a] + BallotWeight(p, c)'[a]
    BY <2>1, BallotUpdate
  <2>4. WeightFor(p, c)' = WeightFor(p, c) + (IF c = d THEN w ELSE 0)
    BY <2>2, <2>3
  <2>5. tallies'[p] = [tallies[p] EXCEPT ![d] = @ + w]
    BY <1>1, <1>2, <1>3 DEF TypeOK, TallyWith
  <2>6. tallies[p] \in [Choice -> Int] /\ tallies[p][c] = WeightFor(p, c)
    BY DEF TypeOK, TalliesMatchVotes
  <2>7. tallies'[p][c] = WeightFor(p, c) + (IF c = d THEN w ELSE 0)
    BY <2>3, <2>5, <2>6
  <2>8. QED  BY <2>4, <2>7 DEF TallyAt
<1>4. CASE p # q
  <2>1. votes'[p] = votes[p] /\ tallies'[p] = tallies[p]
    BY <1>1, <1>4 DEF TypeOK
  <2>2. QED  BY <2>1, TallyFrame
<1>5. QED  BY <1>3, <1>4

\* A tally is never smaller than a ballot it contains: the saturating
\* subtraction subtracts.
LEMMA RemoveTallies ==
  ASSUME TypeOK, TypeOK', TalliesMatchVotes, NEW m \in Account, NEW q \in Pid,
         NEW a \in Account, RemoveVote(m, q, a), NEW p \in Pid, NEW c \in Choice
  PROVE  TallyAt(p, c)'
<1> DEFINE ballot == votes[q][a]
           d == ballot.choice
           w == ballot.weight
<1>1. /\ votes' = [votes EXCEPT ![q][a] = None]
      /\ tallies' = [tallies EXCEPT ![q] = TallyWithout(q, ballot)]
      /\ ballot # None
  BY DEF RemoveVote
<1>2. d \in Choice /\ w \in Nat
  <2>1. ballot \in Ballot
    BY <1>1 DEF TypeOK
  <2>2. QED  BY <2>1 DEF Ballot
<1>3. CASE p = q
  <2>1. votes'[p][a] = None /\ \A b \in Account \ {a} : votes'[p][b] = votes[p][b]
    BY <1>1, <1>3 DEF TypeOK
  <2>2. /\ \A e \in Choice : BallotWeight(p, e)[a] = IF e = d THEN w ELSE 0
        /\ BallotWeight(p, c)'[a] = 0
    BY <1>1, <1>3, <2>1 DEF BallotWeight
  <2>3. /\ WeightFor(p, c) \in Nat
        /\ BallotWeight(p, c)[a] <= WeightFor(p, c)
        /\ WeightFor(p, c)'
             = WeightFor(p, c) - BallotWeight(p, c)[a] + BallotWeight(p, c)'[a]
    BY <2>1, BallotUpdate
  <2>4. WeightFor(p, c)' = WeightFor(p, c) - (IF c = d THEN w ELSE 0)
    BY <1>2, <2>2, <2>3
  <2>5. c = d => w <= WeightFor(p, c)
    BY <2>2, <2>3
  <2>6. tallies[p] \in [Choice -> Int] /\ tallies[p][c] = WeightFor(p, c)
    BY DEF TypeOK, TalliesMatchVotes
  <2>7. tallies'[p] = TallyWithout(p, ballot)
    BY <1>1, <1>3 DEF TypeOK
  <2> HIDE DEF ballot
  <2>8. tallies'[p][c] = IF c = d
                         THEN (IF proposal[p].public_voting
                               THEN SaturatingSub(tallies[p][c], w) ELSE tallies[p][c] - w)
                         ELSE tallies[p][c]
    BY <1>2, <2>6, <2>7 DEF TallyWithout
  <2>9. c = d => SaturatingSub(tallies[p][c], w) = tallies[p][c] - w
    BY <1>2, <2>3, <2>5, <2>6 DEF SaturatingSub
  <2>10. tallies'[p][c] = WeightFor(p, c) - (IF c = d THEN w ELSE 0)
    BY <2>3, <2>6, <2>8, <2>9
  <2>11. QED  BY <2>4, <2>10 DEF TallyAt
<1>4. CASE p # q
  <2>1. votes'[p] = votes[p] /\ tallies'[p] = tallies[p]
    BY <1>1, <1>4 DEF TypeOK
  <2>2. QED  BY <2>1, TallyFrame
<1>5. QED  BY <1>3, <1>4

LEMMA TalliesStep ==
  ASSUME TypeOK, TypeOK', BookConsistent, TalliesMatchVotes, [Next]_vars
  PROVE  TalliesMatchVotes'
<1> SUFFICES ASSUME NEW p \in Pid, NEW c \in Choice PROVE TallyAt(p, c)'
  BY DEF TalliesMatchVotes, TallyAt
<1>1. CASE Creates
  BY <1>1, CreateTallies DEF Creates
<1>2. CASE Votes
  BY <1>2, VoteTallies, ConstantsAssumption DEF Votes
<1>3. CASE Removes
  BY <1>3, RemoveTallies DEF Removes
<1>4. CASE UNCHANGED <<total, proposal, votes, voters, tallies>>
  BY <1>4, TallyFrame
<1>5. QED  BY <1>1, <1>2, <1>3, <1>4, BallotCalls

-----------------------------------------------------------------------------
(* The theorems. *)

LEMMA InitInv ==
  ASSUME Init
  PROVE  Inv
<1>1. ASSUME NEW p \in Pid
      PROVE  BookAt(p) /\ VotersAt(p) /\ \A c \in Choice : TallyAt(p, c)
  <2>1. ~Created(p)
    BY DEF Init, Created, Pid
  <2>2. /\ votes[p] = [a \in Account |-> None] /\ voters[p] = <<>>
        /\ status[p] = "Absent" /\ proposal[p] = None
        /\ conflicts[p] = {} /\ invoked[p] = <<>> /\ tallies[p] = Zero
    BY DEF Init
  <2>3. BookAt(p)
    BY <2>1, <2>2 DEF BookAt
  <2>4. VotersAt(p)
    <3>1. DOMAIN voters[p] = {} /\ Len(voters[p]) = 0
      BY <2>2
    <3>2. 0 <= MAX_VOTES_PER_PROPOSAL
      BY Constants
    <3>3. QED  BY <2>2, <3>1, <3>2 DEF VotersAt, IsInjective, ToSet
  <2>5. ASSUME NEW c \in Choice
        PROVE  TallyAt(p, c)
    <3> DEFINE f == BallotWeight(p, c)
    <3>1. \A a \in Account : f[a] = 0
      BY <2>2 DEF BallotWeight
    <3> HIDE DEF f
    <3>2. Total(f, Account) = 0
      BY <3>1, TotalZero
    <3>3. QED  BY <2>2, <3>2 DEF TallyAt, WeightFor, Zero, f
  <2>6. QED  BY <2>3, <2>4, <2>5
<1>2. TypeOK
  <2>1. Zero \in [Choice -> Int] /\ 0 \in 0 .. Capacity
    BY Constants DEF Zero
  <2>2. /\ now \in Nat /\ paused \in BOOLEAN /\ collateral \in Asset \cup {None}
        /\ votingConfig \subseteq Project /\ maxWeight \in [Project -> [Account -> Nat]]
        /\ total \in [Project -> 0 .. Capacity]
    BY <2>1, ConstantsAssumption DEF Init
  <2>3. /\ proposal \in [Pid -> Proposal \cup {None}] /\ status \in [Pid -> Status]
        /\ votes \in [Pid -> [Account -> Ballot \cup {None}]]
    BY DEF Init, Status
  <2>4. /\ voters \in [Pid -> Seq(Account)] /\ tallies \in [Pid -> [Choice -> Int]]
        /\ conflicts \in [Pid -> SUBSET Account] /\ invoked \in [Pid -> Seq(Decision)]
    BY <2>1 DEF Init
  <2>5. wallet \in [Asset -> [Account -> Nat]] /\ vault \in [Asset -> Nat]
        /\ slashed \in [Asset -> [Account -> Nat]]
    BY ConstantsAssumption DEF Init
  <2>6. QED  BY <2>2, <2>3, <2>4, <2>5 DEF TypeOK
<1>3. QED  BY <1>1, <1>2 DEF Inv, BookConsistent, BookAt, VotersMatchVotes, VotersAt,
                             TalliesMatchVotes, TallyAt

LEMMA StepInv ==
  ASSUME Inv, [Next]_vars
  PROVE  Inv'
<1>1. TypeOK'
  BY TypeStep DEF Inv
<1>2. QED  BY <1>1, BookStep, VotersStep, TalliesStep DEF Inv

\* The invariant of every behaviour of the contract.
THEOREM Invariance == Spec => []Inv
<1>1. Init => Inv
  BY InitInv
<1>2. Inv /\ [Next]_vars => Inv'
  BY StepInv
<1>3. QED  BY <1>1, <1>2, PTL DEF Spec

\* Every stored value has the type of its storage key: in particular no
\* transfer and no settlement drives a balance below zero, and a project's
\* proposals never outgrow its pages.
THEOREM TypeCorrect == Spec => []TypeOK
<1>1. Inv => TypeOK
  BY DEF Inv
<1>2. QED  BY <1>1, Invariance, PTL

\* Proposals are stored without a gap, and what does not exist has no state.
THEOREM BookIsConsistent == Spec => []BookConsistent
<1>1. Inv => BookConsistent
  BY DEF Inv
<1>2. QED  BY <1>1, Invariance, PTL

\* The list of voters that execute repays names each stored vote once.
THEOREM EveryVoteListedOnce == Spec => []VotersMatchVotes
<1>1. Inv => VotersMatchVotes
  BY DEF Inv
<1>2. QED  BY <1>1, Invariance, PTL

\* The running tallies are the sums of the stored ballots, however often
\* votes are struck and cast again.
THEOREM TalliesAreExact == Spec => []TalliesMatchVotes
<1>1. Inv => TalliesMatchVotes
  BY DEF Inv
<1>2. QED  BY <1>1, Invariance, PTL

-----------------------------------------------------------------------------
(***************************************************************************)
(* Decisions.                                                              *)
(***************************************************************************)
-----------------------------------------------------------------------------
(* The life of one proposal. *)

\* Once a proposal is not active any more, no call touches what belongs to it.
LEMMA SettledFrame ==
  ASSUME Inv, [Next]_vars, NEW p \in Pid, status[p] \notin {"Absent", "Active"}
  PROVE  /\ status'[p] = status[p] /\ proposal'[p] = proposal[p]
         /\ votes'[p] = votes[p] /\ voters'[p] = voters[p] /\ tallies'[p] = tallies[p]
         /\ conflicts'[p] = conflicts[p] /\ invoked'[p] = invoked[p]
<1>1. CASE UNCHANGED vars
  BY <1>1 DEF vars, book, ballots
<1>2. CASE Configures
  BY <1>2, ConfiguresFrame DEF book, ballots
<1>3. CASE Creates
  <2>1. PICK a \in Account, k \in Project, ends \in Nat, public \in BOOLEAN,
             token \in Asset \cup {None}, outcomes \in SUBSET Decision :
               CreateProposal(a, k, ends, public, token, outcomes)
    BY <1>3 DEF Creates
  <2>2. NextId(k) # p
    BY <2>1, NewProposal DEF Inv, CreateProposal
  <2>3. QED  BY <2>1, <2>2 DEF CreateProposal, Inv, TypeOK
<1>4. CASE Votes
  BY <1>4 DEF Votes, Vote, IsActive, book, Inv, TypeOK
<1>5. CASE Removes
  BY <1>5 DEF Removes, RemoveVote, IsActive, book, Inv, TypeOK
<1>6. CASE Settles
  BY <1>6 DEF Settles, Execute, IsActive, book, ballots, Inv, TypeOK
<1>7. CASE Revokes
  BY <1>7 DEF Revokes, RevokeProposal, IsActive, book, ballots, Inv, TypeOK
<1>8. CASE Conflicts
  BY <1>8 DEF Conflicts, AddConflictOfInterest, RemoveConflictOfInterest, IsActive,
              book, ballots, Inv, TypeOK
<1>9. QED  BY <1>1, <1>2, <1>3, <1>4, <1>5, <1>6, <1>7, <1>8, StepCases

\* A step leaves a proposal's status alone, or opens or revokes it, or settles it.
LEMMA Lifecycle ==
  ASSUME Inv, [Next]_vars, NEW p \in Pid
  PROVE  \/ status'[p] = status[p] /\ invoked'[p] = invoked[p]
         \/ /\ status[p] \in {"Absent", "Active"} /\ status'[p] \in {"Active", "Malicious"}
            /\ invoked'[p] = invoked[p]
         \/ \E m \in Account, claim \in Claim \cup {None} : Execute(m, p, claim)
<1>1. CASE UNCHANGED <<status, invoked>>
  BY <1>1
<1>2. CASE UNCHANGED vars \/ Votes \/ Removes \/ Conflicts
  <2>1. CASE UNCHANGED vars
    BY <2>1 DEF vars
  <2>2. CASE Votes
    BY <2>2 DEF Votes, Vote
  <2>3. CASE Removes
    BY <2>3 DEF Removes, RemoveVote
  <2>4. CASE Conflicts
    BY <2>4 DEF Conflicts, AddConflictOfInterest, RemoveConflictOfInterest
  <2>5. QED  BY <1>2, <2>1, <2>2, <2>3, <2>4
<1>3. CASE Configures
  BY <1>3, ConfiguresFrame
<1>4. CASE Creates
  <2>1. PICK a \in Account, k \in Project, ends \in Nat, public \in BOOLEAN,
             token \in Asset \cup {None}, outcomes \in SUBSET Decision :
               CreateProposal(a, k, ends, public, token, outcomes)
    BY <1>4 DEF Creates
  <2>2. status[NextId(k)] = "Absent"
    BY <2>1, NewProposal DEF Inv, CreateProposal
  <2>3. QED  BY <2>1, <2>2 DEF CreateProposal, Inv, TypeOK
<1>5. CASE Settles
  <2>1. PICK m \in Account, q \in Pid, claim \in Claim \cup {None} : Execute(m, q, claim)
    BY <1>5 DEF Settles
  <2>2. CASE q = p
    BY <2>1, <2>2
  <2>3. CASE q # p
    <3>1. status'[p] = status[p]
      BY <2>1, <2>3 DEF Execute, Inv, TypeOK
    <3>2. invoked'[p] = invoked[p]
      BY <2>1, <2>3 DEF Execute, Inv, TypeOK
    <3>3. QED  BY <3>1, <3>2
  <2>4. QED  BY <2>2, <2>3
<1>6. CASE Revokes
  <2>1. PICK a \in Account, q \in Pid : RevokeProposal(a, q)
    BY <1>6 DEF Revokes
  <2>2. /\ status' = [status EXCEPT ![q] = "Malicious"] /\ status[q] = "Active"
        /\ invoked' = invoked
    BY <2>1 DEF RevokeProposal, IsActive
  <2>3. QED  BY <2>2 DEF Inv, TypeOK
<1>7. QED  BY <1>2, <1>3, <1>4, <1>5, <1>6, StepCases

\* A proposal that was decided or revoked stays as it is, whoever calls what.
THEOREM DecisionsAreFinal == Spec => DecidedForGood
<1>1. Inv /\ [Next]_vars =>
        [\A p \in Pid :
           status[p] \notin {"Absent", "Active"} =>
             /\ status'[p] = status[p] /\ proposal'[p] = proposal[p]
             /\ votes'[p] = votes[p] /\ voters'[p] = voters[p]
             /\ tallies'[p] = tallies[p] /\ conflicts'[p] = conflicts[p]]_vars
  BY SettledFrame
<1>2. QED  BY <1>1, Invariance, PTL DEF Spec, DecidedForGood

\* After the deadline of a proposal its ballots are only struck.
THEOREM ReviewPeriodHolds == Spec => ClosedBallotOnlyShrinks
<1>1. ASSUME Inv, [Next]_vars, NEW p \in Pid, NEW a \in Account,
             Created(p), now >= proposal[p].voting_ends_at
      PROVE  votes'[p][a] \in {votes[p][a], None}
  <2>1. CASE UNCHANGED votes
    BY <2>1
  <2>2. CASE Creates
    <3>1. PICK b \in Account, k \in Project, ends \in Nat, public \in BOOLEAN,
               token \in Asset \cup {None}, outcomes \in SUBSET Decision :
                 CreateProposal(b, k, ends, public, token, outcomes)
      BY <2>2 DEF Creates
    <3>2. NextId(k) # p
      BY <1>1, <3>1, NewProposal DEF Inv, CreateProposal
    <3>3. QED  BY <3>1, <3>2 DEF CreateProposal, Inv, TypeOK
  <2>3. CASE Votes
    <3>1. PICK b \in Account, q \in Pid, c \in Choice, w \in Weights : Vote(b, q, c, w)
      BY <2>3 DEF Votes
    <3>2. q # p
      <4>1. proposal[p] \in Proposal /\ now \in Nat
        BY <1>1, ConstantsAssumption DEF Inv, TypeOK, BookConsistent
      <4>2. proposal[p].voting_ends_at \in Nat
        BY <4>1 DEF Proposal
      <4>3. ~(now < proposal[p].voting_ends_at)
        BY <1>1, <4>1, <4>2
      <4>4. QED  BY <3>1, <4>3 DEF Vote, VotingOpen
    <3>3. QED  BY <1>1, <3>1, <3>2 DEF Vote, Inv, TypeOK
  <2>4. CASE Removes
    BY <1>1, <2>4 DEF Removes, RemoveVote, Inv, TypeOK
  <2>5. QED  BY <1>1, <2>1, <2>2, <2>3, <2>4, BallotCalls
<1>2. Inv /\ [Next]_vars =>
        [\A p \in Pid, a \in Account :
           Created(p) /\ now >= proposal[p].voting_ends_at =>
             votes'[p][a] \in {votes[p][a], None}]_vars
  BY <1>1
<1>3. QED  BY <1>2, Invariance, PTL DEF Spec, ClosedBallotOnlyShrinks

-----------------------------------------------------------------------------
(* What decides. *)

LEMMA WeightType ==
  ASSUME TypeOK, NEW p \in Pid, NEW c \in Choice
  PROVE  WeightFor(p, c) \in Nat
BY BallotWeightType, TotalType, ConstantsAssumption DEF WeightFor

\* The total over the three choices, written out.
LEMMA ChoiceTotal ==
  ASSUME NEW f \in [Choice -> Nat]
  PROVE  Total(f, Choice) = f["Approve"] + f["Reject"] + f["Abstain"]
<1> DEFINE two == {"Reject", "Abstain"}
           one == {"Abstain"}
           g   == [c \in two |-> f[c]]
           h   == [c \in one |-> f[c]]
<1>1. /\ IsFiniteSet(one) /\ IsFiniteSet(two) /\ IsFiniteSet(Choice)
      /\ Choice \ {"Approve"} = two /\ two \ {"Reject"} = one /\ one \ {"Abstain"} = {}
  <2>1. IsFiniteSet({}) /\ one = {} \cup {"Abstain"} /\ two = one \cup {"Reject"}
        /\ Choice = two \cup {"Approve"}
    BY FS_EmptySet DEF Choice
  <2>2. IsFiniteSet(one)
    BY <2>1, FS_Singleton
  <2>3. IsFiniteSet(two)
    <3> HIDE DEF one, two
    <3>1. QED  BY <2>1, <2>2, FS_AddElement
  <2>4. IsFiniteSet(Choice)
    <3> HIDE DEF one, two
    <3>1. QED  BY <2>1, <2>3, FS_AddElement
  <2>5. QED  BY <2>2, <2>3, <2>4 DEF Choice
<1>2. f["Approve"] \in Nat /\ f["Reject"] \in Nat /\ f["Abstain"] \in Nat
  BY DEF Choice
<1>3. g \in [two -> Nat] /\ h \in [one -> Nat]
  BY <1>2
<1>4. Total(f, two) = Total(g, two) /\ Total(g, one) = Total(h, one)
  <2>1. (\A c \in two : g[c] = f[c]) /\ (\A c \in one : h[c] = g[c])
    OBVIOUS
  <2>2. QED
    <3> HIDE DEF one, two, g, h
    <3>1. QED  BY <2>1, TotalSame
<1>5. Total(h, {}) = 0
  BY TotalZero
<1>6. /\ "Approve" \in Choice /\ "Reject" \in two /\ "Abstain" \in one
      /\ g["Reject"] = f["Reject"] /\ h["Abstain"] = f["Abstain"]
  BY DEF Choice
<1> HIDE DEF one, two, g, h
<1>7. Total(f, Choice) = Total(f, two) + f["Approve"]
  BY <1>1, <1>6, TotalSplit
<1>8. Total(g, two) = Total(g, one) + f["Reject"]
  BY <1>1, <1>3, <1>6, TotalSplit
<1>9. Total(h, one) = 0 + f["Abstain"]
  BY <1>1, <1>3, <1>5, <1>6, TotalSplit
<1>10. QED  BY <1>2, <1>4, <1>7, <1>8, <1>9

\* What execute decides on are the totals of the stored ballots: the tally
\* it reads is exact, and the only opening it accepts names that tally.
LEMMA Settlement ==
  ASSUME Inv, NEW p \in Pid, NEW m \in Account, NEW claim \in Claim \cup {None},
         Execute(m, p, claim)
  PROVE  /\ status'[p] = tallies_to_result(tallies[p])
         /\ status' = [status EXCEPT ![p] = tallies_to_result(tallies[p])]
         /\ invoked' = IF tallies_to_result(tallies[p]) \in proposal[p].outcome_contracts
                       THEN [invoked EXCEPT ![p] = Append(@, tallies_to_result(tallies[p]))]
                       ELSE invoked
         /\ votes' = votes /\ proposal' = proposal /\ status[p] = "Active"
<1>1. ProvenTally(p, claim) = tallies[p]
  BY DEF Execute, ProvenTally, ProofAccepted
<1>2. QED  BY <1>1 DEF Execute, IsActive, Inv, TypeOK, book, ballots

LEMMA ResultIsDecision == \A t : tallies_to_result(t) \in Decision
BY DEF tallies_to_result, Decision

\* Instances of the two invariants below for one proposal.
ReflectsAt(p) ==
  /\ status[p] = "Approved" => Majority(p, "Approve")
  /\ status[p] = "Rejected" => Majority(p, "Reject")
  /\ status[p] = "Cancelled" => ~Majority(p, "Approve") /\ ~Majority(p, "Reject")

CalledAt(p) ==
  invoked[p] = IF status[p] \in Decision /\ status[p] \in proposal[p].outcome_contracts
               THEN <<status[p]>> ELSE <<>>

LEMMA VerdictReflects ==
  ASSUME Inv, NEW p \in Pid
  PROVE  LET v == tallies_to_result(tallies[p]) IN
         /\ v = "Approved" => Majority(p, "Approve")
         /\ v = "Rejected" => Majority(p, "Reject")
         /\ v = "Cancelled" => ~Majority(p, "Approve") /\ ~Majority(p, "Reject")
<1> DEFINE W == [c \in Choice |-> WeightFor(p, c)]
<1>1. W \in [Choice -> Nat]
  BY WeightType DEF Inv
<1>2. /\ tallies[p]["Approve"] = W["Approve"] /\ tallies[p]["Reject"] = W["Reject"]
      /\ tallies[p]["Abstain"] = W["Abstain"]
      /\ WeightFor(p, "Approve") = W["Approve"] /\ WeightFor(p, "Reject") = W["Reject"]
  BY DEF Inv, TalliesMatchVotes, Choice
<1>3. \A c : Majority(p, c) <=> 2 * WeightFor(p, c) > Total(W, Choice)
  BY DEF Majority
<1> HIDE DEF W
<1>4. Total(W, Choice) = W["Approve"] + W["Reject"] + W["Abstain"]
  BY <1>1, ChoiceTotal
<1>5. W["Approve"] \in Nat /\ W["Reject"] \in Nat /\ W["Abstain"] \in Nat
  BY <1>1 DEF Choice
<1>6. QED  BY <1>2, <1>3, <1>4, <1>5 DEF tallies_to_result

LEMMA SameMajority ==
  ASSUME NEW p \in Pid, NEW c, votes'[p] = votes[p]
  PROVE  Majority(p, c)' <=> Majority(p, c)
<1>1. \A d : BallotWeight(p, d)' = BallotWeight(p, d)
  BY DEF BallotWeight
<1>2. \A d : WeightFor(p, d)' = WeightFor(p, d)
  BY <1>1 DEF WeightFor
<1>3. QED  BY <1>2 DEF Majority

LEMMA OutcomeStep ==
  ASSUME Inv, OutcomeReflectsVotes, OutcomeCalledOnce, [Next]_vars
  PROVE  OutcomeReflectsVotes' /\ OutcomeCalledOnce'
<1> SUFFICES ASSUME NEW p \in Pid PROVE ReflectsAt(p)' /\ CalledAt(p)'
  BY DEF OutcomeReflectsVotes, OutcomeCalledOnce, ReflectsAt, CalledAt
<1>1. ReflectsAt(p) /\ CalledAt(p)
  BY DEF OutcomeReflectsVotes, OutcomeCalledOnce, ReflectsAt, CalledAt
<1>2. CASE status[p] \notin {"Absent", "Active"}
  <2>1. /\ status'[p] = status[p] /\ proposal'[p] = proposal[p]
        /\ votes'[p] = votes[p] /\ invoked'[p] = invoked[p]
    BY <1>2, SettledFrame
  <2>2. QED  BY <1>1, <2>1, SameMajority DEF ReflectsAt, CalledAt
<1>3. CASE /\ status[p] \in {"Absent", "Active"}
           /\ status'[p] \in {"Absent", "Active", "Malicious"}
           /\ invoked'[p] = invoked[p]
  BY <1>1, <1>3 DEF ReflectsAt, CalledAt, Decision
<1>4. CASE \E m \in Account, claim \in Claim \cup {None} : Execute(m, p, claim)
  <2>1. PICK m \in Account, claim \in Claim \cup {None} : Execute(m, p, claim)
    BY <1>4
  <2> DEFINE v == tallies_to_result(tallies[p])
  <2>2. /\ status'[p] = v /\ votes' = votes /\ proposal' = proposal /\ status[p] = "Active"
        /\ invoked' = IF v \in proposal[p].outcome_contracts
                      THEN [invoked EXCEPT ![p] = Append(invoked[p], v)] ELSE invoked
    BY <2>1, Settlement
  <2>3. /\ v = "Approved" => Majority(p, "Approve")
        /\ v = "Rejected" => Majority(p, "Reject")
        /\ v = "Cancelled" => ~Majority(p, "Approve") /\ ~Majority(p, "Reject")
    BY VerdictReflects
  <2>4. v \in Decision
    BY ResultIsDecision
  <2> HIDE DEF v
  <2>5. ReflectsAt(p)'
    BY <2>2, <2>3, SameMajority DEF ReflectsAt
  <2>6. invoked[p] = <<>>
    BY <1>1, <2>2 DEF CalledAt, Decision
  <2>7. invoked'[p] = IF v \in proposal[p].outcome_contracts THEN <<v>> ELSE <<>>
    BY <2>2, <2>6 DEF Inv, TypeOK
  <2>8. CalledAt(p)'
    BY <2>2, <2>4, <2>7 DEF CalledAt
  <2>9. QED  BY <2>5, <2>8
<1>5. QED  BY <1>2, <1>3, <1>4, Lifecycle

LEMMA OutcomeInit ==
  ASSUME Init
  PROVE  OutcomeReflectsVotes /\ OutcomeCalledOnce
BY DEF Init, OutcomeReflectsVotes, OutcomeCalledOnce, Decision

LEMMA OutcomeInvariance == Spec => [](OutcomeReflectsVotes /\ OutcomeCalledOnce)
<1>1. Init => OutcomeReflectsVotes /\ OutcomeCalledOnce
  BY OutcomeInit
<1>2. Inv /\ OutcomeReflectsVotes /\ OutcomeCalledOnce /\ [Next]_vars
        => (OutcomeReflectsVotes /\ OutcomeCalledOnce)'
  BY OutcomeStep
<1>3. QED  BY <1>1, <1>2, Invariance, PTL DEF Spec

\* A decided proposal's status is what its stored ballots say, for good.
THEOREM VotesDecide == Spec => []OutcomeReflectsVotes
BY OutcomeInvariance, PTL

\* The outcome contract of a decision is called by it, once, and no other.
THEOREM OneCallPerDecision == Spec => []OutcomeCalledOnce
BY OutcomeInvariance, PTL

-----------------------------------------------------------------------------
(* Refinement. *)

LEMMA SameCardinality == \A S : R!Cardinality(S) = Cardinality(S)
BY DEF R!Cardinality, Cardinality

\* The abstract support of a choice is the weight the contract sums.
LEMMA SameSupport ==
  ASSUME NEW p \in Pid, NEW c
  PROVE  R!Support(votes[p], c) = WeightFor(p, c)
BY SameCardinality DEF R!Support, R!Total, R!UnitsOf, WeightFor, BallotWeight, Total, UnitsOf

\* The verdict of the stored ballots is the result of the stored tallies.
LEMMA SameVerdict ==
  ASSUME Inv, NEW p \in Pid
  PROVE  R!Verdict(votes[p]) = tallies_to_result(tallies[p])
<1>1. /\ tallies[p]["Approve"] = R!Support(votes[p], "Approve")
      /\ tallies[p]["Reject"] = R!Support(votes[p], "Reject")
      /\ tallies[p]["Abstain"] = R!Support(votes[p], "Abstain")
  BY SameSupport DEF Inv, TalliesMatchVotes, Choice
<1>2. /\ R!Wins(votes[p], "Approve", <<"Reject", "Abstain">>)
           <=> tallies[p]["Approve"] > tallies[p]["Reject"] + tallies[p]["Abstain"]
      /\ R!Wins(votes[p], "Reject", <<"Approve", "Abstain">>)
           <=> tallies[p]["Reject"] > tallies[p]["Approve"] + tallies[p]["Abstain"]
  BY <1>1 DEF R!Wins
<1>3. QED  BY <1>2 DEF R!Verdict, tallies_to_result

LEMMA CreateOpens ==
  ASSUME Inv, Creates
  PROVE  R!Next
<1>1. PICK a \in Account, k \in Project, ends \in Nat, public \in BOOLEAN,
           token \in Asset \cup {None}, outcomes \in SUBSET Decision :
             CreateProposal(a, k, ends, public, token, outcomes)
  BY DEF Creates
<1> DEFINE n      == NextId(k)
           ballot == [choice |-> "Abstain", weight |-> 0]
<1>2. /\ status' = [status EXCEPT ![n] = "Active"]
      /\ votes' = [votes EXCEPT ![n][a] = ballot]
  BY <1>1 DEF CreateProposal
<1>3. n \in Pid /\ ~Created(n) /\ status[n] = "Absent"
  BY <1>1, NewProposal DEF Inv, CreateProposal
<1>4. votes[n] = R!NoBallots
  BY <1>3 DEF Inv, BookConsistent, R!NoBallots
<1> HIDE DEF n, ballot
<1>5. votes' = [votes EXCEPT ![n] = [R!NoBallots EXCEPT ![a] = ballot]]
  BY <1>2, <1>3, <1>4 DEF Inv, TypeOK
<1>6. R!Open(n, a)
  BY <1>2, <1>3, <1>5 DEF R!Open, ballot
<1>7. QED  BY <1>3, <1>6 DEF R!Next

LEMMA VoteCasts ==
  ASSUME Inv, Votes
  PROVE  R!Next
<1>1. PICK a \in Account, p \in Pid, c \in Choice, w \in Weights : Vote(a, p, c, w)
  BY DEF Votes
<1>2. w \in Nat /\ w # 0
  BY <1>1, ConstantsAssumption DEF Vote
<1>3. w > 0
  BY <1>2
<1>4. R!Cast(p, a, c, w)
  BY <1>1, <1>3 DEF Vote, IsActive, R!Cast, Inv, TypeOK
<1>5. c \in R!Choice
  BY DEF Choice, R!Choice
<1>6. QED  BY <1>4, <1>5 DEF R!Next

LEMMA RemoveStrikes ==
  ASSUME Inv, Removes
  PROVE  R!Next
<1>1. PICK m \in Account, p \in Pid, a \in Account : RemoveVote(m, p, a)
  BY DEF Removes
<1>2. R!Strike(p, a)
  BY <1>1 DEF RemoveVote, IsActive, R!Strike
<1>3. QED  BY <1>2 DEF R!Next

LEMMA ExecuteCloses ==
  ASSUME Inv, Settles
  PROVE  R!Next
<1>1. PICK m \in Account, p \in Pid, claim \in Claim \cup {None} : Execute(m, p, claim)
  BY DEF Settles
<1>2. /\ status' = [status EXCEPT ![p] = R!Verdict(votes[p])]
      /\ votes' = votes /\ status[p] = "Active"
  BY <1>1, Settlement, SameVerdict
<1>3. R!Close(p)
  BY <1>2 DEF R!Close
<1>4. QED  BY <1>3 DEF R!Next

LEMMA RevokeCloses ==
  ASSUME Revokes
  PROVE  R!Next
<1>1. PICK a \in Account, p \in Pid : RevokeProposal(a, p)
  BY DEF Revokes
<1>2. R!Close(p)
  BY <1>1 DEF RevokeProposal, IsActive, R!Close, ballots
<1>3. QED  BY <1>2 DEF R!Next

LEMMA StepRefines ==
  ASSUME Inv, [Next]_vars
  PROVE  [R!Next]_<<status, votes>>
<1>1. CASE UNCHANGED vars
  BY <1>1 DEF vars, ballots
<1>2. CASE Configures
  BY <1>2, ConfiguresFrame DEF ballots
<1>3. CASE Conflicts
  BY <1>3 DEF Conflicts, AddConflictOfInterest, RemoveConflictOfInterest, ballots
<1>4. QED  BY <1>1, <1>2, <1>3, StepCases, CreateOpens, VoteCasts, RemoveStrikes,
              ExecuteCloses, RevokeCloses

\* Running tallies, lists of voters, deposits, clock and openings implement a
\* set of ballots that more than half of their weight decides, once.
THEOREM DaoIsAReferendum == Spec => ImplementsReferendum
<1>1. Init => R!Init
  BY DEF Init, R!Init, R!NoBallots
<1>2. Inv /\ [Next]_vars => [R!Next]_<<status, votes>>
  BY StepRefines
<1>3. QED  BY <1>1, <1>2, Invariance, PTL DEF Spec, ImplementsReferendum, R!Spec

-----------------------------------------------------------------------------
(***************************************************************************)
(* Money, with one asset that collateral is ever paid in: what the         *)
(* contract owes it holds, and nobody gains or loses anything but what was *)
(* struck or revoked.                                                      *)
(***************************************************************************)

\* The admins have configured no collateral contract yet, or this one.
OnlyCollateral(c) == collateral \in {None, c}

\* What account a has locked in proposal p, in asset x, as MadeWhole counts it.
Lock(p, a, x) == IF status[p] \in {"Active", "Malicious"} THEN Deposit(p, a, x) ELSE 0

Locks(a, x) == [p \in Pid |-> Lock(p, a, x)]
Debts(x)    == [p \in Pid |-> OwedBy(p, x)]
Deposits(p, x) == [a \in Account |-> Deposit(p, a, x)]

-----------------------------------------------------------------------------
(* Deposits and refunds. *)

LEMMA PidFinite == IsFiniteSet(Pid)
<1>1. IsFiniteSet(0 .. Capacity - 1)
  BY Constants, FS_Interval
<1>2. QED  BY <1>1, FS_Product, ConstantsAssumption DEF Pid

LEMMA ExistsIfNotAbsent ==
  ASSUME Inv, NEW p \in Pid, status[p] # "Absent"
  PROVE  /\ Created(p) /\ proposal[p] \in Proposal /\ collateral \in Asset
<1>1. Created(p) /\ proposal[p] # None /\ collateral # None
  BY DEF Inv, BookConsistent
<1>2. QED  BY <1>1 DEF Inv, TypeOK

\* A deposit is a natural number.
LEMMA DepositType ==
  Inv => \A p \in Pid, a \in Account, x \in Asset :
           status[p] # "Absent" => Deposit(p, a, x) \in Nat
<1> SUFFICES ASSUME Inv, NEW p \in Pid, NEW a \in Account, NEW x \in Asset,
                    status[p] # "Absent"
             PROVE  Deposit(p, a, x) \in Nat
  OBVIOUS
<1>1. votes[p][a] # None => Stake(p, votes[p][a].weight) \in Nat
  BY Constants DEF Inv, TypeOK, Ballot, Stake
<1> DEFINE own    == IF x = collateral /\ a = proposal[p].proposer THEN PROPOSAL_COLLATERAL ELSE 0
           staked == IF x = StakeAsset(p) /\ votes[p][a] # None
                     THEN Stake(p, votes[p][a].weight) ELSE 0
<1>2. own \in Nat /\ staked \in Nat
  BY <1>1, Constants
<1>3. Deposit(p, a, x) = own + staked
  BY DEF Deposit
<1> HIDE DEF own, staked
<1>4. QED  BY <1>2, <1>3

\* So is what is locked in a proposal, and what a proposal owes.
MoneyTyped ==
  \A x \in Asset :
    /\ \A a \in Account : Locks(a, x) \in [Pid -> Nat]
    /\ Debts(x) \in [Pid -> Nat]
    /\ \A p \in Pid : status[p] # "Absent" => Deposits(p, x) \in [Account -> Nat]

LEMMA MoneyTypes == Inv => MoneyTyped
<1> SUFFICES ASSUME Inv, NEW x \in Asset
             PROVE  /\ \A a \in Account : Locks(a, x) \in [Pid -> Nat]
                    /\ Debts(x) \in [Pid -> Nat]
                    /\ \A p \in Pid : status[p] # "Absent" => Deposits(p, x) \in [Account -> Nat]
  BY DEF MoneyTyped
<1>1. \A p \in Pid, a \in Account : Lock(p, a, x) \in Nat
  BY DepositType DEF Lock
<1>2. \A p \in Pid : status[p] # "Absent" => Deposits(p, x) \in [Account -> Nat]
  BY DepositType DEF Deposits
<1>3. \A p \in Pid : OwedBy(p, x) \in Nat
  <2> SUFFICES ASSUME NEW p \in Pid PROVE OwedBy(p, x) \in Nat
    OBVIOUS
  <2>1. CASE status[p] = "Active"
    <3>1. Deposits(p, x) \in [Account -> Nat]
      BY <1>2, <2>1
    <3>2. Total(Deposits(p, x), Account) \in Nat
      BY <3>1, TotalType, ConstantsAssumption
    <3>3. QED  BY <2>1, <3>2 DEF OwedBy, Deposits
  <2>2. CASE status[p] # "Active"
    BY <2>2 DEF OwedBy
  <2>3. QED  BY <2>1, <2>2
<1>4. QED  BY <1>1, <1>2, <1>3 DEF Locks, Debts

LEMMA NextMoneyTypes == Inv' => MoneyTyped'
BY MoneyTypes, PTL

\* The list of voters names a voter with a stored vote once, so execute
\* repays exactly what was deposited.
LEMMA RefundIsDeposit ==
  ASSUME Inv, NEW p \in Pid, status[p] # "Absent", NEW x \in Asset
  PROVE  Refund(p, x) = Deposits(p, x)
<1> SUFFICES ASSUME NEW a \in Account PROVE Refund(p, x)[a] = Deposit(p, a, x)
  BY DEF Refund, Deposits
<1>1. CASE votes[p][a] = None
  BY <1>1 DEF Refund, Deposit
<1>2. CASE votes[p][a] # None
  <2>1. Listed(p, a) = 1
    <3>1. a \in ToSet(voters[p]) /\ IsInjective(voters[p])
      BY <1>2 DEF Inv, VotersMatchVotes
    <3>2. PICK j \in DOMAIN voters[p] : voters[p][j] = a
      BY <3>1 DEF ToSet
    <3>3. {i \in DOMAIN voters[p] : voters[p][i] = a} = {j}
      BY <3>1, <3>2 DEF IsInjective
    <3>4. QED  BY <3>3, FS_Singleton DEF Listed
  <2>2. Stake(p, votes[p][a].weight) \in Nat
    BY <1>2, Constants DEF Inv, TypeOK, Ballot, Stake
  <2>3. Listed(p, a) * Stake(p, votes[p][a].weight) = Stake(p, votes[p][a].weight)
    BY <2>1, <2>2
  <2>4. QED  BY <2>3 DEF Refund, Deposit
<1>3. QED  BY <1>1, <1>2

-----------------------------------------------------------------------------
(* What a step leaves alone. *)

\* With one asset to choose from, the collateral contract never changes
\* under a proposal.
LEMMA CollateralStep ==
  ASSUME Inv, NEW c, Collaterals = {c}, OnlyCollateral(c), [Next]_vars
  PROVE  /\ OnlyCollateral(c)'
         /\ \A p \in Pid : status[p] # "Absent" => collateral' = collateral
<1>1. CASE collateral' = collateral
  BY <1>1 DEF OnlyCollateral
<1>2. CASE \E admin \in Account, x \in Collaterals : SetCollateralContract(admin, x)
  <2>1. collateral' = c
    BY <1>2 DEF SetCollateralContract
  <2>2. \A p \in Pid : status[p] # "Absent" => collateral = c
    BY DEF OnlyCollateral, Inv, BookConsistent
  <2>3. QED  BY <2>1, <2>2 DEF OnlyCollateral
<1>3. CASE \/ UNCHANGED vars \/ Tick
           \/ \E admin \in Account, value \in BOOLEAN : Pause(admin, value)
  BY <1>1, <1>3 DEF vars, settings, Tick, Pause
<1>4. CASE \/ \E m \in Account, k \in Project : AnonymousVotingSetup(m, k)
           \/ \E m \in Account, k \in Project, a \in Account, w \in Powers : SetBadges(m, k, a, w)
  BY <1>1, <1>4 DEF AnonymousVotingSetup, SetBadges
<1>5. CASE Creates \/ Votes
  <2>1. CASE Creates
    BY <1>1, <2>1 DEF Creates, CreateProposal, settings
  <2>2. CASE Votes
    BY <1>1, <2>2 DEF Votes, Vote, settings
  <2>3. QED  BY <1>5, <2>1, <2>2
<1>6. CASE Removes \/ Settles
  BY <1>1, <1>6 DEF Removes, RemoveVote, Settles, Execute, settings
<1>7. CASE Revokes \/ Conflicts
  BY <1>1, <1>7 DEF Revokes, RevokeProposal, Conflicts, AddConflictOfInterest,
                    RemoveConflictOfInterest, settings
<1>8. QED  BY <1>2, <1>3, <1>4, <1>5, <1>6, <1>7, StepCases DEF Configures, AdminNext

\* What is locked in a proposal changes only with its status or its votes.
LEMMA LockFrame ==
  ASSUME NEW p \in Pid, status'[p] = status[p],
         status[p] # "Absent" => /\ collateral' = collateral /\ proposal'[p] = proposal[p]
                                 /\ votes'[p] = votes[p]
  PROVE  /\ \A a, x : Lock(p, a, x)' = Lock(p, a, x)
         /\ \A x : OwedBy(p, x)' = OwedBy(p, x)
<1>1. CASE status[p] = "Absent"
  BY <1>1 DEF Lock, OwedBy
<1>2. CASE status[p] # "Absent"
  <2>1. \A w : Stake(p, w)' = Stake(p, w)
    BY <1>2 DEF Stake
  <2>2. \A a, x : Deposit(p, a, x)' = Deposit(p, a, x)
    BY <1>2, <2>1 DEF Deposit, StakeAsset
  <2>3. QED  BY <2>2 DEF Lock, OwedBy
<1>3. QED  BY <1>1, <1>2

-----------------------------------------------------------------------------
(* What a step changes in one proposal, it changes in the balances. *)

OnlyTouches(q) ==
  \A p \in Pid \ {q} :
    /\ status'[p] = status[p]
    /\ status[p] # "Absent" => /\ collateral' = collateral /\ proposal'[p] = proposal[p]
                               /\ votes'[p] = votes[p]

Balanced(q) ==
  \A x \in Asset :
    /\ \A a \in Account :
         wallet'[x][a] + Lock(q, a, x)' + slashed'[x][a] = wallet[x][a] + Lock(q, a, x) + slashed[x][a]
    /\ vault'[x] + OwedBy(q, x) >= vault[x] + OwedBy(q, x)'

LEMMA TotalOne ==
  ASSUME NEW S, IsFiniteSet(S), NEW f \in [S -> Nat], NEW s \in S, \A t \in S \ {s} : f[t] = 0
  PROVE  Total(f, S) = f[s]
<1>1. Total(f, S \ {s}) = 0
  BY TotalZero
<1>2. f[s] \in Nat
  OBVIOUS
<1>3. Total(f, S) = Total(f, S \ {s}) + f[s]
  BY TotalSplit
<1>4. QED  BY <1>1, <1>2, <1>3

\* A changed deposit of one account changes the debt by as much.
LEMMA DebtUpdate ==
  ASSUME Inv, Inv', NEW q \in Pid, status[q] = "Active", status'[q] = "Active",
         NEW x \in Asset, NEW a \in Account,
         \A b \in Account \ {a} : Deposit(q, b, x)' = Deposit(q, b, x)
  PROVE  /\ Deposit(q, a, x) \in Nat /\ Deposit(q, a, x)' \in Nat
         /\ OwedBy(q, x) \in Nat
         /\ OwedBy(q, x)' = OwedBy(q, x) - Deposit(q, a, x) + Deposit(q, a, x)'
<1> DEFINE f == Deposits(q, x)
           g == Deposits(q, x)'
<1>1. f \in [Account -> Nat]
  BY MoneyTypes DEF MoneyTyped
<1>2. g \in [Account -> Nat]
  BY NextMoneyTypes DEF MoneyTyped
<1>3. /\ \A b \in Account : f[b] = Deposit(q, b, x) /\ g[b] = Deposit(q, b, x)'
      /\ OwedBy(q, x) = Total(f, Account) /\ OwedBy(q, x)' = Total(g, Account)
  BY DEF Deposits, OwedBy
<1> HIDE DEF f, g
<1>4. Total(g, Account) = Total(f, Account) - f[a] + g[a]
  BY <1>1, <1>2, <1>3, TotalUpdate, ConstantsAssumption
<1>5. Total(f, Account) \in Nat
  BY <1>1, TotalType, ConstantsAssumption
<1>6. QED  BY <1>1, <1>2, <1>3, <1>4, <1>5

\* Creating a proposal locks what its proposer pays.
LEMMA CreateBalances ==
  ASSUME Inv, Inv', NEW b \in Account, NEW k \in Project, NEW ends \in Nat,
         NEW public \in BOOLEAN, NEW token \in Asset \cup {None},
         NEW outcomes \in SUBSET Decision, NEW n \in Pid, n = NextId(k),
         CreateProposal(b, k, ends, public, token, outcomes)
  PROVE  OnlyTouches(n) /\ Balanced(n)
<1> DEFINE deposit == IF token = None THEN PROPOSAL_COLLATERAL + VOTE_COLLATERAL
                                      ELSE PROPOSAL_COLLATERAL
           ballot  == [choice |-> "Abstain", weight |-> 0]
           made    == [proposer |-> b, voting_ends_at |-> ends, public_voting |-> public,
                       token_contract |-> token, outcome_contracts |-> outcomes]
<1>1. status[n] = "Absent" /\ votes[n] = [a \in Account |-> None]
  BY NewProposal DEF Inv, BookConsistent, CreateProposal
<1>2. /\ proposal' = [proposal EXCEPT ![n] = made] /\ status' = [status EXCEPT ![n] = "Active"]
      /\ votes' = [votes EXCEPT ![n][b] = ballot]
      /\ wallet' = [wallet EXCEPT ![collateral][b] = @ - deposit]
      /\ vault' = [vault EXCEPT ![collateral] = @ + deposit]
      /\ collateral # None /\ collateral' = collateral /\ slashed' = slashed
  BY DEF CreateProposal, settings
<1>3. collateral \in Asset /\ deposit \in Nat
  <2>1. collateral \in Asset
    BY <1>2 DEF Inv, TypeOK
  <2>2. deposit \in Nat
    BY Constants
  <2>3. QED  BY <2>1, <2>2
<1>4. ballot # None /\ ballot.weight = 0
  <2>1. ballot \in Ballot
    BY DEF Ballot, Choice
  <2>2. QED  BY <2>1, ConstantsAssumption
<1>5. made.proposer = b /\ made.token_contract = token
  OBVIOUS
<1> HIDE DEF deposit, ballot, made
<1>6. /\ proposal'[n] = made /\ status'[n] = "Active"
      /\ \A a \in Account : votes'[n][a] = IF a = b THEN ballot ELSE None
  BY <1>1, <1>2 DEF Inv, TypeOK
<1>7. OnlyTouches(n)
  BY <1>2 DEF OnlyTouches, Inv, TypeOK
<1>8. ASSUME NEW a \in Account, NEW x \in Asset
      PROVE  Deposit(n, a, x)' = IF x = collateral /\ a = b THEN deposit ELSE 0
  <2>1. StakeAsset(n)' = IF token = None THEN collateral ELSE token
    BY <1>2, <1>5, <1>6 DEF StakeAsset
  <2>2. Stake(n, 0)' = IF token = None THEN VOTE_COLLATERAL ELSE 0
    BY <1>5, <1>6 DEF Stake
  <2>3. Deposit(n, a, x)' = (IF x = collateral /\ a = b THEN PROPOSAL_COLLATERAL ELSE 0)
                              + (IF x = StakeAsset(n)' /\ a = b THEN Stake(n, 0)' ELSE 0)
    BY <1>2, <1>4, <1>5, <1>6 DEF Deposit, Stake
  <2>4. CASE token = None
    <3>1. Deposit(n, a, x)' = (IF x = collateral /\ a = b THEN PROPOSAL_COLLATERAL ELSE 0)
                                + (IF x = collateral /\ a = b THEN VOTE_COLLATERAL ELSE 0)
      BY <2>1, <2>2, <2>3, <2>4
    <3>2. QED  BY <2>4, <3>1, Constants DEF deposit
  <2>5. CASE token # None
    <3>1. Deposit(n, a, x)' = (IF x = collateral /\ a = b THEN PROPOSAL_COLLATERAL ELSE 0) + 0
      BY <2>2, <2>3, <2>5
    <3>2. QED  BY <2>5, <3>1, Constants DEF deposit
  <2>6. QED  BY <2>4, <2>5
<1>9. ASSUME NEW x \in Asset, NEW a \in Account
      PROVE  wallet'[x][a] + Lock(n, a, x)' + slashed'[x][a]
               = wallet[x][a] + Lock(n, a, x) + slashed[x][a]
  <2>1. Lock(n, a, x) = 0 /\ Lock(n, a, x)' = IF x = collateral /\ a = b THEN deposit ELSE 0
    BY <1>1, <1>6, <1>8 DEF Lock
  <2>2. wallet'[x][a] = IF x = collateral /\ a = b THEN wallet[x][a] - deposit ELSE wallet[x][a]
    BY <1>2, <1>3 DEF Inv, TypeOK
  <2>3. wallet[x][a] \in Nat /\ slashed[x][a] \in Nat
    BY DEF Inv, TypeOK
  <2>4. QED  BY <1>2, <1>3, <2>1, <2>2, <2>3
<1>10. ASSUME NEW x \in Asset
       PROVE  vault'[x] + OwedBy(n, x) >= vault[x] + OwedBy(n, x)'
  <2> DEFINE g == Deposits(n, x)'
  <2>1. g \in [Account -> Nat] /\ \A a \in Account : g[a] = Deposit(n, a, x)'
    BY <1>1, <1>6, NextMoneyTypes DEF MoneyTyped, Deposits
  <2>2. OwedBy(n, x) = 0 /\ OwedBy(n, x)' = Total(g, Account)
    BY <1>1, <1>6 DEF OwedBy, Deposits
  <2> HIDE DEF g
  <2>3. Total(g, Account) = g[b]
    BY <1>8, <2>1, TotalOne, ConstantsAssumption
  <2>4. Total(g, Account) = IF x = collateral THEN deposit ELSE 0
    BY <1>8, <2>1, <2>3
  <2>5. vault'[x] = (IF x = collateral THEN vault[x] + deposit ELSE vault[x]) /\ vault[x] \in Nat
    BY <1>2, <1>3 DEF Inv, TypeOK
  <2>6. QED  BY <1>3, <2>2, <2>4, <2>5
<1>11. Balanced(n)
  BY <1>9, <1>10 DEF Balanced
<1>12. QED  BY <1>7, <1>11

\* A vote locks its stake.
LEMMA VoteBalances ==
  ASSUME Inv, Inv', NEW b \in Account, NEW q \in Pid, NEW c \in Choice, NEW w \in Nat,
         Vote(b, q, c, w)
  PROVE  OnlyTouches(q) /\ Balanced(q)
<1> DEFINE ballot == [choice |-> c, weight |-> w]
           y      == StakeAsset(q)
           stake  == Stake(q, w)
<1>1. /\ votes' = [votes EXCEPT ![q][b] = ballot] /\ votes[q][b] = None
      /\ wallet' = [wallet EXCEPT ![y][b] = @ - stake]
      /\ vault' = [vault EXCEPT ![y] = @ + stake]
      /\ collateral' = collateral /\ proposal' = proposal /\ status' = status
      /\ slashed' = slashed /\ status[q] = "Active"
  BY DEF Vote, IsActive, settings, book
<1>2. y \in Asset /\ stake \in Nat
  BY <1>1, StakeType DEF Inv, BookConsistent
<1>3. ballot # None /\ ballot.weight = w
  <2>1. ballot \in Ballot
    BY DEF Ballot
  <2>2. QED  BY <2>1, ConstantsAssumption
<1>4. StakeAsset(q)' = y /\ Stake(q, w)' = stake /\ \A v : Stake(q, v)' = Stake(q, v)
  BY <1>1 DEF StakeAsset, Stake
<1> HIDE DEF ballot, y, stake
<1>5. \A a \in Account : votes'[q][a] = IF a = b THEN ballot ELSE votes[q][a]
  BY <1>1 DEF Inv, TypeOK
<1>6. OnlyTouches(q)
  BY <1>1 DEF OnlyTouches, Inv, TypeOK
<1>7. \A x \in Asset, a \in Account \ {b} : Deposit(q, a, x)' = Deposit(q, a, x)
  BY <1>1, <1>4, <1>5 DEF Deposit, y
<1>8. ASSUME NEW x \in Asset
      PROVE  /\ Deposit(q, b, x) \in Nat
             /\ Deposit(q, b, x)' = Deposit(q, b, x) + (IF x = y THEN stake ELSE 0)
  <2> DEFINE own == IF x = collateral /\ b = proposal[q].proposer THEN PROPOSAL_COLLATERAL ELSE 0
  <2>1. own \in Nat
    BY Constants
  <2>2. Deposit(q, b, x) = own + 0
    BY <1>1 DEF Deposit
  <2>3. Deposit(q, b, x)' = own + (IF x = y THEN stake ELSE 0)
    BY <1>1, <1>3, <1>4, <1>5 DEF Deposit, y, stake
  <2> HIDE DEF own
  <2>4. QED  BY <1>2, <2>1, <2>2, <2>3
<1>9. ASSUME NEW x \in Asset, NEW a \in Account
      PROVE  wallet'[x][a] + Lock(q, a, x)' + slashed'[x][a]
               = wallet[x][a] + Lock(q, a, x) + slashed[x][a]
  <2>1. Lock(q, a, x) = Deposit(q, a, x) /\ Lock(q, a, x)' = Deposit(q, a, x)'
    BY <1>1 DEF Lock
  <2>2. wallet'[x][a] = IF x = y /\ a = b THEN wallet[x][a] - stake ELSE wallet[x][a]
    BY <1>1, <1>2 DEF Inv, TypeOK
  <2>3. wallet[x][a] \in Nat /\ slashed[x][a] \in Nat
    BY DEF Inv, TypeOK
  <2>4. QED  BY <1>1, <1>2, <1>7, <1>8, <2>1, <2>2, <2>3
<1>10. ASSUME NEW x \in Asset
       PROVE  vault'[x] + OwedBy(q, x) >= vault[x] + OwedBy(q, x)'
  <2>1. vault'[x] = (IF x = y THEN vault[x] + stake ELSE vault[x]) /\ vault[x] \in Nat
    BY <1>1, <1>2 DEF Inv, TypeOK
  <2>2. /\ OwedBy(q, x) \in Nat
        /\ OwedBy(q, x)' = OwedBy(q, x) - Deposit(q, b, x) + Deposit(q, b, x)'
    BY <1>1, <1>7, DebtUpdate
  <2>3. QED  BY <1>2, <1>8, <2>1, <2>2
<1>11. Balanced(q)
  BY <1>9, <1>10 DEF Balanced
<1>12. QED  BY <1>6, <1>11

\* A struck vote forfeits its stake, which stays in the contract.
LEMMA RemoveBalances ==
  ASSUME Inv, Inv', NEW m \in Account, NEW q \in Pid, NEW b \in Account, RemoveVote(m, q, b)
  PROVE  OnlyTouches(q) /\ Balanced(q)
<1> DEFINE y     == StakeAsset(q)
           w     == votes[q][b].weight
           stake == Stake(q, w)
<1>1. /\ votes' = [votes EXCEPT ![q][b] = None] /\ votes[q][b] # None
      /\ slashed' = [slashed EXCEPT ![y][b] = @ + stake]
      /\ collateral' = collateral /\ proposal' = proposal /\ status' = status
      /\ wallet' = wallet /\ vault' = vault /\ status[q] = "Active"
  BY DEF RemoveVote, IsActive, settings, book
<1>2. w \in Nat
  BY <1>1 DEF Inv, TypeOK, Ballot
<1>3. y \in Asset /\ stake \in Nat
  BY <1>1, <1>2, StakeType DEF Inv, BookConsistent
<1>4. StakeAsset(q)' = y /\ \A v : Stake(q, v)' = Stake(q, v)
  BY <1>1 DEF StakeAsset, Stake
<1> HIDE DEF y, w, stake
<1>5. \A a \in Account : votes'[q][a] = IF a = b THEN None ELSE votes[q][a]
  BY <1>1 DEF Inv, TypeOK
<1>6. OnlyTouches(q)
  BY <1>1 DEF OnlyTouches, Inv, TypeOK
<1>7. \A x \in Asset, a \in Account \ {b} : Deposit(q, a, x)' = Deposit(q, a, x)
  BY <1>1, <1>4, <1>5 DEF Deposit, y
<1>8. ASSUME NEW x \in Asset
      PROVE  /\ Deposit(q, b, x)' \in Nat
             /\ Deposit(q, b, x) = Deposit(q, b, x)' + (IF x = y THEN stake ELSE 0)
  <2> DEFINE own == IF x = collateral /\ b = proposal[q].proposer THEN PROPOSAL_COLLATERAL ELSE 0
  <2>1. own \in Nat
    BY Constants
  <2>2. Deposit(q, b, x) = own + (IF x = y THEN stake ELSE 0)
    BY <1>1 DEF Deposit, y, stake, w
  <2>3. Deposit(q, b, x)' = own + 0
    BY <1>1, <1>5 DEF Deposit
  <2> HIDE DEF own
  <2>4. QED  BY <1>3, <2>1, <2>2, <2>3
<1>9. ASSUME NEW x \in Asset, NEW a \in Account
      PROVE  wallet'[x][a] + Lock(q, a, x)' + slashed'[x][a]
               = wallet[x][a] + Lock(q, a, x) + slashed[x][a]
  <2>1. Lock(q, a, x) = Deposit(q, a, x) /\ Lock(q, a, x)' = Deposit(q, a, x)'
    BY <1>1 DEF Lock
  <2>2. slashed'[x][a] = IF x = y /\ a = b THEN slashed[x][a] + stake ELSE slashed[x][a]
    BY <1>1, <1>3 DEF Inv, TypeOK
  <2>3. wallet[x][a] \in Nat /\ slashed[x][a] \in Nat
    BY DEF Inv, TypeOK
  <2>4. QED  BY <1>1, <1>3, <1>7, <1>8, <2>1, <2>2, <2>3
<1>10. ASSUME NEW x \in Asset
       PROVE  vault'[x] + OwedBy(q, x) >= vault[x] + OwedBy(q, x)'
  <2>1. vault[x] \in Nat
    BY DEF Inv, TypeOK
  <2>2. /\ Deposit(q, b, x) \in Nat /\ OwedBy(q, x) \in Nat
        /\ OwedBy(q, x)' = OwedBy(q, x) - Deposit(q, b, x) + Deposit(q, b, x)'
    BY <1>1, <1>7, DebtUpdate
  <2>3. QED  BY <1>1, <1>3, <1>8, <2>1, <2>2
<1>11. Balanced(q)
  BY <1>9, <1>10 DEF Balanced
<1>12. QED  BY <1>6, <1>11

\* Settling a proposal pays what is locked in it, and it owes nothing then.
LEMMA ExecuteBalances ==
  ASSUME Inv, NEW m \in Account, NEW q \in Pid, NEW claim \in Claim \cup {None},
         Execute(m, q, claim)
  PROVE  OnlyTouches(q) /\ Balanced(q)
<1> DEFINE decision == tallies_to_result(ProvenTally(q, claim))
<1>1. /\ status[q] = "Active" /\ status' = [status EXCEPT ![q] = decision]
      /\ collateral' = collateral /\ proposal' = proposal /\ votes' = votes
      /\ slashed' = slashed
      /\ wallet' = [x \in Asset |-> [a \in Account |-> wallet[x][a] + Refund(q, x)[a]]]
      /\ vault' = [x \in Asset |-> vault[x] - Total(Refund(q, x), Account)]
  BY DEF Execute, IsActive, settings, book, ballots
<1>2. decision \in Decision
  BY DEF tallies_to_result, Decision
<1> HIDE DEF decision
<1>3. status'[q] = decision /\ status'[q] \notin {"Active", "Malicious"}
  BY <1>1, <1>2 DEF Inv, TypeOK, Decision
<1>4. OnlyTouches(q)
  BY <1>1 DEF OnlyTouches, Inv, TypeOK
<1>5. ASSUME NEW x \in Asset, NEW a \in Account
      PROVE  wallet'[x][a] + Lock(q, a, x)' + slashed'[x][a]
               = wallet[x][a] + Lock(q, a, x) + slashed[x][a]
  <2>1. Lock(q, a, x)' = 0 /\ Lock(q, a, x) = Deposit(q, a, x)
    BY <1>1, <1>3 DEF Lock
  <2>2. Refund(q, x)[a] = Deposit(q, a, x) /\ Deposit(q, a, x) \in Nat
    BY <1>1, RefundIsDeposit, DepositType DEF Deposits
  <2>3. wallet'[x][a] = wallet[x][a] + Deposit(q, a, x)
    BY <1>1, <2>2
  <2>4. wallet[x][a] \in Nat /\ slashed[x][a] \in Nat
    BY DEF Inv, TypeOK
  <2>5. QED  BY <1>1, <2>1, <2>2, <2>3, <2>4
<1>6. ASSUME NEW x \in Asset
      PROVE  vault'[x] + OwedBy(q, x) >= vault[x] + OwedBy(q, x)'
  <2>1. OwedBy(q, x) = Total(Refund(q, x), Account) /\ OwedBy(q, x)' = 0
    BY <1>1, <1>3, RefundIsDeposit DEF OwedBy, Deposits
  <2>2. Total(Refund(q, x), Account) \in Nat
    <3>1. Refund(q, x) \in [Account -> Nat]
      BY <1>1, RefundIsDeposit, MoneyTypes DEF MoneyTyped
    <3>2. QED  BY <3>1, TotalType, ConstantsAssumption
  <2>3. vault'[x] = vault[x] - Total(Refund(q, x), Account) /\ vault[x] \in Nat
    BY <1>1 DEF Inv, TypeOK
  <2>4. QED  BY <2>1, <2>2, <2>3
<1>7. Balanced(q)
  BY <1>5, <1>6 DEF Balanced
<1>8. QED  BY <1>4, <1>7

\* A revoked proposal keeps everything locked and owes nothing.
LEMMA RevokeBalances ==
  ASSUME Inv, NEW m \in Account, NEW q \in Pid, RevokeProposal(m, q)
  PROVE  OnlyTouches(q) /\ Balanced(q)
<1>1. /\ status[q] = "Active" /\ status' = [status EXCEPT ![q] = "Malicious"]
      /\ collateral' = collateral /\ proposal' = proposal /\ votes' = votes
      /\ slashed' = slashed /\ wallet' = wallet /\ vault' = vault
  BY DEF RevokeProposal, IsActive, settings, book, ballots, funds
<1>2. status'[q] = "Malicious"
  BY <1>1 DEF Inv, TypeOK
<1>3. OnlyTouches(q)
  BY <1>1 DEF OnlyTouches, Inv, TypeOK
<1>4. \A a, x : Deposit(q, a, x)' = Deposit(q, a, x)
  BY <1>1 DEF Deposit, StakeAsset, Stake
<1>5. \A a, x : Lock(q, a, x)' = Lock(q, a, x)
  BY <1>1, <1>2, <1>4 DEF Lock
<1>6. ASSUME NEW x \in Asset
      PROVE  vault'[x] + OwedBy(q, x) >= vault[x] + OwedBy(q, x)'
  <2>1. OwedBy(q, x)' = 0
    BY <1>2 DEF OwedBy
  <2>2. OwedBy(q, x) \in Nat /\ vault[x] \in Nat
    BY MoneyTypes DEF MoneyTyped, Debts, Inv, TypeOK
  <2>3. QED  BY <1>1, <2>1, <2>2
<1>7. QED  BY <1>1, <1>3, <1>5, <1>6 DEF Balanced

-----------------------------------------------------------------------------
(* The two invariants. *)

LEMMA BalancedStep ==
  ASSUME Inv, Inv', MadeWhole, Solvent, NEW q \in Pid, OnlyTouches(q), Balanced(q)
  PROVE  MadeWhole' /\ Solvent'
<1>1. \A p \in Pid \ {q} : /\ \A a, x : Lock(p, a, x)' = Lock(p, a, x)
                           /\ \A x : OwedBy(p, x)' = OwedBy(p, x)
  BY LockFrame DEF OnlyTouches
<1>2. ASSUME NEW x \in Asset, NEW a \in Account
      PROVE  (wallet[x][a] + LockedBy(a, x, {"Active", "Malicious"}) + slashed[x][a] = Funds[x][a])'
  <2> DEFINE f == Locks(a, x)
             g == Locks(a, x)'
  <2>1. f \in [Pid -> Nat] /\ g \in [Pid -> Nat]
    BY MoneyTypes, NextMoneyTypes DEF MoneyTyped
  <2>2. /\ f[q] = Lock(q, a, x) /\ g[q] = Lock(q, a, x)'
        /\ \A p \in Pid \ {q} : g[p] = f[p]
    BY <1>1 DEF Locks
  <2>3. /\ LockedBy(a, x, {"Active", "Malicious"}) = Total(f, Pid)
        /\ LockedBy(a, x, {"Active", "Malicious"})' = Total(g, Pid)
    BY DEF LockedBy, Locks, Lock
  <2> HIDE DEF f, g
  <2>4. Total(g, Pid) = Total(f, Pid) - f[q] + g[q] /\ Total(f, Pid) \in Nat
    BY <2>1, <2>2, PidFinite, TotalUpdate, TotalType
  <2>5. /\ wallet[x][a] + Total(f, Pid) + slashed[x][a] = Funds[x][a]
        /\ wallet'[x][a] + g[q] + slashed'[x][a] = wallet[x][a] + f[q] + slashed[x][a]
    BY <2>2, <2>3 DEF MadeWhole, Balanced
  <2>6. /\ wallet[x][a] \in Nat /\ slashed[x][a] \in Nat
        /\ wallet'[x][a] \in Nat /\ slashed'[x][a] \in Nat
        /\ f[q] \in Nat /\ g[q] \in Nat /\ Funds[x][a] \in Nat
    BY <2>1, ConstantsAssumption DEF Inv, TypeOK
  <2>7. wallet'[x][a] + Total(g, Pid) + slashed'[x][a] = Funds[x][a]
    BY <2>4, <2>5, <2>6
  <2>8. QED  BY <2>3, <2>7
<1>3. ASSUME NEW x \in Asset
      PROVE  (vault[x] >= Owed(x))'
  <2> DEFINE f == Debts(x)
             g == Debts(x)'
  <2>1. f \in [Pid -> Nat] /\ g \in [Pid -> Nat]
    BY MoneyTypes, NextMoneyTypes DEF MoneyTyped
  <2>2. /\ f[q] = OwedBy(q, x) /\ g[q] = OwedBy(q, x)'
        /\ \A p \in Pid \ {q} : g[p] = f[p]
    BY <1>1 DEF Debts
  <2>3. Owed(x) = Total(f, Pid) /\ Owed(x)' = Total(g, Pid)
    BY DEF Owed, Debts
  <2> HIDE DEF f, g
  <2>4. Total(g, Pid) = Total(f, Pid) - f[q] + g[q] /\ Total(f, Pid) \in Nat
    BY <2>1, <2>2, PidFinite, TotalUpdate, TotalType
  <2>5. vault[x] >= Total(f, Pid) /\ vault'[x] + f[q] >= vault[x] + g[q]
    BY <2>2, <2>3 DEF Solvent, Balanced
  <2>6. vault[x] \in Nat /\ vault'[x] \in Nat /\ f[q] \in Nat /\ g[q] \in Nat
    BY <2>1 DEF Inv, TypeOK
  <2>7. vault'[x] >= Total(g, Pid)
    BY <2>4, <2>5, <2>6
  <2>8. QED  BY <2>3, <2>7
<1>4. QED  BY <1>2, <1>3 DEF MadeWhole, Solvent

LEMMA IdleStep ==
  ASSUME MadeWhole, Solvent, UNCHANGED <<status, proposal, votes, funds>>,
         \A p \in Pid : status[p] # "Absent" => collateral' = collateral
  PROVE  MadeWhole' /\ Solvent'
<1>1. \A p \in Pid : /\ \A a, x : Lock(p, a, x)' = Lock(p, a, x)
                     /\ \A x : OwedBy(p, x)' = OwedBy(p, x)
  BY LockFrame
<1>2. \A a, x : Locks(a, x)' = Locks(a, x) /\ Debts(x)' = Debts(x)
  BY <1>1 DEF Locks, Debts
<1>3. /\ \A a, x : LockedBy(a, x, {"Active", "Malicious"}) = Total(Locks(a, x), Pid)
      /\ \A a, x : LockedBy(a, x, {"Active", "Malicious"})' = Total(Locks(a, x)', Pid)
      /\ \A x : Owed(x) = Total(Debts(x), Pid) /\ Owed(x)' = Total(Debts(x)', Pid)
  BY DEF LockedBy, Locks, Lock, Owed, Debts
<1>4. /\ \A a, x : LockedBy(a, x, {"Active", "Malicious"})' = LockedBy(a, x, {"Active", "Malicious"})
      /\ \A x : Owed(x)' = Owed(x)
  BY <1>2, <1>3
<1>5. QED  BY <1>4 DEF MadeWhole, Solvent, funds

LEMMA FundsStep ==
  ASSUME Inv, Inv', NEW c, Collaterals = {c}, OnlyCollateral(c), MadeWhole, Solvent, [Next]_vars
  PROVE  MadeWhole' /\ Solvent'
<1>1. \A p \in Pid : status[p] # "Absent" => collateral' = collateral
  BY CollateralStep
<1>2. CASE UNCHANGED vars
  BY <1>1, <1>2, IdleStep DEF vars, book, ballots
<1>3. CASE Configures
  BY <1>1, <1>3, ConfiguresFrame, IdleStep DEF book, ballots
<1>4. CASE Conflicts
  <2>1. UNCHANGED <<status, proposal, votes, funds>>
    BY <1>4 DEF Conflicts, AddConflictOfInterest, RemoveConflictOfInterest, book, ballots
  <2>2. QED  BY <1>1, <2>1, IdleStep
<1>5. CASE Creates
  <2>1. PICK a \in Account, k \in Project, ends \in Nat, public \in BOOLEAN,
             token \in Asset \cup {None}, outcomes \in SUBSET Decision :
               CreateProposal(a, k, ends, public, token, outcomes)
    BY <1>5 DEF Creates
  <2>2. PICK n \in Pid : n = NextId(k)
    BY <2>1, NewProposal DEF Inv, CreateProposal
  <2>3. QED  BY <2>1, <2>2, CreateBalances, BalancedStep
<1>6. CASE Votes
  <2>1. PICK a \in Account, q \in Pid, d \in Choice, w \in Weights : Vote(a, q, d, w)
    BY <1>6 DEF Votes
  <2>2. w \in Nat
    BY ConstantsAssumption
  <2>3. QED  BY <2>1, <2>2, VoteBalances, BalancedStep
<1>7. CASE Removes
  BY <1>7, RemoveBalances, BalancedStep DEF Removes
<1>8. CASE Settles
  BY <1>8, ExecuteBalances, BalancedStep DEF Settles
<1>9. CASE Revokes
  BY <1>9, RevokeBalances, BalancedStep DEF Revokes
<1>10. QED  BY <1>2, <1>3, <1>4, <1>5, <1>6, <1>7, <1>8, <1>9, StepCases

LEMMA FundsInit ==
  ASSUME Init, NEW c
  PROVE  MadeWhole /\ Solvent /\ OnlyCollateral(c)
<1>1. \A p \in Pid : /\ \A a, x : Lock(p, a, x) = 0
                     /\ \A x : OwedBy(p, x) = 0
  BY DEF Init, Lock, OwedBy
<1>2. ASSUME NEW x \in Asset, NEW a \in Account
      PROVE  wallet[x][a] + LockedBy(a, x, {"Active", "Malicious"}) + slashed[x][a] = Funds[x][a]
  <2>1. LockedBy(a, x, {"Active", "Malicious"}) = Total(Locks(a, x), Pid)
    BY DEF LockedBy, Locks, Lock
  <2>2. \A p \in Pid : Locks(a, x)[p] = 0
    BY <1>1 DEF Locks
  <2>3. Total(Locks(a, x), Pid) = 0
    BY <2>2, TotalZero
  <2>4. wallet[x][a] = Funds[x][a] /\ slashed[x][a] = 0 /\ Funds[x][a] \in Nat
    BY ConstantsAssumption DEF Init
  <2>5. QED  BY <2>1, <2>3, <2>4
<1>3. ASSUME NEW x \in Asset
      PROVE  vault[x] >= Owed(x)
  <2>1. Owed(x) = Total(Debts(x), Pid)
    BY DEF Owed, Debts
  <2>2. \A p \in Pid : Debts(x)[p] = 0
    BY <1>1 DEF Debts
  <2>3. Total(Debts(x), Pid) = 0
    BY <2>2, TotalZero
  <2>4. vault[x] = 0
    BY DEF Init
  <2>5. QED  BY <2>1, <2>3, <2>4
<1>4. QED  BY <1>2, <1>3 DEF MadeWhole, Solvent, OnlyCollateral, Init

LEMMA FundsInvariance ==
  ASSUME NEW c, Collaterals = {c}
  PROVE  Spec => [](MadeWhole /\ Solvent)
<1>1. Init => MadeWhole /\ Solvent /\ OnlyCollateral(c)
  BY FundsInit
<1>2. Inv /\ Inv' /\ MadeWhole /\ Solvent /\ OnlyCollateral(c) /\ [Next]_vars
        => MadeWhole' /\ Solvent' /\ OnlyCollateral(c)'
  BY FundsStep, CollateralStep
<1>3. QED  BY <1>1, <1>2, Invariance, PTL DEF Spec

\* If collateral is only ever paid in one asset, the contract always holds
\* what its active proposals owe, of all projects together.
THEOREM AlwaysSolvent ==
  ASSUME NEW c, Collaterals = {c}
  PROVE  Spec => []Solvent
<1>1. Spec => [](MadeWhole /\ Solvent)
  BY FundsInvariance
<1>2. QED  BY <1>1, PTL

\* Then, too, what an account holds, has locked and has forfeited always adds
\* up to what it had.
THEOREM NobodyLosesOut ==
  ASSUME NEW c, Collaterals = {c}
  PROVE  Spec => []MadeWhole
<1>1. Spec => [](MadeWhole /\ Solvent)
  BY FundsInvariance
<1>2. QED  BY <1>1, PTL

\* And the contract can pay every settlement that is due: the refunds of a
\* proposal never exceed its balance.  With two assets this fails.
THEOREM SettlementIsFunded ==
  ASSUME NEW c, Collaterals = {c}
  PROVE  Spec => []RepaidUponExecution
<1>1. Inv /\ Solvent => RepaidUponExecution
  <2> SUFFICES ASSUME Inv, Solvent, NEW p \in Pid, IsActive(p), NEW x \in Asset
               PROVE  Total(Refund(p, x), Account) <= vault[x]
    BY DEF RepaidUponExecution
  <2>1. Total(Refund(p, x), Account) = Debts(x)[p]
    BY RefundIsDeposit DEF IsActive, Debts, OwedBy, Deposits
  <2>2. Debts(x) \in [Pid -> Nat]
    BY MoneyTypes DEF MoneyTyped
  <2>3. Debts(x)[p] <= Total(Debts(x), Pid) /\ Total(Debts(x), Pid) \in Nat
    BY <2>2, PidFinite, TotalBounds, TotalType
  <2>4. vault[x] >= Total(Debts(x), Pid) /\ vault[x] \in Nat /\ Debts(x)[p] \in Nat
    BY <2>2 DEF Solvent, Owed, Debts, Inv, TypeOK
  <2>5. QED  BY <2>1, <2>3, <2>4
<1>2. Spec => []Solvent
  BY AlwaysSolvent
<1>3. QED  BY <1>1, <1>2, Invariance, PTL
=============================================================================
