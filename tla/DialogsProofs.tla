---------------------------- MODULE DialogsProofs ----------------------------
(* Proofs about what is done in windows over the pages: votes and their          *)
(* execution (Ballots) for any set of voters, maintainers and weights, the       *)
(* writing of a proposal (Proposing) for any contracts and voting periods, the   *)
(* lists of maintainers (Editors), searches and profiles (Members).              *)
EXTENDS MCDialogs, SequenceTheorems, FiniteSetTheorems, TLAPS

-------------------------------------------------------------------------------
(* Ballots: keys *)

(* Some maintainer has the file that opens what is sealed under k.               *)
OnFile(k) == \E m \in Maintainer : k \in files[m]

KeysInv ==
  /\ key # None => OnFile(key)
  /\ \A m \in Maintainer : drafts[m] # None => drafts[m] \in files[m]
  /\ \A v \in Voter : sent[v] # None /\ sent[v].key # None => OnFile(sent[v].key)
  /\ \A v \in Voter : ballots[v] # None /\ ballots[v].key # None => OnFile(ballots[v].key)

(* Of an anonymous vote every ballot commits to what it seals.                   *)
Honest(b) ==
  \A c \in Choice : b.commitments[c].value = b.votes[c] /\ b.commitments[c].seed = b.seeds[c]

HonestInv ==
  ~vote.public => \A v \in Voter : /\ sent[v] # None => Honest(sent[v])
                                   /\ ballots[v] # None => Honest(ballots[v])

(* A window that asks for confirmation has counted the ballots it started from,  *)
(* and one that is through is over a proposal that is decided.                   *)
WindowInv ==
  \A m \in Maintainer :
    LET w == windows[m]
    IN  /\ w.at = "confirm" => /\ w.basis \in Boxes
                               /\ w.result = ComputedResult(Scores(w.basis))
                               /\ ~vote.public => w.tally = Tally(w.basis)
        /\ w.at = "done" => /\ status # "active"
                            /\ (vote.public => w.basis = ballots)
                                 => w.result = status /\ status = Decided(Scores(ballots))

BallotsInv == TypeOK /\ KeysInv /\ HonestInv /\ WindowInv

-------------------------------------------------------------------------------
(* Sums *)

(* A sum over finitely many voters is a number.                                  *)
LEMMA TotalIsNumber ==
  ASSUME NEW S \in SUBSET Voter, NEW f \in [S -> Nat]
  PROVE  Total(f, S) \in Nat
<1>1. IsFiniteSet(S)
  BY VotersAssumption, FS_Subset
<1> DEFINE units == [s \in S |-> UnitsOf(f, s)]
           parts == {units[s] : s \in S}
<1>2. \A s \in S : IsFiniteSet(UnitsOf(f, s))
  <2> TAKE s \in S
  <2>1. f[s] \in Nat
    OBVIOUS
  <2>2. IsFiniteSet(1 .. f[s])
    BY <2>1, FS_Interval
  <2>3. IsFiniteSet({s})
    BY FS_Singleton
  <2>4. QED  BY <2>2, <2>3, FS_Product DEF UnitsOf
<1>3. units \in Surjection(S, parts)
  BY DEF Surjection
<1>4. IsFiniteSet(parts)
  <2> HIDE DEF units, parts
  <2>1. QED  BY <1>1, <1>3, FS_Surjection
<1>5. IsFiniteSet(UNION parts)
  <2>1. \A part \in parts : IsFiniteSet(part)
    BY <1>2
  <2> HIDE DEF parts
  <2>2. QED  BY <1>4, <2>1, FS_UNION
<1>6. UNION {UnitsOf(f, s) : s \in S} = UNION parts
  OBVIOUS
<1>7. QED  BY <1>5, <1>6, FS_CardinalityType DEF Total

(* Ballots that weigh the same, for numbers that are the same, come to the same. *)
LEMMA WeightedIsNumbers ==
  ASSUME NEW bs \in Boxes, NEW of \in [Cast(bs) -> Numbers]
  PROVE  Weighted(bs, of) \in Numbers
<1>1. ASSUME NEW c \in Choice
      PROVE  Total([v \in Cast(bs) |-> bs[v].weight * of[v][c]], Cast(bs)) \in Nat
  <2>1. \A v \in Cast(bs) : bs[v].weight * of[v][c] \in Nat
    <3> TAKE v \in Cast(bs)
    <3>1. bs[v].weight \in Nat
      BY DEF Cast, Boxes, Ballot
    <3>2. of[v][c] \in Nat
      BY DEF Numbers
    <3>3. QED  BY <3>1, <3>2
  <2>2. [v \in Cast(bs) |-> bs[v].weight * of[v][c]] \in [Cast(bs) -> Nat]
    BY <2>1
  <2>3. Cast(bs) \in SUBSET Voter
    BY DEF Cast
  <2>4. QED  BY <2>2, <2>3, TotalIsNumber
<1>2. QED  BY <1>1 DEF Weighted, Numbers

LEMMA WeightedSame ==
  ASSUME NEW bs, NEW of, NEW at, \A v \in Cast(bs) : \A c \in Choice : of[v][c] = at[v][c]
  PROVE  Weighted(bs, of) = Weighted(bs, at)
<1>1. \A c \in Choice : [v \in Cast(bs) |-> bs[v].weight * of[v][c]]
                        = [v \in Cast(bs) |-> bs[v].weight * at[v][c]]
  OBVIOUS
<1>2. QED  BY <1>1 DEF Weighted

LEMMA TallyTyped ==
  ASSUME NEW bs \in Boxes
  PROVE  Scores(bs) \in Numbers /\ Tally(bs) \in [tallies : Numbers, seeds : Numbers]
         /\ Tally(bs).tallies = Scores(bs)
<1>1. \A v \in Cast(bs) : bs[v].votes \in Numbers /\ bs[v].seeds \in Numbers
  BY DEF Cast, Boxes, Ballot
<1>2. Scores(bs) \in Numbers /\ Weighted(bs, [v \in Cast(bs) |-> bs[v].seeds]) \in Numbers
  BY <1>1, WeightedIsNumbers DEF Scores
<1>3. QED  BY <1>2 DEF Tally

(* What is opened adds up to what was committed, if every ballot commits to what *)
(* it seals.                                                                     *)
LEMMA HonestTally ==
  ASSUME NEW bs \in Boxes, \A v \in Cast(bs) : Honest(bs[v])
  PROVE  CommitmentsMatch(Tally(bs), bs)
<1> DEFINE values == [v \in Cast(bs) |-> [c \in Choice |-> bs[v].commitments[c].value]]
           seeds  == [v \in Cast(bs) |-> [c \in Choice |-> bs[v].commitments[c].seed]]
<1>1. Weighted(bs, [v \in Cast(bs) |-> bs[v].votes]) = Weighted(bs, values)
  BY WeightedSame DEF Honest
<1>2. Weighted(bs, [v \in Cast(bs) |-> bs[v].seeds]) = Weighted(bs, seeds)
  BY WeightedSame DEF Honest
<1>3. QED  BY <1>1, <1>2 DEF CommitmentsMatch, Tally, Scores

(* And what adds up to what was committed is what the ballots come to.           *)
LEMMA HonestScores ==
  ASSUME NEW bs, \A v \in Cast(bs) : Honest(bs[v]), NEW tally, CommitmentsMatch(tally, bs)
  PROVE  tally.tallies = Scores(bs)
<1> DEFINE values == [v \in Cast(bs) |-> [c \in Choice |-> bs[v].commitments[c].value]]
<1>1. Weighted(bs, [v \in Cast(bs) |-> bs[v].votes]) = Weighted(bs, values)
  BY WeightedSame DEF Honest
<1>2. QED  BY <1>1 DEF CommitmentsMatch, Scores

(* The client's comparison and the contract's are the same, of numbers.          *)
LEMMA SameResult ==
  ASSUME NEW scores \in Numbers
  PROVE  ComputedResult(scores) = Decided(scores) /\ Decided(scores) \in Results
<1>1. scores["approve"] \in Nat /\ scores["reject"] \in Nat /\ scores["abstain"] \in Nat
  BY DEF Numbers, Choice
<1>2. QED  BY <1>1 DEF ComputedResult, Decided, Results

-------------------------------------------------------------------------------
(* Ballots and windows stay in their form                                        *)

LEMMA BallotsMade ==
  ASSUME TypeOK, NEW v \in Voter, NEW choice \in Choice, NEW weight \in Nat
  PROVE  /\ SealedBallot(v, choice, weight) \in Ballot /\ Honest(SealedBallot(v, choice, weight))
         /\ SealedBallot(v, choice, weight).key = key
         /\ PublicBallot(choice, weight) \in Ballot /\ PublicBallot(choice, weight).key = None
         /\ ProposersBallot \in Ballot /\ Honest(ProposersBallot) /\ ProposersBallot.key = None
<1>1. Values(choice) \in Numbers /\ Values("abstain") \in Numbers /\ Seed[v] \in Numbers
  BY VotersAssumption DEF Values, Numbers, Choice
<1>2. key \in Key \union {None}
  BY DEF TypeOK
<1> HIDE DEF Values
<1>3. SealedBallot(v, choice, weight) \in Ballot
  <2>1. [c \in Choice |-> [value |-> Values(choice)[c], seed |-> Seed[v][c]]] \in [Choice -> [value : Nat, seed : Nat]]
    BY <1>1 DEF Numbers
  <2>2. QED  BY <1>1, <1>2, <2>1 DEF SealedBallot, Ballot
<1>4. PublicBallot(choice, weight) \in Ballot
  <2>1. [c \in Choice |-> [value |-> 0, seed |-> 0]] \in [Choice -> [value : Nat, seed : Nat]]
    OBVIOUS
  <2>2. [c \in Choice |-> 0] \in Numbers
    BY DEF Numbers
  <2>3. QED  BY <1>1, <2>1, <2>2 DEF PublicBallot, Ballot
<1>5. ProposersBallot \in Ballot
  <2>1. [c \in Choice |-> [value |-> Values("abstain")[c], seed |-> 0]] \in [Choice -> [value : Nat, seed : Nat]]
    BY <1>1 DEF Numbers
  <2>2. [c \in Choice |-> 0] \in Numbers
    BY DEF Numbers
  <2>3. QED  BY <1>1, <2>1, <2>2 DEF ProposersBallot, Ballot
<1>6. Honest(SealedBallot(v, choice, weight)) /\ Honest(ProposersBallot)
  BY DEF SealedBallot, ProposersBallot, Honest
<1>7. QED  BY <1>3, <1>4, <1>5, <1>6 DEF SealedBallot, PublicBallot, ProposersBallot

(* What is sent is one of the two kinds of ballots.                              *)
LEMMA SendVoteFacts ==
  ASSUME TypeOK, NEW v \in Voter, NEW choice \in Choice, SendVote(v, choice)
  PROVE  /\ UNCHANGED <<chain, keys, desk>>
         /\ \E b \in Ballot : /\ sent' = [sent EXCEPT ![v] = b]
                              /\ vote.public => b.key = None
                              /\ ~vote.public => Honest(b) /\ b.key = key
<1>1. PICK weight \in Offered(v) :
        \/ vote.public /\ sent' = [sent EXCEPT ![v] = PublicBallot(choice, weight)]
        \/ ~vote.public /\ sent' = [sent EXCEPT ![v] = SealedBallot(v, choice, weight)]
  BY DEF SendVote
<1>2. weight \in Nat
  <2>1. PICK power \in PowersRead(v) : weight \in Weights(power)
    BY DEF Offered
  <2>2. power \in TokenPowers(v) \union {Units[v]}
    BY DEF PowersRead
  <2>3. QED  BY <2>1, <2>2, WeightsAssumption
<1>3. QED  BY <1>1, <1>2, BallotsMade DEF SendVote

(* One window changes, to w.                                                     *)
OneWindow(m, w) == w \in Window /\ windows' = [windows EXCEPT ![m] = w]

LEMMA ShutWindow == Shut \in Window /\ Shut.at = "shut"
BY DEF Shut, Window

LEMMA WindowAt ==
  ASSUME NEW w \in Window, NEW n \in {"shut", "key", "confirm", "done"}
  PROVE  LET x == [w EXCEPT !.at = n]
         IN  /\ x \in Window /\ x.at = n /\ x.tally = w.tally
             /\ x.basis = w.basis /\ x.result = w.result
<1>1. SUFFICES ASSUME NEW x, x = [w EXCEPT !.at = n]
               PROVE  /\ x \in Window /\ x.at = n /\ x.tally = w.tally
                      /\ x.basis = w.basis /\ x.result = w.result
  OBVIOUS
<1>2. x = [at |-> n, tally |-> w.tally, basis |-> w.basis, result |-> w.result]
  BY <1>1 DEF Window
<1>3. QED  BY <1>2 DEF Window

(* A window that is through its count, of ballots bs.                            *)
Counted(w, bs) ==
  /\ w.at = "confirm" /\ w.basis = bs /\ w.result = ComputedResult(Scores(bs))
  /\ ~vote.public => w.tally = Tally(bs)

LEMMA DecidingFacts ==
  ASSUME TypeOK, NEW m \in Maintainer,
         \/ OpenWindow(m) \/ BackToKey(m) \/ CloseWindow(m) \/ ExecuteFails(m)
         \/ \E k \in Key : UseFile(m, k)
  PROVE  /\ UNCHANGED <<chain, keys, sent, seen>>
         /\ opened' \in {opened, opened + 1}
         /\ \E w \in Window : /\ windows' = [windows EXCEPT ![m] = w]
                              /\ w.at \in {"shut", "key"} \/ \E bs \in Boxes : Counted(w, bs)
<1>1. ballots \in Boxes /\ seen[m].votes \in Boxes /\ windows[m] \in Window
  BY DEF TypeOK, Page
<1>2. \A bs \in Boxes : /\ Scores(bs) \in Numbers /\ Tally(bs) \in [tallies : Numbers, seeds : Numbers]
                        /\ Tally(bs).tallies = Scores(bs)
                        /\ ComputedResult(Scores(bs)) \in Results
  BY TallyTyped, SameResult
<1>3. CASE OpenWindow(m)
  <2>1. CASE vote.public
    <3> DEFINE w == [at |-> "confirm", tally |-> None, basis |-> seen[m].votes,
                     result |-> ComputedResult(Scores(seen[m].votes))]
    <3>1. w \in Window /\ Counted(w, seen[m].votes)
      BY <1>1, <1>2, <2>1 DEF Window, Counted
    <3>2. QED  BY <1>1, <1>3, <2>1, <3>1 DEF OpenWindow
  <2>2. CASE ~vote.public
    <3>1. [Shut EXCEPT !.at = "key"] \in Window /\ [Shut EXCEPT !.at = "key"].at = "key"
      BY ShutWindow, WindowAt
    <3>2. QED  BY <1>3, <2>2, <3>1 DEF OpenWindow
  <2>3. QED  BY <2>1, <2>2
<1>4. ASSUME NEW k \in Key, UseFile(m, k)
      PROVE  /\ UNCHANGED <<chain, keys, sent, seen, opened>>
             /\ \E w \in Window : windows' = [windows EXCEPT ![m] = w] /\ Counted(w, ballots)
  <2> DEFINE w == [at |-> "confirm", tally |-> Tally(ballots), basis |-> ballots,
                   result |-> ComputedResult(Tally(ballots).tallies)]
  <2>1. w \in Window /\ Counted(w, ballots)
    BY <1>1, <1>2 DEF Window, Counted
  <2>2. QED  BY <1>4, <2>1 DEF UseFile
<1>5. CASE BackToKey(m)
  <2>1. windows' = [windows EXCEPT ![m] = [windows[m] EXCEPT !.at = "key"]]
    BY <1>5 DEF BackToKey
  <2>2. [windows[m] EXCEPT !.at = "key"] \in Window /\ [windows[m] EXCEPT !.at = "key"].at = "key"
    BY <1>1, WindowAt
  <2>3. QED  BY <1>5, <2>1, <2>2 DEF BackToKey
<1>6. CASE CloseWindow(m) \/ ExecuteFails(m)
  BY <1>6, ShutWindow DEF CloseWindow, ExecuteFails
<1>7. QED  BY <1>1, <1>3, <1>4, <1>5, <1>6

LEMMA ExecuteFacts ==
  ASSUME TypeOK, NEW m \in Maintainer, Execute(m)
  PROVE  /\ UNCHANGED <<vote, ballots, ended, keys, sent, opened>> /\ Reread(m)
         /\ windows[m].at = "confirm" /\ status = "active"
         /\ \/ vote.public /\ status' = Decided(Scores(ballots))
            \/ /\ ~vote.public /\ CommitmentsMatch(windows[m].tally, ballots)
               /\ status' = Decided(windows[m].tally.tallies)
         /\ \E w \in Window : /\ windows' = [windows EXCEPT ![m] = w] /\ w.at = "done"
                              /\ w.result = windows[m].result /\ w.basis = windows[m].basis
<1>1. windows[m] \in Window
  BY DEF TypeOK
<1>2. windows' = [windows EXCEPT ![m] = [windows[m] EXCEPT !.at = "done"]]
  BY DEF Execute
<1>3. QED  BY <1>1, <1>2, WindowAt DEF Execute

LEMMA BoxWritten ==
  ASSUME NEW box \in Boxes, NEW v \in Voter, NEW b \in Ballot \union {None}
  PROVE  [box EXCEPT ![v] = b] \in Boxes
BY DEF Boxes

(* A page that reads the proposal shows what there is to read.                   *)
LEMMA ProposalTyped ==
  ASSUME ballots \in Boxes, status \in Results \union {"active"}
  PROVE  Proposal \in Page
BY DEF Proposal, NoBallots, Page, Cast, Boxes

LEMMA RereadTyped ==
  ASSUME TypeOK, NEW p, Reread(p), ballots' \in Boxes, status' \in Results \union {"active"}
  PROVE  seen' \in [Maintainer -> Page]
<1>1. Proposal' \in Page
  BY DEF Proposal, NoBallots, Page, Cast, Boxes
<1>2. QED  BY <1>1 DEF Reread, TypeOK

(* A ballot lands or is lost, or one is removed.                                 *)
BallotMoves(v) == VoteLands(v) \/ VoteFails(v) \/ \E m \in Maintainer : RemoveVote(m, v)

LEMMA MoveFacts ==
  ASSUME TypeOK, NEW v \in Voter, BallotMoves(v)
  PROVE  /\ UNCHANGED <<vote, ended, status, keys, windows, opened>>
         /\ status = "active" \/ ballots' = ballots
         /\ \A u \in Voter : /\ sent'[u] = sent[u] \/ sent'[u] = None
                             /\ ballots'[u] \in {ballots[u], sent[u], None}
         /\ ballots' \in Boxes /\ sent' \in Boxes /\ seen' \in [Maintainer -> Page]
<1>1. ballots \in Boxes /\ sent \in Boxes /\ sent[v] \in Ballot \union {None}
  BY DEF TypeOK, Boxes
<1>2. /\ UNCHANGED <<vote, ended, status, keys, windows, opened>>
      /\ status = "active" \/ ballots' = ballots
      /\ \/ ballots' = ballots \/ ballots' = [ballots EXCEPT ![v] = sent[v]]
         \/ ballots' = [ballots EXCEPT ![v] = None]
      /\ sent' = sent \/ sent' = [sent EXCEPT ![v] = None]
      /\ seen' = seen \/ \E p : Reread(p)
  BY DEF BallotMoves, VoteLands, VoteFails, RemoveVote, Takes, chain, keys, desk
<1>3. ballots' \in Boxes /\ sent' \in Boxes
  BY <1>1, <1>2, BoxWritten
<1>4. seen' \in [Maintainer -> Page]
  BY <1>2, <1>3, RereadTyped DEF TypeOK
<1>5. \A u \in Voter : /\ sent'[u] = sent[u] \/ sent'[u] = None
                      /\ ballots'[u] \in {ballots[u], sent[u], None}
  BY <1>1, <1>2 DEF Boxes
<1>6. QED  BY <1>2, <1>3, <1>4, <1>5

LEMMA BallotsTyped == Init => TypeOK
<1> SUFFICES ASSUME Init  PROVE TypeOK
  OBVIOUS
<1>1. key \in Key \union {None}
  BY DEF Init
<1>2. PublicBallot("abstain", 0) \in Ballot
  <2>1. Values("abstain") \in Numbers /\ [c \in Choice |-> 0] \in Numbers
    BY DEF Values, Numbers
  <2>2. [c \in Choice |-> [value |-> 0, seed |-> 0]] \in [Choice -> [value : Nat, seed : Nat]]
    OBVIOUS
  <2>3. QED  BY <2>1, <2>2 DEF PublicBallot, Ballot
<1>3. ProposersBallot \in Ballot
  <2>1. Values("abstain") \in Numbers /\ [c \in Choice |-> 0] \in Numbers
    BY DEF Values, Numbers
  <2> HIDE DEF Values
  <2>2. [c \in Choice |-> [value |-> Values("abstain")[c], seed |-> 0]] \in [Choice -> [value : Nat, seed : Nat]]
    BY <2>1 DEF Numbers
  <2>3. QED  BY <2>1, <2>2 DEF ProposersBallot, Ballot
<1>4. ballots \in Boxes
  BY <1>2, <1>3 DEF Init, Boxes
<1>5. sent \in Boxes
  BY DEF Init, Boxes
<1>6. windows \in [Maintainer -> Window]
  BY ShutWindow DEF Init
<1>7. seen \in [Maintainer -> Page]
  BY <1>4, ProposalTyped DEF Init
<1>8. QED  BY <1>1, <1>4, <1>5, <1>6, <1>7 DEF Init, TypeOK, Results

(* Every step of a vote is one of these.                                         *)
LEMMA BallotSteps ==
  ASSUME [Next]_vars
  PROVE  \/ \E v \in Voter : BallotMoves(v) \/ \E choice \in Choice : SendVote(v, choice)
         \/ \E m \in Maintainer : PublishKey(m) \/ DropDraft(m) \/ \E k \in Key : NewKey(m, k)
         \/ \E m \in Maintainer :
              \/ OpenWindow(m) \/ BackToKey(m) \/ CloseWindow(m) \/ ExecuteFails(m)
              \/ \E k \in Key : UseFile(m, k)
         \/ \E m \in Maintainer : Execute(m)
         \/ End \/ (\E m \in Maintainer : Refetch(m)) \/ UNCHANGED vars
BY DEF Next, Voting, Keeping, Deciding, BallotMoves

LEMMA BallotsStepTyped == TypeOK /\ [Next]_vars => TypeOK'
<1> SUFFICES ASSUME TypeOK, [Next]_vars  PROVE TypeOK'
  OBVIOUS
<1>1. ASSUME NEW v \in Voter, BallotMoves(v)  PROVE TypeOK'
  BY <1>1, MoveFacts DEF TypeOK, keys
<1>2. ASSUME NEW v \in Voter, NEW choice \in Choice, SendVote(v, choice)  PROVE TypeOK'
  <2>1. sent' \in Boxes /\ UNCHANGED <<chain, keys, desk>>
    BY <1>2, SendVoteFacts, BoxWritten DEF TypeOK
  <2>2. QED  BY <2>1 DEF TypeOK, chain, keys, desk
<1>3. ASSUME NEW m \in Maintainer, PublishKey(m) \/ DropDraft(m) \/ \E k \in Key : NewKey(m, k)
      PROVE  TypeOK'
  <2>1. /\ key' \in Key \union {None}
        /\ files' \in [Maintainer -> SUBSET Key] /\ drafts' \in [Maintainer -> Key \union {None}]
    BY <1>3 DEF PublishKey, DropDraft, NewKey, TypeOK
  <2>2. UNCHANGED <<chain, desk, sent>>
    BY <1>3 DEF PublishKey, DropDraft, NewKey
  <2>3. QED  BY <2>1, <2>2 DEF TypeOK, chain, desk
<1>4. ASSUME NEW m \in Maintainer,
              \/ OpenWindow(m) \/ BackToKey(m) \/ CloseWindow(m) \/ ExecuteFails(m)
              \/ \E k \in Key : UseFile(m, k)
      PROVE  TypeOK'
  <2>1. UNCHANGED <<chain, keys, sent, seen>> /\ windows' \in [Maintainer -> Window]
    BY <1>4, DecidingFacts DEF TypeOK
  <2>2. QED  BY <2>1 DEF TypeOK, chain, keys
<1>5. ASSUME NEW m \in Maintainer, Execute(m)  PROVE TypeOK'
  <2>1. UNCHANGED <<vote, ballots, ended, keys, sent>> /\ windows' \in [Maintainer -> Window]
    BY <1>5, ExecuteFacts DEF TypeOK
  <2>2. status' \in Results
    BY <1>5, ExecuteFacts DEF Decided, Results
  <2>3. seen' \in [Maintainer -> Page]
    BY <1>5, <2>1, <2>2, ExecuteFacts, RereadTyped DEF TypeOK
  <2>4. QED  BY <2>1, <2>2, <2>3 DEF TypeOK, keys
<1>6. ASSUME NEW m \in Maintainer, Refetch(m)  PROVE TypeOK'
  <2>1. UNCHANGED <<chain, keys, sent, windows>> /\ seen' = [seen EXCEPT ![m] = Proposal]
    BY <1>6 DEF Refetch
  <2>2. Proposal \in Page
    BY ProposalTyped DEF TypeOK
  <2>3. QED  BY <2>1, <2>2 DEF TypeOK, chain, keys
<1>7. ASSUME End \/ UNCHANGED vars  PROVE TypeOK'
  BY <1>7 DEF End, vars, TypeOK, keys, desk
<1>8. QED  BY <1>1, <1>2, <1>3, <1>4, <1>5, <1>6, <1>7, BallotSteps

-------------------------------------------------------------------------------
(* Ballots can be opened *)

(* What is on file stays there.                                                  *)
LEMMA FilesGrow ==
  ASSUME TypeOK, [Next]_vars
  PROVE  \A m \in Maintainer : files[m] \subseteq files'[m]
<1>1. files' = files \/ \E m \in Maintainer, k \in Key : files' = [files EXCEPT ![m] = @ \union {k}]
  <2>1. ASSUME NEW v \in Voter, NEW choice \in Choice, SendVote(v, choice)  PROVE files' = files
    BY <2>1, SendVoteFacts DEF keys
  <2>2. ASSUME NEW m \in Maintainer,
              \/ OpenWindow(m) \/ BackToKey(m) \/ CloseWindow(m) \/ ExecuteFails(m)
              \/ \E k \in Key : UseFile(m, k)
        PROVE  files' = files
    BY <2>2, DecidingFacts DEF keys
  <2>3. ASSUME NEW m \in Maintainer, Execute(m)  PROVE files' = files
    BY <2>3, ExecuteFacts DEF keys
  <2>4. ASSUME NEW v \in Voter, BallotMoves(v)  PROVE files' = files
    BY <2>4, MoveFacts DEF keys
  <2>5. ASSUME NEW m \in Maintainer, PublishKey(m) \/ DropDraft(m)  PROVE files' = files
    BY <2>5 DEF PublishKey, DropDraft
  <2>6. ASSUME NEW m \in Maintainer, NEW k \in Key, NewKey(m, k)
        PROVE  files' = [files EXCEPT ![m] = @ \union {k}]
    BY <2>6 DEF NewKey
  <2>7. ASSUME End \/ (\E m \in Maintainer : Refetch(m)) \/ UNCHANGED vars  PROVE files' = files
    BY <2>7 DEF End, Refetch, vars, keys
  <2>8. QED  BY <2>1, <2>2, <2>3, <2>4, <2>5, <2>6, <2>7, BallotSteps
<1>2. QED  BY <1>1 DEF TypeOK

LEMMA StepKeys == TypeOK /\ KeysInv /\ [Next]_vars => KeysInv'
<1> SUFFICES ASSUME TypeOK, KeysInv, [Next]_vars  PROVE KeysInv'
  OBVIOUS
<1>1. ASSUME NEW k, OnFile(k)  PROVE OnFile(k)'
  BY <1>1, FilesGrow DEF OnFile
<1>2. CASE UNCHANGED <<key, drafts, sent, ballots>>
  <2>1. \A m \in Maintainer : drafts[m] # None => drafts[m] \in files'[m]
    BY FilesGrow DEF KeysInv
  <2>2. QED  BY <1>1, <1>2, <2>1 DEF KeysInv, OnFile
<1>3. ASSUME UNCHANGED keys,
             \A v \in Voter : sent'[v] = sent[v] \/ sent'[v] = None \/ sent'[v].key \in {None, key},
             \A v \in Voter : ballots'[v] \in {ballots[v], sent[v], None}
      PROVE  KeysInv'
  <2>1. key' = key /\ drafts' = drafts /\ files' = files
    BY <1>3 DEF keys
  <2>2. QED  BY <1>3, <2>1 DEF KeysInv, OnFile
<1>4. ASSUME NEW v \in Voter, BallotMoves(v)  PROVE KeysInv'
  BY <1>3, <1>4, MoveFacts
<1>5. ASSUME NEW v \in Voter, NEW choice \in Choice, SendVote(v, choice)  PROVE KeysInv'
  <2>1. PICK b \in Ballot : sent' = [sent EXCEPT ![v] = b] /\ b.key \in {None, key}
    BY <1>5, SendVoteFacts DEF TypeOK
  <2>2. UNCHANGED keys /\ ballots' = ballots
    BY <1>5, SendVoteFacts DEF chain
  <2>3. \A u \in Voter : sent'[u] = sent[u] \/ sent'[u].key \in {None, key}
    BY <2>1 DEF TypeOK, Boxes
  <2>4. QED  BY <1>3, <2>2, <2>3
<1>6. ASSUME NEW m \in Maintainer, PublishKey(m) \/ DropDraft(m)  PROVE KeysInv'
  <2>1. /\ drafts' = [drafts EXCEPT ![m] = None] /\ files' = files /\ sent' = sent /\ ballots' = ballots
        /\ key' = key \/ (drafts[m] # None /\ key' = drafts[m])
    BY <1>6 DEF PublishKey, DropDraft, chain
  <2>2. \A n \in Maintainer : drafts'[n] = drafts[n] \/ drafts'[n] = None
    BY <2>1 DEF TypeOK
  <2>3. QED  BY <2>1, <2>2 DEF KeysInv, OnFile
<1>7. ASSUME NEW m \in Maintainer, NEW k \in Key, NewKey(m, k)  PROVE KeysInv'
  <2>1. /\ drafts' = [drafts EXCEPT ![m] = k] /\ files' = [files EXCEPT ![m] = @ \union {k}]
        /\ UNCHANGED <<key, sent, ballots>>
    BY <1>7 DEF NewKey, chain
  <2>2. \A n \in Maintainer : drafts'[n] # None => drafts'[n] \in files'[n]
    BY <2>1, FilesGrow DEF KeysInv, TypeOK
  <2>3. QED  BY <1>1, <2>1, <2>2 DEF KeysInv, OnFile
<1>8. ASSUME NEW m \in Maintainer,
              \/ OpenWindow(m) \/ BackToKey(m) \/ CloseWindow(m) \/ ExecuteFails(m)
              \/ \E k \in Key : UseFile(m, k)
      PROVE  KeysInv'
  BY <1>2, <1>8, DecidingFacts DEF chain, keys
<1>9. ASSUME NEW m \in Maintainer, Execute(m)  PROVE KeysInv'
  BY <1>2, <1>9, ExecuteFacts DEF keys
<1>10. ASSUME End \/ (\E m \in Maintainer : Refetch(m)) \/ UNCHANGED vars  PROVE KeysInv'
  BY <1>2, <1>10 DEF End, Refetch, vars, chain, keys
<1>11. QED  BY <1>4, <1>5, <1>6, <1>7, <1>8, <1>9, <1>10, BallotSteps

-------------------------------------------------------------------------------
(* Results *)

LEMMA StepHonest == TypeOK /\ HonestInv /\ [Next]_vars => HonestInv'
<1> SUFFICES ASSUME TypeOK, HonestInv, [Next]_vars  PROVE HonestInv'
  OBVIOUS
<1>1. ASSUME vote' = vote,
             \A v \in Voter : /\ sent'[v] = sent[v] \/ sent'[v] = None
                                 \/ (~vote.public => Honest(sent'[v]))
                              /\ ballots'[v] \in {ballots[v], sent[v], None}
      PROVE  HonestInv'
  BY <1>1 DEF HonestInv, Honest
<1>2. ASSUME NEW v \in Voter, BallotMoves(v)  PROVE HonestInv'
  BY <1>1, <1>2, MoveFacts
<1>3. ASSUME NEW v \in Voter, NEW choice \in Choice, SendVote(v, choice)  PROVE HonestInv'
  <2>1. PICK b \in Ballot : sent' = [sent EXCEPT ![v] = b] /\ (~vote.public => Honest(b))
    BY <1>3, SendVoteFacts
  <2>2. vote' = vote /\ ballots' = ballots
    BY <1>3, SendVoteFacts DEF chain
  <2>3. \A u \in Voter : sent'[u] = sent[u] \/ (~vote.public => Honest(sent'[u]))
    BY <2>1 DEF TypeOK, Boxes
  <2>4. QED  BY <1>1, <2>2, <2>3
<1>4. CASE UNCHANGED <<vote, sent, ballots>>
  BY <1>1, <1>4
<1>5. ASSUME NEW m \in Maintainer, PublishKey(m) \/ DropDraft(m) \/ \E k \in Key : NewKey(m, k)
      PROVE  HonestInv'
  BY <1>4, <1>5 DEF PublishKey, DropDraft, NewKey, chain
<1>6. ASSUME NEW m \in Maintainer,
              \/ OpenWindow(m) \/ BackToKey(m) \/ CloseWindow(m) \/ ExecuteFails(m)
              \/ \E k \in Key : UseFile(m, k)
      PROVE  HonestInv'
  BY <1>4, <1>6, DecidingFacts DEF chain
<1>7. ASSUME NEW m \in Maintainer, Execute(m)  PROVE HonestInv'
  BY <1>4, <1>7, ExecuteFacts
<1>8. ASSUME End \/ (\E m \in Maintainer : Refetch(m)) \/ UNCHANGED vars  PROVE HonestInv'
  BY <1>4, <1>8 DEF End, Refetch, vars, chain
<1>9. QED  BY <1>2, <1>3, <1>5, <1>6, <1>7, <1>8, BallotSteps

WindowOK(w) ==
  /\ w.at = "confirm" => /\ w.basis \in Boxes
                         /\ w.result = ComputedResult(Scores(w.basis))
                         /\ ~vote.public => w.tally = Tally(w.basis)
  /\ w.at = "done" => /\ status # "active"
                      /\ (vote.public => w.basis = ballots)
                           => w.result = status /\ status = Decided(Scores(ballots))

LEMMA WindowParts == WindowInv <=> \A m \in Maintainer : WindowOK(windows[m])
BY DEF WindowInv, WindowOK

(* A window that is through stays true: nothing is voted, removed or decided any  *)
(* more.                                                                          *)
LEMMA WindowKept ==
  ASSUME NEW w, WindowOK(w), vote' = vote,
         status = "active" \/ (status' = status /\ ballots' = ballots)
  PROVE  WindowOK(w)'
BY DEF WindowOK

LEMMA StepWindows == TypeOK /\ HonestInv /\ WindowInv /\ [Next]_vars => WindowInv'
<1> SUFFICES ASSUME TypeOK, HonestInv, WindowInv, [Next]_vars  PROVE WindowInv'
  OBVIOUS
<1>1. ASSUME vote' = vote, windows' = windows,
             status = "active" \/ (status' = status /\ ballots' = ballots)
      PROVE  WindowInv'
  <2>1. \A m \in Maintainer : status = "active" => windows[m].at # "done"
    BY DEF WindowInv
  <2>2. QED  BY <1>1, <2>1 DEF WindowInv
<1>2. ASSUME NEW v \in Voter, BallotMoves(v)  PROVE WindowInv'
  BY <1>1, <1>2, MoveFacts
<1>3. ASSUME NEW v \in Voter, NEW choice \in Choice, SendVote(v, choice)  PROVE WindowInv'
  BY <1>1, <1>3, SendVoteFacts DEF chain, desk
<1>4. ASSUME NEW m \in Maintainer, PublishKey(m) \/ DropDraft(m) \/ \E k \in Key : NewKey(m, k)
      PROVE  WindowInv'
  BY <1>1, <1>4 DEF PublishKey, DropDraft, NewKey, chain, desk
<1>5. ASSUME End \/ (\E m \in Maintainer : Refetch(m)) \/ UNCHANGED vars  PROVE WindowInv'
  BY <1>1, <1>5 DEF End, Refetch, vars, chain, desk
<1>6. ASSUME NEW m \in Maintainer,
              \/ OpenWindow(m) \/ BackToKey(m) \/ CloseWindow(m) \/ ExecuteFails(m)
              \/ \E k \in Key : UseFile(m, k)
      PROVE  WindowInv'
  <2>1. UNCHANGED <<vote, ballots, status>>
    BY <1>6, DecidingFacts DEF chain
  <2>2. PICK w \in Window : /\ windows' = [windows EXCEPT ![m] = w]
                            /\ w.at \in {"shut", "key"} \/ \E bs \in Boxes : Counted(w, bs)
    BY <1>6, DecidingFacts
  <2>3. \A n \in Maintainer : windows'[n] = IF n = m THEN w ELSE windows[n]
    BY <2>2 DEF TypeOK
  <2>4. QED  BY <2>1, <2>2, <2>3 DEF WindowInv, Counted
<1>7. ASSUME NEW m \in Maintainer, Execute(m)  PROVE WindowInv'
  <2>1. /\ UNCHANGED <<vote, ballots>> /\ windows[m].at = "confirm" /\ status = "active"
        /\ \/ vote.public /\ status' = Decided(Scores(ballots))
           \/ /\ ~vote.public /\ CommitmentsMatch(windows[m].tally, ballots)
              /\ status' = Decided(windows[m].tally.tallies)
    BY <1>7, ExecuteFacts
  <2>2. PICK w \in Window : /\ windows' = [windows EXCEPT ![m] = w] /\ w.at = "done"
                            /\ w.result = windows[m].result /\ w.basis = windows[m].basis
    BY <1>7, ExecuteFacts
  <2>3. \A n \in Maintainer : windows'[n] = IF n = m THEN w ELSE windows[n]
    BY <2>2 DEF TypeOK
  <2>4. /\ w.basis \in Boxes /\ w.result = ComputedResult(Scores(w.basis))
        /\ ~vote.public => windows[m].tally.tallies = Scores(w.basis)
    BY <2>1, <2>2, TallyTyped DEF WindowInv
  <2>5. w.result = Decided(Scores(w.basis))
    BY <2>4, TallyTyped, SameResult
  <2>6. status' = Decided(Scores(ballots)) /\ status' \in Results
    <3>1. \A v \in Cast(ballots) : ~vote.public => Honest(ballots[v])
      BY DEF HonestInv, Cast
    <3>2. status' = Decided(Scores(ballots))
      BY <2>1, <3>1, HonestScores
    <3>3. QED  BY <3>2, TallyTyped, SameResult DEF TypeOK
  <2>7. (vote.public => w.basis = ballots) => w.result = status'
    BY <2>1, <2>4, <2>5, <2>6
  <2>8. status' # "active"
    BY <2>6 DEF Results
  <2>9. \A n \in Maintainer \ {m} : windows[n].at # "done"
    BY <2>1 DEF WindowInv
  <2>10. QED  BY <2>1, <2>2, <2>3, <2>6, <2>7, <2>8, <2>9 DEF WindowInv
<1>8. QED  BY <1>2, <1>3, <1>4, <1>5, <1>6, <1>7, BallotSteps

LEMMA BallotsInit == Init => BallotsInv
<1> SUFFICES ASSUME Init  PROVE BallotsInv
  OBVIOUS
<1>1. \A v \in Voter : /\ sent[v] = None
                       /\ ballots[v] \in {None, IF vote.public THEN PublicBallot("abstain", 0) ELSE ProposersBallot}
  BY DEF Init
<1>2. PublicBallot("abstain", 0).key = None /\ ProposersBallot.key = None /\ Honest(ProposersBallot)
  BY DEF PublicBallot, ProposersBallot, Honest
<1>3. KeysInv
  BY <1>1, <1>2 DEF Init, KeysInv
<1>4. HonestInv
  BY <1>1, <1>2 DEF HonestInv
<1>5. WindowInv
  BY ShutWindow DEF Init, WindowInv
<1>6. QED  BY <1>3, <1>4, <1>5, BallotsTyped DEF BallotsInv

LEMMA BallotsStep == BallotsInv /\ [Next]_vars => BallotsInv'
BY BallotsStepTyped, StepKeys, StepHonest, StepWindows DEF BallotsInv

(* Every ballot, every window and every file stays in its form, for any voters,   *)
(* maintainers, powers and random numbers.                                        *)
THEOREM BallotsTypeCorrect == Spec => []TypeOK
<1>1. BallotsInv => TypeOK
  BY DEF BallotsInv
<1>2. QED  BY <1>1, BallotsInit, BallotsStep, PTL DEF Spec

(* Every sealed ballot can be opened: handleToggleAnonymous downloads the file    *)
(* with the private key before the public one can be published, and no ballot is  *)
(* sealed under any other key.                                                    *)
THEOREM BallotsCanBeOpened == Spec => []SealedBallotsCanBeOpened
<1>1. BallotsInv => SealedBallotsCanBeOpened
  BY DEF BallotsInv, KeysInv, OnFile, SealedBallotsCanBeOpened, Cast
<1>2. QED  BY <1>1, BallotsInit, BallotsStep, PTL DEF Spec

(* What computeAnonymousVotingData adds up is what the contract compares with the *)
(* commitments of the ballots, if they are still those that were counted.         *)
THEOREM TalliesAreAccepted == Spec => []TallyIsAccepted
<1>1. BallotsInv => TallyIsAccepted
  <2> SUFFICES ASSUME BallotsInv, NEW m \in Maintainer,
                      ~vote.public, windows[m].at = "confirm", windows[m].basis = ballots
               PROVE  CommitmentsMatch(windows[m].tally, ballots)
    BY DEF TallyIsAccepted
  <2>1. windows[m].tally = Tally(ballots) /\ ballots \in Boxes
    BY DEF BallotsInv, WindowInv
  <2>2. \A v \in Cast(ballots) : Honest(ballots[v])
    BY DEF BallotsInv, HonestInv, Cast
  <2>3. QED  BY <2>1, <2>2, HonestTally
<1>2. QED  BY <1>1, BallotsInit, BallotsStep, PTL DEF Spec

(* The result a window shows (computedResult) is what the contract came to        *)
(* (tallies_to_result) and what its ballots come to, whatever the weights and     *)
(* whichever ballots were removed: of an anonymous vote always, as the contract   *)
(* takes no other tally; of a public one if the page had read the ballots since   *)
(* the last of them was cast or removed.                                          *)
THEOREM ResultsAreOfBallots == Spec => []ResultIsOfBallots
<1>1. BallotsInv => ResultIsOfBallots
  BY DEF BallotsInv, WindowInv, ResultIsOfBallots
<1>2. QED  BY <1>1, BallotsInit, BallotsStep, PTL DEF Spec

-------------------------------------------------------------------------------
(* Proposing: what is written and what is sent                                   *)

OutcomeCall == P!Address \X P!Function

Job == [at : P!Sent \cup {"setup"}, valid : BOOLEAN, anonymous : BOOLEAN, end : Nat, clicked : Nat,
        calls : Seq(OutcomeCall), written : [1 .. 3 -> OutcomeCall],
        described : [1 .. 3 -> OutcomeCall], reviewed : [1 .. 3 -> OutcomeCall]]

View    == [open : BOOLEAN, step : 1 .. 9, result : {"none", "error", "live"}, loading : BOOLEAN]
Draft   == [valid : BOOLEAN, anonymous : BOOLEAN, configured : BOOLEAN, end : Nat]
Outcome == [shown : BOOLEAN, mode : P!Mode, address : P!Address, fn : P!Function]

FormTyped ==
  /\ window \in View /\ draft \in Draft /\ outcomes \in [P!Decision -> Outcome]
  /\ jobs \in Seq(Job) /\ now \in Nat

(* The end that was sent is what the contract accepts until the hour to spare is *)
(* over.                                                                         *)
InTime(j) ==
  j.at \in {"sign", "upload", "send"} =>
    j.clicked + MinPeriod + Margin <= j.end /\ j.end <= j.clicked + MaxPeriod

CallsOK(j) ==
  /\ P!Entries(j.calls) \subseteq P!Entries(j.described)
  /\ P!Entries(j.reviewed) \ {P!NoCall} \subseteq P!Entries(j.calls)

JobOK(j) == j.valid /\ j.clicked <= now /\ InTime(j) /\ CallsOK(j)

(* Past the first step the draft is one that passed its checks; what goes on     *)
(* behind a closed window shows steps from which none of the first five is       *)
(* reached.                                                                      *)
CheckedInv == window.step \in 2 .. 5 => draft.valid

FormInv == FormTyped /\ CheckedInv /\ \A i \in DOMAIN jobs : JobOK(jobs[i])

LEMMA ClampedInTime ==
  ASSUME now \in Nat, NEW end \in Nat
  PROVE  /\ P!Clamped(end) \in Nat
         /\ now + MinPeriod + Margin <= P!Clamped(end) /\ P!Clamped(end) <= now + MaxPeriod
BY PeriodsAssumption DEF P!Clamped, P!Larger, P!Smaller

(* Three calls that may be missing, one after the other: the calls that are      *)
(* there.                                                                        *)
LEMMA CallsAreThere ==
  ASSUME NEW all \in [1 .. 3 -> OutcomeCall],
         NEW calls, calls = P!IfAny(all[1]) \o P!IfAny(all[2]) \o P!IfAny(all[3])
  PROVE  calls \in Seq(OutcomeCall) /\ P!Entries(calls) = P!Entries(all) \ {P!NoCall}
<1>1. ASSUME NEW c \in OutcomeCall
      PROVE  /\ P!IfAny(c) \in Seq(OutcomeCall)
             /\ Range(P!IfAny(c)) = {c} \ {P!NoCall}
  <2>1. CASE c # P!NoCall
    <3>1. P!IfAny(c) = <<c>>
      BY <2>1 DEF P!IfAny
    <3>2. <<c>> \in Seq(OutcomeCall) /\ Range(<<c>>) = {c}
      BY DEF Range
    <3>3. QED  BY <2>1, <3>1, <3>2
  <2>2. CASE c = P!NoCall
    <3>1. P!IfAny(c) = <<>>
      BY <2>2 DEF P!IfAny
    <3>2. <<>> \in Seq(OutcomeCall) /\ Range(<<>>) = {}
      BY DEF Range
    <3>3. QED  BY <2>2, <3>1, <3>2
  <2>3. QED  BY <2>1, <2>2
<1>2. all[1] \in OutcomeCall /\ all[2] \in OutcomeCall /\ all[3] \in OutcomeCall
  OBVIOUS
<1> DEFINE first == P!IfAny(all[1])  second == P!IfAny(all[2])  third == P!IfAny(all[3])
<1>3. /\ first \in Seq(OutcomeCall) /\ second \in Seq(OutcomeCall) /\ third \in Seq(OutcomeCall)
      /\ Range(first) = {all[1]} \ {P!NoCall} /\ Range(second) = {all[2]} \ {P!NoCall}
      /\ Range(third) = {all[3]} \ {P!NoCall}
  BY <1>1, <1>2
<1>4. calls = first \o second \o third
  OBVIOUS
<1> HIDE DEF first, second, third
<1>5. first \o second \in Seq(OutcomeCall) /\ Range(first \o second) = Range(first) \cup Range(second)
  BY <1>3, ConcatProperties, RangeConcatenation
<1>6. calls \in Seq(OutcomeCall) /\ Range(calls) = Range(first \o second) \cup Range(third)
  <2> DEFINE two == first \o second
  <2>1. two \in Seq(OutcomeCall) /\ calls = two \o third
    BY <1>4, <1>5
  <2> HIDE DEF two
  <2>2. two \o third \in Seq(OutcomeCall) /\ Range(two \o third) = Range(two) \cup Range(third)
    BY <1>3, <2>1, ConcatProperties, RangeConcatenation
  <2>3. QED  BY <2>1, <2>2 DEF two
<1>7. P!Entries(calls) = Range(calls)
  BY DEF Range, P!Entries
<1>8. P!Entries(all) = {all[1], all[2], all[3]}
  BY DEF P!Entries
<1>9. QED  BY <1>3, <1>5, <1>6, <1>7, <1>8

(* What a click sends: a file that describes every call, and every call that was *)
(* reviewed.                                                                     *)
LEMMA NewJobOK ==
  ASSUME FormTyped, draft.valid, NEW at \in {"sign", "setup"}
  PROVE  /\ P!NewJob(at) \in Job /\ CallsOK(P!NewJob(at))
         /\ P!NewJob(at).valid /\ P!NewJob(at).clicked = now /\ P!NewJob(at).at = at
         /\ P!NewJob(at).end = draft.end
<1> DEFINE written   == P!AllCollected
           described == [i \in 1 .. 3 |-> P!Described(P!PerDecision[i])]
           reviewed  == [i \in 1 .. 3 |-> P!Reviewed(P!PerDecision[i])]
<1>1. \A i \in 1 .. 3 : P!PerDecision[i] \in Outcome
  BY DEF FormTyped, P!PerDecision, P!Decision, P!Decisions
<1>2. ASSUME NEW o \in Outcome
      PROVE  /\ P!Collected(o) \in OutcomeCall /\ P!Described(o) \in OutcomeCall
             /\ P!Reviewed(o) \in OutcomeCall
             /\ P!Collected(o) # P!NoCall => P!Described(o) = P!Collected(o)
             /\ P!Reviewed(o) # P!NoCall => P!Reviewed(o) = P!Collected(o)
  <2>1. P!NoCall \in OutcomeCall
    <3>1. P!NoAddress \in P!Address /\ P!NoFn \in P!Function
      BY DEF P!Address, P!Function
    <3>2. QED  BY <3>1 DEF P!NoCall, OutcomeCall
  <2>2. P!Call(o) \in OutcomeCall
    BY DEF P!Call, OutcomeCall, Outcome
  <2>3. QED  BY <2>1, <2>2 DEF P!Collected, P!Described, P!Reviewed
<1>3. /\ written \in [1 .. 3 -> OutcomeCall] /\ described \in [1 .. 3 -> OutcomeCall]
      /\ reviewed \in [1 .. 3 -> OutcomeCall]
  BY <1>1, <1>2 DEF P!AllCollected
<1>4. \A i \in 1 .. 3 : /\ written[i] # P!NoCall => described[i] = written[i]
                        /\ reviewed[i] # P!NoCall => reviewed[i] = written[i]
  BY <1>1, <1>2 DEF P!AllCollected
<1>5. P!Calls = P!IfAny(written[1]) \o P!IfAny(written[2]) \o P!IfAny(written[3])
  BY DEF P!Calls
<1>6. P!NewJob(at) = [at |-> at, valid |-> draft.valid, anonymous |-> draft.anonymous,
                      end |-> draft.end, clicked |-> now, calls |-> P!Calls,
                      written |-> written, described |-> described, reviewed |-> reviewed]
  BY DEF P!NewJob
<1> HIDE DEF written, described, reviewed
<1>7. P!Calls \in Seq(OutcomeCall) /\ P!Entries(P!Calls) = P!Entries(written) \ {P!NoCall}
  BY <1>3, <1>5, CallsAreThere
<1>8. P!Entries(P!Calls) \subseteq P!Entries(described)
  BY <1>3, <1>4, <1>7 DEF P!Entries
<1>9. P!Entries(reviewed) \ {P!NoCall} \subseteq P!Entries(P!Calls)
  BY <1>3, <1>4, <1>7 DEF P!Entries
<1>10. CallsOK(P!NewJob(at))
  BY <1>6, <1>8, <1>9 DEF CallsOK
<1>11. at \in P!Sent \cup {"setup"}
  BY DEF P!Sent
<1>12. P!NewJob(at) \in Job
  BY <1>3, <1>6, <1>7, <1>11 DEF Job, FormTyped, Draft
<1>13. QED  BY <1>6, <1>10, <1>12

(* What changes on the screen.                                                   *)
LEMMA ViewChanges ==
  ASSUME window \in View
  PROVE  /\ \A n \in 1 .. 9 : P!GoTo(n) => window' \in View /\ window'.step = n
         /\ \A open \in BOOLEAN : window' = [window EXCEPT !.open = open]
              => window' \in View /\ window'.step = window.step
         /\ \A loading \in BOOLEAN : window' = [window EXCEPT !.loading = loading]
              => window' \in View /\ window'.step = window.step
         /\ \A result \in {"none", "error", "live"} : window' = [window EXCEPT !.result = result]
              => window' \in View /\ window'.step = window.step
         /\ \A result \in {"none", "error", "live"} :
              window' = [window EXCEPT !.result = result, !.loading = FALSE]
              => window' \in View /\ window'.step = window.step
         /\ window' = P!Shut => window' \in View /\ window'.step = 1
<1>1. ASSUME NEW n \in 1 .. 9, P!GoTo(n)  PROVE window' \in View /\ window'.step = n
  BY <1>1 DEF View, P!GoTo
<1>2. ASSUME NEW open \in BOOLEAN, window' = [window EXCEPT !.open = open]
      PROVE  window' \in View /\ window'.step = window.step
  BY <1>2 DEF View
<1>3. ASSUME NEW loading \in BOOLEAN, window' = [window EXCEPT !.loading = loading]
      PROVE  window' \in View /\ window'.step = window.step
  BY <1>3 DEF View
<1>4. ASSUME NEW result \in {"none", "error", "live"}, window' = [window EXCEPT !.result = result]
      PROVE  window' \in View /\ window'.step = window.step
  BY <1>4 DEF View
<1>5. ASSUME NEW result \in {"none", "error", "live"},
             window' = [window EXCEPT !.result = result, !.loading = FALSE]
      PROVE  window' \in View /\ window'.step = window.step
  BY <1>5 DEF View
<1>6. window' = P!Shut => window' \in View /\ window'.step = 1
  BY DEF View, P!Shut
<1>7. QED  BY <1>1, <1>2, <1>3, <1>4, <1>5, <1>6

(* Where the member goes and what is written leaves what was sent alone.         *)
LEMMA Written ==
  ASSUME FormInv,
         \/ P!Open \/ P!Close \/ P!Continue \/ P!Next3 \/ P!Back
         \/ P!Write \/ P!ToggleAnonymous \/ P!ResetKeys \/ P!Outline
         \/ \E day \in Dates : P!PickDate(day)
         \/ P!Tick
  PROVE  FormInv'
<1>1. ASSUME FormTyped', CheckedInv', jobs' = jobs, now' >= now, now' \in Nat  PROVE FormInv'
  <2>1. ASSUME NEW i \in DOMAIN jobs  PROVE JobOK(jobs[i])'
    <3>1. jobs[i] \in Job /\ JobOK(jobs[i]) /\ now \in Nat
      BY DEF FormInv, FormTyped
    <3>2. jobs[i].clicked <= now'
      BY <1>1, <3>1 DEF JobOK, Job
    <3>3. QED  BY <1>1, <3>1, <3>2 DEF JobOK, InTime, CallsOK
  <2>2. QED  BY <1>1, <2>1 DEF FormInv
<1>2. window \in View /\ draft \in Draft /\ FormTyped /\ CheckedInv /\ now \in Nat
  BY DEF FormInv, FormTyped
<1>3. CASE P!Open \/ P!Close
  <2>1. window' \in View /\ window'.step \in {window.step, 1}
    BY <1>2, <1>3, ViewChanges DEF P!Open, P!Close
  <2>2. UNCHANGED <<draft, outcomes, jobs, now>>
    BY <1>3 DEF P!Open, P!Close
  <2>3. QED  BY <1>1, <1>2, <2>1, <2>2 DEF FormTyped, CheckedInv
<1>4. CASE P!Continue
  <2>1. P!Shut \in View /\ P!Shut.step = 1
    BY DEF P!Shut, View
  <2>2. P!NewDraft \in Draft
    BY PeriodsAssumption DEF P!NewDraft, Draft
  <2>3. P!NewOutcome \in Outcome
    BY DEF P!NewOutcome, Outcome, P!Mode, P!Address, P!Function
  <2>4. QED  BY <1>1, <1>2, <1>4, <2>1, <2>2, <2>3 DEF P!Continue, FormTyped, CheckedInv
<1>5. CASE P!Next3
  <2>1. UNCHANGED <<outcomes, jobs, now>>
    BY <1>5 DEF P!Next3
  <2>2. CASE \E n \in 1 .. 2 : P!OnStep(n) /\ draft.valid /\ P!GoTo(n + 1) /\ UNCHANGED draft
    <3>1. window' \in View /\ draft' = draft /\ draft.valid
      BY <1>2, <2>2 DEF P!GoTo, View
    <3>2. QED  BY <1>1, <1>2, <2>1, <3>1 DEF FormTyped, CheckedInv
  <2>3. CASE P!OnStep(3) /\ P!GoTo(4) /\ draft' = [draft EXCEPT !.end = P!Larger(@, now + MinPeriod + Margin)]
    <3>1. window' \in View /\ window.step = 3
      BY <1>2, <2>3 DEF P!GoTo, P!OnStep, View
    <3>2. draft.end \in Nat /\ P!Larger(draft.end, now + MinPeriod + Margin) \in Nat
      BY <1>2, PeriodsAssumption DEF P!Larger, Draft
    <3>3. draft' \in Draft /\ draft'.valid = draft.valid
      BY <1>2, <2>3, <3>2 DEF Draft
    <3>4. QED  BY <1>1, <1>2, <2>1, <3>1, <3>3 DEF FormTyped, CheckedInv
  <2>4. QED  BY <1>5, <2>2, <2>3 DEF P!Next3, P!NextStep
<1>6. CASE P!Back
  <2>1. PICK n \in 1 .. 3 : /\ window.step \in 2 .. 4 /\ P!GoTo(n)
                            /\ UNCHANGED <<draft, outcomes, jobs, now>>
    BY <1>6 DEF P!Back, P!OnStep
  <2>2. window' \in View
    BY <1>2, <2>1 DEF P!GoTo, View
  <2>3. QED  BY <1>1, <1>2, <2>1, <2>2 DEF FormTyped, CheckedInv
<1>7. CASE P!Write \/ P!ToggleAnonymous \/ P!ResetKeys
  <2>1. window' = window /\ window.step = 1 /\ UNCHANGED <<outcomes, jobs, now>>
    BY <1>7 DEF P!Write, P!ToggleAnonymous, P!ResetKeys, P!OnStep
  <2>2. draft' \in Draft
    BY <1>2, <1>7 DEF P!Write, P!ToggleAnonymous, P!ResetKeys, Draft
  <2>3. QED  BY <1>1, <1>2, <2>1, <2>2 DEF FormTyped, CheckedInv
<1>8. CASE P!Outline
  <2>1. PICK d \in P!Decision : \/ P!ShowOutcome(d)
                                \/ \E m \in P!Mode : P!SetMode(d, m)
                                \/ \E a \in Contract[d] \cup {P!NoAddress} : P!TypeAddress(d, a)
                                \/ \E f \in Fn : P!PickFunction(d, f)
    BY <1>8 DEF P!Outline
  <2>2. outcomes[d] \in Outcome /\ outcomes \in [P!Decision -> Outcome]
    BY <1>2 DEF FormTyped
  <2>3. PICK o \in Outcome : outcomes' = [outcomes EXCEPT ![d] = o]
    <3>1. CASE P!ShowOutcome(d)
      <4>1. [outcomes[d] EXCEPT !.shown = ~@] \in Outcome
        BY <2>2 DEF Outcome
      <4>2. outcomes' = [outcomes EXCEPT ![d] = [outcomes[d] EXCEPT !.shown = ~@]]
        BY <3>1 DEF P!ShowOutcome
      <4>3. QED  BY <4>1, <4>2
    <3>2. ASSUME NEW m \in P!Mode, P!SetMode(d, m)
          PROVE  \E o \in Outcome : outcomes' = [outcomes EXCEPT ![d] = o]
      <4>1. [outcomes[d] EXCEPT !.mode = m] \in Outcome
        BY <2>2 DEF Outcome
      <4>2. [P!NewOutcome EXCEPT !.shown = TRUE, !.mode = m] \in Outcome
        BY DEF Outcome, P!NewOutcome, P!Address, P!Function
      <4>3. QED  BY <3>2, <4>1, <4>2 DEF P!SetMode
    <3>3. ASSUME NEW a \in Contract[d] \cup {P!NoAddress}, P!TypeAddress(d, a)
          PROVE  \E o \in Outcome : outcomes' = [outcomes EXCEPT ![d] = o]
      <4>1. a \in P!Address
        BY <3>3 DEF P!Address
      <4>2. [outcomes[d] EXCEPT !.address = a] \in Outcome
        BY <2>2, <4>1 DEF Outcome
      <4>3. outcomes' = [outcomes EXCEPT ![d] = [outcomes[d] EXCEPT !.address = a]]
        BY <3>3 DEF P!TypeAddress
      <4>4. QED  BY <4>2, <4>3
    <3>4. ASSUME NEW f \in Fn, P!PickFunction(d, f)
          PROVE  \E o \in Outcome : outcomes' = [outcomes EXCEPT ![d] = o]
      <4>1. f \in P!Function
        BY DEF P!Function
      <4>2. [outcomes[d] EXCEPT !.fn = f] \in Outcome
        BY <2>2, <4>1 DEF Outcome
      <4>3. outcomes' = [outcomes EXCEPT ![d] = [outcomes[d] EXCEPT !.fn = f]]
        BY <3>4 DEF P!PickFunction
      <4>4. QED  BY <4>2, <4>3
    <3>5. QED  BY <2>1, <3>1, <3>2, <3>3, <3>4
  <2>4. UNCHANGED <<window, draft, jobs, now>>
    BY <2>1 DEF P!ShowOutcome, P!SetMode, P!TypeAddress, P!PickFunction
  <2>5. outcomes' \in [P!Decision -> Outcome]
    BY <2>2, <2>3
  <2>6. QED  BY <1>1, <1>2, <2>4, <2>5 DEF FormTyped, CheckedInv
<1>9. ASSUME NEW day \in Dates, P!PickDate(day)  PROVE FormInv'
  <2>1. now + day \in Nat
    BY <1>2, PeriodsAssumption
  <2>2. draft' \in Draft /\ draft'.valid = draft.valid
    BY <1>2, <1>9, <2>1 DEF P!PickDate, Draft
  <2>3. UNCHANGED <<window, outcomes, jobs, now>>
    BY <1>9 DEF P!PickDate
  <2>4. QED  BY <1>1, <1>2, <2>2, <2>3 DEF FormTyped, CheckedInv
<1>10. CASE P!Tick
  <2>1. UNCHANGED <<window, draft, outcomes, jobs>> /\ now' = now + 1
    BY <1>10 DEF P!Tick
  <2>2. QED  BY <1>1, <1>2, <2>1 DEF FormTyped, CheckedInv
<1>11. QED  BY <1>3, <1>4, <1>5, <1>6, <1>7, <1>8, <1>9, <1>10

(* What is sent is the draft that passed its checks.                             *)
LEMMA SendingStarts ==
  ASSUME FormInv, P!Register \/ P!SignSetup  PROVE FormInv'
<1>1. window \in View /\ draft \in Draft /\ FormTyped /\ CheckedInv /\ now \in Nat /\ jobs \in Seq(Job)
  BY DEF FormInv, FormTyped
<1>2. UNCHANGED <<draft, outcomes, now>>
  BY DEF P!Register, P!SignSetup
<1>3. window.step \in {4, 5} /\ draft.valid
  BY <1>1 DEF P!Register, P!SignSetup, P!OnStep, CheckedInv
<1>4. window' \in View
  <2>1. \/ window' = [window EXCEPT !.result = "error"] \/ P!GoTo(5) \/ P!GoTo(6)
        \/ window' = [window EXCEPT !.loading = TRUE]
    BY DEF P!Register, P!SignSetup
  <2>2. QED
    <3>1. \A n \in {5, 6} : P!GoTo(n) => window' \in View
      BY <1>1, ViewChanges
    <3>2. QED  BY <1>1, <2>1, <3>1, ViewChanges
<1>5. PICK j \in Job : jobs' = jobs \/ (jobs' = Append(jobs, j) /\ JobOK(j))
  <2>1. CASE jobs' = jobs
    <3>1. P!NewJob("setup") \in Job
      BY <1>1, <1>3, NewJobOK
    <3>2. QED  BY <2>1, <3>1
  <2>2. CASE P!SignSetup
    <3>1. jobs' = Append(jobs, P!NewJob("setup"))
      BY <2>2 DEF P!SignSetup
    <3>2. P!NewJob("setup") \in Job /\ JobOK(P!NewJob("setup"))
      BY <1>1, <1>3, NewJobOK DEF JobOK, InTime
    <3>3. QED  BY <3>1, <3>2
  <2>3. CASE jobs' = Append(jobs, [P!NewJob("sign") EXCEPT !.end = P!Clamped(draft.end)])
    <3> DEFINE new == P!NewJob("sign")
               j   == [new EXCEPT !.end = P!Clamped(draft.end)]
    <3>1. /\ new \in Job /\ CallsOK(new) /\ new.valid /\ new.clicked = now
      BY <1>1, <1>3, NewJobOK
    <3> HIDE DEF new
    <3>2. /\ P!Clamped(draft.end) \in Nat /\ now + MinPeriod + Margin <= P!Clamped(draft.end)
          /\ P!Clamped(draft.end) <= now + MaxPeriod
      BY <1>1, ClampedInTime DEF Draft
    <3>3. /\ j \in Job /\ j.end = P!Clamped(draft.end) /\ j.clicked = now /\ j.valid
          /\ j.calls = new.calls /\ j.described = new.described /\ j.reviewed = new.reviewed
      BY <3>1, <3>2 DEF Job
    <3>4. JobOK(j)
      BY <1>1, <3>1, <3>2, <3>3 DEF JobOK, InTime, CallsOK
    <3>5. QED  BY <2>3, <3>3, <3>4 DEF new
  <2>4. QED  BY <2>1, <2>2, <2>3 DEF P!Register
<1>6. jobs' \in Seq(Job) /\ \A i \in DOMAIN jobs' : JobOK(jobs'[i])
  <2>1. CASE jobs' = jobs
    BY <1>1, <2>1 DEF FormInv
  <2>2. CASE jobs' = Append(jobs, j) /\ JobOK(j)
    <3>1. /\ jobs' \in Seq(Job) /\ Len(jobs') = Len(jobs) + 1 /\ jobs'[Len(jobs) + 1] = j
          /\ \A i \in 1 .. Len(jobs) : jobs'[i] = jobs[i]
      BY <1>1, <2>2, AppendProperties
    <3>2. DOMAIN jobs = 1 .. Len(jobs) /\ DOMAIN jobs' = 1 .. Len(jobs') /\ Len(jobs) \in Nat
      BY <1>1, <3>1
    <3>3. \A i \in DOMAIN jobs' : i \in DOMAIN jobs \/ i = Len(jobs) + 1
      BY <3>1, <3>2
    <3>4. QED  BY <2>2, <3>1, <3>2, <3>3 DEF FormInv
  <2>3. QED  BY <1>5, <2>1, <2>2
<1>7. \A i \in DOMAIN jobs' : JobOK(jobs[i])'
  BY <1>2, <1>6 DEF JobOK, InTime, CallsOK
<1>8. QED  BY <1>1, <1>2, <1>3, <1>4, <1>6, <1>7 DEF FormInv, FormTyped, CheckedInv

(* A submission goes on with what it was sent with; only a new click, or the key *)
(* that was missing, sets its end.                                               *)
LEMMA SendingGoesOn ==
  ASSUME FormInv, NEW i \in DOMAIN jobs,
         P!SetupEnds(i) \/ P!Progress(i) \/ P!Created(i) \/ P!CreationFails(i)
  PROVE  FormInv'
<1>1. window \in View /\ draft \in Draft /\ FormTyped /\ CheckedInv /\ now \in Nat /\ jobs \in Seq(Job)
  BY DEF FormInv, FormTyped
<1>2. jobs[i] \in Job /\ JobOK(jobs[i])
  BY <1>1 DEF FormInv
<1>3. UNCHANGED <<outcomes, now>>
  BY DEF P!SetupEnds, P!Progress, P!Created, P!CreationFails
<1>4. draft' \in Draft /\ draft'.valid = draft.valid
  BY <1>1 DEF P!SetupEnds, P!Progress, P!Created, P!CreationFails, Draft
<1>5. window' \in View /\ (window'.step = window.step \/ window'.step \in 6 .. 9)
  <2>1. jobs[i].at \in {"sign", "upload"} =>
          P!Shows[P!After[jobs[i].at]] \in 6 .. 9
    BY DEF P!Shows, P!After
  <2>2. CASE P!Progress(i)
    <3>1. PICK n \in 6 .. 9 : P!GoTo(n)
      BY <2>1, <2>2 DEF P!Progress
    <3>2. QED  BY <1>1, <3>1, ViewChanges
  <2>3. CASE P!Created(i)
    <3>1. PICK result \in {"none", "error", "live"} :
            window' = [window EXCEPT !.result = result, !.loading = FALSE]
      BY <2>3 DEF P!Created
    <3>2. QED  BY <1>1, <3>1, ViewChanges
  <2>4. CASE P!Fails(i)
    BY <1>1, <2>4, ViewChanges DEF P!Fails
  <2>5. CASE P!GoTo(6)
    BY <1>1, <2>5, ViewChanges
  <2>6. QED  BY <2>2, <2>3, <2>4, <2>5 DEF P!SetupEnds, P!CreationFails
<1>6. PICK j \in Job : jobs' = [jobs EXCEPT ![i] = j] /\ JobOK(j)
  <2>1. ASSUME NEW at \in P!Sent, at \in {"sign", "upload", "send"} => jobs[i].at \in {"sign", "upload", "send"}
        PROVE  LET j == [jobs[i] EXCEPT !.at = at] IN j \in Job /\ JobOK(j)
    <3> DEFINE r == jobs[i]
               j == [r EXCEPT !.at = at]
    <3>1. r \in Job /\ JobOK(r)
      BY <1>2
    <3> HIDE DEF r
    <3>2. /\ j \in Job /\ j.at = at /\ j.end = r.end /\ j.clicked = r.clicked /\ j.valid = r.valid
          /\ j.calls = r.calls /\ j.described = r.described /\ j.reviewed = r.reviewed
      BY <3>1 DEF Job
    <3>3. JobOK(j)
      BY <2>1, <3>1, <3>2 DEF JobOK, InTime, CallsOK, r
    <3>4. QED  BY <3>2, <3>3 DEF r
  <2>2. CASE P!Progress(i)
    <3>1. jobs[i].at \in {"sign", "upload"} /\ jobs' = [jobs EXCEPT ![i] = [jobs[i] EXCEPT !.at = P!After[jobs[i].at]]]
      BY <2>2 DEF P!Progress
    <3>2. P!After[jobs[i].at] \in {"upload", "send"}
      BY <3>1 DEF P!After
    <3>3. P!After[jobs[i].at] \in P!Sent
      BY <3>2 DEF P!Sent
    <3>4. QED  BY <2>1, <3>1, <3>3
  <2>3. CASE P!Created(i)
    <3>1. jobs' = [jobs EXCEPT ![i] = [jobs[i] EXCEPT !.at = "created"]]
      BY <2>3 DEF P!Created
    <3>2. QED  BY <2>1, <3>1 DEF P!Sent
  <2>4. CASE P!Fails(i)
    <3>1. jobs' = [jobs EXCEPT ![i] = [jobs[i] EXCEPT !.at = "failed"]]
      BY <2>4 DEF P!Fails
    <3>2. QED  BY <2>1, <3>1 DEF P!Sent
  <2>5. CASE jobs' = [jobs EXCEPT ![i].at = "sign", ![i].end = P!Clamped(@), ![i].clicked = now]
    <3> DEFINE r == jobs[i]
               j == [r EXCEPT !.at = "sign", !.end = P!Clamped(r.end), !.clicked = now]
    <3>1. r \in Job /\ JobOK(r)
      BY <1>2
    <3>2. jobs' = [jobs EXCEPT ![i] = j]
      BY <1>1, <1>2, <2>5 DEF Job
    <3> HIDE DEF r
    <3>3. /\ P!Clamped(r.end) \in Nat /\ now + MinPeriod + Margin <= P!Clamped(r.end)
          /\ P!Clamped(r.end) <= now + MaxPeriod
      BY <1>1, <3>1, ClampedInTime DEF Job
    <3>4. /\ j \in Job /\ j.at = "sign" /\ j.end = P!Clamped(r.end) /\ j.clicked = now /\ j.valid = r.valid
          /\ j.calls = r.calls /\ j.described = r.described /\ j.reviewed = r.reviewed
      BY <1>1, <3>1, <3>3 DEF Job, P!Sent
    <3>5. JobOK(j)
      BY <1>1, <3>1, <3>3, <3>4 DEF JobOK, InTime, CallsOK
    <3>6. QED  BY <3>2, <3>4, <3>5
  <2>6. QED  BY <2>2, <2>3, <2>4, <2>5 DEF P!SetupEnds, P!CreationFails
<1>7. jobs' \in Seq(Job) /\ \A n \in DOMAIN jobs' : JobOK(jobs'[n])
  <2>1. jobs' \in Seq(Job) /\ DOMAIN jobs' = DOMAIN jobs
    BY <1>1, <1>6, ExceptSeq
  <2>2. \A n \in DOMAIN jobs : jobs'[n] = IF n = i THEN j ELSE jobs[n]
    BY <1>1, <1>6
  <2>3. QED  BY <1>6, <2>1, <2>2 DEF FormInv
<1>8. \A n \in DOMAIN jobs' : JobOK(jobs[n])'
  BY <1>3, <1>7 DEF JobOK, InTime, CallsOK
<1>9. QED  BY <1>1, <1>3, <1>4, <1>5, <1>7, <1>8 DEF FormInv, FormTyped, CheckedInv

LEMMA FormStarts == P!Init => FormInv
<1> SUFFICES ASSUME P!Init  PROVE FormInv
  OBVIOUS
<1>1. P!Shut \in View /\ P!Shut.step = 1
  BY DEF P!Shut, View
<1>2. P!NewDraft \in Draft
  BY PeriodsAssumption DEF P!NewDraft, Draft
<1>3. P!NewOutcome \in Outcome
  BY DEF P!NewOutcome, Outcome, P!Mode, P!Address, P!Function
<1>4. <<>> \in Seq(Job) /\ DOMAIN <<>> = {}
  OBVIOUS
<1>5. QED  BY <1>1, <1>2, <1>3, <1>4 DEF P!Init, FormInv, FormTyped, CheckedInv

LEMMA FormStep == FormInv /\ [P!Next]_writing => FormInv'
<1>1. ASSUME FormInv, UNCHANGED writing  PROVE FormInv'
  BY <1>1 DEF writing, FormInv, FormTyped, CheckedInv, JobOK, InTime, CallsOK
<1>2. QED  BY <1>1, Written, SendingStarts, SendingGoesOn DEF P!Next

-------------------------------------------------------------------------------
(* Editors: what was done in a window, and what is sent from it                  *)

Item == {app, guild, Nowhere}
Wishes == [add : SUBSET Item, remove : SUBSET Item]
Reading == [asked : SUBSET Item, ends : BOOLEAN]
EditorWindow ==
  [open : BOOLEAN, shown : SUBSET Item, pending : SUBSET Item, picked : SUBSET Item,
   busy : BOOLEAN, failed : BOOLEAN, reads : SUBSET Reading, known : (SUBSET Item) \union {None},
   wish : Wishes, overtaken : BOOLEAN, applied : SUBSET Item]
ListChange ==
  [op : {"add", "remove", "replace"}, items : SUBSET Item, at : {"sent", "landed"},
   watched : BOOLEAN, wish : Wishes, known : (SUBSET Item) \union {None}, overtaken : BOOLEAN]

EditorTyped ==
  /\ kind \in {"subprojects", "conflicts", "badges", "commit"} /\ stored \subseteq Item
  /\ editor \in EditorWindow /\ changed \subseteq ListChange

(* The list that would be sent has in it what was added and not what was taken   *)
(* out, and lacks nothing else that the window knew of.                          *)
Follows(wish, items, known) ==
  /\ wish.add \subseteq items /\ wish.remove \intersect items = {}
  /\ known \ items \subseteq wish.remove

ListToSend(w) == IF kind = "badges" THEN w.picked ELSE w.shown
Known(w)      == IF kind = "subprojects" THEN w.known ELSE {}

WishedOK(w) ==
  kind # "conflicts" /\ Known(w) # None /\ ~w.overtaken => Follows(w.wish, ListToSend(w), Known(w))

ChangeOK(m) ==
  /\ m.op = "replace" <=> kind # "conflicts"
  /\ m.op = "replace" /\ m.known # None /\ ~m.overtaken => Follows(m.wish, m.items, m.known)

(* Who was put on the list of conflicts is on it, and was when the reads under   *)
(* way were asked for, so their answers have it.                                 *)
ListedOK(w) ==
  /\ kind # "conflicts" => w.applied = {}
  /\ w.applied \subseteq stored
  /\ ~w.overtaken => \A r \in w.reads : w.applied \subseteq r.asked
  /\ ~w.overtaken /\ w.reads = {} /\ ~w.failed => w.applied \subseteq w.shown

EditorInv ==
  EditorTyped /\ WishedOK(editor) /\ ListedOK(editor) /\ \A m \in changed : ChangeOK(m)

LEMMA NewEditor == E!NewWindow \in EditorWindow /\ E!NewWindow.applied = {} /\ E!NewWindow.wish = E!NoWish
                   /\ E!NewWindow.shown = {} /\ E!NewWindow.picked = {} /\ E!NewWindow.known = None
                   /\ E!NewWindow.reads = {} /\ E!NewWindow.overtaken = FALSE /\ E!NewWindow.failed = FALSE
BY DEF E!NewWindow, E!NoWish, EditorWindow, Wishes

(* A step of the window alone.                                                   *)
LEMMA EditorAlone ==
  ASSUME EditorInv, NEW w \in EditorWindow, WishedOK(w), ListedOK(w),
         editor' = w, UNCHANGED <<kind, stored, changed>>
  PROVE  EditorInv'
BY DEF EditorInv, EditorTyped, WishedOK, ListedOK, ChangeOK, ListToSend, Known

(* Which changes are sent, and with what of the window.                          *)
LEMMA ChangesMade ==
  ASSUME EditorInv, NEW op \in {"add", "remove", "replace"}, NEW items \in SUBSET Item,
         op = "replace" <=> kind # "conflicts", op = "replace" => items = ListToSend(editor)
  PROVE  E!Change(op, items) \in ListChange /\ ChangeOK(E!Change(op, items))
<1> DEFINE m == E!Change(op, items)
<1>1. m = [op |-> op, items |-> items, at |-> "sent", watched |-> TRUE, wish |-> editor.wish,
           known |-> Known(editor), overtaken |-> editor.overtaken]
  BY DEF E!Change, Known
<1>2. Known(editor) \in (SUBSET Item) \union {None} /\ editor.wish \in Wishes /\ editor.overtaken \in BOOLEAN
  BY DEF EditorInv, EditorTyped, EditorWindow, Known
<1> HIDE DEF m
<1>3. m \in ListChange
  BY <1>1, <1>2 DEF ListChange
<1>4. ChangeOK(m)
  BY <1>1 DEF ChangeOK, EditorInv, WishedOK
<1>5. QED  BY <1>3, <1>4 DEF m

LEMMA SubProjectsKept ==
  ASSUME EditorInv,
         \/ E!OpenSubProjects \/ E!SubProjectsRead \/ E!SaveNames
         \/ \E e \in {app, guild} : E!AddName(e)
         \/ \E e \in {app, guild} \union {Nowhere} : E!RemoveName(e)
  PROVE  EditorInv'
<1>1. EditorTyped /\ editor \in EditorWindow /\ WishedOK(editor) /\ ListedOK(editor) /\ stored \subseteq Item
  BY DEF EditorInv, EditorTyped
<1>2. kind = "subprojects"
  BY DEF E!OpenSubProjects, E!SubProjectsRead, E!SaveNames, E!AddName, E!RemoveName
<1>3. editor.applied = {}
  BY <1>1, <1>2 DEF ListedOK
<1>4. CASE E!OpenSubProjects
  <2> DEFINE w == [editor EXCEPT !.reads = @ \union {E!Read(FALSE)}, !.known = None,
                                 !.wish = E!NoWish, !.overtaken = FALSE, !.open = TRUE]
  <2>1. E!Read(FALSE) \in Reading
    BY <1>1 DEF E!Read, Reading
  <2>2. E!NoWish \in Wishes
    BY DEF E!NoWish, Wishes
  <2>3. w \in EditorWindow /\ w.known = None /\ w.applied = editor.applied
    BY <1>1, <2>1, <2>2 DEF EditorWindow
  <2>4. editor' = w /\ UNCHANGED <<kind, stored, changed>>
    BY <1>1, <1>4 DEF E!OpenSubProjects, E!Opening, EditorWindow
  <2> HIDE DEF w
  <2>5. WishedOK(w) /\ ListedOK(w)
    BY <1>2, <1>3, <2>3 DEF WishedOK, ListedOK, Known
  <2>6. QED  BY <2>3, <2>4, <2>5, EditorAlone
<1>5. CASE E!SubProjectsRead
  <2> DEFINE v == [editor EXCEPT !.overtaken = @ \/ editor.wish # E!NoWish]
  <2>1. PICK got \in SUBSET Item, unread \in SUBSET Item, read \in editor.reads :
          /\ UNCHANGED <<kind, stored, changed>>
          /\ \/ editor' = [[v EXCEPT !.known = got \ (unread \union {Nowhere}), !.shown = E!Names(got, unread)]
                           EXCEPT !.reads = @ \ {read}]
             \/ editor' = [[v EXCEPT !.known = None, !.shown = {}] EXCEPT !.reads = @ \ {read}]
    <3>1. \A r \in editor.reads : E!Answers(r) \subseteq SUBSET Item
      BY <1>1 DEF E!Answers, EditorWindow, Reading
    <3>2. {} \in SUBSET Item
      OBVIOUS
    <3>3. PICK read \in editor.reads :
            \/ \E got \in E!Answers(read) : \E unread \in SUBSET got :
                 E!Answer(read, [v EXCEPT !.known = got \ (unread \union {Nowhere}), !.shown = E!Names(got, unread)])
            \/ E!Answer(read, [v EXCEPT !.known = None, !.shown = {}])
      BY <1>5 DEF E!SubProjectsRead
    <3> HIDE DEF v
    <3>4. CASE E!Answer(read, [v EXCEPT !.known = None, !.shown = {}])
      BY <3>2, <3>4 DEF E!Answer
    <3>5. ASSUME NEW got \in E!Answers(read), NEW unread \in SUBSET got,
                 E!Answer(read, [v EXCEPT !.known = got \ (unread \union {Nowhere}), !.shown = E!Names(got, unread)])
          PROVE  /\ got \in SUBSET Item /\ unread \in SUBSET Item
                 /\ UNCHANGED <<kind, stored, changed>>
                 /\ editor' = [[v EXCEPT !.known = got \ (unread \union {Nowhere}), !.shown = E!Names(got, unread)]
                              EXCEPT !.reads = @ \ {read}]
      BY <3>1, <3>5 DEF E!Answer
    <3>6. CASE \E got \in E!Answers(read) : \E unread \in SUBSET got :
                 E!Answer(read, [v EXCEPT !.known = got \ (unread \union {Nowhere}), !.shown = E!Names(got, unread)])
      <4>1. PICK got \in E!Answers(read) : \E unread \in SUBSET got :
                 E!Answer(read, [v EXCEPT !.known = got \ (unread \union {Nowhere}), !.shown = E!Names(got, unread)])
        BY <3>6
      <4>2. PICK unread \in SUBSET got :
                 E!Answer(read, [v EXCEPT !.known = got \ (unread \union {Nowhere}), !.shown = E!Names(got, unread)])
        BY <4>1
      <4>3. /\ got \in SUBSET Item /\ unread \in SUBSET Item
            /\ UNCHANGED <<kind, stored, changed>>
            /\ editor' = [[v EXCEPT !.known = got \ (unread \union {Nowhere}), !.shown = E!Names(got, unread)]
                         EXCEPT !.reads = @ \ {read}]
        BY <3>5, <4>2
      <4>4. QED  BY <3>3, <4>3
    <3>7. QED  BY <3>3, <3>4, <3>6
  <2>2. E!Names(got, unread) \in SUBSET Item /\ got \ unread \subseteq E!Names(got, unread)
    BY DEF E!Names, Item
  <2>3. editor' \in EditorWindow /\ editor'.applied = editor.applied /\ editor'.wish = editor.wish
        /\ (~editor'.overtaken => editor.wish = E!NoWish)
        /\ \/ editor'.known = None
           \/ editor'.known = got \ (unread \union {Nowhere}) /\ editor'.shown = E!Names(got, unread)
    <3>1. v \in EditorWindow /\ v.applied = editor.applied /\ v.wish = editor.wish
          /\ (~v.overtaken => editor.wish = E!NoWish)
      BY <1>1 DEF EditorWindow
    <3> HIDE DEF v
    <3>2. ASSUME NEW known \in (SUBSET Item) \union {None}, NEW shown \in SUBSET Item,
                 editor' = [[v EXCEPT !.known = known, !.shown = shown] EXCEPT !.reads = @ \ {read}]
          PROVE  /\ editor' \in EditorWindow /\ editor'.applied = v.applied /\ editor'.wish = v.wish
                 /\ editor'.overtaken = v.overtaken /\ editor'.known = known /\ editor'.shown = shown
      BY <3>1, <3>2 DEF EditorWindow
    <3>3. CASE editor' = [[v EXCEPT !.known = None, !.shown = {}] EXCEPT !.reads = @ \ {read}]
      <4>1. {} \in SUBSET Item /\ None \in (SUBSET Item) \union {None}
        OBVIOUS
      <4>2. QED  BY <3>1, <3>2, <3>3, <4>1
    <3>4. CASE editor' = [[v EXCEPT !.known = got \ (unread \union {Nowhere}), !.shown = E!Names(got, unread)]
                          EXCEPT !.reads = @ \ {read}]
      <4>1. got \ (unread \union {Nowhere}) \in (SUBSET Item) \union {None}
        BY <2>1
      <4>2. QED  BY <2>2, <3>1, <3>2, <3>4, <4>1
    <3>5. QED  BY <2>1, <3>3, <3>4
  <2>4. WishedOK(editor')
    BY <1>2, <2>2, <2>3 DEF WishedOK, Known, ListToSend, Follows, E!NoWish
  <2>5. ListedOK(editor')
    BY <1>2, <1>3, <2>3 DEF ListedOK
  <2>6. QED  BY <2>1, <2>3, <2>4, <2>5, EditorAlone
<1>6. CASE E!SaveNames
  <2> DEFINE w == [editor EXCEPT !.busy = TRUE]
  <2>1. editor' = w /\ UNCHANGED <<kind, stored>> /\ changed' = changed \union {E!Change("replace", editor.shown)}
    BY <1>6 DEF E!SaveNames, E!Send
  <2>2. E!Change("replace", editor.shown) \in ListChange /\ ChangeOK(E!Change("replace", editor.shown))
    BY <1>1, <1>2, ChangesMade DEF ListToSend, EditorWindow
  <2>3. /\ w \in EditorWindow /\ w.applied = editor.applied /\ w.wish = editor.wish /\ w.known = editor.known
        /\ w.shown = editor.shown /\ w.overtaken = editor.overtaken
    BY <1>1 DEF EditorWindow
  <2> HIDE DEF w
  <2>4. WishedOK(w) /\ ListedOK(w)
    BY <1>1, <1>2, <1>3, <2>3 DEF WishedOK, ListedOK, Known, ListToSend
  <2>5. QED
    BY <1>1, <2>1, <2>2, <2>3, <2>4
    DEF EditorInv, EditorTyped, WishedOK, ListedOK, ChangeOK, Known, ListToSend
<1>7. ASSUME NEW e \in {app, guild}, E!AddName(e)  PROVE EditorInv'
  <2>1. UNCHANGED <<kind, stored, changed>>
        /\ editor' = [[editor EXCEPT !.shown = @ \union {e}]
                       EXCEPT !.wish.add = @ \union {e}, !.wish.remove = @ \ {e}]
    BY <1>7 DEF E!AddName, E!Edit, E!Wish
  <2>2. editor.wish = [add |-> editor.wish.add, remove |-> editor.wish.remove]
        /\ editor.wish \in Wishes /\ e \in Item
    BY <1>1 DEF EditorWindow, Wishes, Item
  <2>3. editor' \in EditorWindow /\ editor'.applied = editor.applied /\ editor'.known = editor.known
        /\ editor'.overtaken = editor.overtaken /\ editor'.shown = editor.shown \union {e}
        /\ editor'.wish.add = editor.wish.add \union {e} /\ editor'.wish.remove = editor.wish.remove \ {e}
    BY <1>1, <2>1, <2>2 DEF EditorWindow, Wishes
  <2>4. WishedOK(editor')
    BY <1>1, <1>2, <2>3 DEF WishedOK, Known, ListToSend, Follows
  <2>5. ListedOK(editor')
    BY <1>2, <1>3, <2>3 DEF ListedOK
  <2>6. QED  BY <2>1, <2>3, <2>4, <2>5, EditorAlone
<1>8. ASSUME NEW e \in {app, guild} \union {Nowhere}, E!RemoveName(e)  PROVE EditorInv'
  <2>1. UNCHANGED <<kind, stored, changed>>
        /\ editor' = [[editor EXCEPT !.shown = @ \ {e}]
                       EXCEPT !.wish.add = @ \ {e}, !.wish.remove = @ \union {e}]
    BY <1>8 DEF E!RemoveName, E!Edit, E!Unwish
  <2>2. editor.wish = [add |-> editor.wish.add, remove |-> editor.wish.remove]
        /\ editor.wish \in Wishes /\ e \in Item
    BY <1>1 DEF EditorWindow, Wishes, Item
  <2>3. editor' \in EditorWindow /\ editor'.applied = editor.applied /\ editor'.known = editor.known
        /\ editor'.overtaken = editor.overtaken /\ editor'.shown = editor.shown \ {e}
        /\ editor'.wish.add = editor.wish.add \ {e} /\ editor'.wish.remove = editor.wish.remove \union {e}
    BY <1>1, <2>1, <2>2 DEF EditorWindow, Wishes
  <2>4. WishedOK(editor')
    BY <1>1, <1>2, <2>3 DEF WishedOK, Known, ListToSend, Follows
  <2>5. ListedOK(editor')
    BY <1>2, <1>3, <2>3 DEF ListedOK
  <2>6. QED  BY <2>1, <2>3, <2>4, <2>5, EditorAlone
<1>9. QED  BY <1>4, <1>5, <1>6, <1>7, <1>8

LEMMA ConflictsKept ==
  ASSUME EditorInv,
         \/ E!OpenConflicts \/ E!ConflictsRead \/ E!Retry \/ E!PickAll \/ E!Unpick
         \/ E!Apply \/ E!RemovePicked
         \/ \E e \in {app, guild} : E!Pend(e) \/ E!Pick(e) \/ E!RemoveOne(e)
         \/ \E some \in SUBSET {app, guild} : E!DropPending(some)
  PROVE  EditorInv'
<1>1. EditorTyped /\ editor \in EditorWindow /\ ListedOK(editor) /\ stored \subseteq Item
  BY DEF EditorInv, EditorTyped
<1>2. kind = "conflicts"
  BY DEF E!OpenConflicts, E!ConflictsRead, E!Retry, E!PickAll, E!Unpick, E!Apply, E!RemovePicked,
         E!Pend, E!Pick, E!RemoveOne, E!DropPending, E!SendConflicts, E!Idle
<1>3. E!Read(FALSE) \in Reading /\ E!Read(FALSE).asked = stored
  BY <1>1 DEF E!Read, Reading
<1>4. ASSUME NEW w \in EditorWindow, ListedOK(w), editor' = w, UNCHANGED <<kind, stored, changed>>
      PROVE  EditorInv'
  <2>1. WishedOK(w)
    BY <1>2 DEF WishedOK
  <2>2. QED  BY <1>4, <2>1, EditorAlone
<1>5. CASE E!OpenConflicts
  <2> DEFINE w == [[E!NewWindow EXCEPT !.reads = {E!Read(FALSE)}] EXCEPT !.open = TRUE]
  <2>1. editor' = w /\ UNCHANGED <<kind, stored, changed>>
    BY <1>5 DEF E!OpenConflicts, E!Opening
  <2>2. w \in EditorWindow /\ w.applied = {}
    BY <1>3, NewEditor DEF EditorWindow
  <2> HIDE DEF w
  <2>3. ListedOK(w)
    BY <2>2 DEF ListedOK
  <2>4. QED  BY <1>4, <2>1, <2>2, <2>3
<1>6. CASE E!ConflictsRead
  <2>1. PICK read \in editor.reads, got \in SUBSET Item :
          /\ UNCHANGED <<kind, stored, changed>>
          /\ got \in {read.asked, stored}
          /\ \/ editor' = [[[editor EXCEPT !.busy = @ /\ ~read.ends] EXCEPT !.shown = got, !.failed = FALSE]
                           EXCEPT !.reads = @ \ {read}]
             \/ editor' = [[[editor EXCEPT !.busy = @ /\ ~read.ends] EXCEPT !.shown = {}, !.failed = TRUE]
                           EXCEPT !.reads = @ \ {read}]
    <3>1. \A r \in editor.reads : E!Answers(r) \subseteq SUBSET Item /\ E!Answers(r) = {r.asked, stored}
      BY <1>1 DEF E!Answers, EditorWindow, Reading
    <3> DEFINE w(read) == [editor EXCEPT !.busy = @ /\ ~read.ends]
    <3>2. PICK read \in editor.reads :
            \/ \E got \in E!Answers(read) : E!Answer(read, [w(read) EXCEPT !.shown = got, !.failed = FALSE])
            \/ E!Answer(read, [w(read) EXCEPT !.shown = {}, !.failed = TRUE])
      BY <1>6 DEF E!ConflictsRead
    <3> HIDE DEF w
    <3>3. CASE E!Answer(read, [w(read) EXCEPT !.shown = {}, !.failed = TRUE])
      <4>1. stored \in SUBSET Item /\ stored \in {read.asked, stored}
        BY <1>1
      <4>2. QED  BY <3>2, <3>3, <4>1 DEF E!Answer, w
    <3>4. ASSUME NEW got \in E!Answers(read), E!Answer(read, [w(read) EXCEPT !.shown = got, !.failed = FALSE])
          PROVE  /\ got \in SUBSET Item /\ got \in {read.asked, stored}
                 /\ UNCHANGED <<kind, stored, changed>>
                 /\ editor' = [[w(read) EXCEPT !.shown = got, !.failed = FALSE] EXCEPT !.reads = @ \ {read}]
      BY <3>1, <3>2, <3>4 DEF E!Answer
    <3>5. QED  BY <3>2, <3>3, <3>4 DEF w
  <2>2. editor' \in EditorWindow /\ editor'.applied = editor.applied /\ editor'.overtaken = editor.overtaken
        /\ editor'.reads = editor.reads \ {read}
        /\ (editor'.failed \/ editor'.shown = got)
    <3> DEFINE w == [editor EXCEPT !.busy = @ /\ ~read.ends]
    <3>1. w \in EditorWindow /\ w.applied = editor.applied /\ w.overtaken = editor.overtaken /\ w.reads = editor.reads
      BY <1>1 DEF EditorWindow
    <3> HIDE DEF w
    <3>2. ASSUME NEW shown \in SUBSET Item, NEW failed \in BOOLEAN,
                 editor' = [[w EXCEPT !.shown = shown, !.failed = failed] EXCEPT !.reads = @ \ {read}]
          PROVE  /\ editor' \in EditorWindow /\ editor'.applied = w.applied /\ editor'.overtaken = w.overtaken
                 /\ editor'.reads = w.reads \ {read} /\ editor'.failed = failed /\ editor'.shown = shown
      BY <3>1, <3>2 DEF EditorWindow
    <3>3. CASE editor' = [[w EXCEPT !.shown = {}, !.failed = TRUE] EXCEPT !.reads = @ \ {read}]
      <4>1. {} \in SUBSET Item
        OBVIOUS
      <4>2. QED  BY <3>1, <3>2, <3>3, <4>1
    <3>4. CASE editor' = [[w EXCEPT !.shown = got, !.failed = FALSE] EXCEPT !.reads = @ \ {read}]
      BY <2>1, <3>1, <3>2, <3>4
    <3>5. QED  BY <2>1, <3>3, <3>4 DEF w
  <2>3. ListedOK(editor')
    BY <1>1, <1>2, <2>1, <2>2 DEF ListedOK
  <2>4. QED  BY <1>4, <2>1, <2>2, <2>3
<1>7. CASE E!Retry
  <2> DEFINE w == [editor EXCEPT !.failed = FALSE, !.reads = @ \union {E!Read(FALSE)}]
  <2>1. editor' = w /\ UNCHANGED <<kind, stored, changed>>
    BY <1>7 DEF E!Retry, E!Edit
  <2>2. /\ w \in EditorWindow /\ w.applied = editor.applied /\ w.overtaken = editor.overtaken
        /\ w.reads = editor.reads \union {E!Read(FALSE)}
    BY <1>1, <1>3 DEF EditorWindow
  <2> HIDE DEF w
  <2>3. ListedOK(w)
    BY <1>1, <1>2, <1>3, <2>2 DEF ListedOK
  <2>4. QED  BY <1>4, <2>1, <2>2, <2>3
<1>8. ASSUME NEW w \in EditorWindow, w.applied = editor.applied, w.overtaken = editor.overtaken,
             w.reads = editor.reads, w.failed = editor.failed, w.shown = editor.shown
      PROVE  ListedOK(w)
  BY <1>1, <1>8 DEF ListedOK
<1>9. ASSUME NEW picked \in SUBSET Item, editor' = [editor EXCEPT !.picked = picked],
             UNCHANGED <<kind, stored, changed>>
      PROVE  EditorInv'
  <2>1. /\ editor' \in EditorWindow /\ editor'.applied = editor.applied /\ editor'.overtaken = editor.overtaken
        /\ editor'.reads = editor.reads /\ editor'.failed = editor.failed /\ editor'.shown = editor.shown
    BY <1>1, <1>9 DEF EditorWindow
  <2>2. QED  BY <1>4, <1>8, <1>9, <2>1
<1>10. ASSUME NEW pending \in SUBSET Item, editor' = [editor EXCEPT !.pending = pending],
              UNCHANGED <<kind, stored, changed>>
       PROVE  EditorInv'
  <2>1. /\ editor' \in EditorWindow /\ editor'.applied = editor.applied /\ editor'.overtaken = editor.overtaken
        /\ editor'.reads = editor.reads /\ editor'.failed = editor.failed /\ editor'.shown = editor.shown
    BY <1>1, <1>10 DEF EditorWindow
  <2>2. QED  BY <1>4, <1>8, <1>10, <2>1
<1>11. editor.picked \in SUBSET Item /\ editor.pending \in SUBSET Item /\ editor.shown \in SUBSET Item
  BY <1>1 DEF EditorWindow
<1>12. {app, guild} \subseteq Item
  BY DEF Item
<1>13. CASE E!PickAll \/ E!Unpick
  <2>1. PICK picked \in {{}, editor.shown} : /\ editor' = [editor EXCEPT !.picked = picked]
                                             /\ UNCHANGED <<kind, stored, changed>>
    BY <1>13 DEF E!PickAll, E!Unpick, E!Edit
  <2>2. QED  BY <1>9, <1>11, <2>1
<1>14. ASSUME NEW e \in {app, guild}, E!Pick(e)  PROVE EditorInv'
  <2>1. editor' = [editor EXCEPT !.picked = E!Toggled(editor.picked, e)] /\ UNCHANGED <<kind, stored, changed>>
    BY <1>14 DEF E!Pick, E!Edit
  <2>2. E!Toggled(editor.picked, e) \in SUBSET Item
    BY <1>11, <1>12 DEF E!Toggled
  <2>3. QED  BY <1>9, <2>1, <2>2
<1>15. ASSUME NEW e \in {app, guild}, E!Pend(e)  PROVE EditorInv'
  <2>1. editor' = [editor EXCEPT !.pending = editor.pending \union {e}] /\ UNCHANGED <<kind, stored, changed>>
    BY <1>15 DEF E!Pend, E!Edit
  <2>2. editor.pending \union {e} \in SUBSET Item
    BY <1>11, <1>12
  <2>3. QED  BY <1>10, <2>1, <2>2
<1>16. ASSUME NEW some \in SUBSET {app, guild}, E!DropPending(some)  PROVE EditorInv'
  <2>1. editor' = [editor EXCEPT !.pending = editor.pending \ some] /\ UNCHANGED <<kind, stored, changed>>
    BY <1>16 DEF E!DropPending, E!Edit
  <2>2. editor.pending \ some \in SUBSET Item
    BY <1>11
  <2>3. QED  BY <1>10, <2>1, <2>2
<1>17. ASSUME NEW op \in {"add", "remove"}, NEW items \in SUBSET Item, E!SendConflicts(op, items)
       PROVE  EditorInv'
  <2>1. editor' = [editor EXCEPT !.busy = TRUE] /\ UNCHANGED <<kind, stored>>
        /\ changed' = changed \union {E!Change(op, items)}
    BY <1>17 DEF E!SendConflicts, E!Send
  <2>2. E!Change(op, items) \in ListChange /\ ChangeOK(E!Change(op, items))
    BY <1>2, ChangesMade
  <2>3. /\ editor' \in EditorWindow /\ editor'.applied = editor.applied /\ editor'.overtaken = editor.overtaken
        /\ editor'.reads = editor.reads /\ editor'.failed = editor.failed /\ editor'.shown = editor.shown
    BY <1>1, <2>1 DEF EditorWindow
  <2>4. ListedOK(editor')
    BY <1>8, <2>3
  <2>5. QED
    BY <1>1, <1>2, <2>1, <2>2, <2>3, <2>4
    DEF EditorInv, EditorTyped, WishedOK, ListedOK, ChangeOK
<1>18. CASE E!Apply \/ E!RemovePicked
  BY <1>11, <1>17, <1>18 DEF E!Apply, E!RemovePicked
<1>19. ASSUME NEW e \in {app, guild}, E!RemoveOne(e)  PROVE EditorInv'
  BY <1>12, <1>17, <1>19 DEF E!RemoveOne
<1>20. QED  BY <1>5, <1>6, <1>7, <1>13, <1>14, <1>15, <1>16, <1>18, <1>19

LEMMA OtherListsKept ==
  ASSUME EditorInv,
         \/ E!OpenAgain \/ E!AddBadges \/ E!CommitRead \/ E!UpdateHash
         \/ \E e \in {app, guild} : E!ToggleBadge(e) \/ E!TypeHash(e)
  PROVE  EditorInv'
<1>1. EditorTyped /\ editor \in EditorWindow /\ WishedOK(editor) /\ ListedOK(editor) /\ stored \subseteq Item
  BY DEF EditorInv, EditorTyped
<1>2. kind \in {"badges", "commit"} /\ kind # "conflicts"
  BY DEF E!OpenAgain, E!AddBadges, E!CommitRead, E!UpdateHash, E!ToggleBadge, E!TypeHash
<1>3. editor.applied = {}
  BY <1>1, <1>2 DEF ListedOK
<1>4. ASSUME NEW w \in EditorWindow, w.applied = editor.applied, WishedOK(w),
             editor' = w, UNCHANGED <<kind, stored, changed>>
      PROVE  EditorInv'
  <2>1. ListedOK(w)
    BY <1>2, <1>3, <1>4 DEF ListedOK
  <2>2. QED  BY <1>4, <2>1, EditorAlone
<1>5. CASE E!OpenAgain
  <2>1. editor' = [editor EXCEPT !.open = TRUE] /\ UNCHANGED <<kind, stored, changed>>
    BY <1>5 DEF E!OpenAgain, E!Opening
  <2>2. /\ editor' \in EditorWindow /\ editor'.applied = editor.applied /\ editor'.overtaken = editor.overtaken
        /\ editor'.wish = editor.wish /\ editor'.shown = editor.shown /\ editor'.picked = editor.picked
        /\ editor'.known = editor.known
    BY <1>1, <2>1 DEF EditorWindow
  <2>3. WishedOK(editor')
    BY <1>1, <2>2 DEF WishedOK, Known, ListToSend
  <2>4. QED  BY <1>4, <2>1, <2>2, <2>3
<1>6. CASE E!AddBadges \/ E!UpdateHash
  <2>1. UNCHANGED <<kind, stored, editor>> /\ changed' = changed \union {E!Change("replace", ListToSend(editor))}
    BY <1>6 DEF E!AddBadges, E!UpdateHash, E!Send, ListToSend
  <2>2. ListToSend(editor) \in SUBSET Item
    BY <1>1 DEF ListToSend, EditorWindow
  <2>3. E!Change("replace", ListToSend(editor)) \in ListChange /\ ChangeOK(E!Change("replace", ListToSend(editor)))
    BY <1>2, <2>2, ChangesMade
  <2>4. QED
    BY <1>1, <2>1, <2>3 DEF EditorInv, EditorTyped, WishedOK, ListedOK, ChangeOK, Known, ListToSend
<1>7. CASE E!CommitRead
  <2> DEFINE v == [editor EXCEPT !.overtaken = @ \/ editor.wish # E!NoWish]
  <2>1. PICK read \in editor.reads, found \in {{app}, {}} :
          /\ UNCHANGED <<kind, stored, changed>>
          /\ \/ editor' = [[v EXCEPT !.shown = found] EXCEPT !.reads = @ \ {read}]
             \/ editor' = [editor EXCEPT !.reads = @ \ {read}]
    <3>1. PICK read \in editor.reads : \/ \E found \in {{app}, {}} : E!Answer(read, [v EXCEPT !.shown = found])
                                     \/ E!Answer(read, editor)
      BY <1>7 DEF E!CommitRead
    <3> HIDE DEF v
    <3>2. CASE E!Answer(read, editor)
      BY <3>2 DEF E!Answer
    <3>3. ASSUME NEW found \in {{app}, {}}, E!Answer(read, [v EXCEPT !.shown = found])
          PROVE  UNCHANGED <<kind, stored, changed>>
                 /\ editor' = [[v EXCEPT !.shown = found] EXCEPT !.reads = @ \ {read}]
      BY <3>3 DEF E!Answer
    <3>4. QED  BY <3>1, <3>2, <3>3
  <2>2. kind = "commit"
    BY <1>7 DEF E!CommitRead
  <2>3. CASE editor' = [editor EXCEPT !.reads = @ \ {read}]
    <3>1. /\ editor' \in EditorWindow /\ editor'.applied = editor.applied /\ editor'.overtaken = editor.overtaken
          /\ editor'.wish = editor.wish /\ editor'.shown = editor.shown /\ editor'.picked = editor.picked
          /\ editor'.known = editor.known
      BY <1>1, <2>3 DEF EditorWindow
    <3>2. WishedOK(editor')
      BY <1>1, <3>1 DEF WishedOK, Known, ListToSend
    <3>3. QED  BY <1>4, <2>1, <3>1, <3>2
  <2>4. CASE editor' = [[v EXCEPT !.shown = found] EXCEPT !.reads = @ \ {read}]
    <3>1. found \in SUBSET Item
      BY DEF Item
    <3>2. v \in EditorWindow /\ v.applied = editor.applied /\ v.wish = editor.wish
          /\ (~v.overtaken => editor.wish = E!NoWish)
      BY <1>1 DEF EditorWindow
    <3> HIDE DEF v
    <3>3. /\ editor' \in EditorWindow /\ editor'.applied = v.applied /\ editor'.wish = v.wish
          /\ editor'.overtaken = v.overtaken
      BY <2>4, <3>1, <3>2 DEF EditorWindow
    <3>4. WishedOK(editor')
      BY <2>2, <3>2, <3>3 DEF WishedOK, Known, ListToSend, Follows, E!NoWish
    <3>5. QED  BY <1>4, <2>1, <3>2, <3>3, <3>4
  <2>5. QED  BY <2>1, <2>3, <2>4
<1>8. ASSUME NEW e \in {app, guild}, E!TypeHash(e)  PROVE EditorInv'
  <2> DEFINE wish == [add |-> {e}, remove |-> {app, guild} \ {e}]
  <2>1. editor' = [editor EXCEPT !.shown = {e}, !.wish = wish] /\ UNCHANGED <<kind, stored, changed>>
        /\ kind = "commit"
    BY <1>8 DEF E!TypeHash, E!Edit
  <2>2. wish \in Wishes /\ {e} \in SUBSET Item
    BY DEF Wishes, Item
  <2>3. wish.add = {e} /\ wish.remove = {app, guild} \ {e}
    OBVIOUS
  <2> HIDE DEF wish
  <2>4. /\ editor' \in EditorWindow /\ editor'.applied = editor.applied /\ editor'.wish = wish
        /\ editor'.shown = {e}
    BY <1>1, <2>1, <2>2 DEF EditorWindow
  <2>5. WishedOK(editor')
    BY <2>1, <2>3, <2>4 DEF WishedOK, Known, ListToSend, Follows
  <2>6. QED  BY <1>4, <2>1, <2>4, <2>5
<1>9. ASSUME NEW e \in {app, guild}, E!ToggleBadge(e)  PROVE EditorInv'
  <2> DEFINE v == [editor EXCEPT !.picked = E!Toggled(@, e)]
  <2>1. /\ UNCHANGED <<kind, stored, changed>> /\ kind = "badges"
        /\ editor' = IF e \in v.picked THEN E!Wish(v, e) ELSE E!Unwish(v, e)
    BY <1>9 DEF E!ToggleBadge, E!Edit
  <2>2. E!Toggled(editor.picked, e) \in SUBSET Item /\ e \in Item
        /\ E!Toggled(editor.picked, e) \in {editor.picked \ {e}, editor.picked \union {e}}
    BY <1>1 DEF E!Toggled, EditorWindow, Item
  <2>3. v \in EditorWindow /\ v.applied = editor.applied /\ v.wish = editor.wish /\ v.overtaken = editor.overtaken
        /\ v.picked = E!Toggled(editor.picked, e)
    BY <1>1, <2>2 DEF EditorWindow
  <2> HIDE DEF v
  <2>4. v.wish = [add |-> v.wish.add, remove |-> v.wish.remove] /\ v.wish \in Wishes
    BY <2>3 DEF EditorWindow, Wishes
  <2>5. CASE e \in v.picked
    <3>1. editor' = [v EXCEPT !.wish.add = @ \union {e}, !.wish.remove = @ \ {e}]
      BY <2>1, <2>5 DEF E!Wish
    <3>2. /\ editor' \in EditorWindow /\ editor'.applied = v.applied /\ editor'.overtaken = v.overtaken
          /\ editor'.picked = v.picked
          /\ editor'.wish.add = v.wish.add \union {e} /\ editor'.wish.remove = v.wish.remove \ {e}
      BY <2>2, <2>3, <2>4, <3>1 DEF EditorWindow, Wishes
    <3>3. v.picked = editor.picked \union {e}
      BY <2>2, <2>3, <2>5
    <3>4. WishedOK(editor')
      BY <1>1, <2>1, <2>3, <3>2, <3>3 DEF WishedOK, Known, ListToSend, Follows
    <3>5. QED  BY <1>4, <2>1, <2>3, <3>2, <3>4
  <2>6. CASE e \notin v.picked
    <3>1. editor' = [v EXCEPT !.wish.add = @ \ {e}, !.wish.remove = @ \union {e}]
      BY <2>1, <2>6 DEF E!Unwish
    <3>2. /\ editor' \in EditorWindow /\ editor'.applied = v.applied /\ editor'.overtaken = v.overtaken
          /\ editor'.picked = v.picked
          /\ editor'.wish.add = v.wish.add \ {e} /\ editor'.wish.remove = v.wish.remove \union {e}
      BY <2>2, <2>3, <2>4, <3>1 DEF EditorWindow, Wishes
    <3>3. v.picked = editor.picked \ {e}
      BY <2>2, <2>3, <2>6
    <3>4. WishedOK(editor')
      BY <1>1, <2>1, <2>3, <3>2, <3>3 DEF WishedOK, Known, ListToSend, Follows
    <3>5. QED  BY <1>4, <2>1, <2>3, <3>2, <3>4
  <2>7. QED  BY <2>5, <2>6
<1>10. QED  BY <1>5, <1>6, <1>7, <1>8, <1>9

(* A change that is carried out, or that has failed, leaves the window what it   *)
(* had put on the list, if others have not taken it off.                         *)
LEMMA ChangesKept ==
  ASSUME EditorInv,
         \/ E!OthersChange \/ E!Close
         \/ \E m \in changed : E!Lands(m) \/ E!Succeeds(m) \/ E!Fails(m)
  PROVE  EditorInv'
<1>1. EditorTyped /\ editor \in EditorWindow /\ WishedOK(editor) /\ ListedOK(editor) /\ stored \subseteq Item
      /\ changed \subseteq ListChange /\ \A m \in changed : ChangeOK(m)
  BY DEF EditorInv, EditorTyped
<1>2. kind' = kind
  BY DEF E!OthersChange, E!Close, E!Lands, E!Succeeds, E!Fails
<1>3. ASSUME editor' \in EditorWindow, WishedOK(editor'), ListedOK(editor)', stored' \subseteq Item,
             changed' \subseteq ListChange, \A m \in changed' : ChangeOK(m)
      PROVE  EditorInv'
  BY <1>1, <1>2, <1>3 DEF EditorInv, EditorTyped, WishedOK, ChangeOK, Known, ListToSend
<1>4. ASSUME NEW applied \in SUBSET Item, editor' = [editor EXCEPT !.applied = applied]
      PROVE  /\ editor' \in EditorWindow /\ WishedOK(editor') /\ editor'.applied = applied
             /\ editor'.overtaken = editor.overtaken /\ editor'.reads = editor.reads
             /\ editor'.failed = editor.failed /\ editor'.shown = editor.shown
  <2>1. /\ editor' \in EditorWindow /\ editor'.applied = applied
        /\ editor'.overtaken = editor.overtaken /\ editor'.reads = editor.reads
        /\ editor'.failed = editor.failed /\ editor'.shown = editor.shown
        /\ editor'.picked = editor.picked /\ editor'.known = editor.known /\ editor'.wish = editor.wish
    BY <1>1, <1>4 DEF EditorWindow
  <2>2. QED  BY <1>1, <2>1 DEF WishedOK, Known, ListToSend
<1>5. CASE E!OthersChange
  <2>1. /\ changed' = changed /\ stored' \subseteq {app, guild}
        /\ editor' = [editor EXCEPT !.applied = editor.applied \intersect stored']
    BY <1>5 DEF E!OthersChange
  <2>2. editor.applied \intersect stored' \in SUBSET Item /\ stored' \subseteq Item
    BY <1>1, <2>1 DEF EditorWindow, Item
  <2>3. ListedOK(editor)'
    BY <1>1, <1>2, <1>4, <2>1, <2>2 DEF ListedOK
  <2>4. QED  BY <1>1, <1>3, <1>4, <2>1, <2>2, <2>3
<1>6. CASE E!Close
  <2>1. /\ stored' = stored
        /\ editor' = IF kind = "conflicts" THEN E!NewWindow ELSE [editor EXCEPT !.open = FALSE]
        /\ changed' = {[m EXCEPT !.watched = @ /\ kind # "conflicts"] : m \in changed}
    BY <1>6 DEF E!Close
  <2>2. ASSUME NEW m \in changed
        PROVE  LET q == [m EXCEPT !.watched = @ /\ kind # "conflicts"] IN q \in ListChange /\ ChangeOK(q)
    <3> DEFINE q == [m EXCEPT !.watched = @ /\ kind # "conflicts"]
    <3>1. m \in ListChange /\ ChangeOK(m)
      BY <1>1
    <3>2. /\ q \in ListChange /\ q.op = m.op /\ q.known = m.known /\ q.overtaken = m.overtaken
          /\ q.wish = m.wish /\ q.items = m.items
      BY <3>1 DEF ListChange
    <3> HIDE DEF q
    <3>3. ChangeOK(q)
      BY <3>1, <3>2 DEF ChangeOK
    <3>4. QED  BY <3>2, <3>3 DEF q
  <2>3. changed' \subseteq ListChange /\ \A m \in changed' : ChangeOK(m)
    BY <2>1, <2>2
  <2>4. CASE kind = "conflicts"
    <3>1. editor' \in EditorWindow /\ editor'.applied = {}
      BY <2>1, <2>4, NewEditor
    <3>2. WishedOK(editor') /\ ListedOK(editor)'
      BY <1>2, <2>1, <2>4, <3>1 DEF WishedOK, ListedOK
    <3>3. QED  BY <1>1, <1>3, <2>1, <2>3, <3>1, <3>2
  <2>5. CASE kind # "conflicts"
    <3>1. /\ editor' \in EditorWindow /\ editor'.applied = editor.applied
          /\ editor'.overtaken = editor.overtaken
          /\ editor'.shown = editor.shown /\ editor'.picked = editor.picked
          /\ editor'.known = editor.known /\ editor'.wish = editor.wish
      BY <1>1, <2>1, <2>5 DEF EditorWindow
    <3>2. WishedOK(editor') /\ ListedOK(editor)'
      BY <1>1, <1>2, <2>1, <2>5, <3>1 DEF WishedOK, ListedOK, Known, ListToSend
    <3>3. QED  BY <1>1, <1>3, <2>1, <2>3, <3>1, <3>2
  <2>6. QED  BY <2>4, <2>5
<1>7. ASSUME NEW m \in changed, E!Lands(m)  PROVE EditorInv'
  <2>1. /\ stored' = E!Recorded(m)
        /\ changed' = (changed \ {m}) \union {[m EXCEPT !.at = "landed"]}
        /\ editor' = [editor EXCEPT !.applied = IF m.op = "remove" THEN editor.applied \ m.items ELSE editor.applied]
    BY <1>7 DEF E!Lands
  <2>2. m \in ListChange /\ ChangeOK(m)
    BY <1>1
  <2>3. /\ m.op = "add" => stored' = stored \union m.items
        /\ m.op = "remove" => stored' = stored \ m.items
        /\ m.op = "replace" => stored' = m.items
        /\ m.op \in {"add", "remove", "replace"} /\ m.items \subseteq Item
    BY <2>1, <2>2 DEF E!Recorded, ListChange
  <2>4. stored' \subseteq Item
    BY <1>1, <2>3
  <2> DEFINE applied == IF m.op = "remove" THEN editor.applied \ m.items ELSE editor.applied
  <2>5. applied \in SUBSET Item /\ applied \subseteq editor.applied /\ applied \subseteq stored'
        /\ (kind # "conflicts" => applied = {})
    BY <1>1, <2>2, <2>3 DEF EditorWindow, ListedOK, ChangeOK
  <2>6. editor' = [editor EXCEPT !.applied = applied]
    BY <2>1
  <2> HIDE DEF applied
  <2>7. editor' \in EditorWindow /\ WishedOK(editor') /\ editor'.applied = applied
        /\ editor'.overtaken = editor.overtaken /\ editor'.reads = editor.reads
        /\ editor'.failed = editor.failed /\ editor'.shown = editor.shown
    BY <1>4, <2>5, <2>6
  <2>8. ListedOK(editor)'
    BY <1>1, <1>2, <2>5, <2>7 DEF ListedOK
  <2>9. [m EXCEPT !.at = "landed"] \in ListChange /\ ChangeOK([m EXCEPT !.at = "landed"])
    <3> DEFINE q == [m EXCEPT !.at = "landed"]
    <3>1. /\ q \in ListChange /\ q.op = m.op /\ q.known = m.known /\ q.overtaken = m.overtaken
          /\ q.wish = m.wish /\ q.items = m.items
      BY <2>2 DEF ListChange
    <3> HIDE DEF q
    <3>2. ChangeOK(q)
      BY <2>2, <3>1 DEF ChangeOK
    <3>3. QED  BY <3>1, <3>2 DEF q
  <2>10. changed' \subseteq ListChange /\ \A n \in changed' : ChangeOK(n)
    BY <1>1, <2>1, <2>9
  <2>11. QED  BY <1>3, <2>4, <2>7, <2>8, <2>10
<1>8. ASSUME NEW m \in changed, E!Succeeds(m)  PROVE EditorInv'
  <2>1. /\ stored' = stored /\ changed' = changed \ {m}
        /\ editor' = IF kind # "conflicts" THEN E!Closed(editor)
                     ELSE IF m.watched THEN E!ListedAgain(editor, m) ELSE editor
    BY <1>8 DEF E!Succeeds
  <2>2. changed' \subseteq ListChange /\ \A n \in changed' : ChangeOK(n)
    BY <1>1, <2>1
  <2>3. m \in ListChange
    BY <1>1
  <2>4. CASE kind \in {"subprojects", "commit"}
    <3>1. \/ editor' = [editor EXCEPT !.open = FALSE, !.busy = FALSE] \/ editor' = [editor EXCEPT !.open = FALSE]
      BY <2>1, <2>4 DEF E!Closed
    <3>2. /\ editor' \in EditorWindow /\ editor'.applied = editor.applied
          /\ editor'.overtaken = editor.overtaken
          /\ editor'.shown = editor.shown /\ editor'.picked = editor.picked
          /\ editor'.known = editor.known /\ editor'.wish = editor.wish
      BY <1>1, <3>1 DEF EditorWindow
    <3>3. WishedOK(editor') /\ ListedOK(editor)'
      BY <1>1, <1>2, <2>1, <2>4, <3>2 DEF WishedOK, ListedOK, Known, ListToSend
    <3>4. QED  BY <1>1, <1>3, <2>1, <2>2, <3>2, <3>3
  <2>5. CASE kind = "badges"
    <3>1. editor' = [editor EXCEPT !.open = FALSE, !.picked = {}, !.wish = E!NoWish]
      BY <2>1, <2>5 DEF E!Closed
    <3>2. E!NoWish \in Wishes /\ E!NoWish.add = {} /\ E!NoWish.remove = {}
      BY DEF E!NoWish, Wishes
    <3>3. /\ editor' \in EditorWindow /\ editor'.applied = editor.applied
          /\ editor'.picked = {} /\ editor'.wish = E!NoWish
      BY <1>1, <3>1, <3>2 DEF EditorWindow
    <3>4. WishedOK(editor') /\ ListedOK(editor)'
      BY <1>1, <1>2, <2>1, <2>5, <3>2, <3>3 DEF WishedOK, ListedOK, Known, ListToSend, Follows
    <3>5. QED  BY <1>1, <1>3, <2>1, <2>2, <3>3, <3>4
  <2>6. CASE kind = "conflicts" /\ m.watched
    <3> DEFINE applied == IF m.op = "add" THEN editor.applied \union (m.items \intersect stored) ELSE editor.applied
               pending == IF m.op = "add" THEN {} ELSE editor.pending
               picked  == editor.picked \ m.items
               overtaken == editor.overtaken \/ editor.reads # {}
    <3>1. editor' = [editor EXCEPT !.reads = @ \union {E!Read(TRUE)}, !.overtaken = overtaken,
                                   !.applied = applied, !.pending = pending, !.picked = picked]
      BY <2>1, <2>6 DEF E!ListedAgain
    <3>2. /\ applied \in SUBSET Item /\ pending \in SUBSET Item /\ picked \in SUBSET Item /\ overtaken \in BOOLEAN
          /\ applied \subseteq stored
      BY <1>1, <2>3 DEF EditorWindow, ListChange, ListedOK
    <3>3. E!Read(TRUE) \in Reading /\ E!Read(TRUE).asked = stored
      BY <1>1 DEF E!Read, Reading
    <3>4. ~overtaken => editor.reads = {} /\ ~editor.overtaken
      OBVIOUS
    <3> HIDE DEF applied, pending, picked, overtaken
    <3>5. /\ editor' \in EditorWindow /\ editor'.applied = applied
          /\ editor'.overtaken = overtaken /\ editor'.reads = editor.reads \union {E!Read(TRUE)}
      BY <1>1, <3>1, <3>2, <3>3 DEF EditorWindow
    <3>6. WishedOK(editor') /\ ListedOK(editor)'
      BY <1>2, <2>1, <2>6, <3>2, <3>3, <3>4, <3>5 DEF WishedOK, ListedOK
    <3>7. QED  BY <1>1, <1>3, <2>1, <2>2, <3>5, <3>6
  <2>7. CASE kind = "conflicts" /\ ~m.watched
    <3>1. editor' = editor
      BY <2>1, <2>7
    <3>2. ListedOK(editor)'
      BY <1>1, <1>2, <2>1, <3>1 DEF ListedOK
    <3>3. QED  BY <1>1, <1>3, <2>1, <2>2, <3>1, <3>2
  <2>8. QED  BY <1>1, <2>4, <2>5, <2>6, <2>7 DEF EditorTyped
<1>9. ASSUME NEW m \in changed, E!Fails(m)  PROVE EditorInv'
  <2>1. /\ stored' = stored /\ changed' = changed \ {m}
        /\ editor' = [editor EXCEPT !.busy = IF m.watched THEN FALSE ELSE @]
    BY <1>9 DEF E!Fails
  <2>2. changed' \subseteq ListChange /\ \A n \in changed' : ChangeOK(n)
    BY <1>1, <2>1
  <2>3. /\ editor' \in EditorWindow /\ editor'.applied = editor.applied
        /\ editor'.overtaken = editor.overtaken /\ editor'.reads = editor.reads /\ editor'.failed = editor.failed
        /\ editor'.shown = editor.shown /\ editor'.picked = editor.picked
        /\ editor'.known = editor.known /\ editor'.wish = editor.wish
    BY <1>1, <2>1 DEF EditorWindow
  <2>4. WishedOK(editor') /\ ListedOK(editor)'
    BY <1>1, <1>2, <2>1, <2>3 DEF WishedOK, ListedOK, Known, ListToSend
  <2>5. QED  BY <1>1, <1>3, <2>1, <2>2, <2>3, <2>4
<1>10. QED  BY <1>5, <1>6, <1>7, <1>8, <1>9

LEMMA EditorStarts == E!Init => EditorInv
<1> SUFFICES ASSUME E!Init  PROVE EditorInv
  OBVIOUS
<1>1. kind \in {"subprojects", "conflicts", "badges", "commit"} /\ stored \subseteq Item /\ changed = {}
  BY DEF E!Init, Item
<1>2. E!Read(FALSE) \in Reading
  BY <1>1 DEF E!Read, Reading
<1>3. PICK reads \in SUBSET Reading : editor = [E!NewWindow EXCEPT !.reads = reads]
  BY <1>2 DEF E!Init
<1>4. /\ editor \in EditorWindow /\ editor.applied = {} /\ editor.wish = E!NoWish /\ editor.known = None
      /\ editor.shown = {} /\ editor.picked = {}
  BY <1>3, NewEditor DEF EditorWindow
<1>5. WishedOK(editor) /\ ListedOK(editor)
  BY <1>1, <1>4 DEF WishedOK, ListedOK, Known, ListToSend, Follows, E!NoWish
<1>6. QED  BY <1>1, <1>4, <1>5 DEF EditorInv, EditorTyped

LEMMA EditorStep == EditorInv /\ (UNCHANGED editing \/ Lists) => EditorInv'
<1>1. ASSUME EditorInv, UNCHANGED editing  PROVE EditorInv'
  BY <1>1 DEF editing, EditorInv, EditorTyped, WishedOK, ListedOK, ChangeOK, Known, ListToSend
<1>2. QED  BY <1>1, SubProjectsKept, ConflictsKept, OtherListsKept, ChangesKept DEF Lists, OnLists

-------------------------------------------------------------------------------
(* Members: what is found, shown and saved                                       *)

Who  == {ann, bob}
Term == {ann, bob, app, guild}
Text == [by : Who \union {None}, at : Nat]
Lookup == [kind : {"member", "project"}, of : Term]
ProfileWindow ==
  [open : BOOLEAN, of : Who \union {None}, address : Who \union {None}, mine : BOOLEAN,
   fetches : SUBSET Text, data : Text \union {None}, lost : BOOLEAN, overtaken : BOOLEAN]
ProfileForm ==
  [kind : {None, "edit", "join"}, at : {None, "page", "found", "own"}, to : Who \union {None},
   text : Text, typed : BOOLEAN, fresh : BOOLEAN, busy : BOOLEAN, done : BOOLEAN]
ProfileSave ==
  [kind : {"edit", "join"}, at : {None, "page", "found", "own"}, text : Text,
   to : Who \union {None}, typed : BOOLEAN, fresh : BOOLEAN, watched : BOOLEAN]

MembersTyped ==
  /\ profile \in [Who -> Text \union {None}] /\ wallet \in Who /\ extension \in Who
  /\ search \in [term : Term \union {None}, loading : BOOLEAN, missing : BOOLEAN,
                 onChain : Term \union {None}]
  /\ asked \subseteq Lookup /\ \A a \in asked : a.kind = "member" => a.of \in Who
  /\ profiles \in [M!Place -> ProfileWindow]
  /\ form \in ProfileForm /\ saves \subseteq ProfileSave /\ saved \in Nat /\ raced \in BOOLEAN

(* One search at a time: all that is asked is about the term, and what was found *)
(* of another is still to be replaced.                                           *)
SearchOK ==
  /\ \A a \in asked : a.of = search.term
  /\ \/ \E a \in asked : a.kind = "project"
     \/ search.term = app
     \/ search.onChain \in {None, search.term}
  /\ (\E a \in asked : a.kind = "member") => ~profiles["found"].open

(* A window that offers the form shows the connected account, with its words.    *)
Shown(w) == IF w.data = None THEN M!Blank ELSE w.data

ShownOK(w) ==
  /\ profile[w.of] # None /\ w.data \in {None, profile[w.of]} /\ w.fetches \subseteq {profile[w.of]}
  /\ w.fetches = {} /\ ~w.lost => Shown(w) = profile[w.of]

WindowIsOf(place, w) ==
  w.open /\ w.of # None =>
    /\ w.of = IF place = "found" THEN search.term ELSE w.address
    /\ w.mine => w.of = wallet
    /\ ~w.overtaken => ShownOK(w)

(* What a form or a save that is untouched has are the words of the account.     *)
FormOK ==
  form.kind = "edit" /\ ~form.typed /\ form.fresh => profile[wallet] # None /\ form.text = profile[wallet]
SaveOK(s) ==
  s.kind = "edit" /\ ~s.typed /\ s.fresh => s.to = wallet /\ s.text = profile[wallet]

MembersInv ==
  /\ MembersTyped
  /\ \A place \in M!Place : ~profiles[place].open => profiles[place] = M!Shut
  /\ ~raced => /\ SearchOK /\ \A place \in M!Place : WindowIsOf(place, profiles[place])
               /\ FormOK /\ \A s \in saves : SaveOK(s)

LEMMA BlankIsText == M!Blank \in Text
BY DEF M!Blank, Text

LEMMA NothingShown == M!Shut \in ProfileWindow /\ ~M!Shut.open /\ M!Shut.of = None /\ M!Shut.fetches = {}
                      /\ M!Shut.data = None /\ ~M!Shut.overtaken /\ ~M!Shut.lost
                      /\ M!NoForm \in ProfileForm /\ M!NoForm.kind = None
BY BlankIsText DEF M!Shut, M!NoForm, ProfileWindow, ProfileForm

(* A search, and what comes of it.                                               *)
LEMMA SearchKept ==
  ASSUME MembersInv,
         \/ \E m \in {ann, bob} : M!SearchMember(m)
         \/ \E p \in {app, guild} : M!SearchProject(p)
         \/ \E a \in asked : M!ProjectLookedUp(a)
  PROVE  MembersInv'
<1>1. MembersTyped /\ search \in [term : Term \union {None}, loading : BOOLEAN, missing : BOOLEAN,
                                  onChain : Term \union {None}]
      /\ profiles \in [M!Place -> ProfileWindow] /\ asked \subseteq Lookup
  BY DEF MembersInv, MembersTyped
<1>2. UNCHANGED <<profile, wallet, extension, profiles, form, saves, saved>>
  BY DEF M!SearchMember, M!SearchProject, M!ProjectLookedUp, M!wallets
<1>3. ASSUME search' \in [term : Term \union {None}, loading : BOOLEAN, missing : BOOLEAN,
                          onChain : Term \union {None}],
             asked' \subseteq Lookup, \A a \in asked' : a.kind = "member" => a.of \in Who,
             raced' \in BOOLEAN, ~raced' => ~raced /\ SearchOK',
             ~raced' => \/ search'.term = search.term
                       \/ \A place \in M!Place : ~profiles[place].open
      PROVE  MembersInv'
  <2>1. MembersTyped'
    BY <1>1, <1>2, <1>3 DEF MembersTyped
  <2>2. (\A place \in M!Place : ~profiles[place].open => profiles[place] = M!Shut)'
    BY <1>2 DEF MembersInv
  <2>3. ASSUME ~raced', NEW place \in M!Place  PROVE WindowIsOf(place, profiles[place])'
    BY <1>2, <1>3, <2>3 DEF MembersInv, WindowIsOf, ShownOK, Shown
  <2>4. ASSUME ~raced'  PROVE FormOK' /\ \A s \in saves' : SaveOK(s)'
    BY <1>2, <1>3, <2>4 DEF MembersInv, FormOK, SaveOK
  <2>5. QED  BY <1>3, <2>1, <2>2, <2>3, <2>4 DEF MembersInv
<1>4. ASSUME NEW m \in {ann, bob}, M!SearchMember(m)  PROVE MembersInv'
  <2> DEFINE known == IF search.term = m THEN {} ELSE {[kind |-> "project", of |-> m]}
  <2>1. /\ \A place \in M!Place : ~profiles[place].open
        /\ search' = [search EXCEPT !.term = m, !.missing = FALSE, !.loading = TRUE]
        /\ asked' = asked \union {[kind |-> "member", of |-> m]} \union known
        /\ raced' = (raced \/ asked # {})
    BY <1>4 DEF M!SearchMember, M!Uncovered
  <2>2. [kind |-> "member", of |-> m] \in Lookup /\ known \subseteq Lookup
        /\ \A a \in known : a.kind = "project" /\ a.of = m
    BY DEF Lookup, Term
  <2>3. asked' \subseteq Lookup /\ \A a \in asked' : a.kind = "member" => a.of \in Who
    BY <1>1, <2>1, <2>2 DEF MembersTyped, Who
  <2>4. /\ search' \in [term : Term \union {None}, loading : BOOLEAN, missing : BOOLEAN,
                        onChain : Term \union {None}]
        /\ search'.term = m /\ search'.onChain = search.onChain
    BY <1>1, <2>1 DEF Term
  <2>5. raced' \in BOOLEAN /\ (~raced' => ~raced /\ asked = {})
    BY <1>1, <2>1 DEF MembersTyped
  <2>6. ASSUME ~raced'  PROVE SearchOK'
    <3>1. SearchOK /\ asked = {}
      BY <2>5, <2>6 DEF MembersInv
    <3>2. \A a \in asked' : a.of = m
      BY <2>1, <2>2, <3>1
    <3>3. \/ \E a \in asked' : a.kind = "project"
          \/ search'.term = app
          \/ search'.onChain \in {None, search'.term}
      <4>1. CASE search.term = m
        BY <2>4, <3>1, <4>1 DEF SearchOK
      <4>2. CASE search.term # m
        <5>1. [kind |-> "project", of |-> m] \in asked'
          BY <2>1, <4>2
        <5>2. QED  BY <5>1
      <4>3. QED  BY <4>1, <4>2
    <3>4. ~profiles'["found"].open
      BY <1>2, <2>1 DEF M!Place
    <3>5. QED  BY <2>4, <3>2, <3>3, <3>4 DEF SearchOK
  <2> HIDE DEF known
  <2>7. QED  BY <1>3, <2>1, <2>3, <2>4, <2>5, <2>6
<1>5. ASSUME NEW p \in {app, guild}, M!SearchProject(p)  PROVE MembersInv'
  <2> DEFINE known == IF p \in {app} THEN {} ELSE {[kind |-> "project", of |-> p]}
  <2>1. /\ \A place \in M!Place : ~profiles[place].open
        /\ search' = [search EXCEPT !.term = p, !.missing = FALSE, !.loading = @ \/ p \notin {app}]
        /\ asked' = asked \union known
        /\ raced' = (raced \/ asked # {})
    BY <1>5 DEF M!SearchProject, M!Uncovered
  <2>2. known \subseteq Lookup /\ \A a \in known : a.kind = "project" /\ a.of = p
    BY DEF Lookup, Term
  <2>3. asked' \subseteq Lookup /\ \A a \in asked' : a.kind = "member" => a.of \in Who
    BY <1>1, <2>1, <2>2 DEF MembersTyped
  <2>4. /\ search' \in [term : Term \union {None}, loading : BOOLEAN, missing : BOOLEAN,
                        onChain : Term \union {None}]
        /\ search'.term = p
    BY <1>1, <2>1 DEF Term
  <2>5. raced' \in BOOLEAN /\ (~raced' => ~raced /\ asked = {})
    BY <1>1, <2>1 DEF MembersTyped
  <2>6. ASSUME ~raced'  PROVE SearchOK'
    <3>1. \A a \in asked' : a.of = p
      BY <2>1, <2>2, <2>5, <2>6
    <3>2. p = app \/ \E a \in asked' : a.kind = "project"
      <4>1. p = app \/ [kind |-> "project", of |-> p] \in asked'
        BY <2>1
      <4>2. QED  BY <4>1
    <3>3. ~profiles'["found"].open
      BY <1>2, <2>1 DEF M!Place
    <3>4. QED  BY <2>4, <3>1, <3>2, <3>3 DEF SearchOK
  <2> HIDE DEF known
  <2>7. QED  BY <1>3, <2>1, <2>3, <2>4, <2>5, <2>6
<1>6. ASSUME NEW a \in asked, M!ProjectLookedUp(a)  PROVE MembersInv'
  <2>1. PICK found \in BOOLEAN :
          /\ search' = [search EXCEPT !.loading = FALSE, !.onChain = M!Found(a.of, found)]
          /\ asked' = asked \ {a} /\ raced' = raced
    BY <1>6 DEF M!ProjectLookedUp
  <2>2. M!Found(a.of, found) \in Term \union {None} /\ M!Found(a.of, found) \in {None, a.of}
    BY <1>1 DEF M!Found, Lookup
  <2>3. /\ search' \in [term : Term \union {None}, loading : BOOLEAN, missing : BOOLEAN,
                        onChain : Term \union {None}]
        /\ search'.term = search.term /\ search'.onChain = M!Found(a.of, found)
    BY <1>1, <2>1, <2>2
  <2>4. ASSUME ~raced'  PROVE SearchOK'
    <3>1. SearchOK /\ a.of = search.term
      BY <2>1, <2>4 DEF MembersInv, SearchOK
    <3>2. QED  BY <1>2, <2>1, <2>2, <2>3, <3>1 DEF SearchOK
  <2>5. asked' \subseteq Lookup /\ raced' \in BOOLEAN /\ \A b \in asked' : b.kind = "member" => b.of \in Who
    BY <1>1, <2>1 DEF MembersTyped
  <2>6. QED  BY <1>3, <2>1, <2>3, <2>4, <2>5
<1>7. QED  BY <1>4, <1>5, <1>6

(* The windows: what is shown of an account are its words, if they could be      *)
(* fetched and were not replaced since.                                          *)
LEMMA WindowsKept ==
  ASSUME MembersInv, NEW place \in M!Place, NEW w \in ProfileWindow,
         profiles' = [profiles EXCEPT ![place] = w],
         ~w.open => w = M!Shut,
         ~raced => WindowIsOf(place, w),
         UNCHANGED <<profile, wallet, extension, saved, raced>>,
         form' \in ProfileForm, ~raced => FormOK', saves' \subseteq ProfileSave,
         ~raced => \A s \in saves' : SaveOK(s),
         search' \in [term : Term \union {None}, loading : BOOLEAN, missing : BOOLEAN,
                     onChain : Term \union {None}],
         search'.term = search.term, asked' \subseteq asked,
         ~raced => SearchOK'
  PROVE  MembersInv'
<1>1. profiles \in [M!Place -> ProfileWindow]
  BY DEF MembersInv, MembersTyped
<1>2. \A q \in M!Place : profiles'[q] = IF q = place THEN w ELSE profiles[q]
  BY <1>1
<1>3. profiles' \in [M!Place -> ProfileWindow]
  BY <1>1
<1>4. MembersTyped'
  BY <1>3 DEF MembersInv, MembersTyped
<1>5. (\A q \in M!Place : ~profiles[q].open => profiles[q] = M!Shut)'
  BY <1>2 DEF MembersInv
<1>6. ASSUME ~raced, NEW q \in M!Place  PROVE WindowIsOf(q, profiles[q])'
  BY <1>2, <1>6 DEF MembersInv, WindowIsOf, ShownOK, Shown
<1>7. ASSUME ~raced, NEW s \in saves'  PROVE SaveOK(s)'
  BY <1>7 DEF SaveOK
<1>8. QED  BY <1>4, <1>5, <1>6, <1>7 DEF MembersInv

LEMMA FetchingKept ==
  ASSUME MembersInv,
         \/ \E a \in asked : M!MemberLookedUp(a)
         \/ M!OpenOwn
         \/ \E place \in M!Place :
              \/ M!CloseWindow(place) \/ M!OpenEdit(place)
              \/ \E text \in profiles[place].fetches : M!Fetched(place, text)
  PROVE  MembersInv'
<1>1. /\ MembersTyped /\ profile \in [Who -> Text \union {None}] /\ wallet \in Who
      /\ search \in [term : Term \union {None}, loading : BOOLEAN, missing : BOOLEAN,
                     onChain : Term \union {None}]
      /\ profiles \in [M!Place -> ProfileWindow] /\ asked \subseteq Lookup
      /\ form \in ProfileForm /\ saves \subseteq ProfileSave
      /\ \A place \in M!Place : ~profiles[place].open => profiles[place] = M!Shut
      /\ ~raced => SearchOK /\ FormOK /\ \A s \in saves : SaveOK(s)
  BY DEF MembersInv, MembersTyped
<1>2. ASSUME UNCHANGED <<profile, wallet>>, UNCHANGED form  PROVE FormOK => FormOK'
  BY <1>2 DEF FormOK
<1>3. ASSUME UNCHANGED <<search, asked>>, SearchOK, NEW place \in M!Place, NEW w \in ProfileWindow,
             profiles' = [profiles EXCEPT ![place] = w], w.open => profiles[place].open
      PROVE  SearchOK'
  BY <1>1, <1>3 DEF SearchOK, M!Place
(* What a window shows as it opens.                                              *)
<1>4. ASSUME NEW m \in Who \union {None}, NEW v \in ProfileWindow, m # None => profile[m] # None /\ m \in Who
      PROVE  /\ M!Showing(m, v) \in ProfileWindow /\ M!Showing(m, v).open /\ M!Showing(m, v).of = m
             /\ M!Showing(m, v).address = v.address /\ M!Showing(m, v).data = v.data
             /\ M!Showing(m, v).fetches = v.fetches \union
                  IF m = None \/ profile[m] = M!Blank THEN {} ELSE {profile[m]}
  <2> DEFINE fetched == IF m = None \/ profile[m] = M!Blank THEN {} ELSE {profile[m]}
  <2>1. fetched \in SUBSET Text
    BY <1>1, <1>4
  <2>2. M!Showing(m, v) = [v EXCEPT !.open = TRUE, !.of = m, !.fetches = @ \union fetched]
    BY DEF M!Showing
  <2> HIDE DEF fetched
  <2>3. /\ M!Showing(m, v) \in ProfileWindow /\ M!Showing(m, v).open /\ M!Showing(m, v).of = m
        /\ M!Showing(m, v).address = v.address /\ M!Showing(m, v).data = v.data
        /\ M!Showing(m, v).fetches = v.fetches \union fetched
    BY <2>1, <2>2 DEF ProfileWindow
  <2>4. QED  BY <2>3 DEF fetched
<1>5. ASSUME NEW place \in M!Place, NEW v \in ProfileWindow
      PROVE  /\ M!Drawn(place, v) \in ProfileWindow
             /\ M!Drawn(place, v).mine = (M!Address(place, v) = wallet)
             /\ M!Drawn(place, v).open = v.open /\ M!Drawn(place, v).of = v.of
             /\ M!Drawn(place, v).address = v.address /\ M!Drawn(place, v).fetches = v.fetches
             /\ M!Drawn(place, v).data = v.data /\ M!Drawn(place, v).lost = v.lost
             /\ M!Drawn(place, v).overtaken = v.overtaken
  <2>1. (M!Address(place, v) = wallet) \in BOOLEAN
    OBVIOUS
  <2>2. M!Drawn(place, v) = [v EXCEPT !.mine = (M!Address(place, v) = wallet)]
    BY DEF M!Drawn
  <2>3. QED  BY <2>1, <2>2 DEF ProfileWindow
<1>6. ASSUME NEW a \in asked, M!MemberLookedUp(a)  PROVE MembersInv'
  <2>1. /\ a.kind = "member" /\ asked' = asked \ {a} /\ a.of \in Who /\ a \in Lookup
        /\ UNCHANGED <<profile, wallet, extension, form, saves, saved, raced>>
    BY <1>1, <1>6 DEF M!MemberLookedUp, M!wallets, MembersTyped
  <2>2. /\ search' \in [term : Term \union {None}, loading : BOOLEAN, missing : BOOLEAN,
                        onChain : Term \union {None}]
        /\ search'.term = search.term /\ search'.onChain = search.onChain
    BY <1>1, <1>6 DEF M!MemberLookedUp
  <2>3. ASSUME SearchOK
        PROVE  /\ a.of = search.term /\ ~profiles["found"].open
               /\ \A b \in asked' : b.kind = "project" /\ b.of = search.term
               /\ \/ \E b \in asked' : b.kind = "project"
                  \/ search.term = app
                  \/ search.onChain \in {None, search.term}
    <3>1. \A b \in asked : b.of = search.term /\ b \in Lookup
      BY <1>1, <2>3 DEF SearchOK
    <3>2. \A b \in asked : b.kind = "member" => b = a
      BY <2>1, <3>1 DEF Lookup
    <3>3. \A b \in asked' : b.kind = "project" /\ b.of = search.term
      BY <2>1, <3>1, <3>2 DEF Lookup
    <3>4. \A b \in asked : b.kind = "project" => b \in asked'
      BY <2>1
    <3>5. QED  BY <2>1, <2>3, <3>1, <3>3, <3>4 DEF SearchOK
  <2>4. ASSUME SearchOK  PROVE SearchOK'
    BY <2>2, <2>3, <2>4 DEF SearchOK
  <2>5. "found" \in M!Place
    BY DEF M!Place
  <2>6. CASE profiles' = profiles
    <3>1. /\ profiles["found"] \in ProfileWindow /\ profiles' = [profiles EXCEPT !["found"] = profiles["found"]]
          /\ ~profiles["found"].open => profiles["found"] = M!Shut
          /\ ~raced => WindowIsOf("found", profiles["found"])
      BY <1>1, <2>5, <2>6 DEF MembersInv
    <3>2. ~raced => SearchOK' /\ FormOK' /\ \A s \in saves' : SaveOK(s)
      BY <1>1, <1>2, <2>1, <2>4
    <3>3. form' \in ProfileForm /\ saves' \subseteq ProfileSave /\ asked' \subseteq asked
      BY <1>1, <2>1
    <3>4. QED  BY <2>1, <2>2, <2>5, <3>1, <3>2, <3>3, WindowsKept
  <2>7. CASE profile[a.of] # None
             /\ profiles' = [profiles EXCEPT !["found"] = M!Drawn("found", M!Showing(a.of, profiles["found"]))]
    <3> DEFINE v == M!Showing(a.of, profiles["found"])
               w == M!Drawn("found", v)
    <3>1. /\ v \in ProfileWindow /\ v.open /\ v.of = a.of /\ v.data = profiles["found"].data
          /\ v.fetches = profiles["found"].fetches \union
               IF a.of = None \/ profile[a.of] = M!Blank THEN {} ELSE {profile[a.of]}
      BY <1>1, <1>4, <2>1, <2>5, <2>7
    <3> HIDE DEF v
    <3>2. /\ w \in ProfileWindow /\ w.mine = (M!Address("found", v) = wallet)
          /\ w.open /\ w.of = a.of /\ w.data = v.data /\ w.fetches = v.fetches
      BY <1>5, <2>5, <3>1
    <3>3. profiles' = [profiles EXCEPT !["found"] = w]
      BY <2>7 DEF v
    <3> HIDE DEF w
    <3>4. ASSUME ~raced  PROVE WindowIsOf("found", w)
      <4>1. profiles["found"] = M!Shut /\ a.of = search.term
        BY <1>1, <2>3, <2>5, <3>4
      <4>2. w.data = None /\ w.fetches = IF a.of = None \/ profile[a.of] = M!Blank THEN {} ELSE {profile[a.of]}
        BY <3>1, <3>2, <4>1, NothingShown
      <4>3. M!Address("found", v) = search.term
        BY DEF M!Address
      <4>4. QED  BY <2>7, <3>2, <4>1, <4>2, <4>3 DEF WindowIsOf, ShownOK, Shown
    <3>5. ~raced => SearchOK' /\ FormOK' /\ \A s \in saves' : SaveOK(s)
      BY <1>1, <1>2, <2>1, <2>4
    <3>6. form' \in ProfileForm /\ saves' \subseteq ProfileSave /\ asked' \subseteq asked
      BY <1>1, <2>1
    <3>7. QED  BY <2>1, <2>2, <2>5, <3>2, <3>3, <3>4, <3>5, <3>6, WindowsKept
  <2>8. QED  BY <1>6, <2>6, <2>7 DEF M!MemberLookedUp
<1>7. CASE M!OpenOwn
  <2>1. PICK m \in {None} \union (IF profile[wallet] = None THEN {} ELSE {wallet}) :
          profiles' = [profiles EXCEPT !["own"] = M!Drawn("own", M!Showing(m, [M!Shut EXCEPT !.address = wallet]))]
    BY <1>7 DEF M!OpenOwn
  <2>2. UNCHANGED <<profile, wallet, extension, form, saves, saved, raced, search, asked>>
    BY <1>7 DEF M!OpenOwn
  <2>3. "own" \in M!Place
    BY DEF M!Place
  <2> DEFINE u == [M!Shut EXCEPT !.address = wallet]
             v == M!Showing(m, u)
             w == M!Drawn("own", v)
  <2>4. u \in ProfileWindow /\ u.address = wallet /\ u.fetches = {} /\ u.data = None
    BY <1>1, NothingShown DEF ProfileWindow
  <2> HIDE DEF u
  <2>5. /\ v \in ProfileWindow /\ v.open /\ v.of = m /\ v.data = None /\ v.address = wallet
        /\ v.fetches = IF m = None \/ profile[m] = M!Blank THEN {} ELSE {profile[m]}
        /\ m # None => m = wallet /\ profile[m] # None
    <3>1. m \in Who \union {None} /\ (m # None => m = wallet) /\ (m # None => profile[m] # None /\ m \in Who)
      BY <1>1, <2>1
    <3>2. /\ M!Showing(m, u) \in ProfileWindow /\ M!Showing(m, u).open /\ M!Showing(m, u).of = m
          /\ M!Showing(m, u).address = u.address /\ M!Showing(m, u).data = u.data
          /\ M!Showing(m, u).fetches = u.fetches \union
               IF m = None \/ profile[m] = M!Blank THEN {} ELSE {profile[m]}
      <4>1. m \in Who \union {None} /\ u \in ProfileWindow
        BY <2>4, <3>1
      <4> HIDE DEF v, w
      <4>2. QED  BY <1>4, <3>1, <4>1
    <3>3. QED  BY <2>4, <3>1, <3>2
  <2> HIDE DEF v
  <2>6. /\ w \in ProfileWindow /\ w.open /\ w.of = m /\ w.data = None /\ w.fetches = v.fetches
        /\ w.address = wallet
    BY <1>5, <2>3, <2>5
  <2>7. profiles' = [profiles EXCEPT !["own"] = w]
    BY <2>1 DEF u, v
  <2> HIDE DEF w
  <2>8. WindowIsOf("own", w)
    BY <2>5, <2>6 DEF WindowIsOf, ShownOK, Shown
  <2>9. SearchOK => SearchOK'
    <3>1. profiles'["found"] = profiles["found"]
      BY <1>1, <2>7 DEF M!Place
    <3>2. QED  BY <2>2, <3>1 DEF SearchOK
  <2>10. ~raced => SearchOK' /\ FormOK' /\ \A s \in saves' : SaveOK(s)
    BY <1>1, <1>2, <2>2, <2>9
  <2>11. form' \in ProfileForm /\ saves' \subseteq ProfileSave /\ asked' \subseteq asked
    BY <1>1, <2>2
  <2>12. QED  BY <1>1, <2>2, <2>3, <2>6, <2>7, <2>8, <2>10, <2>11, WindowsKept
<1>8. ASSUME NEW place \in M!Place, M!CloseWindow(place)  PROVE MembersInv'
  <2>1. /\ profiles' = [profiles EXCEPT ![place] = M!Shut]
        /\ saves' = {[s EXCEPT !.at = IF @ = place THEN None ELSE @] : s \in saves}
        /\ UNCHANGED <<profile, wallet, extension, form, saved, raced, search, asked>>
    BY <1>8 DEF M!CloseWindow, M!wallets, M!desk
  <2>2. ASSUME NEW s \in saves
        PROVE  LET q == [s EXCEPT !.at = IF @ = place THEN None ELSE @]
               IN  q \in ProfileSave /\ (SaveOK(s) => SaveOK(q))
    <3> DEFINE q == [s EXCEPT !.at = IF @ = place THEN None ELSE @]
    <3>1. /\ q \in ProfileSave /\ q.kind = s.kind /\ q.typed = s.typed /\ q.fresh = s.fresh
          /\ q.to = s.to /\ q.text = s.text
      BY <1>1 DEF ProfileSave
    <3> HIDE DEF q
    <3>2. QED  BY <3>1 DEF SaveOK, q
  <2>3. saves' \subseteq ProfileSave /\ (~raced => \A s \in saves' : SaveOK(s))
    BY <1>1, <2>1, <2>2
  <2>4. WindowIsOf(place, M!Shut)
    BY NothingShown DEF WindowIsOf
  <2>5. ~raced => SearchOK' /\ FormOK'
    BY <1>1, <1>2, <1>3, <2>1, NothingShown
  <2>6. QED  BY <1>1, <2>1, <2>3, <2>4, <2>5, NothingShown, WindowsKept
<1>9. ASSUME NEW place \in M!Place, M!OpenEdit(place)  PROVE MembersInv'
  <2> DEFINE w == profiles[place]
             v == M!Drawn(place, w)
             text == IF w.data = None THEN M!Blank ELSE w.data
             fresh == ~w.lost /\ ~w.overtaken
  <2>1. /\ form' = [M!NoForm EXCEPT !.kind = "edit", !.at = place, !.text = text, !.fresh = fresh]
        /\ profiles' = [profiles EXCEPT ![place] = v]
        /\ UNCHANGED <<profile, wallet, extension, saves, saved, raced, search, asked>>
        /\ w.of # None /\ w.fetches = {} /\ w.mine
    BY <1>9 DEF M!OpenEdit, M!EditOffered, M!wallets, M!desk
  <2>2. w \in ProfileWindow /\ w.open /\ place \in {None, "page", "found", "own"}
    BY <1>1, <2>1, NothingShown DEF M!Place
  <2>3. text \in Text /\ fresh \in BOOLEAN /\ text = Shown(w)
    BY <2>2, BlankIsText DEF ProfileWindow, Shown
  <2>4. ~raced => WindowIsOf(place, w)
    BY DEF MembersInv
  <2> HIDE DEF w
  <2>5. /\ v \in ProfileWindow /\ v.mine = (M!Address(place, w) = wallet)
        /\ v.open = w.open /\ v.of = w.of /\ v.address = w.address /\ v.fetches = w.fetches
        /\ v.data = w.data /\ v.lost = w.lost /\ v.overtaken = w.overtaken
    BY <1>5, <2>2
  <2> HIDE DEF v
  <2>6. M!Address(place, w) = IF place = "found" THEN search.term ELSE w.address
    BY DEF M!Address
  <2>7. ~raced => WindowIsOf(place, v)
    BY <2>4, <2>5, <2>6 DEF WindowIsOf, ShownOK, Shown
  <2> HIDE DEF text, fresh
  <2>8. /\ form' \in ProfileForm /\ form'.kind = "edit" /\ form'.text = text /\ form'.fresh = fresh
    BY <2>1, <2>2, <2>3, NothingShown DEF ProfileForm
  <2>9. ASSUME ~raced  PROVE FormOK'
    <3>1. w.of = wallet /\ (~w.overtaken => ShownOK(w))
      BY <2>1, <2>2, <2>4, <2>9 DEF WindowIsOf
    <3>2. fresh => ~w.lost /\ ~w.overtaken
      BY DEF fresh
    <3>3. QED  BY <2>1, <2>3, <2>8, <3>1, <3>2 DEF FormOK, ShownOK
  <2>10. ~raced => SearchOK' /\ \A s \in saves' : SaveOK(s)
    <3>1. v.open => profiles[place].open
      BY <2>5 DEF w
    <3>2. QED  BY <1>1, <1>3, <2>1, <2>5, <3>1
  <2>11. saves' \subseteq ProfileSave /\ asked' \subseteq asked
    BY <1>1, <2>1
  <2>12. QED  BY <1>1, <2>1, <2>2, <2>5, <2>7, <2>8, <2>9, <2>10, <2>11, WindowsKept
<1>10. ASSUME NEW place \in M!Place, NEW text \in profiles[place].fetches, M!Fetched(place, text)
       PROVE  MembersInv'
  <2> DEFINE w == profiles[place]
  <2>1. PICK u \in {[w EXCEPT !.data = text, !.lost = FALSE], [w EXCEPT !.lost = TRUE]} :
          profiles' = [profiles EXCEPT ![place] = M!Drawn(place, [u EXCEPT !.fetches = @ \ {text}])]
    BY <1>10 DEF M!Fetched
  <2>2. UNCHANGED <<profile, wallet, extension, form, saves, saved, raced, search, asked>>
    BY <1>10 DEF M!Fetched, M!wallets, M!desk
  <2>3. w \in ProfileWindow /\ w.open /\ text \in w.fetches
    BY <1>1, NothingShown
  <2>4. ~raced => WindowIsOf(place, w)
    BY DEF MembersInv
  <2> HIDE DEF w
  <2>5. /\ u \in ProfileWindow /\ u.open = w.open /\ u.of = w.of /\ u.address = w.address
        /\ u.fetches = w.fetches /\ u.overtaken = w.overtaken
        /\ u.lost \/ u.data = text
        /\ u.data \in {w.data, text}
    <3>1. text \in Text
      BY <2>3 DEF ProfileWindow
    <3>2. CASE u = [w EXCEPT !.data = text, !.lost = FALSE]
      BY <2>3, <3>1, <3>2 DEF ProfileWindow
    <3>3. CASE u = [w EXCEPT !.lost = TRUE]
      BY <2>3, <3>1, <3>3 DEF ProfileWindow
    <3>4. QED  BY <2>1, <3>2, <3>3
  <2> DEFINE z == [u EXCEPT !.fetches = @ \ {text}]
             v == M!Drawn(place, z)
  <2>6. /\ z \in ProfileWindow /\ z.open = w.open /\ z.of = w.of /\ z.address = w.address
        /\ z.fetches = w.fetches \ {text} /\ z.overtaken = w.overtaken
        /\ z.lost = u.lost /\ z.data = u.data
    BY <2>5 DEF ProfileWindow
  <2> HIDE DEF z
  <2>7. /\ v \in ProfileWindow /\ v.mine = (M!Address(place, z) = wallet)
        /\ v.open = z.open /\ v.of = z.of /\ v.address = z.address /\ v.fetches = z.fetches
        /\ v.data = z.data /\ v.lost = z.lost /\ v.overtaken = z.overtaken
    BY <1>5, <2>6
  <2>8. profiles' = [profiles EXCEPT ![place] = v]
    BY <2>1 DEF z
  <2> HIDE DEF v
  <2>9. M!Address(place, z) = IF place = "found" THEN search.term ELSE w.address
    BY <2>6 DEF M!Address
  <2>10. ASSUME ~raced  PROVE WindowIsOf(place, v)
    <3>1. v.of # None => v.of = IF place = "found" THEN search.term ELSE v.address
      BY <2>3, <2>4, <2>6, <2>7, <2>10 DEF WindowIsOf
    <3>2. v.of # None /\ v.mine => v.of = wallet
      BY <2>6, <2>7, <2>9, <3>1
    <3>3. ASSUME v.of # None, ~v.overtaken  PROVE ShownOK(v)
      <4>1. ShownOK(w)
        BY <2>3, <2>4, <2>6, <2>7, <2>10, <3>3 DEF WindowIsOf
      <4>2. text = profile[v.of] /\ text # None
        BY <2>3, <2>6, <2>7, <4>1 DEF ShownOK
      <4>3. QED  BY <2>5, <2>6, <2>7, <4>1, <4>2 DEF ShownOK, Shown
    <3>4. QED  BY <3>1, <3>2, <3>3 DEF WindowIsOf
  <2>11. ~raced => SearchOK' /\ FormOK' /\ \A s \in saves' : SaveOK(s)
    <3>1. v.open => profiles[place].open
      BY <2>6, <2>7 DEF w
    <3>2. QED  BY <1>1, <1>2, <1>3, <2>2, <2>7, <2>8, <3>1
  <2>12. form' \in ProfileForm /\ saves' \subseteq ProfileSave /\ asked' \subseteq asked
    BY <1>1, <2>2
  <2>13. QED  BY <1>1, <2>2, <2>3, <2>6, <2>7, <2>8, <2>10, <2>11, <2>12, WindowsKept
<1>11. QED  BY <1>6, <1>7, <1>8, <1>9, <1>10

(* The forms: what is typed is no longer what was fetched, and a profile that is *)
(* replaced makes what others were given old.                                    *)
LEMMA FormsKept ==
  ASSUME MembersInv,
         \/ M!OpenJoin \/ M!Type \/ M!CloseForm \/ M!Save
         \/ \E m \in {ann, bob} : M!TypeAddress(m) \/ M!SwitchAccount(m)
         \/ \E s \in saves : M!Lands(s) \/ M!Fails(s)
         \/ M!WalletChecked
  PROVE  MembersInv'
<1>1. /\ MembersTyped /\ profile \in [Who -> Text \union {None}] /\ wallet \in Who /\ extension \in Who
      /\ profiles \in [M!Place -> ProfileWindow] /\ asked \subseteq Lookup
      /\ form \in ProfileForm /\ saves \subseteq ProfileSave /\ saved \in Nat /\ raced \in BOOLEAN
      /\ \A place \in M!Place : ~profiles[place].open => profiles[place] = M!Shut
      /\ ~raced => /\ SearchOK /\ FormOK /\ \A s \in saves : SaveOK(s)
                   /\ \A place \in M!Place : WindowIsOf(place, profiles[place])
  BY DEF MembersInv, MembersTyped
(* Neither a search nor a window is touched.                                     *)
<1>2. ASSUME UNCHANGED <<profile, wallet, search, asked, profiles>>, extension' \in Who,
             form' \in ProfileForm, saves' \subseteq ProfileSave, saved' \in Nat, raced' \in BOOLEAN,
             ~raced' => ~raced /\ FormOK' /\ \A s \in saves' : SaveOK(s)
      PROVE  MembersInv'
  <2>1. MembersTyped'
    BY <1>1, <1>2 DEF MembersTyped
  <2>2. ~raced' => SearchOK' /\ \A place \in M!Place : WindowIsOf(place, profiles[place])'
    BY <1>1, <1>2 DEF SearchOK, WindowIsOf, ShownOK, Shown
  <2>3. (\A place \in M!Place : ~profiles[place].open => profiles[place] = M!Shut)'
    BY <1>1, <1>2
  <2>4. ~raced' => \A s \in saves' : SaveOK(s)'
    BY <1>2 DEF SaveOK
  <2>5. QED  BY <1>2, <2>1, <2>2, <2>3, <2>4 DEF MembersInv
<1>3. M!NoForm \in ProfileForm /\ M!NoForm.kind # "edit"
  BY NothingShown, FormsAssumption
<1>4. CASE M!OpenJoin
  <2>1. UNCHANGED <<profile, wallet, extension, saves, saved, raced, search, asked>>
    BY <1>4 DEF M!OpenJoin, M!wallets, M!desk
  <2>2. PICK at \in {None, "page"}, to \in Who \union {None} :
          form' = [M!NoForm EXCEPT !.kind = "join", !.at = at, !.to = to]
    <3>1. profiles["own"].address \in Who \union {None}
      BY <1>1 DEF M!Place, ProfileWindow
    <3>2. CASE form' = [M!NoForm EXCEPT !.kind = "join", !.at = "page", !.to = wallet]
      BY <1>1, <3>2
    <3>3. CASE form' = [M!NoForm EXCEPT !.kind = "join", !.to = profiles["own"].address]
      <4>1. ASSUME NEW f \in ProfileForm, f.at = None, NEW to \in Who \union {None}
            PROVE  [f EXCEPT !.kind = "join", !.to = to] = [f EXCEPT !.kind = "join", !.at = None, !.to = to]
        BY <4>1 DEF ProfileForm
      <4>2. M!NoForm.at = None
        BY DEF M!NoForm
      <4>3. QED  BY <1>3, <3>1, <3>3, <4>1, <4>2
    <3>4. QED  BY <1>4, <3>2, <3>3 DEF M!OpenJoin
  <2>3. form' \in ProfileForm /\ form'.kind = "join"
    BY <1>3, <2>2 DEF ProfileForm
  <2>4. FormOK'
    BY <2>3 DEF FormOK
  <2>5. CASE UNCHANGED profiles
    BY <1>1, <1>2, <2>1, <2>3, <2>4, <2>5
  <2>6. CASE profiles' = [profiles EXCEPT !["own"] = M!Shut]
    <3>1. "own" \in M!Place /\ "found" \in M!Place /\ profiles'["found"] = profiles["found"]
      BY <1>1, <2>6 DEF M!Place
    <3>2. ~raced => SearchOK'
      BY <1>1, <2>1, <3>1 DEF SearchOK
    <3>3. WindowIsOf("own", M!Shut)
      BY NothingShown DEF WindowIsOf
    <3>4. search \in [term : Term \union {None}, loading : BOOLEAN, missing : BOOLEAN,
                     onChain : Term \union {None}]
      BY DEF MembersInv, MembersTyped
    <3>5. QED  BY <1>1, <2>1, <2>3, <2>4, <2>6, <3>1, <3>2, <3>3, <3>4, NothingShown, WindowsKept
  <2>7. QED  BY <1>4, <2>5, <2>6 DEF M!OpenJoin
<1>5. CASE M!Type
  <2>1. /\ form' = [form EXCEPT !.text = M!Words(wallet, saved + 1), !.typed = TRUE]
        /\ UNCHANGED <<profile, wallet, extension, search, asked, profiles, saves, saved, raced>>
    BY <1>5 DEF M!Type, M!Edit, M!wallets, M!desk
  <2>2. M!Words(wallet, saved + 1) \in Text
    BY <1>1 DEF M!Words, Text
  <2>3. form' \in ProfileForm /\ form'.typed
    BY <1>1, <2>1, <2>2 DEF ProfileForm
  <2>4. QED  BY <1>1, <1>2, <2>1, <2>3 DEF FormOK
<1>6. ASSUME NEW m \in {ann, bob}, M!TypeAddress(m)  PROVE MembersInv'
  <2>1. /\ form' = [form EXCEPT !.to = m] /\ form.kind = "join"
        /\ UNCHANGED <<profile, wallet, extension, search, asked, profiles, saves, saved, raced>>
    BY <1>6 DEF M!TypeAddress, M!Edit, M!wallets, M!desk
  <2>2. form' \in ProfileForm /\ form'.kind = "join"
    BY <1>1, <2>1 DEF ProfileForm, Who
  <2>3. QED  BY <1>1, <1>2, <2>1, <2>2 DEF FormOK
<1>7. CASE M!CloseForm
  <2>1. /\ form' = M!NoForm /\ saves' = {[s EXCEPT !.watched = FALSE] : s \in saves}
        /\ UNCHANGED <<profile, wallet, extension, saved, raced>>
    BY <1>7 DEF M!CloseForm, M!wallets
  <2>2. ASSUME NEW s \in saves
        PROVE  LET q == [s EXCEPT !.watched = FALSE] IN q \in ProfileSave /\ (SaveOK(s) => SaveOK(q))
    <3> DEFINE q == [s EXCEPT !.watched = FALSE]
    <3>1. /\ q \in ProfileSave /\ q.kind = s.kind /\ q.typed = s.typed /\ q.fresh = s.fresh
          /\ q.to = s.to /\ q.text = s.text
      BY <1>1 DEF ProfileSave
    <3> HIDE DEF q
    <3>2. QED  BY <3>1 DEF SaveOK, q
  <2>3. saves' \subseteq ProfileSave /\ (~raced => \A s \in saves' : SaveOK(s))
    BY <1>1, <2>1, <2>2
  <2>4. form' \in ProfileForm /\ FormOK'
    BY <1>3, <2>1 DEF FormOK
  <2>5. CASE UNCHANGED <<search, asked, profiles>>
    BY <1>1, <1>2, <2>1, <2>3, <2>4, <2>5
  <2>6. CASE search' = M!NoSearch /\ asked' = {} /\ profiles' = [place \in M!Place |-> M!Shut]
    <3>1. M!NoSearch \in [term : Term \union {None}, loading : BOOLEAN, missing : BOOLEAN,
                          onChain : Term \union {None}] /\ M!NoSearch.onChain = None
      BY DEF M!NoSearch
    <3>2. MembersTyped'
      BY <1>1, <2>1, <2>3, <2>4, <2>6, <3>1, NothingShown DEF MembersTyped
    <3>3. SearchOK'
      BY <2>6, <3>1, NothingShown DEF SearchOK, M!Place
    <3>4. \A place \in M!Place : WindowIsOf(place, profiles[place])'
      BY <2>6, NothingShown DEF WindowIsOf
    <3>5. ~raced' => \A s \in saves' : SaveOK(s)'
      BY <2>1, <2>3 DEF SaveOK
    <3>6. QED  BY <2>4, <2>6, <3>2, <3>3, <3>4, <3>5 DEF MembersInv
  <2>7. QED  BY <1>7, <2>5, <2>6 DEF M!CloseForm
<1>8. CASE M!Save
  <2> DEFINE s == [kind |-> form.kind, at |-> form.at, text |-> form.text,
                   to |-> IF form.kind = "edit" THEN wallet ELSE form.to,
                   typed |-> form.typed, fresh |-> form.fresh, watched |-> TRUE]
  <2>1. /\ form.kind # None /\ saved' = saved + 1 /\ saves' = saves \union {s}
        /\ form' = [form EXCEPT !.busy = TRUE]
        /\ UNCHANGED <<profile, wallet, extension, search, asked, profiles, raced>>
    BY <1>8 DEF M!Save, M!wallets, M!desk
  <2>2. s \in ProfileSave
    BY <1>1, <2>1 DEF ProfileSave, ProfileForm
  <2>3. /\ form' \in ProfileForm /\ form'.kind = form.kind /\ form'.typed = form.typed
        /\ form'.fresh = form.fresh /\ form'.text = form.text
    BY <1>1, <2>1 DEF ProfileForm
  <2>4. ~raced => FormOK' /\ SaveOK(s)
    BY <1>1, <2>1, <2>3 DEF FormOK, SaveOK
  <2> HIDE DEF s
  <2>5. saves' \subseteq ProfileSave /\ saved' \in Nat
    BY <1>1, <2>1, <2>2
  <2>6. ~raced => \A q \in saves' : SaveOK(q)
    BY <1>1, <2>1, <2>4
  <2>7. QED  BY <1>1, <1>2, <2>1, <2>3, <2>4, <2>5, <2>6
<1>9. ASSUME NEW s \in saves, M!Lands(s)  PROVE MembersInv'
  <2>1. /\ s.to = wallet /\ (profile[s.to] = None <=> s.kind = "join")
        /\ profile' = [profile EXCEPT ![s.to] = s.text]
        /\ profiles' = [place \in M!Place |-> [profiles[place] EXCEPT !.overtaken = profiles[place].open]]
        /\ saves' = {[other EXCEPT !.fresh = FALSE] : other \in saves \ {s}}
        /\ UNCHANGED <<wallet, extension, search, asked, saved, raced>>
    BY <1>9 DEF M!Lands, M!wallets, M!desk
  <2>2. form' = CASE s.kind = "edit" /\ s.at # None /\ form.at = s.at -> M!NoForm
                  [] s.kind = "join" /\ s.watched /\ s.at = "page" -> M!NoForm
                  [] s.kind = "join" /\ s.watched /\ s.at # "page" ->
                       [form EXCEPT !.busy = FALSE, !.done = TRUE]
                  [] OTHER -> [form EXCEPT !.fresh = form.kind = None]
    BY <1>9 DEF M!Lands
  <2>3. s \in ProfileSave
    BY <1>1
  <2>4. \/ form' = M!NoForm
        \/ s.kind = "join" /\ form' = [form EXCEPT !.busy = FALSE, !.done = TRUE]
        \/ form' = [form EXCEPT !.fresh = form.kind = None]
    BY <2>2
  <2>5. form' \in ProfileForm /\ (~raced => FormOK')
    <3>1. CASE form' = M!NoForm
      BY <1>3, <3>1 DEF FormOK
    <3>2. CASE s.kind = "join" /\ form' = [form EXCEPT !.busy = FALSE, !.done = TRUE]
      <4>1. /\ form' \in ProfileForm /\ form'.kind = form.kind /\ form'.typed = form.typed
            /\ form'.fresh = form.fresh
        BY <1>1, <3>2 DEF ProfileForm
      <4>2. profile[wallet] = None
        BY <2>1, <3>2
      <4>3. QED  BY <1>1, <4>1, <4>2 DEF FormOK
    <3>3. CASE form' = [form EXCEPT !.fresh = form.kind = None]
      <4>1. (form.kind = None) \in BOOLEAN
        OBVIOUS
      <4>2. form' \in ProfileForm /\ form'.kind = form.kind /\ form'.fresh = (form.kind = None)
        BY <1>1, <3>3, <4>1 DEF ProfileForm
      <4>3. QED  BY <4>2, FormsAssumption DEF FormOK
    <3>4. QED  BY <2>4, <3>1, <3>2, <3>3
  <2>6. ASSUME NEW other \in saves
        PROVE  LET q == [other EXCEPT !.fresh = FALSE] IN q \in ProfileSave /\ ~q.fresh
    BY <1>1 DEF ProfileSave
  <2>7. saves' \subseteq ProfileSave /\ \A q \in saves' : ~q.fresh
    BY <2>1, <2>6
  <2>8. ASSUME NEW place \in M!Place
        PROVE  /\ profiles'[place] \in ProfileWindow /\ profiles'[place].open = profiles[place].open
               /\ profiles'[place].of = profiles[place].of /\ profiles'[place].address = profiles[place].address
               /\ profiles'[place].mine = profiles[place].mine
               /\ profiles'[place].overtaken = profiles[place].open
               /\ ~profiles[place].open => profiles'[place] = M!Shut
    <3> DEFINE w == profiles[place]
    <3>1. w \in ProfileWindow /\ profiles'[place] = [w EXCEPT !.overtaken = w.open]
      BY <1>1, <2>1
    <3>2. ~w.open => w = M!Shut
      BY <1>1
    <3> HIDE DEF w
    <3>3. /\ profiles'[place] \in ProfileWindow /\ profiles'[place].open = w.open /\ profiles'[place].of = w.of
          /\ profiles'[place].address = w.address /\ profiles'[place].mine = w.mine
          /\ profiles'[place].overtaken = w.open
      BY <3>1 DEF ProfileWindow
    <3>4. ASSUME ~w.open  PROVE profiles'[place] = M!Shut
      <4>1. profiles'[place] = [M!Shut EXCEPT !.overtaken = M!Shut.open]
        BY <3>1, <3>2, <3>4
      <4>2. ASSUME NEW q \in ProfileWindow, q.overtaken = q.open  PROVE [q EXCEPT !.overtaken = q.open] = q
        BY <4>2 DEF ProfileWindow
      <4>3. M!Shut \in ProfileWindow /\ M!Shut.overtaken = M!Shut.open
        BY NothingShown DEF M!Shut
      <4>4. QED  BY <4>1, <4>2, <4>3
    <3>5. QED  BY <3>3, <3>4 DEF w
  <2>9. profiles' \in [M!Place -> ProfileWindow]
    BY <2>1, <2>8
  <2>10. profile' \in [Who -> Text \union {None}]
    BY <1>1, <2>1, <2>3 DEF ProfileSave
  <2>11. MembersTyped'
    BY <1>1, <2>1, <2>5, <2>7, <2>9, <2>10 DEF MembersTyped
  <2>12. ~raced => SearchOK'
    BY <1>1, <2>1, <2>8 DEF SearchOK, M!Place
  <2>13. ASSUME ~raced, NEW place \in M!Place  PROVE WindowIsOf(place, profiles[place])'
    BY <1>1, <2>1, <2>8, <2>13 DEF WindowIsOf
  <2>14. \A q \in saves' : SaveOK(q)'
    BY <2>7 DEF SaveOK
  <2>15. (\A place \in M!Place : ~profiles[place].open => profiles[place] = M!Shut)'
    BY <2>8
  <2>16. QED  BY <2>1, <2>5, <2>11, <2>12, <2>13, <2>14, <2>15 DEF MembersInv
<1>10. ASSUME NEW s \in saves, M!Fails(s)  PROVE MembersInv'
  <2>1. /\ saves' = saves \ {s} /\ form' = [form EXCEPT !.busy = @ /\ ~s.watched]
        /\ UNCHANGED <<profile, wallet, extension, search, asked, profiles, saved, raced>>
    BY <1>10 DEF M!Fails, M!wallets, M!desk
  <2>2. /\ form' \in ProfileForm /\ form'.kind = form.kind /\ form'.typed = form.typed
        /\ form'.fresh = form.fresh /\ form'.text = form.text
    BY <1>1, <2>1 DEF ProfileForm
  <2>3. ~raced => FormOK'
    BY <1>1, <2>1, <2>2 DEF FormOK
  <2>4. QED  BY <1>1, <1>2, <2>1, <2>2, <2>3
<1>11. ASSUME NEW m \in {ann, bob}, M!SwitchAccount(m)  PROVE MembersInv'
  <2>1. /\ extension' = m
        /\ UNCHANGED <<profile, wallet, search, asked, profiles, form, saves, saved, raced>>
    BY <1>11 DEF M!SwitchAccount, M!desk
  <2>2. ~raced => FormOK'
    BY <1>1, <2>1 DEF FormOK
  <2>3. extension' \in Who
    BY <2>1 DEF Who
  <2>4. QED  BY <1>1, <1>2, <2>1, <2>2, <2>3
<1>12. CASE M!WalletChecked
  <2>1. /\ wallet' = extension /\ raced' = (raced \/ wallet # extension)
        /\ form' = IF wallet # extension /\ form.kind = "join" /\ form.at = "page"
                   THEN [form EXCEPT !.to = extension] ELSE form
        /\ UNCHANGED <<profile, extension, search, asked, profiles, saves, saved>>
    BY <1>12 DEF M!WalletChecked, M!desk
  <2>2. form' \in ProfileForm
    BY <1>1, <2>1 DEF ProfileForm
  <2>3. CASE wallet = extension
    <3>1. UNCHANGED <<wallet, form, raced>>
      BY <1>1, <2>1, <2>3
    <3>2. ~raced => FormOK'
      BY <1>1, <2>1, <3>1 DEF FormOK
    <3>3. QED  BY <1>1, <1>2, <2>1, <2>2, <3>1, <3>2
  <2>4. CASE wallet # extension
    <3>1. raced' = TRUE
      BY <2>1, <2>4
    <3>2. MembersTyped'
      BY <1>1, <2>1, <2>2, <3>1 DEF MembersTyped
    <3>3. QED  BY <1>1, <2>1, <3>1, <3>2 DEF MembersInv
  <2>5. QED  BY <2>3, <2>4
<1>13. QED  BY <1>4, <1>5, <1>6, <1>7, <1>8, <1>9, <1>10, <1>11, <1>12

LEMMA MembersStart == M!Init => MembersInv
<1> SUFFICES ASSUME M!Init  PROVE MembersInv
  OBVIOUS
<1>1. profile \in [Who -> Text \union {None}]
  <2>1. \A m \in Who : M!Words(m, 0) \in Text
    BY DEF M!Words, Text
  <2>2. {None, M!Blank} \union {M!Words(m, 0) : m \in Who} \subseteq Text \union {None}
    BY <2>1, BlankIsText
  <2>3. QED  BY <2>2 DEF M!Init, Who
<1>2. M!NoSearch \in [term : Term \union {None}, loading : BOOLEAN, missing : BOOLEAN,
                      onChain : Term \union {None}] /\ M!NoSearch.onChain = None
  BY DEF M!NoSearch
<1>3. profiles = [place \in M!Place |-> M!Shut] /\ form = M!NoForm /\ saves = {} /\ asked = {} /\ search = M!NoSearch
      /\ wallet \in Who /\ extension \in Who /\ saved = 0 /\ raced = FALSE
  BY DEF M!Init, Who
<1>4. MembersTyped
  BY <1>1, <1>2, <1>3, NothingShown DEF MembersTyped
<1>5. SearchOK
  BY <1>2, <1>3 DEF SearchOK
<1>6. \A place \in M!Place : WindowIsOf(place, profiles[place])
  BY <1>3, NothingShown DEF WindowIsOf
<1>7. FormOK
  BY <1>3, NothingShown, FormsAssumption DEF FormOK
<1>8. QED  BY <1>3, <1>4, <1>5, <1>6, <1>7 DEF MembersInv

LEMMA MembersStep == MembersInv /\ screen = "dashboard" /\ (UNCHANGED dashboard \/ Dashboard) => MembersInv'
<1>1. ASSUME MembersInv, UNCHANGED dashboard  PROVE MembersInv'
  BY <1>1 DEF dashboard, MembersInv, MembersTyped, SearchOK, WindowIsOf, ShownOK, Shown, FormOK, SaveOK
<1>2. QED  BY <1>1, SearchKept, FetchingKept, FormsKept DEF Dashboard, OnDashboard

-------------------------------------------------------------------------------
(* The windows together                                                          *)

(* What is done in one of the windows is a step of its module, and none of the   *)
(* others.                                                                       *)
LEMMA DialogsSteps ==
  ASSUME [DialogsNext]_<<screen, vars, writing, dashboard, editing>>
  PROVE  /\ screen' = screen /\ [Next]_vars
         /\ screen = "form" => [P!Next]_writing
         /\ screen = "lists" => Lists \/ UNCHANGED editing
         /\ screen # "lists" => UNCHANGED editing
         /\ screen = "dashboard" => Dashboard \/ UNCHANGED dashboard
         /\ screen # "dashboard" => UNCHANGED dashboard
<1>1. CASE Votes
  <2>1. screen' = screen /\ screen = "votes" /\ UNCHANGED <<dashboard, editing>>
    BY <1>1 DEF Votes, OnVotes, OnKeys
  <2>2. Next
    <3>1. ASSUME NEW v \in Voter,
                 \/ OnVotes(VoteLands(v)) \/ OnVotes(VoteFails(v))
                 \/ \E m \in Maintainer : OnVotes(RemoveVote(m, v))
                 \/ \E choice \in Choice : OnVotes(SendVote(v, choice))
          PROVE  Next
      BY <3>1 DEF OnVotes, Next, Voting
    <3>2. ASSUME NEW m \in Maintainer,
                 \/ OnKeys(PublishKey(m)) \/ OnKeys(DropDraft(m)) \/ \E k \in Key : OnKeys(NewKey(m, k))
                 \/ OnVotes(OpenWindow(m)) \/ OnVotes(BackToKey(m)) \/ OnVotes(CloseWindow(m))
                 \/ OnVotes(Execute(m)) \/ OnVotes(ExecuteFails(m))
                 \/ \E k \in Key : OnVotes(UseFile(m, k))
          PROVE  Next
      BY <3>2 DEF OnVotes, OnKeys, Next, Keeping, Deciding
    <3>3. CASE OnVotes(End) \/ \E m \in Maintainer : OnVotes(Refetch(m))
      BY <3>3 DEF OnVotes, Next
    <3>4. QED  BY <1>1, <3>1, <3>2, <3>3 DEF Votes
  <2>3. QED  BY <2>1, <2>2
<1>2. CASE Form
  <2>1. screen' = screen /\ screen = "form" /\ UNCHANGED <<vars, dashboard, editing>>
    BY <1>2 DEF Form, OnForm
  <2>2. P!Next
    BY <1>2 DEF Form, OnForm, P!Next
  <2>3. QED  BY <2>1, <2>2
<1>3. CASE Dashboard
  <2>1. screen' = screen /\ screen = "dashboard" /\ UNCHANGED <<vars, editing>>
    BY <1>3 DEF Dashboard, OnDashboard
  <2>2. QED  BY <1>3, <2>1
<1>4. CASE Lists
  <2>1. screen' = screen /\ screen = "lists" /\ UNCHANGED <<vars, dashboard>>
    BY <1>4 DEF Lists, OnLists
  <2>2. QED  BY <1>4, <2>1
<1>5. CASE UNCHANGED <<screen, vars, writing, dashboard, editing>>
  BY <1>5
<1>6. QED  BY <1>1, <1>2, <1>3, <1>4, <1>5 DEF DialogsNext

LEMMA FormInvariant == DialogsSpec => [](screen = "form" => FormInv)
<1>1. DialogsInit => (screen = "form" => FormInv)
  BY FormStarts DEF DialogsInit
<1>2. (screen = "form" => FormInv) /\ [DialogsNext]_<<screen, vars, writing, dashboard, editing>>
      => (screen = "form" => FormInv)'
  BY DialogsSteps, FormStep
<1>3. QED  BY <1>1, <1>2, PTL DEF DialogsSpec

(* What handleRegisterProposal sends passed the checks of the steps before it,   *)
(* however the member came to the last one, and its end is one create_proposal   *)
(* accepts until the hour to spare is over.                                      *)
THEOREM SentIsAcceptable == DialogsSpec => []AcceptableWhenSent
<1>1. (screen = "form" => FormInv) => AcceptableWhenSent
  <2> SUFFICES ASSUME FormInv, NEW i \in DOMAIN jobs
               PROVE  /\ jobs[i].valid
                      /\ jobs[i].at \in {"sign", "upload", "send"} /\ now <= jobs[i].clicked + Margin
                           => P!Accepts(jobs[i].end)
    BY DEF AcceptableWhenSent, P!AcceptableWhenSent
  <2>1. jobs[i] \in Job /\ JobOK(jobs[i]) /\ now \in Nat
    BY DEF FormInv, FormTyped
  <2>2. jobs[i].clicked \in Nat /\ jobs[i].end \in Nat
    BY <2>1 DEF Job
  <2>3. QED  BY <2>1, <2>2, PeriodsAssumption DEF JobOK, InTime, P!Accepts
<1>2. QED  BY <1>1, FormInvariant, PTL

(* Every call of collectOutcome is in the file buildOutcome describes, and every *)
(* call on the page of review is among those sent, for any contracts and         *)
(* functions.                                                                    *)
THEOREM SentCallsAreAccountedFor == DialogsSpec => []CallsAccountedFor
<1>1. (screen = "form" => FormInv) => CallsAccountedFor
  BY DEF FormInv, JobOK, CallsOK, CallsAccountedFor, P!CallsAccountedFor
<1>2. QED  BY <1>1, FormInvariant, PTL

ListsInv == /\ screen = "lists" => EditorInv
            /\ screen # "lists" => changed = {}

LEMMA ListsInvariant == DialogsSpec => []ListsInv
<1>1. DialogsInit => ListsInv
  BY EditorStarts DEF DialogsInit, ListsInv
<1>2. ListsInv /\ [DialogsNext]_<<screen, vars, writing, dashboard, editing>> => ListsInv'
  <2> SUFFICES ASSUME ListsInv, [DialogsNext]_<<screen, vars, writing, dashboard, editing>>
               PROVE  ListsInv'
    OBVIOUS
  <2>1. CASE screen = "lists"
    BY <2>1, DialogsSteps, EditorStep DEF ListsInv
  <2>2. CASE screen # "lists"
    BY <2>2, DialogsSteps DEF ListsInv, editing
  <2>3. QED  BY <2>1, <2>2
<1>3. QED  BY <1>1, <1>2, PTL DEF DialogsSpec

(* A change that the contract carries out does what the member did in the window *)
(* it was sent from: update_sub_projects, set_badges and commit get the list as  *)
(* it was edited, and the conflicts of interest only what is added or removed.   *)
THEOREM ChangesAreAsWished == DialogsSpec => SavedAsWished
<1>1. ListsInv /\ [DialogsNext]_<<screen, vars, writing, dashboard, editing>> =>
      [\A m \in changed :
         m.known # None /\ ~m.overtaken /\ E!Lands(m) =>
           IF m.op = "replace"
           THEN /\ m.wish.add \subseteq stored' /\ m.wish.remove \intersect stored' = {}
                /\ (stored \ stored') \intersect m.known \subseteq m.wish.remove
           ELSE /\ (IF m.op = "add" THEN m.items ELSE {}) \subseteq stored'
                /\ stored \ stored' \subseteq (IF m.op = "remove" THEN m.items ELSE {})]_(E!vars)
  <2> SUFFICES ASSUME ListsInv, NEW m \in changed, m.known # None, ~m.overtaken, E!Lands(m)
               PROVE  IF m.op = "replace"
                      THEN /\ m.wish.add \subseteq stored' /\ m.wish.remove \intersect stored' = {}
                           /\ (stored \ stored') \intersect m.known \subseteq m.wish.remove
                      ELSE /\ (IF m.op = "add" THEN m.items ELSE {}) \subseteq stored'
                           /\ stored \ stored' \subseteq (IF m.op = "remove" THEN m.items ELSE {})
    OBVIOUS
  <2>1. EditorInv
    BY DEF ListsInv
  <2>2. m \in ListChange /\ ChangeOK(m) /\ stored' = E!Recorded(m)
    BY <2>1 DEF EditorInv, EditorTyped, E!Lands
  <2>3. /\ m.op = "add" => stored' = stored \union m.items
        /\ m.op = "remove" => stored' = stored \ m.items
        /\ m.op = "replace" => stored' = m.items
        /\ m.op \in {"add", "remove", "replace"}
    BY <2>2 DEF E!Recorded, ListChange
  <2>4. CASE m.op = "replace"
    <3>1. Follows(m.wish, stored', m.known)
      BY <2>2, <2>3, <2>4 DEF ChangeOK
    <3>2. QED  BY <2>4, <3>1 DEF Follows
  <2>5. CASE m.op # "replace"
    BY <2>3, <2>5
  <2>6. QED  BY <2>4, <2>5
<1>2. QED  BY <1>1, ListsInvariant, PTL DEF SavedAsWished, E!SavedAsWished, DialogsSpec

(* Who was added to the conflicts of interest, and not taken off by anyone, is   *)
(* listed when the window has read the list again.                               *)
THEOREM AppliedAreListed == DialogsSpec => []AppliedIsListed
<1>1. ListsInv => AppliedIsListed
  BY DEF ListsInv, EditorInv, ListedOK, AppliedIsListed, E!AppliedIsListed
<1>2. QED  BY <1>1, ListsInvariant, PTL

DashboardInv == /\ screen = "dashboard" => MembersInv
                /\ screen # "dashboard" => saves = {}

LEMMA DashboardInvariant == DialogsSpec => []DashboardInv
<1>1. DialogsInit => DashboardInv
  BY MembersStart DEF DialogsInit, DashboardInv
<1>2. DashboardInv /\ [DialogsNext]_<<screen, vars, writing, dashboard, editing>> => DashboardInv'
  <2> SUFFICES ASSUME DashboardInv, [DialogsNext]_<<screen, vars, writing, dashboard, editing>>
               PROVE  DashboardInv'
    OBVIOUS
  <2>1. CASE screen = "dashboard"
    BY <2>1, DialogsSteps, MembersStep DEF DashboardInv
  <2>2. CASE screen # "dashboard"
    BY <2>2, DialogsSteps DEF DashboardInv, dashboard
  <2>3. QED  BY <2>1, <2>2
<1>3. QED  BY <1>1, <1>2, PTL DEF DialogsSpec

(* A profile that is saved with its words untouched keeps them: EditProfileModal *)
(* is offered for the connected account only, with what was fetched of it.       *)
THEOREM UntouchedWordsAreKept == DialogsSpec => UntouchedWordsStay
<1>1. DashboardInv /\ [DialogsNext]_<<screen, vars, writing, dashboard, editing>> =>
      [\A s \in saves :
         M!Lands(s) /\ s.kind = "edit" /\ ~s.typed /\ s.fresh /\ ~raced
           => profile'[s.to] = profile[s.to]]_(M!vars)
  <2> SUFFICES ASSUME DashboardInv, NEW s \in saves,
                      M!Lands(s), s.kind = "edit", ~s.typed, s.fresh, ~raced
               PROVE  profile'[s.to] = profile[s.to]
    OBVIOUS
  <2>1. MembersInv
    BY DEF DashboardInv
  <2>2. s.text = profile[s.to] /\ s.to \in Who
    BY <2>1 DEF MembersInv, MembersTyped, SaveOK
  <2>3. profile' = [profile EXCEPT ![s.to] = s.text]
    BY DEF M!Lands
  <2>4. QED  BY <2>1, <2>2, <2>3 DEF MembersInv, MembersTyped
<1>2. QED  BY <1>1, DashboardInvariant, PTL DEF UntouchedWordsStay, M!UntouchedWordsStay, DialogsSpec

(* What ProjectList shows of a search is what was searched for, if one search was *)
(* answered before the next one was made.                                        *)
THEOREM ResultsAreOfTheTerm == DialogsSpec => []ResultIsOfTerm
<1>1. DashboardInv => ResultIsOfTerm
  BY DEF DashboardInv, MembersInv, SearchOK, ResultIsOfTerm, M!ResultIsOfTerm, M!View
<1>2. QED  BY <1>1, DashboardInvariant, PTL

(* What is done in the other windows does nothing to votes: the session of all   *)
(* windows is one of votes.                                                      *)
THEOREM VotesAreTheirOwn == DialogsSpec => Spec
<1>1. DialogsInit => Init
  BY DEF DialogsInit
<1>2. [DialogsNext]_<<screen, vars, writing, dashboard, editing>> => [Next]_vars
  BY DialogsSteps
<1>3. QED  BY <1>1, <1>2, PTL DEF DialogsSpec, Spec
===============================================================================
