------------------------------- MODULE Ballots -------------------------------
(* How members vote and maintainers decide, as the client does it: the voting    *)
(* power it reads, the ballots it makes, for an anonymous vote sealed under the  *)
(* key the project has at that moment; the file with the private key, which is   *)
(* the only thing that opens them; the tally computed from what was opened, and  *)
(* its execution, which the contract accepts if the commitments of the ballots   *)
(* add up to it.  The contract is reduced to what it checks of each call.        *)
EXTENDS Naturals, FiniteSets, Totals

CONSTANTS Voter, Maintainer, Proposer,
          None,
          Units,          \* voter -> badge weight, or balance in a token's smallest unit
          Decimals, DefaultDecimals,  \* of the token, and what is assumed if they cannot be read
          MaxWeight,      \* 2^32 - 1
          Weights(_),     \* power -> places of the slider
          Seed,           \* voter -> the random numbers that blind its ballot, one per choice
          MaxKeys, MaxWindows         \* model bounds

ASSUME VotersAssumption == IsFiniteSet(Voter) /\ Seed \in [Voter -> [{"approve", "reject", "abstain"} -> Nat]]

VARIABLES vote,      \* how the vote is held: public or not, with a token or not
          key,       \* the project's public key for anonymous votes
          files,     \* maintainer -> keys in the files it downloaded
          drafts,    \* maintainer -> key its draft of a proposal would publish
          ballots,   \* the contract's: voter -> ballot
          sent,      \* voter -> ballot on its way
          ended, status,
          seen,      \* maintainer -> the proposal as its own page read it
          windows,   \* maintainer -> its window for the execution
          opened     \* how often one was opened

vars == <<vote, key, files, drafts, ballots, sent, ended, status, seen, windows, opened>>

chain  == <<vote, ballots, ended, status>>
keys   == <<key, files, drafts>>
desk   == <<seen, windows, opened>>

Choice == {"approve", "reject", "abstain"}
Key    == 1 .. MaxKeys

-------------------------------------------------------------------------------
(* Voting power *)

Whole(units, decimals) == units \div 10 ^ decimals

AtMost(n, max) == IF n < max THEN n ELSE max

(* What the window of a member may offer: with a token the whole units of its    *)
(* balance, by the token's decimals or those assumed when they cannot be read.   *)
TokenPowers(v) == {AtMost(Whole(Units[v], d), MaxWeight) : d \in {Decimals, DefaultDecimals}}
PowersRead(v)  == IF vote.token THEN TokenPowers(v) ELSE {Units[v]}

ASSUME WeightsAssumption ==
  \A v \in Voter : \A power \in TokenPowers(v) \union {Units[v]} : Weights(power) \subseteq Nat

(* The contract's own limit. *)
WithinPower(v, weight) ==
  IF vote.token THEN weight * 10 ^ Decimals <= Units[v] ELSE weight <= Units[v]

-------------------------------------------------------------------------------
(* Ballots *)

Values(choice) == [c \in Choice |-> IF c = choice THEN 1 ELSE 0]

(* What an anonymous ballot commits to is what it seals, the weight beside it.   *)
SealedBallot(v, choice, weight) ==
  [weight |-> weight, votes |-> Values(choice), seeds |-> Seed[v],
   commitments |-> [c \in Choice |-> [value |-> Values(choice)[c], seed |-> Seed[v][c]]],
   key |-> key]

PublicBallot(choice, weight) ==
  [weight |-> weight, votes |-> Values(choice), seeds |-> [c \in Choice |-> 0],
   commitments |-> [c \in Choice |-> [value |-> 0, seed |-> 0]], key |-> None]

(* The proposer's own, which the contract makes and which weighs nothing: in     *)
(* plain numbers and unblinded.                                                  *)
ProposersBallot ==
  [weight |-> 0, votes |-> Values("abstain"), seeds |-> [c \in Choice |-> 0],
   commitments |-> [c \in Choice |-> [value |-> Values("abstain")[c], seed |-> 0]], key |-> None]

Cast(bs) == {v \in Voter : bs[v] # None}

-------------------------------------------------------------------------------
(* Keys *)

(* Faulty variants of definitions below, each a slip the code could contain;     *)
(* nothing here is part of the model.                                            *)
NewKeyKept(m, k) ==
  /\ k \notin (UNION {files[n] : n \in Maintainer}) \union {drafts[n] : n \in Maintainer}
  /\ drafts' = [drafts EXCEPT ![m] = k]
  /\ UNCHANGED <<chain, desk, key, files, sent>>

(* The box is ticked and the project has no key, or that cannot be read, or new  *)
(* ones are asked for: a pair of keys is made and its file downloaded.           *)
NewKey(m, k) ==
  /\ k \notin (UNION {files[n] : n \in Maintainer}) \union {drafts[n] : n \in Maintainer}
  /\ drafts' = [drafts EXCEPT ![m] = k]
  /\ files' = [files EXCEPT ![m] = @ \union {k}]
  /\ UNCHANGED <<chain, desk, key, sent>>

(* setupAnonymousVoting, asked to replace a key there may be by now. *)
PublishKey(m) ==
  /\ drafts[m] # None
  /\ key' = drafts[m] /\ drafts' = [drafts EXCEPT ![m] = None]
  /\ UNCHANGED <<chain, desk, files, sent>>

DropDraft(m) ==
  /\ drafts[m] # None
  /\ drafts' = [drafts EXCEPT ![m] = None]
  /\ UNCHANGED <<chain, desk, key, files, sent>>

-------------------------------------------------------------------------------
(* Pages *)

(* What a page shows of the proposal: who voted, and how if that is public.      *)
NoBallots == [v \in Voter |-> None]
Proposal  == [voters |-> Cast(ballots), votes |-> IF vote.public THEN ballots ELSE NoBallots,
             status |-> status]

(* Every browser has a cache of its own, and does not see what others do until   *)
(* it reads the proposal again.  What one does to it oneself makes one's own page *)
(* do so, which may come to nothing, or come later.  A voter's page does no more  *)
(* than hold back a second vote, and can be loaded again at any time: it is kept  *)
(* for maintainers only.                                                          *)
Reread(p) ==
  seen' \in {seen} \union {[seen EXCEPT ![m] = Proposal'] : m \in {p} \intersect Maintainer}

(* The page is loaded, or what it has is too old, or was done away with by a     *)
(* change of its own.                                                            *)
Refetch(m) ==
  /\ seen[m] # Proposal /\ seen' = [seen EXCEPT ![m] = Proposal]
  /\ UNCHANGED <<chain, keys, sent, windows, opened>>

-------------------------------------------------------------------------------
(* Voting *)

(* What the contract takes; a nothing, at the end of the slider, is none.        *)
Takes(v, weight) ==
  /\ ~ended /\ status = "active" /\ ballots[v] = None
  /\ weight > 0 /\ WithinPower(v, weight)

(* The slider starts at all of the power that was read and goes down to nothing; *)
(* Weights are the places it is left at.                                         *)
Offered(v) == UNION {Weights(power) : power \in PowersRead(v)}

(* The button is there unless the page knows of a vote of one's own.  The        *)
(* proposal and the key are read again for the ballot, and the call is simulated *)
(* before it is signed.                                                          *)
SendVote(v, choice) ==
  /\ sent[v] = None /\ (v \in Maintainer => v \notin seen[v].voters)
  /\ \E weight \in Offered(v) :
       /\ Takes(v, weight)
       /\ \/ vote.public /\ sent' = [sent EXCEPT ![v] = PublicBallot(choice, weight)]
          \/ ~vote.public /\ key # None
             /\ sent' = [sent EXCEPT ![v] = SealedBallot(v, choice, weight)]
  /\ UNCHANGED <<chain, keys, desk>>

VoteLands(v) ==
  /\ sent[v] # None /\ Takes(v, sent[v].weight)
  /\ ballots' = [ballots EXCEPT ![v] = sent[v]]
  /\ sent' = [sent EXCEPT ![v] = None]
  /\ UNCHANGED <<vote, ended, status, keys, windows, opened>>
  /\ Reread(v)

VoteFails(v) ==
  /\ sent[v] # None
  /\ sent' = [sent EXCEPT ![v] = None]
  /\ UNCHANGED <<chain, keys, desk>>

(* removeVoteFlow: the window lists who the maintainer's page knows to have      *)
(* voted, in a vote that went on when it was opened; the contract takes the call *)
(* until the proposal is decided.                                                *)
RemoveVote(m, v) ==
  /\ status = "active" /\ ballots[v] # None /\ v \in seen[m].voters
  /\ ballots' = [ballots EXCEPT ![v] = None]
  /\ UNCHANGED <<vote, ended, status, keys, windows, opened, sent>>
  /\ Reread(m)

End ==
  /\ ~ended /\ ended' = TRUE
  /\ UNCHANGED <<vote, ballots, status, keys, desk, sent>>

-------------------------------------------------------------------------------
(* Deciding *)

(* Faulty variants, as above. *)
PluralityResult(scores) ==
  IF scores["approve"] > scores["reject"] THEN "approved"
  ELSE IF scores["reject"] > scores["approve"] THEN "rejected" ELSE "cancelled"

(* computedResult, of the scores the window has. *)
ComputedResult(scores) ==
  IF scores["approve"] > scores["abstain"] + scores["reject"] THEN "approved"
  ELSE IF scores["reject"] > scores["approve"] + scores["abstain"] THEN "rejected"
  ELSE "cancelled"

(* What the ballots bs come to if each counts for of[v], as often as it weighs.  *)
Weighted(bs, of) ==
  [c \in Choice |-> Total([v \in Cast(bs) |-> bs[v].weight * of[v][c]], Cast(bs))]

(* modifyProposalFromContract: the scores of the public votes a page has read. *)
Scores(bs) == Weighted(bs, [v \in Cast(bs) |-> bs[v].votes])

(* Faulty variants, as above. *)
UnweightedSeeds(bs) ==
  [tallies |-> Scores(bs),
   seeds   |-> [c \in Choice |-> Total([v \in Cast(bs) |-> bs[v].seeds[c]], Cast(bs))]]

(* accumulateAnonymousTally, of what the file opened. *)
Tally(bs) == [tallies |-> Scores(bs),
              seeds   |-> Weighted(bs, [v \in Cast(bs) |-> bs[v].seeds])]

(* A file opens what was sealed under its key and what is in plain numbers; one  *)
(* ballot that does not open is an error for all.                                *)
OpensBallot(k, ballot) == ballot.key \in {None, k}
Opens(k, bs) == Cast(bs) # {} /\ \A v \in Cast(bs) : OpensBallot(k, bs[v])

(* The contract's side: the commitments, each as often as it weighs, add up to   *)
(* the values and the seeds it is given.                                         *)
CommitmentsMatch(tally, bs) ==
  LET values == [v \in Cast(bs) |-> [c \in Choice |-> bs[v].commitments[c].value]]
      seeds  == [v \in Cast(bs) |-> [c \in Choice |-> bs[v].commitments[c].seed]]
  IN  tally.tallies = Weighted(bs, values) /\ tally.seeds = Weighted(bs, seeds)

Decided(scores) ==
  LET all == scores["approve"] + scores["reject"] + scores["abstain"]
  IN  IF 2 * scores["approve"] > all THEN "approved"
      ELSE IF 2 * scores["reject"] > all THEN "rejected" ELSE "cancelled"

Shut == [at |-> "shut", tally |-> None, basis |-> None, result |-> None]

(* The button appears when the time is over and nothing is decided, as far as    *)
(* the page knows.  The result of a public vote is that of the votes it has, and *)
(* stays what it is when the page reads them again.                              *)
OpenWindow(m) ==
  /\ ended /\ seen[m].status = "active" /\ windows[m].at = "shut" /\ opened < MaxWindows
  /\ opened' = opened + 1
  /\ windows' = [windows EXCEPT ![m] =
       IF vote.public
       THEN [at |-> "confirm", tally |-> None, basis |-> seen[m].votes,
             result |-> ComputedResult(Scores(seen[m].votes))]
       ELSE [Shut EXCEPT !.at = "key"]]
  /\ UNCHANGED <<chain, keys, sent, seen>>

(* A file whose public key is another than the project's is taken all the same.  *)
UseFile(m, k) ==
  /\ windows[m].at = "key" /\ k \in files[m] /\ key # None
  /\ Opens(k, ballots)
  /\ windows' = [windows EXCEPT ![m] =
       [at |-> "confirm", tally |-> Tally(ballots), basis |-> ballots,
        result |-> ComputedResult(Tally(ballots).tallies)]]
  /\ UNCHANGED <<chain, keys, sent, seen, opened>>

BackToKey(m) ==
  /\ ~vote.public /\ windows[m].at = "confirm"
  /\ windows' = [windows EXCEPT ![m].at = "key"]
  /\ UNCHANGED <<chain, keys, sent, seen, opened>>

CloseWindow(m) ==
  /\ windows[m].at # "shut"
  /\ windows' = [windows EXCEPT ![m] = Shut]
  /\ UNCHANGED <<chain, keys, sent, seen, opened>>

(* The contract counts public votes itself. *)
Execute(m) ==
  /\ windows[m].at = "confirm" /\ ended /\ status = "active"
  /\ \/ vote.public /\ status' = Decided(Scores(ballots))
     \/ /\ ~vote.public /\ CommitmentsMatch(windows[m].tally, ballots)
        /\ status' = Decided(windows[m].tally.tallies)
  /\ windows' = [windows EXCEPT ![m].at = "done"]
  /\ UNCHANGED <<vote, ballots, ended, keys, sent, opened>>
  /\ Reread(m)

ExecuteFails(m) ==
  /\ windows[m].at = "confirm"
  /\ windows' = [windows EXCEPT ![m] = Shut]
  /\ UNCHANGED <<chain, keys, sent, seen, opened>>

-------------------------------------------------------------------------------

Init ==
  /\ vote \in [public : BOOLEAN, token : BOOLEAN]
  /\ key = None /\ files = [m \in Maintainer |-> {}] /\ drafts = [m \in Maintainer |-> None]
  /\ ballots = [v \in Voter |->
       IF v # Proposer THEN None
       ELSE IF vote.public THEN PublicBallot("abstain", 0) ELSE ProposersBallot]
  /\ sent = [v \in Voter |-> None]
  /\ ended = FALSE /\ status = "active"
  /\ seen = [m \in Maintainer |-> Proposal]
  /\ windows = [m \in Maintainer |-> Shut] /\ opened = 0

Voting   == \E v \in Voter :
              \/ VoteLands(v) \/ VoteFails(v) \/ \E m \in Maintainer : RemoveVote(m, v)
              \/ \E choice \in Choice : SendVote(v, choice)
Keeping  == \E m \in Maintainer : PublishKey(m) \/ DropDraft(m) \/ \E k \in Key : NewKey(m, k)
Deciding == \E m \in Maintainer :
              \/ OpenWindow(m) \/ BackToKey(m) \/ CloseWindow(m) \/ Execute(m) \/ ExecuteFails(m)
              \/ \E k \in Key : UseFile(m, k)

Next == Voting \/ Keeping \/ Deciding \/ End \/ \E m \in Maintainer : Refetch(m)

Spec == Init /\ [][Next]_vars

-------------------------------------------------------------------------------

Numbers == [Choice -> Nat]
Ballot  == [weight : Nat, votes : Numbers, seeds : Numbers,
            commitments : [Choice -> [value : Nat, seed : Nat]], key : Key \union {None}]
Boxes   == [Voter -> Ballot \union {None}]
Results == {"approved", "rejected", "cancelled"}
Page    == [voters : SUBSET Voter, votes : Boxes, status : Results \union {"active"}]
Window  == [at : {"shut", "key", "confirm", "done"},
            tally : [tallies : Numbers, seeds : Numbers] \union {None},
            basis : Boxes \union {None}, result : Results \union {None}]

TypeOK ==
  /\ vote \in [public : BOOLEAN, token : BOOLEAN]
  /\ key \in Key \union {None}
  /\ files \in [Maintainer -> SUBSET Key] /\ drafts \in [Maintainer -> Key \union {None}]
  /\ ballots \in Boxes /\ sent \in Boxes
  /\ seen \in [Maintainer -> Page]
  /\ ended \in BOOLEAN /\ status \in Results \union {"active"}
  /\ windows \in [Maintainer -> Window]

(* A tally that was computed from the ballots as they are is one the contract    *)
(* accepts: what the file opens, each ballot by its weight, adds up to what was  *)
(* committed, whatever keys were made and replaced before.                       *)
TallyIsAccepted ==
  \A m \in Maintainer :
    ~vote.public /\ windows[m].at = "confirm" /\ windows[m].basis = ballots
      => CommitmentsMatch(windows[m].tally, ballots)

(* The result a maintainer was shown, and with it the transaction offered for    *)
(* it, is the one the contract decided, and that is what the ballots come to     *)
(* that the contract has - of an anonymous vote whatever was removed since they  *)
(* were opened, of a public one if the page had those ballots.                   *)
ResultIsOfBallots ==
  \A m \in Maintainer :
    /\ windows[m].at = "done"
    /\ vote.public => windows[m].basis = ballots
    => windows[m].result = status /\ status = Decided(Scores(ballots))

(* What the window says once the vote is executed, the final outcome, is the     *)
(* status the proposal has.                                                      *)
ShownResultIsDecided ==
  \A m \in Maintainer : windows[m].at = "done" => windows[m].result = status

(* Every sealed ballot can be opened by a file that some maintainer has, however *)
(* drafts are dropped and keys replaced while ballots are on their way.          *)
SealedBallotsCanBeOpened ==
  \A v \in Cast(ballots) : ballots[v].key # None =>
     \E m \in Maintainer : ballots[v].key \in files[m]
===============================================================================
