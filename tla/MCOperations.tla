---------------------------- MODULE MCOperations ----------------------------
(***************************************************************************)
(* What the operators of an installation do: the administrators upgrade    *)
(* the contract (Upgrade), whoever runs the event server fills its         *)
(* database (Indexer), and the admin of the membership token mints and     *)
(* claws back (ScfMembership).  The three share no state, so a behaviour   *)
(* is one of one of them.                                                  *)
(***************************************************************************)
EXTENDS Upgrade

CONSTANTS ann, bob, cyd, v1, v2, v3,
          Content, Run, page_limit, checkpoint_interval, max_retries,
          PollLimit, Lookback, MaxLedger, MaxEvents, MaxPolls, MaxFaults,
          Admin, MaxToken, Values

\* What is not there is no ledger.
ASSUME IndexerAssumption == None \notin Nat /\ page_limit \in Nat

VARIABLES duty, chain, latest, table, checkpoint, lock, runs, poller, polls, faults

index == <<chain, latest, table, checkpoint, lock, runs, poller, polls, faults>>

I == INSTANCE Indexer

VARIABLES next_token_id, owner, balances, roles, token_wasm

token == <<next_token_id, owner, balances, roles, token_wasm>>

T == INSTANCE ScfMembership WITH wasm <- token_wasm

ASSUME TokenAssumption == T!ScfAssumption

Config(m, list) == [threshold |-> m, admins |-> list]

\* One, two and three administrators, majorities and unanimity, with and
\* without the founder, and a threshold longer than its list.
DistinctConfigs ==
  {Config(2, <<ann, bob>>), Config(2, <<ann, bob, cyd>>), Config(1, <<bob, cyd>>),
   Config(2, <<cyd>>)}

\* Lists that name an administrator twice, and an empty one.
RepeatedConfigs ==
  {Config(2, <<ann, ann>>), Config(2, <<ann, bob, ann>>), Config(3, <<bob, bob, ann>>),
   Config(0, <<>>)}

AllConfigs == DistinctConfigs \cup RepeatedConfigs

\* The least role of a token and the greatest, one that governance does not
\* know, and one beyond each end.
RoleValues == {-1, 0, 3, 4, 5}

OperationsInit ==
  /\ duty \in {"upgrade", "index", "token"}
  /\ Init
  /\ I!Init /\ (duty # "index" => chain = <<>>)
  /\ T!Init

OnUpgrade(A) == duty = "upgrade" /\ A /\ UNCHANGED <<duty, index, token>>
OnIndex(A)   == duty = "index" /\ A /\ UNCHANGED <<duty, vars, token>>
OnToken(A)   == duty = "token" /\ A /\ UNCHANGED <<duty, vars, index>>

Upgrading ==
  \/ OnUpgrade(Tick)
  \/ \E admin \in Account :
       \/ \E value \in BOOLEAN : OnUpgrade(Pause(admin, value))
       \/ \E hash \in Wasm, new \in Configs \cup {None} : OnUpgrade(ProposeUpgrade(admin, hash, new))
       \/ OnUpgrade(ApproveUpgrade(admin))
       \/ \E accept \in BOOLEAN : OnUpgrade(FinalizeUpgrade(admin, accept))

Indexing ==
  \/ \E p \in Run :
       \/ OnIndex(I!Start(p)) \/ OnIndex(I!Refused(p)) \/ OnIndex(I!Locked(p))
       \/ OnIndex(I!PageArrives(p)) \/ OnIndex(I!CommitProgress(p)) \/ OnIndex(I!Unlock(p))
       \/ OnIndex(I!PageFails(p)) \/ OnIndex(I!Crash(p))
  \/ OnIndex(I!ConnectionLost)
  \/ OnIndex(I!Poll) \/ OnIndex(I!Insert) \/ OnIndex(I!PollFails)
  \/ OnIndex(I!Close)

Minting ==
  \E caller \in Account :
    \/ \E to \in Account : OnToken(T!Mint(caller, to))
    \/ \E id \in T!Token : OnToken(T!Clawback(caller, id))
    \/ \E id \in T!Token, value \in Values : OnToken(T!SetTrait(caller, id, value))
    \/ \E hash \in Wasm : OnToken(T!Upgrade(caller, hash))

all == <<duty, vars, index, token>>

\* The fairness of Indexer.
OperationsSpec ==
  /\ OperationsInit /\ [][Upgrading \/ Indexing \/ Minting]_all
  /\ WF_all(OnIndex(I!Insert)) /\ \A p \in Run : WF_all(OnIndex(I!Backfill(p)))

\* Of Indexer: what the checkpoint says is done is stored, and the backfill ends.
CheckpointCovers == I!CheckpointCovers
BackfillEnds     == duty = "index" => I!BackfillEnds

\* Of ScfMembership: the balance of an account is the number of its tokens.
BalancesMatchOwners == T!BalancesMatchOwners
=============================================================================
