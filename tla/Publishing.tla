------------------------------ MODULE Publishing ------------------------------
(* What happens between a member's click and the ledger (FlowService,            *)
(* ContractService, TxService): content is packed, the transaction that names it *)
(* is built, simulated and signed, the content is delegated to the pinning       *)
(* service with the signed transaction as credential, and only then is the       *)
(* transaction sent and polled for.  Every answer can be lost; every wait has an *)
(* end; the transaction itself can be applied long after the flow gave up on it. *)
(*                                                                               *)
(* Calls that publish no content (votes, badges, commits, ...) run the same flow *)
(* without the upload; donations go through Horizon, which answers for itself.   *)
EXTENDS Naturals

CONSTANTS Flow,      \* flows, numbered from 1 in the order they start; each names its content
          Account,   \* accounts of the wallet
          Ops        \* operations the member starts

VARIABLES connected,  \* connectedPublicKey, or Nobody
          flows,      \* flow -> where it is
          tx,         \* flow -> its transaction on the network
          sequence,   \* account -> last sequence number used
          pinned, asked, answer

Attempts == 1 .. 2
NoCid == 0
INSTANCE PinningService WITH Call <- Flow \X Attempts, Cid <- Flow

ledger    == <<tx, sequence>>
delegated == <<pinned, asked, answer>>
vars      == <<connected, flows, tx, sequence, pinned, asked, answer>>

Nobody == "nobody"

-------------------------------------------------------------------------------
(* Operations *)

WithContent == {"create_proposal", "register", "update_config", "profile"}
ContractCall == {"vote", "execute", "remove_vote", "commit", "set_badges", "conflicts",
                 "anonymous_voting_setup"}
Operation   == WithContent \cup ContractCall \cup {"bare_profile", "donation"}

ASSUME FlowAssumption == Flow \subseteq Nat \ {NoCid} /\ Ops \subseteq Operation

(* Whose transaction it is: of the account that was connected at the click, or   *)
(* of the one connected when the transaction is built.                           *)
OfTheClick == ContractCall \cup {"profile", "bare_profile"}
OfTheBuild == Operation \ OfTheClick

FirstStep(op) == IF op \in WithContent THEN "pack" ELSE "build"
AfterSign(op) == IF op \in WithContent THEN "upload" ELSE IF op = "donation" THEN "post" ELSE "send"

Retries == 3   \* retryAsync

NewFlow == [op |-> "none", at |-> "idle", signer |-> Nobody, seq |-> 0,
            genuine |-> FALSE, attempt |-> 1, sends |-> 0]

Goto(f, at) == flows' = [flows EXCEPT ![f].at = at, ![f].sends = 0]

Start(f) ==
  \E op \in Ops :
    /\ flows[f].at = "idle" /\ \A g \in Flow : g < f => flows[g].at # "idle"
    /\ flows' = [flows EXCEPT ![f].op = op, ![f].at = FirstStep(op),
                              ![f].signer = IF op \in OfTheClick THEN connected ELSE Nobody]
    /\ UNCHANGED <<connected, ledger, delegated>>

Pack(f) ==
  /\ flows[f].at = "pack" /\ Goto(f, "build")
  /\ UNCHANGED <<connected, ledger, delegated>>

(* Build and simulate: without an account, or when the simulation fails, the     *)
(* flow ends here.                                                               *)
Signer(f) == IF flows[f].op \in OfTheClick THEN flows[f].signer ELSE connected

Build(f) ==
  /\ flows[f].at = "build"
  /\ \/ Goto(f, "error")
     \/ /\ Signer(f) # Nobody
        /\ flows' = [flows EXCEPT ![f].at = "sign", ![f].signer = Signer(f),
                                  ![f].seq = sequence[Signer(f)] + 1]
  /\ UNCHANGED <<connected, ledger, delegated>>

(* The wallet signs with the account that is active by then, or the member       *)
(* declines.                                                                     *)
Sign(f) ==
  /\ flows[f].at = "sign"
  /\ \/ Goto(f, "error")
     \/ /\ connected # Nobody
        /\ flows' = [flows EXCEPT ![f].at = AfterSign(flows[f].op),
                                  ![f].genuine = connected = flows[f].signer]
  /\ UNCHANGED <<connected, ledger, delegated>>

-------------------------------------------------------------------------------
(* uploadToIpfsProxy: two attempts *)

Upload(f) == <<f, flows[f].attempt>>

(* A request that was sent arrives, however late. *)
Arrives(f, k) ==
  /\ flows[f].op \in WithContent /\ flows[f].at \notin {"pack", "build", "sign"}
  /\ k <= flows[f].attempt
  /\ \/ flows[f].genuine /\ Ask(<<f, k>>, f)
     \/ AskRefused(<<f, k>>, f)
  /\ UNCHANGED <<connected, flows, ledger>>

Serves(c) ==
  /\ Keep(c) \/ Accept(c) \/ Refuse(c)
  /\ UNCHANGED <<connected, flows, ledger>>

UploadConfirmed(f) ==
  /\ flows[f].at = "upload" /\ answer[Upload(f)] = "ok"
  /\ Goto(f, "send")
  /\ UNCHANGED <<connected, ledger, delegated>>

(* Faulty variants of definitions below, each a slip the code could contain;     *)
(* nothing here is part of the model.                                            *)
LostUploadIgnored(f) ==
  /\ flows[f].at = "upload"
  /\ flows' = [flows EXCEPT ![f] = IF @.attempt = 1 THEN [@ EXCEPT !.attempt = 2]
                                                    ELSE [@ EXCEPT !.at = "send"]]
  /\ UNCHANGED <<connected, ledger, delegated>>

(* Refused, timed out or disconnected: once more, then the flow ends. *)
UploadAttemptFails(f) ==
  /\ flows[f].at = "upload"
  /\ flows' = [flows EXCEPT ![f] = IF @.attempt = 1 THEN [@ EXCEPT !.attempt = 2]
                                                    ELSE [@ EXCEPT !.at = "error"]]
  /\ UNCHANGED <<connected, ledger, delegated>>

-------------------------------------------------------------------------------
(* sendSignedTransaction *)

Queued(f) == tx' = [tx EXCEPT ![f] = IF @ = "none" THEN "queued" ELSE @]

(* Faulty variants, as above. *)
EndsWell(f, result) == "ok"
PollingForFailure(f) ==
  /\ flows[f].at = "poll" /\ tx[f] = "failed" /\ Goto(f, "error")
  /\ UNCHANGED <<connected, ledger, delegated>>

(* How a flow ends that got a result: create_proposal wants a number, and        *)
(* anything that is not an answer of the contract is none.                       *)
Ends(f, result) ==
  IF flows[f].op = "create_proposal" /\ result = "object" THEN "error" ELSE "ok"

(* No answer: the node may have the transaction all the same. *)
SendFails(f) ==
  /\ flows[f].at = "send"
  /\ \/ UNCHANGED tx
     \/ flows[f].genuine /\ Queued(f)
  /\ flows' = [flows EXCEPT ![f] = IF @.sends < Retries THEN [@ EXCEPT !.sends = flows[f].sends + 1]
                                                        ELSE [@ EXCEPT !.at = "error"]]
  /\ UNCHANGED <<connected, sequence, delegated>>

Pending(f) ==
  /\ flows[f].at = "send" /\ flows[f].genuine /\ tx[f] = "none"
  /\ Queued(f) /\ Goto(f, "poll")
  /\ UNCHANGED <<connected, sequence, delegated>>

Rejected(f) ==
  /\ flows[f].at = "send" /\ tx[f] \in {"none", "success", "failed", "dropped"}
  /\ Goto(f, "error")
  /\ UNCHANGED <<connected, ledger, delegated>>

(* The other answers a node gives: it has the transaction from an earlier        *)
(* attempt, or it is too busy to take it.                                        *)
Duplicate(f)     == tx[f] # "none" /\ flows[f].sends > 0
TryAgainLater(f) == tx[f] = "none"

SentOtherwise(f) ==
  /\ flows[f].at = "send"
  /\ Duplicate(f) \/ TryAgainLater(f)
  /\ Goto(f, Ends(f, "object"))
  /\ UNCHANGED <<connected, ledger, delegated>>

Polled(f) ==
  /\ flows[f].at = "poll"
  /\ \/ tx[f] = "success" /\ Goto(f, Ends(f, "value"))
     \/ tx[f] = "failed" /\ Goto(f, "error")
  /\ UNCHANGED <<connected, ledger, delegated>>

(* Thirty polls without an answer, or one that throws. *)
PollingEnds(f) ==
  /\ flows[f].at = "poll" /\ Goto(f, "error")
  /\ UNCHANGED <<connected, ledger, delegated>>

(* sendXLM: one request, which Horizon answers when the transaction is applied. *)
Post(f) ==
  /\ flows[f].at = "post"
  /\ UNCHANGED <<connected, sequence, delegated>>
  /\ \/ flows[f].genuine /\ tx[f] = "none" /\ Queued(f) /\ UNCHANGED flows
     \/ UNCHANGED tx /\ tx[f] = "success" /\ Goto(f, "ok")

PostFails(f) ==
  /\ flows[f].at = "post" /\ Goto(f, "error")
  /\ UNCHANGED <<connected, ledger, delegated>>

-------------------------------------------------------------------------------
(* The network: one transaction for each sequence number of an account.  The     *)
(* fee is paid, and the number used, also by a call that fails.                  *)

Apply(f) ==
  LET a == flows[f].signer
  IN  /\ tx[f] = "queued" /\ flows[f].seq = sequence[a] + 1
      /\ sequence' = [sequence EXCEPT ![a] = @ + 1]
      /\ \E outcome \in {"success", "failed"} : tx' = [tx EXCEPT ![f] = outcome]
      /\ UNCHANGED <<connected, flows, delegated>>

(* A transaction is valid until its sequence number is used or, except for a     *)
(* donation, which is signed without a limit, until its time has passed.         *)
Drop(f) ==
  /\ tx[f] = "queued"
  /\ flows[f].seq <= sequence[flows[f].signer] \/ flows[f].op # "donation"
  /\ tx' = [tx EXCEPT ![f] = "dropped"]
  /\ UNCHANGED <<connected, flows, sequence, delegated>>

(* setConnection, disconnect: the member may change the account at any time. *)
Connect ==
  /\ connected' \in (Account \cup {Nobody}) \ {connected}
  /\ UNCHANGED <<flows, ledger, delegated>>

Init ==
  /\ connected \in Account
  /\ flows = [f \in Flow |-> NewFlow]
  /\ tx = [f \in Flow |-> "none"]
  /\ sequence = [a \in Account |-> 0]
  /\ ServiceInit

Steps(f) ==
  \/ UploadConfirmed(f) \/ UploadAttemptFails(f)
  \/ SendFails(f) \/ Pending(f) \/ Rejected(f) \/ SentOtherwise(f)
  \/ Polled(f) \/ PollingEnds(f) \/ PostFails(f)

Next ==
  \/ Connect
  \/ \E f \in Flow :
       \/ Start(f) \/ Pack(f) \/ Build(f) \/ Sign(f) \/ Steps(f) \/ Post(f)
       \/ Apply(f) \/ Drop(f)
       \/ \E k \in Attempts : Arrives(f, k)
  \/ \E c \in Flow \X Attempts : Serves(c)

(* The page's own timers run; nothing is asked of the network or of the member. *)
Spec == Init /\ [][Next]_vars /\ \A f \in Flow : WF_vars(Steps(f))

-------------------------------------------------------------------------------
(* Properties *)

Place == {"idle", "pack", "build", "sign", "upload", "send", "poll", "post", "ok", "error"}

FlowState == [op : Operation \cup {"none"}, at : Place, signer : Account \cup {Nobody},
              seq : Nat, genuine : BOOLEAN, attempt : Attempts, sends : 0 .. Retries]

TypeOK ==
  /\ connected \in Account \cup {Nobody}
  /\ flows \in [Flow -> FlowState]
  /\ tx \in [Flow -> {"none", "queued", "success", "failed", "dropped"}]
  /\ sequence \in [Account -> Nat]
  /\ pinned \subseteq Flow
  /\ asked \in [Flow \X Attempts -> Flow \cup {NoCid}]
  /\ answer \in [Flow \X Attempts -> {"none", "ok", "refused"}]

(* The ledger never names content that is not pinned, whichever answers were     *)
(* lost and whichever attempts repeated on the way.                              *)
LedgerNamesPinned ==
  \A f \in Flow : tx[f] = "success" /\ flows[f].op \in WithContent => f \in pinned

(* A proposal, or a donation, the member was told of is on the ledger. *)
ReportedExists ==
  \A f \in Flow : flows[f].at = "ok" /\ flows[f].op \in {"create_proposal", "donation"}
                    => tx[f] = "success"

(* Once signed, every flow ends, even if nobody answers any more. *)
FlowEnds ==
  \A f \in Flow : (flows[f].at \in {"upload", "send", "poll", "post"})
                    ~> (flows[f].at \in {"ok", "error"})
===============================================================================
