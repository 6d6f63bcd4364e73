--------------------------- MODULE PublishingProofs ---------------------------
(* The flows between a click and the ledger, for any number of flows, accounts   *)
(* and operations: whichever answers are lost and whichever attempts repeat, the *)
(* ledger names only content that is pinned, and what the member was told of     *)
(* exists.                                                                       *)
EXTENDS Publishing, TLAPS

-------------------------------------------------------------------------------
(* What each action makes of the flow it moves, field by field *)

Becomes(f, flow) == flow \in FlowState /\ flows' = [flows EXCEPT ![f] = flow]

Moved(f, at, sends) ==
  [op |-> flows[f].op, at |-> at, signer |-> flows[f].signer, seq |-> flows[f].seq,
   genuine |-> flows[f].genuine, attempt |-> flows[f].attempt, sends |-> sends]

LEMMA FlowTypes ==
  ASSUME TypeOK
  PROVE  flows = [g \in Flow |-> flows[g]] /\ \A f \in Flow : flows[f] \in FlowState
  BY DEF TypeOK

LEMMA BecomesTypes ==
  ASSUME TypeOK, NEW f \in Flow, NEW flow, Becomes(f, flow)
  PROVE  /\ flows' \in [Flow -> FlowState] /\ flows'[f] = flow
         /\ \A g \in Flow \ {f} : flows'[g] = flows[g]
  BY DEF TypeOK, Becomes

LEMMA MovedTypes ==
  ASSUME TypeOK, NEW f \in Flow, NEW at \in Place, NEW sends \in 0 .. Retries
  PROVE  Moved(f, at, sends) \in FlowState
  BY FlowTypes DEF Moved, FlowState

LEMMA Going ==
  ASSUME TypeOK, NEW f \in Flow, NEW at \in Place
  PROVE  Goto(f, at) => Becomes(f, Moved(f, at, 0))
<1> DEFINE gone == [flows EXCEPT ![f].at = at, ![f].sends = 0]
<1>1. flows = [g \in Flow |-> flows[g]] /\ flows[f] \in FlowState
  BY FlowTypes
<1>2. gone = [flows EXCEPT ![f].at = at, ![f].sends = 0]
  OBVIOUS
<1> HIDE DEF gone
<1>3. gone = [flows EXCEPT ![f] = gone[f]]
  BY <1>1, <1>2
<1>4. gone[f] = [op |-> flows[f].op, at |-> at, signer |-> flows[f].signer,
                 seq |-> flows[f].seq, genuine |-> flows[f].genuine,
                 attempt |-> flows[f].attempt, sends |-> 0]
  BY <1>1, <1>2 DEF FlowState
<1>5. gone[f] = Moved(f, at, 0)
  BY <1>4 DEF Moved
<1>6. Moved(f, at, 0) \in FlowState
  BY MovedTypes DEF Retries
<1> QED BY <1>3, <1>5, <1>6 DEF Goto, Becomes, gone

LEMMA Starting ==
  ASSUME FlowAssumption, TypeOK, NEW f \in Flow, Start(f)
  PROVE  /\ flows[f].at = "idle"
         /\ \E flow : /\ Becomes(f, flow)
                      /\ flow.op \in Operation /\ flow.at \in {"pack", "build"}
         /\ UNCHANGED <<connected, tx, sequence, pinned, asked, answer>>
<1>1. PICK op \in Ops :
        flows' = [flows EXCEPT ![f].op = op, ![f].at = FirstStep(op),
                               ![f].signer = IF op \in OfTheClick THEN connected ELSE Nobody]
  BY DEF Start
<1> DEFINE at     == FirstStep(op)
           signer == IF op \in OfTheClick THEN connected ELSE Nobody
<1>2. at \in {"pack", "build"} /\ signer \in Account \cup {Nobody} /\ op \in Operation
  BY DEF FirstStep, FlowAssumption, TypeOK
<1>3. flows = [g \in Flow |-> flows[g]] /\ flows[f] \in FlowState
  BY FlowTypes
<1>4. flows' = [flows EXCEPT ![f].op = op, ![f].at = at, ![f].signer = signer]
  BY <1>1
<1> HIDE DEF at, signer
<1>5. flows' = [flows EXCEPT ![f] = flows'[f]]
  BY <1>3, <1>4
<1>6. flows'[f] = [op |-> op, at |-> at, signer |-> signer, seq |-> flows[f].seq,
                   genuine |-> flows[f].genuine, attempt |-> flows[f].attempt,
                   sends |-> flows[f].sends]
  BY <1>3, <1>4 DEF FlowState
<1>7. flows'[f] \in FlowState
  BY <1>2, <1>3, <1>6 DEF FlowState, Place
<1>8. /\ Becomes(f, flows'[f])
      /\ flows'[f].op \in Operation /\ flows'[f].at \in {"pack", "build"}
  BY <1>2, <1>5, <1>6, <1>7 DEF Becomes
<1> QED BY <1>8 DEF Start, ledger, delegated

LEMMA Building ==
  ASSUME TypeOK, NEW f \in Flow, Build(f)
  PROVE  /\ flows[f].at = "build"
         /\ \E flow : /\ Becomes(f, flow)
                      /\ flow.op = flows[f].op /\ flow.at \in {"sign", "error"}
         /\ UNCHANGED <<connected, tx, sequence, pinned, asked, answer>>
<1>1. CASE Goto(f, "error")
  <2>1. Becomes(f, Moved(f, "error", 0))
    BY <1>1, Going DEF Place
  <2>2. Moved(f, "error", 0).op = flows[f].op /\ Moved(f, "error", 0).at = "error"
    BY DEF Moved
  <2> QED BY <2>1, <2>2 DEF Build, ledger, delegated
<1>2. CASE /\ Signer(f) # Nobody
           /\ flows' = [flows EXCEPT ![f].at = "sign", ![f].signer = Signer(f),
                                     ![f].seq = sequence[Signer(f)] + 1]
  <2> DEFINE signer == Signer(f)
             seq    == sequence[signer] + 1
  <2>1. flows = [g \in Flow |-> flows[g]] /\ flows[f] \in FlowState
    BY FlowTypes
  <2>2. signer \in Account
    BY <1>2, <2>1 DEF Signer, TypeOK, FlowState
  <2>3. seq \in Nat
    <3> HIDE DEF signer
    <3> QED BY <2>2 DEF TypeOK
  <2>4. flows' = [flows EXCEPT ![f].at = "sign", ![f].signer = signer, ![f].seq = seq]
    BY <1>2
  <2> HIDE DEF signer, seq
  <2>5. flows' = [flows EXCEPT ![f] = flows'[f]]
    BY <2>1, <2>4
  <2>6. flows'[f] = [op |-> flows[f].op, at |-> "sign", signer |-> signer, seq |-> seq,
                     genuine |-> flows[f].genuine, attempt |-> flows[f].attempt,
                     sends |-> flows[f].sends]
    BY <2>1, <2>4 DEF FlowState
  <2>7. flows'[f] \in FlowState
    BY <2>1, <2>2, <2>3, <2>6 DEF FlowState, Place
  <2>8. Becomes(f, flows'[f]) /\ flows'[f].op = flows[f].op /\ flows'[f].at = "sign"
    BY <2>5, <2>6, <2>7 DEF Becomes
  <2> QED BY <2>8 DEF Build, ledger, delegated
<1> QED BY <1>1, <1>2 DEF Build

LEMMA Signing ==
  ASSUME TypeOK, NEW f \in Flow, Sign(f)
  PROVE  /\ flows[f].at = "sign"
         /\ \E flow : /\ Becomes(f, flow)
                      /\ flow.op = flows[f].op /\ flow.at \in {AfterSign(flows[f].op), "error"}
         /\ UNCHANGED <<connected, tx, sequence, pinned, asked, answer>>
<1>1. CASE Goto(f, "error")
  <2>1. Becomes(f, Moved(f, "error", 0))
    BY <1>1, Going DEF Place
  <2>2. Moved(f, "error", 0).op = flows[f].op /\ Moved(f, "error", 0).at = "error"
    BY DEF Moved
  <2> QED BY <2>1, <2>2 DEF Sign, ledger, delegated
<1>2. CASE flows' = [flows EXCEPT ![f].at = AfterSign(flows[f].op),
                                  ![f].genuine = connected = flows[f].signer]
  <2> DEFINE at      == AfterSign(flows[f].op)
             genuine == connected = flows[f].signer
  <2>1. flows = [g \in Flow |-> flows[g]] /\ flows[f] \in FlowState
    BY FlowTypes
  <2>2. at \in Place /\ genuine \in BOOLEAN
    BY DEF AfterSign, Place
  <2>3. flows' = [flows EXCEPT ![f].at = at, ![f].genuine = genuine]
    BY <1>2
  <2> HIDE DEF at, genuine
  <2>4. flows' = [flows EXCEPT ![f] = flows'[f]]
    BY <2>1, <2>3
  <2>5. flows'[f] = [op |-> flows[f].op, at |-> at, signer |-> flows[f].signer,
                     seq |-> flows[f].seq, genuine |-> genuine,
                     attempt |-> flows[f].attempt, sends |-> flows[f].sends]
    BY <2>1, <2>3 DEF FlowState
  <2>6. flows'[f] \in FlowState
    BY <2>1, <2>2, <2>5 DEF FlowState
  <2>7. Becomes(f, flows'[f]) /\ flows'[f].op = flows[f].op /\ flows'[f].at = at
    BY <2>4, <2>5, <2>6 DEF Becomes
  <2> QED BY <2>7 DEF at, Sign, ledger, delegated
<1> QED BY <1>1, <1>2 DEF Sign

(* A step of a flow that tries again, or gives up.                               *)
LEMMA TryingAgain ==
  ASSUME TypeOK, NEW f \in Flow, UploadAttemptFails(f)
  PROVE  /\ flows[f].at = "upload"
         /\ \E flow : /\ Becomes(f, flow)
                      /\ flow.op = flows[f].op /\ flow.at \in {"upload", "error"}
         /\ UNCHANGED <<connected, tx, sequence, pinned, asked, answer>>
<1> DEFINE flow == IF flows[f].attempt = 1 THEN [flows[f] EXCEPT !.attempt = 2]
                                           ELSE [flows[f] EXCEPT !.at = "error"]
<1>1. /\ flows' = [flows EXCEPT ![f] = flow] /\ flows[f].at = "upload"
      /\ UNCHANGED <<connected, tx, sequence, pinned, asked, answer>>
  BY FlowTypes DEF UploadAttemptFails, ledger, delegated
<1>2. flows[f] \in FlowState
  BY FlowTypes
<1>3. \/ flow = [flows[f] EXCEPT !.attempt = 2]
      \/ flow = [flows[f] EXCEPT !.at = "error"]
  OBVIOUS
<1> HIDE DEF flow
<1>4. flow \in FlowState /\ flow.op = flows[f].op /\ flow.at \in {"upload", "error"}
  BY <1>1, <1>2, <1>3 DEF FlowState, Attempts, Place
<1> QED BY <1>1, <1>4 DEF Becomes

LEMMA Sending ==
  ASSUME TypeOK, NEW f \in Flow, SendFails(f)
  PROVE  /\ flows[f].at = "send"
         /\ \E flow : /\ Becomes(f, flow)
                      /\ flow.op = flows[f].op /\ flow.at \in {"send", "error"}
         /\ tx' = tx \/ Queued(f)
         /\ UNCHANGED <<connected, sequence, pinned, asked, answer>>
<1> DEFINE sends == flows[f].sends + 1
           flow  == IF flows[f].sends < Retries THEN [flows[f] EXCEPT !.sends = sends]
                                                ELSE [flows[f] EXCEPT !.at = "error"]
<1>1. /\ flows' = [flows EXCEPT ![f] = flow] /\ flows[f].at = "send"
      /\ tx' = tx \/ Queued(f)
      /\ UNCHANGED <<connected, sequence, pinned, asked, answer>>
  <2>1. flows' = [flows EXCEPT ![f] = IF @.sends < Retries THEN [@ EXCEPT !.sends = flows[f].sends + 1]
                                                         ELSE [@ EXCEPT !.at = "error"]]
    BY DEF SendFails
  <2>2. flows' = [flows EXCEPT ![f] = flow]
    BY <2>1, FlowTypes
  <2> HIDE DEF flow
  <2> QED BY <2>2 DEF SendFails, delegated
<1>2. flows[f] \in FlowState
  BY FlowTypes
<1>3. \/ flow = [flows[f] EXCEPT !.sends = sends] /\ sends \in 0 .. Retries
      \/ flow = [flows[f] EXCEPT !.at = "error"]
  BY <1>2 DEF FlowState, Retries
<1> HIDE DEF flow, sends
<1>4. flow \in FlowState /\ flow.op = flows[f].op /\ flow.at \in {"send", "error"}
  BY <1>1, <1>2, <1>3 DEF FlowState, Place
<1> QED BY <1>1, <1>4 DEF Becomes

-------------------------------------------------------------------------------
(* The invariant *)

(* Nothing is on the network before it is signed and its content is confirmed;   *)
(* from then on its content is pinned, and a flow that ends well with a proposal *)
(* or a donation has its transaction on the ledger.                              *)
FlowInv(f) ==
  /\ flows[f].at \in {"idle", "pack", "build", "sign", "upload"} => tx[f] = "none"
  /\ flows[f].at = "upload" => flows[f].op \in WithContent
  /\ flows[f].at = "post" => flows[f].op = "donation"
  /\ flows[f].at \in {"send", "poll"} => flows[f].op # "donation"
  /\ flows[f].op \in WithContent /\ (flows[f].at \in {"send", "poll"} \/ tx[f] # "none")
       => f \in pinned
  /\ flows[f].at = "ok" /\ flows[f].op \in {"create_proposal", "donation"} => tx[f] = "success"

(* The service says yes only to what it keeps, and is asked by a flow for the    *)
(* flow's own content.                                                           *)
ServiceInv ==
  \A f \in Flow, k \in Attempts :
    /\ answer[<<f, k>>] = "ok" => asked[<<f, k>>] \in pinned
    /\ asked[<<f, k>>] \in {f, NoCid}

PublishingInv == TypeOK /\ ServiceInv /\ \A f \in Flow : FlowInv(f)

(* A step of one flow, and of its transaction.                                   *)
LEMMA FlowFrame ==
  ASSUME PublishingInv, NEW f \in Flow, NEW flow, Becomes(f, flow),
         tx' = tx \/ Queued(f), UNCHANGED <<connected, sequence, pinned, asked, answer>>,
         FlowInv(f)'
  PROVE  PublishingInv'
<1>1. /\ flows' \in [Flow -> FlowState]
      /\ \A g \in Flow \ {f} : flows'[g] = flows[g]
  BY BecomesTypes DEF PublishingInv
<1>2. /\ tx' \in [Flow -> {"none", "queued", "success", "failed", "dropped"}]
      /\ \A g \in Flow \ {f} : tx'[g] = tx[g]
  BY DEF PublishingInv, TypeOK, Queued
<1>3. \A g \in Flow : FlowInv(g)'
  BY <1>1, <1>2 DEF PublishingInv, FlowInv
<1>4. TypeOK'
  BY <1>1, <1>2 DEF PublishingInv, TypeOK
<1>5. ServiceInv'
  BY DEF PublishingInv, ServiceInv
<1> QED BY <1>3, <1>4, <1>5 DEF PublishingInv

(* A step that moves a flow on, with its transaction left alone.                 *)
LEMMA MoveFrame ==
  ASSUME PublishingInv, NEW f \in Flow, NEW at \in Place, Goto(f, at),
         UNCHANGED <<connected, tx, sequence, pinned, asked, answer>>,
         at \in {"idle", "pack", "build", "sign", "upload"} => tx[f] = "none",
         at = "upload" => flows[f].op \in WithContent,
         at = "post" => flows[f].op = "donation",
         at \in {"send", "poll"} => flows[f].op # "donation",
         at \in {"send", "poll"} /\ flows[f].op \in WithContent => f \in pinned,
         at = "ok" /\ flows[f].op \in {"create_proposal", "donation"} => tx[f] = "success"
  PROVE  PublishingInv'
<1>1. Becomes(f, Moved(f, at, 0))
  BY Going DEF PublishingInv
<1>2. Moved(f, at, 0).op = flows[f].op /\ Moved(f, at, 0).at = at
  BY DEF Moved
<1>3. flows'[f].op = flows[f].op /\ flows'[f].at = at
  BY <1>1, <1>2, BecomesTypes DEF PublishingInv
<1>4. FlowInv(f) /\ tx'[f] = tx[f] /\ pinned' = pinned
  BY DEF PublishingInv
<1>5. FlowInv(f)'
  BY <1>3, <1>4 DEF FlowInv
<1> QED BY <1>1, <1>5, FlowFrame

LEMMA ErrorFrame ==
  ASSUME PublishingInv, NEW f \in Flow, Goto(f, "error"),
         UNCHANGED <<connected, tx, sequence, pinned, asked, answer>>
  PROVE  PublishingInv'
  BY MoveFrame DEF Place

LEMMA EarlyStep ==
  ASSUME FlowAssumption, PublishingInv, NEW f \in Flow,
         Start(f) \/ Pack(f) \/ Build(f) \/ Sign(f)
  PROVE  PublishingInv'
<1>t. TypeOK /\ FlowInv(f)
  BY DEF PublishingInv
<1>1. CASE Start(f)
  <2>1. PICK flow : /\ Becomes(f, flow) /\ flow.at \in {"pack", "build"}
    BY <1>t, <1>1, Starting
  <2>2. flows'[f] = flow
    BY <1>t, <2>1, BecomesTypes
  <2>3. flows[f].at = "idle" /\ UNCHANGED <<connected, tx, sequence, pinned, asked, answer>>
    BY <1>t, <1>1, Starting
  <2>4. FlowInv(f)'
    BY <1>t, <2>1, <2>2, <2>3 DEF FlowInv
  <2> QED BY <2>1, <2>3, <2>4, FlowFrame
<1>2. CASE Pack(f)
  BY <1>t, <1>2, MoveFrame DEF Pack, FlowInv, Place, ledger, delegated
<1>3. CASE Build(f)
  <2>1. PICK flow : Becomes(f, flow) /\ flow.op = flows[f].op /\ flow.at \in {"sign", "error"}
    BY <1>t, <1>3, Building
  <2>2. flows'[f] = flow
    BY <1>t, <2>1, BecomesTypes
  <2>3. flows[f].at = "build" /\ UNCHANGED <<connected, tx, sequence, pinned, asked, answer>>
    BY <1>t, <1>3, Building
  <2>4. FlowInv(f)'
    BY <1>t, <2>1, <2>2, <2>3 DEF FlowInv
  <2> QED BY <2>1, <2>3, <2>4, FlowFrame
<1>4. CASE Sign(f)
  <2>1. PICK flow : /\ Becomes(f, flow) /\ flow.op = flows[f].op
                    /\ flow.at \in {AfterSign(flows[f].op), "error"}
    BY <1>t, <1>4, Signing
  <2>2. flows'[f] = flow
    BY <1>t, <2>1, BecomesTypes
  <2>3. flows[f].at = "sign" /\ UNCHANGED <<connected, tx, sequence, pinned, asked, answer>>
    BY <1>t, <1>4, Signing
  <2>4. FlowInv(f)'
    BY <1>t, <2>1, <2>2, <2>3 DEF FlowInv, AfterSign, WithContent
  <2> QED BY <2>1, <2>3, <2>4, FlowFrame
<1> QED BY <1>1, <1>2, <1>3, <1>4

LEMMA PageStep ==
  ASSUME FlowAssumption, PublishingInv, NEW f \in Flow, Steps(f) \/ Post(f)
  PROVE  PublishingInv'
<1>t. TypeOK /\ FlowInv(f) /\ ServiceInv
  BY DEF PublishingInv
<1>1. CASE UploadConfirmed(f)
  <2>1. f \in pinned
    <3>1. flows[f].attempt \in Attempts
      BY <1>t, FlowTypes DEF FlowState
    <3>2. asked[<<f, flows[f].attempt>>] \in pinned
      BY <1>t, <1>1, <3>1 DEF ServiceInv, UploadConfirmed, Upload
    <3>3. asked[<<f, flows[f].attempt>>] \in {f, NoCid}
      BY <1>t, <3>1 DEF ServiceInv
    <3> QED BY <1>t, <3>2, <3>3 DEF TypeOK, FlowAssumption
  <2>2. flows[f].op # "donation"
    BY <1>t, <1>1 DEF FlowInv, UploadConfirmed, WithContent
  <2> QED BY <1>1, <2>1, <2>2, MoveFrame DEF UploadConfirmed, Place, ledger, delegated
<1>2. CASE UploadAttemptFails(f)
  <2>1. PICK flow : Becomes(f, flow) /\ flow.op = flows[f].op /\ flow.at \in {"upload", "error"}
    BY <1>t, <1>2, TryingAgain
  <2>2. flows'[f] = flow
    BY <1>t, <2>1, BecomesTypes
  <2>3. flows[f].at = "upload" /\ UNCHANGED <<connected, tx, sequence, pinned, asked, answer>>
    BY <1>t, <1>2, TryingAgain
  <2>4. FlowInv(f)'
    BY <1>t, <2>1, <2>2, <2>3 DEF FlowInv
  <2> QED BY <2>1, <2>3, <2>4, FlowFrame
<1>3. CASE SendFails(f)
  <2>1. PICK flow : Becomes(f, flow) /\ flow.op = flows[f].op /\ flow.at \in {"send", "error"}
    BY <1>t, <1>3, Sending
  <2>2. flows'[f] = flow
    BY <1>t, <2>1, BecomesTypes
  <2>3. /\ flows[f].at = "send" /\ (tx' = tx \/ Queued(f))
        /\ UNCHANGED <<connected, sequence, pinned, asked, answer>>
    BY <1>t, <1>3, Sending
  <2>4. /\ flows'[f].op = flows[f].op /\ flows'[f].at \in {"send", "error"}
        /\ flows[f].at = "send" /\ pinned' = pinned
    BY <2>1, <2>2, <2>3
  <2>5. FlowInv(f)'
    BY <1>t, <2>4 DEF FlowInv
  <2> QED BY <2>1, <2>3, <2>5, FlowFrame
<1>4. CASE Pending(f)
  <2>1. Becomes(f, Moved(f, "poll", 0))
    BY <1>t, <1>4, Going DEF Pending, Place
  <2>2. flows'[f].op = flows[f].op /\ flows'[f].at = "poll"
    BY <1>t, <2>1, BecomesTypes DEF Moved
  <2>3. FlowInv(f)'
    BY <1>t, <1>4, <2>2 DEF FlowInv, Pending, delegated
  <2> QED BY <1>4, <2>1, <2>3, FlowFrame DEF Pending, delegated
<1>5. CASE Rejected(f) \/ PollingEnds(f) \/ PostFails(f)
  BY <1>5, ErrorFrame DEF Rejected, PollingEnds, PostFails, ledger, delegated
<1>6. CASE SentOtherwise(f)
  <2>1. Goto(f, Ends(f, "object")) /\ UNCHANGED <<connected, tx, sequence, pinned, asked, answer>>
    BY <1>6 DEF SentOtherwise, ledger, delegated
  <2>2. CASE flows[f].op = "create_proposal"
    BY <2>1, <2>2, ErrorFrame DEF Ends
  <2>3. CASE flows[f].op # "create_proposal"
    <3>1. Goto(f, "ok")
      BY <2>1, <2>3 DEF Ends
    <3>2. flows[f].op # "donation"
      BY <1>t, <1>6 DEF FlowInv, SentOtherwise
    <3> QED BY <2>1, <2>3, <3>1, <3>2, MoveFrame DEF Place
  <2> QED BY <2>2, <2>3
<1>7. CASE Polled(f)
  <2>1. UNCHANGED <<connected, tx, sequence, pinned, asked, answer>>
    BY <1>7 DEF Polled, ledger, delegated
  <2>2. CASE tx[f] = "success" /\ Goto(f, Ends(f, "value"))
    BY <2>1, <2>2, MoveFrame DEF Ends, Place
  <2>3. CASE Goto(f, "error")
    BY <2>1, <2>3, ErrorFrame
  <2> QED BY <1>7, <2>2, <2>3 DEF Polled
<1>8. CASE Post(f)
  <2>1. CASE Queued(f) /\ UNCHANGED flows
    <3>1. flows' = [flows EXCEPT ![f] = flows[f]] /\ flows[f] \in FlowState
      BY <1>t, <2>1, FlowTypes
    <3>2. FlowInv(f)'
      BY <1>t, <1>8, <2>1 DEF FlowInv, Post, WithContent, delegated
    <3> QED BY <1>8, <2>1, <3>1, <3>2, FlowFrame DEF Post, Becomes, delegated
  <2>2. CASE UNCHANGED tx /\ tx[f] = "success" /\ Goto(f, "ok")
    BY <1>8, <2>2, MoveFrame DEF Post, Place, delegated
  <2> QED BY <1>8, <2>1, <2>2 DEF Post
<1> QED BY <1>1, <1>2, <1>3, <1>4, <1>5, <1>6, <1>7, <1>8 DEF Steps

(* What the service does, which keeps what it has pinned.                        *)
LEMMA AskedStep ==
  ASSUME FlowAssumption, PublishingInv, NEW f \in Flow, NEW k \in Attempts, Arrives(f, k)
  PROVE  PublishingInv'
<1>t. TypeOK /\ ServiceInv
  BY DEF PublishingInv
<1>1. /\ asked[<<f, k>>] = NoCid /\ asked' = [asked EXCEPT ![<<f, k>>] = f]
      /\ answer' = answer \/ answer' = [answer EXCEPT ![<<f, k>>] = "refused"]
      /\ UNCHANGED <<connected, flows, tx, sequence, pinned>>
  BY DEF Arrives, Ask, AskRefused, ledger
<1>2. answer[<<f, k>>] # "ok"
  BY <1>t, <1>1 DEF TypeOK, ServiceInv, FlowAssumption
<1>3. TypeOK'
  BY <1>t, <1>1 DEF TypeOK
<1>4. ServiceInv'
  <2> SUFFICES ASSUME NEW g \in Flow, NEW l \in Attempts
               PROVE  /\ answer'[<<g, l>>] = "ok" => asked'[<<g, l>>] \in pinned
                      /\ asked'[<<g, l>>] \in {g, NoCid}
    BY <1>1 DEF ServiceInv
  <2>1. CASE <<g, l>> = <<f, k>>
    <3>1. asked'[<<f, k>>] = f /\ answer'[<<f, k>>] # "ok"
      BY <1>t, <1>1, <1>2 DEF TypeOK
    <3> QED BY <2>1, <3>1
  <2>2. CASE <<g, l>> # <<f, k>>
    <3>1. asked'[<<g, l>>] = asked[<<g, l>>] /\ answer'[<<g, l>>] = answer[<<g, l>>]
      BY <1>t, <1>1, <2>2 DEF TypeOK
    <3> QED BY <1>t, <3>1 DEF ServiceInv
  <2> QED BY <2>1, <2>2
<1>5. \A g \in Flow : FlowInv(g)'
  BY <1>1 DEF PublishingInv, FlowInv
<1> QED BY <1>3, <1>4, <1>5 DEF PublishingInv

LEMMA ServedStep ==
  ASSUME FlowAssumption, PublishingInv, NEW c \in Flow \X Attempts, Serves(c)
  PROVE  PublishingInv'
<1>t. TypeOK /\ ServiceInv
  BY DEF PublishingInv
<1>1. PICK f \in Flow, k \in Attempts : c = <<f, k>>
  <2>1. c[1] \in Flow /\ c[2] \in Attempts /\ c = <<c[1], c[2]>>
    OBVIOUS
  <2> QED BY <2>1
<1>2. /\ asked[c] # NoCid /\ answer[c] = "none"
      /\ pinned' = pinned \/ pinned' = pinned \cup {asked[c]}
      /\ UNCHANGED <<connected, flows, tx, sequence, asked>>
  BY DEF Serves, Keep, Accept, Refuse, Open, ledger
<1>3. asked[c] = f
  BY <1>t, <1>1, <1>2 DEF ServiceInv
<1>4. \/ answer' = answer
      \/ answer' = [answer EXCEPT ![c] = "refused"]
      \/ answer' = [answer EXCEPT ![c] = "ok"] /\ f \in pinned'
  BY <1>3 DEF Serves, Keep, Accept, Refuse
<1>5. TypeOK'
  BY <1>t, <1>2, <1>3, <1>4 DEF TypeOK
<1>6. ServiceInv'
  <2> SUFFICES ASSUME NEW g \in Flow, NEW l \in Attempts
               PROVE  answer'[<<g, l>>] = "ok" => asked[<<g, l>>] \in pinned'
    BY <1>t, <1>2 DEF ServiceInv
  <2>1. CASE <<g, l>> = c
    BY <1>t, <1>2, <1>3, <1>4, <2>1 DEF TypeOK
  <2>2. CASE <<g, l>> # c
    <3>1. answer'[<<g, l>>] = answer[<<g, l>>]
      BY <1>t, <1>4, <2>2 DEF TypeOK
    <3> QED BY <1>t, <1>2, <3>1 DEF ServiceInv
  <2> QED BY <2>1, <2>2
<1>7. ASSUME NEW g \in Flow
      PROVE  FlowInv(g)'
  <2>1. FlowInv(g) /\ flows'[g] = flows[g] /\ tx'[g] = tx[g] /\ (g \in pinned => g \in pinned')
    BY <1>2 DEF PublishingInv
  <2> QED BY <2>1 DEF FlowInv
<1> QED BY <1>5, <1>6, <1>7 DEF PublishingInv

(* What the network does with a transaction it has.                              *)
LEMMA NetworkStep ==
  ASSUME PublishingInv, NEW f \in Flow, Apply(f) \/ Drop(f)
  PROVE  PublishingInv'
<1>t. TypeOK
  BY DEF PublishingInv
<1>1. /\ tx[f] = "queued" /\ UNCHANGED <<connected, flows, pinned, asked, answer>>
      /\ \E outcome \in {"success", "failed", "dropped"} : tx' = [tx EXCEPT ![f] = outcome]
  BY DEF Apply, Drop, delegated
<1>2. sequence' \in [Account -> Nat]
  BY <1>t DEF TypeOK, Apply, Drop
<1>3. TypeOK'
  BY <1>t, <1>1, <1>2 DEF TypeOK
<1>4. ServiceInv'
  BY <1>1 DEF PublishingInv, ServiceInv
<1>5. ASSUME NEW g \in Flow
      PROVE  FlowInv(g)'
  <2>1. FlowInv(g) /\ flows'[g] = flows[g] /\ pinned' = pinned
    BY <1>1 DEF PublishingInv
  <2>2. tx'[g] = tx[g] \/ tx[g] = "queued"
    BY <1>t, <1>1 DEF TypeOK
  <2> QED BY <2>1, <2>2 DEF FlowInv
<1> QED BY <1>3, <1>4, <1>5 DEF PublishingInv

LEMMA PublishingStep ==
  ASSUME FlowAssumption, PublishingInv, [Next]_vars
  PROVE  PublishingInv'
<1>1. CASE Connect \/ UNCHANGED vars
  <2>1. UNCHANGED <<flows, tx, sequence, pinned, asked, answer>>
    BY <1>1 DEF Connect, vars, ledger, delegated
  <2>2. connected' \in Account \cup {Nobody}
    BY <1>1 DEF Connect, vars, PublishingInv, TypeOK
  <2> QED BY <2>1, <2>2 DEF PublishingInv, TypeOK, ServiceInv, FlowInv
<1>2. CASE Next /\ ~Connect
  BY <1>2, EarlyStep, PageStep, NetworkStep, AskedStep, ServedStep DEF Next
<1> QED BY <1>1, <1>2

LEMMA PublishingStart ==
  ASSUME Init
  PROVE  PublishingInv
<1>1. NewFlow \in FlowState
  BY DEF NewFlow, FlowState, Place, Attempts, Retries
<1>2. TypeOK
  BY <1>1 DEF Init, ServiceInit, TypeOK
<1>3. ServiceInv
  BY DEF Init, ServiceInit, ServiceInv
<1>4. \A f \in Flow : FlowInv(f)
  BY DEF Init, NewFlow, FlowInv, WithContent
<1> QED BY <1>2, <1>3, <1>4 DEF PublishingInv

(* Every reachable state satisfies the invariant.                                *)
THEOREM PublishingInvariant == Spec => []PublishingInv
<1>1. Init => PublishingInv
  BY PublishingStart
<1>2. PublishingInv /\ [Next]_vars => PublishingInv'
  BY PublishingStep, FlowAssumption
<1> QED BY <1>1, <1>2, PTL DEF Spec

(* The ledger never names content that is not pinned, whichever answers were     *)
(* lost and whichever attempts repeated on the way.                              *)
THEOREM LedgerNamesOnlyPinned == Spec => []LedgerNamesPinned
<1>1. PublishingInv => LedgerNamesPinned
  BY DEF PublishingInv, FlowInv, LedgerNamesPinned
<1> QED BY <1>1, PublishingInvariant, PTL

(* A proposal, or a donation, the member was told of is on the ledger.           *)
THEOREM ReportedIsOnLedger == Spec => []ReportedExists
<1>1. PublishingInv => ReportedExists
  BY DEF PublishingInv, FlowInv, ReportedExists
<1> QED BY <1>1, PublishingInvariant, PTL

===============================================================================
