------------------------------ MODULE Proposing ------------------------------
(* The window in which a maintainer writes a proposal (CreateProposalModal):     *)
(* four steps that are validated one by one, a step that publishes the key of    *)
(* anonymous votes, and the submission, which goes on when the window is closed  *)
(* and works with what the draft held at the click.  The draft outlives the      *)
(* window.                                                                       *)
(*                                                                               *)
(* The outcome of each decision is written as a contract call, as a prepared     *)
(* transaction or as text; the contract gets a list of calls and looks one up by *)
(* the position of the decision.                                                 *)
EXTENDS Naturals, Sequences

CONSTANTS Contract,          \* decision -> contracts its outcome can name (if any, it is written)
          Fn,                \* functions of contracts
          MinPeriod, Margin, MaxPeriod,  \* voting period: 24 hours, one more, 30 days
          Dates,             \* days the member can pick
          MaxEdits, MaxJobs, MaxNow      \* model bounds

VARIABLES window,    \* what the member sees: open, step and result of the last submission
          draft,     \* the draft apart from its outcomes
          outcomes,  \* decision -> what is written for it
          jobs,      \* submissions, in the order of their clicks
          now, edits

vars == <<window, draft, outcomes, jobs, now, edits>>

Decisions == <<"approved", "rejected", "cancelled">>
Decision  == {Decisions[i] : i \in 1 .. 3}
Mode      == {"contract", "xdr", "none"}

NoAddress == "no address"
NoFn      == "no function"
NoCall    == <<NoAddress, NoFn>>

-------------------------------------------------------------------------------
(* What the member writes *)

NewOutcome == [shown |-> FALSE, mode |-> "contract", address |-> NoAddress, fn |-> NoFn]
NewDraft   == [valid |-> FALSE, anonymous |-> FALSE, configured |-> FALSE, end |-> MinPeriod + Margin]

Shut       == [open |-> FALSE, step |-> 1, result |-> "none", loading |-> FALSE]

OnStep(n) == window.open /\ window.result = "none" /\ window.step = n

GoTo(n) == window' = [window EXCEPT !.step = n]

Edit == edits < MaxEdits /\ edits' = edits + 1

(* Name, description, template and token contract: all that the first step      *)
(* checks is either acceptable or not.                                           *)
Write ==
  /\ OnStep(1)
  /\ draft' = [draft EXCEPT !.valid = ~@]
  /\ UNCHANGED <<window, outcomes, jobs, now, edits>>

(* handleToggleAnonymous: whether the project has a key already is read when the *)
(* box is ticked, and a read that fails counts as no.  "Reset keys" asks for a   *)
(* new one.                                                                      *)
ToggleAnonymous ==
  /\ OnStep(1) /\ Edit
  /\ \E configured \in BOOLEAN :
       /\ draft.anonymous => ~configured
       /\ draft' = [draft EXCEPT !.anonymous = ~@, !.configured = configured]
  /\ UNCHANGED <<window, outcomes, jobs, now>>

ResetKeys ==
  /\ OnStep(1) /\ Edit /\ draft.anonymous /\ draft.configured
  /\ draft' = [draft EXCEPT !.configured = FALSE]
  /\ UNCHANGED <<window, outcomes, jobs, now>>

(* "Add" shows an outcome and "Remove" hides it again, with what is in it. *)
ShowOutcome(d) ==
  /\ OnStep(2) /\ Edit
  /\ outcomes' = [outcomes EXCEPT ![d].shown = ~@]
  /\ UNCHANGED <<window, draft, jobs, now>>

(* The contract is forgotten when the member turns to a transaction instead, but *)
(* not when the outcome is made one without an action.                           *)
SetMode(d, m) ==
  /\ OnStep(2) /\ Edit /\ outcomes[d].shown /\ m # outcomes[d].mode
  /\ outcomes' = [outcomes EXCEPT ![d] =
       IF m = "xdr" /\ @.mode = "contract" THEN [NewOutcome EXCEPT !.shown = TRUE, !.mode = m]
                                           ELSE [@ EXCEPT !.mode = m]]
  /\ UNCHANGED <<window, draft, jobs, now>>

(* A new address keeps the function chosen for the one before. *)
TypeAddress(d, a) ==
  /\ OnStep(2) /\ Edit /\ outcomes[d].shown /\ outcomes[d].mode = "contract"
  /\ a # outcomes[d].address
  /\ outcomes' = [outcomes EXCEPT ![d].address = a]
  /\ UNCHANGED <<window, draft, jobs, now>>

(* From the list of functions, or by hand when the contract cannot be looked     *)
(* into; the field is there once an address is.                                  *)
PickFunction(d, f) ==
  /\ OnStep(2) /\ Edit /\ outcomes[d].shown /\ outcomes[d].mode = "contract"
  /\ outcomes[d].address # NoAddress /\ f # outcomes[d].fn
  /\ outcomes' = [outcomes EXCEPT ![d].fn = f]
  /\ UNCHANGED <<window, draft, jobs, now>>

(* The second step: what the outcome of each decision is. *)
Outline == \E d \in {e \in Decision : Contract[e] # {}} :
  \/ ShowOutcome(d)
  \/ \E m \in Mode : SetMode(d, m)
  \/ \E a \in Contract[d] \cup {NoAddress} : TypeAddress(d, a)
  \/ \E f \in Fn : PickFunction(d, f)

PickDate(day) ==
  /\ OnStep(3) /\ Edit
  /\ draft' = [draft EXCEPT !.end = now + day]
  /\ UNCHANGED <<window, outcomes, jobs, now>>

-------------------------------------------------------------------------------
(* From step to step *)

Larger(m, n)  == IF m < n THEN n ELSE m
Smaller(m, n) == IF m < n THEN m ELSE n

(* The first two steps check the text; the third moves a day that is too near    *)
(* and refuses one that is too far.                                              *)
NextStep ==
  \/ \E n \in 1 .. 2 : OnStep(n) /\ draft.valid /\ GoTo(n + 1) /\ UNCHANGED draft
  \/ /\ OnStep(3) /\ draft.end <= now + MaxPeriod /\ GoTo(4)
     /\ draft' = [draft EXCEPT !.end = Larger(@, now + MinPeriod + Margin)]

Next3 == NextStep /\ UNCHANGED <<outcomes, jobs, now, edits>>

Back ==
  /\ \/ \E n \in 2 .. 4 : OnStep(n) /\ GoTo(n - 1)
     \/ \E n \in 1 .. 3 : OnStep(4) /\ GoTo(n)
  /\ UNCHANGED <<draft, outcomes, jobs, now, edits>>

(* handleSubmitProposal: the button on the page, for a maintainer.  Which account *)
(* is connected changes at any time; it is looked at here and at the end.        *)
Open ==
  /\ ~window.open
  /\ window' = [window EXCEPT !.open = TRUE]
  /\ UNCHANGED <<draft, outcomes, jobs, now, edits>>

(* Closing forgets where the member was and how the submission went, not what    *)
(* was written, and stops nothing.                                               *)
Close ==
  /\ window.open
  /\ window' = Shut
  /\ UNCHANGED <<draft, outcomes, jobs, now, edits>>

(* "Continue" leaves for the page of the new proposal. *)
Continue ==
  /\ window.open /\ window.result = "live"
  /\ window' = Shut /\ draft' = NewDraft /\ outcomes' = [d \in Decision |-> NewOutcome]
  /\ UNCHANGED <<jobs, now, edits>>

-------------------------------------------------------------------------------
(* Register Proposal *)

Call(o) == <<o.address, o.fn>>

(* Faulty variants of definitions below, each a slip the code could contain;     *)
(* nothing here is part of the model.                                            *)
CollectedInAnyMode(o) == IF o.address # NoAddress /\ o.fn # NoFn THEN Call(o) ELSE NoCall

(* collectOutcome: an address and a function. *)
Collected(o) == IF o.mode = "contract" /\ o.address # NoAddress /\ o.fn # NoFn
                THEN Call(o) ELSE NoCall

(* buildOutcome: an address is enough for the file. *)
Described(o) == IF o.mode = "contract" /\ o.address # NoAddress THEN Call(o) ELSE NoCall

(* The page on which the member reviews the draft. *)
Reviewed(o) == IF o.shown THEN Collected(o) ELSE NoCall

PerDecision == [i \in 1 .. 3 |-> outcomes[Decisions[i]]]
AllCollected == [i \in 1 .. 3 |-> Collected(PerDecision[i])]

IfAny(c) == IF c # NoCall THEN <<c>> ELSE <<>>

(* The calls that are there, one after the other. *)
Calls == IfAny(AllCollected[1]) \o IfAny(AllCollected[2]) \o IfAny(AllCollected[3])

NewJob(at) ==
  [at |-> at, valid |-> draft.valid, anonymous |-> draft.anonymous, end |-> draft.end, clicked |-> now,
   calls |-> Calls, written |-> AllCollected,
   described |-> [i \in 1 .. 3 |-> Described(PerDecision[i])],
   reviewed |-> [i \in 1 .. 3 |-> Reviewed(PerDecision[i])]]

(* Faulty variants, as above. *)
ClampedToLeast(end) == Larger(now + MinPeriod, Smaller(now + MaxPeriod, end))

(* The end is moved into what the contract accepts, with an hour to spare. *)
Clamped(end) == Larger(now + MinPeriod + Margin, Smaller(now + MaxPeriod, end))

LastEdits == edits' = MaxEdits   \* model bound: no more edits once it is sent

NeedsKey == draft.anonymous /\ ~draft.configured

(* handleRegisterProposal: an account that may not propose is told so; the key    *)
(* comes first, if there is none to use.                                         *)
Register ==
  /\ OnStep(4) /\ Len(jobs) < MaxJobs
  /\ \/ window' = [window EXCEPT !.result = "error"] /\ UNCHANGED jobs
     \/ NeedsKey /\ GoTo(5) /\ UNCHANGED jobs
     \/ /\ ~NeedsKey /\ GoTo(6)
        /\ jobs' = Append(jobs, [NewJob("sign") EXCEPT !.end = Clamped(draft.end)])
  /\ LastEdits
  /\ UNCHANGED <<draft, outcomes, now>>

SignSetup ==
  /\ OnStep(5) /\ Len(jobs) < MaxJobs /\ ~window.loading
  /\ window' = [window EXCEPT !.loading = TRUE]
  /\ jobs' = Append(jobs, NewJob("setup"))
  /\ LastEdits
  /\ UNCHANGED <<draft, outcomes, now>>

Fails(i) ==
  /\ jobs' = [jobs EXCEPT ![i].at = "failed"]
  /\ window' = [window EXCEPT !.result = "error", !.loading = FALSE]

(* Once the key is published, the draft of the click is submitted. *)
SetupEnds(i) ==
  /\ jobs[i].at = "setup"
  /\ \/ Fails(i) /\ UNCHANGED draft
     \/ /\ jobs' = [jobs EXCEPT ![i].at = "sign", ![i].end = Clamped(@), ![i].clicked = now]
        /\ draft' = [draft EXCEPT !.configured = TRUE]
        /\ GoTo(6)
  /\ UNCHANGED <<outcomes, now, edits>>

(* createProposalFlow shows where it is, whatever is on the screen. *)
After == [sign |-> "upload", upload |-> "send"]
Shows == [sign |-> 7, upload |-> 8, send |-> 9]

Progress(i) ==
  /\ jobs[i].at \in {"sign", "upload"}
  /\ jobs' = [jobs EXCEPT ![i].at = After[@]]
  /\ GoTo(Shows[After[jobs[i].at]])
  /\ UNCHANGED <<draft, outcomes, now, edits>>

(* create_proposal of the contract, which looks at the voting period again. *)
Accepts(end) == now + MinPeriod <= end /\ end <= now + MaxPeriod

Created(i) ==
  /\ jobs[i].at = "send" /\ Accepts(jobs[i].end)
  /\ jobs' = [jobs EXCEPT ![i].at = "created"]
  /\ window' = [window EXCEPT !.result = IF @ = "error" THEN @ ELSE "live",
                             !.loading = FALSE]
  /\ UNCHANGED <<draft, outcomes, now, edits>>

CreationFails(i) ==
  /\ jobs[i].at \in {"sign", "upload", "send"} /\ Fails(i)
  /\ UNCHANGED <<draft, outcomes, now, edits>>

Tick ==
  /\ now < MaxNow /\ now' = now + 1
  /\ UNCHANGED <<window, draft, outcomes, jobs, edits>>

Init ==
  /\ window = Shut
  /\ draft = NewDraft
  /\ outcomes = [d \in Decision |-> NewOutcome]
  /\ jobs = <<>>
  /\ now = 0 /\ edits = 0

Next ==
  \/ Open \/ Close \/ Continue \/ Next3 \/ Back
  \/ Write \/ ToggleAnonymous \/ ResetKeys \/ Outline
  \/ \E day \in Dates : PickDate(day)
  \/ Register \/ SignSetup
  \/ \E i \in DOMAIN jobs : SetupEnds(i) \/ Progress(i) \/ Created(i) \/ CreationFails(i)
  \/ Tick

Spec == Init /\ [][Next]_vars

-------------------------------------------------------------------------------
(* Properties *)

Address == (UNION {Contract[d] : d \in Decision}) \cup {NoAddress}
Function == Fn \cup {NoFn}
Sent == {"sign", "upload", "send", "created", "failed"}

TypeOK ==
  /\ window \in [open : BOOLEAN, step : 1 .. 9, result : {"none", "error", "live"},
                loading : BOOLEAN]
  /\ draft \in [valid : BOOLEAN, anonymous : BOOLEAN, configured : BOOLEAN,
                end : 0 .. (MaxNow + Larger(MaxPeriod, MinPeriod + Margin) + 1)]
  /\ outcomes \in [Decision -> [shown : BOOLEAN, mode : Mode, address : Address, fn : Function]]
  /\ \A i \in DOMAIN jobs :
       /\ jobs[i].at \in Sent \cup {"setup"}
       /\ Len(jobs[i].calls) <= 3
  /\ now \in 0 .. MaxNow /\ edits \in 0 .. MaxEdits

(* What is sent passed the checks of the steps before, whichever way the member   *)
(* took back and forth and however often the window was closed, and the contract  *)
(* does not refuse it for its voting period unless the hour to spare has gone by. *)
AcceptableWhenSent ==
  \A i \in DOMAIN jobs :
    /\ jobs[i].valid
    /\ jobs[i].at \in {"sign", "upload", "send"} /\ now <= jobs[i].clicked + Margin
         => Accepts(jobs[i].end)

Entries(s) == {s[n] : n \in DOMAIN s}

(* Every call the contract may make is in the file the voters read, and every     *)
(* call the member saw before submitting is one the contract may make.            *)
CallsAccountedFor ==
  \A i \in DOMAIN jobs :
    /\ Entries(jobs[i].calls) \subseteq Entries(jobs[i].described)
    /\ Entries(jobs[i].reviewed) \ {NoCall} \subseteq Entries(jobs[i].calls)

(* The call the contract makes for the n-th decision. *)
MadeFor(j, n) == IF n \in DOMAIN j.calls THEN j.calls[n] ELSE NoCall

(* types/proposal.ts:25, "Array of [approved, rejected, cancelled] contracts":    *)
(* the call made for a decision is the one that was written for it.               *)
OutcomeAsWritten ==
  \A i \in DOMAIN jobs : \A n \in 1 .. 3 : MadeFor(jobs[i], n) = jobs[i].written[n]

==============================================================================
