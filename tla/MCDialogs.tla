------------------------------ MODULE MCDialogs ------------------------------
(* What is done in windows over the pages: a proposal is written (Proposing), or  *)
(* voted upon and executed (Ballots), a list is edited (Editors), a member looked *)
(* at or changed (Members).  They have no state in common, so a session in one    *)
(* window after the other does nothing that these do not.                         *)
(*                                                                                *)
(* One of the voters has proposed, the other is one of the two maintainers.  A    *)
(* public vote is by a token, which has one decimal and is taken for one with     *)
(* none where that cannot be read, an anonymous one by badges.                    *)
EXTENDS Ballots, TLC

CONSTANTS ann, bob, cyd,
          Contract, Fn, MinPeriod, Margin, MaxPeriod, Dates, MaxEdits, MaxJobs, MaxNow,
          app, guild, MaxLooks, MaxSaves, MaxSwitches,
          Nowhere, MaxChanges, MaxSent, MaxOthers

(* An end an hour later than the shortest period asks for is not beyond the       *)
(* longest.                                                                       *)
ASSUME PeriodsAssumption ==
  /\ {MinPeriod, Margin, MaxPeriod, MaxNow} \subseteq Nat /\ Dates \subseteq Nat
  /\ MinPeriod + Margin <= MaxPeriod

(* No form is no kind of form.                                                   *)
ASSUME FormsAssumption == None \notin {"edit", "join"}

VARIABLES screen,
          window, draft, outcomes, jobs, now, edits,
          profile, wallet, extension, checking, search, asked, profiles, form, saves,
          looks, saved, switches, raced,
          kind, stored, editor, changed, changes, others

writing   == <<window, draft, outcomes, jobs, now, edits>>
dashboard == <<profile, wallet, extension, checking, search, asked, profiles, form, saves,
               looks, saved, switches, raced>>
editing   == <<kind, stored, editor, changed, changes, others>>

P == INSTANCE Proposing
M == INSTANCE Members WITH Member <- {ann, bob}, Project <- {app, guild}, Featured <- {app},
                           OnChain <- {app, guild}, MaxClicks <- MaxLooks, clicks <- looks,
                           windows <- profiles
E == INSTANCE Editors WITH Entry <- {app, guild}, Latest <- app, MaxClicks <- MaxChanges,
                           window <- editor, sent <- changed, clicks <- changes

Powers == (bob :> 20) @@ (cyd :> 10)

(* The slider is left at nothing, or at all of little power and a part of much.   *)
NoneOrSome(power) == {0, IF power < 5 THEN power ELSE power \div 5}

Seeds  == LET three(a, r, n) == [approve |-> a, reject |-> r, abstain |-> n]
          IN  (bob :> three(1, 2, 3)) @@ (cyd :> three(3, 1, 2))

Named == [approved |-> {"c1"}, rejected |-> {"c2"}, cancelled |-> {}]

(* There is nothing at a screen that a session is not at, but for the votes.  At   *)
(* the dashboard ann is connected, and bob has no profile without a file.         *)
DialogsInit ==
  /\ screen \in {"votes", "form", "dashboard", "lists"}
  /\ Init
  /\ IF screen = "votes" THEN vote.token = vote.public
                         ELSE vote = [public |-> TRUE, token |-> FALSE]
  /\ IF screen = "form" THEN P!Init
     ELSE /\ window = None /\ draft = None /\ outcomes = None
          /\ jobs = <<>> /\ now = 0 /\ edits = 0
  /\ IF screen = "dashboard" THEN M!Init /\ wallet = ann /\ profile[bob] # M!Blank
     ELSE /\ profile = None /\ wallet = None /\ extension = None /\ checking = FALSE
          /\ search = None /\ asked = {} /\ profiles = None /\ form = None /\ saves = {}
          /\ looks = 0 /\ saved = 0 /\ switches = 0 /\ raced = FALSE
  /\ IF screen = "lists" THEN E!Init
     ELSE /\ kind = None /\ stored = {} /\ editor = None
          /\ changed = {} /\ changes = 0 /\ others = 0

(* What happens to the keys of a project is of no account for a public vote.       *)
OnVotes(A)     == screen = "votes" /\ A /\ UNCHANGED <<screen, writing, dashboard, editing>>
OnKeys(A)      == ~vote.public /\ OnVotes(A)
OnForm(A)      == screen = "form" /\ A /\ UNCHANGED <<screen, vars, dashboard, editing>>
OnDashboard(A) == screen = "dashboard" /\ A /\ UNCHANGED <<screen, vars, writing, editing>>
OnLists(A)     == screen = "lists" /\ A /\ UNCHANGED <<screen, vars, writing, dashboard>>

Votes ==
  \/ \E v \in Voter :
       \/ OnVotes(VoteLands(v)) \/ OnVotes(VoteFails(v))
       \/ \E m \in Maintainer : OnVotes(RemoveVote(m, v))
       \/ \E choice \in Choice : OnVotes(SendVote(v, choice))
  \/ \E m \in Maintainer :
       \/ OnKeys(PublishKey(m)) \/ OnKeys(DropDraft(m)) \/ \E k \in Key : OnKeys(NewKey(m, k))
       \/ OnVotes(OpenWindow(m)) \/ OnVotes(BackToKey(m)) \/ OnVotes(CloseWindow(m))
       \/ OnVotes(Execute(m)) \/ OnVotes(ExecuteFails(m))
       \/ \E k \in Key : OnVotes(UseFile(m, k))
  \/ OnVotes(End) \/ \E m \in Maintainer : OnVotes(Refetch(m))

Form ==
  \/ OnForm(P!Open) \/ OnForm(P!Close) \/ OnForm(P!Continue) \/ OnForm(P!Next3) \/ OnForm(P!Back)
  \/ OnForm(P!Write) \/ OnForm(P!ToggleAnonymous) \/ OnForm(P!ResetKeys)
  \/ OnForm(P!Outline) \/ \E day \in Dates : OnForm(P!PickDate(day))
  \/ OnForm(P!Register) \/ OnForm(P!SignSetup)
  \/ \E i \in DOMAIN jobs :
       \/ OnForm(P!SetupEnds(i)) \/ OnForm(P!Progress(i))
       \/ OnForm(P!Created(i)) \/ OnForm(P!CreationFails(i))
  \/ OnForm(P!Tick)

Dashboard ==
  \/ \E m \in {ann, bob} : OnDashboard(M!SearchMember(m))
  \/ \E p \in {app, guild} : OnDashboard(M!SearchProject(p))
  \/ \E a \in asked : OnDashboard(M!ProjectLookedUp(a)) \/ OnDashboard(M!MemberLookedUp(a))
  \/ OnDashboard(M!OpenOwn) \/ OnDashboard(M!OpenJoin)
  \/ \E place \in M!Place :
       \/ OnDashboard(M!CloseWindow(place)) \/ OnDashboard(M!OpenEdit(place))
       \/ \E text \in IF screen = "dashboard" THEN profiles[place].fetches ELSE {} :
            OnDashboard(M!Fetched(place, text))
  \/ OnDashboard(M!Type) \/ OnDashboard(M!CloseForm) \/ OnDashboard(M!Save)
  \/ \E m \in {ann, bob} : OnDashboard(M!TypeAddress(m)) \/ OnDashboard(M!SwitchAccount(m))
  \/ \E s \in saves : OnDashboard(M!Lands(s)) \/ OnDashboard(M!Fails(s))
  \/ OnDashboard(M!WalletChecked)

Lists ==
  \/ OnLists(E!OpenSubProjects) \/ OnLists(E!SubProjectsRead) \/ OnLists(E!SaveNames)
  \/ \E e \in {app, guild} : OnLists(E!AddName(e))
  \/ \E e \in {app, guild} \union {Nowhere} : OnLists(E!RemoveName(e))
  \/ OnLists(E!OpenConflicts) \/ OnLists(E!ConflictsRead) \/ OnLists(E!Retry)
  \/ OnLists(E!PickAll) \/ OnLists(E!Unpick) \/ OnLists(E!Apply) \/ OnLists(E!RemovePicked)
  \/ \E e \in {app, guild} : OnLists(E!Pend(e)) \/ OnLists(E!Pick(e)) \/ OnLists(E!RemoveOne(e))
  \/ \E some \in SUBSET {app, guild} : OnLists(E!DropPending(some))
  \/ OnLists(E!OpenAgain) \/ OnLists(E!AddBadges) \/ OnLists(E!CommitRead) \/ OnLists(E!UpdateHash)
  \/ \E e \in {app, guild} : OnLists(E!ToggleBadge(e)) \/ OnLists(E!TypeHash(e))
  \/ OnLists(E!OthersChange) \/ OnLists(E!Close)
  \/ \E m \in changed : OnLists(E!Lands(m)) \/ OnLists(E!Succeeds(m)) \/ OnLists(E!Fails(m))

DialogsNext == Votes \/ Form \/ Dashboard \/ Lists

DialogsSpec == DialogsInit /\ [][DialogsNext]_<<screen, vars, writing, dashboard, editing>>

(* Of Proposing: what is sent is acceptable, its calls are those the member saw   *)
(* and the voters read, in the order written.                                     *)
AcceptableWhenSent == screen = "form" => P!AcceptableWhenSent
CallsAccountedFor  == screen = "form" => P!CallsAccountedFor

(* Of Members: a saved profile keeps the words that were not touched, and the     *)
(* result that is shown is of what was searched for last.                         *)
UntouchedWordsStay == M!UntouchedWordsStay
ResultIsOfTerm     == screen = "dashboard" => M!ResultIsOfTerm

(* Of Editors: a change to a list does what the member did in the window, and     *)
(* what was added to the conflicts is listed.                                     *)
SavedAsWished   == E!SavedAsWished
AppliedIsListed == screen = "lists" => E!AppliedIsListed
===============================================================================
