------------------------------- MODULE Members -------------------------------
(* The dashboard's search, which finds members by their address and projects by  *)
(* their name, and what a member does of its own there: look at its profile,     *)
(* change it, or join.  A search shows what is found under what was searched for *)
(* last; a profile is changed by a form that is filled from what a window had    *)
(* fetched, for the account that is connected when it is saved.                  *)
EXTENDS Naturals, FiniteSets

CONSTANTS Member, Project,
          Featured,     \* projects listed without a search
          OnChain,      \* projects that are registered
          None,
          MaxClicks, MaxSaves, MaxSwitches   \* model bounds

VARIABLES profile,    \* the contract's: None, or the words in the file it names
          wallet,     \* the account that is connected
          extension,  \* the account that is chosen in the wallet itself
          checking,   \* if the wallet is being asked for it
          search,     \* the dashboard's search
          asked,      \* members and projects that are being looked up
          windows,    \* with a profile: one for who was found, one for one's own
          form,       \* the form that changes a profile or makes a new one
          saves,      \* the profiles on their way
          clicks,     \* searches, openings and edits
          saved, switches,
          raced       \* two searches at once, or an account changed on the way

wallets == <<wallet, extension, checking, switches>>
desk    == <<search, asked>>
vars    == <<profile, wallets, desk, windows, form, saves, clicks, saved, raced>>

-------------------------------------------------------------------------------

(* The words of a member, as of which save; Blank, also of a profile without file. *)
Blank       == [by |-> None, at |-> 0]
Words(m, n) == [by |-> m, at |-> n]

Place == {"found", "own"}

(* mine says that the window was last drawn for the account that is connected.   *)
(* lost and overtaken, which are not part of the program, say that what it shows *)
(* could not be fetched, or was replaced since.                                  *)
Shut   == [open |-> FALSE, of |-> None, address |-> None, mine |-> FALSE, fetches |-> {},
           data |-> None, lost |-> FALSE, overtaken |-> FALSE]
NoForm == [kind |-> None, at |-> None, to |-> None, text |-> Blank, typed |-> FALSE,
           fresh |-> TRUE, busy |-> FALSE, done |-> FALSE]
NoSearch == [term |-> None, loading |-> FALSE, missing |-> FALSE, onChain |-> None]

(* Windows and forms cover what is below them. *)
Uncovered == form.kind = None /\ \A place \in Place : ~windows[place].open

-------------------------------------------------------------------------------
(* The search of the dashboard *)

(* A member is looked up by its address; and a project of that name, if it was   *)
(* not the term already.                                                         *)
SearchMember(m) ==
  /\ Uncovered /\ clicks < MaxClicks
  /\ clicks' = clicks + 1
  /\ search' = [search EXCEPT !.term = m, !.missing = FALSE, !.loading = TRUE]
  /\ asked' = asked \union {[kind |-> "member", of |-> m]} \union
                IF search.term = m THEN {} ELSE {[kind |-> "project", of |-> m]}
  /\ raced' = (raced \/ asked # {})
  /\ UNCHANGED <<profile, wallets, windows, form, saves, saved>>

(* A name is looked for among the featured projects first. *)
SearchProject(p) ==
  /\ Uncovered /\ clicks < MaxClicks /\ search.term # p
  /\ clicks' = clicks + 1
  /\ search' = [search EXCEPT !.term = p, !.missing = FALSE, !.loading = @ \/ p \notin Featured]
  /\ asked' = asked \union IF p \in Featured THEN {} ELSE {[kind |-> "project", of |-> p]}
  /\ raced' = (raced \/ asked # {})
  /\ UNCHANGED <<profile, wallets, windows, form, saves, saved>>

(* Faulty variants of definitions below, each a slip the code could contain;     *)
(* nothing here is part of the model.                                            *)
OnlyFound(p, found) == IF found THEN p ELSE search.onChain

(* checkProjectOnChain: not found, or not answered, is not on the chain.         *)
Found(p, found) == IF found THEN p ELSE None

ProjectLookedUp(a) ==
  /\ a.kind = "project" /\ asked' = asked \ {a}
  /\ \E answered \in BOOLEAN :
       search' = [search EXCEPT !.loading = FALSE,
                                !.onChain = Found(a.of, answered /\ a.of \in OnChain)]
  /\ UNCHANGED <<profile, wallets, windows, form, saves, clicks, saved, raced>>

(* A window shows a member, of whom it fetches the file, if there is one; what   *)
(* it showed before stays until then.                                            *)
Address(place, w) == IF place = "found" THEN search.term ELSE w.address
Drawn(place, w)   == [w EXCEPT !.mine = Address(place, w) = wallet]
Showing(m, w) ==
  [w EXCEPT !.open = TRUE, !.of = m,
            !.fetches = @ \union (IF m = None \/ profile[m] = Blank THEN {} ELSE {profile[m]})]

(* handleMemberSearch: the window opens with the member that was found, under    *)
(* the address that is the term.                                                 *)
MemberLookedUp(a) ==
  /\ a.kind = "member" /\ asked' = asked \ {a}
  /\ \/ /\ profile[a.of] # None
        /\ search' = [search EXCEPT !.loading = FALSE]
        /\ windows' = [windows EXCEPT !["found"] = Drawn("found", Showing(a.of, @))]
     \/ search' = [search EXCEPT !.loading = FALSE, !.missing = TRUE] /\ UNCHANGED windows
  /\ UNCHANGED <<profile, wallets, form, saves, clicks, saved, raced>>

(* What the page shows of a search. *)
View ==
  IF search.loading \/ search.missing THEN None
  ELSE IF search.term \in Featured THEN search.term ELSE search.onChain

-------------------------------------------------------------------------------
(* The window with a profile *)

(* The profile button: the window shows the connected account, or that it has    *)
(* not joined, also if that could not be read; and the wallet is asked if it is  *)
(* still the same.                                                               *)
OpenOwn ==
  /\ Uncovered /\ clicks < MaxClicks
  /\ clicks' = clicks + 1 /\ checking' = TRUE
  /\ \E m \in {None} \union (IF profile[wallet] = None THEN {} ELSE {wallet}) :
       windows' = [windows EXCEPT !["own"] = Drawn("own", Showing(m, [Shut EXCEPT !.address = wallet]))]
  /\ UNCHANGED <<profile, wallet, extension, switches, search, asked, form, saves, saved, raced>>

(* profile.json arrives, or is taken to be missing: what is shown stays then.    *)
Fetched(place, text) ==
  /\ \E w \in {[windows[place] EXCEPT !.data = text, !.lost = FALSE],
               [windows[place] EXCEPT !.lost = TRUE]} :
       windows' = [windows EXCEPT ![place] = Drawn(place, [w EXCEPT !.fetches = @ \ {text}])]
  /\ UNCHANGED <<profile, wallets, desk, form, saves, clicks, saved, raced>>

(* A closed window is gone; what was sent from it is not. *)
CloseWindow(place) ==
  /\ windows[place].open /\ form.kind = None
  /\ windows' = [windows EXCEPT ![place] = Shut]
  /\ saves' = {[s EXCEPT !.at = IF @ = place THEN None ELSE @] : s \in saves}
  /\ UNCHANGED <<profile, wallets, desk, form, clicks, saved, raced>>

(* Faulty variants, as above. *)
OfferedEarly(w)  == w.of # None /\ w.mine

(* Edit is offered below the address of the connected account. *)
EditOffered(w) == w.of # None /\ w.fetches = {} /\ w.mine

(* The form begins with what the window has, or with nothing. *)
OpenEdit(place) ==
  /\ form.kind = None /\ EditOffered(windows[place])
  /\ LET w == windows[place]
     IN  form' = [NoForm EXCEPT !.kind = "edit", !.at = place,
                                !.text = IF w.data = None THEN Blank ELSE w.data,
                                !.fresh = ~w.lost /\ ~w.overtaken]
  /\ windows' = [windows EXCEPT ![place] = Drawn(place, @)]
  /\ UNCHANGED <<profile, wallets, desk, saves, clicks, saved, raced>>

(* Join, of the page, or of the window of an account that has not joined. *)
OpenJoin ==
  /\ form.kind = None
  /\ \/ /\ Uncovered
        /\ form' = [NoForm EXCEPT !.kind = "join", !.at = "page", !.to = wallet]
        /\ UNCHANGED windows
     \/ /\ windows["own"].open /\ windows["own"].of = None
        /\ form' = [NoForm EXCEPT !.kind = "join", !.to = windows["own"].address]
        /\ windows' = [windows EXCEPT !["own"] = Shut]
  /\ UNCHANGED <<profile, wallets, desk, saves, clicks, saved, raced>>

-------------------------------------------------------------------------------
(* The forms *)

Edit(f) ==
  /\ form.kind # None /\ ~form.busy /\ ~form.done /\ clicks < MaxClicks
  /\ clicks' = clicks + 1
  /\ form' = f
  /\ UNCHANGED <<profile, wallets, desk, windows, saves, saved, raced>>

Type           == Edit([form EXCEPT !.text = Words(wallet, saved + 1), !.typed = TRUE])
TypeAddress(m) == form.kind = "join" /\ form.to # m /\ Edit([form EXCEPT !.to = m])

(* Closed after the account has joined, the form loads the page anew. *)
CloseForm ==
  /\ form.kind # None
  /\ form' = NoForm
  /\ saves' = {[s EXCEPT !.watched = FALSE] : s \in saves}
  /\ IF form.done
     THEN search' = NoSearch /\ asked' = {} /\ windows' = [place \in Place |-> Shut]
     ELSE UNCHANGED <<search, asked, windows>>
  /\ UNCHANGED <<profile, wallets, clicks, saved, raced>>

(* handleUpdate sends the words for the account connected now; handleJoin sends  *)
(* them for the address of the form.                                             *)
Save ==
  /\ form.kind # None /\ ~form.busy /\ ~form.done /\ saved < MaxSaves
  /\ saved' = saved + 1
  /\ saves' = saves \union {[kind |-> form.kind, at |-> form.at, text |-> form.text,
                             to |-> IF form.kind = "edit" THEN wallet ELSE form.to,
                             typed |-> form.typed, fresh |-> form.fresh, watched |-> TRUE]}
  /\ form' = [form EXCEPT !.busy = TRUE]
  /\ UNCHANGED <<profile, wallets, desk, windows, clicks, raced>>

(* The contract takes the profile of the account that signs, a new one of who    *)
(* has not joined, another one of who has.  The form is gone then, of an edit    *)
(* and of the page's Join; a window shows what it had; the other form says so.   *)
Lands(s) ==
  /\ s.to = wallet /\ (profile[s.to] = None <=> s.kind = "join")
  /\ profile' = [profile EXCEPT ![s.to] = s.text]
  /\ windows' = [place \in Place |-> [windows[place] EXCEPT !.overtaken = windows[place].open]]
  /\ saves' = {[other EXCEPT !.fresh = FALSE] : other \in saves \ {s}}
  /\ form' = CASE s.kind = "edit" /\ s.at # None /\ form.at = s.at -> NoForm
               [] s.kind = "join" /\ s.watched /\ s.at = "page" -> NoForm
               [] s.kind = "join" /\ s.watched /\ s.at # "page" ->
                    [form EXCEPT !.busy = FALSE, !.done = TRUE]
               [] OTHER -> [form EXCEPT !.fresh = form.kind = None]
  /\ UNCHANGED <<wallets, desk, clicks, saved, raced>>

(* The form says so, and is as it was. *)
Fails(s) ==
  /\ saves' = saves \ {s}
  /\ form' = [form EXCEPT !.busy = @ /\ ~s.watched]
  /\ UNCHANGED <<profile, wallets, desk, windows, clicks, saved, raced>>

-------------------------------------------------------------------------------
(* The wallet *)

SwitchAccount(m) ==
  /\ m # extension /\ switches < MaxSwitches
  /\ switches' = switches + 1 /\ extension' = m
  /\ UNCHANGED <<profile, wallet, checking, desk, windows, form, saves, clicks, saved, raced>>

(* A window that is open is not drawn again; the page's Join follows the account. *)
WalletChecked ==
  /\ checking /\ checking' = FALSE
  /\ wallet' = extension
  /\ raced' = (raced \/ wallet # extension)
  /\ form' = IF wallet # extension /\ form.kind = "join" /\ form.at = "page"
             THEN [form EXCEPT !.to = extension] ELSE form
  /\ UNCHANGED <<profile, extension, switches, desk, windows, saves, clicks, saved>>

-------------------------------------------------------------------------------

Init ==
  /\ profile \in {f \in [Member -> {None, Blank} \union {Words(m, 0) : m \in Member}] :
                   \A m \in Member : f[m] \in {None, Blank, Words(m, 0)}}
  /\ wallet \in Member /\ extension = wallet /\ checking = FALSE
  /\ search = NoSearch /\ asked = {} /\ windows = [place \in Place |-> Shut]
  /\ form = NoForm /\ saves = {}
  /\ clicks = 0 /\ saved = 0 /\ switches = 0 /\ raced = FALSE

Searching ==
  \/ \E m \in Member : SearchMember(m)
  \/ \E p \in Project : SearchProject(p)
  \/ \E a \in asked : ProjectLookedUp(a) \/ MemberLookedUp(a)
Looking ==
  \/ OpenOwn \/ OpenJoin
  \/ \E place \in Place :
       \/ CloseWindow(place) \/ OpenEdit(place)
       \/ \E text \in windows[place].fetches : Fetched(place, text)
Writing ==
  \/ Type \/ CloseForm \/ Save
  \/ \E m \in Member : TypeAddress(m)
  \/ \E s \in saves : Lands(s) \/ Fails(s)
Switching == WalletChecked \/ \E m \in Member : SwitchAccount(m)

Next == Searching \/ Looking \/ Writing \/ Switching

Spec == Init /\ [][Next]_vars

-------------------------------------------------------------------------------

(* Who saves a profile without having touched its words keeps them: the form     *)
(* shows those of the account it is saved for, as they are now - unless they     *)
(* could not be fetched, or were replaced since the window fetched them, or a    *)
(* second search or another account came in between.                             *)
UntouchedWordsStay ==
  [][\A s \in saves :
       Lands(s) /\ s.kind = "edit" /\ ~s.typed /\ s.fresh /\ ~raced
         => profile'[s.to] = profile[s.to]]_vars

(* What is shown of a search is what was searched for, whatever was shown and    *)
(* found before, once all is answered that was asked one after the other.        *)
ResultIsOfTerm ==
  ~raced /\ asked = {} /\ View # None => View = search.term
===============================================================================
