------------------------------- MODULE Editors -------------------------------
(* The windows through which maintainers change what the contract keeps as a     *)
(* list: the sub-projects of a project, those a proposal conflicts with, the     *)
(* badges of a member; and the window for the last commit, a list of one.  They  *)
(* differ in what they send: the conflicts to add or to remove, all the rest the *)
(* whole list as the window shows it.  They differ in what they know: the badges *)
(* a member has are never read, and a commit is read from the repository.        *)
EXTENDS Naturals, FiniteSets

CONSTANTS Entry, None,
          Nowhere,             \* a key that is no project's
          Latest,              \* the last commit of the repository
          MaxClicks, MaxSent, MaxOthers   \* model bounds

VARIABLES kind,    \* of list
          stored,  \* the list, as the contract has it
          window,  \* the window of one maintainer
          sent,    \* changes on their way
          clicks,  \* openings and edits
          others   \* changes that were made elsewhere

vars == <<kind, stored, window, sent, clicks, others>>

-------------------------------------------------------------------------------
(* What the member changed since the window last forgot everything; it is not    *)
(* part of the program.                                                          *)
NoWish       == [add |-> {}, remove |-> {}]
Wish(w, e)   == [w EXCEPT !.wish.add = @ \union {e}, !.wish.remove = @ \ {e}]
Unwish(w, e) == [w EXCEPT !.wish.add = @ \ {e}, !.wish.remove = @ \union {e}]

(* The window: what it lists, what is to be added, what is ticked; the reads it  *)
(* waits for; known is what a read has shown of the list (None: none has), and   *)
(* overtaken says that one came after an edit.                                   *)
NewWindow == [open |-> FALSE, shown |-> {}, pending |-> {}, picked |-> {}, busy |-> FALSE,
              failed |-> FALSE, reads |-> {}, known |-> None, wish |-> NoWish,
              overtaken |-> FALSE, applied |-> {}]

(* The names shown of projects: of one that cannot be read the first digits of   *)
(* its key, which as a name is the key of none.                                  *)
Names(keys, unread) == (keys \ unread) \union IF unread = {} THEN {} ELSE {Nowhere}

Read(ends)  == [asked |-> stored, ends |-> ends]
Change(op, items) ==
  [op |-> op, items |-> items, at |-> "sent", watched |-> TRUE, wish |-> window.wish,
   known |-> IF kind = "subprojects" THEN window.known ELSE {},
   overtaken |-> window.overtaken]

Edit(w) ==
  /\ window.open /\ clicks < MaxClicks
  /\ clicks' = clicks + 1
  /\ window' = w
  /\ UNCHANGED <<kind, stored, sent, others>>

Send(op, items) ==
  /\ window.open /\ Cardinality(sent) < MaxSent
  /\ sent' = sent \union {Change(op, items)}

Opening(w) ==
  /\ ~window.open /\ clicks < MaxClicks
  /\ clicks' = clicks + 1
  /\ window' = [w EXCEPT !.open = TRUE]
  /\ UNCHANGED <<kind, stored, sent, others>>

Answer(read, w) ==
  /\ read \in window.reads
  /\ window' = [w EXCEPT !.reads = @ \ {read}]
  /\ UNCHANGED <<kind, stored, sent, clicks, others>>

(* The contract answers as of some time after it was asked. *)
Answers(read) == {read.asked, stored}

-------------------------------------------------------------------------------
(* ManageSubProjectsModal *)

(* Faulty variants of definitions below, each a slip the code could contain;     *)
(* nothing here is part of the model.                                            *)
OpenSubProjectsAsLeft ==
  /\ kind = "subprojects"
  /\ Opening([window EXCEPT !.wish = NoWish, !.overtaken = FALSE])

(* Opened, the window asks for the list again, and shows it as it was left.      *)
OpenSubProjects ==
  /\ kind = "subprojects"
  /\ Opening([window EXCEPT !.reads = @ \union {Read(FALSE)}, !.known = None,
                                   !.wish = NoWish, !.overtaken = FALSE])

(* An answer replaces what is shown, edits too; no answer is an empty list.      *)
SubProjectsRead ==
  /\ kind = "subprojects"
  /\ \E read \in window.reads :
       LET w == [window EXCEPT !.overtaken = @ \/ window.wish # NoWish]
       IN  \/ \E got \in Answers(read) : \E unread \in SUBSET got :
                Answer(read, [w EXCEPT !.known = got \ (unread \union {Nowhere}),
                                       !.shown = Names(got, unread)])
           \/ Answer(read, [w EXCEPT !.known = None, !.shown = {}])

AddName(e) ==
  /\ kind = "subprojects" /\ e \notin window.shown
  /\ Edit(Wish([window EXCEPT !.shown = @ \union {e}], e))

RemoveName(e) ==
  /\ kind = "subprojects" /\ ~window.busy /\ e \in window.shown
  /\ Edit(Unwish([window EXCEPT !.shown = @ \ {e}], e))

SaveNames ==
  /\ kind = "subprojects" /\ ~window.busy
  /\ Send("replace", window.shown)
  /\ window' = [window EXCEPT !.busy = TRUE]
  /\ UNCHANGED <<kind, stored, clicks, others>>

-------------------------------------------------------------------------------
(* ConflictOfInterestModal *)

(* Each opening begins with nothing but a read of the list. *)
OpenConflicts ==
  /\ kind = "conflicts"
  /\ Opening([NewWindow EXCEPT !.reads = {Read(FALSE)}])

(* The answer after a change ends it. *)
ConflictsRead ==
  /\ kind = "conflicts"
  /\ \E read \in window.reads :
       LET w == [window EXCEPT !.busy = @ /\ ~read.ends]
       IN  \/ \E got \in Answers(read) : Answer(read, [w EXCEPT !.shown = got, !.failed = FALSE])
           \/ Answer(read, [w EXCEPT !.shown = {}, !.failed = TRUE])

Retry ==
  /\ kind = "conflicts" /\ window.failed
  /\ Edit([window EXCEPT !.failed = FALSE, !.reads = @ \union {Read(FALSE)}])

Idle == kind = "conflicts" /\ window.open /\ ~window.busy

Pend(e) ==
  /\ Idle /\ e \notin window.shown \union window.pending
  /\ Edit([window EXCEPT !.pending = @ \union {e}])

DropPending(some) ==
  /\ Idle /\ some # {} /\ some \subseteq window.pending
  /\ Edit([window EXCEPT !.pending = @ \ some])

Toggled(set, e) == IF e \in set THEN set \ {e} ELSE set \union {e}

(* Only what is listed can be ticked.  What is ticked stays so when it is listed *)
(* no more.                                                                      *)
Pick(e) ==
  /\ Idle /\ window.reads = {} /\ e \in window.shown
  /\ Edit([window EXCEPT !.picked = Toggled(@, e)])

PickAll ==
  /\ Idle /\ window.shown # {}
  /\ Edit([window EXCEPT !.picked =
       IF Cardinality(@) = Cardinality(window.shown) THEN {} ELSE window.shown])

Unpick ==
  /\ Idle /\ window.picked # {}
  /\ Edit([window EXCEPT !.picked = {}])

SendConflicts(op, items) ==
  /\ Idle /\ items # {}
  /\ Send(op, items)
  /\ window' = [window EXCEPT !.busy = TRUE]
  /\ UNCHANGED <<kind, stored, clicks, others>>

Apply        == SendConflicts("add", window.pending)
RemoveOne(e) == e \in window.shown /\ window.reads = {} /\ SendConflicts("remove", {e})
RemovePicked == SendConflicts("remove", window.picked)

-------------------------------------------------------------------------------
(* AddBadgeModal and UpdateHashModal: windows that come back as they were left,  *)
(* and whose button works while a change is on its way.                          *)

OpenAgain ==
  /\ kind \in {"badges", "commit"}
  /\ Opening(window)

ToggleBadge(b) ==
  /\ kind = "badges"
  /\ LET w == [window EXCEPT !.picked = Toggled(@, b)]
     IN  Edit(IF b \in w.picked THEN Wish(w, b) ELSE Unwish(w, b))

AddBadges ==
  /\ kind = "badges" /\ Send("replace", window.picked)
  /\ UNCHANGED <<kind, stored, window, clicks, others>>

(* The last commit is asked for with the page, and replaces what was typed.      *)
CommitRead ==
  /\ kind = "commit"
  /\ \E read \in window.reads :
       LET w == [window EXCEPT !.overtaken = @ \/ window.wish # NoWish]
       IN  \/ \E found \in {{Latest}, {}} : Answer(read, [w EXCEPT !.shown = found])
           \/ Answer(read, window)

TypeHash(h) ==
  /\ kind = "commit" /\ window.shown # {h}
  /\ Edit([window EXCEPT !.shown = {h}, !.wish = [add |-> {h}, remove |-> Entry \ {h}]])

UpdateHash ==
  /\ kind = "commit" /\ Send("replace", window.shown)
  /\ UNCHANGED <<kind, stored, window, clicks, others>>

-------------------------------------------------------------------------------
(* What becomes of a change *)

(* A closed window for conflicts is gone, with its reads, but not its changes.   *)
Close ==
  /\ window.open
  /\ window' = IF kind = "conflicts" THEN NewWindow ELSE [window EXCEPT !.open = FALSE]
  /\ sent' = {[m EXCEPT !.watched = @ /\ kind # "conflicts"] : m \in sent}
  /\ UNCHANGED <<kind, stored, clicks, others>>

(* The contract adds who is not listed, removes who is, and replaces the rest.   *)
Recorded(m) ==
  CASE m.op = "add"     -> stored \union m.items
    [] m.op = "remove"  -> stored \ m.items
    [] m.op = "replace" -> m.items

Lands(m) ==
  /\ m.at = "sent"
  /\ stored' = Recorded(m)
  /\ sent' = (sent \ {m}) \union {[m EXCEPT !.at = "landed"]}
  /\ window' = [window EXCEPT !.applied = IF m.op = "remove" THEN @ \ m.items ELSE @]
  /\ UNCHANGED <<kind, clicks, others>>

(* Faulty variants, as above. *)
NotListedAgain(w, m) ==
  [w EXCEPT !.busy = FALSE, !.applied = IF m.op = "add" THEN @ \union (m.items \intersect stored) ELSE @,
            !.pending = IF m.op = "add" THEN {} ELSE @, !.picked = @ \ m.items]

(* The list of conflicts is read again; the others' windows are closed.          *)
ListedAgain(w, m) ==
  [w EXCEPT !.reads = @ \union {Read(TRUE)}, !.overtaken = @ \/ w.reads # {},
            !.applied = IF m.op = "add" THEN @ \union (m.items \intersect stored) ELSE @,
            !.pending = IF m.op = "add" THEN {} ELSE @, !.picked = @ \ m.items]

Closed(w) ==
  CASE kind = "subprojects" -> [w EXCEPT !.open = FALSE, !.busy = FALSE]
    [] kind = "badges"      -> [w EXCEPT !.open = FALSE, !.picked = {}, !.wish = NoWish]
    [] OTHER                -> [w EXCEPT !.open = FALSE]

Succeeds(m) ==
  /\ m.at = "landed"
  /\ sent' = sent \ {m}
  /\ window' = IF kind # "conflicts" THEN Closed(window)
               ELSE IF m.watched THEN ListedAgain(window, m) ELSE window
  /\ UNCHANGED <<kind, stored, clicks, others>>

(* An error, perhaps of a change that was made; the window stays as it is.       *)
Fails(m) ==
  /\ sent' = sent \ {m}
  /\ window' = [window EXCEPT !.busy = IF m.watched THEN FALSE ELSE @]
  /\ UNCHANGED <<kind, stored, clicks, others>>

-------------------------------------------------------------------------------

(* Another maintainer, at a window of the same kind, adds, removes or replaces.   *)
OthersChange ==
  /\ others < MaxOthers /\ others' = others + 1
  /\ stored' \in SUBSET Entry /\ (kind = "commit" => Cardinality(stored') = 1)
  /\ window' = [window EXCEPT !.applied = @ \intersect stored']
  /\ UNCHANGED <<kind, sent, clicks>>

Init ==
  /\ kind \in {"subprojects", "conflicts", "badges", "commit"}
  /\ stored \in {S \in SUBSET Entry : Cardinality(S) <= IF kind = "commit" THEN 1 ELSE 2}
  /\ window = [NewWindow EXCEPT !.reads =
                 IF kind \in {"subprojects", "commit"} THEN {Read(FALSE)} ELSE {}]
  /\ sent = {} /\ clicks = 0 /\ others = 0

SubProjects ==
  \/ OpenSubProjects \/ SubProjectsRead \/ SaveNames
  \/ \E e \in Entry : AddName(e)
  \/ \E e \in window.shown : RemoveName(e)
Conflicts ==
  \/ OpenConflicts \/ ConflictsRead \/ Retry \/ PickAll \/ Unpick
  \/ Apply \/ RemovePicked
  \/ \E e \in Entry : Pend(e) \/ Pick(e) \/ RemoveOne(e)
  \/ \E some \in SUBSET Entry : DropPending(some)
Dialogs ==
  \/ OpenAgain \/ AddBadges \/ CommitRead \/ UpdateHash
  \/ \E e \in Entry : ToggleBadge(e) \/ TypeHash(e)
Changes ==
  \/ OthersChange \/ Close
  \/ \E m \in sent : Lands(m) \/ Succeeds(m) \/ Fails(m)

Next == SubProjects \/ Conflicts \/ Dialogs \/ Changes

Spec == Init /\ [][Next]_vars

-------------------------------------------------------------------------------

(* A change does what the member did in the window, whatever was left of earlier *)
(* edits, and whatever others change meanwhile: what was added is there, what    *)
(* was taken out is not, and of the rest nothing disappears that the window knew *)
(* of, or at all if the change is a difference - unless the list was never read, *)
(* or came after an edit.                                                        *)
SavedAsWished ==
  [][\A m \in sent :
       m.known # None /\ ~m.overtaken /\ Lands(m) =>
         IF m.op = "replace"
         THEN /\ m.wish.add \subseteq stored' /\ m.wish.remove \intersect stored' = {}
              /\ (stored \ stored') \intersect m.known \subseteq m.wish.remove
         ELSE /\ (IF m.op = "add" THEN m.items ELSE {}) \subseteq stored'
              /\ stored \ stored' \subseteq (IF m.op = "remove" THEN m.items ELSE {})]_vars

(* Who was put on the list of conflicts, and not taken off it since by anyone,   *)
(* is on it when the window lists it again, unless an earlier read was still     *)
(* outstanding then.                                                             *)
AppliedIsListed ==
  window.open /\ window.reads = {} /\ ~window.failed /\ ~window.overtaken
    => window.applied \subseteq window.shown
===============================================================================
