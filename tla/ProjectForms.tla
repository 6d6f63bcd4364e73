---------------------------- MODULE ProjectForms ----------------------------
(* The two forms that write the config file of a project: the one that registers *)
(* a project (CreateProjectModal, on the dashboard) and the one that changes its *)
(* config (UpdateConfigModal, on its page).  Both are filled and checked step by *)
(* step; both hand what was written to a flow that goes on by itself, and both   *)
(* put what came of it back into what the session remembers.                     *)
(*                                                                               *)
(* The form of a page fills itself in whenever the config arrives, over what was *)
(* typed.  It changes the file the project has now, if it could be read, and     *)
(* otherwise starts from an empty one.                                           *)
EXTENDS Workspace

CONSTANTS MaxFlows       \* model bound

VARIABLES form,     \* the form of the page
          fetches,  \* files the form asked for and has not got
          draft,    \* the form of the dashboard
          flows,    \* what was submitted, by the order of submission
          blind     \* what a change was submitted for without having been read

forms == <<form, fetches, draft, flows, blind>>

Part == {"people", "link", "name", "organization"}

-------------------------------------------------------------------------------
(* The form of a page *)

NewForm == [shown |-> FALSE, open |-> FALSE, step |-> 1, wrong |-> {}, doc |-> None, maint |-> None,
            base |-> None, readme |-> "none", loading |-> FALSE]

(* Faulty variants of definitions below, each a slip the code could contain;     *)
(* nothing here is part of the model.                                            *)
FilledInOnce(f, h, loaded) ==
  IF ~loaded \/ f.shown \/ ~Known(h) THEN f
  ELSE [f EXCEPT !.shown = TRUE, !.maint = h.info.of, !.wrong = {},
                 !.doc = IF h.config = None THEN None ELSE h.config.doc]

(* The effect that fills the form in, over what is there: the button is only     *)
(* shown when there is something to change.                                      *)
FilledIn(f, h, loaded) ==
  IF ~loaded THEN f
  ELSE IF ~Known(h) THEN [f EXCEPT !.shown = FALSE]
  ELSE [f EXCEPT !.shown = TRUE, !.maint = h.info.of,
                 !.doc   = IF h.config = None THEN None ELSE h.config.doc,
                 !.wrong = IF h.config = None THEN {"people"} ELSE {}]

Software(h) == h.config # None /\ h.config.type = "SOFTWARE"

Asked(h) == IF Known(h) THEN {h.info.file} ELSE {}

(* What a config that arrives sets off.  An open form asks for the file again    *)
(* when the project turns out to be software, or not to be.                      *)
Refill ==
  IF page'.on = None THEN UNCHANGED <<form, fetches>>
  ELSE /\ form' = FilledIn(form, held', page'.loaded)
       /\ fetches' = fetches \union IF form.open /\ Software(held) # Software(held')
                                   THEN Asked(held') ELSE {}

(* What is checked on the way from a step to the next. *)
Checked(step) ==
  CASE step = 1 -> {"people"} \union IF Software(held) THEN {"link"} ELSE {}
    [] step = 2 -> {"name"}
    [] OTHER    -> {}

OpenForm ==
  /\ form.shown /\ ~form.open
  /\ form' = [form EXCEPT !.open = TRUE]
  /\ fetches' = fetches \union Asked(held)
  /\ raced' = (raced \/ reads # {})
  /\ UNCHANGED <<chain, held, page, reads, visits, draft, flows, blind>>

(* The files a form asked for when it was opened: the README is shown, over what *)
(* was typed, where the project is not software.                                 *)
Fetched(file) ==
  /\ file \in fetches
  /\ \E got \in {file, None} :
       form' = [form EXCEPT !.base = got,
                            !.readme = IF ~Software(held) /\ got # None /\ file.readme
                                       THEN "kept" ELSE @]
  /\ fetches' = fetches \ {file}
  /\ UNCHANGED <<workspace, draft, flows, blind>>

Write(part) ==
  /\ form.open /\ part \in Checked(form.step)
  /\ form' = [form EXCEPT !.wrong = IF part \in @ THEN @ \ {part} ELSE @ \union {part}]
  /\ UNCHANGED <<workspace, fetches, draft, flows, blind>>

WriteReadme ==
  /\ form.open /\ form.step = 2 /\ ~Software(held)
  /\ form' = [form EXCEPT !.readme = "typed"]
  /\ UNCHANGED <<workspace, fetches, draft, flows, blind>>

Step(n) == form.open /\ form.step = n /\ ~form.loading

Next12 ==
  /\ Step(1) \/ Step(2)
  /\ form.wrong \intersect Checked(form.step) = {}
  /\ form' = [form EXCEPT !.step = @ + 1]
  /\ UNCHANGED <<workspace, fetches, draft, flows, blind>>

BackTo12 ==
  /\ Step(2) \/ Step(3)
  /\ form' = [form EXCEPT !.step = @ - 1]
  /\ UNCHANGED <<workspace, fetches, draft, flows, blind>>

(* Closing sets the step to one that has nothing to show, where the form stays   *)
(* until the page is entered again.  What was submitted goes on.                 *)
CloseForm ==
  /\ form.open
  /\ form' = [form EXCEPT !.open = FALSE, !.step = 0, !.loading = FALSE]
  /\ UNCHANGED <<workspace, fetches, draft, flows, blind>>

-------------------------------------------------------------------------------
(* Submission *)

EmptyBase == [type |-> None, extra |-> {}, readme |-> FALSE, doc |-> None, maint |-> None]

(* Faulty variants, as above. *)
BareType(base) == base.type

(* buildToml: the type of an older file, or of no file at all, is the one shown. *)
TypeOf(base) == IF base.type = None /\ held.config # None THEN held.config.type ELSE base.type

(* serializeToml: of what no form manages only plain values are written, at the  *)
(* top and in the documentation; tables and arrays are skipped.                  *)
Written(extra) == extra \intersect {"scalars"}

(* mergeTomlData, written out again, and the README beside it. *)
Merged(base, readme) ==
  [type |-> TypeOf(base), extra |-> Written(base.extra), readme |-> ~Software(held) /\ readme,
   doc |-> form.doc, maint |-> form.maint]

NewFlow(kind, file, wrong, to) ==
  [kind |-> kind, at |-> "build", file |-> file, wrong |-> wrong, to |-> to]

Start(flow) == Len(flows) < MaxFlows /\ flows' = Append(flows, flow)

(* History: what is submitted without knowing what it was. *)
Unread(base) ==
  LET noConfig == held.config = None \/ ~held.config.read
  IN  (IF noConfig THEN {"documentation", "readme"} ELSE {}) \union
      (IF base = None THEN {"keys"} ELSE {}) \union
      (IF base = None /\ noConfig THEN {"type"} ELSE {})

(* handleSubmit.  A README that is empty is fetched once more; a file asked for  *)
(* before may arrive while it is.                                                *)
SubmitUpdate ==
  /\ Step(3)
  /\ LET lacks == ~Software(held) /\ form.readme = "none" /\ Known(held)
     IN  \E base \in {form.base} \union IF lacks THEN fetches ELSE {} :
         \E found \in IF lacks THEN {FALSE, held.info.file.readme} ELSE {form.readme # "none"} :
           /\ Start(NewFlow("update", Merged(IF base = None THEN EmptyBase ELSE base, found),
                           form.wrong, None))
           /\ blind' = blind \union Unread(base) \union IF lacks /\ ~found THEN {"readme"} ELSE {}
  /\ form' = [form EXCEPT !.loading = TRUE]
  /\ raced' = (raced \/ reads # {})
  /\ UNCHANGED <<chain, held, page, reads, visits, fetches, draft>>

-------------------------------------------------------------------------------
(* The form of the dashboard *)

NoDraft  == [open |-> FALSE, step |-> 1, name |-> None, type |-> "SOFTWARE",
             wrong |-> {"people", "link", "organization"}, asked |-> None, loading |-> FALSE]

Typing(n) == page.on = None /\ draft.open /\ draft.step = n

(* What the step shows can be typed, the repository's link in the third as well  *)
(* as in the first.                                                              *)
PartsOf(step) == CASE step = 1 -> {"link"} [] step = 2 -> {"people"}
                   [] step = 3 -> {"organization", "link"} [] OTHER -> {}

(* Not opened when nothing more can be submitted (MaxFlows).                     *)
OpenDraft ==
  /\ page.on = None /\ ~draft.open /\ Len(flows) < MaxFlows
  /\ draft' = [NoDraft EXCEPT !.open = TRUE]
  /\ UNCHANGED <<workspace, form, fetches, flows, blind>>

CloseDraft ==
  /\ draft.open
  /\ draft' = NoDraft
  /\ UNCHANGED <<workspace, form, fetches, flows, blind>>

WriteDraft(part) ==
  /\ draft.open /\ part \in PartsOf(draft.step)
  /\ draft' = [draft EXCEPT !.wrong = IF part \in @ THEN @ \ {part} ELSE @ \union {part}]
  /\ UNCHANGED <<workspace, form, fetches, flows, blind>>

ChooseName(p) ==
  /\ Typing(1)
  /\ draft' = [draft EXCEPT !.name = p]
  /\ UNCHANGED <<workspace, form, fetches, flows, blind>>

ChooseType(t) ==
  /\ Typing(1)
  /\ draft' = [draft EXCEPT !.type = t]
  /\ UNCHANGED <<workspace, form, fetches, flows, blind>>

(* The first step asks if the name is free and, of software, checks the link.    *)
AskName ==
  /\ Typing(1) /\ ~draft.loading
  /\ draft.name # None
  /\ draft' = [draft EXCEPT !.loading = TRUE,
                            !.asked = [name |-> draft.name,
                                       ok |-> draft.type = "GENERIC" \/ "link" \notin draft.wrong]]
  /\ UNCHANGED <<workspace, form, fetches, flows, blind>>

(* No answer counts as free.  What was typed meanwhile is not checked again.     *)
NameAnswered ==
  /\ draft.asked # None
  /\ \E free \in {chain[draft.asked.name] = Absent, TRUE} :
       draft' = [draft EXCEPT !.loading = FALSE, !.asked = None,
                              !.step = IF free /\ draft.asked.ok THEN 2 ELSE @]
  /\ UNCHANGED <<workspace, form, fetches, flows, blind>>

(* Faulty variants, as above. *)
NextDraftUnchecked(n, parts) ==
  /\ Typing(n)
  /\ draft' = [draft EXCEPT !.step = n + 1]
  /\ UNCHANGED <<workspace, form, fetches, flows, blind>>

NextDraft(n, parts) ==
  /\ Typing(n) /\ draft.wrong \intersect parts = {}
  /\ draft' = [draft EXCEPT !.step = n + 1]
  /\ UNCHANGED <<workspace, form, fetches, flows, blind>>

(* From the review, back to any of the steps. *)
EditDraft(n) ==
  /\ Typing(4)
  /\ draft' = [draft EXCEPT !.step = n]
  /\ UNCHANGED <<workspace, form, fetches, flows, blind>>

(* handleRegisterProject *)
SubmitDraft ==
  /\ Typing(4)
  /\ Start(NewFlow("create", [type |-> draft.type, extra |-> {}, readme |-> draft.type = "GENERIC",
                              doc |-> draft.name, maint |-> draft.name],
                   draft.wrong, draft.name))
  /\ draft' = [draft EXCEPT !.step = 6]
  /\ UNCHANGED <<workspace, form, fetches, blind>>

-------------------------------------------------------------------------------
(* createProjectFlow and updateConfigFlow *)

Goto(f, at) == flows' = [flows EXCEPT ![f].at = at]

Busy(f) == flows[f].at \notin {"failed", "done"}

(* An ended one only leaves that there was one. *)
Over(f, at) == flows' = [flows EXCEPT ![f].at = at, ![f].file = None, ![f].to = None]

(* The change of a config is made for the project held when it is signed, not    *)
(* for the one the form was filled in for.                                       *)
Sign(f) ==
  /\ flows[f].at = "build"
  /\ LET to == IF flows[f].kind = "create" THEN flows[f].to ELSE held.id
     IN  to # None /\ flows' = [flows EXCEPT ![f].at = "send", ![f].to = to]
  /\ UNCHANGED <<workspace, form, fetches, draft, blind>>

(* What the contract does with it: a name is registered once, and only a project *)
(* there is can be changed.                                                      *)
Recorded(f) ==
  /\ chain[flows[f].to] = Absent <=> flows[f].kind = "create"
  /\ chain' = [chain EXCEPT ![flows[f].to] = flows[f].file]

Lands(f) ==
  /\ flows[f].at = "send"
  /\ Recorded(f) /\ Goto(f, "landed")
  /\ UNCHANGED <<held, page, reads, raced, visits, form, fetches, draft, blind>>

(* An error at any step, the last after the change was made all the same.  Only  *)
(* a message says so; a page's form goes on showing its last step of progress.   *)
FlowFails(f) ==
  /\ flows[f].at \in {"build", "send", "landed"}
  /\ Over(f, "failed")
  /\ form' = [form EXCEPT !.loading = FALSE]
  /\ UNCHANGED <<workspace, fetches, draft, blind>>

(* What came of a change is put back: the project held by now, if the contract   *)
(* answers, with the config that was just written.                               *)
Updated(f) ==
  /\ flows[f].at = "landed" /\ flows[f].kind = "update"
  /\ Over(f, "done")
  /\ \/ /\ held.id # None /\ chain[held.id] # Absent
        /\ held' = WithConfig(WithInfo(held, held.id, chain[held.id]), ConfigOf(flows[f].file))
     \/ held' = held
  /\ raced' = (raced \/ reads # {} \/ held.id # flows[f].to)
  /\ UNCHANGED <<chain, page, reads, visits, draft, blind>>
  /\ Refill

(* A registered project is read back, its file too, and its page is entered.     *)
Registered(f) ==
  /\ flows[f].at = "landed" /\ flows[f].kind = "create"
  /\ Goto(f, "back")
  /\ LET p == flows[f].to
     IN  \/ held' = WithConfig(WithInfo(held, p, chain[p]), ConfigOf(chain[p]))
         \/ held' = WithInfo(held, p, chain[p])
         \/ held' = held
  /\ draft' = IF page.on = None THEN NoDraft ELSE draft
  /\ raced' = (raced \/ reads # {} \/ page.on # None)
  /\ UNCHANGED <<chain, page, reads, visits, blind>>
  /\ Refill

EnterRegistered(f) ==
  /\ flows[f].at = "back"
  /\ Over(f, "done")
  /\ Enter(flows[f].to, FALSE, \E g \in DOMAIN flows \ {f} : Busy(g))
  /\ form' = FilledIn(NewForm, held', page.loaded) /\ fetches' = {}
  /\ draft' = NoDraft
  /\ UNCHANGED <<chain, blind>>

-------------------------------------------------------------------------------
(* Pages, with their forms *)

(* A page is entered with a form of its own.  A submission on its way makes that *)
(* a race, too.                                                                  *)
EnterPage(p) ==
  /\ \E forgets \in BOOLEAN :
       Enter(p, forgets, \E f \in DOMAIN flows : Busy(f))
  /\ form' = FilledIn(NewForm, held', page.loaded)
  /\ fetches' = {} /\ draft' = NoDraft
  /\ UNCHANGED <<chain, flows, blind>>

(* A load of the site ends what has not been sent; what has may still be applied. *)
LoadSite ==
  /\ page.on # None
  /\ Reload
  /\ form' = NewForm /\ fetches' = {} /\ draft' = NoDraft
  /\ flows' = [f \in DOMAIN flows |->
                 [flows[f] EXCEPT !.at = IF @ \in {"send", "gone"} THEN "gone" ELSE "failed"]]
  /\ UNCHANGED blind

GoneLands(f) ==
  /\ flows[f].at = "gone"
  /\ Recorded(f) /\ Over(f, "failed")
  /\ UNCHANGED <<held, page, reads, raced, visits, form, fetches, draft, blind>>

Answered(r) ==
  /\ ProjectRead(r) \/ CardFails(r) \/ CardFileLost(r) \/ CardCommitRead(r)
  /\ UNCHANGED forms

FileAnswered(r) ==
  /\ PageFileRead(r) \/ CardFileRead(r)
  /\ Refill
  /\ UNCHANGED <<draft, flows, blind>>

PageLost(r) == PageFails(r) /\ LoadSite

(* The form of the dashboard covers its cards. *)
Click(p) == ~draft.open /\ ClickCard(p) /\ UNCHANGED forms

ReadAnswered == \E r \in reads : Answered(r) \/ FileAnswered(r) \/ PageLost(r)

FlowStep(f) ==
  \/ Sign(f) \/ Lands(f) \/ FlowFails(f) \/ Updated(f) \/ Registered(f)
  \/ EnterRegistered(f) \/ GoneLands(f)

FormStep ==
  \/ OpenForm \/ WriteReadme \/ Next12 \/ BackTo12 \/ CloseForm \/ SubmitUpdate
  \/ \E file \in fetches : Fetched(file)
  \/ \E part \in Part : Write(part)

DraftStep ==
  \/ OpenDraft \/ CloseDraft \/ AskName \/ NameAnswered \/ SubmitDraft
  \/ \E part \in Part : WriteDraft(part)
  \/ \E p \in Project : ChooseName(p)
  \/ \E t \in Type : ChooseType(t)
  \/ NextDraft(2, {"people"}) \/ NextDraft(3, {"organization"})
  \/ \E n \in 1 .. 3 : EditDraft(n)

Init ==
  /\ WorkspaceInit
  /\ form = NewForm /\ fetches = {} /\ draft = NoDraft /\ flows = <<>> /\ blind = {}

Next ==
  \/ \E p \in Project : Click(p) \/ EnterPage(p)
  \/ ReadAnswered \/ LoadSite
  \/ FormStep \/ DraftStep
  \/ \E f \in DOMAIN flows : FlowStep(f)

vars == <<workspace, forms>>

Spec == Init /\ [][Next]_vars

TypeOK ==
  /\ WorkspaceTypeOK
  /\ form.step \in 0 .. 3 /\ form.wrong \subseteq Part /\ draft.wrong \subseteq Part
  /\ form.base = None \/ form.base \in File
  /\ draft.step \in {1, 2, 3, 4, 6}
  /\ \A f \in DOMAIN flows : flows[f].to \in Project \union {None}
  /\ blind \subseteq {"documentation", "readme", "keys", "type"}

-------------------------------------------------------------------------------
(* Properties *)

(* A page whose reads are all answered shows one project: what the contract      *)
(* answered, the config and the last commit are those of the id that every       *)
(* change is made for - if no other project was entered, and nothing was         *)
(* submitted, before they were.                                                  *)
SettledPageAgrees ==
  ~raced /\ reads = {} /\ page.on # None =>
     /\ held.id = page.on
     /\ held.info # None => held.info.of = held.id
     /\ held.config # None => held.config.doc \in {held.id, None}
     /\ held.sha \in {held.id, None}

(* A form that is filled in by whatever arrives, and sent for whatever project   *)
(* is held by then, leaves every project with its own documentation and its own  *)
(* maintainers - without such a race.                                            *)
FilesMatchProjects ==
  ~raced => \A p \in Project : chain[p] # Absent =>
              chain[p].maint = p /\ chain[p].doc \in {p, None}
              /\ ("documentation" \notin blind => chain[p].doc = p)

(* A change of the config leaves what the form does not show: the type that is   *)
(* read from the file, plain keys it knows nothing of, a README - each unless it *)
(* was submitted before that could be read.  The type is in two places, either   *)
(* is enough.  (Tables and arrays the form knows nothing of are lost in every    *)
(* change, see Written.)                                                         *)
UnshownPartsSurvive ==
  [][~raced => \A p \in Project : chain[p] # Absent =>
       /\ "type"   \notin blind => TypeRead(chain'[p]) = TypeRead(chain[p])
       /\ "keys"   \notin blind => Written(chain'[p].extra) = Written(chain[p].extra)
       /\ "readme" \notin blind /\ chain[p].readme => chain'[p].readme]_vars

(* Whatever order steps, reviews, late answers and edits come in, what a form    *)
(* sends was checked: of a new project the maintainers and the organization (the *)
(* link can be changed after its check), of a config everything.                 *)
OnlyCheckedIsSent ==
  ~raced => \A f \in DOMAIN flows :
     IF flows[f].kind = "create" THEN flows[f].wrong \intersect {"people", "organization"} = {}
                                 ELSE flows[f].wrong = {}
===============================================================================
