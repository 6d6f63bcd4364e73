----------------------------- MODULE Workspace -----------------------------
(* What a session remembers of the project it is looking at (StateService and    *)
(* the stores beside it): an id, the project as the contract answered it, what   *)
(* its config file says and its last commit.  Each is set on its own, by the     *)
(* visit of a page or the click of a card, whose reads answer later and in any   *)
(* order.  A page is entered without leaving the others' reads behind: only a    *)
(* full load of the site forgets everything.                                     *)
EXTENDS Naturals, Sequences, FiniteSets

CONSTANTS Project,
          None, Absent,  \* nothing held; no such project
          Foundings,     \* chains a session can begin with
          MaxVisits      \* model bound

Type == {"SOFTWARE", "GENERIC"}

(* What a file may hold that no form manages: keys with a plain value (a string, *)
(* a number, a boolean), and tables and arrays.                                  *)
Unmanaged == {"scalars", "tables"}

(* A config file, reduced to what can go wrong with it: the type it states, what *)
(* no form manages, if a README is beside it, the project its documentation and  *)
(* its maintainers are of.                                                       *)
File == [type : Type \union {None}, extra : SUBSET Unmanaged, readme : BOOLEAN,
         doc : Project \union {None}, maint : Project]

(* A session begins with files that are of their projects, with a README only    *)
(* where a form shows one.                                                       *)
ASSUME FoundingsAssumption ==
  /\ Foundings \subseteq [Project -> File \union {Absent}]
  /\ \A c \in Foundings, p \in Project : c[p] # Absent =>
       c[p].doc = p /\ c[p].maint = p /\ (c[p].readme => c[p].type = "GENERIC")

(* What is not held or not there is none of what could be.                       *)
ASSUME NothingAssumption ==
  /\ None \notin Project \union Type \union File /\ Absent \notin File
  /\ None \notin [of : Project, file : File]
  /\ None \notin [doc : Project \union {None}, read : BOOLEAN, type : Type]
  /\ None \notin [name : Project, ok : BOOLEAN]

VARIABLES chain,   \* the contract, and the files it names
          held,    \* what the session remembers
          page,    \* the page it is on
          reads,   \* visits and clicks whose reads are not all answered
          raced,   \* a project was entered, or changed, while reads were outstanding
          visits

workspace == <<chain, held, page, reads, raced, visits>>

-------------------------------------------------------------------------------
(* StateService *)

Nothing == [id |-> None, info |-> None, config |-> None, sha |-> None]

(* Faulty variants of definitions below, each a slip the code could contain;     *)
(* nothing here is part of the model.                                            *)
KeptConfig(h, c) == IF h.config = None THEN c ELSE h.config

(* setConfigData merges field by field; every caller gives them all but the text *)
(* of the README, which only a page's visit gives and which is left out here.    *)
MergedConfig(h, c) == c

(* The link of the repository, which is set beside the project unless it is      *)
(* empty, is left out: only StateService reads it.                               *)
WithInfo(h, p, file) == [h EXCEPT !.info = [of |-> p, file |-> file]]
WithConfig(h, c)     == [h EXCEPT !.config = MergedConfig(h, c)]
WithSha(h, p)        == [h EXCEPT !.sha = p]

(* loadProjectInfo *)
Known(h) == h.info # None /\ h.id # None

(* extractConfigData, of a file, where an older one is taken for software, or of *)
(* nothing.                                                                      *)
TypeRead(file) == IF file.type = None THEN "SOFTWARE" ELSE file.type
ConfigOf(file) == [doc |-> file.doc, read |-> TRUE, type |-> TypeRead(file)]
DefaultConfig  == [doc |-> None, read |-> FALSE, type |-> "SOFTWARE"]

-------------------------------------------------------------------------------
(* Pages *)

NewRead(p, via) == [of |-> p, via |-> via, stage |-> "project", file |-> None, asks |-> None]

Home == [on |-> None, loaded |-> FALSE]

(* The card of a project on the dashboard: forget what was held, then read. *)
ClickCard(p) ==
  /\ page.on = None /\ visits < MaxVisits
  /\ visits' = visits + 1
  /\ held' = [Nothing EXCEPT !.id = p]
  /\ reads' = reads \union {NewRead(p, "card")}
  /\ raced' = (raced \/ reads # {})
  /\ UNCHANGED <<chain, page>>

(* The page of a project.  The profile of a member forgets what was held before  *)
(* it goes there; a link and the browser's history do not.  That the page before *)
(* was loaded is remembered.                                                     *)
Enter(p, forgets, busy) ==
  /\ visits < MaxVisits
  /\ visits' = visits + 1
  /\ held' = [(IF forgets THEN Nothing ELSE held) EXCEPT !.id = p]
  /\ page' = [page EXCEPT !.on = p]
  /\ reads' = reads \union {NewRead(p, "page")}
  /\ raced' = (raced \/ busy \/ reads # {})

(* From a project's page the site is loaded anew, for the dashboard or after a   *)
(* project that cannot be read.                                                  *)
Reload ==
  /\ held' = Nothing /\ page' = Home /\ reads' = {}
  /\ UNCHANGED <<chain, raced, visits>>

(* The contract answered.  The commit is asked of the project held by then.      *)
ProjectRead(r) ==
  /\ r.stage = "project" /\ chain[r.of] # Absent
  /\ held' = IF r.via = "card" THEN WithConfig(WithInfo(held, r.of, chain[r.of]), DefaultConfig)
                               ELSE WithInfo(held, r.of, chain[r.of])
  /\ reads' = (reads \ {r}) \union
                {[r EXCEPT !.stage = "file", !.file = chain[r.of],
                           !.asks = IF r.via = "page" THEN held.id ELSE None]}
  /\ UNCHANGED <<chain, page, raced, visits>>

(* No such project, or no answer: a card says so, a page loads the dashboard.    *)
CardFails(r) ==
  /\ r.stage = "project" /\ r.via = "card"
  /\ reads' = reads \ {r}
  /\ UNCHANGED <<chain, held, page, raced, visits>>

PageFails(r) == r.stage = "project" /\ r.via = "page"

(* The file of the project as it was answered, or nothing, and with it the last  *)
(* commit, or none: only what is software shows one.                             *)
PageFileRead(r) ==
  /\ r.stage = "file" /\ r.via = "page"
  /\ \E c \in {ConfigOf(r.file), DefaultConfig} :
       \E sha \in IF c.type = "SOFTWARE" THEN {r.asks, None} ELSE {None} :
         held' = WithSha(WithConfig(held, c), sha)
  /\ page' = [page EXCEPT !.loaded = TRUE]
  /\ reads' = reads \ {r}
  /\ UNCHANGED <<chain, raced, visits>>

CardFileRead(r) ==
  /\ r.stage = "file" /\ r.via = "card"
  /\ held' = WithConfig(held, ConfigOf(r.file))
  /\ reads' = (reads \ {r}) \union {[r EXCEPT !.stage = "commit", !.asks = held.id]}
  /\ UNCHANGED <<chain, page, raced, visits>>

CardFileLost(r) ==
  /\ r.stage = "file" /\ r.via = "card"
  /\ reads' = (reads \ {r}) \union {[r EXCEPT !.stage = "commit", !.asks = held.id]}
  /\ UNCHANGED <<chain, held, page, raced, visits>>

CardCommitRead(r) ==
  /\ r.stage = "commit"
  /\ \E sha \in {r.asks, None} : held' = WithSha(held, sha)
  /\ reads' = reads \ {r}
  /\ UNCHANGED <<chain, page, raced, visits>>

WorkspaceInit ==
  /\ chain \in Foundings /\ held = Nothing /\ page = Home
  /\ reads = {} /\ raced = FALSE /\ visits = 0

WorkspaceTypeOK ==
  /\ chain \in [Project -> File \union {Absent}]
  /\ held.id \in Project \union {None} /\ held.sha \in Project \union {None}
  /\ held.info = None \/ held.info.of \in Project
  /\ held.config = None \/ held.config.doc \in Project \union {None}
  /\ page.on \in Project \union {None} /\ page.loaded \in BOOLEAN
  /\ \A r \in reads : r.of \in Project /\ r.stage \in {"project", "file", "commit"}
  /\ raced \in BOOLEAN /\ visits \in 0 .. MaxVisits
===============================================================================
