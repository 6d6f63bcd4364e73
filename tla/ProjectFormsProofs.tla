------------------------- MODULE ProjectFormsProofs -------------------------
(* What a session leaves of the projects it looks at and changes (ProjectForms), *)
(* for any projects, any files of theirs, and any number of visits, clicks and   *)
(* submissions: without a race, whatever the order in which reads, fetches and   *)
(* flows end.                                                                    *)
EXTENDS ProjectForms, TLAPS

-------------------------------------------------------------------------------
(* Types *)

Info     == [of : Project, file : File]
Config   == [doc : Project \union {None}, read : BOOLEAN, type : Type]
Holding  == [id : Project \union {None}, info : Info \union {None},
             config : Config \union {None}, sha : Project \union {None}]
Where    == [on : Project \union {None}, loaded : BOOLEAN]
Visit    == [of : Project, via : {"card", "page"}, stage : {"project", "file", "commit"},
             file : File \union {None}, asks : Project \union {None}]
PageForm == [shown : BOOLEAN, open : BOOLEAN, step : 0 .. 3, wrong : SUBSET Part,
             doc : Project \union {None}, maint : Project \union {None},
             base : File \union {None}, readme : {"none", "kept", "typed"}, loading : BOOLEAN]
Question == [name : Project, ok : BOOLEAN]
Draft    == [open : BOOLEAN, step : {1, 2, 3, 4, 6}, name : Project \union {None}, type : Type,
             wrong : SUBSET Part, asked : Question \union {None}, loading : BOOLEAN]
Flow     == [kind : {"create", "update"},
             at : {"build", "send", "landed", "back", "gone", "failed", "done"},
             file : File \union {None}, wrong : SUBSET Part, to : Project \union {None}]

Gap      == {"documentation", "readme", "keys", "type"}

(* A flow has its file until that is written, and a project from when it signs.  *)
FlowTyped(ch, w) ==
  /\ w.at \in {"build", "send", "landed", "gone"} => w.file # None
  /\ w.at \in {"send", "landed", "back", "gone"} => w.to # None
  /\ w.kind = "create" /\ w.at = "build" => w.to # None
  /\ w.at \in {"landed", "back"} => ch[w.to] # Absent

FormTyped(f) == f \in PageForm /\ (f.shown \/ f.open => f.maint # None)

(* Past the first step a draft has a name.                                       *)
Named(d) == d.step # 1 \/ d.asked # None => d.name # None

(* A page's form is there on a page only.                                        *)
Typed ==
  /\ chain \in [Project -> File \union {Absent}] /\ raced \in BOOLEAN
  /\ held \in Holding /\ page \in Where
  /\ reads \subseteq Visit /\ \A r \in reads : r.stage # "project" => r.file # None
  /\ FormTyped(form) /\ fetches \subseteq File
  /\ page.on = None => ~form.shown /\ ~form.open /\ fetches = {}
  /\ draft \in Draft /\ Named(draft)
  /\ flows \in Seq(Flow) /\ \A f \in DOMAIN flows : FlowTyped(chain, flows[f])
  /\ blind \subseteq Gap
  /\ "type" \in blind => "readme" \in blind

-------------------------------------------------------------------------------
(* Without a race *)

(* A file that is p's own: its documentation, unless that was never read, its     *)
(* maintainers, and a README only where a form shows one.                        *)
Own(bl, file, p) ==
  /\ file.maint = p /\ file.doc \in {p, None}
  /\ "documentation" \notin bl => file.doc = p
  /\ "readme" \notin bl /\ file.readme => file.type = "GENERIC"

(* One of the project p, that says what the present one does of what no form     *)
(* shows.                                                                        *)
Like(ch, bl, file, p) ==
  /\ ch[p] # Absent /\ Own(bl, file, p)
  /\ "type" \notin bl => TypeRead(file) = TypeRead(ch[p])
  /\ "keys" \notin bl => Written(file.extra) = Written(ch[p].extra)

(* One that may take its place.                                                  *)
Fits(ch, bl, file, p) ==
  /\ Like(ch, bl, file, p)
  /\ "readme" \notin bl /\ TypeRead(file) = "GENERIC" => file.readme

ChainOK(ch, bl) == \A p \in Project : ch[p] # Absent => Own(bl, ch[p], p)

(* What is held of p, when its reads are answered.                               *)
InfoOK(ch, bl, h, p) == h.info # None /\ h.info.of = p /\ Like(ch, bl, h.info.file, p)

ConfigOK(ch, bl, c, p) ==
  /\ c # None /\ c.doc \in {p, None}
  /\ c.read  => /\ "documentation" \notin bl => c.doc = p
                /\ "type" \notin bl => c.type = TypeRead(ch[p])
  /\ ~c.read => c.type = "SOFTWARE"

HeldOK(ch, bl, h, p) ==
  h.id = p /\ InfoOK(ch, bl, h, p) /\ ConfigOK(ch, bl, h.config, p) /\ h.sha \in {p, None}

(* The form that was filled in with it: whatever step it is at, what was checked *)
(* before is right.                                                              *)
ShownOK(f, h, p) == f.shown /\ f.maint = p /\ f.doc = h.config.doc

CheckedOK(f, software) ==
  /\ f.step = 1 => f.wrong \subseteq IF software THEN {"people", "name", "link"}
                                                  ELSE {"people", "name"}
  /\ f.step = 2 => f.wrong \subseteq {"name"}
  /\ f.step = 3 => f.wrong = {}

FilesOK(ch, bl, f, fs, p) ==
  /\ f.base # None => Like(ch, bl, f.base, p)
  /\ \A file \in fs : Like(ch, bl, file, p)

Settled(ch, bl, h, f, fs, p) ==
  /\ HeldOK(ch, bl, h, p) /\ ShownOK(f, h, p) /\ CheckedOK(f, Software(h))
  /\ FilesOK(ch, bl, f, fs, p)

(* A visit that is not answered: nothing else is done on the page.               *)
Fresh(f, fs) == ~f.open /\ f.step = 1 /\ f.base = None /\ fs = {}

VisitOK(ch, bl, h, g, f, fs, r) ==
  /\ r.via = "card" => g.on = None
  /\ r.via = "page" =>
       /\ g.on = r.of /\ h.id = r.of /\ Fresh(f, fs) /\ r.stage # "commit"
       /\ r.stage = "file" =>
            r.asks = r.of /\ Like(ch, bl, r.file, r.of) /\ InfoOK(ch, bl, h, r.of)

PageOK(ch, bl, h, g, rs, f, fs) ==
  /\ \A r, s \in rs : r = s
  /\ \A r \in rs : VisitOK(ch, bl, h, g, f, fs, r)
  /\ rs = {} /\ g.on # None => Settled(ch, bl, h, f, fs, g.on) /\ g.loaded

(* What was submitted.                                                           *)
FlowOK(ch, bl, on, rs, w) ==
  IF w.kind = "create"
  THEN /\ w.wrong \intersect {"people", "organization"} = {}
       /\ w.at \in {"build", "send", "gone", "landed"} => Own(bl, w.file, w.to)
  ELSE /\ w.wrong = {}
       /\ w.at = "build" => on # None /\ rs = {} /\ Fits(ch, bl, w.file, on)
       /\ w.at \in {"send", "gone", "landed"} => Fits(ch, bl, w.file, w.to)

FlowsOK(ch, bl, on, rs, fl) == \A f \in DOMAIN fl : FlowOK(ch, bl, on, rs, fl[f])

Calm ==
  /\ ChainOK(chain, blind)
  /\ PageOK(chain, blind, held, page, reads, form, fetches)
  /\ FlowsOK(chain, blind, page.on, reads, flows)

(* A draft whose step was left is right in what was checked there.               *)
DraftOK(d) ==
  /\ d.step = 3 => "people" \notin d.wrong
  /\ d.step = 4 => d.wrong \intersect {"people", "organization"} = {}

FormsInv == Typed /\ DraftOK(draft) /\ (~raced => Calm)

-------------------------------------------------------------------------------
(* Nothing *)

LEMMA SomethingIsHeld ==
  /\ None \notin Project /\ None \notin Type /\ None \notin File /\ Absent \notin File
  /\ None \notin Info /\ None \notin Config /\ None \notin Question
BY NothingAssumption DEF Info, Config, Question

-------------------------------------------------------------------------------
(* What a session remembers *)

LEMMA NothingHeld == Nothing \in Holding /\ Home \in Where
BY DEF Nothing, Holding, Home, Where

(* A project that is clicked, or entered.                                        *)
LEMMA IdHeld ==
  ASSUME NEW h \in Holding, NEW p \in Project
  PROVE  /\ [h EXCEPT !.id = p] \in Holding
         /\ [h EXCEPT !.id = p].id = p
BY DEF Holding

LEMMA InfoHeld ==
  ASSUME NEW h \in Holding, NEW p \in Project, NEW file \in File
  PROVE  LET g == WithInfo(h, p, file)
         IN  /\ g \in Holding /\ g.info # None /\ g.info.of = p /\ g.info.file = file
             /\ g.id = h.id /\ g.config = h.config /\ g.sha = h.sha
<1>1. [of |-> p, file |-> file] \in Info
  BY DEF Info
<1>2. QED  BY <1>1, SomethingIsHeld DEF WithInfo, Holding

LEMMA ConfigHeld ==
  ASSUME NEW h \in Holding, NEW c \in Config
  PROVE  LET g == WithConfig(h, c)
         IN  g \in Holding /\ g.config = c /\ g.id = h.id /\ g.info = h.info /\ g.sha = h.sha
BY DEF WithConfig, MergedConfig, Holding

LEMMA ShaHeld ==
  ASSUME NEW h \in Holding, NEW p \in Project \union {None}
  PROVE  LET g == WithSha(h, p)
         IN  g \in Holding /\ g.sha = p /\ g.id = h.id /\ g.info = h.info /\ g.config = h.config
BY DEF WithSha, Holding

LEMMA FileIsTyped ==
  ASSUME NEW file \in File
  PROVE  /\ file.type \in Type \union {None} /\ file.extra \subseteq Unmanaged /\ file.readme \in BOOLEAN
         /\ file.doc \in Project \union {None} /\ file.maint \in Project
         /\ TypeRead(file) \in Type
BY DEF File, TypeRead, Type

(* What a file says, or nothing does.                                            *)
LEMMA ConfigsAreTyped ==
  /\ \A file \in File : ConfigOf(file) \in Config
  /\ DefaultConfig \in Config
BY FileIsTyped DEF ConfigOf, Config, DefaultConfig, Type

LEMMA ChainHasFiles ==
  ASSUME Typed, NEW p \in Project, chain[p] # Absent
  PROVE  chain[p] \in File
BY DEF Typed

LEMMA HeldInfo ==
  ASSUME NEW h \in Holding, h.info # None
  PROVE  h.info.of \in Project /\ h.info.file \in File
BY DEF Holding, Info

LEMMA VisitTyped ==
  ASSUME NEW r \in Visit
  PROVE  /\ r.of \in Project /\ r.via \in {"card", "page"}
         /\ r.stage \in {"project", "file", "commit"}
         /\ r.file \in File \union {None} /\ r.asks \in Project \union {None}
BY DEF Visit

LEMMA NewReadTyped ==
  ASSUME NEW p \in Project, NEW via \in {"card", "page"}
  PROVE  /\ NewRead(p, via) \in Visit
         /\ NewRead(p, via).stage = "project" /\ NewRead(p, via).of = p /\ NewRead(p, via).via = via
BY DEF NewRead, Visit

-------------------------------------------------------------------------------
(* The form of a page *)

LEMMA NewFormTyped ==
  /\ FormTyped(NewForm) /\ ~NewForm.shown /\ ~NewForm.open /\ NewForm.step = 1
  /\ NewForm.base = None /\ NewForm.wrong = {}
BY DEF FormTyped, NewForm, PageForm

(* What the effect fills in, and what it leaves.                                 *)
LEMMA FilledInFacts ==
  ASSUME NEW f, FormTyped(f), NEW h \in Holding, NEW loaded \in BOOLEAN
  PROVE  LET g == FilledIn(f, h, loaded)
         IN  /\ FormTyped(g)
             /\ g.open = f.open /\ g.step = f.step /\ g.base = f.base /\ g.readme = f.readme
             /\ loaded /\ Known(h) =>
                  /\ g.shown /\ g.maint = h.info.of
                  /\ h.config # None => g.doc = h.config.doc /\ g.wrong = {}
<1> DEFINE doc == IF h.config = None THEN None ELSE h.config.doc
           wrong == IF h.config = None THEN {"people"} ELSE {}
           filled == [f EXCEPT !.shown = TRUE, !.maint = h.info.of, !.doc = doc, !.wrong = wrong]
<1>1. CASE ~loaded
  BY <1>1 DEF FilledIn
<1>2. CASE loaded /\ ~Known(h)
  BY <1>2 DEF FilledIn, FormTyped, PageForm
<1>3. CASE loaded /\ Known(h)
  <2>1. h.info.of \in Project /\ h.info.of # None
    BY <1>3, HeldInfo, SomethingIsHeld DEF Known
  <2>2. doc \in Project \union {None} /\ (h.config # None => doc = h.config.doc)
    BY DEF Holding, Config
  <2>3. wrong \in SUBSET Part /\ (h.config # None => wrong = {})
    BY DEF Part
  <2>4. FilledIn(f, h, loaded) = filled
    BY <1>3 DEF FilledIn
  <2> HIDE DEF doc, wrong
  <2>5. /\ FormTyped(filled) /\ filled.shown /\ filled.maint = h.info.of
        /\ filled.doc = doc /\ filled.wrong = wrong
        /\ filled.open = f.open /\ filled.step = f.step /\ filled.base = f.base /\ filled.readme = f.readme
    BY <2>1, <2>2, <2>3 DEF FormTyped, PageForm
  <2> HIDE DEF filled
  <2>6. QED  BY <2>2, <2>3, <2>4, <2>5
<1>4. QED  BY <1>1, <1>2, <1>3

LEMMA AskedAreFiles ==
  ASSUME NEW h \in Holding
  PROVE  Asked(h) \subseteq File /\ (Known(h) => Asked(h) = {h.info.file})
BY HeldInfo DEF Asked, Known

(* A form that is filled in anew, on the page where it is.                       *)
LEMMA RefillTyped ==
  ASSUME Typed, held' \in Holding, page' \in Where, page'.on = page.on, Refill
  PROVE  /\ FormTyped(form') /\ fetches' \subseteq File
         /\ page'.on = None => ~form'.shown /\ ~form'.open /\ fetches' = {}
<1>1. CASE page'.on = None
  BY <1>1 DEF Refill, Typed
<1>2. CASE page'.on # None
  <2>1. page'.loaded \in BOOLEAN
    BY DEF Where
  <2>2. FormTyped(form')
    BY <1>2, <2>1, FilledInFacts DEF Refill, Typed
  <2>3. fetches' \subseteq File
    BY <1>2, AskedAreFiles DEF Refill, Typed
  <2>4. QED  BY <1>2, <2>2, <2>3
<1>3. QED  BY <1>1, <1>2

-------------------------------------------------------------------------------
(* Reads *)

(* What an answer may be, and what it leaves as it was.                          *)
LEMMA AnswersTyped ==
  ASSUME Typed, NEW r \in reads,
         \/ ProjectRead(r) \/ CardFails(r) \/ CardFileLost(r) \/ CardCommitRead(r)
         \/ PageFileRead(r) \/ CardFileRead(r)
  PROVE  /\ UNCHANGED <<chain, raced>> /\ held' \in Holding
         /\ page' \in Where /\ page'.on = page.on
         /\ reads' \subseteq Visit /\ \A s \in reads' : s.stage # "project" => s.file # None
<1>1. /\ r \in Visit /\ r.of \in Project /\ r.file \in File \union {None}
      /\ r.asks \in Project \union {None} /\ (r.stage # "project" => r.file \in File)
      /\ held \in Holding /\ page \in Where /\ held.id \in Project \union {None}
  BY VisitTyped DEF Typed, Holding
<1>2. CASE ProjectRead(r)
  <2> DEFINE got == [r EXCEPT !.stage = "file", !.file = chain[r.of],
                              !.asks = IF r.via = "page" THEN held.id ELSE None]
  <2>1. chain[r.of] \in File /\ chain[r.of] # None
    BY <1>1, <1>2, ChainHasFiles, SomethingIsHeld DEF ProjectRead
  <2>2. got \in Visit /\ got.stage = "file" /\ got.file = chain[r.of]
    BY <1>1, <2>1 DEF Visit
  <2>3. held' \in Holding
    BY <1>1, <1>2, <2>1, InfoHeld, ConfigHeld, ConfigsAreTyped DEF ProjectRead
  <2>4. reads' = (reads \ {r}) \union {got}
    BY <1>2 DEF ProjectRead
  <2> HIDE DEF got
  <2>5. QED  BY <1>1, <1>2, <2>1, <2>2, <2>3, <2>4 DEF ProjectRead, Typed
<1>3. CASE CardFails(r)
  BY <1>1, <1>3 DEF CardFails, Typed
<1>4. CASE CardFileLost(r) \/ CardFileRead(r)
  <2> DEFINE got == [r EXCEPT !.stage = "commit", !.asks = held.id]
  <2>1. got \in Visit /\ got.file = r.file
    BY <1>1 DEF Visit
  <2>2. reads' = (reads \ {r}) \union {got} /\ r.stage = "file"
    BY <1>4 DEF CardFileLost, CardFileRead
  <2>3. held' \in Holding
    BY <1>1, <1>4, <2>2, ConfigHeld, ConfigsAreTyped DEF CardFileLost, CardFileRead
  <2> HIDE DEF got
  <2>4. QED  BY <1>1, <1>4, <2>1, <2>2, <2>3, SomethingIsHeld DEF CardFileLost, CardFileRead, Typed
<1>5. CASE CardCommitRead(r)
  BY <1>1, <1>5, ShaHeld DEF CardCommitRead, Typed
<1>6. CASE PageFileRead(r)
  <2>1. PICK c \in {ConfigOf(r.file), DefaultConfig} :
          \E sha \in IF c.type = "SOFTWARE" THEN {r.asks, None} ELSE {None} :
            held' = WithSha(WithConfig(held, c), sha)
    BY <1>6 DEF PageFileRead
  <2>2. PICK sha \in {r.asks, None} : held' = WithSha(WithConfig(held, c), sha)
    BY <2>1
  <2>3. c \in Config
    BY <1>1, <1>6, <2>1, ConfigsAreTyped DEF PageFileRead
  <2>4. held' \in Holding
    BY <1>1, <2>2, <2>3, ConfigHeld, ShaHeld
  <2>5. page' \in Where /\ page'.on = page.on
    BY <1>1, <1>6 DEF PageFileRead, Where
  <2>6. QED  BY <1>6, <2>4, <2>5 DEF PageFileRead, Typed
<1>7. QED  BY <1>2, <1>3, <1>4, <1>5, <1>6

(* A page that is entered, or a card that is clicked.                            *)
LEMMA EnterTyped ==
  ASSUME Typed, NEW p \in Project, NEW forgets \in BOOLEAN, NEW busy \in BOOLEAN,
         Enter(p, forgets, busy)
  PROVE  /\ held' \in Holding /\ held'.id = p
         /\ page' \in Where /\ page'.on = p /\ page'.loaded = page.loaded
         /\ reads' = reads \union {NewRead(p, "page")}
         /\ reads' \subseteq Visit /\ \A s \in reads' : s.stage # "project" => s.file # None
         /\ raced' = (raced \/ busy \/ reads # {}) /\ raced' \in BOOLEAN
<1>1. held' \in Holding /\ held'.id = p
  BY IdHeld, NothingHeld DEF Enter, Typed
<1>2. page' \in Where /\ page'.on = p /\ page'.loaded = page.loaded
  BY DEF Enter, Typed, Where
<1>3. QED  BY <1>1, <1>2, NewReadTyped DEF Enter, Typed

LEMMA ClickTyped ==
  ASSUME Typed, NEW p \in Project, ClickCard(p)
  PROVE  /\ held' \in Holding /\ reads' = reads \union {NewRead(p, "card")}
         /\ reads' \subseteq Visit /\ \A s \in reads' : s.stage # "project" => s.file # None
         /\ raced' = (raced \/ reads # {}) /\ raced' \in BOOLEAN
BY IdHeld, NothingHeld, NewReadTyped DEF ClickCard, Typed

-------------------------------------------------------------------------------
(* Flows and drafts *)

(* One flow has become w, and the others are as they were.                       *)
FlowBecomes(f, w) ==
  /\ flows' \in Seq(Flow) /\ DOMAIN flows' = DOMAIN flows /\ flows'[f] = w
  /\ \A g \in DOMAIN flows \ {f} : flows'[g] = flows[g]

LEMMA FlowSet ==
  ASSUME flows \in Seq(Flow), NEW f \in DOMAIN flows, NEW w \in Flow,
         flows' = [flows EXCEPT ![f] = w]
  PROVE  FlowBecomes(f, w)
BY DEF FlowBecomes

LEMMA FlowParts ==
  ASSUME NEW w \in Flow
  PROVE  /\ w.kind \in {"create", "update"} /\ w.wrong \subseteq Part
         /\ w.at \in {"build", "send", "landed", "back", "gone", "failed", "done"}
         /\ w.file \in File \union {None} /\ w.to \in Project \union {None}
BY DEF Flow

LEMMA GotoFacts ==
  ASSUME Typed, NEW f \in DOMAIN flows,
         NEW at \in {"build", "send", "landed", "back", "gone", "failed", "done"}, Goto(f, at)
  PROVE  \E w \in Flow : /\ FlowBecomes(f, w) /\ w.at = at /\ w.kind = flows[f].kind
                         /\ w.file = flows[f].file /\ w.wrong = flows[f].wrong /\ w.to = flows[f].to
<1> DEFINE w == [flows[f] EXCEPT !.at = at]
<1>1. flows \in Seq(Flow) /\ flows[f] \in Flow
  BY DEF Typed
<1>2. /\ w \in Flow /\ w.at = at /\ w.kind = flows[f].kind
      /\ w.file = flows[f].file /\ w.wrong = flows[f].wrong /\ w.to = flows[f].to
  BY <1>1 DEF Flow
<1>3. flows' = [flows EXCEPT ![f] = w]
  BY DEF Goto
<1> HIDE DEF w
<1>4. QED  BY <1>1, <1>2, <1>3, FlowSet

LEMMA OverFacts ==
  ASSUME Typed, NEW f \in DOMAIN flows, NEW at \in {"failed", "done"}, Over(f, at)
  PROVE  \E w \in Flow : /\ FlowBecomes(f, w) /\ w.at = at /\ w.kind = flows[f].kind
                         /\ w.wrong = flows[f].wrong
<1> DEFINE w == [[[flows[f] EXCEPT !.at = at] EXCEPT !.file = None] EXCEPT !.to = None]
<1>1. flows \in Seq(Flow) /\ flows[f] \in Flow
  BY DEF Typed
<1>2. w \in Flow /\ w.at = at /\ w.kind = flows[f].kind /\ w.wrong = flows[f].wrong
  BY <1>1 DEF Flow
<1>3. flows' = [flows EXCEPT ![f] = w]
  BY <1>1 DEF Over
<1> HIDE DEF w
<1>4. QED  BY <1>1, <1>2, <1>3, FlowSet

LEMMA SignFacts ==
  ASSUME Typed, NEW f \in DOMAIN flows, Sign(f)
  PROVE  \E w \in Flow : /\ FlowBecomes(f, w) /\ w.at = "send" /\ w.kind = flows[f].kind
                         /\ w.file = flows[f].file /\ w.wrong = flows[f].wrong
                         /\ w.to = IF flows[f].kind = "create" THEN flows[f].to ELSE held.id
                         /\ w.to # None
<1> DEFINE to == IF flows[f].kind = "create" THEN flows[f].to ELSE held.id
           w == [[flows[f] EXCEPT !.at = "send"] EXCEPT !.to = to]
<1>1. flows \in Seq(Flow) /\ flows[f] \in Flow
  BY DEF Typed
<1>2. to \in Project \union {None} /\ to # None
  BY <1>1, FlowParts DEF Sign, Typed, Holding
<1>3. flows' = [flows EXCEPT ![f] = w]
  BY <1>1 DEF Sign
<1> HIDE DEF to
<1>4. /\ w \in Flow /\ w.at = "send" /\ w.kind = flows[f].kind
      /\ w.file = flows[f].file /\ w.wrong = flows[f].wrong /\ w.to = to
  BY <1>1, <1>2 DEF Flow
<1> HIDE DEF w
<1>5. \E v \in Flow : /\ FlowBecomes(f, v) /\ v.at = "send" /\ v.kind = flows[f].kind
                      /\ v.file = flows[f].file /\ v.wrong = flows[f].wrong
                      /\ v.to = to /\ v.to # None
  BY <1>1, <1>2, <1>3, <1>4, FlowSet
<1>6. QED  BY <1>5 DEF to

(* A submission is one flow more.                                                *)
LEMMA StartFacts ==
  ASSUME Typed, NEW w \in Flow, Start(w)
  PROVE  /\ flows' \in Seq(Flow) /\ DOMAIN flows' = DOMAIN flows \union {Len(flows) + 1}
         /\ flows'[Len(flows) + 1] = w
         /\ \A g \in DOMAIN flows : g # Len(flows) + 1 /\ flows'[g] = flows[g]
BY DEF Start, Typed

LEMMA NewFlowTyped ==
  ASSUME NEW kind \in {"create", "update"}, NEW file \in File, NEW wrong \in SUBSET Part,
         NEW to \in Project \union {None}
  PROVE  LET w == NewFlow(kind, file, wrong, to)
         IN  /\ w \in Flow /\ w.kind = kind /\ w.at = "build" /\ w.file = file
             /\ w.wrong = wrong /\ w.to = to
BY DEF NewFlow, Flow

LEMMA NoDraftTyped == NoDraft \in Draft /\ ~NoDraft.open /\ NoDraft.step = 1 /\ NoDraft.asked = None
                      /\ NoDraft.name = None
BY DEF NoDraft, Draft, Part, Type

(* What is submitted of the form of the page is a file.                          *)
LEMMA MergedIsFile ==
  ASSUME Typed, form.open, NEW base \in File \union {EmptyBase}, NEW readme \in BOOLEAN
  PROVE  LET m == Merged(base, readme)
         IN  /\ m \in File /\ m.type = TypeOf(base) /\ m.extra = Written(base.extra)
             /\ m.readme = (~Software(held) /\ readme) /\ m.doc = form.doc /\ m.maint = form.maint
<1>1. form.doc \in Project \union {None} /\ form.maint \in Project
  BY DEF Typed, FormTyped, PageForm
<1>2. base.type \in Type \union {None} /\ base.extra \subseteq Unmanaged
  <2>1. EmptyBase.type = None /\ EmptyBase.extra = {}
    BY DEF EmptyBase
  <2>2. QED  BY <2>1, FileIsTyped
<1>3. TypeOf(base) \in Type \union {None}
  BY <1>2 DEF TypeOf, Typed, Holding, Config
<1>4. (~Software(held) /\ readme) \in BOOLEAN
  OBVIOUS
<1> DEFINE t == TypeOf(base)
           r == ~Software(held) /\ readme
           x == Written(base.extra)
<1>7. x \in SUBSET Unmanaged
  BY <1>2 DEF Written
<1> HIDE DEF t, r, x
<1>5. LET m == [type |-> t, extra |-> x, readme |-> r, doc |-> form.doc, maint |-> form.maint]
      IN  /\ m \in File /\ m.type = t /\ m.extra = x
          /\ m.readme = r /\ m.doc = form.doc /\ m.maint = form.maint
  BY <1>1, <1>3, <1>4, <1>7 DEF File, t, r
<1>6. QED  BY <1>5 DEF Merged, t, r, x

-------------------------------------------------------------------------------
(* Every step keeps the types *)

LEMMA FormMoves ==
  ASSUME Typed, UNCHANGED <<chain, held, page, reads, draft, flows, blind>>, raced' \in BOOLEAN,
         page.on # None, FormTyped(form'), fetches' \subseteq File
  PROVE  Typed'
BY DEF Typed, FlowTyped

(* What is done in the form of a page.                                           *)
FormMove ==
  \/ OpenForm \/ WriteReadme \/ Next12 \/ BackTo12 \/ CloseForm
  \/ \E file \in fetches : Fetched(file)
  \/ \E part \in Part : Write(part)

LEMMA FormMoveTyped ==
  ASSUME Typed, FormMove
  PROVE  Typed'
<1>1. /\ form \in PageForm /\ FormTyped(form) /\ held \in Holding /\ raced \in BOOLEAN
      /\ form.step \in 0 .. 3 /\ form.wrong \in SUBSET Part
  BY DEF Typed, FormTyped, PageForm
<1>2. form.shown \/ form.open \/ fetches # {} => page.on # None
  BY DEF Typed
<1>3. CASE OpenForm
  <2>1. FormTyped(form')
    BY <1>1, <1>3 DEF OpenForm, FormTyped, PageForm
  <2>2. fetches' \subseteq File
    BY <1>1, <1>3, AskedAreFiles DEF OpenForm, Typed
  <2>3. raced' \in BOOLEAN
    BY <1>1, <1>3 DEF OpenForm
  <2>4. QED  BY <1>2, <1>3, <2>1, <2>2, <2>3, FormMoves DEF OpenForm
<1>4. CASE WriteReadme
  <2>1. FormTyped(form')
    BY <1>1, <1>4 DEF WriteReadme, FormTyped, PageForm
  <2>2. QED  BY <1>1, <1>2, <1>4, <2>1, FormMoves DEF WriteReadme, workspace, Typed
<1>5. CASE Next12
  <2>1. FormTyped(form')
    BY <1>1, <1>5 DEF Next12, Step, FormTyped, PageForm
  <2>2. QED  BY <1>1, <1>2, <1>5, <2>1, FormMoves DEF Next12, Step, workspace, Typed
<1>6. CASE BackTo12
  <2>1. FormTyped(form')
    BY <1>1, <1>6 DEF BackTo12, Step, FormTyped, PageForm
  <2>2. QED  BY <1>1, <1>2, <1>6, <2>1, FormMoves DEF BackTo12, Step, workspace, Typed
<1>7. CASE CloseForm
  <2>1. /\ form' = [form EXCEPT !.open = FALSE, !.step = 0, !.loading = FALSE] /\ form.open
    BY <1>7 DEF CloseForm
  <2>2. 0 \in 0 .. 3
    OBVIOUS
  <2>3. form' \in PageForm /\ form'.maint = form.maint
    BY <1>1, <2>1, <2>2 DEF PageForm
  <2>4. FormTyped(form')
    BY <1>1, <2>1, <2>3 DEF FormTyped
  <2>5. QED  BY <1>1, <1>2, <1>7, <2>4, FormMoves DEF CloseForm, workspace, Typed
<1>8. ASSUME NEW file \in fetches, Fetched(file)  PROVE Typed'
  <2>1. file \in File
    BY <1>8 DEF Typed
  <2>2. PICK got \in {file, None} :
          form' = [form EXCEPT !.base = got,
                               !.readme = IF ~Software(held) /\ got # None /\ file.readme
                                          THEN "kept" ELSE @]
    BY <1>8 DEF Fetched
  <2>3. FormTyped(form')
    BY <1>1, <2>1, <2>2 DEF FormTyped, PageForm
  <2>4. QED  BY <1>1, <1>2, <1>8, <2>3, FormMoves DEF Fetched, workspace, Typed
<1>9. ASSUME NEW part \in Part, Write(part)  PROVE Typed'
  <2> DEFINE wrong == IF part \in form.wrong THEN form.wrong \ {part} ELSE form.wrong \union {part}
  <2>1. wrong \in SUBSET Part
    BY <1>1, <1>9
  <2>2. form' = [form EXCEPT !.wrong = wrong]
    BY <1>9 DEF Write
  <2> HIDE DEF wrong
  <2>3. FormTyped(form')
    BY <1>1, <2>1, <2>2 DEF FormTyped, PageForm
  <2>4. QED  BY <1>1, <1>2, <1>9, <2>3, FormMoves DEF Write, workspace, Typed
<1>10. QED  BY <1>3, <1>4, <1>5, <1>6, <1>7, <1>8, <1>9 DEF FormMove

(* The submission of a change, with what it starts from.                         *)
NoConfig == held.config = None \/ ~held.config.read

Submits(base, readme, unread, w) ==
  /\ \/ base = EmptyBase /\ "keys" \in unread /\ (NoConfig => "type" \in unread)
     \/ base \in {form.base} \union fetches /\ base # None
  /\ NoConfig => {"documentation", "readme"} \subseteq unread
  /\ "type" \in unread => "readme" \in unread
  /\ ~Software(held) /\ Known(held) /\ "readme" \notin unread => readme
  /\ blind' = blind \union unread
  /\ Start(w) /\ w.kind = "update" /\ w.at = "build"
  /\ w.file = Merged(base, readme) /\ w.file \in File /\ w.wrong = form.wrong /\ w.to = None

LEMMA SubmitUpdateFacts ==
  ASSUME Typed, SubmitUpdate
  PROVE  \E base \in File \union {EmptyBase}, readme \in BOOLEAN, unread \in SUBSET Gap, w \in Flow :
           Submits(base, readme, unread, w)
<1> DEFINE lacks == ~Software(held) /\ form.readme = "none" /\ Known(held)
<1>1. form.open /\ form \in PageForm /\ form.wrong \in SUBSET Part /\ form.base \in File \union {None}
      /\ fetches \subseteq File
  BY DEF SubmitUpdate, Step, Typed, FormTyped, PageForm
<1>2. PICK base \in {form.base} \union IF lacks THEN fetches ELSE {} :
        \E found \in IF lacks THEN {FALSE, held.info.file.readme} ELSE {form.readme # "none"} :
          /\ Start(NewFlow("update", Merged(IF base = None THEN EmptyBase ELSE base, found),
                           form.wrong, None))
          /\ blind' = blind \union Unread(base) \union IF lacks /\ ~found THEN {"readme"} ELSE {}
  BY DEF SubmitUpdate
<1>3. PICK found \in IF lacks THEN {FALSE, held.info.file.readme} ELSE {form.readme # "none"} :
        /\ Start(NewFlow("update", Merged(IF base = None THEN EmptyBase ELSE base, found),
                         form.wrong, None))
        /\ blind' = blind \union Unread(base) \union IF lacks /\ ~found THEN {"readme"} ELSE {}
  BY <1>2
<1>4. base \in File \union {None} /\ base \in {form.base} \union fetches
  BY <1>1, <1>2
<1>5. found \in BOOLEAN
  <2>1. Known(held) => held.info.file.readme \in BOOLEAN
    BY HeldInfo, FileIsTyped DEF Known, Typed
  <2>2. QED  BY <1>3, <2>1
<1> DEFINE from   == IF base = None THEN EmptyBase ELSE base
           unread == Unread(base) \union IF lacks /\ ~found THEN {"readme"} ELSE {}
           w      == NewFlow("update", Merged(from, found), form.wrong, None)
<1>6. from \in File \union {EmptyBase} /\ (base # None => from = base) /\ (base = None => from = EmptyBase)
  BY <1>4
<1>7. /\ NoConfig => {"documentation", "readme"} \subseteq unread
      /\ base = None => "keys" \in unread
      /\ base = None /\ NoConfig => "type" \in unread
      /\ "type" \in unread => "readme" \in unread
      /\ unread \in SUBSET Gap
  BY DEF Unread, NoConfig, Gap
<1>8. ~Software(held) /\ Known(held) /\ "readme" \notin unread => found
  BY <1>3
<1>9. blind' = blind \union unread
  BY <1>3
<1> HIDE DEF from, unread
<1>10. Merged(from, found) \in File
  BY <1>1, <1>5, <1>6, MergedIsFile
<1>11. /\ w \in Flow /\ w.kind = "update" /\ w.at = "build" /\ w.file = Merged(from, found)
       /\ w.wrong = form.wrong /\ w.to = None
  BY <1>1, <1>10, NewFlowTyped
<1>12. Start(w)
  BY <1>3 DEF from
<1> HIDE DEF w, lacks
<1>13. \/ from = EmptyBase /\ "keys" \in unread /\ (NoConfig => "type" \in unread)
       \/ from \in {form.base} \union fetches /\ from # None
  BY <1>4, <1>6, <1>7
<1>14. Submits(from, found, unread, w)
  BY <1>7, <1>8, <1>9, <1>10, <1>11, <1>12, <1>13 DEF Submits
<1>15. QED  BY <1>5, <1>6, <1>7, <1>11, <1>14

LEMMA SubmitUpdateTyped ==
  ASSUME Typed, SubmitUpdate
  PROVE  Typed'
<1>1. PICK w \in Flow : Start(w) /\ w.at = "build" /\ w.file # None /\ w.kind = "update"
  BY SubmitUpdateFacts, SomethingIsHeld DEF Submits
<1>2. /\ flows' \in Seq(Flow) /\ DOMAIN flows' = DOMAIN flows \union {Len(flows) + 1}
      /\ flows'[Len(flows) + 1] = w
      /\ \A g \in DOMAIN flows : flows'[g] = flows[g]
  BY <1>1, StartFacts
<1>3. FormTyped(form') /\ form.open
  BY DEF SubmitUpdate, Step, Typed, FormTyped, PageForm
<1>4. /\ blind' \subseteq Gap
      /\ "type" \in blind' => "readme" \in blind'
  BY SubmitUpdateFacts DEF Typed, Submits, Gap
<1>5. UNCHANGED <<chain, held, page, reads, fetches, draft>> /\ raced' \in BOOLEAN
  BY DEF SubmitUpdate, Typed
<1>6. ASSUME NEW f \in DOMAIN flows'  PROVE FlowTyped(chain, flows'[f])
  <2>1. CASE f \in DOMAIN flows
    BY <1>2, <2>1 DEF Typed
  <2>2. CASE f \notin DOMAIN flows
    BY <1>1, <1>2, <1>6, <2>2 DEF FlowTyped
  <2>3. QED  BY <2>1, <2>2
<1>7. QED  BY <1>2, <1>3, <1>4, <1>5, <1>6 DEF Typed

(* What is done in the form of the dashboard, short of its submission.           *)
DraftMove ==
  \/ OpenDraft \/ CloseDraft \/ AskName \/ NameAnswered
  \/ \E part \in Part : WriteDraft(part)
  \/ \E p \in Project : ChooseName(p)
  \/ \E t \in Type : ChooseType(t)
  \/ NextDraft(2, {"people"}) \/ NextDraft(3, {"organization"})
  \/ \E n \in 1 .. 3 : EditDraft(n)

LEMMA DraftParts ==
  ASSUME NEW d \in Draft
  PROVE  /\ d.open \in BOOLEAN /\ d.step \in {1, 2, 3, 4, 6} /\ d.name \in Project \union {None}
         /\ d.type \in Type /\ d.wrong \in SUBSET Part /\ d.asked \in Question \union {None}
         /\ d.loading \in BOOLEAN
BY DEF Draft

LEMMA DraftMoves ==
  ASSUME Typed, DraftOK(draft), DraftMove
  PROVE  /\ UNCHANGED <<workspace, form, fetches, flows, blind>>
         /\ draft' \in Draft /\ Named(draft') /\ DraftOK(draft')
<1>1. /\ draft \in Draft /\ Named(draft)
      /\ draft.step \in {1, 2, 3, 4, 6} /\ draft.wrong \in SUBSET Part
  BY DraftParts DEF Typed
<1>2. CASE OpenDraft
  <2>1. draft' \in Draft /\ draft'.step = 1 /\ draft'.asked = None
    BY <1>2, NoDraftTyped DEF OpenDraft, Draft
  <2>2. QED  BY <1>2, <2>1 DEF OpenDraft, Named, DraftOK
<1>3. CASE CloseDraft
  BY <1>3, NoDraftTyped DEF CloseDraft, Named, DraftOK
<1>4. CASE AskName
  <2> DEFINE q == [name |-> draft.name, ok |-> draft.type = "GENERIC" \/ "link" \notin draft.wrong]
  <2>1. draft.name # None /\ q \in Question
    BY <1>1, <1>4, DraftParts DEF AskName, Question
  <2>2. draft' = [draft EXCEPT !.loading = TRUE, !.asked = q]
    BY <1>4 DEF AskName
  <2> HIDE DEF q
  <2>3. /\ draft' \in Draft /\ draft'.step = draft.step /\ draft'.name = draft.name
        /\ draft'.wrong = draft.wrong
    BY <1>1, <2>1, <2>2 DEF Draft
  <2>4. QED  BY <1>4, <2>1, <2>3 DEF AskName, Named, DraftOK
<1>5. CASE NameAnswered
  <2>1. PICK free \in {chain[draft.asked.name] = Absent, TRUE} :
          draft' = [draft EXCEPT !.loading = FALSE, !.asked = None,
                                 !.step = IF free /\ draft.asked.ok THEN 2 ELSE @]
    BY <1>5 DEF NameAnswered
  <2>2. /\ draft' \in Draft /\ draft'.step \in {2, draft.step} /\ draft'.name = draft.name
        /\ draft'.wrong = draft.wrong
    BY <1>1, <2>1 DEF Draft
  <2>3. draft.name # None
    BY <1>1, <1>5 DEF NameAnswered, Named
  <2>4. QED  BY <1>1, <1>5, <2>2, <2>3 DEF NameAnswered, Named, DraftOK
<1>6. ASSUME NEW part \in Part, WriteDraft(part)
      PROVE  /\ UNCHANGED <<workspace, form, fetches, flows, blind>>
             /\ draft' \in Draft /\ Named(draft') /\ DraftOK(draft')
  <2> DEFINE wrong == IF part \in draft.wrong THEN draft.wrong \ {part} ELSE draft.wrong \union {part}
  <2>1. wrong \in SUBSET Part /\ wrong \subseteq draft.wrong \union {part}
    BY <1>1, <1>6
  <2>2. draft' = [draft EXCEPT !.wrong = wrong]
    BY <1>6 DEF WriteDraft
  <2>3. part \in PartsOf(draft.step)
    BY <1>6 DEF WriteDraft
  <2> HIDE DEF wrong
  <2>4. /\ draft' \in Draft /\ draft'.step = draft.step /\ draft'.name = draft.name
        /\ draft'.asked = draft.asked /\ draft'.wrong = wrong
    BY <1>1, <2>1, <2>2 DEF Draft
  <2>5. Named(draft')
    BY <1>1, <2>4 DEF Named
  <2>6. DraftOK(draft')
    BY <1>1, <2>1, <2>3, <2>4 DEF DraftOK, PartsOf
  <2>7. QED  BY <1>6, <2>4, <2>5, <2>6 DEF WriteDraft
<1>7. ASSUME NEW p \in Project, ChooseName(p)
      PROVE  /\ UNCHANGED <<workspace, form, fetches, flows, blind>>
             /\ draft' \in Draft /\ Named(draft') /\ DraftOK(draft')
  <2>1. /\ draft' \in Draft /\ draft'.step = draft.step /\ draft'.name = p
        /\ draft'.wrong = draft.wrong
    BY <1>1, <1>7 DEF ChooseName, Draft
  <2>2. QED  BY <1>1, <1>7, <2>1, SomethingIsHeld DEF ChooseName, Named, DraftOK
<1>8. ASSUME NEW t \in Type, ChooseType(t)
      PROVE  /\ UNCHANGED <<workspace, form, fetches, flows, blind>>
             /\ draft' \in Draft /\ Named(draft') /\ DraftOK(draft')
  <2>1. /\ draft' \in Draft /\ draft'.step = draft.step /\ draft'.name = draft.name
        /\ draft'.asked = draft.asked /\ draft'.wrong = draft.wrong
    BY <1>1, <1>8 DEF ChooseType, Draft
  <2>2. QED  BY <1>1, <1>8, <2>1 DEF ChooseType, Named, DraftOK
<1>9. CASE NextDraft(2, {"people"}) \/ NextDraft(3, {"organization"})
  <2>1. /\ draft' = [draft EXCEPT !.step = draft'.step]
        /\ \/ draft.step = 2 /\ draft'.step = 3 /\ "people" \notin draft.wrong
           \/ draft.step = 3 /\ draft'.step = 4 /\ "organization" \notin draft.wrong
    BY <1>1, <1>9 DEF NextDraft, Typing, Draft
  <2>2. /\ draft' \in Draft /\ draft'.name = draft.name /\ draft'.asked = draft.asked
        /\ draft'.wrong = draft.wrong
    BY <1>1, <2>1 DEF Draft
  <2>3. Named(draft')
    BY <1>1, <2>1, <2>2 DEF Named
  <2>4. DraftOK(draft')
    BY <2>1, <2>2 DEF DraftOK
  <2>5. QED  BY <1>9, <2>2, <2>3, <2>4 DEF NextDraft
<1>10. ASSUME NEW n \in 1 .. 3, EditDraft(n)
       PROVE  /\ UNCHANGED <<workspace, form, fetches, flows, blind>>
              /\ draft' \in Draft /\ Named(draft') /\ DraftOK(draft')
  <2>1. n \in {1, 2, 3}
    OBVIOUS
  <2>2. draft.step = 4 /\ draft' = [draft EXCEPT !.step = n]
    BY <1>10 DEF EditDraft, Typing
  <2>3. /\ draft' \in Draft /\ draft'.step = n /\ draft'.name = draft.name
        /\ draft'.asked = draft.asked /\ draft'.wrong = draft.wrong
    BY <1>1, <2>1, <2>2 DEF Draft
  <2>4. Named(draft') /\ DraftOK(draft')
    BY <1>1, <2>1, <2>2, <2>3 DEF Named, DraftOK
  <2>5. QED  BY <1>10, <2>3, <2>4 DEF EditDraft
<1>11. QED
  BY <1>2, <1>3, <1>4, <1>5, <1>6, <1>7, <1>8, <1>9, <1>10 DEF DraftMove

LEMMA DraftMoveTyped ==
  ASSUME Typed, DraftOK(draft), DraftMove
  PROVE  Typed' /\ DraftOK(draft')
BY DraftMoves DEF Typed, workspace

(* A draft that is submitted.                                                    *)
LEMMA SubmitDraftFacts ==
  ASSUME Typed, SubmitDraft
  PROVE  \E w \in Flow :
           /\ Start(w) /\ w.kind = "create" /\ w.at = "build" /\ w.wrong = draft.wrong
           /\ w.to = draft.name /\ w.to # None
           /\ w.file \in File /\ w.file.maint = w.to /\ w.file.doc = w.to
           /\ w.file.readme => w.file.type = "GENERIC"
<1> DEFINE file == [type |-> draft.type, extra |-> {}, readme |-> draft.type = "GENERIC",
                    doc |-> draft.name, maint |-> draft.name]
           w    == NewFlow("create", file, draft.wrong, draft.name)
<1>1. /\ draft.name \in Project /\ draft.name # None /\ draft.type \in Type
      /\ draft.wrong \in SUBSET Part
  BY DraftParts DEF SubmitDraft, Typing, Typed, Named
<1>2. /\ file \in File /\ file.maint = draft.name /\ file.doc = draft.name
      /\ file.readme => file.type = "GENERIC"
  BY <1>1 DEF File
<1>3. Start(w)
  BY DEF SubmitDraft
<1> HIDE DEF file
<1>4. /\ w \in Flow /\ w.kind = "create" /\ w.at = "build" /\ w.wrong = draft.wrong
      /\ w.to = draft.name /\ w.file = file
  BY <1>1, <1>2, NewFlowTyped
<1> HIDE DEF w
<1>5. QED  BY <1>1, <1>2, <1>3, <1>4

LEMMA SubmitDraftTyped ==
  ASSUME Typed, SubmitDraft
  PROVE  Typed' /\ DraftOK(draft')
<1>1. PICK w \in Flow : Start(w) /\ w.at = "build" /\ w.file # None /\ w.to # None
  BY SubmitDraftFacts, SomethingIsHeld
<1>2. /\ flows' \in Seq(Flow) /\ DOMAIN flows' = DOMAIN flows \union {Len(flows) + 1}
      /\ flows'[Len(flows) + 1] = w
      /\ \A g \in DOMAIN flows : flows'[g] = flows[g]
  BY <1>1, StartFacts
<1>3. draft.step = 4 /\ draft' = [draft EXCEPT !.step = 6] /\ draft \in Draft /\ Named(draft)
  BY DEF SubmitDraft, Typing, Typed
<1>4. draft' \in Draft /\ draft'.step = 6 /\ draft'.name = draft.name
  BY <1>3 DEF Draft
<1>5. Named(draft') /\ DraftOK(draft')
  BY <1>3, <1>4 DEF Named, DraftOK
<1>6. ASSUME NEW f \in DOMAIN flows'  PROVE FlowTyped(chain, flows'[f])
  <2>1. CASE f \in DOMAIN flows
    BY <1>2, <2>1 DEF Typed
  <2>2. CASE f \notin DOMAIN flows
    BY <1>1, <1>2, <1>6, <2>2 DEF FlowTyped
  <2>3. QED  BY <2>1, <2>2
<1>7. UNCHANGED <<workspace, form, fetches, blind>>
  BY DEF SubmitDraft
<1>8. QED  BY <1>2, <1>4, <1>5, <1>6, <1>7 DEF Typed, workspace

(* One flow that goes on, while no project goes away.                            *)
LEMMA FlowsTypedBy ==
  ASSUME Typed, NEW f \in DOMAIN flows, NEW w \in Flow, FlowBecomes(f, w),
         NEW ch, \A p \in Project : chain[p] # Absent => ch[p] # Absent, FlowTyped(ch, w)
  PROVE  flows' \in Seq(Flow) /\ \A g \in DOMAIN flows' : FlowTyped(ch, flows'[g])
<1>1. ASSUME NEW g \in DOMAIN flows  PROVE FlowTyped(ch, flows'[g])
  <2>1. CASE g = f
    BY <2>1 DEF FlowBecomes
  <2>2. CASE g # f
    <3>1. flows'[g] = flows[g] /\ FlowTyped(chain, flows[g]) /\ flows[g] \in Flow
      BY <2>2 DEF FlowBecomes, Typed
    <3>2. flows[g].to \in Project \union {None}
      BY <3>1, FlowParts
    <3>3. flows[g].at \in {"landed", "back"} => ch[flows[g].to] # Absent
      BY <3>1, <3>2 DEF FlowTyped
    <3>4. QED  BY <3>1, <3>3 DEF FlowTyped
  <2>3. QED  BY <2>1, <2>2
<1>2. QED  BY <1>1 DEF FlowBecomes

(* A file that is recorded.                                                      *)
LEMMA RecordedFacts ==
  ASSUME Typed, NEW f \in DOMAIN flows, flows[f].at \in {"send", "gone"}, Recorded(f)
  PROVE  /\ flows[f].to \in Project /\ flows[f].file \in File
         /\ chain[flows[f].to] = Absent <=> flows[f].kind = "create"
         /\ chain' \in [Project -> File \union {Absent}]
         /\ chain'[flows[f].to] = flows[f].file /\ chain'[flows[f].to] # Absent
         /\ \A p \in Project \ {flows[f].to} : chain'[p] = chain[p]
<1>1. FlowTyped(chain, flows[f]) /\ flows[f] \in Flow
  BY DEF Typed
<1>2. flows[f].to \in Project /\ flows[f].file \in File
  BY <1>1, FlowParts DEF FlowTyped
<1>3. QED  BY <1>2, SomethingIsHeld DEF Recorded, Typed

(* What a flow puts back of the project.                                         *)
LEMMA PutBackTyped ==
  ASSUME Typed, NEW p \in Project, chain[p] # Absent, NEW file \in File
  PROVE  /\ WithConfig(WithInfo(held, p, chain[p]), ConfigOf(file)) \in Holding
         /\ WithInfo(held, p, chain[p]) \in Holding
<1>1. WithInfo(held, p, chain[p]) \in Holding
  BY ChainHasFiles, InfoHeld DEF Typed
<1>2. QED  BY <1>1, ConfigHeld, ConfigsAreTyped

LEMMA LandsTyped ==
  ASSUME Typed, NEW f \in DOMAIN flows, Lands(f) \/ GoneLands(f)
  PROVE  Typed'
<1>1. flows[f].at \in {"send", "gone"} /\ Recorded(f)
  BY DEF Lands, GoneLands
<1>2. /\ chain' \in [Project -> File \union {Absent}]
      /\ \A p \in Project : chain[p] # Absent => chain'[p] # Absent
      /\ flows[f].to \in Project /\ flows[f].file \in File /\ chain'[flows[f].to] # Absent
  BY <1>1, RecordedFacts
<1>3. flows' \in Seq(Flow) /\ \A g \in DOMAIN flows' : FlowTyped(chain', flows'[g])
  <2>1. CASE Lands(f)
    <3>1. PICK w \in Flow : /\ FlowBecomes(f, w) /\ w.at = "landed"
                            /\ w.file = flows[f].file /\ w.to = flows[f].to
      BY <2>1, GotoFacts DEF Lands
    <3>2. FlowTyped(chain', w)
      BY <1>2, <3>1, SomethingIsHeld DEF FlowTyped
    <3>3. QED  BY <1>2, <3>1, <3>2, FlowsTypedBy
  <2>2. CASE GoneLands(f)
    <3>1. PICK w \in Flow : FlowBecomes(f, w) /\ w.at = "failed"
      BY <2>2, OverFacts DEF GoneLands
    <3>2. FlowTyped(chain', w)
      BY <3>1 DEF FlowTyped
    <3>3. QED  BY <1>2, <3>1, <3>2, FlowsTypedBy
  <2>3. QED  BY <2>1, <2>2
<1>4. UNCHANGED <<held, page, reads, raced, form, fetches, draft, blind>>
  BY DEF Lands, GoneLands
<1>5. QED  BY <1>2, <1>3, <1>4 DEF Typed

LEMMA FlowStepTyped ==
  ASSUME Typed, NEW f \in DOMAIN flows, FlowStep(f)
  PROVE  Typed'
<1>1. /\ form \in PageForm /\ FormTyped(form) /\ held \in Holding /\ raced \in BOOLEAN
      /\ page \in Where /\ flows[f] \in Flow /\ FlowTyped(chain, flows[f])
  BY DEF Typed, FormTyped
<1>2. flows[f].file \in File \union {None} /\ flows[f].to \in Project \union {None}
  BY <1>1, FlowParts
<1>3. CASE Sign(f)
  <2>1. PICK w \in Flow : /\ FlowBecomes(f, w) /\ w.at = "send" /\ w.file = flows[f].file
                          /\ w.to # None
    BY <1>3, SignFacts
  <2>2. FlowTyped(chain, w)
    BY <1>1, <1>3, <2>1 DEF FlowTyped, Sign
  <2>3. flows' \in Seq(Flow) /\ \A g \in DOMAIN flows' : FlowTyped(chain, flows'[g])
    BY <2>1, <2>2, FlowsTypedBy
  <2>4. QED  BY <1>3, <2>3 DEF Sign, workspace, Typed
<1>4. CASE Lands(f) \/ GoneLands(f)
  BY <1>4, LandsTyped
<1>5. CASE FlowFails(f)
  <2>1. PICK w \in Flow : FlowBecomes(f, w) /\ w.at = "failed"
    BY <1>5, OverFacts DEF FlowFails
  <2>2. FlowTyped(chain, w)
    BY <2>1 DEF FlowTyped
  <2>3. flows' \in Seq(Flow) /\ \A g \in DOMAIN flows' : FlowTyped(chain, flows'[g])
    BY <2>1, <2>2, FlowsTypedBy
  <2>4. FormTyped(form') /\ form'.shown = form.shown /\ form'.open = form.open
    BY <1>1, <1>5 DEF FlowFails, FormTyped, PageForm
  <2>5. QED  BY <1>5, <2>3, <2>4 DEF FlowFails, workspace, Typed
<1>6. CASE Updated(f)
  <2>1. PICK w \in Flow : FlowBecomes(f, w) /\ w.at = "done"
    BY <1>6, OverFacts DEF Updated
  <2>2. FlowTyped(chain, w)
    BY <2>1 DEF FlowTyped
  <2>3. flows' \in Seq(Flow) /\ \A g \in DOMAIN flows' : FlowTyped(chain, flows'[g])
    BY <2>1, <2>2, FlowsTypedBy
  <2>4. flows[f].file \in File
    BY <1>1, <1>2, <1>6 DEF Updated, FlowTyped
  <2>5. held' \in Holding
    <3>1. CASE held' = held
      BY <1>1, <3>1
    <3>2. CASE /\ held.id # None /\ chain[held.id] # Absent
               /\ held' = WithConfig(WithInfo(held, held.id, chain[held.id]), ConfigOf(flows[f].file))
      <4>1. held.id \in Project
        BY <1>1, <3>2 DEF Holding
      <4>2. QED  BY <2>4, <3>2, <4>1, PutBackTyped
    <3>3. QED  BY <1>6, <3>1, <3>2 DEF Updated
  <2>6. page' = page /\ Refill
    BY <1>6 DEF Updated
  <2>7. /\ FormTyped(form') /\ fetches' \subseteq File
        /\ page'.on = None => ~form'.shown /\ ~form'.open /\ fetches' = {}
    BY <1>1, <2>5, <2>6, RefillTyped
  <2>8. UNCHANGED <<chain, page, reads, draft, blind>> /\ raced' \in BOOLEAN
    BY <1>1, <1>6 DEF Updated
  <2>9. QED  BY <2>3, <2>5, <2>7, <2>8 DEF Typed
<1>7. CASE Registered(f)
  <2>1. flows[f].file \in File /\ flows[f].to \in Project /\ chain[flows[f].to] # Absent
    BY <1>1, <1>2, <1>7 DEF Registered, FlowTyped
  <2>2. PICK w \in Flow : /\ FlowBecomes(f, w) /\ w.at = "back" /\ w.to = flows[f].to
    BY <1>7, GotoFacts DEF Registered
  <2>3. FlowTyped(chain, w)
    BY <2>1, <2>2, SomethingIsHeld DEF FlowTyped
  <2>4. flows' \in Seq(Flow) /\ \A g \in DOMAIN flows' : FlowTyped(chain, flows'[g])
    BY <2>2, <2>3, FlowsTypedBy
  <2>5. held' \in Holding
    <3>1. chain[flows[f].to] \in File
      BY <2>1, ChainHasFiles
    <3>2. QED  BY <1>1, <1>7, <2>1, <3>1, PutBackTyped DEF Registered
  <2>6. page' = page /\ Refill
    BY <1>7 DEF Registered
  <2>7. /\ FormTyped(form') /\ fetches' \subseteq File
        /\ page'.on = None => ~form'.shown /\ ~form'.open /\ fetches' = {}
    BY <1>1, <2>5, <2>6, RefillTyped
  <2>8. UNCHANGED <<chain, page, reads, blind>> /\ raced' \in BOOLEAN
    BY <1>1, <1>7 DEF Registered
  <2>9. draft' \in {draft, NoDraft}
    BY <1>7 DEF Registered
  <2>10. draft' \in Draft /\ Named(draft')
    BY <2>9, NoDraftTyped DEF Typed, Named
  <2>11. QED  BY <2>4, <2>5, <2>7, <2>8, <2>10 DEF Typed
<1>8. CASE EnterRegistered(f)
  <2> DEFINE busy == \E g \in DOMAIN flows \ {f} : Busy(g)
  <2>1. PICK w \in Flow : FlowBecomes(f, w) /\ w.at = "done"
    BY <1>8, OverFacts DEF EnterRegistered
  <2>2. FlowTyped(chain, w)
    BY <2>1 DEF FlowTyped
  <2>3. flows' \in Seq(Flow) /\ \A g \in DOMAIN flows' : FlowTyped(chain, flows'[g])
    BY <2>1, <2>2, FlowsTypedBy
  <2>4. flows[f].to \in Project
    BY <1>1, <1>2, <1>8 DEF EnterRegistered, FlowTyped
  <2>5. Enter(flows[f].to, FALSE, busy) /\ busy \in BOOLEAN
    BY <1>8 DEF EnterRegistered
  <2> HIDE DEF busy
  <2>6. /\ held' \in Holding /\ page' \in Where /\ page'.on = flows[f].to
        /\ reads' \subseteq Visit /\ (\A s \in reads' : s.stage # "project" => s.file # None)
        /\ raced' \in BOOLEAN
    BY <2>4, <2>5, EnterTyped
  <2>7. FormTyped(form') /\ fetches' = {}
    <3>1. page.loaded \in BOOLEAN
      BY <1>1 DEF Where
    <3>2. form' = FilledIn(NewForm, held', page.loaded)
      BY <1>8 DEF EnterRegistered
    <3>3. QED  BY <1>8, <2>6, <3>1, <3>2, NewFormTyped, FilledInFacts DEF EnterRegistered
  <2>8. draft' \in Draft /\ Named(draft')
    BY <1>8, NoDraftTyped DEF EnterRegistered, Named
  <2>9. UNCHANGED <<chain, blind>>
    BY <1>8 DEF EnterRegistered
  <2>10. page'.on # None
    BY <2>4, <2>6, SomethingIsHeld
  <2>11. QED  BY <2>3, <2>6, <2>7, <2>8, <2>9, <2>10 DEF Typed
<1>9. QED  BY <1>3, <1>4, <1>5, <1>6, <1>7, <1>8 DEF FlowStep

(* A load of the site: what has not been sent is over.                           *)
LEMMA LoadFacts ==
  ASSUME Typed, LoadSite
  PROVE  /\ held' = Nothing /\ page' = Home /\ reads' = {} /\ fetches' = {}
         /\ form' = NewForm /\ draft' = NoDraft
         /\ UNCHANGED <<chain, raced, blind>>
         /\ flows' \in Seq(Flow) /\ DOMAIN flows' = DOMAIN flows
         /\ \A f \in DOMAIN flows :
              /\ flows'[f].kind = flows[f].kind /\ flows'[f].wrong = flows[f].wrong
              /\ flows'[f].file = flows[f].file /\ flows'[f].to = flows[f].to
              /\ \/ flows'[f].at = "failed"
                 \/ flows'[f].at = "gone" /\ flows[f].at \in {"send", "gone"}
<1> DEFINE at(f) == IF flows[f].at \in {"send", "gone"} THEN "gone" ELSE "failed"
           w(f)  == [flows[f] EXCEPT !.at = at(f)]
<1>1. flows \in Seq(Flow)
  BY DEF Typed
<1>2. \A f \in DOMAIN flows : flows[f] \in Flow
  BY <1>1
<1>3. \A f \in DOMAIN flows : /\ at(f) \in {"gone", "failed"}
                              /\ at(f) = "gone" => flows[f].at \in {"send", "gone"}
  OBVIOUS
<1>4. flows' = [f \in DOMAIN flows |-> w(f)]
  BY <1>2 DEF LoadSite
<1> HIDE DEF at
<1>5. ASSUME NEW f \in DOMAIN flows
      PROVE  /\ w(f) \in Flow /\ w(f).at = at(f) /\ w(f).kind = flows[f].kind
             /\ w(f).wrong = flows[f].wrong /\ w(f).file = flows[f].file /\ w(f).to = flows[f].to
  BY <1>2, <1>3 DEF Flow
<1> HIDE DEF w
<1>6. flows' \in Seq(Flow) /\ DOMAIN flows' = DOMAIN flows
  <2>1. DOMAIN flows = 1 .. Len(flows) /\ Len(flows) \in Nat
    BY <1>1
  <2>2. QED  BY <1>4, <1>5, <2>1
<1>7. QED  BY <1>3, <1>4, <1>5, <1>6 DEF LoadSite, Reload

LEMMA LoadTyped ==
  ASSUME Typed, LoadSite
  PROVE  Typed'
<1>1. \A f \in DOMAIN flows' : FlowTyped(chain, flows'[f])
  BY LoadFacts DEF Typed, FlowTyped
<1>2. /\ held' \in Holding /\ page' \in Where /\ page'.on = None
      /\ FormTyped(form') /\ ~form'.shown /\ ~form'.open /\ fetches' = {}
  <2>1. held' \in Holding /\ page' \in Where
    BY LoadFacts, NothingHeld
  <2>2. page'.on = None
    BY LoadFacts DEF Home
  <2>3. FormTyped(form') /\ ~form'.shown /\ ~form'.open /\ fetches' = {}
    BY LoadFacts, NewFormTyped
  <2>4. QED  BY <2>1, <2>2, <2>3
<1>3. draft' \in Draft /\ Named(draft')
  BY LoadFacts, NoDraftTyped DEF Named
<1>4. QED  BY <1>1, <1>2, <1>3, LoadFacts DEF Typed

LEMMA EnterPageTyped ==
  ASSUME Typed, NEW p \in Project, EnterPage(p)
  PROVE  Typed'
<1> DEFINE busy == \E f \in DOMAIN flows : Busy(f)
<1>1. PICK forgets \in BOOLEAN : Enter(p, forgets, busy)
  BY DEF EnterPage
<1>2. busy \in BOOLEAN
  OBVIOUS
<1> HIDE DEF busy
<1>3. /\ held' \in Holding /\ page' \in Where /\ page'.on = p /\ page'.on # None
      /\ reads' \subseteq Visit /\ (\A s \in reads' : s.stage # "project" => s.file # None)
      /\ raced' \in BOOLEAN
  BY <1>1, <1>2, EnterTyped, SomethingIsHeld
<1>4. FormTyped(form')
  <2>1. page.loaded \in BOOLEAN /\ form' = FilledIn(NewForm, held', page.loaded)
    BY DEF EnterPage, Typed, Where
  <2>2. QED  BY <1>3, <2>1, NewFormTyped, FilledInFacts
<1>5. draft' \in Draft /\ Named(draft')
  BY NoDraftTyped DEF EnterPage, Named
<1>6. UNCHANGED <<chain, flows, blind>> /\ fetches' = {}
  BY DEF EnterPage
<1>7. QED  BY <1>3, <1>4, <1>5, <1>6 DEF Typed

LEMMA ReadTyped ==
  ASSUME Typed, NEW r \in reads, Answered(r) \/ FileAnswered(r)
  PROVE  Typed'
<1>1. /\ UNCHANGED <<chain, raced>> /\ held' \in Holding
      /\ page' \in Where /\ page'.on = page.on
      /\ reads' \subseteq Visit /\ \A s \in reads' : s.stage # "project" => s.file # None
  BY AnswersTyped DEF Answered, FileAnswered
<1>2. CASE Answered(r)
  BY <1>1, <1>2 DEF Answered, forms, Typed
<1>3. CASE FileAnswered(r)
  <2>1. /\ FormTyped(form') /\ fetches' \subseteq File
        /\ page'.on = None => ~form'.shown /\ ~form'.open /\ fetches' = {}
    BY <1>1, <1>3, RefillTyped DEF FileAnswered
  <2>2. QED  BY <1>1, <1>3, <2>1 DEF FileAnswered, Typed
<1>4. QED  BY <1>2, <1>3

LEMMA ClickCardTyped ==
  ASSUME Typed, NEW p \in Project, Click(p)
  PROVE  Typed'
<1>1. ClickCard(p) /\ UNCHANGED forms
  BY DEF Click
<1>2. UNCHANGED <<chain, page>>
  BY <1>1 DEF ClickCard
<1>3. QED  BY <1>1, <1>2, ClickTyped DEF forms, Typed

(* Every step is one of these.                                                   *)
LEMMA StepCases ==
  ASSUME [Next]_vars
  PROVE  \/ \E p \in Project : Click(p) \/ EnterPage(p)
         \/ \E r \in reads : Answered(r) \/ FileAnswered(r)
         \/ LoadSite
         \/ FormMove \/ SubmitUpdate
         \/ DraftMove \/ SubmitDraft
         \/ \E f \in DOMAIN flows : FlowStep(f)
         \/ UNCHANGED vars
BY DEF Next, ReadAnswered, PageLost, FormStep, FormMove, DraftStep, DraftMove

LEMMA StepTyped ==
  Typed /\ DraftOK(draft) /\ [Next]_vars => Typed' /\ DraftOK(draft')
<1> SUFFICES ASSUME Typed, DraftOK(draft), [Next]_vars  PROVE Typed' /\ DraftOK(draft')
  OBVIOUS
<1>1. Typed'
  <2>1. UNCHANGED vars => Typed'
    BY DEF vars, workspace, forms, Typed
  <2>2. QED
    BY <2>1, StepCases, EnterPageTyped, ClickCardTyped, ReadTyped, LoadTyped, FormMoveTyped,
       SubmitUpdateTyped, DraftMoveTyped, SubmitDraftTyped, FlowStepTyped
<1>2. DraftOK(draft')
  <2>1. CASE DraftMove \/ SubmitDraft
    BY <2>1, DraftMoveTyped, SubmitDraftTyped
  <2>2. CASE draft' \in {draft, NoDraft}
    BY <2>2, NoDraftTyped DEF DraftOK
  <2>3. CASE \E p \in Project : Click(p) \/ EnterPage(p)
    BY <2>2, <2>3 DEF Click, EnterPage, forms
  <2>4. CASE \E r \in reads : Answered(r) \/ FileAnswered(r)
    BY <2>2, <2>4 DEF Answered, FileAnswered, forms
  <2>5. CASE LoadSite
    BY <2>2, <2>5 DEF LoadSite
  <2>6. CASE FormMove \/ SubmitUpdate
    BY <2>2, <2>6 DEF FormMove, SubmitUpdate, OpenForm, WriteReadme, Next12, BackTo12, CloseForm,
                      Fetched, Write
  <2>7. CASE \E f \in DOMAIN flows : FlowStep(f)
    BY <2>2, <2>7 DEF FlowStep, Sign, Lands, FlowFails, Updated, Registered, EnterRegistered,
                      GoneLands
  <2>8. CASE UNCHANGED vars
    BY <2>2, <2>8 DEF vars, forms
  <2>9. QED  BY <2>1, <2>3, <2>4, <2>5, <2>6, <2>7, <2>8, StepCases
<1>3. QED  BY <1>1, <1>2

LEMMA InitTyped == Init => Typed /\ DraftOK(draft)
<1> SUFFICES ASSUME Init  PROVE Typed /\ DraftOK(draft)
  OBVIOUS
<1>1. chain \in [Project -> File \union {Absent}]
  BY FoundingsAssumption DEF Init, WorkspaceInit
<1>2. draft \in Draft /\ Named(draft) /\ DraftOK(draft)
  BY NoDraftTyped DEF Init, Named, DraftOK
<1>3. held \in Holding /\ page \in Where /\ FormTyped(form) /\ ~form.shown /\ ~form.open
  BY NothingHeld, NewFormTyped DEF Init, WorkspaceInit
<1>4. flows \in Seq(Flow) /\ DOMAIN flows = {}
  BY DEF Init
<1>5. reads = {} /\ raced = FALSE /\ fetches = {} /\ blind = {}
  BY DEF Init, WorkspaceInit
<1>6. QED  BY <1>1, <1>2, <1>3, <1>4, <1>5 DEF Typed

-------------------------------------------------------------------------------
(* What stays right while the contract, and what was not read, move on           *)

(* A contract that keeps the projects, and of them what no form shows.           *)
Keeps(ch, bl, ch2) ==
  \A p \in Project : ch[p] # Absent =>
    /\ ch2[p] # Absent
    /\ "type" \notin bl => TypeRead(ch2[p]) = TypeRead(ch[p])
    /\ "keys" \notin bl => Written(ch2[p].extra) = Written(ch[p].extra)

LEMMA SameKeeps == \A ch, bl : Keeps(ch, bl, ch)
BY DEF Keeps

LEMMA OwnStays ==
  ASSUME NEW bl, NEW bl2, bl \subseteq bl2, NEW file, NEW p, Own(bl, file, p)
  PROVE  Own(bl2, file, p)
BY DEF Own

LEMMA LikeStays ==
  ASSUME NEW ch, NEW ch2, NEW bl, NEW bl2, Keeps(ch, bl, ch2), bl \subseteq bl2,
         NEW p \in Project, NEW file
  PROVE  /\ Like(ch, bl, file, p) => Like(ch2, bl2, file, p)
         /\ Fits(ch, bl, file, p) => Fits(ch2, bl2, file, p)
<1>1. Like(ch, bl, file, p) => Like(ch2, bl2, file, p)
  BY OwnStays DEF Like, Keeps
<1>2. QED  BY <1>1 DEF Fits

LEMMA HeldStays ==
  ASSUME NEW ch, NEW ch2, NEW bl, NEW bl2, Keeps(ch, bl, ch2), bl \subseteq bl2,
         NEW p \in Project, NEW h, HeldOK(ch, bl, h, p)
  PROVE  HeldOK(ch2, bl2, h, p)
<1>1. InfoOK(ch2, bl2, h, p)
  BY LikeStays DEF HeldOK, InfoOK
<1>2. ConfigOK(ch2, bl2, h.config, p)
  <2>1. ch[p] # Absent
    BY DEF HeldOK, InfoOK, Like
  <2>2. QED  BY <2>1 DEF HeldOK, ConfigOK, Keeps
<1>3. QED  BY <1>1, <1>2 DEF HeldOK

LEMMA PageStays ==
  ASSUME NEW ch, NEW ch2, NEW bl, NEW bl2, Keeps(ch, bl, ch2), bl \subseteq bl2, Typed,
         PageOK(ch, bl, held, page, reads, form, fetches)
  PROVE  PageOK(ch2, bl2, held, page, reads, form, fetches)
<1>1. ASSUME NEW r \in reads
      PROVE  VisitOK(ch2, bl2, held, page, form, fetches, r)
  <2>1. VisitOK(ch, bl, held, page, form, fetches, r) /\ r.of \in Project
    BY VisitTyped DEF PageOK, Typed
  <2>2. QED  BY <2>1, LikeStays DEF VisitOK, InfoOK
<1>2. ASSUME reads = {}, page.on # None
      PROVE  Settled(ch2, bl2, held, form, fetches, page.on)
  <2>1. page.on \in Project
    BY <1>2 DEF Typed, Where
  <2>2. Settled(ch, bl, held, form, fetches, page.on)
    BY <1>2 DEF PageOK
  <2>3. HeldOK(ch2, bl2, held, page.on)
    BY <2>1, <2>2, HeldStays DEF Settled
  <2>4. FilesOK(ch2, bl2, form, fetches, page.on)
    BY <2>1, <2>2, LikeStays DEF Settled, FilesOK
  <2>5. QED  BY <2>2, <2>3, <2>4 DEF Settled
<1>3. QED  BY <1>1, <1>2 DEF PageOK

LEMMA FlowStays ==
  ASSUME NEW ch, NEW ch2, NEW bl, NEW bl2, Keeps(ch, bl, ch2), bl \subseteq bl2,
         NEW on \in Project \union {None}, NEW rs, NEW w \in Flow,
         w.at \in {"send", "gone", "landed"} => w.to # None,
         FlowOK(ch, bl, on, rs, w)
  PROVE  FlowOK(ch2, bl2, on, rs, w)
<1>1. CASE w.kind = "create"
  BY <1>1, OwnStays DEF FlowOK
<1>2. CASE w.kind # "create"
  <2>1. w.at = "build" => on \in Project
    BY <1>2 DEF FlowOK
  <2>2. w.at \in {"send", "gone", "landed"} => w.to \in Project
    BY FlowParts
  <2>3. w.at = "build" => Fits(ch2, bl2, w.file, on)
    BY <1>2, <2>1, LikeStays DEF FlowOK
  <2>4. w.at \in {"send", "gone", "landed"} => Fits(ch2, bl2, w.file, w.to)
    BY <1>2, <2>2, LikeStays DEF FlowOK
  <2>5. QED  BY <1>2, <2>3, <2>4 DEF FlowOK
<1>3. QED  BY <1>1, <1>2

LEMMA FlowsStay ==
  ASSUME NEW ch2, NEW bl2, Keeps(chain, blind, ch2), blind \subseteq bl2, Typed,
         FlowsOK(chain, blind, page.on, reads, flows)
  PROVE  FlowsOK(ch2, bl2, page.on, reads, flows)
<1>1. ASSUME NEW f \in DOMAIN flows  PROVE FlowOK(ch2, bl2, page.on, reads, flows[f])
  <2>1. flows[f] \in Flow /\ FlowTyped(chain, flows[f]) /\ page.on \in Project \union {None}
    BY DEF Typed, Where
  <2>2. QED  BY <2>1, FlowStays DEF FlowsOK, FlowTyped
<1>2. QED  BY <1>1 DEF FlowsOK

(* One flow that goes on, or one more.                                           *)
LEMMA FlowsGoOn ==
  ASSUME NEW f \in DOMAIN flows, NEW w, FlowBecomes(f, w), NEW ch, NEW bl, NEW on, NEW rs,
         FlowOK(ch, bl, on, rs, w), \A g \in DOMAIN flows \ {f} : FlowOK(ch, bl, on, rs, flows[g])
  PROVE  FlowsOK(ch, bl, on, rs, flows')
BY DEF FlowsOK, FlowBecomes

LEMMA FlowsGrow ==
  ASSUME Typed, NEW w \in Flow, Start(w), NEW ch, NEW bl, NEW on, NEW rs,
         FlowOK(ch, bl, on, rs, w), FlowsOK(ch, bl, on, rs, flows)
  PROVE  FlowsOK(ch, bl, on, rs, flows')
BY StartFacts DEF FlowsOK

(* While a page, or a card, is read nothing waits to be signed that changes the  *)
(* project, so it does not matter what becomes of the page.                      *)
LEMMA FlowsElsewhere ==
  ASSUME FlowsOK(chain, blind, page.on, reads, flows), page.on = None \/ reads # {}, NEW on, NEW rs
  PROVE  FlowsOK(chain, blind, on, rs, flows)
BY DEF FlowsOK, FlowOK

(* Flows that are over.                                                          *)
LEMMA OverIsOK ==
  ASSUME NEW ch, NEW bl, NEW on, NEW rs, NEW on2, NEW rs2, NEW w, NEW v,
         FlowOK(ch, bl, on, rs, w), v.kind = w.kind, v.wrong = w.wrong,
         v.at \in {"failed", "done"}
  PROVE  FlowOK(ch, bl, on2, rs2, v)
BY DEF FlowOK

-------------------------------------------------------------------------------
(* What is done in the forms *)

(* Somebody who can do anything in the form of a page has it before him with all *)
(* its reads answered.                                                           *)
LEMMA IdlePage ==
  ASSUME Typed, PageOK(chain, blind, held, page, reads, form, fetches),
         form.open \/ fetches # {} \/ (form.shown /\ reads = {})
  PROVE  /\ reads = {} /\ page.on # None /\ page.on \in Project /\ page.loaded
         /\ Settled(chain, blind, held, form, fetches, page.on)
<1>1. page.on # None /\ page.on \in Project
  BY DEF Typed, Where
<1>2. reads = {}
  <2>1. ASSUME NEW r \in reads  PROVE FALSE
    <3>1. VisitOK(chain, blind, held, page, form, fetches, r) /\ r.via \in {"card", "page"}
      BY VisitTyped DEF PageOK, Typed
    <3>2. QED  BY <1>1, <2>1, <3>1 DEF VisitOK, Fresh
  <2>2. QED  BY <2>1
<1>3. QED  BY <1>1, <1>2 DEF PageOK

(* On such a page only what was checked can become wrong.                        *)
LEMMA FormMovePage ==
  ASSUME Typed, FormMove, ~raced', PageOK(chain, blind, held, page, reads, form, fetches)
  PROVE  PageOK(chain, blind, held, page, reads, form', fetches')
<1>1. reads = {} /\ page.on # None /\ page.on \in Project /\ page.loaded
      /\ Settled(chain, blind, held, form, fetches, page.on)
  <2>1. OpenForm => form.shown /\ reads = {}
    BY DEF OpenForm
  <2>2. WriteReadme \/ Next12 \/ BackTo12 \/ CloseForm \/ (\E part \in Part : Write(part)) => form.open
    BY DEF WriteReadme, Next12, BackTo12, CloseForm, Step, Write
  <2>3. (\E file \in fetches : Fetched(file)) => fetches # {}
    OBVIOUS
  <2>4. form.open \/ fetches # {} \/ (form.shown /\ reads = {})
    BY <2>1, <2>2, <2>3 DEF FormMove
  <2>5. QED  BY <2>4, IdlePage
<1>2. /\ form \in PageForm /\ form.step \in 0 .. 3 /\ form.wrong \in SUBSET Part
  BY DEF Typed, FormTyped, PageForm
<1>3. /\ HeldOK(chain, blind, held, page.on) /\ ShownOK(form, held, page.on)
      /\ CheckedOK(form, Software(held)) /\ FilesOK(chain, blind, form, fetches, page.on)
  BY <1>1 DEF Settled
<1>4. SUFFICES /\ ShownOK(form', held, page.on) /\ CheckedOK(form', Software(held))
               /\ FilesOK(chain, blind, form', fetches', page.on)
  BY <1>1, <1>3 DEF Settled, PageOK
<1>5. CASE OpenForm
  <2>1. /\ form'.step = form.step /\ form'.wrong = form.wrong /\ form'.base = form.base
        /\ form'.shown = form.shown /\ form'.maint = form.maint /\ form'.doc = form.doc
    BY <1>2, <1>5 DEF OpenForm, PageForm
  <2>2. \A file \in Asked(held) : Like(chain, blind, file, page.on)
    BY <1>3 DEF Asked, HeldOK, InfoOK
  <2>3. fetches' = fetches \union Asked(held)
    BY <1>5 DEF OpenForm
  <2>4. FilesOK(chain, blind, form', fetches', page.on)
    BY <1>3, <2>1, <2>2, <2>3 DEF FilesOK
  <2>5. QED  BY <1>3, <2>1, <2>4 DEF ShownOK, CheckedOK
<1>6. CASE WriteReadme
  <2>1. /\ form'.step = form.step /\ form'.wrong = form.wrong /\ form'.base = form.base
        /\ form'.shown = form.shown /\ form'.maint = form.maint /\ form'.doc = form.doc
        /\ fetches' = fetches
    BY <1>2, <1>6 DEF WriteReadme, PageForm
  <2>2. QED  BY <1>3, <2>1 DEF ShownOK, CheckedOK, FilesOK
<1>7. CASE Next12
  <2>1. /\ form' = [form EXCEPT !.step = form.step + 1] /\ form.step \in {1, 2}
        /\ form.wrong \intersect Checked(form.step) = {} /\ fetches' = fetches
    BY <1>7 DEF Next12, Step
  <2>2. /\ form'.step = form.step + 1 /\ form'.wrong = form.wrong /\ form'.base = form.base
        /\ form'.shown = form.shown /\ form'.maint = form.maint /\ form'.doc = form.doc
    BY <1>2, <2>1 DEF PageForm
  <2>3. CASE form.step = 1
    <3>1. form.wrong \subseteq {"name"}
      BY <1>3, <2>1, <2>3 DEF CheckedOK, Checked
    <3>2. QED  BY <1>3, <2>1, <2>2, <2>3, <3>1 DEF ShownOK, CheckedOK, FilesOK
  <2>4. CASE form.step = 2
    <3>1. form.wrong = {}
      BY <1>3, <2>1, <2>4 DEF CheckedOK, Checked
    <3>2. QED  BY <1>3, <2>1, <2>2, <2>4, <3>1 DEF ShownOK, CheckedOK, FilesOK
  <2>5. QED  BY <2>1, <2>3, <2>4
<1>8. CASE BackTo12
  <2>1. /\ form' = [form EXCEPT !.step = form.step - 1] /\ form.step \in {2, 3} /\ fetches' = fetches
    BY <1>8 DEF BackTo12, Step
  <2>2. /\ form'.step = form.step - 1 /\ form'.wrong = form.wrong /\ form'.base = form.base
        /\ form'.shown = form.shown /\ form'.maint = form.maint /\ form'.doc = form.doc
    BY <1>2, <2>1 DEF PageForm
  <2>3. form.wrong \subseteq {"name"}
    BY <1>3, <2>1 DEF CheckedOK
  <2>4. form'.step = 1 \/ form'.step = 2
    BY <2>1, <2>2
  <2>5. CheckedOK(form', Software(held))
    BY <2>2, <2>3, <2>4 DEF CheckedOK
  <2>6. QED  BY <1>3, <2>1, <2>2, <2>5 DEF ShownOK, FilesOK
<1>9. CASE CloseForm
  <2>1. /\ form' = [form EXCEPT !.open = FALSE, !.step = 0, !.loading = FALSE]
        /\ fetches' = fetches
    BY <1>9 DEF CloseForm
  <2>2. /\ form'.step = 0 /\ form'.base = form.base
        /\ form'.shown = form.shown /\ form'.maint = form.maint /\ form'.doc = form.doc
    BY <1>2, <2>1 DEF PageForm
  <2>3. QED  BY <1>3, <2>1, <2>2 DEF ShownOK, CheckedOK, FilesOK
<1>10. ASSUME NEW file \in fetches, Fetched(file)
       PROVE  /\ ShownOK(form', held, page.on) /\ CheckedOK(form', Software(held))
              /\ FilesOK(chain, blind, form', fetches', page.on)
  <2>1. PICK got \in {file, None} :
          form' = [form EXCEPT !.base = got,
                               !.readme = IF ~Software(held) /\ got # None /\ file.readme
                                          THEN "kept" ELSE @]
    BY <1>10 DEF Fetched
  <2>2. /\ form'.step = form.step /\ form'.wrong = form.wrong /\ form'.base = got
        /\ form'.shown = form.shown /\ form'.maint = form.maint /\ form'.doc = form.doc
    BY <1>2, <2>1 DEF PageForm
  <2>3. fetches' \subseteq fetches
    BY <1>10 DEF Fetched
  <2>4. FilesOK(chain, blind, form', fetches', page.on)
    BY <1>3, <1>10, <2>1, <2>2, <2>3 DEF FilesOK
  <2>5. QED  BY <1>3, <2>2, <2>4 DEF ShownOK, CheckedOK
<1>11. ASSUME NEW part \in Part, Write(part)
       PROVE  /\ ShownOK(form', held, page.on) /\ CheckedOK(form', Software(held))
              /\ FilesOK(chain, blind, form', fetches', page.on)
  <2> DEFINE wrong == IF part \in form.wrong THEN form.wrong \ {part} ELSE form.wrong \union {part}
  <2>1. wrong \subseteq form.wrong \union {part}
    OBVIOUS
  <2>2. form' = [form EXCEPT !.wrong = wrong] /\ fetches' = fetches /\ part \in Checked(form.step)
    BY <1>11 DEF Write
  <2> HIDE DEF wrong
  <2>3. /\ form'.step = form.step /\ form'.wrong = wrong /\ form'.base = form.base
        /\ form'.shown = form.shown /\ form'.maint = form.maint /\ form'.doc = form.doc
    BY <1>2, <2>2 DEF PageForm
  <2>4. CheckedOK(form', Software(held))
    <3>1. CASE form.step = 1
      <4>1. part \in IF Software(held) THEN {"people", "link"} ELSE {"people"}
        BY <2>2, <3>1 DEF Checked
      <4>2. QED  BY <1>3, <2>1, <2>3, <3>1, <4>1 DEF CheckedOK
    <3>2. CASE form.step = 2
      <4>1. part = "name"
        BY <2>2, <3>2 DEF Checked
      <4>2. QED  BY <1>3, <2>1, <2>3, <3>2, <4>1 DEF CheckedOK
    <3>3. CASE form.step \notin {1, 2}
      BY <2>2, <3>3 DEF Checked
    <3>4. QED  BY <3>1, <3>2, <3>3
  <2>5. QED  BY <1>3, <2>2, <2>3, <2>4 DEF ShownOK, FilesOK
<1>12. QED
  BY <1>5, <1>6, <1>7, <1>8, <1>9, <1>10, <1>11 DEF FormMove

(* A change that is submitted from such a page fits the project: its type is that *)
(* of the file it starts from or, of an older or no file, the one that was read. *)
LEMMA SubmittedFits ==
  ASSUME Typed, NEW p \in Project, Settled(chain, blind, held, form, fetches, p), form.open,
         NEW base \in File \union {EmptyBase}, NEW readme \in BOOLEAN, NEW unread \in SUBSET Gap,
         NEW w \in Flow, Submits(base, readme, unread, w)
  PROVE  Fits(chain, blind \union unread, w.file, p)
<1> DEFINE m == w.file
           bl == blind \union unread
<1>1. /\ m \in File /\ m.type = TypeOf(base) /\ m.extra = Written(base.extra)
      /\ m.readme = (~Software(held) /\ readme) /\ m.doc = form.doc /\ m.maint = form.maint
  BY MergedIsFile DEF Submits
<1>2. /\ chain[p] # Absent /\ chain[p] \in File /\ TypeRead(chain[p]) \in Type
  <2>1. chain[p] # Absent
    BY DEF Settled, HeldOK, InfoOK, Like
  <2>2. QED  BY <2>1, ChainHasFiles, FileIsTyped
<1>3. held.config # None /\ held.config \in Config /\ held.config.type \in Type /\ Known(held)
  <2>1. held.config # None /\ held.info # None /\ held.id = p
    BY DEF Settled, HeldOK, InfoOK, ConfigOK
  <2>2. QED  BY <2>1, SomethingIsHeld DEF Typed, Holding, Config, Known
<1>4. /\ held.config.doc \in {p, None}
      /\ held.config.read /\ "documentation" \notin blind => held.config.doc = p
      /\ held.config.read /\ "type" \notin blind => held.config.type = TypeRead(chain[p])
      /\ ~held.config.read => held.config.type = "SOFTWARE"
  BY DEF Settled, HeldOK, ConfigOK
<1>5. NoConfig <=> ~held.config.read
  BY <1>3 DEF NoConfig
<1>6. \/ base = EmptyBase /\ base.type = None /\ "keys" \in bl /\ (NoConfig => "type" \in bl)
      \/ base \in File /\ Like(chain, blind, base, p)
  <2>1. CASE base = EmptyBase /\ "keys" \in unread /\ (NoConfig => "type" \in unread)
    BY <2>1 DEF EmptyBase
  <2>2. CASE base \in {form.base} \union fetches /\ base # None
    <3>1. Like(chain, blind, base, p)
      BY <2>2 DEF Settled, FilesOK
    <3>2. base \in File
      BY <2>2 DEF Typed, FormTyped, PageForm
    <3>3. QED  BY <3>1, <3>2
  <2>3. QED  BY <2>1, <2>2 DEF Submits
<1>7. /\ NoConfig => {"documentation", "readme"} \subseteq bl
      /\ "type" \in bl => "readme" \in bl
      /\ ~Software(held) /\ "readme" \notin bl => readme
  BY <1>3 DEF Submits, Typed
<1>8. Software(held) <=> held.config.type = "SOFTWARE"
  BY <1>3 DEF Software
<1>9. ~Software(held) <=> held.config.type = "GENERIC"
  BY <1>3, <1>8 DEF Type
<1>10. TypeOf(base) = IF base.type = None THEN held.config.type ELSE base.type
  BY <1>3 DEF TypeOf
<1>11. m.maint = p /\ m.doc = held.config.doc
  BY <1>1 DEF Settled, ShownOK
<1>12. "type" \notin bl => TypeRead(m) = TypeRead(chain[p])
  <2>1. SUFFICES ASSUME "type" \notin bl  PROVE TypeRead(m) = TypeRead(chain[p])
    OBVIOUS
  <2>2. "type" \notin blind
    BY <2>1
  <2>3. held.config.type # None
    BY <1>3, SomethingIsHeld
  <2>4. CASE base = EmptyBase /\ base.type = None /\ (NoConfig => "type" \in bl)
    <3>1. held.config.read
      BY <1>3, <1>5, <2>1, <2>4 DEF Config
    <3>2. QED  BY <1>1, <1>4, <1>10, <2>2, <2>3, <2>4, <3>1 DEF TypeRead
  <2>5. CASE base \in File /\ Like(chain, blind, base, p)
    <3>1. TypeRead(base) = TypeRead(chain[p])
      BY <2>2, <2>5 DEF Like
    <3>2. CASE base.type # None
      BY <1>1, <1>10, <3>1, <3>2 DEF TypeRead
    <3>3. CASE base.type = None
      <4>1. TypeRead(chain[p]) = "SOFTWARE"
        BY <3>1, <3>3 DEF TypeRead
      <4>2. held.config.type = "SOFTWARE"
        BY <1>4, <2>2, <4>1, <1>3 DEF Config
      <4>3. m.type = "SOFTWARE"
        BY <1>1, <1>10, <3>3, <4>2
      <4>4. "SOFTWARE" # None
        BY <2>3, <4>2
      <4>5. QED  BY <4>1, <4>3, <4>4 DEF TypeRead
    <3>4. QED  BY <3>2, <3>3
  <2>6. QED  BY <1>6, <2>4, <2>5
<1>13. "keys" \notin bl => Written(m.extra) = Written(chain[p].extra)
  BY <1>1, <1>6 DEF Like, Written
<1>14. "documentation" \notin bl => m.doc = p
  BY <1>4, <1>5, <1>7, <1>11
<1>15. "readme" \notin bl => held.config.read /\ "type" \notin bl
  BY <1>3, <1>5, <1>7 DEF Config
<1>16. "readme" \notin bl /\ m.readme => m.type = "GENERIC"
  <2>1. SUFFICES ASSUME "readme" \notin bl, m.readme  PROVE m.type = "GENERIC"
    OBVIOUS
  <2>2. held.config.type = "GENERIC"
    BY <1>1, <1>9, <2>1
  <2>3. TypeRead(m) = "GENERIC"
    BY <1>4, <1>12, <1>15, <2>1, <2>2
  <2>4. QED  BY <2>3 DEF TypeRead
<1>17. "readme" \notin bl /\ TypeRead(m) = "GENERIC" => m.readme
  <2>1. SUFFICES ASSUME "readme" \notin bl, TypeRead(m) = "GENERIC"  PROVE m.readme
    OBVIOUS
  <2>2. held.config.type = "GENERIC"
    BY <1>4, <1>12, <1>15, <2>1
  <2>3. QED  BY <1>1, <1>7, <1>9, <2>1, <2>2
<1>18. Own(bl, m, p)
  BY <1>4, <1>11, <1>14, <1>16 DEF Own
<1> HIDE DEF m, bl
<1>19. Fits(chain, bl, m, p)
  BY <1>2, <1>12, <1>13, <1>17, <1>18 DEF Fits, Like
<1>20. QED  BY <1>19 DEF m, bl

LEMMA SubmitUpdateCalm ==
  ASSUME Typed, SubmitUpdate, ~raced', Calm
  PROVE  Calm'
<1>1. form.open /\ form.step = 3
  BY DEF SubmitUpdate, Step
<1>2. reads = {} /\ page.on # None /\ page.on \in Project /\ page.loaded
      /\ Settled(chain, blind, held, form, fetches, page.on)
  BY <1>1, IdlePage DEF Calm
<1>3. PICK base \in File \union {EmptyBase}, readme \in BOOLEAN, unread \in SUBSET Gap, w \in Flow :
        Submits(base, readme, unread, w)
  BY SubmitUpdateFacts
<1>4. Fits(chain, blind \union unread, w.file, page.on)
  BY <1>1, <1>2, <1>3, SubmittedFits
<1>5. blind' = blind \union unread /\ Start(w) /\ w.kind = "update" /\ w.at = "build"
      /\ w.wrong = {}
  BY <1>1, <1>2, <1>3 DEF Submits, Settled, CheckedOK
<1>6. UNCHANGED <<chain, held, page, reads, fetches>>
  BY DEF SubmitUpdate
<1>7. /\ form'.step = form.step /\ form'.wrong = form.wrong /\ form'.base = form.base
      /\ form'.shown = form.shown /\ form'.maint = form.maint /\ form'.doc = form.doc
  BY DEF SubmitUpdate, Typed, FormTyped, PageForm
<1>8. ChainOK(chain, blind')
  BY <1>5, OwnStays DEF Calm, ChainOK
<1>9. PageOK(chain, blind', held, page, reads, form, fetches)
  BY <1>5, SameKeeps, PageStays DEF Calm
<1>10. PageOK(chain, blind', held, page, reads, form', fetches)
  <2>1. Settled(chain, blind', held, form', fetches, page.on)
    BY <1>2, <1>7, <1>9 DEF PageOK, Settled, ShownOK, CheckedOK, FilesOK
  <2>2. QED  BY <1>2, <2>1 DEF PageOK
<1>11. FlowsOK(chain, blind', page.on, reads, flows)
  BY <1>5, SameKeeps, FlowsStay DEF Calm
<1>12. FlowOK(chain, blind', page.on, reads, w)
  BY <1>2, <1>4, <1>5 DEF FlowOK
<1>13. FlowsOK(chain, blind', page.on, reads, flows')
  BY <1>5, <1>11, <1>12, FlowsGrow
<1>14. QED  BY <1>6, <1>8, <1>10, <1>13 DEF Calm

LEMMA SubmitDraftCalm ==
  ASSUME Typed, DraftOK(draft), SubmitDraft, Calm
  PROVE  Calm'
<1>1. PICK w \in Flow :
           /\ Start(w) /\ w.kind = "create" /\ w.at = "build" /\ w.wrong = draft.wrong
           /\ w.to = draft.name /\ w.to # None
           /\ w.file \in File /\ w.file.maint = w.to /\ w.file.doc = w.to
           /\ w.file.readme => w.file.type = "GENERIC"
  BY SubmitDraftFacts
<1>2. draft.step = 4
  BY DEF SubmitDraft, Typing
<1>3. FlowOK(chain, blind, page.on, reads, w)
  BY <1>1, <1>2 DEF FlowOK, Own, DraftOK
<1>4. FlowsOK(chain, blind, page.on, reads, flows')
  BY <1>1, <1>3, FlowsGrow DEF Calm
<1>5. UNCHANGED <<chain, held, page, reads, form, fetches, blind>>
  BY DEF SubmitDraft, workspace
<1>6. QED  BY <1>4, <1>5 DEF Calm

-------------------------------------------------------------------------------
(* Pages and their reads *)

LEMMA ClickCalm ==
  ASSUME Typed, NEW p \in Project, Click(p), ~raced', Calm
  PROVE  Calm'
<1>1. /\ ClickCard(p) /\ UNCHANGED <<form, fetches, flows, blind>>
      /\ page.on = None /\ UNCHANGED <<chain, page>>
  BY DEF Click, ClickCard, forms
<1>2. reads' = reads \union {NewRead(p, "card")} /\ reads = {}
  BY <1>1, ClickTyped
<1>3. NewRead(p, "card").via = "card"
  BY NewReadTyped
<1>4. \A r \in reads' : r = NewRead(p, "card")
  BY <1>2
<1>5. \A r \in reads' : VisitOK(chain, blind, held', page, form, fetches, r)
  BY <1>1, <1>3, <1>4 DEF VisitOK
<1>6. PageOK(chain, blind, held', page, reads', form, fetches)
  BY <1>1, <1>4, <1>5 DEF PageOK
<1>7. FlowsOK(chain, blind, page.on, reads', flows)
  BY <1>1, FlowsElsewhere DEF Calm
<1>8. QED  BY <1>1, <1>6, <1>7 DEF Calm

(* A page that is entered while nothing else goes on.                            *)
LEMMA EnteredPage ==
  ASSUME Typed, NEW p \in Project, NEW forgets \in BOOLEAN, NEW busy \in BOOLEAN,
         Enter(p, forgets, busy), ~raced', form' = FilledIn(NewForm, held', page.loaded),
         fetches' = {}
  PROVE  reads = {} /\ ~busy /\ PageOK(chain, blind, held', page', reads', form', fetches')
<1>1. /\ held' \in Holding /\ held'.id = p /\ page'.on = p
      /\ reads' = reads \union {NewRead(p, "page")} /\ reads = {} /\ ~busy
  BY EnterTyped
<1>2. page.loaded \in BOOLEAN
  BY DEF Typed, Where
<1>3. ~form'.open /\ form'.step = 1 /\ form'.base = None
  BY <1>1, <1>2, NewFormTyped, FilledInFacts
<1>4. Fresh(form', fetches')
  BY <1>3 DEF Fresh
<1>5. \A r \in reads' : r.stage = "project" /\ r.of = p /\ r.via = "page" /\ r = NewRead(p, "page")
  BY <1>1, NewReadTyped
<1>6. \A r \in reads' : VisitOK(chain, blind, held', page', form', fetches', r)
  BY <1>1, <1>4, <1>5 DEF VisitOK
<1>7. reads' # {}
  BY <1>1
<1>8. QED  BY <1>1, <1>5, <1>6, <1>7 DEF PageOK

LEMMA EnterPageCalm ==
  ASSUME Typed, NEW p \in Project, EnterPage(p), ~raced', Calm
  PROVE  Calm'
<1> DEFINE busy == \E f \in DOMAIN flows : Busy(f)
<1>1. PICK forgets \in BOOLEAN : Enter(p, forgets, busy)
  BY DEF EnterPage
<1>2. busy \in BOOLEAN /\ (~busy => \A f \in DOMAIN flows : flows[f].at \in {"failed", "done"})
  BY DEF Busy
<1> HIDE DEF busy
<1>3. ~busy /\ PageOK(chain, blind, held', page', reads', form', fetches')
  BY <1>1, <1>2, EnteredPage DEF EnterPage
<1>4. FlowsOK(chain, blind, page'.on, reads', flows)
  BY <1>2, <1>3, OverIsOK DEF Calm, FlowsOK
<1>5. UNCHANGED <<chain, flows, blind>>
  BY DEF EnterPage
<1>6. QED  BY <1>3, <1>4, <1>5 DEF Calm

LEMMA LoadCalm ==
  ASSUME Typed, LoadSite, Calm
  PROVE  Calm'
<1>1. /\ reads' = {} /\ page'.on = None /\ UNCHANGED <<chain, blind>>
  BY LoadFacts DEF Home
<1>2. PageOK(chain, blind, held', page', reads', form', fetches')
  BY <1>1 DEF PageOK
<1>3. ASSUME NEW f \in DOMAIN flows'  PROVE FlowOK(chain, blind, page'.on, reads', flows'[f])
  <2>1. /\ flows'[f].kind = flows[f].kind /\ flows'[f].wrong = flows[f].wrong
        /\ flows'[f].file = flows[f].file /\ flows'[f].to = flows[f].to
        /\ \/ flows'[f].at = "failed"
           \/ flows'[f].at = "gone" /\ flows[f].at \in {"send", "gone"}
        /\ FlowOK(chain, blind, page.on, reads, flows[f])
    BY <1>3, LoadFacts DEF Calm, FlowsOK
  <2>2. QED  BY <2>1 DEF FlowOK
<1>4. QED  BY <1>1, <1>2, <1>3 DEF Calm, FlowsOK

(* The reads of a card leave the page of the dashboard as it is.                 *)
LEMMA CardReadPage ==
  ASSUME Typed, NEW r \in reads, Answered(r) \/ FileAnswered(r), r.via = "card",
         PageOK(chain, blind, held, page, reads, form, fetches)
  PROVE  PageOK(chain, blind, held', page', reads', form', fetches')
<1>1. page.on = None /\ reads = {r} /\ r \in Visit
  BY DEF PageOK, VisitOK, Typed
<1>2. page'.on = None
  BY <1>1, AnswersTyped DEF Answered, FileAnswered
<1>3. \A q, s \in reads' : q.via = "card" /\ q = s
  <2>1. CASE ProjectRead(r)
    <3> DEFINE got == [r EXCEPT !.stage = "file", !.file = chain[r.of],
                                !.asks = IF r.via = "page" THEN held.id ELSE None]
    <3>1. got.via = "card"
      BY <1>1 DEF Visit
    <3>2. reads' = {got}
      BY <1>1, <2>1 DEF ProjectRead
    <3> HIDE DEF got
    <3>3. QED  BY <3>1, <3>2
  <2>2. CASE CardFileLost(r) \/ CardFileRead(r)
    <3> DEFINE got == [r EXCEPT !.stage = "commit", !.asks = held.id]
    <3>1. got.via = "card"
      BY <1>1 DEF Visit
    <3>2. reads' = {got}
      BY <1>1, <2>2 DEF CardFileLost, CardFileRead
    <3> HIDE DEF got
    <3>3. QED  BY <3>1, <3>2
  <2>3. CASE CardFails(r) \/ CardCommitRead(r) \/ PageFileRead(r)
    BY <1>1, <2>3 DEF CardFails, CardCommitRead, PageFileRead
  <2>4. QED  BY <2>1, <2>2, <2>3 DEF Answered, FileAnswered
<1>4. QED  BY <1>2, <1>3 DEF PageOK, VisitOK

(* The project of a page was read: its file is the present one.                  *)
LEMMA ProjectReadPage ==
  ASSUME Typed, NEW r \in reads, ProjectRead(r), UNCHANGED forms, r.via = "page",
         ChainOK(chain, blind), PageOK(chain, blind, held, page, reads, form, fetches)
  PROVE  PageOK(chain, blind, held', page', reads', form', fetches')
<1> DEFINE got == [r EXCEPT !.stage = "file", !.file = chain[r.of],
                            !.asks = IF r.via = "page" THEN held.id ELSE None]
<1>1. /\ r \in Visit /\ r.of \in Project /\ reads = {r} /\ held \in Holding
      /\ page.on = r.of /\ held.id = r.of /\ Fresh(form, fetches)
  BY VisitTyped DEF PageOK, VisitOK, Typed
<1>2. chain[r.of] # Absent /\ chain[r.of] \in File /\ Like(chain, blind, chain[r.of], r.of)
  BY <1>1, ChainHasFiles DEF ProjectRead, ChainOK, Like
<1>3. /\ got.via = "page" /\ got.of = r.of /\ got.stage = "file"
      /\ got.file = chain[r.of] /\ got.asks = r.of
  BY <1>1 DEF Visit
<1>4. reads' = {got}
  BY <1>1 DEF ProjectRead
<1> HIDE DEF got
<1>5. held' = WithInfo(held, r.of, chain[r.of]) /\ UNCHANGED <<page, form, fetches>>
  BY DEF ProjectRead, forms
<1>6. held'.id = r.of /\ InfoOK(chain, blind, held', r.of)
  <2>1. held'.info # None /\ held'.info.of = r.of /\ held'.info.file = chain[r.of] /\ held'.id = held.id
    BY <1>1, <1>2, <1>5, InfoHeld
  <2>2. QED  BY <1>1, <1>2, <2>1 DEF InfoOK
<1>7. VisitOK(chain, blind, held', page, form, fetches, got)
  BY <1>1, <1>2, <1>3, <1>6 DEF VisitOK
<1>8. QED  BY <1>4, <1>5, <1>7 DEF PageOK

(* Its file was read, or not: the page shows what was held with what the file    *)
(* says, and the form is filled in with that.                                    *)
LEMMA PageFileReadPage ==
  ASSUME Typed, NEW r \in reads, PageFileRead(r), Refill,
         PageOK(chain, blind, held, page, reads, form, fetches)
  PROVE  PageOK(chain, blind, held', page', reads', form', fetches')
<1>1. /\ r \in Visit /\ r.of \in Project /\ r.via = "page" /\ r.stage = "file" /\ reads = {r}
      /\ held \in Holding /\ r.file \in File
  BY VisitTyped DEF PageOK, Typed, PageFileRead
<1>2. /\ page.on = r.of /\ held.id = r.of /\ Fresh(form, fetches)
      /\ r.asks = r.of /\ Like(chain, blind, r.file, r.of) /\ InfoOK(chain, blind, held, r.of)
  BY <1>1 DEF PageOK, VisitOK
<1>3. PICK c \in {ConfigOf(r.file), DefaultConfig} :
        \E sha \in IF c.type = "SOFTWARE" THEN {r.asks, None} ELSE {None} :
          held' = WithSha(WithConfig(held, c), sha)
  BY DEF PageFileRead
<1>4. PICK sha \in {r.of, None} : held' = WithSha(WithConfig(held, c), sha)
  BY <1>2, <1>3
<1>5. c \in Config
  BY <1>1, <1>3, ConfigsAreTyped
<1>6. /\ held' \in Holding /\ held'.config = c /\ held'.id = held.id /\ held'.info = held.info
      /\ held'.sha = sha
  BY <1>1, <1>4, <1>5, ConfigHeld, ShaHeld
<1>7. ConfigOK(chain, blind, c, r.of)
  <2>1. CASE c = ConfigOf(r.file)
    <3>1. c.doc = r.file.doc /\ c.read /\ c.type = TypeRead(r.file)
      BY <2>1 DEF ConfigOf
    <3>2. QED  BY <1>2, <1>5, <3>1, SomethingIsHeld DEF ConfigOK, Like, Own
  <2>2. CASE c = DefaultConfig
    <3>1. c.doc = None /\ ~c.read /\ c.type = "SOFTWARE"
      BY <2>2 DEF DefaultConfig
    <3>2. QED  BY <1>5, <3>1, SomethingIsHeld DEF ConfigOK
  <2>3. QED  BY <1>3, <2>1, <2>2
<1>8. HeldOK(chain, blind, held', r.of)
  BY <1>2, <1>4, <1>6, <1>7 DEF HeldOK, InfoOK
<1>9. reads' = {} /\ page'.loaded /\ page'.on = r.of /\ r.of # None
  BY <1>1, <1>2, SomethingIsHeld DEF PageFileRead, Typed, Where
<1>10. Known(held') /\ held'.config # None
  BY <1>8, <1>9 DEF HeldOK, InfoOK, ConfigOK, Known
<1>11. form' = FilledIn(form, held', TRUE) /\ fetches' = {}
  BY <1>2, <1>9 DEF Refill, Fresh, FilledIn
<1>12. /\ form'.shown /\ form'.maint = r.of /\ form'.doc = held'.config.doc /\ form'.wrong = {}
       /\ form'.base = None
  <2>1. FormTyped(form)
    BY DEF Typed
  <2>2. /\ form'.shown /\ form'.maint = held'.info.of /\ form'.doc = held'.config.doc
        /\ form'.wrong = {} /\ form'.base = form.base
    BY <1>6, <1>10, <1>11, <2>1, FilledInFacts
  <2>3. QED  BY <1>2, <1>8, <2>2 DEF HeldOK, InfoOK, Fresh
<1>13. Settled(chain, blind, held', form', fetches', r.of)
  BY <1>8, <1>11, <1>12 DEF Settled, ShownOK, CheckedOK, FilesOK
<1>14. QED  BY <1>9, <1>13 DEF PageOK

LEMMA ReadCalm ==
  ASSUME Typed, NEW r \in reads, Answered(r) \/ FileAnswered(r), Calm
  PROVE  Calm'
<1>1. UNCHANGED <<chain, flows, blind>>
  BY AnswersTyped DEF Answered, FileAnswered, forms
<1>2. r.via \in {"card", "page"} /\ VisitOK(chain, blind, held, page, form, fetches, r)
  BY VisitTyped DEF Typed, Calm, PageOK
<1>3. PageOK(chain, blind, held', page', reads', form', fetches')
  <2>1. CASE r.via = "card"
    BY <2>1, CardReadPage DEF Calm
  <2>2. CASE r.via = "page"
    <3>1. r.stage # "commit"
      BY <1>2, <2>2 DEF VisitOK
    <3>2. (Answered(r) /\ ProjectRead(r)) \/ (FileAnswered(r) /\ PageFileRead(r))
      BY <2>2, <3>1 DEF Answered, FileAnswered, CardFails, CardFileLost, CardCommitRead,
                        CardFileRead
    <3>3. QED
      BY <2>2, <3>2, ProjectReadPage, PageFileReadPage DEF Calm, Answered, FileAnswered
  <2>3. QED  BY <1>2, <2>1, <2>2
<1>4. FlowsOK(chain, blind, page'.on, reads', flows)
  BY FlowsElsewhere DEF Calm
<1>5. QED  BY <1>1, <1>3, <1>4 DEF Calm

-------------------------------------------------------------------------------
(* Flows *)

(* A flow that goes on and leaves the page, and the contract, alone.             *)
LEMMA FlowOnly ==
  ASSUME Typed, NEW f \in DOMAIN flows, NEW w, FlowBecomes(f, w), Calm,
         FlowOK(chain, blind, page.on, reads, w)
  PROVE  FlowsOK(chain, blind, page.on, reads, flows')
BY FlowsGoOn DEF Calm, FlowsOK

(* A change is signed for the project that it was filled in for.                 *)
LEMMA SignCalm ==
  ASSUME Typed, NEW f \in DOMAIN flows, Sign(f), Calm
  PROVE  Calm'
<1>1. PICK w \in Flow : /\ FlowBecomes(f, w) /\ w.at = "send" /\ w.kind = flows[f].kind
                        /\ w.file = flows[f].file /\ w.wrong = flows[f].wrong
                        /\ w.to = IF flows[f].kind = "create" THEN flows[f].to ELSE held.id
  BY SignFacts
<1>2. flows[f].at = "build" /\ FlowOK(chain, blind, page.on, reads, flows[f])
  BY DEF Sign, Calm, FlowsOK
<1>3. FlowOK(chain, blind, page.on, reads, w)
  <2>1. CASE w.kind = "create"
    BY <1>1, <1>2, <2>1 DEF FlowOK
  <2>2. CASE w.kind # "create"
    <3>1. page.on # None /\ reads = {} /\ Fits(chain, blind, w.file, page.on) /\ w.wrong = {}
      BY <1>1, <1>2, <2>2 DEF FlowOK
    <3>2. w.to = page.on
      BY <1>1, <2>2, <3>1 DEF Calm, PageOK, Settled, HeldOK
    <3>3. QED  BY <1>1, <2>2, <3>1, <3>2 DEF FlowOK
  <2>3. QED  BY <2>1, <2>2
<1>4. FlowsOK(chain, blind, page.on, reads, flows')
  BY <1>1, <1>3, FlowOnly
<1>5. UNCHANGED <<chain, held, page, reads, form, fetches, blind>>
  BY DEF Sign, workspace
<1>6. QED  BY <1>4, <1>5 DEF Calm

(* What is recorded is of its project, and of an older one keeps what no form    *)
(* shows.                                                                        *)
LEMMA RecordedKeeps ==
  ASSUME Typed, NEW f \in DOMAIN flows, flows[f].at \in {"send", "gone"}, Recorded(f), Calm
  PROVE  /\ Keeps(chain, blind, chain') /\ ChainOK(chain', blind)
         /\ \A p \in Project : "readme" \notin blind /\ chain[p] # Absent /\ chain[p].readme
                                 => chain'[p].readme
<1> DEFINE to   == flows[f].to
           file == flows[f].file
<1>1. /\ to \in Project /\ file \in File
      /\ chain[to] = Absent <=> flows[f].kind = "create"
      /\ chain'[to] = file /\ chain'[to] # Absent
      /\ \A p \in Project \ {to} : chain'[p] = chain[p]
  BY RecordedFacts
<1>2. FlowOK(chain, blind, page.on, reads, flows[f])
  BY DEF Calm, FlowsOK
<1>3. Own(blind, file, to) /\ (chain[to] # Absent => Fits(chain, blind, file, to))
  BY <1>1, <1>2 DEF FlowOK, Fits, Like
<1>4. chain[to] # Absent => Own(blind, chain[to], to)
  BY <1>1 DEF Calm, ChainOK
<1> HIDE DEF to, file
<1>5. Keeps(chain, blind, chain')
  <2>1. ASSUME NEW p \in Project, chain[p] # Absent
        PROVE  /\ chain'[p] # Absent
               /\ "type" \notin blind => TypeRead(chain'[p]) = TypeRead(chain[p])
               /\ "keys" \notin blind => Written(chain'[p].extra) = Written(chain[p].extra)
    <3>1. CASE p = to
      BY <1>1, <1>3, <2>1, <3>1 DEF Fits, Like
    <3>2. CASE p # to
      BY <1>1, <2>1, <3>2
    <3>3. QED  BY <3>1, <3>2
  <2>2. QED  BY <2>1 DEF Keeps
<1>6. ChainOK(chain', blind)
  <2>1. ASSUME NEW p \in Project, chain'[p] # Absent  PROVE Own(blind, chain'[p], p)
    <3>1. CASE p = to
      BY <1>1, <1>3, <3>1
    <3>2. CASE p # to
      BY <1>1, <2>1, <3>2 DEF Calm, ChainOK
    <3>3. QED  BY <3>1, <3>2
  <2>2. QED  BY <2>1 DEF ChainOK
<1>7. ASSUME NEW p \in Project, "readme" \notin blind, chain[p] # Absent, chain[p].readme
      PROVE  chain'[p].readme
  <2>1. CASE p = to
    <3>1. chain[p].type = "GENERIC"
      BY <1>4, <1>7, <2>1 DEF Own
    <3>2. TypeRead(chain[p]) = "GENERIC"
      BY <3>1, SomethingIsHeld DEF TypeRead, Type
    <3>3. "type" \notin blind
      BY <1>7 DEF Typed
    <3>4. TypeRead(file) = "GENERIC"
      BY <1>3, <1>7, <2>1, <3>2, <3>3 DEF Fits, Like
    <3>5. QED  BY <1>1, <1>3, <1>7, <2>1, <3>4 DEF Fits
  <2>2. CASE p # to
    BY <1>1, <1>7, <2>2
  <2>3. QED  BY <2>1, <2>2
<1>8. QED  BY <1>5, <1>6, <1>7

LEMMA LandsCalm ==
  ASSUME Typed, NEW f \in DOMAIN flows, Lands(f) \/ GoneLands(f), Calm
  PROVE  Calm'
<1>1. flows[f].at \in {"send", "gone"} /\ Recorded(f)
  BY DEF Lands, GoneLands
<1>2. Keeps(chain, blind, chain') /\ ChainOK(chain', blind)
  BY <1>1, RecordedKeeps
<1>3. UNCHANGED <<held, page, reads, form, fetches, blind>>
  BY DEF Lands, GoneLands
<1>4. PageOK(chain', blind, held, page, reads, form, fetches)
  BY <1>2, PageStays DEF Calm
<1>5. FlowsOK(chain', blind, page.on, reads, flows)
  BY <1>2, FlowsStay DEF Calm
<1>6. FlowOK(chain', blind, page.on, reads, flows[f])
  BY <1>5 DEF FlowsOK
<1>7. FlowsOK(chain', blind, page.on, reads, flows')
  <2>1. CASE Lands(f)
    <3>1. PICK w \in Flow : /\ FlowBecomes(f, w) /\ w.at = "landed" /\ w.kind = flows[f].kind
                            /\ w.file = flows[f].file /\ w.wrong = flows[f].wrong
                            /\ w.to = flows[f].to
      BY <2>1, GotoFacts DEF Lands
    <3>2. FlowOK(chain', blind, page.on, reads, w)
      BY <1>1, <1>6, <3>1 DEF FlowOK
    <3>3. QED  BY <1>5, <3>1, <3>2, FlowsGoOn DEF FlowsOK
  <2>2. CASE GoneLands(f)
    <3>1. PICK w \in Flow : /\ FlowBecomes(f, w) /\ w.at = "failed" /\ w.kind = flows[f].kind
                            /\ w.wrong = flows[f].wrong
      BY <2>2, OverFacts DEF GoneLands
    <3>2. FlowOK(chain', blind, page.on, reads, w)
      BY <1>6, <3>1, OverIsOK
    <3>3. QED  BY <1>5, <3>1, <3>2, FlowsGoOn DEF FlowsOK
  <2>3. QED  BY <2>1, <2>2
<1>8. QED  BY <1>2, <1>3, <1>4, <1>7 DEF Calm

LEMMA FailsCalm ==
  ASSUME Typed, NEW f \in DOMAIN flows, FlowFails(f), Calm
  PROVE  Calm'
<1>1. PICK w \in Flow : /\ FlowBecomes(f, w) /\ w.at = "failed" /\ w.kind = flows[f].kind
                        /\ w.wrong = flows[f].wrong
  BY OverFacts DEF FlowFails
<1>2. FlowOK(chain, blind, page.on, reads, w)
  BY <1>1, OverIsOK DEF Calm, FlowsOK
<1>3. FlowsOK(chain, blind, page.on, reads, flows')
  BY <1>1, <1>2, FlowOnly
<1>4. UNCHANGED <<chain, held, page, reads, fetches, blind>>
  BY DEF FlowFails, workspace
<1>5. /\ form'.step = form.step /\ form'.wrong = form.wrong /\ form'.base = form.base
      /\ form'.shown = form.shown /\ form'.maint = form.maint /\ form'.doc = form.doc
      /\ form'.open = form.open
  BY DEF FlowFails, Typed, FormTyped, PageForm
<1>6. PageOK(chain, blind, held, page, reads, form', fetches)
  BY <1>5 DEF Calm, PageOK, VisitOK, Fresh, Settled, ShownOK, CheckedOK, FilesOK
<1>7. QED  BY <1>3, <1>4, <1>6 DEF Calm

(* What came of a change is of the project that is held.                         *)
LEMMA UpdatedCalm ==
  ASSUME Typed, NEW f \in DOMAIN flows, Updated(f), ~raced', Calm
  PROVE  Calm'
<1>1. PICK w \in Flow : /\ FlowBecomes(f, w) /\ w.at = "done" /\ w.kind = flows[f].kind
                        /\ w.wrong = flows[f].wrong
  BY OverFacts DEF Updated
<1>2. FlowOK(chain, blind, page.on, reads, w)
  BY <1>1, OverIsOK DEF Calm, FlowsOK
<1>3. FlowsOK(chain, blind, page.on, reads, flows')
  BY <1>1, <1>2, FlowOnly
<1>4. UNCHANGED <<chain, page, reads, blind>> /\ Refill
  BY DEF Updated
<1>5. /\ reads = {} /\ held.id = flows[f].to /\ flows[f].kind = "update" /\ flows[f].at = "landed"
  BY DEF Updated
<1>6. CASE page.on = None
  BY <1>3, <1>4, <1>5, <1>6 DEF Calm, PageOK
<1>7. CASE page.on # None
  <2> DEFINE p == page.on
  <2>1. /\ p \in Project /\ page.loaded /\ HeldOK(chain, blind, held, p)
        /\ ShownOK(form, held, p) /\ FilesOK(chain, blind, form, fetches, p)
    BY <1>5, <1>7 DEF Calm, PageOK, Settled, Typed, Where
  <2>2. flows[f].to = p /\ held.id = p
    BY <1>5, <2>1 DEF HeldOK
  <2>3. Fits(chain, blind, flows[f].file, p) /\ flows[f].file \in File
    <3>1. FlowOK(chain, blind, page.on, reads, flows[f]) /\ FlowTyped(chain, flows[f])
          /\ flows[f] \in Flow
      BY DEF Calm, FlowsOK, Typed
    <3>2. QED  BY <1>5, <2>2, <3>1, FlowParts DEF FlowOK, FlowTyped
  <2>4. held' \in Holding /\ HeldOK(chain, blind, held', p)
    <3>1. CASE held' = held
      BY <2>1, <3>1 DEF Typed
    <3>2. CASE /\ held.id # None /\ chain[held.id] # Absent
               /\ held' = WithConfig(WithInfo(held, held.id, chain[held.id]), ConfigOf(flows[f].file))
      <4>1. chain[p] \in File /\ chain[p] # Absent
        BY <2>1, <2>2, <3>2, ChainHasFiles
      <4> DEFINE h == WithInfo(held, p, chain[p])
                 c == ConfigOf(flows[f].file)
      <4>2. /\ h \in Holding /\ h.info # None /\ h.info.of = p /\ h.info.file = chain[p]
            /\ h.id = held.id /\ h.sha = held.sha
        BY <2>1, <4>1, InfoHeld DEF Typed
      <4>3. /\ c \in Config /\ c # None /\ c.doc = flows[f].file.doc /\ c.read
            /\ c.type = TypeRead(flows[f].file)
        BY <2>3, ConfigsAreTyped, SomethingIsHeld DEF ConfigOf
      <4>4. held' = WithConfig(h, c)
        BY <2>2, <3>2
      <4> HIDE DEF h, c
      <4>5. /\ held' \in Holding /\ held'.config = c /\ held'.id = p /\ held'.info = h.info
            /\ held'.sha = held.sha
        BY <2>2, <4>2, <4>3, <4>4, ConfigHeld
      <4>6. InfoOK(chain, blind, held', p)
        BY <2>1, <4>1, <4>2, <4>5 DEF InfoOK, Like, Calm, ChainOK
      <4>7. ConfigOK(chain, blind, held'.config, p)
        BY <2>3, <4>3, <4>5 DEF ConfigOK, Fits, Like, Own
      <4>8. QED  BY <2>1, <4>5, <4>6, <4>7 DEF HeldOK
    <3>3. QED  BY <3>1, <3>2 DEF Updated
  <2>5. Known(held') /\ held'.config # None
    BY <2>1, <2>4, SomethingIsHeld DEF HeldOK, InfoOK, ConfigOK, Known
  <2>6. /\ form' = FilledIn(form, held', TRUE)
        /\ fetches' \subseteq fetches \union Asked(held')
    BY <1>4, <1>7, <2>1 DEF Refill, FilledIn
  <2>7. /\ form'.shown /\ form'.maint = p /\ form'.doc = held'.config.doc /\ form'.wrong = {}
        /\ form'.base = form.base
    <3>1. FormTyped(form)
      BY DEF Typed
    <3>2. /\ form'.shown /\ form'.maint = held'.info.of /\ form'.doc = held'.config.doc
          /\ form'.wrong = {} /\ form'.base = form.base
      BY <2>4, <2>5, <2>6, <3>1, FilledInFacts
    <3>3. QED  BY <2>4, <3>2 DEF HeldOK, InfoOK
  <2>8. FilesOK(chain, blind, form', fetches', p)
    <3>1. \A file \in Asked(held') : Like(chain, blind, file, p)
      BY <2>4 DEF Asked, HeldOK, InfoOK
    <3>2. QED  BY <2>1, <2>6, <2>7, <3>1 DEF FilesOK
  <2>9. Settled(chain, blind, held', form', fetches', p)
    BY <2>4, <2>7, <2>8 DEF Settled, ShownOK, CheckedOK
  <2>10. PageOK(chain, blind, held', page, reads, form', fetches')
    BY <1>5, <2>1, <2>9 DEF PageOK
  <2>11. QED  BY <1>3, <1>4, <2>10 DEF Calm
<1>8. QED  BY <1>6, <1>7

LEMMA RegisteredCalm ==
  ASSUME Typed, NEW f \in DOMAIN flows, Registered(f), ~raced', Calm
  PROVE  Calm'
<1>1. PICK w \in Flow : /\ FlowBecomes(f, w) /\ w.at = "back" /\ w.kind = flows[f].kind
                        /\ w.wrong = flows[f].wrong
  BY GotoFacts DEF Registered
<1>2. flows[f].kind = "create" /\ reads = {} /\ page.on = None
      /\ UNCHANGED <<chain, page, reads, blind>>
  BY DEF Registered
<1>3. FlowOK(chain, blind, page.on, reads, w)
  BY <1>1, <1>2 DEF FlowOK, Calm, FlowsOK
<1>4. FlowsOK(chain, blind, page.on, reads, flows')
  BY <1>1, <1>3, FlowOnly
<1>5. PageOK(chain, blind, held', page, reads, form', fetches')
  BY <1>2 DEF PageOK
<1>6. QED  BY <1>2, <1>4, <1>5 DEF Calm

LEMMA EnterRegisteredCalm ==
  ASSUME Typed, NEW f \in DOMAIN flows, EnterRegistered(f), ~raced', Calm
  PROVE  Calm'
<1> DEFINE busy == \E g \in DOMAIN flows \ {f} : Busy(g)
<1>1. PICK w \in Flow : /\ FlowBecomes(f, w) /\ w.at = "done" /\ w.kind = flows[f].kind
                        /\ w.wrong = flows[f].wrong
  BY OverFacts DEF EnterRegistered
<1>2. flows[f].to \in Project
  BY FlowParts DEF EnterRegistered, Typed, FlowTyped
<1>3. Enter(flows[f].to, FALSE, busy) /\ busy \in BOOLEAN
      /\ (~busy => \A g \in DOMAIN flows \ {f} : flows[g].at \in {"failed", "done"})
  BY DEF EnterRegistered, Busy
<1> HIDE DEF busy
<1>4. ~busy /\ PageOK(chain, blind, held', page', reads', form', fetches')
  BY <1>2, <1>3, EnteredPage DEF EnterRegistered
<1>5. \A g \in DOMAIN flows : FlowOK(chain, blind, page.on, reads, flows[g])
  BY DEF Calm, FlowsOK
<1>6. FlowOK(chain, blind, page'.on, reads', w)
  BY <1>1, <1>5, OverIsOK
<1>7. \A g \in DOMAIN flows \ {f} : FlowOK(chain, blind, page'.on, reads', flows[g])
  BY <1>3, <1>4, <1>5, OverIsOK
<1>8. FlowsOK(chain, blind, page'.on, reads', flows')
  BY <1>1, <1>6, <1>7, FlowsGoOn
<1>9. UNCHANGED <<chain, blind>>
  BY DEF EnterRegistered
<1>10. QED  BY <1>4, <1>8, <1>9 DEF Calm

LEMMA FlowStepCalm ==
  ASSUME Typed, NEW f \in DOMAIN flows, FlowStep(f), ~raced', Calm
  PROVE  Calm'
BY SignCalm, LandsCalm, FailsCalm, UpdatedCalm, RegisteredCalm, EnterRegisteredCalm DEF FlowStep

-------------------------------------------------------------------------------
(* The invariant *)

(* Races are not forgotten.                                                      *)
LEMMA RacesStay ==
  ASSUME Typed, [Next]_vars, ~raced'
  PROVE  ~raced
<1>1. ASSUME NEW p \in Project, Click(p) \/ EnterPage(p)  PROVE ~raced
  BY <1>1 DEF Click, ClickCard, EnterPage, Enter
<1>2. ASSUME NEW r \in reads, Answered(r) \/ FileAnswered(r)  PROVE ~raced
  BY <1>2, AnswersTyped DEF Answered, FileAnswered
<1>3. LoadSite => ~raced
  BY DEF LoadSite, Reload
<1>4. FormMove \/ SubmitUpdate => ~raced
  BY DEF FormMove, SubmitUpdate, OpenForm, WriteReadme, Next12, BackTo12, CloseForm, Fetched, Write,
         workspace
<1>5. DraftMove \/ SubmitDraft => ~raced
  BY DEF DraftMove, SubmitDraft, OpenDraft, CloseDraft, AskName, NameAnswered, WriteDraft, ChooseName,
         ChooseType, NextDraft, EditDraft, workspace
<1>6. ASSUME NEW f \in DOMAIN flows, FlowStep(f)  PROVE ~raced
  BY <1>6 DEF FlowStep, Sign, Lands, FlowFails, Updated, Registered, EnterRegistered, GoneLands,
              Enter, workspace
<1>7. UNCHANGED vars => ~raced
  BY DEF vars, workspace
<1>8. QED  BY <1>1, <1>2, <1>3, <1>4, <1>5, <1>6, <1>7, StepCases

LEMMA StepCalm ==
  ASSUME Typed, DraftOK(draft), [Next]_vars, ~raced', Calm
  PROVE  Calm'
<1>1. FormMove => Calm'
  <2>1. SUFFICES ASSUME FormMove  PROVE Calm'
    OBVIOUS
  <2>2. PageOK(chain, blind, held, page, reads, form', fetches')
    BY <2>1, FormMovePage DEF Calm
  <2>3. UNCHANGED <<chain, held, page, reads, flows, blind>>
    BY <2>1 DEF FormMove, OpenForm, WriteReadme, Next12, BackTo12, CloseForm, Fetched, Write, workspace
  <2>4. QED  BY <2>2, <2>3 DEF Calm
<1>2. DraftMove => Calm'
  BY DraftMoves DEF workspace, Calm
<1>3. UNCHANGED vars => Calm'
  BY DEF vars, workspace, forms, Calm
<1>4. QED
  BY <1>1, <1>2, <1>3, StepCases, ClickCalm, EnterPageCalm, ReadCalm, LoadCalm, SubmitUpdateCalm,
     SubmitDraftCalm, FlowStepCalm

LEMMA InitCalm == Init => Calm
<1> SUFFICES ASSUME Init  PROVE Calm
  OBVIOUS
<1>1. ChainOK(chain, blind)
  BY FoundingsAssumption DEF Init, WorkspaceInit, ChainOK, Own
<1>2. PageOK(chain, blind, held, page, reads, form, fetches)
  BY DEF Init, WorkspaceInit, PageOK, Home
<1>3. FlowsOK(chain, blind, page.on, reads, flows)
  BY DEF Init, FlowsOK
<1>4. QED  BY <1>1, <1>2, <1>3 DEF Calm

LEMMA FormsInvariant == Spec => []FormsInv
<1>1. Init => FormsInv
  BY InitTyped, InitCalm DEF FormsInv
<1>2. FormsInv /\ [Next]_vars => FormsInv'
  BY StepTyped, StepCalm, RacesStay DEF FormsInv
<1>3. QED  BY <1>1, <1>2, PTL DEF Spec

(* The ids, projects, configs and commits that a page whose reads are answered   *)
(* shows are those of one project (loadProjectInfo and the stores of             *)
(* StateService), for any projects and any number of visits.                     *)
THEOREM PagesAgree == Spec => []SettledPageAgrees
<1>1. FormsInv => SettledPageAgrees
  BY DEF FormsInv, Calm, PageOK, Settled, HeldOK, InfoOK, ConfigOK, SettledPageAgrees
<1>2. QED  BY <1>1, FormsInvariant, PTL

(* Every file that updateConfigFlow or createProjectFlow leaves names the        *)
(* project's own documentation and maintainers.                                  *)
THEOREM FilesAreTheirProjects == Spec => []FilesMatchProjects
<1>1. FormsInv => FilesMatchProjects
  BY DEF FormsInv, Calm, ChainOK, Own, FilesMatchProjects
<1>2. QED  BY <1>1, FormsInvariant, PTL

(* What either form submits (handleSubmit, handleRegisterProject) is what its    *)
(* steps checked, in whatever order they were passed, reviewed and filled in.    *)
THEOREM SentIsChecked == Spec => []OnlyCheckedIsSent
<1>1. FormsInv => OnlyCheckedIsSent
  BY FlowParts DEF FormsInv, Calm, FlowsOK, FlowOK, OnlyCheckedIsSent
<1>2. QED  BY <1>1, FormsInvariant, PTL

(* A change keeps the type, the plain keys and the README of the file that it    *)
(* replaces (mergeTomlData, serializeToml, buildToml), if they could be read.    *)
THEOREM UnshownIsKept == Spec => UnshownPartsSurvive
<1> DEFINE Survives ==
      ~raced => \A p \in Project : chain[p] # Absent =>
        /\ "type"   \notin blind => TypeRead(chain'[p]) = TypeRead(chain[p])
        /\ "keys"   \notin blind => Written(chain'[p].extra) = Written(chain[p].extra)
        /\ "readme" \notin blind /\ chain[p].readme => chain'[p].readme
<1>1. FormsInv /\ [Next]_vars => [Survives]_vars
  <2> SUFFICES ASSUME FormsInv, [Next]_vars  PROVE Survives
    OBVIOUS
  <2>1. \/ chain' = chain
        \/ \E f \in DOMAIN flows : flows[f].at \in {"send", "gone"} /\ Recorded(f)
    <3>1. \A p \in Project : Click(p) \/ EnterPage(p) => chain' = chain
      BY DEF Click, ClickCard, EnterPage
    <3>2. Typed
      BY DEF FormsInv
    <3>3. \A r \in reads : Answered(r) \/ FileAnswered(r) => chain' = chain
      BY <3>2, AnswersTyped DEF Answered, FileAnswered
    <3>4. LoadSite \/ FormMove \/ SubmitUpdate => chain' = chain
      BY DEF LoadSite, Reload, FormMove, SubmitUpdate, OpenForm, WriteReadme, Next12, BackTo12,
             CloseForm, Fetched, Write, workspace
    <3>5. DraftMove \/ SubmitDraft => chain' = chain
      BY DEF DraftMove, SubmitDraft, OpenDraft, CloseDraft, AskName, NameAnswered, WriteDraft,
             ChooseName, ChooseType, NextDraft, EditDraft, workspace
    <3>6. \A f \in DOMAIN flows : FlowStep(f) =>
            chain' = chain \/ (flows[f].at \in {"send", "gone"} /\ Recorded(f))
      BY DEF FlowStep, Sign, Lands, FlowFails, Updated, Registered, EnterRegistered, GoneLands,
             workspace
    <3>7. UNCHANGED vars => chain' = chain
      BY DEF vars, workspace
    <3>8. QED  BY <3>1, <3>3, <3>4, <3>5, <3>6, <3>7, StepCases
  <2>2. CASE chain' = chain
    BY <2>2
  <2>3. ASSUME NEW f \in DOMAIN flows, flows[f].at \in {"send", "gone"}, Recorded(f), ~raced
        PROVE  Survives
    <3>1. Typed /\ Calm
      BY <2>3 DEF FormsInv
    <3>2. QED  BY <2>3, <3>1, RecordedKeeps DEF Keeps
  <2>4. QED  BY <2>1, <2>2, <2>3
<1>2. QED  BY <1>1, FormsInvariant, PTL DEF Spec, UnshownPartsSurvive
=============================================================================
