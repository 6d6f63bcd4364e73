--------------------------- MODULE ProjectsProofs ---------------------------
(***************************************************************************)
(* Projects and members, for every number of them and every size of pages: *)
(* the pages of the contract list each registered project once and in the  *)
(* order of registration and implement Directory; both copies of the       *)
(* badges agree, and the voting power is what the lists show.              *)
(***************************************************************************)
EXTENDS RegistryRefinement, Membership, SequenceTheorems, FiniteSetTheorems, TLAPS

-----------------------------------------------------------------------------
(* Division by the size of a page *)

\* The quotient and remainder of register and of readers of pages.
LEMMA DivMod ==
  ASSUME NEW n \in Nat, NEW s \in Nat \ {0}
  PROVE  /\ n \div s \in Nat
         /\ n % s \in 0..(s - 1)
         /\ n = (n \div s) * s + (n % s)
  BY SMT

\* Multiples of a page's size are at least a page apart.
LEMMA PagesApart ==
  ASSUME NEW s \in Nat \ {0}, NEW p \in Nat, NEW q \in Nat, p < q
  PROVE  (p * s) + s <= q * s
  BY SMT

\* The quotient is the number of a page that starts at n or before it, and
\* whose successor starts after n.
LEMMA QuotientUnique ==
  ASSUME NEW n \in Nat, NEW s \in Nat \ {0}, NEW p \in Nat, p * s <= n, n < (p * s) + s
  PROVE  p = n \div s
  BY DivMod, PagesApart, SMT

-----------------------------------------------------------------------------
(* Where the entries of the listing are *)

\* The page that register would use next begins at the last multiple of the size.
LEMMA OpenPage ==
  ASSUME RegistryAssumption, NEW n \in Nat
  PROVE  /\ PageOf(n) \in 0..n
         /\ n % MAX_PROJECTS_PER_PAGE \in 0..(MAX_PROJECTS_PER_PAGE - 1)
         /\ n = PageOf(n) * MAX_PROJECTS_PER_PAGE + (n % MAX_PROJECTS_PER_PAGE)
<1> DEFINE s == MAX_PROJECTS_PER_PAGE
<1>1. s \in Nat \ {0}
  BY DEF RegistryAssumption
<1>2. /\ n \div s \in Nat
      /\ n % s \in 0..(s - 1)
      /\ n = (n \div s) * s + (n % s)
  BY <1>1, DivMod
<1>3. n \div s <= n
  <2> DEFINE q == n \div s
  <2>1. q \in Nat /\ q * s <= n
    BY <1>1, <1>2, SMT
  <2>2. q <= q * s
    <3> HIDE DEF q, s
    <3> QED BY <1>1, <2>1, SMT
  <2> QED BY <2>1, <2>2, <1>1, SMT
<1> QED BY <1>2, <1>3 DEF PageOf

\* Every entry of the listing lies on a stored page, within its length.
LEMMA EntryStored ==
  ASSUME RegistryAssumption, RegistryTypeOK, PagesFilled, NEW i \in 1..total
  PROVE  /\ PageOf(i - 1) \in DOMAIN pages
         /\ 1 + ((i - 1) % MAX_PROJECTS_PER_PAGE) \in 1..Len(pages[PageOf(i - 1)])
         /\ Listing[i] \in Name
<1> DEFINE s == MAX_PROJECTS_PER_PAGE
           p == PageOf(i - 1)
           r == (i - 1) % s
<1>1. s \in Nat \ {0} /\ total \in Nat
  BY DEF RegistryAssumption, RegistryTypeOK
<1>2. p \in 0..(i - 1) /\ r \in 0..(s - 1) /\ i - 1 = p * s + r
  <2>1. ASSUME NEW n \in Nat PROVE /\ PageOf(n) \in 0..n /\ n % s \in 0..(s - 1)
                                   /\ n = PageOf(n) * s + (n % s)
    BY OpenPage
  <2>2. i - 1 \in Nat
    BY <1>1
  <2> QED BY <2>1, <2>2
<1>3. p \in 0..total /\ p * s < total
  <2> HIDE DEF p, r, s
  <2> QED BY <1>1, <1>2, SMT
<1>4. p \in DOMAIN pages
  BY <1>3 DEF PagesFilled
<1>5. Len(pages[p]) = IF total - p * s < s THEN total - p * s ELSE s
  BY <1>4 DEF PagesFilled
<1>6. 1 + r \in 1..Len(pages[p])
  <2> HIDE DEF p, r, s
  <2> QED BY <1>1, <1>2, <1>3, <1>5, SMT
<1>7. pages[p] \in Seq(Name)
  BY <1>4 DEF RegistryTypeOK
<1>8. pages[p][1 + r] \in Name
  <2> HIDE DEF p, r, s
  <2> QED BY <1>6, <1>7
<1> QED BY <1>4, <1>6, <1>8 DEF Listing

-----------------------------------------------------------------------------
(* What register does to pages and listing *)

\* The page that register writes: it is stored iff it has entries already, and
\* then has as many as the remainder says.
LEMMA OpenPageLength ==
  ASSUME RegistryAssumption, RegistryTypeOK, PagesFilled
  PROVE  /\ KeysOn(PageOf(total)) \in Seq(Name)
         /\ Len(KeysOn(PageOf(total))) = total % MAX_PROJECTS_PER_PAGE
<1> DEFINE s == MAX_PROJECTS_PER_PAGE
           q == PageOf(total)
           r == total % s
<1>1. s \in Nat \ {0} /\ total \in Nat
  BY DEF RegistryAssumption, RegistryTypeOK
<1>2. q \in 0..total /\ r \in 0..(s - 1) /\ total = q * s + r
  BY <1>1, OpenPage
<1>3. CASE q \in DOMAIN pages
  <2>1. pages[q] \in Seq(Name)
    BY <1>3 DEF RegistryTypeOK
  <2>2. Len(pages[q]) = IF total - q * s < s THEN total - q * s ELSE s
    BY <1>3 DEF PagesFilled
  <2>3. Len(pages[q]) = r
    <3> HIDE DEF q, r, s
    <3> QED BY <1>1, <1>2, <2>2, SMT
  <2> QED BY <1>3, <2>1, <2>3 DEF KeysOn
<1>4. CASE q \notin DOMAIN pages
  <2>1. ~(q * s < total)
    BY <1>2, <1>4 DEF PagesFilled
  <2>2. r = 0
    <3> HIDE DEF q, r, s
    <3> QED BY <1>1, <1>2, <2>1, SMT
  <2> QED BY <1>4, <2>2 DEF KeysOn
<1> QED BY <1>3, <1>4

LEMMA RegisterKeepsPages ==
  ASSUME RegistryAssumption, RegistryTypeOK, PagesFilled,
         NEW maintainer \in Account, NEW name \in Name, NEW maintainers, NEW config,
         Register(maintainer, name, maintainers, config)
  PROVE  PagesFilled'
<1> DEFINE s == MAX_PROJECTS_PER_PAGE
           q == PageOf(total)
           r == total % s
<1>1. s \in Nat \ {0} /\ total \in Nat
  BY DEF RegistryAssumption, RegistryTypeOK
<1>2. q \in 0..total /\ r \in 0..(s - 1) /\ total = q * s + r
  BY <1>1, OpenPage
<1>3. /\ total' = total + 1
      /\ pages' = [p \in DOMAIN pages \cup {q} |->
                     IF p = q THEN Append(KeysOn(q), name) ELSE pages[p]]
  BY DEF Register
<1>4. /\ DOMAIN pages = {p \in 0..total : p * s < total}
      /\ \A p \in DOMAIN pages :
           Len(pages[p]) = IF total - p * s < s THEN total - p * s ELSE s
  BY DEF PagesFilled
<1>5. ASSUME NEW p \in Nat, p * s < total, p # q
      PROVE  p * s + s <= q * s
  <2>1. CASE p < q
    <3> HIDE DEF q, s
    <3> QED BY <1>1, <1>2, <2>1, PagesApart
  <2>2. CASE q < p
    <3>1. q * s + s <= p * s
      <4> HIDE DEF q, s
      <4> QED BY <1>1, <1>2, <2>2, PagesApart
    <3> HIDE DEF q, r, s
    <3> QED BY <1>1, <1>2, <1>5, <3>1, SMT
  <2> HIDE DEF q, s
  <2> QED BY <1>1, <1>2, <1>5, <2>1, <2>2
<1>6. DOMAIN pages' = {p \in 0..total' : p * s < total'}
  <2>1. DOMAIN pages' = {p \in 0..total : p * s < total} \cup {q}
    BY <1>3, <1>4
  <2>2. ASSUME NEW p \in 0..total'
        PROVE  p * s < total' <=> (p \in 0..total /\ p * s < total) \/ p = q
    <3>1. p \in Nat
      BY <1>1, <1>3
    <3>2. CASE p = q
      <4> HIDE DEF q, r, s
      <4> QED BY <1>1, <1>2, <1>3, <3>2, SMT
    <3>3. CASE p # q
      <4>1. p * s < total' => p * s < total
        <5> SUFFICES ASSUME p * s = total PROVE p = q
          <6> HIDE DEF q, r, s
          <6> QED BY <1>1, <1>3, <3>1, <3>3, SMT
        <5>1. p = total \div s
          <6> HIDE DEF q, r, s
          <6>1. p * s <= total /\ total < (p * s) + s
            BY <1>1, <3>1, SMT
          <6> QED BY <1>1, <3>1, <6>1, QuotientUnique
        <5> QED BY <5>1 DEF PageOf
      <4>2. p * s < total => p \in 0..total /\ p * s < total'
        <5> DEFINE first == p * s
        <5> HIDE DEF q, r, s
        <5>1. p <= first /\ first \in Nat
          BY <1>1, <3>1, SMT
        <5>2. first < total => p \in 0..total /\ first < total'
          <6> HIDE DEF first
          <6> QED BY <1>1, <1>3, <3>1, <5>1, SMT
        <5> QED BY <5>2
      <4> QED BY <3>3, <4>1, <4>2
    <3> QED BY <3>2, <3>3
  <2>3. 0..total \subseteq 0..total' /\ q \in 0..total'
    <3> HIDE DEF q, r, s
    <3> QED BY <1>1, <1>2, <1>3
  <2> HIDE DEF q, r, s
  <2> QED BY <2>1, <2>2, <2>3
<1>7. ASSUME NEW p \in DOMAIN pages'
      PROVE  Len(pages'[p]) = IF total' - p * s < s THEN total' - p * s ELSE s
  <2>1. CASE p = q
    <3>1. pages'[p] = Append(KeysOn(q), name)
      BY <1>3, <2>1
    <3>2. Len(Append(KeysOn(q), name)) = r + 1
      <4>1. KeysOn(q) \in Seq(Name) /\ Len(KeysOn(q)) = r
        BY OpenPageLength
      <4> HIDE DEF q, r, s
      <4> QED BY <4>1
    <3> HIDE DEF q, r, s
    <3> QED BY <1>1, <1>2, <1>3, <2>1, <3>1, <3>2, SMT
  <2>2. CASE p # q
    <3>1. p \in DOMAIN pages /\ pages'[p] = pages[p]
      BY <1>3, <2>2
    <3>2. p \in Nat /\ p * s < total
      BY <1>4, <3>1
    <3>3. p * s + s <= q * s
      BY <1>5, <2>2, <3>2
    <3>4. Len(pages[p]) = IF total - p * s < s THEN total - p * s ELSE s
      BY <1>4, <3>1
    <3> DEFINE first == p * s
               open  == q * s
    <3>5. first \in Nat /\ open \in Nat
      BY <1>1, <1>2, <3>2
    <3>6. first + s <= open /\ total = open + r /\ r \in 0..(s - 1)
      BY <1>2, <3>3
    <3> HIDE DEF q, r, s, first, open
    <3>7. ~(total - first < s) /\ ~(total' - first < s)
      BY <1>1, <1>3, <3>5, <3>6, SMTT(30)
    <3>8. Len(pages[p]) = IF total - first < s THEN total - first ELSE s
      BY <3>4 DEF first
    <3>9. Len(pages'[p]) = IF total' - first < s THEN total' - first ELSE s
      BY <3>1, <3>7, <3>8
    <3> QED BY <3>9 DEF first
  <2> QED BY <2>1, <2>2
<1> QED BY <1>6, <1>7 DEF PagesFilled

\* The new project is listed at the end, and nothing that was listed moves.
LEMMA RegisterAppends ==
  ASSUME RegistryAssumption, RegistryTypeOK, PagesFilled,
         NEW maintainer \in Account, NEW name \in Name, NEW maintainers, NEW config,
         Register(maintainer, name, maintainers, config)
  PROVE  /\ Listing \in Seq(Name) /\ Len(Listing) = total
         /\ Listing' = Append(Listing, name)
<1> DEFINE s == MAX_PROJECTS_PER_PAGE
           q == PageOf(total)
           r == total % s
<1>1. s \in Nat \ {0} /\ total \in Nat
  BY DEF RegistryAssumption, RegistryTypeOK
<1>2. q \in 0..total /\ r \in 0..(s - 1) /\ total = q * s + r
  BY <1>1, OpenPage
<1>3. /\ total' = total + 1
      /\ pages' = [p \in DOMAIN pages \cup {q} |->
                     IF p = q THEN Append(KeysOn(q), name) ELSE pages[p]]
  BY DEF Register
<1>4. Listing \in Seq(Name) /\ Len(Listing) = total
  <2>1. \A i \in 1..total : Listing[i] \in Name
    BY EntryStored
  <2>2. Listing \in [1..total -> Name]
    BY <2>1 DEF Listing
  <2>3. ASSUME NEW f \in [1..total -> Name]  PROVE f \in Seq(Name) /\ Len(f) = total
    BY <1>1
  <2> QED BY <2>2, <2>3
<1>5. KeysOn(q) \in Seq(Name) /\ Len(KeysOn(q)) = r
  BY OpenPageLength
<1>6. Listing' = [i \in 1..(total + 1) |-> pages'[PageOf(i - 1)][1 + ((i - 1) % s)]]
  BY <1>3 DEF Listing, PageOf
<1>7. ASSUME NEW i \in 1..total
      PROVE  pages'[PageOf(i - 1)][1 + ((i - 1) % s)] = Listing[i]
  <2> DEFINE p == PageOf(i - 1)
             j == 1 + ((i - 1) % s)
  <2>1. p \in DOMAIN pages /\ j \in 1..Len(pages[p]) /\ Listing[i] = pages[p][j]
    BY EntryStored DEF Listing
  <2>2. CASE p = q
    <3>1. pages'[p] = Append(pages[p], name) /\ pages[p] \in Seq(Name)
      BY <1>3, <1>5, <2>1, <2>2 DEF KeysOn
    <3>2. ASSUME NEW f \in Seq(Name), NEW k \in 1..Len(f)  PROVE Append(f, name)[k] = f[k]
      OBVIOUS
    <3>3. pages'[p][j] = pages[p][j]
      <4> HIDE DEF p, j
      <4> QED BY <2>1, <3>1, <3>2
    <3> QED BY <2>1, <3>3
  <2>3. CASE p # q
    BY <1>3, <2>1, <2>3
  <2> QED BY <2>2, <2>3
<1>8. pages'[PageOf(total)][1 + (total % s)] = name
  <2>1. pages'[q] = Append(KeysOn(q), name)
    BY <1>3
  <2>2. Append(KeysOn(q), name)[1 + r] = name
    <3> HIDE DEF q, r
    <3> QED BY <1>2, <1>5
  <2> QED BY <2>1, <2>2
<1>9. Append(Listing, name) = [i \in 1..(total + 1) |-> IF i = total + 1 THEN name ELSE Listing[i]]
  <2>1. ASSUME NEW f \in Seq(Name), Len(f) = total
        PROVE  Append(f, name) = [i \in 1..(total + 1) |-> IF i = total + 1 THEN name ELSE f[i]]
    <3>1. Append(f, name) \in Seq(Name) /\ Len(Append(f, name)) = total + 1
      BY <1>1, <2>1
    <3>2. DOMAIN Append(f, name) = 1..(total + 1) /\ Append(f, name) \in [1..(total + 1) -> Name]
      BY <3>1, LenProperties
    <3>3. \A i \in 1..(total + 1) : Append(f, name)[i] = IF i = total + 1 THEN name ELSE f[i]
      BY <1>1, <2>1
    <3> DEFINE t == Append(f, name)
    <3> HIDE DEF t
    <3> QED BY <3>2, <3>3 DEF t
  <2> QED BY <1>4, <2>1
<1>10. ASSUME NEW i \in 1..(total + 1)
       PROVE  pages'[PageOf(i - 1)][1 + ((i - 1) % s)] = IF i = total + 1 THEN name ELSE Listing[i]
  <2>1. CASE i = total + 1
    <3>1. i - 1 = total
      BY <1>1, <2>1
    <3> QED BY <1>8, <2>1, <3>1
  <2>2. CASE i # total + 1
    <3>1. i \in 1..total
      BY <1>1, <2>2
    <3> QED BY <1>7, <2>2, <3>1
  <2> QED BY <2>1, <2>2
<1>11. Listing' = Append(Listing, name)
  <2> HIDE DEF Listing, PageOf
  <2> QED BY <1>6, <1>9, <1>10
<1> QED BY <1>4, <1>11

-----------------------------------------------------------------------------
(* The inductive invariant *)

Inv ==
  /\ RegistryTypeOK
  /\ PagesFilled
  /\ ListedOnce
  /\ Administrable

\* A call on a project that exists: its maintainers stay or are replaced by a
\* list that is not empty, and neither pages nor counter change.
Upkeep(name, project) ==
  /\ name \in Registered
  /\ project \in Project
  /\ project.maintainers # <<>>
  /\ projects' = [projects EXCEPT ![name] = project]
  /\ UNCHANGED <<paused, pages, total, commits, wallet, vault>>

LEMMA UpdateConfigIsUpkeep ==
  ASSUME RegistryAssumption, Inv,
         NEW maintainer \in Account, NEW name \in Name,
         NEW maintainers \in MaintainerLists, NEW config \in Config,
         UpdateConfig(maintainer, name, maintainers, config)
  PROVE  \E project : Upkeep(name, project)
<1> DEFINE project == [projects[name] EXCEPT !.config = config, !.maintainers = maintainers]
<1>1. projects[name] \in Project
  BY DEF UpdateConfig, IsMaintainer, Inv, RegistryTypeOK
<1>2. maintainers \in Seq(Account)
  BY DEF RegistryAssumption
<1>3. project \in Project /\ project.maintainers = maintainers
  BY <1>1, <1>2 DEF Project
<1>4. projects' = [projects EXCEPT ![name] = project]
  BY DEF UpdateConfig
<1>5. Upkeep(name, project)
  <2> HIDE DEF project
  <2> QED BY <1>3, <1>4 DEF UpdateConfig, IsMaintainer, HasMaintainer, Upkeep, Registered
<1> QED BY <1>5

LEMMA SetSubProjectsIsUpkeep ==
  ASSUME RegistryAssumption, Inv,
         NEW maintainer \in Account, NEW name \in Name, NEW sub_projects \in SubProjectLists,
         SetSubProjects(maintainer, name, sub_projects)
  PROVE  \E project : Upkeep(name, project)
<1> DEFINE project == [projects[name] EXCEPT !.sub_projects = sub_projects]
<1>1. projects[name] \in Project /\ name \in Registered
  BY DEF SetSubProjects, IsMaintainer, Inv, RegistryTypeOK, Registered
<1>2. sub_projects \in Seq(Name)
  BY DEF RegistryAssumption
<1>3. project \in Project /\ project.maintainers = projects[name].maintainers
  BY <1>1, <1>2 DEF Project
<1>4. projects' = [projects EXCEPT ![name] = project]
  BY DEF SetSubProjects
<1>5. projects[name].maintainers # <<>>
  BY <1>1 DEF Inv, Administrable
<1>6. Upkeep(name, project)
  <2> HIDE DEF project
  <2> QED BY <1>1, <1>3, <1>4, <1>5 DEF SetSubProjects, Upkeep
<1> QED BY <1>6

\* Every step is one of four kinds.
LEMMA StepCases ==
  ASSUME RegistryAssumption, Inv, [RegistryNext]_registryVars
  PROVE  \/ \E maintainer \in Account, name \in Name, maintainers \in MaintainerLists,
               config \in Config : Register(maintainer, name, maintainers, config)
         \/ \E name \in Name : \E project : Upkeep(name, project)
         \/ \E maintainer \in Account, name \in Name, hash \in Hash :
               Commit(maintainer, name, hash)
         \/ paused' \in BOOLEAN /\ UNCHANGED <<projects, pages, total, commits, wallet, vault>>
<1>1. CASE UNCHANGED registryVars
  BY <1>1 DEF registryVars, Inv, RegistryTypeOK
<1>2. ASSUME NEW admin \in Account, NEW value \in BOOLEAN, Pause(admin, value)
      PROVE  paused' \in BOOLEAN /\ UNCHANGED <<projects, pages, total, commits, wallet, vault>>
  BY <1>2 DEF Pause
<1>3. ASSUME NEW maintainer \in Account, NEW name \in Name, MaintainerNext(maintainer, name)
      PROVE  \/ \E maintainers \in MaintainerLists, config \in Config :
                   Register(maintainer, name, maintainers, config)
             \/ \E project : Upkeep(name, project)
             \/ \E hash \in Hash : Commit(maintainer, name, hash)
  BY <1>3, UpdateConfigIsUpkeep, SetSubProjectsIsUpkeep DEF MaintainerNext
<1>4. CASE RegistryNext
  BY <1>2, <1>3, <1>4 DEF RegistryNext
<1> QED BY <1>1, <1>4

\* What the pages say when neither they nor the counter change.
LEMMA PagesFrame ==
  ASSUME UNCHANGED <<pages, total>>
  PROVE  Listing' = Listing /\ PagesFilled' = PagesFilled
  BY DEF Listing, PageOf, PagesFilled

LEMMA RegisterPreserves ==
  ASSUME RegistryAssumption, Inv,
         NEW maintainer \in Account, NEW name \in Name,
         NEW maintainers \in MaintainerLists, NEW config \in Config,
         Register(maintainer, name, maintainers, config)
  PROVE  Inv'
<1> DEFINE project == [config |-> config, maintainers |-> maintainers, sub_projects |-> None]
<1>1. /\ Listing \in Seq(Name) /\ Len(Listing) = total /\ total \in Nat
      /\ Listing' = Append(Listing, name) /\ total' = total + 1
  BY RegisterAppends DEF Inv, RegistryTypeOK, Register
<1>2. project \in Project /\ project # None /\ project.maintainers # <<>>
  <2>1. maintainers \in Seq(Account) /\ maintainers # <<>>
    BY DEF RegistryAssumption, Register, ToSet
  <2> QED BY <2>1 DEF RegistryAssumption, Project
<1>3. projects' = [projects EXCEPT ![name] = project] /\ projects[name] = None
  BY DEF Register, IsFree
<1>4. projects \in [Name -> Project \cup {None}]
  BY DEF Inv, RegistryTypeOK
<1>5. Registered' = Registered \cup {name} /\ name \notin Registered
  <2> HIDE DEF project
  <2> QED BY <1>2, <1>3, <1>4 DEF Registered
<1>6. RegistryTypeOK'
  <2>1. projects' \in [Name -> Project \cup {None}]
    <3> HIDE DEF project
    <3> QED BY <1>2, <1>3, <1>4
  <2>2. DOMAIN pages' \subseteq Nat /\ pages' \in [DOMAIN pages' -> Seq(Name)]
    <3> DEFINE q == PageOf(total)
    <3>1. q \in Nat /\ KeysOn(q) \in Seq(Name)
      <4>1. ASSUME NEW n \in Nat PROVE PageOf(n) \in 0..n
        BY OpenPage
      <4>2. q \in 0..total
        BY <1>1, <4>1
      <4>3. KeysOn(q) \in Seq(Name)
        BY OpenPageLength DEF Inv
      <4> HIDE DEF q
      <4> QED BY <4>2, <4>3
    <3>2. Append(KeysOn(q), name) \in Seq(Name)
      <4> HIDE DEF q
      <4> QED BY <3>1
    <3>3. pages' = [p \in DOMAIN pages \cup {q} |->
                     IF p = q THEN Append(KeysOn(q), name) ELSE pages[p]]
      BY DEF Register
    <3> HIDE DEF q
    <3> QED BY <3>1, <3>2, <3>3 DEF Inv, RegistryTypeOK
  <2>3. wallet' \in [Account -> Nat] /\ vault' \in Nat
    BY DEF Register, CanPay, Inv, RegistryTypeOK, RegistryAssumption
  <2>4. paused' \in BOOLEAN /\ total' \in Nat /\ commits' \in [Name -> Hash \cup {None}]
    BY <1>1 DEF Register, Inv, RegistryTypeOK
  <2> QED BY <2>1, <2>2, <2>3, <2>4 DEF RegistryTypeOK
<1>7. PagesFilled'
  BY RegisterKeepsPages DEF Inv
<1>8. ListedOnce'
  <2>1. /\ \A i, j \in 1..total : Listing[i] = Listing[j] => i = j
        /\ Registered = {Listing[i] : i \in 1..total}
    BY DEF Inv, ListedOnce
  <2>2. /\ \A i \in 1..total : Listing'[i] = Listing[i]
        /\ Listing'[total + 1] = name
    <3> HIDE DEF Listing
    <3> QED BY <1>1
  <2>3. \A i \in 1..total' : i \in 1..total \/ i = total + 1
    BY <1>1
  <2>4. 1..total \subseteq 1..total' /\ total + 1 \in 1..total'
    BY <1>1
  <2>5. \A i, j \in 1..total' : Listing'[i] = Listing'[j] => i = j
    <3> HIDE DEF Listing, Registered
    <3> QED BY <1>5, <2>1, <2>2, <2>3
  <2>6. Registered' = {Listing'[i] : i \in 1..total'}
    <3> HIDE DEF Listing, Registered
    <3>1. ASSUME NEW n \in Registered' PROVE \E i \in 1..total' : Listing'[i] = n
      <4>1. CASE n = name
        BY <4>1, <2>2, <2>4
      <4>2. CASE n \in Registered
        <5>1. PICK i \in 1..total : Listing[i] = n
          BY <4>2, <2>1
        <5> QED BY <5>1, <2>2, <2>4
      <4> QED BY <3>1, <4>1, <4>2, <1>5
    <3>2. ASSUME NEW i \in 1..total' PROVE Listing'[i] \in Registered'
      <4>1. CASE i = total + 1
        BY <4>1, <2>2, <1>5
      <4>2. CASE i \in 1..total
        <5>1. Listing[i] \in Registered
          BY <4>2, <2>1
        <5> QED BY <5>1, <4>2, <2>2, <1>5
      <4> QED BY <3>2, <4>1, <4>2, <2>3
    <3> QED BY <3>1, <3>2
  <2> QED BY <2>5, <2>6 DEF ListedOnce
<1>9. Administrable'
  <2> HIDE DEF project
  <2> QED BY <1>2, <1>3, <1>4, <1>5 DEF Inv, Administrable
<1> QED BY <1>6, <1>7, <1>8, <1>9 DEF Inv

LEMMA UpkeepPreserves ==
  ASSUME RegistryAssumption, Inv, NEW name \in Name, NEW project, Upkeep(name, project)
  PROVE  Inv' /\ Registered' = Registered
<1>1. Listing' = Listing /\ PagesFilled' = PagesFilled
  BY PagesFrame DEF Upkeep
<1>2. projects' = [projects EXCEPT ![name] = project] /\ projects \in [Name -> Project \cup {None}]
  BY DEF Upkeep, Inv, RegistryTypeOK
<1>3. project \in Project /\ project # None /\ name \in Registered
  BY DEF Upkeep, RegistryAssumption
<1>4. Registered' = Registered
  BY <1>2, <1>3 DEF Registered
<1>5. RegistryTypeOK'
  BY <1>2, <1>3 DEF Upkeep, Inv, RegistryTypeOK
<1>6. ListedOnce'
  BY <1>1, <1>4 DEF Upkeep, Inv, ListedOnce
<1>7. Administrable'
  BY <1>2, <1>3, <1>4 DEF Upkeep, Inv, Administrable
<1> QED BY <1>1, <1>4, <1>5, <1>6, <1>7 DEF Inv

LEMMA CommitPreserves ==
  ASSUME RegistryAssumption, Inv,
         NEW maintainer \in Account, NEW name \in Name, NEW hash \in Hash,
         Commit(maintainer, name, hash)
  PROVE  Inv'
<1>1. Listing' = Listing /\ PagesFilled' = PagesFilled
  BY PagesFrame DEF Commit
<1>2. Registered' = Registered /\ name \in Registered
  BY DEF Commit, Registered, IsMaintainer
<1>3. RegistryTypeOK'
  BY DEF Commit, Inv, RegistryTypeOK
<1>4. ListedOnce' /\ Administrable'
  BY <1>1, <1>2 DEF Commit, Inv, ListedOnce, Administrable
<1> QED BY <1>1, <1>3, <1>4 DEF Inv

LEMMA PausePreserves ==
  ASSUME Inv, paused' \in BOOLEAN, UNCHANGED <<projects, pages, total, commits, wallet, vault>>
  PROVE  Inv'
<1>1. Listing' = Listing /\ PagesFilled' = PagesFilled /\ Registered' = Registered
  BY PagesFrame DEF Registered
<1> QED BY <1>1 DEF Inv, RegistryTypeOK, ListedOnce, Administrable

LEMMA InitInv ==
  ASSUME RegistryAssumption, RegistryInit
  PROVE  Inv
<1>1. Registered = {} /\ total = 0
  BY DEF RegistryInit, Registered
<1>2. RegistryTypeOK
  <2>1. DOMAIN pages \subseteq Nat /\ pages \in [DOMAIN pages -> Seq(Name)]
    <3>1. DOMAIN pages = {} /\ pages = <<>>
      BY DEF RegistryInit
    <3>2. <<>> \in Seq(Name)
      OBVIOUS
    <3>3. pages \in [1..0 -> Seq(Name)]
      BY <3>1
    <3> QED BY <3>1, <3>3
  <2>2. /\ paused \in BOOLEAN /\ total \in Nat /\ vault \in Nat /\ wallet \in [Account -> Nat]
        /\ projects \in [Name -> Project \cup {None}]
        /\ commits \in [Name -> Hash \cup {None}]
    BY DEF RegistryInit, RegistryAssumption
  <2> QED BY <2>1, <2>2 DEF RegistryTypeOK
<1>3. PagesFilled
  <2>1. DOMAIN pages = {}
    BY DEF RegistryInit
  <2>2. \A p \in 0..0 : ~(p * MAX_PROJECTS_PER_PAGE < 0)
    BY DEF RegistryAssumption
  <2> QED BY <1>1, <2>1, <2>2 DEF PagesFilled
<1>4. ListedOnce
  BY <1>1 DEF ListedOnce
<1>5. Administrable
  BY <1>1 DEF RegistryInit, Administrable
<1> QED BY <1>2, <1>3, <1>4, <1>5 DEF Inv

LEMMA NextInv ==
  ASSUME RegistryAssumption, Inv, [RegistryNext]_registryVars
  PROVE  Inv'
  BY StepCases, RegisterPreserves, UpkeepPreserves, CommitPreserves, PausePreserves

LEMMA Invariance == RegistrySpec => []Inv
  BY InitInv, NextInv, RegistryAssumption, PTL DEF RegistrySpec

-----------------------------------------------------------------------------
(* Theorems *)

\* The variables of the registry have the types of their storage keys.
THEOREM RegistryTypeCorrect == RegistrySpec => []RegistryTypeOK
  BY Invariance, PTL DEF Inv

\* The pages are those the counter says there are, full but for the last.
THEOREM PagesAreFilled == RegistrySpec => []PagesFilled
  BY Invariance, PTL DEF Inv

\* Every registered project is listed at one position, and nothing else is.
THEOREM ProjectsListedOnce == RegistrySpec => []ListedOnce
  BY Invariance, PTL DEF Inv

\* Every project has a maintainer, whatever its maintainers hand over.
THEOREM AlwaysAdministrable == RegistrySpec => []Administrable
  BY Invariance, PTL DEF Inv

-----------------------------------------------------------------------------
(* Refinement *)

LEMMA MaintainersAreAccounts ==
  ASSUME NEW list \in Seq(Account), list # <<>>
  PROVE  ToSet(list) \in SUBSET Account /\ ToSet(list) # {}
<1>1. 1 \in DOMAIN list /\ \A i \in DOMAIN list : list[i] \in Account
  OBVIOUS
<1> QED BY <1>1 DEF ToSet

\* The mapped initial state is an initial state of the directory.
LEMMA InitRefines ==
  ASSUME RegistryInit
  PROVE  D!Init
<1>1. Listing = <<>>
  <2>1. Listing = [i \in 1..0 |-> pages[PageOf(i - 1)][1 + ((i - 1) % MAX_PROJECTS_PER_PAGE)]]
    BY DEF Listing, RegistryInit
  <2>2. DOMAIN Listing = {} /\ Listing \in [1..0 -> Name]
    BY <2>1
  <2> HIDE DEF Listing
  <2> QED BY <2>2
<1>2. Keepers = [n \in Name |-> {}]
  BY DEF Keepers, RegistryInit
<1> QED BY <1>1, <1>2 DEF D!Init

\* register adds to the directory.
LEMMA RegisterRefines ==
  ASSUME RegistryAssumption, Inv,
         NEW maintainer \in Account, NEW name \in Name,
         NEW maintainers \in MaintainerLists, NEW config \in Config,
         Register(maintainer, name, maintainers, config)
  PROVE  D!Next
<1> DEFINE project == [config |-> config, maintainers |-> maintainers, sub_projects |-> None]
           K == ToSet(maintainers)
<1>1. Listing' = Append(Listing, name)
  BY RegisterAppends DEF Inv
<1>2. maintainers \in Seq(Account) /\ maintainers # <<>>
  BY DEF RegistryAssumption, Register, ToSet
<1>3. K \in SUBSET Account /\ K # {}
  BY <1>2, MaintainersAreAccounts
<1>4. project # None /\ project.maintainers = maintainers
  BY <1>2 DEF RegistryAssumption, Project
<1>5. projects' = [projects EXCEPT ![name] = project] /\ projects[name] = None
  BY DEF Register, IsFree
<1>6. projects \in [Name -> Project \cup {None}]
  BY DEF Inv, RegistryTypeOK
<1>7. Keepers[name] = {} /\ Keepers' = [Keepers EXCEPT ![name] = K]
  <2> HIDE DEF project
  <2> QED BY <1>4, <1>5, <1>6 DEF Keepers
<1>8. D!Add(name, K)
  <2> HIDE DEF K
  <2> QED BY <1>1, <1>3, <1>7 DEF D!Add
<1> QED BY <1>3, <1>8 DEF D!Next

\* Any other call on a project hands it over, perhaps to the keepers it has.
LEMMA UpkeepRefines ==
  ASSUME RegistryAssumption, Inv, NEW name \in Name, NEW project, Upkeep(name, project)
  PROVE  D!Next
<1> DEFINE K == ToSet(project.maintainers)
<1>1. Listing' = Listing
  BY PagesFrame DEF Upkeep
<1>2. /\ projects' = [projects EXCEPT ![name] = project]
      /\ projects \in [Name -> Project \cup {None}]
  BY DEF Upkeep, Inv, RegistryTypeOK
<1>3. project # None /\ project.maintainers \in Seq(Account) /\ project.maintainers # <<>>
  BY DEF Upkeep, Project, RegistryAssumption
<1>4. K \in SUBSET Account /\ K # {}
  BY <1>3, MaintainersAreAccounts
<1>5. Keepers[name] # {}
  <2>1. /\ projects[name] # None
        /\ projects[name].maintainers \in Seq(Account)
        /\ projects[name].maintainers # <<>>
    BY <1>2 DEF Upkeep, Inv, Administrable, Registered, Project
  <2>2. ToSet(projects[name].maintainers) # {}
    BY <2>1, MaintainersAreAccounts
  <2> QED BY <2>1, <2>2 DEF Keepers
<1>6. Keepers' = [Keepers EXCEPT ![name] = K]
  BY <1>2, <1>3 DEF Keepers
<1>7. D!HandOver(name, K)
  <2> HIDE DEF K
  <2> QED BY <1>1, <1>4, <1>5, <1>6 DEF D!HandOver
<1> QED BY <1>4, <1>7 DEF D!Next

LEMMA NextRefines ==
  ASSUME RegistryAssumption, Inv, [RegistryNext]_registryVars
  PROVE  [D!Next]_<<Listing, Keepers>>
<1>1. ASSUME UNCHANGED <<projects, pages, total>>
      PROVE  UNCHANGED <<Listing, Keepers>>
  BY <1>1, PagesFrame DEF Keepers
<1>2. ASSUME NEW maintainer \in Account, NEW name \in Name, NEW hash \in Hash,
             Commit(maintainer, name, hash)
      PROVE  UNCHANGED <<Listing, Keepers>>
  BY <1>1, <1>2 DEF Commit
<1>3. ASSUME UNCHANGED <<projects, pages, total, commits, wallet, vault>>
      PROVE  UNCHANGED <<Listing, Keepers>>
  BY <1>1, <1>3
<1> QED BY StepCases, RegisterRefines, UpkeepRefines, <1>2, <1>3

\* The registry with its pages and counter is a directory: names are only ever
\* added, once and at the end, and none is ever without a keeper.
THEOREM RegistryIsADirectory == RegistrySpec => ImplementsDirectory
<1>1. RegistryInit => D!Init
  BY InitRefines
<1>2. Inv /\ [RegistryNext]_registryVars => [D!Next]_<<Listing, Keepers>>
  BY NextRefines, RegistryAssumption
<1> QED BY <1>1, <1>2, Invariance, PTL DEF RegistrySpec, ImplementsDirectory, D!Spec

-----------------------------------------------------------------------------
(* Entries of a member *)

Unique(entries) ==
  \A i, j \in DOMAIN entries : entries[i].project = entries[j].project => i = j

\* What a member's record says of its badges in a project.
Lookup(entries, name) ==
  LET found == Entries(entries, name) IN
  IF found = {} THEN <<>> ELSE entries[FirstOf(found)].badges

LEMMA BadgesAreLookup ==
  ASSUME NEW a \in Account, NEW name \in Name
  PROVE  BadgesOf(a, name) = IF IsMember(a) THEN Lookup(members[a].projects, name) ELSE <<>>
  BY DEF BadgesOf, Lookup

\* The first of one index is that index.
LEMMA FirstOfOne ==
  ASSUME NEW i \in Nat
  PROVE  FirstOf({i}) = i
  BY DEF FirstOf

\* If no project has two entries, the entries of a project are one or none.
LEMMA LookupUnique ==
  ASSUME NEW entries \in Seq(ProjectBadges), Unique(entries), NEW i \in DOMAIN entries
  PROVE  /\ Entries(entries, entries[i].project) = {i}
         /\ Lookup(entries, entries[i].project) = entries[i].badges
<1>1. Entries(entries, entries[i].project) = {i}
  BY DEF Entries, Unique
<1>2. i \in Nat
  OBVIOUS
<1> QED BY <1>1, <1>2, FirstOfOne DEF Lookup

\* set_badges gives the project the new badges and leaves other projects alone.
LEMMA WithBadgesUpdates ==
  ASSUME NEW entries \in Seq(ProjectBadges), Unique(entries),
         NEW name \in Name, NEW badges \in Seq(Badge)
  PROVE  LET updated == WithBadges(entries, name, badges) IN
         /\ updated \in Seq(ProjectBadges)
         /\ Unique(updated)
         /\ \A p \in Name : Lookup(updated, p) = IF p = name THEN badges ELSE Lookup(entries, p)
<1> DEFINE entry == [project |-> name, badges |-> badges]
           found == Entries(entries, name)
           updated == WithBadges(entries, name, badges)
<1>1. entry \in ProjectBadges
  BY DEF ProjectBadges
<1>2. CASE found = {}
  <2>1. updated = Append(entries, entry)
    BY <1>2 DEF WithBadges
  <2>2. /\ updated \in Seq(ProjectBadges) /\ Len(updated) = Len(entries) + 1
        /\ DOMAIN updated = 1..(Len(entries) + 1)
        /\ \A i \in DOMAIN entries : updated[i] = entries[i]
        /\ updated[Len(entries) + 1] = entry
        /\ DOMAIN entries = 1..Len(entries) /\ Len(entries) \in Nat
    <3> HIDE DEF updated, entry
    <3> QED BY <1>1, <2>1
  <2>3. \A i \in DOMAIN entries : entries[i].project # name
    BY <1>2 DEF Entries
  <2>4. Unique(updated)
    <3> HIDE DEF updated
    <3> QED BY <2>2, <2>3 DEF Unique
  <2>5. ASSUME NEW p \in Name PROVE Lookup(updated, p) = IF p = name THEN badges ELSE Lookup(entries, p)
    <3>1. CASE p = name
      <4>1. Lookup(updated, updated[Len(entries) + 1].project) = updated[Len(entries) + 1].badges
        <5> HIDE DEF updated
        <5> QED BY <2>2, <2>4, LookupUnique
      <4> QED BY <2>2, <3>1, <4>1
    <3>2. CASE p # name
      <4>1. Entries(updated, p) = Entries(entries, p)
        <5> HIDE DEF updated
        <5> QED BY <2>2, <3>2 DEF Entries
      <4>2. ASSUME NEW i \in Entries(entries, p) PROVE Lookup(updated, p) = Lookup(entries, p)
        <5>1. i \in DOMAIN entries /\ entries[i].project = p
          BY <4>2 DEF Entries
        <5>2. Lookup(entries, p) = entries[i].badges
          BY <5>1, LookupUnique
        <5>3. i \in DOMAIN updated /\ updated[i] = entries[i]
          <6> HIDE DEF updated
          <6> QED BY <2>2, <5>1
        <5>4. Lookup(updated, p) = updated[i].badges
          <6> HIDE DEF updated
          <6> QED BY <2>2, <2>4, <5>1, <5>3, LookupUnique
        <5> QED BY <5>2, <5>3, <5>4
      <4>3. CASE Entries(entries, p) = {}
        <5> HIDE DEF updated
        <5> QED BY <3>2, <4>1, <4>3 DEF Lookup
      <4> QED BY <3>2, <4>2, <4>3
    <3> QED BY <3>1, <3>2
  <2> QED BY <2>2, <2>4, <2>5
<1>3. CASE found # {}
  <2>1. PICK k \in DOMAIN entries : entries[k].project = name
    BY <1>3 DEF Entries
  <2>2. found = {k} /\ k \in Nat
    <3>1. Entries(entries, entries[k].project) = {k}
      BY LookupUnique
    <3> QED BY <2>1, <3>1
  <2>3. updated = [entries EXCEPT ![k] = [@ EXCEPT !.badges = badges]]
    BY <1>3, <2>2, FirstOfOne DEF WithBadges
  <2>4. [entries[k] EXCEPT !.badges = badges] = entry
    <3>1. entries[k] \in ProjectBadges
      OBVIOUS
    <3> QED BY <2>1, <3>1 DEF ProjectBadges
  <2>5. /\ updated \in Seq(ProjectBadges)
        /\ DOMAIN updated = DOMAIN entries
        /\ \A i \in DOMAIN entries : i # k => updated[i] = entries[i]
        /\ updated[k] = entry
    <3>1. updated = [entries EXCEPT ![k] = entry]
      BY <2>1, <2>3, <2>4
    <3> HIDE DEF updated, entry
    <3> QED BY <1>1, <2>1, <3>1
  <2>6. \A i \in DOMAIN entries : updated[i].project = entries[i].project
    <3> HIDE DEF updated
    <3> QED BY <2>1, <2>5
  <2>7. Unique(updated)
    <3> HIDE DEF updated
    <3> QED BY <2>5, <2>6 DEF Unique
  <2>8. ASSUME NEW p \in Name PROVE Lookup(updated, p) = IF p = name THEN badges ELSE Lookup(entries, p)
    <3>1. Entries(updated, p) = Entries(entries, p)
      <4> HIDE DEF updated
      <4> QED BY <2>5, <2>6 DEF Entries
    <3>2. CASE p = name
      <4>1. Lookup(updated, updated[k].project) = updated[k].badges
        <5> HIDE DEF updated
        <5> QED BY <2>1, <2>5, <2>7, LookupUnique
      <4> QED BY <2>5, <3>2, <4>1
    <3>3. ASSUME p # name, NEW i \in Entries(entries, p) PROVE Lookup(updated, p) = Lookup(entries, p)
      <4>1. i \in DOMAIN entries /\ entries[i].project = p /\ i # k
        BY <2>1, <3>3 DEF Entries
      <4>2. Lookup(entries, p) = entries[i].badges
        BY <4>1, LookupUnique
      <4>3. Lookup(updated, p) = updated[i].badges
        <5> HIDE DEF updated
        <5> QED BY <2>5, <2>6, <2>7, <4>1, LookupUnique
      <4> QED BY <2>5, <4>1, <4>2, <4>3
    <3>4. CASE Entries(entries, p) = {}
      <4> HIDE DEF updated
      <4> QED BY <3>1, <3>2, <3>4 DEF Lookup
    <3> QED BY <3>2, <3>3, <3>4
  <2> QED BY <2>5, <2>7, <2>8
<1> QED BY <1>2, <1>3

-----------------------------------------------------------------------------
(* The inductive invariant *)

MembershipInv ==
  /\ Inv
  /\ TypeOK
  /\ OneEntryPerProject
  /\ CopiesAgree
  /\ BadgesOfProjects

\* What the invariant says of the record of one member.
LEMMA RecordTyped ==
  ASSUME MembershipInv, MembershipAssumption, NEW a \in Account, IsMember(a)
  PROVE  /\ members[a] \in Member
         /\ members[a].projects \in Seq(ProjectBadges)
         /\ Unique(members[a].projects)
<1>1. members[a] \in Member
  BY DEF MembershipInv, TypeOK, IsMember
<1>2. members[a].projects \in Seq(ProjectBadges)
  BY <1>1 DEF Member
<1>3. Unique(members[a].projects)
  BY DEF MembershipInv, OneEntryPerProject, Unique
<1> QED BY <1>1, <1>2, <1>3

\* Calls that change nothing but a member's description, or add a member.
Description(a, member) ==
  /\ member \in Member
  /\ Unique(member.projects)
  /\ member.projects = IF IsMember(a) THEN members[a].projects ELSE <<>>
  /\ members' = [members EXCEPT ![a] = member]
  /\ UNCHANGED <<registryVars, listed, nqg_project>>

LEMMA AddMemberIsDescription ==
  ASSUME MembershipAssumption, NEW a \in Account, NEW meta \in Meta, AddMember(a, meta)
  PROVE  \E member : Description(a, member)
<1> DEFINE member == [projects |-> <<>>, meta |-> meta]
<1>1. member \in Member
  BY DEF Member
<1>2. Unique(member.projects)
  BY DEF Unique
<1>3. Description(a, member)
  BY <1>1, <1>2 DEF AddMember, Description
<1> QED BY <1>3

LEMMA UpdateMemberIsDescription ==
  ASSUME MembershipInv, MembershipAssumption,
         NEW a \in Account, NEW meta \in Meta, UpdateMember(a, meta)
  PROVE  \E member : Description(a, member)
<1> DEFINE member == [members[a] EXCEPT !.meta = meta]
<1>1. IsMember(a) /\ members[a] \in Member /\ Unique(members[a].projects)
  BY RecordTyped DEF UpdateMember
<1>2. member \in Member /\ member.projects = members[a].projects
  BY <1>1 DEF Member
<1>3. members' = [members EXCEPT ![a] = member]
  BY DEF UpdateMember
<1>4. Description(a, member)
  <2> HIDE DEF member
  <2> QED BY <1>1, <1>2, <1>3 DEF UpdateMember, Description
<1> QED BY <1>4

\* Projects stay registered.
LEMMA ProjectsStay ==
  ASSUME RegistryAssumption, Inv, [RegistryNext]_registryVars
  PROVE  Registered \subseteq Registered'
<1>1. ASSUME NEW maintainer \in Account, NEW name \in Name,
             NEW maintainers \in MaintainerLists, NEW config \in Config,
             Register(maintainer, name, maintainers, config)
      PROVE  Registered \subseteq Registered'
  <2>1. \A n \in Name : n # name => projects'[n] = projects[n]
    BY <1>1 DEF Register, Inv, RegistryTypeOK
  <2>2. projects[name] = None
    BY <1>1 DEF Register, IsFree
  <2> QED BY <2>1, <2>2 DEF Registered
<1>2. ASSUME NEW name \in Name, NEW project, Upkeep(name, project)
      PROVE  Registered \subseteq Registered'
  BY <1>2, UpkeepPreserves
<1>3. ASSUME UNCHANGED projects  PROVE Registered \subseteq Registered'
  BY <1>3 DEF Registered
<1>4. ASSUME NEW maintainer \in Account, NEW name \in Name, NEW hash \in Hash,
             Commit(maintainer, name, hash)
      PROVE  Registered \subseteq Registered'
  BY <1>3, <1>4 DEF Commit
<1> QED BY StepCases, <1>1, <1>2, <1>3, <1>4

LEMMA BadgesFrame ==
  ASSUME UNCHANGED members, NEW a \in Account, NEW name \in Name
  PROVE  BadgesOf(a, name)' = BadgesOf(a, name)
  BY DEF BadgesOf, IsMember, Entries, FirstOf

LEMMA RegistryStepPreserves ==
  ASSUME RegistryAssumption, MembershipAssumption, MembershipInv,
         [RegistryNext]_registryVars, UNCHANGED memberVars
  PROVE  MembershipInv'
<1>1. Inv'
  BY NextInv DEF MembershipInv
<1>2. \A a \in Account, name \in Name : BadgesOf(a, name)' = BadgesOf(a, name)
  BY BadgesFrame DEF memberVars
<1>3. Registered \subseteq Registered'
  BY ProjectsStay DEF MembershipInv
<1>4. TypeOK' /\ OneEntryPerProject'
  BY <1>1 DEF MembershipInv, Inv, TypeOK, OneEntryPerProject, IsMember, memberVars
<1>5. CopiesAgree'
  BY <1>2 DEF MembershipInv, CopiesAgree, memberVars
<1>6. BadgesOfProjects'
  BY <1>2, <1>3 DEF MembershipInv, BadgesOfProjects, memberVars
<1> QED BY <1>1, <1>4, <1>5, <1>6 DEF MembershipInv

LEMMA RegistryFrame ==
  ASSUME UNCHANGED registryVars, Inv
  PROVE  Inv' /\ Registered' = Registered
<1>1. Listing' = Listing /\ PagesFilled' = PagesFilled /\ Registered' = Registered
  BY PagesFrame DEF Registered, registryVars
<1> QED BY <1>1 DEF Inv, RegistryTypeOK, ListedOnce, Administrable, registryVars

LEMMA DescriptionKeepsBadges ==
  ASSUME MembershipAssumption, MembershipInv, NEW a \in Account, NEW member, Description(a, member)
  PROVE  \A b \in Account, name \in Name : BadgesOf(b, name)' = BadgesOf(b, name)
<1>1. /\ members' = [members EXCEPT ![a] = member] /\ members \in [Account -> Member \cup {None}]
      /\ member # None
  BY DEF Description, MembershipInv, TypeOK, MembershipAssumption
<1> SUFFICES ASSUME NEW b \in Account, NEW name \in Name
             PROVE  BadgesOf(b, name)' = BadgesOf(b, name)
  OBVIOUS
<1>2. CASE b = a
  <2>1. BadgesOf(a, name)' = Lookup(member.projects, name)
    BY <1>1 DEF BadgesOf, Lookup, IsMember, Entries, FirstOf
  <2>2. CASE IsMember(a)
    BY <1>2, <2>1, <2>2, BadgesAreLookup DEF Description
  <2>3. CASE ~IsMember(a)
    <3>1. Entries(<<>>, name) = {}
      BY DEF Entries
    <3>2. Lookup(<<>>, name) = <<>>
      BY <3>1 DEF Lookup
    <3> QED BY <1>2, <2>1, <2>3, <3>2, BadgesAreLookup DEF Description
  <2> QED BY <2>2, <2>3
<1>3. CASE b # a
  <2>1. members'[b] = members[b]
    BY <1>1, <1>3
  <2> QED BY <2>1 DEF BadgesOf, IsMember, Entries, FirstOf
<1> QED BY <1>2, <1>3

LEMMA DescriptionPreserves ==
  ASSUME MembershipAssumption, MembershipInv, NEW a \in Account, NEW member, Description(a, member)
  PROVE  MembershipInv'
<1>1. Inv' /\ Registered' = Registered
  BY RegistryFrame DEF Description, MembershipInv
<1>2. \A b \in Account, name \in Name : BadgesOf(b, name)' = BadgesOf(b, name)
  BY DescriptionKeepsBadges
<1>3. members' = [members EXCEPT ![a] = member] /\ members \in [Account -> Member \cup {None}]
  BY DEF Description, MembershipInv, TypeOK
<1>4. members' \in [Account -> Member \cup {None}]
  BY <1>3 DEF Description
<1>5. TypeOK'
  BY <1>1, <1>4 DEF Inv, Description, MembershipInv, TypeOK
<1>6. OneEntryPerProject'
  <2>1. \A b \in Account : b # a => members'[b] = members[b]
    BY <1>3
  <2>2. members'[a] = member
    BY <1>3
  <2> QED BY <2>1, <2>2 DEF Description, Unique, MembershipInv, OneEntryPerProject, IsMember
<1>7. CopiesAgree' /\ BadgesOfProjects'
  BY <1>1, <1>2 DEF Description, MembershipInv, CopiesAgree, BadgesOfProjects
<1> QED BY <1>1, <1>5, <1>6, <1>7 DEF MembershipInv

\* set_badges gives one member other badges in one project, and changes nothing
\* else of what anybody's record says.
LEMMA SetBadgesUpdates ==
  ASSUME MembershipAssumption, MembershipInv,
         NEW maintainer \in Account, NEW name \in Name, NEW member \in Account,
         NEW badges \in Seq(Badge), SetBadges(maintainer, name, member, badges)
  PROVE  /\ members' \in [Account -> Member \cup {None}]
         /\ OneEntryPerProject'
         /\ \A a \in Account, p \in Name :
              BadgesOf(a, p)' = IF a = member /\ p = name THEN badges ELSE BadgesOf(a, p)
<1> DEFINE entries == members[member].projects
           updated == WithBadges(entries, name, badges)
           record  == [members[member] EXCEPT !.projects = updated]
<1>1. IsMember(member) /\ members[member] \in Member /\ entries \in Seq(ProjectBadges) /\ Unique(entries)
  BY RecordTyped DEF SetBadges
<1>2. /\ updated \in Seq(ProjectBadges) /\ Unique(updated)
      /\ \A p \in Name : Lookup(updated, p) = IF p = name THEN badges ELSE Lookup(entries, p)
  <2> HIDE DEF entries
  <2> QED BY <1>1, WithBadgesUpdates
<1>3. record \in Member /\ record.projects = updated /\ record # None
  <2> HIDE DEF updated
  <2> QED BY <1>1, <1>2 DEF Member, MembershipAssumption
<1>4. members' = [members EXCEPT ![member] = record]
  BY DEF SetBadges
<1>5. members \in [Account -> Member \cup {None}]
  BY DEF MembershipInv, TypeOK
<1>6. members'[member] = record /\ \A a \in Account : a # member => members'[a] = members[a]
  <2> HIDE DEF record
  <2> QED BY <1>4, <1>5
<1>7. members' \in [Account -> Member \cup {None}]
  <2> HIDE DEF record
  <2> QED BY <1>3, <1>4, <1>5
<1>8. OneEntryPerProject'
  <2>1. ASSUME NEW a \in Account, members'[a] # None  PROVE Unique(members'[a].projects)
    <3> HIDE DEF record, updated
    <3> QED BY <1>2, <1>3, <1>6, <2>1, RecordTyped DEF IsMember
  <2> QED BY <2>1 DEF OneEntryPerProject, IsMember, Unique
<1>9. ASSUME NEW a \in Account, NEW p \in Name
      PROVE  BadgesOf(a, p)' = IF a = member /\ p = name THEN badges ELSE BadgesOf(a, p)
  <2>1. CASE a = member
    <3>1. BadgesOf(member, p)' = Lookup(record.projects, p)
      <4>1. BadgesOf(member, p)' = IF members'[member] # None
                                   THEN Lookup(members'[member].projects, p) ELSE <<>>
        BY DEF BadgesOf, Lookup, IsMember
      <4> HIDE DEF record
      <4> QED BY <1>3, <1>6, <4>1
    <3>2. BadgesOf(member, p) = Lookup(entries, p)
      BY <1>1, BadgesAreLookup
    <3>3. Lookup(record.projects, p) = Lookup(updated, p)
      BY <1>3
    <3> HIDE DEF record, updated, entries
    <3> QED BY <1>2, <2>1, <3>1, <3>2, <3>3
  <2>2. CASE a # member
    <3>1. members'[a] = members[a]
      BY <1>6, <2>2
    <3> QED BY <2>2, <3>1 DEF BadgesOf, IsMember, Entries, FirstOf
  <2> QED BY <2>1, <2>2
<1> QED BY <1>7, <1>8, <1>9

LEMMA SetBadgesPreserves ==
  ASSUME MembershipAssumption, MembershipInv,
         NEW maintainer \in Account, NEW name \in Name, NEW member \in Account,
         NEW badges \in Seq(Badge), SetBadges(maintainer, name, member, badges)
  PROVE  MembershipInv'
<1>1. Inv' /\ Registered' = Registered /\ name \in Registered
  BY RegistryFrame DEF SetBadges, MembershipInv, IsMaintainer, Registered
<1>2. /\ members' \in [Account -> Member \cup {None}]
      /\ OneEntryPerProject'
      /\ \A a \in Account, p \in Name :
           BadgesOf(a, p)' = IF a = member /\ p = name THEN badges ELSE BadgesOf(a, p)
  BY SetBadgesUpdates
<1>3. /\ listed \in [Name -> [Kind -> [Account -> Nat]]]
      /\ listed' = [listed EXCEPT ![name] = Relisted(listed[name], member, badges)]
  BY DEF SetBadges, MembershipInv, TypeOK
<1>4. /\ listed' \in [Name -> [Kind -> [Account -> Nat]]]
      /\ \A n \in Name, kind \in Kind, a \in Account :
           listed'[n][kind][a] =
             IF n = name /\ a = member THEN IF kind \in ToSet(badges) THEN 1 ELSE 0
             ELSE listed[n][kind][a]
  <2> DEFINE lists == Relisted(listed[name], member, badges)
  <2>1. /\ lists \in [Kind -> [Account -> Nat]]
        /\ \A kind \in Kind, a \in Account :
             lists[kind][a] = IF a = member THEN IF kind \in ToSet(badges) THEN 1 ELSE 0
                              ELSE listed[name][kind][a]
    BY <1>3 DEF Relisted
  <2> HIDE DEF lists
  <2>2. \A n \in Name : listed'[n] = IF n = name THEN lists ELSE listed[n]
    BY <1>3 DEF lists
  <2>3. listed' \in [Name -> [Kind -> [Account -> Nat]]]
    BY <1>3, <2>1 DEF lists
  <2> QED BY <2>1, <2>2, <2>3
<1>5. TypeOK'
  BY <1>1, <1>2, <1>4 DEF SetBadges, Inv, MembershipInv, TypeOK
<1>6. CopiesAgree'
  <2>1. \A n \in Name, kind \in Kind, a \in Account :
          listed[n][kind][a] = IF kind \in ToSet(BadgesOf(a, n)) THEN 1 ELSE 0
    BY DEF MembershipInv, CopiesAgree
  <2>2. ASSUME NEW n \in Name, NEW kind \in Kind, NEW a \in Account
        PROVE  listed'[n][kind][a] = IF kind \in ToSet(BadgesOf(a, n)') THEN 1 ELSE 0
    <3>1. CASE n = name /\ a = member
      BY <1>2, <1>4, <3>1
    <3>2. CASE ~(n = name /\ a = member)
      <4>1. BadgesOf(a, n)' = BadgesOf(a, n) /\ listed'[n][kind][a] = listed[n][kind][a]
        BY <1>2, <1>4, <3>2
      <4> QED BY <2>1, <4>1
    <3> QED BY <3>1, <3>2
  <2> QED BY <2>2 DEF CopiesAgree
<1>7. BadgesOfProjects'
  <2> SUFFICES ASSUME NEW a \in Account, NEW n \in Name, n \notin Registered
               PROVE  BadgesOf(a, n)' = <<>> /\ \A kind \in Kind : listed'[n][kind][a] = 0
    BY <1>1 DEF BadgesOfProjects
  <2>1. n # name
    BY <1>1
  <2>2. BadgesOf(a, n) = <<>> /\ \A kind \in Kind : listed[n][kind][a] = 0
    BY DEF MembershipInv, BadgesOfProjects
  <2> QED BY <1>2, <1>4, <2>1, <2>2
<1> QED BY <1>1, <1>2, <1>5, <1>6, <1>7 DEF MembershipInv

LEMMA SetNqgContractPreserves ==
  ASSUME MembershipInv, NEW name \in Name, nqg_project' = name,
         UNCHANGED <<registryVars, members, listed>>
  PROVE  MembershipInv'
<1>1. Inv' /\ Registered' = Registered
  BY RegistryFrame DEF MembershipInv
<1>2. \A a \in Account, p \in Name : BadgesOf(a, p)' = BadgesOf(a, p)
  BY BadgesFrame
<1>3. TypeOK' /\ OneEntryPerProject'
  BY <1>1 DEF Inv, MembershipInv, TypeOK, OneEntryPerProject, IsMember
<1>4. CopiesAgree' /\ BadgesOfProjects'
  BY <1>1, <1>2 DEF MembershipInv, CopiesAgree, BadgesOfProjects
<1> QED BY <1>1, <1>3, <1>4 DEF MembershipInv

LEMMA MembershipInit ==
  ASSUME RegistryAssumption, MembershipAssumption, Init
  PROVE  MembershipInv
<1>1. Inv
  BY InitInv DEF Init
<1>2. \A a \in Account, n \in Name : BadgesOf(a, n) = <<>>
  BY DEF Init, BadgesOf, IsMember
<1>3. TypeOK
  BY <1>1 DEF Init, Inv, TypeOK
<1>4. OneEntryPerProject
  BY DEF Init, OneEntryPerProject, IsMember
<1>5. ToSet(<<>>) = {}
  BY DEF ToSet
<1>6. CopiesAgree
  BY <1>2, <1>5 DEF Init, CopiesAgree
<1>7. BadgesOfProjects
  BY <1>2 DEF Init, BadgesOfProjects
<1> QED BY <1>1, <1>3, <1>4, <1>6, <1>7 DEF MembershipInv

-----------------------------------------------------------------------------
(* Steps *)

\* Every step is one of four kinds.
LEMMA MembershipSteps ==
  ASSUME MembershipAssumption, MembershipInv, [Next]_vars
  PROVE  \/ [RegistryNext]_registryVars /\ UNCHANGED memberVars
         \/ \E a \in Account : \E member : Description(a, member)
         \/ \E maintainer \in Account, name \in Name, member \in Account, badges \in Seq(Badge) :
               SetBadges(maintainer, name, member, badges)
         \/ /\ \E name \in Name : nqg_project' = name
            /\ UNCHANGED <<registryVars, members, listed>>
<1>1. CASE UNCHANGED vars
  BY <1>1 DEF vars
<1>2. CASE RegistryNext /\ UNCHANGED memberVars
  BY <1>2
<1>3. ASSUME NEW a \in Account, NEW meta \in Meta, AddMember(a, meta) \/ UpdateMember(a, meta)
      PROVE  \E member : Description(a, member)
  BY <1>3, AddMemberIsDescription, UpdateMemberIsDescription
<1>4. ASSUME NEW a \in Account, NEW name \in Name, SetNqgContract(a, name)
      PROVE  nqg_project' = name /\ UNCHANGED <<registryVars, members, listed>>
  BY <1>4 DEF SetNqgContract
<1>5. ASSUME NEW badges \in BadgeLists  PROVE badges \in Seq(Badge)
  BY DEF MembershipAssumption
<1>6. ASSUME NEW a \in Account, MemberNext(a)
      PROVE  \/ \E member : Description(a, member)
             \/ \E name \in Name, member \in Account, badges \in Seq(Badge) :
                   SetBadges(a, name, member, badges)
             \/ /\ \E name \in Name : nqg_project' = name
                /\ UNCHANGED <<registryVars, members, listed>>
  BY <1>3, <1>4, <1>5, <1>6 DEF MemberNext
<1> QED BY <1>1, <1>2, <1>6 DEF Next

LEMMA MembershipNext ==
  ASSUME RegistryAssumption, MembershipAssumption, MembershipInv, [Next]_vars
  PROVE  MembershipInv'
<1>1. ASSUME NEW name \in Name, nqg_project' = name, UNCHANGED <<registryVars, members, listed>>
      PROVE  MembershipInv'
  BY <1>1, SetNqgContractPreserves
<1> QED BY MembershipSteps, RegistryStepPreserves, DescriptionPreserves, SetBadgesPreserves, <1>1

LEMMA MembershipInvariance == Spec => []MembershipInv
  BY MembershipInit, MembershipNext, RegistryAssumption, MembershipAssumption, PTL DEF Spec

-----------------------------------------------------------------------------
(* Voting power *)

\* How often a list has a badge: not at all iff the badge is not in it.
LEMMA CountOf ==
  ASSUME NEW badges \in Seq(Badge), NEW badge
  PROVE  /\ Count(badges, badge) \in Nat
         /\ Count(badges, badge) = 0 <=> badge \notin ToSet(badges)
<1> DEFINE places == {i \in DOMAIN badges : badges[i] = badge}
<1>1. IsFiniteSet(1..Len(badges))
  BY FS_Interval
<1>2. places \subseteq 1..Len(badges)
  OBVIOUS
<1>3. IsFiniteSet(places)
  <2> HIDE DEF places
  <2> QED BY <1>1, <1>2, FS_Subset
<1>4. Cardinality(places) \in Nat /\ (Cardinality(places) = 0 <=> places = {})
  <2> HIDE DEF places
  <2> QED BY <1>3, FS_CardinalityType, FS_EmptySet
<1>5. places = {} <=> badge \notin ToSet(badges)
  BY DEF ToSet
<1> QED BY <1>4, <1>5 DEF Count

\* The power that a list of badges gives is what the lists of a project show.
LEMMA InvPower ==
  ASSUME WidthAssumption, MembershipAssumption, MembershipInv
  PROVE  PowerAsShown
<1> SUFFICES ASSUME nqg_project # None, NEW n \in Name \ {nqg_project}, NEW a \in Account,
                    \A badge \in Badge : Count(BadgesOf(a, n), badge) <= 1
             PROVE  get_max_weight(n, a) = IF BadgesOf(a, n) = <<>> THEN 1
                      ELSE ShownWeight(n, a) + Count(BadgesOf(a, n), "Default")
  BY DEF PowerAsShown
<1> DEFINE list == BadgesOf(a, n)
<1>1. list \in Seq(Badge)
  <2>1. CASE ~IsMember(a)
    BY <2>1 DEF BadgesOf
  <2>2. CASE IsMember(a)
    <3>1. members[a].projects \in Seq(ProjectBadges) /\ Unique(members[a].projects)
      BY <2>2, RecordTyped
    <3>2. list = Lookup(members[a].projects, n)
      BY <2>2, BadgesAreLookup
    <3>3. ASSUME NEW i \in Entries(members[a].projects, n)  PROVE list \in Seq(Badge)
      <4>1. i \in DOMAIN members[a].projects /\ members[a].projects[i].project = n
        BY <3>3 DEF Entries
      <4>2. list = members[a].projects[i].badges
        BY <3>1, <3>2, <4>1, LookupUnique
      <4>3. members[a].projects[i] \in ProjectBadges
        BY <3>1, <4>1
      <4> QED BY <4>2, <4>3 DEF ProjectBadges
    <3>4. CASE Entries(members[a].projects, n) = {}
      <4>1. list = <<>>
        BY <3>2, <3>4 DEF Lookup
      <4> QED BY <4>1
    <3> QED BY <3>3, <3>4
  <2> QED BY <2>1, <2>2
<1>2. ASSUME NEW kind \in Kind  PROVE Count(list, kind) = listed[n][kind][a]
  <2>1. listed[n][kind][a] = IF kind \in ToSet(list) THEN 1 ELSE 0
    BY DEF MembershipInv, CopiesAgree
  <2>2. Count(list, kind) \in Nat /\ (Count(list, kind) = 0 <=> kind \notin ToSet(list))
    BY <1>1, CountOf
  <2>3. Count(list, kind) <= 1
    BY DEF Badge
  <2> HIDE DEF list
  <2> QED BY <2>1, <2>2, <2>3
<1>3. Count(list, "Default") \in Nat /\ Count(list, "Default") <= 1
  <2>1. Count(list, "Default") \in Nat
    <3> HIDE DEF list
    <3> QED BY <1>1, CountOf
  <2>2. "Default" \in Badge
    BY DEF Badge
  <2>3. Count(list, "Default") <= 1
    BY <2>2
  <2> QED BY <2>1, <2>3
<1>4. ASSUME NEW kind \in Kind  PROVE listed[n][kind][a] \in 0..1
  BY DEF MembershipInv, CopiesAgree
<1>5. WeightSum(list) = ShownWeight(n, a) + Count(list, "Default")
  <2> DEFINE d == listed[n]["Developer"][a]
             t == listed[n]["Triage"][a]
             c == listed[n]["Community"][a]
             v == listed[n]["Verified"][a]
             z == Count(list, "Default")
  <2>1. /\ Count(list, "Developer") = d /\ Count(list, "Triage") = t
        /\ Count(list, "Community") = c /\ Count(list, "Verified") = v
    BY <1>2 DEF Kind
  <2>2. d \in 0..1 /\ t \in 0..1 /\ c \in 0..1 /\ v \in 0..1 /\ z \in Nat
    BY <1>3, <1>4 DEF Kind
  <2>3. /\ WeightSum(list) = 10000000 * d + 5000000 * t + 1000000 * c + 500000 * v + 1 * z
        /\ ShownWeight(n, a) = 10000000 * d + 5000000 * t + 1000000 * c + 500000 * v
    <3> HIDE DEF list
    <3> QED BY <2>1, SMT DEF WeightSum, ShownWeight, BadgeWeight
  <2> HIDE DEF d, t, c, v, z, list
  <2> QED BY <2>2, <2>3, SMT DEF z
<1>6. WeightSum(list) < U32
  <2>1. ShownWeight(n, a) <= 16500000
    BY <1>4, SMT DEF ShownWeight, BadgeWeight, Kind
  <2>2. ShownWeight(n, a) \in Nat
    BY <1>4, SMT DEF ShownWeight, BadgeWeight, Kind
  <2> HIDE DEF list
  <2> QED BY <1>3, <1>5, <2>1, <2>2, SMT DEF WidthAssumption
<1>7. CASE list = <<>>
  <2>1. get_max_weight(n, a) = 1
    BY <1>7, SMT DEF get_max_weight, BadgeWeight
  <2> QED BY <1>7, <2>1
<1>8. CASE list # <<>>
  <2>1. get_max_weight(n, a) = SumOrPanic(list)
    BY <1>8 DEF get_max_weight
  <2>2. SumOrPanic(list) = WeightSum(list)
    BY <1>6 DEF SumOrPanic
  <2> QED BY <1>5, <1>8, <2>1, <2>2
<1> QED BY <1>7, <1>8

-----------------------------------------------------------------------------
(* Theorems *)

\* The variables have the types of their storage keys.
THEOREM MembershipTypeCorrect == Spec => []TypeOK
  BY MembershipInvariance, PTL DEF MembershipInv

\* A member has one entry per project.
THEOREM OneEntry == Spec => []OneEntryPerProject
  BY MembershipInvariance, PTL DEF MembershipInv

\* The record of a member and the lists of the projects agree.
THEOREM BadgeCopiesAgree == Spec => []CopiesAgree
  BY MembershipInvariance, PTL DEF MembershipInv

\* Badges are only of registered projects.
THEOREM BadgesAreOfProjects == Spec => []BadgesOfProjects
  BY MembershipInvariance, PTL DEF MembershipInv

\* Whoever got each badge once has the power that the lists show.
THEOREM PowerIsAsShown == Spec => []PowerAsShown
<1>1. MembershipInv => PowerAsShown
  BY InvPower, WidthAssumption, MembershipAssumption
<1> QED BY <1>1, MembershipInvariance, PTL

\* One call changes the badges of one member in one project at most.
THEOREM BadgesChangeSingly == Spec => OnePairPerCall
<1> DEFINE Singly == \A x, y \in ChangedPairs : x = y
           Same == \A a \in Account, p \in Name : BadgesOf(a, p)' = BadgesOf(a, p)
<1>1. MembershipInv /\ [Next]_vars => [Singly]_vars
  <2> SUFFICES ASSUME MembershipInv, [Next]_vars
               PROVE  Singly
    OBVIOUS
  <2>1. ASSUME NEW m \in Account, NEW n \in Name, NEW maintainer \in Account,
               NEW badges \in Seq(Badge), SetBadges(maintainer, n, m, badges)
        PROVE  Singly
    <3>1. \A a \in Account, p \in Name :
            BadgesOf(a, p)' = IF a = m /\ p = n THEN badges ELSE BadgesOf(a, p)
      BY <2>1, SetBadgesUpdates, MembershipAssumption
    <3>2. \A x \in ChangedPairs : x = <<m, n>>
      BY <3>1 DEF ChangedPairs
    <3> QED BY <3>2
  <2>2. (\E a \in Account : \E member : Description(a, member)) => Same
    BY DescriptionKeepsBadges, MembershipAssumption
  <2>3. UNCHANGED members => Same
    BY BadgesFrame
  <2>4. Same => Singly
    BY DEF ChangedPairs
  <2> HIDE DEF Same, Singly
  <2>5. UNCHANGED memberVars => UNCHANGED members
    BY DEF memberVars
  <2> QED BY MembershipSteps, MembershipAssumption, <2>1, <2>2, <2>3, <2>4, <2>5
<1> QED BY <1>1, MembershipInvariance, PTL DEF Spec, OnePairPerCall
=============================================================================
