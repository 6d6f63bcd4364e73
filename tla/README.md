# Tansu: formal models, model checking and proofs

This directory holds TLA+ models of Tansu, a governance platform for open
source projects on Stellar: modules, TLC configurations, theorems with proofs
checked by TLAPS, and `PROJECT.json`, which lists components, runs, mutants, the
source lines each definition stands for, findings, hazards and theorems.

Run a model with `tlc -config MCDao.cfg MCDao.tla`, a proof with
`tlapm DaoProofs.tla`.

## 1. Inventory

### 1.1 Components

| Component (source) | State it keeps | Operations | Hard behaviour |
|---|---|---|---|
| **Contract, DAO** (`contracts/tansu/src/contract_dao.rs`) | proposals in pages, votes, list of voters, running tallies, conflict lists, collateral in one account | `create_proposal`, `vote`, `remove_vote`, `revoke_proposal`, `execute`, `add/remove_conflict_of_interest`, `anonymous_voting_setup` | any account calls in any order, clock, redundant bookkeeping (votes / voters / tallies / funds), changing badges and settings |
| **Contract, administration** (`contract_tansu.rs`) | paused, admins and threshold, pending upgrade, collateral and NQG contracts | `pause`, `propose_/approve_/finalize_upgrade`, `set_*_contract` | administrators replaced while motions and approvals are pending, timelock |
| **Contract, memberships** (`contract_membership.rs`) | member -> badges per project, project -> members per badge | `add_member`, `update_member`, `set_badges`, `get_max_weight`, `get_nqg` | double bookkeeping, external voting power cut to 32 bits |
| **Contract, projects** (`contract_versioning.rs`) | projects, pages of keys, last commit, sub-projects | `register`, `update_config`, `commit`, `set_sub_projects` | pages computed from counters, maintainers who lock themselves out |
| **SCF membership token** (`contracts/scf-membership/src`) | owner and trait of tokens, balances, governance tree | `mint`, `clawback`, `set_trait`, `upgrade`, `governance` | balances kept beside owners |
| **Event indexer** (`tansu/src/tansu/events`) | event table with a unique key, backfill checkpoint, advisory lock | poll cycles, `backfill` | processes started at once, crash and resumption, a lock that is lost with its connection |
| **IPFS delegation worker** (`dapp/workers/ipfs-delegation/src`) | two sliding windows per caller in a key-value store | checks, charges, import with retries, background pin | read-modify-write by concurrent requests, partial failure |
| **Client, query cache** (`dapp/src/service/cache`) | entries with data, staleness, expiry, promise | fetch, join, invalidate, hydrate | answers out of order, fetchers that call back into the cache |
| **Client, transactions** (`FlowService`, `ContractService`, `TxService`, `ipfsFunctions`) | the flow of a click, the connected account | pack, build, sign, upload, send, poll | lost answers and retries, the wallet changing meanwhile |
| **Client, voting and execution** (`utils/anonymousVoting`, `VotingModal`, `ExecuteProposalModal`, ...) | keys and their files, ballots on their way, the window of an execution | seal, vote, open, tally, execute | keys replaced while ballots are cast, stale ballots on a page |
| **Client, proposal form** (`CreateProposalModal`) | a draft that outlives its window, submissions that outlive it too | nine steps | back and forth, clamped dates, outcomes by position |
| **Client, project pages and forms** (`StateService`, `UpdateConfigModal`, `CreateProjectModal`, ...) | what the session holds of a project, two forms, flows | visits, reads, edits, submission | four stores set one by one by answers that come late |
| **Client, members** (`ProjectList` search, `MemberProfileModal`, `EditProfileModal`, `JoinCommunityModal`) | search, windows, forms | search, look, edit, join | lookups out of order, accounts that change |
| **Client, list editors** (`ManageSubProjectsModal`, `ConflictOfInterestModal`, `AddBadgeModal`, `UpdateHashModal`) | a list in a window | replace as a whole, add, remove | others change the same list |
| Interface of the contract, HTTP reads, metadata, bindings, website | - | - | no protocol of their own |

### 1.2 Interactions

* The **ledger** serialises contract calls. A call that panics is rolled back
  with everything it did, calls it made to token contracts included. An action
  of the contract's models is therefore one *successful* call; every panic is a guard.
* The DAO reads the pause flag, the admins and the collateral contract from the
  administration, the maintainers from the project, the voting power from the
  memberships, and moves collateral through token contracts. Executing a
  proposal calls the outcome contract named for the decision.
* The **client** is single-threaded; what interleaves are its callbacks. An action
  of its models is what runs between two awaits: the answer of the node, of the
  worker or of the wallet is a step of its own, and everything else may come in
  between. It reads the contract through its **cache** and submits calls through
  its **flows**, which delegate content to the **worker** before the transaction
  that names it is sent. `PinningService` is what the worker promises, what it is
  shown to keep, and what the flows are checked against.
* The **windows** of the site collect what a flow submits. They share no state with
  each other, only with the page below them, which is part of each model.
* The **indexer** copies the contract's events from a node to a database.

### 1.3 What makes each component correct

* DAO: the decision is what the stored ballots say; it is made once and is
  final; ballots are open to review for a timelock; the contract can always
  repay what it holds in trust, and nobody gains or loses except what was
  struck or revoked; tallies and ballots agree.
* Administration: code and administrators change only with a quorum of the
  administrators in office, given to that very motion, after the timelock.
* Projects and memberships: each project on the pages once; both copies of a badge
  agree; badges are of registered projects.
* Token: balances are the totals of owned tokens.
* Indexer: nothing is missing of what the checkpoint says is done, whatever
  crashed; and a backfill that is started until it ends well ends well.
* Worker: no span of time exceeds the budget by more than the approximation
  allows; nothing is stored that was not paid for; every upload is answered; a
  success means pinned content.
* Cache: no answer older than an own reported transaction counts as fresh, no
  spinner turns for ever, outdated data are replaced.
* Flows: the ledger names only pinned content, a reported proposal or donation
  exists, every signed flow ends.
* Voting: a computed tally is accepted, the shown result is the decided one, sealed
  ballots can be opened.
* Forms: what is sent was checked, agrees with what was shown, is for what it was
  written for, and leaves the rest as it was.

The hazards behind this list, each at the line where it bites and with the
properties that cover it, are in `PROJECT.json`.

## 2. Modules

| Module | What it is |
|---|---|
| `Totals` | sums of natural numbers over a finite set, defined by `Cardinality` so that they can be proved about |
| `Dao` | the DAO of the contract with pause, collateral setting and badges as its environment |
| `Referendum`, `DaoRefinement` | abstract specification, what the DAO promises about a vote, and the mapping to it |
| `DaoDocs` | what the documentation says of the DAO where the code differs |
| `DaoProofs` | lemmas on totals and lists; the DAO's inductive invariant; decisions: finality, review, outcome, refinement of `Referendum`; money: solvency, conservation, settlements that are funded |
| `MCDao` | values of the constants for TLC |
| `Upgrade` | administrators, pause, upgrade motions |
| `Registry` | projects, the pages that list them, maintainers, commits |
| `Directory`, `RegistryRefinement` | abstract specification of the registry, and the mapping |
| `Membership`, `MCProjects` | members, both copies of their badges, voting power, extending `Registry`; values for TLC |
| `ProjectsProofs` | theorems about `Registry` and `Membership` |
| `ScfMembership` | the membership token |
| `Indexer` | backfills, checkpoints, lock and poller |
| `MCOperations`, `OperationsProofs` | a behaviour of `Upgrade`, of `Indexer` or of `ScfMembership`, with the values of all; theorems about each and about all |
| `QueryCache`, `CacheProofs`, `MCQueryCache` | the cache under the proposal page and the proposal list; theorems; values for TLC |
| `PinningService` | abstract specification: what a delegated upload is |
| `Delegation`, `DelegationProofs`, `MCDelegation` | the worker, refining `PinningService`; theorems; values for TLC |
| `Publishing`, `PublishingProofs`, `MCPublishing` | the flows of the client, over `PinningService` and the network; theorems; values for TLC |
| `Workspace` | what a session holds of a project |
| `ProjectForms`, `ProjectFormsProofs`, `MCProjectForms` | the forms that write a project's config, extending `Workspace`; theorems about both; values for TLC |
| `Proposing`, `MCProposing` | the window in which a proposal is written |
| `Ballots` | voting, keys, tallies and execution as the client does them |
| `Members` | search, profiles, joining |
| `Editors` | the windows over a list |
| `MCDialogs`, `DialogsProofs` | a session at one of `Proposing`, `Ballots`, `Members`, `Editors`, with the values for TLC; theorems about each |

The operators headed "Faulty variants" in the modules are not part of the models;
the mutants of `PROJECT.json` put them in the place of definitions.

### 2.1 `Dao`

State. Each variable is a storage key (the comment at its declaration names
it). A stored proposal is split in what never changes (`proposal`) and its
`status`. `votes`, `voters` and `tallies` are kept apart as in the code, where
they are three keys. `wallet` and `vault` are the balances of the callers and of
the contract in the token contracts, which are external: a transfer needs the
balance and moves it. `invoked` records the calls to outcome contracts, `slashed`
the collateral of struck votes; the latter is history and no guard reads it.

Actions. `CreateProposal`, `Vote`, `RemoveVote`, `RevokeProposal`, `Execute`,
`AddConflictOfInterest`, `RemoveConflictOfInterest`, `AnonymousVotingSetup` are
the calls of the trait of the same name. `Pause` and `SetCollateralContract` are
calls of the administration; `SetBadges` stands for `set_badges` and gives an
account the voting power `get_max_weight` would return; `Tick` is the ledger's
clock.

Details worth knowing when reading the module next to the code:

* The proposer's abstention of weight 0 is recorded when the proposal is
  created, is listed in `voters`, and counts towards `MAX_VOTES_PER_PROPOSAL`.
  Its collateral is locked when votes are paid in collateral, and not otherwise:
  on a token-based proposal its stake is its weight, zero.
* `vote` requires `now < voting_ends_at`; `execute` requires
  `now >= voting_ends_at + TIMELOCK_DELAY`; `remove_vote`, `revoke_proposal` and
  the conflict list are possible as long as the proposal is active.
* `execute` follows the list of voters and repays each listed account whose vote
  is stored, plus the proposer; `Listed` is how often the list names an account.
* The collateral contract is looked up by the call that needs it, so `StakeAsset`
  refers to the present setting, at the time of a vote and of a refund.

Abstractions.

* Amounts are in whole units of an asset. Titles, descriptions and their length
  limits, events and error codes are left out.
* The pages of proposals are abstracted to `Capacity`
  (`MAX_PAGES * MAX_PROPOSALS_PER_PAGE`), a proposal to its project and id.
* An anonymous proposal keeps commitments; the model keeps the totals they
  commit to, and `execute` accepts an opening iff it names these totals
  (the commitments are binding, and whoever has the key can open them). Ballots
  are assumed to be built by the client, with one choice of value one; what the
  client builds and what it opens is `Ballots`. `vote` itself accepts any three
  points of the group (a listed hazard). Any opening up to `MaxClaim` is tried.
* The maintainers of projects and the administrators are constants here; they
  are variables of `Upgrade` and of `Registry`.
* `validate_contract`, which compares the code of an external contract with an
  expected hash, is assumed to succeed, the key of the NQG project to be set
  (`Membership` does not assume it), and every account to be able to receive the asset.
* Outcome contracts are calls that succeed; a call that fails rolls `execute`
  back, and is no action.

### 2.2 `Upgrade`

`config`, `wasm`, `motion`, `paused` are storage keys (`wasm` is the code the
ledger runs for the contract). `motions`, `opened` and `consent` are history:
the number of motions, when the last was made, and which motion an account last
stood behind. They let the properties say "this very motion", which the code's
`approve_upgrade` does not name. `FinalizeUpgrade(admin, FALSE)` is the
cancellation any one administrator may do. `Uploaded` is the code on the ledger:
installing anything else fails and is rolled back.

### 2.3 `Registry`

`projects`, `pages`, `total` and `commits` are the storage keys of the same
content. A project's key is the hash of its name; since only equality of keys
matters and the hash is assumed to be injective, the name stands for both. `Register`,
`UpdateConfig`, `SetSubProjects`, `Commit` are the calls; `Pause` is the
administration's, and the contract starts paused, as the constructor leaves it.

* `pages` is a function on the pages that are *stored*: a page comes into being
  when the first key is written to it, and `get_projects` panics for the others.
* A name is a model value with a length and the fact whether it is alphanumeric.
* `register` requires the caller among the maintainers it names; `update_config`
  only that the new list is not empty, so a caller may drop itself.
* The collateral of a registration is never returned; the contract's share of it
  is `vault`. The collateral contract is assumed to be configured.

`Directory` is what this promises: a log to which each name is added once, which
never moves anything, and in which each name always has a keeper.
`RegistryRefinement` reads the log off the pages by the counter.

### 2.4 `Membership`

Extends `Registry`: its `Next` is a call of either. `members` is the record of
each account, a sequence with an entry per project; `listed` holds how often
each list of a project (developer, triage, community, verified) names an
account. The order of these lists, which nothing reads, is left out.
`WithBadges` is the loop of `set_badges` that replaces the *first* entry of the
project or appends one, `Relisted` its second loop. `get_max_weight` returns
`None` where the code panics: before `set_nqg_contract` has been called, and when
the sum of the weights overflows (the release profile has overflow checks).

* The quorum contract is external: `Power` is its answer for an account, `None`
  when the call fails. Negative answers, and answers that do not fit 128 bits
  (which panic), are left out. The cut to 32 bits is modelled (`% U32`).
* `set_nqg_contract` takes the name of any project, registered or not.

### 2.5 `ScfMembership`

`owner`, `balances`, `roles`, `next_token_id` are the storage keys. The admin is
fixed by the constructor. `Moved` is the order of reads and writes of `clawback`:
the owner's balance is written before the admin's is read, which matters when
the two are one. `Values` are the values tried for a role, beyond both ends too.

### 2.6 `Indexer`

`table` and `checkpoint` are the database, `lock` PostgreSQL's advisory lock,
`chain` and `latest` the node. A run keeps in memory what `backfill_events` has in
its locals: the checkpoint it loaded, the tip it captured, the cursor, what is
pending until the next checkpoint, the ledger last seen and last recorded, and the
attempt it is at.

* A run loads the checkpoint (`Start`), then takes the lock or is refused (`Locked`,
  `Refused`), then fetches page after page; `CommitProgress` is one transaction,
  the events not stored yet and the checkpoint. `Ends` gives the lock up if the
  connection still has it.
* Faults: `PageFails` (a request that is repeated up to `max_retries` times),
  `Crash` at any step, `ConnectionLost` (the lock goes, its holder does not know),
  `PollFails`; together at most `MaxFaults`.
* The poller takes one page of the last ledgers and inserts all of it or, when one row is
  there already, nothing, as the code and its tests say.
* The content of an event stands for the columns of the unique key. A later request
  of a run names the cursor alone, and so returns what came after the tip, too.
* A checkpoint made for another first ledger is refused before anything happens,
  and left out; the node's retention is taken to cover all the model's ledgers.

### 2.7 `QueryCache`

`entries` is the registry (`data`, `fetching`, `stale`, `expires`, `promise`),
`requests` the calls of `fetchWithCache` that are not settled, `landed` the
member's own transactions whose result is not known yet, `floor` the versions that
reported ones have made. Values are the versions of what is read: of the proposal
and of the list. Request ids are compared for equality only, so the model keeps
whether a request is current.

* `FetchRaw` and `FetchList` are the two screens' fetchers; the latter calls the
  cache for its own key from within the request, and `Hydrate` for the proposal's.
* The list is one page of the contract's: with more, the screen's fetcher awaits two of
  them, under keys that number other pages than its own does.
* `Stored` drops what is not current. `Resumed` is the continuation of whoever
  awaited a promise. `Confirm` is the invalidation a flow makes on success, for every
  key with one of its prefixes.
* The clock alone wakes no effect (`Woken`); a screen mounted later does (`Effect`).

### 2.8 `PinningService` and `Delegation`

`Delegation` is the worker's handler: the checks in their order (`Flaw`, the first thing
wrong with a request), then the two charges concurrently, each a read of two
buckets and a write (`ReadBuckets`, `WriteBucket`, `StoreFails`), then
`Authorize`, the import with its attempts, the answer, and the mirror that nobody
awaits. The store has no transactions and expires entries. (That it may also
answer an older value than the last one written, as a store spread over the world may,
is left out.) `charged` and `raced`
are history: what was charged when, and whether a charge was overtaken between
its read and its write by another or by the clock.

* Uploads share the address and the account, the worst case for the budgets.
* `Reply` is what Filebase may say of an import. The comparison with the root it
  returned is thrown inside the block that catches it, so only a text that does not
  name the content at all is refused (`Confirms`).

`PinningService` is the promise: a call is answered at most once, with success only
if its content is pinned, and what is pinned stays so.

### 2.9 `Publishing`

One flow per click, `at` the statement its function waits at; `tx` is its
transaction on the network, `sequence` the sequence numbers of accounts.
`genuine` says whether the wallet signed with the account the transaction was
built for. The pinning service is an instance of `PinningService`, with two
attempts per flow as its calls; a request arrives whenever it likes, also after its
attempt was given up. `SendFails` is a lost answer, with the transaction
submitted or not; `Rejected`, `Duplicate`, `TryAgainLater` are the other answers;
`PollingEnds` gives up while the transaction may still be applied (`Apply`) or
expire (`Drop`).

### 2.10 `Workspace` and `ProjectForms`

`held` is what `StateService` and the stores beside it remember: an id, the project
as answered, its config, its last commit. Each visit or click starts reads that
answer one after the other, in any order with those of other visits, and set their
part of `held` whatever is held by then. A project is its config file, reduced to
what can go wrong with one (`File`).

The form of a page (`form`) fills itself in whenever the config arrives
(`FilledIn`), asks for the present file when opened (`OpenForm`, `Fetched`) and
starts from it, or from an empty one (`Merged`), of whose keys that no form manages it
writes those with a plain value only (`Written`); its flow signs for the project held
by then (`Sign`) and puts back what came of it (`Updated`). The form of the dashboard
(`draft`) registers a project. History: `raced`, that a project was entered, or
something submitted, before the reads of another were answered; `blind`, which
parts of a file were submitted without having been read. The code does not guard
against either, so the properties state what holds without them.

* The reads answer with the contract as it is. That an answer may be as old as the
  cache is the subject of `QueryCache`.
* The store of the repository's link, which only `StateService` reads and which is set
  beside the project, and the README's text in the config are left out.

### 2.11 `Proposing`

`window`, `draft`, `outcomes` are the component's state, `jobs` the submissions. A
submission works with what the draft held at the click and goes on when the window is
closed; the draft outlives both. `Collected`, `Described` and `Reviewed` are three
functions that read what is written for an outcome, for the contract, for the file
that voters read and for the review, with different conditions. Time counts in
units of which `Margin` is the hour added to the least period. Texts are acceptable
or not.

### 2.12 `Ballots`

A ballot is its weight, the values and seeds it commits to, the values and seeds it seals
and the key it is sealed under. `files` are the private keys that maintainers downloaded,
the only thing that opens a ballot; `seen` is what each maintainer's own page has read of
the proposal (every browser has a cache of its own, and nobody else's changes make it read
again, only one's own or time: `Reread`, `Refetch`), `windows` the executions maintainers
have open, with the tally and the `basis` it was computed from. The curve is abstracted to
what opens what: the contract accepts a tally iff the commitments, each as often as it
weighs, add up to its values and seeds (`CommitmentsMatch`); a ballot has a seed for each
choice. The power of a token is read in whole units, with the token's decimals or, if they
cannot be read, the default.

* A vote passes the contract's own checks (`Takes`); the rest of the contract is `Dao`.
* Of a public vote the window shows the result of the votes that the page had when the
  window was opened, of an anonymous one that of the ballots the file opened.
* A foreign ballot that commits to what it does not seal is left out (section 6).

### 2.13 `Members`

The dashboard's search (`search`, with the lookups in `asked`), the two windows that
show a profile, and the form to edit or to make one. `mine` says that a window was
last drawn for the connected account: a component that is not drawn again keeps
offering what it offered. `saves` are profiles on their way. History: `lost`,
`overtaken`, `fresh`, `typed`, and `raced`. Pictures are left out.

### 2.14 `Editors`

Four windows over a list. `op` is what they send: sub-projects, badges and the hash
replace the whole, conflicts are added or removed. `Read` is the answer to a request
for the list as of some time after it was sent, or a failure, which counts as an
empty list. `OthersChange` is another maintainer. `wish`, what the member did in the
window, `known`, what it was shown, and `overtaken`, that an answer came after an edit, are
history.

## 3. Runs

| Run | Checks | Bounds, and why they suffice |
|---|---|---|
| `dao` | `TalliesMatchVotes`, `OutcomeReflectsVotes`, `OutcomeCalledOnce`, `ClosedBallotOnlyShrinks`, `ImplementsReferendum` | a public or an anonymous proposal, three accounts, ballots of weight 1 and, of the two accounts that did not propose until their badges change, 2, every choice and, of anonymous ones, every opening up to 4 (the largest total); two votes at most: the limit is reached with the proposer's abstention and one other vote, and again after a vote is struck; instants 0..2 are before, at and after the deadline, and at the end of the timelock |
| `dao_escrow` | `Solvent`, `MadeWhole` | two proposals of one project overlapping in time, each in collateral or in tokens: deposits of one could pay for the other |
| `projects` | `ListedOnce`, `CopiesAgree`, `BadgesOfProjects`, `ImplementsDirectory` | pages of one: every registration opens one; one name as long as allowed and one with other characters; two accounts, each able to pay for one project, maintainer and member at once; lists of maintainers of one, with a repetition, and empty; no badge, and several with `Default` and one twice; a width of 2^24, so that sums overflow and powers wrap |
| `operations` | `ApprovalsGenuine`, `QuorumUpgrades`; `CheckpointCovers`, `BackfillEnds`; `BalancesMatchOwners` | upgrades: three accounts, eight configurations, among them lists that name one twice and two that are refused, three motions, a timelock of 2 within 6 instants: a motion can follow a cancelled one and one that replaced the administrators. Indexer: two runs at once, pages of one event, a checkpoint after each ledger, one retry, two ledgers of up to two events each, three in all, one poll, two faults of any kind. Token: four tokens for the admin and two members: two of one account, the admin's own, one clawed back twice; roles -1, 0, 3, 4, 5 |
| `cache` | `ReadYourWrites`, `SpinnerHasRequest`, `NoCircularWait`, `OutdatedIsReplaced` | both screens, four requests at once (a list, what it awaits, a hydration, and one more), one transaction, a vote or a proposal |
| `delegation` | `SpanBounded`, `StoredWasPaid`, `ImplementsService`, `EveryUploadAnswered` | two uploads that overlap or not, a budget of one request, a window of two ticks within three instants: the same bucket, and the next |
| `publishing` | `LedgerNamesPinned`, `ReportedExists`, `FlowEnds` | two flows of one account, which share its sequence numbers, each a proposal, a vote or a donation |
| `project_forms` | `SettledPageAgrees`, `FilesMatchProjects`, `OnlyCheckedIsSent`, `UnshownPartsSurvive` | two projects, one a text, the other software whose file states its type, is older and does not, or is not registered yet; two visits, one submission with everything it meets |
| `dialogs` | `TallyIsAccepted`, `ResultIsOfBallots`, `SealedBallotsCanBeOpened`; `AcceptableWhenSent`, `CallsAccountedFor`; `ResultIsOfTerm`, `UntouchedWordsStay`; `AppliedIsListed`, `SavedAsWished` | votes: two voters of different power, one the proposer and one a maintainer, another maintainer, each maintainer with a page of its own, two keys, two openings of the execution, seeds that differ by voter and choice; a public vote is by a token with one decimal, an anonymous one by badges; a form with six edits, outcomes for two decisions, a day picked, and two ticks; two members, a featured and another project, two searches, openings or edits, two saves, one change of account; two entries, three edits, one change in flight and one by others |
| `doc_collateral`, `doc_outcomes`, `doc_result` | one statement of the documentation or the code's comments each, refuted | section 5 |

`MCOperations` and `MCDialogs` put components that share no state side by side: a
behaviour is one of one of them (`duty`, `screen`), so nothing is explored that none
of them does.

`CHECK_DEADLOCK FALSE` stands where a bounded system may stop: clocks, users and faults
are bounded, and a contract that nobody calls stays as it is. That the client's and the
worker's processes do not get stuck is what the liveness properties say.

**Fairness.** The contract's modules assume none: nothing in the code obliges
anyone to call it. Of the others:

* `Indexer`: a run that has something to do does it, and is started again until the
  backfill is completed (`WF` on `Backfill(p)`): the command ends with an error
  otherwise, and is repeated by who issued it. A poll cycle ends (`WF` on `Insert`).
  The poller's cycles and the faults are finite by their bounds; nothing else stops
  them from keeping the lock busy for ever.
* `QueryCache`: the page's own continuations run, the node answers *or fails*, effects run
  when woken, the clock runs. `OutdatedIsReplaced` assumes besides that the node's
  failures end.
* `Delegation`: what the worker can do it does; the store and Filebase answer or fail.
* `Publishing`: the timers of a flow run (attempts, polls). Nothing is asked of
  the network, the service or the member: `FlowEnds` starts once the wallet has signed.

Every property of a passing run has a mutant: a definition of the model replaced
by the slip it guards against, and TLC finds the property violated.

What the properties say beyond the comment at each of them:

* `ReadYourWrites` and `SpinnerHasRequest` are about the two mistakes a cache
  with request ids can make: to keep an answer that was asked for before a write, and to
  drop one that somebody waits for. `NoCircularWait` is needed since the list's
  fetcher asks for its own key.
* `SpanBounded` allows for the approximation of the sliding window, and excludes
  charges that overlapped another or a tick (`raced`): then the code bounds nothing.
* `LedgerNamesPinned` holds because the transaction is sent only after an upload was
  confirmed, and `PinningService` keeps what it confirmed; that the worker does is
  `ImplementsService`.
* `ReportedExists` is about proposals and donations only: of other calls a
  transaction that is not included may be reported as done (section 5).
* `CheckpointCovers` is what makes resumption safe. It holds although two runs can
  both believe to have the lock, since each run's own memory and the table cover its
  own pages from the first to the cursor it records.
* `ResultIsOfBallots` compares three things: the result shown, the status in the contract,
  and what the ballots there come to. Of an anonymous vote it holds of every executed
  window, also when ballots were removed since they were opened, because the contract
  then refuses the tally unless it comes to the same. Of a public vote it needs that the
  page had the ballots the contract decided by, which nothing ensures (`doc_result`).
* `SealedBallotsCanBeOpened` says that *somebody* has the file for each ballot. One
  file need not open all: then no tally can be computed (`Opens`).
* `UntouchedWordsStay`, `SavedAsWished`, `UnshownPartsSurvive`, `FilesMatchProjects`
  are about lost updates, each with the conditions under which the code loses some.
  The races that these and `SettledPageAgrees`, `OnlyCheckedIsSent`, `ResultIsOfTerm`
  exclude (`raced`, `fresh`, `known`, `blind`) are steps of the models, and the code
  guards against none of them: overlapping visits, a submission on its way while
  another project is entered, overlapping searches, an account that is changed while its
  profile is edited, a list read after it was edited. What is checked is that nothing goes
  wrong without them.

Each module has a type invariant. The proofs below rest on those of the contract, the
token, the worker, the cache and the votes, and on ones stated with the proofs where
the module's own says less than an argument needs (indexer, editors, members, the
proposal form, the project's pages and forms).

## 4. Proofs

TLAPS checks the theorems for *every* value of the constants that satisfies the
assumptions of the module, and TLC evaluates these in every run that uses them. What
they ask for:

* contracts: finite sets of projects, accounts and assets, limits, periods, weights,
  collateral and funds that are numbers (`ConstantsAssumption`, `UpgradeAssumption`,
  `RegistryAssumption`, `MembershipAssumption`, `TokenAssumption`); integers are wide enough
  for one voting power (`WidthAssumption`);
* worker: budgets that are numbers, and a clock finer than the window
  (`LimiterAssumption`, `ContentAssumption`); flows: operations the dapp has
  (`FlowAssumption`);
* cache: bounds on the writes and on the requests in flight (`CacheAssumption`); indexer:
  the size of a page (`IndexerAssumption`);
* votes: finitely many voters, with weights that are numbers (`VotersAssumption`,
  `WeightsAssumption`); the window of a proposal: an hour more than the shortest period is
  not beyond the longest (`PeriodsAssumption`);
* project pages and forms: a session begins with files that are of their projects, and
  have a README only where a form shows one (`FoundingsAssumption`);
* a value that stands for nothing is none of the others (in several of these,
  `FormsAssumption` and `NothingAssumption`).

**DAO.** The inductive invariant is `Inv == TypeOK /\ BookConsistent /\
VotersMatchVotes /\ TalliesMatchVotes`. The parts need each other:

* `TypeOK` says that the tally of a choice is an integer and balances are
  natural numbers; that `execute` keeps the contract's balance natural is its
  solvency guard, and that the refunds are natural uses that a total is.
* `BookConsistent` says that the next id is free, so `create_proposal` starts
  from no ballots and `Zero` is the right tally.
* `VotersMatchVotes` says that the list names each voter once, so dropping the
  first occurrence in `remove_vote` leaves none.
* `TalliesMatchVotes` says that a tally is at least the weight of any ballot
  for its choice (`TotalBounds`), so that the saturating subtraction is exact.

`StepCases` reduces the next-state relation to seven kinds of calls, `BallotCalls`
shows that three of them touch ballots, and each conjunct has one lemma per such
call. `TotalUpdate` (changing one summand changes the total by the difference) is
what the tallies rest on; it is proved from cardinalities of unions and products,
since induction over sets is out of reach of the installed provers.

**Decisions** (second part of `DaoProofs`). Two lemmas carry these theorems.
`SettledFrame`: once a proposal is not active any more, no call touches what belongs
to it. `Lifecycle`: a step leaves a status alone, opens or revokes a proposal, or is
an `execute` of it. `execute` writes the status
computed from the running tallies; `TalliesMatchVotes` turns that into a statement
about the ballots, for anonymous proposals by way of the opening that was accepted.
Afterwards `SettledFrame` keeps the ballots, and the statement, as they are.
`DaoIsAReferendum` maps each call that touches ballots to the step of the same
name, and all others to a stutter.

**Money** (its third part). These theorems assume a single collateral asset
(`Collaterals = {c}`); `doc_collateral` shows that they fail otherwise. What a
proposal owes is the sum of the deposits of its voters. `execute` repays along the
list, which names each voter once (`VotersMatchVotes`), so the refunds equal the
deposits, and what the contract holds falls by exactly what it owed.

**Upgrades.** `Inv == TypeOK /\ ApprovalsGenuine /\ Governable`. That approvals
are those of administrators *in office* is inductive because only a finalized
motion replaces the administrators, and it removes itself. `QuorumRequired` follows
because a list without repetition has as many entries as elements
(`InjectiveList`); `UnreachableIsFrozen` because supporters are administrators.

**Projects.** The counter determines the pages: with `n = q * k + r` a
registration writes to page `q`, which holds `r` keys or is not stored
(`OpenPageLength`), so the listing is extended at its end and nowhere else
(`RegisterAppends`). `ListedOnce` follows since a name is appended only when it is
free, and free means not listed. Division is a small theory of its own (the first
lemmas of `ProjectsProofs`).

**Memberships.** A record has at most one entry per project since an entry is
appended only if none is found; hence looking a project up after `WithBadges`
gives the new badges for that project and the old ones for every other, which is
what `CopiesAgree` and `OnePairPerCall` need. `PowerIsAsShown` counts: a badge that
occurs at most once occurs as often as its list says. The theorems of `Registry` carry
over because `Membership` changes none of its variables.

**Token** (`OperationsProofs`). A mint adds one element to a set of owned tokens, a clawback moves one
from one set to another, or from the admin's to itself.

**Indexer.** `CheckpointsCover` is `CheckpointCovers` for any number of runs, pages,
retries and faults. What the checkpoint says is not inductive: a run may write it from
what it loaded long ago and has in its memory. The invariant therefore says of every
run that the events up to the cursor it will write are stored or pending, that the
checkpoint it loaded covered then what it covers now (the table only grows), and
that what is up to its tip has positions which new events only follow. The lock is not
used anywhere in the proof: it spares work, and correctness does not need it.
`OperationsAreEach` carries this, and the balances of the token, over to an
installation that TLC explores as a whole (`StoredAsCheckpointed`,
`BalancesAreTotals`): its steps are of the contract, of the server or of the token.

**Worker** (`DelegationProofs`). `PaidInv`: a check that allows has charged its budget,
an import is of an upload charged to both, and what is still to be copied to Pinata is
in Filebase; hence `StoredWasPaid`, whatever the store and Filebase do, and step by step
the refinement of `PinningService`. `SpanInv` is the sliding window. As long as no
charge overlapped another or a tick, a bucket counts the charges made in it and does not
expire before the one after the next begins (`BucketsCount`), and the estimate of the
charges up to any tick, past or to come, is within the budget (`AlwaysFits`). A span of
one window ends k ticks into a bucket; what the estimate forgets there of the bucket
before, k parts of it, is the less than one budget by which `SpanBounded` exceeds one.

**Flows** (`PublishingProofs`). `ServiceInv` says of the service that it keeps what it
says yes to; `FlowInv` of each flow that nothing is on the network before its content
was confirmed, and that a flow which ends well with a proposal or a donation has seen
its transaction succeed. Retries need nothing else, since a new attempt asks for the
same content.

**Cache** (`CacheProofs`). What each action does to every request and entry is said once
(`Frame`, `Demoted`: a new request supersedes the others of its key and changes nothing
else). `SpinnerInv` then says which request ends a spinner: the one whose promise the
entry has, or the one that this waits for. No circle is closed because a step lets one
request wait at most, for one that does not, or one that was not there before and for
which therefore nobody waits (`OneNewWait`). `FreshInv` needs a set of requests, those
sent since the last transaction that concerns them was confirmed (`Trusted`): it holds
every current request, every stored promise and all that these wait for, and their
values are not older than what the account knows of. The confirmation takes the requests
of its keys out of the set, because it abandons them and drops their promises.

**Votes** (`DialogsProofs`). `KeysInv`: somebody has the file to each key under which
anything is sealed, because the file is saved before the key can be published.
`HonestInv`: a ballot commits to what it seals. `WindowInv`: a window that asks for
confirmation has counted the ballots that it started from. The contract accepts a tally
only if it is that of the ballots it has, honest as they are, and adds them up by the same
rule, so what is shown is decided and is what the ballots say (`ResultIsOfBallots`); the
sums over the voters are those of `Totals`.

**The window of a proposal** (`DialogsProofs`). `FormInv`: past its first step the draft
is one that passed its checks; a submission under way ends within the contract's periods
counted from the click, an hour after the shortest at least, describes each of its calls
and makes each call that was reviewed. That a call is made for another decision than it
was written for is not excluded (`doc_outcomes`).

**Lists** (`DialogsProofs`). `EditorInv`: the list that would be sent has in it what was
added, not what was taken out, and everything else that the window knew of; and what was
put on the list of conflicts is in the answer of every read that is still under way.
`WishedOK` is asked of windows that nobody overtook: the code replaces the whole list.
(Of the list of conflicts single entries are sent.)

**Members** (`DialogsProofs`). `MembersInv` says, as long as no two searches were under
way at once and no account changed on the way (`raced`): all that is asked is about the
term, a window shows the member it was opened for, and a form or a save in which nobody
has typed is what the account had. `VotesAreTheirOwn` shows that a session with any of
the windows does to the votes what `Ballots` does, so that what is proved of `Ballots`
holds in it.

**Project pages and forms** (`ProjectFormsProofs`). Nothing in the code stops a member
from entering another project, or from submitting, while answers are on their way; the
invariant `FormsInv` says what holds as long as nobody did (`Calm`):

* `ChainOK`: the file of every project is its own - its maintainers, its documentation
  unless that was never read, a README only where a form shows one;
* `PageOK`: at most one visit is unanswered. While it is, the page's form is closed and
  has nothing of another project in it; once it is answered, id, project, config and
  commit are of the project on the page, the form was filled in from these, and wrong is
  only what the step it is at, or a later one, still checks;
* `FlowsOK`: a change that waits for its signature may take the place of the file of the
  project on the page, a signed one of that of the project it was signed for: it has the
  same type, the same plain keys, and a README where one belongs.

What lands changes the file that the page, the form and the other flows started from.
They stay right because what they remember (`Like`) is what every change keeps
(`Keeps`): type and plain keys; that the README is kept is needed of submitted files only
(`Fits`). `OnlyCheckedIsSent` for a registration needs of the draft only what was checked
in the steps that were left (`DraftOK`), with or without a race.

The proof was the reason for three corrections of the model: a registration that enters
its page while another flow is under way is a race (`EnterRegistered`), a flow whose
transaction is with the network when the site is loaded anew may still land
(`LoadSite`), and the type of an older file without one is what is read from it
(`TypeRead`).

Only model-checked are `BackfillEnds`, `EveryUploadAnswered`, `FlowEnds` and
`OutdatedIsReplaced`, which are liveness under fairness and out of reach of the
installed provers, as are `ENABLED` and induction over data (what a sum or a fold
computes is therefore defined by `Cardinality` where a proof needs it, in `Totals`).

## 5. Findings

| Run | What it shows |
|---|---|
| `doc_collateral` | `execute` pays refunds from the collateral contract configured when it runs. After `set_collateral_contract`, proposals in flight cannot be executed and their deposits stay locked, although voting collateral "is repaid upon proposal execution". |
| `doc_outcomes` | The proposal form drops the decisions that have no call and submits the rest one after the other. A call written for the rejection alone takes the first place, and the contract makes it upon approval. |
| `doc_result` | After a public vote was executed, the window shows as final outcome what it derives from the votes its page had when the window was opened. A vote cast or removed in another browser is missing there, so it may announce another outcome than the contract's, although the status of executed proposals "is never derived client-side". |

Differences between the documentation and the code that the models follow, and on
which no run is spent. In the contracts:

* Comments on the decision (`contract_dao.rs`, at the two places that compute it)
  say that approve > reject suffices; the code requires a choice to exceed the two
  others together, abstentions included.
* The threshold of administrators is compared with the length of a list that may
  name one twice. Since one administrator approves once, such a contract can never be
  upgraded or given other administrators again (`UnreachableIsFrozen`).
* Until an admin calls `set_nqg_contract`, `get_max_weight` panics for every
  project, although any address is said to have a weight of at least 1.
* `set_trait` accepts role 4, which the enumeration does not have; `governance` then
  panics for a token that exists.
* `remove_vote` keeps the collateral of the struck vote, by intent; the
  documentation of governance excepts only revoked proposals from the refund.
* Anyone may submit a proposal; the documentation speaks of maintainers.
* `register` accepts names of 30 characters where its documentation says 15.
* A quorum power of exactly four millions counts for nothing; the comment in
  `get_nqg` says "at least 4M".
* `mint` of the membership token does not look at the recipient's balance, which
  is said to be at most 1; `set_trait` and `trait_value` do not look the token up,
  so a role can be set and read in advance (minting resets it).

In the indexer:

* A run that loaded its checkpoint before another finished, and got the lock after,
  captures a tip of its own and records the backfill as unfinished again, although the
  tip is said to be captured once. No event is missed.
* The checkpoint is written between pages, and a page may end within a ledger; the
  resumption goes by the cursor, and a fallback to the last completed ledger is not there.
* The poller inserts a whole batch or nothing, and asks for one page only. The
  repository's tests mark both as expected failures.

In the client:

* `sendSignedTransaction` returns an answer other than pending or error, that the
  node is too busy or has the transaction already, as a result. Flows whose result is
  not a number report success then, whatever becomes of the transaction.
* `mergeTomlData` of the config form says it preserves every field that the form does not
  manage. What it merged is written by `serializeToml`, which skips tables, arrays of
  tables and arrays (in `DOCUMENTATION`, too), so these are lost in every change.
* The form that edits a profile makes a new directory of what it shows; a picture that was
  there and is not chosen again is left out.
* The windows over lists take a read that failed for an empty list, and save the
  whole; the config form starts from an empty file if the present one has not arrived.

## 6. Not modelled, and why

* The HTTP API of the indexer and the reads of project metadata, Git history and
  contract metadata: they answer from what is there and have no state of their own.
* Generated bindings, layout, Markdown, texts of the website, activity and donation
  views; `contract_migration.rs`, which is not compiled.
* Cryptography: commitments and encryption are modelled by what opens what. Ballots
  that nobody's client made, points that commit to anything, would need the group.
* Accounts that cannot be paid and outcome contracts that fail: `execute` is then
  rolled back, and whether it ever succeeds is a matter of those accounts and contracts.
* A composition of `Dao` with `Membership` and `Registry`: what the DAO reads of them is
  its environment (`SetBadges`, constant maintainers), which allows more changes of
  badges than they make, and fewer of maintainers.
* The cache under `Workspace`: its reads are of the contract as it is.
* Joining while no wallet is connected, and pictures of profiles.
