------------------------------ MODULE QueryCache ------------------------------
(* The dapp's query cache (src/dapp/src/service/cache) under the two screens     *)
(* that share it: the proposal page, which reads one proposal, and the proposal  *)
(* list, which reads a page of the DAO and hydrates every item through the       *)
(* entry of that proposal.  Requests are answered late, in any order, or fail;   *)
(* the member's own transactions invalidate entries when their flow has heard of *)
(* them.                                                                         *)
(*                                                                               *)
(* requestId counters are compared for equality only: a request is current until *)
(* a later request on its key or an invalidation of it, and that is what is kept.*)
EXTENDS Naturals, FiniteSets, SequencesExt

CONSTANTS MaxWrites,   \* bound on the transactions that change what is read
          MaxInFlight  \* bound on the requests in flight at once

ASSUME CacheAssumption == MaxWrites \in Nat /\ MaxInFlight \in Nat \ {0}

VARIABLES entries,    \* registry: serialized key -> snapshot and promise
          requests,   \* slot -> request in flight
          ledger,     \* versions of the proposal and of the DAO's list on the ledger
          landed,     \* own transactions on the ledger whose result is not known yet
          callbacks,  \* onVoteSuccess calls still to come
          floor       \* versions the own transactions known to be applied have made

vars == <<entries, requests, ledger, landed, callbacks, floor>>
world == <<ledger, landed, callbacks, floor>>

-------------------------------------------------------------------------------
(* Keys *)

RawKey   == <<"proposal", "p", "1", "raw">>
ListKey  == <<"proposals", "p", "0">>
Keys     == {RawKey, ListKey}

DetailOf == <<"proposal", "p", "1">>
AllOf    == <<"proposals", "p">>
PagesOf  == <<"proposals", "p", "pages">>

InvalidatedBy(kind) ==
  CASE kind = "vote"   -> {RawKey, DetailOf, AllOf, PagesOf}
    [] kind = "create" -> {AllOf, PagesOf}

Matches(key, prefixes) == \E q \in prefixes : IsPrefix(q, key)

-------------------------------------------------------------------------------
(* Values *)

Slots    == 1 .. MaxInFlight
None     == [shape |-> "undefined", prop |-> 0, dao |-> 0]
Null     == [shape |-> "null", prop |-> 0, dao |-> 0]
Empty    == [shape |-> "empty", prop |-> 0, dao |-> 0]
Versions == [prop : 0 .. MaxWrites, dao : 0 .. MaxWrites]
Value(shape, v) == [shape |-> shape, prop |-> v.prop, dao |-> v.dao]
Values   == [shape : {"undefined", "null", "empty", "contract", "view"},
             prop : 0 .. MaxWrites, dao : 0 .. MaxWrites]

Snapshot == [data : Values, fetching : BOOLEAN, stale : BOOLEAN,
             expires : {"null", "ahead", "past", "zero"}, promise : 0 .. MaxInFlight]
NewEntry == [data |-> None, fetching |-> FALSE, stale |-> FALSE,
             expires |-> "null", promise |-> 0]

(* kind: who wrote the fetcher - "page" is the proposal page's, "hydrate" the    *)
(* list's for one item, "dao" the read of a DAO page, "list" the list screen's,  *)
(* which only awaits a "dao" request.  at: sent to the node, read by it,         *)
(* awaiting another request, over, rejected.                                     *)
Request == [key : Keys, kind : {"page", "hydrate", "dao", "list"}, current : BOOLEAN,
            at : {"sent", "read", "failed", "await", "done"},
            on : 0 .. MaxInFlight, val : Values]
Free    == [key |-> <<>>]

HasFreshData(e) == e.data # None /\ e.expires = "ahead"

(* Faulty variants of definitions below, each a slip the code could contain;     *)
(* nothing here is part of the model.                                            *)
ShouldFetchUnexpired(e) == ~e.fetching /\ e.data = None

ShouldFetch(e) ==
  /\ ~e.fetching
  /\ e.data = None \/ e.stale \/ e.expires \in {"past", "zero"}

-------------------------------------------------------------------------------
(* fetchWithCache *)

(* The snapshot while a new request is out: old data stay, marked stale. *)
Opened(e, slot) == [e EXCEPT !.fetching = TRUE, !.stale = e.data # None, !.promise = slot]

Superseded(rs, key) ==
  [s \in Slots |-> IF rs[s] # Free /\ rs[s].key = key
                     THEN [rs[s] EXCEPT !.current = FALSE] ELSE rs[s]]

Sent(key, kind) == [key |-> key, kind |-> kind, current |-> TRUE, at |-> "sent",
                    on |-> 0, val |-> None]

FreeSlot(s) == requests[s] = Free /\ \A t \in 1 .. (s - 1) : requests[t] # Free

(* The bound never stops a request that others await: a screen sends one only    *)
(* when the hydrations still to come have a slot left.                           *)
Room(n) ==
  n + Cardinality({s \in Slots : requests[s] # Free /\ requests[s].kind = "dao"
                                 /\ requests[s].at \in {"sent", "read"}})
    <= Cardinality({s \in Slots : requests[s] = Free})

(* A request of a screen: forced, so neither fresh data nor a promise stops it.  *)
FetchRaw ==
  \E s \in Slots :
    /\ FreeSlot(s) /\ Room(1)
    /\ requests' = [Superseded(requests, RawKey) EXCEPT ![s] = Sent(RawKey, "page")]
    /\ entries' = [entries EXCEPT ![RawKey] = Opened(@, s)]

(* Faulty variants of definitions below, each a slip the code could contain;     *)
(* nothing here is part of the model.                                            *)
FetchListJoinsItself ==
  \E s \in Slots :
    /\ FreeSlot(s) /\ Room(3)
    /\ entries' = [entries EXCEPT ![ListKey] = Opened(@, s)]
    /\ requests' = [Superseded(requests, ListKey) EXCEPT
                      ![s] = [Sent(ListKey, "list") EXCEPT !.at = "await", !.on = s]]

(* What the list screen makes of a page of proposals; of no proposals, nothing.  *)
Viewed(d) == IF d = Empty THEN Empty ELSE [d EXCEPT !.shape = "view"]

(* The list screen's fetcher calls getProposals, which asks the cache for the    *)
(* same key before the outer call has stored its promise: it is answered from    *)
(* fresh data, joins an older promise, or becomes the current request itself.    *)
(* (The two keys are the same while the contract has one page of proposals: the  *)
(* screen numbers its own pages, getProposals those of the contract.)            *)
FetchList ==
  LET e == entries[ListKey]
      opened(s) == [entries EXCEPT ![ListKey] = Opened(@, s)]
      outer(at, on, val) == [Sent(ListKey, "list") EXCEPT !.at = at, !.on = on, !.val = val]
  IN  \E s \in Slots :
           /\ FreeSlot(s) /\ Room(3)
           /\ \/ /\ HasFreshData(e)
                 /\ requests' = [Superseded(requests, ListKey) EXCEPT
                                   ![s] = outer("done", 0, Viewed(e.data))]
                 /\ entries' = opened(s)
              \/ /\ ~HasFreshData(e) /\ e.promise # 0
                 /\ requests' = [Superseded(requests, ListKey) EXCEPT
                                   ![s] = outer("await", e.promise, None)]
                 /\ entries' = opened(s)
              \/ /\ ~HasFreshData(e) /\ e.promise = 0
                 /\ \E t \in Slots \ {s} :
                      /\ requests[t] = Free /\ \A u \in 1 .. (t - 1) : u = s \/ requests[u] # Free
                      /\ requests' = [Superseded(requests, ListKey) EXCEPT
                                        ![s] = [outer("await", t, None) EXCEPT !.current = FALSE],
                                        ![t] = Sent(ListKey, "dao")]
                      /\ entries' = opened(s)

(* A settled request stores its result when it is still the current one; in any  *)
(* case whoever awaits its promise goes on.                                      *)
Stored(e, r) ==
  IF r.at = "failed"
    THEN [e EXCEPT !.fetching = FALSE, !.stale = FALSE, !.promise = 0]
    ELSE [e EXCEPT !.data = r.val, !.fetching = FALSE, !.stale = FALSE,
                   !.expires = "ahead", !.promise = 0]

(* What a request that awaited r does next.  "list": getProposals turns a        *)
(* rejection into null, which the screen shows as no proposals.  "dao": an item  *)
(* whose hydration was rejected keeps what the DAO page said of it; a hydration  *)
(* answered with null makes the conversion of the page throw.                    *)
Ended(w, at, val) == [w EXCEPT !.at = at, !.on = 0, !.val = val]
Resumed(w, r) ==
  CASE w.kind = "list" -> Ended(w, "done", IF r.at = "failed" THEN Empty ELSE Viewed(r.val))
    [] w.kind = "dao" /\ r.at = "failed" -> Ended(w, "done", w.val)
    [] w.kind = "dao" /\ r.at # "failed" /\ r.val = Null -> Ended(w, "failed", w.val)
    [] OTHER -> Ended(w, "done", [w.val EXCEPT !.prop = r.val.prop])

Settle(s) ==
  LET r == requests[s]
  IN  /\ r # Free /\ r.at \in {"done", "failed"}
      /\ requests' = [t \in Slots |->
           IF t = s THEN Free
           ELSE IF requests[t] # Free /\ requests[t].on = s THEN Resumed(requests[t], r)
           ELSE requests[t]]
      /\ entries' = IF r.current THEN [entries EXCEPT ![r.key] = Stored(@, r)] ELSE entries
      /\ UNCHANGED world

-------------------------------------------------------------------------------
(* The node, and the continuation of a DAO page's read *)

Serve(s) ==
  /\ requests[s] # Free /\ requests[s].at = "sent"
  /\ requests' = [requests EXCEPT
       ![s].at = IF requests[s].kind = "dao" THEN "read" ELSE "done",
       ![s].val = Value("contract", IF requests[s].kind = "dao" THEN ledger
                                                           ELSE [ledger EXCEPT !.dao = 0])]
  /\ UNCHANGED <<entries, world>>

(* getProposalRaw answers null when the read fails; the other reads reject.      *)
Fail(s) ==
  /\ requests[s] # Free /\ requests[s].at = "sent"
  /\ requests' = [requests EXCEPT
       ![s] = IF @.kind = "page" THEN [@ EXCEPT !.at = "done", !.val = Null]
                                 ELSE [@ EXCEPT !.at = "failed"]]
  /\ UNCHANGED <<entries, world>>

(* hydrateProposalFromDaoItem: through the cache, not forced. *)
Hydrate(s) ==
  LET e == entries[RawKey]
      w == requests[s]
  IN  /\ w # Free /\ w.kind = "dao" /\ w.at = "read"
      /\ UNCHANGED world
      /\ \/ /\ HasFreshData(e)
            /\ requests' = [requests EXCEPT ![s] = Resumed(w, [at |-> "done", val |-> e.data])]
            /\ UNCHANGED entries
         \/ /\ ~HasFreshData(e) /\ e.promise # 0
            /\ requests' = [requests EXCEPT ![s].at = "await", ![s].on = e.promise]
            /\ UNCHANGED entries
         \/ /\ ~HasFreshData(e) /\ e.promise = 0
            /\ \E t \in Slots :
                 /\ FreeSlot(t)
                 /\ requests' = [Superseded(requests, RawKey) EXCEPT
                                   ![s].at = "await", ![s].on = t,
                                   ![t] = Sent(RawKey, "hydrate")]
                 /\ entries' = [entries EXCEPT ![RawKey] = Opened(@, t)]

-------------------------------------------------------------------------------
(* Screens, clock and transactions *)

(* useCachedQuery's effect.  It runs when a field of the snapshot it depends on   *)
(* changes; the clock alone wakes no effect, a screen mounted later does.        *)
Fetch(k)  == IF k = RawKey THEN FetchRaw ELSE FetchList
Effect(k) == ShouldFetch(entries[k]) /\ Fetch(k) /\ UNCHANGED world

Woken(e) == ~e.fetching /\ (e.data = None \/ e.stale \/ e.expires = "zero")

(* onVoteSuccess asks the page's, or the list's, query again. *)
Refetch(k) ==
  /\ callbacks > 0
  /\ callbacks' = callbacks - 1
  /\ Fetch(k)
  /\ UNCHANGED <<ledger, landed, floor>>

Expire(k) ==
  /\ entries[k].expires = "ahead"
  /\ entries' = [entries EXCEPT ![k].expires = "past"]
  /\ UNCHANGED <<requests, world>>

Changes(kind) == IF kind = "vote" THEN [ledger EXCEPT !.prop = @ + 1]
                                  ELSE [ledger EXCEPT !.dao = @ + 1]
Writes == ledger.prop + ledger.dao

(* A transaction of this account is applied; its flow hears of it later. *)
Land(kind) ==
  /\ Writes < MaxWrites
  /\ ledger' = Changes(kind)
  /\ landed' = landed \cup {[kind |-> kind, at |-> Changes(kind)]}
  /\ UNCHANGED <<entries, requests, callbacks, floor>>

(* Faulty variants, as above. *)
InvalidatedWhileFetching(e) == [e EXCEPT !.stale = TRUE, !.fetching = TRUE, !.expires = "zero",
                                         !.promise = 0]
KeptCurrent(r) == r

(* invalidateQuery, for every prefix the flow names. *)
Invalidated(e) == [e EXCEPT !.stale = TRUE, !.fetching = FALSE, !.expires = "zero",
                            !.promise = 0]
Abandoned(r) == IF r = Free THEN r ELSE [r EXCEPT !.current = FALSE]

Later(m, n) == IF m < n THEN n ELSE m
Raised(w) ==
  IF w.kind = "vote" THEN [floor EXCEPT !.prop = Later(@, w.at.prop)]
                     ELSE [floor EXCEPT !.dao = Later(@, w.at.dao)]

Confirm(w) ==
  LET hit(k) == Matches(k, InvalidatedBy(w.kind))
  IN  /\ w \in landed
      /\ landed' = landed \ {w}
      /\ entries' = [k \in Keys |-> IF hit(k) THEN Invalidated(entries[k]) ELSE entries[k]]
      /\ requests' = [s \in Slots |->
           IF requests[s] # Free /\ hit(requests[s].key) THEN Abandoned(requests[s])
                                                         ELSE requests[s]]
      /\ floor' = Raised(w)
      /\ callbacks' = callbacks + (IF w.kind = "vote" THEN 1 ELSE 0)
      /\ UNCHANGED ledger

Kinds == {"vote", "create"}

Init ==
  /\ entries = [k \in Keys |-> NewEntry]
  /\ requests = [s \in Slots |-> Free]
  /\ ledger = [prop |-> 0, dao |-> 0]
  /\ landed = {}
  /\ callbacks = 0
  /\ floor = [prop |-> 0, dao |-> 0]

Next ==
  \/ \E s \in Slots : Serve(s) \/ Fail(s) \/ Hydrate(s) \/ Settle(s)
  \/ \E k \in Keys : Effect(k) \/ Refetch(k) \/ Expire(k)
  \/ \E kind \in Kinds : Land(kind)
  \/ \E w \in landed : Confirm(w)

(* The page's own steps happen, the node answers or fails, and the clock runs. *)
Fairness ==
  /\ \A s \in Slots : WF_vars(Hydrate(s)) /\ WF_vars(Settle(s))
                     /\ WF_vars(Serve(s) \/ Fail(s))
  /\ \A k \in Keys : /\ WF_vars(Woken(entries[k]) /\ Effect(k))
                     /\ WF_vars(Expire(k))

Spec == Init /\ [][Next]_vars /\ Fairness

-------------------------------------------------------------------------------
(* Properties *)

TypeOK ==
  /\ entries \in [Keys -> Snapshot]
  /\ requests \in [Slots -> Request \cup {Free}]
  /\ ledger \in Versions /\ floor \in Versions
  /\ landed \subseteq [kind : Kinds, at : Versions]
  /\ callbacks \in Nat

(* An entry that counts as fresh is not older than any transaction of this       *)
(* account whose success was reported: an answer read before it never lands in   *)
(* the cache after it, nor through the entry of the proposal into the list.      *)
ReadYourWrites ==
  \A k \in Keys :
    LET d == entries[k].data
    IN  HasFreshData(entries[k]) /\ d.shape \in {"contract", "view"} =>
          d.prop >= floor.prop /\ (k = ListKey => d.dao >= floor.dao)

(* A spinner has a request that will end it, and a promise left in an entry is   *)
(* one that is still to settle.                                                  *)
SpinnerHasRequest ==
  \A k \in Keys :
    /\ entries[k].fetching => \E s \in Slots :
         requests[s] # Free /\ requests[s].key = k /\ requests[s].current
    /\ entries[k].promise # 0 => requests[entries[k].promise] # Free
         /\ requests[entries[k].promise].key = k

(* Requests that await one another never form a circle, although the fetchers    *)
(* of both screens call back into the cache that is running them.                *)
NoCircularWait ==
  \A c \in (SUBSET Slots) \ {{}} :
    \E s \in c : requests[s] = Free \/ requests[s].at # "await" \/ requests[s].on \notin c

(* Data the account's own transaction has outdated do not stay on a screen, once *)
(* the node's reads stop failing.                                                *)
NodeRecovers == <>[][\A s \in Slots : ~Fail(s)]_vars
OutdatedIsReplaced ==
  NodeRecovers =>
    \A k \in Keys : (entries[k].expires = "zero") ~> (entries[k].expires # "zero")

===============================================================================
