----------------------------- MODULE CacheProofs -----------------------------
(* Proofs about the query cache: its types, that what counts as fresh is not      *)
(* older than what the account knows to be applied, that no spinner is left       *)
(* behind and that requests never wait for one another in a circle.               *)
(*                                                                                *)
(* The first part says, action by action, what becomes of every request and of    *)
(* every entry; the invariants are proved from that alone.                        *)
EXTENDS QueryCache, SequenceTheorems, TLAPS

-------------------------------------------------------------------------------
(* Invariants *)

(* What an entry of each key can hold, and a request of it can be answered with.  *)
RawVal(v)  == v = Null \/ v.shape = "contract"
ListVal(v) == v = Empty \/ v.shape \in {"contract", "view"}
ValOf(k, v) == IF k = RawKey THEN RawVal(v) ELSE ListVal(v)

HasVal(r) == r.at = "done" \/ (r.kind = "dao" /\ r.at \in {"read", "await"})

(* A request of the list waits for one of the list, a page's read for one of the  *)
(* proposal, and a request of the proposal for none.                              *)
WaitsFor(r) == IF r.kind = "dao" THEN RawKey ELSE ListKey

RShape(r) ==
  /\ r.key = RawKey <=> r.kind \in {"page", "hydrate"}
  /\ r.at = "await" <=> r.on # 0
  /\ r.key = RawKey => r.at \in {"sent", "done", "failed"}
  /\ r.kind = "list" => r.at \in {"await", "done"}
  /\ HasVal(r) => ValOf(r.key, r.val)
  /\ r.kind = "dao" /\ HasVal(r) => r.val.shape = "contract"

Waits(r) == r.on # 0 => requests[r.on] # Free /\ requests[r.on].key = WaitsFor(r)

ShapeInv ==
  /\ \A s \in Slots : requests[s] # Free => RShape(requests[s]) /\ Waits(requests[s])
  /\ \A k \in Keys : entries[k].data # None => ValOf(k, entries[k].data)

(* The request that ends a spinner is the one whose promise the entry has, or the *)
(* one that this waits for.                                                       *)
Ends(k, p, c) ==
  /\ requests[c] # Free /\ requests[c].key = k /\ requests[c].current
  /\ c = p \/ requests[p].on = c

SpinnerInv ==
  \A k \in Keys :
    LET p == entries[k].promise
    IN  /\ entries[k].fetching <=> p # 0
        /\ p # 0 => /\ requests[p] # Free /\ requests[p].key = k
                    /\ \E c \in Slots : Ends(k, p, c)

(* Not older than what the account knows to be applied.                           *)
Good(k, v) ==
  v.shape \in {"contract", "view"} =>
    v.prop >= floor.prop /\ (k = ListKey => v.dao >= floor.dao)

Behind(v, w) == v.prop <= w.prop /\ v.dao <= w.dao

(* The requests in V were sent since the last transaction that concerns them was  *)
(* confirmed, with all that they wait for; the others are neither current nor     *)
(* waited for by one that is.                                                     *)
Trusted(V) ==
  /\ \A s \in V : /\ requests[s] # Free
                  /\ HasVal(requests[s]) => Good(requests[s].key, requests[s].val)
                  /\ requests[s].on # 0 => requests[s].on \in V
  /\ \A s \in Slots : requests[s] # Free /\ requests[s].current => s \in V
  /\ \A k \in Keys : entries[k].promise # 0 => entries[k].promise \in V

FreshInv ==
  /\ Behind(floor, ledger)
  /\ \A w \in landed : Behind(w.at, ledger)
  /\ \A k \in Keys : HasFreshData(entries[k]) => Good(k, entries[k].data)
  /\ \E V \in SUBSET Slots : Trusted(V)

-------------------------------------------------------------------------------
(* Keys, requests and entries *)

LEMMA KeysDiffer ==
  /\ RawKey \in Keys /\ ListKey \in Keys /\ RawKey # ListKey
  /\ \A k \in Keys : k = RawKey \/ k = ListKey
  /\ \A k \in Keys : k # <<>>
<1>1. Len(RawKey) = 4 /\ Len(ListKey) = 3 /\ Len(<<>>) = 0
  BY DEF RawKey, ListKey
<1>2. RawKey # ListKey /\ RawKey # <<>> /\ ListKey # <<>>
  BY <1>1
<1>3. QED  BY <1>2 DEF Keys

LEMMA RequestNotFree == \A r \in Request : r # Free /\ r.key \in Keys
<1>1. \A r \in Request : r.key \in Keys
  BY DEF Request
<1>2. Free.key = <<>>
  BY DEF Free
<1>3. QED  BY <1>1, <1>2, KeysDiffer

LEMMA SlotsAreNumbers ==
  /\ Slots \subseteq Nat /\ 0 \notin Slots
  /\ \A n \in 0 .. MaxInFlight : n = 0 \/ n \in Slots
BY CacheAssumption DEF Slots

LEMMA ValuesDiffer ==
  /\ None \in Values /\ Null \in Values /\ Empty \in Values
  /\ None # Null /\ None # Empty /\ Null # Empty
  /\ None.shape = "undefined" /\ Null.shape = "null" /\ Empty.shape = "empty"
BY CacheAssumption DEF None, Null, Empty, Values

(* The same request, perhaps not the current one of its key any more.             *)
Demoted(q, r) ==
  /\ q \in Request
  /\ q.key = r.key /\ q.kind = r.kind /\ q.at = r.at /\ q.on = r.on /\ q.val = r.val
  /\ q.current => r.current

(* Only one of key k is demoted.                                                  *)
KeptBut(k, q, r) ==
  /\ r = Free => q = Free
  /\ r # Free => Demoted(q, r) /\ (r.key # k => q = r)

RequestsTyped(rs) == rs \in [Slots -> Request \cup {Free}]

LEMMA SameIsDemoted == ASSUME NEW r \in Request  PROVE Demoted(r, r)
BY DEF Demoted

LEMMA AbandonedIsDemoted ==
  ASSUME NEW r \in Request
  PROVE  LET q == [r EXCEPT !.current = FALSE]
         IN  Demoted(q, r) /\ ~q.current
BY DEF Demoted, Request

LEMMA SentIsRequest ==
  ASSUME NEW k \in Keys, NEW kind \in {"page", "hydrate", "dao", "list"}
  PROVE  /\ Sent(k, kind) \in Request
         /\ Sent(k, kind).key = k /\ Sent(k, kind).kind = kind /\ Sent(k, kind).current
         /\ Sent(k, kind).at = "sent" /\ Sent(k, kind).on = 0 /\ Sent(k, kind).val = None
BY ValuesDiffer, CacheAssumption DEF Sent, Request

(* A new request on key k demotes those there are of it, and changes no other.    *)
LEMMA SupersededKeeps ==
  ASSUME RequestsTyped(requests), NEW k \in Keys
  PROVE  LET rs == Superseded(requests, k)
         IN  /\ RequestsTyped(rs)
             /\ \A t \in Slots : KeptBut(k, rs[t], requests[t])
<1> DEFINE rs == Superseded(requests, k)
<1>1. \A t \in Slots : rs[t] \in Request \cup {Free} /\ KeptBut(k, rs[t], requests[t])
  <2> TAKE t \in Slots
  <2>1. rs[t] = IF requests[t] # Free /\ requests[t].key = k
                  THEN [requests[t] EXCEPT !.current = FALSE] ELSE requests[t]
    BY DEF Superseded
  <2>2. CASE requests[t] = Free
    BY <2>1, <2>2 DEF KeptBut
  <2>3. CASE requests[t] # Free
    <3>1. requests[t] \in Request
      BY <2>3 DEF RequestsTyped
    <3>2. Demoted(requests[t], requests[t])
      BY <3>1, SameIsDemoted
    <3>3. Demoted([requests[t] EXCEPT !.current = FALSE], requests[t])
      BY <3>1, AbandonedIsDemoted
    <3>4. Demoted(rs[t], requests[t])
      BY <2>1, <3>2, <3>3
    <3>5. rs[t] \in Request
      BY <3>4 DEF Demoted
    <3>6. QED  BY <2>1, <2>3, <3>4, <3>5 DEF KeptBut
  <2>4. QED  BY <2>2, <2>3
<1>2. rs = [t \in Slots |-> rs[t]]
  BY DEF Superseded
<1>3. RequestsTyped(rs)
  BY <1>1, <1>2 DEF RequestsTyped
<1>4. QED  BY <1>1, <1>3

(* What becomes of the entry of key k when the promise of slot s is stored.       *)
OpensEntry(k, s) ==
  /\ entries' = [entries EXCEPT ![k] = entries'[k]]
  /\ entries'[k] \in Snapshot
  /\ entries'[k].data = entries[k].data /\ entries'[k].expires = entries[k].expires
  /\ entries'[k].fetching /\ entries'[k].promise = s

LEMMA OpenedOpens ==
  ASSUME entries \in [Keys -> Snapshot], NEW k \in Keys, NEW s \in Slots,
         entries' = [entries EXCEPT ![k] = Opened(@, s)]
  PROVE  OpensEntry(k, s)
<1>1. entries'[k] = Opened(entries[k], s)
  OBVIOUS
<1>2. /\ Opened(entries[k], s) \in Snapshot
      /\ Opened(entries[k], s).data = entries[k].data
      /\ Opened(entries[k], s).expires = entries[k].expires
      /\ Opened(entries[k], s).fetching /\ Opened(entries[k], s).promise = s
  <2>1. entries[k] \in Snapshot /\ s \in 0 .. MaxInFlight
    BY CacheAssumption DEF Slots
  <2>2. QED  BY <2>1 DEF Opened, Snapshot
<1>3. QED  BY <1>1, <1>2 DEF OpensEntry

-------------------------------------------------------------------------------
(* What the actions do *)

(* A new request on key k: all but those in R are as before, or superseded.       *)
Frame(k, R) == \A t \in Slots \ R : KeptBut(k, requests'[t], requests[t])

LEMMA FetchRawFacts ==
  ASSUME TypeOK, FetchRaw
  PROVE  \E s \in Slots :
           /\ requests[s] = Free /\ requests'[s] = Sent(RawKey, "page")
           /\ Frame(RawKey, {s}) /\ RequestsTyped(requests') /\ OpensEntry(RawKey, s)
<1>1. PICK s \in Slots :
        /\ requests[s] = Free
        /\ requests' = [Superseded(requests, RawKey) EXCEPT ![s] = Sent(RawKey, "page")]
        /\ entries' = [entries EXCEPT ![RawKey] = Opened(@, s)]
  BY DEF FetchRaw, FreeSlot
<1> DEFINE rs == Superseded(requests, RawKey)
<1>2. /\ RequestsTyped(rs) /\ RequestsTyped(requests)
      /\ \A t \in Slots : KeptBut(RawKey, rs[t], requests[t])
  BY KeysDiffer, SupersededKeeps DEF TypeOK, RequestsTyped
<1>3. Sent(RawKey, "page") \in Request
  BY KeysDiffer, SentIsRequest
<1>4. /\ requests' = [rs EXCEPT ![s] = Sent(RawKey, "page")]
      /\ RequestsTyped(requests')
  BY <1>1, <1>2, <1>3 DEF RequestsTyped
<1> HIDE DEF rs
<1>5. requests'[s] = Sent(RawKey, "page") /\ \A t \in Slots \ {s} : requests'[t] = rs[t]
  BY <1>2, <1>4 DEF RequestsTyped
<1>6. Frame(RawKey, {s})
  BY <1>2, <1>5 DEF Frame
<1>7. OpensEntry(RawKey, s)
  BY <1>1, KeysDiffer, OpenedOpens DEF TypeOK
<1>8. QED  BY <1>1, <1>4, <1>5, <1>6, <1>7

(* The request of the list screen: answered by what the cache has, or waiting for *)
(* an earlier one of the list, or for the page it has asked for itself.           *)
OuterAnswered(s) ==
  /\ HasFreshData(entries[ListKey]) /\ Frame(ListKey, {s})
  /\ requests'[s].at = "done" /\ requests'[s].on = 0
  /\ requests'[s].val = Viewed(entries[ListKey].data) /\ requests'[s].current

OuterJoins(s) ==
  /\ entries[ListKey].promise # 0 /\ Frame(ListKey, {s})
  /\ requests'[s].at = "await" /\ requests'[s].on = entries[ListKey].promise
  /\ requests'[s].current

OuterAsks(s) ==
  /\ entries[ListKey].promise = 0
  /\ \E t \in Slots \ {s} :
       /\ requests[t] = Free /\ requests'[t] = Sent(ListKey, "dao")
       /\ requests'[s].at = "await" /\ requests'[s].on = t /\ Frame(ListKey, {s, t})

LEMMA ViewedIsValue ==
  ASSUME NEW d \in Values
  PROVE  /\ Viewed(d) \in Values
         /\ d = Empty => Viewed(d) = Empty
         /\ d # Empty => /\ Viewed(d).shape = "view"
                         /\ Viewed(d).prop = d.prop /\ Viewed(d).dao = d.dao
BY DEF Viewed, Values

LEMMA FetchListFacts ==
  ASSUME TypeOK, FetchList
  PROVE  \E s \in Slots :
           /\ requests[s] = Free /\ RequestsTyped(requests') /\ OpensEntry(ListKey, s)
           /\ requests'[s] \in Request /\ requests'[s].key = ListKey /\ requests'[s].kind = "list"
           /\ OuterAnswered(s) \/ OuterJoins(s) \/ OuterAsks(s)
<1> DEFINE e == entries[ListKey]
           rs == Superseded(requests, ListKey)
           base == Sent(ListKey, "list")
           outer(at, on, val) == [base EXCEPT !.at = at, !.on = on, !.val = val]
           after(s, q) == [rs EXCEPT ![s] = q]
           inner(s, t) == [outer("await", t, None) EXCEPT !.current = FALSE]
<1>1. PICK s \in Slots :
        /\ requests[s] = Free
        /\ entries' = [entries EXCEPT ![ListKey] = Opened(@, s)]
        /\ \/ HasFreshData(e) /\ requests' = after(s, outer("done", 0, Viewed(e.data)))
           \/ e.promise # 0 /\ requests' = after(s, outer("await", e.promise, None))
           \/ /\ e.promise = 0
              /\ \E t \in Slots \ {s} :
                   /\ requests[t] = Free
                   /\ requests' = [rs EXCEPT ![s] = inner(s, t), ![t] = Sent(ListKey, "dao")]
  BY DEF FetchList, FreeSlot
<1>2. /\ RequestsTyped(rs) /\ RequestsTyped(requests)
      /\ \A t \in Slots : KeptBut(ListKey, rs[t], requests[t])
  BY KeysDiffer, SupersededKeeps DEF TypeOK, RequestsTyped
<1>3. OpensEntry(ListKey, s)
  BY <1>1, KeysDiffer, OpenedOpens DEF TypeOK
<1>4. base \in Request /\ base.key = ListKey /\ base.kind = "list" /\ base.current
  BY KeysDiffer, SentIsRequest
<1>5. ASSUME NEW at \in {"done", "await"}, NEW on \in 0 .. MaxInFlight, NEW val \in Values
      PROVE  LET q == outer(at, on, val)
             IN  /\ q \in Request /\ q.key = ListKey /\ q.kind = "list" /\ q.current
                 /\ q.at = at /\ q.on = on /\ q.val = val
  <2> HIDE DEF base
  <2>1. QED  BY <1>4 DEF Request
<1>6. e \in Snapshot /\ e.data \in Values /\ e.promise \in 0 .. MaxInFlight
  BY KeysDiffer DEF TypeOK, Snapshot
<1> HIDE DEF rs, outer
<1>7. ASSUME NEW q \in Request, requests' = after(s, q)
      PROVE  requests'[s] = q /\ RequestsTyped(requests') /\ Frame(ListKey, {s})
  <2>1. /\ requests'[s] = q /\ RequestsTyped(requests')
        /\ \A t \in Slots \ {s} : requests'[t] = rs[t]
    BY <1>2, <1>7 DEF RequestsTyped
  <2>2. QED  BY <1>2, <2>1 DEF Frame
<1>8. CASE HasFreshData(e) /\ requests' = after(s, outer("done", 0, Viewed(e.data)))
  <2> DEFINE q == outer("done", 0, Viewed(e.data))
  <2>1. /\ q \in Request /\ q.key = ListKey /\ q.kind = "list" /\ q.current
        /\ q.at = "done" /\ q.on = 0 /\ q.val = Viewed(e.data)
    BY <1>5, <1>6, ViewedIsValue, CacheAssumption
  <2> HIDE DEF q
  <2>2. requests'[s] = q /\ RequestsTyped(requests') /\ Frame(ListKey, {s})
    BY <1>7, <1>8, <2>1 DEF q
  <2>3. OuterAnswered(s)
    BY <1>8, <2>1, <2>2 DEF OuterAnswered
  <2>4. QED  BY <1>1, <1>3, <2>1, <2>2, <2>3
<1>9. CASE e.promise # 0 /\ requests' = after(s, outer("await", e.promise, None))
  <2> DEFINE q == outer("await", e.promise, None)
  <2>1. /\ q \in Request /\ q.key = ListKey /\ q.kind = "list" /\ q.current
        /\ q.at = "await" /\ q.on = e.promise
    BY <1>5, <1>6, ValuesDiffer
  <2> HIDE DEF q
  <2>2. requests'[s] = q /\ RequestsTyped(requests') /\ Frame(ListKey, {s})
    BY <1>7, <1>9, <2>1 DEF q
  <2>3. OuterJoins(s)
    BY <1>9, <2>1, <2>2 DEF OuterJoins
  <2>4. QED  BY <1>1, <1>3, <2>1, <2>2, <2>3
<1>10. CASE /\ e.promise = 0
            /\ \E t \in Slots \ {s} :
                 /\ requests[t] = Free
                 /\ requests' = [rs EXCEPT ![s] = inner(s, t), ![t] = Sent(ListKey, "dao")]
  <2>1. PICK t \in Slots \ {s} :
          /\ requests[t] = Free
          /\ requests' = [rs EXCEPT ![s] = inner(s, t), ![t] = Sent(ListKey, "dao")]
    BY <1>10
  <2> DEFINE r == outer("await", t, None)
             q == inner(s, t)
  <2>2. r \in Request /\ r.key = ListKey /\ r.kind = "list" /\ r.at = "await" /\ r.on = t
    BY <1>5, ValuesDiffer, SlotsAreNumbers, CacheAssumption DEF Slots
  <2>3. q \in Request /\ q.key = ListKey /\ q.kind = "list" /\ q.at = "await" /\ q.on = t
    <3> HIDE DEF r
    <3>1. q = [r EXCEPT !.current = FALSE]
      BY DEF r
    <3>2. Demoted(q, r)
      BY <2>2, <3>1, AbandonedIsDemoted
    <3>3. QED  BY <2>2, <3>2 DEF Demoted
  <2>4. Sent(ListKey, "dao") \in Request
    BY KeysDiffer, SentIsRequest
  <2> HIDE DEF r, q
  <2>5. requests' = [rs EXCEPT ![s] = q, ![t] = Sent(ListKey, "dao")]
    BY <2>1 DEF q
  <2>6. /\ requests'[s] = q /\ requests'[t] = Sent(ListKey, "dao")
        /\ \A u \in Slots \ {s, t} : requests'[u] = rs[u]
    BY <1>2, <2>5 DEF RequestsTyped
  <2>7. RequestsTyped(requests')
    BY <1>2, <2>3, <2>4, <2>5 DEF RequestsTyped
  <2>8. Frame(ListKey, {s, t})
    BY <1>2, <2>6 DEF Frame
  <2>9. OuterAsks(s)
    BY <1>10, <2>1, <2>3, <2>6, <2>8 DEF OuterAsks
  <2>10. QED  BY <1>1, <1>3, <2>3, <2>6, <2>7, <2>9
<1>11. QED  BY <1>1, <1>8, <1>9, <1>10

(* One request goes on, as it was sent.                                           *)
GoesOn(q, r) == q \in Request /\ q.key = r.key /\ q.kind = r.kind /\ q.current = r.current

OneGoesOn(s) ==
  /\ requests[s] # Free /\ GoesOn(requests'[s], requests[s]) /\ RequestsTyped(requests')
  /\ \A t \in Slots \ {s} : requests'[t] = requests[t]

LEMMA SlotWritten ==
  ASSUME TypeOK, NEW s \in Slots, NEW q \in Request, requests[s] # Free,
         GoesOn(q, requests[s]), requests' = [requests EXCEPT ![s] = q]
  PROVE  OneGoesOn(s) /\ requests'[s] = q
BY DEF TypeOK, RequestsTyped, OneGoesOn

LEMMA ServeFacts ==
  ASSUME TypeOK, NEW s \in Slots, Serve(s)
  PROVE  LET r == requests[s]
             q == requests'[s]
         IN  /\ OneGoesOn(s) /\ r.at = "sent"
             /\ q.at = (IF r.kind = "dao" THEN "read" ELSE "done") /\ q.on = r.on
             /\ q.val.shape = "contract" /\ q.val.prop = ledger.prop
             /\ r.kind = "dao" => q.val.dao = ledger.dao
<1> DEFINE r   == requests[s]
           val == Value("contract", IF r.kind = "dao" THEN ledger ELSE [ledger EXCEPT !.dao = 0])
           at  == IF r.kind = "dao" THEN "read" ELSE "done"
           q   == [r EXCEPT !.at = at, !.val = val]
<1>1. r \in Request /\ r # Free /\ r.at = "sent"
  BY DEF Serve, TypeOK
<1>2. /\ val \in Values /\ val.shape = "contract" /\ val.prop = ledger.prop
      /\ r.kind = "dao" => val.dao = ledger.dao
  <2>1. ledger \in [prop : 0 .. MaxWrites, dao : 0 .. MaxWrites]
    BY DEF TypeOK, Versions
  <2> HIDE DEF r
  <2>2. QED  BY <2>1, CacheAssumption DEF Value, Values
<1>3. requests' = [requests EXCEPT ![s] = q]
  BY DEF Serve, TypeOK
<1>4. GoesOn(q, r) /\ q.at = at /\ q.on = r.on /\ q.val = val /\ q \in Request
  <2>1. at \in {"read", "done"}
    OBVIOUS
  <2> HIDE DEF r, val, at
  <2>2. QED  BY <1>1, <1>2, <2>1 DEF GoesOn, Request
<1> HIDE DEF q, val
<1>5. OneGoesOn(s) /\ requests'[s] = q
  BY <1>1, <1>3, <1>4, SlotWritten
<1>6. QED  BY <1>1, <1>2, <1>4, <1>5

LEMMA FailFacts ==
  ASSUME TypeOK, NEW s \in Slots, Fail(s)
  PROVE  LET r == requests[s]
             q == requests'[s]
         IN  /\ OneGoesOn(s) /\ r.at = "sent" /\ q.on = r.on
             /\ \/ r.kind = "page" /\ q.at = "done" /\ q.val = Null
                \/ q.at = "failed"
<1> DEFINE r == requests[s]
           q == IF r.kind = "page" THEN [r EXCEPT !.at = "done", !.val = Null]
                                   ELSE [r EXCEPT !.at = "failed"]
<1>1. r \in Request /\ r # Free /\ r.at = "sent"
  BY DEF Fail, TypeOK
<1>2. requests' = [requests EXCEPT ![s] = q]
  BY DEF Fail, TypeOK
<1>3. /\ GoesOn(q, r) /\ q.on = r.on /\ q \in Request
      /\ \/ r.kind = "page" /\ q.at = "done" /\ q.val = Null
         \/ q.at = "failed"
  <2> HIDE DEF r
  <2>1. QED  BY <1>1, ValuesDiffer DEF GoesOn, Request
<1> HIDE DEF q
<1>4. OneGoesOn(s) /\ requests'[s] = q
  BY <1>1, <1>2, <1>3, SlotWritten
<1>5. QED  BY <1>1, <1>3, <1>4

(* A request that waited, once the one it waited for is over.                     *)
Resumes(q, w, at, val) ==
  /\ GoesOn(q, w) /\ q.on = 0
  /\ w.kind = "list" => q.at = "done" /\ q.val = IF at = "failed" THEN Empty ELSE Viewed(val)
  /\ w.kind # "list" /\ at = "failed" => q.at = "done" /\ q.val = w.val
  /\ w.kind # "list" /\ at # "failed" /\ w.kind = "dao" /\ val = Null => q.at = "failed"
  /\ w.kind = "dao" /\ at # "failed" /\ val # Null =>
       q.at = "done" /\ q.val = [shape |-> w.val.shape, prop |-> val.prop, dao |-> w.val.dao]

LEMMA EndedGoesOn ==
  ASSUME NEW w \in Request, NEW n \in {"done", "failed"}, NEW v \in Values
  PROVE  LET q == Ended(w, n, v)
         IN  GoesOn(q, w) /\ q.on = 0 /\ q.at = n /\ q.val = v
<1>1. SUFFICES ASSUME NEW q, q = Ended(w, n, v)
               PROVE  GoesOn(q, w) /\ q.on = 0 /\ q.at = n /\ q.val = v
  OBVIOUS
<1>2. q = [key |-> w.key, kind |-> w.kind, current |-> w.current, at |-> n, on |-> 0, val |-> v]
  BY <1>1 DEF Ended, Request
<1>3. 0 \in 0 .. MaxInFlight
  BY CacheAssumption
<1>4. QED  BY <1>2, <1>3 DEF Request, GoesOn

LEMMA ResumedResumes ==
  ASSUME NEW w \in Request, w.kind \in {"list", "dao"}, NEW r, r.val \in Values
  PROVE  Resumed(w, r) \in Request /\ Resumes(Resumed(w, r), w, r.at, r.val)
<1> DEFINE mixed == [w.val EXCEPT !.prop = r.val.prop]
           listed == IF r.at = "failed" THEN Empty ELSE Viewed(r.val)
<1>1. w.val \in Values
  BY DEF Request
<1>2. mixed = [shape |-> w.val.shape, prop |-> r.val.prop, dao |-> w.val.dao] /\ mixed \in Values
  BY <1>1 DEF Values
<1>3. listed \in Values
  BY ViewedIsValue, ValuesDiffer
<1>4. Resumed(w, r) = IF w.kind = "list" THEN Ended(w, "done", listed)
                      ELSE IF r.at = "failed" THEN Ended(w, "done", w.val)
                      ELSE IF r.val = Null THEN Ended(w, "failed", w.val)
                      ELSE Ended(w, "done", mixed)
  BY DEF Resumed
<1> HIDE DEF mixed, listed
<1>5. CASE w.kind = "list"
  <2> DEFINE q == Ended(w, "done", listed)
  <2>1. GoesOn(q, w) /\ q.on = 0 /\ q.at = "done" /\ q.val = listed
    BY <1>3, EndedGoesOn
  <2> HIDE DEF q
  <2>2. Resumed(w, r) = q
    BY <1>4, <1>5 DEF q
  <2>3. QED  BY <1>5, <2>1, <2>2 DEF Resumes, GoesOn, listed
<1>6. CASE w.kind = "dao" /\ r.at = "failed"
  <2> DEFINE q == Ended(w, "done", w.val)
  <2>1. GoesOn(q, w) /\ q.on = 0 /\ q.at = "done" /\ q.val = w.val
    BY <1>1, EndedGoesOn
  <2> HIDE DEF q
  <2>2. Resumed(w, r) = q
    BY <1>4, <1>6 DEF q
  <2>3. QED  BY <1>6, <2>1, <2>2 DEF Resumes, GoesOn
<1>7. CASE w.kind = "dao" /\ r.at # "failed" /\ r.val = Null
  <2> DEFINE q == Ended(w, "failed", w.val)
  <2>1. GoesOn(q, w) /\ q.on = 0 /\ q.at = "failed"
    BY <1>1, EndedGoesOn
  <2> HIDE DEF q
  <2>2. Resumed(w, r) = q
    BY <1>4, <1>7 DEF q
  <2>3. QED  BY <1>7, <2>1, <2>2 DEF Resumes, GoesOn
<1>8. CASE w.kind = "dao" /\ r.at # "failed" /\ r.val # Null
  <2> DEFINE q == Ended(w, "done", mixed)
  <2>1. GoesOn(q, w) /\ q.on = 0 /\ q.at = "done" /\ q.val = mixed
    BY <1>2, EndedGoesOn
  <2> HIDE DEF q
  <2>2. Resumed(w, r) = q
    BY <1>4, <1>8 DEF q
  <2>3. QED  BY <1>2, <1>8, <2>1, <2>2 DEF Resumes, GoesOn
<1>9. QED  BY <1>5, <1>6, <1>7, <1>8

LEMMA WaitsGoesOn ==
  ASSUME NEW w \in Request, NEW n \in 0 .. MaxInFlight
  PROVE  LET q == [w EXCEPT !.at = "await", !.on = n]
         IN  GoesOn(q, w) /\ q.at = "await" /\ q.on = n /\ q.val = w.val
<1>1. SUFFICES ASSUME NEW q, q = [w EXCEPT !.at = "await", !.on = n]
               PROVE  GoesOn(q, w) /\ q.at = "await" /\ q.on = n /\ q.val = w.val
  OBVIOUS
<1>2. q = [key |-> w.key, kind |-> w.kind, current |-> w.current, at |-> "await", on |-> n,
           val |-> w.val]
  BY <1>1 DEF Request
<1>3. QED  BY <1>2 DEF Request, GoesOn

(* An item of a page is read from the cache, or waits for a request of it that    *)
(* is on its way, or for one of its own.                                          *)
HydratesAtOnce(s) ==
  /\ HasFreshData(entries[RawKey]) /\ entries' = entries
  /\ OneGoesOn(s) /\ Resumes(requests'[s], requests[s], "done", entries[RawKey].data)

HydrateJoins(s) ==
  /\ entries[RawKey].promise # 0 /\ entries' = entries
  /\ OneGoesOn(s) /\ requests'[s].at = "await" /\ requests'[s].on = entries[RawKey].promise
  /\ requests'[s].val = requests[s].val

HydrateAsks(s) ==
  /\ entries[RawKey].promise = 0
  /\ \E t \in Slots \ {s} :
       /\ requests[t] = Free /\ requests'[t] = Sent(RawKey, "hydrate")
       /\ OpensEntry(RawKey, t) /\ Frame(RawKey, {s, t}) /\ RequestsTyped(requests')
       /\ LET q == requests'[s]
              w == requests[s]
          IN  /\ q \in Request /\ q.key = w.key /\ q.kind = w.kind
              /\ (q.current => w.current) /\ (w.key # RawKey => q.current = w.current)
              /\ q.at = "await" /\ q.on = t /\ q.val = w.val

LEMMA HydrateFacts ==
  ASSUME TypeOK, NEW s \in Slots, Hydrate(s)
  PROVE  /\ requests[s] # Free /\ requests[s].kind = "dao" /\ requests[s].at = "read"
         /\ HydratesAtOnce(s) \/ HydrateJoins(s) \/ HydrateAsks(s)
<1> DEFINE e == entries[RawKey]
           w == requests[s]
<1>1. w \in Request /\ w # Free /\ w.kind = "dao" /\ w.at = "read"
  BY DEF Hydrate, TypeOK
<1>2. e \in Snapshot /\ e.data \in Values /\ e.promise \in 0 .. MaxInFlight
  BY KeysDiffer DEF TypeOK, Snapshot
<1>3. CASE HasFreshData(e) /\ UNCHANGED entries
             /\ requests' = [requests EXCEPT ![s] = Resumed(w, [at |-> "done", val |-> e.data])]
  <2> DEFINE q == Resumed(w, [at |-> "done", val |-> e.data])
  <2>1. q \in Request /\ Resumes(q, w, "done", e.data)
    BY <1>1, <1>2, ResumedResumes
  <2> HIDE DEF q
  <2>2. requests' = [requests EXCEPT ![s] = q]
    BY <1>3 DEF q
  <2>3. OneGoesOn(s) /\ requests'[s] = q
    BY <1>1, <2>1, <2>2, SlotWritten DEF Resumes
  <2>4. QED  BY <1>1, <1>3, <2>1, <2>3 DEF HydratesAtOnce
<1>4. CASE e.promise # 0 /\ UNCHANGED entries
             /\ requests' = [requests EXCEPT ![s].at = "await", ![s].on = e.promise]
  <2> DEFINE q == [w EXCEPT !.at = "await", !.on = e.promise]
  <2>1. requests' = [requests EXCEPT ![s] = q]
    BY <1>4 DEF TypeOK
  <2>2. GoesOn(q, w) /\ q.at = "await" /\ q.on = e.promise /\ q.val = w.val
    BY <1>1, <1>2, WaitsGoesOn
  <2> HIDE DEF q
  <2>3. OneGoesOn(s) /\ requests'[s] = q
    BY <1>1, <2>1, <2>2, SlotWritten DEF GoesOn
  <2>4. QED  BY <1>1, <1>4, <2>2, <2>3 DEF HydrateJoins
<1>5. CASE e.promise = 0
             /\ \E t \in Slots :
                  /\ FreeSlot(t)
                  /\ requests' = [Superseded(requests, RawKey) EXCEPT
                                    ![s].at = "await", ![s].on = t, ![t] = Sent(RawKey, "hydrate")]
                  /\ entries' = [entries EXCEPT ![RawKey] = Opened(@, t)]
  <2> DEFINE rs == Superseded(requests, RawKey)
  <2>1. PICK t \in Slots :
          /\ requests[t] = Free
          /\ requests' = [rs EXCEPT ![s].at = "await", ![s].on = t, ![t] = Sent(RawKey, "hydrate")]
          /\ entries' = [entries EXCEPT ![RawKey] = Opened(@, t)]
    BY <1>5 DEF FreeSlot
  <2>2. /\ RequestsTyped(rs) /\ RequestsTyped(requests)
        /\ \A u \in Slots : KeptBut(RawKey, rs[u], requests[u])
    BY KeysDiffer, SupersededKeeps DEF TypeOK, RequestsTyped
  <2>3. t # s /\ t \in 0 .. MaxInFlight
    BY <1>1, <2>1 DEF Slots
  <2> DEFINE q == [rs[s] EXCEPT !.at = "await", !.on = t]
             new == Sent(RawKey, "hydrate")
  <2>4. rs[s] \in Request /\ Demoted(rs[s], w) /\ (w.key # RawKey => rs[s] = w)
    BY <1>1, <2>2 DEF Demoted, KeptBut
  <2>5. GoesOn(q, rs[s]) /\ q.at = "await" /\ q.on = t /\ q.val = rs[s].val
    BY <2>3, <2>4, WaitsGoesOn
  <2>6. new \in Request
    BY KeysDiffer, SentIsRequest
  <2> HIDE DEF rs
  <2>7. requests' = [rs EXCEPT ![s] = q, ![t] = new]
    BY <2>1, <2>2, <2>3 DEF RequestsTyped
  <2> HIDE DEF q, new
  <2>8. /\ requests'[s] = q /\ requests'[t] = new
        /\ \A u \in Slots \ {s, t} : requests'[u] = rs[u]
    BY <2>2, <2>3, <2>7 DEF RequestsTyped
  <2>9. RequestsTyped(requests')
    BY <2>2, <2>5, <2>6, <2>7 DEF RequestsTyped, GoesOn
  <2>10. Frame(RawKey, {s, t})
    BY <2>2, <2>8 DEF Frame
  <2>11. OpensEntry(RawKey, t)
    BY <2>1, KeysDiffer, OpenedOpens DEF TypeOK
  <2>12. q \in Request /\ q.key = w.key /\ q.kind = w.kind
         /\ (q.current => w.current) /\ (w.key # RawKey => q.current = w.current)
         /\ q.at = "await" /\ q.on = t /\ q.val = w.val
    BY <2>4, <2>5 DEF GoesOn, Demoted
  <2>13. HydrateAsks(s)
    BY <1>5, <2>1, <2>3, <2>8, <2>9, <2>10, <2>11, <2>12 DEF HydrateAsks, new
  <2>14. QED  BY <1>1, <2>13
<1>6. QED  BY <1>3, <1>4, <1>5 DEF Hydrate

(* What the entry is after the request that ends has been stored, or not.         *)
StoresEntry(s) ==
  LET k == requests[s].key
      r == requests[s]
  IN  /\ ~r.current => entries' = entries
      /\ r.current => /\ entries' = [entries EXCEPT ![k] = entries'[k]]
                      /\ entries'[k] \in Snapshot
                      /\ entries'[k].promise = 0 /\ ~entries'[k].fetching
                      /\ IF r.at = "failed" THEN /\ entries'[k].data = entries[k].data
                                                 /\ entries'[k].expires = entries[k].expires
                         ELSE entries'[k].data = r.val

LEMMA SettleFacts ==
  ASSUME TypeOK, NEW s \in Slots, Settle(s),
         \A t \in Slots : requests[t] # Free /\ requests[t].on = s => requests[t].kind \in {"list", "dao"}
  PROVE  /\ requests[s] # Free /\ requests[s].at \in {"done", "failed"}
         /\ RequestsTyped(requests') /\ requests'[s] = Free
         /\ \A t \in Slots \ {s} :
              IF requests[t] # Free /\ requests[t].on = s
              THEN Resumes(requests'[t], requests[t], requests[s].at, requests[s].val)
              ELSE requests'[t] = requests[t]
         /\ StoresEntry(s)
<1> DEFINE r == requests[s]
<1>1. r \in Request /\ r # Free /\ r.at \in {"done", "failed"}
  BY DEF Settle, TypeOK
<1>2. r.val \in Values /\ r.key \in Keys
  BY <1>1 DEF Request
<1>3. requests' = [t \in Slots |->
           IF t = s THEN Free
           ELSE IF requests[t] # Free /\ requests[t].on = s THEN Resumed(requests[t], r)
           ELSE requests[t]]
  BY DEF Settle
<1>4. \A t \in Slots : requests[t] # Free /\ requests[t].on = s =>
         /\ Resumed(requests[t], r) \in Request
         /\ Resumes(Resumed(requests[t], r), requests[t], r.at, r.val)
  BY <1>2, ResumedResumes DEF TypeOK
<1>5. RequestsTyped(requests')
  BY <1>3, <1>4 DEF RequestsTyped, TypeOK
<1>6. /\ requests'[s] = Free
      /\ \A t \in Slots \ {s} :
              IF requests[t] # Free /\ requests[t].on = s
              THEN Resumes(requests'[t], requests[t], r.at, r.val)
              ELSE requests'[t] = requests[t]
  BY <1>3, <1>4
<1>7. StoresEntry(s)
  <2> DEFINE k == r.key
             e == entries[k]
  <2>1. CASE ~r.current
    BY <2>1 DEF Settle, StoresEntry
  <2>2. CASE r.current
    <3>1. entries' = [entries EXCEPT ![k] = Stored(e, r)]
      BY <2>2 DEF Settle
    <3>2. e \in Snapshot
      BY <1>2 DEF TypeOK
    <3>3. ASSUME NEW q, q = Stored(e, r)
          PROVE  /\ q \in Snapshot /\ q.promise = 0 /\ ~q.fetching
                 /\ IF r.at = "failed" THEN q.data = e.data /\ q.expires = e.expires
                                       ELSE q.data = r.val
      <4> HIDE DEF r, e
      <4>1. CASE r.at = "failed"
        <5>1. q = [data |-> e.data, fetching |-> FALSE, stale |-> FALSE, expires |-> e.expires,
                   promise |-> 0]
          BY <3>2, <3>3, <4>1 DEF Stored, Snapshot
        <5>2. QED  BY <3>2, <4>1, <5>1, CacheAssumption DEF Snapshot
      <4>2. CASE r.at # "failed"
        <5>1. q = [data |-> r.val, fetching |-> FALSE, stale |-> FALSE, expires |-> "ahead",
                   promise |-> 0]
          BY <3>2, <3>3, <4>2 DEF Stored, Snapshot
        <5>2. QED  BY <1>2, <4>2, <5>1, CacheAssumption DEF Snapshot, r
      <4>3. QED  BY <4>1, <4>2
    <3> DEFINE q == Stored(e, r)
    <3>4. /\ q \in Snapshot /\ q.promise = 0 /\ ~q.fetching
          /\ IF r.at = "failed" THEN q.data = e.data /\ q.expires = e.expires
                                ELSE q.data = r.val
      BY <3>3
    <3> HIDE DEF q
    <3>5. entries' = [entries EXCEPT ![k] = q] /\ entries'[k] = q
      BY <1>2, <3>1 DEF q, TypeOK
    <3>6. QED  BY <2>2, <3>4, <3>5 DEF StoresEntry
  <2>3. QED  BY <2>1, <2>2
<1>8. QED  BY <1>1, <1>5, <1>6, <1>7

(* A vote concerns both keys, a new proposal that of the list.                    *)
LEMMA VoteMatches ==
  /\ Matches(RawKey, InvalidatedBy("vote"))
  /\ Matches(ListKey, InvalidatedBy("vote")) /\ Matches(ListKey, InvalidatedBy("create"))
<1>1. IsPrefix(RawKey, RawKey)
  BY DEF IsPrefix, RawKey
<1>2. IsPrefix(AllOf, ListKey)
  <2>1. Len(AllOf) = 2 /\ Len(ListKey) = 3
    BY DEF AllOf, ListKey
  <2>2. \A i \in 1 .. 2 : AllOf[i] = ListKey[i] /\ AllOf[i] \in {"proposals", "p"}
    <3>1. AllOf[1] = "proposals" /\ AllOf[2] = "p" /\ ListKey[1] = "proposals" /\ ListKey[2] = "p"
      BY DEF AllOf, ListKey
    <3>2. \A i \in 1 .. 2 : i = 1 \/ i = 2
      OBVIOUS
    <3>3. QED  BY <3>1, <3>2
  <2> DEFINE short == SubSeq(AllOf, 1, 2)
             long  == SubSeq(ListKey, 1, 2)
  <2>3. /\ short \in Seq({"proposals", "p"}) /\ Len(short) = 2 /\ \A i \in 1 .. 2 : short[i] = AllOf[i]
        /\ long \in Seq({"proposals", "p"}) /\ Len(long) = 2 /\ \A i \in 1 .. 2 : long[i] = ListKey[i]
    <3>1. \A i \in 1 .. 2 : AllOf[i] \in {"proposals", "p"} /\ ListKey[i] \in {"proposals", "p"}
      BY <2>2
    <3>2. /\ short \in Seq({"proposals", "p"}) /\ Len(short) = 2
          /\ \A i \in 1 .. 2 : short[i] = AllOf[1 + i - 1]
      BY <3>1, SubSeqProperties
    <3>3. /\ long \in Seq({"proposals", "p"}) /\ Len(long) = 2
          /\ \A i \in 1 .. 2 : long[i] = ListKey[1 + i - 1]
      BY <3>1, SubSeqProperties
    <3>4. QED  BY <3>2, <3>3
  <2> HIDE DEF short, long
  <2>4. short = long
    BY <2>2, <2>3, SeqEqual
  <2>5. QED  BY <2>1, <2>4 DEF IsPrefix, short, long
<1>3. /\ RawKey \in InvalidatedBy("vote")
      /\ AllOf \in InvalidatedBy("vote") /\ AllOf \in InvalidatedBy("create")
  BY DEF InvalidatedBy
<1>4. QED  BY <1>1, <1>2, <1>3 DEF Matches

(* The keys in H are invalidated.                                                 *)
Invalidates(H) ==
  /\ entries' \in [Keys -> Snapshot] /\ RequestsTyped(requests')
  /\ \A k \in Keys :
       IF k \in H THEN /\ entries'[k].data = entries[k].data /\ entries'[k].expires = "zero"
                       /\ ~entries'[k].fetching /\ entries'[k].promise = 0
                 ELSE entries'[k] = entries[k]
  /\ \A t \in Slots :
       /\ requests[t] = Free => requests'[t] = Free
       /\ requests[t] # Free => /\ Demoted(requests'[t], requests[t])
                                /\ IF requests[t].key \in H THEN ~requests'[t].current
                                   ELSE requests'[t] = requests[t]

LEMMA ConfirmFacts ==
  ASSUME TypeOK, NEW w \in landed, Confirm(w)
  PROVE  \E H \in SUBSET Keys :
           /\ ListKey \in H
           /\ w.kind = "vote" => RawKey \in H
           /\ Invalidates(H)
<1> DEFINE hit(k) == Matches(k, InvalidatedBy(w.kind))
           H == {k \in Keys : hit(k)}
<1>1. /\ entries' = [k \in Keys |-> IF hit(k) THEN Invalidated(entries[k]) ELSE entries[k]]
      /\ requests' = [s \in Slots |->
           IF requests[s] # Free /\ hit(requests[s].key) THEN Abandoned(requests[s])
                                                         ELSE requests[s]]
  BY DEF Confirm
<1>2. ListKey \in H /\ (w.kind = "vote" => RawKey \in H)
  <2>1. w.kind \in {"vote", "create"}
    BY DEF TypeOK, Kinds
  <2>2. QED  BY <2>1, VoteMatches, KeysDiffer
<1> HIDE DEF hit
<1>3. ASSUME NEW k \in Keys
      PROVE  LET q == Invalidated(entries[k])
             IN  /\ q \in Snapshot /\ q.data = entries[k].data /\ q.expires = "zero"
                 /\ ~q.fetching /\ q.promise = 0
  <2> DEFINE e == entries[k]
  <2>1. e \in Snapshot
    BY DEF TypeOK
  <2> HIDE DEF e
  <2>2. SUFFICES ASSUME NEW q, q = Invalidated(e)
                 PROVE  /\ q \in Snapshot /\ q.data = e.data /\ q.expires = "zero"
                        /\ ~q.fetching /\ q.promise = 0
    BY DEF e
  <2>3. q = [data |-> e.data, fetching |-> FALSE, stale |-> TRUE, expires |-> "zero", promise |-> 0]
    BY <2>1, <2>2 DEF Invalidated, Snapshot
  <2>4. QED  BY <2>1, <2>3, CacheAssumption DEF Snapshot
<1>4. entries' \in [Keys -> Snapshot]
  BY <1>1, <1>3 DEF TypeOK
<1>5. \A k \in Keys :
       IF k \in H THEN /\ entries'[k].data = entries[k].data /\ entries'[k].expires = "zero"
                       /\ ~entries'[k].fetching /\ entries'[k].promise = 0
                 ELSE entries'[k] = entries[k]
  BY <1>1, <1>3
<1>6. ASSUME NEW t \in Slots, requests[t] # Free
      PROVE  /\ Demoted(requests'[t], requests[t])
             /\ IF requests[t].key \in H THEN ~requests'[t].current
                ELSE requests'[t] = requests[t]
  <2>1. requests[t] \in Request /\ requests[t].key \in Keys
    BY <1>6, RequestNotFree DEF TypeOK
  <2>2. Demoted([requests[t] EXCEPT !.current = FALSE], requests[t])
        /\ ~[requests[t] EXCEPT !.current = FALSE].current /\ Demoted(requests[t], requests[t])
    BY <2>1, SameIsDemoted, AbandonedIsDemoted
  <2>3. requests'[t] = IF hit(requests[t].key) THEN [requests[t] EXCEPT !.current = FALSE]
                                               ELSE requests[t]
    BY <1>1, <1>6 DEF Abandoned
  <2>4. QED  BY <2>1, <2>2, <2>3
<1>7. ASSUME NEW t \in Slots, requests[t] = Free  PROVE requests'[t] = Free
  BY <1>1, <1>7
<1>9. RequestsTyped(requests')
  <2>1. \A t \in Slots : requests'[t] \in Request \cup {Free}
    BY <1>6, <1>7 DEF Demoted
  <2>2. requests' = [t \in Slots |-> requests'[t]]
    BY <1>1
  <2>3. QED  BY <2>1, <2>2 DEF RequestsTyped
<1>10. Invalidates(H)
  BY <1>4, <1>5, <1>6, <1>7, <1>9 DEF Invalidates
<1>11. QED  BY <1>2, <1>10

LEMMA ExpireFacts ==
  ASSUME TypeOK, NEW k \in Keys, Expire(k)
  PROVE  /\ entries' \in [Keys -> Snapshot]
         /\ \A j \in Keys :
              /\ entries'[j].data = entries[j].data
              /\ entries'[j].fetching = entries[j].fetching
              /\ entries'[j].promise = entries[j].promise
              /\ HasFreshData(entries'[j]) => HasFreshData(entries[j])
<1>1. entries \in [Keys -> Snapshot] /\ entries' = [entries EXCEPT ![k].expires = "past"]
  BY DEF Expire, TypeOK
<1>2. QED  BY <1>1 DEF Snapshot, HasFreshData

LEMMA FloorRises ==
  ASSUME TypeOK, NEW w \in landed, Confirm(w)
  PROVE  /\ floor' \in Versions
         /\ floor'.prop = (IF w.kind = "vote" THEN Later(floor.prop, w.at.prop) ELSE floor.prop)
         /\ floor'.dao = (IF w.kind = "vote" THEN floor.dao ELSE Later(floor.dao, w.at.dao))
<1>1. w.at \in Versions /\ floor \in Versions
  BY DEF TypeOK
<1>2. floor' = IF w.kind = "vote" THEN [floor EXCEPT !.prop = Later(@, w.at.prop)]
                                 ELSE [floor EXCEPT !.dao = Later(@, w.at.dao)]
  BY DEF Confirm, Raised
<1>3. QED  BY <1>1, <1>2 DEF Later, Versions

LEMMA LandFacts ==
  ASSUME TypeOK, NEW kind \in Kinds, Land(kind)
  PROVE  /\ ledger' \in Versions /\ Behind(ledger, ledger')
         /\ landed' = landed \cup {[kind |-> kind, at |-> ledger']}
<1>1. ledger \in Versions /\ ledger.prop + ledger.dao < MaxWrites /\ MaxWrites \in Nat
  BY CacheAssumption DEF TypeOK, Land, Writes
<1>2. ledger' = IF kind = "vote" THEN [ledger EXCEPT !.prop = @ + 1] ELSE [ledger EXCEPT !.dao = @ + 1]
  BY DEF Land, Changes
<1>3. ledger' \in Versions /\ Behind(ledger, ledger')
  BY <1>1, <1>2 DEF Versions, Behind
<1>4. QED  BY <1>3 DEF Land

-------------------------------------------------------------------------------
(* Every step is one of these *)

LEMMA StepCases ==
  ASSUME Next
  PROVE  \/ \E s \in Slots : Serve(s) \/ Fail(s) \/ Hydrate(s) \/ Settle(s)
         \/ FetchRaw /\ UNCHANGED <<ledger, landed, floor>> /\ callbacks' \in {callbacks, callbacks - 1}
                     /\ (callbacks' # callbacks => callbacks > 0)
         \/ FetchList /\ UNCHANGED <<ledger, landed, floor>> /\ callbacks' \in {callbacks, callbacks - 1}
                      /\ (callbacks' # callbacks => callbacks > 0)
         \/ \E k \in Keys : Expire(k)
         \/ \E kind \in Kinds : Land(kind)
         \/ \E w \in landed : Confirm(w)
<1>1. ASSUME NEW k \in Keys, Effect(k) \/ Refetch(k)
      PROVE  /\ FetchRaw \/ FetchList
             /\ UNCHANGED <<ledger, landed, floor>> /\ callbacks' \in {callbacks, callbacks - 1}
             /\ (callbacks' # callbacks => callbacks > 0)
  BY <1>1 DEF Effect, Refetch, Fetch, world
<1>2. QED  BY <1>1 DEF Next

(* Type correctness *)

LEMMA EntryTyped ==
  ASSUME entries \in [Keys -> Snapshot], NEW k \in Keys, NEW s, OpensEntry(k, s)
  PROVE  entries' \in [Keys -> Snapshot]
BY DEF OpensEntry

LEMMA InitTyped == Init => TypeOK
BY CacheAssumption, ValuesDiffer DEF Init, TypeOK, NewEntry, Snapshot, Versions

(* Only lists and pages wait, as ShapeInv says.                                   *)
LEMMA WhoWaits ==
  ASSUME TypeOK, ShapeInv, NEW s \in Slots, NEW t \in Slots, requests[t] # Free, requests[t].on = s
  PROVE  requests[t].kind \in {"list", "dao"} /\ requests[t].at = "await"
BY SlotsAreNumbers DEF TypeOK, ShapeInv, RShape, Request

LEMMA StepTyped == TypeOK /\ ShapeInv /\ [Next]_vars => TypeOK'
<1> SUFFICES ASSUME TypeOK, ShapeInv, [Next]_vars  PROVE TypeOK'
  OBVIOUS
<1> USE DEF RequestsTyped
<1>1. /\ entries \in [Keys -> Snapshot] /\ RequestsTyped(requests)
      /\ ledger \in Versions /\ floor \in Versions
      /\ landed \subseteq [kind : Kinds, at : Versions] /\ callbacks \in Nat
  BY DEF TypeOK
<1>2. ASSUME NEW s \in Slots, Serve(s) \/ Fail(s)  PROVE TypeOK'
  <2>1. RequestsTyped(requests')
    BY <1>2, ServeFacts, FailFacts DEF OneGoesOn
  <2>2. QED  BY <1>1, <1>2, <2>1 DEF TypeOK, Serve, Fail, world
<1>3. ASSUME NEW s \in Slots, Hydrate(s)  PROVE TypeOK'
  <2>1. RequestsTyped(requests') /\ entries' \in [Keys -> Snapshot]
    BY <1>1, <1>3, HydrateFacts, EntryTyped, KeysDiffer
    DEF HydratesAtOnce, HydrateJoins, HydrateAsks, OneGoesOn
  <2>2. QED  BY <1>1, <1>3, <2>1 DEF TypeOK, Hydrate, world
<1>4. ASSUME NEW s \in Slots, Settle(s)  PROVE TypeOK'
  <2>1. requests[s] \in Request /\ requests[s].key \in Keys
    BY <1>1, <1>4, RequestNotFree DEF Settle
  <2>2. RequestsTyped(requests') /\ StoresEntry(s)
    BY <1>4, SettleFacts, WhoWaits
  <2>3. entries' \in [Keys -> Snapshot]
    BY <1>1, <2>1, <2>2 DEF StoresEntry
  <2>4. QED  BY <1>1, <1>4, <2>2, <2>3 DEF TypeOK, Settle, world
<1>5. ASSUME FetchRaw \/ FetchList, UNCHANGED <<ledger, landed, floor>>,
             callbacks' \in {callbacks, callbacks - 1}, callbacks' # callbacks => callbacks > 0
      PROVE  TypeOK'
  <2>1. RequestsTyped(requests') /\ entries' \in [Keys -> Snapshot]
    BY <1>1, <1>5, FetchRawFacts, FetchListFacts, EntryTyped, KeysDiffer
  <2>2. callbacks' \in Nat
    BY <1>1, <1>5
  <2>3. QED  BY <1>1, <1>5, <2>1, <2>2 DEF TypeOK
<1>6. ASSUME NEW k \in Keys, Expire(k)  PROVE TypeOK'
  <2>1. entries' \in [Keys -> Snapshot]
    BY <1>6, ExpireFacts
  <2>2. QED  BY <1>1, <1>6, <2>1 DEF TypeOK, Expire, world
<1>7. ASSUME NEW kind \in Kinds, Land(kind)  PROVE TypeOK'
  <2>1. ledger' \in Versions /\ landed' = landed \cup {[kind |-> kind, at |-> ledger']}
    BY <1>7, LandFacts
  <2>2. [kind |-> kind, at |-> ledger'] \in [kind : Kinds, at : Versions]
    BY <2>1
  <2>3. QED  BY <1>1, <1>7, <2>1, <2>2 DEF TypeOK, Land
<1>8. ASSUME NEW w \in landed, Confirm(w)  PROVE TypeOK'
  <2>1. RequestsTyped(requests') /\ entries' \in [Keys -> Snapshot]
    BY <1>8, ConfirmFacts DEF Invalidates
  <2>2. floor' \in Versions
    BY <1>8, FloorRises
  <2>3. landed' \subseteq landed /\ callbacks' \in Nat /\ ledger' = ledger
    BY <1>1, <1>8 DEF Confirm
  <2>4. QED  BY <1>1, <2>1, <2>2, <2>3 DEF TypeOK
<1>9. CASE UNCHANGED vars
  BY <1>9 DEF TypeOK, vars
<1>10. QED  BY <1>2, <1>3, <1>4, <1>5, <1>6, <1>7, <1>8, <1>9, StepCases

-------------------------------------------------------------------------------
(* The shape of requests *)

(* A request on its way stays one on its key.                                     *)
Stays(t) ==
  requests[t] # Free => /\ requests'[t] # Free /\ requests'[t].key = requests[t].key
                        /\ requests'[t].kind = requests[t].kind

LEMMA KeptStays ==
  ASSUME NEW k, NEW t, KeptBut(k, requests'[t], requests[t])
  PROVE  Stays(t)
BY RequestNotFree DEF KeptBut, Demoted, Stays

LEMMA KeptShape ==
  ASSUME ShapeInv, NEW k, NEW t \in Slots, KeptBut(k, requests'[t], requests[t]),
         requests'[t] # Free, \A u \in Slots : Stays(u), TypeOK
  PROVE  RShape(requests'[t]) /\ Waits(requests[t])'
<1> DEFINE r == requests[t]
           q == requests'[t]
<1>1. r # Free /\ Demoted(q, r) /\ r \in Request
  BY DEF KeptBut, TypeOK
<1>2. RShape(r) /\ Waits(r)
  BY <1>1 DEF ShapeInv
<1> HIDE DEF r, q
<1>3. RShape(q)
  BY <1>1, <1>2 DEF RShape, Demoted, HasVal
<1>4. q.on = 0 \/ q.on \in Slots
  BY <1>1, SlotsAreNumbers DEF Demoted, Request
<1>5. q.on # 0 => requests'[q.on] # Free /\ requests'[q.on].key = WaitsFor(q)
  BY <1>1, <1>2, <1>4 DEF Waits, WaitsFor, Demoted, Stays
<1>6. QED  BY <1>3, <1>5 DEF Waits, q

LEMMA SentShape ==
  ASSUME NEW k \in Keys, NEW kind \in {"page", "hydrate", "dao"},
         k = RawKey <=> kind \in {"page", "hydrate"}
  PROVE  RShape(Sent(k, kind)) /\ Waits(Sent(k, kind))'
<1>1. /\ Sent(k, kind).key = k /\ Sent(k, kind).kind = kind
      /\ Sent(k, kind).at = "sent" /\ Sent(k, kind).on = 0
  BY SentIsRequest
<1>2. RShape(Sent(k, kind))
  BY <1>1 DEF RShape, HasVal
<1>3. Waits(Sent(k, kind))'
  BY <1>1 DEF Waits
<1>4. QED  BY <1>2, <1>3

LEMMA ViewedIsListed ==
  ASSUME NEW d \in Values, ListVal(d)
  PROVE  ListVal(Viewed(d))
BY ViewedIsValue DEF ListVal

(* The entry of an opened key keeps its data.                                     *)
DataStay == \A k \in Keys : entries'[k].data = entries[k].data

LEMMA OpensKeeps ==
  ASSUME TypeOK, NEW k \in Keys, NEW s, OpensEntry(k, s)
  PROVE  /\ DataStay
         /\ \A j \in Keys : HasFreshData(entries'[j]) <=> HasFreshData(entries[j])
         /\ \A j \in Keys : j # k => entries'[j] = entries[j]
BY DEF OpensEntry, DataStay, HasFreshData, TypeOK

LEMMA ShapeFrom ==
  ASSUME ShapeInv, DataStay,
         \A t \in Slots : requests'[t] # Free => RShape(requests'[t]) /\ Waits(requests[t])'
  PROVE  ShapeInv'
BY DEF ShapeInv, DataStay

LEMMA FetchRawShape ==
  ASSUME TypeOK, ShapeInv, FetchRaw
  PROVE  ShapeInv'
<1>1. PICK s \in Slots :
           /\ requests[s] = Free /\ requests'[s] = Sent(RawKey, "page")
           /\ Frame(RawKey, {s}) /\ OpensEntry(RawKey, s)
  BY FetchRawFacts
<1>2. \A t \in Slots : Stays(t)
  BY <1>1, KeptStays DEF Frame, Stays
<1>3. DataStay
  BY <1>1, OpensKeeps, KeysDiffer
<1>4. RShape(requests'[s]) /\ Waits(requests[s])'
  BY <1>1, SentShape, SentIsRequest, KeysDiffer DEF Waits
<1>5. ASSUME NEW t \in Slots, t # s, requests'[t] # Free
      PROVE  RShape(requests'[t]) /\ Waits(requests[t])'
  BY <1>1, <1>2, <1>5, KeptShape DEF Frame
<1>6. QED  BY <1>3, <1>4, <1>5, ShapeFrom

LEMMA FetchListShape ==
  ASSUME TypeOK, ShapeInv, SpinnerInv, FetchList
  PROVE  ShapeInv'
<1>1. PICK s \in Slots :
           /\ requests[s] = Free /\ RequestsTyped(requests') /\ OpensEntry(ListKey, s)
           /\ requests'[s] \in Request /\ requests'[s].key = ListKey /\ requests'[s].kind = "list"
           /\ OuterAnswered(s) \/ OuterJoins(s) \/ OuterAsks(s)
  BY FetchListFacts
<1>2. DataStay
  BY <1>1, OpensKeeps, KeysDiffer
<1>3. entries[ListKey].data \in Values /\ entries[ListKey].promise \in 0 .. MaxInFlight
  BY KeysDiffer DEF TypeOK, Snapshot
<1>4. CASE OuterAnswered(s)
  <2>1. \A t \in Slots : Stays(t)
    BY <1>1, <1>4, KeptStays DEF Frame, Stays, OuterAnswered
  <2>2. ListVal(requests'[s].val)
    <3>1. ListVal(entries[ListKey].data)
      BY <1>4, KeysDiffer DEF OuterAnswered, HasFreshData, ShapeInv, ValOf
    <3>2. QED  BY <1>3, <1>4, <3>1, ViewedIsListed DEF OuterAnswered
  <2>3. RShape(requests'[s]) /\ Waits(requests[s])'
    BY <1>1, <1>4, <2>2, KeysDiffer DEF RShape, Waits, OuterAnswered, HasVal, ValOf
  <2>4. ASSUME NEW t \in Slots, t # s, requests'[t] # Free
        PROVE  RShape(requests'[t]) /\ Waits(requests[t])'
    BY <1>4, <2>1, <2>4, KeptShape DEF Frame, OuterAnswered
  <2>5. QED  BY <1>2, <2>3, <2>4, ShapeFrom
<1>5. CASE OuterJoins(s)
  <2>1. \A t \in Slots : Stays(t)
    BY <1>1, <1>5, KeptStays DEF Frame, Stays, OuterJoins
  <2> DEFINE p == entries[ListKey].promise
  <2>2. p \in Slots /\ requests[p] # Free /\ requests[p].key = ListKey
    BY <1>3, <1>5, SlotsAreNumbers, KeysDiffer DEF OuterJoins, SpinnerInv
  <2>3. RShape(requests'[s]) /\ Waits(requests[s])'
    <3>1. RShape(requests'[s])
      BY <1>1, <1>5, KeysDiffer DEF RShape, OuterJoins, HasVal
    <3>2. requests'[p] # Free /\ requests'[p].key = ListKey
      BY <2>1, <2>2 DEF Stays
    <3>3. Waits(requests[s])'
      BY <1>1, <1>5, <3>2 DEF OuterJoins, Waits, WaitsFor
    <3>4. QED  BY <3>1, <3>3
  <2>4. ASSUME NEW t \in Slots, t # s, requests'[t] # Free
        PROVE  RShape(requests'[t]) /\ Waits(requests[t])'
    BY <1>5, <2>1, <2>4, KeptShape DEF Frame, OuterJoins
  <2>5. QED  BY <1>2, <2>3, <2>4, ShapeFrom
<1>6. CASE OuterAsks(s)
  <2>1. PICK u \in Slots \ {s} :
       /\ requests[u] = Free /\ requests'[u] = Sent(ListKey, "dao")
       /\ requests'[s].at = "await" /\ requests'[s].on = u /\ Frame(ListKey, {s, u})
    BY <1>6 DEF OuterAsks
  <2>2. \A t \in Slots : Stays(t)
    BY <1>1, <2>1, KeptStays DEF Frame, Stays
  <2>3. /\ requests'[u].key = ListKey /\ requests'[u].on = 0 /\ requests'[u] \in Request
        /\ RShape(requests'[u])
    BY <2>1, SentShape, SentIsRequest, KeysDiffer
  <2>4. RShape(requests'[u]) /\ Waits(requests[u])'
    BY <2>3 DEF Waits
  <2>5. RShape(requests'[s]) /\ Waits(requests[s])'
    <3>1. requests'[u] # Free
      BY <2>3, RequestNotFree
    <3>2. RShape(requests'[s])
      BY <1>1, <2>1, SlotsAreNumbers, KeysDiffer DEF RShape, HasVal
    <3>3. Waits(requests[s])'
      BY <1>1, <2>1, <2>3, <3>1 DEF Waits, WaitsFor
    <3>4. QED  BY <3>2, <3>3
  <2>6. ASSUME NEW t \in Slots \ {s, u}, requests'[t] # Free
        PROVE  RShape(requests'[t]) /\ Waits(requests[t])'
    BY <2>1, <2>2, <2>6, KeptShape DEF Frame
  <2>7. QED  BY <1>2, <2>4, <2>5, <2>6, ShapeFrom
<1>7. QED  BY <1>1, <1>4, <1>5, <1>6

(* One request went on, the others are as before.                                 *)
LEMMA OneShape ==
  ASSUME TypeOK, ShapeInv, NEW s \in Slots, OneGoesOn(s), DataStay,
         RShape(requests'[s]), Waits(requests[s])'
  PROVE  ShapeInv'
<1>1. \A t \in Slots : Stays(t)
  BY RequestNotFree DEF OneGoesOn, GoesOn, Stays
<1>2. ASSUME NEW t \in Slots, t # s, requests'[t] # Free
      PROVE  RShape(requests'[t]) /\ Waits(requests[t])'
  <2>1. requests'[t] = requests[t] /\ requests[t] \in Request
    BY <1>2 DEF OneGoesOn, TypeOK
  <2>2. KeptBut(RawKey, requests'[t], requests[t])
    BY <1>2, <2>1, SameIsDemoted DEF KeptBut
  <2>3. QED  BY <1>1, <1>2, <2>2, KeptShape
<1>3. QED  BY <1>2, ShapeFrom

LEMMA NodeShape ==
  ASSUME TypeOK, ShapeInv, NEW s \in Slots, Serve(s) \/ Fail(s)
  PROVE  ShapeInv'
<1> DEFINE r == requests[s]
           q == requests'[s]
<1>1. OneGoesOn(s) /\ r.at = "sent" /\ q.on = r.on /\ DataStay
  BY ServeFacts, FailFacts DEF Serve, Fail, DataStay
<1>2. r \in Request /\ r # Free /\ RShape(r) /\ q \in Request /\ q.key = r.key /\ q.kind = r.kind
  BY <1>1 DEF OneGoesOn, GoesOn, ShapeInv, TypeOK
<1>3. r.on = 0
  BY <1>1, <1>2 DEF RShape
<1>4. \/ q.at = (IF r.kind = "dao" THEN "read" ELSE "done") /\ q.val.shape = "contract"
      \/ r.kind = "page" /\ q.at = "done" /\ q.val = Null
      \/ q.at = "failed"
  BY ServeFacts, FailFacts
<1> HIDE DEF r, q
<1>5. RShape(q)
  BY <1>1, <1>2, <1>3, <1>4, KeysDiffer DEF RShape, HasVal, ValOf, RawVal, ListVal
<1>6. Waits(requests[s])'
  BY <1>1, <1>3 DEF Waits, q
<1>7. QED  BY <1>1, <1>5, <1>6, OneShape DEF q

(* What a request that waited gets, by what it waited for.                        *)
LEMMA ResumesShape ==
  ASSUME NEW w \in Request, RShape(w), NEW q, NEW at, NEW val \in Values,
         w.kind \in {"list", "dao"}, w.kind = "dao" => w.val.shape = "contract",
         at # "failed" => ValOf(WaitsFor(w), val), Resumes(q, w, at, val)
  PROVE  RShape(q) /\ q.on = 0 /\ q.at \in {"done", "failed"}
<1>1. q.key = w.key /\ q.kind = w.kind /\ q.on = 0 /\ q \in Request
  BY DEF Resumes, GoesOn
<1>2. CASE w.kind = "list"
  <2>1. q.at = "done" /\ q.val = IF at = "failed" THEN Empty ELSE Viewed(val)
    BY <1>2 DEF Resumes
  <2>2. ListVal(q.val)
    <3>1. CASE at = "failed"
      BY <2>1, <3>1 DEF ListVal
    <3>2. CASE at # "failed"
      <4>1. ListVal(val)
        BY <1>2, <3>2, KeysDiffer DEF ValOf, WaitsFor
      <4>2. QED  BY <2>1, <3>2, <4>1, ViewedIsListed
    <3>3. QED  BY <3>1, <3>2
  <2>3. QED  BY <1>1, <1>2, <2>1, <2>2, KeysDiffer DEF RShape, ValOf
<1>3. CASE w.kind = "dao"
  <2>1. w.key # RawKey
    BY <1>3 DEF RShape
  <2>2. \/ q.at = "failed"
        \/ q.at = "done" /\ q.val = w.val
        \/ /\ q.at = "done"
           /\ q.val = [shape |-> w.val.shape, prop |-> val.prop, dao |-> w.val.dao]
    BY <1>3 DEF Resumes
  <2>3. q.at = "failed" \/ (q.at = "done" /\ q.val.shape = "contract")
    BY <1>3, <2>2
  <2>4. QED  BY <1>1, <1>3, <2>1, <2>3 DEF RShape, ValOf, HasVal, ListVal
<1>4. QED  BY <1>2, <1>3

LEMMA HydrateShape ==
  ASSUME TypeOK, ShapeInv, SpinnerInv, NEW s \in Slots, Hydrate(s)
  PROVE  ShapeInv'
<1> DEFINE w == requests[s]
           q == requests'[s]
           e == entries[RawKey]
<1>1. /\ w # Free /\ w.kind = "dao" /\ w.at = "read"
      /\ HydratesAtOnce(s) \/ HydrateJoins(s) \/ HydrateAsks(s)
  BY HydrateFacts
<1>2. w \in Request /\ RShape(w) /\ w.val.shape = "contract" /\ w.key # RawKey
  BY <1>1 DEF TypeOK, ShapeInv, RShape, HasVal
<1>3. e.data \in Values /\ e.promise \in 0 .. MaxInFlight
  BY KeysDiffer DEF TypeOK, Snapshot
<1>4. CASE HydratesAtOnce(s)
  <2>1. ValOf(RawKey, e.data)
    BY <1>4, KeysDiffer DEF HydratesAtOnce, HasFreshData, ShapeInv
  <2>2. RShape(q) /\ q.on = 0
    BY <1>1, <1>2, <1>3, <1>4, <2>1, ResumesShape DEF HydratesAtOnce, WaitsFor
  <2>3. QED  BY <1>4, <2>2, OneShape DEF HydratesAtOnce, DataStay, Waits
<1>5. CASE HydrateJoins(s)
  <2> DEFINE p == e.promise
  <2>1. p \in Slots /\ requests[p] # Free /\ requests[p].key = RawKey
    BY <1>3, <1>5, SlotsAreNumbers, KeysDiffer DEF HydrateJoins, SpinnerInv
  <2>2. p # s
    BY <1>2, <2>1
  <2>3. OneGoesOn(s) /\ q.at = "await" /\ q.on = p /\ q.val = w.val
        /\ q \in Request /\ q.key = w.key /\ q.kind = w.kind
    BY <1>5 DEF HydrateJoins, OneGoesOn, GoesOn
  <2>4. RShape(q)
    BY <1>1, <1>2, <2>1, <2>3, SlotsAreNumbers DEF RShape, HasVal, ValOf
  <2>5. Waits(requests[s])'
    BY <1>1, <2>1, <2>2, <2>3 DEF Waits, WaitsFor, OneGoesOn
  <2>6. QED  BY <1>5, <2>4, <2>5, OneShape DEF HydrateJoins, DataStay
<1>6. CASE HydrateAsks(s)
  <2>1. PICK u \in Slots \ {s} :
       /\ requests[u] = Free /\ requests'[u] = Sent(RawKey, "hydrate")
       /\ OpensEntry(RawKey, u) /\ Frame(RawKey, {s, u})
       /\ q \in Request /\ q.key = w.key /\ q.kind = w.kind
       /\ q.at = "await" /\ q.on = u /\ q.val = w.val
    BY <1>6 DEF HydrateAsks
  <2>2. \A t \in Slots : Stays(t)
    BY <2>1, KeptStays, RequestNotFree DEF Frame, Stays
  <2>3. /\ requests'[u].key = RawKey /\ requests'[u].on = 0 /\ requests'[u] \in Request
        /\ RShape(requests'[u])
    BY <2>1, SentShape, SentIsRequest, KeysDiffer
  <2>4. RShape(q)
    BY <1>1, <1>2, <2>1, SlotsAreNumbers DEF RShape, HasVal, ValOf
  <2>5. Waits(requests[s])' /\ Waits(requests[u])'
    BY <1>1, <2>1, <2>3, RequestNotFree DEF Waits, WaitsFor
  <2>6. ASSUME NEW t \in Slots \ {s, u}, requests'[t] # Free
        PROVE  RShape(requests'[t]) /\ Waits(requests[t])'
    BY <2>1, <2>2, <2>6, KeptShape DEF Frame
  <2>7. DataStay
    BY <2>1, OpensKeeps, KeysDiffer
  <2>8. QED  BY <2>3, <2>4, <2>5, <2>6, <2>7, ShapeFrom
<1>7. QED  BY <1>1, <1>4, <1>5, <1>6

(* A request that ends: its value is one of its key.                              *)
LEMMA EndsWith ==
  ASSUME TypeOK, ShapeInv, NEW s \in Slots, requests[s] # Free, requests[s].at \in {"done", "failed"}
  PROVE  /\ requests[s] \in Request /\ requests[s].val \in Values
         /\ requests[s].at # "failed" => ValOf(requests[s].key, requests[s].val)
BY DEF TypeOK, ShapeInv, RShape, HasVal, Request

LEMMA SettleShape ==
  ASSUME TypeOK, ShapeInv, NEW s \in Slots, Settle(s)
  PROVE  ShapeInv'
<1> DEFINE r == requests[s]
<1>1. /\ r # Free /\ r.at \in {"done", "failed"}
      /\ RequestsTyped(requests') /\ requests'[s] = Free
      /\ \A t \in Slots \ {s} :
              IF requests[t] # Free /\ requests[t].on = s
              THEN Resumes(requests'[t], requests[t], r.at, r.val)
              ELSE requests'[t] = requests[t]
      /\ StoresEntry(s)
  BY SettleFacts, WhoWaits
<1>2. r \in Request /\ r.val \in Values /\ (r.at # "failed" => ValOf(r.key, r.val)) /\ r.key \in Keys
  BY <1>1, EndsWith, RequestNotFree
<1>3. \A t \in Slots \ {s} : Stays(t)
  BY <1>1, RequestNotFree DEF Stays, Resumes, GoesOn
<1>4. ASSUME NEW t \in Slots, requests'[t] # Free
      PROVE  RShape(requests'[t]) /\ Waits(requests[t])'
  <2> DEFINE w == requests[t]
             q == requests'[t]
  <2>1. t # s /\ w # Free /\ w \in Request /\ RShape(w) /\ Waits(w)
    BY <1>1, <1>4 DEF ShapeInv, TypeOK
  <2>2. CASE w.on = s
    <3>1. w.kind \in {"list", "dao"} /\ w.at = "await" /\ w.on # 0
      BY <2>1, <2>2, WhoWaits, SlotsAreNumbers
    <3>2. r.key = WaitsFor(w) /\ (w.kind = "dao" => w.val.shape = "contract")
      BY <2>1, <2>2, <3>1 DEF Waits, RShape, HasVal
    <3>3. Resumes(q, w, r.at, r.val)
      BY <1>1, <2>1, <2>2
    <3> HIDE DEF w, q, r
    <3>4. RShape(q) /\ q.on = 0
      BY <1>2, <2>1, <3>1, <3>2, <3>3, ResumesShape
    <3>5. QED  BY <3>4 DEF Waits, q
  <2>3. CASE w.on # s
    <3>1. q = w
      BY <1>1, <2>1, <2>3
    <3>2. w.on = 0 \/ w.on \in Slots \ {s}
      BY <2>1, <2>3, SlotsAreNumbers DEF Request
    <3>3. QED  BY <1>3, <2>1, <3>1, <3>2 DEF Waits, Stays
  <2>4. QED  BY <2>2, <2>3
<1>5. ASSUME NEW k \in Keys, entries'[k].data # None
      PROVE  ValOf(k, entries'[k].data)
  <2>1. CASE r.current /\ k = r.key /\ r.at # "failed"
    BY <1>1, <1>2, <2>1 DEF StoresEntry
  <2>2. CASE ~(r.current /\ k = r.key /\ r.at # "failed")
    <3>1. entries'[k].data = entries[k].data
      BY <1>1, <1>2, <2>2 DEF StoresEntry, TypeOK
    <3>2. QED  BY <1>5, <3>1 DEF ShapeInv
  <2>3. QED  BY <2>1, <2>2
<1>6. QED  BY <1>4, <1>5 DEF ShapeInv

LEMMA SameShape ==
  ASSUME TypeOK, ShapeInv, DataStay,
         \A t \in Slots : /\ requests[t] = Free => requests'[t] = Free
                          /\ requests[t] # Free => Demoted(requests'[t], requests[t])
  PROVE  ShapeInv'
<1>1. \A t \in Slots : Stays(t)
  BY RequestNotFree DEF Stays, Demoted
<1>2. ASSUME NEW t \in Slots, requests'[t] # Free
      PROVE  RShape(requests'[t]) /\ Waits(requests[t])'
  <2>1. KeptBut(requests[t].key, requests'[t], requests[t])
    <3>1. requests[t] # Free /\ Demoted(requests'[t], requests[t])
      BY <1>2
    <3>2. QED  BY <3>1 DEF KeptBut
  <2>2. QED  BY <1>1, <1>2, <2>1, KeptShape
<1>3. QED  BY <1>2, ShapeFrom

LEMMA ConfirmShape ==
  ASSUME TypeOK, ShapeInv, NEW w \in landed, Confirm(w)
  PROVE  ShapeInv'
<1>1. PICK H \in SUBSET Keys : Invalidates(H)
  BY ConfirmFacts
<1>2. DataStay
  BY <1>1 DEF Invalidates, DataStay
<1>3. QED  BY <1>1, <1>2, SameShape DEF Invalidates

LEMMA RestShape ==
  ASSUME TypeOK, ShapeInv,
         \/ \E k \in Keys : Expire(k)
         \/ \E kind \in Kinds : Land(kind)
         \/ UNCHANGED vars
  PROVE  ShapeInv'
<1>1. DataStay
  BY ExpireFacts DEF DataStay, Land, vars
<1>2. requests' = requests
  BY DEF Expire, Land, vars
<1>3. \A t \in Slots : requests[t] # Free => Demoted(requests[t], requests[t])
  BY SameIsDemoted DEF TypeOK
<1>4. QED  BY <1>1, <1>2, <1>3, SameShape

LEMMA StepShape == TypeOK /\ ShapeInv /\ SpinnerInv /\ [Next]_vars => ShapeInv'
BY StepCases, NodeShape, HydrateShape, SettleShape, FetchRawShape, FetchListShape, ConfirmShape,
   RestShape

-------------------------------------------------------------------------------
(* Spinners *)

SpinnerOf(k) ==
  LET p == entries[k].promise
  IN  /\ entries[k].fetching <=> p # 0
      /\ p # 0 => /\ requests[p] # Free /\ requests[p].key = k
                  /\ \E c \in Slots : Ends(k, p, c)

LEMMA SpinnerParts == SpinnerInv <=> \A k \in Keys : SpinnerOf(k)
BY DEF SpinnerInv, SpinnerOf

LEMMA PromiseTyped ==
  ASSUME TypeOK, NEW k \in Keys
  PROVE  entries[k].promise = 0 \/ entries[k].promise \in Slots
BY SlotsAreNumbers DEF TypeOK, Snapshot

(* The entry is as it was, and its requests go on, as current as they were.       *)
GoesOnCurrent(t) ==
  /\ requests'[t] # Free /\ requests'[t].key = requests[t].key
  /\ requests'[t].current = requests[t].current

LEMMA SpinnerKept ==
  ASSUME TypeOK, NEW k \in Keys, SpinnerOf(k),
         entries'[k].promise = entries[k].promise, entries'[k].fetching = entries[k].fetching,
         \A t \in Slots : requests[t] # Free /\ requests[t].key = k => GoesOnCurrent(t),
         \A p, c \in Slots :
           /\ requests[p] # Free /\ requests[p].key = k /\ requests[p].on = c /\ requests[c] # Free
           /\ requests[c].key = k /\ requests[c].current /\ p = entries[k].promise
           => requests'[p].on = c
  PROVE  SpinnerOf(k)'
<1> DEFINE p == entries[k].promise
<1>1. CASE p = 0
  BY <1>1 DEF SpinnerOf
<1>2. CASE p # 0
  <2>1. p \in Slots
    BY <1>2, PromiseTyped
  <2>2. PICK c \in Slots : Ends(k, p, c)
    BY <1>2 DEF SpinnerOf
  <2>3. /\ requests[p] # Free /\ requests[p].key = k
        /\ requests[c] # Free /\ requests[c].key = k /\ requests[c].current
        /\ c = p \/ requests[p].on = c
    BY <1>2, <2>2 DEF SpinnerOf, Ends
  <2>4. /\ requests'[p] # Free /\ requests'[p].key = k
        /\ requests'[c] # Free /\ requests'[c].key = k /\ requests'[c].current
    BY <2>1, <2>3 DEF GoesOnCurrent
  <2>5. c = p \/ requests'[p].on = c
    BY <2>1, <2>3
  <2>6. QED  BY <1>2, <2>4, <2>5 DEF SpinnerOf, Ends
<1>3. QED  BY <1>1, <1>2

(* A request of another key does not change those of this one.                    *)
LEMMA OtherKeyGoesOn ==
  ASSUME TypeOK, NEW j, NEW t \in Slots, KeptBut(j, requests'[t], requests[t]),
         requests[t] # Free, requests[t].key # j
  PROVE  GoesOnCurrent(t) /\ requests'[t].on = requests[t].on
BY DEF KeptBut, GoesOnCurrent

LEMMA OpensSpinner ==
  ASSUME NEW k \in Keys, NEW s \in Slots, OpensEntry(k, s),
         requests'[s] # Free, requests'[s].key = k,
         \E c \in Slots : /\ requests'[c] # Free /\ requests'[c].key = k /\ requests'[c].current
                          /\ c = s \/ requests'[s].on = c
  PROVE  SpinnerOf(k)'
<1>1. entries'[k].promise = s /\ entries'[k].fetching /\ s # 0
  BY SlotsAreNumbers DEF OpensEntry
<1>2. \E c \in Slots : Ends(k, s, c)'
  BY DEF Ends
<1>3. QED  BY <1>1, <1>2 DEF SpinnerOf

LEMMA FetchRawSpinner ==
  ASSUME TypeOK, ShapeInv, SpinnerInv, FetchRaw
  PROVE  SpinnerInv'
<1>1. PICK s \in Slots :
           /\ requests[s] = Free /\ requests'[s] = Sent(RawKey, "page")
           /\ Frame(RawKey, {s}) /\ OpensEntry(RawKey, s)
  BY FetchRawFacts
<1>2. SpinnerOf(RawKey)'
  BY <1>1, SentIsRequest, RequestNotFree, KeysDiffer, OpensSpinner
<1>3. SpinnerOf(ListKey)'
  <2>1. entries'[ListKey] = entries[ListKey]
    BY <1>1, OpensKeeps, KeysDiffer
  <2>2. \A t \in Slots : requests[t] # Free /\ requests[t].key = ListKey =>
            GoesOnCurrent(t) /\ requests'[t].on = requests[t].on
    BY <1>1, OtherKeyGoesOn, KeysDiffer DEF Frame
  <2>3. SpinnerOf(ListKey)
    BY SpinnerParts, KeysDiffer
  <2>4. QED  BY <2>1, <2>2, <2>3, KeysDiffer, SpinnerKept
<1>4. \A k \in Keys : SpinnerOf(k)'
  BY <1>2, <1>3, KeysDiffer
<1>5. QED  BY <1>4 DEF SpinnerInv, SpinnerOf

LEMMA FetchListSpinner ==
  ASSUME TypeOK, ShapeInv, SpinnerInv, FetchList
  PROVE  SpinnerInv'
<1>1. PICK s \in Slots :
           /\ requests[s] = Free /\ OpensEntry(ListKey, s)
           /\ requests'[s] \in Request /\ requests'[s].key = ListKey
           /\ OuterAnswered(s) \/ OuterJoins(s) \/ OuterAsks(s)
  BY FetchListFacts
<1>2. PICK R \in SUBSET Slots : (\A t \in R : requests[t] = Free) /\ Frame(ListKey, R)
  BY <1>1 DEF OuterAnswered, OuterJoins, OuterAsks
<1>3. SpinnerOf(ListKey)'
  <2>1. requests'[s] # Free
    BY <1>1, RequestNotFree
  <2>2. \E c \in Slots : /\ requests'[c] # Free /\ requests'[c].key = ListKey /\ requests'[c].current
                         /\ c = s \/ requests'[s].on = c
    <3>1. CASE OuterAnswered(s) \/ OuterJoins(s)
      BY <1>1, <2>1, <3>1 DEF OuterAnswered, OuterJoins
    <3>2. CASE OuterAsks(s)
      BY <3>2, SentIsRequest, RequestNotFree, KeysDiffer DEF OuterAsks
    <3>3. QED  BY <1>1, <3>1, <3>2
  <2>3. QED  BY <1>1, <2>1, <2>2, OpensSpinner, KeysDiffer
<1>4. SpinnerOf(RawKey)'
  <2>1. entries'[RawKey] = entries[RawKey]
    BY <1>1, OpensKeeps, KeysDiffer
  <2>2. \A t \in Slots : requests[t] # Free /\ requests[t].key = RawKey =>
            GoesOnCurrent(t) /\ requests'[t].on = requests[t].on
    BY <1>2, OtherKeyGoesOn, KeysDiffer DEF Frame
  <2>3. SpinnerOf(RawKey)
    BY SpinnerParts, KeysDiffer
  <2>4. QED  BY <2>1, <2>2, <2>3, KeysDiffer, SpinnerKept
<1>5. \A k \in Keys : SpinnerOf(k)'
  BY <1>3, <1>4, KeysDiffer
<1>6. QED  BY <1>5 DEF SpinnerInv, SpinnerOf

(* A request that goes on and did not wait.                                       *)
LEMMA OneSpinner ==
  ASSUME TypeOK, ShapeInv, SpinnerInv, NEW s \in Slots, OneGoesOn(s), requests[s].on = 0,
         entries' = entries
  PROVE  SpinnerInv'
<1>1. ASSUME NEW t \in Slots, requests[t] # Free
      PROVE  GoesOnCurrent(t) /\ (t # s => requests'[t].on = requests[t].on)
  BY <1>1, RequestNotFree DEF OneGoesOn, GoesOn, GoesOnCurrent
<1>2. \A k \in Keys : SpinnerOf(k)'
  BY <1>1, SpinnerParts, SpinnerKept, SlotsAreNumbers
<1>3. QED  BY <1>2 DEF SpinnerInv, SpinnerOf

LEMMA NodeSpinner ==
  ASSUME TypeOK, ShapeInv, SpinnerInv, NEW s \in Slots, Serve(s) \/ Fail(s)
  PROVE  SpinnerInv'
<1>1. OneGoesOn(s) /\ requests[s].at = "sent" /\ entries' = entries
  BY ServeFacts, FailFacts DEF Serve, Fail
<1>2. requests[s].on = 0
  BY <1>1 DEF OneGoesOn, ShapeInv, RShape
<1>3. QED  BY <1>1, <1>2, OneSpinner

LEMMA HydrateSpinner ==
  ASSUME TypeOK, ShapeInv, SpinnerInv, NEW s \in Slots, Hydrate(s)
  PROVE  SpinnerInv'
<1>1. /\ requests[s] # Free /\ requests[s].kind = "dao" /\ requests[s].at = "read"
      /\ HydratesAtOnce(s) \/ HydrateJoins(s) \/ HydrateAsks(s)
  BY HydrateFacts
<1>2. requests[s].on = 0 /\ requests[s].key # RawKey
  BY <1>1 DEF ShapeInv, RShape
<1>3. CASE HydratesAtOnce(s) \/ HydrateJoins(s)
  BY <1>2, <1>3, OneSpinner DEF HydratesAtOnce, HydrateJoins
<1>4. CASE HydrateAsks(s)
  <2> DEFINE w == requests[s]
             q == requests'[s]
  <2>1. PICK u \in Slots \ {s} :
       /\ requests[u] = Free /\ requests'[u] = Sent(RawKey, "hydrate")
       /\ OpensEntry(RawKey, u) /\ Frame(RawKey, {s, u})
       /\ q \in Request /\ q.key = w.key /\ q.current = w.current
    BY <1>2, <1>4 DEF HydrateAsks
  <2>2. SpinnerOf(RawKey)'
    BY <2>1, SentIsRequest, RequestNotFree, KeysDiffer, OpensSpinner
  <2>3. entries'[ListKey] = entries[ListKey]
    BY <2>1, OpensKeeps, KeysDiffer
  <2>4. ASSUME NEW t \in Slots, requests[t] # Free, requests[t].key = ListKey
        PROVE  GoesOnCurrent(t) /\ (t # s => requests'[t].on = requests[t].on)
    <3>1. CASE t = s
      BY <2>1, <3>1, RequestNotFree DEF GoesOnCurrent
    <3>2. CASE t # s
      BY <2>1, <2>4, <3>2, OtherKeyGoesOn, KeysDiffer DEF Frame
    <3>3. QED  BY <3>1, <3>2
  <2>5. SpinnerOf(ListKey)'
    BY <1>2, <2>3, <2>4, SpinnerParts, SpinnerKept, SlotsAreNumbers, KeysDiffer
  <2>6. \A k \in Keys : SpinnerOf(k)'
    BY <2>2, <2>5, KeysDiffer
  <2>7. QED  BY <2>6 DEF SpinnerInv, SpinnerOf
<1>5. QED  BY <1>1, <1>3, <1>4

LEMMA SettleSpinner ==
  ASSUME TypeOK, ShapeInv, SpinnerInv, NEW s \in Slots, Settle(s)
  PROVE  SpinnerInv'
<1> DEFINE r == requests[s]
<1>1. /\ r # Free /\ r.at \in {"done", "failed"}
      /\ \A t \in Slots \ {s} :
              IF requests[t] # Free /\ requests[t].on = s
              THEN Resumes(requests'[t], requests[t], r.at, r.val)
              ELSE requests'[t] = requests[t]
      /\ StoresEntry(s)
  BY SettleFacts, WhoWaits
<1>2. r \in Request /\ r.on = 0 /\ r.key \in Keys
  BY <1>1, RequestNotFree DEF ShapeInv, RShape, TypeOK
<1>3. ASSUME NEW t \in Slots, t # s, requests[t] # Free
      PROVE  GoesOnCurrent(t) /\ (requests[t].on # s => requests'[t].on = requests[t].on)
  BY <1>1, <1>3, RequestNotFree DEF Resumes, GoesOn, GoesOnCurrent
<1>4. ASSUME NEW k \in Keys  PROVE SpinnerOf(k)'
  <2>1. CASE r.current /\ r.key = k
    BY <1>1, <2>1 DEF StoresEntry, SpinnerOf
  <2>2. CASE ~(r.current /\ r.key = k)
    <3> DEFINE p == entries[k].promise
    <3>1. entries'[k] = entries[k]
      BY <1>1, <1>2, <2>2 DEF StoresEntry, TypeOK
    <3>2. CASE p = 0
      BY <3>1, <3>2, SpinnerParts DEF SpinnerOf
    <3>3. CASE p # 0
      <4>1. SpinnerOf(k) /\ p \in Slots
        BY <3>3, SpinnerParts, PromiseTyped
      <4>2. PICK c \in Slots :
              /\ requests[p] # Free /\ requests[p].key = k
              /\ requests[c] # Free /\ requests[c].key = k /\ requests[c].current
              /\ c = p \/ requests[p].on = c
        BY <3>3, <4>1 DEF SpinnerOf, Ends
      <4>3. c # s
        BY <2>2, <4>2
      <4>4. p # s
        BY <1>2, <4>2, <4>3, SlotsAreNumbers
      <4>5. GoesOnCurrent(p) /\ GoesOnCurrent(c) /\ (c # p => requests'[p].on = c)
        BY <1>3, <4>1, <4>2, <4>3, <4>4
      <4>6. QED  BY <3>1, <4>1, <4>2, <4>5 DEF SpinnerOf, Ends, GoesOnCurrent
    <3>4. QED  BY <3>2, <3>3
  <2>3. QED  BY <2>1, <2>2
<1>5. QED  BY <1>4 DEF SpinnerInv, SpinnerOf

LEMMA ConfirmSpinner ==
  ASSUME TypeOK, ShapeInv, SpinnerInv, NEW w \in landed, Confirm(w)
  PROVE  SpinnerInv'
<1>1. PICK H \in SUBSET Keys : Invalidates(H)
  BY ConfirmFacts
<1>2. ASSUME NEW k \in Keys  PROVE SpinnerOf(k)'
  <2>1. CASE k \in H
    BY <1>1, <2>1 DEF Invalidates, SpinnerOf
  <2>2. CASE k \notin H
    <3>1. entries'[k] = entries[k]
      BY <1>1, <2>2 DEF Invalidates
    <3>2. \A t \in Slots : requests[t] # Free /\ requests[t].key = k => requests'[t] = requests[t]
      BY <1>1, <2>2 DEF Invalidates
    <3>3. SpinnerOf(k)
      BY SpinnerParts
    <3>4. QED  BY <3>1, <3>2, <3>3, SpinnerKept DEF GoesOnCurrent
  <2>3. QED  BY <2>1, <2>2
<1>3. QED  BY <1>2 DEF SpinnerInv, SpinnerOf

LEMMA RestSpinner ==
  ASSUME TypeOK, SpinnerInv,
         \/ \E k \in Keys : Expire(k)
         \/ \E kind \in Kinds : Land(kind)
         \/ UNCHANGED vars
  PROVE  SpinnerInv'
<1>1. requests' = requests
  BY DEF Expire, Land, vars
<1>2. \A k \in Keys : /\ entries'[k].promise = entries[k].promise
                      /\ entries'[k].fetching = entries[k].fetching
  BY ExpireFacts DEF Land, vars
<1>3. QED  BY <1>1, <1>2 DEF SpinnerInv, Ends

LEMMA StepSpinner == TypeOK /\ ShapeInv /\ SpinnerInv /\ [Next]_vars => SpinnerInv'
BY StepCases, NodeSpinner, HydrateSpinner, SettleSpinner, FetchRawSpinner, FetchListSpinner,
   ConfirmSpinner, RestSpinner

-------------------------------------------------------------------------------
(* Circles *)

Waiting(t) == requests[t] # Free /\ requests[t].at = "await"

(* Of any slots that all wait, one waits for another than these.                  *)
LEMMA CircleFree ==
  NoCircularWait <=>
    \A c \in (SUBSET Slots) \ {{}} : (\A t \in c : Waiting(t)) => \E t \in c : requests[t].on \notin c
BY DEF NoCircularWait, Waiting

(* Nobody waits for a slot that is free.                                          *)
LEMMA WaitedIsTaken ==
  ASSUME TypeOK, ShapeInv, NEW t \in Slots, Waiting(t)
  PROVE  /\ requests[t].on \in Slots /\ requests[requests[t].on] # Free
         /\ requests[requests[t].on].key = WaitsFor(requests[t])
BY SlotsAreNumbers DEF TypeOK, Request, ShapeInv, RShape, Waits, Waiting

(* A step after which nobody waits but who did, for the same, closes no circle.   *)
LEMMA NoNewWait ==
  ASSUME NoCircularWait,
         \A t \in Slots : Waiting(t)' => Waiting(t) /\ requests'[t].on = requests[t].on
  PROVE  NoCircularWait'
<1>1. ASSUME NEW c \in (SUBSET Slots) \ {{}}, \A t \in c : Waiting(t)'
      PROVE  \E t \in c : requests'[t].on \notin c
  <2>1. PICK t \in c : requests[t].on \notin c
    BY <1>1, CircleFree
  <2>2. QED  BY <1>1, <2>1
<1>2. QED  BY <1>1 DEF NoCircularWait, Waiting

(* Nor does one after which s waits, for somebody who does not, or nobody for s.  *)
LEMMA OneNewWait ==
  ASSUME NoCircularWait, TypeOK, ShapeInv, NEW s \in Slots,
         \A t \in Slots \ {s} : Waiting(t)' => Waiting(t) /\ requests'[t].on = requests[t].on,
         \/ \E u \in Slots : requests'[s].on = u /\ ~Waiting(u)'
         \/ requests[s] = Free /\ requests'[s].on \in Slots \ {s}
  PROVE  NoCircularWait'
<1>1. ASSUME NEW c \in (SUBSET Slots) \ {{}}, \A t \in c : Waiting(t)'
      PROVE  \E t \in c : requests'[t].on \notin c
  <2>1. CASE s \notin c
    <3>1. \A t \in c : Waiting(t) /\ requests'[t].on = requests[t].on
      BY <1>1, <2>1
    <3>2. PICK t \in c : requests[t].on \notin c
      BY <3>1, CircleFree
    <3>3. QED  BY <3>1, <3>2
  <2>2. CASE s \in c /\ \E u \in Slots : requests'[s].on = u /\ ~Waiting(u)'
    <3>1. PICK u \in Slots : requests'[s].on = u /\ ~Waiting(u)'
      BY <2>2
    <3>2. u \notin c
      BY <1>1, <3>1
    <3>3. QED  BY <2>2, <3>1, <3>2
  <2>3. CASE s \in c /\ requests[s] = Free /\ requests'[s].on \in Slots \ {s}
    <3> DEFINE d == c \ {s}
    <3>1. \A t \in d : Waiting(t) /\ requests'[t].on = requests[t].on
      BY <1>1
    <3>2. CASE d = {}
      <4>1. requests'[s].on \notin c
        BY <2>3, <3>2
      <4>2. QED  BY <2>3, <4>1
    <3>3. CASE d # {}
      <4>1. d \in (SUBSET Slots) \ {{}}
        BY <3>3
      <4>2. PICK t \in d : requests[t].on \notin d
        BY <3>1, <4>1, CircleFree
      <4>3. requests[t].on # s
        BY <2>3, <3>1, <4>2, WaitedIsTaken
      <4>4. QED  BY <3>1, <4>2, <4>3
    <3>4. QED  BY <3>2, <3>3
  <2>4. QED  BY <2>1, <2>2, <2>3
<1>2. QED  BY <1>1 DEF NoCircularWait, Waiting

(* A request that was kept waits as it did.                                       *)
LEMMA KeptWaits ==
  ASSUME TypeOK, NEW k, NEW t \in Slots, KeptBut(k, requests'[t], requests[t]), Waiting(t)'
  PROVE  Waiting(t) /\ requests'[t].on = requests[t].on
BY DEF KeptBut, Demoted, Waiting

LEMMA FetchWaits ==
  ASSUME TypeOK, ShapeInv, SpinnerInv, NoCircularWait, FetchRaw \/ FetchList
  PROVE  NoCircularWait'
<1>1. CASE FetchRaw
  <2>1. PICK s \in Slots : requests'[s] = Sent(RawKey, "page") /\ Frame(RawKey, {s})
    BY <1>1, FetchRawFacts
  <2>2. ~Waiting(s)'
    BY <2>1, SentIsRequest, KeysDiffer DEF Waiting
  <2>3. QED  BY <2>1, <2>2, KeptWaits, NoNewWait DEF Frame
<1>2. CASE FetchList
  <2>1. PICK s \in Slots : requests[s] = Free /\ (OuterAnswered(s) \/ OuterJoins(s) \/ OuterAsks(s))
    BY <1>2, FetchListFacts
  <2>2. CASE OuterAnswered(s)
    <3>1. ~Waiting(s)' /\ Frame(ListKey, {s})
      BY <2>2 DEF OuterAnswered, Waiting
    <3>2. QED  BY <3>1, KeptWaits, NoNewWait DEF Frame
  <2>3. CASE OuterJoins(s)
    <3>1. requests'[s].on = entries[ListKey].promise /\ Frame(ListKey, {s})
      BY <2>3 DEF OuterJoins
    <3>2. entries[ListKey].promise \in Slots /\ requests[entries[ListKey].promise] # Free
      BY <2>3, PromiseTyped, KeysDiffer DEF OuterJoins, SpinnerInv
    <3>3. QED  BY <2>1, <3>1, <3>2, KeptWaits, OneNewWait DEF Frame
  <2>4. CASE OuterAsks(s)
    <3>1. PICK u \in Slots \ {s} :
       /\ requests'[u] = Sent(ListKey, "dao") /\ requests'[s].on = u /\ Frame(ListKey, {s, u})
      BY <2>4 DEF OuterAsks
    <3>2. ~Waiting(u)'
      BY <3>1, SentIsRequest, KeysDiffer DEF Waiting
    <3>3. QED  BY <3>1, <3>2, KeptWaits, OneNewWait DEF Frame
  <2>5. QED  BY <2>1, <2>2, <2>3, <2>4
<1>3. QED  BY <1>1, <1>2

LEMMA NodeWaits ==
  ASSUME TypeOK, ShapeInv, NoCircularWait, NEW s \in Slots, Serve(s) \/ Fail(s)
  PROVE  NoCircularWait'
<1>1. OneGoesOn(s) /\ requests'[s].at \in {"read", "done", "failed"}
  BY ServeFacts, FailFacts
<1>2. \A t \in Slots : Waiting(t)' => Waiting(t) /\ requests'[t].on = requests[t].on
  BY <1>1 DEF OneGoesOn, Waiting
<1>3. QED  BY <1>2, NoNewWait

LEMMA HydrateWaits ==
  ASSUME TypeOK, ShapeInv, SpinnerInv, NoCircularWait, NEW s \in Slots, Hydrate(s)
  PROVE  NoCircularWait'
<1>1. /\ requests[s] # Free /\ requests[s].kind = "dao"
      /\ HydratesAtOnce(s) \/ HydrateJoins(s) \/ HydrateAsks(s)
  BY HydrateFacts
<1>2. CASE HydratesAtOnce(s)
  <2>1. OneGoesOn(s) /\ requests'[s].at \in {"done", "failed"}
    BY <1>1, <1>2 DEF HydratesAtOnce, Resumes
  <2>2. \A t \in Slots : Waiting(t)' => Waiting(t) /\ requests'[t].on = requests[t].on
    BY <2>1 DEF OneGoesOn, Waiting
  <2>3. QED  BY <2>2, NoNewWait
<1>3. CASE HydrateJoins(s)
  <2>1. PICK p \in Slots : /\ p = entries[RawKey].promise
                           /\ requests[p] # Free /\ requests[p].key = RawKey
    BY <1>3, PromiseTyped, KeysDiffer DEF HydrateJoins, SpinnerInv
  <2>2. p # s /\ requests[p].at # "await"
    BY <1>1, <2>1 DEF ShapeInv, RShape
  <2>3. /\ requests'[s].on = p
        /\ \A t \in Slots \ {s} : requests'[t] = requests[t]
    BY <1>3, <2>1 DEF HydrateJoins, OneGoesOn
  <2>4. ~Waiting(p)'
    BY <2>1, <2>2, <2>3 DEF Waiting
  <2>5. \A t \in Slots \ {s} : Waiting(t)' => Waiting(t) /\ requests'[t].on = requests[t].on
    BY <2>3 DEF Waiting
  <2>6. QED  BY <2>1, <2>3, <2>4, <2>5, OneNewWait
<1>4. CASE HydrateAsks(s)
  <2>1. PICK u \in Slots \ {s} :
       /\ requests'[u] = Sent(RawKey, "hydrate") /\ Frame(RawKey, {s, u})
       /\ requests'[s].on = u
    BY <1>4 DEF HydrateAsks
  <2>2. ~Waiting(u)'
    BY <2>1, SentIsRequest, KeysDiffer DEF Waiting
  <2>3. QED  BY <2>1, <2>2, KeptWaits, OneNewWait DEF Frame
<1>5. QED  BY <1>1, <1>2, <1>3, <1>4

LEMMA SettleWaits ==
  ASSUME TypeOK, ShapeInv, NoCircularWait, NEW s \in Slots, Settle(s)
  PROVE  NoCircularWait'
<1>1. /\ requests'[s] = Free
      /\ \A t \in Slots \ {s} :
              IF requests[t] # Free /\ requests[t].on = s
              THEN Resumes(requests'[t], requests[t], requests[s].at, requests[s].val)
              ELSE requests'[t] = requests[t]
  BY SettleFacts, WhoWaits
<1>2. ASSUME NEW t \in Slots, Waiting(t)'
      PROVE  Waiting(t) /\ requests'[t].on = requests[t].on
  <2>1. t # s
    BY <1>1, <1>2 DEF Waiting
  <2>2. CASE requests[t] # Free /\ requests[t].on = s
    <3>1. /\ requests[t].kind \in {"list", "dao"}
          /\ Resumes(requests'[t], requests[t], requests[s].at, requests[s].val)
      BY <1>1, <2>1, <2>2, WhoWaits
    <3>2. requests'[t].at \in {"done", "failed"}
      BY <3>1 DEF Resumes
    <3>3. QED  BY <1>2, <3>2 DEF Waiting
  <2>3. CASE ~(requests[t] # Free /\ requests[t].on = s)
    BY <1>1, <1>2, <2>1, <2>3 DEF Waiting
  <2>4. QED  BY <2>2, <2>3
<1>3. QED  BY <1>2, NoNewWait

LEMMA RestWaits ==
  ASSUME TypeOK, NoCircularWait,
         \/ \E w \in landed : Confirm(w)
         \/ \E k \in Keys : Expire(k)
         \/ \E kind \in Kinds : Land(kind)
         \/ UNCHANGED vars
  PROVE  NoCircularWait'
<1>1. CASE \E w \in landed : Confirm(w)
  <2>1. PICK H \in SUBSET Keys : Invalidates(H)
    BY <1>1, ConfirmFacts
  <2>2. \A t \in Slots : Waiting(t)' => Waiting(t) /\ requests'[t].on = requests[t].on
    BY <2>1 DEF Invalidates, Demoted, Waiting
  <2>3. QED  BY <2>2, NoNewWait
<1>2. CASE ~\E w \in landed : Confirm(w)
  <2>1. requests' = requests
    BY <1>2 DEF Expire, Land, vars
  <2>2. QED  BY <2>1, NoNewWait DEF Waiting
<1>3. QED  BY <1>1, <1>2

LEMMA StepWaits ==
  TypeOK /\ ShapeInv /\ SpinnerInv /\ NoCircularWait /\ [Next]_vars => NoCircularWait'
BY StepCases, NodeWaits, HydrateWaits, SettleWaits, FetchWaits, RestWaits

-------------------------------------------------------------------------------
(* Nothing outdated counts as fresh *)

TrustedRequest(V, s) ==
  /\ requests[s] # Free
  /\ HasVal(requests[s]) => Good(requests[s].key, requests[s].val)
  /\ requests[s].on # 0 => requests[s].on \in V

LEMMA TrustedParts ==
  ASSUME NEW V
  PROVE  Trusted(V) <=>
           /\ \A s \in V : TrustedRequest(V, s)
           /\ \A s \in Slots : requests[s] # Free /\ requests[s].current => s \in V
           /\ \A k \in Keys : entries[k].promise # 0 => entries[k].promise \in V
BY DEF Trusted, TrustedRequest

(* A request that was kept is trusted with whatever else is.                      *)
LEMMA KeptTrust ==
  ASSUME TypeOK, NEW V \in SUBSET Slots, NEW W \in SUBSET Slots, V \subseteq W, Trusted(V),
         floor' = floor, NEW k, NEW t \in V, KeptBut(k, requests'[t], requests[t])
  PROVE  TrustedRequest(W, t)'
<1>1. requests[t] # Free /\ Demoted(requests'[t], requests[t])
  BY DEF Trusted, KeptBut
<1>2. requests'[t] # Free
  BY <1>1, RequestNotFree DEF Demoted
<1>3. TrustedRequest(V, t)
  BY TrustedParts
<1>4. QED  BY <1>1, <1>2, <1>3 DEF TrustedRequest, Demoted, HasVal, Good

(* A new request on key k joins those that are trusted, with all that R names.    *)
LEMMA NewTrust ==
  ASSUME TypeOK, NEW V \in SUBSET Slots, Trusted(V), floor' = floor,
         NEW k \in Keys, NEW R \in SUBSET Slots, NEW s \in R, Frame(k, R), OpensEntry(k, s),
         \A t \in R : TrustedRequest(V \cup R, t)'
  PROVE  Trusted(V \cup R)'
<1> DEFINE W == V \cup R
<1>1. ASSUME NEW t \in W  PROVE TrustedRequest(W, t)'
  <2>1. CASE t \in R
    BY <2>1
  <2>2. CASE t \notin R
    <3>1. t \in V /\ KeptBut(k, requests'[t], requests[t])
      BY <1>1, <2>2 DEF Frame
    <3>2. QED  BY <3>1, KeptTrust
  <2>3. QED  BY <2>1, <2>2
<1>2. ASSUME NEW t \in Slots, requests'[t] # Free, requests'[t].current  PROVE t \in W
  <2>1. CASE t \in R
    BY <2>1
  <2>2. CASE t \notin R
    <3>1. KeptBut(k, requests'[t], requests[t])
      BY <2>2 DEF Frame
    <3>2. requests[t] # Free /\ requests[t].current
      BY <1>2, <3>1 DEF KeptBut, Demoted
    <3>3. QED  BY <3>2 DEF Trusted
  <2>3. QED  BY <2>1, <2>2
<1>3. ASSUME NEW j \in Keys, entries'[j].promise # 0  PROVE entries'[j].promise \in W
  <2>1. CASE j = k
    BY <2>1 DEF OpensEntry
  <2>2. CASE j # k
    <3>1. entries'[j] = entries[j]
      BY <2>2 DEF OpensEntry, TypeOK
    <3>2. QED  BY <1>3, <3>1 DEF Trusted
  <2>3. QED  BY <2>1, <2>2
<1>4. QED  BY <1>1, <1>2, <1>3 DEF Trusted, TrustedRequest

(* What is fresh in the cache stays good while the floor stands and nothing is    *)
(* stored.                                                                        *)
FreshData == \A k \in Keys : HasFreshData(entries[k]) => Good(k, entries[k].data)

LEMMA OpensFresh ==
  ASSUME TypeOK, FreshData, floor' = floor, NEW k \in Keys, NEW s, OpensEntry(k, s)
  PROVE  FreshData'
<1>1. \A j \in Keys : /\ entries'[j].data = entries[j].data
                      /\ entries'[j].expires = entries[j].expires
  BY DEF OpensEntry, TypeOK
<1>2. QED  BY <1>1 DEF FreshData, HasFreshData, Good

LEMMA ViewedIsGood ==
  ASSUME NEW d \in Values, ListVal(d), Good(ListKey, d)
  PROVE  Good(ListKey, Viewed(d))
BY ViewedIsValue, ValuesDiffer DEF ListVal, Good

LEMMA FetchRawFresh ==
  ASSUME TypeOK, NEW V \in SUBSET Slots, Trusted(V), FreshData, floor' = floor, FetchRaw
  PROVE  FreshData' /\ \E W \in SUBSET Slots : Trusted(W)'
<1>1. PICK s \in Slots :
           /\ requests[s] = Free /\ requests'[s] = Sent(RawKey, "page")
           /\ Frame(RawKey, {s}) /\ OpensEntry(RawKey, s)
  BY FetchRawFacts
<1>2. TrustedRequest(V \cup {s}, s)'
  BY <1>1, KeysDiffer, SentIsRequest, RequestNotFree DEF TrustedRequest, HasVal
<1>3. Trusted(V \cup {s})'
  BY <1>1, <1>2, KeysDiffer, NewTrust
<1>4. QED  BY <1>1, <1>3, KeysDiffer, OpensFresh

LEMMA FetchListFresh ==
  ASSUME TypeOK, ShapeInv, NEW V \in SUBSET Slots, Trusted(V), FreshData, floor' = floor, FetchList
  PROVE  FreshData' /\ \E W \in SUBSET Slots : Trusted(W)'
<1>1. PICK s \in Slots :
           /\ requests[s] = Free /\ OpensEntry(ListKey, s)
           /\ requests'[s] \in Request /\ requests'[s].key = ListKey /\ requests'[s].kind = "list"
           /\ OuterAnswered(s) \/ OuterJoins(s) \/ OuterAsks(s)
  BY FetchListFacts
<1>2. FreshData' /\ requests'[s] # Free
  BY <1>1, KeysDiffer, OpensFresh, RequestNotFree
<1>3. CASE OuterAnswered(s)
  <2> DEFINE d == entries[ListKey].data
  <2>1. d \in Values /\ ListVal(d) /\ Good(ListKey, d)
    BY <1>3, KeysDiffer DEF OuterAnswered, HasFreshData, FreshData, ShapeInv, ValOf, TypeOK, Snapshot
  <2>2. Good(ListKey, Viewed(d))
    BY <2>1, ViewedIsGood
  <2>3. TrustedRequest(V \cup {s}, s)'
    BY <1>1, <1>2, <1>3, <2>2 DEF OuterAnswered, TrustedRequest, Good
  <2>4. Trusted(V \cup {s})'
    BY <1>1, <1>3, <2>3, KeysDiffer, NewTrust DEF OuterAnswered
  <2>5. QED  BY <1>2, <2>4
<1>4. CASE OuterJoins(s)
  <2>1. entries[ListKey].promise \in V
    BY <1>4, KeysDiffer DEF OuterJoins, Trusted
  <2>2. TrustedRequest(V \cup {s}, s)'
    BY <1>1, <1>2, <1>4, <2>1 DEF OuterJoins, TrustedRequest, HasVal
  <2>3. Trusted(V \cup {s})'
    BY <1>1, <1>4, <2>2, KeysDiffer, NewTrust DEF OuterJoins
  <2>4. QED  BY <1>2, <2>3
<1>5. CASE OuterAsks(s)
  <2>1. PICK u \in Slots \ {s} :
       /\ requests'[u] = Sent(ListKey, "dao") /\ requests'[s].at = "await"
       /\ requests'[s].on = u /\ Frame(ListKey, {s, u})
    BY <1>5 DEF OuterAsks
  <2>2. TrustedRequest(V \cup {s, u}, s)' /\ TrustedRequest(V \cup {s, u}, u)'
    BY <1>1, <1>2, <2>1, KeysDiffer, SentIsRequest, RequestNotFree DEF TrustedRequest, HasVal
  <2>3. Trusted(V \cup {s, u})'
    BY <1>1, <2>1, <2>2, KeysDiffer, NewTrust
  <2>4. QED  BY <1>2, <2>3
<1>6. QED  BY <1>1, <1>3, <1>4, <1>5

(* One request goes on, and is trusted if it was; nothing else changes.           *)
LEMMA OneTrust ==
  ASSUME TypeOK, NEW V \in SUBSET Slots, Trusted(V), FreshData, floor' = floor, entries' = entries,
         NEW s \in Slots, OneGoesOn(s), s \in V => TrustedRequest(V, s)'
  PROVE  FreshData' /\ \E W \in SUBSET Slots : Trusted(W)'
<1>1. \A t \in V : TrustedRequest(V, t)'
  BY DEF OneGoesOn, Trusted, TrustedRequest, Good
<1>2. \A t \in Slots : requests'[t] # Free /\ requests'[t].current => t \in V
  BY DEF OneGoesOn, GoesOn, Trusted
<1>3. Trusted(V)'
  BY <1>1, <1>2 DEF Trusted, TrustedRequest
<1>4. QED  BY <1>3 DEF FreshData, Good

LEMMA NodeFresh ==
  ASSUME TypeOK, ShapeInv, NEW V \in SUBSET Slots, Trusted(V), FreshData, Behind(floor, ledger),
         NEW s \in Slots, Serve(s) \/ Fail(s)
  PROVE  FreshData' /\ \E W \in SUBSET Slots : Trusted(W)'
<1>1. /\ OneGoesOn(s) /\ entries' = entries /\ floor' = floor
      /\ requests'[s] # Free /\ RShape(requests[s]) /\ requests[s].at = "sent"
      /\ requests'[s].on = requests[s].on
  BY ServeFacts, FailFacts, RequestNotFree DEF OneGoesOn, GoesOn, ShapeInv, Serve, Fail, world
<1>2. HasVal(requests'[s]) => Good(requests'[s].key, requests'[s].val)
  <2>1. CASE Serve(s)
    <3>1. /\ requests'[s].val.shape = "contract" /\ requests'[s].val.prop = ledger.prop
          /\ requests[s].kind = "dao" => requests'[s].val.dao = ledger.dao
      BY <2>1, ServeFacts
    <3>2. requests[s].key = ListKey => requests[s].kind = "dao"
      BY <1>1, KeysDiffer DEF RShape, OneGoesOn, TypeOK, Request
    <3>3. floor \in Versions /\ ledger \in Versions
      BY DEF TypeOK
    <3>4. QED  BY <1>1, <3>1, <3>2, <3>3, CacheAssumption DEF Good, Behind, OneGoesOn, GoesOn, Versions
  <2>2. CASE Fail(s)
    <3>1. requests'[s].val = Null \/ requests'[s].at = "failed"
      BY <2>2, FailFacts
    <3>2. QED  BY <3>1, ValuesDiffer DEF Good, HasVal
  <2>3. QED  BY <2>1, <2>2
<1>3. s \in V => TrustedRequest(V, s)'
  BY <1>1, <1>2 DEF Trusted, TrustedRequest, Good
<1>4. QED  BY <1>1, <1>3, OneTrust

(* A page whose item is answered by something good was good itself.               *)
LEMMA ResumesGood ==
  ASSUME TypeOK, NEW V \in SUBSET Slots, Trusted(V), NEW w \in V,
         RShape(requests[w]), requests[w].at \in {"read", "await"}, requests[w].kind = "dao",
         NEW q, NEW at, NEW val \in Values, Resumes(q, requests[w], at, val),
         at # "failed" => RawVal(val) /\ Good(RawKey, val)
  PROVE  HasVal(q) => Good(q.key, q.val)
<1> DEFINE r == requests[w]
<1>1. Good(r.key, r.val) /\ r.val.shape = "contract" /\ HasVal(r)
  BY DEF Trusted, HasVal, RShape
<1>2. q.key = r.key /\ q.kind = "dao"
  BY DEF Resumes, GoesOn
<1>3. CASE at = "failed"
  <2>1. q.val = r.val
    BY <1>3 DEF Resumes
  <2>2. QED  BY <1>1, <1>2, <2>1
<1>4. CASE at # "failed" /\ val = Null
  <2>1. q.at = "failed"
    BY <1>4 DEF Resumes
  <2>2. QED  BY <2>1 DEF HasVal
<1>5. CASE at # "failed" /\ val # Null
  <2>1. q.val = [shape |-> r.val.shape, prop |-> val.prop, dao |-> r.val.dao]
    BY <1>5 DEF Resumes
  <2>2. q.val.prop = val.prop /\ q.val.dao = r.val.dao
    BY <2>1
  <2>3. val.prop >= floor.prop
    BY <1>5 DEF RawVal, Good
  <2>4. r.key = ListKey => r.val.dao >= floor.dao
    BY <1>1 DEF Good
  <2>5. QED  BY <1>2, <2>2, <2>3, <2>4 DEF Good
<1>6. QED  BY <1>3, <1>4, <1>5

LEMMA HydrateFresh ==
  ASSUME TypeOK, ShapeInv, NEW V \in SUBSET Slots, Trusted(V), FreshData,
         NEW s \in Slots, Hydrate(s)
  PROVE  FreshData' /\ \E W \in SUBSET Slots : Trusted(W)'
<1>1. /\ requests[s] # Free /\ requests[s].kind = "dao" /\ requests[s].at = "read"
      /\ HydratesAtOnce(s) \/ HydrateJoins(s) \/ HydrateAsks(s)
      /\ floor' = floor /\ RShape(requests[s]) /\ HasVal(requests[s])
  BY HydrateFacts DEF Hydrate, world, ShapeInv, HasVal
<1>2. CASE HydratesAtOnce(s)
  <2> DEFINE d == entries[RawKey].data
  <2>1. d \in Values /\ RawVal(d) /\ Good(RawKey, d)
    BY <1>2, KeysDiffer DEF HydratesAtOnce, HasFreshData, FreshData, ShapeInv, ValOf, TypeOK, Snapshot
  <2>2. OneGoesOn(s) /\ Resumes(requests'[s], requests[s], "done", d) /\ entries' = entries
    BY <1>2 DEF HydratesAtOnce
  <2>3. requests'[s] # Free /\ requests'[s].on = 0
    BY <2>2, RequestNotFree DEF Resumes, GoesOn
  <2>4. s \in V => (HasVal(requests'[s]) => Good(requests'[s].key, requests'[s].val))
    <3> HIDE DEF d
    <3>1. QED  BY <1>1, <2>1, <2>2, ResumesGood
  <2>5. s \in V => TrustedRequest(V, s)'
    BY <1>1, <2>3, <2>4 DEF TrustedRequest, Good
  <2>6. QED  BY <1>1, <2>2, <2>5, OneTrust
<1>3. CASE HydrateJoins(s)
  <2>1. /\ OneGoesOn(s) /\ entries' = entries /\ requests'[s] # Free
        /\ requests'[s].on \in V /\ requests'[s].val = requests[s].val
    BY <1>3, KeysDiffer, RequestNotFree DEF HydrateJoins, OneGoesOn, GoesOn, Trusted
  <2>2. s \in V => TrustedRequest(V, s)'
    BY <1>1, <2>1 DEF Trusted, TrustedRequest, OneGoesOn, GoesOn, Good
  <2>3. QED  BY <1>1, <2>1, <2>2, OneTrust
<1>4. CASE HydrateAsks(s)
  <2>1. PICK u \in Slots \ {s} :
       /\ requests'[u] = Sent(RawKey, "hydrate") /\ OpensEntry(RawKey, u) /\ Frame(RawKey, {s, u})
       /\ requests'[s] \in Request /\ requests'[s].key = requests[s].key
       /\ requests'[s].current => requests[s].current
       /\ requests'[s].on = u /\ requests'[s].val = requests[s].val
    BY <1>4 DEF HydrateAsks
  <2> DEFINE W == V \cup {u}
  <2>2. TrustedRequest(W, u)'
    BY <2>1, KeysDiffer, SentIsRequest, RequestNotFree DEF TrustedRequest, HasVal
  <2>3. s \in V => TrustedRequest(W, s)'
    BY <1>1, <2>1, RequestNotFree DEF Trusted, TrustedRequest, Good
  <2>4. ASSUME NEW t \in W  PROVE TrustedRequest(W, t)'
    <3>1. CASE t \in {s, u}
      BY <2>2, <2>3, <2>4, <3>1
    <3>2. CASE t \notin {s, u}
      <4>1. t \in V /\ KeptBut(RawKey, requests'[t], requests[t])
        BY <2>1, <2>4, <3>2 DEF Frame
      <4>2. QED  BY <1>1, <4>1, KeptTrust
    <3>3. QED  BY <3>1, <3>2
  <2>5. ASSUME NEW t \in Slots, requests'[t] # Free, requests'[t].current  PROVE t \in W
    <3>1. CASE t = u
      BY <3>1
    <3>2. CASE t # u
      <4>1. requests[t] # Free /\ requests[t].current
        BY <1>1, <2>1, <2>5, <3>2 DEF Frame, KeptBut, Demoted
      <4>2. QED  BY <4>1 DEF Trusted
    <3>3. QED  BY <3>1, <3>2
  <2>6. ASSUME NEW j \in Keys, entries'[j].promise # 0  PROVE entries'[j].promise \in W
    BY <2>1, <2>6 DEF OpensEntry, TypeOK, Trusted
  <2>7. Trusted(W)'
    BY <2>4, <2>5, <2>6 DEF Trusted, TrustedRequest
  <2>8. QED  BY <1>1, <2>1, <2>7, KeysDiffer, OpensFresh
<1>5. QED  BY <1>1, <1>2, <1>3, <1>4

LEMMA SettleFresh ==
  ASSUME TypeOK, ShapeInv, SpinnerInv, NEW V \in SUBSET Slots, Trusted(V), FreshData,
         NEW s \in Slots, Settle(s)
  PROVE  FreshData' /\ \E W \in SUBSET Slots : Trusted(W)'
<1> DEFINE r == requests[s]
           W == V \ {s}
<1>1. /\ r # Free /\ r.at \in {"done", "failed"} /\ requests'[s] = Free
      /\ \A t \in Slots \ {s} :
              IF requests[t] # Free /\ requests[t].on = s
              THEN Resumes(requests'[t], requests[t], r.at, r.val)
              ELSE requests'[t] = requests[t]
      /\ StoresEntry(s) /\ floor' = floor
  BY SettleFacts, WhoWaits DEF Settle, world
<1>2. r \in Request /\ r.on = 0 /\ r.key \in Keys /\ r.val \in Values /\ RShape(r)
  BY <1>1, RequestNotFree DEF ShapeInv, RShape, TypeOK, Request
<1>3. r.at # "failed" => HasVal(r) /\ ValOf(r.key, r.val) /\ (s \in V => Good(r.key, r.val))
  BY <1>1, <1>2 DEF HasVal, RShape, Trusted
<1>4. ASSUME NEW t \in W  PROVE TrustedRequest(W, t)'
  <2>1. t # s /\ t \in V /\ requests[t] # Free /\ RShape(requests[t]) /\ Waits(requests[t])
    BY <1>4 DEF Trusted, ShapeInv
  <2>2. CASE requests[t].on = s
    <3> DEFINE q == requests'[t]
    <3>1. Resumes(q, requests[t], r.at, r.val) /\ q # Free /\ q.on = 0
      BY <1>1, <2>1, <2>2, RequestNotFree DEF Resumes, GoesOn
    <3>2. s \in V /\ requests[t].at = "await" /\ r.key = WaitsFor(requests[t])
      BY <2>1, <2>2, SlotsAreNumbers DEF Trusted, RShape, Waits
    <3>3. CASE requests[t].kind = "list"
      <4>1. r.key = ListKey /\ q.key = ListKey
        BY <2>1, <3>1, <3>2, <3>3, KeysDiffer DEF WaitsFor, RShape, Resumes, GoesOn, TypeOK, Request
      <4>2. q.val = IF r.at = "failed" THEN Empty ELSE Viewed(r.val)
        BY <3>1, <3>3 DEF Resumes
      <4>3. r.at # "failed" => Good(ListKey, Viewed(r.val))
        BY <1>2, <1>3, <3>2, <4>1, ViewedIsGood, KeysDiffer DEF ValOf
      <4>4. Good(q.key, q.val)
        BY <4>1, <4>2, <4>3, ValuesDiffer DEF Good
      <4>5. QED  BY <1>1, <3>1, <4>4 DEF TrustedRequest, Good
    <3>4. CASE requests[t].kind = "dao"
      <4>1. r.at # "failed" => RawVal(r.val) /\ Good(RawKey, r.val)
        BY <1>3, <3>2, <3>4 DEF WaitsFor, ValOf
      <4>2. HasVal(q) => Good(q.key, q.val)
        <5> HIDE DEF q
        <5>1. QED  BY <1>2, <2>1, <3>1, <3>2, <3>4, <4>1, ResumesGood
      <4>3. QED  BY <1>1, <3>1, <4>2 DEF TrustedRequest, Good
    <3>5. QED  BY <2>1, <2>2, <3>3, <3>4, WhoWaits
  <2>3. CASE requests[t].on # s
    <3>1. requests'[t] = requests[t]
      BY <1>1, <2>1, <2>3
    <3>2. QED  BY <1>1, <2>1, <2>3, <3>1 DEF Trusted, TrustedRequest, Good
  <2>4. QED  BY <2>2, <2>3
<1>5. ASSUME NEW t \in Slots, requests'[t] # Free, requests'[t].current  PROVE t \in W
  <2>1. t # s
    BY <1>1, <1>5
  <2>2. requests[t] # Free /\ requests[t].current
    BY <1>1, <1>5, <2>1 DEF Resumes, GoesOn
  <2>3. QED  BY <2>1, <2>2 DEF Trusted
<1>6. ASSUME NEW j \in Keys, entries'[j].promise # 0  PROVE entries'[j].promise \in W
  <2>1. ~(r.current /\ r.key = j)
    BY <1>1, <1>6 DEF StoresEntry
  <2>2. entries'[j] = entries[j]
    BY <1>1, <1>2, <2>1 DEF StoresEntry, TypeOK
  <2>3. entries[j].promise # s
    <3>1. ASSUME entries[j].promise = s  PROVE FALSE
      <4>1. PICK c \in Slots : Ends(j, s, c)
        BY <1>6, <2>2, <3>1 DEF SpinnerInv
      <4>2. c = s
        BY <1>2, <4>1, SlotsAreNumbers DEF Ends
      <4>3. QED  BY <2>1, <4>1, <4>2 DEF Ends
    <3>2. QED  BY <3>1
  <2>4. QED  BY <1>6, <2>2, <2>3 DEF Trusted
<1>7. Trusted(W)'
  BY <1>4, <1>5, <1>6 DEF Trusted, TrustedRequest
<1>8. ASSUME NEW k \in Keys, HasFreshData(entries[k])'  PROVE Good(k, entries[k].data)'
  <2>1. CASE r.current /\ r.key = k /\ r.at # "failed"
    BY <1>1, <1>3, <2>1 DEF StoresEntry, Trusted, Good
  <2>2. CASE ~(r.current /\ r.key = k /\ r.at # "failed")
    <3>1. /\ entries'[k].data = entries[k].data /\ entries'[k].expires = entries[k].expires
      BY <1>1, <1>2, <2>2 DEF StoresEntry, TypeOK
    <3>2. QED  BY <1>1, <1>8, <3>1 DEF FreshData, HasFreshData, Good
  <2>3. QED  BY <2>1, <2>2
<1>9. QED  BY <1>7, <1>8 DEF FreshData, HasFreshData, Good

LEMMA ConfirmFresh ==
  ASSUME TypeOK, ShapeInv, SpinnerInv, NEW V \in SUBSET Slots, Trusted(V), FreshData,
         NEW w \in landed, Confirm(w)
  PROVE  FreshData' /\ \E W \in SUBSET Slots : Trusted(W)'
<1>1. PICK H \in SUBSET Keys :
           /\ ListKey \in H
           /\ w.kind = "vote" => RawKey \in H
           /\ Invalidates(H)
  BY ConfirmFacts
<1>2. ListKey \in H /\ (RawKey \notin H => w.kind # "vote")
  BY <1>1
<1>3. ASSUME NEW v, Good(RawKey, v), RawKey \notin H  PROVE Good(RawKey, v)'
  <2>1. floor'.prop = floor.prop
    BY <1>2, <1>3, FloorRises
  <2>2. QED  BY <1>3, <2>1, KeysDiffer DEF Good
<1>4. ASSUME NEW k \in Keys, HasFreshData(entries[k])'  PROVE Good(k, entries[k].data)'
  <2>1. k \notin H /\ entries'[k] = entries[k]
    BY <1>1, <1>4 DEF Invalidates, HasFreshData
  <2>2. k = RawKey
    BY <1>2, <2>1, KeysDiffer
  <2>3. QED  BY <1>3, <1>4, <2>1, <2>2 DEF FreshData, HasFreshData, Good
<1> PICK W \in SUBSET Slots : W = {t \in V : requests[t].key \notin H}
  OBVIOUS
<1>5. ASSUME NEW t \in W  PROVE TrustedRequest(W, t)'
  <2>1. /\ t \in V /\ requests[t] # Free /\ requests[t].key \notin H /\ RShape(requests[t])
        /\ requests[t] \in Request
    BY <1>5 DEF Trusted, ShapeInv, TypeOK
  <2>2. requests[t].key = RawKey /\ requests'[t] = requests[t]
    BY <1>1, <1>2, <2>1, KeysDiffer DEF Invalidates, Request
  <2>3. requests[t].on = 0
    BY <2>1, <2>2 DEF RShape
  <2>4. HasVal(requests[t]) => Good(RawKey, requests[t].val)'
    BY <1>3, <2>1, <2>2 DEF Trusted
  <2>5. QED  BY <2>1, <2>2, <2>3, <2>4 DEF TrustedRequest, Good
<1>6. ASSUME NEW t \in Slots, requests'[t] # Free, requests'[t].current  PROVE t \in W
  <2>1. requests[t] # Free /\ requests[t].current /\ requests[t].key \notin H
    BY <1>1, <1>6 DEF Invalidates, Demoted
  <2>2. QED  BY <2>1 DEF Trusted
<1>7. ASSUME NEW k \in Keys, entries'[k].promise # 0  PROVE entries'[k].promise \in W
  <2>1. k \notin H /\ entries'[k] = entries[k]
    BY <1>1, <1>7 DEF Invalidates
  <2>2. QED  BY <1>7, <2>1 DEF Trusted, SpinnerInv
<1>8. Trusted(W)'
  BY <1>5, <1>6, <1>7 DEF Trusted, TrustedRequest
<1>9. QED  BY <1>4, <1>8 DEF FreshData, HasFreshData, Good

LEMMA FreshParts ==
  FreshInv <=> /\ Behind(floor, ledger)
               /\ \A w \in landed : Behind(w.at, ledger)
               /\ FreshData
               /\ \E V \in SUBSET Slots : Trusted(V)
BY DEF FreshInv, FreshData

(* The floor and the transactions on their way stay behind the ledger.            *)
LEMMA LedgerAhead ==
  ASSUME TypeOK, FreshInv, [Next]_vars
  PROVE  /\ Behind(floor, ledger)' /\ \A w \in landed' : Behind(w.at, ledger')
<1>1. CASE UNCHANGED <<ledger, landed, floor>>
  BY <1>1 DEF FreshInv, Behind
<1>2. ASSUME NEW kind \in Kinds, Land(kind)
      PROVE  /\ Behind(floor, ledger)' /\ \A w \in landed' : Behind(w.at, ledger')
  <2>1. /\ ledger' \in Versions /\ Behind(ledger, ledger') /\ floor' = floor
        /\ landed' = landed \cup {[kind |-> kind, at |-> ledger']}
    BY <1>2, LandFacts DEF Land
  <2>2. ASSUME NEW v \in Versions, Behind(v, ledger)  PROVE Behind(v, ledger')
    BY <2>1, <2>2, CacheAssumption DEF Behind, Versions, TypeOK
  <2>3. Behind(floor, ledger)'
    BY <2>1, <2>2 DEF FreshInv, Behind, TypeOK
  <2>4. ASSUME NEW w \in landed'  PROVE Behind(w.at, ledger')
    <3>1. CASE w \in landed
      BY <2>2, <3>1 DEF FreshInv, TypeOK
    <3>2. CASE w.at = ledger'
      BY <2>1, <3>2, CacheAssumption DEF Behind, Versions
    <3>3. QED  BY <2>1, <2>4, <3>1, <3>2
  <2>5. QED  BY <2>3, <2>4
<1>3. ASSUME NEW w \in landed, Confirm(w)
      PROVE  /\ Behind(floor, ledger)' /\ \A v \in landed' : Behind(v.at, ledger')
  <2>1. /\ Behind(floor, ledger) /\ Behind(w.at, ledger)
        /\ floor \in Versions /\ ledger \in Versions /\ w.at \in Versions
    BY DEF FreshInv, TypeOK
  <2>2. Behind(floor', ledger)
    BY <1>3, <2>1, FloorRises, CacheAssumption DEF Behind, Later, Versions
  <2>3. QED  BY <1>3, <2>2 DEF Confirm, FreshInv, Behind
<1>4. ASSUME NEW s \in Slots, Serve(s) \/ Fail(s) \/ Hydrate(s) \/ Settle(s)
      PROVE  UNCHANGED <<ledger, landed, floor>>
  BY <1>4 DEF Serve, Fail, Hydrate, Settle, world
<1>5. ASSUME NEW k \in Keys, Expire(k)
      PROVE  UNCHANGED <<ledger, landed, floor>>
  BY <1>5 DEF Expire, world
<1>6. QED  BY <1>1, <1>2, <1>3, <1>4, <1>5, StepCases DEF vars

LEMMA RestFresh ==
  ASSUME TypeOK, NEW V \in SUBSET Slots, Trusted(V), FreshData,
         \/ \E k \in Keys : Expire(k)
         \/ \E kind \in Kinds : Land(kind)
         \/ UNCHANGED vars
  PROVE  FreshData' /\ \E W \in SUBSET Slots : Trusted(W)'
<1>1. requests' = requests /\ floor' = floor
  BY DEF Expire, Land, vars, world
<1>2. \A k \in Keys : /\ entries'[k].promise = entries[k].promise
                      /\ entries'[k].data = entries[k].data
                      /\ HasFreshData(entries'[k]) => HasFreshData(entries[k])
  BY ExpireFacts DEF Land, vars
<1>3. Trusted(V)'
  BY <1>1, <1>2 DEF Trusted, Good
<1>4. QED  BY <1>1, <1>2, <1>3 DEF FreshData, Good, HasFreshData

LEMMA StepFresh ==
  TypeOK /\ ShapeInv /\ SpinnerInv /\ FreshInv /\ [Next]_vars => FreshInv'
<1> SUFFICES ASSUME TypeOK, ShapeInv, SpinnerInv, FreshInv, [Next]_vars  PROVE FreshInv'
  OBVIOUS
<1>1. PICK V \in SUBSET Slots : Trusted(V)
  BY FreshParts
<1>2. FreshData /\ Behind(floor, ledger)
  BY FreshParts
<1>3. FreshData' /\ \E W \in SUBSET Slots : Trusted(W)'
  BY <1>1, <1>2, StepCases, NodeFresh, HydrateFresh, SettleFresh, FetchRawFresh, FetchListFresh,
     ConfirmFresh, RestFresh
<1>4. QED  BY <1>3, LedgerAhead DEF FreshInv, FreshData

-------------------------------------------------------------------------------
(* The invariant *)

CacheInv == TypeOK /\ ShapeInv /\ SpinnerInv /\ NoCircularWait /\ FreshInv

LEMMA InitInv == Init => CacheInv
<1> SUFFICES ASSUME Init  PROVE CacheInv
  OBVIOUS
<1>1. TypeOK
  BY InitTyped
<1>2. \A k \in Keys : entries[k].data = None /\ ~entries[k].fetching /\ entries[k].promise = 0
  BY DEF Init, NewEntry
<1>3. \A s \in Slots : requests[s] = Free
  BY DEF Init
<1>4. ShapeInv /\ SpinnerInv
  BY <1>2, <1>3 DEF ShapeInv, SpinnerInv
<1>5. Trusted({})
  BY <1>2, <1>3 DEF Trusted
<1>6. FreshInv
  BY <1>2, <1>5 DEF FreshInv, HasFreshData, Behind, Init
<1>7. NoCircularWait
  <2>1. ASSUME NEW c \in (SUBSET Slots) \ {{}}  PROVE \E s \in c : requests[s] = Free
    <3>1. PICK s : s \in c
      OBVIOUS
    <3>2. QED  BY <1>3, <3>1
  <2>2. QED  BY <2>1 DEF NoCircularWait
<1>8. QED  BY <1>1, <1>4, <1>6, <1>7 DEF CacheInv

LEMMA StepInv == CacheInv /\ [Next]_vars => CacheInv'
BY StepTyped, StepShape, StepSpinner, StepWaits, StepFresh DEF CacheInv

LEMMA CacheInvariant == Spec => []CacheInv
<1>1. QED  BY InitInv, StepInv, PTL DEF Spec

(* Every entry and every request stays in its form, whatever the bounds.          *)
THEOREM CacheTypeCorrect == Spec => []TypeOK
<1>1. CacheInv => TypeOK
  BY DEF CacheInv
<1>2. QED  BY <1>1, CacheInvariant, PTL

(* Whatever counts as fresh is not older than any transaction of this account     *)
(* whose success was reported: invalidating the keys of a transaction is enough,  *)
(* although requests sent before it are still answered and still awaited by       *)
(* others, because those are neither stored nor joined any more.                  *)
THEOREM CacheReadsYourWrites == Spec => []ReadYourWrites
<1>1. CacheInv => ReadYourWrites
  BY DEF CacheInv, FreshInv, ReadYourWrites, Good
<1>2. QED  BY <1>1, CacheInvariant, PTL

(* A spinner always has a request that ends it, and a promise left in an entry is *)
(* one that is still to settle: superseding, joining and invalidating never leave *)
(* an entry waiting for nobody.                                                   *)
THEOREM SpinnersEnd == Spec => []SpinnerHasRequest
<1>1. CacheInv => SpinnerHasRequest
  BY DEF CacheInv, SpinnerInv, SpinnerHasRequest, Ends
<1>2. QED  BY <1>1, CacheInvariant, PTL

(* No set of requests is ever waiting only for its own members, however many are  *)
(* in flight: a request waits for one sent before it, or for the one it sent.     *)
THEOREM NobodyWaitsInACircle == Spec => []NoCircularWait
<1>1. CacheInv => NoCircularWait
  BY DEF CacheInv
<1>2. QED  BY <1>1, CacheInvariant, PTL
=============================================================================
