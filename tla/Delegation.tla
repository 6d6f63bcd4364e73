------------------------------ MODULE Delegation ------------------------------
(* The worker that pins uploads on behalf of the dapp                            *)
(* (src/dapp/workers/ipfs-delegation): it checks the request, charges the        *)
(* sender's address and the signing account in a key-value store that knows no   *)
(* transactions, imports the content into Filebase with retries and, when        *)
(* configured, has Pinata pin it after the answer.                               *)
(*                                                                               *)
(* Uploads run concurrently, and within one the two budgets are charged          *)
(* concurrently.  Time counts in ticks, Window of them in a bucket.  All uploads *)
(* come from one address and one account, so that they share both budgets.       *)
EXTENDS Naturals, FiniteSets

CONSTANTS Call,          \* uploads, numbered in the order they arrive
          Cid,
          Size,          \* sizes of archives that fit
          Flaws,         \* what may be wrong with a request
          Window,        \* RATE_LIMIT_WINDOW_SECONDS, in ticks
          MaxRequests,   \* dimension -> requests allowed in a window
          MaxBytes,      \* dimension -> bytes allowed in a window
          MaxTime,       \* bound on the clock
          MaxOpen        \* bound on the uploads in the handler at once

Dimension == {"ip", "account"}
FILEBASE_MAX_ATTEMPTS == 3

(* The clock is finer than a window. *)
ASSUME LimiterAssumption ==
  /\ Window \in Nat \ {0, 1} /\ MaxTime \in Nat /\ Size \subseteq Nat /\ Call \subseteq Nat
  /\ MaxRequests \in [Dimension -> Nat] /\ MaxBytes \in [Dimension -> Nat]

VARIABLES now,
          kv,        \* dimension -> bucket number -> bucket
          uploads,   \* call -> upload
          filebase,  \* contents imported
          pinata,    \* contents pinned a second time
          charged,   \* dimension -> charges made: who, when and of which size (history)
          raced      \* dimension -> a charge overlapped another, or a tick (history)

vars == <<now, kv, uploads, filebase, pinata, charged, raced>>
limiter == <<kv, charged, raced>>
storage == <<filebase, pinata>>

-------------------------------------------------------------------------------
(* Requests: the first thing that is wrong with one.  Those in Late are only     *)
(* found after the budgets were charged.                                         *)

Early == {"method", "length", "fields", "estimate", "signature", "empty", "oversize"}
Late  == {"car", "mismatch"}
Flaw  == Early \cup Late \cup {"none"}

Status(flaw) ==
  CASE flaw = "method" -> 405
    [] flaw \in {"length", "estimate", "oversize"} -> 413
    [] flaw \in {"fields", "signature", "empty", "car", "mismatch"} -> 400

NoUpload == [cid |-> "no content"]
ASSUME ContentAssumption == NoUpload.cid \notin Cid

Request  == [cid : Cid, size : Size, flaw : Flaw \cap Flaws]

-------------------------------------------------------------------------------
(* The limiter *)

Bucket == [requests : Nat, bytes : Nat, expires : Nat]
Buckets == 0 .. (MaxTime \div Window)
NoBucket == [requests |-> 0, bytes |-> 0, expires |-> 0]

BucketId == now \div Window
Elapsed  == now % Window

(* kv.get: an entry is gone once its time to live is over.  The latest write is  *)
(* read, although a store that is spread over the world may answer an older one. *)
ReadBucket(d, b) ==
  IF b \in Buckets /\ now < kv[d][b].expires THEN kv[d][b] ELSE NoBucket

(* Faulty variants of definitions below, each a slip the code could contain;     *)
(* nothing here is part of the model.                                            *)
CurrentOnly(previous, current, elapsed) == current * Window

(* The estimate, multiplied by Window: the previous bucket counts for the part   *)
(* of it that a window ending now still covers.                                  *)
Estimate(previous, current, elapsed) == previous * (Window - elapsed) + current * Window

Fits(d, check, size) ==
  /\ Estimate(check.previous.requests, check.current.requests + 1, check.elapsed)
       <= MaxRequests[d] * Window
  /\ Estimate(check.previous.bytes, check.current.bytes + size, check.elapsed)
       <= MaxBytes[d] * Window

TimeToLive == 2 * Window

Charge(bucket, size) ==
  [requests |-> bucket.requests + 1, bytes |-> bucket.bytes + size, expires |-> now + TimeToLive]

(* checkAndConsumeBudget: the clock is read first; then the buckets, then the    *)
(* charge is written.                                                            *)
NewCheck == [at |-> "asked", bucket |-> BucketId, elapsed |-> Elapsed,
             previous |-> NoBucket, current |-> NoBucket]

(* A check that is over has no locals left, and its outcome is of no use to an   *)
(* upload that went on without it.                                               *)
Over(outcome) == [at |-> outcome, bucket |-> 0, elapsed |-> 0,
                  previous |-> NoBucket, current |-> NoBucket]
Ended(u, outcome) == Over(IF uploads[u].at = "budget" THEN outcome ELSE "over")

ReadBuckets(u, d) ==
  LET check == uploads[u].checks[d]
      read  == [check EXCEPT !.previous = IF check.bucket = 0 THEN NoBucket
                                          ELSE ReadBucket(d, check.bucket - 1),
                             !.current  = ReadBucket(d, check.bucket)]
  IN  /\ uploads[u] # NoUpload /\ check.at = "asked"
      /\ uploads' = [uploads EXCEPT ![u].checks[d] =
           IF Fits(d, read, uploads[u].size) THEN [read EXCEPT !.at = "fits"]
                                             ELSE Ended(u, "denied")]
      /\ UNCHANGED <<now, limiter, storage>>

WriteBucket(u, d) ==
  LET check == uploads[u].checks[d]
      size  == uploads[u].size
  IN  /\ uploads[u] # NoUpload /\ check.at = "fits"
      /\ kv' = [kv EXCEPT ![d][check.bucket] = Charge(check.current, size)]
      /\ charged' = [charged EXCEPT ![d] = @ \cup {[by |-> u, when |-> now, size |-> size]}]
      /\ raced' = [raced EXCEPT ![d] = @ \/ ReadBucket(d, check.bucket) # check.current
                                          \/ check.bucket # BucketId \/ check.elapsed # Elapsed]
      /\ uploads' = [uploads EXCEPT ![u].checks[d] = Ended(u, "allowed")]
      /\ UNCHANGED <<now, storage>>

StoreFails(u, d) ==
  /\ uploads[u] # NoUpload /\ uploads[u].checks[d].at \in {"asked", "fits"}
  /\ uploads' = [uploads EXCEPT ![u].checks[d] = Ended(u, "failed")]
  /\ UNCHANGED <<now, limiter, storage>>

-------------------------------------------------------------------------------
(* The handler *)

Open == {u \in Call : uploads[u] # NoUpload /\ uploads[u].at # "answered"}

Receive(u) ==
  \E r \in Request :
    /\ uploads[u] = NoUpload /\ \A v \in Call : v < u => uploads[v] # NoUpload
    /\ Cardinality(Open) < MaxOpen
    /\ uploads' = [uploads EXCEPT ![u] =
         [cid |-> r.cid, size |-> r.size, flaw |-> r.flaw, tries |-> 0, mirror |-> "off",
          checks |-> [d \in Dimension |-> IF r.flaw \in Early THEN Over("over") ELSE NewCheck],
          at |-> IF r.flaw \in Early THEN "answered" ELSE "budget",
          status |-> IF r.flaw \in Early THEN Status(r.flaw) ELSE 0]]
    /\ UNCHANGED <<now, limiter, storage>>

Outcomes(u) == {uploads[u].checks[d].at : d \in Dimension}
Past(checks) ==
  [d \in Dimension |-> IF checks[d].at \in {"asked", "fits"} THEN checks[d] ELSE Over("over")]
Answered(u, status) ==
  [uploads EXCEPT ![u].at = "answered", ![u].status = status, ![u].tries = 0,
                  ![u].checks = Past(uploads[u].checks)]

(* Faulty variants, as above. *)
EitherBudgetDoes(u) ==
  /\ uploads[u] # NoUpload /\ uploads[u].at = "budget" /\ "allowed" \in Outcomes(u)
  /\ uploads' = [uploads EXCEPT ![u].at = "import", ![u].checks = Past(@)]
  /\ UNCHANGED <<now, limiter, storage>>

OnlyDecidedChecks(u) ==
  /\ uploads[u] # NoUpload /\ uploads[u].at = "budget"
  /\ Outcomes(u) \subseteq {"allowed", "denied"}
  /\ uploads' = IF "denied" \in Outcomes(u) THEN Answered(u, 429)
                ELSE [uploads EXCEPT ![u].at = "import", ![u].checks = Past(@)]
  /\ UNCHANGED <<now, limiter, storage>>

(* authorizeUpload: one failure of the store is enough to deny, at once, while   *)
(* the other charge is still under way.                                          *)
Authorize(u) ==
  /\ uploads[u] # NoUpload /\ uploads[u].at = "budget"
  /\ \/ /\ "failed" \in Outcomes(u)
        /\ uploads' = Answered(u, 503)
     \/ /\ Outcomes(u) \subseteq {"allowed", "denied"} /\ "denied" \in Outcomes(u)
        /\ uploads' = Answered(u, 429)
     \/ /\ Outcomes(u) = {"allowed"}
        /\ uploads' = IF uploads[u].flaw \in Late THEN Answered(u, Status(uploads[u].flaw))
                                                  ELSE [uploads EXCEPT ![u].at = "import", ![u].checks = Past(@)]
  /\ UNCHANGED <<now, limiter, storage>>

(* What Filebase says of an import it accepted.  The comparison with the root it *)
(* returned is thrown inside the block that catches it, so only a text that does *)
(* not name the content at all is refused.                                       *)
Reply == {"root", "no root", "nothing", "another root, naming it", "another root"}
Confirms(reply) == reply # "another root"

ImportSucceeds(u) ==
  /\ uploads[u] # NoUpload /\ uploads[u].at = "import"
  /\ \E reply \in Reply : Confirms(reply)
  /\ filebase' = filebase \cup {uploads[u].cid}
  /\ \E enabled \in {"off", "due"} :
       uploads' = [Answered(u, 200) EXCEPT ![u].mirror = enabled]
  /\ UNCHANGED <<now, limiter, pinata>>

(* Faulty variants, as above. *)
ImportTakenForDone(u) ==
  /\ uploads[u] # NoUpload /\ uploads[u].at = "import"
  /\ uploads' = Answered(u, 200)
  /\ UNCHANGED <<now, limiter, storage>>

(* An attempt that fails, although the content may have arrived. *)
ImportFails(u) ==
  /\ uploads[u] # NoUpload /\ uploads[u].at = "import"
  /\ filebase' \in {filebase, filebase \cup {uploads[u].cid}}
  /\ uploads' = IF uploads[u].tries + 1 < FILEBASE_MAX_ATTEMPTS
                  THEN [uploads EXCEPT ![u].tries = @ + 1]
                  ELSE Answered(u, 502)
  /\ UNCHANGED <<now, limiter, pinata>>

(* pinCidOnPinata, awaited by nobody: tried a few times, then forgotten. *)
Mirror(u) ==
  /\ uploads[u] # NoUpload /\ uploads[u].mirror = "due"
  /\ uploads' = [uploads EXCEPT ![u].mirror = "off"]
  /\ pinata' \in {pinata, pinata \cup {uploads[u].cid}}
  /\ UNCHANGED <<now, limiter, filebase>>

Tick ==
  /\ now < MaxTime
  /\ now' = now + 1
  /\ UNCHANGED <<limiter, uploads, storage>>

Init ==
  /\ now = 0
  /\ kv = [d \in Dimension |-> [b \in Buckets |-> NoBucket]]
  /\ uploads = [u \in Call |-> NoUpload]
  /\ filebase = {} /\ pinata = {}
  /\ charged = [d \in Dimension |-> {}]
  /\ raced = [d \in Dimension |-> FALSE]

Work(u) ==
  \/ \E d \in Dimension : ReadBuckets(u, d) \/ WriteBucket(u, d) \/ StoreFails(u, d)
  \/ Authorize(u) \/ ImportSucceeds(u) \/ ImportFails(u)

Next == Tick \/ \E u \in Call : Receive(u) \/ Work(u) \/ Mirror(u)

(* Work that can go on goes on: the store and Filebase answer or fail. *)
Spec == Init /\ [][Next]_vars /\ \A u \in Call : WF_vars(Work(u))

-------------------------------------------------------------------------------
(* Properties *)

Check == [at : {"asked", "fits", "allowed", "denied", "failed", "over"},
          bucket : Nat, elapsed : 0 .. (Window - 1), previous : Bucket, current : Bucket]

Upload == [cid : Cid, size : Size, flaw : Flaw, tries : 0 .. (FILEBASE_MAX_ATTEMPTS - 1),
           mirror : {"off", "due"}, checks : [Dimension -> Check],
           at : {"budget", "import", "answered"},
           status : {0, 200, 400, 405, 413, 429, 502, 503}]

TypeOK ==
  /\ now \in 0 .. MaxTime
  /\ kv \in [Dimension -> [Buckets -> Bucket]]
  /\ uploads \in [Call -> Upload \cup {NoUpload}]
  /\ filebase \subseteq Cid /\ pinata \subseteq Cid
  /\ charged \in [Dimension -> SUBSET [by : Call, when : 0 .. MaxTime, size : Size]]
  /\ raced \in [Dimension -> BOOLEAN]

(* The two buckets approximate a sliding window: as long as no charge of a       *)
(* dimension overlapped another or a tick of the clock, the uploads charged in   *)
(* any span as long as a window exceed the budget by less than one budget - by   *)
(* the share of it that the weight of the previous bucket has given back at the  *)
(* end of the span.                                                              *)
InSpan(d, from) == {c \in charged[d] : c.when \in from .. (from + Window - 1)}

SpanBounded ==
  \A d \in Dimension : ~raced[d] =>
    \A from \in 0 .. MaxTime :
      Cardinality(InSpan(d, from)) * Window <= MaxRequests[d] * (2 * Window - 2)

(* Nothing is stored that was not paid for: content reaches Filebase, and Pinata *)
(* after it, only with an upload charged to both budgets, whatever failed.       *)
StoredWasPaid ==
  /\ pinata \subseteq filebase
  /\ \A cid \in filebase : \E u \in Call :
       /\ uploads[u].cid = cid
       /\ \A d \in Dimension : \E c \in charged[d] : c.by = u

(* Every upload is answered, whatever the store and Filebase do. *)
EveryUploadAnswered ==
  \A u \in Call : (uploads[u] # NoUpload) ~> (uploads[u] # NoUpload /\ uploads[u].at = "answered")

(* The worker is the service the dapp counts on. *)
Service == INSTANCE PinningService WITH
  NoCid  <- NoUpload.cid,
  pinned <- filebase,
  asked  <- [u \in Call |-> uploads[u].cid],
  answer <- [u \in Call |-> IF uploads[u] = NoUpload \/ uploads[u].at # "answered" THEN "none"
                            ELSE IF uploads[u].status = 200 THEN "ok" ELSE "refused"]

ImplementsService == Service!ServiceSpec

===============================================================================
