-------------------------- MODULE DelegationProofs --------------------------
(* The delegation worker, for any uploads, budgets and length of the window:     *)
(* nothing is stored that was not paid for, the worker is the service the dapp   *)
(* counts on, and a span as long as the window never costs two budgets.          *)
EXTENDS Delegation, FiniteSetTheorems, TLAPS

-------------------------------------------------------------------------------
(* Arithmetic *)

(* Products of counts grow with their factors.                                   *)
LEMMA Times ==
  ASSUME NEW a \in Nat, NEW b \in Nat, NEW c \in Nat, a <= b
  PROVE  a * c <= b * c /\ c * a <= c * b /\ a * c \in Nat
  BY SMT

(* The quotient and the remainder of the clock.                                  *)
LEMMA DivMod ==
  ASSUME NEW n \in Nat, NEW w \in Nat \ {0}
  PROVE  /\ n \div w \in Nat /\ n % w \in 0 .. (w - 1)
         /\ n = (n \div w) * w + (n % w)
  BY SMT

(* A later tick lies in the same or a later bucket.                              *)
LEMMA LaterBucket ==
  ASSUME NEW w \in Nat \ {0}, NEW b \in Nat, NEW c \in Nat, NEW k \in Nat, NEW l \in Nat,
         k < w, l < w, b * w + k <= c * w + l
  PROVE  b <= c
<1> SUFFICES ASSUME c + 1 <= b
             PROVE  FALSE
  OBVIOUS
<1>1. (c + 1) * w <= b * w
  BY Times
<1>2. (c + 1) * w = c * w + w
  BY SMT
<1>3. b * w \in Nat /\ c * w \in Nat
  BY SMT
<1> QED BY <1>1, <1>2, <1>3

(* Tick k of bucket b.                                                           *)
LEMMA Place ==
  ASSUME NEW w \in Nat \ {0}, NEW b \in Nat, NEW k \in Nat, k < w
  PROVE  b * w + k \in Nat /\ (b * w + k) \div w = b /\ (b * w + k) % w = k
<1> DEFINE n == b * w + k
           c == n \div w
           l == n % w
<1>1. n \in Nat
  BY SMT
<1>2. c \in Nat /\ l \in 0 .. (w - 1) /\ n = c * w + l
  BY <1>1, DivMod
<1> HIDE DEF c, l
<1>3. b * w \in Nat /\ c * w \in Nat
  BY <1>2, SMT
<1>4. b = c
  BY <1>2, <1>3, LaterBucket
<1>5. k = l
  BY <1>2, <1>3, <1>4
<1> QED BY <1>1, <1>4, <1>5 DEF c, l

-------------------------------------------------------------------------------
(* Types *)

LEMMA NoBucketTypes == NoBucket \in Bucket
  BY DEF NoBucket, Bucket

(* A check that is over keeps nothing.                                           *)
LEMMA OverTypes ==
  ASSUME LimiterAssumption,
         NEW outcome \in {"allowed", "denied", "failed", "over"}
  PROVE  Over(outcome) \in Check
<1>1. 0 \in 0 .. (Window - 1)
  BY DEF LimiterAssumption
<1> QED BY <1>1, NoBucketTypes DEF Over, Check

LEMMA NewCheckTypes ==
  ASSUME LimiterAssumption, TypeOK
  PROVE  NewCheck \in Check
<1>1. BucketId \in Nat /\ Elapsed \in 0 .. (Window - 1)
  <2>1. Window \in Nat \ {0} /\ now \in Nat
    BY DEF LimiterAssumption, TypeOK
  <2> QED BY <2>1, DivMod DEF BucketId, Elapsed
<1> QED BY <1>1, NoBucketTypes DEF NewCheck, Check

LEMMA PastTypes ==
  ASSUME LimiterAssumption, NEW checks \in [Dimension -> Check]
  PROVE  Past(checks) \in [Dimension -> Check]
  BY OverTypes DEF Past

LEMMA StatusTypes ==
  ASSUME NEW flaw \in Flaw, flaw # "none"
  PROVE  Status(flaw) \in {400, 405, 413}
<1>1. CASE flaw = "method"
  BY <1>1 DEF Status
<1>2. CASE flaw \in {"length", "estimate", "oversize"}
  BY <1>2 DEF Status
<1>3. CASE flaw \in {"fields", "signature", "empty", "car", "mismatch"}
  BY <1>3 DEF Status
<1> QED BY <1>1, <1>2, <1>3 DEF Flaw, Early, Late

LEMMA UploadsTypes ==
  ASSUME TypeOK
  PROVE  /\ uploads = [v \in Call |-> uploads[v]]
         /\ \A u \in Call : uploads[u] # NoUpload => uploads[u] \in Upload
  BY DEF TypeOK

-------------------------------------------------------------------------------
(* What each action makes of the upload it works on, field by field              *)

Becomes(u, upload) == upload \in Upload /\ uploads' = [uploads EXCEPT ![u] = upload]

Rechecked(u, d, check) ==
  [cid |-> uploads[u].cid, size |-> uploads[u].size, flaw |-> uploads[u].flaw,
   tries |-> uploads[u].tries, mirror |-> uploads[u].mirror,
   checks |-> [uploads[u].checks EXCEPT ![d] = check],
   at |-> uploads[u].at, status |-> uploads[u].status]

Reached(u, at, status, tries, mirror) ==
  [cid |-> uploads[u].cid, size |-> uploads[u].size, flaw |-> uploads[u].flaw,
   tries |-> tries, mirror |-> mirror, checks |-> Past(uploads[u].checks),
   at |-> at, status |-> status]

Repeated(u, tries, mirror) ==
  [cid |-> uploads[u].cid, size |-> uploads[u].size, flaw |-> uploads[u].flaw,
   tries |-> tries, mirror |-> mirror, checks |-> uploads[u].checks,
   at |-> uploads[u].at, status |-> uploads[u].status]

LEMMA Checking ==
  ASSUME TypeOK, NEW u \in Call, uploads[u] # NoUpload, NEW d \in Dimension,
         NEW check \in Check, uploads' = [uploads EXCEPT ![u].checks[d] = check]
  PROVE  Becomes(u, Rechecked(u, d, check))
<1>1. uploads = [v \in Call |-> uploads[v]] /\ uploads[u] \in Upload
  BY UploadsTypes
<1> DEFINE checks == [uploads[u].checks EXCEPT ![d] = check]
<1>2. uploads' = [uploads EXCEPT ![u].checks = checks]
  BY <1>1
<1>3. checks \in [Dimension -> Check]
  BY <1>1 DEF Upload
<1> HIDE DEF checks
<1>4. uploads' = [uploads EXCEPT ![u] = uploads'[u]]
  BY <1>1, <1>2
<1>5. uploads'[u] = [cid |-> uploads[u].cid, size |-> uploads[u].size,
                     flaw |-> uploads[u].flaw, tries |-> uploads[u].tries,
                     mirror |-> uploads[u].mirror, checks |-> checks,
                     at |-> uploads[u].at, status |-> uploads[u].status]
  BY <1>1, <1>2 DEF Upload
<1>6. uploads'[u] \in Upload
  BY <1>1, <1>3, <1>5 DEF Upload
<1> QED BY <1>4, <1>5, <1>6 DEF checks, Becomes, Rechecked

LEMMA AnsweredIs ==
  ASSUME TypeOK, NEW u \in Call, uploads[u] # NoUpload, NEW status
  PROVE  Answered(u, status)
           = [uploads EXCEPT ![u] = Reached(u, "answered", status, 0, uploads[u].mirror)]
<1> DEFINE answered == Answered(u, status)
           checks   == Past(uploads[u].checks)
<1>1. uploads = [v \in Call |-> uploads[v]] /\ uploads[u] \in Upload
  BY UploadsTypes
<1>2. answered = [uploads EXCEPT ![u].at = "answered", ![u].status = status,
                                 ![u].tries = 0, ![u].checks = checks]
  BY DEF Answered
<1> HIDE DEF answered, checks
<1>3. answered = [uploads EXCEPT ![u] = answered[u]]
  BY <1>1, <1>2
<1>4. answered[u] = [cid |-> uploads[u].cid, size |-> uploads[u].size,
                     flaw |-> uploads[u].flaw, tries |-> 0, mirror |-> uploads[u].mirror,
                     checks |-> checks, at |-> "answered", status |-> status]
  BY <1>1, <1>2 DEF Upload
<1>5. answered[u] = Reached(u, "answered", status, 0, uploads[u].mirror)
  BY <1>4 DEF Reached, checks
<1> QED BY <1>3, <1>5 DEF answered

LEMMA ReachedTypes ==
  ASSUME LimiterAssumption, NEW u \in Call, uploads[u] \in Upload,
         NEW at \in {"budget", "import", "answered"},
         NEW status \in {0, 200, 400, 405, 413, 429, 502, 503},
         NEW tries \in 0 .. (FILEBASE_MAX_ATTEMPTS - 1), NEW mirror \in {"off", "due"}
  PROVE  Reached(u, at, status, tries, mirror) \in Upload
<1>1. Past(uploads[u].checks) \in [Dimension -> Check]
  BY PastTypes DEF Upload
<1> QED BY <1>1 DEF Reached, Upload

LEMMA Answering ==
  ASSUME LimiterAssumption, TypeOK, NEW u \in Call, uploads[u] # NoUpload,
         NEW status \in {0, 200, 400, 405, 413, 429, 502, 503}
  PROVE  uploads' = Answered(u, status)
           => Becomes(u, Reached(u, "answered", status, 0, uploads[u].mirror))
<1>1. uploads[u] \in Upload
  BY UploadsTypes
<1>2. uploads[u].mirror \in {"off", "due"} /\ 0 \in 0 .. (FILEBASE_MAX_ATTEMPTS - 1)
  BY <1>1 DEF Upload, FILEBASE_MAX_ATTEMPTS
<1>3. Reached(u, "answered", status, 0, uploads[u].mirror) \in Upload
  BY <1>1, <1>2, ReachedTypes
<1> QED BY <1>3, AnsweredIs DEF Becomes

LEMMA Succeeding ==
  ASSUME LimiterAssumption, TypeOK, NEW u \in Call, uploads[u] # NoUpload,
         NEW enabled \in {"off", "due"}
  PROVE  uploads' = [Answered(u, 200) EXCEPT ![u].mirror = enabled]
           => Becomes(u, Reached(u, "answered", 200, 0, enabled))
<1> DEFINE answer == Reached(u, "answered", 200, 0, uploads[u].mirror)
           final  == [answer EXCEPT !.mirror = enabled]
<1>1. uploads[u] \in Upload
  BY UploadsTypes
<1>2. Answered(u, 200) = [uploads EXCEPT ![u] = answer]
  BY AnsweredIs
<1>3. Reached(u, "answered", 200, 0, enabled) \in Upload
  BY <1>1, ReachedTypes DEF FILEBASE_MAX_ATTEMPTS
<1>4. final = Reached(u, "answered", 200, 0, enabled)
  BY DEF Reached
<1>5. [Answered(u, 200) EXCEPT ![u].mirror = enabled] = [uploads EXCEPT ![u] = final]
  <2> HIDE DEF answer
  <2>1. uploads = [v \in Call |-> uploads[v]]
    BY UploadsTypes
  <2> QED BY <2>1, <1>2
<1> QED BY <1>3, <1>4, <1>5 DEF Becomes

LEMMA Importing ==
  ASSUME LimiterAssumption, TypeOK, NEW u \in Call, uploads[u] # NoUpload
  PROVE  uploads' = [uploads EXCEPT ![u].at = "import", ![u].checks = Past(@)]
           => Becomes(u, Reached(u, "import", uploads[u].status, uploads[u].tries,
                                 uploads[u].mirror))
<1> DEFINE paid   == [uploads EXCEPT ![u].at = "import", ![u].checks = Past(@)]
           checks == Past(uploads[u].checks)
<1>1. uploads = [v \in Call |-> uploads[v]] /\ uploads[u] \in Upload
  BY UploadsTypes
<1>2. paid = [uploads EXCEPT ![u].at = "import", ![u].checks = checks]
  BY <1>1
<1> HIDE DEF paid, checks
<1>3. paid = [uploads EXCEPT ![u] = paid[u]]
  BY <1>1, <1>2
<1>4. paid[u] = [cid |-> uploads[u].cid, size |-> uploads[u].size,
                 flaw |-> uploads[u].flaw, tries |-> uploads[u].tries,
                 mirror |-> uploads[u].mirror, checks |-> checks,
                 at |-> "import", status |-> uploads[u].status]
  BY <1>1, <1>2 DEF Upload
<1>5. paid[u] = Reached(u, "import", uploads[u].status, uploads[u].tries, uploads[u].mirror)
  BY <1>4 DEF Reached, checks
<1>6. paid[u] \in Upload
  BY <1>1, <1>5, ReachedTypes DEF Upload
<1> QED BY <1>3, <1>5, <1>6 DEF Becomes, paid

LEMMA Trying ==
  ASSUME TypeOK, NEW u \in Call, uploads[u] # NoUpload,
         uploads[u].tries + 1 < FILEBASE_MAX_ATTEMPTS,
         uploads' = [uploads EXCEPT ![u].tries = uploads[u].tries + 1]
  PROVE  Becomes(u, Repeated(u, uploads[u].tries + 1, uploads[u].mirror))
<1>1. uploads = [v \in Call |-> uploads[v]] /\ uploads[u] \in Upload
  BY UploadsTypes
<1>3. uploads' = [uploads EXCEPT ![u] = uploads'[u]]
  BY <1>1
<1>4. uploads'[u] = [cid |-> uploads[u].cid, size |-> uploads[u].size,
                     flaw |-> uploads[u].flaw, tries |-> uploads[u].tries + 1,
                     mirror |-> uploads[u].mirror, checks |-> uploads[u].checks,
                     at |-> uploads[u].at, status |-> uploads[u].status]
  BY <1>1 DEF Upload
<1>5. uploads'[u] \in Upload
  BY <1>1, <1>4 DEF Upload, FILEBASE_MAX_ATTEMPTS
<1> QED BY <1>3, <1>4, <1>5 DEF Becomes, Repeated

LEMMA Mirroring ==
  ASSUME TypeOK, NEW u \in Call, uploads[u] # NoUpload,
         uploads' = [uploads EXCEPT ![u].mirror = "off"]
  PROVE  Becomes(u, Repeated(u, uploads[u].tries, "off"))
<1>1. uploads = [v \in Call |-> uploads[v]] /\ uploads[u] \in Upload
  BY UploadsTypes
<1>3. uploads' = [uploads EXCEPT ![u] = uploads'[u]]
  BY <1>1
<1>4. uploads'[u] = [cid |-> uploads[u].cid, size |-> uploads[u].size,
                     flaw |-> uploads[u].flaw, tries |-> uploads[u].tries,
                     mirror |-> "off", checks |-> uploads[u].checks,
                     at |-> uploads[u].at, status |-> uploads[u].status]
  BY <1>1 DEF Upload
<1>5. uploads'[u] \in Upload
  BY <1>1, <1>4 DEF Upload
<1> QED BY <1>3, <1>4, <1>5 DEF Becomes, Repeated

-------------------------------------------------------------------------------
(* What each action does                                                         *)

(* An upload that is there, in its place.                                        *)
LEMMA BecomesTypes ==
  ASSUME TypeOK, NEW u \in Call, NEW upload, Becomes(u, upload)
  PROVE  /\ uploads' \in [Call -> Upload \cup {NoUpload}]
         /\ uploads'[u] = upload
         /\ \A v \in Call \ {u} : uploads'[v] = uploads[v]
  BY DEF TypeOK, Becomes

LEMMA UploadIsThere ==
  NoUpload \notin Upload
<1>1. ASSUME NEW upload \in Upload
      PROVE  upload # NoUpload
  <2>1. upload.cid \in Cid
    BY DEF Upload
  <2> QED BY <2>1, ContentAssumption
<1> QED BY <1>1

LEMMA ReadBucketTypes ==
  ASSUME TypeOK, NEW d \in Dimension, NEW b \in Nat
  PROVE  ReadBucket(d, b) \in Bucket
  BY NoBucketTypes DEF TypeOK, ReadBucket

LEMMA EndedTypes ==
  ASSUME LimiterAssumption, NEW u, NEW outcome \in {"allowed", "denied", "failed"}
  PROVE  Ended(u, outcome) \in Check
  BY OverTypes DEF Ended

(* What a check that lets an upload through has read.                            *)
Granted(u, d) ==
  [at       |-> "fits",
   bucket   |-> uploads[u].checks[d].bucket,
   elapsed  |-> uploads[u].checks[d].elapsed,
   previous |-> IF uploads[u].checks[d].bucket = 0 THEN NoBucket
                ELSE ReadBucket(d, uploads[u].checks[d].bucket - 1),
   current  |-> ReadBucket(d, uploads[u].checks[d].bucket)]

LEMMA GrantedTypes ==
  ASSUME TypeOK, NEW u \in Call, uploads[u] # NoUpload, NEW d \in Dimension
  PROVE  Granted(u, d) \in Check
<1>1. uploads[u].checks[d] \in Check
  BY UploadsTypes DEF Upload
<1>2. uploads[u].checks[d].bucket \in Nat /\ uploads[u].checks[d].elapsed \in 0 .. (Window - 1)
  BY <1>1 DEF Check
<1>3. Granted(u, d).previous \in Bucket /\ Granted(u, d).current \in Bucket
  <2>1. uploads[u].checks[d].bucket # 0 => uploads[u].checks[d].bucket - 1 \in Nat
    BY <1>2
  <2> QED BY <1>2, <2>1, ReadBucketTypes, NoBucketTypes DEF Granted
<1> QED BY <1>2, <1>3 DEF Granted, Check

LEMMA Reading ==
  ASSUME LimiterAssumption, TypeOK, NEW u \in Call, NEW d \in Dimension, ReadBuckets(u, d)
  PROVE  /\ uploads[u] # NoUpload /\ uploads[u].checks[d].at = "asked"
         /\ UNCHANGED <<now, kv, charged, raced, filebase, pinata>>
         /\ \/ Becomes(u, Rechecked(u, d, Ended(u, "denied")))
            \/ /\ Becomes(u, Rechecked(u, d, Granted(u, d)))
               /\ Fits(d, Granted(u, d), uploads[u].size)
<1> DEFINE check == uploads[u].checks[d]
           read  == [check EXCEPT !.previous = IF check.bucket = 0 THEN NoBucket
                                               ELSE ReadBucket(d, check.bucket - 1),
                                  !.current  = ReadBucket(d, check.bucket)]
           fits  == [read EXCEPT !.at = "fits"]
<1>1. /\ uploads[u] # NoUpload /\ check.at = "asked"
      /\ uploads' = [uploads EXCEPT ![u].checks[d] =
           IF Fits(d, read, uploads[u].size) THEN fits ELSE Ended(u, "denied")]
      /\ UNCHANGED <<now, kv, charged, raced, filebase, pinata>>
  BY DEF ReadBuckets, limiter, storage
<1>2. check \in Check
  BY <1>1, UploadsTypes DEF Upload
<1>3. check = [at |-> check.at, bucket |-> check.bucket, elapsed |-> check.elapsed,
               previous |-> check.previous, current |-> check.current]
  BY <1>2 DEF Check
<1>4. fits = Granted(u, d)
  <2> DEFINE previous == IF check.bucket = 0 THEN NoBucket ELSE ReadBucket(d, check.bucket - 1)
             current  == ReadBucket(d, check.bucket)
  <2>0. read = [check EXCEPT !.previous = previous, !.current = current]
    OBVIOUS
  <2> HIDE DEF check, read, previous, current
  <2>1. read = [at |-> check.at, bucket |-> check.bucket, elapsed |-> check.elapsed,
                previous |-> previous, current |-> current]
    BY <1>3, <2>0
  <2>2. fits = [at |-> "fits", bucket |-> check.bucket, elapsed |-> check.elapsed,
                previous |-> previous, current |-> current]
    BY <2>1
  <2> QED BY <2>2 DEF Granted, check, previous, current
<1>5. Fits(d, read, uploads[u].size) => Fits(d, Granted(u, d), uploads[u].size)
  BY <1>3 DEF Granted, Fits
<1>6. Ended(u, "denied") \in Check /\ Granted(u, d) \in Check
  BY <1>1, EndedTypes, GrantedTypes
<1> HIDE DEF read, fits
<1>7. CASE Fits(d, read, uploads[u].size)
  <2>1. uploads' = [uploads EXCEPT ![u].checks[d] = Granted(u, d)]
    BY <1>1, <1>4, <1>7
  <2> QED BY <2>1, <1>1, <1>5, <1>6, <1>7, Checking
<1>8. CASE ~Fits(d, read, uploads[u].size)
  <2>1. uploads' = [uploads EXCEPT ![u].checks[d] = Ended(u, "denied")]
    BY <1>1, <1>8
  <2> QED BY <2>1, <1>1, <1>6, Checking
<1> QED BY <1>7, <1>8

LEMMA Writing ==
  ASSUME LimiterAssumption, TypeOK, NEW u \in Call, NEW d \in Dimension, WriteBucket(u, d)
  PROVE  LET check == uploads[u].checks[d] IN
         /\ uploads[u] # NoUpload /\ check.at = "fits"
         /\ Becomes(u, Rechecked(u, d, Ended(u, "allowed")))
         /\ kv' = [kv EXCEPT ![d][check.bucket] = Charge(check.current, uploads[u].size)]
         /\ charged' = [charged EXCEPT
              ![d] = charged[d] \cup {[by |-> u, when |-> now, size |-> uploads[u].size]}]
         /\ raced' = [raced EXCEPT
              ![d] = raced[d] \/ ReadBucket(d, check.bucket) # check.current
                              \/ check.bucket # BucketId \/ check.elapsed # Elapsed]
         /\ UNCHANGED <<now, filebase, pinata>>
<1>1. /\ uploads[u] # NoUpload
      /\ uploads' = [uploads EXCEPT ![u].checks[d] = Ended(u, "allowed")]
  BY DEF WriteBucket
<1>2. Becomes(u, Rechecked(u, d, Ended(u, "allowed")))
  BY <1>1, EndedTypes, Checking
<1>3. charged' = [charged EXCEPT
        ![d] = charged[d] \cup {[by |-> u, when |-> now, size |-> uploads[u].size]}]
  BY DEF WriteBucket, TypeOK
<1>4. raced' = [raced EXCEPT
        ![d] = raced[d] \/ ReadBucket(d, uploads[u].checks[d].bucket) # uploads[u].checks[d].current
                        \/ uploads[u].checks[d].bucket # BucketId
                        \/ uploads[u].checks[d].elapsed # Elapsed]
  BY DEF WriteBucket, TypeOK
<1> QED BY <1>2, <1>3, <1>4 DEF WriteBucket, storage

LEMMA Failing ==
  ASSUME LimiterAssumption, TypeOK, NEW u \in Call, NEW d \in Dimension, StoreFails(u, d)
  PROVE  /\ uploads[u] # NoUpload /\ uploads[u].checks[d].at \in {"asked", "fits"}
         /\ Becomes(u, Rechecked(u, d, Ended(u, "failed")))
         /\ UNCHANGED <<now, kv, charged, raced, filebase, pinata>>
<1>1. /\ uploads[u] # NoUpload
      /\ uploads' = [uploads EXCEPT ![u].checks[d] = Ended(u, "failed")]
  BY DEF StoreFails
<1>2. Becomes(u, Rechecked(u, d, Ended(u, "failed")))
  BY <1>1, EndedTypes, Checking
<1> QED BY <1>2 DEF StoreFails, limiter, storage

(* A request taken up: refused at once, or with both checks asked.               *)
Taken(cid, size, flaw) ==
  [cid |-> cid, size |-> size, flaw |-> flaw, tries |-> 0, mirror |-> "off",
   checks |-> [d \in Dimension |-> IF flaw \in Early THEN Over("over") ELSE NewCheck],
   at |-> IF flaw \in Early THEN "answered" ELSE "budget",
   status |-> IF flaw \in Early THEN Status(flaw) ELSE 0]

LEMMA Receiving ==
  ASSUME LimiterAssumption, TypeOK, NEW u \in Call, Receive(u)
  PROVE  /\ uploads[u] = NoUpload
         /\ \E cid \in Cid, size \in Size, flaw \in Flaw : Becomes(u, Taken(cid, size, flaw))
         /\ UNCHANGED <<now, kv, charged, raced, filebase, pinata>>
<1>1. PICK r \in Request :
        uploads' = [uploads EXCEPT ![u] = Taken(r.cid, r.size, r.flaw)]
  BY DEF Receive, Taken
<1>2. r.cid \in Cid /\ r.size \in Size /\ r.flaw \in Flaw
  BY DEF Request
<1>3. Taken(r.cid, r.size, r.flaw) \in Upload
  <2>1. [d \in Dimension |-> IF r.flaw \in Early THEN Over("over") ELSE NewCheck]
          \in [Dimension -> Check]
    BY NewCheckTypes, OverTypes
  <2>2. r.flaw \in Early => Status(r.flaw) \in {400, 405, 413}
    BY <1>2, StatusTypes DEF Early
  <2> QED BY <1>2, <2>1, <2>2 DEF Taken, Upload, FILEBASE_MAX_ATTEMPTS
<1> QED BY <1>1, <1>2, <1>3 DEF Receive, Becomes, limiter, storage

LEMMA Authorizing ==
  ASSUME LimiterAssumption, TypeOK, NEW u \in Call, Authorize(u)
  PROVE  /\ uploads[u] # NoUpload /\ uploads[u].at = "budget"
         /\ UNCHANGED <<now, kv, charged, raced, filebase, pinata>>
         /\ \/ \E status \in {400, 429, 503} :
                 Becomes(u, Reached(u, "answered", status, 0, uploads[u].mirror))
            \/ /\ Outcomes(u) = {"allowed"}
               /\ Becomes(u, Reached(u, "import", uploads[u].status, uploads[u].tries,
                                     uploads[u].mirror))
<1>1. uploads[u] # NoUpload
  BY DEF Authorize
<1>2. ASSUME NEW status \in {400, 429, 503}, uploads' = Answered(u, status)
      PROVE  \E s \in {400, 429, 503} :
               Becomes(u, Reached(u, "answered", s, 0, uploads[u].mirror))
  BY <1>1, <1>2, Answering
<1>3. uploads[u].flaw \in Late => Status(uploads[u].flaw) = 400
  BY DEF Late, Status
<1>4. CASE uploads' = Answered(u, 503)
  BY <1>2, <1>4 DEF Authorize, limiter, storage
<1>5. CASE uploads' = Answered(u, 429)
  BY <1>2, <1>5 DEF Authorize, limiter, storage
<1>6. CASE Outcomes(u) = {"allowed"} /\ uploads[u].flaw \in Late
           /\ uploads' = Answered(u, Status(uploads[u].flaw))
  <2>1. uploads' = Answered(u, 400)
    BY <1>3, <1>6
  <2> QED BY <1>2, <2>1 DEF Authorize, limiter, storage
<1>7. CASE Outcomes(u) = {"allowed"}
           /\ uploads' = [uploads EXCEPT ![u].at = "import", ![u].checks = Past(@)]
  BY <1>1, <1>7, Importing DEF Authorize, limiter, storage
<1> QED BY <1>4, <1>5, <1>6, <1>7 DEF Authorize

LEMMA Storing ==
  ASSUME LimiterAssumption, TypeOK, NEW u \in Call, ImportSucceeds(u)
  PROVE  /\ uploads[u] # NoUpload /\ uploads[u].at = "import"
         /\ filebase' = filebase \cup {uploads[u].cid}
         /\ \E mirror \in {"off", "due"} :
              Becomes(u, Reached(u, "answered", 200, 0, mirror))
         /\ UNCHANGED <<now, kv, charged, raced, pinata>>
<1>1. PICK enabled \in {"off", "due"} :
        uploads' = [Answered(u, 200) EXCEPT ![u].mirror = enabled]
  BY DEF ImportSucceeds
<1>2. Becomes(u, Reached(u, "answered", 200, 0, enabled))
  BY <1>1, Succeeding DEF ImportSucceeds
<1> QED BY <1>2 DEF ImportSucceeds, limiter

LEMMA FailingImport ==
  ASSUME LimiterAssumption, TypeOK, NEW u \in Call, ImportFails(u)
  PROVE  /\ uploads[u] # NoUpload /\ uploads[u].at = "import"
         /\ filebase' \in {filebase, filebase \cup {uploads[u].cid}}
         /\ \/ Becomes(u, Repeated(u, uploads[u].tries + 1, uploads[u].mirror))
            \/ Becomes(u, Reached(u, "answered", 502, 0, uploads[u].mirror))
         /\ UNCHANGED <<now, kv, charged, raced, pinata>>
<1>1. uploads[u] # NoUpload
  BY DEF ImportFails
<1>2. CASE uploads[u].tries + 1 < FILEBASE_MAX_ATTEMPTS
  <2>1. uploads' = [uploads EXCEPT ![u].tries = uploads[u].tries + 1]
    <3>1. uploads' = [uploads EXCEPT ![u].tries = @ + 1]
      BY <1>2 DEF ImportFails
    <3> QED BY <3>1, UploadsTypes
  <2> QED BY <1>1, <1>2, <2>1, Trying DEF ImportFails, limiter
<1>3. CASE ~(uploads[u].tries + 1 < FILEBASE_MAX_ATTEMPTS)
  BY <1>1, <1>3, Answering DEF ImportFails, limiter
<1> QED BY <1>2, <1>3

LEMMA Copying ==
  ASSUME TypeOK, NEW u \in Call, Mirror(u)
  PROVE  /\ uploads[u] # NoUpload /\ uploads[u].mirror = "due"
         /\ Becomes(u, Repeated(u, uploads[u].tries, "off"))
         /\ pinata' \in {pinata, pinata \cup {uploads[u].cid}}
         /\ UNCHANGED <<now, kv, charged, raced, filebase>>
  BY Mirroring DEF Mirror, limiter

-------------------------------------------------------------------------------
(* Nothing is stored that was not paid for                                       *)

Charged(d, u) == \E c \in charged[d] : c.by = u
Paid(u)       == \A d \in Dimension : Charged(d, u)

(* A check that allows has charged, an import has been paid for in full, and     *)
(* what is still to be copied is stored.                                         *)
PaidInv ==
  /\ TypeOK
  /\ \A u \in Call : uploads[u] # NoUpload =>
       /\ \A d \in Dimension : uploads[u].checks[d].at = "allowed" => Charged(d, u)
       /\ uploads[u].at = "import" => Paid(u)
       /\ uploads[u].mirror = "due" => uploads[u].cid \in filebase
  /\ StoredWasPaid

LEMMA ChargeTypes ==
  ASSUME LimiterAssumption, TypeOK, NEW bucket \in Bucket, NEW size \in Size
  PROVE  Charge(bucket, size) \in Bucket
<1>1. now + TimeToLive \in Nat
  BY DEF LimiterAssumption, TypeOK, TimeToLive
<1>2. size \in Nat
  BY DEF LimiterAssumption
<1>3. bucket.requests + 1 \in Nat /\ bucket.bytes + size \in Nat
  BY <1>2 DEF Bucket
<1> QED BY <1>1, <1>3 DEF Charge, Bucket

LEMMA TypeInit ==
  ASSUME LimiterAssumption, Init
  PROVE  TypeOK
<1>1. 0 \in 0 .. MaxTime
  BY DEF LimiterAssumption
<1> QED BY <1>1, NoBucketTypes DEF Init, TypeOK

LEMMA TypeStep ==
  ASSUME LimiterAssumption, TypeOK, [Next]_vars
  PROVE  TypeOK'
<1>1. CASE Tick
  <2>1. now' \in 0 .. MaxTime
    BY <1>1 DEF Tick, TypeOK, LimiterAssumption
  <2> QED BY <1>1, <2>1 DEF Tick, TypeOK, limiter, storage
<1>2. ASSUME NEW u \in Call, Receive(u)
      PROVE  TypeOK'
  <2>1. PICK upload : Becomes(u, upload)
    BY <1>2, Receiving
  <2> QED BY <1>2, <2>1, Receiving, BecomesTypes DEF TypeOK
<1>3. ASSUME NEW u \in Call, NEW d \in Dimension, ReadBuckets(u, d)
      PROVE  TypeOK'
  <2>1. PICK upload : Becomes(u, upload)
    BY <1>3, Reading
  <2> QED BY <1>3, <2>1, Reading, BecomesTypes DEF TypeOK
<1>4. ASSUME NEW u \in Call, NEW d \in Dimension, WriteBucket(u, d)
      PROVE  TypeOK'
  <2> DEFINE check  == uploads[u].checks[d]
             bucket == Charge(check.current, uploads[u].size)
             charge == [by |-> u, when |-> now, size |-> uploads[u].size]
  <2>1. uploads' \in [Call -> Upload \cup {NoUpload}]
    BY <1>4, Writing, BecomesTypes
  <2>2. uploads[u] # NoUpload
    BY <1>4, Writing
  <2>3. check \in Check /\ uploads[u].size \in Size
    BY <2>2, UploadsTypes DEF Upload
  <2>4. bucket \in Bucket
    <3>1. check.current \in Bucket
      BY <2>3 DEF Check
    <3> QED BY <2>3, <3>1, ChargeTypes
  <2>5. kv' \in [Dimension -> [Buckets -> Bucket]]
    <3> HIDE DEF check, bucket
    <3>1. kv' = [kv EXCEPT ![d][check.bucket] = bucket]
      BY <1>4, Writing DEF check, bucket
    <3>2. kv \in [Dimension -> [Buckets -> Bucket]]
      BY DEF TypeOK
    <3> QED BY <2>4, <3>1, <3>2
  <2>6. charged' \in [Dimension -> SUBSET [by : Call, when : 0 .. MaxTime, size : Size]]
    <3>1. charge \in [by : Call, when : 0 .. MaxTime, size : Size]
      BY <2>3 DEF TypeOK
    <3>2. charged' = [charged EXCEPT ![d] = charged[d] \cup {charge}]
      BY <1>4, Writing
    <3>3. charged \in [Dimension -> SUBSET [by : Call, when : 0 .. MaxTime, size : Size]]
      BY DEF TypeOK
    <3> HIDE DEF charge
    <3> QED BY <3>1, <3>2, <3>3
  <2>7. raced' \in [Dimension -> BOOLEAN]
    <3> DEFINE now_raced == raced[d] \/ ReadBucket(d, check.bucket) # check.current
                           \/ check.bucket # BucketId \/ check.elapsed # Elapsed
    <3>1. raced' = [raced EXCEPT ![d] = now_raced]
      BY <1>4, Writing
    <3>2. now_raced \in BOOLEAN
      BY DEF TypeOK
    <3>3. raced \in [Dimension -> BOOLEAN]
      BY DEF TypeOK
    <3> HIDE DEF now_raced
    <3> QED BY <3>1, <3>2, <3>3
  <2> QED BY <1>4, <2>1, <2>5, <2>6, <2>7, Writing DEF TypeOK
<1>5. ASSUME NEW u \in Call, NEW d \in Dimension, StoreFails(u, d)
      PROVE  TypeOK'
  BY <1>5, Failing, BecomesTypes DEF TypeOK
<1>6. ASSUME NEW u \in Call, Authorize(u)
      PROVE  TypeOK'
  <2>1. PICK upload : Becomes(u, upload)
    BY <1>6, Authorizing
  <2> QED BY <1>6, <2>1, Authorizing, BecomesTypes DEF TypeOK
<1>7. ASSUME NEW u \in Call, ImportSucceeds(u) \/ ImportFails(u)
      PROVE  TypeOK'
  <2>1. PICK upload : Becomes(u, upload)
    BY <1>7, Storing, FailingImport
  <2>2. uploads[u] # NoUpload
    BY <1>7, Storing, FailingImport
  <2>3. uploads[u].cid \in Cid
    BY <2>2, UploadsTypes DEF Upload
  <2> QED BY <1>7, <2>1, <2>3, Storing, FailingImport, BecomesTypes DEF TypeOK
<1>8. ASSUME NEW u \in Call, Mirror(u)
      PROVE  TypeOK'
  <2>1. uploads[u].cid \in Cid
    BY <1>8, Copying, UploadsTypes DEF Upload
  <2> QED BY <1>8, <2>1, Copying, BecomesTypes DEF TypeOK
<1>9. CASE UNCHANGED vars
  BY <1>9 DEF vars, TypeOK
<1> QED BY <1>1, <1>2, <1>3, <1>4, <1>5, <1>6, <1>7, <1>8, <1>9 DEF Next, Work

(* Type correctness: counters, buckets, checks and answers stay what they are.   *)
THEOREM TypeCorrect == Spec => []TypeOK
<1>1. Init => TypeOK
  BY TypeInit, LimiterAssumption
<1>2. TypeOK /\ [Next]_vars => TypeOK'
  BY TypeStep, LimiterAssumption
<1> QED BY <1>1, <1>2, PTL DEF Spec

(* The contents stored so far are still paid for when charges only grow.         *)
LEMMA StillPaid ==
  ASSUME PaidInv, NEW u \in Call, NEW upload, Becomes(u, upload),
         uploads[u] = NoUpload \/ upload.cid = uploads[u].cid,
         \A d \in Dimension : charged[d] \subseteq charged'[d],
         filebase' = filebase \/ (filebase' = filebase \cup {upload.cid} /\ Paid(u)),
         pinata' \subseteq filebase'
  PROVE  StoredWasPaid'
<1>1. /\ uploads'[u] = upload
      /\ \A v \in Call \ {u} : uploads'[v] = uploads[v]
  BY BecomesTypes DEF PaidInv
<1>2. ASSUME NEW cid \in filebase'
      PROVE  \E v \in Call : /\ uploads'[v].cid = cid
                             /\ \A d \in Dimension : \E c \in charged'[d] : c.by = v
  <2>1. CASE cid \in filebase
    <3>1. PICK v \in Call : /\ uploads[v].cid = cid
                            /\ \A d \in Dimension : \E c \in charged[d] : c.by = v
      BY <2>1 DEF PaidInv, StoredWasPaid
    <3>2. uploads[v] # NoUpload
      <4>1. cid \in Cid
        BY <2>1 DEF PaidInv, TypeOK
      <4> QED BY <3>1, <4>1, ContentAssumption
    <3>3. uploads'[v].cid = cid
      BY <1>1, <3>1, <3>2
    <3> QED BY <3>1, <3>3
  <2>2. CASE cid \notin filebase
    <3>1. cid = upload.cid /\ Paid(u)
      BY <1>2, <2>2
    <3> QED BY <1>1, <3>1 DEF Paid, Charged
  <2> QED BY <2>1, <2>2
<1> QED BY <1>2 DEF StoredWasPaid

(* A step that leaves the charges and what is stored alone, and lets no upload   *)
(* through that has not paid.                                                    *)
LEMMA PaidFrame ==
  ASSUME PaidInv, TypeOK', NEW u \in Call, NEW upload, Becomes(u, upload),
         uploads[u] = NoUpload \/ upload.cid = uploads[u].cid,
         UNCHANGED <<charged, filebase, pinata>>,
         \A d \in Dimension : upload.checks[d].at = "allowed" => Charged(d, u),
         upload.at = "import" => Paid(u),
         upload.mirror = "due" => upload.cid \in filebase
  PROVE  PaidInv'
<1>1. /\ uploads'[u] = upload
      /\ \A v \in Call \ {u} : uploads'[v] = uploads[v]
  BY BecomesTypes DEF PaidInv
<1>2. StoredWasPaid'
  BY StillPaid DEF PaidInv, StoredWasPaid
<1>3. ASSUME NEW v \in Call, uploads'[v] # NoUpload
      PROVE  /\ \A d \in Dimension : uploads'[v].checks[d].at = "allowed" => Charged(d, v)'
             /\ uploads'[v].at = "import" => Paid(v)'
             /\ uploads'[v].mirror = "due" => uploads'[v].cid \in filebase'
  BY <1>1, <1>3 DEF PaidInv, Paid, Charged
<1> QED BY <1>2, <1>3 DEF PaidInv

LEMMA PaidStep ==
  ASSUME LimiterAssumption, PaidInv, [Next]_vars
  PROVE  PaidInv'
<1>t. TypeOK /\ TypeOK'
  BY TypeStep DEF PaidInv
<1>p. ASSUME NEW u \in Call, uploads[u] # NoUpload
      PROVE  /\ \A d \in Dimension : uploads[u].checks[d].at = "allowed" => Charged(d, u)
             /\ uploads[u].at = "import" => Paid(u)
             /\ uploads[u].mirror = "due" => uploads[u].cid \in filebase
  BY <1>p DEF PaidInv
<1>o. ASSUME NEW u \in Call, NEW d \in Dimension
      PROVE  Past(uploads[u].checks)[d].at # "allowed"
  BY DEF Past, Over
<1>1. CASE Tick
  BY <1>t, <1>1 DEF Tick, PaidInv, StoredWasPaid, Paid, Charged, limiter, storage
<1>2. ASSUME NEW u \in Call, Receive(u)
      PROVE  PaidInv'
  <2>1. PICK cid \in Cid, size \in Size, flaw \in Flaw : Becomes(u, Taken(cid, size, flaw))
    BY <1>t, <1>2, Receiving
  <2> DEFINE upload == Taken(cid, size, flaw)
  <2>2. /\ \A d \in Dimension : upload.checks[d].at # "allowed"
        /\ upload.at # "import" /\ upload.mirror # "due"
    BY DEF Taken, Over, NewCheck
  <2>3. uploads[u] = NoUpload /\ UNCHANGED <<charged, filebase, pinata>>
    BY <1>t, <1>2, Receiving
  <2> HIDE DEF upload
  <2> QED BY <1>t, <2>1, <2>2, <2>3, PaidFrame DEF upload
<1>3. ASSUME NEW u \in Call, NEW d \in Dimension, NEW check, check.at # "allowed",
             uploads[u] # NoUpload, Becomes(u, Rechecked(u, d, check)),
             UNCHANGED <<charged, filebase, pinata>>
      PROVE  PaidInv'
  <2> DEFINE upload == Rechecked(u, d, check)
  <2>1. uploads[u].checks \in [Dimension -> Check]
    BY <1>t, <1>3, UploadsTypes DEF Upload
  <2>2. /\ upload.cid = uploads[u].cid /\ upload.at = uploads[u].at
        /\ upload.mirror = uploads[u].mirror
        /\ \A e \in Dimension :
             upload.checks[e] = IF e = d THEN check ELSE uploads[u].checks[e]
    BY <2>1 DEF Rechecked
  <2> HIDE DEF upload
  <2>3. \A e \in Dimension : upload.checks[e].at = "allowed" => Charged(e, u)
    BY <1>3, <1>p, <2>2
  <2> QED BY <1>t, <1>3, <1>p, <2>2, <2>3, PaidFrame DEF upload
<1>4. ASSUME NEW u \in Call, NEW d \in Dimension, ReadBuckets(u, d)
      PROVE  PaidInv'
  <2>1. Ended(u, "denied").at # "allowed" /\ Granted(u, d).at # "allowed"
    BY DEF Ended, Over, Granted
  <2> QED BY <1>t, <1>3, <1>4, <2>1, Reading
<1>5. ASSUME NEW u \in Call, NEW d \in Dimension, StoreFails(u, d)
      PROVE  PaidInv'
  <2>1. Ended(u, "failed").at # "allowed"
    BY DEF Ended, Over
  <2> QED BY <1>t, <1>3, <1>5, <2>1, Failing
<1>6. ASSUME NEW u \in Call, NEW d \in Dimension, WriteBucket(u, d)
      PROVE  PaidInv'
  <2> DEFINE upload == Rechecked(u, d, Ended(u, "allowed"))
             charge == [by |-> u, when |-> now, size |-> uploads[u].size]
  <2>1. /\ uploads[u] # NoUpload /\ Becomes(u, upload)
        /\ charged' = [charged EXCEPT ![d] = charged[d] \cup {charge}]
        /\ UNCHANGED <<filebase, pinata>>
    BY <1>t, <1>6, Writing
  <2>2. \A e \in Dimension : \A v : Charged(e, v) => Charged(e, v)'
    <3> HIDE DEF charge
    <3> QED BY <1>t, <2>1 DEF TypeOK, Charged
  <2>3. Charged(d, u)'
    <3>1. charge \in charged'[d]
      <4> HIDE DEF charge
      <4> QED BY <1>t, <2>1 DEF TypeOK
    <3> QED BY <3>1 DEF Charged
  <2>4. /\ uploads'[u] = upload
        /\ \A v \in Call \ {u} : uploads'[v] = uploads[v]
    BY <1>t, <2>1, BecomesTypes
  <2>5. uploads[u].checks \in [Dimension -> Check]
    BY <1>t, <2>1, UploadsTypes DEF Upload
  <2>6. /\ upload.cid = uploads[u].cid /\ upload.at = uploads[u].at
        /\ upload.mirror = uploads[u].mirror
        /\ \A e \in Dimension \ {d} : upload.checks[e] = uploads[u].checks[e]
    BY <2>5 DEF Rechecked
  <2> HIDE DEF upload, charge
  <2>7. StoredWasPaid'
    <3>1. \A e \in Dimension : charged[e] \subseteq charged'[e]
      BY <1>t, <2>1 DEF TypeOK
    <3>2. pinata' \subseteq filebase'
      BY <2>1 DEF PaidInv, StoredWasPaid
    <3> QED BY <2>1, <2>6, <3>1, <3>2, StillPaid
  <2>8. ASSUME NEW v \in Call, uploads'[v] # NoUpload
        PROVE  /\ \A e \in Dimension : uploads'[v].checks[e].at = "allowed" => Charged(e, v)'
               /\ uploads'[v].at = "import" => Paid(v)'
               /\ uploads'[v].mirror = "due" => uploads'[v].cid \in filebase'
    <3>1. CASE v = u
      BY <1>p, <2>1, <2>2, <2>3, <2>4, <2>6, <3>1 DEF Paid
    <3>2. CASE v # u
      BY <1>p, <2>1, <2>2, <2>4, <2>8, <3>2 DEF Paid
    <3> QED BY <3>1, <3>2
  <2> QED BY <1>t, <2>7, <2>8 DEF PaidInv
<1>7. ASSUME NEW u \in Call, Authorize(u)
      PROVE  PaidInv'
  <2>1. uploads[u] # NoUpload /\ UNCHANGED <<charged, filebase, pinata>>
    BY <1>t, <1>7, Authorizing
  <2>2. ASSUME NEW at, NEW status, NEW tries, at = "import" => Paid(u),
               Becomes(u, Reached(u, at, status, tries, uploads[u].mirror))
        PROVE  PaidInv'
    <3> DEFINE upload == Reached(u, at, status, tries, uploads[u].mirror)
    <3>1. /\ upload.cid = uploads[u].cid /\ upload.at = at
          /\ upload.mirror = uploads[u].mirror
          /\ \A e \in Dimension : upload.checks[e].at # "allowed"
      BY <1>o DEF Reached
    <3> HIDE DEF upload
    <3> QED BY <1>t, <1>p, <2>1, <2>2, <3>1, PaidFrame DEF upload
  <2>3. Outcomes(u) = {"allowed"} => Paid(u)
    BY <1>p, <2>1 DEF Outcomes, Paid
  <2> QED BY <1>t, <1>7, <2>2, <2>3, Authorizing
<1>8. ASSUME NEW u \in Call, ImportSucceeds(u) \/ ImportFails(u)
      PROVE  PaidInv'
  <2>1. /\ uploads[u] # NoUpload /\ uploads[u].at = "import"
        /\ filebase' \in {filebase, filebase \cup {uploads[u].cid}}
        /\ UNCHANGED <<charged, pinata>>
    BY <1>t, <1>8, Storing, FailingImport
  <2>2. Paid(u)
    BY <1>p, <2>1
  <2>3. PICK upload :
          /\ Becomes(u, upload)
          /\ upload.cid = uploads[u].cid
          /\ upload.mirror = "due" => uploads[u].cid \in filebase'
          /\ \A d \in Dimension : upload.checks[d].at = "allowed" => Charged(d, u)
    <3>1. CASE ImportSucceeds(u)
      <4>1. PICK mirror \in {"off", "due"} : Becomes(u, Reached(u, "answered", 200, 0, mirror))
        BY <1>t, <3>1, Storing
      <4>2. filebase' = filebase \cup {uploads[u].cid}
        BY <1>t, <3>1, Storing
      <4> QED BY <1>o, <4>1, <4>2 DEF Reached
    <3>2. CASE ImportFails(u)
      <4>1. CASE Becomes(u, Repeated(u, uploads[u].tries + 1, uploads[u].mirror))
        BY <1>p, <2>1, <4>1 DEF Repeated
      <4>2. CASE Becomes(u, Reached(u, "answered", 502, 0, uploads[u].mirror))
        BY <1>o, <1>p, <2>1, <4>2 DEF Reached
      <4> QED BY <1>t, <3>2, <4>1, <4>2, FailingImport
    <3> QED BY <1>8, <3>1, <3>2
  <2>4. /\ uploads'[u] = upload
        /\ \A v \in Call \ {u} : uploads'[v] = uploads[v]
    BY <1>t, <2>3, BecomesTypes
  <2>5. StoredWasPaid'
    <3>1. pinata' \subseteq filebase'
      BY <2>1 DEF PaidInv, StoredWasPaid
    <3> QED BY <2>1, <2>2, <2>3, <3>1, StillPaid
  <2>6. ASSUME NEW v \in Call, uploads'[v] # NoUpload
        PROVE  /\ \A e \in Dimension : uploads'[v].checks[e].at = "allowed" => Charged(e, v)'
               /\ uploads'[v].at = "import" => Paid(v)'
               /\ uploads'[v].mirror = "due" => uploads'[v].cid \in filebase'
    <3>1. CASE v = u
      BY <2>1, <2>2, <2>3, <2>4, <3>1 DEF Paid, Charged
    <3>2. CASE v # u
      BY <1>p, <2>1, <2>4, <2>6, <3>2 DEF Paid, Charged
    <3> QED BY <3>1, <3>2
  <2> QED BY <1>t, <2>5, <2>6 DEF PaidInv
<1>9. ASSUME NEW u \in Call, Mirror(u)
      PROVE  PaidInv'
  <2> DEFINE upload == Repeated(u, uploads[u].tries, "off")
  <2>1. /\ uploads[u] # NoUpload /\ uploads[u].mirror = "due" /\ Becomes(u, upload)
        /\ pinata' \in {pinata, pinata \cup {uploads[u].cid}}
        /\ UNCHANGED <<charged, filebase>>
    BY <1>t, <1>9, Copying
  <2>2. /\ upload.cid = uploads[u].cid /\ upload.at = uploads[u].at /\ upload.mirror = "off"
        /\ upload.checks = uploads[u].checks
    BY DEF Repeated
  <2> HIDE DEF upload
  <2>3. /\ uploads'[u] = upload
        /\ \A v \in Call \ {u} : uploads'[v] = uploads[v]
    BY <1>t, <2>1, BecomesTypes
  <2>4. StoredWasPaid'
    <3>1. pinata' \subseteq filebase'
      BY <1>p, <2>1 DEF PaidInv, StoredWasPaid
    <3> QED BY <2>1, <2>2, <3>1, StillPaid
  <2>5. ASSUME NEW v \in Call, uploads'[v] # NoUpload
        PROVE  /\ \A e \in Dimension : uploads'[v].checks[e].at = "allowed" => Charged(e, v)'
               /\ uploads'[v].at = "import" => Paid(v)'
               /\ uploads'[v].mirror = "due" => uploads'[v].cid \in filebase'
    <3>1. CASE v = u
      BY <1>p, <2>1, <2>2, <2>3, <3>1 DEF Paid, Charged
    <3>2. CASE v # u
      BY <1>p, <2>1, <2>3, <2>5, <3>2 DEF Paid, Charged
    <3> QED BY <3>1, <3>2
  <2> QED BY <1>t, <2>4, <2>5 DEF PaidInv
<1>10. CASE UNCHANGED vars
  BY <1>t, <1>10 DEF vars, PaidInv, StoredWasPaid, Paid, Charged
<1> QED BY <1>1, <1>2, <1>4, <1>5, <1>6, <1>7, <1>8, <1>9, <1>10 DEF Next, Work

(* Nothing is stored that was not paid for: content reaches Filebase, and Pinata *)
(* after it, only with an upload charged to both budgets, whatever failed.       *)
THEOREM StoredContentWasPaidFor == Spec => []StoredWasPaid
<1>1. Init => PaidInv
  <2>1. Init => TypeOK
    BY TypeInit, LimiterAssumption
  <2> QED BY <2>1 DEF Init, PaidInv, StoredWasPaid
<1>2. PaidInv /\ [Next]_vars => PaidInv'
  BY PaidStep, LimiterAssumption
<1>3. PaidInv => StoredWasPaid
  BY DEF PaidInv
<1> QED BY <1>1, <1>2, <1>3, PTL DEF Spec

-------------------------------------------------------------------------------
(* The service the dapp counts on                                                *)

Asked   == [u \in Call |-> uploads[u].cid]
Answers == [u \in Call |-> IF uploads[u] = NoUpload \/ uploads[u].at # "answered" THEN "none"
                           ELSE IF uploads[u].status = 200 THEN "ok" ELSE "refused"]
AnswerOf(upload) == IF upload = NoUpload \/ upload.at # "answered" THEN "none"
                    ELSE IF upload.status = 200 THEN "ok" ELSE "refused"

(* What the service sees of a step that works on one upload.                     *)
LEMMA ServiceSees ==
  ASSUME TypeOK, NEW u \in Call, NEW upload, Becomes(u, upload)
  PROVE  /\ Asked' = [Asked EXCEPT ![u] = upload.cid]
         /\ Answers' = [Answers EXCEPT ![u] = AnswerOf(upload)]
<1>1. /\ uploads'[u] = upload
      /\ \A v \in Call \ {u} : uploads'[v] = uploads[v]
  BY BecomesTypes
<1>2. Asked' = [Asked EXCEPT ![u] = upload.cid]
  BY <1>1 DEF Asked
<1>3. Answers' = [Answers EXCEPT ![u] = AnswerOf(upload)]
  <2>1. Answers = [v \in Call |-> AnswerOf(uploads[v])]
    BY DEF Answers, AnswerOf
  <2>2. Answers' = [v \in Call |-> AnswerOf(uploads'[v])]
    BY DEF Answers, AnswerOf
  <2> QED BY <1>1, <2>1, <2>2
<1> QED BY <1>2, <1>3

(* A step of an upload that neither ends it nor stores anything is none of the   *)
(* service.                                                                      *)
LEMMA ServiceIdle ==
  ASSUME TypeOK, NEW u \in Call, NEW upload, Becomes(u, upload), uploads[u] # NoUpload,
         upload.cid = uploads[u].cid, AnswerOf(upload) = AnswerOf(uploads[u])
  PROVE  UNCHANGED <<Asked, Answers>>
<1>1. Asked[u] = uploads[u].cid /\ Answers[u] = AnswerOf(uploads[u])
  BY DEF Asked, Answers, AnswerOf
<1>2. Asked = [v \in Call |-> Asked[v]] /\ Answers = [v \in Call |-> Answers[v]]
  BY DEF Asked, Answers
<1> QED BY <1>1, <1>2, ServiceSees

LEMMA ServiceStep ==
  ASSUME LimiterAssumption, TypeOK, [Next]_vars
  PROVE  [Service!ServiceNext]_(Service!service)
<1>a. /\ Asked = [u \in Call |-> uploads[u].cid]
      /\ Answers = [u \in Call |-> IF uploads[u] = NoUpload \/ uploads[u].at # "answered"
                                     THEN "none"
                                   ELSE IF uploads[u].status = 200 THEN "ok" ELSE "refused"]
  BY DEF Asked, Answers
<1>s. UNCHANGED <<filebase, Asked, Answers>> => [Service!ServiceNext]_(Service!service)
  BY DEF Service!service, Asked, Answers
<1>1. CASE Tick
  BY <1>1, <1>s DEF Tick, storage, Asked, Answers
<1>2. ASSUME NEW u \in Call, Receive(u)
      PROVE  Service!ServiceNext
  <2>1. PICK cid \in Cid, size \in Size, flaw \in Flaw : Becomes(u, Taken(cid, size, flaw))
    BY <1>2, Receiving
  <2>2. uploads[u] = NoUpload /\ UNCHANGED filebase
    BY <1>2, Receiving
  <2>3. /\ Asked[u] = NoUpload.cid
        /\ Answers = [v \in Call |-> Answers[v]] /\ Answers[u] = "none"
    BY <2>2 DEF Asked, Answers
  <2>4. Taken(cid, size, flaw) # NoUpload
    BY <2>1, UploadIsThere DEF Becomes
  <2>5. Asked' = [Asked EXCEPT ![u] = cid]
    BY <2>1, ServiceSees DEF Taken
  <2>6. CASE flaw \in Early
    <3>1. AnswerOf(Taken(cid, size, flaw)) = "refused"
      <4>1. Status(flaw) # 200
        BY <2>6, StatusTypes DEF Early
      <4> QED BY <2>4, <2>6, <4>1 DEF AnswerOf, Taken
    <3>2. Answers' = [Answers EXCEPT ![u] = "refused"]
      BY <2>1, <3>1, ServiceSees
    <3>3. Service!AskRefused(u, cid)
      BY <2>2, <2>3, <2>5, <3>2 DEF Service!AskRefused, Asked, Answers
    <3> QED BY <3>3 DEF Service!ServiceNext
  <2>7. CASE flaw \notin Early
    <3>1. AnswerOf(Taken(cid, size, flaw)) = "none"
      BY <2>7 DEF AnswerOf, Taken
    <3>2. Answers' = Answers
      BY <2>1, <2>3, <3>1, ServiceSees
    <3>3. Service!Ask(u, cid)
      BY <2>2, <2>3, <2>5, <3>2 DEF Service!Ask, Asked, Answers
    <3> QED BY <3>3 DEF Service!ServiceNext
  <2> QED BY <2>6, <2>7
<1>3. ASSUME NEW u \in Call, NEW upload, Becomes(u, upload), uploads[u] # NoUpload,
             upload.cid = uploads[u].cid, upload.at = uploads[u].at,
             upload.status = uploads[u].status
      PROVE  UNCHANGED <<Asked, Answers>>
  BY <1>3, UploadIsThere, ServiceIdle DEF AnswerOf, Becomes
<1>4. ASSUME NEW u \in Call, NEW d \in Dimension,
             ReadBuckets(u, d) \/ WriteBucket(u, d) \/ StoreFails(u, d)
      PROVE  [Service!ServiceNext]_(Service!service)
  <2>1. PICK check : Becomes(u, Rechecked(u, d, check))
    BY <1>4, Reading, Writing, Failing
  <2>2. uploads[u] # NoUpload /\ UNCHANGED filebase
    BY <1>4, Reading, Writing, Failing
  <2> QED BY <1>3, <1>s, <2>1, <2>2 DEF Rechecked
<1>5. ASSUME NEW u \in Call, NEW upload, Becomes(u, upload), uploads[u] # NoUpload,
             upload.cid = uploads[u].cid, uploads[u].at # "answered",
             upload.at = "answered"
      PROVE  /\ Asked[u] # NoUpload.cid /\ Answers[u] = "none" /\ Asked' = Asked
             /\ Asked[u] = uploads[u].cid
             /\ Answers' = [Answers EXCEPT ![u] = IF upload.status = 200 THEN "ok" ELSE "refused"]
  <2>1. uploads[u].cid \in Cid
    BY <1>5, UploadsTypes DEF Upload
  <2>2. upload # NoUpload
    BY <1>5, UploadIsThere DEF Becomes
  <2>3. AnswerOf(upload) = IF upload.status = 200 THEN "ok" ELSE "refused"
    BY <1>5, <2>2 DEF AnswerOf
  <2>4. Asked[u] = uploads[u].cid /\ Asked = [v \in Call |-> Asked[v]] /\ Answers[u] = "none"
    BY <1>5 DEF Asked, Answers
  <2> QED BY <1>5, <2>1, <2>3, <2>4, ContentAssumption, ServiceSees
<1>6. ASSUME NEW u \in Call, Authorize(u)
      PROVE  [Service!ServiceNext]_(Service!service)
  <2>1. uploads[u] # NoUpload /\ uploads[u].at = "budget" /\ UNCHANGED filebase
    BY <1>6, Authorizing
  <2>2. ASSUME NEW status \in {400, 429, 503},
               Becomes(u, Reached(u, "answered", status, 0, uploads[u].mirror))
        PROVE  Service!ServiceNext
    <3> DEFINE upload == Reached(u, "answered", status, 0, uploads[u].mirror)
    <3>1. upload.cid = uploads[u].cid /\ upload.at = "answered" /\ upload.status = status
      BY DEF Reached
    <3> HIDE DEF upload
    <3>2. /\ Asked[u] # NoUpload.cid /\ Answers[u] = "none" /\ Asked' = Asked
          /\ Answers' = [Answers EXCEPT ![u] = "refused"]
      BY <1>5, <2>1, <2>2, <3>1 DEF upload
    <3>3. Service!Refuse(u)
      BY <2>1, <3>2 DEF Service!Refuse, Service!Open, Asked, Answers
    <3> QED BY <3>3 DEF Service!ServiceNext
  <2>3. ASSUME NEW status, NEW tries,
               Becomes(u, Reached(u, "import", status, tries, uploads[u].mirror))
        PROVE  UNCHANGED <<Asked, Answers>>
    <3> DEFINE upload == Reached(u, "import", status, tries, uploads[u].mirror)
    <3>1. upload.cid = uploads[u].cid /\ upload.at = "import"
      BY DEF Reached
    <3> HIDE DEF upload
    <3>2. AnswerOf(upload) = AnswerOf(uploads[u])
      BY <2>1, <3>1 DEF AnswerOf
    <3> QED BY <2>1, <2>3, <3>1, <3>2, ServiceIdle DEF upload
  <2> QED BY <1>6, <1>s, <2>1, <2>2, <2>3, Authorizing
<1>7. ASSUME NEW u \in Call, ImportSucceeds(u)
      PROVE  Service!ServiceNext
  <2>1. /\ uploads[u] # NoUpload /\ uploads[u].at = "import"
        /\ filebase' = filebase \cup {uploads[u].cid}
    BY <1>7, Storing
  <2>2. PICK mirror \in {"off", "due"} : Becomes(u, Reached(u, "answered", 200, 0, mirror))
    BY <1>7, Storing
  <2> DEFINE upload == Reached(u, "answered", 200, 0, mirror)
  <2>3. upload.cid = uploads[u].cid /\ upload.at = "answered" /\ upload.status = 200
    BY DEF Reached
  <2> HIDE DEF upload
  <2>4. /\ Asked[u] # NoUpload.cid /\ Answers[u] = "none" /\ Asked' = Asked
        /\ Asked[u] = uploads[u].cid /\ Answers' = [Answers EXCEPT ![u] = "ok"]
    BY <1>5, <2>1, <2>2, <2>3 DEF upload
  <2>5. Service!Accept(u)
    BY <2>1, <2>4 DEF Service!Accept, Service!Open, Asked, Answers
  <2> QED BY <2>5 DEF Service!ServiceNext
<1>8. ASSUME NEW u \in Call, ImportFails(u)
      PROVE  [Service!ServiceNext]_(Service!service)
  <2>1. /\ uploads[u] # NoUpload /\ uploads[u].at = "import"
        /\ filebase' \in {filebase, filebase \cup {uploads[u].cid}}
    BY <1>8, FailingImport
  <2>2. CASE Becomes(u, Repeated(u, uploads[u].tries + 1, uploads[u].mirror))
    <3>1. UNCHANGED <<Asked, Answers>>
      BY <1>3, <2>1, <2>2 DEF Repeated
    <3>2. /\ Asked[u] = uploads[u].cid /\ Answers[u] = "none" /\ Asked[u] # NoUpload.cid
      <4>1. uploads[u].cid \in Cid
        BY <2>1, UploadsTypes DEF Upload
      <4> QED BY <2>1, <4>1, ContentAssumption DEF Asked, Answers
    <3>3. CASE filebase' = filebase
      BY <1>s, <3>1, <3>3
    <3>4. CASE filebase' = filebase \cup {uploads[u].cid}
      <4>1. Service!Keep(u)
        BY <3>1, <3>2, <3>4 DEF Service!Keep, Service!Open, Asked, Answers
      <4> QED BY <4>1 DEF Service!ServiceNext
    <3> QED BY <2>1, <3>3, <3>4
  <2>3. CASE Becomes(u, Reached(u, "answered", 502, 0, uploads[u].mirror))
    <3> DEFINE upload == Reached(u, "answered", 502, 0, uploads[u].mirror)
    <3>1. upload.cid = uploads[u].cid /\ upload.at = "answered" /\ upload.status = 502
      BY DEF Reached
    <3> HIDE DEF upload
    <3>2. /\ Asked[u] # NoUpload.cid /\ Answers[u] = "none" /\ Asked' = Asked
          /\ Asked[u] = uploads[u].cid /\ Answers' = [Answers EXCEPT ![u] = "refused"]
      BY <1>5, <2>1, <2>3, <3>1 DEF upload
    <3>3. Service!Refuse(u)
      BY <2>1, <3>2 DEF Service!Refuse, Service!Open, Asked, Answers
    <3> QED BY <3>3 DEF Service!ServiceNext
  <2> QED BY <1>8, <2>2, <2>3, FailingImport
<1>9. ASSUME NEW u \in Call, Mirror(u)
      PROVE  [Service!ServiceNext]_(Service!service)
  <2>1. /\ uploads[u] # NoUpload /\ Becomes(u, Repeated(u, uploads[u].tries, "off"))
        /\ UNCHANGED filebase
    BY <1>9, Copying
  <2> QED BY <1>3, <1>s, <2>1 DEF Repeated
<1>10. CASE UNCHANGED vars
  BY <1>10, <1>s DEF vars, Asked, Answers
<1> QED BY <1>1, <1>2, <1>4, <1>6, <1>7, <1>8, <1>9, <1>10 DEF Next, Work

(* The worker is the service the dapp counts on: an upload is answered at most   *)
(* once, with success only after its content was imported, and what was imported *)
(* stays, whatever the store and Filebase do.                                    *)
THEOREM WorkerImplementsService == Spec => ImplementsService
<1>1. Init => Service!ServiceInit
  BY DEF Init, Service!ServiceInit
<1>2. TypeOK /\ [Next]_vars => [Service!ServiceNext]_(Service!service)
  BY ServiceStep, LimiterAssumption
<1> QED BY <1>1, <1>2, TypeCorrect, PTL DEF Spec, ImplementsService, Service!ServiceSpec

-------------------------------------------------------------------------------
(* Two budgets                                                                   *)

InBucket(d, b)  == {c \in charged[d] : c.when \div Window = b}
UpTo(d, b, t)   == {c \in InBucket(d, b) : c.when <= t}
Current(check)  == check.bucket = BucketId /\ check.elapsed = Elapsed

(* While no charge overlapped another, a check that let an upload through at     *)
(* this tick saw what is in the store.                                           *)
SawStore(d, check) ==
  check.at = "fits" /\ Current(check) =>
    /\ check.previous.requests = Cardinality(InBucket(d, check.bucket - 1))
    /\ Estimate(check.previous.requests, check.current.requests + 1, check.elapsed)
         <= MaxRequests[d] * Window

(* A bucket counts the charges made in it and lives until the one after the next *)
(* begins.                                                                       *)
BucketsCount(d) ==
  \A b \in Buckets :
    /\ kv[d][b].requests = Cardinality(InBucket(d, b))
    /\ kv[d][b].requests # 0 => kv[d][b].expires >= (b + 2) * Window

(* At every tick the estimate that counts the charges up to it is within the     *)
(* budget.                                                                       *)
AlwaysFits(d) ==
  \A b, k \in Nat : k < Window =>
    Estimate(Cardinality(InBucket(d, b - 1)), Cardinality(UpTo(d, b, b * Window + k)), k)
      <= MaxRequests[d] * Window

(* What a check under way knows: the tick it began at is not to come, and its    *)
(* upload is not charged yet.                                                    *)
CheckInv(u, d, check) ==
  /\ check.at \in {"asked", "fits"} =>
       ~Charged(d, u) /\ check.bucket * Window + check.elapsed <= now
  /\ ~raced[d] => SawStore(d, check)

ChargesInv(d) ==
  /\ IsFiniteSet(charged[d])
  /\ \A c \in charged[d] : c.when <= now /\ uploads[c.by] # NoUpload
  /\ ~raced[d] => BucketsCount(d) /\ AlwaysFits(d)

SpanInv ==
  /\ TypeOK
  /\ \A u \in Call : uploads[u] # NoUpload =>
       \A d \in Dimension : CheckInv(u, d, uploads[u].checks[d])
  /\ \A d \in Dimension : ChargesInv(d)

(* A span that begins with a bucket costs one budget.                            *)
LEMMA WholeBucket ==
  ASSUME NEW w \in Nat, w >= 2, NEW m \in Nat, NEW p \in Nat, NEW n \in Nat,
         p * (w - (w - 1)) + n * w <= m * w
  PROVE  n * w <= m * w /\ n * w <= m * (2 * w - 2)
<1>1. n * w <= m * w
  BY SMT
<1>2. m * w <= m * (2 * w - 2)
  <2>1. w <= 2 * w - 2 /\ 2 * w - 2 \in Nat
    OBVIOUS
  <2> QED BY <2>1, Times
<1>3. n * w \in Nat /\ m * w \in Nat /\ m * (2 * w - 2) \in Nat
  BY SMT
<1> QED BY <1>1, <1>2, <1>3

(* One that ends k ticks into the next bucket costs what that bucket's estimate  *)
(* forgets of the one before, on top.                                            *)
LEMMA TwoBuckets ==
  ASSUME NEW w \in Nat, w >= 2, NEW m \in Nat, NEW p \in Nat, NEW n \in Nat, NEW k \in 1 .. (w - 1),
         p * w <= m * w, p * (w - (k - 1)) + n * w <= m * w
  PROVE  (p + n) * w <= m * (2 * w - 2)
<1>1. p <= m
  <2> SUFFICES ASSUME m + 1 <= p
               PROVE  FALSE
    OBVIOUS
  <2>1. (m + 1) * w <= p * w
    BY Times
  <2>2. (m + 1) * w = m * w + w
    BY SMT
  <2>3. m * w \in Nat /\ p * w \in Nat
    BY SMT
  <2> QED BY <2>1, <2>2, <2>3
<1>2. (p + n) * w = p * (w - (k - 1)) + n * w + p * (k - 1)
  BY SMT
<1>3. p * (k - 1) <= m * (k - 1)
  BY <1>1, Times
<1>4. m * (k - 1) <= m * (w - 2)
  <2>1. k - 1 <= w - 2 /\ k - 1 \in Nat /\ w - 2 \in Nat
    OBVIOUS
  <2> QED BY <2>1, Times
<1>5. m * w + m * (w - 2) = m * (2 * w - 2)
  BY SMT
<1>6. /\ p * (w - (k - 1)) + n * w \in Int /\ p * (k - 1) \in Int
      /\ m * (k - 1) \in Int /\ m * w \in Int /\ m * (w - 2) \in Int
  BY SMT
<1> QED BY <1>2, <1>3, <1>4, <1>5, <1>6

(* The charges of a bucket, and those of them made by a tick, are finitely many. *)
LEMMA Counts ==
  ASSUME SpanInv, NEW d \in Dimension, NEW b, NEW t
  PROVE  /\ IsFiniteSet(InBucket(d, b)) /\ Cardinality(InBucket(d, b)) \in Nat
         /\ IsFiniteSet(UpTo(d, b, t)) /\ Cardinality(UpTo(d, b, t)) \in Nat
<1>1. IsFiniteSet(charged[d])
  BY DEF SpanInv, ChargesInv
<1>2. IsFiniteSet(InBucket(d, b))
  BY <1>1, FS_Subset DEF InBucket
<1>3. IsFiniteSet(UpTo(d, b, t))
  BY <1>2, FS_Subset DEF UpTo
<1> QED BY <1>2, <1>3, FS_CardinalityType

LEMMA SpanFromInv ==
  ASSUME LimiterAssumption, SpanInv
  PROVE  SpanBounded
<1> SUFFICES ASSUME NEW d \in Dimension, ~raced[d], NEW from \in 0 .. MaxTime
             PROVE  Cardinality(InSpan(d, from)) * Window <= MaxRequests[d] * (2 * Window - 2)
  BY DEF SpanBounded
<1> DEFINE w == Window
           m == MaxRequests[d]
           b == from \div w
           k == from % w
<1>1. w \in Nat \ {0} /\ w >= 2 /\ m \in Nat /\ from \in Nat
  BY DEF LimiterAssumption
<1>2. b \in Nat /\ k \in 0 .. (w - 1) /\ from = b * w + k /\ b * w \in Nat
  <2>1. b \in Nat /\ k \in 0 .. (w - 1) /\ from = b * w + k
    BY <1>1, DivMod
  <2> HIDE DEF b
  <2> QED BY <1>1, <2>1, SMT
<1>3. \A c \in charged[d] : c.when \in Nat
  BY DEF SpanInv, TypeOK
<1>4. \A e, l \in Nat : l < w =>
        Cardinality(InBucket(d, e - 1)) * (w - l) + Cardinality(UpTo(d, e, e * w + l)) * w <= m * w
  BY DEF SpanInv, ChargesInv, AlwaysFits, Estimate
<1> HIDE DEF w, m, b, k
<1>5. \A c \in InSpan(d, from) : c \in charged[d] /\ from <= c.when /\ c.when <= from + w - 1
  BY <1>1, <1>3 DEF InSpan, w
<1>6. CASE k = 0
  <2>1. InSpan(d, from) \subseteq UpTo(d, b, b * w + (w - 1))
    <3> SUFFICES ASSUME NEW c \in InSpan(d, from)
                 PROVE  c \in UpTo(d, b, b * w + (w - 1))
      OBVIOUS
    <3> DEFINE l == c.when - b * w
    <3>1. c.when \in Nat /\ l \in Nat /\ l < w /\ c.when = b * w + l /\ c.when <= b * w + (w - 1)
      BY <1>1, <1>2, <1>3, <1>5, <1>6
    <3> HIDE DEF l
    <3>2. c.when \div w = b
      BY <1>1, <1>2, <3>1, Place
    <3> QED BY <1>5, <3>1, <3>2 DEF UpTo, InBucket, w
  <2> DEFINE n == Cardinality(InSpan(d, from))
             p == Cardinality(InBucket(d, b - 1))
             q == Cardinality(UpTo(d, b, b * w + (w - 1)))
  <2>2. p \in Nat /\ q \in Nat /\ n \in Nat /\ n <= q
    BY <2>1, Counts, FS_Subset, FS_CardinalityType
  <2>3. p * (w - (w - 1)) + q * w <= m * w
    BY <1>1, <1>2, <1>4
  <2> HIDE DEF n, p, q
  <2>4. q * w <= m * (2 * w - 2)
    BY <1>1, <2>2, <2>3, WholeBucket
  <2>5. n * w <= q * w /\ n * w \in Nat
    BY <1>1, <2>2, Times
  <2>6. q * w \in Int /\ m * (2 * w - 2) \in Int
    BY <1>1, <2>2, SMT
  <2> QED BY <2>4, <2>5, <2>6 DEF n, m, w
<1>7. CASE k # 0
  <2> DEFINE first == UpTo(d, b, b * w + (w - 1))
             last  == UpTo(d, b + 1, (b + 1) * w + (k - 1))
  <2>1. InSpan(d, from) \subseteq InBucket(d, b) \cup last
    <3> SUFFICES ASSUME NEW c \in InSpan(d, from)
                 PROVE  c \in InBucket(d, b) \cup last
      OBVIOUS
    <3>1. (b + 1) * w = b * w + w
      BY <1>1, <1>2, SMT
    <3>2. CASE c.when < b * w + w
      <4> DEFINE l == c.when - b * w
      <4>1. l \in Nat /\ l < w /\ c.when = b * w + l
        BY <1>1, <1>2, <1>3, <1>5, <3>2
      <4> HIDE DEF l
      <4>2. c.when \div w = b
        BY <1>1, <1>2, <4>1, Place
      <4> QED BY <1>5, <4>2 DEF InBucket, w
    <3>3. CASE ~(c.when < b * w + w)
      <4> DEFINE l == c.when - (b * w + w)
      <4>1. l \in Nat /\ l < w /\ c.when = (b + 1) * w + l /\ c.when <= (b + 1) * w + (k - 1)
        BY <1>1, <1>2, <1>3, <1>5, <3>1, <3>3
      <4> HIDE DEF l
      <4>2. c.when \div w = b + 1
        <5>1. b + 1 \in Nat
          BY <1>2
        <5> QED BY <1>1, <4>1, <5>1, Place
      <4> QED BY <1>5, <4>1, <4>2 DEF UpTo, InBucket, w
    <3> QED BY <3>2, <3>3
  <2>2. InBucket(d, b) = first
    <3> SUFFICES ASSUME NEW c \in InBucket(d, b)
                 PROVE  c.when <= b * w + (w - 1)
      BY DEF UpTo
    <3>1. c.when \in Nat /\ c.when \div w = b
      BY <1>3 DEF InBucket, w
    <3>2. /\ c.when % w \in 0 .. (w - 1)
          /\ c.when = (c.when \div w) * w + (c.when % w)
      BY <1>1, <3>1, DivMod
    <3>3. c.when = b * w + (c.when % w)
      BY <3>1, <3>2
    <3> QED BY <1>1, <1>2, <3>2, <3>3
  <2> DEFINE n == Cardinality(InSpan(d, from))
             o == Cardinality(InBucket(d, b - 1))
             p == Cardinality(InBucket(d, b))
             q == Cardinality(last)
  <2>3. o \in Nat /\ p \in Nat /\ q \in Nat /\ n \in Nat /\ n <= p + q
    <3>1. IsFiniteSet(InBucket(d, b)) /\ IsFiniteSet(last) /\ o \in Nat /\ p \in Nat /\ q \in Nat
      BY Counts
    <3>2. /\ IsFiniteSet(InBucket(d, b) \cup last)
          /\ Cardinality(InBucket(d, b) \cup last)
              = p + q - Cardinality(InBucket(d, b) \cap last)
      BY <3>1, FS_Union
    <3>3. IsFiniteSet(InBucket(d, b) \cap last)
      BY <3>1, FS_Subset
    <3>4. Cardinality(InBucket(d, b) \cap last) \in Nat
      BY <3>3, FS_CardinalityType
    <3>5. n <= Cardinality(InBucket(d, b) \cup last) /\ n \in Nat
      BY <2>1, <3>2, FS_Subset, FS_CardinalityType
    <3> HIDE DEF n, p, q
    <3> QED BY <3>1, <3>2, <3>4, <3>5
  <2>4. o * (w - (w - 1)) + p * w <= m * w
    <3>1. w - 1 \in Nat /\ w - 1 < w
      BY <1>1
    <3>2. o * (w - (w - 1)) + Cardinality(first) * w <= m * w
      BY <1>2, <1>4, <3>1
    <3> QED BY <2>2, <3>2
  <2>5. p * (w - (k - 1)) + q * w <= m * w
    <3>1. b + 1 \in Nat /\ k - 1 \in Nat /\ k - 1 < w /\ (b + 1) - 1 = b
      BY <1>1, <1>2, <1>7
    <3>2. Cardinality(InBucket(d, (b + 1) - 1)) * (w - (k - 1)) + q * w <= m * w
      BY <1>4, <3>1
    <3> QED BY <3>1, <3>2
  <2> HIDE DEF n, o, p, q
  <2>6. p * w <= m * w
    BY <1>1, <2>3, <2>4, WholeBucket
  <2>7. (p + q) * w <= m * (2 * w - 2)
    <3>1. k \in 1 .. (w - 1)
      BY <1>1, <1>2, <1>7
    <3> QED BY <1>1, <2>3, <2>5, <2>6, <3>1, TwoBuckets
  <2>8. n * w <= (p + q) * w /\ n * w \in Nat
    BY <1>1, <2>3, Times
  <2>9. (p + q) * w \in Int /\ m * (2 * w - 2) \in Int
    BY <1>1, <2>3, SMT
  <2> QED BY <2>7, <2>8, <2>9 DEF n, m, w
<1> QED BY <1>6, <1>7

LEMMA ClockPlace ==
  ASSUME LimiterAssumption, TypeOK
  PROVE  /\ BucketId \in Buckets /\ BucketId \in Nat /\ Elapsed \in 0 .. (Window - 1)
         /\ now = BucketId * Window + Elapsed
<1>1. Window \in Nat \ {0} /\ now \in Nat /\ MaxTime \in Nat /\ now <= MaxTime
  BY DEF LimiterAssumption, TypeOK
<1>2. /\ BucketId \in Nat /\ Elapsed \in 0 .. (Window - 1)
      /\ now = BucketId * Window + Elapsed
  BY <1>1, DivMod DEF BucketId, Elapsed
<1>3. /\ MaxTime \div Window \in Nat /\ MaxTime % Window \in 0 .. (Window - 1)
      /\ MaxTime = (MaxTime \div Window) * Window + (MaxTime % Window)
  BY <1>1, DivMod
<1> DEFINE last == MaxTime \div Window
           rest == MaxTime % Window
           w    == Window
<1>4. BucketId <= last
  <2> HIDE DEF last, rest, w
  <2>1. /\ w \in Nat \ {0} /\ last \in Nat /\ rest \in Nat /\ rest < w
        /\ Elapsed \in Nat /\ Elapsed < w
    BY <1>1, <1>2, <1>3 DEF last, rest, w
  <2>2. BucketId * w + Elapsed <= last * w + rest
    BY <1>1, <1>2, <1>3 DEF last, rest, w
  <2> QED BY <1>2, <2>1, <2>2, LaterBucket
<1> QED BY <1>2, <1>3, <1>4 DEF Buckets

(* A step of one upload that charges nothing and lets the clock alone.           *)
LEMMA SpanFrame ==
  ASSUME SpanInv, TypeOK', NEW u \in Call, NEW upload, Becomes(u, upload),
         UNCHANGED <<now, kv, charged, raced>>,
         \A d \in Dimension : CheckInv(u, d, upload.checks[d])
  PROVE  SpanInv'
<1>1. /\ uploads'[u] = upload
      /\ \A v \in Call \ {u} : uploads'[v] = uploads[v]
  BY BecomesTypes DEF SpanInv
<1>2. /\ \A d \in Dimension : charged'[d] = charged[d] /\ raced'[d] = raced[d]
      /\ \A d \in Dimension : BucketsCount(d) => BucketsCount(d)'
      /\ \A d \in Dimension : AlwaysFits(d) => AlwaysFits(d)'
  BY DEF BucketsCount, AlwaysFits, InBucket, UpTo
<1>3. upload # NoUpload
  BY UploadIsThere DEF Becomes
<1>4. ASSUME NEW d \in Dimension
      PROVE  ChargesInv(d)'
  <2>1. ChargesInv(d)
    BY DEF SpanInv
  <2>2. \A c \in charged[d] : uploads'[c.by] # NoUpload
    <3>1. \A c \in charged[d] : c.by \in Call /\ uploads[c.by] # NoUpload
      BY <2>1 DEF ChargesInv, SpanInv, TypeOK
    <3> QED BY <1>1, <1>3, <3>1
  <2> QED BY <1>2, <2>1, <2>2 DEF ChargesInv
<1>5. ASSUME NEW v \in Call, uploads'[v] # NoUpload, NEW d \in Dimension
      PROVE  CheckInv(v, d, uploads[v].checks[d])' 
  <2>1. CheckInv(v, d, uploads'[v].checks[d])
    BY <1>1, <1>5 DEF SpanInv
  <2> QED BY <1>2, <2>1 DEF CheckInv, SawStore, Charged, InBucket, Current, BucketId, Elapsed
<1> QED BY <1>4, <1>5 DEF SpanInv

(* The bucket before the current one, and the current one, as the store returns  *)
(* them, count what was charged in them: neither has expired.                    *)
LEMMA ReadsCount ==
  ASSUME LimiterAssumption, SpanInv, NEW d \in Dimension, ~raced[d],
         NEW b \in Buckets, b = BucketId \/ b + 1 = BucketId
  PROVE  ReadBucket(d, b).requests = Cardinality(InBucket(d, b))
<1>1. /\ kv[d][b].requests = Cardinality(InBucket(d, b))
      /\ kv[d][b].requests # 0 => kv[d][b].expires >= (b + 2) * Window
  BY DEF SpanInv, ChargesInv, BucketsCount
<1>2. now < (b + 2) * Window
  <2>1. /\ BucketId \in Nat /\ Elapsed \in 0 .. (Window - 1) /\ Window \in Nat \ {0}
        /\ now = BucketId * Window + Elapsed /\ b \in Nat
    BY ClockPlace DEF SpanInv, LimiterAssumption, Buckets
  <2>2. (BucketId + 1) * Window <= (b + 2) * Window /\ (BucketId + 1) * Window \in Nat
    BY <2>1, Times
  <2>3. (BucketId + 1) * Window = BucketId * Window + Window
    BY <2>1, SMT
  <2>4. BucketId * Window \in Nat /\ (b + 2) * Window \in Nat
    BY <2>1, SMT
  <2> QED BY <2>1, <2>2, <2>3, <2>4
<1>3. /\ now \in Nat /\ kv[d][b].expires \in Nat /\ (b + 2) * Window \in Int
  <2>1. b \in Nat /\ Window \in Nat
    BY DEF Buckets, LimiterAssumption
  <2>2. (b + 2) * Window \in Int
    BY <2>1, SMT
  <2> QED BY <2>2 DEF SpanInv, TypeOK, Bucket
<1>4. CASE now < kv[d][b].expires
  BY <1>1, <1>4 DEF ReadBucket
<1>5. CASE ~(now < kv[d][b].expires)
  <2>1. kv[d][b].requests = 0
    BY <1>1, <1>2, <1>3, <1>5
  <2> QED BY <1>1, <1>5, <2>1 DEF ReadBucket, NoBucket
<1> QED BY <1>4, <1>5

LEMMA NoBucketBefore ==
  ASSUME LimiterAssumption, TypeOK, NEW d \in Dimension, NEW b \in Int, b < 0
  PROVE  Cardinality(InBucket(d, b)) = 0
<1>1. \A c \in charged[d] : c.when \div Window \in Nat
  <2>1. \A c \in charged[d] : c.when \in Nat
    BY DEF TypeOK
  <2> QED BY <2>1, DivMod DEF LimiterAssumption
<1>2. InBucket(d, b) = {}
  BY <1>1 DEF InBucket
<1> QED BY <1>2, FS_EmptySet

LEMMA GrantedSaw ==
  ASSUME LimiterAssumption, SpanInv, NEW u \in Call, uploads[u] # NoUpload,
         NEW d \in Dimension, uploads[u].checks[d].at = "asked",
         Fits(d, Granted(u, d), uploads[u].size)
  PROVE  CheckInv(u, d, Granted(u, d))
<1> DEFINE check == uploads[u].checks[d]
<1>1. CheckInv(u, d, check)
  BY DEF SpanInv
<1>2. check.bucket \in Nat
  BY UploadsTypes DEF SpanInv, Upload, Check
<1>3. ASSUME ~raced[d], Current(Granted(u, d))
      PROVE  Granted(u, d).previous.requests = Cardinality(InBucket(d, check.bucket - 1))
  <2>1. BucketId \in Buckets /\ BucketId \in Nat
    BY ClockPlace DEF SpanInv
  <2>2. check.bucket = BucketId
    BY <1>3 DEF Current, Granted
  <2>3. CASE check.bucket = 0
    <3>1. Cardinality(InBucket(d, check.bucket - 1)) = 0
      BY <2>3, NoBucketBefore DEF SpanInv
    <3> QED BY <2>3, <3>1 DEF Granted, NoBucket
  <2>4. CASE check.bucket # 0
    <3>1. check.bucket - 1 \in Buckets /\ (check.bucket - 1) + 1 = BucketId
      BY <1>2, <2>1, <2>2, <2>4 DEF Buckets
    <3>2. ReadBucket(d, check.bucket - 1).requests = Cardinality(InBucket(d, check.bucket - 1))
      BY <1>3, <3>1, ReadsCount
    <3> QED BY <2>4, <3>2 DEF Granted
  <2> QED BY <2>3, <2>4
<1>4. ~raced[d] => SawStore(d, Granted(u, d))
  BY <1>3 DEF SawStore, Fits, Granted
<1> QED BY <1>1, <1>4 DEF CheckInv, Granted

(* A check that is over knows nothing, and one that an upload leaves behind when *)
(* it moves on is over or still what it was.                                     *)
LEMMA OverKnows ==
  ASSUME NEW u, NEW d, NEW outcome \in {"allowed", "denied", "failed", "over"}
  PROVE  CheckInv(u, d, Over(outcome))
  BY DEF CheckInv, SawStore, Over

LEMMA EndedKnows ==
  ASSUME NEW u, NEW d, NEW v, NEW outcome \in {"allowed", "denied", "failed"}
  PROVE  CheckInv(u, d, Ended(v, outcome))
  BY OverKnows DEF Ended

LEMMA PastKnows ==
  ASSUME SpanInv, NEW u \in Call, uploads[u] # NoUpload
  PROVE  \A d \in Dimension : CheckInv(u, d, Past(uploads[u].checks)[d])
  BY OverKnows DEF Past, SpanInv

LEMMA RecheckedKnows ==
  ASSUME SpanInv, NEW u \in Call, uploads[u] # NoUpload, NEW d \in Dimension, NEW check,
         CheckInv(u, d, check)
  PROVE  \A e \in Dimension : CheckInv(u, e, Rechecked(u, d, check).checks[e])
<1>1. uploads[u].checks \in [Dimension -> Check]
  BY UploadsTypes DEF SpanInv, Upload
<1>2. \A e \in Dimension : Rechecked(u, d, check).checks[e]
                          = IF e = d THEN check ELSE uploads[u].checks[e]
  BY <1>1 DEF Rechecked
<1> QED BY <1>2 DEF SpanInv

(* With the clock every check that was under way is of an earlier tick.          *)
LEMMA SpanTick ==
  ASSUME LimiterAssumption, SpanInv, TypeOK', Tick
  PROVE  SpanInv'
<1>1. /\ now \in Nat /\ now' = now + 1
      /\ UNCHANGED <<kv, charged, raced, uploads>>
  BY DEF SpanInv, TypeOK, Tick, limiter
<1>2. ASSUME NEW u \in Call, uploads[u] # NoUpload, NEW d \in Dimension
      PROVE  CheckInv(u, d, uploads[u].checks[d])'
  <2> DEFINE check == uploads[u].checks[d]
  <2>1. CheckInv(u, d, check)
    BY <1>2 DEF SpanInv
  <2>2. check.bucket \in Nat /\ check.elapsed \in Nat
    BY <1>2, UploadsTypes DEF SpanInv, Upload, Check
  <2>3. check.bucket * Window + check.elapsed \in Int
    <3> HIDE DEF check
    <3>1. Window \in Nat
      BY DEF LimiterAssumption
    <3>2. check.bucket * Window \in Int
      BY <2>2, <3>1, SMT
    <3> QED BY <2>2, <3>2
  <2>4. check.at \in {"asked", "fits"} =>
          ~Charged(d, u) /\ check.bucket * Window + check.elapsed <= now'
    <3> HIDE DEF check
    <3> QED BY <1>1, <2>1, <2>3 DEF CheckInv
  <2>5. check.at = "fits" => ~Current(check)'
    <3>1. now' = BucketId' * Window + Elapsed'
      BY ClockPlace, <1>1 DEF LimiterAssumption, BucketId, Elapsed, TypeOK, Buckets
    <3>2. check' = check
      BY <1>1
    <3> HIDE DEF check
    <3> QED BY <1>1, <2>1, <2>3, <3>1, <3>2 DEF CheckInv, Current
  <2> QED BY <1>1, <2>4, <2>5 DEF CheckInv, SawStore, Charged, Current
<1>3. ASSUME NEW d \in Dimension
      PROVE  ChargesInv(d)'
  <2>1. ChargesInv(d)
    BY DEF SpanInv
  <2>2. \A c \in charged[d] : c.when <= now'
    <3>1. \A c \in charged[d] : c.when \in Nat /\ c.when <= now
      BY <2>1 DEF ChargesInv, SpanInv, TypeOK
    <3> QED BY <1>1, <3>1
  <2> QED BY <1>1, <2>1, <2>2 DEF ChargesInv, BucketsCount, AlwaysFits, InBucket, UpTo
<1> QED BY <1>1, <1>2, <1>3 DEF SpanInv

(* The estimate only falls as the clock goes on.                                 *)
LEMMA FitsLater ==
  ASSUME NEW w \in Nat, NEW m \in Nat, NEW p \in Nat, NEW q \in Nat, NEW n \in 0 .. q,
         NEW e \in Nat, NEW k \in Nat, e <= k, k < w,
         p * (w - e) + q * w <= m * w
  PROVE  p * (w - k) + n * w <= m * w
<1>1. w - k \in Nat /\ w - e \in Nat /\ w - k <= w - e
  OBVIOUS
<1>2. p * (w - k) <= p * (w - e) /\ n * w <= q * w
  BY <1>1, Times
<1>3. /\ p * (w - k) \in Int /\ p * (w - e) \in Int
      /\ n * w \in Int /\ q * w \in Int /\ m * w \in Int
  BY <1>1, SMT
<1> QED BY <1>2, <1>3

LEMMA FitsNext ==
  ASSUME NEW w \in Nat, NEW m \in Nat, NEW p \in Nat, NEW q \in Nat,
         NEW e \in Nat, NEW k \in Nat, e < w, k < w,
         p * (w - e) + q * w <= m * w
  PROVE  q * (w - k) + 0 * w <= m * w
<1>1. w - k \in Nat /\ w - e \in Nat /\ w - k <= w
  OBVIOUS
<1>2. q * (w - k) <= q * w /\ p * (w - e) \in Nat
  BY <1>1, Times
<1>3. q * (w - k) \in Int /\ q * w \in Int /\ m * w \in Int /\ 0 * w = 0
  BY <1>1, SMT
<1> QED BY <1>2, <1>3

(* A charge of the current bucket that the estimate has room for.                *)
LEMMA ChargeCounts ==
  ASSUME LimiterAssumption, SpanInv, NEW d \in Dimension, BucketsCount(d), AlwaysFits(d),
         NEW b \in Nat, b = BucketId, NEW e \in Nat, e = Elapsed,
         NEW charge, charge \notin charged[d], charge.when = now,
         charged'[d] = charged[d] \cup {charge},
         NEW bucket, kv'[d][b] = bucket, bucket.expires = now + TimeToLive,
         bucket.requests = Cardinality(InBucket(d, b)) + 1,
         \A c \in Buckets : c # b => kv'[d][c] = kv[d][c],
         Cardinality(InBucket(d, b - 1)) * (Window - e)
           + (Cardinality(InBucket(d, b)) + 1) * Window <= MaxRequests[d] * Window
  PROVE  BucketsCount(d)' /\ AlwaysFits(d)'
<1> DEFINE w == Window
           m == MaxRequests[d]
           p == Cardinality(InBucket(d, b - 1))
           q == Cardinality(InBucket(d, b))
<1>1. /\ e \in 0 .. (w - 1) /\ now = b * w + e /\ now \in Nat /\ b * w \in Nat
      /\ w \in Nat \ {0} /\ m \in Nat
  <2>1. /\ e \in 0 .. (w - 1) /\ now = b * w + e /\ now \in Nat
        /\ w \in Nat \ {0} /\ m \in Nat
    BY ClockPlace DEF SpanInv, TypeOK, LimiterAssumption
  <2> QED BY <2>1, SMT
<1>2. p \in Nat /\ q \in Nat /\ p * (w - e) + (q + 1) * w <= m * w
  BY Counts
<1>3. \A c \in charged[d] : c.when \in Nat /\ c.when <= now
  BY DEF SpanInv, TypeOK, ChargesInv
<1>4. charge.when \div w = b
  BY DEF BucketId
<1>5. /\ InBucket(d, b)' = InBucket(d, b) \cup {charge}
      /\ \A c : c # b => InBucket(d, c)' = InBucket(d, c)
  BY <1>4 DEF InBucket
<1>6. Cardinality(InBucket(d, b)') = q + 1 /\ IsFiniteSet(InBucket(d, b)')
  <2>1. charge \notin InBucket(d, b)
    BY DEF InBucket
  <2>2. IsFiniteSet(InBucket(d, b))
    BY Counts
  <2>3. /\ IsFiniteSet(InBucket(d, b) \cup {charge})
        /\ Cardinality(InBucket(d, b) \cup {charge}) = q + 1
    BY <2>1, <2>2, FS_AddElement
  <2> HIDE DEF q
  <2> QED BY <1>5, <2>3
<1>7. BucketsCount(d)'
  <2>1. now + TimeToLive >= (b + 2) * Window
    <3>1. (b + 2) * w = b * w + 2 * w /\ 2 * w \in Nat
      BY <1>1, SMT
    <3> QED BY <1>1, <3>1 DEF TimeToLive
  <2>2. ASSUME NEW c \in Buckets
        PROVE  /\ kv'[d][c].requests = Cardinality(InBucket(d, c)')
               /\ kv'[d][c].requests # 0 => kv'[d][c].expires >= (c + 2) * Window
    <3>1. CASE c = b
      BY <1>6, <2>1, <3>1
    <3>2. CASE c # b
      BY <1>5, <3>2 DEF BucketsCount
    <3> QED BY <3>1, <3>2
  <2> QED BY <2>2 DEF BucketsCount
<1>8. ASSUME NEW c \in Nat, NEW k \in Nat, k < w
      PROVE  Cardinality(InBucket(d, c - 1)') * (w - k)
               + Cardinality(UpTo(d, c, c * w + k)') * w <= m * w
  <2> DEFINE n == Cardinality(UpTo(d, c, c * w + k)')
  <2>1. Cardinality(InBucket(d, c - 1)) * (w - k) + Cardinality(UpTo(d, c, c * w + k)) * w <= m * w
    BY <1>8 DEF AlwaysFits, Estimate
  <2>2. CASE c = b /\ k < e
    <3>1. ~(charge.when <= c * w + k)
      BY <1>1, <1>8, <2>2
    <3>2. UpTo(d, c, c * w + k)' = UpTo(d, c, c * w + k)
      BY <1>5, <2>2, <3>1 DEF UpTo
    <3>3. InBucket(d, c - 1)' = InBucket(d, c - 1)
      BY <1>5, <2>2
    <3> QED BY <2>1, <3>2, <3>3
  <2>3. CASE c = b /\ e <= k
    <3>1. InBucket(d, c - 1)' = InBucket(d, b - 1)
      BY <1>5, <2>3
    <3>2. n \in 0 .. (q + 1)
      <4>1. UpTo(d, c, c * w + k)' \subseteq InBucket(d, b)'
        BY <2>3 DEF UpTo
      <4>2. n \in Nat /\ n <= q + 1
        BY <1>6, <4>1, FS_Subset, FS_CardinalityType
      <4> QED BY <1>2, <4>2
    <3> HIDE DEF p, q, n
    <3>3. p * (w - k) + n * w <= m * w
      <4>1. q + 1 \in Nat
        BY <1>2
      <4> QED BY <1>1, <1>2, <1>8, <2>3, <3>2, <4>1, FitsLater
    <3> QED BY <3>1, <3>3 DEF p, n
  <2>4. CASE c = b + 1
    <3>1. UpTo(d, c, c * w + k)' = {}
      <4>1. \A x \in charged'[d] : x.when \in Nat /\ x.when <= now
        BY <1>1, <1>3
      <4>2. ASSUME NEW x \in charged'[d], x.when \div w = c
            PROVE  FALSE
        <5> DEFINE t == x.when
                   r == t % w
        <5>1. t \in Nat /\ t <= now /\ t \div w = c
          BY <4>1, <4>2
        <5> HIDE DEF t
        <5>2. r \in 0 .. (w - 1) /\ t = c * w + r
          BY <1>1, <5>1, DivMod
        <5> HIDE DEF r
        <5>3. c <= b
          BY <1>1, <1>8, <5>1, <5>2, LaterBucket
        <5> QED BY <2>4, <5>3
      <4> QED BY <4>2 DEF UpTo, InBucket
    <3>2. n = 0 /\ Cardinality(InBucket(d, c - 1)') = q + 1
      <4>1. c - 1 = b
        BY <2>4
      <4> QED BY <1>6, <3>1, <4>1, FS_EmptySet
    <3> HIDE DEF p, q, n
    <3>3. (q + 1) * (w - k) + 0 * w <= m * w
      <4>1. q + 1 \in Nat
        BY <1>2
      <4> QED BY <1>1, <1>2, <1>8, <4>1, FitsNext
    <3> QED BY <3>2, <3>3 DEF n
  <2>5. CASE c # b /\ c # b + 1
    <3>1. InBucket(d, c - 1)' = InBucket(d, c - 1) /\ InBucket(d, c)' = InBucket(d, c)
      <4>1. c - 1 # b
        BY <2>5
      <4> QED BY <1>5, <2>5, <4>1
    <3>2. UpTo(d, c, c * w + k)' = UpTo(d, c, c * w + k)
      BY <3>1 DEF UpTo
    <3> QED BY <2>1, <3>1, <3>2
  <2> QED BY <1>1, <2>2, <2>3, <2>4, <2>5
<1>9. AlwaysFits(d)'
  BY <1>8 DEF AlwaysFits, Estimate
<1> QED BY <1>7, <1>9

(* A charge that overlaps no other.                                              *)
LEMMA SpanWrite ==
  ASSUME LimiterAssumption, SpanInv, TypeOK', NEW u \in Call, NEW d \in Dimension,
         WriteBucket(u, d)
  PROVE  SpanInv'
<1> DEFINE check  == uploads[u].checks[d]
           upload == Rechecked(u, d, Ended(u, "allowed"))
           charge == [by |-> u, when |-> now, size |-> uploads[u].size]
           bucket == Charge(check.current, uploads[u].size)
<1>t. TypeOK
  BY DEF SpanInv
<1>1. /\ uploads[u] # NoUpload /\ check.at = "fits" /\ Becomes(u, upload)
      /\ UNCHANGED now
  BY <1>t, Writing
<1>2. /\ uploads'[u] = upload /\ upload # NoUpload
      /\ \A v \in Call \ {u} : uploads'[v] = uploads[v]
  BY <1>t, <1>1, BecomesTypes, UploadIsThere DEF Becomes
<1>3. check \in Check /\ CheckInv(u, d, check)
  BY <1>1, UploadsTypes DEF SpanInv, Upload
<1>4. /\ charged'[d] = charged[d] \cup {charge}
      /\ \A e \in Dimension \ {d} : charged'[e] = charged[e]
  <2>1. charged' = [charged EXCEPT ![d] = charged[d] \cup {charge}]
    BY <1>t, Writing
  <2> HIDE DEF charge
  <2> QED BY <1>t, <2>1 DEF TypeOK
<1>5. charge \notin charged[d]
  BY <1>1, <1>3 DEF CheckInv, Charged
<1>6. /\ \A e \in Dimension \ {d} : raced'[e] = raced[e]
      /\ ~raced'[d] => /\ ~raced[d] /\ Current(check)
                       /\ ReadBucket(d, check.bucket) = check.current
  <2> DEFINE now_raced == raced[d] \/ ReadBucket(d, check.bucket) # check.current
                         \/ check.bucket # BucketId \/ check.elapsed # Elapsed
  <2>1. raced' = [raced EXCEPT ![d] = now_raced]
    BY <1>t, Writing
  <2>2. raced \in [Dimension -> BOOLEAN]
    BY <1>t DEF TypeOK
  <2>3. raced'[d] = now_raced /\ \A e \in Dimension \ {d} : raced'[e] = raced[e]
    <3> HIDE DEF now_raced
    <3> QED BY <2>1, <2>2
  <2> QED BY <2>3 DEF Current
<1>7. /\ \A e \in Dimension \ {d} : kv'[e] = kv[e]
      /\ \A b \in Buckets : b # check.bucket => kv'[d][b] = kv[d][b]
      /\ check.bucket \in Buckets => kv'[d][check.bucket] = bucket
  <2>1. kv' = [kv EXCEPT ![d][check.bucket] = bucket]
    BY <1>t, Writing
  <2>2. kv \in [Dimension -> [Buckets -> Bucket]]
    BY <1>t DEF TypeOK
  <2> HIDE DEF check, bucket
  <2> QED BY <2>1, <2>2
<1> HIDE DEF check, upload, bucket
<1>8. ASSUME NEW v \in Call, NEW e \in Dimension, NEW other, CheckInv(v, e, other),
             v # u \/ e # d
      PROVE  CheckInv(v, e, other)'
  <2>1. Charged(e, v)' => Charged(e, v)
    BY <1>4, <1>8 DEF Charged
  <2>2. CASE e # d
    BY <1>1, <1>4, <1>6, <1>8, <2>1, <2>2
      DEF CheckInv, SawStore, Current, BucketId, Elapsed, InBucket
  <2>3. CASE e = d
    <3>1. ASSUME Current(other)
          PROVE  InBucket(d, other.bucket - 1)' = InBucket(d, other.bucket - 1)
      <4>1. other.bucket = charge.when \div Window
        BY <3>1 DEF Current, BucketId
      <4>2. other.bucket \in Nat
        BY <1>t, <3>1, ClockPlace DEF Current
      <4>3. charge.when \div Window # other.bucket - 1
        BY <4>1, <4>2
      <4> QED BY <1>4, <4>3 DEF InBucket
    <3>2. Current(other)' <=> Current(other)
      BY <1>1 DEF Current, BucketId, Elapsed
    <3>3. ~raced'[d] => SawStore(d, other)'
      BY <1>6, <1>8, <2>3, <3>1, <3>2 DEF CheckInv, SawStore
    <3> QED BY <1>1, <1>8, <2>1, <2>3, <3>3 DEF CheckInv
  <2> QED BY <2>2, <2>3
<1>9. ASSUME NEW v \in Call, uploads'[v] # NoUpload, NEW e \in Dimension
      PROVE  CheckInv(v, e, uploads[v].checks[e])'
  <2>1. CASE v = u /\ e = d
    <3>1. uploads'[u].checks[d] = Ended(u, "allowed")
      <4>1. uploads[u].checks \in [Dimension -> Check]
        BY <1>t, <1>1, UploadsTypes DEF Upload
      <4> QED BY <1>2, <4>1 DEF upload, Rechecked
    <3>2. uploads'[u].checks[d].at \notin {"asked", "fits"}
      BY <3>1 DEF Ended, Over
    <3> QED BY <2>1, <3>2 DEF CheckInv, SawStore
  <2>2. CASE v # u \/ e # d
    <3>1. uploads[v] # NoUpload /\ uploads'[v].checks[e] = uploads[v].checks[e]
      <4>1. CASE v = u
        <5>1. uploads[u].checks \in [Dimension -> Check]
          BY <1>t, <1>1, UploadsTypes DEF Upload
        <5> QED BY <1>1, <1>2, <2>2, <4>1, <5>1 DEF upload, Rechecked
      <4>2. CASE v # u
        BY <1>2, <1>9, <4>2
      <4> QED BY <4>1, <4>2
    <3>2. CheckInv(v, e, uploads[v].checks[e])
      BY <3>1 DEF SpanInv
    <3> QED BY <1>8, <2>2, <3>1, <3>2 DEF CheckInv, SawStore, Current
  <2> QED BY <2>1, <2>2
<1>10. ASSUME NEW e \in Dimension
       PROVE  /\ IsFiniteSet(charged'[e])
              /\ \A c \in charged'[e] : c.when <= now' /\ uploads'[c.by] # NoUpload
  <2>1. /\ IsFiniteSet(charged[e])
        /\ \A c \in charged[e] : c.by \in Call /\ c.when <= now /\ uploads[c.by] # NoUpload
    BY DEF SpanInv, ChargesInv, TypeOK
  <2>2. \A c \in charged[e] : c.when <= now' /\ uploads'[c.by] # NoUpload
    BY <1>1, <1>2, <2>1
  <2>3. CASE e # d
    BY <1>4, <2>1, <2>2, <2>3
  <2>4. CASE e = d
    <3>1. charge.when <= now' /\ uploads'[charge.by] # NoUpload
      BY <1>1, <1>2, <1>t DEF TypeOK
    <3> HIDE DEF charge
    <3>2. IsFiniteSet(charged[d] \cup {charge})
      BY <2>1, <2>4, FS_AddElement
    <3> QED BY <1>4, <2>2, <2>4, <3>1, <3>2
  <2> QED BY <2>3, <2>4
<1>11. ASSUME NEW e \in Dimension \ {d}, ~raced'[e]
       PROVE  BucketsCount(e)' /\ AlwaysFits(e)'
  <2>1. BucketsCount(e) /\ AlwaysFits(e)
    BY <1>6, <1>11 DEF SpanInv, ChargesInv
  <2> QED BY <1>4, <1>7, <1>11, <2>1 DEF BucketsCount, AlwaysFits, InBucket, UpTo
<1>12. ASSUME ~raced'[d]
       PROVE  BucketsCount(d)' /\ AlwaysFits(d)'
  <2>1. /\ BucketsCount(d) /\ AlwaysFits(d) /\ SawStore(d, check) /\ Current(check)
        /\ ReadBucket(d, check.bucket) = check.current /\ ~raced[d]
    BY <1>3, <1>6, <1>12 DEF SpanInv, ChargesInv, CheckInv
  <2>2. /\ check.bucket = BucketId /\ check.elapsed = Elapsed
        /\ check.bucket \in Buckets /\ check.bucket \in Nat /\ check.elapsed \in Nat
    BY <1>t, <2>1, ClockPlace DEF Current
  <2>3. check.current.requests = Cardinality(InBucket(d, check.bucket))
    BY <2>1, <2>2, ReadsCount
  <2>4. Cardinality(InBucket(d, check.bucket - 1)) * (Window - check.elapsed)
          + (Cardinality(InBucket(d, check.bucket)) + 1) * Window <= MaxRequests[d] * Window
    BY <1>1, <2>1, <2>3 DEF SawStore, Estimate
  <2>5. /\ kv'[d][check.bucket] = bucket /\ bucket.expires = now + TimeToLive
        /\ bucket.requests = Cardinality(InBucket(d, check.bucket)) + 1
        /\ \A c \in Buckets : c # check.bucket => kv'[d][c] = kv[d][c]
    BY <1>7, <2>2, <2>3 DEF bucket, Charge
  <2>6. charge.when = now
    OBVIOUS
  <2> HIDE DEF charge
  <2> QED BY <1>4, <1>5, <2>1, <2>2, <2>4, <2>5, <2>6, ChargeCounts
<1> QED
  <2>1. ASSUME NEW e \in Dimension
        PROVE  ChargesInv(e)'
    BY <1>10, <1>11, <1>12 DEF ChargesInv
  <2> QED BY <1>9, <2>1 DEF SpanInv

LEMMA SpanStep ==
  ASSUME LimiterAssumption, SpanInv, [Next]_vars
  PROVE  SpanInv'
<1>t. TypeOK /\ TypeOK'
  BY TypeStep DEF SpanInv
<1>1. CASE Tick
  BY <1>t, <1>1, SpanTick
<1>2. ASSUME NEW u \in Call, Receive(u)
      PROVE  SpanInv'
  <2>1. PICK cid \in Cid, size \in Size, flaw \in Flaw : Becomes(u, Taken(cid, size, flaw))
    BY <1>t, <1>2, Receiving
  <2>2. uploads[u] = NoUpload /\ UNCHANGED <<now, kv, charged, raced>>
    BY <1>t, <1>2, Receiving
  <2>3. ASSUME NEW d \in Dimension
        PROVE  CheckInv(u, d, NewCheck)
    <3>1. ~Charged(d, u)
      BY <2>2 DEF SpanInv, ChargesInv, Charged
    <3>2. BucketId * Window + Elapsed = now /\ now \in Nat
      BY <1>t, ClockPlace DEF TypeOK
    <3>3. BucketId * Window + Elapsed <= now
      BY <3>2
    <3> QED BY <3>1, <3>3 DEF CheckInv, SawStore, NewCheck
  <2>4. \A d \in Dimension : CheckInv(u, d, Taken(cid, size, flaw).checks[d])
    BY <2>3, OverKnows DEF Taken
  <2> QED BY <1>t, <2>1, <2>2, <2>4, SpanFrame
<1>3. ASSUME NEW u \in Call, uploads[u] # NoUpload, NEW d \in Dimension, NEW check,
             CheckInv(u, d, check), Becomes(u, Rechecked(u, d, check)),
             UNCHANGED <<now, kv, charged, raced>>
      PROVE  SpanInv'
  <2>1. \A e \in Dimension : CheckInv(u, e, Rechecked(u, d, check).checks[e])
    BY <1>3, RecheckedKnows
  <2> QED BY <1>t, <1>3, <2>1, SpanFrame
<1>4. ASSUME NEW u \in Call, NEW d \in Dimension, ReadBuckets(u, d)
      PROVE  SpanInv'
  <2>1. /\ uploads[u] # NoUpload /\ uploads[u].checks[d].at = "asked"
        /\ UNCHANGED <<now, kv, charged, raced>>
    BY <1>t, <1>4, Reading
  <2>2. CASE Becomes(u, Rechecked(u, d, Ended(u, "denied")))
    BY <1>3, <2>1, <2>2, EndedKnows
  <2>3. CASE /\ Becomes(u, Rechecked(u, d, Granted(u, d)))
             /\ Fits(d, Granted(u, d), uploads[u].size)
    BY <1>3, <2>1, <2>3, GrantedSaw
  <2> QED BY <1>t, <1>4, <2>2, <2>3, Reading
<1>5. ASSUME NEW u \in Call, NEW d \in Dimension, WriteBucket(u, d)
      PROVE  SpanInv'
  BY <1>t, <1>5, SpanWrite
<1>6. ASSUME NEW u \in Call, NEW d \in Dimension, StoreFails(u, d)
      PROVE  SpanInv'
  BY <1>t, <1>3, <1>6, Failing, EndedKnows
<1>7. ASSUME NEW u \in Call, uploads[u] # NoUpload, NEW upload, Becomes(u, upload),
             upload.checks = Past(uploads[u].checks) \/ upload.checks = uploads[u].checks,
             UNCHANGED <<now, kv, charged, raced>>
      PROVE  SpanInv'
  <2>1. \A d \in Dimension : CheckInv(u, d, upload.checks[d])
    BY <1>7, PastKnows DEF SpanInv
  <2> QED BY <1>t, <1>7, <2>1, SpanFrame
<1>8. \A u, at, status, tries, mirror :
        Reached(u, at, status, tries, mirror).checks = Past(uploads[u].checks)
  BY DEF Reached
<1>9. \A u, tries, mirror : Repeated(u, tries, mirror).checks = uploads[u].checks
  BY DEF Repeated
<1>10. ASSUME NEW u \in Call, Authorize(u)
       PROVE  SpanInv'
  BY <1>t, <1>7, <1>8, <1>10, Authorizing
<1>11. ASSUME NEW u \in Call, ImportSucceeds(u) \/ ImportFails(u)
       PROVE  SpanInv'
  BY <1>t, <1>7, <1>8, <1>9, <1>11, Storing, FailingImport
<1>12. ASSUME NEW u \in Call, Mirror(u)
       PROVE  SpanInv'
  BY <1>t, <1>7, <1>9, <1>12, Copying
<1>13. CASE UNCHANGED vars
  <2>1. ASSUME NEW d \in Dimension
        PROVE  ChargesInv(d)'
    <3>1. ChargesInv(d)
      BY DEF SpanInv
    <3> QED BY <1>13, <3>1 DEF vars, ChargesInv, BucketsCount, AlwaysFits, InBucket, UpTo
  <2>2. ASSUME NEW u \in Call, uploads'[u] # NoUpload, NEW d \in Dimension
        PROVE  CheckInv(u, d, uploads[u].checks[d])'
    <3>1. CheckInv(u, d, uploads'[u].checks[d])
      BY <1>13, <2>2 DEF vars, SpanInv
    <3> QED BY <1>13, <3>1
          DEF vars, CheckInv, SawStore, Charged, InBucket, Current, BucketId, Elapsed
  <2> QED BY <1>t, <2>1, <2>2 DEF SpanInv
<1> QED BY <1>1, <1>2, <1>4, <1>5, <1>6, <1>10, <1>11, <1>12, <1>13 DEF Next, Work

LEMMA SpanInit ==
  ASSUME LimiterAssumption, Init
  PROVE  SpanInv
<1>t. TypeOK
  BY TypeInit
<1>1. ASSUME NEW d \in Dimension
      PROVE  /\ charged[d] = {} /\ IsFiniteSet(charged[d])
             /\ \A b : InBucket(d, b) = {} /\ Cardinality(InBucket(d, b)) = 0
             /\ \A b, t : Cardinality(UpTo(d, b, t)) = 0
  <2>1. charged[d] = {}
    BY DEF Init
  <2>2. (\A b : InBucket(d, b) = {}) /\ (\A b, t : UpTo(d, b, t) = {})
    BY <2>1 DEF InBucket, UpTo
  <2> QED BY <2>1, <2>2, FS_EmptySet
<1>2. ASSUME NEW d \in Dimension
      PROVE  BucketsCount(d)
  BY <1>1 DEF Init, BucketsCount, NoBucket
<1>3. ASSUME NEW d \in Dimension
      PROVE  AlwaysFits(d)
  <2>1. ASSUME NEW k \in Nat
        PROVE  0 * (Window - k) + 0 * Window <= MaxRequests[d] * Window
    <3>1. Window \in Nat /\ MaxRequests[d] \in Nat
      BY DEF LimiterAssumption
    <3>2. 0 * (Window - k) = 0 /\ 0 * Window = 0 /\ MaxRequests[d] * Window \in Nat
      BY <3>1, SMT
    <3> QED BY <3>2
  <2> QED BY <1>1, <2>1 DEF AlwaysFits, Estimate
<1>4. \A d \in Dimension : ChargesInv(d)
  BY <1>1, <1>2, <1>3 DEF ChargesInv
<1>5. \A u \in Call : uploads[u] = NoUpload
  BY DEF Init
<1> QED BY <1>t, <1>4, <1>5 DEF SpanInv

(* The two buckets approximate a sliding window: as long as no charge of a       *)
(* dimension overlapped another or a tick of the clock, the uploads charged in   *)
(* any span as long as a window exceed the budget by less than one budget.       *)
THEOREM SpansStayWithinTwoBudgets == Spec => []SpanBounded
<1>1. Init => SpanInv
  BY SpanInit, LimiterAssumption
<1>2. SpanInv /\ [Next]_vars => SpanInv'
  BY SpanStep, LimiterAssumption
<1>3. SpanInv => SpanBounded
  BY SpanFromInv, LimiterAssumption
<1> QED BY <1>1, <1>2, <1>3, PTL DEF Spec

===============================================================================
