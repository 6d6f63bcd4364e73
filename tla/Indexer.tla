------------------------------- MODULE Indexer -------------------------------
(* The server's copy of the contract's events: a poller, which inserts what the  *)
(* node has of the last hours, and a backfill, which goes through the pages from *)
(* the first event to the tip and records now and then how far it came.  Both    *)
(* work under an advisory lock that belongs to a connection; any of them may     *)
(* crash, find no node, or lose the connection of the lock and go on without.    *)
EXTENDS Naturals, Sequences, SequencesExt, FiniteSetsExt

CONSTANTS Content,             \* action, project and value of an event: the table has each once
          Run,                 \* processes that are started to backfill
          None,
          page_limit, checkpoint_interval, max_retries,
          PollLimit, Lookback, \* what the poller gets: events, of the last ledgers
          MaxLedger, MaxEvents, MaxPolls, MaxFaults    \* model bounds

VARIABLES chain,       \* the contract's events, in their order
          latest,      \* the node's latest ledger
          table,       \* what is stored
          checkpoint,  \* the row of BackfillCheckpoint, or None
          lock,        \* who has the advisory lock
          runs, poller,
          polls, faults

ledgers  == <<chain, latest>>
database == <<table, checkpoint>>
vars     == <<ledgers, database, lock, runs, poller, polls, faults>>

-------------------------------------------------------------------------------

(* start is where the next page begins, None where the last one ended.           *)
Idle == [at |-> "idle", loaded |-> None, tip |-> 0, start |-> None, pending |-> {},
         seen |-> 0, done |-> 0, attempt |-> 0]

Contents(positions) == {chain[i].content : i \in positions}

(* What the node has left: of the first request up to the tip, of later ones,     *)
(* which name the cursor alone, all there is.                                     *)
Asked(r) == {i \in DOMAIN chain : i > r.start /\ (r.start = 0 => chain[i].ledger <= r.tip)}

Becomes(p, r) == runs' = [runs EXCEPT ![p] = r]

(* Faulty variants of definitions below, each a slip the code could contain;     *)
(* nothing here is part of the model.                                            *)
EndsLocked(p) == Becomes(p, Idle) /\ UNCHANGED lock

(* Whoever ends gives up the lock, if the connection has it still. *)
Ends(p) == Becomes(p, Idle) /\ lock' = IF lock = p THEN None ELSE lock

IsCompleted == checkpoint # None /\ checkpoint.completed

Fault == faults < MaxFaults /\ faults' = faults + 1

-------------------------------------------------------------------------------
(* The backfill *)

(* The checkpoint is loaded before the lock is asked for. *)
Start(p) ==
  /\ runs[p].at = "idle"
  /\ ~IsCompleted
  /\ Becomes(p, [Idle EXCEPT !.at = "loaded", !.loaded = checkpoint])
  /\ UNCHANGED <<ledgers, database, lock, poller, polls, faults>>

(* ContractLockedError: the lock is not waited for. *)
Refused(p) ==
  /\ runs[p].at = "loaded" /\ lock # None
  /\ Ends(p)
  /\ UNCHANGED <<ledgers, database, poller, polls, faults>>

Locked(p) ==
  /\ runs[p].at = "loaded" /\ lock = None
  /\ lock' = p
  /\ LET c == runs[p].loaded
     IN  Becomes(p, IF c = None
                    THEN [runs[p] EXCEPT !.at = "fetch", !.tip = latest, !.start = 0]
                    ELSE [runs[p] EXCEPT !.at = "fetch", !.tip = c.tip, !.start = c.cursor,
                                         !.seen = c.last, !.done = c.last])
  /\ UNCHANGED <<ledgers, database, poller, polls, faults>>

(* Faulty variants, as above. *)
OnlyThisPage(r, positions) == Contents(positions)

(* What is kept in memory until the next checkpoint. *)
Pending(r, positions) == r.pending \union Contents(positions)

(* A page comes, with the cursor of the next one if there is any; and it may be   *)
(* time for a checkpoint.                                                         *)
PageArrives(p) ==
  LET r == runs[p]
  IN  /\ r.at = "fetch"
      /\ \E n \in 0 .. page_limit :
           LET positions == r.start + 1 .. r.start + n
               seen      == Max({r.seen} \union {chain[i].ledger : i \in positions})
               cursor    == IF Asked(r) \subseteq positions THEN None ELSE r.start + n
           IN  /\ positions \subseteq Asked(r) /\ (n = 0 => Asked(r) = {})
               /\ Becomes(p, [r EXCEPT !.start = cursor, !.seen = seen, !.attempt = 0,
                                       !.pending = Pending(r, positions),
                                       !.at = IF cursor = None \/ seen - r.done >= checkpoint_interval
                                              THEN "commit" ELSE "fetch"])
      /\ UNCHANGED <<ledgers, database, lock, poller, polls, faults>>

(* A request that fails is repeated, and the last time ends the run. *)
PageFails(p) ==
  /\ runs[p].at = "fetch" /\ Fault
  /\ IF runs[p].attempt < max_retries
     THEN Becomes(p, [runs[p] EXCEPT !.attempt = @ + 1]) /\ UNCHANGED lock
     ELSE Ends(p)
  /\ UNCHANGED <<ledgers, database, poller, polls>>

(* One transaction: what is not stored yet, and the checkpoint.  The tip of a     *)
(* checkpoint that exists is not replaced.                                        *)
Completed(r) == r.start = None
CommitProgress(p) ==
  LET r    == runs[p]
      last == IF Completed(r) THEN r.tip ELSE r.seen
  IN  /\ r.at = "commit"
      /\ table' = table \union r.pending
      /\ checkpoint' = [tip |-> IF checkpoint = None THEN r.tip ELSE checkpoint.tip,
                        last |-> last, cursor |-> r.start, completed |-> Completed(r)]
      /\ Becomes(p, [r EXCEPT !.pending = {}, !.done = last,
                              !.at = IF Completed(r) THEN "end" ELSE "fetch"])
      /\ UNCHANGED <<ledgers, lock, poller, polls, faults>>

Unlock(p) ==
  /\ runs[p].at = "end"
  /\ Ends(p)
  /\ UNCHANGED <<ledgers, database, poller, polls, faults>>

Crash(p) ==
  /\ runs[p].at # "idle" /\ Fault
  /\ Ends(p)
  /\ UNCHANGED <<ledgers, database, poller, polls>>

(* PostgreSQL lets go of the lock with the connection; its holder does not know.  *)
ConnectionLost ==
  /\ lock # None /\ Fault
  /\ lock' = None
  /\ UNCHANGED <<ledgers, database, runs, poller, polls>>

-------------------------------------------------------------------------------
(* The poller *)

NotPolling == [at |-> "idle", batch |-> <<>>]

(* A cycle that finds the lock taken is skipped; the others take what the node    *)
(* answers, without asking for a second page.                                     *)
IsRecent(e) == e.ledger + Lookback >= latest
Recent      == SelectSeq(chain, IsRecent)

Poll ==
  /\ poller.at = "idle" /\ lock = None /\ polls < MaxPolls
  /\ polls' = polls + 1
  /\ lock' = "poller"
  /\ poller' = [at |-> "insert", batch |-> SubSeq(Recent, 1, Min({PollLimit, Len(Recent)}))]
  /\ UNCHANGED <<ledgers, database, runs, faults>>

(* events_to_db: one row that is there already, and none is inserted. *)
Insertable(batch) ==
  /\ \A e \in ToSet(batch) : e.content \notin table
  /\ \A i, j \in DOMAIN batch : batch[i].content = batch[j].content => i = j

Insert ==
  /\ poller.at = "insert"
  /\ \/ Insertable(poller.batch) /\ table' = table \union {e.content : e \in ToSet(poller.batch)}
     \/ ~Insertable(poller.batch) /\ UNCHANGED table
  /\ poller' = NotPolling
  /\ lock' = IF lock = "poller" THEN None ELSE lock
  /\ UNCHANGED <<ledgers, checkpoint, runs, polls, faults>>

PollFails ==
  /\ poller.at = "insert" /\ Fault
  /\ poller' = NotPolling
  /\ lock' = IF lock = "poller" THEN None ELSE lock
  /\ UNCHANGED <<ledgers, database, runs, polls>>

-------------------------------------------------------------------------------

Emitted(contents, n) == [i \in DOMAIN contents |-> [ledger |-> n, content |-> contents[i]]]

(* A ledger closes, with events of the contract or without. *)
Close ==
  /\ latest < MaxLedger
  /\ latest' = latest + 1
  /\ \E contents \in SeqOf(Content, 2) : chain' = chain \o Emitted(contents, latest + 1)
  /\ Len(chain') <= MaxEvents
  /\ UNCHANGED <<database, lock, runs, poller, polls, faults>>

Init ==
  /\ latest = 1 /\ \E contents \in SeqOf(Content, 2) : chain = Emitted(contents, 1)
  /\ table = {} /\ checkpoint = None
  /\ lock = None /\ runs = [p \in Run |-> Idle] /\ poller = NotPolling
  /\ polls = 0 /\ faults = 0

Backfill(p) == Start(p) \/ Refused(p) \/ Locked(p) \/ PageArrives(p) \/ CommitProgress(p) \/ Unlock(p)
Fails(p)    == PageFails(p) \/ Crash(p)

Next ==
  \/ \E p \in Run : Backfill(p) \/ Fails(p)
  \/ ConnectionLost \/ Poll \/ Insert \/ PollFails \/ Close

(* Whoever runs the server starts the backfill until it has ended well; a cycle   *)
(* of the poller ends.                                                            *)
Fairness == WF_vars(Insert) /\ \A p \in Run : WF_vars(Backfill(p))

Spec == Init /\ [][Next]_vars /\ Fairness

-------------------------------------------------------------------------------

Stored(i) == chain[i].content \in table

(* Nothing is missing of what the checkpoint says is done, whoever wrote it, and  *)
(* whatever crashed, was repeated, or went on without the lock: no event before   *)
(* the cursor, and when it is completed none up to the tip.                       *)
CheckpointCovers ==
  checkpoint # None =>
    IF checkpoint.completed
    THEN \A i \in DOMAIN chain : chain[i].ledger <= checkpoint.last => Stored(i)
    ELSE \A i \in 1 .. checkpoint.cursor : Stored(i)

(* Once no node and no process fails any more and no poll is in the way, the      *)
(* backfill is completed, and stays so.                                           *)
BackfillEnds == <>[]IsCompleted
===============================================================================
