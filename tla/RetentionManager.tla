--------------------------- MODULE RetentionManager ---------------------------
(***************************************************************************)
(* Advanced retention (internal/ops/retention.go,                          *)
(* internal/storage/retention_metadata.go): three goroutines share the     *)
(* event table and the retention_metadata table.                           *)
(*                                                                         *)
(*   ingest     a sync worker: stores an event, later evaluates it          *)
(*   reEval     the re-evaluation worker: lists old verdicts, and one event *)
(*              after the other reads it, evaluates it, writes the verdict  *)
(*   pruner     the scheduler: lists expired events, deletes them one by    *)
(*              one, counts, lists the lowest scores, deletes them          *)
(*                                                                         *)
(* and Stop waits for the re-evaluation worker.  Nothing ever deletes a row *)
(* of retention_metadata.  What a rule reads of an event (interactions, the *)
(* author's place in the graph) changes at any time.  The simple mode,      *)
(* keep_days, is not modelled.                                             *)
(***************************************************************************)
EXTENDS RetentionEngine

CONSTANTS
  Events, NoEvent,
  Profiles,        \* what can be read of an event: contexts, whatever their "now"
  ProfilesOf,      \* [Events -> SUBSET Profiles]: how the event may look
  MaxTotalEvents,  \* global_caps.max_total_events, 0 for none
  ExpiredLimit,    \* LIMIT of GetExpiredEvents (1000)
  BatchSize,       \* evaluation.batch_size
  Interval,        \* evaluation.re_eval_interval_hours, in ticks
  StorageFails,    \* reads and writes of the database may fail
  ReEvalStarted,   \* StartReEvaluationWorker did start the worker
  MaxNow           \* bound: the clock stops there

ASSUME RetentionAssumption ==
  /\ NoEvent \notin Events /\ IsFiniteSet(Events)
  /\ ProfilesOf \in [Events -> SUBSET Profiles]
  /\ MaxTotalEvents \in Nat /\ MaxNow \in Nat
  /\ ExpiredLimit \in Nat \ {0} /\ BatchSize \in Nat \ {0} /\ Interval \in Nat \ {0}
  /\ StorageFails \in BOOLEAN /\ ReEvalStarted \in BOOLEAN

ASSUME ProfilesAssumption ==
  \A p \in Profiles:
    /\ DOMAIN p = {"kind", "pubkey", "created", "size", "tags", "distance", "mutual",
                   "replies", "reactions", "zaps", "now"}
    /\ p.created \in Int /\ p.distance \in Int
    /\ p.replies \in Nat /\ p.reactions \in Nat /\ p.zaps \in Nat

VARIABLES
  now,
  profile,   \* what an evaluation of each event would read
  store,     \* the event table
  metadata,  \* the retention_metadata table
  ingest,
  reEval,
  pruner,
  stop,      \* Stop: "running" before the call, then "waiting", "returned"
  unsafe     \* history: events some verdict ever left unprotected

vars == <<now, profile, store, metadata, ingest, reEval, pruner, stop, unsafe>>

NoRow == [exists |-> FALSE]

Evaluator == [pc |-> "idle", event |-> NoEvent, todo |-> << >>, verdict |-> NoRow]
IdlePruner == [pc |-> "idle", todo |-> << >>]

Init ==
  /\ now = 0
  /\ profile \in [Events -> Profiles] /\ \A e \in Events: profile[e] \in ProfilesOf[e]
  /\ store = {}
  /\ metadata = [e \in Events |-> NoRow]
  /\ ingest = Evaluator
  /\ reEval = IF ReEvalStarted THEN Evaluator ELSE [Evaluator EXCEPT !.pc = "never"]
  /\ pruner = IdlePruner
  /\ stop = "running"
  /\ unsafe = {}

-------------------------------------------------------------------------------
(* The world around. *)

Tick ==
  /\ now < MaxNow
  /\ now' = now + 1
  /\ UNCHANGED <<profile, store, metadata, ingest, reEval, pruner, stop, unsafe>>

ProfileChanges(e) ==
  /\ \E p \in ProfilesOf[e]: profile' = [profile EXCEPT ![e] = p]
  /\ UNCHANGED <<now, store, metadata, ingest, reEval, pruner, stop, unsafe>>

-------------------------------------------------------------------------------
(* EvaluateEvent: read and decide, then write. *)

Context(e) == [profile[e] EXCEPT !.now = now]

RowOf(decision, evaluatedAt) ==
  [exists |-> TRUE, rule |-> decision.rule, until |-> decision.until,
   protected |-> decision.protected, score |-> decision.score, evaluatedAt |-> evaluatedAt]

\* Variant of Verdict: the row records when the next evaluation is due.
VerdictWithDueTime(e) ==
  LET result == EvaluateEvent(Context(e))
  IN  IF result.failed THEN NoRow
      ELSE RowOf(result.decision, now + Interval)

\* The row an evaluation of e ends in, NoRow when the evaluation fails.
Verdict(e) ==
  LET result == EvaluateEvent(Context(e))
  IN  IF result.failed THEN NoRow
      ELSE RowOf(result.decision, now)

\* INSERT OR REPLACE of one row.  It fails, too, on a connection that enforces
\* the foreign key to "events", a table that does not exist.
StoreRetentionMetadata(e, row) ==
  \/ /\ row.exists
     /\ metadata' = [metadata EXCEPT ![e] = row]
     /\ unsafe' = IF row.protected THEN unsafe ELSE unsafe \union {e}
  \/ /\ ~row.exists \/ StorageFails
     /\ UNCHANGED <<metadata, unsafe>>

StoreEvent(e) ==
  /\ ingest.pc = "idle" /\ e \notin store
  /\ store' = store \union {e}
  /\ ingest' = [ingest EXCEPT !.pc = "evaluate", !.event = e]
  /\ UNCHANGED <<now, profile, metadata, reEval, pruner, stop, unsafe>>

IngestEvaluates ==
  /\ ingest.pc = "evaluate"
  /\ ingest' = [ingest EXCEPT !.pc = "write", !.verdict = Verdict(ingest.event)]
  /\ UNCHANGED <<now, profile, store, metadata, reEval, pruner, stop, unsafe>>

IngestWrites ==
  /\ ingest.pc = "write"
  /\ StoreRetentionMetadata(ingest.event, ingest.verdict)
  /\ ingest' = Evaluator
  /\ UNCHANGED <<now, profile, store, reEval, pruner, stop>>

\* An error in the graph or the hints ends processEvent before the evaluation.
IngestSkipsEvaluation ==
  /\ ingest.pc = "evaluate" /\ StorageFails
  /\ ingest' = Evaluator
  /\ UNCHANGED <<now, profile, store, metadata, reEval, pruner, stop, unsafe>>

-------------------------------------------------------------------------------
(* Lists of events that a query returns: ascending by a column, ties in any *)
(* order, at most so many.                                                  *)

Listings(events, column(_), limit) ==
  LET ascending(s) == \A i \in 1 .. Len(s) - 1: column(s[i]) <= column(s[i + 1])
  IN  {SubSeq(s, 1, Min({limit, Len(s)})) : s \in {p \in SetToSeqs(events): ascending(p)}}

Rows == {e \in Events: metadata[e].exists}

\* Variant of Unprotected: the queries forget "protected = 0".
AnyRow == Rows

Unprotected == {e \in Rows: ~metadata[e].protected}

Expired == {e \in Unprotected: metadata[e].until # Forever /\ metadata[e].until < now}

GetExpiredEvents == Listings(Expired, LAMBDA e: metadata[e].until, ExpiredLimit)

GetEventsByScore(limit) == Listings(Unprotected, LAMBDA e: metadata[e].score, limit)

Stale == {e \in Rows: metadata[e].evaluatedAt < now - Interval}

GetEventsForReEvaluation == Listings(Stale, LAMBDA e: metadata[e].evaluatedAt, BatchSize)

-------------------------------------------------------------------------------
(* The re-evaluation worker. *)

ReEvalTick ==
  /\ reEval.pc = "idle"
  /\ Stale # {}
  /\ \E list \in GetEventsForReEvaluation:
       reEval' = [reEval EXCEPT !.pc = "query", !.todo = list]
  /\ UNCHANGED <<now, profile, store, metadata, ingest, pruner, stop, unsafe>>

NextOf(worker) == [worker EXCEPT !.pc = IF Len(worker.todo) > 1 THEN "query" ELSE "idle",
                                 !.todo = Tail(worker.todo),
                                 !.event = NoEvent, !.verdict = NoRow]

\* QueryEvents, then the rules, which do not look at the event table: an event
\* that is gone, or cannot be read, is skipped.
ReEvalEvaluates ==
  /\ reEval.pc = "query"
  /\ LET e == Head(reEval.todo)
     IN  \/ /\ e \in store
            /\ reEval' = [reEval EXCEPT !.pc = "write", !.event = e, !.verdict = Verdict(e)]
         \/ /\ e \notin store \/ StorageFails
            /\ reEval' = NextOf(reEval)
  /\ UNCHANGED <<now, profile, store, metadata, ingest, pruner, stop, unsafe>>

ReEvalWrites ==
  /\ reEval.pc = "write"
  /\ StoreRetentionMetadata(reEval.event, reEval.verdict)
  /\ reEval' = NextOf(reEval)
  /\ UNCHANGED <<now, profile, store, ingest, pruner, stop>>

\* Variant of ReEvalExits: the loop first evaluates whatever is stale.
ReEvalDrainsFirst ==
  /\ reEval.pc = "idle" /\ stop # "running" /\ Stale = {}
  /\ reEval' = [reEval EXCEPT !.pc = "exited"]
  /\ UNCHANGED <<now, profile, store, metadata, ingest, pruner, stop, unsafe>>

\* The loop sees the closed stopChan only between two batches.
ReEvalExits ==
  /\ reEval.pc = "idle" /\ stop # "running"
  /\ reEval' = [reEval EXCEPT !.pc = "exited"]
  /\ UNCHANGED <<now, profile, store, metadata, ingest, pruner, stop, unsafe>>

-------------------------------------------------------------------------------
(* The pruning scheduler: PruneAdvanced on every tick of its own. *)

\* Variant of Working: the last event of the list is left out.
WorkingButLast(pc, list, afterwards) ==
  IF Len(list) <= 1 THEN afterwards ELSE [pc |-> pc, todo |-> list]

\* The pruner with a list of events still to delete, or past the end of the list.
Working(pc, list, afterwards) ==
  IF list = << >> THEN afterwards ELSE [pc |-> pc, todo |-> list]

AfterExpired == IF MaxTotalEvents > 0 THEN [pc |-> "count", todo |-> << >>] ELSE IdlePruner

PruneTick ==
  /\ pruner.pc = "idle"
  /\ \/ \E list \in GetExpiredEvents: pruner' = Working("expired", list, AfterExpired)
     \/ StorageFails /\ pruner' = AfterExpired
  /\ UNCHANGED <<now, profile, store, metadata, ingest, reEval, stop, unsafe>>

\* An event that is already gone counts as deleted; a failure goes to the next.
DeleteEvent(e) ==
  \/ store' = store \ {e}
  \/ StorageFails /\ UNCHANGED store

DeleteExpired ==
  /\ pruner.pc = "expired"
  /\ DeleteEvent(Head(pruner.todo))
  /\ pruner' = Working("expired", Tail(pruner.todo), AfterExpired)
  /\ UNCHANGED <<now, profile, metadata, ingest, reEval, stop, unsafe>>

\* Variant of EventsToDelete: it counts the rows of retention_metadata.
RowsToDelete == Max({0, Cardinality(Rows) - MaxTotalEvents})

EventsToDelete == Max({0, Cardinality(store) - MaxTotalEvents})

\* The pass ends here when the store is not over the cap.
CountEvents ==
  /\ pruner.pc = "count"
  /\ \/ /\ EventsToDelete > 0
        /\ pruner' = [pc |-> "list", todo |-> << >>, excess |-> EventsToDelete]
     \/ /\ EventsToDelete = 0 \/ StorageFails
        /\ pruner' = IdlePruner
  /\ UNCHANGED <<now, profile, store, metadata, ingest, reEval, stop, unsafe>>

ListByScore ==
  /\ pruner.pc = "list"
  /\ \/ \E list \in GetEventsByScore(pruner.excess): pruner' = Working("caps", list, IdlePruner)
     \/ StorageFails /\ pruner' = IdlePruner
  /\ UNCHANGED <<now, profile, store, metadata, ingest, reEval, stop, unsafe>>

DeleteByScore ==
  /\ pruner.pc = "caps"
  /\ DeleteEvent(Head(pruner.todo))
  /\ pruner' = Working("caps", Tail(pruner.todo), IdlePruner)
  /\ UNCHANGED <<now, profile, metadata, ingest, reEval, stop, unsafe>>

PrunerExits ==
  /\ pruner.pc = "idle" /\ stop # "running"
  /\ pruner' = [pruner EXCEPT !.pc = "exited"]
  /\ UNCHANGED <<now, profile, store, metadata, ingest, reEval, stop, unsafe>>

-------------------------------------------------------------------------------
(* Stop closes stopChan and waits for doneChan, which the loop closes. *)

StopCalled ==
  /\ stop = "running"
  /\ stop' = "waiting"
  /\ UNCHANGED <<now, profile, store, metadata, ingest, reEval, pruner, unsafe>>

StopReturns ==
  /\ stop = "waiting" /\ reEval.pc = "exited"
  /\ stop' = "returned"
  /\ UNCHANGED <<now, profile, store, metadata, ingest, reEval, pruner, unsafe>>

-------------------------------------------------------------------------------
Ingest == IngestEvaluates \/ IngestWrites \/ IngestSkipsEvaluation

ReEvalBatch == ReEvalEvaluates \/ ReEvalWrites

PrunePass == DeleteExpired \/ CountEvents \/ ListByScore \/ DeleteByScore

Next ==
  \/ Tick
  \/ \E e \in Events: ProfileChanges(e) \/ StoreEvent(e)
  \/ Ingest
  \/ ReEvalTick \/ ReEvalBatch \/ ReEvalExits
  \/ PruneTick \/ PrunePass \/ PrunerExits
  \/ StopCalled \/ StopReturns

Spec == Init /\ [][Next]_vars

\* Both tickers go on for ever, a pass that has begun goes on to its end, and a
\* statement that is tried again and again does not fail every time.
Fairness ==
  /\ WF_vars(ReEvalTick) /\ WF_vars(ReEvalBatch) /\ SF_vars(ReEvalExits)
  /\ SF_vars(PruneTick /\ pruner'.pc = "expired") /\ WF_vars(PrunePass)
  /\ \A e \in Events: SF_vars(DeleteExpired /\ e \in store /\ e \notin store')
  /\ WF_vars(StopReturns)

FairSpec == Spec /\ Fairness

-------------------------------------------------------------------------------
VerdictRows ==
  [exists: {TRUE}, rule: {Rules[i].name : i \in DOMAIN Rules} \union {"default_delete"},
   until: Int, protected: BOOLEAN, score: Nat, evaluatedAt: 0 .. MaxNow]

TypeOK ==
  /\ now \in 0 .. MaxNow
  /\ \A e \in Events: profile[e] \in ProfilesOf[e]
  /\ store \subseteq Events /\ unsafe \subseteq Events
  /\ metadata \in [Events -> VerdictRows \union {NoRow}]
  /\ \A w \in {ingest, reEval}:
       /\ w.pc \in {"idle", "query", "evaluate", "write", "never", "exited"}
       /\ w.event \in Events \union {NoEvent} /\ w.todo \in Seq(Events)
       /\ w.verdict \in VerdictRows \union {NoRow}
  /\ pruner.pc \in {"idle", "expired", "count", "list", "caps", "exited"}
  /\ pruner.todo \in Seq(Events)
  /\ stop \in {"running", "waiting", "returned"}

\* "If multiple rules match, highest priority wins" (docs/configuration.md:521),
\* whatever an evaluation may read at this moment: sorting once and stopping at
\* the first match picks the rule that the priorities alone determine.
HighestPriorityDecides == \A e \in Events: DecidedByHighestPriority(Context(e))

\* An event that no evaluation ever left unprotected is never deleted: not while
\* its evaluation is pending or has failed, not by a verdict on another event,
\* not by the caps however far the store is over them (pruneExpiredEvents and
\* enforceGlobalCaps, retention.go:262-327).
UnjudgedAndProtectedStay == [][store \ store' \subseteq unsafe]_vars

\* Enforcing the caps never takes the store below the cap, although events come
\* and verdicts change between the count, the list and the deletions.
CapsDeleteNoMoreThanExcess ==
  [][DeleteByScore => Cardinality(store') >= MaxTotalEvents]_vars

\* "pruneExpiredEvents deletes events that have passed their retain_until date"
\* (retention.go:261): one that stays expired does not stay in the store for ever,
\* as long as the process runs.
ExpiredEventsGo ==
  \A e \in Events:
    (e \in store \intersect Expired) ~> (e \notin store \intersect Expired \/ stop # "running")

\* "Stop stops the re-evaluation worker gracefully" (retention.go:531): it returns,
\* whatever the worker is doing when it is called.
StopComesBack == (stop = "waiting") ~> (stop = "returned")
===============================================================================
