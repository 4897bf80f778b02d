------------------------------ MODULE SyncEngine ------------------------------
(***************************************************************************)
(* The ingestion pipeline of the sync engine (internal/sync/engine.go):     *)
(*                                                                         *)
(*   relay goroutines --> eventChan --> workers --> store                  *)
(*                                         \--> aggregateChan --> batcher  *)
(*                                                                         *)
(* with the sync loop that launches relay goroutines, the hourly refresh    *)
(* that processes replaceable events itself, and Stop.  The batcher and the *)
(* aggregate channel are those of AggregateWorker, the deduplication cache  *)
(* is that of EventCache.  A relay may deliver any event at any time, more  *)
(* than once and in any order; pruning and a crash may happen at any time.  *)
(*                                                                         *)
(* History: "copies" numbers the stored copies of an event; "counted" are   *)
(* those that reached the aggregate queue, "handled" those whose event      *)
(* handlers were called, "bypassed" those negentropy stored, "cutOff" those *)
(* in somebody's hands at a crash, and "finished" all that nobody will      *)
(* touch again.                                                            *)
(***************************************************************************)
EXTENDS AggregateWorker

CONSTANTS
  Events, NoEvent,
  KindOf,         \* [Events -> {"interaction", "directory", "other"}]
  UpdateOf,       \* the aggregate update of an interaction event
  Workers,        \* the worker goroutines (config: sync.performance.workers)
  Refresher,      \* the periodicRefresh goroutine
  Subscriptions,  \* slots for syncRelayWithFallback goroutines
  ChanCap,        \* capacity of eventChan (5000)
  CacheSize,      \* capacity of the event cache (5000)
  UseNegentropy,  \* config: sync.performance.use_negentropy
  MaxCopies,      \* bound: copies of one event stored in a behaviour
  MaxRestarts     \* bound: crashes followed by a restart

Kinds == {"interaction", "directory", "other"}

ASSUME SyncAssumption ==
  /\ NoEvent \notin Events
  /\ Refresher \notin Workers
  /\ KindOf \in [Events -> Kinds]
  /\ UpdateOf \in [Events -> Updates]
  /\ ChanCap \in Nat \ {0} /\ CacheSize \in Nat \ {0}
  /\ UseNegentropy \in BOOLEAN
  /\ MaxCopies \in Nat \ {0} /\ MaxRestarts \in Nat
\* Ids are 32 bytes long; Start falls back to 4 workers (engine.go:120-122).
ASSUME EventsAssumption == IsFiniteSet(Events)
ASSUME WorkersAssumption == Workers # {}

Processors == Workers \union {Refresher}

Cache == INSTANCE EventCache WITH Ids <- Events, NoId <- NoEvent, MaxSize <- CacheSize

VARIABLES
  eventChan,
  eventsClosed,
  stopPc,    \* where Stop is: "running" before it is called
  loop,      \* continuousSync: "running" or "exited"
  subs,      \* the relay goroutines
  procs,     \* the goroutines that call processEvent
  eventCache,
  store,
  copies,
  counted,
  finished,
  handled,
  cutOff,
  bypassed,
  restarts

pipeVars    == <<eventChan, eventsClosed>>
storeVars   == <<store, copies, bypassed>>
historyVars == <<counted, finished, handled, cutOff>>
vars == <<aggVars, pipeVars, stopPc, loop, subs, procs, eventCache, storeVars,
          historyVars, restarts>>

Free == [pc |-> "idle", event |-> NoEvent, copy |-> 0]
IdleSub == [pc |-> "idle", event |-> NoEvent]

\* What Start sets going, after the bootstrap (engine.go:108-142).
StartEngine ==
  /\ eventChan = << >> /\ eventsClosed = FALSE
  /\ stopPc = "running"
  /\ loop = "running"
  /\ subs = [s \in Subscriptions |-> IdleSub]
  /\ procs = [p \in Processors |-> Free]
  /\ eventCache = Cache!NewEventCache

Init ==
  /\ AggInit
  /\ StartEngine
  /\ store = {} /\ copies = [e \in Events |-> 0] /\ bypassed = {}
  /\ counted = {} /\ finished = {} /\ handled = {} /\ cutOff = {}
  /\ restarts = 0

-------------------------------------------------------------------------------
(* The sync loop and the relay goroutines it launches. *)

\* An iteration that began before the context was cancelled goes on launching.
LaunchRelay(s) ==
  /\ loop = "running"
  /\ subs[s].pc = "idle"
  /\ subs' = [subs EXCEPT ![s].pc = IF UseNegentropy THEN "negentropy" ELSE "receiving"]
  /\ UNCHANGED <<aggVars, pipeVars, stopPc, loop, procs, eventCache, storeVars,
                 historyVars, restarts>>

SyncLoopExits ==
  /\ loop = "running" /\ ctxDone
  /\ loop' = "exited"
  /\ UNCHANGED <<aggVars, pipeVars, stopPc, subs, procs, eventCache, storeVars,
                 historyVars, restarts>>

Stored(e) ==
  /\ store' = store \union {e}
  /\ copies' = [copies EXCEPT ![e] = @ + 1]

\* NegentropyStore.SaveEvent goes straight to the store, around processEvent.
NegentropySave(s, e) ==
  /\ subs[s].pc = "negentropy"
  /\ ~ctxDone /\ e \notin store
  /\ Stored(e)
  /\ bypassed' = bypassed \union {<<e, copies[e] + 1>>}
  /\ finished' = finished \union {<<e, copies[e] + 1>>}
  /\ UNCHANGED <<aggVars, pipeVars, stopPc, loop, subs, procs, eventCache, counted,
                 handled, cutOff, restarts>>

\* It succeeds and the goroutine ends, or the relay cannot do it and REQ follows.
NegentropyEnds(s) ==
  /\ subs[s].pc = "negentropy"
  /\ \E next \in {"idle", "receiving"}: subs' = [subs EXCEPT ![s].pc = next]
  /\ UNCHANGED <<aggVars, pipeVars, stopPc, loop, procs, eventCache, storeVars,
                 historyVars, restarts>>

RelayDelivers(s, e) ==
  /\ subs[s].pc = "receiving"
  /\ subs' = [subs EXCEPT ![s] = [pc |-> "sending", event |-> e]]
  /\ UNCHANGED <<aggVars, pipeVars, stopPc, loop, procs, eventCache, storeVars,
                 historyVars, restarts>>

\* End of stored events, the 30 s timeout or a lost connection.
SubscriptionEnds(s) ==
  /\ subs[s].pc = "receiving"
  /\ subs' = [subs EXCEPT ![s] = IdleSub]
  /\ UNCHANGED <<aggVars, pipeVars, stopPc, loop, procs, eventCache, storeVars,
                 historyVars, restarts>>

\* Variant of SendEvent: it does not wait for room.
SendWithoutRoom(s) ==
  /\ subs[s].pc = "sending" /\ ~eventsClosed
  /\ eventChan' = Append(eventChan, subs[s].event)
  /\ subs' = [subs EXCEPT ![s] = [pc |-> "receiving", event |-> NoEvent]]
  /\ UNCHANGED <<aggVars, eventsClosed, stopPc, loop, procs, eventCache, storeVars,
                 historyVars, restarts>>

\* The send case of the select: it waits for room, and panics once closed.
SendEvent(s) ==
  /\ subs[s].pc = "sending"
  /\ IF eventsClosed
     THEN panicked' = TRUE /\ UNCHANGED <<eventChan, subs>>
     ELSE /\ Len(eventChan) < ChanCap
          /\ eventChan' = Append(eventChan, subs[s].event)
          /\ subs' = [subs EXCEPT ![s] = [pc |-> "receiving", event |-> NoEvent]]
          /\ UNCHANGED panicked
  /\ UNCHANGED <<ctxDone, channelVars, batchVars, batcher, leaving, table, writeFailed,
                 eventsClosed, stopPc, loop, procs, eventCache, storeVars, historyVars,
                 restarts>>

GiveUpSending(s) ==
  /\ subs[s].pc = "sending" /\ ctxDone
  /\ subs' = [subs EXCEPT ![s] = IdleSub]
  /\ UNCHANGED <<aggVars, pipeVars, stopPc, loop, procs, eventCache, storeVars,
                 historyVars, restarts>>

-------------------------------------------------------------------------------
(* Where a processor's events come from. *)

TakeEvent(w) ==
  /\ procs[w].pc = "idle"
  /\ eventChan # << >>
  /\ procs' = [procs EXCEPT ![w] = [pc |-> "check", event |-> Head(eventChan), copy |-> 0]]
  /\ eventChan' = Tail(eventChan)
  /\ UNCHANGED <<aggVars, eventsClosed, stopPc, loop, subs, eventCache, storeVars,
                 historyVars, restarts>>

WorkerExits(w) ==
  /\ procs[w].pc = "idle"
  /\ eventChan = << >> /\ eventsClosed
  /\ procs' = [procs EXCEPT ![w].pc = "exited"]
  /\ UNCHANGED <<aggVars, pipeVars, stopPc, loop, subs, eventCache, storeVars,
                 historyVars, restarts>>

\* refreshReplaceables fetches profiles, contact lists and relay lists.
RefreshFetches(e) ==
  /\ procs[Refresher].pc = "idle"
  /\ KindOf[e] # "interaction"
  /\ procs' = [procs EXCEPT ![Refresher] = [pc |-> "check", event |-> e, copy |-> 0]]
  /\ UNCHANGED <<aggVars, pipeVars, stopPc, loop, subs, eventCache, storeVars,
                 historyVars, restarts>>

RefresherExits ==
  /\ procs[Refresher].pc = "idle" /\ ctxDone
  /\ procs' = [procs EXCEPT ![Refresher].pc = "exited"]
  /\ UNCHANGED <<aggVars, pipeVars, stopPc, loop, subs, eventCache, storeVars,
                 historyVars, restarts>>

-------------------------------------------------------------------------------
(* processEvent, one action per step another goroutine can come between. *)

At(p, step) == procs[p].pc = step
Goto(p, step) == procs' = [procs EXCEPT ![p].pc = step]
Done(p) == procs' = [procs EXCEPT ![p] = Free]

\* Variant of CheckCache: the event is marked as seen before it is stored.
CheckCacheAndAdd(p) ==
  /\ At(p, "check")
  /\ Goto(p, IF Cache!Contains(eventCache, procs[p].event) THEN "exists" ELSE "store")
  /\ eventCache' = Cache!Add(eventCache, procs[p].event)
  /\ UNCHANGED <<aggVars, pipeVars, stopPc, loop, subs, storeVars, historyVars, restarts>>

CheckCache(p) ==
  /\ At(p, "check")
  /\ Goto(p, IF Cache!Contains(eventCache, procs[p].event) THEN "exists" ELSE "store")
  /\ UNCHANGED <<aggVars, pipeVars, stopPc, loop, subs, eventCache, storeVars,
                 historyVars, restarts>>

\* A cached event is skipped only when the store has it; a failing lookup goes on.
SkipDuplicate(p) ==
  /\ At(p, "exists")
  /\ procs[p].event \in store /\ ~ctxDone
  /\ Done(p)
  /\ UNCHANGED <<aggVars, pipeVars, stopPc, loop, subs, eventCache, storeVars,
                 historyVars, restarts>>

ExistsFailsOrNot(p) ==
  /\ At(p, "exists")
  /\ Goto(p, "store")
  /\ UNCHANGED <<aggVars, pipeVars, stopPc, loop, subs, eventCache, storeVars,
                 historyVars, restarts>>

\* Variants of StoreEvent: an id the store has is taken again; processEvent
\* returns as soon as the event is stored.
StoreDuplicate(p) ==
  /\ At(p, "store")
  /\ ~ctxDone /\ copies[procs[p].event] < MaxCopies
  /\ Stored(procs[p].event)
  /\ procs' = [procs EXCEPT ![p] = [pc |-> "cache", event |-> @.event,
                                     copy |-> copies[@.event] + 1]]
  /\ UNCHANGED <<aggVars, pipeVars, stopPc, loop, subs, eventCache, bypassed,
                 historyVars, restarts>>

StoreAndReturn(p) ==
  /\ At(p, "store")
  /\ ~ctxDone /\ procs[p].event \notin store
  /\ Stored(procs[p].event)
  /\ Done(p)
  /\ UNCHANGED <<aggVars, pipeVars, stopPc, loop, subs, eventCache, bypassed,
                 historyVars, restarts>>

\* The store refuses an id it already has.
StoreEvent(p) ==
  /\ At(p, "store")
  /\ ~ctxDone /\ procs[p].event \notin store
  /\ Stored(procs[p].event)
  /\ procs' = [procs EXCEPT ![p] = [pc |-> "cache", event |-> @.event,
                                     copy |-> copies[@.event] + 1]]
  /\ UNCHANGED <<aggVars, pipeVars, stopPc, loop, subs, eventCache, bypassed,
                 historyVars, restarts>>

\* Variants of StoreFails: the error is logged and the handlers run all the same;
\* the worker returns instead of taking the next event.
StoreFailsAndGoesOn(p) ==
  /\ At(p, "store")
  /\ Goto(p, "dispatch")
  /\ UNCHANGED <<aggVars, pipeVars, stopPc, loop, subs, eventCache, storeVars,
                 historyVars, restarts>>

StoreFailsAndExits(p) ==
  /\ At(p, "store")
  /\ Goto(p, "exited")
  /\ UNCHANGED <<aggVars, pipeVars, stopPc, loop, subs, eventCache, storeVars,
                 historyVars, restarts>>

\* A duplicate, a cancelled context or a database error: the event is dropped.
StoreFails(p) ==
  /\ At(p, "store")
  /\ Done(p)
  /\ UNCHANGED <<aggVars, pipeVars, stopPc, loop, subs, eventCache, storeVars,
                 historyVars, restarts>>

AddToCache(p) ==
  /\ At(p, "cache")
  /\ eventCache' = Cache!Add(eventCache, procs[p].event)
  /\ Goto(p, "dispatch")
  /\ UNCHANGED <<aggVars, pipeVars, stopPc, loop, subs, storeVars, historyVars, restarts>>

CopyOf(p) == <<procs[p].event, procs[p].copy>>

QueueInteraction(p) ==
  /\ At(p, "dispatch") /\ KindOf[procs[p].event] = "interaction"
  /\ QueueUpdate(UpdateOf[procs[p].event])
  /\ counted' = counted \union {CopyOf(p)}
  /\ Goto(p, "finish")
  /\ UNCHANGED <<pipeVars, stopPc, loop, subs, eventCache, storeVars, finished,
                 handled, cutOff, restarts>>

\* Kind 3 updates the graph, kind 10002 the relay hints, others nothing.
OtherKindHandled(p) ==
  /\ At(p, "dispatch") /\ KindOf[procs[p].event] # "interaction"
  /\ Goto(p, "finish")
  /\ UNCHANGED <<aggVars, pipeVars, stopPc, loop, subs, eventCache, storeVars,
                 historyVars, restarts>>

\* Variant of DirectoryFails: an event of any kind may end there.
AnyKindFails(p) ==
  /\ At(p, "dispatch")
  /\ Done(p)
  /\ finished' = finished \union {CopyOf(p)}
  /\ UNCHANGED <<aggVars, pipeVars, stopPc, loop, subs, eventCache, storeVars, counted,
                 handled, cutOff, restarts>>

\* An error in the graph or the hints ends processEvent early.
DirectoryFails(p) ==
  /\ At(p, "dispatch") /\ KindOf[procs[p].event] = "directory"
  /\ Done(p)
  /\ finished' = finished \union {CopyOf(p)}
  /\ UNCHANGED <<aggVars, pipeVars, stopPc, loop, subs, eventCache, storeVars, counted,
                 handled, cutOff, restarts>>

\* Retention evaluation, whose errors are only logged, then the event handlers.
FinishEvent(p) ==
  /\ At(p, "finish")
  /\ finished' = finished \union {CopyOf(p)}
  /\ handled' = handled \union {CopyOf(p)}
  /\ Done(p)
  /\ UNCHANGED <<aggVars, pipeVars, stopPc, loop, subs, eventCache, storeVars, counted,
                 cutOff, restarts>>

-------------------------------------------------------------------------------
(* Stop, and what the rest of the process does to the engine. *)

StopCancels ==
  /\ stopPc = "running"
  /\ stopPc' = "cancelled"
  /\ Cancel
  /\ UNCHANGED <<pipeVars, loop, subs, procs, eventCache, storeVars, historyVars, restarts>>

\* Variant of StopClosesEvents: the channel stays open.
StopKeepsEventsOpen ==
  /\ stopPc = "cancelled"
  /\ stopPc' = "eventsClosed"
  /\ UNCHANGED <<aggVars, pipeVars, loop, subs, procs, eventCache, storeVars,
                 historyVars, restarts>>

StopClosesEvents ==
  /\ stopPc = "cancelled"
  /\ stopPc' = "eventsClosed"
  /\ eventsClosed' = TRUE
  /\ UNCHANGED <<aggVars, eventChan, loop, subs, procs, eventCache, storeVars,
                 historyVars, restarts>>

StopClosesAggregates ==
  /\ stopPc = "eventsClosed"
  /\ stopPc' = "waiting"
  /\ CloseAggregates
  /\ UNCHANGED <<pipeVars, loop, subs, procs, eventCache, storeVars, historyVars, restarts>>

\* Variant of StopReturns: nobody waits for the workers.
StopReturnsEarly ==
  /\ stopPc = "waiting"
  /\ loop = "exited" /\ batcher = "exited"
  /\ stopPc' = "stopped"
  /\ UNCHANGED <<aggVars, pipeVars, loop, subs, procs, eventCache, storeVars,
                 historyVars, restarts>>

\* wg.Wait: the relay goroutines are not in the wait group.
StopReturns ==
  /\ stopPc = "waiting"
  /\ \A p \in Processors: procs[p].pc = "exited"
  /\ loop = "exited" /\ batcher = "exited"
  /\ stopPc' = "stopped"
  /\ UNCHANGED <<aggVars, pipeVars, loop, subs, procs, eventCache, storeVars,
                 historyVars, restarts>>

BatcherStep ==
  /\ Batcher
  /\ UNCHANGED <<pipeVars, stopPc, loop, subs, procs, eventCache, storeVars,
                 historyVars, restarts>>

\* Retention deletes an event from the store.
Prune(e) ==
  /\ e \in store /\ copies[e] < MaxCopies
  /\ store' = store \ {e}
  /\ UNCHANGED <<aggVars, pipeVars, stopPc, loop, subs, procs, eventCache, copies,
                 bypassed, historyVars, restarts>>

\* The copies processors have in their hands.
Held == {CopyOf(p) : p \in {q \in Processors: procs[q].copy # 0}}

\* The process dies - killed, or by a panic - and starts again: the database
\* stays, the channels, the maps and the cache are gone.
CrashAndRestart ==
  /\ restarts < MaxRestarts
  /\ restarts' = restarts + 1
  /\ eventChan' = << >> /\ eventsClosed' = FALSE
  /\ stopPc' = "running"
  /\ loop' = "running"
  /\ subs' = [s \in Subscriptions |-> IdleSub]
  /\ procs' = [p \in Processors |-> Free]
  /\ eventCache' = Cache!NewEventCache
  /\ finished' = finished \union Held /\ cutOff' = cutOff \union Held
  /\ ctxDone' = FALSE /\ aggregateChan' = << >> /\ aggClosed' = FALSE
  /\ replies' = EmptyMap /\ reactions' = EmptyMap /\ zaps' = EmptyMap
  /\ batcher' = "select" /\ leaving' = FALSE /\ panicked' = FALSE
  /\ UNCHANGED <<table, accepted, writeFailed, storeVars, counted, handled>>

-------------------------------------------------------------------------------
ProcessEvent(p) ==
  \/ CheckCache(p) \/ SkipDuplicate(p) \/ ExistsFailsOrNot(p)
  \/ StoreEvent(p) \/ StoreFails(p) \/ AddToCache(p)
  \/ QueueInteraction(p) \/ OtherKindHandled(p) \/ DirectoryFails(p)
  \/ FinishEvent(p)

Relay(s) ==
  \/ LaunchRelay(s) \/ NegentropyEnds(s) \/ SubscriptionEnds(s)
  \/ SendEvent(s) \/ GiveUpSending(s)
  \/ \E e \in Events: NegentropySave(s, e) \/ RelayDelivers(s, e)

Refresh == RefresherExits \/ \E e \in Events: RefreshFetches(e)

Stop == StopCancels \/ StopClosesEvents \/ StopClosesAggregates \/ StopReturns

Step ==
  \/ SyncLoopExits
  \/ \E s \in Subscriptions: Relay(s)
  \/ \E w \in Workers: TakeEvent(w) \/ WorkerExits(w)
  \/ Refresh
  \/ \E p \in Processors: ProcessEvent(p)
  \/ BatcherStep
  \/ Stop
  \/ \E e \in Events: Prune(e)

Next == (~panicked /\ Step) \/ CrashAndRestart

Spec == Init /\ [][Next]_vars

\* The scheduler runs every goroutine; blocked senders of a channel queue up in
\* order; a select picks at random among its ready cases; a subscription ends
\* with its 30 s timeout.  Nothing makes relays deliver or Stop be called.
Alive(A) == ~panicked /\ A

Fairness ==
  /\ \A p \in Processors: WF_vars(Alive(ProcessEvent(p)))
  /\ WF_vars(Alive(\E w \in Workers: TakeEvent(w)))
  /\ \A w \in Workers: WF_vars(Alive(WorkerExits(w)))
  /\ SF_vars(Alive(RefresherExits))
  /\ \A s \in Subscriptions: /\ SF_vars(Alive(SendEvent(s)))
                             /\ WF_vars(Alive(SubscriptionEnds(s)))
                             /\ WF_vars(Alive(NegentropyEnds(s)))
                             /\ WF_vars(Alive(GiveUpSending(s)))
  /\ SF_vars(Alive(SyncLoopExits))
  /\ SF_vars(Alive(Receive /\ BatcherStep))
  /\ SF_vars(Alive(SeeCancelled /\ BatcherStep))
  /\ WF_vars(Alive(Flush /\ BatcherStep))
  /\ WF_vars(Alive(StopClosesEvents \/ StopClosesAggregates \/ StopReturns))

FairSpec == Spec /\ Fairness

-------------------------------------------------------------------------------
(* Correctness. *)

SubStates ==
  [pc: {"idle", "negentropy", "receiving", "sending"}, event: Events \union {NoEvent}]

ProcStates ==
  [pc: {"idle", "check", "exists", "store", "cache", "dispatch", "finish", "exited"},
   event: Events \union {NoEvent}, copy: Nat]

\* The variables of the engine proper have their types; those of the aggregate
\* path are AggregateWorker's.
TypeOK ==
  /\ eventChan \in Seq(Events) /\ Len(eventChan) <= ChanCap
  /\ eventsClosed \in BOOLEAN
  /\ stopPc \in {"running", "cancelled", "eventsClosed", "waiting", "stopped"}
  /\ loop \in {"running", "exited"}
  /\ subs \in [Subscriptions -> SubStates]
  /\ procs \in [Processors -> ProcStates]
  /\ eventCache \in Cache!EventCaches
  /\ store \in SUBSET Events
  /\ copies \in [Events -> Nat]
  /\ counted \in SUBSET (Events \X Nat)
  /\ finished \in SUBSET (Events \X Nat)
  /\ handled \in SUBSET (Events \X Nat) /\ cutOff \in SUBSET (Events \X Nat)
  /\ bypassed \in SUBSET (Events \X Nat)
  /\ restarts \in Nat

Abstract == INSTANCE Ingestion

\* The pipeline implements Ingestion: concurrent workers that meet the same
\* event, the hourly refresh, negentropy, pruning and crashes never make one
\* stored copy of an event reach the aggregate queue twice, and the store never
\* takes a second copy while it has one (processEvent, engine.go:535-605).
ImplementsIngestion == Abstract!Spec

Copies == {c \in Events \X (1 .. MaxCopies): c[2] <= copies[c[1]]}

Owners(c) == {p \in Processors: procs[p].copy # 0 /\ CopyOf(p) = c}

\* Every stored copy is either done with or in the hands of exactly one
\* goroutine: processEvent has one owner for it from the store to its return,
\* and no copy is processed by two.
OneOwnerPerCopy ==
  \A c \in Copies: IF c \in finished THEN Owners(c) = {} ELSE Cardinality(Owners(c)) = 1

\* A failed or refused store never makes the deduplication cache skip an event
\* the store has never seen: the cache is filled after StoreEvent succeeds.
CacheKnowsOnlyStored == \A e \in eventCache.cache: copies[e] > 0

\* End to end: the reply count a page shows for a note is at most the number of
\* stored copies of replies to it, with duplicates from several relays, several
\* workers, dropped updates, failed writes and restarts in between.
RepliesTo(t) ==
  {e \in Events: KindOf[e] = "interaction" /\ UpdateOf[e].type = "reply" /\ UpdateOf[e].target = t}

CountsNeverInflated ==
  \A t \in Targets: table[t].replies <= SumFunctionOnSet(copies, RepliesTo(t))

\* Who may be left without a call of the event handlers: what negentropy stored,
\* what a crash cut off, and a contact or relay list whose update of the graph or
\* the hints failed, which ends processEvent early (engine.go:559-579).
NeverHandled(c) ==
  \/ c \in bypassed \union cutOff
  \/ c \in finished /\ KindOf[c[1]] = "directory"

\* When Stop has returned nothing is half done: no event waits in the channel,
\* every stored copy but these had its handlers called, and the batcher has gone.
\* A worker that met the cancelled context half way still went to the end.
StopLeavesNothingHalfDone ==
  stopPc = "stopped" => /\ eventChan = << >>
                        /\ \A c \in Copies: c \in handled \/ NeverHandled(c)
                        /\ batcher = "exited"

\* Every stored interaction that nobody works on any more was offered to the
\* aggregates (queueReactionUpdate, queueReplyUpdate, queueZapUpdate).
StoredInteractionsAreCounted ==
  \A c \in finished: KindOf[c[1]] = "interaction" => c \in counted

\* A relay goroutine that waits for room in eventChan gets on: workers always
\* come back for the next event, whatever happens to the one they had, and
\* never wait for the batcher (engine.go:497-502, :525-528, :736-746).
BlockedSendersProceed ==
  \A s \in Subscriptions: subs[s].pc = "sending" ~> (subs[s].pc # "sending" \/ panicked)

\* Stop returns once it is called, unless the process panics meanwhile.
StopReturnsOrPanics == stopPc = "cancelled" ~> (stopPc = "stopped" \/ panicked)

\* "Stop gracefully stops the sync engine" (engine.go:145): stopping does not
\* bring the process down.
NoSendOnClosedChannel == ~panicked
===============================================================================
