# nophr in TLA+

nophr is a personal gateway: it copies the Nostr events of one owner, of the
people around them and of those who interact with them from relays into a local
event store, keeps counts of replies, reactions and zaps, forgets what its
retention rules no longer want, and serves the rest over Gopher, Gemini and
Finger. This directory models the path from the relays to the tables, what the
servers make of the tables, and the life of the process around both, checks the
models with TLC on small instances and proves part of them with TLAPS for every
instance.

Paths below are relative to the repository.

## 1. Inventory

| Component | State it keeps | Operations | Talks to | What is hard |
|---|---|---|---|---|
| Sync engine (`internal/sync/engine.go`, `negentropy.go`) | `eventChan` (5000), `aggregateChan` (1000), a context, a wait group | `Start`, `Stop`, `syncOnce`, relay goroutines, `eventWorker`, `processEvent`, `periodicRefresh` | store, cache, graph, hints, retention, exporters | many goroutines, two channels that `Stop` closes, the same event from several relays |
| Dedup cache (`internal/sync/eventcache.go`) | a map and a ring of ids | `Add`, `Contains`, `Size`, `Clear` | engine | eviction at the wrap of the ring |
| Aggregate path (`engine.go:714-884`, `internal/storage/aggregates.go`) | three maps of pending updates, the `aggregates` table | queue, accumulate, flush every 200 ms | engine, store | dropped, coalesced, failed and half-done writes, the flush at shutdown |
| Retention rules (`internal/retention`) | sorted rules | `EvaluateEvent` | aggregates, graph | priorities, nested conditions, what a missing value means |
| Retention manager (`internal/ops/retention.go`, `internal/storage/retention_metadata.go`) | the `retention_metadata` table, `stopChan`, `doneChan` | evaluate on ingest, re-evaluate, prune, enforce caps, `Stop` | store, rules | three goroutines that work from lists they read earlier |
| Event store (`internal/storage`) | khatru's event table (SQLite) | `StoreEvent`, `EventExists`, `DeleteEvent`, queries | everyone | refuses duplicates; survives a crash |
| Social graph, cursors, relay hints (`internal/sync/graph.go`, `cursors.go`, `filters.go`, `internal/nostr`) | `graph_nodes`, `sync_state`, `relay_hints`, `relay_capabilities` | process kind 3 and 10002, compute mutuals, choose authors, relays and `since` | engine | several upserts per event, events out of order, two workers at once |
| Aggregates manager (`internal/aggregates`) | none of its own | threading, listings, reaction and zap parsing, reconciler | store, servers | NIP-10 markers and the older tags without; a thread read in several queries; limits applied before filters |
| Protocol servers (`internal/gopher`, `gemini`, `finger`) | listener, wait group | accept, route, render, `Stop` | store, sections | links that must resolve while the store changes; `Stop` while connections come in |
| Exporters (`internal/exporter`) | files, a mutex | export on an owner's root event | engine (handler), store | several files, no transaction, several workers |
| Sections, search, entities, markdown, presentation | the sections, fixed at start | queries and formatting | store, servers | pagination bounds, sections that hide built-in pages |
| Response cache (`internal/cache`) | entries by key | get, set, expire, evict, invalidate | nothing in `main.go` uses it | check-then-act between two locks |
| Security (`internal/security`) | buckets, lists | allow, reset, clean up; validate | nothing in `main.go` uses it | three critical sections in one `Allow` |
| `cmd/nophr/main.go` | the process | start-up, signal, stops, deferred calls | all | the order of the stops, a start that fails half-way |
| Operations, configuration | none | backup, diagnostics, logging; parsing | all | - |

What makes each of them correct:

* **Engine**: a stored copy of an event is processed by one goroutine, once; an
  event that was not stored is not taken for a duplicate; relays are never
  blocked for ever; `Stop` returns and leaves nothing half done.
* **Cache**: it knows exactly the ids that arrived last, and map and ring agree.
* **Aggregates**: nothing is counted twice, the total agrees with the parts,
  updates do not wait for ever.
* **Rules**: the matching rule of the highest priority decides.
* **Retention**: only what some verdict allowed is deleted, the caps take no more
  than the excess, expired events go, `Stop` returns.
* **Graph, hints**: the scope is the owner's follows, a row of the graph comes from
  a stored contact list, a mutual follows back, the freshest hint counts, and only
  relays that people in the scope listed are asked.
* **Servers, sections**: every link served leads to a page of the promised kind; the
  pages of a listing partition it; what the owner wrote can be reached from the home
  page; a thread shows the replies its query returned.
* **Exporters**: what was exported stays listed while it is among the newest, and an
  export that was not cut short has no dangling link.
* **Response cache**: it stays within its size, and only those who may drop a fresh
  value do, whatever is stored while an invalidation is under way. **Rate limiter**: a client gets no more than its bucket and its rate.
* **Process**: nobody uses the store after it was closed but those no `Stop` waits
  for; a shutdown ends.

The hazards, each at its line and with the properties aimed at it, are in
`PROJECT.json`.

## 2. Modules

| Module | Models | State and actions |
|---|---|---|
| `EventCache` | `eventcache.go` as a value | operators `Add`, `Contains`, `Size`, `Clear` on a record of `cache`, `keys`, `position` |
| `EventCacheMachine` | the life of one cache | `AddId`, `ClearAll`; extends `EventCache` |
| `RecentWindow` | abstract: the `MaxSize` ids added last, in order of arrival: neither `Contains` nor an `Add` of a known id moves one | refined by `EventCacheMachine` |
| `AggregateStore` | the `aggregates` table | one operator per SQL write; `NoRow` for a missing row |
| `AggregateWorker` | queue and batcher | extends `AggregateStore`; one action per case of the batcher's `select`, one per map a flush writes, `QueueUpdate` for the three queue functions |
| `MCAggregateWorker` | properties of the aggregate path | extends `AggregateWorker`; checked within `MCComponents` and by the two runs that fail |
| `SyncEngine` | the ingestion pipeline | extends `AggregateWorker`, instantiates `EventCache`; one action per step of `processEvent` between which another goroutine can come, one per step of `Stop`, one per event of a relay goroutine |
| `Ingestion` | abstract: a copy of an event is stored, counted at most once, pruned | refined by `SyncEngine` |
| `MCSyncEngine` | instance: a reply, a contact list | extends `SyncEngine` |
| `RetentionEngine` | the rules | operators from a context (what an evaluation reads) to a decision |
| `RetentionManager` | ingest, re-evaluation, pruner, `Stop` | extends `RetentionEngine`; reading and writing are separate actions, and a pass works from the list it read |
| `MCRetention` | instance: four rules, two events | extends `RetentionManager` |
| `SocialGraph` | `graph_nodes` and what is read from it (`graph.go`, `graph_nodes.go`) | the table as a function of root and pubkey; one operator per query or upsert, `GetAuthorsInScope`, `ApplyLimits` |
| `RelayHints` | `relay_hints`, the parsing of relay lists, the choice of relays | the table as a function of pubkey and relay; `SaveRelayHint`, `GetOutboxRelays`, `GetActiveRelays` |
| `Directory` | bootstrap, kinds 3 and 10002 in `processEvent`, what a sync iteration reads | extends `SocialGraph`, instantiates `RelayHints`; one action per SQL statement of `ProcessContactList`, `ComputeMutuals` and the saving of hints |
| `MCDirectory` | instance: the owner, a friend, a stranger; beside it the response cache | a behaviour is one of `Directory` or of `ResponseCache`, which share no variable |
| `Threading` | `aggregates/threading.go` | operators from the e tags of an event to root, reply and mentions |
| `Queries` | `aggregates/queries.go`, `storage.QueryEvents`, `search.go` | the store is a set of events; an operator per query, and one per statement of `GetThreadByEvent` |
| `Sections` | `internal/sections` | operators: load, resolve, page of a section, its "more" link |
| `GopherSite`, `GeminiSite` | routers and renderers of the two servers | `Route` and one operator per handler, from the store and a path to a page: its form or status, the events it shows, its links, its thread |
| `FingerHandler` | `finger/handler.go` | `Handle`, from a query to what is shown |
| `Browsing` | readers and a store that changes | extends `GopherSite`, `FingerHandler`, instantiates `GeminiSite`; a request that reads once is one action, a note or a thread is one action per query |
| `MCBrowsing` | instance: ten events, three configurations | extends `Browsing` |
| `ResponseCache` | `internal/cache`: memory, keys, invalidator | one action per critical section; `lookups` is what a `Get` or `Has` found before it gave up the read lock, `removals` the patterns a call of the invalidator has yet to remove |
| `RateLimiter` | `security/ratelimit.go` | one action per critical section of `Allow`; buckets live on a heap, because callers keep one that left the table |
| `StaticExport` | `internal/exporter` | one action per query or file of an export; a file is the list of its links |
| `Process` | `run()` and the accept loops | one action per step of the start, of each `Stop` and of the deferred calls; one per step of a connection |
| `MCComponents` | instance: five machines side by side | a behaviour is a behaviour of one of `EventCacheMachine`, `AggregateWorker`, `RateLimiter`, `StaticExport` and `Process`, which share no variable |
| `SyncEngine_proofs`, `AggregateWorker_proofs`, `Directory_proofs`, `Retention_proofs`, `CachesAndLimiter_proofs`, `ProcessAndExport_proofs`, `Browsing_proofs` | theorems | extend the modules they are about |
| `Sums_proofs` | lemmas | sums over finite sets, least and greatest numbers, places in an order; extended by those that count |

How state corresponds, where it is not by name: `procs[p]` is the program counter
of a goroutine in `processEvent` with the event it holds, for each worker and for
the hourly refresh; `subs[s]` is one running `syncRelayWithFallback`; `stopPc` is
where `Stop` is; `store` is the set of ids in the event table; `panicked` means
that a goroutine panicked, which ends a Go process, so nothing moves after it but
`CrashAndRestart`. In `Directory`, `jobs[p]` is a worker, or bootstrap, in the
middle of one event: where it is, the event, the names or rows still to be saved and
what it has read. In `RetentionManager`, `ingest`, `reEval` and `pruner` are the
program counters with their lists, and `profile[e]` is what an evaluation of `e`
would read at this moment: it changes at any time, because interactions arrive
and the graph changes while verdicts are made. In `Browsing`, `view` is the note or
thread request whose queries have begun, with what they returned so far, and `page`
is the last answer, from which a reader takes the next link. In `Process`, `main` is
where `run()` is, and `goroutines`, `servers` and `connections` are the program
counters of everybody else.

History variables (they guide no action): `accepted`, `writeFailed`, `copies`,
`counted`, `handled`, `finished`, `cutOff`, `bypassed`, `unsafe`, `saved`, `gone`, `pruned`, `exported`, `intact`,
`granted`, `extra`, `swept`, `late`. `copies` numbers the times an event was
stored. Pruning and a later sync may store it again. A copy is `handled` once
`notifyEventHandlers` was reached for it; it is `finished` when nobody will touch it again,
which is also so after an early return of `processEvent`, a save by negentropy or a crash
(`cutOff`).

Definitions named as a variant (`AddWithoutWrap`, `StoreAndReturn`, ...) are altered
forms of the definition that follows them. Nothing uses them: replacing the
definition by its variant must make the property that `PROJECT.json` names fail,
which shows that the property depends on that piece of code.

### External behaviour

* khatru with the eventstore SQLite backend: `StoreEvent` refuses an id it has,
  fails on a cancelled context, and may fail otherwise (`StoreFails`).
* Relays and the go-nostr pool deliver any event any number of times, in any
  order, until the subscription ends.
* A query of the event store returns the newest matches, at most its limit and never
  more than a cap of its own (`EngineLimit`).
* A select whose case sends on a closed channel panics; a transaction does not
  begin on a cancelled context; `database/sql` may use any connection of the pool,
  so the foreign key of `retention_metadata`, enforced on the connection that
  executed the PRAGMA only, makes a write fail or not (`StorageFails`).

## 3. What the runs check

| Run | Instance and bounds | Shows |
|---|---|---|
| `components` | five machines, see below; fairness | `SetMatchesRing`, `Bounded`, `ImplementsRecentWindow`; `NothingCountedTwice`, `TotalIsSumOfCounts`, `UpdatesDrain`, `CancelledBatcherExits`; `AllowanceBounded`; `SiteListsNewestRoots`; `StoreOutlivesItsUsers`, `ShutdownFinishes` |
| `browse` | 10 events, 2 initial stores, 3 configurations, 2 arrivals or prunings | `LinksResolve`, `PagesPartitionListing`, `ContentIsReachable`, `ThreadShowsItsReplies` |
| `sync_safety` | 2 workers, refresh, 1 relay goroutine with negentropy and fallback, channels and cache of 1, 2 copies of a reply, 1 restart | `OneOwnerPerCopy`, `CacheKnowsOnlyStored`, `CountsNeverInflated`, `ImplementsIngestion` |
| `sync_stop` | 1 worker, refresh, 1 relay goroutine, a reply and a contact list, `Stop` at any moment, fairness | `StopReturnsOrPanics`, `BlockedSendersProceed`, `StopLeavesNothingHalfDone`, `StoredInteractionsAreCounted` |
| `sync_panic` | the same without fairness | violated: `NoSendOnClosedChannel` |
| `aggregate_coalescing` | the aggregate path of `components` with two times, writes succeed | violated: `CountsCatchUp` |
| `aggregate_overwrite` | the same, writes succeed | violated: `ReactionsKeepOtherCounts` |
| `directory` | bootstrap and 2 workers, mode foaf, 2 contact lists, 3 relay lists, 3 relays, failing statements, 1 crash or failed start; or the response cache, see below | `ScopeRowsAreOwnersFollows`, `RelaysOfStrangersAreNotAsked`, `NewestRelayListWins`, `GraphComesFromStore`, `MutualsFollowBack`; `SizeStaysBounded`, `FreshEntriesStay` |
| `retention` | 2 events, 4 rules, cap 1, 2 ticks, a failing database | `HighestPriorityDecides`, `UnjudgedAndProtectedStay`, `CapsDeleteNoMoreThanExcess` |
| `retention_live` | 2 events that expire, a batch of 2, fairness | `ExpiredEventsGo`, `StopComesBack` |
| `retention_starved` | the same, a batch of 1 | violated: `ExpiredEventsGo` |
| `retention_stop` | re-evaluation worker not started | violated: `StopComesBack` |

The machines of `components`: the event cache with 3 slots and 5 ids, which wraps,
evicts and is cleared in every way; the aggregate path with 1 target, 2 reactions,
one time (two in the runs that look for the overwritten counts), a queue of 2, 3 accepted
updates and failing writes; the limiter with 2
callers of one client, 2 requests in a window of 2 ticks, 5 ticks (the cleanup needs
more than two windows), 2 buckets and one reset; both exporters with 2 workers, 4
events and one mishap (a failing step, a pruned event or a crash); the process with
three servers, any of them configured, and one connection. The run `directory` has the
response cache beside it: 3 keys, values of 1 and 3 in a cache of 2, one reader, one
goroutine that deletes, clears or invalidates, two events that do so on arrival (a
profile with four patterns, a note with three), two ticks. Putting machines into one run
changes nothing for any of them: the variables of the others stand still, and fairness
of a machine that stands still asks nothing. Empty values in the cache, and more callers
than the rate, are not in the instance; the theorems about both cover them.

Why the bounds are enough. Channels of capacity one are full and empty in every
state where the real ones would be at their limits. Two workers are the smallest
number that race on one event; what a third could do, the refresher does, and the
proof of `ImplementsIngestion` holds for any number. Two copies of one event are
the smallest number that tells "counted once per copy" from "counted once"; the
cache of one slot evicts at every insertion. Three updates with two
reactions fill the queue, meet in one map entry and leave one for the next flush.
In `directory` two workers are the smallest number that meet between two statements
of `ComputeMutuals`; the owner has an older and a newer list for one relay, which may
be handled in both orders and by bootstrap and a worker at once; the friend's list
names somebody the owner does not follow, and the owner's list names the owner, as
some clients write it. A friend is marked as mutual only if a p tag holds the npub,
which nothing validates, so the friend's list holds it. One crash gives a second
bootstrap over tables that are not empty. Limits other than the mode (`Allowlist`,
`Denylist`, `MaxAuthors`) are off in the instance. In retention one event is protected or expires with its interactions, the other
fails to evaluate or expires with its author's place in the graph; a cap of one
with two events is exceeded by one. Two ticks let a date pass and a verdict go
stale. A batch as large as the table and one that is smaller are the two cases
of the LIMIT.

The limits of the servers are scaled down so that each of them bites: 2 items on a
page (9 in the code), lists of 4 and 3 (100 and 50), searches of 3 and 4 (20 and 50),
3 events from a query (100), sections of 2 (20), a thread query between 4 and 6 replies
(200 and 2000; as in the code the store gives fewer than the thread asks for, so a
thread can be cut), 2 sats for a point (1000). Ten events are enough for every kind of tag
the code tells apart: a reply without marker, one with root and reply, a mention, a
reply of another thread that mentions this root, two older positional tags, a profile
and an article. The three configurations differ in sort mode, content filter, depth
limit and sections: none, sections beside the built-in pages, and sections that replace
the home page and a listing. Two changes of the store are enough for a root to go and
another event to come between two of the four queries of a thread. For the exporters,
one item per section makes a second note crowd out the first, and a reply use up the
place of one. One connection meets every step of a server's `Stop`; that a second
would not matter follows from the wait group counting both alike.

Named bounds: `MaxCopies`, `MaxRestarts` (pruning, crashes and failed starts), `MaxAccepted`
(updates), `MaxNow`, `MaxCacheTime` and `MaxLimiterTime` (clocks), `MaxBuckets`,
`MaxResets`, `MaxMishaps`, `MaxChurn` (arrivals and prunings while somebody reads),
`MaxPage` (how far a reader turns pages; more than any listing has). `MCSymmetry` permutes workers (and
subscriptions), in the two safety runs `sync_safety` and `directory` only. Deadlock is not checked where the system stops by design
(after `Stop`, a panic, at a bound, or, in `components`, when the process has ended or
every event is exported); `browse` checks it.

### Fairness

* A goroutine that can run does (weak fairness per goroutine).
* Of the ready cases of a select one is picked at random, so a case that is ready
  again and again is picked (strong fairness of `SendEvent`, `SeeCancelled`,
  `SyncLoopExits`, `RefresherExits`, `ReEvalExits`, `GoroutineExits`).
* A connection has a read and a write deadline, so its handler ends
  (`HandleConnection`); `Accept` on a closed listener returns (`AcceptorExits`).
  Nobody makes a client connect or a signal arrive.
* A subscription ends with its 30 s timeout (`SubscriptionEnds`).
* Tickers tick for ever. A database statement repeated on every pass does not fail
  every time (the fairness of `PruneTick` and `DeleteExpired`).
* Nothing makes a relay deliver, an interaction arrive, or `Stop` be called. `Stop`,
  once called, goes on.

## 4. Disagreements found

* **`Stop` can panic** (`sync_panic`). `Stop` closes both channels before it waits.
  A relay goroutine, which is in no wait group, or a worker that has just stored an
  interaction sends on a closed channel.
* **Coalesced updates are lost** (`aggregate_coalescing`). The maps of the batcher
  hold one entry per target, so two replies within 200 ms count as one.
* **Reactions wipe replies and zaps** (`aggregate_overwrite`). A row created by a
  reply has a NULL JSON column, reading it fails, and the failure is taken for "no
  row".
* **Old rows starve pruning** (`retention_starved`). Rows of deleted events are never
  removed and come first in every batch.
* **Shutdown hangs without advanced retention** (`retention_stop`). `Stop` waits for
  a channel that only a loop that was never started closes.

Without a run of their own, but visible in `Directory`, `RecentWindow` and `SyncEngine`:

* `processEvent` passes the npub of the configuration as root (`engine.go:559`, `564`),
  bootstrap and the sync loop the hex pubkey (`212`, `318`). The two halves of
  `graph_nodes` never meet. The scope is therefore what the last bootstraps saw of the
  owner's contact list: `ScopeRowsAreOwnersFollows` holds because of it. Mode `foaf`
  reaches no further than direct follows whatever the depth, and mode `mutual` only
  the owner, where `docs/nostr-integration.md:289-301` and `386-393` promise more.
* Someone who is no longer followed is never removed, and nothing compares
  `created_at` of contact lists.
* A relay that left the newest relay list keeps its row.
* The dedup cache is called an LRU cache (`eventcache.go:7`, `engine.go:34`, `536`) but
  evicts in order of arrival: `Add` returns when it knows the id, and `Contains` moves
  nothing (`eventcache.go:27-59`). An event that many relays keep sending drops out after
  5000 others all the same, and the check against the store takes over, so nothing is
  processed twice. `ImplementsRecentWindow` states what the code does and would fail for an
  LRU cache.
* Nothing updates the cursors, so `since` is 0 on every iteration (`engine.go:341`).
* The retention rules compare hex pubkeys with the configured npub (`main.go:105`), so
  the owner is never recognised as an author.

In the servers, as `GopherSite`, `GeminiSite`, `Queries` and `Sections` have them:

* "Back to note" of a Gopher thread is a menu item (type 1) that leads to a text page:
  an exception `LinksResolve` makes. No page links to a Gopher thread.
* A section whose path is that of a note, a profile or a page of a listing takes its
  place, because the router asks the sections first (`gopher/router.go:109`): a text link
  to such a note leads to a menu. `LinksResolve` names it (`Overridden`), and
  `PagesPartitionListing` is about the listings no section has replaced.
* A Gemini search link prompts for input, and an answer that is not `q=...` prompts
  again.
* The search is documented to get all matching events and rank them before the limit
  applies (`search.go`), but the query keeps its limit: older matches are never ranked.
* A note, thread or profile is "not found" when the database fails.
* A thread whose root is not stored draws the focus as root and, if the focus is a
  reply, a second time below it. A reply of another root that was asked for is not drawn.
* `GetPage` counts the events it fetched, so a section without an `is_reply` filter
  never has a next page, and no router asks for a second: what `PagesPartitionListing` says
  of sections is about the slices of `GetPage` only. In ascending order its second page repeats
  events of the first.
* Times relative to now in a section are fixed when the process starts.

In the parts beside them:

* A reader that met an expired entry deletes the fresh one that replaced it
  (`memory.go:52-55`, `133-137`): allowed by `FreshEntriesStay`, by name.
* An invalidation takes the lock for one pattern at a time (`invalidator.go:30-34`): a value
  stored between two patterns, from what was read before the event came, stays if its
  pattern is done.
* A note invalidates `section:notes:*:p0`, a pattern that matches no key of the memory
  cache, where only a trailing `*` counts.
* Two first requests at once get a bucket each (`ratelimit.go:49-59`): `extra` counts it.
* An exporter asks for twice as many events as it lists, and gets no more than the store's
  own cap, so replies can crowd out notes and `max_items` may not be reached; pages of events that are gone are never removed.
* `run()` that fails after a server was started closes the store under it
  (`StoreOutlivesItsUsers` says so); and without the re-evaluation worker, that is by
  default, not even this ends the process, which waits in `retentionMgr.Stop`.

## 5. What is proved

TLAPS checks these for every value of the constants that satisfies the named
assumptions. They say that sets which are sets of the program's objects are finite
(events, workers, targets, reactions, clients, callers, readers, keys), that capacities
and times are numbers, and that a configuration is one the code accepts
(`MaxSizeAssumption`, `NoIdAssumption`, `SyncAssumption`, `EventsAssumption`,
`WorkersAssumption`, `AggCapAssumption`, `TimesAssumption`, `FiniteAssumption`,
`GraphAssumption`, `DirectoryAssumption`, `RulesAssumption`, `ActionsAssumption`,
`RetentionAssumption`, `ProfilesAssumption`,
`CacheAssumption`, `LimiterAssumption`, `ServerOrderAssumption`, `BrowsingAssumption`,
`NotationAssumption`).

**`SyncEngine_proofs`** - `TypeCorrect` (`Spec => []TypeOK`) and `ExactlyOncePerCopy`
(`Spec => ImplementsIngestion`), for any number of workers, subscriptions, events,
restarts. The invariant says where a copy that is not yet counted can be:
a goroutine between the store and the queue holds a copy number that has been given
out and that no other goroutine holds, such a copy is not in `counted`, and every
counted copy was stored. It is needed because the abstract `Count` demands a copy
that was stored and not counted before, which `QueueInteraction` does not test: it
follows from the way through `processEvent` alone. One step per action shows that the
invariant is kept, and one per action that it maps to an abstract step or a stutter.

Four more theorems of the engine stand on that invariant. `EveryCopyHasOneOwner`
(`Spec => []OneOwnerPerCopy`) adds `Custody`: a copy that is finished was stored, one
that somebody holds is not finished, one that is stored and not finished is held, and
an interaction is counted before it is finished. `StopIsClean`
(`Spec => []StopLeavesNothingHalfDone`) adds `Quiescence`: a worker leaves only a channel
that is closed and empty, and once `Stop` has returned every goroutine it waits for has
exited; so, with `Custody`, every stored copy is finished. Which of them had their event
handlers called is `Accounted`: a finished copy is handled, or negentropy stored it, a
crash cut it off, or it is a contact or relay list, whose failed update ends
`processEvent` before the handlers. `CacheIsHonest`
(`Spec => []CacheKnowsOnlyStored`) holds because the cache is filled only after the
store. `InteractionsReachAggregates` is `StoredInteractionsAreCounted` where it holds:
without negentropy, whose library stores events without `processEvent`, and until the
process dies for the first time, for a crash may fall between store and queue.
`CountsAreNotInflated` (`Spec => []CountsNeverInflated`) goes from the relays to the table:
the replies of a target in the table, in the batcher's map and in the channel together
are at most the copies that were counted (`RepliesWereCounted`), and those are among the
copies that were stored.

**`AggregateWorker_proofs`** - `CountedOnce` (`AggSpec => []NothingCountedTwice`),
`TotalsAddUp` (`AggSpec => []TotalIsSumOfCounts`) and `AggregateTypes`, for any
targets, reactions and capacity, failing writes and a cancellation at any moment. What the
table holds is bounded only together with what waits in the maps and the channel, so the
invariant (`LoadsWereAccepted`) is about all three: an update moves from one to
the next or is lost, and is never in two of them.

**`Sums_proofs`** - the models count with a recursive function of the community
modules, and the library's induction theorems cannot be used with the provers at hand.
Its lemmas (a sum is a number, an index can be taken out, a part sums to no more)
are proved by looking at a smallest set for which they would fail.

**`Directory_proofs`** - `ScopeIsFixedByBootstrap`, `GraphIsBackedByStore` and
`FreshestHintIsKept`, `GraphHoldsNoInventions`, `StrangersChooseNoRelay` and `DirectoryTypes`,
for any number of workers, people, lists and relays, with failures and crashes. What the tables hold depends on what a goroutine still has in
hand, so the invariant (`JobOK`) carries it along: bootstrap holds a contact list of the
owner, at depth 1, and never computes mutuals; a worker that saves names holds a stored
list that contains them; and one that is about to mark somebody holds a row that a
stored list wrote and somebody whose stored list names the npub. These survive the
steps of all other goroutines because the store only grows and nobody else touches the
job. `StrangersChooseNoRelay` (`Spec => []RelaysOfStrangersAreNotAsked`) ties the three
tables together: every row a job has in hand or the table was given comes from a tag of a
relay list of its person (`ListedRows`), and the scope holds only the owner and people
with a row under the hex pubkey, in every mode and with every limit (`ScopeIsRows`).

**`Retention_proofs`** - `PrioritiesDecide` (`Spec => []HighestPriorityDecides`),
`JudgedBeforeDeleted` (`Spec => UnjudgedAndProtectedStay`) and `CapsAreLowerBound`
(`Spec => CapsDeleteNoMoreThanExcess`), for up to twelve rules (with
more, Go's sort may exchange rules of one priority) and any finite set of events, caps
and limits. A sorted rule is the one at its place, and the place of a rule is the number of
rules before it; that each place has one rule is an argument by counting, and the first
rule that matches is then the best. For the deletions the invariant (`PruneInv`) says what
is left of what the pruner read: who is unprotected in the table was once judged so, and
so were all on the list; and from the count to the last deletion the store keeps the cap
and the rest of the list, since only the pruner deletes. `RetentionTypes` (`Spec => []TypeOK`)
is more than the types (`TypeInv`): a worker that evaluates or writes has an event in hand,
a list that is being worked through is not empty, so no `Head` is taken of nothing, and
every row is the verdict of a rule, or the default, with a score of zero or more. That a
priority is not negative (`RulesAssumption`) is what `AdvancedRetention.Validate` demands.

**`CachesAndLimiter_proofs`** - of the deduplication cache, `RingMatchesSet` (`Spec => [](TypeOK /\ SetMatchesRing)`)
and `NeverOverfull` (`Spec => []Bounded`). `SetMatchesRing` alone is not inductive:
evicting a slot could take an id out of the set that another slot still holds, and
a set smaller than the ring could overwrite a slot without evicting. The inductive
invariant adds `NoDuplicateSlots`, `FillsInOrder` (slots fill from 0 up, so the write
position never meets a filled slot before all are) and that set and filled slots
have the same cardinality, which is what turns the code's test on the map's size
into "the ring is full". `RingImplementsWindow` (`Spec => ImplementsRecentWindow`) is
the step simulation on top of it: read from the write position backwards, the ring is
the window, so the slot that an `Add` overwrites is the window's oldest id.

Of the response cache, `SizeIsBounded` (`CacheSpec =>
[]SizeStaysBounded`) and `OnlyTheseDropFreshValues` (`CacheSpec => FreshEntriesStay`).
A reader judges an entry after it gave up the lock. The invariant (`SharedEntriesAgree`)
is that what it remembers still holds if the address under the key is still the one it
found, which rests on there always being an address no reader holds. An invalidation is a
list of patterns of which each step takes one, so the invariant also says that a call under
way has patterns left only for what it names (`RInvHolds`); its types are
`CacheTypes`. Of the limiter, `LimiterTypes` and `AllowanceIsKept` (`LimiterSpec => []AllowanceBounded`), with a
balance for each client: what was granted, one request for each caller that holds a bucket which
has left the table, and the tokens of the bucket less the time of its last refill never
exceed what the client was given. Rounding of the refill is on the limiter's side.

**`ProcessAndExport_proofs`** - of the process, `StoreIsClosedLast` (`ProcSpec => []StoreOutlivesItsUsers`), for
any servers in any order, any number of connections, every configuration and whatever
fails to start. That nobody is connected when the store is closed says nothing of the
servers that `Stop` has yet to reach, so the invariant follows the loop: a server is
*quiet* when its listener is not open and nobody is connected to it; the servers before
the one whose turn it is are quiet (`ServersGone`), a listener whose wait group is
awaited is closed, and only an open listener holds connections nobody has accepted
(`ServersReached`), without which an empty wait group would not mean that nobody is
left. A quiet server stays quiet (`QuietStaysQuiet`), also one that was not configured.
For the loops (`LoopsGone`), workers exist only if the engine was started and have
exited once it is stopped, and the re-evaluation loop has ended before the store is
closed. No fairness is used. `ProcessTypes` follows from the same invariant: a connection
belongs to a server of the configuration.

Of the exporters, `SitesListNewestRoots` (`ExportSpec => []SiteListsNewestRoots`) and
`ExportTypes`, for any finite set of events, any exporters in any order, any number of
workers, steps that fail, prunings and crashes. The listing goes stale between the two
queries and the last page, so the invariant (`ExportIInv`) follows what is *promised*: an
event whose export succeeded, or whose export this is, that is not pruned and still due.
What is promised only shrinks while the worker is inside (`DueBefore`: more events leave
less room, and none leaves the crowd), so what it read covers it to the end (`InHand`);
what it has written is what it read (`WrittenSoFar`), and its mutex keeps the others from
both (`Held`, `OthersAreKept`). A page is written after the three indices above it
(`PagesBelowTops`), so also a page that a failed export left behind has no dead link once
a later export succeeds. That an event that is due is in the listing is counting
(`NewestKept`): the place of an event in a query is the number of newer ones.

**`Browsing_proofs`** - `LinksLeadToPages` (`Spec => []LinksResolve`) and
`PagesPartition` (`Spec => []PagesPartitionListing`), for any finite set of events and
whatever they answer, any configurations, limits and number of page numbers, and events
that arrive and are pruned between and during requests. `BrowsingAssumption` says that
limits are positive, that no two events are equally old and that the paths of sections are
lists of names; `NotationAssumption`, that "no thread" is not a thread and that two page
numbers are not written alike. A link is followed in a store that is not the one the page
was made from, so `LinksResolve` alone is not inductive: the invariant (`Inv`) does not
mention what a link leads to, but what it can be (`PageInv`). It is a menu the router
knows, a page of a listing, a section of this configuration, or an event that was stored
at some time (`Known`), a profile only where one was. A
note or thread in the middle of its queries holds such events only (`ViewInv`), and this
survives every arrival and pruning, for what was stored once stays known. That each of
these is answered, now, is then a matter of the router: a known event is stored or
vanished, a selector of the site has a handler in front of which only a section can
stand (`MenusRouted`, `ListingsRouted`). For threads, no event shows that was not read
(`TreeFacts`): the depth function is built by recursion, but that a level holds only
nodes of the tree does not depend on how deep it is. `PagesPartition` rests on the
places of a ranking. In a finite set with a strict total order every place from the first to the
last is taken (`RankPlaces`, an argument by counting), so a listing is a sequence of the
events it selects and a page a slice of it; and a section page, cut from a query whose limit
grows with the page, is the slice of the query without limit, also where the store's own cap cuts
both. Links between pages are proved for listings only.

What the proofs changed. `AllowanceBounded` was false with more callers than the rate:
the cleanup may remove a bucket that more callers hold than it has tokens, so the bound now
has `swept`. `SizeStaysBounded` was false with empty values, which take no room and may stay
beside one that is too large. The rules were sorted with `SortSeq`, which says nothing of
ties; up to twelve rules the code's sort keeps their order, and
`Before` says so. The scope
was a sequence although only its members are used; it is a set now. `Due` left out the
store's own cap: where it is below twice `max_items`, newer replies crowd a root out
earlier. `LinksResolve` was false for a section at the path of a text. `PagesPartitionListing` used
to concatenate the pages a reader meets; it now says of each page which slice it shows and
when it has a next one, which implies the former. `NewestFirst`, the other listings and the
jobs of the exporters were written in a form the provers can expand, with the same value;
so were `Context` and the rows of `RetentionManager`, which used to be made with `@@`.

Only model-checked: the liveness properties (fairness and ENABLED are beyond the
prover); and two properties of `browse`:
`ContentIsReachable` follows links any number of times, and `ThreadShowsItsReplies` is about
what a recursion over the depth of a thread computes, which both need induction over
data. `ComponentsTypeOK` and `TablesTypeOK`, of the runs that put machines beside each other, join
their types, each of which is a theorem of the machine's own specification
(`DirectoryTypes`, `RingMatchesSet`, `AggregateTypes`, `CacheTypes`, `LimiterTypes`, `ExportTypes`, `ProcessTypes`).

## 6. What is abstracted or left out

* Event ids, pubkeys, contents: model values. Signatures, filters, logging, the
  text of a bolt11 invoice (the engine uses a constant, `Placeholder`) are left out.
* A zap amount is counted in units of that constant.
* A flush of one map is one action. Its transaction is atomic in the code for
  replies and zaps; for reactions the targets that were saved, or could not be read,
  are chosen freely.
* Days are ticks; an evaluation reads its clock once. A composite condition names
  its parts by id.
* The pruner's pass at start-up is one of the passes of the scheduler's; the age of
  an entry in a relay's capability cache does not influence what is checked.
* In `Directory` any event may arrive at a worker at any time after bootstrap, once;
  the queue, the cache and pruning are in `SyncEngine`. The ids of relay lists
  (`last_seen_event_id`) are left out. The relays of all authors are read in one step,
  bootstrap discovers one list at a time, and the owner's inbox is always asked
  (`include_direct_mentions`). That the handling of an event
  ends is not checked: with fairness the instance is too large for TLC's liveness check.
* In `Browsing` one reader asks at a time: handlers share nothing but the store, and the
  store changes between any two queries. A page is its form, the ids of the events it
  shows, its links and, for a thread, the tree; the text is left out. Created-at times
  are distinct. A word of a search is a member of the set of words of an event. Equal scores
  rank by age, where the code's sorts leave another order that is the same on every request.
* `Process` has one goroutine for each kind that uses the store. That the engine's
  `Stop` may panic is in `SyncEngine`.
* In `ResponseCache` and `RateLimiter` a clock of ticks stands for `time.Now`, and
  statistics are left out. In `StaticExport` a worker stores an event and calls the
  handlers; what comes before is `SyncEngine`.
* Not modelled: the reconciler, archives, cursors, `deny list`, backup and diagnostics,
  which nothing in `main.go` calls; Redis, an external service; configuration parsing,
  markdown, entities and presentation, which are formatting and keep no state; handlers
  and queries that nothing routes to (`handleOutbox`, `handleInbox`, `handleSection`,
  `GetInboxReplies`, `GetInboxReactions`, `GetThreadReplies`, `GetPopularNotes`).

## 7. Plan

1. `Directory` composed with `SyncEngine` in place of `OtherKindHandled` and
   `DirectoryFails`; the capability table that chooses between negentropy and REQ.
2. Simple retention by `keep_days` beside the advanced one; replaceable events in the
   store.
