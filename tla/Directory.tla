------------------------------- MODULE Directory -------------------------------
(***************************************************************************)
(* Who is synced, and where: bootstrap, the handling of contact lists       *)
(* (kind 3) and relay lists (kind 10002) in processEvent, and the reads of  *)
(* the sync loop.  Every SQL statement is a step of its own, so two workers *)
(* and the sync loop meet between any two of them; a statement may fail,    *)
(* and the process may crash and start again.                              *)
(*                                                                         *)
(* SyncEngine models how an event gets to a worker; here one just arrives.  *)
(* An event is stored once, and "store" keeps it: pruning is left to        *)
(* SyncEngine and RetentionManager.                                        *)
(*                                                                         *)
(* History: "saved" are the hints ever written.                             *)
(***************************************************************************)
EXTENDS SocialGraph

CONSTANTS
  ContactLists,  \* kind 3 events
  RelayLists,    \* kind 10002 events
  NoEvent,
  PubKey, CreatedAt,  \* functions of the events
  Contacts,      \* [ContactLists -> Seq(Names)]: the p tags
  Tags,          \* [RelayLists -> Seq(RelayTags)]: the r tags
  Relays, Seeds,
  Workers,       \* the goroutines that run processEvent
  Bootstrap,     \* the goroutine that runs Start
  StorageFails,  \* database statements may fail
  MaxRestarts    \* bound: crashes and failed starts followed by a restart

Table == INSTANCE RelayHints WITH Pubkeys <- Names

Events == ContactLists \union RelayLists

ASSUME DirectoryAssumption ==
  /\ ContactLists \intersect RelayLists = {} /\ NoEvent \notin Events
  /\ PubKey \in [Events -> Names] /\ CreatedAt \in [Events -> Nat]
  /\ Contacts \in [ContactLists -> Seq(Names)]
  /\ Tags \in [RelayLists -> Seq(Table!RelayTags)]
  /\ Seeds \subseteq Relays
  /\ Bootstrap \notin Workers
  /\ StorageFails \in BOOLEAN /\ MaxRestarts \in Nat

VARIABLES
  graph,      \* graph_nodes
  hints,      \* relay_hints
  store,      \* the events of these two kinds in the event table
  jobs,       \* what each worker, and bootstrap, is doing
  saved, restarts

historyVars == <<saved, restarts>>
vars == <<graph, hints, store, jobs, historyVars>>

Processors == Workers \union {Bootstrap}

\* Variant of Root: processEvent decodes the npub as bootstrap does.
HexRoot(p) == Owner

\* The name of the owner that each caller passes (engine.go:212, 559, 564).
Root(p) == IF p = Bootstrap THEN Owner ELSE Npub

Idle == [pc |-> "idle", event |-> NoEvent, depth |-> 1, names |-> << >>,
         rows |-> << >>, todo |-> {}, follow |-> Owner, node |-> NoNode]

Starting == [Idle EXCEPT !.pc = "seeds"]

Init ==
  /\ graph = [n \in Roots \X Names |-> NoNode]
  /\ hints = [n \in Names \X Relays |-> Table!NoHint]
  /\ store = {}
  /\ jobs = [p \in Processors |-> IF p = Bootstrap THEN Starting ELSE Idle]
  /\ saved = {} /\ restarts = 0

At(p, pc) == jobs[p].pc = pc
Started == At(Bootstrap, "idle")

Parsed(e) == Table!ParseRelayHints(PubKey[e], CreatedAt[e], Tags[e])

-------------------------------------------------------------------------------
(* ProcessContactList: one read of the author's depth, one upsert per p tag. *)

ReadDepth(p) ==
  /\ At(p, "contacts")
  /\ LET list == jobs[p].event
     IN  jobs' = [jobs EXCEPT
           ![p].pc = "saving",
           ![p].depth = DepthOfContacts(graph, Root(p), PubKey[list]),
           ![p].names = Contacts[list]]
  /\ UNCHANGED <<graph, hints, store, historyVars>>

SaveContact(p) ==
  /\ At(p, "saving") /\ jobs[p].names # << >>
  /\ graph' = SaveGraphNode(graph, Root(p), Head(jobs[p].names),
                            [depth |-> jobs[p].depth, mutual |-> FALSE,
                             last_seen |-> CreatedAt[jobs[p].event]])
  /\ jobs' = [jobs EXCEPT ![p].names = Tail(@)]
  /\ UNCHANGED <<hints, store, historyVars>>

-------------------------------------------------------------------------------
(* ComputeMutuals: list the direct follows, look at the stored list of each, *)
(* read its node again and save it.                                         *)

ListDirectFollows(p) ==
  /\ p \in Workers
  /\ At(p, "saving") /\ jobs[p].names = << >>
  /\ jobs' = [jobs EXCEPT ![p].pc = "checking",
                          ![p].todo = GetFollowingPubkeys(graph, Root(p))]
  /\ UNCHANGED <<graph, hints, store, historyVars>>

NewestStoredLists(pubkey) ==
  LET lists == {e \in ContactLists \intersect store: PubKey[e] = pubkey}
  IN  {e \in lists: \A other \in lists: CreatedAt[other] <= CreatedAt[e]}

\* Variant of FollowsBack: any contact list will do.
HasContactList(pubkey, root) == {NewestStoredLists(pubkey) # {}}

\* What the query may answer: of two newest lists it returns either.
FollowsBack(pubkey, root) ==
  IF NewestStoredLists(pubkey) = {}
  THEN {FALSE}
  ELSE {(root \in ToSet(Contacts[e])): e \in NewestStoredLists(pubkey)}

Checked(p, pubkey) ==
  jobs' = [jobs EXCEPT ![p].pc = "checking", ![p].todo = @ \ {pubkey},
                       ![p].follow = Owner, ![p].node = NoNode]

CheckFollow(p, pubkey) ==
  /\ At(p, "checking") /\ pubkey \in jobs[p].todo
  /\ \E isMutual \in FollowsBack(pubkey, Root(p)):
       IF isMutual
       THEN jobs' = [jobs EXCEPT ![p].pc = "reading", ![p].follow = pubkey]
       ELSE Checked(p, pubkey)
  /\ UNCHANGED <<graph, hints, store, historyVars>>

\* A failing query skips the follow, and so does a node that moved meanwhile.
SkipFollow(p, pubkey) ==
  /\ \/ At(p, "checking") /\ pubkey \in jobs[p].todo /\ StorageFails
     \/ /\ At(p, "reading") /\ pubkey = jobs[p].follow
        /\ StorageFails \/ pubkey \notin GetGraphNodes(graph, Root(p), 1)
  /\ Checked(p, pubkey)
  /\ UNCHANGED <<graph, hints, store, historyVars>>

ReadNode(p) ==
  /\ At(p, "reading")
  /\ jobs[p].follow \in GetGraphNodes(graph, Root(p), 1)
  /\ jobs' = [jobs EXCEPT ![p].pc = "marking",
                          ![p].node = [graph[<<Root(p), jobs[p].follow>>] EXCEPT !.mutual = TRUE]]
  /\ UNCHANGED <<graph, hints, store, historyVars>>

MarkMutual(p) ==
  /\ At(p, "marking")
  /\ graph' = SaveGraphNode(graph, Root(p), jobs[p].follow, jobs[p].node)
  /\ Checked(p, jobs[p].follow)
  /\ UNCHANGED <<hints, store, historyVars>>

MutualsComputed(p) ==
  /\ At(p, "checking") /\ jobs[p].todo = {}
  /\ jobs' = [jobs EXCEPT ![p] = Idle]
  /\ UNCHANGED <<graph, hints, store, historyVars>>

-------------------------------------------------------------------------------
(* Saving the rows of a relay list. *)

SavingHints == {"hints", "owner hints", "found hints"}

SaveHint(p) ==
  /\ jobs[p].pc \in SavingHints /\ jobs[p].rows # << >>
  /\ hints' = Table!SaveRelayHint(hints, Head(jobs[p].rows))
  /\ saved' = saved \union {Head(jobs[p].rows)}
  /\ jobs' = [jobs EXCEPT ![p].rows = Tail(@)]
  /\ UNCHANGED <<graph, store, restarts>>

HintsSaved(p) ==
  /\ jobs[p].pc \in SavingHints /\ jobs[p].rows = << >>
  /\ jobs' = [jobs EXCEPT ![p] = CASE At(p, "owner hints") -> [@ EXCEPT !.pc = "fetch"]
                                   [] At(p, "found hints") -> [@ EXCEPT !.pc = "discover"]
                                   [] OTHER -> Idle]
  /\ UNCHANGED <<graph, hints, store, historyVars>>

-------------------------------------------------------------------------------
(* bootstrap: the events it fetches are handled but not stored. *)

FetchOwnerRelays(e) ==
  /\ At(Bootstrap, "seeds") /\ Seeds # {}
  /\ PubKey[e] = Owner
  /\ jobs' = [jobs EXCEPT ![Bootstrap].pc = "owner hints", ![Bootstrap].rows = Parsed(e)]
  /\ UNCHANGED <<graph, hints, store, historyVars>>

\* Whichever of the owner's lists a seed sends first, or none.
FetchOwnerContacts ==
  /\ At(Bootstrap, "fetch")
  /\ \/ \E e \in ContactLists:
          /\ PubKey[e] = Owner
          /\ jobs' = [jobs EXCEPT ![Bootstrap].pc = "contacts", ![Bootstrap].event = e]
     \/ jobs' = [jobs EXCEPT ![Bootstrap].pc = "saving"]
  /\ UNCHANGED <<graph, hints, store, historyVars>>

BootstrapReadsScope ==
  /\ At(Bootstrap, "saving") /\ jobs[Bootstrap].names = << >>
  /\ \E authors \in GetAuthorsInScope(graph, Owner):
       jobs' = [jobs EXCEPT ![Bootstrap].pc = "discover", ![Bootstrap].todo = authors]
  /\ UNCHANGED <<graph, hints, store, historyVars>>

DiscoverRelayHints(e) ==
  /\ At(Bootstrap, "discover") /\ PubKey[e] \in jobs[Bootstrap].todo
  /\ jobs' = [jobs EXCEPT ![Bootstrap].pc = "found hints", ![Bootstrap].rows = Parsed(e)]
  /\ UNCHANGED <<graph, hints, store, historyVars>>

BootstrapEnds ==
  /\ At(Bootstrap, "discover")
  /\ jobs' = [jobs EXCEPT ![Bootstrap] = Idle]
  /\ UNCHANGED <<graph, hints, store, historyVars>>

\* No seeds or no relay list of the owner, and Start fails; main then exits.
NothingToStartFrom ==
  /\ At(Bootstrap, "seeds")
  /\ jobs' = [jobs EXCEPT ![Bootstrap] = [Idle EXCEPT !.pc = "failed"]]
  /\ UNCHANGED <<graph, hints, store, historyVars>>

-------------------------------------------------------------------------------
(* Workers and the sync loop run once Start has returned; the sync loop     *)
(* only reads.                                                              *)

\* Variant of StoreEvent: an event that could not be stored is handled all the same.
HandleUnstored(w, e) ==
  /\ Started /\ At(w, "idle") /\ e \notin store
  /\ jobs' = [jobs EXCEPT ![w].pc = IF e \in ContactLists THEN "contacts" ELSE "hints",
                          ![w].event = e,
                          ![w].rows = IF e \in ContactLists THEN << >> ELSE Parsed(e)]
  /\ UNCHANGED <<graph, hints, store, historyVars>>

StoreEvent(w, e) ==
  /\ Started /\ At(w, "idle") /\ e \notin store
  /\ store' = store \union {e}
  /\ jobs' = [jobs EXCEPT ![w].pc = IF e \in ContactLists THEN "contacts" ELSE "hints",
                          ![w].event = e,
                          ![w].rows = IF e \in ContactLists THEN << >> ELSE Parsed(e)]
  /\ UNCHANGED <<graph, hints, historyVars>>

\* What the sync loop reads: the outbox of every author, the owner's inbox for
\* mentions.
InboxRelays ==
  IF Table!GetInboxRelays(hints, Owner) = {}
  THEN Seeds
  ELSE Table!GetInboxRelays(hints, Owner)

\* The relays an iteration that began now might ask.
RelaysToAsk ==
  UNION {Table!GetActiveRelays(hints, authors) \union InboxRelays:
           authors \in GetAuthorsInScope(graph, Owner)}

-------------------------------------------------------------------------------
(* What goes wrong. *)

InStatement(p) ==
  \/ jobs[p].pc \in {"contacts", "saving", "marking"}
  \/ jobs[p].pc \in SavingHints /\ jobs[p].rows # << >>

\* An error ends processEvent, or bootstrap and with it the start.
StatementFails(p) ==
  /\ StorageFails /\ InStatement(p)
  /\ jobs' = [jobs EXCEPT ![p] = IF p = Bootstrap THEN [Idle EXCEPT !.pc = "failed"] ELSE Idle]
  /\ UNCHANGED <<graph, hints, store, historyVars>>

CrashAndRestart ==
  /\ restarts < MaxRestarts
  /\ restarts' = restarts + 1
  /\ jobs' = [p \in Processors |-> IF p = Bootstrap THEN Starting ELSE Idle]
  /\ UNCHANGED <<graph, hints, store, saved>>

-------------------------------------------------------------------------------

ProcessContactList(p) == ReadDepth(p) \/ SaveContact(p)

ComputeMutuals(p) ==
  \/ ListDirectFollows(p)
  \/ \E pubkey \in Names: CheckFollow(p, pubkey) \/ SkipFollow(p, pubkey)
  \/ ReadNode(p)
  \/ MarkMutual(p)
  \/ MutualsComputed(p)

\* The steps that nothing outside the process has a part in.
Work(p) == ProcessContactList(p) \/ ComputeMutuals(p) \/ SaveHint(p) \/ HintsSaved(p)

BootstrapStep ==
  \/ \E e \in RelayLists: FetchOwnerRelays(e) \/ DiscoverRelayHints(e)
  \/ FetchOwnerContacts
  \/ BootstrapReadsScope
  \/ BootstrapEnds
  \/ NothingToStartFrom

Next ==
  \/ \E p \in Processors: Work(p) \/ StatementFails(p)
  \/ \E w \in Workers, e \in Events: StoreEvent(w, e)
  \/ BootstrapStep
  \/ CrashAndRestart

Spec == Init /\ [][Next]_vars

-------------------------------------------------------------------------------
(* Properties. *)

Places == {"idle", "contacts", "saving", "checking", "reading", "marking", "hints",
           "seeds", "owner hints", "fetch", "discover", "found hints", "failed"}

Jobs ==
  [pc: Places,
   event: Events \union {NoEvent}, depth: Nat \ {0}, names: Seq(Names),
   rows: Seq(Table!HintRows), todo: SUBSET Names, follow: Names,
   node: Nodes \union {NoNode}]

\* Types; in particular no row of graph_nodes has a depth below 1.
TypeOK ==
  /\ graph \in Graphs
  /\ hints \in [Names \X Relays -> Table!Hints]
  /\ store \subseteq Events
  /\ jobs \in [Processors -> Jobs]
  /\ saved \subseteq Table!HintRows
  /\ restarts \in Nat

FollowedByOwner ==
  {p \in Names: \E e \in ContactLists: PubKey[e] = Owner /\ p \in ToSet(Contacts[e])}

\* The scope is read from the rows under the owner's hex pubkey.  Only contact
\* lists that the owner signed put a row there, and always at depth 1, whatever
\* lists of other people the workers process (engine.go:212 against 559).
ScopeRowsAreOwnersFollows ==
  \A p \in Names: graph[<<Owner, p>>] # NoNode =>
    p \in FollowedByOwner /\ graph[<<Owner, p>>].depth = 1

\* nophr asks no relay but the seeds and those that the owner, or somebody a
\* contact list of the owner names, has listed (engine.go:310-372, 674-711).
RelaysOfStrangersAreNotAsked ==
  \A r \in RelaysToAsk \ Seeds: \E e \in RelayLists:
    /\ PubKey[e] \in FollowedByOwner \union {Owner}
    /\ \E i \in DOMAIN Tags[e]: Tags[e][i].relay = r

\* In whatever order relay lists are handled, by bootstrap and several workers,
\* a hint is one that was saved and none that was saved is fresher
\* (relay_hints.go:28).
NewestRelayListWins ==
  \A p \in Names, r \in Relays:
    LET all == {row \in saved: row.pubkey = p /\ row.relay = r}
    IN  /\ hints[<<p, r>>] = Table!NoHint => all = {}
        /\ hints[<<p, r>>] # Table!NoHint => \E row \in all: hints[<<p, r>>] = Table!HintOf(row)
        /\ \A row \in all: row.freshness <= hints[<<p, r>>].freshness

\* The graph that processEvent builds never runs ahead of the store: a row comes
\* from a contact list that is stored, also after errors and crashes, and
\* ComputeMutuals, which rewrites a row it read earlier, invents nothing.
GraphComesFromStore ==
  \A p \in Names: graph[<<Npub, p>>] # NoNode =>
    \E e \in ContactLists \intersect store:
      p \in ToSet(Contacts[e]) /\ graph[<<Npub, p>>].last_seen = CreatedAt[e]

\* Only someone with a stored contact list that names the root is marked as mutual
\* (graph.go:112-137).
MutualsFollowBack ==
  \A r \in Roots, p \in Names: graph[<<r, p>>].mutual =>
    \E e \in ContactLists \intersect store: PubKey[e] = p /\ r \in ToSet(Contacts[e])
===============================================================================
