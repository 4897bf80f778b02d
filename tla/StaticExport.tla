----------------------------- MODULE StaticExport ----------------------------
(***************************************************************************)
(* The static exporters (internal/exporter/gopher_static.go and            *)
(* gemini_static.go).  Both are event handlers of the sync engine: the     *)
(* worker that stored an event calls one after the other, and each         *)
(* regenerates its site, file by file, when the event is a root note or an *)
(* article of the owner.  A mutex per exporter keeps the workers apart.    *)
(* The two differ only in what a page links to.                            *)
(*                                                                         *)
(* A site is a function from the paths written so far to the links in the  *)
(* file: <<>> is the root index, <<"notes">> the index of a section,       *)
(* <<"notes", id>> a page.  No file is ever removed.                       *)
(***************************************************************************)
EXTENDS Queries

CONSTANTS
  Post,           \* [id -> event]: what the workers may store
  InitialPosts,   \* ids stored before exports were enabled
  Exporters,      \* the handlers, in the order they were registered
  ExportWorkers,
  MaxItems,       \* export.*.max_items
  Nobody,         \* neither a worker nor an id
  MaxMishaps      \* bound: steps that fail, crashes and removed events

ASSUME ExportAssumption ==
  /\ IsFiniteSet({Post[id] : id \in DOMAIN Post}) /\ InitialPosts \subseteq DOMAIN Post
  /\ \A id \in DOMAIN Post : Post[id].id = id /\ Post[id].created \in Nat
  /\ \A id, other \in DOMAIN Post : Post[id].created = Post[other].created => id = other
  /\ Exporters # << >> /\ DOMAIN Exporters = 1 .. Len(Exporters) /\ Len(Exporters) \in Nat
  /\ Nobody \notin ExportWorkers
  /\ MaxItems \in Nat \ {0} /\ EngineLimit \in Nat \ {0} /\ MaxMishaps \in Nat

VARIABLES
  posts,          \* ids of the stored events
  files,          \* [exporter -> its site]
  mutex,          \* [exporter -> the worker that holds g.mu, or Nobody]
  jobs,           \* [worker -> where it is]
  mishaps,
  pruned,         \* history: ids that were ever removed
  exported,       \* history: [exporter -> ids whose export succeeded]
  intact          \* history: [exporter -> no export began writing and stopped]

exportVars == <<posts, files, mutex, jobs, mishaps, pruned, exported, intact>>

Sites == {Exporters[i] : i \in DOMAIN Exporters}

NoJob == [pc |-> "idle", turn |-> 0, id |-> Nobody, notes |-> << >>, articles |-> << >>,
          todo |-> << >>]

ExportInit ==
  /\ posts = InitialPosts
  /\ files = [s \in Sites |-> << >>]
  /\ mutex = [s \in Sites |-> Nobody]
  /\ jobs = [w \in ExportWorkers |-> NoJob]
  /\ mishaps = 0
  /\ pruned = {}
  /\ exported = [s \in Sites |-> {}]
  /\ intact = [s \in Sites |-> TRUE]

-------------------------------------------------------------------------------
(* What is exported. *)

\* The events behind some ids.
Events(ids) == {Post[id] : id \in ids}

isRootEvent(e) ==
  \/ e.kind = 1 /\ e.eTags = << >>
  \/ e.kind = 30023

isOwnerRootEvent(e) == e.author = Owner /\ isRootEvent(e)

\* The newest roots among twice as many events of the kind.
queryOwnerRoots(events, kind) ==
  LET asked == QueryEvents(events, [Everything EXCEPT !.kinds = {kind}, !.authors = {Owner},
                                                      !.limit = 2 * MaxItems])
      roots == {asked[i] : i \in {j \in DOMAIN asked : isRootEvent(asked[j])}}
  IN  Cut(NewestFirst(roots), MaxItems)

RootIndex(notes, articles) ==
  (IF notes = << >> THEN << >> ELSE << <<"notes">> >>) \o
  (IF articles = << >> THEN << >> ELSE << <<"articles">> >>)

SectionIndex(section, events) == [i \in DOMAIN events |-> <<section, events[i].id>>]

\* A Gopher page is text; a gemtext page leads back to its section and home.
PageLinks(site, section) ==
  IF site = "gemini" THEN << <<section>>, << >> >> ELSE << >>

-------------------------------------------------------------------------------
(* One worker: store an event, then HandleEvent of each exporter. *)

SiteOf(w) == Exporters[jobs[w].turn]

At(w, pc) == jobs[w].pc = pc

Goto(w, pc) == jobs' = [jobs EXCEPT ![w].pc = pc]

\* The worker has left the exporter; the next one, or the next event.
Leaves(w) ==
  jobs' = [jobs EXCEPT ![w] = IF @.turn < Len(Exporters)
                              THEN [NoJob EXCEPT !.pc = "handle", !.turn = jobs[w].turn + 1,
                                                 !.id = jobs[w].id]
                              ELSE NoJob]

StorePost(w, id) ==
  /\ At(w, "idle") /\ id \notin posts
  /\ posts' = posts \cup {id}
  /\ jobs' = [jobs EXCEPT ![w] = [NoJob EXCEPT !.pc = "handle", !.turn = 1, !.id = id]]
  /\ UNCHANGED <<files, mutex, mishaps, pruned, exported, intact>>

HandleEvent(w) ==
  /\ At(w, "handle")
  /\ IF isOwnerRootEvent(Post[jobs[w].id]) THEN Goto(w, "lock") ELSE Leaves(w)
  /\ UNCHANGED <<posts, files, mutex, mishaps, pruned, exported, intact>>

\* Variant of LockExport: no mutex.
EnterExport(w) ==
  /\ At(w, "lock")
  /\ mutex' = [mutex EXCEPT ![SiteOf(w)] = w]
  /\ Goto(w, "notes")
  /\ UNCHANGED <<posts, files, mishaps, pruned, exported, intact>>

LockExport(w) ==
  /\ At(w, "lock")
  /\ mutex[SiteOf(w)] = Nobody
  /\ mutex' = [mutex EXCEPT ![SiteOf(w)] = w]
  /\ Goto(w, "notes")
  /\ UNCHANGED <<posts, files, mishaps, pruned, exported, intact>>

QueryNotes(w) ==
  /\ At(w, "notes")
  /\ jobs' = [jobs EXCEPT ![w].pc = "articles", ![w].notes = queryOwnerRoots(Events(posts), 1)]
  /\ UNCHANGED <<posts, files, mutex, mishaps, pruned, exported, intact>>

QueryArticles(w) ==
  /\ At(w, "articles")
  /\ jobs' = [jobs EXCEPT ![w].pc = "root",
                          ![w].articles = queryOwnerRoots(Events(posts), 30023)]
  /\ UNCHANGED <<posts, files, mutex, mishaps, pruned, exported, intact>>

WriteFile(w, path, links) ==
  files' = [files EXCEPT ![SiteOf(w)] =
              [p \in DOMAIN @ \cup {path} |-> IF p = path THEN links ELSE @[p]]]

WriteRoot(w) ==
  /\ At(w, "root")
  /\ WriteFile(w, << >>, RootIndex(jobs[w].notes, jobs[w].articles))
  /\ intact' = [intact EXCEPT ![SiteOf(w)] = FALSE]
  /\ Goto(w, "noteIndex")
  /\ UNCHANGED <<posts, mutex, mishaps, pruned, exported>>

WriteNoteIndex(w) ==
  /\ At(w, "noteIndex")
  /\ WriteFile(w, <<"notes">>, SectionIndex("notes", jobs[w].notes))
  /\ Goto(w, "articleIndex")
  /\ UNCHANGED <<posts, mutex, mishaps, pruned, exported, intact>>

WriteArticleIndex(w) ==
  /\ At(w, "articleIndex")
  /\ WriteFile(w, <<"articles">>, SectionIndex("articles", jobs[w].articles))
  /\ jobs' = [jobs EXCEPT ![w].pc = "pages",
                          ![w].todo = SectionIndex("notes", jobs[w].notes) \o
                                      SectionIndex("articles", jobs[w].articles)]
  /\ UNCHANGED <<posts, mutex, mishaps, pruned, exported, intact>>

\* The pages of the notes, then those of the articles.
WritePage(w) ==
  /\ At(w, "pages") /\ jobs[w].todo # << >>
  /\ LET path == Head(jobs[w].todo) IN WriteFile(w, path, PageLinks(SiteOf(w), path[1]))
  /\ jobs' = [jobs EXCEPT ![w].todo = Tail(@)]
  /\ UNCHANGED <<posts, mutex, mishaps, pruned, exported, intact>>

Unlock(w) == mutex' = [mutex EXCEPT ![SiteOf(w)] = Nobody]

FinishExport(w) ==
  /\ At(w, "pages") /\ jobs[w].todo = << >>
  /\ exported' = [exported EXCEPT ![SiteOf(w)] = @ \cup {jobs[w].id}]
  /\ intact' = [intact EXCEPT ![SiteOf(w)] = TRUE]
  /\ Unlock(w)
  /\ Leaves(w)
  /\ UNCHANGED <<posts, files, mishaps, pruned>>

\* A directory cannot be made, a query fails, a file cannot be written: the
\* export stops there, and only a message says so.
ExportFails(w) ==
  /\ mishaps < MaxMishaps
  /\ jobs[w].pc \notin {"idle", "handle", "lock"}
  /\ mishaps' = mishaps + 1
  /\ Unlock(w)
  /\ Leaves(w)
  /\ UNCHANGED <<posts, files, pruned, exported, intact>>

\* Retention removes an event; nothing tells the exporters.
PrunePost(id) ==
  /\ id \in posts
  /\ mishaps < MaxMishaps
  /\ mishaps' = mishaps + 1
  /\ posts' = posts \ {id}
  /\ pruned' = pruned \cup {id}
  /\ UNCHANGED <<files, mutex, jobs, exported, intact>>

\* The process dies and starts again: the store and the files remain.
ExportCrash ==
  /\ mishaps < MaxMishaps
  /\ mishaps' = mishaps + 1
  /\ jobs' = [w \in ExportWorkers |-> NoJob]
  /\ mutex' = [s \in Sites |-> Nobody]
  /\ UNCHANGED <<posts, files, pruned, exported, intact>>

ExportStep(w) ==
  \/ HandleEvent(w) \/ LockExport(w) \/ QueryNotes(w) \/ QueryArticles(w)
  \/ WriteRoot(w) \/ WriteNoteIndex(w) \/ WriteArticleIndex(w) \/ WritePage(w)
  \/ FinishExport(w) \/ ExportFails(w)

ExportNext ==
  \/ \E w \in ExportWorkers : ExportStep(w) \/ \E id \in DOMAIN Post : StorePost(w, id)
  \/ \E id \in DOMAIN Post : PrunePost(id)
  \/ ExportCrash

ExportSpec == ExportInit /\ [][ExportNext]_exportVars

-------------------------------------------------------------------------------
ExportTypeOK ==
  /\ posts \cup pruned \subseteq DOMAIN Post
  /\ mutex \in [Sites -> ExportWorkers \cup {Nobody}]
  /\ exported \in [Sites -> SUBSET (posts \cup pruned)]
  /\ intact \in [Sites -> BOOLEAN]
  /\ mishaps \in 0 .. MaxMishaps

SectionOf(e) == IF e.kind = 1 THEN "notes" ELSE "articles"

Listed(site, section) == {files[site][<<section>>][i] : i \in DOMAIN files[site][<<section>>]}

\* However many newer events of the owner there ever were, they leave this one a
\* place among the events that are asked for and the roots that are kept.
Due(e) ==
  LET newer == {f \in Events(posts \cup pruned) : /\ f.kind = e.kind /\ f.author = Owner
                                              /\ f.created > e.created}
  IN  /\ Cardinality({f \in newer : isRootEvent(f)}) < MaxItems
      /\ Cardinality(newer) < Smaller(2 * MaxItems, EngineLimit)

\* Once the export of an event succeeded it stays listed on its site, with its
\* page, until it is pruned or newer ones crowd it out: a later export, of
\* whichever worker, never brings back an older listing.  And while no export
\* was cut short, every link of every file leads to a file (Export and
\* queryOwnerRoots of both exporters).
SiteListsNewestRoots ==
  \A site \in Sites : intact[site] =>
    /\ \A path \in DOMAIN files[site] : \A i \in DOMAIN files[site][path] :
         files[site][path][i] \in DOMAIN files[site]
    /\ \A id \in exported[site] \ pruned :
         LET section == SectionOf(Post[id])
         IN  Due(Post[id]) => /\ <<section, id>> \in Listed(site, section)
                              /\ \E i \in DOMAIN files[site][<< >>] : files[site][<< >>][i] = <<section>>
===============================================================================
