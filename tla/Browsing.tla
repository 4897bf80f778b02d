------------------------------- MODULE Browsing ------------------------------
(***************************************************************************)
(* A client browsing the gateway while the store changes under it.         *)
(*                                                                         *)
(* The store gains an event when the sync engine ingests one (Arrive) and  *)
(* loses one when retention prunes it (Prune).  The three servers answer   *)
(* out of it, each request in a goroutine of its own; the handlers share   *)
(* nothing but the store, so one client is enough to see what a request    *)
(* can see.  Most requests query the store once.  A note or a thread takes *)
(* up to four queries, with anything happening in between: those requests  *)
(* are steps of their own here.                                            *)
(***************************************************************************)
EXTENDS GopherSite, FingerHandler

CONSTANTS
  Event,             \* [id -> event], what the relays hold
  InitialStores,     \* sets of ids the store may start with
  Sites,             \* configurations the process may be started with
  Terms,             \* words a client searches for
  Typed,             \* selectors a client types
  FingerQueries,     \* finger queries a client sends
  GeminiListLimit, GeminiSearchLimit,
  MaxChurn,          \* a bound of the model: events that come or go
  Nothing

Gemini == INSTANCE GeminiSite

ASSUME BrowsingAssumption ==
  /\ IsFiniteSet(DOMAIN Event)
  /\ \A id \in DOMAIN Event : Event[id].id = id /\ Event[id].created \in Nat
  /\ \A id, other \in DOMAIN Event : Event[id].created = Event[other].created => id = other
  /\ \A id \in DOMAIN Event : /\ Aggregates[id].replies \in Nat
                              /\ Aggregates[id].reactions \in Nat
                              /\ Aggregates[id].zapSats \in Nat
  /\ \A ids \in InitialStores : ids \subseteq DOMAIN Event
  /\ Typed \subseteq Seq(STRING)
  /\ \A config \in Sites :
       /\ \A s \in config.sections : s.limit \in Nat \ {0} /\ s.path \in Seq(STRING)
       /\ config.limits.maxRepliesInFeed \in Int
       /\ config.limits.maxThreadDepth \in Int
  /\ {EngineLimit, SatsPerPoint, itemsPerPage, GopherListLimit, GopherSearchLimit,
      GeminiListLimit, GeminiSearchLimit, MinThreadQuery, MaxThreadQuery} \subseteq Nat \ {0}
  /\ MaxPage \in Nat

(* No thread looks like NoThread, and no two page numbers alike.           *)
ASSUME NotationAssumption ==
  /\ NoThread \notin [root : DOMAIN Event, focus : DOMAIN Event,
                      parent : UNION {[ids -> DOMAIN Event \cup {RootNode}] :
                                        ids \in SUBSET DOMAIN Event}]
  /\ \A m, n \in 0..(MaxPage + 1) : ToString(m) = ToString(n) => m = n

VARIABLES
  store,             \* ids of the stored events
  gone,              \* ids that have been pruned
  churn,
  site,              \* the configuration, fixed at start
  view,              \* the note or thread request in progress, or Nothing
  page               \* the last answer, or Nothing

vars == <<store, gone, churn, site, view, page>>

Stored == {Event[id] : id \in store}

Init ==
  /\ store \in InitialStores
  /\ gone = {}
  /\ churn = 0
  /\ site \in Sites
  /\ view = Nothing
  /\ page = Nothing

-----------------------------------------------------------------------------
(* The store.                                                              *)

Arrive(id) ==
  /\ churn < MaxChurn
  /\ id \notin store
  /\ store' = store \cup {id}
  /\ churn' = churn + 1
  /\ UNCHANGED <<gone, site, view, page>>

Prune(id) ==
  /\ churn < MaxChurn
  /\ id \in store
  /\ store' = store \ {id}
  /\ gone' = gone \cup {id}
  /\ churn' = churn + 1
  /\ UNCHANGED <<site, view, page>>

-----------------------------------------------------------------------------
(* Requests.  ok says whether the database answers.                        *)

Answered(protocol, answer) == page' = [protocol |-> protocol, answer |-> answer]

Overridden(path) == \E s \in site.sections : s.path = path

(* Selectors whose handler reads a note or a thread.                       *)
ShowsNote(path) ==
  /\ Len(path) >= 2
  /\ \/ path[1] = "note"
     \/ path[1] \in {"notes", "outbox"} /\ path[2] \notin {"", "page"}
ShowsThread(path) == Len(path) >= 2 /\ path[1] = "thread"

InOneQuery(path) == Overridden(path) \/ ~(ShowsNote(path) \/ ShowsThread(path))

AskGopher(selector, ok) ==
  /\ view = Nothing
  /\ InOneQuery(selector)
  /\ \E answer \in Route(Stored, ok, site, selector) : Answered("gopher", answer)
  /\ UNCHANGED <<store, gone, churn, site, view>>

AskGemini(request, ok) ==
  /\ view = Nothing
  /\ \/ request.line # "whole" \/ ~request.url \/ ~request.gemini
     \/ InOneQuery(request.path)
  /\ \E answer \in Gemini!handleConnection(Stored, ok, site, request) :
       Answered("gemini", answer)
  /\ UNCHANGED <<store, gone, churn, site, view>>

AskFinger(query, ok) ==
  /\ view = Nothing
  /\ Answered("finger", Handle(Stored, ok, query))
  /\ UNCHANGED <<store, gone, churn, site, view>>

(* A note or a thread is asked for on either protocol; the client waits.   *)
OpenView(protocol, path) ==
  /\ view = Nothing
  /\ ~Overridden(path)
  /\ ShowsNote(path) \/ ShowsThread(path)
  /\ view' = [protocol |-> protocol, note |-> <<>>, focus |-> <<>>, root |-> <<>>,
              id    |-> path[2],
              wants |-> IF ShowsNote(path) THEN "note" ELSE "thread",
              next  |-> IF ShowsNote(path) THEN "note" ELSE "focus"]
  /\ page' = Nothing
  /\ UNCHANGED <<store, gone, churn, site>>

(* The page made of the note and the thread the queries found.             *)
Serve(note, thread) ==
  /\ Answered(view.protocol,
       CASE view.protocol = "gopher" /\ view.wants = "note"   -> NotePage(note, thread, site)
         [] view.protocol = "gopher" /\ view.wants = "thread" -> ThreadPage(thread)
         [] view.protocol = "gemini" /\ view.wants = "note"   -> Gemini!NotePage(note, thread, site)
         [] view.protocol = "gemini" /\ view.wants = "thread" ->
              Gemini!ThreadPage(thread, site.limits))
  /\ view' = Nothing

(* handleNote: the note itself.                                            *)
ReadNote(ok) ==
  /\ view # Nothing /\ view.next = "note"
  /\ LET found == IF ok THEN fetchSingleEvent(Stored, view.id) ELSE <<>>
     IN  IF found = <<>> THEN Serve(found, NoThread)
         ELSE view' = [view EXCEPT !.note = found, !.next = "focus"] /\ UNCHANGED page
  /\ UNCHANGED <<store, gone, churn, site>>

(* GetThreadByEvent: the event again; without it there is no thread.       *)
ReadFocus(ok) ==
  /\ view # Nothing /\ view.next = "focus"
  /\ LET found == IF ok THEN fetchSingleEvent(Stored, view.id) ELSE <<>>
     IN  IF found = <<>> THEN Serve(view.note, NoThread)
         ELSE view' = [view EXCEPT !.focus = found, !.next = "root"] /\ UNCHANGED page
  /\ UNCHANGED <<store, gone, churn, site>>

(* The root it names; the focus stands in for a root that is not stored.   *)
ReadRoot(ok) ==
  /\ view # Nothing /\ view.next = "root"
  /\ LET found == fetchSingleEvent(Stored, ThreadRootOf(view.focus[1]))
     IN  IF ~ok THEN Serve(view.note, NoThread)
         ELSE /\ view' = [view EXCEPT !.root = IF found = <<>> THEN view.focus ELSE found,
                                      !.next = "replies"]
              /\ UNCHANGED page
  /\ UNCHANGED <<store, gone, churn, site>>

(* The replies that name the root, the tree, and the answer.               *)
ReadReplies(ok) ==
  /\ view # Nothing /\ view.next = "replies"
  /\ LET rootId == ThreadRootOf(view.focus[1])
     IN  Serve(view.note,
               IF ok THEN ThreadTree(view.root[1], view.id, rootId,
                                     ThreadReplies(Stored, rootId, site.limits))
                     ELSE NoThread)
  /\ UNCHANGED <<store, gone, churn, site>>

-----------------------------------------------------------------------------
(* A client follows a link of the page it looks at, types a selector, or   *)
(* sends a line no well-behaved client sends.                              *)

Offered(protocol) ==
  IF page = Nothing \/ protocol = "finger" THEN {}
  ELSE IF page.protocol # protocol THEN {}
  ELSE IF protocol = "gopher" THEN {link.to : link \in page.answer.links} ELSE page.answer.links

Request(path, q) == [line |-> "whole", url |-> TRUE, gemini |-> TRUE, path |-> path, q |-> q]

BadRequests ==
  [line : {"whole", "broken", "long"}, url : BOOLEAN, gemini : BOOLEAN, path : {<<>>}, q : {""}]
    \ {Request(<<>>, "")}

(* The client closes the page; a typed selector starts from none.          *)
Leave ==
  /\ page # Nothing
  /\ page' = Nothing
  /\ UNCHANGED <<store, gone, churn, site, view>>

Reachable(protocol) == IF page = Nothing THEN Typed ELSE Offered(protocol)

Next ==
  \/ \E id \in DOMAIN Event : Arrive(id) \/ Prune(id)
  \/ \E path \in Reachable("gopher"), ok \in BOOLEAN : AskGopher(path, ok)
  \/ \E path \in Reachable("gemini"), ok \in BOOLEAN : AskGemini(Request(path, ""), ok)
  \/ \E path \in Reachable("gopher") : OpenView("gopher", path)
  \/ \E path \in Reachable("gemini") : OpenView("gemini", path)
  \/ \E ok \in BOOLEAN : ReadNote(ok) \/ ReadFocus(ok) \/ ReadRoot(ok) \/ ReadReplies(ok)
  \/ page = Nothing /\ \E q \in Terms, ok \in BOOLEAN : AskGemini(Request(<<"search">>, q), ok)
  \/ page = Nothing /\ \E request \in BadRequests : AskGemini(request, TRUE)
  \/ page = Nothing /\ \E query \in FingerQueries, ok \in BOOLEAN : AskFinger(query, ok)
  \/ Leave

Spec == Init /\ [][Next]_vars

-----------------------------------------------------------------------------
(* Properties.                                                             *)

(* An event a link names has been pruned since, or the profile has.        *)
Vanished(path) ==
  /\ Len(path) >= 2
  /\ \/ path[2] \in gone
     \/ \E id \in gone : Event[id].kind = 0 /\ path = <<"profile", Event[id].author>>

(* Every link the gateway serves leads to a page of the form the link      *)
(* promises, however the store has changed since, unless what it names was *)
(* pruned: no selector the router does not know, no event linked that was  *)
(* never there.  A page past the end of a listing is empty, not an error,  *)
(* so this says nothing of it: see the next one.  (gopher/router.go Route  *)
(* and its handlers, gemini/router.go, sections.go.)  Two exceptions: a    *)
(* section put at the path of a text is a menu, and "Back to note" of a    *)
(* Gopher thread is a menu item for a text page.                           *)
LinksResolve ==
  /\ (page # Nothing /\ page.protocol = "gopher") =>
       \A link \in page.answer.links :
         Vanished(link.to) \/
           \A answer \in Route(Stored, TRUE, site, link.to) :
             /\ ~answer.error
             /\ \/ answer.form = link.form
                \/ Overridden(link.to)
                \/ page.answer.thread # NoThread /\ link.to = <<"note", page.answer.thread.focus>>
  /\ (page # Nothing /\ page.protocol = "gemini") =>
       \A path \in page.answer.links :
         Vanished(path) \/
           \A answer \in Gemini!Route(Stored, TRUE, site, path, "") :
             answer.status \in {Gemini!Success, Gemini!Input}

(* What follows is about the store and the configuration alone, and is     *)
(* evaluated before anything was served.                                   *)
Fresh == page = Nothing /\ view = Nothing

Bases == {"notes", "articles", "replies", "mentions"}

ListingOf(base) ==
  CASE base = "notes"    -> GetNotes(Stored, site.behavior, GopherListLimit)
    [] base = "articles" -> GetArticles(Stored, site.behavior, GopherListLimit)
    [] base = "replies"  -> GetReplies(Stored, site.behavior, GopherListLimit)
    [] base = "mentions" -> GetMentions(Stored, site.behavior, GopherListLimit)

PageSelector(base, n) == IF n = 1 THEN <<base>> ELSE <<base, "page", ToString(n)>>

(* What stands on the n-th page of a sequence.                             *)
Slice(s, n, size) == SubSeq(s, (n - 1) * size + 1, Smaller(n * size, Len(s)))

(* The n-th page of a listing shows its n-th slice, offers "Next Page"     *)
(* exactly when entries are left, and "Previous Page" after the first: a   *)
(* reader who goes from the first page to the last sees every entry once   *)
(* and in order (addPaginationLinks, paginateItems, parsePageFromParts).   *)
(* Of a section that filters nothing out afterwards and shows the newest   *)
(* first, GetPage cuts the pages out of the whole query in the same way,   *)
(* although each comes from a query of its own limit (sections.go); but no *)
(* page links a second one and no router asks for it: HasNext is true only *)
(* of a section that filters by is_reply (sections.go:209-212).            *)
PagesPartitionListing ==
  Fresh =>
    \A n \in 1..MaxPage :
      /\ \A base \in {b \in Bases : ~Overridden(PageSelector(b, n))} :
           LET linked(m) == AddDirectory(<<base, "page", ToString(m)>>)
           IN  \A answer \in Route(Stored, TRUE, site, PageSelector(base, n)) :
                 /\ answer.shows = Slice(Ids(ListingOf(base)), n, itemsPerPage)
                 /\ linked(n + 1) \in answer.links <=> n * itemsPerPage < Len(ListingOf(base))
                 /\ n > 1 => linked(n - 1) \in answer.links
      /\ \A s \in {t \in site.sections : t.isReply = {} /\ t.sortOrder = "desc"} :
           Ids(GetPage(Stored, s, n).events) =
             Slice(Ids(QueryEvents(Stored, [buildFilter(s, 1) EXCEPT !.limit = 0])), n, s.limit)

(* A thread page, judged by the replies its query read: the newest that    *)
(* name the root, as many as the thread asks for and the store gives       *)
(* (queries.go:409-417 asks for 200 at least, more than it gives).  Only   *)
(* replies of this thread are drawn, never what one of another thread that *)
(* mentions this root brings along.  When none of those was read, every    *)
(* reply that was is drawn: where the reply it answers is missing, or was  *)
(* not read for the limits, or is hidden below the depth limit, as well.   *)
(* The root is drawn under itself only when the focus stands in for a      *)
(* missing root.  (queries.go GetThreadByEvent, threading.go and both      *)
(* renderThreadNode.)                                                      *)
ThreadShowsItsReplies ==
  [][ (view # Nothing /\ view' = Nothing) =>
        LET tree == page'.answer.thread IN
        tree # NoThread =>
          LET rootId == ThreadRootOf(view.focus[1])
              naming == {e \in Stored : e.kind = 1 /\
                           \E i \in DOMAIN e.eTags : e.eTags[i].id = rootId}
              most   == Smaller(threadQueryLimit(site.limits), EngineLimit)
              read   == {e \in naming : Cardinality({f \in naming : f.created > e.created}) < most}
              own    == {e \in read : ParseThreadInfo(e).root \in {NoEvent, rootId}}
              depths == 0..Cardinality(naming)
              drawn  == UNION {NodesAtDepth(tree, d) : d \in depths} \ {RootNode}
          IN  /\ drawn \subseteq {e.id : e \in own}
              /\ read = own => drawn = {e.id : e \in own}
              /\ tree.root \in drawn => tree.root = view.id /\ rootId # view.id
    ]_vars

-----------------------------------------------------------------------------
(* The selectors a reader gets to from the home page, and the paths.       *)
GopherReach ==
  LET step(p) == {p} \cup UNION {{link.to : link \in a.links} : a \in Route(Stored, TRUE, site, p)}
      reach[d \in 0..(MaxPage + 1)] ==
        IF d = 0 THEN {<<>>} ELSE UNION {step(p) : p \in reach[d - 1]}
  IN  reach[MaxPage + 1]

GeminiReach ==
  LET step(p) == {p} \cup UNION {a.links : a \in Gemini!Route(Stored, TRUE, site, p, "")}
  IN  UNION {step(p) : p \in step(<<>>)}

(* The events a listing is made of, newest first.                          *)
Classes ==
  {{e \in Stored : e.kind = 1 /\ e.author = Owner},
   {e \in Stored : e.kind = 30023 /\ e.author = Owner},
   {e \in Stored : e.kind = 1 /\ Owner \in e.pTags}}

(* Every root note and article of the owner and every note that mentions   *)
(* the owner can be reached from the home page by links alone, on Gopher   *)
(* and on Gemini, as long as it is among the newest its listing asks for,  *)
(* passes the content filter, and the home page and the listings are not   *)
(* replaced by sections.                                                   *)
ContentIsReachable ==
  (Fresh /\ \A b \in Bases : ~Overridden(<<b>>) /\ ~Overridden(<<>>)) =>
    LET promised(e, class, limit) ==
          /\ e.author = Owner /\ e.kind = 1 => ~IsReply(ParseThreadInfo(e))
          /\ site.behavior.rules.enabled => passesContentFilter(e, site.behavior.rules)
          /\ \/ Cardinality({f \in class : f.created >= e.created}) <= limit
                /\ \A b \in Bases : site.behavior[b] = "chronological"
             \/ Cardinality(class) <= limit
        notes(limit) ==
          UNION {{<<"note", e.id>> : e \in {f \in class : promised(f, class, limit)}} :
                   class \in Classes}
    IN  /\ notes(Smaller(GopherListLimit, EngineLimit)) \subseteq GopherReach
        /\ notes(Smaller(GeminiListLimit, EngineLimit)) \subseteq GeminiReach
=============================================================================
